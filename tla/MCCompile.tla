------------------------------ MODULE MCCompile ------------------------------
(***************************************************************************)
(* A small project for Compile: directories a and b with a source each,    *)
(* compiled there with -I., and a directory of headers.  a's source is     *)
(* compiled twice, the second time into a directory of its own, with the   *)
(* same flags.                                                             *)
(***************************************************************************)
EXTENDS Compile

CONSTANTS
    one, two        \* what a's source holds: it includes h.h, or ../inc/h.h if
                    \* there is none (by __has_include); or nothing

MCSource == <<"w", "a", "x.c">>
MCHeader == <<"w", "a", "h.h">>
IncHeader == <<"w", "inc", "h.h">>
BSource == <<"w", "b", "x.c">>
BHeader == <<"w", "b", "h.h">>
MCFiles == {MCSource, MCHeader, IncHeader, BSource, BHeader}

AObject == <<"w", "a", "x.o">>
APic == <<"w", "pic", "x.o">>
BObject == <<"w", "b", "x.o">>
MCOuts == {AObject, APic, BObject}
AOuts == {AObject, APic}

InA(o) == o # BObject
MCSources == [o \in Outs |-> IF InA(o) THEN MCSource ELSE BSource]
MCCwd == [o \in Outs |-> IF InA(o) THEN <<"w", "a">> ELSE <<"w", "b">>]
MCIncDirs == [o \in Outs |-> {MCCwd[o]}]
MCKey == [o \in Outs |-> IF InA(o) THEN "a" ELSE "b"]
MCLookups ==
    [o \in Outs |->
        [c \in {one, two} |->
            IF InA(o) THEN IF c = one THEN {<<MCHeader, IncHeader>>} ELSE {}
            ELSE {<<BHeader>>}]]
MCVersions == [f \in MCFiles |-> IF f = MCSource THEN {two} ELSE {one}]

MCEdited == {MCSource, MCHeader}
MCCreated == {MCSource}

MCInodes == 1..7
MCFile == MCSource :> 1 @@ MCHeader :> 2 @@ IncHeader :> 3 @@ BSource :> 4
              @@ BHeader :> 5
MCData == [i \in MCInodes |-> one]

\* The hypotheses of the theorems hold here, unless b is compiled too: its output
\* has the name a's has, below a root that ends where b begins.
ASSUME Hypotheses == NoNewHeaders /\ (Outs = AOuts <=> DistinctTus)

ProcSymmetry == Permutations(Procs)
=============================================================================
