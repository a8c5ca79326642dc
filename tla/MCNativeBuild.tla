---------------------------- MODULE MCNativeBuild ----------------------------
(***************************************************************************)
(* Small workspaces for NativeBuild.  An id is a record of what it builds: *)
(* the outputs it may be written to, the variant of the command line, and  *)
(* its references.                                                         *)
(***************************************************************************)
EXTENDS NativeBuild, TLC

CONSTANTS
    foo, bar,       \* objects
    lib, lib2,      \* archives
    prog, prog2,    \* executables
    Variants        \* command lines an object is compiled with

Id(outs, var, rs) == [outs |-> outs, var |-> var, refs |-> rs]
RefTo(S) == [via : {"nix", "store"}, id : S]

Compiled(o) == {Id({o}, v, <<>>) : v \in Variants}
Rewritten(o) == {Id({o}, 0, <<r>>) : r \in RefTo(Compiled(o))}
Over(outs, S) == {Id(outs, 0, <<r>>) : r \in RefTo(S)}
OverTwo(outs, S, T) == {Id(outs, 0, <<r, s>>) : r \in RefTo(S), s \in RefTo(T)}

RefsOf(S) == [t \in S |-> t.refs]
OutputsOf(S) == [t \in S |-> t.outs]
ImportsOf(S) ==
    [t \in S |-> LET n == SelectSeq(t.refs, LAMBDA r : r.via = "nix")
                 IN  [i \in DOMAIN n |-> n[i].id]]

-----------------------------------------------------------------------------
\* An object objtool rewrites in place, and an archive of it.
ObjtoolPaths == {foo, lib}
ObjtoolInputs == foo :> <<>> @@ lib :> <<foo>>
ObjtoolBelow == foo :> {} @@ lib :> {foo}
ObjtoolIds == Compiled(foo) \cup Rewritten(foo)
                  \cup Over({lib}, Compiled(foo) \cup Rewritten(foo))
ObjtoolRefs == RefsOf(ObjtoolIds)
ObjtoolImports == ImportsOf(ObjtoolIds)
ObjtoolOutputs == OutputsOf(ObjtoolIds)

\* Two executables that share an object, and one that needs another as well;
\* objtool may rewrite the shared one.
SharedPaths == {foo, bar, prog, prog2}
SharedInputs == foo :> <<>> @@ bar :> <<>>
                    @@ prog :> <<foo>> @@ prog2 :> <<bar, foo>>
SharedBelow == foo :> {} @@ bar :> {} @@ prog :> {foo} @@ prog2 :> {foo, bar}
SharedFoos ==
    Compiled(foo) \cup {t \in Rewritten(foo) : foo \in Transformed}
SharedIds == SharedFoos \cup Compiled(bar) \cup Over({prog}, SharedFoos)
                 \cup OverTwo({prog2}, Compiled(bar), SharedFoos)
SharedRefs == RefsOf(SharedIds)
SharedImports == ImportsOf(SharedIds)
SharedOutputs == OutputsOf(SharedIds)

\* Two archives of one basename and one content, so of one expression, and an
\* executable over the first.
TwinPaths == {foo, lib, lib2, prog}
TwinInputs == foo :> <<>> @@ lib :> <<foo>> @@ lib2 :> <<foo>> @@ prog :> <<lib>>
TwinBelow == foo :> {} @@ lib :> {foo} @@ lib2 :> {foo} @@ prog :> {foo, lib}
TwinLibs == Over({lib, lib2}, Compiled(foo))
TwinIds == Compiled(foo) \cup TwinLibs \cup Over({prog}, TwinLibs)
TwinRefs == RefsOf(TwinIds)
TwinImports == ImportsOf(TwinIds)
TwinOutputs == OutputsOf(TwinIds)

\* The general theorems are about make graphs like these, and the builds of the
\* runs without force at any time are among those they are about.
Depth[t \in Ids] ==
    LET below == {Depth[Imports[t][i]] : i \in DOMAIN Imports[t]}
    IN  IF below = {} THEN 0 ELSE 1 + CHOOSE n \in below : \A k \in below : k <= n
ASSUME Hypotheses == Ranks(Depth) /\ (RealiseNow # {} => PlainMake)

ProcSymmetry == Permutations(Procs)
=============================================================================
