----------------------------- MODULE MCBatching -----------------------------
(***************************************************************************)
(* Two objects of one basename in a thin archive, which is a member of     *)
(* another thin one next to a third object; a plain archive shares an      *)
(* object with each.  The program links the outer archive and the plain    *)
(* one.  Built natively, eagerly, as two targets of a sandboxed            *)
(* derivation, as its one plain target, and as a captured tree.            *)
(***************************************************************************)
EXTENDS Batching, TLC

Objs == {"x/cpu.o", "cpu.o", "main.o"}
Libs == {"in.a", "all.a", "lib.a"}
Bins == {"exe"}

Reads == [o \in Objs |-> <<>>]
    @@ ("in.a" :> <<"x/cpu.o", "cpu.o">>)
    @@ ("all.a" :> <<"in.a", "main.o">>)
    @@ ("lib.a" :> <<"cpu.o", "main.o">>)
    @@ ("exe" :> <<"all.a", "lib.a">>)

Stems == ("x/cpu.o" :> <<"cpu">>) @@ ("cpu.o" :> <<"cpu">>) @@ ("main.o" :> <<"main">>)

Endings == [o \in Objs |-> ".o"] @@ [o \in Libs |-> ".a"] @@ [o \in Bins |-> ""]

Grouped(a, b, c) == "x/cpu.o" :> a @@ "cpu.o" :> b @@ "main.o" :> c
NoGroup == Grouped("", "", "")
Same == Grouped("g", "g", "g")
Part == Grouped("g", "g", "")
Mixed == Grouped("g", "h", "g")

Keys(lib, exe) == [o \in Objs \cup Libs \cup Bins |->
    CASE o = "lib.a" -> lib [] o = "exe" -> exe [] OTHER -> ""]

Env(mode, group, targeted, key) ==
    [mode |-> mode, group |-> group, targeted |-> targeted, key |-> key]

Environments ==
    {Env(m, g, TRUE, Keys("lib", "exe")) :
        m \in {"native", "sandbox"}, g \in {Same, Mixed}}
    \cup {Env("eager", Mixed, TRUE, Keys("lib", "exe")),
          Env("sandbox", Part, TRUE, Keys("", "out")),
          Env("sandbox", Mixed, FALSE, Keys("", "")),
          Env("sandbox", NoGroup, TRUE, Keys("", ""))}

Depths == [o \in Objs |-> 0]
    @@ ("in.a" :> 1) @@ ("lib.a" :> 1) @@ ("all.a" :> 2) @@ ("exe" :> 3)

ASSUME Hypotheses == /\ ConventionalNames /\ CapturesUngrouped
                     /\ RecipeRanks(Depths) /\ NoGeneratedNames
=============================================================================
