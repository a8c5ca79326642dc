--------------------------- MODULE ConsumerProofs ---------------------------
(***************************************************************************)
(* What a shim that consumes outputs finds, for any graph, any number of   *)
(* shims, forces and rebuilds, until something fails: its expression       *)
(* refers to what was last published at its operands, to the rewrite of    *)
(* one that objtool rewrites; no shim falls back on the real tool; a       *)
(* promoted record says what the bytes at its path were built from; and an *)
(* output that was replaced does not come back.                            *)
(*                                                                         *)
(* The hypothesis PlainMake is needed. Under AUTOFORCE, and where force    *)
(* takes on what objtool or two recipes of one expression write, an        *)
(* operand may change while a shim classifies it, or an old output may     *)
(* come back (see the README).                                             *)
(*                                                                         *)
(* The invariant, MakeInv. None of the properties is inductive: each       *)
(* speaks of what one process read some steps ago and of what others have  *)
(* done since. No two shims are at work on a path and on what it depends   *)
(* on (Apart), and shims and forces take turns (Turns). So what a shim has *)
(* classified is what its operands still are (GatherOK), objtool reads the *)
(* placeholder its own recipe has linked (InPlaceOK), a shim that has      *)
(* linked its output still finds it there (LinkOK), and one whose mode is  *)
(* Realise promotes its own output and nothing else (AloneOK). A force is  *)
(* after what was last published at its target and at what the target      *)
(* depends on (RealisingOK), whatever other forces have promoted of it.    *)
(* Between the steps of those that work on it a path is calm: what is      *)
(* there and its record are of what was last published there (Calm), and   *)
(* that is an expression for that very path with one reference for each of *)
(* its inputs (LatestOK).                                                  *)
(***************************************************************************)
EXTENDS NativeBuildProofs, Induction

\* p runs a shim that is not passing through.
Working(p) == kind[p] \in {"recipe", "objtool"}

\* The thunk t is what objtool made of another thunk for o.
Rewrites(t, o) == \E r \in Imported(t) : o \in Outputs[r.id]

\* The thunk t is one that p may have written for its output.
MadeBy(p, t) ==
    /\ t \in Ids /\ out[p] \in Outputs[t]
    /\ IF kind[p] = "recipe" THEN Len(Refs[t]) = Len(Inputs[out[p]])
                             ELSE Rewrites(t, out[p])

KindOK(p) ==
    /\ kind[p] # "passthrough"
    /\ kind[p] = "none" <=> pc[p] = "idle"
    /\ pc[p] = "idle" => refs[p] = <<>> /\ stack[p] = <<>> /\ queue[p] = <<>>

\* No two shims of a make are at work on a path and on what it depends on.
Apart ==
    \A p, q \in Procs : p # q /\ Working(p) /\ Working(q) =>
        out[p] # out[q] /\ out[p] \notin Below[out[q]]

\* Shims and forces take turns.
Turns == \A p, q \in Procs : Working(p) => kind[q] # "force"

\* Of the operands all, the last ones, rest, are still to be classified and the
\* first ones have been, as what last says of them.
Tally(all, rest, found, last) ==
    /\ Len(found) + Len(rest) = Len(all)
    /\ \A i \in DOMAIN rest : rest[i] = all[Len(found) + i]
    /\ \A i \in DOMAIN found : found[i].id = last[all[i]]

\* What p has classified is what its operands are.
GatherOK(p) ==
    /\ Tally(Inputs[out[p]], args[p], refs[p], latest)
    /\ pc[p] = "readlink" => tree[Head(args[p])].kind = "symlink"
    /\ pc[p] = "lookup" => tree[Head(args[p])].kind = "file"

\* objtool reads its own output, which the compile shim has just linked.
InPlaceOK(p) ==
    /\ out[p] \in Transformed
    /\ \/ /\ args[p] = <<out[p]>> /\ refs[p] = <<>>
          /\ pc[p] \in {"classify", "readlink"}
          /\ tree[out[p]] = Symlink(latest[out[p]])
       \/ /\ args[p] = <<>> /\ Len(refs[p]) = 1 /\ refs[p][1].via = "nix"
          /\ out[p] \in Outputs[refs[p][1].id]
          /\ pc[p] \notin {"readlink", "lookup"}

LinkOK(p) ==
    /\ pc[p] \in {"remove", "symlink", "unpromote", "scan", "append", "written"} =>
           MadeBy(p, id[p])
    /\ pc[p] = "symlink" => tree[out[p]] = Absent
    /\ pc[p] \in {"unpromote", "scan", "append", "written"} =>
           tree[out[p]] = Symlink(id[p]) /\ latest[out[p]] = id[p]

\* A shim whose mode is Realise promotes its own output and nothing else.
AloneOK(p) ==
    /\ stack[p] = <<>> /\ queue[p] = <<>>
    /\ pc[p] \in RealisePCs => kind[p] = "recipe" /\ out[p] \notin Transformed
    /\ pc[p] = "promote" => names[p] = <<>>
    /\ pc[p] \in {"collect"} \cup Promotion =>
           names[p] = <<out[p]>> /\ direct[p] /\ MadeBy(p, cur[p])
    /\ pc[p] = "record" => fh[p]
    /\ pc[p] \in {"truncate", "record"} =>
           tree[out[p]] = File(cur[p]) /\ latest[out[p]] = cur[p]

RecipeOK(p) ==
    Working(p) =>
        /\ \A b \in Below[out[p]] : Exists(b)
        /\ kind[p] = "recipe" => GatherOK(p)
        /\ kind[p] = "objtool" => InPlaceOK(p)
        /\ LinkOK(p) /\ AloneOK(p)

\* What a force realises is what was last published at its target or at what
\* the target depends on.
Current(p, t) == t \in Ids /\ \E b \in Below[out[p]] \cup {out[p]} : latest[b] = t

RealisingOK(p) ==
    /\ Current(p, cur[p])
    /\ \A i \in DOMAIN stack[p] : Current(p, stack[p][i])
    /\ \A i \in DOMAIN queue[p] : Current(p, queue[p][i])
    /\ \A i \in DOMAIN names[p] : latest[names[p][i]] = cur[p]
    /\ direct[p] => queue[p] # <<>> /\ pc[p] # "promote"
    /\ pc[p] = "record" => fh[p]

TargetOK(p) ==
    \/ args[p] = <<out[p]>> /\ refs[p] = <<>>
    \/ /\ pc[p] = "classify" /\ args[p] = <<>> /\ Len(refs[p]) = 1
       /\ refs[p][1].id = latest[out[p]]

ForceOK(p) ==
    kind[p] = "force" =>
        /\ out[p] \in Forced
        /\ \A b \in Below[out[p]] \cup {out[p]} : UpToDate(b)
        /\ pc[p] \in {"classify", "readlink", "lookup"} \cup RealisePCs
        /\ pc[p] \notin RealisePCs => TargetOK(p)
        /\ pc[p] \in RealisePCs => RealisingOK(p)

\* The expression last published at o is one for o, with one reference for each
\* input or, where objtool rewrites o, with one to another expression for o.
LatestOK(o) ==
    latest[o] # NoId =>
        /\ o \in Outputs[latest[o]]
        /\ o \notin Transformed => Len(Refs[latest[o]]) = Len(Inputs[o])
        /\ o \in Transformed =>
              Rewrites(latest[o], o) \/ \E p \in Procs : Working(p) /\ out[p] = o

\* What is at o, and its promoted record, are of what was last published there.
Calm(o) ==
    /\ tree[o] \in {Absent, Symlink(latest[o]), File(latest[o])}
    /\ Exists(o) => latest[o] # NoId
    /\ promoted[o] \in {NoId, latest[o]}
    /\ tree[o].kind = "file" /\ ~Promoting(o) => promoted[o] = latest[o]

Stirred(o) ==
    \E p \in Procs : Working(p) /\ out[p] = o /\ pc[p] \in {"unpromote", "truncate"}

LinesOK == \A t \in Ids : \A o \in Lines(t) : o \in Outputs[t]

MakeInv ==
    /\ Apart /\ Turns /\ LinesOK
    /\ \A p \in Procs : KindOK(p) /\ RecipeOK(p) /\ ForceOK(p)
    /\ \A o \in Paths : LatestOK(o) /\ (Stirred(o) \/ Calm(o))

-----------------------------------------------------------------------------
\* The locals of every other process stay as they are.
OthersStay(p) ==
    \A q \in Procs \ {p} :
        /\ pc'[q] = pc[q] /\ kind'[q] = kind[q] /\ out'[q] = out[q]
        /\ args'[q] = args[q] /\ refs'[q] = refs[q] /\ id'[q] = id[q]
        /\ names'[q] = names[q] /\ cur'[q] = cur[q] /\ stack'[q] = stack[q]
        /\ queue'[q] = queue[q] /\ direct'[q] = direct[q]
        /\ pc[q] = "record" => fh'[q] = fh[q]

\* The inputs of a recipe are among what its output depends on.
LEMMA InputsBelow ==
  ASSUME NEW o \in Paths
  PROVE  /\ Inputs[o] \in Seq(Paths) /\ Below[o] \subseteq Paths
         /\ \A i \in 1 .. Len(Inputs[o]) : Inputs[o][i] \in Below[o]
  BY BelowAssumption, InputsAssumption

\* A shim that has an operand in hand has it from its recipe.
LEMMA OperandBelow ==
  ASSUME IInv, NEW p \in Procs, kind[p] = "recipe", GatherOK(p), out[p] \in Paths
  PROVE  /\ \A i \in DOMAIN args[p] : args[p][i] \in Below[out[p]]
         /\ \A i \in DOMAIN refs[p] : Inputs[out[p]][i] \in Below[out[p]]
         /\ args[p] # <<>> => 1 \in DOMAIN args[p] /\ Head(args[p]) = args[p][1]
<1>1. args[p] \in Seq(Paths) /\ refs[p] \in Seq(Ref)
  BY DEF IInv, TypeOK, LocalsTypeOK
<1> PICK rest, found, all : rest = args[p] /\ found = refs[p] /\ all = Inputs[out[p]]
  OBVIOUS
<1>2. /\ rest \in Seq(Paths) /\ found \in Seq(Ref) /\ all \in Seq(Paths)
      /\ Len(found) + Len(rest) = Len(all)
      /\ \A i \in DOMAIN rest : rest[i] = all[Len(found) + i]
      /\ \A i \in 1 .. Len(all) : all[i] \in Below[out[p]]
  BY <1>1, InputsBelow DEF GatherOK, Tally
<1> DEFINE k == Len(found)
           m == Len(rest)
           n == Len(all)
<1>7. /\ k \in Nat /\ m \in Nat /\ n \in Nat /\ k + m = n
      /\ DOMAIN rest = 1 .. m /\ DOMAIN found = 1 .. k
  BY <1>2, LenProperties, Zenon
<1>3. \A i \in DOMAIN rest : k + i \in 1 .. n
  <2> HIDE DEF k, m, n
  <2> QED  BY <1>7
<1>4. \A i \in DOMAIN found : i \in 1 .. n
  <2> HIDE DEF k, m, n
  <2> QED  BY <1>7
<1>5. rest # <<>> => 1 \in DOMAIN rest /\ Head(rest) = rest[1]
  BY <1>2
<1>6. QED
  BY <1>2, <1>3, <1>4, <1>5

\* Nothing a shim relies on changes when another shim works on its own output.
LEMMA RecipeFrame ==
  ASSUME IInv, MakeInv, NEW p \in Procs, NEW o \in Paths, Working(p), o = out[p],
         OthersStay(p),
         \A x \in Paths \ {o} : tree'[x] = tree[x] /\ latest'[x] = latest[x],
         NEW q \in Procs \ {p}
  PROVE  RecipeOK(q)'
<1> SUFFICES ASSUME Working(q) PROVE RecipeOK(q)'
  BY DEF RecipeOK, OthersStay, Working
<1>1. /\ pc'[q] = pc[q] /\ kind'[q] = kind[q] /\ out'[q] = out[q]
      /\ args'[q] = args[q] /\ refs'[q] = refs[q] /\ id'[q] = id[q]
      /\ names'[q] = names[q] /\ cur'[q] = cur[q] /\ stack'[q] = stack[q]
      /\ queue'[q] = queue[q] /\ direct'[q] = direct[q]
      /\ pc[q] = "record" => fh'[q] = fh[q]
  BY DEF OthersStay
<1>2. out[q] \in Paths /\ out[q] # o /\ o \notin Below[out[q]] /\ Below[out[q]] \subseteq Paths
  <2>1. pc[q] # "idle"
    BY DEF MakeInv, KindOK, Working
  <2>2. out[q] \in Paths
    BY <2>1 DEF IInv, LocalsOK, LocalOK
  <2>3. QED
    BY <2>2, BelowAssumption DEF MakeInv, Apart
<1>3. /\ tree'[out[q]] = tree[out[q]] /\ latest'[out[q]] = latest[out[q]]
      /\ \A b \in Below[out[q]] : tree'[b] = tree[b] /\ latest'[b] = latest[b]
  BY <1>2
<1>4. RecipeOK(q)
  BY DEF MakeInv
<1>5. ASSUME kind[q] = "recipe" PROVE GatherOK(q)'
  <2>1. GatherOK(q)
    BY <1>4, <1>5 DEF RecipeOK, Working
  <2>2. pc[q] \in {"readlink", "lookup"} => args[q] # <<>>
    BY DEF IInv, LocalsOK, LocalOK
  <2>3. /\ \A i \in DOMAIN refs[q] : Inputs[out[q]][i] \in Below[out[q]]
        /\ args[q] # <<>> => Head(args[q]) \in Below[out[q]]
    BY <1>2, <1>5, <2>1, OperandBelow
  <2>4. Tally(Inputs[out[q]], args[q], refs[q], latest')
    BY <1>3, <2>1, <2>3 DEF GatherOK, Tally
  <2>5. /\ pc[q] = "readlink" => tree'[Head(args[q])].kind = "symlink"
        /\ pc[q] = "lookup" => tree'[Head(args[q])].kind = "file"
    <3>1. args[q] # <<>> => tree'[Head(args[q])] = tree[Head(args[q])]
      BY <1>3, <2>3
    <3>2. QED
      BY <2>1, <2>2, <3>1 DEF GatherOK
  <2>6. QED
    BY <1>1, <2>1, <2>4, <2>5 DEF GatherOK
<1>6. ASSUME kind[q] = "objtool" PROVE InPlaceOK(q)'
  BY <1>1, <1>3, <1>4, <1>6 DEF RecipeOK, Working, InPlaceOK, Symlink
<1>7. LinkOK(q)' /\ AloneOK(q)'
  <2>1. LinkOK(q) /\ AloneOK(q)
    BY <1>4 DEF RecipeOK
  <2>2. LinkOK(q)'
    BY <1>1, <1>3, <2>1 DEF LinkOK, MadeBy
  <2>3. AloneOK(q)'
    BY <1>1, <1>3, <2>1 DEF AloneOK, MadeBy
  <2>4. QED
    BY <2>2, <2>3
<1>8. \A b \in Below[out[q]] : Exists(b)'
  BY <1>3, <1>4 DEF RecipeOK, Exists
<1>9. QED
  BY <1>1, <1>5, <1>6, <1>7, <1>8 DEF RecipeOK, Working

\* What a step of a shim p with output o has to show of p and of o.
WorkKept(p, o) ==
    /\ kind'[p] # "force" /\ (Working(p)' => out'[p] = o)
    /\ KindOK(p)' /\ RecipeOK(p)' /\ LatestOK(o)' /\ (Stirred(o) \/ Calm(o))'
    /\ LinesOK'

\* A shim's step keeps the invariant if it keeps its own part of it.
LEMMA WorkFrame ==
  ASSUME IInv, IInv', MakeInv, NEW p \in Procs, NEW o \in Paths, Working(p), o = out[p],
         OthersStay(p),
         \A x \in Paths \ {o} : /\ tree'[x] = tree[x] /\ latest'[x] = latest[x]
                                /\ promoted'[x] = promoted[x],
         WorkKept(p, o)
  PROVE  MakeInv'
<1>1. \A q \in Procs \ {p} : /\ pc'[q] = pc[q] /\ kind'[q] = kind[q] /\ out'[q] = out[q]
                             /\ names'[q] = names[q] /\ refs'[q] = refs[q]
                             /\ stack'[q] = stack[q] /\ queue'[q] = queue[q]
  BY DEF OthersStay
<1>2. \A q \in Procs : kind'[q] # "force"
  BY <1>1 DEF WorkKept, MakeInv, Turns
<1>3. Turns'
  BY <1>2 DEF Turns
<1>4. Apart'
  <2> SUFFICES ASSUME NEW q \in Procs, NEW r \in Procs, q # r, Working(q)', Working(r)'
               PROVE  out'[q] # out'[r] /\ out'[q] \notin Below[out'[r]]
    BY DEF Apart
  <2>1. Working(q) /\ Working(r) /\ out'[q] = out[q] /\ out'[r] = out[r]
    BY <1>1 DEF Working, WorkKept
  <2>2. QED
    BY <2>1 DEF MakeInv, Apart
<1>5. ASSUME NEW q \in Procs PROVE KindOK(q)' /\ RecipeOK(q)' /\ ForceOK(q)'
  <2>1. ForceOK(q)'
    BY <1>2 DEF ForceOK
  <2>2. CASE q = p
    BY <2>1, <2>2 DEF WorkKept
  <2>3. CASE q # p
    <3>1. KindOK(q)'
      BY <1>1, <2>3 DEF KindOK, MakeInv
    <3>2. RecipeOK(q)'
      BY <2>3, RecipeFrame
    <3>3. QED
      BY <2>1, <3>1, <3>2
  <2>4. QED
    BY <2>2, <2>3
<1>6. ASSUME NEW x \in Paths, x # o PROVE LatestOK(x)' /\ (Stirred(x) \/ Calm(x))'
  <2>1. tree'[x] = tree[x] /\ latest'[x] = latest[x] /\ promoted'[x] = promoted[x]
    BY <1>6
  <2>2. ASSUME NEW q \in Procs, Working(q), out[q] = x
        PROVE  Working(q)' /\ out'[q] = x /\ pc'[q] = pc[q]
    BY <1>1, <1>6, <2>2 DEF Working
  <2>3. LatestOK(x)'
    BY <2>1, <2>2 DEF LatestOK, MakeInv
  <2>4. Stirred(x) => Stirred(x)'
    BY <2>2 DEF Stirred
  <2>5. ASSUME Promoting(x) PROVE Promoting(x)'
    <3>1. PICK q \in Procs : pc[q] \in {"truncate", "record"} /\ Head(names[q]) = x
      BY <2>5 DEF Promoting
    <3>2. q # p
      <4>1. ASSUME q = p PROVE FALSE
        <5>1. names[p] = <<o>>
          BY <3>1, <4>1 DEF MakeInv, RecipeOK, AloneOK, Promotion
        <5>2. QED
          BY <1>6, <3>1, <4>1, <5>1
      <4>2. QED
        BY <4>1
    <3>3. QED
      BY <1>1, <3>1, <3>2 DEF Promoting
  <2>6. Calm(x) => Calm(x)'
    BY <2>1, <2>5 DEF Calm, Exists, Symlink, File
  <2>7. QED
    BY <2>3, <2>4, <2>6 DEF MakeInv
<1>7. \A x \in Paths : LatestOK(x)' /\ (Stirred(x) \/ Calm(x))'
  BY <1>6 DEF WorkKept
<1>8. QED
  BY <1>3, <1>4, <1>5, <1>7 DEF MakeInv, WorkKept

\* While a force runs no shim does, and what is published stays so.
LEMMA ForceFrame ==
  ASSUME IInv, MakeInv, NEW p \in Procs, kind[p] = "force", OthersStay(p),
         UNCHANGED <<latest, manifest>>, kind'[p] \in {"force", "none"},
         KindOK(p)', ForceOK(p)', \A x \in Paths : Calm(x)'
  PROVE  MakeInv'
<1>1. \A q \in Procs : ~Working(q)
  BY DEF MakeInv, Turns
<1>2. \A q \in Procs : ~Working(q)'
  BY <1>1 DEF Working, OthersStay
<1>3. Apart' /\ Turns'
  BY <1>2 DEF Apart, Turns
<1>4. LinesOK'
  BY DEF MakeInv, LinesOK, Lines
<1>5. ASSUME NEW q \in Procs, q # p PROVE KindOK(q)' /\ RecipeOK(q)' /\ ForceOK(q)'
  <2>1. /\ pc'[q] = pc[q] /\ kind'[q] = kind[q] /\ out'[q] = out[q]
        /\ args'[q] = args[q] /\ refs'[q] = refs[q] /\ id'[q] = id[q]
        /\ names'[q] = names[q] /\ cur'[q] = cur[q] /\ stack'[q] = stack[q]
        /\ queue'[q] = queue[q] /\ direct'[q] = direct[q]
        /\ pc[q] = "record" => fh'[q] = fh[q]
    BY <1>5 DEF OthersStay
  <2>2. KindOK(q)'
    BY <2>1 DEF MakeInv, KindOK
  <2>3. RecipeOK(q)'
    BY <1>2 DEF RecipeOK
  <2>4. ForceOK(q)'
    <3> SUFFICES ASSUME kind[q] = "force" PROVE ForceOK(q)'
      BY <2>1 DEF ForceOK
    <3>1. ForceOK(q)
      BY DEF MakeInv
    <3>2. TargetOK(q) => TargetOK(q)'
      BY <2>1 DEF TargetOK
    <3>3. \A t : Current(q, t) => Current(q, t)'
      BY <2>1 DEF Current
    <3>4. pc[q] \in RealisePCs /\ RealisingOK(q) => RealisingOK(q)'
      BY <2>1, <3>3 DEF RealisingOK, Current
    <3>5. \A b : UpToDate(b) => UpToDate(b)'
      BY DEF UpToDate
    <3>6. QED
      BY <2>1, <3>1, <3>2, <3>4, <3>5 DEF ForceOK
  <2>5. QED
    BY <2>2, <2>3, <2>4
<1>6. RecipeOK(p)'
  BY <1>2 DEF RecipeOK
<1>7. ASSUME NEW x \in Paths PROVE LatestOK(x)'
  BY <1>1 DEF MakeInv, LatestOK
<1>8. QED
  BY <1>3, <1>4, <1>5, <1>6, <1>7 DEF MakeInv

-----------------------------------------------------------------------------
\* A shim that is at work has an output.
LEMMA OutputOfWork ==
  ASSUME IInv, MakeInv, NEW p \in Procs, Working(p)
  PROVE  pc[p] # "idle" /\ out[p] \in Paths /\ out[p] \notin Below[out[p]]
<1>1. pc[p] # "idle"
  BY DEF MakeInv, KindOK, Working
<1>2. QED
  BY <1>1, BelowAssumption DEF IInv, LocalsOK, LocalOK

\* Nobody is at work on what a shim's output depends on, or is promoting it.
LEMMA BelowHeldStill ==
  ASSUME IInv, MakeInv, NEW p \in Procs, Working(p), NEW x \in Below[out[p]]
  PROVE  /\ x \in Paths /\ Calm(x) /\ Exists(x) /\ ~Promoting(x) /\ LatestOK(x)
         /\ \A q \in Procs : Working(q) => out[q] # x
<1>1. x \in Paths /\ out[p] \notin Below[out[p]]
  BY OutputOfWork, BelowAssumption
<1>2. \A q \in Procs : Working(q) => out[q] # x
  BY <1>1 DEF MakeInv, Apart
<1>3. ~Promoting(x)
  <2> SUFFICES ASSUME NEW q \in Procs, pc[q] \in {"truncate", "record"}, Head(names[q]) = x
               PROVE  FALSE
    BY DEF Promoting
  <2>1. Working(q)
    BY DEF MakeInv, Turns, KindOK, Working, IInv, TypeOK, LocalsTypeOK, Kinds
  <2>2. names[q] = <<out[q]>>
    BY <2>1 DEF MakeInv, RecipeOK, AloneOK, Promotion
  <2>3. QED
    BY <1>2, <2>1, <2>2
<1>4. Exists(x)
  BY DEF MakeInv, RecipeOK
<1>5. QED
  BY <1>1, <1>2, <1>3, <1>4 DEF MakeInv, Stirred

\* What a shim has put at its own output, before it touches it and after.
LEMMA OwnCalm ==
  ASSUME IInv, MakeInv, NEW p \in Procs, Working(p), pc[p] \notin {"unpromote", "truncate"}
  PROVE  Calm(out[p])
  BY OutputOfWork DEF MakeInv, Stirred, Apart

\* A step that leaves the files alone leaves a shim's output as it was.
LEMMA FilesKept ==
  ASSUME IInv, MakeInv, NEW p \in Procs, NEW o \in Paths, Working(p), o = out[p],
         OthersStay(p), UNCHANGED <<tree, promoted, latest, manifest>>,
         pc[p] \notin {"unpromote", "truncate", "record"},
         \/ Working(p)' /\ out'[p] = o
         \/ latest[o] # NoId /\ o \in Transformed => Rewrites(latest[o], o)
  PROVE  LatestOK(o)' /\ (Stirred(o) \/ Calm(o))' /\ LinesOK'
<1>1. LinesOK'
  BY DEF MakeInv, LinesOK, Lines
<1>2. LatestOK(o)'
  BY DEF MakeInv, LatestOK, OthersStay
<1>3. Promoting(o) => Promoting(o)'
  BY DEF Promoting, OthersStay
<1>4. Calm(o)'
  BY <1>3, OwnCalm DEF Calm, Exists
<1>5. QED
  BY <1>1, <1>2, <1>4

\* A shim that is done, and has left nothing half done, is gone.
LEMMA LeaveKept ==
  ASSUME IInv, MakeInv, NEW p \in Procs, NEW o \in Paths, Working(p), o = out[p],
         Leave(p), UNCHANGED <<tree, promoted, latest, manifest>>,
         pc[p] \notin {"unpromote", "truncate", "record"},
         latest[o] # NoId /\ o \in Transformed => Rewrites(latest[o], o)
  PROVE  OthersStay(p) /\ WorkKept(p, o)
<1>1. /\ OthersStay(p) /\ kind'[p] = "none" /\ pc'[p] = "idle"
      /\ refs'[p] = <<>> /\ stack'[p] = <<>> /\ queue'[p] = <<>>
  BY DEF IInv, TypeOK, LocalsTypeOK, RealiseTypeOK, Leave, Goto, OthersStay
<1>2. LatestOK(o)' /\ (Stirred(o) \/ Calm(o))' /\ LinesOK'
  BY <1>1, FilesKept
<1>3. QED
  BY <1>1, <1>2 DEF WorkKept, KindOK, RecipeOK, Working

\* The next operand of an archive or link shim is there: it is looked at as
\* what it is.
LEMMA LstatWork ==
  ASSUME IInv, MakeInv, NEW p \in Procs, NEW o \in Paths, Working(p), o = out[p], Lstat(p)
  PROVE  OthersStay(p) /\ WorkKept(p, o)
<1>1. args[p] # <<>> /\ pc[p] = "classify" /\ RecipeOK(p) /\ out[p] \in Paths
  BY OutputOfWork DEF Lstat, Classifies, MakeInv
<1> DEFINE x == Head(args[p])
<1>2. tree[x] # Absent
  <2>1. CASE kind[p] = "recipe"
    <3>1. GatherOK(p)
      BY <1>1, <2>1 DEF RecipeOK
    <3>2. x \in Below[out[p]]
      BY <1>1, <2>1, <3>1, OperandBelow
    <3>3. QED
      BY <3>2, BelowHeldStill DEF Exists
  <2>2. CASE kind[p] = "objtool"
    <3>1. args[p] = <<out[p]>> /\ tree[out[p]] = Symlink(latest[out[p]])
      BY <1>1, <2>2 DEF RecipeOK, InPlaceOK
    <3>2. QED
      BY <3>1 DEF Symlink, Absent
  <2>3. QED
    BY <2>1, <2>2 DEF Working
<1>3. x \in Paths
  BY <1>1 DEF IInv, TypeOK, LocalsTypeOK
<1>4. tree[x].kind # "absent"
  BY <1>2, <1>3 DEF IInv, TypeOK, FilesTypeOK, Entry
<1>5. \/ Goto(p, "readlink") /\ tree[x].kind = "symlink"
      \/ Goto(p, "lookup") /\ tree[x].kind = "file"
  BY <1>4 DEF Lstat
<1>6. UNCHANGED <<realiseVars, shimVars>> /\ UNCHANGED fileVars
  BY <1>4 DEF Lstat
<1>7. /\ pc'[p] \in {"readlink", "lookup"}
      /\ pc'[p] = "readlink" => tree[x].kind = "symlink"
      /\ pc'[p] = "lookup" => tree[x].kind = "file"
      /\ \A q \in Procs : q # p => pc'[q] = pc[q]
  BY <1>5 DEF Goto, IInv, TypeOK, LocalsTypeOK
<1>8. OthersStay(p) /\ Working(p)' /\ out'[p] = o /\ KindOK(p)'
  BY <1>6, <1>7 DEF OthersStay, realiseVars, shimVars, Working, KindOK
<1>9. RecipeOK(p)'
  <2>1. GatherOK(p) => GatherOK(p)'
    BY <1>6, <1>7 DEF GatherOK, fileVars, shimVars
  <2>2. kind[p] = "objtool" /\ InPlaceOK(p) => InPlaceOK(p)'
    BY <1>1, <1>6, <1>7 DEF InPlaceOK, fileVars, shimVars, Symlink
  <2>3. LinkOK(p)'
    BY <1>7 DEF LinkOK
  <2>4. AloneOK(p)'
    BY <1>1, <1>6, <1>7 DEF RecipeOK, AloneOK, realiseVars, RealisePCs, Promotion
  <2>5. \A b \in Below[out[p]] : Exists(b)'
    BY <1>1, <1>6 DEF RecipeOK, Exists, fileVars
  <2>6. QED
    BY <1>1, <1>6, <2>1, <2>2, <2>3, <2>4, <2>5 DEF RecipeOK, Working, shimVars
<1>10. QED
  BY <1>1, <1>6, <1>8, <1>9, FilesKept DEF WorkKept, Working, fileVars

\* Moving an operand that is what was last published from the operands to the
\* references keeps both in step with the recipe.
LEMMA MoveOne ==
  ASSUME NEW all \in Seq(Paths), NEW rest \in Seq(Paths), NEW found \in Seq(Ref),
         NEW r \in Ref, NEW last, rest # <<>>, Tally(all, rest, found, last),
         r.id = last[Head(rest)]
  PROVE  Tally(all, Tail(rest), Append(found, r), last)
<1>9. /\ Len(found) + Len(rest) = Len(all)
      /\ \A i \in DOMAIN rest : rest[i] = all[Len(found) + i]
      /\ \A i \in DOMAIN found : found[i].id = last[all[i]]
  BY DEF Tally
<1>1. PICK k \in Nat, m \in Nat, n \in Nat :
          k = Len(found) /\ m = Len(rest) /\ n = Len(all) /\ k + m = n /\ m # 0
  <2>1. Len(rest) # 0
    BY EmptySeq
  <2>2. Len(rest) \in Nat /\ Len(found) \in Nat /\ Len(all) \in Nat
    BY LenProperties, Zenon
  <2>3. QED
    BY <1>9, <2>1, <2>2, Zenon
<1>2. /\ DOMAIN rest = 1 .. m /\ DOMAIN found = 1 .. k
      /\ DOMAIN Tail(rest) = 1 .. (m - 1) /\ Len(Tail(rest)) = m - 1
      /\ DOMAIN Append(found, r) = 1 .. (k + 1) /\ Len(Append(found, r)) = k + 1
      /\ Head(rest) = rest[1]
  BY <1>1, LenProperties, HeadTailProperties, AppendProperties, Z3
<1>3. \A i \in 1 .. (m - 1) : Tail(rest)[i] = rest[i + 1]
  BY <1>1, HeadTailProperties, Z3
<1>4. \A i \in 1 .. (k + 1) : Append(found, r)[i] = IF i = k + 1 THEN r ELSE found[i]
  BY <1>1, <1>2, AppendProperties, Z3
<1>5. \A i \in 1 .. (m - 1) : Tail(rest)[i] = all[k + 1 + i]
  <2> TAKE i \in 1 .. (m - 1)
  <2>1. PICK j \in Nat : j = i + 1 /\ j \in DOMAIN rest /\ k + j = k + 1 + i
    BY <1>1, <1>2
  <2>2. rest[j] = all[k + j]
    BY <1>9, <1>1, <2>1, Zenon
  <2>3. QED
    BY <1>3, <2>1, <2>2
<1>6. \A i \in 1 .. (k + 1) : Append(found, r)[i].id = last[all[i]]
  <2>1. r.id = last[all[k + 1]]
    <3>1. 1 \in DOMAIN rest
      BY <1>1, <1>2
    <3>2. rest[1] = all[k + 1]
      BY <1>9, <1>1, <3>1
    <3>3. QED
      BY <1>2, <3>2
  <2>2. \A i \in 1 .. (k + 1) : i = k + 1 \/ i \in 1 .. k
    BY <1>1
  <2>3. QED
    BY <1>9, <1>2, <1>4, <2>1, <2>2
<1>7. k + 1 + (m - 1) = n
  BY <1>1
<1>8. QED
  BY <1>1, <1>2, <1>5, <1>6, <1>7 DEF Tally

\* A shim that refers to its next operand by what was last published there.
LEMMA ReferWork ==
  ASSUME IInv, MakeInv, NEW p \in Procs, NEW o \in Paths, Working(p), o = out[p],
         kind[p] = "recipe", args[p] # <<>>, pc[p] \in {"readlink", "lookup"},
         NEW via \in {"nix", "store"}, NEW t \in Ids, t = latest[Head(args[p])],
         Refer(p, via, t), UNCHANGED fileVars
  PROVE  OthersStay(p) /\ WorkKept(p, o)
<1>1. RecipeOK(p) /\ GatherOK(p) /\ LinkOK(p) /\ AloneOK(p) /\ out[p] \in Paths
  BY OutputOfWork DEF MakeInv, RecipeOK
<1>2. args[p] \in Seq(Paths) /\ refs[p] \in Seq(Ref) /\ Inputs[out[p]] \in Seq(Paths)
  BY <1>1, InputsAssumption DEF IInv, TypeOK, LocalsTypeOK
<1>3. PICK r : r = [via |-> via, id |-> t] /\ r.id = t /\ r \in Ref
  <2>1. [via |-> via, id |-> t] \in Ref
    BY DEF Ref
  <2>2. QED
    BY <2>1
<1>4. /\ refs'[p] = Append(refs[p], r) /\ args'[p] = Tail(args[p])
      /\ pc'[p] = "classify" /\ kind'[p] = "recipe" /\ out'[p] = o
      /\ stack'[p] = stack[p] /\ queue'[p] = queue[p]
  BY <1>3 DEF Refer, Goto, realiseVars, IInv, TypeOK, LocalsTypeOK
<1>5. OthersStay(p)
  BY DEF Refer, Goto, OthersStay, realiseVars, IInv, TypeOK, LocalsTypeOK
<1>6. GatherOK(p)'
  <2>1. Tally(Inputs[out[p]], Tail(args[p]), Append(refs[p], r), latest)
    <3>1. Tally(Inputs[out[p]], args[p], refs[p], latest)
      BY <1>1 DEF GatherOK
    <3>2. QED
      BY <1>2, <1>3, <3>1, MoveOne
  <2>2. QED
    BY <1>4, <2>1 DEF GatherOK, fileVars
<1>7. LinkOK(p)' /\ AloneOK(p)'
  BY <1>1, <1>4 DEF LinkOK, AloneOK, RealisePCs, Promotion
<1>8. \A b \in Below[out[p]] : Exists(b)'
  BY <1>1 DEF RecipeOK, Exists, fileVars
<1>9. RecipeOK(p)'
  BY <1>4, <1>6, <1>7, <1>8 DEF RecipeOK
<1>10. Working(p)' /\ KindOK(p)'
  BY <1>4 DEF Working, KindOK
<1>11. QED
  BY <1>4, <1>5, <1>9, <1>10, FilesKept DEF WorkKept, fileVars

\* What an archive or link shim finds at a symlink is the thunk published last.
LEMMA ReadlinkWork ==
  ASSUME IInv, MakeInv, NEW p \in Procs, NEW o \in Paths, Working(p), o = out[p],
         Readlink(p)
  PROVE  OthersStay(p) /\ WorkKept(p, o)
<1>1. /\ RecipeOK(p) /\ LinkOK(p) /\ AloneOK(p) /\ out[p] \in Paths
      /\ args[p] # <<>> /\ pc[p] = "readlink" /\ UNCHANGED fileVars
  BY OutputOfWork DEF MakeInv, RecipeOK, Readlink, IInv, LocalsOK, LocalOK
<1> DEFINE x == Head(args[p])
<1>2. x \in Paths
  BY <1>1 DEF IInv, TypeOK, LocalsTypeOK
<1>3. CASE kind[p] = "recipe"
  <2>1. GatherOK(p) /\ tree[x].kind = "symlink"
    BY <1>1, <1>3 DEF RecipeOK, GatherOK
  <2>2. x \in Below[out[p]]
    BY <1>1, <1>3, <2>1, OperandBelow
  <2>3. tree[x] = Symlink(latest[x])
    BY <2>1, <2>2, BelowHeldStill DEF Calm, Absent, Symlink, File
  <2>4. tree[x].id \in Ids /\ tree[x].id = latest[x]
    BY <1>2, <2>1, <2>3, SymlinkHoldsId DEF Symlink, IInv, TypeOK
  <2>5. Refer(p, "nix", tree[x].id)
    BY <2>1 DEF Readlink
  <2>6. QED
    BY <1>1, <1>3, <2>4, <2>5, ReferWork
<1>4. CASE kind[p] = "objtool"
  <2>1. /\ out[p] \in Transformed /\ args[p] = <<o>> /\ refs[p] = <<>> /\ x = o
        /\ tree[o] = Symlink(latest[o])
    BY <1>1, <1>4 DEF RecipeOK, InPlaceOK
  <2>2. tree[o].kind = "symlink" /\ tree[o].id = latest[o]
    BY <2>1 DEF Symlink
  <2>3. latest[o] \in Ids
    BY <2>2, SymlinkHoldsId DEF IInv, TypeOK
  <2>4. Refer(p, "nix", latest[o])
    BY <2>1, <2>2 DEF Readlink
  <2>5. PICK r : /\ r = [via |-> "nix", id |-> latest[o]]
                 /\ r.id = latest[o] /\ r.via = "nix"
    <3>1. PICK r : r = [via |-> "nix", id |-> latest[o]]
      OBVIOUS
    <3>2. r.id = latest[o] /\ r.via = "nix"
      BY <3>1
    <3>3. QED
      BY <3>1, <3>2
  <2>6. /\ refs'[p] = Append(<<>>, r) /\ args'[p] = Tail(<<o>>)
        /\ pc'[p] = "classify" /\ kind'[p] = "objtool" /\ out'[p] = o
        /\ stack'[p] = stack[p] /\ queue'[p] = queue[p]
    BY <1>4, <2>1, <2>4, <2>5 DEF Refer, Goto, realiseVars, IInv, TypeOK, LocalsTypeOK
  <2>7. refs'[p] = <<r>> /\ args'[p] = <<>>
    BY <2>6
  <2>8. OthersStay(p)
    BY <2>4 DEF Refer, Goto, OthersStay, realiseVars, IInv, TypeOK, LocalsTypeOK
  <2>9. o \in Outputs[latest[o]]
    BY <2>3, NoIdAssumption DEF MakeInv, LatestOK
  <2>10. InPlaceOK(p)'
    BY <2>1, <2>5, <2>6, <2>7, <2>9 DEF InPlaceOK
  <2>11. LinkOK(p)' /\ AloneOK(p)'
    BY <1>1, <2>6 DEF LinkOK, AloneOK, RealisePCs, Promotion
  <2>12. \A b \in Below[out[p]] : Exists(b)'
    BY <1>1 DEF RecipeOK, Exists, fileVars
  <2>13. RecipeOK(p)' /\ Working(p)' /\ KindOK(p)'
    BY <2>6, <2>10, <2>11, <2>12 DEF RecipeOK, Working, KindOK
  <2>14. QED
    BY <1>1, <2>6, <2>8, <2>13, FilesKept DEF WorkKept, fileVars
<1>5. QED
  BY <1>3, <1>4 DEF Working

\* What an archive or link shim finds recorded for a file is the thunk published
\* last: the record is never missing, and never of an earlier build.
LEMMA LookupWork ==
  ASSUME IInv, MakeInv, NEW p \in Procs, NEW o \in Paths, Working(p), o = out[p],
         Lookup(p)
  PROVE  OthersStay(p) /\ WorkKept(p, o)
<1>1. /\ RecipeOK(p) /\ out[p] \in Paths
      /\ args[p] # <<>> /\ pc[p] = "lookup" /\ UNCHANGED fileVars
  BY OutputOfWork DEF MakeInv, Lookup, IInv, LocalsOK, LocalOK
<1>2. kind[p] = "recipe"
  BY <1>1 DEF RecipeOK, InPlaceOK, Working
<1> DEFINE x == Head(args[p])
<1>3. GatherOK(p) /\ tree[x].kind = "file" /\ x \in Paths
  BY <1>1, <1>2 DEF RecipeOK, GatherOK, IInv, TypeOK, LocalsTypeOK
<1>4. x \in Below[out[p]]
  BY <1>1, <1>2, <1>3, OperandBelow
<1>5. promoted[x] = latest[x] /\ latest[x] # NoId
  BY <1>3, <1>4, BelowHeldStill DEF Calm
<1>6. promoted[x] \in Ids
  BY <1>3, <1>5 DEF IInv, TypeOK, FilesTypeOK
<1>7. Refer(p, "store", promoted[x])
  BY <1>5 DEF Lookup
<1>8. QED
  BY <1>1, <1>2, <1>5, <1>6, <1>7, ReferWork

\* What a shim has classified stays so while it publishes its output.
LEMMA GatherFrame ==
  ASSUME IInv, MakeInv, NEW p \in Procs, NEW o \in Paths, Working(p), o = out[p],
         \A x \in Paths \ {o} : tree'[x] = tree[x] /\ latest'[x] = latest[x],
         kind'[p] = kind[p], out'[p] = out[p], args'[p] = args[p], refs'[p] = refs[p],
         pc[p] \notin {"classify", "readlink", "lookup"} \/ args[p] = <<>>,
         pc'[p] \notin {"classify", "readlink", "lookup"}
  PROVE  /\ \A b \in Below[out[p]] : Exists(b)'
         /\ kind[p] = "recipe" => GatherOK(p)'
         /\ kind[p] = "objtool" => InPlaceOK(p)'
<1>1. RecipeOK(p) /\ o \notin Below[o] /\ Below[o] \subseteq Paths
  BY OutputOfWork, BelowAssumption DEF MakeInv
<1>2. \A b \in Below[out[p]] : Exists(b)'
  BY <1>1 DEF RecipeOK, Exists
<1>3. ASSUME kind[p] = "recipe" PROVE GatherOK(p)'
  <2>1. Tally(Inputs[o], args[p], refs[p], latest)
    BY <1>1, <1>3 DEF RecipeOK, GatherOK
  <2>2. \A i \in DOMAIN refs[p] : Inputs[o][i] \in Below[o]
    BY <1>1, <1>3, OperandBelow DEF RecipeOK
  <2>3. Tally(Inputs[o], args[p], refs[p], latest')
    BY <1>1, <2>1, <2>2 DEF Tally
  <2>4. QED
    BY <2>3 DEF GatherOK
<1>4. ASSUME kind[p] = "objtool" PROVE InPlaceOK(p)'
  <2>1. InPlaceOK(p)
    BY <1>1, <1>4 DEF RecipeOK
  <2>2. QED
    BY <2>1 DEF InPlaceOK
<1>5. QED
  BY <1>2, <1>3, <1>4

\* The expression a shim writes has one reference per operand, or is objtool's.
LEMMA WriteWork ==
  ASSUME PlainMake, IInv, MakeInv, NEW p \in Procs, NEW o \in Paths, Working(p),
         o = out[p], Write(p)
  PROVE  OthersStay(p) /\ WorkKept(p, o)
<1>1. RecipeOK(p) /\ AloneOK(p) /\ args[p] = <<>> /\ pc[p] = "classify"
  BY DEF MakeInv, RecipeOK, Write
<1>2. PICK t \in Ids :
          /\ Refs[t] = refs[p] /\ o \in Outputs[t]
          /\ id' = [id EXCEPT ![p] = t]
          /\ IF o \in RealiseNow
             THEN StartRealiseAlone(p, t, o)
             ELSE Goto(p, "remove") /\ UNCHANGED realiseVars
  BY DEF Write
<1>3. UNCHANGED <<tree, manifest, promoted, latest, kind, out, args, refs>>
  BY DEF Write
<1>4. MadeBy(p, t)
  <2>1. CASE kind[p] = "recipe"
    <3>1. Len(refs[p]) + Len(args[p]) = Len(Inputs[o]) /\ Len(refs[p]) \in Nat
      BY <1>1, <2>1, LenProperties DEF RecipeOK, GatherOK, Tally, IInv, TypeOK, LocalsTypeOK
    <3>2. Len(refs[p]) = Len(Inputs[o])
      BY <1>1, <3>1
    <3>3. QED
      BY <1>2, <2>1, <3>2 DEF MadeBy
  <2>2. CASE kind[p] = "objtool"
    <3>1. /\ Len(refs[p]) = 1 /\ refs[p][1].via = "nix" /\ o \in Outputs[refs[p][1].id]
          /\ refs[p] \in Seq(Ref)
      BY <1>1, <2>2 DEF RecipeOK, InPlaceOK, IInv, TypeOK, LocalsTypeOK
    <3>2. 1 \in DOMAIN refs[p]
      BY <3>1
    <3>3. Rewrites(t, o)
      BY <1>2, <3>1, <3>2 DEF Rewrites, Imported
    <3>4. QED
      BY <1>2, <2>2, <3>3 DEF MadeBy
  <2>3. QED
    BY <2>1, <2>2 DEF Working
<1>5. CASE o \in RealiseNow
  <2>1. o \notin Transformed /\ kind[p] = "recipe"
    BY <1>1, <1>5 DEF PlainMake, RecipeOK, InPlaceOK, Working
  <2>2. StartRealiseAlone(p, t, o)
    BY <1>2, <1>5
  <2>3. /\ pc'[p] = "collect" /\ cur'[p] = t /\ names'[p] = <<o>> /\ direct'[p]
        /\ UNCHANGED <<stack, queue, fh>>
    BY <2>2 DEF StartRealiseAlone, Goto, IInv, TypeOK, LocalsTypeOK, RealiseTypeOK
  <2>4. OthersStay(p)
    BY <1>2, <1>3, <2>2 DEF StartRealiseAlone, Goto, OthersStay, IInv, TypeOK, LocalsTypeOK,
       RealiseTypeOK
  <2>5. LinkOK(p)' /\ AloneOK(p)'
    BY <1>1, <1>3, <1>4, <2>1, <2>3 DEF LinkOK, AloneOK, MadeBy, RealisePCs, Promotion
  <2>6. RecipeOK(p)'
    BY <1>1, <1>3, <2>3, <2>5, GatherFrame DEF RecipeOK
  <2>7. QED
    BY <1>1, <1>3, <2>3, <2>4, <2>6, FilesKept DEF WorkKept, Working, KindOK
<1>6. CASE o \notin RealiseNow
  <2>1. /\ pc'[p] = "remove" /\ id'[p] = t /\ UNCHANGED realiseVars
    BY <1>2, <1>6 DEF Goto, IInv, TypeOK, LocalsTypeOK
  <2>2. OthersStay(p)
    BY <1>2, <1>3, <1>6 DEF Goto, OthersStay, realiseVars, IInv, TypeOK, LocalsTypeOK
  <2>3. LinkOK(p)' /\ AloneOK(p)'
    BY <1>1, <1>3, <1>4, <2>1 DEF LinkOK, AloneOK, MadeBy, RealisePCs, Promotion, realiseVars
  <2>4. RecipeOK(p)'
    BY <1>1, <1>3, <2>1, <2>3, GatherFrame DEF RecipeOK
  <2>5. QED
    BY <1>1, <1>3, <2>1, <2>2, <2>4, FilesKept DEF WorkKept, Working, KindOK
<1>7. QED
  BY <1>5, <1>6

\* The steps of LinkPlaceholder go from one to the next.
LEMMA LinkSteps ==
  ASSUME IInv, MakeInv, NEW p \in Procs, NEW to, Goto(p, to),
         UNCHANGED <<realiseVars, shimVars>>, pc[p] \in ShimPCs
  PROVE  OthersStay(p) /\ pc'[p] = to
  BY DEF Goto, OthersStay, realiseVars, shimVars, IInv, TypeOK, LocalsTypeOK

\* LinkPlaceholder removes what was at the output...
LEMMA RemoveWork ==
  ASSUME IInv, MakeInv, NEW p \in Procs, NEW o \in Paths, Working(p), o = out[p],
         RemoveOutput(p)
  PROVE  /\ OthersStay(p) /\ WorkKept(p, o)
         /\ \A x \in Paths \ {o} : tree'[x] = tree[x]
<1>1. RecipeOK(p) /\ LinkOK(p) /\ AloneOK(p) /\ pc[p] = "remove"
  BY DEF MakeInv, RecipeOK, RemoveOutput
<1>2. /\ UNCHANGED <<manifest, promoted, latest, realiseVars, shimVars>>
      /\ tree'[o] = Absent /\ \A x \in Paths \ {o} : tree'[x] = tree[x]
  BY DEF RemoveOutput, Put, IInv, TypeOK, FilesTypeOK
<1>3. OthersStay(p) /\ pc'[p] = "symlink"
  BY <1>1, LinkSteps DEF RemoveOutput, ShimPCs
<1>4. LinkOK(p)' /\ AloneOK(p)'
  BY <1>1, <1>2, <1>3 DEF LinkOK, AloneOK, MadeBy, RealisePCs, Promotion, shimVars, realiseVars
<1>5. RecipeOK(p)'
  BY <1>1, <1>2, <1>3, <1>4, GatherFrame DEF RecipeOK, shimVars
<1>6. Calm(o)'
  BY <1>1, <1>2, OwnCalm DEF Calm, Exists, Absent
<1>7. LatestOK(o)' /\ LinesOK'
  BY <1>2, <1>3 DEF MakeInv, LatestOK, LinesOK, Lines, OthersStay, shimVars, Working
<1>8. QED
  BY <1>2, <1>3, <1>5, <1>6, <1>7 DEF WorkKept, Working, KindOK, shimVars

\* ...and links the new expression there, which nothing else can have done...
LEMMA SymlinkWork ==
  ASSUME IInv, MakeInv, NEW p \in Procs, NEW o \in Paths, Working(p), o = out[p],
         PutSymlink(p)
  PROVE  /\ OthersStay(p) /\ WorkKept(p, o)
         /\ \A x \in Paths \ {o} : tree'[x] = tree[x] /\ latest'[x] = latest[x]
<1>1. RecipeOK(p) /\ LinkOK(p) /\ AloneOK(p) /\ pc[p] = "symlink"
  BY DEF MakeInv, RecipeOK, PutSymlink
<1>2. tree[o] = Absent /\ MadeBy(p, id[p]) /\ id[p] \in Ids
  BY <1>1 DEF LinkOK, IInv, TypeOK, FilesTypeOK, LocalsOK, LocalOK
<1>3. Goto(p, "unpromote") /\ UNCHANGED <<manifest, promoted, realiseVars, shimVars>>
  BY <1>2 DEF PutSymlink, Exists
<1>4. /\ tree'[o] = Symlink(id[p]) /\ latest'[o] = id[p]
      /\ \A x \in Paths \ {o} : tree'[x] = tree[x] /\ latest'[x] = latest[x]
  BY <1>2 DEF PutSymlink, Exists, Put, IInv, TypeOK, FilesTypeOK
<1>5. OthersStay(p) /\ pc'[p] = "unpromote"
  BY <1>1, <1>3, LinkSteps DEF ShimPCs
<1>6. LinkOK(p)' /\ AloneOK(p)'
  BY <1>1, <1>3, <1>4, <1>5 DEF LinkOK, AloneOK, MadeBy, RealisePCs, Promotion, shimVars,
     realiseVars
<1>7. RecipeOK(p)'
  BY <1>1, <1>3, <1>4, <1>5, <1>6, GatherFrame DEF RecipeOK, shimVars
<1>8. Stirred(o)'
  BY <1>3, <1>5 DEF Stirred, Working, shimVars
<1>9. LatestOK(o)' /\ LinesOK'
  <2>1. Working(p)' /\ out'[p] = o
    BY <1>3 DEF Working, shimVars
  <2>2. kind[p] = "objtool" => o \in Transformed
    BY <1>1 DEF RecipeOK, InPlaceOK
  <2>3. QED
    BY <1>2, <1>3, <1>4, <2>1, <2>2
       DEF MakeInv, LatestOK, LinesOK, Lines, MadeBy, Working
<1>10. QED
  BY <1>3, <1>4, <1>5, <1>7, <1>8, <1>9 DEF WorkKept, Working, KindOK, shimVars

\* ...and forgets what was promoted there.
LEMMA UnpromoteWork ==
  ASSUME IInv, MakeInv, NEW p \in Procs, NEW o \in Paths, Working(p), o = out[p],
         Unpromote(p)
  PROVE  /\ OthersStay(p) /\ WorkKept(p, o)
         /\ \A x \in Paths \ {o} : promoted'[x] = promoted[x]
<1>1. RecipeOK(p) /\ LinkOK(p) /\ AloneOK(p) /\ pc[p] = "unpromote"
  BY DEF MakeInv, RecipeOK, Unpromote
<1>2. tree[o] = Symlink(id[p]) /\ latest[o] = id[p] /\ id[p] \in Ids
  BY <1>1 DEF LinkOK, IInv, TypeOK, FilesTypeOK, LocalsOK, LocalOK
<1>3. /\ UNCHANGED <<tree, manifest, latest, cur, names, stack, queue, direct, shimVars>>
      /\ promoted'[o] = NoId /\ \A x \in Paths \ {o} : promoted'[x] = promoted[x]
      /\ pc'[p] = "scan" /\ \A q \in Procs \ {p} : pc'[q] = pc[q]
      /\ \A q \in Procs : fh'[q] = (fh[q] /\ Head(names[q]) # o)
  BY DEF Unpromote, Goto, IInv, TypeOK, FilesTypeOK, LocalsTypeOK
<1>4. ASSUME NEW q \in Procs, q # p, pc[q] = "record" PROVE fh'[q] = fh[q]
  <2>1. Working(q)
    BY <1>4 DEF MakeInv, Turns, KindOK, Working, IInv, TypeOK, LocalsTypeOK, Kinds
  <2>2. names[q] = <<out[q]>> /\ out[q] # o
    BY <1>4, <2>1 DEF MakeInv, RecipeOK, AloneOK, Promotion, Apart
  <2>3. Head(names[q]) # o
    BY <2>2
  <2>4. fh[q] \in BOOLEAN
    BY DEF IInv, TypeOK, LocalsTypeOK, RealiseTypeOK
  <2>5. QED
    BY <1>3, <2>3, <2>4
<1>5. OthersStay(p)
  BY <1>3, <1>4 DEF OthersStay, shimVars
<1>6. LinkOK(p)' /\ AloneOK(p)'
  BY <1>1, <1>3 DEF LinkOK, AloneOK, MadeBy, RealisePCs, Promotion, shimVars
<1>7. RecipeOK(p)'
  BY <1>1, <1>3, <1>6, GatherFrame DEF RecipeOK, shimVars
<1>8. Calm(o)'
  BY <1>2, <1>3, NoIdAssumption DEF Calm, Symlink
<1>9. LatestOK(o)' /\ LinesOK'
  BY <1>3, <1>5 DEF MakeInv, LatestOK, LinesOK, Lines, OthersStay, shimVars, Working
<1>10. QED
  BY <1>3, <1>5, <1>7, <1>8, <1>9 DEF WorkKept, Working, KindOK, shimVars

\* A manifest lists paths its expression may be written to.
LEMMA ScanWork ==
  ASSUME IInv, MakeInv, NEW p \in Procs, NEW o \in Paths, Working(p), o = out[p],
         Scan(p) \/ AppendLine(p)
  PROVE  OthersStay(p) /\ WorkKept(p, o)
<1>1. RecipeOK(p) /\ LinkOK(p) /\ AloneOK(p) /\ pc[p] \in {"scan", "append"}
  BY DEF MakeInv, RecipeOK, Scan, AppendLine
<1>2. /\ MadeBy(p, id[p]) /\ id[p] \in Ids /\ tree[o] = Symlink(id[p])
      /\ latest[o] = id[p]
  BY <1>1 DEF LinkOK, IInv, TypeOK, FilesTypeOK, LocalsOK, LocalOK
<1>3. UNCHANGED <<tree, promoted, latest, realiseVars, shimVars>>
  BY DEF Scan, AppendLine, fileVars
<1>4. PICK to \in {"written", "append"} : Goto(p, to)
  <2>1. CASE Scan(p)
    BY <2>1 DEF Scan
  <2>2. CASE AppendLine(p)
    BY <2>2 DEF AppendLine
  <2>3. QED
    BY <2>1, <2>2
<1>5. OthersStay(p) /\ pc'[p] = to
  BY <1>1, <1>3, <1>4, LinkSteps DEF ShimPCs
<1>6. LinkOK(p)' /\ AloneOK(p)'
  BY <1>1, <1>3, <1>4, <1>5 DEF LinkOK, AloneOK, MadeBy, RealisePCs, Promotion, shimVars,
     realiseVars
<1>7. RecipeOK(p)'
  BY <1>1, <1>3, <1>4, <1>5, <1>6, GatherFrame DEF RecipeOK, shimVars
<1>8. Calm(o)'
  BY <1>1, <1>2, <1>3, OwnCalm DEF Calm, Exists, Symlink
<1>9. LatestOK(o)'
  BY <1>3, <1>5 DEF MakeInv, LatestOK, OthersStay, shimVars, Working
<1>10. LinesOK'
  <2>1. CASE Scan(p)
    BY <2>1 DEF Scan, fileVars, MakeInv, LinesOK, Lines
  <2>2. CASE AppendLine(p)
    <3>1. manifest[id[p]] \in Seq(Paths)
      BY <1>2 DEF IInv, TypeOK, FilesTypeOK
    <3>2. /\ manifest'[id[p]] = Append(manifest[id[p]], o)
          /\ \A t \in Ids : t # id[p] => manifest'[t] = manifest[t]
      BY <1>2, <2>2 DEF AppendLine, IInv, TypeOK, FilesTypeOK
    <3>3. \A i \in DOMAIN manifest'[id[p]] :
             \/ i \in DOMAIN manifest[id[p]] /\ manifest'[id[p]][i] = manifest[id[p]][i]
             \/ manifest'[id[p]][i] = o
      BY <3>1, <3>2
    <3>4. o \in Outputs[id[p]]
      BY <1>2 DEF MadeBy
    <3>5. QED
      BY <3>2, <3>3, <3>4 DEF MakeInv, LinesOK, Lines
  <2>3. QED
    BY <2>1, <2>2
<1>11. QED
  BY <1>3, <1>4, <1>5, <1>7, <1>8, <1>9, <1>10 DEF WorkKept, Working, KindOK, shimVars

\* The compile shim is followed by objtool, or is done.
LEMMA WrittenWork ==
  ASSUME PlainMake, IInv, MakeInv, NEW p \in Procs, NEW o \in Paths, Working(p),
         o = out[p], Written(p)
  PROVE  OthersStay(p) /\ WorkKept(p, o)
<1>1. RecipeOK(p) /\ LinkOK(p) /\ AloneOK(p) /\ pc[p] = "written" /\ UNCHANGED fileVars
  BY DEF MakeInv, RecipeOK, Written
<1>2. MadeBy(p, id[p]) /\ tree[o] = Symlink(id[p]) /\ latest[o] = id[p]
  BY <1>1 DEF LinkOK
<1>3. CASE ThenObjtool(p)
  <2>1. /\ o \in Transformed /\ UNCHANGED realiseVars
        /\ pc'[p] = "classify" /\ kind'[p] = "objtool" /\ out'[p] = o
        /\ args'[p] = <<o>> /\ refs'[p] = <<>>
    BY <1>3 DEF ThenObjtool, Goto, IInv, TypeOK, LocalsTypeOK
  <2>2. OthersStay(p)
    BY <1>3 DEF ThenObjtool, Goto, OthersStay, realiseVars, IInv, TypeOK, LocalsTypeOK
  <2>3. InPlaceOK(p)'
    BY <1>1, <1>2, <2>1 DEF InPlaceOK, fileVars
  <2>4. LinkOK(p)' /\ AloneOK(p)'
    BY <1>1, <2>1 DEF LinkOK, AloneOK, RealisePCs, Promotion, realiseVars
  <2>5. \A b \in Below[out[p]] : Exists(b)'
    BY <1>1 DEF RecipeOK, Exists, fileVars
  <2>6. RecipeOK(p)' /\ Working(p)' /\ KindOK(p)'
    BY <2>1, <2>3, <2>4, <2>5 DEF RecipeOK, Working, KindOK
  <2>7. QED
    BY <1>1, <2>1, <2>2, <2>6, FilesKept DEF WorkKept, fileVars
<1>4. CASE ThenRealise(p)
  BY <1>4 DEF ThenRealise, PlainMake
<1>5. CASE ThenEnd(p)
  <2>1. o \in Transformed => Rewrites(latest[o], o)
    BY <1>2, <1>5 DEF ThenEnd, MadeBy
  <2>2. Leave(p)
    BY <1>5 DEF ThenEnd
  <2>3. QED
    BY <1>1, <2>1, <2>2, LeaveKept DEF fileVars
<1>6. QED
  BY <1>3, <1>4, <1>5 DEF Written

\* A shim whose mode is Realise builds its expression...
LEMMA BuildWork ==
  ASSUME IInv, MakeInv, NEW p \in Procs, NEW o \in Paths, Working(p), o = out[p],
         Build(p), UNCHANGED shimVars
  PROVE  OthersStay(p) /\ WorkKept(p, o)
<1>1. RecipeOK(p) /\ LinkOK(p) /\ AloneOK(p) /\ pc[p] = "collect"
  BY DEF MakeInv, RecipeOK, Build
<1>2. pc'[p] = "unlink" /\ UNCHANGED <<fileVars, realiseVars>>
  BY DEF Build, Goto, IInv, TypeOK, LocalsTypeOK
<1>3. OthersStay(p)
  BY DEF Build, Goto, OthersStay, realiseVars, shimVars, IInv, TypeOK, LocalsTypeOK
<1>4. LinkOK(p)' /\ AloneOK(p)'
  BY <1>1, <1>2 DEF LinkOK, AloneOK, MadeBy, RealisePCs, Promotion, realiseVars, shimVars
<1>5. RecipeOK(p)'
  BY <1>1, <1>2, <1>4, GatherFrame DEF RecipeOK, fileVars, shimVars
<1>6. QED
  BY <1>1, <1>2, <1>3, <1>5, FilesKept DEF WorkKept, Working, KindOK, fileVars, shimVars

\* ...removes what was at its output...
LEMMA UnlinkWork ==
  ASSUME IInv, MakeInv, NEW p \in Procs, NEW o \in Paths, Working(p), o = out[p],
         Unlink(p), UNCHANGED shimVars
  PROVE  /\ OthersStay(p) /\ WorkKept(p, o)
         /\ \A x \in Paths \ {o} : tree'[x] = tree[x]
<1>1. RecipeOK(p) /\ LinkOK(p) /\ AloneOK(p) /\ pc[p] = "unlink" /\ names[p] = <<o>>
  BY DEF MakeInv, RecipeOK, Unlink, AloneOK, Promotion
<1>2. /\ pc'[p] = "rename" /\ UNCHANGED <<manifest, promoted, latest, realiseVars>>
      /\ tree'[o] = Absent /\ \A x \in Paths \ {o} : tree'[x] = tree[x]
  BY <1>1 DEF Unlink, Put, Goto, IInv, TypeOK, FilesTypeOK, LocalsTypeOK
<1>3. OthersStay(p)
  BY DEF Unlink, Goto, OthersStay, realiseVars, shimVars, IInv, TypeOK, LocalsTypeOK
<1>4. LinkOK(p)' /\ AloneOK(p)'
  BY <1>1, <1>2 DEF LinkOK, AloneOK, MadeBy, RealisePCs, Promotion, realiseVars, shimVars
<1>5. RecipeOK(p)'
  BY <1>1, <1>2, <1>4, GatherFrame DEF RecipeOK, shimVars
<1>6. Calm(o)'
  BY <1>1, <1>2, OwnCalm DEF Calm, Exists, Absent
<1>7. LatestOK(o)' /\ LinesOK'
  BY <1>2, <1>3 DEF MakeInv, LatestOK, LinesOK, Lines, OthersStay, shimVars, Working
<1>8. QED
  BY <1>2, <1>3, <1>5, <1>6, <1>7 DEF WorkKept, Working, KindOK, shimVars

\* ...puts its copy there, and so publishes it...
LEMMA RenameWork ==
  ASSUME IInv, MakeInv, NEW p \in Procs, NEW o \in Paths, Working(p), o = out[p],
         Rename(p), UNCHANGED shimVars
  PROVE  /\ OthersStay(p) /\ WorkKept(p, o)
         /\ \A x \in Paths \ {o} : tree'[x] = tree[x] /\ latest'[x] = latest[x]
<1>1. /\ RecipeOK(p) /\ LinkOK(p) /\ AloneOK(p) /\ pc[p] = "rename" /\ names[p] = <<o>>
      /\ direct[p] /\ queue[p] = <<>> /\ MadeBy(p, cur[p]) /\ Head(<<o>>) = o
      /\ o \notin Transformed /\ kind[p] = "recipe"
  BY DEF MakeInv, RecipeOK, Rename, AloneOK, RealisePCs, Promotion
<1>2. /\ pc'[p] = "truncate" /\ UNCHANGED <<manifest, promoted, realiseVars>>
      /\ tree'[o] = File(cur[p]) /\ latest'[o] = cur[p]
      /\ \A x \in Paths \ {o} : tree'[x] = tree[x] /\ latest'[x] = latest[x]
  BY <1>1 DEF Rename, Put, Goto, IInv, TypeOK, FilesTypeOK, LocalsTypeOK
<1>3. OthersStay(p)
  BY DEF Rename, Goto, OthersStay, realiseVars, shimVars, IInv, TypeOK, LocalsTypeOK
<1>4. LinkOK(p)' /\ AloneOK(p)'
  BY <1>1, <1>2 DEF LinkOK, AloneOK, MadeBy, RealisePCs, Promotion, realiseVars, shimVars
<1>5. RecipeOK(p)'
  BY <1>1, <1>2, <1>4, GatherFrame DEF RecipeOK, shimVars
<1>6. Working(p)' /\ out'[p] = o /\ KindOK(p)'
  BY <1>2 DEF Working, KindOK, shimVars, MakeInv
<1>7. Stirred(o)'
  BY <1>2, <1>6 DEF Stirred
<1>8. LatestOK(o)' /\ LinesOK'
  BY <1>1, <1>2 DEF MakeInv, LatestOK, LinesOK, Lines, MadeBy
<1>9. QED
  BY <1>1, <1>2, <1>3, <1>5, <1>6, <1>7, <1>8 DEF WorkKept, Working, shimVars

\* ...and records it, in two steps.
LEMMA TruncateWork ==
  ASSUME IInv, MakeInv, NEW p \in Procs, NEW o \in Paths, Working(p), o = out[p],
         Truncate(p), UNCHANGED shimVars
  PROVE  /\ OthersStay(p) /\ WorkKept(p, o)
         /\ \A x \in Paths \ {o} : promoted'[x] = promoted[x]
<1>1. /\ RecipeOK(p) /\ LinkOK(p) /\ AloneOK(p) /\ pc[p] = "truncate" /\ names[p] = <<o>>
      /\ tree[o] = File(cur[p]) /\ latest[o] = cur[p] /\ Head(<<o>>) = o
  BY DEF MakeInv, RecipeOK, Truncate, AloneOK, Promotion
<1>2. /\ pc'[p] = "record" /\ fh'[p]
      /\ UNCHANGED <<tree, manifest, latest, cur, names, stack, queue, direct>>
      /\ promoted'[o] = NoId /\ \A x \in Paths \ {o} : promoted'[x] = promoted[x]
  BY <1>1 DEF Truncate, Goto, IInv, TypeOK, FilesTypeOK, LocalsTypeOK, RealiseTypeOK
<1>3. OthersStay(p)
  BY DEF Truncate, Goto, OthersStay, shimVars, IInv, TypeOK, LocalsTypeOK, RealiseTypeOK
<1>4. LinkOK(p)' /\ AloneOK(p)'
  BY <1>1, <1>2 DEF LinkOK, AloneOK, MadeBy, RealisePCs, Promotion, shimVars
<1>5. RecipeOK(p)'
  BY <1>1, <1>2, <1>4, GatherFrame DEF RecipeOK, shimVars
<1>6. Promoting(o)'
  BY <1>1, <1>2 DEF Promoting
<1>7. cur[p] # NoId
  BY <1>1, NoIdAssumption DEF AloneOK, MadeBy, Promotion
<1>8. Calm(o)'
  BY <1>1, <1>2, <1>6, <1>7 DEF Calm, File
<1>9. LatestOK(o)' /\ LinesOK'
  BY <1>2, <1>3 DEF MakeInv, LatestOK, LinesOK, Lines, OthersStay, shimVars, Working
<1>10. QED
  BY <1>2, <1>3, <1>5, <1>8, <1>9 DEF WorkKept, Working, KindOK, shimVars

\* A shim that realises its own output records what it has put there.
LEMMA RecordWork ==
  ASSUME IInv, MakeInv, NEW p \in Procs, NEW o \in Paths, Working(p), o = out[p],
         Record(p), UNCHANGED shimVars
  PROVE  /\ OthersStay(p) /\ WorkKept(p, o)
         /\ \A x \in Paths \ {o} : promoted'[x] = promoted[x]
<1>1. /\ RecipeOK(p) /\ LinkOK(p) /\ AloneOK(p) /\ pc[p] = "record" /\ names[p] = <<o>>
      /\ tree[o] = File(cur[p]) /\ latest[o] = cur[p] /\ fh[p]
      /\ Head(<<o>>) = o /\ Tail(<<o>>) = <<>>
  BY DEF MakeInv, RecipeOK, Record, AloneOK, Promotion
<1>2. /\ pc'[p] = "promote" /\ names'[p] = <<>>
      /\ UNCHANGED <<tree, manifest, latest, cur, stack, queue>>
      /\ promoted'[o] = cur[p] /\ \A x \in Paths \ {o} : promoted'[x] = promoted[x]
  BY <1>1 DEF Record, Goto, IInv, TypeOK, FilesTypeOK, LocalsTypeOK, RealiseTypeOK
<1>3. OthersStay(p)
  BY DEF Record, Goto, OthersStay, shimVars, IInv, TypeOK, LocalsTypeOK, RealiseTypeOK
<1>4. LinkOK(p)' /\ AloneOK(p)'
  BY <1>1, <1>2 DEF LinkOK, AloneOK, MadeBy, RealisePCs, Promotion, shimVars
<1>5. RecipeOK(p)'
  BY <1>1, <1>2, <1>4, GatherFrame DEF RecipeOK, shimVars
<1>6. Calm(o)'
  <2>1. Calm(o)
    BY <1>1, OwnCalm
  <2>2. QED
    BY <1>1, <1>2, <2>1 DEF Calm, Exists, File
<1>7. LatestOK(o)' /\ LinesOK'
  BY <1>2, <1>3 DEF MakeInv, LatestOK, LinesOK, Lines, OthersStay, shimVars, Working
<1>8. QED
  BY <1>2, <1>3, <1>5, <1>6, <1>7 DEF WorkKept, Working, KindOK, shimVars

\* The steps a shim that is at work cannot be at.
LEMMA NotWork ==
  ASSUME IInv, MakeInv, NEW p \in Procs, Working(p)
  PROVE  /\ ~ForceTarget(p) /\ ~RealiseArg(p) /\ ~Exec(p)
         /\ ~Collect(p) /\ ~OpenManifest(p) /\ ~NextLine(p)
  BY DEF MakeInv, RecipeOK, AloneOK, RealisePCs, Working, ForceTarget, RealiseArg, Exec,
     Collect, OpenManifest, NextLine

\* Every step of a shim keeps the invariant.
LEMMA WorkStep ==
  ASSUME PlainMake, IInv, IInv', MakeInv, NEW p \in Procs, Working(p), Step(p)
  PROVE  MakeInv'
<1>1. PICK o \in Paths : o = out[p]
  BY OutputOfWork
<1>2. ASSUME OthersStay(p), WorkKept(p, o),
             \A x \in Paths \ {o} : tree'[x] = tree[x] /\ latest'[x] = latest[x]
                                       /\ promoted'[x] = promoted[x]
      PROVE  MakeInv'
  BY <1>1, <1>2, WorkFrame
<1>3. CASE Lstat(p) \/ Readlink(p) \/ Lookup(p)
  <2>1. UNCHANGED fileVars
    BY <1>3 DEF Lstat, Readlink, Lookup
  <2>2. OthersStay(p) /\ WorkKept(p, o)
    BY <1>1, <1>3, LstatWork, ReadlinkWork, LookupWork
  <2>3. QED
    BY <1>2, <2>1, <2>2 DEF fileVars
<1>4. CASE Write(p)
  <2>1. UNCHANGED <<tree, latest, promoted>>
    BY <1>4 DEF Write
  <2>2. QED
    BY <1>1, <1>2, <1>4, <2>1, WriteWork
<1>5. CASE RemoveOutput(p)
  <2>1. UNCHANGED <<latest, promoted>>
    BY <1>5 DEF RemoveOutput
  <2>2. QED
    BY <1>1, <1>2, <1>5, <2>1, RemoveWork
<1>6. CASE PutSymlink(p)
  <2>1. UNCHANGED promoted
    BY <1>6 DEF PutSymlink
  <2>2. QED
    BY <1>1, <1>2, <1>6, <2>1, SymlinkWork
<1>7. CASE Unpromote(p)
  <2>1. UNCHANGED <<tree, latest>>
    BY <1>7 DEF Unpromote
  <2>2. QED
    BY <1>1, <1>2, <1>7, <2>1, UnpromoteWork
<1>8. CASE Scan(p) \/ AppendLine(p)
  <2>1. UNCHANGED <<tree, latest, promoted>>
    BY <1>8 DEF Scan, AppendLine, fileVars
  <2>2. QED
    BY <1>1, <1>2, <1>8, <2>1, ScanWork
<1>9. CASE Written(p)
  <2>1. UNCHANGED fileVars
    BY <1>9 DEF Written
  <2>2. QED
    BY <1>1, <1>2, <1>9, <2>1, WrittenWork DEF fileVars
<1>10. CASE Realising(p)
  <2>1. UNCHANGED shimVars /\ RealiseStep(p)
    BY <1>10 DEF Realising
  <2>2. CASE Build(p)
    <3>1. UNCHANGED fileVars
      BY <2>2 DEF Build
    <3>2. QED
      BY <1>1, <1>2, <2>1, <2>2, <3>1, BuildWork DEF fileVars
  <2>3. CASE Unlink(p)
    <3>1. UNCHANGED <<latest, promoted>>
      BY <2>3 DEF Unlink
    <3>2. QED
      BY <1>1, <1>2, <2>1, <2>3, <3>1, UnlinkWork
  <2>4. CASE Rename(p)
    <3>1. UNCHANGED promoted
      BY <2>4 DEF Rename
    <3>2. QED
      BY <1>1, <1>2, <2>1, <2>4, <3>1, RenameWork
  <2>5. CASE Truncate(p)
    <3>1. UNCHANGED <<tree, latest>>
      BY <2>5 DEF Truncate
    <3>2. QED
      BY <1>1, <1>2, <2>1, <2>5, <3>1, TruncateWork
  <2>6. CASE Record(p)
    <3>1. UNCHANGED <<tree, latest>>
      BY <2>6 DEF Record
    <3>2. QED
      BY <1>1, <1>2, <2>1, <2>6, <3>1, RecordWork
  <2>7. QED
    BY <2>1, <2>2, <2>3, <2>4, <2>5, <2>6, NotWork DEF RealiseStep
<1>11. CASE EndRealise(p)
  <2>1. pc[p] = "promote" /\ UNCHANGED fileVars /\ Leave(p)
    BY <1>11 DEF EndRealise, Realised, ReturnFromRealise, Working
  <2>2. o \notin Transformed
    BY <1>1, <2>1 DEF MakeInv, RecipeOK, AloneOK, RealisePCs
  <2>3. OthersStay(p) /\ WorkKept(p, o)
    BY <1>1, <2>1, <2>2, LeaveKept DEF fileVars
  <2>4. QED
    BY <1>2, <2>1, <2>3 DEF fileVars
<1>12. QED
  BY <1>3, <1>4, <1>5, <1>6, <1>7, <1>8, <1>9, <1>10, <1>11, NotWork DEF Step

-----------------------------------------------------------------------------
\* While a force runs nothing is being published.
LEMMA ForceTurn ==
  ASSUME IInv, MakeInv, NEW p \in Procs, kind[p] = "force"
  PROVE  /\ \A q \in Procs : ~Working(q)
         /\ \A x \in Paths : Calm(x)
         /\ pc[p] # "idle" /\ out[p] \in Paths /\ ForceOK(p)
         /\ Below[out[p]] \cup {out[p]} \subseteq Paths
<1>1. \A q \in Procs : ~Working(q)
  BY DEF MakeInv, Turns
<1>2. \A x \in Paths : Calm(x)
  BY <1>1 DEF MakeInv, Stirred
<1>3. pc[p] # "idle" /\ ForceOK(p)
  BY DEF MakeInv, KindOK
<1>4. QED
  BY <1>1, <1>2, <1>3, BelowAssumption DEF IInv, LocalsOK, LocalOK

\* What a step of a force p has to show.
ForceKept(p) ==
    /\ OthersStay(p) /\ kind'[p] \in {"force", "none"}
    /\ KindOK(p)' /\ ForceOK(p)' /\ \A x \in Paths : Calm(x)'

\* A step that leaves the files alone leaves every path as it was.
LEMMA PathsKept ==
  ASSUME IInv, MakeInv, NEW p \in Procs, kind[p] = "force", OthersStay(p),
         UNCHANGED <<tree, promoted, latest>>, pc[p] \notin {"truncate", "record"}
  PROVE  \A x \in Paths : Calm(x)'
<1>1. \A x : Promoting(x) => Promoting(x)'
  BY DEF Promoting, OthersStay
<1>2. QED
  BY <1>1, ForceTurn DEF Calm, Exists

\* A force that ends leaves every path as it was.
LEMMA ForceLeaves ==
  ASSUME IInv, MakeInv, NEW p \in Procs, kind[p] = "force", Leave(p),
         UNCHANGED <<tree, promoted, latest>>, pc[p] \notin {"truncate", "record"}
  PROVE  ForceKept(p)
<1>1. /\ OthersStay(p) /\ kind'[p] = "none" /\ pc'[p] = "idle"
      /\ refs'[p] = <<>> /\ stack'[p] = <<>> /\ queue'[p] = <<>>
  BY DEF IInv, TypeOK, LocalsTypeOK, RealiseTypeOK, Leave, Goto, OthersStay
<1>2. QED
  BY <1>1, PathsKept DEF ForceKept, KindOK, ForceOK

\* What a current expression imports is current: the target is up to date.
LEMMA ImportsCurrent ==
  ASSUME PlainMake, IInv, MakeInv, NEW p \in Procs, kind[p] = "force",
         NEW t, Current(p, t)
  PROVE  Imports[t] \in Seq(Ids) /\ \A i \in DOMAIN Imports[t] : Current(p, Imports[t][i])
<1>1. PICK b \in Below[out[p]] \cup {out[p]} : latest[b] = t
  BY DEF Current
<1>2. /\ t \in Ids /\ b \in Paths /\ out[p] \in Paths /\ b \notin Transformed /\ UpToDate(b)
      /\ Len(Refs[t]) = Len(Inputs[b])
  BY <1>1, ForceTurn, NoIdAssumption DEF Current, ForceOK, PlainMake, MakeInv, LatestOK
<1>3. Refs[t] \in Seq(Ref) /\ Inputs[b] \in Seq(Paths) /\ Imports[t] \in Seq(Ids)
  BY <1>2, RefsAssumption, InputsAssumption, ImportsAssumption
<1>4. DOMAIN Refs[t] = DOMAIN Inputs[b]
  BY <1>2, <1>3, LenProperties, Zenon
<1>5. Below[b] \subseteq Below[out[p]]
  BY <1>1, <1>2, BelowAssumption
<1>6. ASSUME NEW i \in DOMAIN Imports[t] PROVE Current(p, Imports[t][i])
  <2>1. PICK r \in Imported(t) : r.id = Imports[t][i]
    BY <1>2, <1>6, ImportsAssumption
  <2>2. PICK j \in DOMAIN Refs[t] : r = Refs[t][j]
    BY <2>1 DEF Imported
  <2>3. Refs[t][j].id = latest[Inputs[b][j]]
    BY <1>1, <1>2, <1>4, <2>2, NoIdAssumption DEF UpToDate
  <2>4. Inputs[b][j] \in Below[b]
    BY <1>2, <1>4, <2>2, BelowAssumption
  <2>5. Imports[t][i] \in Ids
    BY <1>3, <1>6
  <2>6. QED
    BY <1>5, <2>1, <2>2, <2>3, <2>4, <2>5 DEF Current
<1>7. QED
  BY <1>3, <1>6

\* Only a path whose last expression is t is in the manifest of a current t.
LEMMA LinesCurrent ==
  ASSUME PlainMake, IInv, MakeInv, NEW p \in Procs, kind[p] = "force",
         NEW t, Current(p, t)
  PROVE  manifest[t] \in Seq(Paths) /\ \A i \in DOMAIN manifest[t] : latest[manifest[t][i]] = t
<1>1. PICK b \in Below[out[p]] \cup {out[p]} : latest[b] = t
  BY DEF Current
<1>2. t \in Ids /\ b \in Paths /\ b \in Outputs[t] /\ Outputs[t] = {b}
  BY <1>1, ForceTurn, NoIdAssumption DEF Current, ForceOK, PlainMake, MakeInv, LatestOK
<1>3. \A i \in DOMAIN manifest[t] : manifest[t][i] = b
  BY <1>2 DEF MakeInv, LinesOK, Lines
<1>4. QED
  BY <1>1, <1>2, <1>3 DEF IInv, TypeOK, FilesTypeOK

\* A force classifies its target as what was last published there.
LEMMA ForceClassify ==
  ASSUME IInv, MakeInv, NEW p \in Procs, kind[p] = "force",
         Lstat(p) \/ Readlink(p) \/ Lookup(p)
  PROVE  ForceKept(p)
<1>1. /\ pc[p] \in {"classify", "readlink", "lookup"} /\ args[p] # <<>>
      /\ UNCHANGED fileVars
  BY DEF Lstat, Readlink, Lookup, Classifies, IInv, LocalsOK, LocalOK
<1>2. /\ ForceOK(p) /\ args[p] = <<out[p]>> /\ refs[p] = <<>> /\ out[p] \in Paths
      /\ Calm(out[p])
  BY <1>1, ForceTurn DEF ForceOK, RealisePCs, Promotion, TargetOK
<1> DEFINE x == Head(args[p])
<1>3. x = out[p]
  BY <1>2
<1>4. CASE Leave(p)
  BY <1>1, <1>4, ForceLeaves DEF fileVars
<1>5. ASSUME NEW to \in {"readlink", "lookup"}, Goto(p, to),
             UNCHANGED <<realiseVars, shimVars>>
      PROVE  ForceKept(p)
  <2>1. pc'[p] = to /\ OthersStay(p)
    BY <1>5 DEF Goto, OthersStay, realiseVars, shimVars, IInv, TypeOK, LocalsTypeOK
  <2>2. ForceOK(p)' /\ KindOK(p)'
    BY <1>1, <1>2, <1>5, <2>1
       DEF ForceOK, TargetOK, RealisePCs, Promotion, UpToDate, fileVars, shimVars, KindOK
  <2>3. QED
    BY <1>1, <1>5, <2>1, <2>2, PathsKept DEF ForceKept, shimVars, fileVars
<1>6. ASSUME NEW via \in {"nix", "store"}, NEW t \in Ids, t = latest[out[p]],
             Refer(p, via, t)
      PROVE  ForceKept(p)
  <2>1. PICK r : r = [via |-> via, id |-> t] /\ r.id = t
    <3>1. PICK r : r = [via |-> via, id |-> t]
      OBVIOUS
    <3>2. QED
      BY <3>1
  <2>2. /\ refs'[p] = Append(<<>>, r) /\ args'[p] = Tail(<<out[p]>>) /\ pc'[p] = "classify"
        /\ kind'[p] = "force" /\ out'[p] = out[p] /\ OthersStay(p)
    BY <1>2, <1>6, <2>1 DEF Refer, Goto, OthersStay, realiseVars, IInv, TypeOK, LocalsTypeOK
  <2>3. refs'[p] = <<r>> /\ args'[p] = <<>>
    BY <2>2
  <2>4. TargetOK(p)'
    BY <1>1, <1>6, <2>1, <2>2, <2>3 DEF TargetOK, fileVars
  <2>5. ForceOK(p)' /\ KindOK(p)'
    BY <1>1, <1>2, <2>2, <2>4
       DEF ForceOK, RealisePCs, Promotion, UpToDate, fileVars, KindOK
  <2>6. QED
    BY <1>1, <2>2, <2>5, PathsKept DEF ForceKept, fileVars
<1>7. CASE Lstat(p)
  BY <1>4, <1>5, <1>7 DEF Lstat, Unmodelled
<1>8. CASE Readlink(p)
  <2>1. CASE tree[x].kind = "symlink"
    <3>1. tree[x].id \in Ids /\ tree[x].id = latest[out[p]]
      BY <1>2, <1>3, <2>1, SymlinkHoldsId DEF Calm, Absent, Symlink, File, IInv, TypeOK
    <3>2. Refer(p, "nix", tree[x].id)
      BY <1>8, <2>1 DEF Readlink
    <3>3. QED
      BY <1>6, <3>1, <3>2
  <2>2. CASE tree[x].kind # "symlink"
    BY <1>4, <1>8, <2>2 DEF Readlink, Unmodelled
  <2>3. QED
    BY <2>1, <2>2
<1>9. CASE Lookup(p)
  <2>1. CASE promoted[x] # NoId
    <3>1. promoted[x] \in Ids /\ promoted[x] = latest[out[p]]
      BY <1>2, <1>3, <2>1 DEF Calm, IInv, TypeOK, FilesTypeOK
    <3>2. Refer(p, "store", promoted[x])
      BY <1>9, <2>1 DEF Lookup
    <3>3. QED
      BY <1>6, <3>1, <3>2
  <2>2. CASE promoted[x] = NoId
    BY <1>4, <1>9, <2>2 DEF Lookup, Unmodelled
  <2>3. QED
    BY <2>1, <2>2
<1>10. QED
  BY <1>7, <1>8, <1>9

\* A force that goes on realising keeps its part of the invariant if what it
\* realises stays current.
LEMMA ForceGoesOn ==
  ASSUME IInv, MakeInv, NEW p \in Procs, kind[p] = "force", OthersStay(p),
         UNCHANGED <<latest, shimVars>>, pc'[p] \in RealisePCs,
         RealisingOK(p)', \A x \in Paths : Calm(x)'
  PROVE  ForceKept(p)
<1>1. kind'[p] = "force" /\ out'[p] = out[p] /\ UNCHANGED latest
  BY DEF shimVars
<1>2. ForceOK(p)'
  BY <1>1, ForceTurn DEF ForceOK, UpToDate
<1>3. KindOK(p)'
  BY <1>1 DEF KindOK, RealisePCs, Promotion
<1>4. QED
  BY <1>1, <1>2, <1>3 DEF ForceKept

\* Realise starts at what was last published at the target.
LEMMA ForceRoot ==
  ASSUME PlainMake, IInv, MakeInv, NEW p \in Procs, kind[p] = "force", ForceTarget(p)
  PROVE  ForceKept(p)
<1>1. pc[p] = "classify" /\ args[p] = <<>> /\ UNCHANGED <<fileVars, shimVars>>
  BY DEF ForceTarget
<1>2. /\ ForceOK(p) /\ Len(refs[p]) = 1 /\ refs[p][1].id = latest[out[p]]
      /\ out[p] \in Paths
  BY <1>1, ForceTurn DEF ForceOK, RealisePCs, Promotion, TargetOK
<1>3. PICK t \in Ids : t = latest[out[p]]
  <2>1. refs[p] \in Seq(Ref) /\ 1 \in DOMAIN refs[p]
    BY <1>2 DEF IInv, TypeOK, LocalsTypeOK
  <2>2. refs[p][1] \in Ref
    BY <2>1
  <2>3. QED
    BY <1>2, <2>2 DEF Ref
<1>4. StartRealise(p, t, out[p])
  BY <1>2, <1>3 DEF ForceTarget
<1>5. /\ pc'[p] = "collect" /\ cur'[p] = t /\ names'[p] = <<out[p]>>
      /\ stack'[p] = Imports[t] /\ queue'[p] = <<t>>
  BY <1>4 DEF StartRealise, Goto, IInv, TypeOK, LocalsTypeOK, RealiseTypeOK
<1>6. OthersStay(p)
  BY <1>1, <1>4 DEF StartRealise, Goto, OthersStay, shimVars, IInv, TypeOK, LocalsTypeOK,
     RealiseTypeOK
<1>7. Current(p, t)
  BY <1>3 DEF Current
<1>8. \A i \in DOMAIN Imports[t] : Current(p, Imports[t][i])
  BY <1>7, ImportsCurrent
<1>9. \A s : Current(p, s) => Current(p, s)'
  BY <1>1 DEF Current, fileVars, shimVars
<1>10. RealisingOK(p)'
  <2>1. \A i \in DOMAIN stack'[p] : Current(p, stack'[p][i])
    BY <1>5, <1>8
  <2>2. \A i \in DOMAIN queue'[p] : Current(p, queue'[p][i])
    BY <1>5, <1>7
  <2>3. \A i \in DOMAIN names'[p] : latest'[names'[p][i]] = cur'[p]
    BY <1>1, <1>3, <1>5 DEF fileVars
  <2>4. queue'[p] # <<>>
    BY <1>5
  <2>5. QED
    BY <1>5, <1>7, <1>9, <2>1, <2>2, <2>3, <2>4 DEF RealisingOK
<1>11. QED
  BY <1>1, <1>5, <1>6, <1>10, PathsKept, ForceGoesOn DEF fileVars, RealisePCs

\* What is in a concatenation is in one of its parts.
LEMMA InConcat ==
  ASSUME NEW S, NEW s1 \in Seq(S), NEW s2 \in Seq(S), NEW T,
         \A i \in DOMAIN s1 : s1[i] \in T, \A i \in DOMAIN s2 : s2[i] \in T
  PROVE  \A i \in DOMAIN (s1 \o s2) : (s1 \o s2)[i] \in T
<1>1. PICK m \in Nat, n \in Nat : m = Len(s1) /\ n = Len(s2)
  BY LenProperties
<1>2. DOMAIN s1 = 1 .. m /\ DOMAIN s2 = 1 .. n
  BY <1>1, LenProperties
<1>3. /\ DOMAIN (s1 \o s2) = 1 .. (m + n)
      /\ \A i \in 1 .. (m + n) : (s1 \o s2)[i] = IF i <= m THEN s1[i] ELSE s2[i - m]
  <2>1. /\ s1 \o s2 \in Seq(S) /\ Len(s1 \o s2) = Len(s1) + Len(s2)
        /\ \A i \in 1 .. (Len(s1) + Len(s2)) :
               (s1 \o s2)[i] = IF i <= Len(s1) THEN s1[i] ELSE s2[i - Len(s1)]
    BY ConcatProperties, Zenon
  <2>2. QED
    BY <1>1, <2>1, LenProperties
<1>4. ASSUME NEW i \in 1 .. (m + n) PROVE (s1 \o s2)[i] \in T
  <2>1. CASE i <= m
    BY <1>2, <1>3, <2>1
  <2>2. CASE ~(i <= m)
    <3>1. i - m \in 1 .. n
      BY <2>2
    <3>2. QED
      BY <1>2, <1>3, <2>2, <3>1
  <2>3. QED
    BY <2>1, <2>2
<1>5. QED
  BY <1>3, <1>4

\* CollectThunks and promoteManifest take up what is current only.
LEMMA ForceCollects ==
  ASSUME PlainMake, IInv, MakeInv, NEW p \in Procs, kind[p] = "force",
         Collect(p) \/ Build(p) \/ OpenManifest(p) \/ NextLine(p), UNCHANGED shimVars
  PROVE  ForceKept(p)
<1>1. UNCHANGED fileVars /\ pc[p] \in {"collect", "promote"}
  BY DEF Collect, Build, OpenManifest, NextLine
<1>2. RealisingOK(p)
  BY <1>1, ForceTurn DEF ForceOK, RealisePCs
<1>3. OthersStay(p) /\ pc'[p] \in RealisePCs
  BY <1>1 DEF Collect, Build, OpenManifest, NextLine, Goto, OthersStay, realiseVars,
     shimVars, RealisePCs, Promotion, IInv, TypeOK, LocalsTypeOK, RealiseTypeOK
<1>4. \A s : Current(p, s) => Current(p, s)'
  BY <1>1 DEF Current, fileVars, shimVars
<1>5. /\ stack[p] \in Seq(Ids) /\ queue[p] \in Seq(Ids) /\ names[p] \in Seq(Paths)
      /\ UNCHANGED latest
  BY <1>1 DEF IInv, TypeOK, LocalsTypeOK, RealiseTypeOK, fileVars
<1>6. CASE Collect(p)
  <2> PICK t, rest : t = Head(stack[p]) /\ rest = Tail(stack[p])
    OBVIOUS
  <2>1. /\ Current(p, t) /\ rest \in Seq(Ids)
        /\ \A i \in DOMAIN rest : Current(p, rest[i])
    <3>1. stack[p] # <<>>
      BY <1>6 DEF Collect
    <3>2. \A i \in DOMAIN stack[p] : Current(p, stack[p][i])
      BY <1>2 DEF RealisingOK
    <3>3. 1 \in DOMAIN stack[p] /\ t = stack[p][1] /\ rest \in Seq(Ids)
          /\ \A i \in DOMAIN rest : i + 1 \in DOMAIN stack[p] /\ rest[i] = stack[p][i + 1]
      BY <1>5, <3>1
    <3>4. QED
      BY <3>2, <3>3
  <2>2. /\ Imports[t] \in Seq(Ids) /\ \A i \in DOMAIN Imports[t] : Current(p, Imports[t][i])
    BY <2>1, ImportsCurrent
  <2>3. /\ pc'[p] = pc[p] /\ cur'[p] = cur[p] /\ names'[p] = names[p]
        /\ direct'[p] = direct[p]
        /\ \/ queue'[p] = Append(queue[p], t) /\ stack'[p] = Imports[t] \o rest
           \/ queue'[p] = queue[p] /\ stack'[p] = rest
    BY <1>6 DEF Collect, IInv, TypeOK, LocalsTypeOK, RealiseTypeOK
  <2>4. \A i \in DOMAIN (Imports[t] \o rest) : Current(p, (Imports[t] \o rest)[i])
    <3> PICK T : T = {s \in Ids : Current(p, s)}
      OBVIOUS
    <3>1. \A s : s \in T <=> Current(p, s)
      BY DEF Current
    <3>2. \A i \in DOMAIN (Imports[t] \o rest) : (Imports[t] \o rest)[i] \in T
      BY <2>1, <2>2, <3>1, InConcat
    <3>3. QED
      BY <3>1, <3>2
  <2>5. t \in Ids /\ \A i \in DOMAIN Append(queue[p], t) : Current(p, Append(queue[p], t)[i])
    <3>1. t \in Ids
      BY <2>1 DEF Current
    <3>2. \A i \in DOMAIN Append(queue[p], t) :
             \/ i \in DOMAIN queue[p] /\ Append(queue[p], t)[i] = queue[p][i]
             \/ Append(queue[p], t)[i] = t
      BY <1>5, <3>1
    <3>3. QED
      BY <1>2, <2>1, <3>1, <3>2 DEF RealisingOK
  <2>6. Append(queue[p], t) # <<>>
    BY <1>5, <2>5
  <2>7. RealisingOK(p)'
    <3>1. \A i \in DOMAIN stack'[p] : Current(p, stack'[p][i])
      BY <2>1, <2>3, <2>4
    <3>2. \A i \in DOMAIN queue'[p] : Current(p, queue'[p][i])
      BY <1>2, <2>3, <2>5 DEF RealisingOK
    <3>3. pc[p] # "record"
      BY <1>1
    <3>4. direct'[p] => queue'[p] # <<>>
      BY <1>2, <2>3, <2>6 DEF RealisingOK
    <3>5. QED
      BY <1>2, <1>4, <1>5, <2>3, <3>1, <3>2, <3>3, <3>4 DEF RealisingOK
  <2>8. QED
    BY <1>1, <1>3, <1>5, <2>7, PathsKept, ForceGoesOn DEF fileVars
<1>7. CASE Build(p)
  <2>1. pc'[p] = "unlink" /\ UNCHANGED realiseVars
    BY <1>7 DEF Build, Goto, IInv, TypeOK, LocalsTypeOK
  <2>2. RealisingOK(p)'
    BY <1>2, <1>4, <1>5, <2>1 DEF RealisingOK, realiseVars
  <2>3. QED
    BY <1>1, <1>3, <1>5, <2>2, PathsKept, ForceGoesOn DEF fileVars
<1>8. CASE OpenManifest(p)
  <2> PICK t, rest : t = Head(queue[p]) /\ rest = Tail(queue[p])
    OBVIOUS
  <2>1. /\ pc'[p] = "promote" /\ cur'[p] = t /\ names'[p] = manifest[t] /\ queue'[p] = rest
        /\ stack'[p] = stack[p] /\ direct'[p] = direct[p]
    BY <1>8 DEF OpenManifest, IInv, TypeOK, LocalsTypeOK, RealiseTypeOK
  <2>2. Current(p, t) /\ \A i \in DOMAIN rest : Current(p, rest[i])
    <3>1. queue[p] # <<>>
      BY <1>8 DEF OpenManifest
    <3>2. \A i \in DOMAIN queue[p] : Current(p, queue[p][i])
      BY <1>2 DEF RealisingOK
    <3>3. 1 \in DOMAIN queue[p] /\ t = queue[p][1]
          /\ \A i \in DOMAIN rest : i + 1 \in DOMAIN queue[p] /\ rest[i] = queue[p][i + 1]
      BY <1>5, <3>1
    <3>4. QED
      BY <3>2, <3>3
  <2>3. \A i \in DOMAIN manifest[t] : latest[manifest[t][i]] = t
    BY <2>2, LinesCurrent
  <2>4. ~direct[p]
    BY <1>2, <1>8 DEF RealisingOK, OpenManifest
  <2>5. RealisingOK(p)'
    BY <1>2, <1>4, <1>5, <2>1, <2>2, <2>3, <2>4 DEF RealisingOK
  <2>6. QED
    BY <1>1, <1>3, <1>5, <2>5, PathsKept, ForceGoesOn DEF fileVars
<1>9. CASE NextLine(p)
  <2>1. /\ cur'[p] = cur[p] /\ queue'[p] = queue[p] /\ stack'[p] = stack[p]
        /\ direct'[p] = direct[p] /\ pc'[p] \in {"unlink", "promote"}
        /\ names'[p] = names[p] \/ names'[p] = Tail(names[p])
    BY <1>9 DEF NextLine, Goto, IInv, TypeOK, LocalsTypeOK, RealiseTypeOK
  <2>2. ~direct[p] /\ names[p] # <<>>
    BY <1>2, <1>9 DEF RealisingOK, NextLine
  <2>3. \A i \in DOMAIN names'[p] : \E j \in DOMAIN names[p] : names'[p][i] = names[p][j]
    <3>1. \A i \in DOMAIN Tail(names[p]) :
             i + 1 \in DOMAIN names[p] /\ Tail(names[p])[i] = names[p][i + 1]
      BY <1>5, <2>2
    <3>2. QED
      BY <2>1, <3>1
  <2>4. RealisingOK(p)'
    BY <1>2, <1>4, <1>5, <2>1, <2>2, <2>3 DEF RealisingOK
  <2>5. QED
    BY <1>1, <1>3, <1>5, <2>4, PathsKept, ForceGoesOn DEF fileVars
<1>10. QED
  BY <1>6, <1>7, <1>8, <1>9

\* A copy replaces what was at a path by the same expression's build.
LEMMA ForceCopies ==
  ASSUME IInv, MakeInv, NEW p \in Procs, kind[p] = "force",
         Unlink(p) \/ Rename(p) \/ Truncate(p) \/ Record(p), UNCHANGED shimVars
  PROVE  ForceKept(p) /\ UNCHANGED <<latest, manifest>>
<1>1. pc[p] \in Promotion
  BY DEF Unlink, Rename, Truncate, Record, Promotion
<1>2. RealisingOK(p) /\ names[p] # <<>> /\ names[p] \in Seq(Paths) /\ cur[p] \in Ids
  BY <1>1, ForceTurn DEF ForceOK, RealisePCs, Current, RealisingOK, IInv, LocalsOK, LocalOK,
     TypeOK, LocalsTypeOK, RealiseTypeOK
<1> PICK x, rest : x = Head(names[p]) /\ rest = Tail(names[p])
  OBVIOUS
<1>3. /\ x \in Paths /\ latest[x] = cur[p] /\ cur[p] # NoId
      /\ \A i \in DOMAIN rest : latest[rest[i]] = cur[p]
  <2>1. 1 \in DOMAIN names[p] /\ x = names[p][1] /\ x \in Paths
        /\ \A i \in DOMAIN rest : i + 1 \in DOMAIN names[p] /\ rest[i] = names[p][i + 1]
    BY <1>2
  <2>2. QED
    BY <1>2, <2>1, NoIdAssumption DEF RealisingOK
<1>4. UNCHANGED <<latest, manifest>>
  <2>1. CASE Rename(p)
    BY <1>2, <2>1 DEF Rename, RealisingOK
  <2>2. CASE ~Rename(p)
    BY <2>2 DEF Unlink, Truncate, Record
  <2>3. QED
    BY <2>1, <2>2
<1>5. \A s : Current(p, s) => Current(p, s)'
  BY <1>4 DEF Current, shimVars
<1>6. OthersStay(p) /\ pc'[p] \in RealisePCs
  BY DEF Unlink, Rename, Truncate, Record, Goto, OthersStay, realiseVars,
     shimVars, RealisePCs, Promotion, IInv, TypeOK, LocalsTypeOK, RealiseTypeOK
<1>7. ASSUME NEW y \in Paths, Promoting(y), y # x PROVE Promoting(y)'
  <2>1. PICK q \in Procs : pc[q] \in {"truncate", "record"} /\ Head(names[q]) = y
    BY <1>7 DEF Promoting
  <2>2. q # p
    BY <1>7, <2>1
  <2>3. QED
    BY <1>6, <2>1, <2>2 DEF OthersStay, Promoting
<1>8. ASSUME NEW y \in Paths, y # x, tree'[y] = tree[y], promoted'[y] = promoted[y]
      PROVE  Calm(y)'
  BY <1>4, <1>7, <1>8, ForceTurn DEF Calm, Exists
<1>9. Calm(x)
  BY <1>3, ForceTurn
<1>10. CASE Unlink(p)
  <2>1. /\ pc'[p] = "rename" /\ UNCHANGED <<promoted, realiseVars>>
        /\ tree'[x] = Absent /\ \A y \in Paths \ {x} : tree'[y] = tree[y]
    BY <1>3, <1>10 DEF Unlink, Put, Goto, IInv, TypeOK, FilesTypeOK, LocalsTypeOK
  <2>2. Calm(x)'
    BY <1>4, <1>9, <2>1 DEF Calm, Exists, Absent
  <2>3. RealisingOK(p)'
    BY <1>2, <1>4, <1>5, <2>1 DEF RealisingOK, realiseVars
  <2>4. \A y \in Paths : Calm(y)'
    BY <1>8, <2>1, <2>2
  <2>5. QED
    BY <1>4, <1>6, <2>3, <2>4, ForceGoesOn
<1>11. CASE Rename(p)
  <2>1. /\ pc'[p] = "truncate" /\ UNCHANGED <<promoted, realiseVars>>
        /\ tree'[x] = File(cur[p]) /\ \A y \in Paths \ {x} : tree'[y] = tree[y]
    BY <1>3, <1>11 DEF Rename, Put, Goto, IInv, TypeOK, FilesTypeOK, LocalsTypeOK
  <2>2. Promoting(x)'
    BY <2>1 DEF Promoting, realiseVars
  <2>3. Calm(x)'
    BY <1>3, <1>4, <1>9, <2>1, <2>2 DEF Calm
  <2>4. RealisingOK(p)'
    BY <1>2, <1>4, <1>5, <2>1 DEF RealisingOK, realiseVars
  <2>5. \A y \in Paths : Calm(y)'
    BY <1>8, <2>1, <2>3
  <2>6. QED
    BY <1>4, <1>6, <2>4, <2>5, ForceGoesOn
<1>12. CASE Truncate(p)
  <2>1. /\ pc'[p] = "record" /\ fh'[p] /\ UNCHANGED <<tree, cur, names, stack, queue, direct>>
        /\ promoted'[x] = NoId /\ \A y \in Paths \ {x} : promoted'[y] = promoted[y]
    BY <1>3, <1>12 DEF Truncate, Goto, IInv, TypeOK, FilesTypeOK, LocalsTypeOK, RealiseTypeOK
  <2>2. Promoting(x)'
    BY <2>1 DEF Promoting
  <2>3. Calm(x)'
    BY <1>4, <1>9, <2>1, <2>2 DEF Calm, Exists
  <2>4. RealisingOK(p)'
    BY <1>2, <1>4, <1>5, <2>1 DEF RealisingOK
  <2>5. \A y \in Paths : Calm(y)'
    BY <1>8, <2>1, <2>3
  <2>6. QED
    BY <1>4, <1>6, <2>4, <2>5, ForceGoesOn
<1>13. CASE Record(p)
  <2>1. fh[p]
    BY <1>2, <1>13 DEF RealisingOK, Record
  <2>2. /\ pc'[p] = "promote" /\ ~direct'[p] /\ names'[p] = rest
        /\ UNCHANGED <<tree, cur, stack, queue>>
        /\ promoted'[x] = cur[p] /\ \A y \in Paths \ {x} : promoted'[y] = promoted[y]
    BY <1>3, <1>13, <2>1
       DEF Record, Goto, IInv, TypeOK, FilesTypeOK, LocalsTypeOK, RealiseTypeOK
  <2>3. Calm(x)'
    BY <1>3, <1>4, <1>9, <2>2 DEF Calm, Exists
  <2>4. RealisingOK(p)'
    BY <1>2, <1>3, <1>4, <1>5, <2>2 DEF RealisingOK
  <2>5. \A y \in Paths : Calm(y)'
    BY <1>8, <2>2, <2>3
  <2>6. QED
    BY <1>4, <1>6, <2>4, <2>5, ForceGoesOn
<1>14. QED
  BY <1>10, <1>11, <1>12, <1>13

\* Every step of a force keeps the invariant.
LEMMA ForceStep ==
  ASSUME PlainMake, IInv, MakeInv, NEW p \in Procs, kind[p] = "force", Step(p)
  PROVE  MakeInv'
<1>1. ASSUME ForceKept(p), UNCHANGED <<latest, manifest>> PROVE MakeInv'
  BY <1>1, ForceFrame DEF ForceKept
<1>2. CASE Lstat(p) \/ Readlink(p) \/ Lookup(p)
  <2>1. UNCHANGED fileVars
    BY <1>2 DEF Lstat, Readlink, Lookup
  <2>2. QED
    BY <1>1, <1>2, <2>1, ForceClassify DEF fileVars
<1>3. CASE ForceTarget(p)
  <2>1. UNCHANGED fileVars
    BY <1>3 DEF ForceTarget
  <2>2. QED
    BY <1>1, <1>3, <2>1, ForceRoot DEF fileVars
<1>4. CASE Realising(p)
  <2>1. RealiseStep(p) /\ UNCHANGED shimVars
    BY <1>4 DEF Realising
  <2>2. CASE Collect(p) \/ Build(p) \/ OpenManifest(p) \/ NextLine(p)
    <3>1. UNCHANGED fileVars
      BY <2>2 DEF Collect, Build, OpenManifest, NextLine
    <3>2. QED
      BY <1>1, <2>1, <2>2, <3>1, ForceCollects DEF fileVars
  <2>3. CASE Unlink(p) \/ Rename(p) \/ Truncate(p) \/ Record(p)
    BY <1>1, <2>1, <2>3, ForceCopies
  <2>4. QED
    BY <2>1, <2>2, <2>3 DEF RealiseStep
<1>5. CASE EndRealise(p)
  <2>1. Leave(p) /\ UNCHANGED fileVars /\ pc[p] = "promote"
    BY <1>5 DEF EndRealise, Realised, ReturnFromRealise
  <2>2. QED
    BY <1>1, <2>1, ForceLeaves DEF fileVars
<1>6. pc[p] \in {"classify", "readlink", "lookup"} \cup RealisePCs
  BY ForceTurn DEF ForceOK
<1>7. QED
  BY <1>2, <1>3, <1>4, <1>5, <1>6
     DEF Step, Write, RemoveOutput, PutSymlink, Unpromote, Scan, AppendLine, Written,
         RealiseArg, Exec, RealisePCs, Promotion

-----------------------------------------------------------------------------
\* A process that starts finds everyone else, and every file, as they were.
LEMMA StartFrame ==
  ASSUME IInv, MakeInv, NEW p \in Procs, NEW k \in {"recipe", "force"}, NEW o \in Paths,
         NEW operands, Start(p, k, o, operands),
         RecipeOK(p)', ForceOK(p)', Apart', Turns'
  PROVE  MakeInv'
<1>1. /\ pc[p] = "idle" /\ kind[p] = "none" /\ pc'[p] = "classify" /\ kind'[p] = k
      /\ OthersStay(p) /\ UNCHANGED <<fileVars, realiseVars, refs>>
  BY DEF Start, Goto, OthersStay, MakeInv, KindOK, realiseVars, IInv, TypeOK, LocalsTypeOK
<1>2. KindOK(p)'
  BY <1>1 DEF KindOK
<1>3. ASSUME NEW q \in Procs, q # p PROVE KindOK(q)' /\ RecipeOK(q)' /\ ForceOK(q)'
  <2>1. /\ pc'[q] = pc[q] /\ kind'[q] = kind[q] /\ out'[q] = out[q]
        /\ args'[q] = args[q] /\ refs'[q] = refs[q] /\ id'[q] = id[q]
        /\ names'[q] = names[q] /\ cur'[q] = cur[q] /\ stack'[q] = stack[q]
        /\ queue'[q] = queue[q] /\ direct'[q] = direct[q] /\ fh'[q] = fh[q]
        /\ UNCHANGED <<tree, latest>>
    BY <1>1, <1>3 DEF OthersStay, realiseVars, fileVars
  <2>2. KindOK(q)'
    BY <2>1 DEF MakeInv, KindOK
  <2>3. RecipeOK(q)'
    <3>1. RecipeOK(q)
      BY DEF MakeInv
    <3>2. QED
      BY <2>1, <3>1 DEF RecipeOK, Working, GatherOK, InPlaceOK, LinkOK, AloneOK, MadeBy,
         Exists
  <2>4. ForceOK(q)'
    <3>1. ForceOK(q)
      BY DEF MakeInv
    <3>2. RealisingOK(q) => RealisingOK(q)'
      BY <2>1 DEF RealisingOK, Current
    <3>3. TargetOK(q) => TargetOK(q)'
      BY <2>1 DEF TargetOK
    <3>4. QED
      BY <2>1, <3>1, <3>2, <3>3 DEF ForceOK, UpToDate
  <2>5. QED
    BY <2>2, <2>3, <2>4
<1>4. ASSUME NEW x \in Paths PROVE LatestOK(x)' /\ (Stirred(x) \/ Calm(x))'
  <2>1. ASSUME NEW q \in Procs, Working(q)
        PROVE  Working(q)' /\ out'[q] = out[q] /\ pc'[q] = pc[q]
    BY <1>1, <2>1 DEF Working, OthersStay
  <2>2. LatestOK(x)'
    BY <1>1, <2>1 DEF MakeInv, LatestOK, fileVars
  <2>3. Stirred(x) => Stirred(x)'
    BY <2>1 DEF Stirred
  <2>4. Promoting(x) => Promoting(x)'
    BY <1>1 DEF Promoting, OthersStay
  <2>5. Calm(x) => Calm(x)'
    BY <1>1, <2>4 DEF Calm, Exists, fileVars
  <2>6. QED
    BY <2>2, <2>3, <2>5 DEF MakeInv
<1>5. LinesOK'
  BY <1>1 DEF MakeInv, LinesOK, Lines, fileVars
<1>6. QED
  BY <1>2, <1>3, <1>4, <1>5 DEF MakeInv

\* make starts a shim when nothing it depends on is being made.
LEMMA StartWork ==
  ASSUME PlainMake, IInv, MakeInv, NEW p \in Procs, NEW o \in Paths, StartRecipe(p, o)
  PROVE  MakeInv'
<1>1. Start(p, "recipe", o, Inputs[o]) /\ MakeAllows(o) /\ \A b \in Below[o] : Exists(b)
  BY DEF StartRecipe
<1>2. /\ pc[p] = "idle" /\ pc'[p] = "classify" /\ kind'[p] = "recipe" /\ out'[p] = o
      /\ args'[p] = Inputs[o] /\ refs[p] = <<>> /\ stack[p] = <<>> /\ queue[p] = <<>>
      /\ OthersStay(p) /\ UNCHANGED <<fileVars, realiseVars, refs>>
  BY <1>1 DEF Start, Goto, OthersStay, MakeInv, KindOK, realiseVars, IInv, TypeOK, LocalsTypeOK
<1>3. ASSUME NEW q \in Procs, kind'[q] = "force" PROVE FALSE
  <2>1. q # p /\ kind[q] = "force"
    BY <1>2, <1>3 DEF OthersStay
  <2>2. pc[q] # "idle"
    BY <2>1 DEF MakeInv, KindOK
  <2>3. QED
    BY <1>1, <2>1, <2>2 DEF MakeAllows, Forces, PlainMake
<1>4. ASSUME NEW q \in Procs, q # p, Working(q)'
      PROVE  /\ out'[q] = out[q] /\ out[q] # o /\ out[q] \notin Below[o]
             /\ o \notin Below[out[q]] /\ Working(q)
  <2>1. kind[q] = kind'[q] /\ out'[q] = out[q] /\ Working(q)
    BY <1>2, <1>4 DEF OthersStay, Working
  <2>2. q \in Recipes
    BY <2>1 DEF Recipes, MakeInv, KindOK, Working
  <2>3. QED
    BY <1>1, <2>1, <2>2 DEF MakeAllows
<1>5. Apart'
  BY <1>2, <1>4 DEF Apart, MakeInv
<1>6. Turns'
  BY <1>3 DEF Turns
<1>7. RecipeOK(p)'
  <2>1. Tally(Inputs[o], Inputs[o], <<>>, latest')
    <3>1. Inputs[o] \in Seq(Paths) /\ Len(<<>>) = 0 /\ DOMAIN <<>> = {}
      BY InputsAssumption
    <3>2. Len(Inputs[o]) \in Nat /\ DOMAIN Inputs[o] = 1 .. Len(Inputs[o])
      BY <3>1, LenProperties
    <3>3. \A i \in DOMAIN Inputs[o] : 0 + i = i
      BY <3>2
    <3>4. QED
      BY <3>1, <3>2, <3>3 DEF Tally
  <2>2. GatherOK(p)'
    BY <1>2, <2>1 DEF GatherOK
  <2>3. LinkOK(p)' /\ AloneOK(p)'
    BY <1>2 DEF LinkOK, AloneOK, RealisePCs, Promotion, realiseVars
  <2>4. \A b \in Below[o] : Exists(b)'
    BY <1>1, <1>2 DEF Exists, fileVars
  <2>5. QED
    BY <1>2, <2>2, <2>3, <2>4 DEF RecipeOK
<1>8. ForceOK(p)'
  BY <1>2 DEF ForceOK
<1>9. QED
  BY <1>1, <1>5, <1>6, <1>7, <1>8, StartFrame

\* force is run on a target that is up to date, between two makes.
LEMMA StartForceKept ==
  ASSUME PlainMake, IInv, MakeInv, NEW p \in Procs, NEW o \in Forced, StartForce(p, o)
  PROVE  MakeInv'
<1>1. /\ Start(p, "force", o, <<o>>) /\ o \in Paths /\ Recipes = {}
      /\ \A b \in Below[o] \cup {o} : UpToDate(b)
  BY ForcedAssumption DEF StartForce, PlainMake
<1>2. /\ pc[p] = "idle" /\ pc'[p] = "classify" /\ kind'[p] = "force" /\ out'[p] = o
      /\ args'[p] = <<o>> /\ refs[p] = <<>>
      /\ OthersStay(p) /\ UNCHANGED <<fileVars, realiseVars, refs>>
  BY <1>1 DEF Start, Goto, OthersStay, MakeInv, KindOK, realiseVars, IInv, TypeOK, LocalsTypeOK
<1>3. ASSUME NEW q \in Procs, Working(q)' PROVE FALSE
  <2>1. q # p /\ Working(q)
    BY <1>2, <1>3 DEF OthersStay, Working
  <2>2. q \in Recipes
    BY <2>1 DEF Recipes, MakeInv, KindOK, Working
  <2>3. QED
    BY <1>1, <2>2
<1>4. Apart' /\ Turns'
  BY <1>3 DEF Apart, Turns
<1>5. RecipeOK(p)'
  BY <1>3 DEF RecipeOK
<1>6. ForceOK(p)'
  BY <1>1, <1>2 DEF ForceOK, TargetOK, RealisePCs, Promotion, UpToDate, fileVars
<1>7. QED
  BY <1>1, <1>4, <1>5, <1>6, StartFrame

\* An empty workspace.
LEMMA InitMakeInv == Init => MakeInv
<1> SUFFICES ASSUME Init PROVE MakeInv
  OBVIOUS
<1>1. \A p \in Procs : /\ pc[p] = "idle" /\ kind[p] = "none" /\ refs[p] = <<>>
                       /\ stack[p] = <<>> /\ queue[p] = <<>>
  BY DEF Init, RealiseInit
<1>2. \A o \in Paths : tree[o] = Absent /\ latest[o] = NoId /\ promoted[o] = NoId
  BY DEF Init, FilesInit
<1>3. \A t \in Ids : Lines(t) = {}
  BY DEF Init, FilesInit, Lines
<1>4. \A p \in Procs : KindOK(p) /\ RecipeOK(p) /\ ForceOK(p)
  BY <1>1 DEF KindOK, RecipeOK, ForceOK, Working
<1>5. \A o \in Paths : LatestOK(o) /\ Calm(o)
  BY <1>2 DEF LatestOK, Calm, Exists, Absent
<1>6. QED
  BY <1>1, <1>3, <1>4, <1>5 DEF MakeInv, Apart, Turns, LinesOK, Working

\* As long as no call fails and nothing is killed, no step of anyone takes the
\* invariant away.
LEMMA StepMakeInv ==
  ASSUME PlainMake, IInv, IInv', faults = 0 => MakeInv, [Next]_vars
  PROVE  faults' = 0 => MakeInv'
<1> SUFFICES ASSUME faults' = 0 PROVE MakeInv'
  OBVIOUS
<1>1. faults = 0
  <2>1. faults' = faults \/ faults' = faults + 1
    BY StepFaults
  <2>2. QED
    BY <2>1 DEF IInv, TypeOK
<1>2. MakeInv
  BY <1>1
<1>3. ASSUME NEW p \in Procs, Step(p) PROVE MakeInv'
  <2>1. kind[p] \in {"recipe", "objtool", "force", "none"}
    BY <1>2 DEF MakeInv, KindOK, IInv, TypeOK, LocalsTypeOK, Kinds
  <2>2. kind[p] # "none"
    <3>1. pc[p] # "idle"
      BY <1>3 DEF Step, Lstat, Readlink, Lookup, Write, ForceTarget, RemoveOutput,
         PutSymlink, Unpromote, Scan, AppendLine, Written, RealiseArg, Exec, Realising,
         RealiseStep, Collect, Build, OpenManifest, NextLine, Unlink, Rename, Truncate,
         Record, EndRealise, Realised
    <3>2. QED
      BY <1>2, <3>1 DEF MakeInv, KindOK
  <2>3. QED
    BY <1>2, <1>3, <2>1, <2>2, WorkStep, ForceStep DEF Working
<1>4. ASSUME NEW p \in Procs, RealiseFails(p) \/ PromoteFails(p) \/ Kill(p) PROVE FALSE
  BY <1>1, <1>4 DEF RealiseFails, PromoteFails, Kill, Fault
<1>5. ASSUME NEW o \in Paths, RealTool(o) PROVE FALSE
  BY <1>5 DEF RealTool, PlainMake
<1>6. CASE UNCHANGED vars
  <2>1. UNCHANGED <<tree, thunks, manifest, promoted, latest, pc, cur, names, stack, queue,
                    direct, fh, kind, out, args, refs, id>>
    BY <1>6 DEF vars, fileVars, realiseVars, shimVars
  <2>2. MakeInv' = MakeInv
    BY <2>1 DEF MakeInv, Apart, Turns, LinesOK, Lines, KindOK, RecipeOK, Working, GatherOK,
       InPlaceOK, LinkOK, AloneOK, MadeBy, Exists, ForceOK, TargetOK, RealisingOK, Current,
       UpToDate, LatestOK, Calm, Promoting, Stirred
  <2>3. QED
    BY <1>2, <2>2
<1>7. QED
  BY <1>2, <1>3, <1>4, <1>5, <1>6, StartWork, StartForceKept DEF Next

\* MakeInv holds in every state of a run in which nothing has failed.
LEMMA MakeInvariance ==
  ASSUME PlainMake
  PROVE  Spec => [](faults = 0 => MakeInv)
<1>1. Init => (faults = 0 => MakeInv)
  BY InitMakeInv
<1>2. IInv /\ IInv' /\ (faults = 0 => MakeInv) /\ [Next]_vars => (faults = 0 => MakeInv)'
  BY StepMakeInv
<1>3. QED
  BY Invariance, <1>1, <1>2, PTL DEF Spec

-----------------------------------------------------------------------------
\* In a build that is forced only when make is not running, whatever the make
\* graph and the order of its recipes, and as long as nothing fails, an archive
\* or link shim refers to each of its operands by what was last published
\* there, be it a placeholder or a promoted copy.
THEOREM OperandsAreLatest ==
  ASSUME PlainMake
  PROVE  Spec => [](faults = 0 => ConsumersSeeLatest)
<1>1. MakeInv => ConsumersSeeLatest
  <2> SUFFICES ASSUME MakeInv, NEW p \in Procs, kind[p] = "recipe", NEW i \in DOMAIN refs[p]
               PROVE  refs[p][i].id = latest[Inputs[out[p]][i]]
    BY DEF ConsumersSeeLatest
  <2>1. GatherOK(p)
    BY DEF MakeInv, RecipeOK, Working
  <2>2. QED
    BY <2>1 DEF GatherOK, Tally
<1>2. QED
  BY MakeInvariance, <1>1, PTL

\* In such a build an operand that objtool rewrites is never referred to by
\* what the compiler alone made of it, although both have one name.
THEOREM OperandsAreRewritten ==
  ASSUME PlainMake
  PROVE  Spec => [](faults = 0 => ConsumersSeeRewrite)
<1>1. IInv /\ MakeInv => ConsumersSeeRewrite
  <2> SUFFICES ASSUME IInv, MakeInv, NEW p \in Procs, kind[p] = "recipe",
                      NEW i \in DOMAIN refs[p], Inputs[out[p]][i] \in Transformed
               PROVE  Rewrites(refs[p][i].id, Inputs[out[p]][i])
    BY DEF ConsumersSeeRewrite, Rewrites
  <2>1. GatherOK(p) /\ Working(p)
    BY DEF MakeInv, RecipeOK, Working
  <2>2. out[p] \in Paths
    BY <2>1, OutputOfWork
  <2> PICK x : x = Inputs[out[p]][i]
    OBVIOUS
  <2>3. x \in Below[out[p]]
    BY <2>1, <2>2, OperandBelow
  <2>4. /\ LatestOK(x) /\ Exists(x) /\ Calm(x)
        /\ \A q \in Procs : Working(q) => out[q] # x
    BY <2>1, <2>3, BelowHeldStill
  <2>5. Rewrites(latest[x], x)
    BY <2>4 DEF LatestOK, Calm
  <2>6. refs[p][i].id = latest[x]
    BY <2>1 DEF GatherOK, Tally
  <2>7. QED
    BY <2>5, <2>6
<1>2. QED
  BY MakeInvariance, Invariance, <1>1, PTL

\* In such a build no shim ever falls back to the real tool.
THEOREM NoShimPassesThrough ==
  ASSUME PlainMake
  PROVE  Spec => [](faults = 0 => PassthroughOnlyForForeign)
<1>1. MakeInv => PassthroughOnlyForForeign
  BY DEF MakeInv, KindOK, PassthroughOnlyForForeign
<1>2. QED
  BY MakeInvariance, <1>1, PTL

\* In such a build the promoted record of a copy is of the copy, unless it is
\* being written.
THEOREM RecordsMatchCopies ==
  ASSUME PlainMake
  PROVE  Spec => [](faults = 0 => RecordMatchesCopy)
<1>1. IInv /\ MakeInv => RecordMatchesCopy
  <2> SUFFICES ASSUME IInv, MakeInv, NEW o \in Paths, tree[o].kind = "file",
                      NoId \notin {tree[o].id, promoted[o]}, ~Promoting(o)
               PROVE  promoted[o] = tree[o].id
    BY DEF RecordMatchesCopy
  <2>1. ~Stirred(o)
    <3> SUFFICES ASSUME NEW p \in Procs, Working(p), out[p] = o,
                        pc[p] \in {"unpromote", "truncate"}
                 PROVE  FALSE
      BY DEF Stirred
    <3>1. CASE pc[p] = "unpromote"
      <4>1. LinkOK(p)
        BY DEF MakeInv, RecipeOK
      <4>2. tree[o] = Symlink(id[p])
        BY <3>1, <4>1 DEF LinkOK
      <4>3. QED
        BY <4>2 DEF Symlink
    <3>2. CASE pc[p] = "truncate"
      <4>1. names[p] = <<o>>
        BY <3>2 DEF MakeInv, RecipeOK, AloneOK, Promotion
      <4>2. QED
        BY <3>2, <4>1 DEF Promoting
    <3>3. QED
      BY <3>1, <3>2
  <2>2. Calm(o)
    BY <2>1 DEF MakeInv
  <2>3. QED
    BY <2>2 DEF Calm, Absent, Symlink, File
<1>2. QED
  BY MakeInvariance, Invariance, <1>1, PTL

\* In such a build force never brings an older output back.
THEOREM NothingReverts ==
  ASSUME PlainMake
  PROVE  Spec => [](faults = 0 => NeverReverts)
<1>1. MakeInv => NeverReverts
  <2> SUFFICES ASSUME MakeInv, NEW o \in Paths, tree[o].kind = "file"
               PROVE  tree[o].id = latest[o]
    BY DEF NeverReverts
  <2>1. CASE Stirred(o)
    <3>1. PICK p \in Procs : Working(p) /\ out[p] = o /\ pc[p] \in {"unpromote", "truncate"}
      BY <2>1 DEF Stirred
    <3>2. LinkOK(p) /\ AloneOK(p)
      BY <3>1 DEF MakeInv, RecipeOK
    <3>3. CASE pc[p] = "unpromote"
      <4>1. tree[o] = Symlink(id[p])
        BY <3>1, <3>2, <3>3 DEF LinkOK
      <4>2. QED
        BY <4>1 DEF Symlink
    <3>4. CASE pc[p] = "truncate"
      <4>1. tree[o] = File(cur[p]) /\ latest[o] = cur[p]
        BY <3>1, <3>2, <3>4 DEF AloneOK
      <4>2. QED
        BY <4>1 DEF File
    <3>5. QED
      BY <3>1, <3>3, <3>4
  <2>2. CASE Calm(o)
    BY <2>2 DEF Calm, Absent, Symlink, File
  <2>3. QED
    BY <2>1, <2>2 DEF MakeInv
<1>2. QED
  BY MakeInvariance, <1>1, PTL

-----------------------------------------------------------------------------
(***************************************************************************)
(* A force turns every placeholder of the graph it realises into a copy,   *)
(* for any graph, with other forces at work on parts of it.                *)
(*                                                                         *)
(* CompleteInv has one part about paths: what was last published at a path *)
(* shows as its placeholder or as a copy, or its recipe is about to put    *)
(* the placeholder there (PlacedOK). The others are about a force.         *)
(* CollectThunks queues a set that, but for what is on its stack, is       *)
(* closed under imports (CollectingOK). From the build on, all members of  *)
(* such a set are covered: still in the queue, or with every output that   *)
(* shows a placeholder among the lines of the manifest that is open, or    *)
(* with no such output left (CoveringOK). Opening a manifest takes a thunk *)
(* out of the queue; that every placeholder is listed in the manifest of   *)
(* its thunk, which NativeBuildProofs shows, is why the thunk stays        *)
(* covered.                                                                *)
(*                                                                         *)
(* Closure is a recursive function over the graph. Nothing is proved about *)
(* its values but that a set which holds a thunk and, with each thunk,     *)
(* what it imports, holds its closure (ClosureWithin). For that imports    *)
(* must go down some rank, the hypothesis Ranks: ids are hashes of texts   *)
(* that hold the ids they import.                                          *)
(***************************************************************************)

\* What is in a sequence.
Elems(s) == {s[i] : i \in DOMAIN s}

\* A process is about to put a copy at o, whose old file it has removed.
Renaming(o) == \E q \in Procs : pc[q] = "rename" /\ Head(names[q]) = o

\* o is a copy of what was last published there, or about to be one.
Settled(o) == tree[o] = File(latest[o]) \/ Renaming(o)

\* What was published at o is a thunk, and a placeholder or a copy of it is at o
\* unless someone is replacing it right now.
PlacedOK(o) ==
    latest[o] # NoId =>
        /\ latest[o] \in thunks
        /\ \/ tree[o].kind = "symlink" \/ Settled(o)
           \/ \E p \in Procs : Working(p) /\ out[p] = o /\ pc[p] = "symlink"

\* Only a shim whose mode says so realises what it makes.
SoloOK(p) ==
    Working(p) /\ pc[p] \in RealisePCs => out[p] \in RealiseNow /\ cur[p] \in thunks

\* CollectThunks has queued a set that holds the root and, but for what is still
\* on its stack, all imports of what it holds.
CollectingOK(p) ==
    /\ cur[p] = refs[p][1].id /\ cur[p] \in Elems(queue[p])
    /\ \A t \in Elems(queue[p]) : Elems(Imports[t]) \subseteq Elems(queue[p]) \cup Elems(stack[p])

\* p has promoted every output of t, or will.
Covered(p, t) ==
    \/ t \in Elems(queue[p])
    \/ \A o \in Paths : latest[o] = t => Settled(o) \/ (cur[p] = t /\ o \in Elems(names[p]))

\* A set that holds what each of its thunks imports.
Closed(Q) == \A t \in Q : Elems(Imports[t]) \subseteq Q

CoveringOK(p) ==
    \E Q \in SUBSET Ids : refs[p][1].id \in Q /\ Closed(Q) /\ \A t \in Q : Covered(p, t)

\* A force has queued, promoted or is promoting all that its root is built from.
CompleteOK(p) ==
    kind[p] = "force" /\ pc[p] \in RealisePCs =>
        /\ Len(refs[p]) = 1
        /\ pc[p] = "collect" => CollectingOK(p)
        /\ pc[p] # "collect" => CoveringOK(p)
        /\ pc[p] \in {"rename", "truncate", "record"} => tree[Head(names[p])].kind # "symlink"

CompleteInv ==
    /\ \A o \in Paths : PlacedOK(o)
    /\ \A p \in Procs : SoloOK(p) /\ CompleteOK(p)

-----------------------------------------------------------------------------
\* What is in a sequence with another appended.
LEMMA ElemsConcat ==
  ASSUME NEW S, NEW s1 \in Seq(S), NEW s2 \in Seq(S)
  PROVE  s1 \o s2 \in Seq(S) /\ Elems(s1) \cup Elems(s2) \subseteq Elems(s1 \o s2)
<1>1. PICK m \in Nat, n \in Nat : m = Len(s1) /\ n = Len(s2)
  BY LenProperties
<1>2. /\ DOMAIN s1 = 1 .. m /\ DOMAIN s2 = 1 .. n /\ s1 \o s2 \in Seq(S)
      /\ DOMAIN (s1 \o s2) = 1 .. (m + n)
      /\ \A i \in 1 .. (m + n) : (s1 \o s2)[i] = IF i <= m THEN s1[i] ELSE s2[i - m]
  <2>1. /\ s1 \o s2 \in Seq(S) /\ Len(s1 \o s2) = Len(s1) + Len(s2)
        /\ \A i \in 1 .. (Len(s1) + Len(s2)) :
               (s1 \o s2)[i] = IF i <= Len(s1) THEN s1[i] ELSE s2[i - Len(s1)]
    BY ConcatProperties, Zenon
  <2>2. QED
    BY <1>1, <2>1, LenProperties
<1>3. ASSUME NEW i \in DOMAIN s1 PROVE s1[i] \in Elems(s1 \o s2)
  <2>1. i \in DOMAIN (s1 \o s2) /\ i <= m
    BY <1>2
  <2>2. QED
    BY <1>2, <2>1 DEF Elems
<1>4. ASSUME NEW i \in DOMAIN s2 PROVE s2[i] \in Elems(s1 \o s2)
  <2>1. m + i \in DOMAIN (s1 \o s2) /\ ~(m + i <= m) /\ (m + i) - m = i
    BY <1>2
  <2>2. (s1 \o s2)[m + i] = s2[i]
    BY <1>2, <2>1
  <2>3. QED
    BY <2>1, <2>2 DEF Elems
<1>5. QED
  BY <1>2, <1>3, <1>4 DEF Elems

\* What is in a sequence is its head or in its tail.
LEMMA ElemsTail ==
  ASSUME NEW S, NEW s \in Seq(S), s # <<>>
  PROVE  /\ Tail(s) \in Seq(S) /\ Head(s) \in S
         /\ Elems(s) = {Head(s)} \cup Elems(Tail(s))
<1>1. /\ Tail(s) \in Seq(S) /\ 1 \in DOMAIN s /\ Head(s) = s[1] /\ Head(s) \in S
      /\ \A i \in DOMAIN Tail(s) : i + 1 \in DOMAIN s /\ Tail(s)[i] = s[i + 1]
      /\ \A i \in DOMAIN s : i # 1 => i - 1 \in DOMAIN Tail(s) /\ (i - 1) + 1 = i
  OBVIOUS
<1>2. QED
  BY <1>1 DEF Elems

\* What is in a sequence and one more.
LEMMA ElemsAppend ==
  ASSUME NEW S, NEW s \in Seq(S), NEW e \in S
  PROVE  Append(s, e) \in Seq(S) /\ Elems(Append(s, e)) = Elems(s) \cup {e}
<1>1. /\ Append(s, e) \in Seq(S)
      /\ \A i \in DOMAIN s : i \in DOMAIN Append(s, e) /\ Append(s, e)[i] = s[i]
      /\ \A i \in DOMAIN Append(s, e) : i \in DOMAIN s \/ Append(s, e)[i] = e
      /\ Len(s) + 1 \in DOMAIN Append(s, e) /\ Append(s, e)[Len(s) + 1] = e
  OBVIOUS
<1>2. QED
  BY <1>1 DEF Elems

\* The empty sequence and a sequence of one.
LEMMA ElemsShort ==
  ASSUME NEW e
  PROVE  Elems(<<>>) = {} /\ Elems(<<e>>) = {e}
  BY DEF Elems

-----------------------------------------------------------------------------
\* What no other process's step does to the locals of q.
Steady(q) ==
    /\ pc'[q] = pc[q] /\ kind'[q] = kind[q] /\ out'[q] = out[q] /\ refs'[q] = refs[q]
    /\ cur'[q] = cur[q] /\ names'[q] = names[q] /\ stack'[q] = stack[q]
    /\ queue'[q] = queue[q]

\* A process steps by itself.
LEMMA StepSteady ==
  ASSUME IInv, NEW p \in Procs, Step(p), NEW q \in Procs, q # p
  PROVE  Steady(q)
<1> USE DEF IInv, TypeOK, LocalsTypeOK, RealiseTypeOK, Goto, Steady
<1>1. Leave(p) => Steady(q)
  BY DEF Leave
<1>2. \A t, x : StartRealise(p, t, x) /\ UNCHANGED <<kind, out, refs>> => Steady(q)
  BY DEF StartRealise
<1>3. \A t, x : StartRealiseAlone(p, t, x) /\ UNCHANGED <<kind, out, refs>> => Steady(q)
  BY DEF StartRealiseAlone
<1>4. Unmodelled(p) => Steady(q)
  BY <1>1 DEF Unmodelled, realiseVars
<1>5. \A via, t : Refer(p, via, t) => Steady(q)
  BY DEF Refer, realiseVars
<1>6. Lstat(p) => Steady(q)
  BY <1>4 DEF Lstat, realiseVars, shimVars
<1>7. Readlink(p) \/ Lookup(p) => Steady(q)
  BY <1>4, <1>5 DEF Readlink, Lookup
<1>8. Write(p) => Steady(q)
  BY <1>3 DEF Write, realiseVars
<1>9. ForceTarget(p) => Steady(q)
  BY <1>2 DEF ForceTarget, shimVars
<1>10. RemoveOutput(p) \/ Unpromote(p) \/ Scan(p) \/ AppendLine(p) => Steady(q)
  BY DEF RemoveOutput, Unpromote, Scan, AppendLine, realiseVars, shimVars
<1>11. PutSymlink(p) => Steady(q)
  BY <1>1 DEF PutSymlink, realiseVars, shimVars
<1>12. Written(p) => Steady(q)
  BY <1>1, <1>2 DEF Written, ThenObjtool, ThenRealise, ThenEnd, realiseVars, shimVars
<1>13. RealiseArg(p) => Steady(q)
  BY <1>2 DEF RealiseArg, realiseVars
<1>14. Exec(p) => Steady(q)
  BY <1>1 DEF Exec
<1>15. Realising(p) => Steady(q)
  BY DEF Realising, RealiseStep, Collect, Build, OpenManifest, NextLine, Unlink, Rename,
     Truncate, Record, realiseVars, shimVars
<1>16. EndRealise(p) => Steady(q)
  BY <1>1 DEF EndRealise, ReturnFromRealise, shimVars
<1>17. QED
  BY <1>6, <1>7, <1>8, <1>9, <1>10, <1>11, <1>12, <1>13, <1>14, <1>15, <1>16 DEF Step

\* A path at which nothing changes stays in place, unless p was at work on it.
LEMMA PlacedFrame ==
  ASSUME NEW p \in Procs, \A q \in Procs \ {p} : Steady(q), thunks \subseteq thunks',
         NEW o \in Paths, tree'[o] = tree[o], latest'[o] = latest[o],
         pc[p] = "rename" => Head(names[p]) # o,
         pc[p] = "symlink" => out[p] # o
  PROVE  (Settled(o) => Settled(o)') /\ (PlacedOK(o) => PlacedOK(o)')
<1>1. Renaming(o) => Renaming(o)'
  BY DEF Renaming, Steady
<1>2. Settled(o) => Settled(o)'
  BY <1>1 DEF Settled
<1>3. (\E q \in Procs : Working(q) /\ out[q] = o /\ pc[q] = "symlink")
          => (\E q \in Procs : Working(q) /\ out[q] = o /\ pc[q] = "symlink")'
  BY DEF Working, Steady
<1>4. QED
  BY <1>2, <1>3 DEF PlacedOK

\* A shim that realises is one whose mode says so, before and after its step.
LEMMA SoloStep ==
  ASSUME PlainMake, IInv, MakeInv, NEW p \in Procs, Working(p), Step(p), SoloOK(p)
  PROVE  SoloOK(p)' /\ kind'[p] # "force"
<1> USE DEF IInv, TypeOK, LocalsTypeOK, RealiseTypeOK, Goto, Working, SoloOK, RealisePCs,
        Promotion
<1>1. kind[p] # "passthrough" /\ kind[p] # "force"
  OBVIOUS
<1>2. Leave(p) => SoloOK(p)' /\ kind'[p] # "force"
  BY DEF Leave
<1>3. Unmodelled(p) => SoloOK(p)' /\ kind'[p] # "force"
  BY <1>1, <1>2 DEF Unmodelled
<1>4. \A via, t : Refer(p, via, t) => SoloOK(p)' /\ kind'[p] # "force"
  BY <1>1 DEF Refer
<1>5. CASE Lstat(p)
  BY <1>1, <1>3, <1>5 DEF Lstat, shimVars
<1>6. CASE Readlink(p) \/ Lookup(p)
  BY <1>3, <1>4, <1>6 DEF Readlink, Lookup
<1>7. CASE Write(p)
  <2>1. PICK t \in Ids : /\ t \in thunks' /\ kind' = kind /\ out' = out
                         /\ IF out[p] \in RealiseNow THEN StartRealiseAlone(p, t, out[p])
                                                     ELSE Goto(p, "remove")
    BY <1>7 DEF Write
  <2>2. QED
    BY <1>1, <2>1 DEF StartRealiseAlone
<1>8. CASE RemoveOutput(p) \/ Unpromote(p) \/ Scan(p) \/ AppendLine(p)
  BY <1>1, <1>8 DEF RemoveOutput, Unpromote, Scan, AppendLine, shimVars
<1>9. CASE PutSymlink(p)
  BY <1>1, <1>2, <1>9 DEF PutSymlink, shimVars
<1>10. CASE Written(p)
  <2>1. ~ThenRealise(p)
    BY DEF ThenRealise, PlainMake
  <2>2. ThenObjtool(p) => SoloOK(p)' /\ kind'[p] # "force"
    BY DEF ThenObjtool
  <2>3. QED
    BY <1>2, <1>10, <2>1, <2>2 DEF Written, ThenEnd
<1>11. CASE Realising(p)
  <2>1. kind' = kind /\ out' = out /\ thunks' = thunks /\ pc[p] \in RealisePCs
    BY <1>11 DEF Realising, RealiseStep, Collect, Build, OpenManifest, NextLine, Unlink,
       Rename, Truncate, Record, shimVars, fileVars
  <2>2. cur' = cur
    BY <1>11, NotWork DEF Realising, RealiseStep, Build, Unlink, Rename, Truncate, Record,
       realiseVars
  <2>3. QED
    BY <1>1, <2>1, <2>2
<1>12. CASE EndRealise(p)
  BY <1>1, <1>2, <1>12 DEF EndRealise, ReturnFromRealise
<1>13. QED
  BY <1>5, <1>6, <1>7, <1>8, <1>9, <1>10, <1>11, <1>12, NotWork DEF Step

\* A step of a shim keeps its own output and every other path in place.
LEMMA WorkPlaces ==
  ASSUME PlainMake, IInv, MakeInv, CompleteInv, NEW p \in Procs, Working(p), Step(p),
         NEW x \in Paths
  PROVE  PlacedOK(x)'
<1>1. /\ PlacedOK(x) /\ SoloOK(p) /\ LocalOK(p) /\ RecipeOK(p) /\ thunks \subseteq thunks'
      /\ \A q \in Procs \ {p} : Steady(q)
  BY StepSteady, StepOthersKeep DEF CompleteInv, IInv, LocalsOK, MakeInv, OthersKeep
<1> PICK o \in Paths : o = out[p]
  BY OutputOfWork
<1>2. pc[p] = "rename" => Head(names[p]) = o
  BY <1>1 DEF RecipeOK, AloneOK, Promotion
<1>3. CASE x # o /\ tree'[x] = tree[x] /\ latest'[x] = latest[x]
  BY <1>1, <1>2, <1>3, PlacedFrame
<1>4. CASE UNCHANGED <<tree, latest>> /\ pc[p] \notin {"rename", "symlink"}
  BY <1>1, <1>4, PlacedFrame
<1>5. CASE RemoveOutput(p)
  <2>1. /\ pc'[p] = "symlink" /\ UNCHANGED <<kind, out, latest, thunks>>
        /\ \A y \in Paths \ {o} : tree'[y] = tree[y]
    BY <1>5 DEF RemoveOutput, Goto, Put, shimVars, IInv, TypeOK, LocalsTypeOK, FilesTypeOK
  <2>2. PlacedOK(o)'
    BY <1>1, <2>1 DEF PlacedOK, Working, CompleteInv
  <2>3. QED
    BY <1>3, <2>1, <2>2
<1>6. CASE PutSymlink(p)
  <2>1. ~Exists(o) /\ id[p] \in thunks
    BY <1>1, <1>6 DEF PutSymlink, LocalOK, RecipeOK, LinkOK, Exists
  <2>2. /\ tree'[o] = Symlink(id[p]) /\ latest'[o] = id[p] /\ UNCHANGED thunks
        /\ \A y \in Paths \ {o} : tree'[y] = tree[y] /\ latest'[y] = latest[y]
    BY <1>6, <2>1 DEF PutSymlink, Put, IInv, TypeOK, FilesTypeOK
  <2>3. PlacedOK(o)'
    BY <2>1, <2>2 DEF PlacedOK, Symlink
  <2>4. QED
    BY <1>3, <2>2, <2>3
<1>7. CASE Realising(p) /\ Unlink(p)
  <2>1. /\ pc'[p] = "rename" /\ names'[p] = names[p] /\ UNCHANGED <<latest, thunks>>
        /\ names[p] = <<o>> /\ \A y \in Paths \ {o} : tree'[y] = tree[y]
    BY <1>1, <1>7 DEF Unlink, Goto, Put, realiseVars, RecipeOK, AloneOK, Promotion, IInv,
       TypeOK, LocalsTypeOK, FilesTypeOK
  <2>2. Renaming(o)'
    BY <2>1 DEF Renaming
  <2>3. PlacedOK(o)'
    BY <2>1, <2>2 DEF PlacedOK, Settled, CompleteInv
  <2>4. QED
    BY <1>3, <2>1, <2>3
<1>8. CASE Realising(p) /\ Rename(p)
  <2>1. names[p] = <<o>> /\ direct[p] /\ queue[p] = <<>> /\ cur[p] \in thunks
    BY <1>1, <1>8 DEF Rename, RecipeOK, AloneOK, Promotion, SoloOK, RealisePCs
  <2>2. /\ tree'[o] = File(cur[p]) /\ latest'[o] = cur[p] /\ UNCHANGED thunks
        /\ \A y \in Paths \ {o} : tree'[y] = tree[y] /\ latest'[y] = latest[y]
    BY <1>8, <2>1 DEF Rename, Put, IInv, TypeOK, FilesTypeOK
  <2>3. PlacedOK(o)'
    BY <2>1, <2>2 DEF PlacedOK, Settled
  <2>4. QED
    BY <1>3, <2>2, <2>3
<1>9. CASE Realising(p) /\ ~Unlink(p) /\ ~Rename(p)
  BY <1>4, <1>9, NotWork DEF Realising, RealiseStep, Build, Truncate, Record, fileVars
<1>10. QED
  <2>1. CASE Lstat(p) \/ Readlink(p) \/ Lookup(p) \/ Write(p)
    BY <1>4, <2>1 DEF Lstat, Readlink, Lookup, Write, fileVars
  <2>2. CASE Unpromote(p) \/ Scan(p) \/ AppendLine(p) \/ Written(p)
    BY <1>4, <2>2 DEF Unpromote, Scan, AppendLine, Written, fileVars
  <2>3. CASE EndRealise(p)
    BY <1>4, <2>3 DEF EndRealise, Realised, ReturnFromRealise, fileVars
  <2>4. QED
    BY <1>5, <1>6, <1>7, <1>8, <1>9, <2>1, <2>2, <2>3, NotWork DEF Step

\* Every step of a shim keeps the invariant: no force is running.
LEMMA WorkComplete ==
  ASSUME PlainMake, IInv, MakeInv, CompleteInv, NEW p \in Procs, Working(p), Step(p)
  PROVE  CompleteInv'
<1>1. SoloOK(p)' /\ kind'[p] # "force"
  BY SoloStep DEF CompleteInv
<1>2. ASSUME NEW q \in Procs, q # p PROVE SoloOK(q)' /\ kind'[q] # "force"
  <2>1. Steady(q) /\ thunks \subseteq thunks' /\ kind[q] # "force" /\ SoloOK(q)
    BY <1>2, StepSteady, StepOthersKeep DEF MakeInv, Turns, OthersKeep, CompleteInv
  <2>2. QED
    BY <2>1 DEF Steady, SoloOK, Working
<1>3. QED
  BY <1>1, <1>2, WorkPlaces DEF CompleteInv, CompleteOK

-----------------------------------------------------------------------------
\* While a force runs every published path is a placeholder, a copy or about to
\* be one, and stays in place.
LEMMA ForcePlaces ==
  ASSUME IInv, MakeInv, CompleteInv, NEW p \in Procs, kind[p] = "force"
  PROVE  \A o \in Paths : latest[o] # NoId =>
             /\ latest[o] \in thunks
             /\ tree[o] = Symlink(latest[o]) \/ Settled(o)
             /\ tree[o].kind # "symlink" => Settled(o)
<1> SUFFICES ASSUME NEW o \in Paths, latest[o] # NoId
             PROVE  /\ latest[o] \in thunks
                    /\ tree[o] = Symlink(latest[o]) \/ Settled(o)
                    /\ tree[o].kind # "symlink" => Settled(o)
  OBVIOUS
<1>1. PlacedOK(o) /\ Calm(o) /\ \A q \in Procs : ~Working(q)
  BY ForceTurn DEF CompleteInv
<1>2. QED
  BY <1>1 DEF PlacedOK, Calm, Absent, Symlink, File

\* What a step of a force does to the working tree: a placeholder or a copy is
\* removed by who is about to put a copy there, and the copy put there.
LEMMA ForceTree ==
  ASSUME PlainMake, IInv, MakeInv, NEW p \in Procs, kind[p] = "force", Step(p)
  PROVE  /\ latest' = latest /\ thunks' = thunks
         /\ \A o \in Paths : \/ /\ tree'[o] = tree[o]
                                /\ pc[p] = "rename" => Head(names[p]) # o
                             \/ Settled(o)' /\ tree'[o].kind # "symlink"
<1>1. pc[p] \in {"classify", "readlink", "lookup"} \cup RealisePCs
  BY ForceTurn DEF ForceOK
<1>2. ASSUME UNCHANGED fileVars, pc[p] # "rename"
      PROVE  /\ latest' = latest /\ thunks' = thunks
             /\ \A o \in Paths : tree'[o] = tree[o] /\ (pc[p] = "rename" => Head(names[p]) # o)
  BY <1>2 DEF fileVars
<1>3. CASE Lstat(p) \/ Readlink(p) \/ Lookup(p) \/ ForceTarget(p) \/ EndRealise(p)
  BY <1>2, <1>3 DEF Lstat, Readlink, Lookup, ForceTarget, EndRealise, Realised,
     ReturnFromRealise
<1>4. CASE Realising(p)
  <2>1. RealiseStep(p) /\ UNCHANGED shimVars
    BY <1>4 DEF Realising
  <2>2. CASE Collect(p) \/ Build(p) \/ OpenManifest(p) \/ NextLine(p)
    BY <1>2, <2>2 DEF Collect, Build, OpenManifest, NextLine
  <2>3. CASE Unlink(p)
    <3> PICK x : x = Head(names[p])
      OBVIOUS
    <3>1. /\ UNCHANGED <<latest, thunks, names>> /\ pc'[p] = "rename" /\ pc[p] # "rename"
          /\ \A o \in Paths : tree'[o] = IF o = x THEN Absent ELSE tree[o]
      BY <2>3 DEF Unlink, Put, Goto, realiseVars, IInv, TypeOK, FilesTypeOK, LocalsTypeOK
    <3>2. Renaming(x)'
      BY <3>1 DEF Renaming
    <3>3. QED
      BY <3>1, <3>2 DEF Settled, Absent
  <2>4. CASE Rename(p)
    <3> PICK x : x = Head(names[p])
      OBVIOUS
    <3>1. pc[p] = "rename"
      BY <2>4 DEF Rename
    <3>2. RealisingOK(p) /\ names[p] # <<>> /\ names[p] \in Seq(Paths)
      BY <3>1, ForceTurn DEF ForceOK, RealisePCs, Promotion, IInv, LocalsOK, LocalOK,
         TypeOK, LocalsTypeOK, RealiseTypeOK
    <3>3. x \in Paths /\ latest[x] = cur[p] /\ latest' = latest /\ thunks' = thunks
      <4>1. x \in Paths /\ latest[x] = cur[p] /\ (direct[p] => queue[p] # <<>>)
        BY <3>2 DEF RealisingOK
      <4>2. QED
        BY <2>4, <4>1 DEF Rename
    <3>4. \A o \in Paths : tree'[o] = IF o = x THEN File(cur[p]) ELSE tree[o]
      BY <2>4 DEF Rename, Put, IInv, TypeOK, FilesTypeOK
    <3>5. QED
      BY <3>3, <3>4 DEF Settled, File
  <2>5. CASE Truncate(p) \/ Record(p)
    BY <2>5 DEF Truncate, Record
  <2>6. QED
    BY <2>1, <2>2, <2>3, <2>4, <2>5 DEF RealiseStep
<1>5. QED
  BY <1>1, <1>3, <1>4
     DEF Step, Write, RemoveOutput, PutSymlink, Unpromote, Scan, AppendLine, Written,
         RealiseArg, Exec, RealisePCs, Promotion

\* So whatever was settled stays so, and no placeholder comes back.
LEMMA ForceSettles ==
  ASSUME PlainMake, IInv, MakeInv, CompleteInv, NEW p \in Procs, kind[p] = "force", Step(p)
  PROVE  \A o \in Paths : /\ PlacedOK(o)' /\ (Settled(o) => Settled(o)')
                          /\ tree[o].kind # "symlink" => tree'[o].kind # "symlink"
<1> SUFFICES ASSUME NEW o \in Paths
             PROVE  /\ PlacedOK(o)' /\ (Settled(o) => Settled(o)')
                    /\ tree[o].kind # "symlink" => tree'[o].kind # "symlink"
  OBVIOUS
<1>1. PlacedOK(o) /\ latest' = latest /\ thunks' = thunks
  BY ForceTree DEF CompleteInv
<1>2. CASE tree'[o] = tree[o] /\ (pc[p] = "rename" => Head(names[p]) # o)
  <2>1. pc[p] # "symlink"
    BY ForceTurn DEF ForceOK, RealisePCs, Promotion
  <2>2. \A q \in Procs \ {p} : Steady(q)
    BY StepSteady
  <2>3. (Settled(o) => Settled(o)') /\ (PlacedOK(o) => PlacedOK(o)')
    BY <1>1, <1>2, <2>1, <2>2, PlacedFrame
  <2>4. QED
    BY <1>1, <1>2, <2>3
<1>3. CASE Settled(o)' /\ tree'[o].kind # "symlink"
  BY <1>1, <1>3 DEF PlacedOK
<1>4. QED
  BY <1>2, <1>3, ForceTree

\* A force's step leaves what the other forces have covered covered.
LEMMA ForceOthers ==
  ASSUME PlainMake, IInv, MakeInv, CompleteInv, NEW p \in Procs, kind[p] = "force", Step(p),
         NEW q \in Procs, q # p
  PROVE  CompleteOK(q)'
<1>1. /\ Steady(q) /\ CompleteOK(q) /\ LocalOK(q) /\ latest' = latest
      /\ names[q] \in Seq(Paths)
  BY StepSteady, ForceTree DEF CompleteInv, IInv, LocalsOK, TypeOK, LocalsTypeOK,
     RealiseTypeOK
<1> SUFFICES ASSUME kind'[q] = "force", pc'[q] \in RealisePCs
             PROVE  /\ Len(refs'[q]) = 1
                    /\ pc'[q] = "collect" => CollectingOK(q)'
                    /\ pc'[q] # "collect" => CoveringOK(q)'
                    /\ pc'[q] \in {"rename", "truncate", "record"} =>
                           tree'[Head(names'[q])].kind # "symlink"
  BY DEF CompleteOK
<1>2. kind[q] = "force" /\ pc[q] \in RealisePCs
  BY <1>1 DEF Steady
<1>3. Len(refs'[q]) = 1
  BY <1>1, <1>2 DEF Steady, CompleteOK
<1>4. CollectingOK(q) => CollectingOK(q)'
  BY <1>1 DEF Steady, CollectingOK
<1>5. ASSUME NEW t, Covered(q, t) PROVE Covered(q, t)'
  BY <1>1, <1>5, ForceSettles DEF Steady, Covered
<1>6. CoveringOK(q) => CoveringOK(q)'
  <2> SUFFICES ASSUME CoveringOK(q) PROVE CoveringOK(q)'
    OBVIOUS
  <2>1. PICK Q \in SUBSET Ids : refs[q][1].id \in Q /\ Closed(Q) /\ \A t \in Q : Covered(q, t)
    BY DEF CoveringOK
  <2>2. \A t \in Q : Covered(q, t)'
    BY <1>5, <2>1
  <2>3. refs'[q] = refs[q]
    BY <1>1 DEF Steady
  <2>4. QED
    BY <2>1, <2>2, <2>3 DEF CoveringOK
<1>7. ASSUME pc[q] \in {"rename", "truncate", "record"}
      PROVE  tree'[Head(names[q])].kind # "symlink"
  <2>1. names[q] # <<>>
    BY <1>1, <1>7 DEF LocalOK, Promotion
  <2>2. Head(names[q]) \in Paths
    BY <1>1, <2>1
  <2>3. tree[Head(names[q])].kind # "symlink"
    BY <1>1, <1>2, <1>7 DEF CompleteOK
  <2>4. QED
    BY <2>2, <2>3, ForceSettles
<1>8. QED
  BY <1>1, <1>2, <1>3, <1>4, <1>6, <1>7 DEF Steady, CompleteOK

\* CollectThunks starts with the root.
LEMMA RootCollecting ==
  ASSUME PlainMake, IInv, MakeInv, NEW p \in Procs, kind[p] = "force", ForceTarget(p)
  PROVE  CompleteOK(p)'
<1>1. pc[p] = "classify" /\ args[p] = <<>> /\ StartRealise(p, refs[p][1].id, out[p])
      /\ UNCHANGED shimVars
  BY DEF ForceTarget
<1>2. Len(refs[p]) = 1
  BY <1>1, ForceTurn DEF ForceOK, RealisePCs, Promotion, TargetOK
<1> PICK t : t = refs[p][1].id
  OBVIOUS
<1>3. /\ pc'[p] = "collect" /\ cur'[p] = t /\ stack'[p] = Imports[t] /\ queue'[p] = <<t>>
      /\ refs'[p] = refs[p]
  BY <1>1 DEF StartRealise, Goto, shimVars, IInv, TypeOK, LocalsTypeOK, RealiseTypeOK
<1>4. Elems(queue'[p]) = {t} /\ Elems(stack'[p]) = Elems(Imports[t])
  BY <1>3, ElemsShort
<1>5. CollectingOK(p)'
  BY <1>3, <1>4 DEF CollectingOK
<1>6. QED
  BY <1>2, <1>3, <1>5 DEF CompleteOK

\* It queues what it takes off the stack, and stacks the imports of that.
LEMMA CollectCollecting ==
  ASSUME PlainMake, IInv, MakeInv, CompleteInv, NEW p \in Procs, kind[p] = "force",
         Collect(p), UNCHANGED shimVars
  PROVE  CompleteOK(p)'
<1>1. /\ pc[p] = "collect" /\ pc'[p] = "collect" /\ stack[p] # <<>> /\ refs'[p] = refs[p]
      /\ cur'[p] = cur[p] /\ stack[p] \in Seq(Ids) /\ queue[p] \in Seq(Ids)
  BY DEF Collect, shimVars, IInv, TypeOK, LocalsTypeOK, RealiseTypeOK
<1>2. Len(refs[p]) = 1 /\ CollectingOK(p) /\ RealisingOK(p)
  BY <1>1, ForceTurn DEF CompleteInv, CompleteOK, RealisePCs, ForceOK
<1> PICK t, rest, todo, done : t = Head(stack[p]) /\ rest = Tail(stack[p])
                               /\ todo = stack[p] /\ done = queue[p]
  OBVIOUS
<1>3. rest \in Seq(Ids) /\ t \in Ids /\ Elems(todo) = {t} \cup Elems(rest)
  BY <1>1, ElemsTail
<1>4. /\ cur[p] = refs[p][1].id /\ cur[p] \in Elems(done)
      /\ \A s \in Elems(done) : Elems(Imports[s]) \subseteq Elems(done) \cup Elems(todo)
  BY <1>2 DEF CollectingOK
<1>5. t \in thunks
  <2>1. 1 \in DOMAIN stack[p] /\ t = stack[p][1]
    BY <1>1
  <2>2. PICK b \in Below[out[p]] \cup {out[p]} : latest[b] = t
    BY <1>2, <2>1 DEF RealisingOK, Current
  <2>3. QED
    BY <1>3, <2>2, ForceTurn, ForcePlaces, NoIdAssumption
<1>6. CASE t \notin {cur[p]} \cup {queue[p][i] : i \in DOMAIN queue[p]}
  <2>1. queue'[p] = Append(done, t) /\ stack'[p] = Imports[t] \o rest
    BY <1>5, <1>6 DEF Collect, IInv, TypeOK, LocalsTypeOK, RealiseTypeOK
  <2>2. Imports[t] \in Seq(Ids)
    BY <1>3, ImportsAssumption
  <2>3. /\ Elems(queue'[p]) = Elems(done) \cup {t}
        /\ Elems(Imports[t]) \cup Elems(rest) \subseteq Elems(stack'[p])
    <3>1. Elems(Append(done, t)) = Elems(done) \cup {t}
      BY <1>1, <1>3, ElemsAppend
    <3>2. Elems(Imports[t]) \cup Elems(rest) \subseteq Elems(Imports[t] \o rest)
      BY <1>3, <2>2, ElemsConcat
    <3>3. QED
      BY <2>1, <3>1, <3>2
  <2>4. CollectingOK(p)'
    BY <1>1, <1>3, <1>4, <2>3 DEF CollectingOK
  <2>5. QED
    BY <1>1, <1>2, <2>4 DEF CompleteOK
<1>7. CASE t \in {cur[p]} \cup {queue[p][i] : i \in DOMAIN queue[p]}
  <2>1. queue'[p] = done /\ stack'[p] = rest
    BY <1>7 DEF Collect, IInv, TypeOK, LocalsTypeOK, RealiseTypeOK
  <2>2. t \in Elems(done)
    BY <1>4, <1>7 DEF Elems
  <2>3. CollectingOK(p)'
    BY <1>1, <1>3, <1>4, <2>1, <2>2 DEF CollectingOK
  <2>4. QED
    BY <1>1, <1>2, <2>3 DEF CompleteOK
<1>8. QED
  BY <1>6, <1>7

\* Once the stack is empty the queue is what a closed set needs to be.
LEMMA BuildCovers ==
  ASSUME IInv, CompleteInv, NEW p \in Procs, kind[p] = "force", Build(p), UNCHANGED shimVars
  PROVE  CompleteOK(p)'
<1>1. /\ pc[p] = "collect" /\ pc'[p] = "unlink" /\ stack[p] = <<>> /\ UNCHANGED <<refs, queue>>
      /\ queue[p] \in Seq(Ids)
  BY DEF Build, Goto, realiseVars, shimVars, IInv, TypeOK, LocalsTypeOK, RealiseTypeOK
<1>2. Len(refs[p]) = 1 /\ CollectingOK(p)
  BY <1>1 DEF CompleteInv, CompleteOK, RealisePCs
<1> PICK Q : Q = Elems(queue[p])
  OBVIOUS
<1>3. Q \in SUBSET Ids
  BY <1>1 DEF Elems
<1>4. Elems(stack[p]) = {}
  BY <1>1, ElemsShort
<1>5. refs[p][1].id \in Q /\ Closed(Q)
  BY <1>2, <1>4 DEF CollectingOK, Closed
<1>6. \A t \in Q : Covered(p, t)'
  BY <1>1 DEF Covered
<1>7. CoveringOK(p)'
  BY <1>1, <1>3, <1>5, <1>6 DEF CoveringOK
<1>8. QED
  BY <1>1, <1>2, <1>7 DEF CompleteOK

\* The manifest of a thunk that is current names every placeholder of it.
LEMMA PlaceholdersListed ==
  ASSUME IInv, MakeInv, CompleteInv, faults = 0, PlaceholdersRecorded,
         NEW p \in Procs, kind[p] = "force",
         NEW o \in Paths, latest[o] # NoId, tree[o] = Symlink(latest[o])
  PROVE  o \in Elems(manifest[latest[o]])
<1>1. tree[o].kind = "symlink" /\ tree[o].id = latest[o]
  BY DEF Symlink
<1>2. ASSUME NEW q \in Procs, pc[q] \in {"unpromote", "scan", "append"} PROVE FALSE
  <2>1. ~Working(q)
    BY ForceTurn
  <2>2. kind[q] \notin {"none", "passthrough"}
    BY <1>2 DEF MakeInv, KindOK
  <2>3. kind[q] = "force"
    BY <2>1, <2>2 DEF Working, IInv, TypeOK, LocalsTypeOK, Kinds
  <2>4. QED
    BY <1>2, <2>3, ForceTurn DEF ForceOK, RealisePCs, Promotion
<1>3. QED
  BY <1>1, <1>2 DEF PlaceholdersRecorded, Lines, Elems

\* What a force still covers in the new state, it covers with the same set.
LEMMA CoveringKept ==
  ASSUME NEW p \in Procs, CoveringOK(p), refs'[p] = refs[p],
         \A t \in Ids : Covered(p, t) => Covered(p, t)'
  PROVE  CoveringOK(p)'
<1>1. PICK Q \in SUBSET Ids : refs[p][1].id \in Q /\ Closed(Q) /\ \A t \in Q : Covered(p, t)
  BY DEF CoveringOK
<1>2. \A t \in Q : Covered(p, t)'
  BY <1>1
<1>3. QED
  BY <1>1, <1>2 DEF CoveringOK

\* promoteManifest: what is taken off the queue has all its placeholders listed.
LEMMA OpenCovers ==
  ASSUME PlainMake, IInv, MakeInv, CompleteInv, faults = 0, PlaceholdersRecorded,
         NEW p \in Procs, kind[p] = "force", OpenManifest(p), UNCHANGED shimVars
  PROVE  CompleteOK(p)'
<1>1. /\ pc[p] = "promote" /\ pc'[p] = "promote" /\ names[p] = <<>> /\ queue[p] # <<>>
      /\ UNCHANGED <<fileVars, pc, refs>> /\ queue[p] \in Seq(Ids)
  BY DEF OpenManifest, shimVars, IInv, TypeOK, LocalsTypeOK, RealiseTypeOK
<1>2. Len(refs[p]) = 1 /\ CoveringOK(p)
  BY <1>1 DEF CompleteInv, CompleteOK, RealisePCs
<1> PICK t, rest : t = Head(queue[p]) /\ rest = Tail(queue[p])
  OBVIOUS
<1>3. cur'[p] = t /\ names'[p] = manifest[t] /\ queue'[p] = rest
  BY DEF OpenManifest, IInv, TypeOK, LocalsTypeOK, RealiseTypeOK
<1>4. t \in Ids /\ Elems(queue[p]) = {t} \cup Elems(rest)
  BY <1>1, ElemsTail
<1>5. \A o \in Paths : Settled(o) => Settled(o)'
  <2>1. \A o : Renaming(o) => Renaming(o)'
    <3> SUFFICES ASSUME NEW o, NEW q \in Procs, pc[q] = "rename", Head(names[q]) = o
                 PROVE  Renaming(o)'
      BY DEF Renaming
    <3>1. q # p
      BY <1>1
    <3>2. pc'[q] = "rename" /\ names'[q] = names[q]
      BY <1>1, <3>1 DEF OpenManifest, IInv, TypeOK, LocalsTypeOK, RealiseTypeOK
    <3>3. QED
      BY <3>2 DEF Renaming
  <2>2. QED
    BY <1>1, <2>1 DEF Settled, fileVars
<1>6. ASSUME NEW s \in Ids, Covered(p, s) PROVE Covered(p, s)'
  <2>1. CASE s \in Elems(rest)
    BY <1>3, <2>1 DEF Covered
  <2>2. CASE s = t
    <3>1. ASSUME NEW o \in Paths, latest[o] = s
          PROVE  Settled(o) \/ o \in Elems(manifest[s])
      BY <3>1, NoIdAssumption, ForcePlaces, PlaceholdersListed
    <3>2. QED
      BY <1>1, <1>3, <1>5, <2>2, <3>1 DEF Covered, fileVars
  <2>3. CASE s \notin Elems(queue[p])
    <3>1. Elems(names[p]) = {}
      BY <1>1, ElemsShort
    <3>2. \A o \in Paths : latest[o] = s => Settled(o)
      BY <1>6, <2>3, <3>1 DEF Covered
    <3>3. QED
      BY <1>1, <1>5, <3>2 DEF Covered, fileVars
  <2>4. QED
    BY <1>4, <2>1, <2>2, <2>3
<1>7. CoveringOK(p)'
  BY <1>1, <1>2, <1>6, CoveringKept
<1>8. QED
  BY <1>1, <1>2, <1>7 DEF CompleteOK

\* A line of a manifest is dropped when its path is settled.
LEMMA LineCovers ==
  ASSUME PlainMake, IInv, MakeInv, CompleteInv, NEW p \in Procs, kind[p] = "force", Step(p),
         CoveringOK(p), queue'[p] = queue[p], cur'[p] = cur[p], refs'[p] = refs[p],
         \/ names'[p] = names[p]
         \/ /\ names[p] # <<>> /\ names'[p] = Tail(names[p])
            /\ \A o \in Paths : o = Head(names[p]) => Settled(o)'
  PROVE  CoveringOK(p)'
<1>1. names[p] \in Seq(Paths) /\ latest' = latest
  BY ForceTree DEF IInv, TypeOK, LocalsTypeOK, RealiseTypeOK
<1>2. ASSUME NEW o \in Paths, o \in Elems(names[p]) PROVE Settled(o)' \/ o \in Elems(names'[p])
  <2>1. CASE names'[p] = names[p]
    BY <1>2, <2>1
  <2>2. CASE /\ names[p] # <<>> /\ names'[p] = Tail(names[p])
             /\ \A y \in Paths : y = Head(names[p]) => Settled(y)'
    <3>1. PICK x : x = Head(names[p])
      OBVIOUS
    <3>2. Elems(names[p]) = {x} \cup Elems(names'[p])
      BY <1>1, <2>2, <3>1, ElemsTail
    <3>3. CASE o = x
      BY <2>2, <3>1, <3>3
    <3>4. QED
      BY <1>2, <3>2, <3>3
  <2>3. QED
    BY <2>1, <2>2
<1>3. ASSUME NEW s \in Ids, Covered(p, s) PROVE Covered(p, s)'
  BY <1>1, <1>2, <1>3, ForceSettles DEF Covered
<1>4. QED
  BY <1>3, CoveringKept

\* Every step of promoteManifest and of PromoteToStore keeps what is covered.
LEMMA PromotionCovers ==
  ASSUME PlainMake, IInv, MakeInv, CompleteInv, NEW p \in Procs, kind[p] = "force", Step(p),
         NextLine(p) \/ Unlink(p) \/ Rename(p) \/ Truncate(p) \/ Record(p),
         UNCHANGED shimVars
  PROVE  CompleteOK(p)'
<1>1. pc[p] \in {"promote"} \cup Promotion
  BY DEF NextLine, Unlink, Rename, Truncate, Record, Promotion
<1>2. /\ Len(refs[p]) = 1 /\ CoveringOK(p) /\ refs'[p] = refs[p] /\ RealisingOK(p)
      /\ pc[p] \in {"rename", "truncate", "record"} => tree[Head(names[p])].kind # "symlink"
  BY <1>1, ForceTurn DEF CompleteInv, CompleteOK, RealisePCs, Promotion, shimVars, ForceOK
<1>3. names[p] # <<>> /\ names[p] \in Seq(Paths) /\ cur'[p] = cur[p] /\ queue'[p] = queue[p]
  BY <1>1 DEF NextLine, Unlink, Rename, Truncate, Record, realiseVars, IInv, LocalsOK,
     LocalOK, TypeOK, LocalsTypeOK, RealiseTypeOK
<1> PICK x : x = Head(names[p])
  OBVIOUS
<1>4. x \in Paths /\ latest[x] = cur[p] /\ latest[x] # NoId
  <2>1. 1 \in DOMAIN names[p] /\ x = names[p][1] /\ x \in Paths
    BY <1>3
  <2>2. QED
    BY <1>2, <2>1, NoIdAssumption DEF RealisingOK, Current
<1>5. tree[x].kind # "symlink" => Settled(x) /\ Settled(x)'
  BY <1>4, ForcePlaces, ForceSettles
<1>6. CASE NextLine(p)
  <2>1. /\ pc'[p] \in {"unlink", "promote"}
        /\ names'[p] = names[p] \/ (~Exists(x) /\ names'[p] = Tail(names[p]))
    BY <1>6 DEF NextLine, Goto, IInv, TypeOK, LocalsTypeOK, RealiseTypeOK
  <2>2. ~Exists(x) => Settled(x)'
    BY <1>5 DEF Exists, Absent
  <2>3. CoveringOK(p)'
    BY <1>2, <1>3, <2>1, <2>2, LineCovers
  <2>4. QED
    BY <1>2, <2>1, <2>3 DEF CompleteOK
<1>7. CASE Unlink(p) \/ Rename(p)
  <2>1. names'[p] = names[p] /\ pc'[p] \in {"rename", "truncate"}
    BY <1>7 DEF Unlink, Rename, Goto, realiseVars, IInv, TypeOK, LocalsTypeOK
  <2>2. CoveringOK(p)'
    BY <1>2, <1>3, <2>1, LineCovers
  <2>3. tree'[x].kind # "symlink"
    BY <1>4, <1>7 DEF Unlink, Rename, Put, Absent, File, IInv, TypeOK, FilesTypeOK
  <2>4. QED
    BY <1>2, <2>1, <2>2, <2>3 DEF CompleteOK
<1>8. CASE Truncate(p)
  <2>1. names'[p] = names[p] /\ pc'[p] = "record" /\ tree' = tree /\ pc[p] = "truncate"
    BY <1>8 DEF Truncate, Goto, IInv, TypeOK, LocalsTypeOK
  <2>2. CoveringOK(p)'
    BY <1>2, <1>3, <2>1, LineCovers
  <2>3. QED
    BY <1>2, <2>1, <2>2 DEF CompleteOK
<1>9. CASE Record(p)
  <2>1. names'[p] = Tail(names[p]) /\ pc'[p] = "promote" /\ pc[p] = "record"
    BY <1>9 DEF Record, Goto, IInv, TypeOK, LocalsTypeOK, RealiseTypeOK
  <2>2. Settled(x)'
    BY <1>2, <1>5, <2>1
  <2>3. CoveringOK(p)'
    BY <1>2, <1>3, <2>1, <2>2, LineCovers
  <2>4. QED
    BY <1>2, <2>1, <2>3 DEF CompleteOK
<1>10. QED
  BY <1>6, <1>7, <1>8, <1>9

\* Every step of a force keeps the invariant.
LEMMA ForceComplete ==
  ASSUME PlainMake, IInv, MakeInv, CompleteInv, faults = 0, PlaceholdersRecorded,
         NEW p \in Procs, kind[p] = "force", Step(p)
  PROVE  CompleteInv'
<1>1. pc[p] \in {"classify", "readlink", "lookup"} \cup RealisePCs
      /\ \A q \in Procs : ~Working(q)
  BY ForceTurn DEF ForceOK
<1>2. kind'[p] # "force" \/ pc'[p] \notin RealisePCs => CompleteOK(p)'
  BY DEF CompleteOK
<1>3. CompleteOK(p)'
  <2>1. CASE Lstat(p) \/ Readlink(p) \/ Lookup(p)
    <3>1. Leave(p) \/ Unmodelled(p) => kind'[p] # "force"
      BY DEF Leave, Unmodelled, IInv, TypeOK, LocalsTypeOK
    <3>2. Goto(p, "classify") \/ Goto(p, "readlink") \/ Goto(p, "lookup")
              => pc'[p] \notin RealisePCs
      BY DEF Goto, RealisePCs, Promotion, IInv, TypeOK, LocalsTypeOK
    <3>3. QED
      BY <1>2, <2>1, <3>1, <3>2 DEF Lstat, Readlink, Lookup, Refer
  <2>2. CASE Realising(p)
    BY <2>2, CollectCollecting, BuildCovers, OpenCovers, PromotionCovers
       DEF Realising, RealiseStep
  <2>3. CASE EndRealise(p)
    <3>1. Leave(p)
      BY <2>3 DEF EndRealise, ReturnFromRealise
    <3>2. kind'[p] # "force"
      BY <3>1 DEF Leave, IInv, TypeOK, LocalsTypeOK
    <3>3. QED
      BY <1>2, <3>2
  <2>4. QED
    BY <1>1, <2>1, <2>2, <2>3, RootCollecting
       DEF Step, Write, RemoveOutput, PutSymlink, Unpromote, Scan, AppendLine, Written,
           RealiseArg, Exec, RealisePCs, Promotion
<1>4. \A q \in Procs : ~Working(q)'
  <2>1. kind'[p] \in {"force", "none"}
    <3>1. Leave(p) => kind'[p] = "none"
      BY DEF Leave, IInv, TypeOK, LocalsTypeOK
    <3>2. CASE Lstat(p) \/ Readlink(p) \/ Lookup(p)
      BY <3>2, ForceClassify DEF ForceKept
    <3>3. CASE ForceTarget(p) \/ Realising(p)
      BY <3>3 DEF ForceTarget, Realising, shimVars
    <3>4. CASE EndRealise(p)
      BY <3>1, <3>4 DEF EndRealise, ReturnFromRealise
    <3>5. QED
      BY <1>1, <3>2, <3>3, <3>4
         DEF Step, Write, RemoveOutput, PutSymlink, Unpromote, Scan, AppendLine, Written,
             RealiseArg, Exec, RealisePCs, Promotion
  <2>2. \A q \in Procs \ {p} : kind'[q] = kind[q]
    BY StepSteady DEF Steady
  <2>3. QED
    BY <1>1, <2>1, <2>2 DEF Working
<1>5. QED
  BY <1>3, <1>4, ForceOthers, ForceSettles DEF CompleteInv, SoloOK

\* A shim or a force that starts disturbs nobody.
LEMMA StartComplete ==
  ASSUME IInv, CompleteInv, NEW p \in Procs, NEW k, NEW o, NEW operands,
         Start(p, k, o, operands)
  PROVE  CompleteInv'
<1>1. /\ pc[p] = "idle" /\ pc'[p] = "classify" /\ UNCHANGED <<tree, latest, thunks>>
      /\ \A q \in Procs \ {p} : Steady(q)
  BY DEF Start, Goto, Steady, fileVars, realiseVars, IInv, TypeOK, LocalsTypeOK
<1>2. \A x \in Paths : PlacedOK(x)' /\ (Settled(x) => Settled(x)')
  BY <1>1, PlacedFrame DEF CompleteInv
<1>3. SoloOK(p)' /\ CompleteOK(p)'
  BY <1>1 DEF SoloOK, CompleteOK, RealisePCs, Promotion
<1>4. ASSUME NEW q \in Procs, q # p PROVE SoloOK(q)' /\ CompleteOK(q)'
  <2>1. Steady(q) /\ SoloOK(q) /\ CompleteOK(q)
    BY <1>1, <1>4 DEF CompleteInv
  <2>2. SoloOK(q)'
    BY <1>1, <2>1 DEF Steady, SoloOK, Working
  <2>3. CollectingOK(q) => CollectingOK(q)'
    BY <2>1 DEF Steady, CollectingOK
  <2>4. ASSUME NEW t, Covered(q, t) PROVE Covered(q, t)'
    BY <1>1, <1>2, <2>1, <2>4 DEF Steady, Covered
  <2>5. refs'[q] = refs[q]
    BY <2>1 DEF Steady
  <2>6. CoveringOK(q) => CoveringOK(q)'
    BY <2>4, <2>5, CoveringKept
  <2>7. CompleteOK(q)'
    BY <1>1, <2>1, <2>3, <2>6 DEF Steady, CompleteOK
  <2>8. QED
    BY <2>2, <2>7
<1>5. QED
  BY <1>2, <1>3, <1>4 DEF CompleteInv

\* No step of anyone takes the invariant away while nothing fails.
LEMMA StepComplete ==
  ASSUME PlainMake, IInv, faults = 0 => MakeInv /\ CompleteInv, PlaceholdersRecorded,
         [Next]_vars
  PROVE  faults' = 0 => CompleteInv'
<1> SUFFICES ASSUME faults' = 0 PROVE CompleteInv'
  OBVIOUS
<1>1. faults = 0
  <2>1. faults' = faults \/ faults' = faults + 1
    BY StepFaults
  <2>2. QED
    BY <2>1 DEF IInv, TypeOK
<1>2. MakeInv /\ CompleteInv
  BY <1>1
<1>3. ASSUME NEW p \in Procs, Step(p) PROVE CompleteInv'
  <2>1. kind[p] \in {"recipe", "objtool", "force", "none"}
    BY <1>2 DEF MakeInv, KindOK, IInv, TypeOK, LocalsTypeOK, Kinds
  <2>2. kind[p] # "none"
    <3>1. pc[p] # "idle"
      BY <1>3 DEF Step, Lstat, Readlink, Lookup, Write, ForceTarget, RemoveOutput,
         PutSymlink, Unpromote, Scan, AppendLine, Written, RealiseArg, Exec, Realising,
         RealiseStep, Collect, Build, OpenManifest, NextLine, Unlink, Rename, Truncate,
         Record, EndRealise, Realised
    <3>2. QED
      BY <1>2, <3>1 DEF MakeInv, KindOK
  <2>3. QED
    BY <1>1, <1>2, <1>3, <2>1, <2>2, WorkComplete, ForceComplete DEF Working
<1>4. ASSUME NEW p \in Procs, RealiseFails(p) \/ PromoteFails(p) \/ Kill(p) PROVE FALSE
  BY <1>1, <1>4 DEF RealiseFails, PromoteFails, Kill, Fault
<1>5. ASSUME NEW o \in Paths, RealTool(o) PROVE FALSE
  BY <1>5 DEF RealTool, PlainMake
<1>6. CASE UNCHANGED vars
  <2>1. UNCHANGED <<tree, thunks, latest, pc, cur, names, stack, queue, kind, out, refs>>
    BY <1>6 DEF vars, fileVars, realiseVars, shimVars
  <2>2. CompleteInv' = CompleteInv
    BY <2>1 DEF CompleteInv, PlacedOK, Settled, Renaming, Working, SoloOK, CompleteOK,
       CollectingOK, CoveringOK, Covered
  <2>3. QED
    BY <1>2, <2>2
<1>7. QED
  BY <1>2, <1>3, <1>4, <1>5, <1>6, StartComplete DEF Next, StartRecipe, StartForce

\* CompleteInv holds in every state of a run in which nothing has failed.
LEMMA CompleteInvariance ==
  ASSUME PlainMake
  PROVE  Spec => [](faults = 0 => CompleteInv)
<1>1. Init => CompleteInv
  BY DEF Init, FilesInit, RealiseInit, CompleteInv, PlacedOK, SoloOK, CompleteOK, RealisePCs,
     Promotion, Working
<1>2. IInv /\ PlaceholdersRecorded /\ (faults = 0 => MakeInv)
          /\ (faults = 0 => CompleteInv) /\ [Next]_vars
              => (faults = 0 => CompleteInv)'
  BY StepComplete
<1>3. QED
  BY Invariance, PlaceholdersAreRecorded, MakeInvariance, <1>1, <1>2, PTL DEF Spec

-----------------------------------------------------------------------------
\* The recursive definition of Closure has a solution: the least closed sets.
LEMMA ClosureEquation ==
  \A t \in Ids : Closure[t] = {t} \cup UNION {Closure[Imports[t][i]] : i \in DOMAIN Imports[t]}
<1> DEFINE F(f) == [t \in Ids |-> {t} \cup UNION {f[Imports[t][i]] : i \in DOMAIN Imports[t]}]
           Least(t) == {s \in Ids : \A Q \in SUBSET Ids : t \in Q /\ Closed(Q) => s \in Q}
           g == [t \in Ids |-> Least(t)]
<1>1. \A t \in Ids : \A i \in DOMAIN Imports[t] : Imports[t][i] \in Ids
  BY ImportsAssumption
<1>2. ASSUME NEW t \in Ids
      PROVE  g[t] = {t} \cup UNION {g[Imports[t][i]] : i \in DOMAIN Imports[t]}
  <2> DEFINE S == {t} \cup UNION {Least(Imports[t][i]) : i \in DOMAIN Imports[t]}
  <2>1. S \subseteq Least(t)
    BY <1>1 DEF Closed, Elems
  <2>2. S \in SUBSET Ids /\ t \in S
    OBVIOUS
  <2>3. ASSUME NEW s \in Ids PROVE s \in Least(s)
    OBVIOUS
  <2>4. ASSUME NEW s \in Ids, NEW u \in Least(s), NEW i \in DOMAIN Imports[u]
        PROVE  Imports[u][i] \in Least(s)
    BY <1>1, <2>4 DEF Closed, Elems
  <2>5. Closed(S)
    <3> SUFFICES ASSUME NEW u \in S, NEW i \in DOMAIN Imports[u] PROVE Imports[u][i] \in S
      BY DEF Closed, Elems
    <3>1. CASE u = t
      BY <1>1, <2>3, <3>1
    <3>2. ASSUME NEW j \in DOMAIN Imports[t], u \in Least(Imports[t][j])
          PROVE  Imports[u][i] \in S
      BY <1>1, <2>4, <3>2
    <3>3. QED
      BY <3>1, <3>2
  <2>6. Least(t) \subseteq S
    BY <2>2, <2>5
  <2>7. Least(t) = S
    BY <2>1, <2>6
  <2>8. \A i \in DOMAIN Imports[t] : g[Imports[t][i]] = Least(Imports[t][i])
    BY <1>1
  <2>9. g[t] = Least(t)
    OBVIOUS
  <2> HIDE DEF g, Least
  <2>10. QED
    BY <2>7, <2>8, <2>9
<1>3. g = F(g)
  BY <1>2
<1>4. \E f : f = F(f)
  BY <1>3
<1>5. Closure = F(Closure)
  BY <1>4 DEF Closure
<1>6. QED
  BY <1>5

\* What a build of t realises lies in every set that holds t and what its members
\* import: by the rank of t.
LEMMA ClosureWithin ==
  ASSUME NEW rank, Ranks(rank), NEW Q \in SUBSET Ids, Closed(Q)
  PROVE  \A t \in Q : Closure[t] \subseteq Q
<1> DEFINE Bad == {t \in Q : ~(Closure[t] \subseteq Q)}
           T == {rank[t] : t \in Bad}
<1> SUFFICES ASSUME Bad # {} PROVE FALSE
  OBVIOUS
<1>1. T \subseteq Nat /\ T # {}
  BY DEF Ranks
<1>2. PICK m \in T : \A k \in T : m <= k
  BY <1>1, LeastNatural
<1>3. PICK t \in Bad : m = rank[t]
  BY <1>2
<1>4. ASSUME NEW i \in DOMAIN Imports[t] PROVE Closure[Imports[t][i]] \subseteq Q
  <2> DEFINE s == Imports[t][i]
  <2>1. s \in Q /\ s \in Ids
    BY <1>3 DEF Closed, Elems
  <2>2. rank[s] < rank[t] /\ rank[s] \in Nat /\ rank[t] \in Nat
    BY <1>3, <2>1 DEF Ranks
  <2>3. rank[s] \notin T
    BY <1>2, <1>3, <2>2
  <2>4. s \notin Bad
    BY <2>3
  <2>5. QED
    BY <2>1, <2>4
<1>5. Closure[t] \subseteq Q
  BY <1>3, <1>4, ClosureEquation
<1>6. QED
  BY <1>3, <1>5

\* In such a build a force that ends with nothing having failed has turned every
\* output of the graph it realised into a copy of the build of what was last
\* published there, whatever other forces do at the same time; a shim that
\* realises its own output claims nothing else.
THEOREM ForcesAreComplete ==
  ASSUME PlainMake, NEW rank, Ranks(rank)
  PROVE  Spec => []RealiseIsComplete
<1>1. IInv /\ (faults = 0 => MakeInv /\ CompleteInv) => RealiseIsComplete
  <2> SUFFICES ASSUME IInv, faults = 0, MakeInv, CompleteInv, NEW p \in Procs, Realised(p),
                      kind[p] \in {"force", "recipe"}, out[p] \notin RealiseNow,
                      NEW o \in Paths,
                      latest[o] \in Closure[IF kind[p] = "force" THEN refs[p][1].id
                                                                 ELSE id[p]]
               PROVE  tree[o] = File(latest[o]) \/ Renaming(o)
    BY DEF RealiseIsComplete, Renaming
  <2>1. pc[p] = "promote" /\ names[p] = <<>> /\ queue[p] = <<>>
    BY DEF Realised
  <2>2. kind[p] = "force"
    BY <2>1 DEF CompleteInv, SoloOK, Working, RealisePCs
  <2>3. CoveringOK(p)
    BY <2>1, <2>2 DEF CompleteInv, CompleteOK, RealisePCs
  <2>4. PICK Q \in SUBSET Ids : refs[p][1].id \in Q /\ Closed(Q) /\ \A t \in Q : Covered(p, t)
    BY <2>3 DEF CoveringOK
  <2>5. latest[o] \in Q
    BY <2>2, <2>4, ClosureWithin
  <2>6. Covered(p, latest[o])
    BY <2>4, <2>5
  <2>7. QED
    BY <2>1, <2>6, ElemsShort DEF Covered, Settled
<1>2. QED
  BY Invariance, MakeInvariance, CompleteInvariance, <1>1, PTL

=============================================================================
