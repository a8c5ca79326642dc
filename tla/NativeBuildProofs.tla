-------------------------- MODULE NativeBuildProofs --------------------------
(***************************************************************************)
(* For any workspace, any make graph, any number of shims and forces at    *)
(* once and any number of failed calls and killed processes: placeholders  *)
(* and imports never dangle, and, while nothing is killed, every           *)
(* placeholder is recorded for force.                                      *)
(*                                                                         *)
(* The argument.  SymlinksResolve is not inductive: the id PutSymlink puts *)
(* in the tree was chosen by an earlier step, so LocalsOK says that it has *)
(* been written (program order of Write and LinkPlaceholder).              *)
(* ImportsResolve is not either: the references Write puts in a thunk were *)
(* read off symlinks earlier, so RefsResolve says that they still resolve. *)
(* Together with TypeOK these make up IInv.  Steps of one process leave    *)
(* the locals of the others alone (OthersKeepOK) and never take a thunk    *)
(* away (ThunksGrow), which is why no lock is needed.                      *)
(***************************************************************************)
EXTENDS NativeBuild, SequenceTheorems, TLAPS

\* An empty workspace with no process in it.
LEMMA InitIInv == Init => IInv
  BY DEF Init, IInv, TypeOK, FilesTypeOK, LocalsTypeOK, RealiseTypeOK, FilesInit,
         RealiseInit, LocalsOK, LocalOK, RefsResolve, RefResolves, SymlinksResolve, ImportsResolve,
         Entry, Absent, PCs, Kinds, Promotion

\* What a symlink in the tree points at is an id.
LEMMA SymlinkHoldsId ==
  ASSUME FilesTypeOK, NEW o \in Paths, tree[o].kind = "symlink"
  PROVE  tree[o].id \in Ids
<1>1. tree[o] \in Entry
  BY DEF FilesTypeOK
<1>2. \A e \in Entry : e.kind = "symlink" => e.id \in Ids
  BY DEF Entry, Absent
<1>3. QED  BY <1>1, <1>2

\* Types are kept when a process ends...
LEMMA LeaveType ==
  ASSUME LocalsTypeOK, NEW p \in Procs, Leave(p)
  PROVE  LocalsTypeOK'
  BY DEF LocalsTypeOK, RealiseTypeOK, Leave, Goto, PCs, Kinds

\* ...when it moves on and nothing else changes...
LEMMA GotoType ==
  ASSUME LocalsTypeOK, NEW p \in Procs, NEW to \in PCs, Goto(p, to)
  PROVE  pc' \in [Procs -> PCs]
  BY DEF LocalsTypeOK, Goto

\* ...when it starts to realise a thunk...
LEMMA StartRealiseType ==
  ASSUME LocalsTypeOK, NEW p \in Procs, NEW root \in Ids, NEW target \in Paths,
         StartRealise(p, root, target)
  PROVE  RealiseTypeOK' /\ pc' \in [Procs -> PCs]
  BY ImportsAssumption DEF LocalsTypeOK, RealiseTypeOK, StartRealise, Goto, PCs, RealisePCs

\* ...or one thunk without its children...
LEMMA StartRealiseAloneType ==
  ASSUME LocalsTypeOK, NEW p \in Procs, NEW root \in Ids, NEW target \in Paths,
         StartRealiseAlone(p, root, target)
  PROVE  RealiseTypeOK' /\ pc' \in [Procs -> PCs]
  BY DEF LocalsTypeOK, RealiseTypeOK, StartRealiseAlone, Goto, PCs, RealisePCs

\* ...when it falls back on the real tool or gives up...
LEMMA UnmodelledType ==
  ASSUME LocalsTypeOK, NEW p \in Procs, out[p] \in Paths, Unmodelled(p)
  PROVE  LocalsTypeOK'
<1>1. CASE kind[p] = "force"
  BY <1>1, LeaveType DEF Unmodelled
<1>2. CASE kind[p] # "force"
  <2>1. <<out[p]>> \o (IF kind[p] = "recipe" THEN Inputs[out[p]] ELSE <<>>) \in Seq(Paths)
    BY InputsAssumption
  <2> DEFINE operands == <<out[p]>> \o (IF kind[p] = "recipe" THEN Inputs[out[p]] ELSE <<>>)
  <2>2. args' = [args EXCEPT ![p] = operands]
    BY <1>2 DEF Unmodelled
  <2>3. args' \in [Procs -> Seq(Paths)]
    <3> HIDE DEF operands
    <3> QED  BY <2>1, <2>2 DEF LocalsTypeOK, operands
  <2>4. RealiseTypeOK' /\ pc' \in [Procs -> PCs]
    BY <1>2 DEF LocalsTypeOK, RealiseTypeOK, Unmodelled, Goto, PCs, ShimPCs, realiseVars
  <2>5. kind' \in [Procs -> Kinds] /\ refs' \in [Procs -> Seq(Ref)]
    <3>1. /\ kind' = [kind EXCEPT ![p] = "passthrough"]
          /\ refs' = [refs EXCEPT ![p] = <<>>]
      BY <1>2 DEF Unmodelled
    <3>2. <<>> \in Seq(Ref) /\ "passthrough" \in Kinds
      BY DEF Kinds
    <3>3. QED  BY <3>1, <3>2 DEF LocalsTypeOK
  <2>6. UNCHANGED <<out, id>>
    BY <1>2 DEF Unmodelled
  <2>7. QED
    BY <2>3, <2>4, <2>5, <2>6 DEF LocalsTypeOK
<1>3. QED  BY <1>1, <1>2

\* ...when it has classified an operand...
LEMMA ReferType ==
  ASSUME LocalsTypeOK, NEW p \in Procs, args[p] # <<>>, NEW via \in {"nix", "store"},
         NEW t \in Ids, Refer(p, via, t)
  PROVE  LocalsTypeOK'
<1>1. [via |-> via, id |-> t] \in Ref
  BY DEF Ref
<1>2. Append(refs[p], [via |-> via, id |-> t]) \in Seq(Ref) /\ Tail(args[p]) \in Seq(Paths)
  BY <1>1 DEF LocalsTypeOK
<1>3. QED
  BY <1>2 DEF LocalsTypeOK, RealiseTypeOK, Refer, Goto, PCs, ShimPCs, realiseVars

\* ...when Realise returns...
LEMMA ReturnType ==
  ASSUME LocalsTypeOK, NEW p \in Procs, ReturnFromRealise(p)
  PROVE  LocalsTypeOK'
<1>1. CASE kind[p] = "passthrough"
  <2>1. /\ pc' = [pc EXCEPT ![p] = "classify"]
        /\ names' = [names EXCEPT ![p] = <<>>]
        /\ queue' = [queue EXCEPT ![p] = <<>>]
        /\ direct' = [direct EXCEPT ![p] = FALSE]
        /\ fh' = [fh EXCEPT ![p] = FALSE]
        /\ UNCHANGED <<cur, stack, kind, out, args, refs, id>>
    BY <1>1 DEF ReturnFromRealise, Goto, shimVars
  <2>2. names' \in [Procs -> Seq(Paths)]
    BY <2>1 DEF LocalsTypeOK, RealiseTypeOK
  <2>3. queue' \in [Procs -> Seq(Ids)]
    BY <2>1 DEF LocalsTypeOK, RealiseTypeOK
  <2>4. pc' \in [Procs -> PCs]
    BY <2>1 DEF LocalsTypeOK, PCs, ShimPCs
  <2>5. direct' \in [Procs -> BOOLEAN] /\ fh' \in [Procs -> BOOLEAN]
    BY <2>1 DEF LocalsTypeOK, RealiseTypeOK
  <2>6. QED
    BY <2>1, <2>2, <2>3, <2>4, <2>5 DEF LocalsTypeOK, RealiseTypeOK
<1>2. CASE kind[p] # "passthrough"
  BY <1>2, LeaveType DEF ReturnFromRealise
<1>3. QED  BY <1>1, <1>2

\* ...and in every step of Realise.
LEMMA RealiseStepType ==
  ASSUME TypeOK, LocalsOK, NEW p \in Procs, RealiseStep(p) \/ SkipLine(p)
  PROVE  FilesTypeOK' /\ RealiseTypeOK' /\ pc' \in [Procs -> PCs]
<1> USE DEF TypeOK, FilesTypeOK, LocalsTypeOK, RealiseTypeOK, fileVars, realiseVars,
        Goto, PCs, RealisePCs, Promotion
<1>1. CASE Collect(p)
  <2> DEFINE t == Head(stack[p])
  <2>1. t \in Ids /\ Tail(stack[p]) \in Seq(Ids)
    BY <1>1 DEF Collect
  <2>2. Append(queue[p], t) \in Seq(Ids) /\ Imports[t] \o Tail(stack[p]) \in Seq(Ids)
    BY <2>1, ImportsAssumption
  <2>3. /\ \/ /\ queue' = [queue EXCEPT ![p] = Append(queue[p], t)]
              /\ stack' = [stack EXCEPT ![p] = Imports[t] \o Tail(stack[p])]
           \/ /\ stack' = [stack EXCEPT ![p] = Tail(stack[p])]
              /\ queue' = queue
        /\ UNCHANGED <<fileVars, pc, cur, names, direct, fh>>
    BY <1>1 DEF Collect
  <2> HIDE DEF t
  <2>4. queue' \in [Procs -> Seq(Ids)] /\ stack' \in [Procs -> Seq(Ids)]
    BY <2>1, <2>2, <2>3
  <2>5. QED
    BY <2>3, <2>4
<1>2. CASE Build(p)
  BY <1>2 DEF Build
<1>3. CASE OpenManifest(p)
  BY <1>3 DEF OpenManifest
<1>4. CASE NextLine(p)
  <2>1. Tail(names[p]) \in Seq(Paths)
    BY <1>4 DEF NextLine
  <2>2. CASE Exists(Head(names[p]))
    BY <1>4, <2>2 DEF NextLine
  <2>3. CASE ~Exists(Head(names[p]))
    <3>1. names' = [names EXCEPT ![p] = Tail(names[p])] /\ UNCHANGED pc
      BY <1>4, <2>3 DEF NextLine
    <3>2. names' \in [Procs -> Seq(Paths)]
      BY <2>1, <3>1
    <3>3. QED
      BY <1>4, <3>1, <3>2 DEF NextLine
  <2>4. QED  BY <2>2, <2>3
<1>5. CASE Unlink(p)
  BY <1>5 DEF Unlink, Put, Entry
<1>6. CASE Rename(p)
  BY <1>6 DEF Rename, Put, Entry, File
<1>7. CASE Truncate(p)
  BY <1>7 DEF Truncate
<1>8. CASE Record(p)
  BY <1>8 DEF Record, LocalsOK, LocalOK
<1>9. CASE SkipLine(p)
  BY <1>9 DEF SkipLine, LocalsOK, LocalOK
<1>10. QED
  BY <1>1, <1>2, <1>3, <1>4, <1>5, <1>6, <1>7, <1>8, <1>9 DEF RealiseStep

\* make or a user starts a process.
LEMMA StartType ==
  ASSUME TypeOK, NEW p \in Procs, NEW k \in Kinds, NEW o \in Paths,
         NEW operands \in Seq(Paths), Start(p, k, o, operands)
  PROVE  TypeOK'
<1>1. FilesTypeOK' /\ RealiseTypeOK' /\ jobs' \in Nat /\ faults' \in Nat
  BY DEF Start, TypeOK, FilesTypeOK, LocalsTypeOK, RealiseTypeOK, fileVars, realiseVars
<1>2. pc' \in [Procs -> PCs]
  BY DEF Start, TypeOK, LocalsTypeOK, Goto, PCs, ShimPCs
<1>3. args' \in [Procs -> Seq(Paths)]
  BY DEF Start, TypeOK, LocalsTypeOK
<1>4. QED
  BY <1>1, <1>2, <1>3 DEF Start, TypeOK, LocalsTypeOK

\* A failure is counted.
LEMMA FaultType ==
  ASSUME TypeOK, Fault
  PROVE  jobs' \in Nat /\ faults' \in Nat
  BY DEF TypeOK, Fault

\* A step that leaves the files alone keeps their types.
LEMMA FilesUnchanged ==
  ASSUME FilesTypeOK, UNCHANGED fileVars
  PROVE  FilesTypeOK'
  BY DEF FilesTypeOK, fileVars

\* The steps of a shim that is classifying its operands.
LEMMA ClassifyType ==
  ASSUME TypeOK, LocalsOK, NEW p \in Procs, Lstat(p) \/ Readlink(p) \/ Lookup(p)
  PROVE  TypeOK'
<1>1. out[p] \in Paths
  BY DEF LocalsOK, LocalOK, Lstat, Readlink, Lookup
<1>2. FilesTypeOK' /\ jobs' \in Nat /\ faults' \in Nat
  BY FilesUnchanged DEF TypeOK, Lstat, Readlink, Lookup, counters
<1>3. ASSUME Goto(p, "readlink") \/ Goto(p, "lookup"), UNCHANGED <<realiseVars, shimVars>>
      PROVE  LocalsTypeOK'
  BY <1>3 DEF TypeOK, LocalsTypeOK, RealiseTypeOK, Goto, PCs, ShimPCs, realiseVars,
     shimVars
<1>4. CASE Lstat(p)
  BY <1>1, <1>2, <1>3, <1>4, UnmodelledType DEF TypeOK, Lstat
<1>5. CASE Readlink(p)
  <2> DEFINE o == Head(args[p])
  <2>1. args[p] # <<>> /\ o \in Paths
    BY <1>5 DEF Readlink, LocalsOK, LocalOK, TypeOK, LocalsTypeOK
  <2>2. CASE tree[o].kind = "symlink"
    <3>1. tree[o].id \in Ids
      BY <2>1, <2>2, SymlinkHoldsId DEF TypeOK
    <3>2. Refer(p, "nix", tree[o].id)
      BY <1>5, <2>2 DEF Readlink
    <3>3. QED
      BY <1>2, <2>1, <3>1, <3>2, ReferType DEF TypeOK
  <2>3. CASE tree[o].kind # "symlink"
    <3>1. Unmodelled(p)
      BY <1>5, <2>3 DEF Readlink, Unmodelled
    <3>2. QED
      BY <1>1, <1>2, <3>1, UnmodelledType DEF TypeOK
  <2>4. QED  BY <2>2, <2>3
<1>6. CASE Lookup(p)
  <2> DEFINE o == Head(args[p])
  <2>1. args[p] # <<>> /\ o \in Paths
    BY <1>6 DEF Lookup, LocalsOK, LocalOK, TypeOK, LocalsTypeOK
  <2>2. CASE promoted[o] # NoId
    <3>1. promoted[o] \in Ids
      BY <2>1, <2>2 DEF TypeOK, FilesTypeOK
    <3>2. Refer(p, "store", promoted[o])
      BY <1>6, <2>2 DEF Lookup
    <3>3. QED
      BY <1>2, <2>1, <3>1, <3>2, ReferType DEF TypeOK
  <2>3. CASE promoted[o] = NoId
    <3>1. Unmodelled(p)
      BY <1>6, <2>3 DEF Lookup, Unmodelled
    <3>2. QED
      BY <1>1, <1>2, <3>1, UnmodelledType DEF TypeOK
  <2>4. QED  BY <2>2, <2>3
<1>7. QED  BY <1>4, <1>5, <1>6

\* The steps of a shim that publishes its expression.
LEMMA PublishType ==
  ASSUME TypeOK, LocalsOK, NEW p \in Procs,
         \/ Write(p) \/ RemoveOutput(p) \/ PutSymlink(p) \/ Unpromote(p)
         \/ Scan(p) \/ AppendLine(p) \/ Written(p)
  PROVE  TypeOK'
<1>1. out[p] \in Paths
  BY DEF LocalsOK, LocalOK, Write, RemoveOutput, PutSymlink, Unpromote, Scan, AppendLine, Written, ThenObjtool,
       ThenRealise, ThenEnd
<1>2. ASSUME NEW to \in PCs, Goto(p, to), UNCHANGED <<realiseVars, shimVars>>
      PROVE  LocalsTypeOK'
  BY <1>2, GotoType DEF TypeOK, LocalsTypeOK, RealiseTypeOK, realiseVars, shimVars
<1>3. {"remove", "symlink", "unpromote", "scan", "append", "written", "classify"}
          \subseteq PCs
  BY DEF PCs, ShimPCs
<1>4. CASE Write(p)
  <2>1. PICK t \in Ids :
          /\ thunks' = thunks \cup {t}
          /\ id' = [id EXCEPT ![p] = t]
          /\ IF out[p] \in RealiseNow
             THEN StartRealiseAlone(p, t, out[p])
             ELSE Goto(p, "remove") /\ UNCHANGED realiseVars
    BY <1>4 DEF Write
  <2>2. RealiseTypeOK' /\ pc' \in [Procs -> PCs]
    BY <1>1, <1>3, <2>1, StartRealiseAloneType, GotoType
       DEF TypeOK, LocalsTypeOK, RealiseTypeOK, realiseVars
  <2>3. id' \in [Procs -> Ids \cup {NoId}] /\ thunks' \subseteq Ids
    BY <2>1 DEF TypeOK, LocalsTypeOK, FilesTypeOK
  <2>4. QED
    BY <1>4, <2>2, <2>3 DEF Write, TypeOK, LocalsTypeOK, FilesTypeOK, counters
<1>5. CASE RemoveOutput(p)
  BY <1>2, <1>3, <1>5 DEF RemoveOutput, TypeOK, FilesTypeOK, Put, Entry, counters
<1>6. CASE PutSymlink(p)
  <2>1. id[p] \in Ids
    BY <1>6 DEF PutSymlink, LocalsOK, LocalOK, TypeOK, FilesTypeOK
  <2>2. FilesTypeOK'
    <3>1. \/ UNCHANGED <<tree, latest>>
          \/ /\ tree' = [tree EXCEPT ![out[p]] = Symlink(id[p])]
             /\ latest' = [latest EXCEPT ![out[p]] = id[p]]
      BY <1>6 DEF PutSymlink, Put
    <3>2. Symlink(id[p]) \in Entry
      BY <2>1 DEF Symlink, Entry
    <3>3. QED
      BY <1>6, <2>1, <3>1, <3>2 DEF PutSymlink, TypeOK, FilesTypeOK
  <2>3. LocalsTypeOK'
    BY <1>2, <1>3, <1>6, LeaveType DEF PutSymlink, TypeOK
  <2>4. QED
    BY <1>6, <2>2, <2>3 DEF PutSymlink, TypeOK, counters
<1>7. CASE Unpromote(p)
  BY <1>3, <1>7, GotoType
     DEF Unpromote, TypeOK, LocalsTypeOK, RealiseTypeOK, FilesTypeOK, shimVars, counters
<1>8. CASE Scan(p)
  BY <1>2, <1>3, <1>8, FilesUnchanged DEF Scan, TypeOK, counters
<1>9. CASE AppendLine(p)
  <2>1. id[p] \in Ids
    BY <1>9 DEF AppendLine, LocalsOK, LocalOK, TypeOK, FilesTypeOK
  <2>2. Append(manifest[id[p]], out[p]) \in Seq(Paths)
    BY <1>1, <2>1 DEF TypeOK, FilesTypeOK
  <2>3. FilesTypeOK'
    BY <1>9, <2>2 DEF AppendLine, TypeOK, FilesTypeOK
  <2>4. QED
    BY <1>2, <1>3, <1>9, <2>3 DEF AppendLine, TypeOK, realiseVars, shimVars, counters
<1>10. CASE Written(p)
  <2>1. FilesTypeOK' /\ jobs' \in Nat /\ faults' \in Nat
    BY <1>10, FilesUnchanged DEF Written, ThenObjtool,
       ThenRealise, ThenEnd, TypeOK, counters
  <2>2. CASE /\ Goto(p, "classify")
             /\ kind' = [kind EXCEPT ![p] = "objtool"]
             /\ args' = [args EXCEPT ![p] = <<out[p]>>]
             /\ refs' = [refs EXCEPT ![p] = <<>>]
             /\ UNCHANGED <<realiseVars, out, id>>
    <3>1. <<out[p]>> \in Seq(Paths) /\ <<>> \in Seq(Ref) /\ "objtool" \in Kinds
      BY <1>1 DEF Kinds
    <3>2. args' \in [Procs -> Seq(Paths)] /\ refs' \in [Procs -> Seq(Ref)]
      BY <2>2, <3>1 DEF TypeOK, LocalsTypeOK
    <3>3. QED
      BY <1>3, <2>1, <2>2, <3>1, <3>2, GotoType
         DEF TypeOK, LocalsTypeOK, RealiseTypeOK, realiseVars
  <2>3. CASE StartRealise(p, id[p], out[p]) /\ UNCHANGED shimVars
    <3>1. id[p] \in Ids
      BY <1>10 DEF Written, ThenObjtool,
       ThenRealise, ThenEnd, LocalsOK, LocalOK, TypeOK, FilesTypeOK
    <3>2. QED
      BY <1>1, <2>1, <2>3, <3>1, StartRealiseType DEF TypeOK, LocalsTypeOK, shimVars
  <2>4. CASE Leave(p)
    BY <2>1, <2>4, LeaveType DEF TypeOK
  <2>5. QED
    BY <1>10, <2>2, <2>3, <2>4 DEF Written, ThenObjtool,
       ThenRealise, ThenEnd
<1>11. QED
  BY <1>4, <1>5, <1>6, <1>7, <1>8, <1>9, <1>10

\* The steps that hand over to Realise or to the real tool.
LEMMA HandOverType ==
  ASSUME TypeOK, LocalsOK, NEW p \in Procs, ForceTarget(p) \/ RealiseArg(p) \/ Exec(p)
  PROVE  TypeOK'
<1>1. out[p] \in Paths
  BY DEF LocalsOK, LocalOK, ForceTarget, RealiseArg, Exec
<1>2. CASE ForceTarget(p)
  <2>1. refs[p] # <<>> /\ refs[p] \in Seq(Ref)
    BY <1>2 DEF ForceTarget, LocalsOK, LocalOK, TypeOK, LocalsTypeOK
  <2>2. refs[p][1] \in Ref
    BY <2>1
  <2>3. refs[p][1].id \in Ids
    BY <2>2 DEF Ref
  <2>4. RealiseTypeOK' /\ pc' \in [Procs -> PCs]
    BY <1>1, <1>2, <2>3, StartRealiseType DEF ForceTarget, TypeOK
  <2>5. QED
    BY <1>2, <2>4, FilesUnchanged DEF ForceTarget, TypeOK, LocalsTypeOK, shimVars, counters
<1>3. CASE RealiseArg(p)
  <2> DEFINE o == Head(args[p])
  <2>1. o \in Paths /\ Tail(args[p]) \in Seq(Paths)
    BY <1>3 DEF RealiseArg, TypeOK, LocalsTypeOK
  <2>2. RealiseTypeOK' /\ pc' \in [Procs -> PCs]
    <3>1. CASE tree[o].kind = "symlink"
      <4>1. StartRealise(p, tree[o].id, o)
        BY <1>3, <3>1 DEF RealiseArg
      <4>2. QED
        BY <2>1, <3>1, <4>1, SymlinkHoldsId, StartRealiseType DEF TypeOK
    <3>2. CASE tree[o].kind # "symlink"
      <4>1. UNCHANGED <<pc, realiseVars>>
        BY <1>3, <3>2 DEF RealiseArg
      <4>2. QED
        BY <4>1 DEF TypeOK, LocalsTypeOK, RealiseTypeOK, realiseVars
    <3>3. QED  BY <3>1, <3>2
  <2>3. args' \in [Procs -> Seq(Paths)]
    <3>1. args' = [args EXCEPT ![p] = Tail(args[p])]
      BY <1>3 DEF RealiseArg
    <3>2. QED
      BY <2>1, <3>1 DEF TypeOK, LocalsTypeOK
  <2>4. QED
    BY <1>3, <2>2, <2>3, FilesUnchanged DEF RealiseArg, TypeOK, LocalsTypeOK, counters
<1>4. CASE Exec(p)
  <2>1. FilesTypeOK'
    BY <1>4 DEF Exec, Put, Foreign, File, Entry, TypeOK, FilesTypeOK
  <2>2. QED
    BY <1>4, <2>1, LeaveType DEF Exec, TypeOK, counters
<1>5. QED  BY <1>2, <1>3, <1>4

\* Type correctness: every variable keeps its type in every step.
LEMMA StepTypeOK ==
  ASSUME TypeOK, LocalsOK, [Next]_vars
  PROVE  TypeOK'
<1>1. ASSUME NEW p \in Procs, Step(p)
      PROVE  TypeOK'
  <2>1. CASE Realising(p)
    BY <2>1, RealiseStepType DEF Realising, TypeOK, LocalsTypeOK, shimVars, counters
  <2>2. CASE EndRealise(p)
    BY <2>2, ReturnType, FilesUnchanged DEF EndRealise, ReturnFromRealise, TypeOK, counters
  <2>3. QED
    BY <1>1, <2>1, <2>2, ClassifyType, PublishType, HandOverType DEF Step
<1>2. ASSUME NEW p \in Procs, RealiseFails(p)
      PROVE  TypeOK'
  BY <1>2, ReturnType, FilesUnchanged, FaultType DEF RealiseFails, ReturnFromRealise, TypeOK
<1>3. ASSUME NEW p \in Procs, PromoteFails(p)
      PROVE  TypeOK'
  BY <1>3, RealiseStepType, FaultType DEF PromoteFails, TypeOK, LocalsTypeOK, shimVars
<1>4. ASSUME NEW p \in Procs, Kill(p)
      PROVE  TypeOK'
  BY <1>4, LeaveType, FilesUnchanged, FaultType DEF Kill, TypeOK
<1>5. ASSUME NEW p \in Procs, NEW o \in Paths, StartRecipe(p, o)
      PROVE  TypeOK'
  BY <1>5, StartType, InputsAssumption DEF StartRecipe, Kinds
<1>6. ASSUME NEW p \in Procs, NEW o \in Forced, StartForce(p, o)
      PROVE  TypeOK'
  <2>1. o \in Paths /\ <<o>> \in Seq(Paths) /\ "force" \in Kinds
    BY <1>6, ForcedAssumption DEF Kinds
  <2>2. Start(p, "force", o, <<o>>)
    BY <1>6 DEF StartForce
  <2>3. QED
    BY <2>1, <2>2, StartType
<1>7. ASSUME NEW o \in Paths, RealTool(o)
      PROVE  TypeOK'
  BY <1>7 DEF RealTool, Put, Foreign, File, Entry, TypeOK, FilesTypeOK, LocalsTypeOK,
     RealiseTypeOK, realiseVars, shimVars
<1>8. CASE UNCHANGED vars
  BY <1>8 DEF vars, fileVars, realiseVars, shimVars, counters, TypeOK, FilesTypeOK,
     LocalsTypeOK, RealiseTypeOK
<1>9. QED
  BY <1>1, <1>2, <1>3, <1>4, <1>5, <1>6, <1>7, <1>8 DEF Next

\* What a step of process p leaves alone: the locals of the others, and every
\* thunk that exists.
OthersKeep(p) ==
    /\ thunks \subseteq thunks'
    /\ \A q \in Procs \ {p} :
          /\ pc'[q] = pc[q] /\ kind'[q] = kind[q] /\ out'[q] = out[q]
          /\ args'[q] = args[q] /\ refs'[q] = refs[q] /\ id'[q] = id[q]
          /\ names'[q] = names[q]

\* A step that leaves a process's locals alone, and takes no thunk away, keeps
\* the invariant of that process.
LEMMA OthersKeepOK ==
  ASSUME LocalsOK, RefsResolve, NEW p \in Procs, OthersKeep(p),
         LocalOK(p)', RefResolves(p)'
  PROVE  LocalsOK' /\ RefsResolve'
<1>1. ASSUME NEW q \in Procs \ {p}
      PROVE  LocalOK(q)' /\ RefResolves(q)'
  BY <1>1 DEF LocalsOK, RefsResolve, OthersKeep, LocalOK, RefResolves
<1>2. QED  BY <1>1 DEF LocalsOK, RefsResolve

\* A process that has ended holds nothing.
LEMMA LeaveLocal ==
  ASSUME TypeOK, NEW p \in Procs, Leave(p), UNCHANGED thunks
  PROVE  OthersKeep(p) /\ LocalOK(p)' /\ RefResolves(p)'
  BY DEF Leave, Goto, OthersKeep, LocalOK, RefResolves, TypeOK, LocalsTypeOK,
     RealiseTypeOK, Promotion

\* A passthrough holds no reference.
LEMMA UnmodelledLocal ==
  ASSUME TypeOK, NEW p \in Procs, LocalOK(p), pc[p] # "idle", Unmodelled(p),
         UNCHANGED thunks
  PROVE  OthersKeep(p) /\ LocalOK(p)' /\ RefResolves(p)'
<1>1. CASE kind[p] = "force"
  BY <1>1, LeaveLocal DEF Unmodelled
<1>2. CASE kind[p] # "force"
  BY <1>2 DEF Unmodelled, Goto, OthersKeep, LocalOK, RefResolves, TypeOK, LocalsTypeOK,
     RealiseTypeOK, realiseVars, Promotion
<1>3. QED  BY <1>1, <1>2

\* The reference added resolves if it was read off a symlink that resolves.
LEMMA ReferLocal ==
  ASSUME TypeOK, NEW p \in Procs, LocalOK(p), RefResolves(p), pc[p] # "idle",
         NEW via, NEW t \in Ids, Refer(p, via, t), via = "nix" => t \in thunks,
         UNCHANGED thunks
  PROVE  OthersKeep(p) /\ LocalOK(p)' /\ RefResolves(p)'
<1>1. OthersKeep(p)
  BY DEF Refer, Goto, OthersKeep, TypeOK, LocalsTypeOK, RealiseTypeOK, realiseVars
<1> DEFINE r == [via |-> via, id |-> t]
<1>2. refs[p] \in Seq(Ref) /\ refs'[p] = Append(refs[p], r)
  BY DEF Refer, TypeOK, LocalsTypeOK
<1>3. refs'[p] # <<>> /\ DOMAIN refs'[p] = 1 .. Len(refs[p]) + 1
  BY <1>2
<1>4. \A i \in DOMAIN refs'[p] :
         refs'[p][i] = IF i = Len(refs[p]) + 1 THEN r ELSE refs[p][i]
  BY <1>2, <1>3
<1>5. RefResolves(p)'
  <2>1. DOMAIN refs[p] = 1 .. Len(refs[p]) /\ Len(refs[p]) \in Nat
    BY <1>2
  <2>2. QED
    BY <1>3, <1>4, <2>1 DEF RefResolves
<1>6. LocalOK(p)'
  BY <1>3 DEF Refer, Goto, LocalOK, TypeOK, LocalsTypeOK, Promotion
<1>7. QED  BY <1>1, <1>5, <1>6

\* The step of a shim that keeps its invariant and that of its references.
LEMMA ShimLocal ==
  ASSUME TypeOK, LocalsOK, RefsResolve, SymlinksResolve, NEW p \in Procs,
         \/ Lstat(p) \/ Readlink(p) \/ Lookup(p) \/ Write(p) \/ ForceTarget(p)
         \/ RemoveOutput(p) \/ PutSymlink(p) \/ Unpromote(p) \/ Scan(p)
         \/ AppendLine(p) \/ Written(p) \/ RealiseArg(p) \/ Exec(p)
  PROVE  OthersKeep(p) /\ LocalOK(p)' /\ RefResolves(p)'
<1>1. LocalOK(p) /\ RefResolves(p)
  BY DEF LocalsOK, RefsResolve
<1> USE DEF Goto, OthersKeep, LocalOK, RefResolves, TypeOK, LocalsTypeOK,
            RealiseTypeOK, realiseVars, shimVars, fileVars, Promotion
<1>2. CASE Lstat(p)
  <2>1. CASE Unmodelled(p)
    BY <1>1, <1>2, <2>1, UnmodelledLocal DEF Lstat
  <2>2. CASE (Goto(p, "readlink") \/ Goto(p, "lookup")) /\ UNCHANGED <<realiseVars, shimVars>>
    BY <1>1, <1>2, <2>2 DEF Lstat, Classifies
  <2>3. QED  BY <1>2, <2>1, <2>2 DEF Lstat
<1>3. CASE Readlink(p)
  <2> DEFINE o == Head(args[p])
  <2>1. args[p] # <<>> /\ o \in Paths
    BY <1>1, <1>3 DEF Readlink
  <2>2. CASE tree[o].kind = "symlink"
    <3>1. tree[o].id \in Ids /\ tree[o].id \in thunks
      BY <2>1, <2>2, SymlinkHoldsId DEF SymlinksResolve
    <3>2. Refer(p, "nix", tree[o].id) /\ UNCHANGED thunks
      BY <1>3, <2>2 DEF Readlink
    <3>3. QED
      BY <1>1, <1>3, <3>1, <3>2, ReferLocal DEF Readlink
  <2>3. CASE tree[o].kind # "symlink"
    BY <1>1, <1>3, <2>3, UnmodelledLocal DEF Readlink
  <2>4. QED  BY <2>2, <2>3
<1>4. CASE Lookup(p)
  <2> DEFINE o == Head(args[p])
  <2>1. args[p] # <<>> /\ o \in Paths
    BY <1>1, <1>4 DEF Lookup
  <2>2. CASE promoted[o] # NoId
    <3>1. promoted[o] \in Ids
      BY <2>1, <2>2 DEF FilesTypeOK
    <3>2. Refer(p, "store", promoted[o]) /\ UNCHANGED thunks
      BY <1>4, <2>2 DEF Lookup
    <3>3. QED
      BY <1>1, <1>4, <3>1, <3>2, ReferLocal DEF Lookup
  <2>3. CASE promoted[o] = NoId
    BY <1>1, <1>4, <2>3, UnmodelledLocal DEF Lookup
  <2>4. QED  BY <2>2, <2>3
<1>5. CASE Write(p)
  <2>1. PICK t \in Ids :
          /\ thunks' = thunks \cup {t}
          /\ id' = [id EXCEPT ![p] = t]
          /\ IF out[p] \in RealiseNow
             THEN StartRealiseAlone(p, t, out[p])
             ELSE Goto(p, "remove") /\ UNCHANGED realiseVars
    BY <1>5 DEF Write
  <2>2. UNCHANGED <<kind, out, args, refs>> /\ out[p] \in Paths
    BY <1>1, <1>5 DEF Write
  <2>3. RefResolves(p)'
    BY <1>1, <2>1, <2>2
  <2>4. CASE StartRealiseAlone(p, t, out[p])
    <3>1. OthersKeep(p)
      BY <2>1, <2>2, <2>4 DEF StartRealiseAlone
    <3>2. pc'[p] = "collect" /\ names'[p] # <<>> /\ out'[p] \in Paths
      BY <2>2, <2>4 DEF StartRealiseAlone
    <3>3. QED  BY <2>3, <3>1, <3>2
  <2>5. CASE Goto(p, "remove") /\ UNCHANGED realiseVars
    <3>1. OthersKeep(p)
      BY <2>1, <2>2, <2>5
    <3>2. pc'[p] = "remove" /\ id'[p] \in thunks' /\ out'[p] \in Paths
      BY <2>1, <2>2, <2>5
    <3>3. QED  BY <2>3, <3>1, <3>2
  <2>6. QED  BY <2>1, <2>4, <2>5
<1>6. CASE ForceTarget(p)
  BY <1>1, <1>6 DEF ForceTarget, StartRealise
<1>7. CASE RemoveOutput(p)
  BY <1>1, <1>7 DEF RemoveOutput
<1>8. CASE PutSymlink(p)
  <2>1. CASE Leave(p)
    BY <1>8, <2>1, LeaveLocal DEF PutSymlink
  <2>2. CASE Goto(p, "unpromote") /\ UNCHANGED <<realiseVars, shimVars>>
    BY <1>1, <1>8, <2>2 DEF PutSymlink
  <2>3. QED  BY <1>8, <2>1, <2>2 DEF PutSymlink
<1>9. CASE Unpromote(p)
  BY <1>1, <1>9 DEF Unpromote
<1>10. CASE Scan(p)
  BY <1>1, <1>10 DEF Scan
<1>11. CASE AppendLine(p)
  BY <1>1, <1>11 DEF AppendLine
<1>12. CASE Written(p)
  <2>1. CASE Leave(p)
    BY <1>12, <2>1, LeaveLocal DEF Written, ThenObjtool,
       ThenRealise, ThenEnd
  <2>2. CASE StartRealise(p, id[p], out[p]) /\ UNCHANGED shimVars
    BY <1>1, <1>12, <2>2 DEF Written, ThenObjtool,
       ThenRealise, ThenEnd, StartRealise
  <2>3. CASE /\ Goto(p, "classify")
             /\ kind' = [kind EXCEPT ![p] = "objtool"]
             /\ args' = [args EXCEPT ![p] = <<out[p]>>]
             /\ refs' = [refs EXCEPT ![p] = <<>>]
             /\ UNCHANGED <<realiseVars, out, id>>
    <3>1. UNCHANGED thunks /\ out[p] \in Paths
      BY <1>1, <1>12 DEF Written, ThenObjtool,
       ThenRealise, ThenEnd
    <3>2. QED  BY <2>3, <3>1
  <2>4. QED  BY <1>12, <2>1, <2>2, <2>3 DEF Written, ThenObjtool,
       ThenRealise, ThenEnd
<1>13. CASE RealiseArg(p)
  <2> DEFINE o == Head(args[p])
  <2>1. UNCHANGED <<kind, out, refs, id, thunks>> /\ out[p] \in Paths
        /\ args' = [args EXCEPT ![p] = Tail(args[p])] /\ kind[p] = "passthrough"
        /\ pc[p] = "classify"
    BY <1>1, <1>13 DEF RealiseArg
  <2>2. CASE StartRealise(p, tree[o].id, o)
    BY <1>1, <2>1, <2>2 DEF StartRealise
  <2>3. CASE UNCHANGED <<pc, realiseVars>>
    BY <1>1, <2>1, <2>3
  <2>4. QED  BY <1>13, <2>2, <2>3 DEF RealiseArg
<1>14. CASE Exec(p)
  BY <1>14, LeaveLocal DEF Exec
<1>15. QED
  BY <1>2, <1>3, <1>4, <1>5, <1>6, <1>7, <1>8, <1>9, <1>10, <1>11, <1>12, <1>13, <1>14

\* A step of Realise always has a path to promote when it needs one.
LEMMA RealiseLocal ==
  ASSUME TypeOK, LocalsOK, RefsResolve, NEW p \in Procs,
         \/ RealiseStep(p) /\ UNCHANGED shimVars
         \/ SkipLine(p) /\ UNCHANGED shimVars
         \/ (Realised(p) \/ CanFail(p)) /\ ReturnFromRealise(p)
  PROVE  OthersKeep(p) /\ LocalOK(p)' /\ RefResolves(p)'
<1>1. LocalOK(p) /\ RefResolves(p)
  BY DEF LocalsOK, RefsResolve
<1> USE DEF Goto, OthersKeep, LocalOK, RefResolves, TypeOK, LocalsTypeOK,
            RealiseTypeOK, realiseVars, shimVars, fileVars, Promotion
<1>2. CASE Collect(p) /\ UNCHANGED shimVars
  BY <1>1, <1>2 DEF Collect
<1>3. CASE (Build(p) \/ OpenManifest(p) \/ Unlink(p) \/ Rename(p) \/ Truncate(p))
           /\ UNCHANGED shimVars
  BY <1>1, <1>3 DEF Build, OpenManifest, Unlink, Rename, Truncate
<1>4. CASE NextLine(p) /\ UNCHANGED shimVars
  BY <1>1, <1>4 DEF NextLine
<1>5. CASE (Record(p) \/ SkipLine(p)) /\ UNCHANGED shimVars
  BY <1>1, <1>5 DEF Record, SkipLine
<1>6. CASE (Realised(p) \/ CanFail(p)) /\ ReturnFromRealise(p)
  <2>1. CASE kind[p] = "passthrough"
    BY <1>1, <1>6, <2>1 DEF ReturnFromRealise, Realised, CanFail
  <2>2. CASE kind[p] # "passthrough"
    BY <1>6, <2>2, LeaveLocal DEF ReturnFromRealise
  <2>3. QED  BY <2>1, <2>2
<1>7. QED
  BY <1>2, <1>3, <1>4, <1>5, <1>6 DEF RealiseStep

\* A new process holds its operands only.
LEMMA StartLocal ==
  ASSUME TypeOK, LocalsOK, RefsResolve, NEW p \in Procs, NEW k \in Kinds,
         NEW o \in Paths, NEW operands \in Seq(Paths), Start(p, k, o, operands),
         k = "force" => operands # <<>>
  PROVE  LocalsOK' /\ RefsResolve'
<1>1. LocalOK(p) /\ RefResolves(p)
  BY DEF LocalsOK, RefsResolve
<1>2. OthersKeep(p) /\ LocalOK(p)' /\ RefResolves(p)'
  BY <1>1 DEF Start, Goto, OthersKeep, LocalOK, RefResolves, TypeOK, LocalsTypeOK,
     RealiseTypeOK, realiseVars, fileVars, Promotion
<1>3. QED  BY <1>2, OthersKeepOK

\* No step of any process takes away what a process holds.
LEMMA StepLocals ==
  ASSUME TypeOK, LocalsOK, RefsResolve, SymlinksResolve, [Next]_vars
  PROVE  LocalsOK' /\ RefsResolve'
<1>1. ASSUME NEW p \in Procs, Step(p)
      PROVE  LocalsOK' /\ RefsResolve'
  <2>1. CASE Realising(p)
    BY <2>1, RealiseLocal, OthersKeepOK DEF Realising
  <2>2. CASE EndRealise(p)
    BY <2>2, RealiseLocal, OthersKeepOK DEF EndRealise
  <2>3. QED
    BY <1>1, <2>1, <2>2, ShimLocal, OthersKeepOK DEF Step
<1>2. ASSUME NEW p \in Procs, RealiseFails(p)
      PROVE  LocalsOK' /\ RefsResolve'
  BY <1>2, RealiseLocal, OthersKeepOK DEF RealiseFails
<1>3. ASSUME NEW p \in Procs, PromoteFails(p)
      PROVE  LocalsOK' /\ RefsResolve'
  BY <1>3, RealiseLocal, OthersKeepOK DEF PromoteFails
<1>4. ASSUME NEW p \in Procs, Kill(p)
      PROVE  LocalsOK' /\ RefsResolve'
  BY <1>4, LeaveLocal, OthersKeepOK DEF Kill, fileVars
<1>5. ASSUME NEW p \in Procs, NEW o \in Paths, StartRecipe(p, o)
      PROVE  LocalsOK' /\ RefsResolve'
  BY <1>5, StartLocal, InputsAssumption DEF StartRecipe, Kinds
<1>6. ASSUME NEW p \in Procs, NEW o \in Forced, StartForce(p, o)
      PROVE  LocalsOK' /\ RefsResolve'
  <2>1. o \in Paths /\ <<o>> \in Seq(Paths) /\ "force" \in Kinds /\ <<o>> # <<>>
    BY <1>6, ForcedAssumption DEF Kinds
  <2>2. Start(p, "force", o, <<o>>)
    BY <1>6 DEF StartForce
  <2>3. QED  BY <2>1, <2>2, StartLocal
<1>7. ASSUME NEW o \in Paths, RealTool(o)
      PROVE  LocalsOK' /\ RefsResolve'
  BY <1>7 DEF RealTool, LocalsOK, LocalOK, RefsResolve, RefResolves, realiseVars,
     shimVars
<1>8. CASE UNCHANGED vars
  BY <1>8 DEF vars, fileVars, realiseVars, shimVars, LocalsOK, LocalOK, RefsResolve,
     RefResolves
<1>9. QED
  BY <1>1, <1>2, <1>3, <1>4, <1>5, <1>6, <1>7, <1>8 DEF Next

\* No step removes a thunk; Write alone adds one, and only with its imports.
LEMMA ThunksGrow ==
  ASSUME [Next]_vars
  PROVE  \/ UNCHANGED thunks
         \/ \E p \in Procs : Write(p)
<1>1. ASSUME NEW p \in Procs, ReturnFromRealise(p)
      PROVE  UNCHANGED thunks
  BY <1>1 DEF ReturnFromRealise, fileVars
<1>2. ASSUME NEW p \in Procs, Step(p), ~Write(p)
      PROVE  UNCHANGED thunks
  BY <1>1, <1>2 DEF Step, Lstat, Readlink, Lookup, ForceTarget, RemoveOutput, PutSymlink,
     Unpromote, Scan, AppendLine, Written, ThenObjtool,
       ThenRealise, ThenEnd, RealiseArg, Exec, Realising, RealiseStep,
     Collect, Build, OpenManifest, NextLine, Unlink, Rename, Truncate, Record,
     EndRealise, fileVars
<1>3. ASSUME NEW p \in Procs, RealiseFails(p) \/ PromoteFails(p) \/ Kill(p)
      PROVE  UNCHANGED thunks
  BY <1>1, <1>3 DEF RealiseFails, PromoteFails, SkipLine, Kill, fileVars
<1>4. ASSUME NEW p \in Procs, NEW o, StartRecipe(p, o) \/ StartForce(p, o)
      PROVE  UNCHANGED thunks
  BY <1>4 DEF StartRecipe, StartForce, Start, fileVars
<1>5. QED
  BY <1>2, <1>3, <1>4 DEF Next, RealTool, vars, fileVars

\* Write imports what its process's references resolve to.
LEMMA StepImportsResolve ==
  ASSUME TypeOK, RefsResolve, ImportsResolve, [Next]_vars
  PROVE  ImportsResolve' /\ thunks \subseteq thunks'
<1>1. CASE UNCHANGED thunks
  BY <1>1 DEF ImportsResolve
<1>2. ASSUME NEW p \in Procs, Write(p)
      PROVE  ImportsResolve' /\ thunks \subseteq thunks'
  <2>1. PICK t \in Ids : Refs[t] = refs[p] /\ thunks' = thunks \cup {t}
    BY <1>2 DEF Write
  <2>2. \A r \in Imported(t) : r.id \in thunks
    BY <2>1 DEF Imported, RefsResolve, RefResolves
  <2>3. QED  BY <2>1, <2>2 DEF ImportsResolve
<1>3. QED  BY <1>1, <1>2, ThunksGrow

\* Only PutSymlink makes a symlink, of the thunk its process holds.
LEMMA TreeSteps ==
  ASSUME TypeOK, [Next]_vars, NEW o \in Paths, tree'[o].kind = "symlink"
  PROVE  \/ tree'[o] = tree[o]
         \/ \E p \in Procs : /\ PutSymlink(p) /\ Goto(p, "unpromote")
                            /\ o = out[p] /\ tree'[o] = Symlink(id[p])
                            /\ UNCHANGED <<shimVars, counters>>
<1> USE DEF TypeOK, FilesTypeOK
<1>1. ASSUME NEW p \in Procs, ReturnFromRealise(p)
      PROVE  tree' = tree
  BY <1>1 DEF ReturnFromRealise, fileVars
<1>2. ASSUME NEW p \in Procs, PutSymlink(p)
      PROVE  \/ tree'[o] = tree[o]
             \/ /\ Goto(p, "unpromote") /\ o = out[p] /\ tree'[o] = Symlink(id[p])
                /\ UNCHANGED <<shimVars, counters>>
  <2>1. CASE UNCHANGED tree
    BY <2>1
  <2>2. CASE /\ Goto(p, "unpromote") /\ Put(out[p], Symlink(id[p]))
             /\ UNCHANGED shimVars
    BY <1>2, <2>2 DEF PutSymlink, Put
  <2>3. QED  BY <1>2, <2>1, <2>2 DEF PutSymlink
<1>3. ASSUME NEW p \in Procs, RemoveOutput(p) \/ Unlink(p) \/ Rename(p) \/ Exec(p)
      PROVE  tree'[o] = tree[o]
  BY <1>3 DEF RemoveOutput, Unlink, Rename, Exec, Put, Absent, Foreign, File
<1>4. ASSUME NEW p \in Procs, Step(p), ~PutSymlink(p), ~RemoveOutput(p), ~Unlink(p),
             ~Rename(p), ~Exec(p)
      PROVE  tree' = tree
  BY <1>1, <1>4 DEF Step, Lstat, Readlink, Lookup, Write, ForceTarget, Unpromote, Scan,
     AppendLine, Written, ThenObjtool,
       ThenRealise, ThenEnd, RealiseArg, Realising, RealiseStep, Collect, Build,
     OpenManifest, NextLine, Truncate, Record, EndRealise, fileVars
<1>5. ASSUME NEW p \in Procs, RealiseFails(p) \/ PromoteFails(p) \/ Kill(p)
      PROVE  tree' = tree
  BY <1>1, <1>5 DEF RealiseFails, PromoteFails, SkipLine, Kill, fileVars
<1>6. ASSUME NEW p \in Procs, NEW q, StartRecipe(p, q) \/ StartForce(p, q)
      PROVE  tree' = tree
  BY <1>6 DEF StartRecipe, StartForce, Start, fileVars
<1>7. ASSUME NEW q \in Paths, RealTool(q)
      PROVE  tree'[o] = tree[o]
  BY <1>7 DEF RealTool, Put, Foreign, File
<1>8. QED
  BY <1>2, <1>3, <1>4, <1>5, <1>6, <1>7 DEF Next, vars, fileVars

\* A new symlink points at the thunk its process has written.
LEMMA StepSymlinksResolve ==
  ASSUME TypeOK, LocalsOK, SymlinksResolve, thunks \subseteq thunks', [Next]_vars
  PROVE  SymlinksResolve'
<1>1. ASSUME NEW o \in Paths, tree'[o].kind = "symlink"
      PROVE  tree'[o].id \in thunks'
  <2>1. CASE tree'[o] = tree[o]
    BY <1>1, <2>1 DEF SymlinksResolve
  <2>2. ASSUME NEW p \in Procs, PutSymlink(p), tree'[o] = Symlink(id[p])
        PROVE  tree'[o].id \in thunks'
    BY <2>2 DEF PutSymlink, LocalsOK, LocalOK, Symlink
  <2>3. QED  BY <1>1, <2>1, <2>2, TreeSteps
<1>2. QED  BY <1>1 DEF SymlinksResolve

\* IInv is inductive.
LEMMA StepIInv == IInv /\ [Next]_vars => IInv'
  BY StepTypeOK, StepLocals, StepImportsResolve, StepSymlinksResolve DEF IInv

\* IInv holds in every reachable state, for any workspace, any number of shims
\* and forces at once, and any number of failures.
THEOREM Invariance == Spec => []IInv
<1>1. QED  BY InitIInv, StepIInv, PTL DEF Spec

\* A placeholder in the working tree never dangles: LinkPlaceholder runs after
\* thunk.Write and nothing under thunks/ is ever deleted.
THEOREM PlaceholdersNeverDangle == Spec => []SymlinksResolve
<1>1. IInv => SymlinksResolve
  BY DEF IInv
<1>2. QED  BY Invariance, <1>1, PTL

\* No thunk imports a thunk that is missing, so the stale-reference skips of
\* CollectThunks never drop part of the graph force has to promote.
THEOREM ImportsNeverDangle == Spec => []ImportsResolve
<1>1. IInv => ImportsResolve
  BY DEF IInv
<1>2. QED  BY Invariance, <1>1, PTL

\* Every variable keeps its type.
THEOREM TypeCorrect == Spec => []TypeOK
<1>1. IInv => TypeOK
  BY DEF IInv
<1>2. QED  BY Invariance, <1>1, PTL

-----------------------------------------------------------------------------
\* No step takes a line out of a manifest.
LEMMA ManifestsGrow ==
  ASSUME IInv, [Next]_vars, NEW t \in Ids
  PROVE  Lines(t) \subseteq Lines(t)'
<1>1. CASE UNCHANGED manifest
  BY <1>1 DEF Lines
<1>2. ASSUME NEW p \in Procs, AppendLine(p)
      PROVE  Lines(t) \subseteq Lines(t)'
  <2>1. manifest[t] \in Seq(Paths) /\ out[p] \in Paths
    BY <1>2 DEF IInv, TypeOK, FilesTypeOK, LocalsOK, LocalOK, AppendLine
  <2>2. manifest'[t] = manifest[t] \/ manifest'[t] = Append(manifest[t], out[p])
    BY <1>2 DEF AppendLine, IInv, TypeOK, FilesTypeOK
  <2>3. \A i \in DOMAIN manifest[t] :
           i \in DOMAIN manifest'[t] /\ manifest'[t][i] = manifest[t][i]
    BY <2>1, <2>2
  <2>4. QED  BY <2>3 DEF Lines
<1>3. ASSUME NEW p \in Procs, ReturnFromRealise(p)
      PROVE  UNCHANGED manifest
  BY <1>3 DEF ReturnFromRealise, fileVars
<1>4. ASSUME NEW p \in Procs, Step(p), ~AppendLine(p)
      PROVE  UNCHANGED manifest
  BY <1>3, <1>4 DEF Step, Lstat, Readlink, Lookup, Write, ForceTarget, RemoveOutput,
     PutSymlink, Unpromote, Scan, Written, ThenObjtool,
       ThenRealise, ThenEnd, RealiseArg, Exec, Realising, RealiseStep,
     Collect, Build, OpenManifest, NextLine, Unlink, Rename, Truncate, Record,
     EndRealise, fileVars
<1>5. ASSUME NEW p \in Procs, RealiseFails(p) \/ PromoteFails(p) \/ Kill(p)
      PROVE  UNCHANGED manifest
  BY <1>3, <1>5 DEF RealiseFails, PromoteFails, SkipLine, Kill, fileVars
<1>6. ASSUME NEW p \in Procs, NEW o, StartRecipe(p, o) \/ StartForce(p, o)
      PROVE  UNCHANGED manifest
  BY <1>6 DEF StartRecipe, StartForce, Start, fileVars
<1>7. QED
  BY <1>1, <1>2, <1>4, <1>5, <1>6 DEF Next, RealTool, vars, fileVars

\* A step of one process changes no other process's locals.
LEMMA StepOthersKeep ==
  ASSUME IInv, NEW p \in Procs, Step(p)
  PROVE  OthersKeep(p)
<1>1. CASE Realising(p)
  BY <1>1, RealiseLocal DEF Realising, IInv
<1>2. CASE EndRealise(p)
  BY <1>2, RealiseLocal DEF EndRealise, IInv
<1>3. QED
  BY <1>1, <1>2, ShimLocal DEF Step, IInv

\* A step leaves the count of failures alone or adds one to it.
LEMMA StepFaults ==
  ASSUME [Next]_vars
  PROVE  faults' = faults \/ faults' = faults + 1
<1>1. ASSUME NEW p \in Procs, Step(p)
      PROVE  faults' = faults
  BY <1>1 DEF Step, Lstat, Readlink, Lookup, Write, ForceTarget, RemoveOutput, PutSymlink,
     Unpromote, Scan, AppendLine, Written, ThenObjtool,
       ThenRealise, ThenEnd, RealiseArg, Exec, Realising, EndRealise,
     counters
<1>2. ASSUME NEW p \in Procs, RealiseFails(p) \/ PromoteFails(p) \/ Kill(p)
      PROVE  faults' = faults + 1
  BY <1>2 DEF RealiseFails, PromoteFails, Kill, Fault
<1>3. QED
  BY <1>1, <1>2 DEF Next, StartRecipe, StartForce, Start, RealTool, vars, counters

\* The shim that made a placeholder has still to put it in the manifest.
Recording(p, o) ==
    pc[p] \in {"unpromote", "scan", "append"} /\ out[p] = o /\ id[p] = tree[o].id

\* A process about to record a placeholder goes on until the line is there.
LEMMA RecordingGoesOn ==
  ASSUME IInv, NEW o \in Paths, NEW q \in Procs, Recording(q, o), tree'[o] = tree[o],
         tree[o].id \in Ids, [Next]_vars, faults' = 0
  PROVE  Recording(q, o)' \/ o \in Lines(tree[o].id)'
<1> DEFINE t == tree[o].id
<1>1. ASSUME NEW p \in Procs \ {q}, OthersKeep(p)
      PROVE  Recording(q, o)'
  BY <1>1 DEF OthersKeep, Recording
<1>2. CASE Step(q)
  <2>1. Unpromote(q) \/ Scan(q) \/ AppendLine(q)
    BY <1>2 DEF Recording, Step, Lstat, Readlink, Lookup, Write, ForceTarget,
       RemoveOutput, PutSymlink, Written, ThenObjtool,
       ThenRealise, ThenEnd, RealiseArg, Exec, Realising, RealiseStep,
       Collect, Build, OpenManifest, NextLine, Unlink, Rename, Truncate, Record,
       EndRealise, Realised
  <2>2. CASE Unpromote(q)
    BY <2>2 DEF Unpromote, Goto, Recording, shimVars, IInv, TypeOK, LocalsTypeOK
  <2>3. CASE Scan(q)
    <3>1. CASE o \in Lines(t)
      BY <3>1, ManifestsGrow
    <3>2. CASE o \notin Lines(t)
      BY <2>3, <3>2 DEF Scan, Goto, Recording, shimVars, IInv, TypeOK, LocalsTypeOK
    <3>3. QED  BY <3>1, <3>2
  <2>4. CASE AppendLine(q)
    <3>1. manifest[t] \in Seq(Paths) /\ out[q] = o /\ id[q] = t
      BY DEF Recording, IInv, TypeOK, FilesTypeOK
    <3>2. manifest'[t] = Append(manifest[t], o)
      BY <2>4, <3>1 DEF AppendLine, IInv, TypeOK, FilesTypeOK
    <3>3. Len(manifest[t]) + 1 \in DOMAIN manifest'[t]
          /\ manifest'[t][Len(manifest[t]) + 1] = o
      BY <3>1, <3>2
    <3>4. QED  BY <3>3 DEF Lines
  <2>5. QED  BY <2>1, <2>2, <2>3, <2>4
<1>3. ASSUME NEW p \in Procs, Step(p)
      PROVE  Recording(q, o)' \/ o \in Lines(tree[o].id)'
  BY <1>1, <1>2, <1>3, StepOthersKeep
<1>4. ASSUME NEW p \in Procs, RealiseFails(p) \/ PromoteFails(p) \/ Kill(p)
      PROVE  FALSE
  BY <1>4 DEF RealiseFails, PromoteFails, Kill, Fault, IInv, TypeOK
<1>5. ASSUME NEW p \in Procs, NEW k, NEW r, NEW operands, Start(p, k, r, operands)
      PROVE  Recording(q, o)'
  BY <1>5 DEF Start, Goto, Recording, IInv, TypeOK, LocalsTypeOK
<1>6. QED
  BY <1>3, <1>4, <1>5 DEF Next, StartRecipe, StartForce, RealTool, Recording, vars,
     shimVars

\* PlaceholdersRecorded is inductive on top of IInv.
LEMMA StepRecorded ==
  ASSUME IInv, PlaceholdersRecorded, [Next]_vars
  PROVE  PlaceholdersRecorded'
<1> SUFFICES ASSUME faults' = 0, NEW o \in Paths, tree'[o].kind = "symlink"
             PROVE  \/ o \in Lines(tree[o].id)'
                    \/ \E p \in Procs : Recording(p, o)'
  BY DEF PlaceholdersRecorded, Recording
<1>1. ASSUME NEW p \in Procs, PutSymlink(p), Goto(p, "unpromote"), o = out[p],
             tree'[o] = Symlink(id[p]), UNCHANGED <<shimVars, counters>>
      PROVE  Recording(p, o)'
  BY <1>1 DEF Goto, Recording, Symlink, shimVars, IInv, TypeOK, LocalsTypeOK
<1>2. CASE tree'[o] = tree[o]
  <2>1. tree[o].kind = "symlink" /\ tree[o].id \in Ids
    BY <1>2, SymlinkHoldsId DEF IInv, TypeOK
  <2>2. faults = 0
    <3>1. faults' = faults \/ faults' = faults + 1
      BY StepFaults
    <3>2. QED  BY <3>1 DEF IInv, TypeOK
  <2>3. o \in Lines(tree[o].id) \/ \E q \in Procs : Recording(q, o)
    BY <2>1, <2>2 DEF PlaceholdersRecorded, Recording
  <2>4. CASE o \in Lines(tree[o].id)
    BY <1>2, <2>1, <2>4, ManifestsGrow
  <2>5. ASSUME NEW q \in Procs, Recording(q, o)
        PROVE  Recording(q, o)' \/ o \in Lines(tree[o].id)'
    BY <1>2, <2>1, <2>5, RecordingGoesOn
  <2>6. QED  BY <1>2, <2>3, <2>4, <2>5
<1>3. QED
  BY <1>1, <1>2, TreeSteps DEF IInv

\* As long as no shim is killed, every placeholder is in the manifest force
\* reads, or its own shim is about to put it there.
THEOREM PlaceholdersAreRecorded == Spec => []PlaceholdersRecorded
<1>1. Init => PlaceholdersRecorded
  BY DEF Init, FilesInit, PlaceholdersRecorded, Absent
<1>2. IInv /\ PlaceholdersRecorded /\ [Next]_vars => PlaceholdersRecorded'
  BY StepRecorded
<1>3. QED  BY Invariance, <1>1, <1>2, PTL DEF Spec
=============================================================================
