-------------------------- MODULE ThunkWriteProofs --------------------------
(***************************************************************************)
(* For any number of processes, ids and chunks: thunk.Write never exposes  *)
(* a torn expression, never changes or withdraws one, and implements the   *)
(* indivisible ContentStore.                                               *)
(*                                                                         *)
(* The argument is the inductive invariant IInv of ThunkWrite: the bytes   *)
(* a rename publishes are those of a temp file, so it has to be known that *)
(* a process about to rename holds a complete temp file of its own id.     *)
(***************************************************************************)
EXTENDS ThunkWrite, TLAPS

\* Initially nothing is on disk and no process has begun.
LEMMA InitIInv == Init => IInv
<1> SUFFICES ASSUME Init PROVE IInv
  OBVIOUS
<1> USE ChunksAssumption, MissingAssumption DEF Init
<1>1. TypeOK
  BY DEF TypeOK, PCs, Running
<1>2. TempOK /\ NeverTorn /\ DoneIsVisible /\ NoLitter
  BY DEF TempOK, NeverTorn, DoneIsVisible, NoLitter
<1>3. QED
  BY <1>1, <1>2 DEF IInv

\* A whole body is a body, and no body is a missing file.
LEMMA WholeIsBody ==
    ASSUME NEW id \in Ids
    PROVE  Whole(id) \in Body /\ Whole(id) # Missing
  BY ChunksAssumption, MissingAssumption DEF Whole, Body

\* Each system call, failure and kill preserves the invariant.
LEMMA StepIInv == IInv /\ [Next]_vars => IInv'
<1> SUFFICES ASSUME IInv, [Next]_vars PROVE IInv'
  OBVIOUS
<1> USE ChunksAssumption, MissingAssumption, WholeIsBody
    DEF IInv, TypeOK, PCs, Running, TempOK, NeverTorn, DoneIsVisible, NoLitter
<1>1. ASSUME NEW p \in Procs, Stat(p) PROVE IInv'
  BY <1>1 DEF Stat, Goto
<1>2. ASSUME NEW p \in Procs, CreateTemp(p) PROVE IInv'
  BY <1>2 DEF CreateTemp, Goto, Body
<1>3. ASSUME NEW p \in Procs, WriteChunk(p) PROVE IInv'
  BY <1>3 DEF WriteChunk, Goto, Body, Whole
<1>4. ASSUME NEW p \in Procs, Rename(p) PROVE IInv'
  BY <1>4 DEF Rename, Goto
<1>5. ASSUME NEW p \in Procs, RenameFails(p) PROVE IInv'
  BY <1>5 DEF RenameFails, Goto
<1>6. ASSUME NEW p \in Procs, Recheck(p) PROVE IInv'
  BY <1>6 DEF Recheck, Goto
<1>7. ASSUME NEW p \in Procs, IOError(p) PROVE IInv'
  BY <1>7 DEF IOError
<1>8. ASSUME NEW p \in Procs, Kill(p) PROVE IInv'
  BY <1>8 DEF Kill
<1>9. CASE UNCHANGED vars
  BY <1>9 DEF vars
<1>10. QED
  BY <1>1, <1>2, <1>3, <1>4, <1>5, <1>6, <1>7, <1>8, <1>9 DEF Next, Step

\* thunk.Write is correct in every reachable state: see the parts of IInv.
THEOREM Invariance == Spec => []IInv
  BY InitIInv, StepIInv, PTL DEF Spec

\* A reader of .nixgg/thunks never meets a half-written expression, although
\* writers share the directory without a lock and may be killed at any point.
THEOREM ThunksNeverTorn == Spec => []NeverTorn
<1>1. IInv => NeverTorn
  BY DEF IInv
<1>2. QED
  BY <1>1, Invariance, PTL

\* A process whose Write returned nil finds the expression on disk from then
\* on: the skip of an existing file and the lost rename included.
THEOREM WritesAreVisible == Spec => []DoneIsVisible
<1>1. IInv => DoneIsVisible
  BY DEF IInv
<1>2. QED
  BY <1>1, Invariance, PTL

\* No return path of Write leaves a temp file in the directory that
\* force --roots lists.
THEOREM ReturnsLeaveNoTemp == Spec => []NoLitter
<1>1. IInv => NoLitter
  BY DEF IInv
<1>2. QED
  BY <1>1, Invariance, PTL

\* A step leaves every expression that is on disk as it is: the only write to
\* an existing path is a rename of the same bytes.
LEMMA StepWriteOnce ==
    ASSUME IInv, [Next]_vars, NEW id \in Ids, file[id] # Missing
    PROVE  file'[id] = file[id]
<1>1. ASSUME NEW p \in Procs, Rename(p) PROVE file'[id] = file[id]
  <2>1. tmp[p] = Whole(job[p])
    BY <1>1 DEF IInv, TempOK, Rename, Goto
  <2>2. file[id] = Whole(id)
    BY DEF IInv, NeverTorn
  <2>3. file' = [file EXCEPT ![job[p]] = tmp[p]]
    BY <1>1 DEF Rename
  <2>4. QED
    BY <2>1, <2>2, <2>3 DEF IInv, TypeOK
<1>2. ASSUME NEW p \in Procs,
             (Step(p) /\ ~Rename(p)) \/ IOError(p) \/ Kill(p)
      PROVE  file' = file
  BY <1>2 DEF Step, Stat, CreateTemp, WriteChunk, RenameFails, Recheck,
              IOError, Kill
<1>3. QED
  BY <1>1, <1>2 DEF Next, vars

\* Thunk files are immutable (Write's "same content is never rewritten").
THEOREM ThunksImmutable == Spec => WriteOnce
<1>1. IInv /\ [Next]_vars
          => [\A id \in Ids : file[id] # Missing => file'[id] = file[id]]_vars
  BY StepWriteOnce
<1>2. QED
  BY <1>1, Invariance, PTL DEF Spec, WriteOnce

-----------------------------------------------------------------------------
Visible == {id \in Ids : file[id] = Whole(id)}

\* A rename publishes an id or rewrites the bytes that are already there;
\* every other step is invisible to the readers of the store.
LEMMA StepRefines ==
    ASSUME IInv, [Next]_vars
    PROVE  [Store!Next]_Visible
<1>1. ASSUME NEW p \in Procs, Rename(p)
      PROVE  Visible' = Visible \cup {job[p]} /\ job[p] \in Ids
  <2>1. tmp[p] = Whole(job[p]) /\ job[p] \in Ids
    BY <1>1 DEF IInv, TypeOK, TempOK, Rename, Goto
  <2>2. file' = [file EXCEPT ![job[p]] = tmp[p]]
    BY <1>1 DEF Rename
  <2>3. \A id \in Ids :
            file'[id] = Whole(id) <=> file[id] = Whole(id) \/ id = job[p]
    BY <2>1, <2>2 DEF IInv, TypeOK
  <2>4. QED
    BY <2>1, <2>3 DEF Visible, Whole
<1>2. ASSUME NEW p \in Procs,
             (Step(p) /\ ~Rename(p)) \/ IOError(p) \/ Kill(p)
      PROVE  Visible' = Visible
  BY <1>2 DEF Step, Stat, CreateTemp, WriteChunk, RenameFails, Recheck,
              IOError, Kill, Visible, Whole
<1>3. CASE UNCHANGED vars
  BY <1>3 DEF vars, Visible, Whole
<1>4. QED
  BY <1>1, <1>2, <1>3 DEF Next, Store!Next, Store!Publish, Visible

\* Writing with stat, temp file and rename implements a store whose entries
\* appear whole, in one step, and for ever.
THEOREM Refinement == Spec => StoreSpec
<1>1. Init => Store!Init
  BY MissingAssumption, WholeIsBody DEF Init, Store!Init
<1>2. IInv /\ [Next]_vars => [Store!Next]_Visible
  BY StepRefines
<1>3. QED
  BY <1>1, <1>2, Invariance, PTL DEF Spec, StoreSpec, Store!Spec, Visible
=============================================================================
