-------------------------- MODULE BatchScriptProofs --------------------------
(***************************************************************************)
(* For any number of compiles and any NIX_BUILD_CORES: the script of a     *)
(* combined archive keeps to its cores and runs ar only on a whole set.    *)
(*                                                                         *)
(* The argument is IInv of BatchScript: the pids in gg_pids are those of   *)
(* the last compiles started, so what has been waited for is an initial    *)
(* segment, all of it successful unless gg_fail says otherwise.            *)
(***************************************************************************)
EXTENDS BatchScript, FiniteSetTheorems, TLAPS

\* The number of compiles the script runs at once is a positive number.
LEMMA CoresType == ASSUME TypeOK PROVE gg_max \in Nat /\ gg_max >= 1
  BY CoresAssumption DEF TypeOK, gg_max

\* The script starts with nothing running and nothing failed.
LEMMA InitIInv == Init => IInv
<1> SUFFICES ASSUME Init PROVE IInv
  OBVIOUS
<1>1. TypeOK
  <2>1. gg_pids \in Seq(Indices)
    BY DEF Init
  <2>2. child \in [Indices -> {"unborn", "running", "ok", "bad"}]
    BY DEF Init
  <2>3. launched \in 0 .. Members
    BY MembersAssumption DEF Init
  <2>4. /\ cores \in CoreSettings /\ archived \subseteq Indices /\ gg_fail \in BOOLEAN
        /\ pc \in {"loop", "gg_after", "ar", "archived", "failed"}
    BY Zenon DEF Init
  <2>5. QED
    BY <2>1, <2>2, <2>3, <2>4 DEF TypeOK
<1>2. Len(gg_pids) = 0
  BY DEF Init
<1>3. gg_max \in Nat /\ gg_max >= 1
  BY <1>1, CoresType
<1>4. \A i \in Indices : child[i] = "unborn" /\ i > 0
  BY DEF Init, Indices
<1>5. launched = 0 /\ pc = "loop"
  BY DEF Init
<1>6. QED
  BY <1>1, <1>2, <1>3, <1>4, <1>5, MembersAssumption DEF IInv, Indices

\* A compile is started: one more pid, at the end.
LEMMA LaunchIInv == IInv /\ Launch => IInv'
<1> SUFFICES ASSUME IInv, Launch PROVE IInv'
  OBVIOUS
<1> USE MembersAssumption DEF Indices
<1>1. launched + 1 \in Indices /\ launched \in 0 .. Members
  BY DEF IInv, TypeOK, Launch
<1>2. /\ gg_pids' = Append(gg_pids, launched + 1)
      /\ gg_pids' \in Seq(Indices)
      /\ Len(gg_pids') = Len(gg_pids) + 1
  BY <1>1 DEF IInv, TypeOK, Launch
<1>3. TypeOK'
  BY <1>1, <1>2 DEF IInv, TypeOK, Launch
<1>4. gg_max' = gg_max /\ gg_max \in Nat
  BY CoresType DEF gg_max, Launch, IInv
<1>5. \A j \in 1 .. Len(gg_pids') : gg_pids'[j] = launched' - Len(gg_pids') + j
  BY <1>1, <1>2 DEF IInv, TypeOK, Launch
<1>6. /\ \A i \in Indices : i > launched' => child'[i] = "unborn"
      /\ \A i \in Indices : i <= launched' - Len(gg_pids') =>
              child'[i] = "ok" \/ (child'[i] = "bad" /\ gg_fail')
  BY <1>1, <1>2 DEF IInv, TypeOK, Launch
<1>7. Len(gg_pids) < gg_max /\ Len(gg_pids) <= launched /\ Len(gg_pids) \in Nat
  BY DEF IInv, TypeOK, Launch
<1>8. launched' = launched + 1 /\ pc' = "gg_after"
  BY DEF Launch
<1>9. QED
  BY <1>1, <1>2, <1>3, <1>4, <1>5, <1>6, <1>7, <1>8 DEF IInv

\* The oldest compile is waited for: its failure is remembered.
LEMMA WaitIInv ==
    ASSUME IInv, gg_pids # <<>>, Wait(Head(gg_pids)), UNCHANGED pc \/ pc' = "loop",
           pc \in {"loop", "gg_after"}
    PROVE  IInv'
<1> USE MembersAssumption DEF Indices
<1> DEFINE n == Len(gg_pids)
<1>1. n \in Nat /\ n >= 1 /\ gg_pids \in Seq(Indices)
  BY DEF IInv, TypeOK
<1>2. /\ gg_pids' = Tail(gg_pids) /\ gg_pids' \in Seq(Indices)
      /\ Len(gg_pids') = n - 1
      /\ \A j \in 1 .. n - 1 : gg_pids'[j] = gg_pids[j + 1]
  BY <1>1 DEF Wait
<1>3. Head(gg_pids) = launched - n + 1 /\ Head(gg_pids) \in Indices
  BY <1>1 DEF IInv, TypeOK
<1>4. TypeOK'
  BY <1>2, <1>3 DEF IInv, TypeOK, Wait
<1>5. gg_max' = gg_max /\ gg_max \in Nat
  BY CoresType DEF gg_max, Wait, IInv
<1>6. \A j \in 1 .. Len(gg_pids') : gg_pids'[j] = launched' - Len(gg_pids') + j
  BY <1>1, <1>2 DEF IInv, TypeOK, Wait
<1>7. ASSUME NEW i \in Indices, i <= launched' - Len(gg_pids')
      PROVE  child'[i] = "ok" \/ (child'[i] = "bad" /\ gg_fail')
  <2>1. CASE i <= launched - n
    BY <1>1, <2>1 DEF IInv, TypeOK, Wait
  <2>2. CASE i = Head(gg_pids)
    BY <2>2 DEF Wait
  <2>3. i <= launched - n \/ i = Head(gg_pids)
    BY <1>1, <1>2, <1>3, <1>7 DEF IInv, TypeOK, Wait
  <2>4. QED
    BY <2>1, <2>2, <2>3
<1>8. Len(gg_pids') < gg_max'
  BY <1>1, <1>2, <1>5 DEF IInv
<1>9. QED
  BY <1>1, <1>2, <1>4, <1>5, <1>6, <1>7, <1>8 DEF IInv, TypeOK, Wait

\* No step of the script or of a compile takes the invariant away.
LEMMA StepIInv == IInv /\ [Next]_vars => IInv'
<1> SUFFICES ASSUME IInv, [Next]_vars PROVE IInv'
  OBVIOUS
<1>1. CASE Launch
  BY <1>1, LaunchIInv
<1>2. CASE Continue
  BY <1>2, CoresType DEF Continue, IInv, TypeOK, gg_max
<1>3. CASE WaitOldest
  <2>1. gg_pids # <<>>
    BY <1>3, CoresType DEF WaitOldest, IInv, TypeOK
  <2>2. QED
    BY <1>3, <2>1, WaitIInv DEF WaitOldest
<1>4. CASE Drain
  BY <1>4, WaitIInv DEF Drain
<1>5. CASE Check
  BY <1>5 DEF Check, IInv, TypeOK, gg_max
<1>6. CASE Ar
  BY <1>6 DEF Ar, IInv, TypeOK, gg_max
<1>7. ASSUME NEW i \in Indices, CompileEnds(i) PROVE IInv'
  <2>1. PICK s \in {"ok", "bad"} : child' = [child EXCEPT ![i] = s]
    BY <1>7 DEF CompileEnds
  <2>2. /\ child[i] = "running"
        /\ UNCHANGED <<cores, pc, launched, gg_pids, gg_fail, archived>>
    BY <1>7 DEF CompileEnds
  <2>3. child \in [Indices -> {"unborn", "running", "ok", "bad"}]
    BY DEF IInv, TypeOK
  <2>4. \A k \in Indices : child'[k] = child[k] \/ k = i
    BY <2>1, <2>3
  <2>5. TypeOK'
    BY <2>1, <2>2, <2>3 DEF IInv, TypeOK
  <2>6. QED
    BY <2>2, <2>4, <2>5 DEF IInv, gg_max
<1>8. CASE UNCHANGED vars
  BY <1>8 DEF vars, IInv, TypeOK, gg_max
<1>9. QED
  BY <1>1, <1>2, <1>3, <1>4, <1>5, <1>6, <1>7, <1>8 DEF Next, Shell

\* The invariant the other two follow from.
THEOREM Invariance == Spec => []IInv
  BY InitIInv, StepIInv, PTL DEF Spec

\* Running compiles have not been waited for, so they are among the last
\* gg_max ones.
LEMMA FewRunning == ASSUME IInv PROVE NeverTooMany
<1> DEFINE n == Len(gg_pids)
           window == (launched - n + 1) .. launched
<1>1. n \in Nat /\ launched \in Nat /\ n <= launched /\ n <= gg_max
  BY MembersAssumption DEF IInv, TypeOK
<1>2. RunningJobs \in SUBSET window
  BY <1>1, MembersAssumption DEF RunningJobs, Indices, IInv, TypeOK
<1>3. IsFiniteSet(window) /\ Cardinality(window) = n
  <2>1. launched - n + 1 \in Int /\ launched \in Int
    BY <1>1
  <2>2. /\ IsFiniteSet(window)
        /\ Cardinality(window) = IF launched - n + 1 > launched THEN 0
                                 ELSE launched - (launched - n + 1) + 1
    BY <2>1, FS_Interval
  <2>3. (IF launched - n + 1 > launched THEN 0 ELSE launched - (launched - n + 1) + 1) = n
    BY <1>1
  <2>4. QED
    BY <2>2, <2>3
<1>4. Cardinality(RunningJobs) <= n /\ Cardinality(RunningJobs) \in Nat
  BY <1>2, <1>3, FS_Subset, FS_CardinalityType
<1>5. cores \in Int /\ (gg_max = cores \/ gg_max = 1)
  BY CoresAssumption DEF gg_max, IInv, TypeOK
<1>6. QED
  BY <1>1, <1>4, <1>5 DEF NeverTooMany

\* At no moment does the derivation run more compilers than NIX_BUILD_CORES
\* (or than one, when it is unset, zero or no number).
THEOREM Bounded == Spec => []NeverTooMany
  BY Invariance, FewRunning, PTL

\* ar runs only after every compile has ended well.
THEOREM AllOrNothing == Spec => []NoFailureLost
<1>1. IInv => NoFailureLost
  BY MembersAssumption DEF IInv, TypeOK, NoFailureLost, Indices
<1>2. QED
  BY <1>1, Invariance, PTL
=============================================================================
