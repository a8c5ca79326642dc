---------------------------- MODULE BatchScript ----------------------------
(***************************************************************************)
(* The builder script of a combined archive: it starts one compile after   *)
(* the other in the background, never more than NIX_BUILD_CORES at once,   *)
(* waits for them oldest first, and archives the objects only if every     *)
(* compile succeeded.                                                      *)
(***************************************************************************)
EXTENDS Integers, Sequences, FiniteSets

CONSTANTS
    Members,        \* how many compiles the archive folds in
    CoreSettings    \* values of NIX_BUILD_CORES; below 1 for none or no number

ASSUME MembersAssumption == Members \in Nat
ASSUME CoresAssumption == CoreSettings \subseteq Int

VARIABLES
    cores,      \* NIX_BUILD_CORES
    pc,         \* where the shell is
    launched,   \* compiles started so far; the pid of the nth is n
    gg_pids,    \* pids not waited for, oldest first
    gg_fail,
    child,      \* what became of a compile
    archived    \* the compiles whose object ar found

vars == <<cores, pc, launched, gg_pids, gg_fail, child, archived>>

Indices == 1 .. Members

gg_maxPlusOne == IF cores >= 1 THEN cores + 1 ELSE 1

\* "$#" -ge "$gg_max" with anything but a number of at least 1 read as 1.
gg_max == IF cores >= 1 THEN cores ELSE 1

Init ==
    /\ cores \in CoreSettings
    /\ pc = "loop"
    /\ launched = 0
    /\ gg_pids = <<>>
    /\ gg_fail = FALSE
    /\ child = [i \in Indices |-> "unborn"]
    /\ archived = {}

LaunchPast ==
    /\ pc = "loop"
    /\ launched <= Members
    /\ launched' = launched + 1
    /\ child' = [child EXCEPT ![launched + 1] = "running"]
    /\ gg_pids' = Append(gg_pids, launched + 1)
    /\ pc' = "gg_after"
    /\ UNCHANGED <<cores, gg_fail, archived>>

\* (cd SrcStore && compile) &
Launch ==
    /\ pc = "loop"
    /\ launched < Members
    /\ launched' = launched + 1
    /\ child' = [child EXCEPT ![launched + 1] = "running"]
    /\ gg_pids' = Append(gg_pids, launched + 1)
    /\ pc' = "gg_after"
    /\ UNCHANGED <<cores, gg_fail, archived>>

WaitForgetful(pid) ==
    /\ child[pid] \in {"ok", "bad"}
    /\ gg_fail' = (child[pid] = "bad")
    /\ gg_pids' = Tail(gg_pids)
    /\ UNCHANGED <<cores, launched, child, archived>>

\* wait pid || gg_fail=1
Wait(pid) ==
    /\ child[pid] \in {"ok", "bad"}
    /\ gg_fail' = (gg_fail \/ child[pid] = "bad")
    /\ gg_pids' = Tail(gg_pids)
    /\ UNCHANGED <<cores, launched, child, archived>>

Continue ==
    /\ pc = "gg_after"
    /\ Len(gg_pids) < gg_max
    /\ pc' = "loop"
    /\ UNCHANGED <<cores, launched, gg_pids, gg_fail, child, archived>>

WaitOldest ==
    /\ pc = "gg_after"
    /\ Len(gg_pids) >= gg_max
    /\ Wait(Head(gg_pids))
    /\ pc' = "loop"

Drain ==
    /\ pc = "loop"
    /\ launched = Members
    /\ gg_pids # <<>>
    /\ Wait(Head(gg_pids))
    /\ UNCHANGED pc

\* [ "$gg_fail" -eq 0 ] || exit 1
Check ==
    /\ pc = "loop"
    /\ launched = Members
    /\ gg_pids = <<>>
    /\ pc' = IF gg_fail THEN "failed" ELSE "ar"
    /\ UNCHANGED <<cores, launched, gg_pids, gg_fail, child, archived>>

\* ar fails on an operand that does not exist; the shell exits with its status.
Ar ==
    /\ pc = "ar"
    /\ archived' = {i \in Indices : child[i] = "ok"}
    /\ pc' \in IF archived' = Indices THEN {"archived", "failed"} ELSE {"failed"}
    /\ UNCHANGED <<cores, launched, gg_pids, gg_fail, child>>

CompileEnds(i) ==
    /\ child[i] = "running"
    /\ \E s \in {"ok", "bad"} : child' = [child EXCEPT ![i] = s]
    /\ UNCHANGED <<cores, pc, launched, gg_pids, gg_fail, archived>>

Shell == Launch \/ Continue \/ WaitOldest \/ Drain \/ Check \/ Ar

Next == Shell \/ \E i \in Indices : CompileEnds(i)

Spec == Init /\ [][Next]_vars

-----------------------------------------------------------------------------
TypeOK ==
    /\ cores \in CoreSettings
    /\ pc \in {"loop", "gg_after", "ar", "archived", "failed"}
    /\ launched \in 0 .. Members
    /\ gg_pids \in Seq(Indices)
    /\ gg_fail \in BOOLEAN
    /\ child \in [Indices -> {"unborn", "running", "ok", "bad"}]
    /\ archived \subseteq Indices

\* Why it works: the pids not waited for are those of the last compiles, fewer
\* than the cores whenever a compile is started; every earlier compile succeeded
\* or is remembered in gg_fail.
IInv ==
    /\ TypeOK
    /\ Len(gg_pids) <= launched
    /\ \A j \in 1 .. Len(gg_pids) : gg_pids[j] = launched - Len(gg_pids) + j
    /\ \A i \in Indices : i > launched => child[i] = "unborn"
    /\ \A i \in Indices : i <= launched - Len(gg_pids) =>
            child[i] = "ok" \/ (child[i] = "bad" /\ gg_fail)
    /\ Len(gg_pids) <= gg_max
    /\ pc = "loop" => Len(gg_pids) < gg_max
    /\ pc \in {"ar", "archived"} =>
            launched = Members /\ Len(gg_pids) = 0 /\ ~gg_fail

RunningJobs == {i \in Indices : child[i] = "running"}

\* Folding compiles into one derivation takes their scheduling from the daemon:
\* the script itself never has more compilers than cores, or than one.
NeverTooMany == Cardinality(RunningJobs) <= 1 \/ Cardinality(RunningJobs) <= cores

\* A compile that failed while the shell was waiting for another one, or long
\* before it was waited for, still fails the derivation: ar never runs on a
\* partial set, nor before the last compile has ended.
NoFailureLost == pc \in {"ar", "archived"} => \A i \in Indices : child[i] = "ok"

=============================================================================
