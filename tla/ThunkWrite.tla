----------------------------- MODULE ThunkWrite -----------------------------
(***************************************************************************)
(* thunk.Write: concurrent shim processes (make -jN, one OS process per    *)
(* recipe line, no lock) persist expressions at .nixgg/thunks/<id>.nix.    *)
(*                                                                         *)
(* A process stats the destination, and only when it is missing creates a  *)
(* temp file of its own, writes the body in chunks, closes it and renames  *)
(* it over the destination.  Every system call is one step, every call may *)
(* fail, and a process may be killed between any two of them.              *)
(*                                                                         *)
(* A file's bytes are abstracted to how many of the body's Chunks it holds *)
(* and whose body it is: readers tell a whole expression from a torn one.  *)
(***************************************************************************)
EXTENDS Naturals

CONSTANTS
    Procs,      \* the shim processes; each runs one Write
    Ids,        \* thunk ids
    Chunks,     \* write(2) calls one body takes
    Missing     \* what there is at a path where no file is

Body == [of : Ids, len : 0 .. Chunks]

ASSUME ChunksAssumption == Chunks \in Nat \ {0}
ASSUME MissingAssumption == Missing \notin Body

Whole(id) == [of |-> id, len |-> Chunks]

VARIABLES
    file,       \* thunks/<id>.nix
    tmp,        \* the temp file each process created, if it still exists
    job,        \* the id each process was asked to write
    pc          \* where each process is in Write

vars == <<file, tmp, job, pc>>

Running == {"stat", "create", "write", "rename", "recheck"}
PCs == Running \cup {"done", "failed", "killed"}

TypeOK ==
    /\ file \in [Ids -> Body \cup {Missing}]
    /\ tmp \in [Procs -> Body \cup {Missing}]
    /\ job \in [Procs -> Ids]
    /\ pc \in [Procs -> PCs]

Init ==
    /\ file = [id \in Ids |-> Missing]
    /\ tmp = [p \in Procs |-> Missing]
    /\ job \in [Procs -> Ids]
    /\ pc = [p \in Procs |-> "stat"]

Goto(p, from, to) ==
    /\ pc[p] = from
    /\ pc' = [pc EXCEPT ![p] = to]

-----------------------------------------------------------------------------
\* os.Stat(dst): an existing file is never rewritten.
Stat(p) ==
    /\ Goto(p, "stat", IF file[job[p]] = Missing THEN "create" ELSE "done")
    /\ UNCHANGED <<file, tmp, job>>

\* os.CreateTemp: an empty file under a name no other process uses.
CreateTemp(p) ==
    /\ Goto(p, "create", "write")
    /\ tmp' = [tmp EXCEPT ![p] = [of |-> job[p], len |-> 0]]
    /\ UNCHANGED <<file, job>>

\* Seeded fault: the last chunk is written twice.
WriteChunkTooFar(p) ==
    /\ Goto(p, "write", IF tmp[p].len = Chunks THEN "rename" ELSE "write")
    /\ tmp' = [tmp EXCEPT ![p].len = @ + 1]
    /\ UNCHANGED <<file, job>>

\* One write(2) of WriteString; the last one is followed by Close.
WriteChunk(p) ==
    /\ Goto(p, "write", IF tmp[p].len + 1 = Chunks THEN "rename" ELSE "write")
    /\ tmp' = [tmp EXCEPT ![p].len = @ + 1]
    /\ UNCHANGED <<file, job>>

\* os.Rename replaces the destination in one step and consumes the temp.
Rename(p) ==
    /\ Goto(p, "rename", "done")
    /\ file' = [file EXCEPT ![job[p]] = tmp[p]]
    /\ tmp' = [tmp EXCEPT ![p] = Missing]
    /\ UNCHANGED job

\* Seeded fault: the destination is unlinked before the rename.
UnlinkThenRename(p) ==
    /\ Goto(p, "rename", "recheck")
    /\ file' = [file EXCEPT ![job[p]] = Missing]
    /\ UNCHANGED <<tmp, job>>

\* os.Rename fails: Write looks whether another writer got there first.
RenameFails(p) ==
    /\ Goto(p, "rename", "recheck")
    /\ UNCHANGED <<file, tmp, job>>

\* Seeded fault: a failed rename is always taken for a lost race.
RecheckBlind(p) ==
    /\ Goto(p, "recheck", "done")
    /\ tmp' = [tmp EXCEPT ![p] = Missing]
    /\ UNCHANGED <<file, job>>

\* Seeded fault: the temp file is removed on success only.
RecheckLitters(p) ==
    /\ Goto(p, "recheck", IF file[job[p]] = Missing THEN "failed" ELSE "done")
    /\ UNCHANGED <<file, tmp, job>>

\* Seeded fault: a failed rename is retried from the start.
RecheckRetries(p) ==
    /\ Goto(p, "recheck", IF file[job[p]] = Missing THEN "stat" ELSE "done")
    /\ tmp' = [tmp EXCEPT ![p] = Missing]
    /\ UNCHANGED <<file, job>>

\* The second Stat; the deferred os.Remove runs on both returns.
Recheck(p) ==
    /\ Goto(p, "recheck", IF file[job[p]] = Missing THEN "failed" ELSE "done")
    /\ tmp' = [tmp EXCEPT ![p] = Missing]
    /\ UNCHANGED <<file, job>>

\* Seeded fault: a short write goes unnoticed and the temp file is renamed.
IOErrorIgnored(p) ==
    /\ Goto(p, "write", "rename")
    /\ UNCHANGED <<file, tmp, job>>

\* MkdirAll, CreateTemp, WriteString or Close fails: the deferred os.Remove
\* takes the temp file away and the error is returned.
IOError(p) ==
    /\ pc[p] \in {"stat", "create", "write"}
    /\ pc' = [pc EXCEPT ![p] = "failed"]
    /\ tmp' = [tmp EXCEPT ![p] = Missing]
    /\ UNCHANGED <<file, job>>

\* The process is killed: nothing deferred runs, its temp file stays behind.
Kill(p) ==
    /\ pc[p] \in Running
    /\ pc' = [pc EXCEPT ![p] = "killed"]
    /\ UNCHANGED <<file, tmp, job>>

-----------------------------------------------------------------------------
Step(p) == \/ Stat(p) \/ CreateTemp(p) \/ WriteChunk(p)
           \/ Rename(p) \/ RenameFails(p) \/ Recheck(p)

Next == \E p \in Procs : Step(p) \/ IOError(p) \/ Kill(p)

Spec == Init /\ [][Next]_vars

\* The scheduler runs every live process; no system call is promised to work.
FairSpec == Spec /\ \A p \in Procs : WF_vars(Step(p))

-----------------------------------------------------------------------------
\* A thunk path that exists holds the whole expression its name is the hash
\* of, whatever writers race, fail or die: Write never exposes a torn file.
NeverTorn == \A id \in Ids : file[id] \in {Missing, Whole(id)}

\* A Write that returned nil left the expression behind, also when it skipped
\* the write or lost the rename to another process.
DoneIsVisible == \A p \in Procs : pc[p] = "done" => file[job[p]] = Whole(job[p])

\* Every return path of Write removes the temp file (only a kill leaves one),
\* so nothing accumulates in the directory force --roots lists.
NoLitter == \A p \in Procs : pc[p] \in {"done", "failed"} => tmp[p] = Missing

\* The inductive strengthening, CreateTemp to Rename: a process owns a temp
\* file only from its CreateTemp on, and one about to be renamed is complete
\* and is its owner's own.
TempOK ==
    \A p \in Procs :
        /\ pc[p] \in {"stat", "create"} => tmp[p] = Missing
        /\ tmp[p] # Missing => tmp[p].of = job[p]
        /\ pc[p] = "write" => tmp[p] # Missing /\ tmp[p].len < Chunks
        /\ pc[p] \in {"rename", "recheck"} => tmp[p] = Whole(job[p])

IInv == TypeOK /\ TempOK /\ NeverTorn /\ DoneIsVisible /\ NoLitter

\* Expressions are never changed or withdrawn: an id a consumer imported
\* keeps meaning the same build.
WriteOnce ==
    [][\A id \in Ids : file[id] # Missing => file'[id] = file[id]]_vars

\* Every Write ends: no path waits on another process.
Terminates == \A p \in Procs : <>(pc[p] \notin Running)

\* Writing by temp and rename implements the indivisible store.
Store == INSTANCE ContentStore WITH visible <- {id \in Ids : file[id] = Whole(id)}
StoreSpec == Store!Spec
=============================================================================
