------------------------------- MODULE Compile -------------------------------
(***************************************************************************)
(* The compile shim, from the scan of its source to the expression it      *)
(* publishes, run by make next to other compiles while the user edits the  *)
(* sources.  NativeBuild takes up where this module ends: what is one      *)
(* Publish step here are the steps of thunk.Write, LinkPlaceholder and     *)
(* RecordSymlink there.                                                    *)
(*                                                                         *)
(* The expression does not hold the sources, it names the staging          *)
(* directory: what is compiled is what that directory holds when the       *)
(* expression is built, some time after the shim is gone.                  *)
(***************************************************************************)
EXTENDS Stage

CONSTANTS
    UnpackedFile, UnpackedData,     \* the tree make starts from
    Versions,   \* the contents an edit may give a file
    Created,    \* the files that may come (back) into being
    Edited,     \* bound: the files edits touch
    MaxClock,   \* bound: edits
    MaxJobs,    \* bound: compiles
    MaxFaults   \* bound: failures and kills

ASSUME UnpackedAssumption ==
    /\ UnpackedFile \in [Files -> Inodes] /\ IsInjective(UnpackedFile)
    /\ UnpackedData \in [Inodes -> Contents]
    /\ Versions \in [Files -> SUBSET Contents]
    /\ {Created, Edited} \subseteq SUBSET Files
    /\ {MaxClock, MaxJobs, MaxFaults} \subseteq Nat

VARIABLES
    expr,       \* the expression last published at an output: source, directory
    settled,    \* observed: commands that are done and whose files are unedited
    clock, jobs, faults

procVars == <<pc, job, result, deps, todo>>
vars == <<treeVars, cacheVars, procVars, staged, expr, settled, clock, jobs, faults>>

NoExpr == [none |-> TRUE]

\* Every place a command may look at.
Reads(o) ==
    {Source[o]} \cup
    UNION {{l[i] : i \in DOMAIN l} : l \in UNION {Lookups[o][c] : c \in Contents}}

\* A project is unpacked: files of one age, nothing scanned or staged.
Init ==
    /\ file = UnpackedFile
    /\ data = UnpackedData
    /\ mtime = [i \in Inodes |-> 0]
    /\ scanOut = [k \in Keys |-> NoResult]
    /\ scanDeps = [k \in Keys |-> NoDeps]
    /\ staged = [t \in TuIds |-> NoDeps]
    /\ pc = [p \in Procs |-> "idle"]
    /\ job = [p \in Procs |-> NoJob]
    /\ result = [p \in Procs |-> NoResult]
    /\ deps = [p \in Procs |-> NoDeps]
    /\ todo = [p \in Procs |-> {}]
    /\ expr = [o \in Outs |-> NoExpr]
    /\ settled = {}
    /\ clock = 0 /\ jobs = 0 /\ faults = 0

-----------------------------------------------------------------------------
\* make never runs two recipes of one target.
Start(p, o) ==
    /\ pc[p] = "idle" /\ jobs < MaxJobs
    /\ Exists(Source[o]) /\ \A q \in Procs : job[q] # o
    /\ Goto(p, "deps")
    /\ job' = [job EXCEPT ![p] = o]
    /\ settled' = settled \ {o}
    /\ jobs' = jobs + 1
    /\ UNCHANGED <<treeVars, cacheVars, result, deps, todo, staged, expr, clock, faults>>

Scanning(p) == ScanStep(p) /\ UNCHANGED <<todo, staged, expr, settled, clock, jobs, faults>>

Staging(p) == StageStep(p) /\ UNCHANGED <<expr, settled, clock, jobs, faults>>

Publish(p) ==
    /\ pc[p] = "publish"
    /\ expr' = [expr EXCEPT ![job[p]] =
                   [source |-> Rel(result[p].root, Source[job[p]]), dir |-> TuOf(p)]]
    /\ settled' = settled \cup {job[p]}
    /\ Leave(p)
    /\ UNCHANGED <<treeVars, cacheVars, staged, clock, jobs, faults>>

Fault == faults < MaxFaults /\ faults' = faults + 1

CacheWriteFails(p) ==
    /\ WriteFails(p) /\ Fault
    /\ UNCHANGED <<todo, staged, expr, settled, clock, jobs>>

\* An error the shim returns, or a kill.
Stop(p) ==
    /\ pc[p] # "idle" /\ Leave(p) /\ Fault
    /\ UNCHANGED <<treeVars, cacheVars, staged, expr, settled, clock, jobs>>

-----------------------------------------------------------------------------
\* The user, and the tools that write sources, edit what no running compile
\* may look at.  Times only grow, and no edit gives a file back an old one.
Quiet(f) == \A p \in Procs : pc[p] # "idle" => f \notin Reads(job[p])

Touch(f) ==
    /\ f \in Edited /\ Quiet(f) /\ clock < MaxClock
    /\ clock' = clock + 1
    /\ settled' = {o \in settled : f \notin Reads(o)}
    /\ UNCHANGED <<cacheVars, procVars, staged, expr, jobs, faults>>

\* In place: the staged hardlinks see the new bytes.
EditInPlace(f) ==
    /\ Exists(f) /\ Touch(f)
    /\ \E c \in Versions[f] : data' = [data EXCEPT ![file[f]] = c]
    /\ mtime' = [mtime EXCEPT ![file[f]] = clock']
    /\ UNCHANGED file

\* An inode is free, and is given out again, once no name is left for it.
Free == {i \in Inodes : /\ \A f \in Files : file[f] # i
                        /\ \A t \in TuIds : \A rel \in DOMAIN staged[t] : staged[t][rel] # i}

PutNew(f) ==
    \E c \in Versions[f], i \in Free :
        /\ \A j \in Free : i <= j
        /\ file' = [file EXCEPT ![f] = i]
        /\ data' = [data EXCEPT ![i] = c]
        /\ mtime' = [mtime EXCEPT ![i] = clock']

\* Write and rename: the staged hardlinks keep the old bytes.
EditByRename(f) == Exists(f) /\ Touch(f) /\ PutNew(f)

CreateFile(f) == f \in Created /\ ~Exists(f) /\ Touch(f) /\ PutNew(f)

DeleteFile(f) ==
    /\ Exists(f) /\ Touch(f)
    /\ file' = [file EXCEPT ![f] = NoInode]
    /\ UNCHANGED <<data, mtime>>

Next ==
    \/ \E p \in Procs : \/ Scanning(p) \/ Staging(p) \/ Publish(p)
                        \/ CacheWriteFails(p) \/ Stop(p)
    \/ \E p \in Procs, o \in Outs : Start(p, o)
    \/ \E f \in Files : \/ EditInPlace(f) \/ EditByRename(f)
                         \/ CreateFile(f) \/ DeleteFile(f)

Spec == Init /\ [][Next]_vars

-----------------------------------------------------------------------------
TypeOK ==
    /\ ScanTypeOK /\ StageTypeOK
    /\ pc \in [Procs -> ScanPCs \cup StagePCs \cup {"idle", "publish"}]
    /\ \A p \in Procs : pc[p] # "idle" <=> job[p] # NoJob
    /\ expr \in [Outs -> [source : Rels \cup {Outside}, dir : TuIds] \cup {NoExpr}]
    /\ settled \subseteq Outs
    /\ clock \in Nat /\ jobs \in Nat /\ faults \in Nat

\* A .deps whose files are all as recorded vouches for a .out that is what a
\* scan would find now, between any two steps of any number of writers: the
\* next compile may take it without scanning.
CacheSound ==
    \A o \in Outs :
        Exists(Source[o]) /\ Fresh(scanDeps[Key[o]]) => scanOut[Key[o]] = ScanOf(o)

\* What a compile goes on with, hit or scan, is what its sources are: headers
\* that are new, gone or found elsewhere since the entry was made included.
ResultIsCurrent ==
    \A p \in Procs :
        pc[p] \in StagePCs \cup {"stat", "writeOut", "writeDeps", "publish"}
            => result[p] = ScanOf(job[p])

\* From the end of a compile to the next edit of its files, whatever other
\* compiles do or leave undone, the directory its expression names holds its
\* source and headers as they are in the tree and nothing else, and the
\* expression names the source in it: that is what Nix will build.
BuildsOwnSources ==
    \A o \in settled :
        LET r == ScanOf(o)
        IN  /\ expr[o].source = Rel(r.root, Source[o])
            /\ DOMAIN staged[expr[o].dir] = RelNeeded(o, r)
            /\ \A f \in Needed(o, r) :
                   staged[expr[o].dir][Rel(r.root, f)] = file[f]

-----------------------------------------------------------------------------
\* What CacheSound and ResultIsCurrent take for granted: a file that a source
\* may look for does not come into being; .deps has no line for a place where a
\* file was looked for in vain.
Unsought(f) == \A o \in Outs, c \in Contents : \A l \in Lookups[o][c] :
                   \A i \in DOMAIN l : l[i] # f
NoNewHeaders == \A f \in Created : Unsought(f)

\* What BuildsOwnSources takes for granted: whatever headers are found, no two
\* outputs are staged under one tu-id.
TuKeys(o) == {TuKey(o, RootOf(o, h)) : h \in SUBSET Files}
DistinctTus == \A o, q \in Outs : o # q => TuKeys(o) \cap TuKeys(q) = {}

\* The part of the state that makes the cache sound is inductive.
CacheTypeOK ==
    /\ file \in [Files -> Inodes \cup {NoInode}]
    /\ data \in [Inodes -> Contents]
    /\ mtime \in [Inodes -> Nat]
    /\ DOMAIN scanOut = Keys
    /\ DOMAIN scanDeps = Keys
    /\ \A k \in Keys : IsDeps(scanDeps[k])
    /\ pc \in [Procs -> ScanPCs \cup StagePCs \cup {"idle", "publish"}]
    /\ job \in [Procs -> Outs \cup {NoJob}]
    /\ \A p \in Procs : pc[p] # "idle" => job[p] \in Outs
    /\ DOMAIN result = Procs
    /\ DOMAIN deps = Procs
    /\ \A p \in Procs : IsDeps(deps[p])
    /\ clock \in Nat

\* No two paths of the tree share an inode.
TreeInjective ==
    \A f, g \in Files : Exists(f) /\ file[f] = file[g] => f = g

\* No recorded time lies in the future.
TimesOK ==
    /\ \A k \in Keys : \A f \in DOMAIN scanDeps[k] : scanDeps[k][f] <= clock
    /\ \A p \in Procs : \A f \in DOMAIN deps[p] : deps[p][f] <= clock
    /\ \A i \in Inodes : mtime[i] <= clock

\* A .deps names the source of every command that shares its key.
SourceRecorded ==
    \A o \in Outs :
        scanDeps[Key[o]] # NoDeps => Source[o] \in DOMAIN scanDeps[Key[o]]

\* A fresh .deps names the files that make the result what it is.
CoversScan ==
    \A o \in Outs :
        Exists(Source[o]) /\ Fresh(scanDeps[Key[o]])
            => DOMAIN scanDeps[Key[o]] = Needed(o, ScanOf(o))

\* A running compile's source is there; what it has found, what it is about to
\* record and what it has written are current.
WriterOK(p) ==
    /\ pc[p] # "idle" => Exists(Source[job[p]])
    /\ pc[p] = "out" => Fresh(scanDeps[Key[job[p]]])
    /\ pc[p] \in {"writeOut", "writeDeps"}
           => deps[p] = Times(Needed(job[p], ScanOf(job[p])))
    /\ pc[p] = "writeDeps" => scanOut[Key[job[p]]] = ScanOf(job[p])

WritersOK == \A p \in Procs : WriterOK(p)

IInv == /\ CacheTypeOK /\ TreeInjective /\ TimesOK
        /\ SourceRecorded /\ CoversScan /\ WritersOK
        /\ CacheSound /\ ResultIsCurrent
=============================================================================
