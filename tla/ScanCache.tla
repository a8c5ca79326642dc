------------------------------ MODULE ScanCache ------------------------------
(***************************************************************************)
(* scan.Run: which headers a compile reads, memoised under .nixgg/scans/   *)
(* as <key>.out (the result) and <key>.deps (the files it was computed     *)
(* from, with their modification times).  The two files are renamed into   *)
(* place one after the other and no lock is taken; commands that differ    *)
(* only in their output share a key.                                       *)
(*                                                                         *)
(* A path is the sequence of its names.  A file is a path with an inode;   *)
(* bytes and times belong to inodes, because staging hardlinks them.  What *)
(* the preprocessor looks for is given by Lookups: for each content of the *)
(* source, the lists of places where an included file may be, in search    *)
(* order (of headers included by headers too).                             *)
(***************************************************************************)
EXTENDS Naturals, SequencesExt

CONSTANTS
    Procs,
    NoJob,      \* no command
    Files,      \* sources and headers, as absolute paths
    Inodes,
    Contents,   \* of sources; of a header only the time of its last edit counts
    Outs,       \* compile commands, each named by its output's absolute path
    Source,     \* the source of a command
    Cwd,        \* the directory a command runs in
    IncDirs,    \* its -I directories in the working tree
    Key,        \* its scan key: compiler, source as written, flags
    Lookups     \* Lookups[o][c]: the search lists when the source holds c

NoInode == 0
NoResult == [none |-> TRUE]
NoDeps == [f \in {} |-> 0]

ASSUME InodesAssumption == Inodes \subseteq Nat \ {NoInode}
ASSUME CommandsAssumption ==
    /\ Source \in [Outs -> Files]
    /\ Lookups \in [Outs -> [Contents -> SUBSET Seq(Files)]]
    /\ \A o \in Outs, c \in Contents : \A l \in Lookups[o][c] : IsInjective(l)
    /\ NoJob \notin Outs

\* Paths are absolute, each the sequence of its names.
Names == UNION {Range(s) : s \in Files \cup Outs \cup Range(Cwd) \cup UNION Range(IncDirs)}

ASSUME PathsAssumption ==
    /\ Files \cup Outs \subseteq Seq(Names)
    /\ Cwd \in [Outs -> Seq(Names)]
    /\ IncDirs \in [Outs -> SUBSET Seq(Names)]

\* The key holds neither the directory nor anything else that tells one -I
\* directory or source from another of the same name: recipes that share a key
\* are taken to run in one directory.
ASSUME KeyAssumption ==
    \A o, q \in Outs : Key[o] = Key[q] =>
        /\ Source[o] = Source[q] /\ Cwd[o] = Cwd[q]
        /\ IncDirs[o] = IncDirs[q] /\ Lookups[o] = Lookups[q]

VARIABLES
    file,       \* the working tree: the inode at each path
    data,       \* what an inode holds
    mtime,      \* when it was last written
    scanOut,    \* <key>.out
    scanDeps,   \* <key>.deps: the recorded times
    pc,         \* where each compile shim is
    job,        \* the command it runs
    result,     \* its scan result
    deps        \* what it is about to record in <key>.deps

treeVars == <<file, data, mtime>>
cacheVars == <<scanOut, scanDeps>>

Exists(f) == file[f] # NoInode
Dir(f) == Front(f)

-----------------------------------------------------------------------------
\* runScanner.  The preprocessor takes the first place of a list that exists;
\* -MG lets a file that is nowhere pass, and resolveDep drops it.
HeadersOf(o) ==
    {f \in Files :
        \E l \in Lookups[o][data[file[Source[o]]]] :
            \E i \in DOMAIN l : /\ l[i] = f /\ Exists(f)
                                /\ \A j \in 1..(i - 1) : ~Exists(l[j])}

\* The project root is the closest common ancestor of the current directory,
\* the source's, the -I directories and the directories of the headers.
RootOf(o, headers) ==
    LET dirs == {Dir(Source[o])} \cup IncDirs[o] \cup {Dir(h) : h \in headers}
        common == {d \in Prefixes(Cwd[o]) : \A e \in dirs : IsPrefix(d, e)}
    IN  CHOOSE root \in common : \A d \in common : Len(d) <= Len(root)

ScanOf(o) ==
    LET headers == HeadersOf(o)
    IN  [root |-> RootOf(o, headers), headers |-> headers]

\* Seeded fault: a recorded file that is gone does not count.
FreshIfGone(d) ==
    d # NoDeps /\ \A f \in DOMAIN d : Exists(f) => mtime[file[f]] = d[f]

\* depsStillFresh: every recorded file is there, with its recorded time.
Fresh(d) == d # NoDeps /\ \A f \in DOMAIN d : Exists(f) /\ mtime[file[f]] = d[f]

Goto(p, to) == pc' = [pc EXCEPT ![p] = to]

ReadDeps(p) ==
    /\ pc[p] = "deps"
    /\ Goto(p, IF Fresh(scanDeps[Key[job[p]]]) THEN "out" ELSE "scan")
    /\ UNCHANGED <<treeVars, cacheVars, job, result, deps>>

\* A hit: what .out holds is the result, whoever wrote it since.
ReadOut(p) ==
    /\ pc[p] = "out"
    /\ LET r == scanOut[Key[job[p]]]
       IN  IF r = NoResult
           THEN Goto(p, "scan") /\ UNCHANGED result
           ELSE Goto(p, "stage") /\ result' = [result EXCEPT ![p] = r]
    /\ UNCHANGED <<treeVars, cacheVars, job, deps>>

Scan(p) ==
    /\ pc[p] = "scan"
    /\ Goto(p, "stat")
    /\ result' = [result EXCEPT ![p] = ScanOf(job[p])]
    /\ UNCHANGED <<treeVars, cacheVars, job, deps>>

Times(S) == [f \in S |-> mtime[file[f]]]

\* Seeded fault: the source itself is not recorded.
StatDepsNoSource(p) ==
    /\ pc[p] = "stat"
    /\ Goto(p, "writeOut")
    /\ deps' = [deps EXCEPT ![p] = Times(result[p].headers)]
    /\ UNCHANGED <<treeVars, cacheVars, job, result>>

\* statOr: the times are taken after the scanner is done.
StatDeps(p) ==
    /\ pc[p] = "stat"
    /\ Goto(p, "writeOut")
    /\ deps' = [deps EXCEPT ![p] = Times({Source[job[p]]} \cup result[p].headers)]
    /\ UNCHANGED <<treeVars, cacheVars, job, result>>

WriteOut(p) ==
    /\ pc[p] = "writeOut"
    /\ Goto(p, "writeDeps")
    /\ scanOut' = [scanOut EXCEPT ![Key[job[p]]] = result[p]]
    /\ UNCHANGED <<treeVars, scanDeps, job, result, deps>>

WriteDeps(p) ==
    /\ pc[p] = "writeDeps"
    /\ Goto(p, "stage")
    /\ scanDeps' = [scanDeps EXCEPT ![Key[job[p]]] = deps[p]]
    /\ UNCHANGED <<treeVars, scanOut, job, result, deps>>

\* Failing to write the cache is no error; after .out, .deps is not tried.
WriteFails(p) ==
    /\ pc[p] \in {"writeOut", "writeDeps"}
    /\ Goto(p, "stage")
    /\ UNCHANGED <<treeVars, cacheVars, job, result, deps>>

ScanStep(p) ==
    \/ ReadDeps(p) \/ ReadOut(p) \/ Scan(p) \/ StatDeps(p)
    \/ WriteOut(p) \/ WriteDeps(p)

ScanPCs == {"deps", "out", "scan", "stat", "writeOut", "writeDeps"}

Keys == {Key[o] : o \in Outs}
Results == [root : {RootOf(o, h) : o \in Outs, h \in SUBSET Files},
            headers : SUBSET Files]

IsDeps(d) == DOMAIN d \subseteq Files /\ d \in [DOMAIN d -> Nat]

ScanTypeOK ==
    /\ file \in [Files -> Inodes \cup {NoInode}]
    /\ data \in [Inodes -> Contents]
    /\ mtime \in [Inodes -> Nat]
    /\ scanOut \in [Keys -> Results \cup {NoResult}]
    /\ DOMAIN scanDeps = Keys /\ \A k \in Keys : IsDeps(scanDeps[k])
    /\ job \in [Procs -> Outs \cup {NoJob}]
    /\ result \in [Procs -> Results \cup {NoResult}]
    /\ DOMAIN deps = Procs /\ \A p \in Procs : IsDeps(deps[p])
=============================================================================
