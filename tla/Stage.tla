-------------------------------- MODULE Stage --------------------------------
(***************************************************************************)
(* stage.Sources: the files a compile reads, hardlinked into               *)
(* .nixgg/srcs/<tu-id>/, which its expression names and Nix imports when   *)
(* the expression is evaluated.  A directory that already holds the right  *)
(* inodes under the right names is kept, any other is emptied and filled   *)
(* again.  The function is documented not to be called concurrently on one *)
(* tu-id and takes no lock.                                                *)
(***************************************************************************)
EXTENDS ScanCache

VARIABLES
    staged,     \* srcs/<tu-id>: the inode under each relative path
    todo        \* the files a shim has still to link

Under(root, f) == IsPrefix(root, f)
Outside == <<"..">>

\* Seeded fault: files are staged by their paths in the tree.
RelAbsolute(root, f) == IF Under(root, f) THEN f ELSE Outside

\* The path below a project root.
Rel(root, f) ==
    IF Under(root, f) THEN <<".">> \o SubSeq(f, Len(root) + 1, Len(f)) ELSE Outside

\* The key the tu-id is the hash of: the output's path below the project root
\* of its scan, or its absolute path.
TuKey(o, root) == IF Under(root, o) THEN Rel(root, o) ELSE o

TuOf(p) == TuKey(job[p], result[p].root)

\* The source and the headers, by their paths below the project root.
Needed(o, r) == {Source[o]} \cup r.headers
RelNeeded(o, r) == {Rel(r.root, f) : f \in Needed(o, r)}

\* The shim is gone, whatever way.
Leave(p) ==
    /\ Goto(p, "idle")
    /\ job' = [job EXCEPT ![p] = NoJob]
    /\ result' = [result EXCEPT ![p] = NoResult]
    /\ deps' = [deps EXCEPT ![p] = NoDeps]
    /\ todo' = [todo EXCEPT ![p] = {}]

HoldsInode(t, rel, i) == rel \in DOMAIN staged[t] /\ staged[t][rel] = i

\* reuseOK: every file is there under its own inode, and no other file is.
SameInodes(p) ==
    \A f \in Needed(job[p], result[p]) :
        Exists(f) /\ HoldsInode(TuOf(p), Rel(result[p].root, f), file[f])

SameNames(p) == DOMAIN staged[TuOf(p)] = RelNeeded(job[p], result[p])

ReuseOK(p) == SameInodes(p) /\ SameNames(p)

CheckReuse(p) ==
    /\ pc[p] = "stage"
    /\ Goto(p, IF ReuseOK(p) THEN "publish" ELSE "clear")
    /\ UNCHANGED <<treeVars, cacheVars, job, result, deps, staged, todo>>

Without(d, rel) == [r \in DOMAIN d \ {rel} |-> d[r]]

\* RemoveAll, one entry at a time; an empty directory is as good as none.
Clear(p) ==
    /\ pc[p] = "clear"
    /\ IF DOMAIN staged[TuOf(p)] = {}
       THEN /\ Goto(p, "link")
            /\ todo' = [todo EXCEPT ![p] = Needed(job[p], result[p])]
            /\ UNCHANGED staged
       ELSE /\ \E rel \in DOMAIN staged[TuOf(p)] :
                  staged' = [staged EXCEPT ![TuOf(p)] = Without(@, rel)]
            /\ UNCHANGED <<pc, todo>>
    /\ UNCHANGED <<treeVars, cacheVars, job, result, deps>>

With(d, rel, i) == [r \in DOMAIN d \cup {rel} |-> IF r = rel THEN i ELSE d[r]]

\* One os.Link; a path outside the project root is linked outside the directory.
LinkOne(p, f) ==
    LET rel == Rel(result[p].root, f)
    IN  /\ todo' = [todo EXCEPT ![p] = @ \ {f}]
        /\ staged' = IF rel = Outside THEN staged
                      ELSE [staged EXCEPT ![TuOf(p)] = With(@, rel, file[f])]
        /\ Goto(p, IF todo[p] = {f} THEN "publish" ELSE "link")
        /\ UNCHANGED <<job, result, deps>>

CanLink(p, f) ==
    Exists(f) /\ Rel(result[p].root, f) \notin DOMAIN staged[TuOf(p)]

\* A file that is gone or a name that is taken is an error of the shim.
Link(p) ==
    /\ pc[p] = "link"
    /\ \E f \in todo[p] :
           IF CanLink(p, f) THEN LinkOne(p, f) ELSE Leave(p) /\ UNCHANGED staged
    /\ UNCHANGED <<treeVars, cacheVars>>

StageStep(p) == CheckReuse(p) \/ Clear(p) \/ Link(p)

StagePCs == {"stage", "clear", "link"}

Rels == {<<".">> \o s : s \in UNION {Suffixes(f) : f \in Files \cup Outs}}
TuIds == Outs \cup Rels

StageTypeOK ==
    /\ DOMAIN staged = TuIds
    /\ \A t \in TuIds : /\ DOMAIN staged[t] \subseteq Rels
                         /\ staged[t] \in [DOMAIN staged[t] -> Inodes]
    /\ todo \in [Procs -> SUBSET Files]
=============================================================================
