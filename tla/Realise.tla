------------------------------- MODULE Realise -------------------------------
(***************************************************************************)
(* realise.Realise, run by `nixgg force`, by a link shim under             *)
(* NIXGG_AUTOFORCE=1 and before a passthrough: collect the thunks below a  *)
(* root, build them in one `nix build`, then turn the target and every     *)
(* path in the manifests of those thunks into a copy of the store output.  *)
(*                                                                         *)
(* The actions are those of one process p; NativeBuild schedules them next *)
(* to the shims.  A process that is realising is in one of RealisePCs.     *)
(***************************************************************************)
EXTENDS Workspace

CONSTANT Procs

VARIABLES
    pc,         \* where each process is
    cur,        \* the thunk being promoted; while collecting, the root
    names,      \* the paths still to promote for cur; the target first
    stack,      \* imports CollectThunks has still to visit
    queue,      \* thunks whose manifests are still to be promoted, root first
    direct,     \* the target is being promoted, not a line of a manifest
    fh          \* the promoted record p has open is still the file at its path

realiseVars == <<cur, names, stack, queue, direct, fh>>

Promotion == {"unlink", "rename", "truncate", "record"}
RealisePCs == {"collect", "promote"} \cup Promotion

RealiseTypeOK ==
    /\ cur \in [Procs -> Ids \cup {NoId}]
    /\ names \in [Procs -> Seq(Paths)]
    /\ stack \in [Procs -> Seq(Ids)]
    /\ queue \in [Procs -> Seq(Ids)]
    /\ direct \in [Procs -> BOOLEAN]
    /\ fh \in [Procs -> BOOLEAN]

RealiseInit ==
    /\ cur = [p \in Procs |-> NoId]
    /\ names = [p \in Procs |-> <<>>]
    /\ stack = [p \in Procs |-> <<>>]
    /\ queue = [p \in Procs |-> <<>>]
    /\ direct = [p \in Procs |-> FALSE]
    /\ fh = [p \in Procs |-> FALSE]

Goto(p, to) == pc' = [pc EXCEPT ![p] = to]

\* Realise(root, target): the target is promoted first, then every manifest.
StartRealise(p, root, target) ==
    /\ Goto(p, "collect")
    /\ cur' = [cur EXCEPT ![p] = root]
    /\ names' = [names EXCEPT ![p] = <<target>>]
    /\ stack' = [stack EXCEPT ![p] = Imports[root]]
    /\ queue' = [queue EXCEPT ![p] = <<root>>]
    /\ direct' = [direct EXCEPT ![p] = TRUE]
    /\ UNCHANGED fh

\* realiseAndLink: no children to collect and no manifest to promote.
StartRealiseAlone(p, root, target) ==
    /\ Goto(p, "collect")
    /\ cur' = [cur EXCEPT ![p] = root]
    /\ names' = [names EXCEPT ![p] = <<target>>]
    /\ direct' = [direct EXCEPT ![p] = TRUE]
    /\ UNCHANGED <<stack, queue, fh>>

\* Seeded fault: the imports of an import are not followed.
CollectShallow(p) ==
    /\ pc[p] = "collect" /\ stack[p] # <<>>
    /\ queue' = [queue EXCEPT ![p] = Append(@, Head(stack[p]))]
    /\ stack' = [stack EXCEPT ![p] = Tail(@)]
    /\ UNCHANGED <<fileVars, pc, cur, names, direct, fh>>

\* CollectThunks, one import: depth first, each thunk once, missing ones not.
Collect(p) ==
    /\ pc[p] = "collect" /\ stack[p] # <<>>
    /\ LET t == Head(stack[p])
           visited == {cur[p]} \cup {queue[p][i] : i \in DOMAIN queue[p]}
       IN  IF t \in thunks \ visited
           THEN /\ queue' = [queue EXCEPT ![p] = Append(@, t)]
                /\ stack' = [stack EXCEPT ![p] = Imports[t] \o Tail(@)]
           ELSE /\ stack' = [stack EXCEPT ![p] = Tail(@)]
                /\ UNCHANGED queue
    /\ UNCHANGED <<fileVars, pc, cur, names, direct, fh>>

\* nixBuildAttrs succeeds: promote the target, whatever is at its path.
Build(p) ==
    /\ pc[p] = "collect" /\ stack[p] = <<>>
    /\ Goto(p, "unlink")
    /\ UNCHANGED <<fileVars, realiseVars>>

\* Seeded fault: only the manifest of the root is read.
OpenManifestOfRoot(p) ==
    /\ pc[p] = "promote" /\ names[p] = <<>> /\ queue[p] # <<>>
    /\ cur' = [cur EXCEPT ![p] = Head(queue[p])]
    /\ names' = [names EXCEPT ![p] = manifest[Head(queue[p])]]
    /\ queue' = [queue EXCEPT ![p] = <<>>]
    /\ UNCHANGED <<fileVars, pc, stack, direct, fh>>

\* Seeded fault: the thunk is not taken off the list.
OpenManifestAgain(p) ==
    /\ pc[p] = "promote" /\ names[p] = <<>> /\ queue[p] # <<>>
    /\ cur' = [cur EXCEPT ![p] = Head(queue[p])]
    /\ names' = [names EXCEPT ![p] = manifest[Head(queue[p])]]
    /\ UNCHANGED <<fileVars, pc, stack, queue, direct, fh>>

\* promoteManifest opens the manifest of the next thunk and reads it at once.
OpenManifest(p) ==
    /\ pc[p] = "promote" /\ names[p] = <<>> /\ queue[p] # <<>>
    /\ cur' = [cur EXCEPT ![p] = Head(queue[p])]
    /\ names' = [names EXCEPT ![p] = manifest[Head(queue[p])]]
    /\ queue' = [queue EXCEPT ![p] = Tail(@)]
    /\ UNCHANGED <<fileVars, pc, stack, direct, fh>>

\* promoteManifest, one line: Lstat decides, and it only asks for existence.
NextLine(p) ==
    /\ pc[p] = "promote" /\ names[p] # <<>>
    /\ IF Exists(Head(names[p]))
       THEN Goto(p, "unlink") /\ UNCHANGED names
       ELSE names' = [names EXCEPT ![p] = Tail(@)] /\ UNCHANGED pc
    /\ UNCHANGED <<fileVars, cur, stack, queue, direct, fh>>

\* copyThroughRename: the copy is ready beside the target; os.Remove(target).
Unlink(p) ==
    /\ pc[p] = "unlink"
    /\ Goto(p, "rename")
    /\ Put(Head(names[p]), Absent)
    /\ UNCHANGED <<thunks, manifest, promoted, latest, realiseVars>>

\* copyThroughRename: os.Rename(copy, target).
Rename(p) ==
    /\ pc[p] = "rename"
    /\ Goto(p, "truncate")
    /\ Put(Head(names[p]), File(cur[p]))
    /\ latest' = IF direct[p] /\ queue[p] = <<>>     \* realiseAndLink publishes
                 THEN [latest EXCEPT ![Head(names[p])] = cur[p]]
                 ELSE latest
    /\ UNCHANGED <<thunks, manifest, promoted, realiseVars>>

\* RecordPromoted: os.WriteFile opens with O_CREATE and O_TRUNC...
Truncate(p) ==
    /\ pc[p] = "truncate"
    /\ Goto(p, "record")
    /\ promoted' = [promoted EXCEPT ![Head(names[p])] = NoId]
    /\ fh' = [fh EXCEPT ![p] = TRUE]
    /\ UNCHANGED <<tree, thunks, manifest, latest, cur, names, stack, queue, direct>>

\* Seeded fault: the id of the next thunk is recorded.
RecordOffByOne(p) ==
    /\ pc[p] = "record"
    /\ Goto(p, "promote")
    /\ promoted' = [promoted EXCEPT ![Head(names[p])] =
                        IF queue[p] = <<>> THEN cur[p] ELSE Head(queue[p])]
    /\ names' = [names EXCEPT ![p] = Tail(@)]
    /\ direct' = [direct EXCEPT ![p] = FALSE]
    /\ fh' = [fh EXCEPT ![p] = FALSE]
    /\ UNCHANGED <<tree, thunks, manifest, latest, cur, stack, queue>>

\* ...and then writes, to an unlinked file if a shim removed the record since.
Record(p) ==
    /\ pc[p] = "record"
    /\ Goto(p, "promote")
    /\ promoted' = IF fh[p]
                   THEN [promoted EXCEPT ![Head(names[p])] = cur[p]]
                   ELSE promoted
    /\ names' = [names EXCEPT ![p] = Tail(@)]
    /\ direct' = [direct EXCEPT ![p] = FALSE]
    /\ fh' = [fh EXCEPT ![p] = FALSE]
    /\ UNCHANGED <<tree, thunks, manifest, latest, cur, stack, queue>>

\* promoteManifest logs an error of PromoteToStore and takes the next line.
SkipLine(p) ==
    /\ pc[p] \in Promotion /\ ~direct[p]
    /\ Goto(p, "promote")
    /\ names' = [names EXCEPT ![p] = Tail(@)]
    /\ fh' = [fh EXCEPT ![p] = FALSE]
    /\ UNCHANGED <<fileVars, cur, stack, queue, direct>>

\* Realise returns an error: nix build failed, or the target's own promotion.
CanFail(p) ==
    \/ pc[p] = "collect" /\ stack[p] = <<>>
    \/ pc[p] \in Promotion /\ direct[p]

RealiseStep(p) == \/ Collect(p) \/ Build(p) \/ OpenManifest(p) \/ NextLine(p)
                  \/ Unlink(p) \/ Rename(p) \/ Truncate(p) \/ Record(p)

\* Realise has promoted everything it collected.
Realised(p) == pc[p] = "promote" /\ names[p] = <<>> /\ queue[p] = <<>>
=============================================================================
