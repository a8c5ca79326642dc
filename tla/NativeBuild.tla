----------------------------- MODULE NativeBuild -----------------------------
(***************************************************************************)
(* Native mode end to end: make -jN runs compile, objtool, archive and     *)
(* link shims; `nixgg force` and NIXGG_AUTOFORCE=1 realise what they wrote *)
(* (module Realise).  One process is one shim or one force.                *)
(*                                                                         *)
(* Code outside the repository: make's scheduling (MakeAllows, UpToDate)   *)
(* and the real tools (RealTool, Exec).                                    *)
(***************************************************************************)
EXTENDS Realise

CONSTANTS
    Below,          \* all prerequisites of a path, direct and indirect
    Transformed,    \* objects whose recipe runs objtool after the compiler
    RealiseNow,     \* outputs mode.For/ForLink say Realise for
    AutoForce,      \* link outputs, when NIXGG_AUTOFORCE=1
    Forced,         \* targets the user runs `nixgg force` on
    RealToolOn,     \* paths NIXGG_BYPASS=1 or an unshimmed tool writes
    ForceAnyTime,   \* `nixgg force` may run on targets make has not finished
    MaxJobs,        \* bound on processes started
    MaxFaults       \* bound on failed calls and killed processes

ASSUME BelowAssumption ==
    /\ Below \in [Paths -> SUBSET Paths]
    /\ \A o \in Paths : \A i \in DOMAIN Inputs[o] : Inputs[o][i] \in Below[o]
    /\ \A o \in Paths : \A b \in Below[o] : Below[b] \subseteq Below[o]
    /\ \A o \in Paths : o \notin Below[o]     \* make drops circular dependencies
ASSUME ForcedAssumption == Forced \subseteq Paths
ASSUME BoundsAssumption == MaxJobs \in Nat /\ MaxFaults \in Nat

VARIABLES
    kind,       \* what each process runs
    out,        \* the output it was asked for
    args,       \* operands it has still to classify or, passing through, realise
    refs,       \* the references classified so far
    id,         \* the id of the expression it wrote
    jobs,       \* processes started
    faults      \* calls failed and processes killed

shimVars == <<kind, out, args, refs, id>>
counters == <<jobs, faults>>
vars == <<fileVars, pc, realiseVars, shimVars, counters>>

Kinds == {"none", "recipe", "objtool", "force", "passthrough"}
ShimPCs == {"classify", "readlink", "lookup", "remove", "symlink", "unpromote",
            "scan", "append", "written"}
PCs == {"idle"} \cup ShimPCs \cup RealisePCs

LocalsTypeOK ==
    /\ RealiseTypeOK
    /\ pc \in [Procs -> PCs]
    /\ kind \in [Procs -> Kinds]
    /\ out \in [Procs -> Paths \cup {NoId}]
    /\ args \in [Procs -> Seq(Paths)]
    /\ refs \in [Procs -> Seq(Ref)]
    /\ id \in [Procs -> Ids \cup {NoId}]

\* Every variable has its type: in particular no record that was opened and not
\* written yet is ever taken for an id.
TypeOK == FilesTypeOK /\ LocalsTypeOK /\ jobs \in Nat /\ faults \in Nat

Init ==
    /\ FilesInit /\ RealiseInit
    /\ pc = [p \in Procs |-> "idle"]
    /\ kind = [p \in Procs |-> "none"]
    /\ out = [p \in Procs |-> NoId]
    /\ args = [p \in Procs |-> <<>>]
    /\ refs = [p \in Procs |-> <<>>]
    /\ id = [p \in Procs |-> NoId]
    /\ jobs = 0 /\ faults = 0

-----------------------------------------------------------------------------
\* Process p is gone; its locals go with it.
Leave(p) ==
    /\ Goto(p, "idle")
    /\ kind' = [kind EXCEPT ![p] = "none"]
    /\ out' = [out EXCEPT ![p] = NoId]
    /\ args' = [args EXCEPT ![p] = <<>>]
    /\ refs' = [refs EXCEPT ![p] = <<>>]
    /\ id' = [id EXCEPT ![p] = NoId]
    /\ cur' = [cur EXCEPT ![p] = NoId]
    /\ names' = [names EXCEPT ![p] = <<>>]
    /\ stack' = [stack EXCEPT ![p] = <<>>]
    /\ queue' = [queue EXCEPT ![p] = <<>>]
    /\ direct' = [direct EXCEPT ![p] = FALSE]
    /\ fh' = [fh EXCEPT ![p] = FALSE]

Start(p, k, o, operands) ==
    /\ pc[p] = "idle" /\ jobs < MaxJobs
    /\ jobs' = jobs + 1
    /\ Goto(p, "classify")
    /\ kind' = [kind EXCEPT ![p] = k]
    /\ out' = [out EXCEPT ![p] = o]
    /\ args' = [args EXCEPT ![p] = operands]
    /\ UNCHANGED <<fileVars, realiseVars, refs, id, faults>>

Recipes == {p \in Procs : pc[p] # "idle" /\ kind[p] # "force"}
Forces == {p \in Procs : pc[p] # "idle" /\ kind[p] = "force"}

\* make never runs a recipe next to one it depends on or that depends on it.
MakeAllows(o) ==
    /\ \A p \in Recipes : /\ out[p] \notin {o} \cup Below[o]
                          /\ o \notin Below[out[p]]
    /\ ForceAnyTime \/ Forces = {}

\* The expression at o was written from what its inputs are now.
UpToDate(o) ==
    latest[o] # NoId =>
        \A i \in DOMAIN Inputs[o] :
            /\ i \in DOMAIN Refs[latest[o]]
            /\ Refs[latest[o]][i].id = latest[Inputs[o][i]]

StartRecipe(p, o) ==
    /\ MakeAllows(o)
    /\ \A b \in Below[o] : Exists(b) /\ UpToDate(b)
    /\ Start(p, "recipe", o, Inputs[o])

\* cmdForce on one target.
StartForce(p, o) ==
    /\ ForceAnyTime \/ (Recipes = {} /\ \A b \in Below[o] \cup {o} : UpToDate(b))
    /\ Start(p, "force", o, <<o>>)

-----------------------------------------------------------------------------
\* An operand is not nixgg's: a shim realises the operands that are and execs
\* the real tool, force gives up on the target.
Unmodelled(p) ==
    IF kind[p] = "force"
    THEN Leave(p)
    ELSE /\ Goto(p, "classify")
         /\ kind' = [kind EXCEPT ![p] = "passthrough"]
         /\ args' = [args EXCEPT ![p] =
                        <<out[p]>> \o IF kind[p] = "recipe" THEN Inputs[out[p]]
                                                            ELSE <<>>]
         /\ refs' = [refs EXCEPT ![p] = <<>>]
         /\ UNCHANGED <<realiseVars, out, id>>

Classifies(p) == kind[p] # "passthrough" /\ args[p] # <<>>

\* Seeded fault: the operands end up in reverse.
ReferReversed(p, via, t) ==
    /\ Goto(p, "classify")
    /\ refs' = [refs EXCEPT ![p] = <<[via |-> via, id |-> t]>> \o @]
    /\ args' = [args EXCEPT ![p] = Tail(@)]
    /\ UNCHANGED <<realiseVars, kind, out, id>>

Refer(p, via, t) ==
    /\ Goto(p, "classify")
    /\ refs' = [refs EXCEPT ![p] = Append(@, [via |-> via, id |-> t])]
    /\ args' = [args EXCEPT ![p] = Tail(@)]
    /\ UNCHANGED <<realiseVars, kind, out, id>>

\* Seeded fault: os.Stat, which follows the symlink.
StatFollows(p) ==
    /\ pc[p] = "classify" /\ Classifies(p)
    /\ IF tree[Head(args[p])].kind = "absent"
       THEN Unmodelled(p)
       ELSE Goto(p, "lookup") /\ UNCHANGED <<realiseVars, shimVars>>
    /\ UNCHANGED <<fileVars, counters>>

\* classify.Target: os.Lstat...
Lstat(p) ==
    /\ pc[p] = "classify" /\ Classifies(p)
    /\ LET entry == tree[Head(args[p])]
       IN  \/ entry.kind = "absent" /\ Unmodelled(p)
           \/ entry.kind = "symlink" /\ Goto(p, "readlink")
              /\ UNCHANGED <<realiseVars, shimVars>>
           \/ entry.kind = "file" /\ Goto(p, "lookup")
              /\ UNCHANGED <<realiseVars, shimVars>>
    /\ UNCHANGED <<fileVars, counters>>

\* ...then EvalSymlinks on what was a symlink...
Readlink(p) ==
    /\ pc[p] = "readlink"
    /\ LET entry == tree[Head(args[p])]
       IN  IF entry.kind = "symlink"
           THEN Refer(p, "nix", entry.id)
           ELSE Unmodelled(p)
    /\ UNCHANGED <<fileVars, counters>>

\* Seeded fault: an empty record is taken for an id.
LookupUnchecked(p) ==
    /\ pc[p] = "lookup"
    /\ Refer(p, "store", promoted[Head(args[p])])
    /\ UNCHANGED <<fileVars, counters>>

\* ...or LookupPromoted on what was a regular file.  A record is one write into
\* a file just emptied, so it is found empty or whole.
Lookup(p) ==
    /\ pc[p] = "lookup"
    /\ LET t == promoted[Head(args[p])]
       IN  IF t # NoId THEN Refer(p, "store", t) ELSE Unmodelled(p)
    /\ UNCHANGED <<fileVars, counters>>

\* Seeded fault: an output that has a thunk already does not get another.
WriteOncePerOutput(p) ==
    /\ pc[p] = "classify" /\ kind[p] \in {"recipe", "objtool"} /\ args[p] = <<>>
    /\ \E t \in Ids :
        /\ Refs[t] = refs[p] /\ out[p] \in Outputs[t]
        /\ thunks' = IF \E s \in thunks : out[p] \in Outputs[s]
                     THEN thunks ELSE thunks \cup {t}
        /\ id' = [id EXCEPT ![p] = t]
        /\ Goto(p, "remove")
    /\ UNCHANGED <<tree, manifest, promoted, latest, realiseVars, kind, out,
                   args, refs, counters>>

\* Every operand is classified: thunk.Compute and thunk.Write.
Write(p) ==
    /\ pc[p] = "classify" /\ kind[p] \in {"recipe", "objtool"} /\ args[p] = <<>>
    /\ \E t \in Ids :
        /\ Refs[t] = refs[p] /\ out[p] \in Outputs[t]
        /\ thunks' = thunks \cup {t}
        /\ id' = [id EXCEPT ![p] = t]
        /\ IF out[p] \in RealiseNow
           THEN StartRealiseAlone(p, t, out[p])
           ELSE Goto(p, "remove") /\ UNCHANGED realiseVars
    /\ UNCHANGED <<tree, manifest, promoted, latest, kind, out, args, refs,
                   counters>>

\* cmdForce: realise what the target was classified as.
ForceTarget(p) ==
    /\ pc[p] = "classify" /\ kind[p] = "force" /\ args[p] = <<>>
    /\ StartRealise(p, refs[p][1].id, out[p])
    /\ UNCHANGED <<fileVars, shimVars, counters>>

-----------------------------------------------------------------------------
\* LinkPlaceholder: os.Remove(output), its error ignored...
RemoveOutput(p) ==
    /\ pc[p] = "remove"
    /\ Goto(p, "symlink")
    /\ Put(out[p], Absent)
    /\ UNCHANGED <<thunks, manifest, promoted, latest, realiseVars, shimVars,
                   counters>>

\* Seeded fault: objtool links its output to the thunk it read.
PutSymlinkToInput(p) ==
    /\ pc[p] = "symlink"
    /\ IF Exists(out[p])
       THEN Leave(p) /\ UNCHANGED <<tree, latest>>
       ELSE /\ Goto(p, "unpromote")
            /\ Put(out[p], Symlink(IF kind[p] = "objtool" THEN refs[p][1].id
                                                          ELSE id[p]))
            /\ latest' = [latest EXCEPT ![out[p]] = id[p]]
            /\ UNCHANGED <<realiseVars, shimVars>>
    /\ UNCHANGED <<thunks, manifest, promoted, counters>>

\* ...os.Symlink, which refuses a path that exists...
PutSymlink(p) ==
    /\ pc[p] = "symlink"
    /\ IF Exists(out[p])
       THEN Leave(p) /\ UNCHANGED <<tree, latest>>
       ELSE /\ Goto(p, "unpromote")
            /\ Put(out[p], Symlink(id[p]))
            /\ latest' = [latest EXCEPT ![out[p]] = id[p]]
            /\ UNCHANGED <<realiseVars, shimVars>>
    /\ UNCHANGED <<thunks, manifest, promoted, counters>>

\* Seeded fault: the record of the last promotion stays.
UnpromoteForgotten(p) ==
    /\ pc[p] = "unpromote"
    /\ Goto(p, "scan")
    /\ UNCHANGED <<fileVars, realiseVars, shimVars, counters>>

\* ...and the removal of the promoted record, open or not.
Unpromote(p) ==
    /\ pc[p] = "unpromote"
    /\ Goto(p, "scan")
    /\ promoted' = [promoted EXCEPT ![out[p]] = NoId]
    /\ fh' = [q \in Procs |-> fh[q] /\ Head(names[q]) # out[p]]
    /\ UNCHANGED <<tree, thunks, manifest, latest, cur, names, stack, queue,
                   direct, shimVars, counters>>

\* Seeded fault: a manifest that exists is taken to list the output.
ScanAnyLine(p) ==
    /\ pc[p] = "scan"
    /\ Goto(p, IF Lines(id[p]) # {} THEN "written" ELSE "append")
    /\ UNCHANGED <<fileVars, realiseVars, shimVars, counters>>

\* RecordSymlink reads the manifest first...
Scan(p) ==
    /\ pc[p] = "scan"
    /\ Goto(p, IF out[p] \in Lines(id[p]) THEN "written" ELSE "append")
    /\ UNCHANGED <<fileVars, realiseVars, shimVars, counters>>

\* ...and appends in a second call.
AppendLine(p) ==
    /\ pc[p] = "append"
    /\ Goto(p, "written")
    /\ manifest' = [manifest EXCEPT ![id[p]] = Append(@, out[p])]
    /\ UNCHANGED <<tree, thunks, promoted, latest, realiseVars, shimVars,
                   counters>>

\* The compile shim is done and objtool follows in the same recipe, on the
\* object just linked.
ThenObjtool(p) ==
    /\ out[p] \in Transformed /\ kind[p] = "recipe"
    /\ Goto(p, "classify")
    /\ kind' = [kind EXCEPT ![p] = "objtool"]
    /\ args' = [args EXCEPT ![p] = <<out[p]>>]
    /\ refs' = [refs EXCEPT ![p] = <<>>]
    /\ UNCHANGED <<realiseVars, out, id>>

\* A link shim realises its own output.
ThenRealise(p) ==
    /\ out[p] \in AutoForce
    /\ StartRealise(p, id[p], out[p])
    /\ UNCHANGED shimVars

ThenEnd(p) ==
    /\ out[p] \notin AutoForce
    /\ out[p] \in Transformed => kind[p] = "objtool"
    /\ Leave(p)

\* The placeholder is linked and recorded.
Written(p) ==
    /\ pc[p] = "written"
    /\ ThenObjtool(p) \/ ThenRealise(p) \/ ThenEnd(p)
    /\ UNCHANGED <<fileVars, counters>>

-----------------------------------------------------------------------------
\* RealiseThunkArgsAndPassthrough, one operand of the command line.
RealiseArg(p) ==
    /\ pc[p] = "classify" /\ kind[p] = "passthrough" /\ args[p] # <<>>
    /\ LET o == Head(args[p])
       IN  IF tree[o].kind = "symlink"
           THEN StartRealise(p, tree[o].id, o)
           ELSE UNCHANGED <<pc, realiseVars>>
    /\ args' = [args EXCEPT ![p] = Tail(@)]
    /\ UNCHANGED <<fileVars, kind, out, refs, id, counters>>

\* The real tool replaces the shim and writes the output itself, or fails.
Exec(p) ==
    /\ pc[p] = "classify" /\ kind[p] = "passthrough" /\ args[p] = <<>>
    /\ \/ /\ Put(out[p], Foreign)
          /\ latest' = [latest EXCEPT ![out[p]] = NoId]
       \/ UNCHANGED <<tree, latest>>
    /\ Leave(p)
    /\ UNCHANGED <<thunks, manifest, promoted, counters>>

\* A tool nixgg does not see writes o: a bypassed compile, strip, sorttable.
RealTool(o) ==
    /\ o \in RealToolOn /\ MakeAllows(o) /\ jobs < MaxJobs
    /\ jobs' = jobs + 1
    /\ Put(o, Foreign)
    /\ latest' = [latest EXCEPT ![o] = NoId]
    /\ UNCHANGED <<thunks, manifest, promoted, pc, realiseVars, shimVars, faults>>

-----------------------------------------------------------------------------
\* Realise returned, with or without an error: a passthrough goes on either
\* way, any other caller ends.
ReturnFromRealise(p) ==
    /\ IF kind[p] = "passthrough"
       THEN /\ Goto(p, "classify")
            /\ names' = [names EXCEPT ![p] = <<>>]
            /\ queue' = [queue EXCEPT ![p] = <<>>]
            /\ direct' = [direct EXCEPT ![p] = FALSE]
            /\ fh' = [fh EXCEPT ![p] = FALSE]
            /\ UNCHANGED <<cur, stack, shimVars>>
       ELSE Leave(p)
    /\ UNCHANGED fileVars

Realising(p) == RealiseStep(p) /\ UNCHANGED <<shimVars, counters>>

EndRealise(p) == Realised(p) /\ ReturnFromRealise(p) /\ UNCHANGED counters

Fault == faults < MaxFaults /\ faults' = faults + 1 /\ UNCHANGED jobs

RealiseFails(p) == CanFail(p) /\ ReturnFromRealise(p) /\ Fault

PromoteFails(p) == SkipLine(p) /\ UNCHANGED shimVars /\ Fault

Kill(p) == pc[p] # "idle" /\ Leave(p) /\ UNCHANGED fileVars /\ Fault

Step(p) ==
    \/ Lstat(p) \/ Readlink(p) \/ Lookup(p) \/ Write(p) \/ ForceTarget(p)
    \/ RemoveOutput(p) \/ PutSymlink(p) \/ Unpromote(p) \/ Scan(p) \/ AppendLine(p)
    \/ Written(p) \/ RealiseArg(p) \/ Exec(p) \/ Realising(p) \/ EndRealise(p)

Next ==
    \/ \E p \in Procs : Step(p) \/ RealiseFails(p) \/ PromoteFails(p) \/ Kill(p)
    \/ \E p \in Procs, o \in Paths : StartRecipe(p, o)
    \/ \E p \in Procs, o \in Forced : StartForce(p, o)
    \/ \E o \in Paths : RealTool(o)

Spec == Init /\ [][Next]_vars

\* The operating system runs every live process; users and make owe nothing.
FairSpec == Spec /\ \A p \in Procs : WF_vars(Step(p))

-----------------------------------------------------------------------------
\* A thunk symlink in the working tree never dangles, and nothing a thunk
\* imports is missing: make may hand any output to any consumer, and Realise's
\* "stale reference" skips are dead code.
SymlinksResolve ==
    \A o \in Paths : tree[o].kind = "symlink" => tree[o].id \in thunks

ImportsResolve ==
    \A t \in thunks : \A r \in Imported(t) : r.id \in thunks

\* What a process holds between two of its steps: an operand before it looks at
\* it, a written thunk before it links to it, a path before it promotes it.
LocalOK(p) ==
    /\ pc[p] # "idle" => out[p] \in Paths
    /\ pc[p] \in {"readlink", "lookup"} => args[p] # <<>>
    /\ kind[p] = "force" /\ pc[p] \in {"classify", "readlink", "lookup"} =>
           args[p] # <<>> \/ refs[p] # <<>>
    /\ pc[p] \in {"remove", "symlink", "unpromote", "scan", "append", "written"}
           => id[p] \in thunks
    /\ pc[p] \in {"collect"} \cup Promotion => names[p] # <<>>

LocalsOK == \A p \in Procs : LocalOK(p)

\* A reference a shim holds by import resolves, until it writes it.
RefResolves(p) ==
    \A i \in DOMAIN refs[p] : refs[p][i].via = "nix" => refs[p][i].id \in thunks

RefsResolve == \A p \in Procs : RefResolves(p)

\* Symlinks resolve because each is made from a written thunk; imports resolve
\* because each was read off a symlink; and no thunk is ever removed.
IInv == TypeOK /\ LocalsOK /\ RefsResolve /\ SymlinksResolve /\ ImportsResolve

\* Every placeholder is in the manifest force reads, or its shim is about to
\* put it there (unless a shim was killed): force never leaves one behind.
PlaceholdersRecorded ==
    faults = 0 =>
        \A o \in Paths : tree[o].kind = "symlink" =>
            \/ o \in Lines(tree[o].id)
            \/ \E p \in Procs : /\ pc[p] \in {"unpromote", "scan", "append"}
                                /\ out[p] = o /\ id[p] = tree[o].id

Promoting(o) ==
    \E p \in Procs : /\ pc[p] \in {"truncate", "record"}
                     /\ Head(names[p]) = o

\* The promoted record of a copy names the build the bytes came from, unless
\* its promotion is still in progress: link and ar shims put the recorded
\* store path, not the file, into the derivation.
RecordMatchesCopy ==
    \A o \in Paths :
        tree[o].kind = "file" /\ NoId \notin {tree[o].id, promoted[o]} /\ ~Promoting(o)
            => promoted[o] = tree[o].id

\* Bytes in the working tree are those of what the last recipe published
\* there: force never brings an older output back.
NeverReverts ==
    \A o \in Paths :
        tree[o].kind = "file" /\ latest[o] # NoId => tree[o].id = latest[o]

\* What an archive or link shim has found out about an operand is what the
\* operand is, as a thunk or as a store path, until the shim is done with it.
ConsumersSeeLatest ==
    \A p \in Procs : kind[p] = "recipe" =>
        \A i \in DOMAIN refs[p] : refs[p][i].id = latest[Inputs[out[p]][i]]

\* An archive that includes an object objtool transforms refers to the rewrite
\* objtool published under the same name, never to the raw compile output.
ConsumersSeeRewrite ==
    \A p \in Procs : kind[p] = "recipe" =>
        \A i \in DOMAIN refs[p] :
            LET o == Inputs[out[p]][i]
            IN  o \in Transformed =>
                    \E r \in Imported(refs[p][i].id) : o \in Outputs[r.id]

\* A build tree in which operands hold still while shims classify them: nothing
\* realises a path of a running make but the shim that makes it, no unshimmed
\* tool writes one, and force is not run on what objtool or twin recipes write.
PlainMake ==
    /\ ~ForceAnyTime /\ AutoForce = {} /\ RealToolOn = {}
    /\ RealiseNow \cap Transformed = {}
    /\ \A f \in Forced : \A b \in Below[f] \cup {f} :
          /\ b \notin Transformed
          /\ \A t \in Ids : b \in Outputs[t] => Outputs[t] = {b}

\* Every shim writes a derivation: one falls back to the real tool only when
\* some operand is not nixgg's.
PassthroughOnlyForForeign ==
    \A p \in Procs : kind[p] = "passthrough" =>
        \E i \in DOMAIN Inputs[out[p]] : latest[Inputs[out[p]][i]] = NoId

\* The thunks a build of t realises.
Closure[t \in Ids] ==
    {t} \cup UNION {Closure[Imports[t][i]] : i \in DOMAIN Imports[t]}

\* An id is a hash of a text that holds the ids it imports: along imports some
\* rank of ids goes down.
Ranks(rank) ==
    /\ rank \in [Ids -> Nat]
    /\ \A t \in Ids : \A i \in DOMAIN Imports[t] : rank[Imports[t][i]] < rank[t]

\* When force, or a link under AUTOFORCE, is done, every output last published
\* as a thunk of the graph it built is a copy of that thunk's build; one that
\* another process is renaming over right now may be missing.
RealiseIsComplete ==
    \A p \in Procs :
        faults = 0 /\ Realised(p) /\ kind[p] \in {"force", "recipe"}
        /\ out[p] \notin RealiseNow =>
            LET root == IF kind[p] = "force" THEN refs[p][1].id ELSE id[p]
            IN  \A o \in Paths : latest[o] \in Closure[root] =>
                    \/ tree[o] = File(latest[o])
                    \/ \E q \in Procs : pc[q] = "rename" /\ Head(names[q]) = o

\* Every shim and every force ends: collecting imports, promoting manifests
\* and passing through all run out of work.
EveryJobEnds == \A p \in Procs : pc[p] # "idle" ~> pc[p] = "idle"
=============================================================================
