------------------------------ MODULE Batching ------------------------------
(***************************************************************************)
(* How a build step reaches the store: the compile, archive and link shims *)
(* of a parallel make that publish derivations instead of running tools,   *)
(* in native mode (thunks), in sandbox mode (drvs and drvref stubs) and in *)
(* eager mode (drvs and symlinks), with compiles of a batch group deferred *)
(* until a consumer folds them into one derivation or resolves them.       *)
(*                                                                         *)
(* A derivation is its own store path: two steps that render alike share   *)
(* it.  What thunk.Write and RecordSymlink do in native mode is            *)
(* ThunkWrite's and NativeBuild's; what registering a drv says on the wire *)
(* is DaemonClient's.                                                      *)
(***************************************************************************)
EXTENDS Naturals, Sequences, FiniteSets, SequencesExt

CONSTANTS
    Compiles, Archives, Links,  \* outputs of the Makefile's recipes, by tool
    Inputs,         \* the .o and .a operands of a recipe, in argv order
    OutName,        \* basename of an object: <<stem>>, or <<stem, n>> for stem-n.o
    Suffix,         \* what ArtifactSubdir sees of an output's name
    Thin,           \* archives whose modifiers hold a T
    Settings,       \* environments the build may run in, see Setting
    Outer,          \* the output that names the outer derivation of a plain target
    MaxJobs,        \* make -jN
    MaxKills        \* recipes killed

Outputs == Compiles \cup Archives \cup Links
Modes == {"native", "sandbox", "eager"}

\* NIXGG_SANDBOX and NIXGG_EAGER_DRV, the group NIXGG_BATCH_GROUPS gives a
\* source ("" for none), and NIXGG_SANDBOX_TARGET: whether it is set, and the
\* output key it gives a path ("" for no match).
Setting == [mode : Modes, group : [Compiles -> STRING],
            targeted : BOOLEAN, key : [Outputs -> STRING]]

ASSUME ToolsAssumption ==
    /\ Compiles \cap Archives = {} /\ Compiles \cap Links = {}
    /\ Archives \cap Links = {} /\ Thin \subseteq Archives
    /\ IsFiniteSet(Outputs) /\ MaxJobs \in Nat /\ MaxKills \in Nat
ASSUME InputsAssumption == Inputs \in [Outputs -> Seq(Compiles \cup Archives)]
ASSUME SettingsAssumption == \A s \in Settings :
    /\ s.mode \in Modes /\ s.targeted \in BOOLEAN
    /\ DOMAIN s.group = Compiles /\ DOMAIN s.key = Outputs
    /\ ~s.targeted => \A o \in Outputs : s.key[o] = ""
ASSUME NamesAssumption == OutName \in [Compiles -> Seq(STRING \cup Nat)]

VARIABLES
    setting,    \* the environment of this build
    files,      \* the working tree
    records,    \* .nixgg/batches: the member record of an output
    uploaded,   \* staged source trees in the store
    store,      \* derivations registered
    members,    \* .nixgg/members: which archive lists which member
    submitted,  \* the derivation submitted under an output key
    captured,   \* what the assembled output holds at a path
    jobs,       \* the recipe of an output
    kills

vars == <<setting, files, records, uploaded, store, members, submitted,
          captured, jobs, kills>>

-----------------------------------------------------------------------------
\* Derivations.  "parts" are the compiles a batch archive folds in.
Derivation(step, o, name, parts, inputs, extras) ==
    [step |-> step, of |-> o, name |-> name, parts |-> parts,
     inputs |-> inputs, extras |-> extras]

NoDrv == Derivation("none", "", <<"", "">>, <<>>, <<>>, {})

\* Env NIXGG_SANDBOX_TARGET decides the name of a target's derivation, in
\* every mode, and the key it is submitted under, in sandbox mode.
targetOutputKey(o) == setting.key[o]

NameOr(prefix, o) ==
    IF targetOutputKey(o) \in {"", "out"} THEN <<prefix, o>>
                                          ELSE <<"target", targetOutputKey(o)>>

CompileDrv(o) == Derivation("compile", o, <<"tu", o>>, <<>>, <<>>, {})

disambiguateNothing(ms) == [i \in DOMAIN ms |-> [tu |-> ms[i].tu, outName |-> ms[i].outName]]

\* The nth object of a basename is renamed stem-n.o.
disambiguateOutNames(ms) ==
    [i \in DOMAIN ms |->
        LET n == Cardinality({j \in 1 .. i : ms[j].outName = ms[i].outName})
        IN  [tu |-> ms[i].tu,
             outName |-> IF n = 1 THEN ms[i].outName ELSE Append(ms[i].outName, n)]]

BatchDrv(o, ms) ==
    Derivation("batch", o, <<"batch", o>>, disambiguateOutNames(ms), <<>>, {})

StepDrv(o, ins, extras) ==
    IF o \in Archives
    THEN Derivation("archive", o, NameOr("ar", o), <<>>, ins, extras)
    ELSE Derivation("link", o, NameOr("bin", o), <<>>, ins, extras)

-----------------------------------------------------------------------------
\* Working-tree entries.  A reference is a symlink to a thunk or drv, or a
\* drvref stub; a stub is created empty, and "by" are the jobs that hold the
\* created file open.
Entry(kind, o, drv, by) == [kind |-> kind, of |-> o, drv |-> drv, by |-> by]

Absent == Entry("absent", "", NoDrv, {})
Foreign == Entry("foreign", "", NoDrv, {})
Empty(by) == Entry("empty", "", NoDrv, by)
Pending(o) == Entry("pending", o, NoDrv, {})
Ref(d) == Entry("ref", "", d, {})

NoRecord == [group |-> "", tu |-> "", outName |-> <<>>]

Sandbox == setting.mode = "sandbox"
Registers == setting.mode \in {"sandbox", "eager"}

\* Only symlinks appear in one step; stubs are created, then written.
IsLink(e) == e.kind = "ref" /\ ~Sandbox

\* A recipe: what it does next, the operands it has not classified, those it
\* has, the members it must declare, and the file it is publishing and after
\* that what.
Job(pc) == [pc |-> pc, left |-> <<>>, got |-> <<>>, extra |-> {},
            at |-> "", put |-> Absent, then |-> ""]

Init ==
    /\ setting \in Settings
    /\ files = [o \in Outputs |-> Absent]
    /\ records = [o \in Compiles |-> NoRecord]
    /\ uploaded = {}
    /\ store = {}
    /\ members = {}
    /\ submitted = [k \in {setting.key[o] : o \in Outputs} \cup {"out"} |-> NoDrv]
    /\ captured = [o \in Outputs |-> Absent]
    /\ jobs = [o \in Outputs |-> Job("idle")]
    /\ kills = 0

Ended == {"done", "bypassed", "failed", "killed"}
Running == {o \in Outputs : jobs[o].pc \notin Ended \cup {"idle"}}

Goto(o, pc) == jobs' = [jobs EXCEPT ![o].pc = pc]

Publish(o, file, entry, next) ==
    jobs' = [jobs EXCEPT ![o].pc = "remove", ![o].at = file, ![o].put = entry,
                         ![o].then = next]

-----------------------------------------------------------------------------
\* make starts a recipe when those of its operands have ended, and none once a
\* recipe has failed.
Start(o) ==
    /\ jobs[o].pc = "idle"
    /\ \A p \in Outputs : jobs[p].pc \notin {"failed", "killed"}
    /\ Cardinality(Running) < MaxJobs
    /\ \A i \in ToSet(Inputs[o]) : jobs[i].pc \in {"done", "bypassed"}
    /\ jobs' = [jobs EXCEPT ![o] = [Job("") EXCEPT
            !.left = Inputs[o],
            !.pc = IF o \in Links THEN "classify"
                   ELSE IF o \in Archives THEN "try"
                   ELSE IF Registers THEN "upload" ELSE "staged"]]
    /\ UNCHANGED <<setting, files, records, uploaded, store, members, submitted,
                   captured, kills>>

Upload(o) ==
    /\ jobs[o].pc = "upload"
    /\ uploaded' = uploaded \cup {o}
    /\ Goto(o, "staged")
    /\ UNCHANGED <<setting, files, records, store, members, submitted, captured,
                   kills>>

\* A compile outside every group registers its derivation.
SubmitCompile(o) ==
    /\ jobs[o].pc = "staged"
    /\ setting.group[o] = ""
    /\ store' = store \cup {CompileDrv(o)}
    /\ Publish(o, o, Ref(CompileDrv(o)), "done")
    /\ UNCHANGED <<setting, files, records, uploaded, members, submitted, captured,
                   kills>>

\* A compile of a group writes its member record, then a stub that names it.
deferCompileToBatch(o) ==
    /\ jobs[o].pc = "staged"
    /\ setting.group[o] # ""
    /\ records' = [records EXCEPT ![o] =
            [group |-> setting.group[o], tu |-> o, outName |-> OutName[o]]]
    /\ Publish(o, o, Pending(o), "done")
    /\ UNCHANGED <<setting, files, uploaded, store, members, submitted, captured,
                   kills>>

-----------------------------------------------------------------------------
\* LinkPlaceholder, PointOutputAtDrv and writeBatchPendingStub.
RemoveOutputKept(o) ==
    /\ jobs[o].pc = "remove"
    /\ Goto(o, "create")
    /\ UNCHANGED <<setting, files, records, uploaded, store, members, submitted,
                   captured, kills>>

RemoveOutput(o) ==
    /\ jobs[o].pc = "remove"
    /\ files' = [files EXCEPT ![jobs[o].at] = Absent]
    /\ Goto(o, "create")
    /\ UNCHANGED <<setting, records, uploaded, store, members, submitted, captured,
                   kills>>

\* os.Symlink refuses a path that exists again; a consumer that was resolving
\* an operand then lets the real tool run, a recipe's own output fails it.
SymlinkOutput(o) ==
    LET at == jobs[o].at
    IN  /\ jobs[o].pc = "create"
        /\ IsLink(jobs[o].put)
        /\ IF files[at].kind = "absent"
           THEN files' = [files EXCEPT ![at] = jobs[o].put] /\ Goto(o, jobs[o].then)
           ELSE /\ UNCHANGED files
                /\ Goto(o, IF jobs[o].then = "classify" THEN "bypass" ELSE "failed")
        /\ UNCHANGED <<setting, records, uploaded, store, members, submitted,
                       captured, kills>>

CreateStub(o) ==
    LET at == jobs[o].at
    IN  /\ jobs[o].pc = "create"
        /\ ~IsLink(jobs[o].put)
        /\ files' = [files EXCEPT ![at] = Empty(files[at].by \cup {o})]
        /\ Goto(o, "fill")
        /\ UNCHANGED <<setting, records, uploaded, store, members, submitted,
                       captured, kills>>

\* The bytes go to the file this job opened, which may be unlinked by now.
FillStub(o) ==
    LET at == jobs[o].at
    IN  /\ jobs[o].pc = "fill"
        /\ files' = [files EXCEPT ![at] =
                IF o \in files[at].by THEN [jobs[o].put EXCEPT !.by = files[at].by \ {o}]
                                       ELSE @]
        /\ Goto(o, jobs[o].then)
        /\ UNCHANGED <<setting, records, uploaded, store, members, submitted,
                       captured, kills>>

-----------------------------------------------------------------------------
MayAlwaysBatch(o) == TRUE

\* tryBatchArchive: sandbox mode never batches a target, whose derivation must
\* keep the name the daemon expects.
MayBatch(o) == ~(Sandbox /\ targetOutputKey(o) # "")

\* The next operand is a pending member of the same group as the first.
SameGroup(o) ==
    LET in == files[Head(jobs[o].left)]
    IN  /\ in.kind = "pending"
        /\ jobs[o].got # <<>> => jobs[o].got[1].group = records[in.of].group

collectSameGroupMembers(o) ==
    /\ jobs[o].pc = "try"
    /\ MayBatch(o)
    /\ jobs[o].left # <<>>
    /\ SameGroup(o)
    /\ jobs' = [jobs EXCEPT ![o].left = Tail(@),
                            ![o].got = Append(@, records[Head(jobs[o].left)])]
    /\ UNCHANGED <<setting, files, records, uploaded, store, members, submitted,
                   captured, kills>>

submitCombinedArchive(o) ==
    /\ jobs[o].pc = "try"
    /\ jobs[o].left = <<>>
    /\ jobs[o].got # <<>>
    /\ LET d == BatchDrv(o, jobs[o].got)
       IN  store' = store \cup {d} /\ Publish(o, o, Ref(d), "submit")
    /\ UNCHANGED <<setting, files, records, uploaded, members, submitted, captured,
                   kills>>

FallThrough(o) ==
    /\ jobs[o].pc = "try"
    /\ MayBatch(o) =>
           IF jobs[o].left = <<>> THEN jobs[o].got = <<>> ELSE ~SameGroup(o)
    /\ jobs' = [jobs EXCEPT ![o].pc = "classify", ![o].left = Inputs[o],
                            ![o].got = <<>>]
    /\ UNCHANGED <<setting, files, records, uploaded, store, members, submitted,
                   captured, kills>>

-----------------------------------------------------------------------------
\* classifyInputs.  expandMembers follows the sidecars of thin archives.
MembersOf(S) == {p.member : p \in {q \in members : q.archive \in S}}

expandOnce(d) == MembersOf({d})

expandMembers(d) ==
    LET below[n \in 0 .. Cardinality(Archives)] ==
            IF n = 0 THEN MembersOf({d}) ELSE below[n - 1] \cup MembersOf(below[n - 1])
    IN  below[Cardinality(Archives)]

ResolvePendingMember(o) ==
    /\ jobs[o].pc = "classify"
    /\ jobs[o].left # <<>>
    /\ LET in == Head(jobs[o].left)
           d == CompileDrv(records[in].tu)
       IN  /\ files[in].kind = "pending"
           /\ store' = store \cup {d}
           /\ Publish(o, in, Ref(d), "classify")
    /\ UNCHANGED <<setting, files, records, uploaded, members, submitted, captured,
                   kills>>

ClassifyInput(o) ==
    /\ jobs[o].pc = "classify"
    /\ jobs[o].left # <<>>
    /\ LET e == files[Head(jobs[o].left)]
           ins == Append(jobs[o].got, e.drv)
       IN  /\ e.kind = "ref"
           /\ jobs' = [jobs EXCEPT
                   ![o].left = Tail(@), ![o].got = ins,
                   ![o].extra = @ \cup (expandMembers(e.drv) \ ToSet(ins))]
    /\ UNCHANGED <<setting, files, records, uploaded, store, members, submitted,
                   captured, kills>>

CannotModel(o) ==
    /\ jobs[o].pc = "classify"
    /\ jobs[o].left # <<>>
    /\ files[Head(jobs[o].left)].kind \notin {"pending", "ref"}
    /\ Goto(o, "bypass")
    /\ UNCHANGED <<setting, files, records, uploaded, store, members, submitted,
                   captured, kills>>

\* The real tool runs on whatever the operands are: ar takes any file.
Passthrough(o) ==
    /\ jobs[o].pc = "bypass"
    /\ \/ files' = [files EXCEPT ![o] = Foreign] /\ Goto(o, "bypassed")
       \/ UNCHANGED files /\ Goto(o, "failed")
    /\ UNCHANGED <<setting, records, uploaded, store, members, submitted, captured,
                   kills>>

SubmitStep(o) ==
    /\ jobs[o].pc = "classify"
    /\ jobs[o].left = <<>>
    /\ LET d == StepDrv(o, jobs[o].got, jobs[o].extra)
       IN  store' = store \cup {d} /\ Publish(o, o, Ref(d), "submit")
    /\ UNCHANGED <<setting, files, records, uploaded, members, submitted, captured,
                   kills>>

-----------------------------------------------------------------------------
\* The daemon takes one derivation for an output of the outer one, and only
\* under the name that output must have.
SubmitOutput(d, k) ==
    submitted' = IF /\ submitted[k] = NoDrv
                    /\ d.name = IF k = "out" THEN <<"bin", Outer>> ELSE <<"target", k>>
                 THEN [submitted EXCEPT ![k] = d] ELSE submitted

KeyByDefault(o) == IF o \in Links THEN "out" ELSE targetOutputKey(o)

\* The key a recipe submits its output under: a link does without a target.
KeyFor(o) == IF setting.targeted THEN targetOutputKey(o)
             ELSE IF o \in Links THEN "out" ELSE ""

\* A refusal is logged only.
maybeSubmit(o) ==
    /\ jobs[o].pc = "submit"
    /\ IF Sandbox /\ KeyFor(o) # "" THEN SubmitOutput(jobs[o].put.drv, KeyFor(o))
                                     ELSE UNCHANGED submitted
    /\ Goto(o, IF o \in Thin /\ jobs[o].put.drv.step = "archive" THEN "sidecar"
                                                                ELSE "done")
    /\ UNCHANGED <<setting, files, records, uploaded, store, members, captured, kills>>

WriteMembers(o) ==
    /\ jobs[o].pc = "sidecar"
    /\ members' = members \cup [archive : {jobs[o].put.drv}, member : ToSet(jobs[o].got)]
    /\ Goto(o, "done")
    /\ UNCHANGED <<setting, files, records, uploaded, store, submitted, captured,
                   kills>>

-----------------------------------------------------------------------------
\* splitStdenv's postBuild: the tree is captured as it stands and every
\* drvref stub overlaid with the artifact of its derivation, looked up by the
\* name of the file.
ArtifactSubdir(o) ==
    CASE Suffix[o] = "-prelink.o" -> "bin"
      [] Suffix[o] \in {".o", ".rlib"} -> ""
      [] Suffix[o] = ".a" -> "lib"
      [] OTHER -> "bin"

\* Where the builder of a derivation puts its artifact.
outSubdir(d) ==
    CASE d.step = "link" -> "bin"
      [] d.step \in {"archive", "batch"} -> "lib"
      [] OTHER -> ""

Walk == {o \in Outputs : files[o].kind = "ref"}

cmdAssemble ==
    /\ Sandbox /\ setting.targeted
    /\ \A o \in Outputs : jobs[o].pc \in {"done", "bypassed"} /\ setting.key[o] = ""
    /\ captured = [o \in Outputs |-> Absent]
    /\ captured' = [o \in Outputs |->
            IF o \notin Walk THEN files[o]
            ELSE IF ArtifactSubdir(o) = outSubdir(files[o].drv)
            THEN Entry("built", "", files[o].drv, {}) ELSE Absent]
    /\ LET d == Derivation("assemble", Outer, <<"bin", Outer>>, <<>>,
                           SetToSeq({files[o].drv : o \in Walk}), {})
       IN  store' = store \cup {d} /\ SubmitOutput(d, "out")
    /\ UNCHANGED <<setting, files, records, uploaded, members, jobs, kills>>

-----------------------------------------------------------------------------
\* A killed shim stops make.  Once the other recipes have ended the user runs
\* make again, which takes any target that exists for up to date.
Kill(o) ==
    /\ o \in Running
    /\ kills < MaxKills
    /\ kills' = kills + 1
    /\ Goto(o, "killed")
    /\ UNCHANGED <<setting, files, records, uploaded, store, members, submitted,
                   captured>>

Rerun ==
    /\ Running = {}
    /\ \E o \in Outputs : jobs[o].pc = "killed"
    /\ jobs' = [o \in Outputs |-> Job(IF files[o].kind = "absent" THEN "idle"
                                      ELSE IF jobs[o].pc = "bypassed" THEN "bypassed"
                                      ELSE "done")]
    /\ UNCHANGED <<setting, files, records, uploaded, store, members, submitted,
                   captured, kills>>

Step(o) ==
    \/ Start(o) \/ Upload(o) \/ SubmitCompile(o) \/ deferCompileToBatch(o)
    \/ RemoveOutput(o) \/ SymlinkOutput(o) \/ CreateStub(o) \/ FillStub(o)
    \/ collectSameGroupMembers(o) \/ submitCombinedArchive(o) \/ FallThrough(o)
    \/ ResolvePendingMember(o) \/ ClassifyInput(o) \/ CannotModel(o)
    \/ Passthrough(o) \/ SubmitStep(o) \/ maybeSubmit(o) \/ WriteMembers(o)

Build == cmdAssemble \/ \E o \in Outputs : Step(o)

Next == Build \/ Rerun \/ \E o \in Outputs : Kill(o)

Spec == Init /\ [][Next]_vars

\* While a shim can take a step the kernel runs one, make starts what it may and
\* the submit phase follows.  Every recipe is finite, so no more is needed.
FairSpec == Spec /\ WF_vars(Build)

-----------------------------------------------------------------------------
\* The compiles whose objects the result of a derivation holds, in order.  The
\* compiles of a batch write one directory: of two that write one name, both
\* places hold the object of the last.
Objects ==
    LET written(ps, i) == Max({j \in DOMAIN ps : ps[j].outName = ps[i].outName})
        objects[d \in store] ==
            CASE d.step = "compile" -> <<d.of>>
              [] d.step = "batch" ->
                    [i \in DOMAIN d.parts |-> d.parts[written(d.parts, i)].tu]
              [] OTHER -> FlattenSeq([i \in DOMAIN d.inputs |-> objects[d.inputs[i]]])
    IN  objects

\* What the Makefile asks for.
Wanted ==
    LET wanted[o \in Outputs] ==
            IF o \in Compiles THEN <<o>>
            ELSE FlattenSeq([i \in DOMAIN Inputs[o] |-> wanted[Inputs[o][i]]])
    IN  wanted

\* Whatever was deferred, folded into a batch or resolved by whichever consumer
\* came first, a derivation of a recipe builds the objects of the recipe, each
\* once and in order, from source trees that are in the store.
DerivationsAreWhole == \A d \in store : d.step # "assemble" =>
    /\ Objects[d] = Wanted[d.of]
    /\ Registers => ToSet(Objects[d]) \subseteq uploaded

\* What the objects rely on: make drops a circular dependency, so along operands
\* some rank goes down, and no object of an archive has the name that another
\* of its objects is given when it repeats a basename.
RecipeRanks(rank) ==
    /\ rank \in [Outputs -> Nat]
    /\ \A o \in Outputs : \A i \in ToSet(Inputs[o]) : rank[i] < rank[o]

NoGeneratedNames ==
    \A o \in Archives : \A c, d \in ToSet(Inputs[o]) \cap Compiles :
        \A n \in 2 .. Len(Inputs[o]) : OutName[c] # Append(OutName[d], n)

\* A thin archive holds paths into the outputs of its members, of its members'
\* members when those are thin: a step that reads one declares them all, or
\* its builder does not have the files.  A kill can lose a sidecar.
IsThin(d) == d.step = "archive" /\ d.of \in Thin

ThinInputs(S) == UNION {ToSet(d.inputs) : d \in {x \in S : IsThin(x)}}

Opened(d) ==
    LET opened[n \in 0 .. Cardinality(Archives)] ==
            IF n = 0 THEN ToSet(d.inputs) ELSE opened[n - 1] \cup ThinInputs(opened[n - 1])
    IN  opened[Cardinality(Archives)]

MembersDeclared == kills = 0 =>
    \A d \in store : d.step \in {"archive", "link"} =>
        Opened(d) \subseteq ToSet(d.inputs) \cup d.extras

\* The operand a recipe is at: the one it classifies, or the one whose pending
\* stub it has removed to put the resolved derivation there.
InHand(o) == IF jobs[o].pc = "create" THEN jobs[o].at ELSE Head(jobs[o].left)

\* By whichever exit a recipe leaves nixgg for the real tool, an operand that is
\* no reference or a symlink that could not be made (EEXIST), it does so only
\* over an operand that did so before it, or one that another recipe of the
\* same make also reads and may be resolving: a deferred compile with one
\* consumer always stays modelled.
OnlySharedOperandsRace == [][\A o \in Outputs :
    jobs[o].pc # "bypass" /\ jobs'[o].pc = "bypass" /\ kills = 0 =>
        \/ files[InHand(o)] = Foreign
        \/ \E p \in Outputs \ {o} : InHand(o) \in ToSet(Inputs[p])]_vars

\* In sandbox mode a build that no kill, failure or real tool disturbs ends
\* with every target submitted under its key as the derivation its output
\* refers to, and with nothing else submitted under it.
Disturbed == kills > 0 \/ \E o \in Outputs : jobs[o].pc \in {"bypass", "bypassed", "failed"}

EveryTargetSubmitted == <>[](
    \/ Disturbed
    \/ \A o \in Outputs : Sandbox /\ targetOutputKey(o) # "" =>
            /\ jobs[o].pc = "done"
            /\ submitted[targetOutputKey(o)] = files[o].drv)

\* What the capture relies on: outputs are named for what they are, and
\* splitStdenv, whose outer derivation is the only target, declares no group.
ConventionalNames ==
    /\ \A o \in Compiles : ArtifactSubdir(o) = ""
    /\ \A o \in Archives : ArtifactSubdir(o) = "lib"
    /\ \A o \in Links : ArtifactSubdir(o) = "bin"

Captures(s) == s.mode = "sandbox" /\ s.targeted /\ \A o \in Outputs : s.key[o] = ""

CapturesUngrouped ==
    \A s \in Settings : Captures(s) => \A o \in Compiles : s.group[o] = ""

\* The captured tree holds a built artifact at every path the shims took over
\* and no stub, and it is what the outer derivation submits.
CaptureIsReal == captured # [o \in Outputs |-> Absent] =>
    /\ submitted["out"].step = "assemble"
    /\ \A o \in Outputs :
        /\ captured[o].kind \in {"built", "foreign"} \/ kills > 0
        /\ files[o].kind = "ref" => captured[o] = Entry("built", "", files[o].drv, {})
=============================================================================
