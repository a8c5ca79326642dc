--------------------------- MODULE BatchingProofs ---------------------------
(***************************************************************************)
(* What a parallel build publishes, for any Makefile, any environments and *)
(* any number of jobs.  IInv has two parts: what holds of every job and    *)
(* file whatever happens, and, until a recipe is killed, who may write a   *)
(* file and what a step has gathered of its operands.  WholeInv holds in   *)
(* every state, kills or not: which recipe each derivation is of, and that *)
(* its inputs are the operands of that recipe in order.                    *)
(***************************************************************************)
EXTENDS Batching, SequenceTheorems, FiniteSetTheorems, Induction

-----------------------------------------------------------------------------
\* What holds of every job and file in every state.
Fields == {"pc", "left", "got", "extra", "at", "put", "then"}

Writing(o) == jobs[o].pc \in {"remove", "create", "fill"}

\* A derivation that may stand at a path: one that makes what the path is for.
Makes(d, f) ==
    \/ d.step = "compile" /\ f \in Compiles
    \/ d.step \in {"archive", "batch"} /\ f \in Archives /\ d.of = f
    \/ d.step = "link" /\ f \in Links /\ d.of = f

Reference(e, f) == e = Ref(e.drv) /\ e.drv \in store /\ Makes(e.drv, f)

Deferred(f) == f \in Compiles /\ setting.group[f] # ""

\* A recipe publishes its own output or, as a consumer, resolves an operand
\* whose compile was deferred.
PublishOK(o) ==
    LET at == jobs[o].at
    IN  \/ /\ at = o /\ jobs[o].then = "done" /\ o \in Compiles
           /\ Reference(jobs[o].put, o) \/ (jobs[o].put = Pending(o) /\ Deferred(o))
        \/ /\ at = o /\ jobs[o].then = "submit" /\ o \notin Compiles
           /\ Reference(jobs[o].put, o)
        \/ /\ at \in ToSet(Inputs[o]) /\ jobs[o].then = "classify" /\ o \notin Compiles
           /\ Deferred(at) /\ Reference(jobs[o].put, at)

JobOK(o) ==
    /\ DOMAIN jobs[o] = Fields
    /\ jobs[o].left \in Seq(Outputs)
    /\ ToSet(jobs[o].left) \subseteq ToSet(Inputs[o])
    /\ jobs[o].pc \in {"upload", "staged"} => o \in Compiles
    /\ jobs[o].pc \in {"try", "sidecar"} => o \in Archives
    /\ jobs[o].pc \in {"classify", "submit", "bypass", "bypassed"} => o \notin Compiles
    /\ Writing(o) => PublishOK(o)
    /\ jobs[o].pc \in {"submit", "sidecar"} => jobs[o].at = o /\ Reference(jobs[o].put, o)

FileOK(f) ==
    /\ files[f].kind \in {"absent", "foreign", "empty", "pending", "ref"}
    /\ files[f].kind = "ref" => files[f].drv \in store /\ Makes(files[f].drv, f)
    /\ files[f].kind = "pending" => Deferred(f)
    /\ files[f].kind = "foreign" => files[f] = Foreign

StateOK ==
    /\ setting \in Settings /\ kills \in Nat
    /\ DOMAIN jobs = Outputs /\ DOMAIN files = Outputs
    /\ \A o \in Outputs : JobOK(o) /\ FileOK(o)

-----------------------------------------------------------------------------
\* What holds until a recipe is killed.
Ready(i) == jobs[i].pc \in {"done", "bypassed"}

\* make runs a recipe after those of its operands.
OrderOK(o) ==
    /\ jobs[o].pc # "killed"
    /\ jobs[o].pc # "idle" => \A i \in ToSet(Inputs[o]) : Ready(i)

\* A file that one recipe at a time writes: its own, then its only consumer.
OneWriter(f) ==
    \/ ~Deferred(f)
    \/ \A p, q \in Outputs : f \in ToSet(Inputs[p]) /\ f \in ToSet(Inputs[q]) => p = q

\* The sidecar of a thin archive lists its members.
Declared(d) == IsThin(d) => ToSet(d.inputs) \subseteq MembersOf({d})

SettledOK(f) == OneWriter(f) =>
    /\ \A w \in Outputs : jobs[w].at = f =>
        /\ jobs[w].pc = "create" => files[f] = Absent
        /\ jobs[w].pc = "fill" => files[f] = Empty({w})
    /\ /\ jobs[f].pc \in {"submit", "sidecar", "done"}
       /\ \A w \in Outputs : jobs[w].at = f => jobs[w].pc \notin {"create", "fill"}
       => files[f].kind \in {"pending", "ref"}
    /\ jobs[f].pc = "bypassed" => files[f] = Foreign
    /\ jobs[f].pc \in {"submit", "sidecar"} => files[f] = jobs[f].put
    /\ f \in Archives /\ jobs[f].pc = "done" => Declared(files[f].drv)

-----------------------------------------------------------------------------
\* What a step must declare on behalf of one of its operands: the operand's
\* members, their members when those are thin, and so on.
Depth == Cardinality(Archives)

Covers(U, d) == \E r \in [0 .. Depth -> SUBSET store] :
    /\ ThinInputs({d}) \subseteq r[0]
    /\ \A n \in 1 .. Depth : r[n - 1] \cup ThinInputs(r[n - 1]) \subseteq r[n]
    /\ r[Depth] \subseteq U

StoreOK(d) == d.step \in {"archive", "link"} =>
    \A e \in ToSet(d.inputs) :
        /\ e \in store /\ Declared(e)
        /\ Covers(ToSet(d.inputs) \cup d.extras, e)

MemberOK(m) == m.member \in store /\ Declared(m.member)

Gathering(o) == jobs[o].pc = "classify" \/ (Writing(o) /\ jobs[o].then = "classify")

GatheredOK(o) ==
    /\ Gathering(o) =>
        /\ jobs[o].got \in Seq(store)
        /\ \A e \in ToSet(jobs[o].got) :
            Declared(e) /\ Covers(ToSet(jobs[o].got) \cup jobs[o].extra, e)
    /\ (Writing(o) \/ jobs[o].pc \in {"submit", "sidecar"}) /\ jobs[o].put.drv.step = "archive"
        => jobs[o].got = jobs[o].put.drv.inputs
    /\ jobs[o].pc = "sidecar" => jobs[o].put.drv.step = "archive"

Undisturbed ==
    /\ \A o \in Outputs : OrderOK(o) /\ SettledOK(o) /\ GatheredOK(o)
    /\ \A d \in store : StoreOK(d)
    /\ \A m \in members : MemberOK(m)

IInv == StateOK /\ (kills = 0 => Undisturbed)

-----------------------------------------------------------------------------
\* What holds before and after the tree is captured.
Uncaptured == [o \in Outputs |-> Absent]

CaptureOK ==
    /\ "out" \in DOMAIN submitted
    /\ Captures(setting) =>
        submitted["out"] = NoDrv \/ submitted["out"].step = "assemble"
    /\ captured # Uncaptured =>
        /\ Captures(setting)
        /\ \A o \in Outputs : Ready(o)
        /\ CaptureIsReal

-----------------------------------------------------------------------------
\* The elements of a sequence that grows at its end or loses its head.
LEMMA AppendSet ==
    ASSUME NEW S, NEW s \in Seq(S), NEW x \in S
    PROVE  Append(s, x) \in Seq(S) /\ ToSet(Append(s, x)) = ToSet(s) \cup {x}
<1>1. /\ Append(s, x) \in Seq(S) /\ Len(Append(s, x)) = Len(s) + 1
      /\ \A i \in 1 .. Len(s) : Append(s, x)[i] = s[i]
      /\ Append(s, x)[Len(s) + 1] = x
  BY AppendProperties
<1>2. /\ DOMAIN s = 1 .. Len(s) /\ Len(s) \in Nat
      /\ DOMAIN Append(s, x) = 1 .. (Len(s) + 1)
  BY <1>1, LenProperties
<1>3. QED
  BY <1>1, <1>2 DEF ToSet

\* A sequence holds its head and what its tail holds.
LEMMA TailSet ==
    ASSUME NEW S, NEW s \in Seq(S), s # <<>>
    PROVE  /\ Tail(s) \in Seq(S) /\ Head(s) \in S
           /\ ToSet(s) = {Head(s)} \cup ToSet(Tail(s))
<1>1. /\ Head(s) \in S /\ Head(s) = s[1]
      /\ Tail(s) \in Seq(S) /\ Len(Tail(s)) = Len(s) - 1
      /\ \A i \in 1 .. Len(Tail(s)) : Tail(s)[i] = s[i + 1]
  BY HeadTailProperties, Z3
<1>2. /\ DOMAIN s = 1 .. Len(s) /\ Len(s) \in Nat /\ Len(s) # 0
      /\ DOMAIN Tail(s) = 1 .. Len(Tail(s))
  BY <1>1, LenProperties, EmptySeq
<1>3. ToSet(Tail(s)) \subseteq ToSet(s)
  BY <1>1, <1>2, Z3 DEF ToSet
<1>4. ToSet(s) \subseteq {s[1]} \cup ToSet(Tail(s))
  <2>1. ASSUME NEW i \in DOMAIN s, i # 1 PROVE s[i] \in ToSet(Tail(s))
    <3>1. i - 1 \in DOMAIN Tail(s) /\ Tail(s)[i - 1] = s[i]
      BY <1>1, <1>2, <2>1, Z3
    <3>2. QED
      BY <3>1 DEF ToSet
  <2>2. QED
    BY <2>1 DEF ToSet
<1>5. s[1] \in ToSet(s)
  BY <1>2, 1 \in DOMAIN s DEF ToSet
<1>6. QED
  BY <1>1, <1>3, <1>4, <1>5

\* Operands are outputs.
LEMMA OperandsOK ==
    ASSUME NEW o \in Outputs
    PROVE  Inputs[o] \in Seq(Outputs) /\ ToSet(Inputs[o]) \subseteq Outputs
<1>1. Inputs[o] \in Seq(Compiles \cup Archives)
  BY InputsAssumption
<1>2. Inputs[o] \in Seq(Outputs)
  BY <1>1, SeqMonotonic DEF Outputs
<1>3. QED
  BY <1>2, RangeOfSeq, ElementOfSeq, LenProperties DEF ToSet

\* What a reference holds.
LEMMA RefFields ==
    ASSUME NEW d
    PROVE  Ref(d).kind = "ref" /\ Ref(d).drv = d /\ Ref(d).by = {}
BY DEF Ref, Entry

\* A step may publish a reference to what it has just registered.
LEMMA ReferenceMade ==
    ASSUME NEW d, NEW f \in Outputs, NEW e, e = Ref(d), d \in store', Makes(d, f)
    PROVE  (e = Ref(e.drv) /\ e.drv \in store' /\ Makes(e.drv, f))
BY RefFields

-----------------------------------------------------------------------------
\* What a step changes of the jobs.
LEMMA GotoFields ==
    ASSUME StateOK, NEW o \in Outputs, NEW next, Goto(o, next)
    PROVE  /\ DOMAIN jobs' = Outputs /\ DOMAIN jobs'[o] = Fields
           /\ \A p \in Outputs \ {o} : jobs'[p] = jobs[p]
           /\ jobs'[o].pc = next /\ jobs'[o].left = jobs[o].left
           /\ jobs'[o].got = jobs[o].got /\ jobs'[o].extra = jobs[o].extra
           /\ jobs'[o].at = jobs[o].at /\ jobs'[o].put = jobs[o].put
           /\ jobs'[o].then = jobs[o].then
BY DEF StateOK, JobOK, Goto, Fields

\* What a recipe that is about to publish changes of its own record, and of nobody
\* else's.
LEMMA PublishFields ==
    ASSUME StateOK, NEW o \in Outputs, NEW file, NEW entry, NEW next,
           Publish(o, file, entry, next)
    PROVE  /\ DOMAIN jobs' = Outputs /\ DOMAIN jobs'[o] = Fields
           /\ \A p \in Outputs \ {o} : jobs'[p] = jobs[p]
           /\ jobs'[o].pc = "remove" /\ jobs'[o].left = jobs[o].left
           /\ jobs'[o].got = jobs[o].got /\ jobs'[o].extra = jobs[o].extra
           /\ jobs'[o].at = file /\ jobs'[o].put = entry /\ jobs'[o].then = next
BY DEF StateOK, JobOK, Publish, Fields

\* A job or a file that a step leaves alone is as it was.
LEMMA KeepJob ==
    ASSUME NEW o \in Outputs, JobOK(o), jobs'[o] = jobs[o], store \subseteq store',
           setting' = setting
    PROVE  JobOK(o)'
BY DEF JobOK, Writing, PublishOK, Reference, Deferred

\* A file stays in order as long as no derivation leaves the store.
LEMMA KeepFile ==
    ASSUME NEW f \in Outputs, FileOK(f), files'[f] = files[f], store \subseteq store',
           setting' = setting
    PROVE  FileOK(f)'
BY DEF FileOK, Deferred

\* A step of one recipe keeps StateOK if it keeps it of the recipe and of the files
\* it changes.
LEMMA StateKept ==
    ASSUME StateOK, NEW o \in Outputs, setting' = setting, kills' \in Nat,
           store \subseteq store', DOMAIN jobs' = Outputs, DOMAIN files' = Outputs,
           \A p \in Outputs \ {o} : jobs'[p] = jobs[p], JobOK(o)',
           \A f \in Outputs : files'[f] = files[f] \/ FileOK(f)'
    PROVE  StateOK'
<1>1. \A p \in Outputs : JobOK(p)'
  BY KeepJob DEF StateOK
<1>2. \A f \in Outputs : FileOK(f)'
  BY KeepFile DEF StateOK
<1>3. QED
  BY <1>1, <1>2 DEF StateOK

\* A job that has a phase of its own before it and no file in hand.
LEMMA StartTyped ==
    ASSUME StateOK, NEW o \in Outputs, Start(o)
    PROVE  StateOK'
<1>1. /\ DOMAIN jobs' = Outputs /\ DOMAIN jobs'[o] = Fields
      /\ \A p \in Outputs \ {o} : jobs'[p] = jobs[p]
      /\ jobs'[o].left = Inputs[o]
      /\ jobs'[o].pc = IF o \in Links THEN "classify" ELSE IF o \in Archives THEN "try"
                       ELSE IF Registers THEN "upload" ELSE "staged"
  BY DEF Start, Job, Fields, StateOK
<1>2. o \in Compiles \/ o \in Archives \/ o \in Links
  BY DEF Outputs
<1>3. JobOK(o)'
  BY <1>1, <1>2, OperandsOK, ToolsAssumption DEF JobOK, Writing
<1>4. setting' = setting /\ kills' = kills /\ store' = store /\ files' = files
  BY DEF Start
<1>5. QED
  BY <1>1, <1>3, <1>4, StateKept DEF StateOK

\* Steps that only move a job on.
LEMMA MoveTyped ==
    ASSUME StateOK, NEW o \in Outputs,
           \/ Upload(o) \/ collectSameGroupMembers(o) \/ FallThrough(o)
           \/ ClassifyInput(o) \/ CannotModel(o) \/ maybeSubmit(o) \/ WriteMembers(o)
    PROVE  StateOK'
<1> DEFINE j == jobs[o]
<1>1. JobOK(o) /\ DOMAIN jobs = Outputs
  BY DEF StateOK
<1>2. /\ setting' = setting /\ kills' = kills /\ store' = store /\ files' = files
      /\ \A p \in Outputs \ {o} : jobs'[p] = jobs[p]
      /\ DOMAIN jobs' = Outputs /\ DOMAIN jobs'[o] = Fields
  BY <1>1, GotoFields DEF Upload, collectSameGroupMembers, FallThrough, ClassifyInput,
     CannotModel, maybeSubmit, WriteMembers, JobOK, Fields
<1>3. JobOK(o)'
  <2>1. CASE Upload(o)
    BY <1>1, <1>2, <2>1, GotoFields DEF Upload, JobOK, Writing
  <2>2. CASE collectSameGroupMembers(o)
    <3>1. j.left # <<>> /\ j.pc = "try" /\ jobs'[o].pc = "try" /\ jobs'[o].left = Tail(j.left)
      BY <1>1, <2>2 DEF collectSameGroupMembers, JobOK, Fields
    <3>2. jobs'[o].left \in Seq(Outputs) /\ ToSet(jobs'[o].left) \subseteq ToSet(Inputs[o])
      BY <1>1, <3>1, TailSet DEF JobOK
    <3>3. QED
      BY <1>1, <1>2, <3>1, <3>2 DEF JobOK, Writing
  <2>3. CASE FallThrough(o)
    <3>1. j.pc = "try" /\ jobs'[o].pc = "classify" /\ jobs'[o].left = Inputs[o]
      BY <1>1, <2>3 DEF FallThrough, JobOK, Fields
    <3>2. o \notin Compiles
      BY <1>1, <3>1, ToolsAssumption DEF JobOK
    <3>3. QED
      BY <1>2, <3>1, <3>2, OperandsOK DEF JobOK, Writing
  <2>4. CASE ClassifyInput(o)
    <3>1. j.left # <<>> /\ j.pc = "classify" /\ jobs'[o].pc = "classify"
          /\ jobs'[o].left = Tail(j.left)
      BY <1>1, <2>4 DEF ClassifyInput, JobOK, Fields
    <3>2. jobs'[o].left \in Seq(Outputs) /\ ToSet(jobs'[o].left) \subseteq ToSet(Inputs[o])
      BY <1>1, <3>1, TailSet DEF JobOK
    <3>3. QED
      BY <1>1, <1>2, <3>1, <3>2 DEF JobOK, Writing
  <2>5. CASE CannotModel(o)
    BY <1>1, <1>2, <2>5, GotoFields DEF CannotModel, JobOK, Writing
  <2>6. CASE maybeSubmit(o)
    <3>1. /\ jobs[o].pc = "submit" /\ jobs'[o].pc \in {"sidecar", "done"}
          /\ jobs'[o].left = j.left /\ jobs'[o].at = j.at /\ jobs'[o].put = j.put
          /\ jobs'[o].pc = "sidecar" => o \in Thin
      BY <1>1, <2>6 DEF maybeSubmit, Goto, JobOK, Fields
    <3>2. jobs'[o].pc = "sidecar" => o \in Archives
      BY <3>1, ToolsAssumption
    <3>3. QED
      BY <1>1, <1>2, <3>1, <3>2 DEF JobOK, Writing, Reference
  <2>7. CASE WriteMembers(o)
    BY <1>1, <1>2, <2>7, GotoFields DEF WriteMembers, JobOK, Writing
  <2>8. QED
    BY <2>1, <2>2, <2>3, <2>4, <2>5, <2>6, <2>7
<1>4. QED
  BY <1>2, <1>3, StateKept DEF StateOK

\* A step that decides what to publish.
LEMMA DecideFields ==
    ASSUME StateOK, NEW o \in Outputs,
           \/ SubmitCompile(o) \/ deferCompileToBatch(o) \/ submitCombinedArchive(o)
           \/ ResolvePendingMember(o) \/ SubmitStep(o)
    PROVE  /\ setting' = setting /\ kills' = kills /\ files' = files
           /\ store \subseteq store' /\ members' = members /\ captured' = captured
           /\ \A p \in Outputs \ {o} : jobs'[p] = jobs[p]
           /\ DOMAIN jobs' = Outputs /\ DOMAIN jobs'[o] = Fields
           /\ jobs[o].pc \in {"staged", "try", "classify"}
           /\ jobs'[o].pc = "remove" /\ jobs'[o].left = jobs[o].left
<1>1. CASE SubmitCompile(o)
  BY <1>1, PublishFields DEF SubmitCompile
<1>2. CASE deferCompileToBatch(o)
  BY <1>2, PublishFields DEF deferCompileToBatch
<1>3. CASE submitCombinedArchive(o)
  BY <1>3, PublishFields DEF submitCombinedArchive
<1>4. CASE ResolvePendingMember(o)
  BY <1>4, PublishFields DEF ResolvePendingMember
<1>5. CASE SubmitStep(o)
  BY <1>5, PublishFields DEF SubmitStep
<1>6. QED
  BY <1>1, <1>2, <1>3, <1>4, <1>5

\* What a recipe decides to publish is what its output may hold.
LEMMA DecideTyped ==
    ASSUME StateOK, NEW o \in Outputs,
           \/ SubmitCompile(o) \/ deferCompileToBatch(o) \/ submitCombinedArchive(o)
           \/ ResolvePendingMember(o) \/ SubmitStep(o)
    PROVE  StateOK'
<1>1. JobOK(o) /\ DOMAIN jobs = Outputs
  BY DEF StateOK
<1>2. /\ setting' = setting /\ kills' = kills /\ files' = files /\ store \subseteq store'
      /\ \A p \in Outputs \ {o} : jobs'[p] = jobs[p]
      /\ DOMAIN jobs' = Outputs /\ DOMAIN jobs'[o] = Fields
      /\ jobs'[o].pc = "remove" /\ jobs'[o].left = jobs[o].left
  BY DecideFields
<1>3. PublishOK(o)'
  <2>1. CASE SubmitCompile(o)
    <3>1. o \in Compiles /\ o \in Outputs
      BY <1>1, <2>1 DEF SubmitCompile, JobOK
    <3>2. /\ jobs'[o].at = o /\ jobs'[o].then = "done" /\ jobs'[o].put = Ref(CompileDrv(o))
          /\ CompileDrv(o) \in store'
      BY <2>1, PublishFields DEF SubmitCompile
    <3>3. Makes(CompileDrv(o), o)
      BY <3>1 DEF Makes, CompileDrv, Derivation
    <3>4. QED
      BY <3>1, <3>2, <3>3, ReferenceMade DEF PublishOK, Reference
  <2>2. CASE deferCompileToBatch(o)
    <3>1. o \in Compiles /\ setting.group[o] # ""
      BY <1>1, <2>2 DEF deferCompileToBatch, JobOK
    <3>2. jobs'[o].at = o /\ jobs'[o].then = "done" /\ jobs'[o].put = Pending(o)
      BY <2>2, PublishFields DEF deferCompileToBatch
    <3>3. QED
      BY <1>2, <3>1, <3>2 DEF PublishOK, Deferred, Pending
  <2>3. CASE submitCombinedArchive(o)
    <3> DEFINE d == BatchDrv(o, jobs[o].got)
    <3>1. o \in Archives /\ o \notin Compiles
      BY <1>1, <2>3, ToolsAssumption DEF submitCombinedArchive, JobOK
    <3>2. d.step = "batch" /\ d.of = o
      BY DEF BatchDrv, Derivation
    <3> HIDE DEF d
    <3>3. /\ jobs'[o].at = o /\ jobs'[o].then = "submit" /\ jobs'[o].put = Ref(d)
          /\ d \in store'
      BY <2>3, PublishFields DEF submitCombinedArchive, d
    <3>4. Makes(d, o)
      BY <3>1, <3>2 DEF Makes
    <3>5. QED
      BY <3>1, <3>3, <3>4, ReferenceMade DEF PublishOK, Reference
  <2>4. CASE ResolvePendingMember(o)
    <3> PICK i, d : i = Head(jobs[o].left) /\ d = CompileDrv(records[i].tu)
      OBVIOUS
    <3>1. d.step = "compile"
      BY DEF CompileDrv, Derivation
    <3>2. i \in ToSet(Inputs[o]) /\ i \in Outputs
      BY <1>1, <2>4, TailSet, OperandsOK DEF ResolvePendingMember, JobOK
    <3>3. o \notin Compiles /\ Deferred(i)
      BY <1>1, <2>4, <3>2 DEF ResolvePendingMember, StateOK, JobOK, FileOK
    <3>4. /\ jobs'[o].at = i /\ jobs'[o].then = "classify" /\ jobs'[o].put = Ref(d)
          /\ d \in store'
      BY <2>4, PublishFields DEF ResolvePendingMember
    <3>5. Makes(d, i) /\ Deferred(i)'
      BY <1>2, <3>1, <3>3 DEF Makes, Deferred
    <3>6. QED
      BY <3>2, <3>3, <3>4, <3>5, ReferenceMade DEF PublishOK, Reference
  <2>5. CASE SubmitStep(o)
    <3> DEFINE d == StepDrv(o, jobs[o].got, jobs[o].extra)
    <3>1. o \notin Compiles /\ (o \in Archives \/ o \in Links)
      BY <1>1, <2>5 DEF SubmitStep, JobOK, Outputs
    <3>2. Makes(d, o)
      BY <3>1 DEF StepDrv, Derivation, Makes
    <3> HIDE DEF d
    <3>3. /\ jobs'[o].at = o /\ jobs'[o].then = "submit" /\ jobs'[o].put = Ref(d)
          /\ d \in store'
      BY <2>5, PublishFields DEF SubmitStep, d
    <3>4. QED
      BY <3>1, <3>2, <3>3, ReferenceMade DEF PublishOK, Reference
  <2>6. QED
    BY <2>1, <2>2, <2>3, <2>4, <2>5
<1>4. JobOK(o)'
  BY <1>1, <1>2, <1>3 DEF JobOK, Writing
<1>5. QED
  BY <1>2, <1>4, StateKept DEF StateOK

\* What a job that is publishing may do next.
LEMMA PublishFacts ==
    ASSUME NEW o \in Outputs, JobOK(o), Writing(o)
    PROVE  LET at == jobs[o].at
               put == jobs[o].put
           IN  /\ at \in Outputs
               /\ Reference(put, at) \/ (put = Pending(at) /\ Deferred(at))
               /\ jobs[o].then \in {"done", "submit", "classify"}
               /\ jobs[o].then = "classify" =>
                    at \in ToSet(Inputs[o]) /\ Deferred(at) /\ o \notin Compiles
               /\ jobs[o].then \in {"done", "submit"} => at = o
               /\ jobs[o].then = "done" => o \in Compiles
               /\ jobs[o].then = "submit" => o \notin Compiles /\ Reference(put, o)
BY OperandsOK DEF JobOK, PublishOK

\* What a job holds to publish, and the same with its holders changed.
LEMMA EntryBy ==
    ASSUME NEW kind, NEW of, NEW drv, NEW held, NEW by
    PROVE  /\ [Entry(kind, of, drv, held) EXCEPT !.by = by] = Entry(kind, of, drv, by)
           /\ DOMAIN Entry(kind, of, drv, by) = {"kind", "of", "drv", "by"}
           /\ Entry(kind, of, drv, by).kind = kind /\ Entry(kind, of, drv, by).drv = drv
           /\ Entry(kind, of, drv, by).by = by
BY DEF Entry

\* The kinds of the entries that are not derivations.
LEMMA KindFields ==
    /\ Absent.kind = "absent" /\ Absent.by = {} /\ Foreign.kind = "foreign"
    /\ \A by : Empty(by).kind = "empty" /\ Empty(by).by = by
BY DEF Absent, Foreign, Empty, Entry

\* The fields of what a recipe has decided to publish.
LEMMA EntryFields ==
    ASSUME NEW e, NEW f, NEW by, Reference(e, f) \/ (e = Pending(f) /\ Deferred(f))
    PROVE  /\ DOMAIN e = {"kind", "of", "drv", "by"} /\ e.by = {}
           /\ e.kind = "ref" \/ e.kind = "pending"
           /\ e.kind = "ref" => e.drv \in store /\ Makes(e.drv, f)
           /\ e.kind = "pending" => Deferred(f)
           /\ [e EXCEPT !.by = by].kind = e.kind /\ [e EXCEPT !.by = by].drv = e.drv
           /\ [e EXCEPT !.by = {}] = e
<1>1. CASE e = Ref(e.drv) /\ e.drv \in store /\ Makes(e.drv, f)
  <2>1. PICK kind, of, d : kind = "ref" /\ of = "" /\ d = e.drv
    OBVIOUS
  <2>2. e = Entry(kind, of, d, {})
    BY <1>1, <2>1 DEF Ref
  <2>3. [e EXCEPT !.by = by] = Entry(kind, of, d, by) /\ [e EXCEPT !.by = {}] = e
    BY <2>2, EntryBy
  <2>4. e.kind = kind /\ e.by = {} /\ DOMAIN e = {"kind", "of", "drv", "by"}
        /\ Entry(kind, of, d, by).kind = kind /\ Entry(kind, of, d, by).drv = d
    BY <2>2 DEF Entry
  <2>5. QED
    BY <1>1, <2>1, <2>3, <2>4
<1>2. CASE e = Pending(f) /\ Deferred(f)
  <2>1. e = Entry("pending", f, NoDrv, {})
    BY <1>2 DEF Pending
  <2>2. [e EXCEPT !.by = by] = Entry("pending", f, NoDrv, by) /\ [e EXCEPT !.by = {}] = e
    BY <2>1, EntryBy
  <2>3. QED
    BY <1>2, <2>1, <2>2, EntryBy
<1>3. QED
  BY <1>1, <1>2 DEF Reference

\* Removing, creating and filling a file keeps what it may hold.
LEMMA WriteTyped ==
    ASSUME StateOK, NEW o \in Outputs,
           RemoveOutput(o) \/ SymlinkOutput(o) \/ CreateStub(o) \/ FillStub(o)
    PROVE  StateOK'
<1> PICK at, put : at = jobs[o].at /\ put = jobs[o].put
  OBVIOUS
<1>1. /\ JobOK(o) /\ Writing(o) /\ DOMAIN jobs = Outputs /\ DOMAIN files = Outputs
      /\ at \in Outputs /\ FileOK(at)
      /\ Reference(put, at) \/ (put = Pending(at) /\ Deferred(at))
  BY PublishFacts DEF StateOK, Writing, RemoveOutput, SymlinkOutput, CreateStub, FillStub
<1>2. /\ setting' = setting /\ kills' = kills /\ store' = store
      /\ DOMAIN files' = Outputs /\ \A f \in Outputs \ {at} : files'[f] = files[f]
  BY <1>1 DEF RemoveOutput, SymlinkOutput, CreateStub, FillStub
<1>3. \E next : Goto(o, next) /\ next \in {"create", "fill", jobs[o].then, "bypass", "failed"}
                /\ (next = "bypass" => jobs[o].then = "classify")
  <2>1. CASE RemoveOutput(o)
    BY <2>1 DEF RemoveOutput
  <2>2. CASE SymlinkOutput(o)
    <3>1. CASE files[jobs[o].at].kind = "absent"
      BY <1>1, <2>2, <3>1, PublishFacts DEF SymlinkOutput
    <3>2. CASE files[jobs[o].at].kind # "absent" /\ jobs[o].then = "classify"
      BY <2>2, <3>2 DEF SymlinkOutput
    <3>3. CASE files[jobs[o].at].kind # "absent" /\ jobs[o].then # "classify"
      BY <2>2, <3>3 DEF SymlinkOutput
    <3>4. QED
      BY <3>1, <3>2, <3>3
  <2>3. CASE CreateStub(o)
    BY <2>3 DEF CreateStub
  <2>4. CASE FillStub(o)
    BY <1>1, <2>4, PublishFacts DEF FillStub
  <2>5. QED
    BY <2>1, <2>2, <2>3, <2>4
<1>4. PICK next : /\ Goto(o, next)
                  /\ next \in {"create", "fill", jobs[o].then, "bypass", "failed"}
                  /\ next = "bypass" => jobs[o].then = "classify"
  BY <1>3
<1>5. /\ DOMAIN jobs' = Outputs /\ DOMAIN jobs'[o] = Fields
      /\ \A p \in Outputs \ {o} : jobs'[p] = jobs[p]
      /\ jobs'[o].pc = next /\ jobs'[o].left = jobs[o].left
      /\ jobs'[o].at = at /\ jobs'[o].put = put /\ jobs'[o].then = jobs[o].then
  BY <1>4, GotoFields
<1>6. JobOK(o)'
  <2>1. PublishOK(o) /\ PublishOK(o)'
    BY <1>1, <1>2, <1>5 DEF JobOK, PublishOK, Reference, Deferred
  <2>2. next \in {"submit", "sidecar"} =>
            next = "submit" /\ o \notin Compiles /\ at = o /\ Reference(put, o)
    BY <1>1, <1>4, PublishFacts
  <2>3. next \in {"classify", "bypass"} => o \notin Compiles
    BY <1>1, <1>4, PublishFacts
  <2>4. next \in {"create", "fill", "done", "submit", "classify", "bypass", "failed"}
    BY <1>1, <1>4, PublishFacts
  <2>5. QED
    BY <1>1, <1>2, <1>5, <2>1, <2>2, <2>3, <2>4 DEF JobOK, Writing, Reference
<1>7. FileOK(at)'
  <2>1. CASE files'[at] = files[at]
    BY <1>1, <1>2, <2>1, KeepFile
  <2>2. CASE \E by : files'[at] \in {Absent, Empty(by)}
    <3>1. files'[at].kind \in {"absent", "empty"}
      <4>1. PICK by : files'[at] \in {Absent, Empty(by)}
        BY <2>2
      <4>2. QED
        BY <4>1, KindFields
    <3>2. QED
      BY <3>1 DEF FileOK
  <2>3. CASE \E by : files'[at] = [put EXCEPT !.by = by]
    <3>1. PICK by : files'[at] = [put EXCEPT !.by = by]
      BY <2>3
    <3>2. /\ files'[at].kind = put.kind /\ files'[at].drv = put.drv
          /\ put.kind = "ref" \/ put.kind = "pending"
          /\ put.kind = "ref" => put.drv \in store /\ Makes(put.drv, at)
          /\ put.kind = "pending" => Deferred(at)
      BY <1>1, <3>1, EntryFields
    <3>3. QED
      BY <1>2, <3>2 DEF FileOK, Deferred
  <2>4. CASE files'[at] = put
    <3>1. /\ put.kind = "ref" \/ put.kind = "pending"
          /\ put.kind = "ref" => put.drv \in store /\ Makes(put.drv, at)
          /\ put.kind = "pending" => Deferred(at)
      BY <1>1, EntryFields
    <3>2. QED
      BY <1>2, <2>4, <3>1 DEF FileOK, Deferred
  <2>5. QED
    BY <1>1, <2>1, <2>2, <2>3, <2>4 DEF RemoveOutput, SymlinkOutput, CreateStub, FillStub
<1>8. QED
  BY <1>1, <1>2, <1>5, <1>6, <1>7, StateKept DEF StateOK

\* The real tool keeps what a file may hold.
LEMMA PassTyped ==
    ASSUME StateOK, NEW o \in Outputs, Passthrough(o)
    PROVE  StateOK'
<1>1. JobOK(o) /\ FileOK(o) /\ DOMAIN files = Outputs
  BY DEF StateOK
<1>2. \E next : Goto(o, next) /\ next \in {"bypassed", "failed"}
  BY DEF Passthrough
<1>3. PICK next : Goto(o, next) /\ next \in {"bypassed", "failed"}
  BY <1>2
<1>4. /\ DOMAIN jobs' = Outputs /\ DOMAIN jobs'[o] = Fields
      /\ \A p \in Outputs \ {o} : jobs'[p] = jobs[p]
      /\ jobs'[o].pc = next /\ jobs'[o].left = jobs[o].left
  BY <1>3, GotoFields
<1>5. /\ setting' = setting /\ kills' = kills /\ store' = store /\ DOMAIN files' = Outputs
      /\ \A f \in Outputs : files'[f] = files[f] \/ files'[f] = Foreign
  BY <1>1 DEF Passthrough
<1>6. o \notin Compiles
  BY <1>1 DEF Passthrough, JobOK
<1>7. JobOK(o)'
  BY <1>1, <1>3, <1>4, <1>6 DEF JobOK, Writing
<1>8. \A f \in Outputs : files'[f] = files[f] \/ FileOK(f)'
  <2>1. Foreign.kind = "foreign"
    BY DEF Foreign, Entry
  <2>2. QED
    BY <1>5, <2>1 DEF FileOK
<1>9. QED
  BY <1>4, <1>5, <1>7, <1>8, StateKept DEF StateOK

\* Every step of a recipe keeps StateOK.
LEMMA StepTyped ==
    ASSUME StateOK, NEW o \in Outputs, Step(o)
    PROVE  StateOK'
BY StartTyped, MoveTyped, DecideTyped, WriteTyped, PassTyped DEF Step

\* So does another run of make.
LEMMA RerunTyped ==
    ASSUME StateOK, Rerun
    PROVE  StateOK'
<1>1. /\ setting' = setting /\ kills' = kills /\ store' = store /\ files' = files
      /\ DOMAIN jobs' = Outputs
  BY DEF Rerun
<1>2. ASSUME NEW o \in Outputs PROVE JobOK(o)'
  <2>1. /\ DOMAIN jobs'[o] = Fields /\ jobs'[o].left = <<>>
        /\ jobs'[o].pc \in {"idle", "bypassed", "done"}
        /\ jobs'[o].pc = "bypassed" => jobs[o].pc = "bypassed"
    BY DEF Rerun, Job, Fields
  <2>2. jobs[o].pc = "bypassed" => o \notin Compiles
    BY DEF StateOK, JobOK
  <2>3. ToSet(<<>>) = {}
    BY DEF ToSet
  <2>4. QED
    BY <2>1, <2>2, <2>3 DEF JobOK, Writing
<1>3. \A f \in Outputs : FileOK(f)'
  BY <1>1, KeepFile DEF StateOK
<1>4. QED
  BY <1>1, <1>2, <1>3 DEF StateOK

\* So does every step.
LEMMA NextTyped ==
    ASSUME StateOK, [Next]_vars
    PROVE  StateOK'
<1>1. CASE UNCHANGED vars
  <2>1. setting' = setting /\ kills' = kills /\ store' = store /\ files' = files /\ jobs' = jobs
    BY <1>1 DEF vars
  <2>2. \A o \in Outputs : JobOK(o)' /\ FileOK(o)'
    BY <2>1, KeepJob, KeepFile DEF StateOK
  <2>3. QED
    BY <2>1, <2>2 DEF StateOK
<1>2. CASE cmdAssemble
  <2>1. setting' = setting /\ kills' = kills /\ files' = files /\ jobs' = jobs
        /\ store \subseteq store'
    BY <1>2 DEF cmdAssemble
  <2>2. \A o \in Outputs : JobOK(o)' /\ FileOK(o)'
    BY <2>1, KeepJob, KeepFile DEF StateOK
  <2>3. QED
    BY <2>1, <2>2 DEF StateOK
<1>3. ASSUME NEW o \in Outputs, Kill(o) PROVE StateOK'
  <2>1. /\ DOMAIN jobs' = Outputs /\ DOMAIN jobs'[o] = Fields
        /\ \A p \in Outputs \ {o} : jobs'[p] = jobs[p]
        /\ jobs'[o].pc = "killed" /\ jobs'[o].left = jobs[o].left
    BY <1>3, GotoFields DEF Kill
  <2>2. JobOK(o)'
    BY <2>1 DEF StateOK, JobOK, Writing
  <2>3. setting' = setting /\ kills' \in Nat /\ files' = files /\ store' = store
    BY <1>3 DEF Kill, StateOK
  <2>4. QED
    BY <2>1, <2>2, <2>3, StateKept DEF StateOK
<1>4. QED
  BY <1>1, <1>2, <1>3, StepTyped, RerunTyped DEF Next, Build

-----------------------------------------------------------------------------
\* A step of a recipe is its own: it changes no other job, a recipe that has
\* ended takes none, and the first one waits for the operands.
LEMMA StepBasics ==
    ASSUME StateOK, NEW o \in Outputs, Step(o)
    PROVE  /\ setting' = setting /\ kills' = kills /\ captured' = captured
           /\ store \subseteq store' /\ members \subseteq members'
           /\ \A p \in Outputs \ {o} : jobs'[p] = jobs[p]
           /\ ~Ready(o) /\ jobs[o].pc # "killed"
           /\ jobs'[o].pc \notin {"idle", "killed"}
           /\ jobs[o].pc = "idle" => \A i \in ToSet(Inputs[o]) : Ready(i)
<1>1. JobOK(o) /\ DOMAIN jobs = Outputs
  BY DEF StateOK
<1>2. CASE Start(o)
  <2>1. /\ \A p \in Outputs \ {o} : jobs'[p] = jobs[p]
        /\ jobs'[o].pc \in {"classify", "try", "upload", "staged"}
    BY <1>1, <1>2 DEF Start, Job
  <2>2. QED
    BY <1>2, <2>1 DEF Start, Ready
<1>3. CASE \/ Upload(o) \/ collectSameGroupMembers(o) \/ FallThrough(o)
           \/ ClassifyInput(o) \/ CannotModel(o) \/ maybeSubmit(o) \/ WriteMembers(o)
  <2>1. \A p \in Outputs \ {o} : jobs'[p] = jobs[p]
    BY <1>1, <1>3 DEF Goto, Upload, collectSameGroupMembers, FallThrough, ClassifyInput,
       CannotModel, maybeSubmit, WriteMembers
  <2>2. jobs'[o].pc \in {"staged", "try", "classify", "bypass", "sidecar", "done"}
    BY <1>1, <1>3 DEF Goto, Upload, collectSameGroupMembers, FallThrough, ClassifyInput,
       CannotModel, maybeSubmit, WriteMembers, JobOK, Fields
  <2>3. jobs[o].pc \in {"upload", "try", "classify", "submit", "sidecar"}
    BY <1>3 DEF Upload, collectSameGroupMembers, FallThrough, ClassifyInput,
       CannotModel, maybeSubmit, WriteMembers
  <2>4. /\ setting' = setting /\ kills' = kills /\ captured' = captured
        /\ store \subseteq store' /\ members \subseteq members'
    BY <1>3 DEF Upload, collectSameGroupMembers, FallThrough, ClassifyInput,
       CannotModel, maybeSubmit, WriteMembers
  <2>5. QED
    BY <2>1, <2>2, <2>3, <2>4 DEF Ready
<1>4. CASE \/ SubmitCompile(o) \/ deferCompileToBatch(o) \/ submitCombinedArchive(o)
           \/ ResolvePendingMember(o) \/ SubmitStep(o)
  BY <1>4, DecideFields DEF Ready
<1>5. CASE RemoveOutput(o) \/ SymlinkOutput(o) \/ CreateStub(o) \/ FillStub(o)
  <2>1. jobs[o].pc \in {"remove", "create", "fill"}
    BY <1>5 DEF RemoveOutput, SymlinkOutput, CreateStub, FillStub
  <2>2. jobs[o].then \in {"done", "submit", "classify"}
    BY <1>1, <2>1, PublishFacts DEF Writing
  <2>3. \A p \in Outputs \ {o} : jobs'[p] = jobs[p]
    BY <1>1, <1>5 DEF Goto, RemoveOutput, SymlinkOutput, CreateStub, FillStub
  <2>4. jobs'[o].pc \in {"create", "fill", "done", "submit", "classify", "bypass", "failed"}
    BY <1>1, <1>5, <2>2 DEF Goto, RemoveOutput, SymlinkOutput, CreateStub, FillStub,
       JobOK, Fields
  <2>5. /\ setting' = setting /\ kills' = kills /\ captured' = captured
        /\ store \subseteq store' /\ members \subseteq members'
    BY <1>5 DEF RemoveOutput, SymlinkOutput, CreateStub, FillStub
  <2>6. QED
    BY <2>1, <2>3, <2>4, <2>5 DEF Ready
<1>6. CASE Passthrough(o)
  <2>1. (\A p \in Outputs \ {o} : jobs'[p] = jobs[p]) /\ jobs'[o].pc \in {"bypassed", "failed"}
    BY <1>1, <1>6 DEF Goto, Passthrough, JobOK, Fields
  <2>2. QED
    BY <1>6, <2>1 DEF Passthrough, Ready
<1>7. QED
  BY <1>2, <1>3, <1>4, <1>5, <1>6 DEF Step

\* make starts a recipe after those of its operands, which then stay ended.
LEMMA OrderStep ==
    ASSUME StateOK, \A p \in Outputs : OrderOK(p), NEW o \in Outputs, Step(o)
    PROVE  \A p \in Outputs : OrderOK(p)'
<1> SUFFICES ASSUME NEW p \in Outputs PROVE OrderOK(p)'
  OBVIOUS
<1>1. \A i \in Outputs : Ready(i) => Ready(i)'
  BY StepBasics DEF Ready
<1>2. jobs'[p].pc # "killed"
  BY StepBasics DEF OrderOK
<1>3. jobs[p].pc = "idle" => jobs'[p].pc = "idle" \/ \A i \in ToSet(Inputs[p]) : Ready(i)
  BY StepBasics
<1>4. QED
  BY <1>1, <1>2, <1>3, OperandsOK DEF OrderOK

\* Two recipes at work on a file that one at a time writes are one.
LEMMA OneAtWork ==
    ASSUME StateOK, \A p \in Outputs : OrderOK(p), NEW f \in Outputs, OneWriter(f),
           NEW v \in Outputs, NEW w \in Outputs, Writing(v), Writing(w),
           jobs[v].at = f, jobs[w].at = f
    PROVE  v = w
<1>1. \A p \in {v, w} : p # f =>
        f \in ToSet(Inputs[p]) /\ Deferred(f) /\ Ready(f)
  <2>1. ASSUME NEW p \in {v, w}, p # f PROVE f \in ToSet(Inputs[p]) /\ Deferred(f) /\ Ready(f)
    <3>1. JobOK(p) /\ Writing(p) /\ jobs[p].at = f /\ p \in Outputs
      BY DEF StateOK
    <3>2. f \in ToSet(Inputs[p]) /\ Deferred(f)
      BY <2>1, <3>1, PublishFacts
    <3>3. QED
      BY <3>1, <3>2 DEF OrderOK, Writing
  <2>2. QED
    BY <2>1
<1>2. ~Ready(f) \/ (v # f /\ w # f)
  BY DEF Writing, Ready
<1>3. QED
  BY <1>1, <1>2 DEF OneWriter

-----------------------------------------------------------------------------
\* What is declared stays declared.
LEMMA DeclaredStays ==
    ASSUME members \subseteq members', NEW d, Declared(d)
    PROVE  Declared(d)'
BY DEF Declared, MembersOf

\* A step that writes no file leaves every file settled.
LEMMA QuietSettled ==
    ASSUME \A p \in Outputs : SettledOK(p), NEW o \in Outputs,
           \A p \in Outputs \ {o} : jobs'[p] = jobs[p],
           files' = files, setting' = setting, members \subseteq members',
           jobs[o].pc \notin {"create", "fill"},
           jobs'[o].pc \notin {"create", "fill", "bypassed"},
           jobs'[o].pc \in {"submit", "sidecar"} =>
                jobs[o].pc \in {"submit", "sidecar"} /\ jobs'[o].put = jobs[o].put,
           jobs'[o].pc = "done" => jobs[o].pc \in {"submit", "sidecar"},
           jobs'[o].pc = "done" /\ o \in Archives /\ OneWriter(o) => Declared(files[o].drv)'
    PROVE  \A f \in Outputs : SettledOK(f)'
<1> SUFFICES ASSUME NEW f \in Outputs, OneWriter(f) PROVE SettledOK(f)'
  BY DEF SettledOK, OneWriter, Deferred
<1>1. SettledOK(f)
  OBVIOUS
<1>2. \A w \in Outputs : jobs'[w].at = f =>
        /\ jobs'[w].pc = "create" => files'[f] = Absent
        /\ jobs'[w].pc = "fill" => files'[f] = Empty({w})
  BY <1>1 DEF SettledOK
<1>3. ASSUME jobs'[f].pc \in {"submit", "sidecar", "done"},
             \A w \in Outputs : jobs'[w].at = f => jobs'[w].pc \notin {"create", "fill"}
      PROVE  files'[f].kind \in {"pending", "ref"}
  <2>1. jobs[f].pc \in {"submit", "sidecar", "done"}
    BY <1>3
  <2>2. \A w \in Outputs : jobs[w].at = f => jobs[w].pc \notin {"create", "fill"}
    BY <1>3
  <2>3. QED
    BY <1>1, <2>1, <2>2 DEF SettledOK
<1>4. jobs'[f].pc = "bypassed" => files'[f] = Foreign
  BY <1>1 DEF SettledOK
<1>5. jobs'[f].pc \in {"submit", "sidecar"} => files'[f] = jobs'[f].put
  BY <1>1 DEF SettledOK
<1>6. f \in Archives /\ jobs'[f].pc = "done" => Declared(files[f].drv)'
  <2>1. CASE f = o
    BY <2>1
  <2>2. CASE f # o
    BY <1>1, <2>2, DeclaredStays DEF SettledOK
  <2>3. QED
    BY <2>1, <2>2
<1>7. QED
  BY <1>2, <1>3, <1>4, <1>5, <1>6 DEF SettledOK, Empty

\* What a publishing step leaves at a file that one recipe at a time writes.
LEMMA WriteFields ==
    ASSUME StateOK, NEW o \in Outputs, SettledOK(jobs[o].at), OneWriter(jobs[o].at),
           RemoveOutput(o) \/ SymlinkOutput(o) \/ CreateStub(o) \/ FillStub(o)
    PROVE  LET f == jobs[o].at
           IN  \/ jobs'[o].pc = "create" /\ files'[f] = Absent
               \/ jobs'[o].pc = "fill" /\ files'[f] = Empty({o})
               \/ jobs'[o].pc = jobs[o].then /\ files'[f] = jobs[o].put
<1> PICK f, put, next : f = jobs[o].at /\ put = jobs[o].put /\ next = jobs[o].then
  OBVIOUS
<1>1. /\ DOMAIN files = Outputs /\ f \in Outputs /\ Writing(o) /\ JobOK(o)
      /\ jobs[o].pc = "create" => files[f] = Absent
      /\ jobs[o].pc = "fill" => files[f] = Empty({o})
      /\ Reference(put, f) \/ (put = Pending(f) /\ Deferred(f))
  BY PublishFacts DEF StateOK, SettledOK, Writing, RemoveOutput, SymlinkOutput, CreateStub,
     FillStub
<1>2. Absent.kind = "absent" /\ Absent.by = {} /\ Empty({o}).by = {o}
  BY KindFields
<1>3. CASE RemoveOutput(o)
  BY <1>1, <1>3, GotoFields DEF RemoveOutput
<1>4. CASE SymlinkOutput(o)
  <2>1. files' = [files EXCEPT ![f] = put] /\ Goto(o, next)
    BY <1>1, <1>2, <1>4 DEF SymlinkOutput
  <2>2. QED
    BY <1>1, <2>1, GotoFields
<1>5. CASE CreateStub(o)
  <2>1. files' = [files EXCEPT ![f] = Empty(files[f].by \cup {o})] /\ Goto(o, "fill")
        /\ files[f] = Absent
    BY <1>1, <1>5 DEF CreateStub
  <2>2. files[f].by \cup {o} = {o}
    BY <1>2, <2>1
  <2>3. QED
    BY <1>1, <2>1, <2>2, GotoFields
<1>6. CASE FillStub(o)
  <2>1. files[f].by = {o} /\ Goto(o, next)
    BY <1>1, <1>2, <1>6 DEF FillStub
  <2>2. files' = [files EXCEPT ![f] = [put EXCEPT !.by = files[f].by \ {o}]]
    BY <1>1, <1>6, <2>1 DEF FillStub
  <2>3. [put EXCEPT !.by = {}] = put
    BY <1>1, EntryFields
  <2>4. files[f].by \ {o} = {}
    BY <2>1
  <2>5. QED
    BY <1>1, <2>1, <2>2, <2>3, <2>4, GotoFields
<1>7. QED
  BY <1>3, <1>4, <1>5, <1>6

\* A file that a step neither writes nor has in hand stays settled.
LEMMA StillSettled ==
    ASSUME NEW f \in Outputs, OneWriter(f), SettledOK(f), files'[f] = files[f],
           \A w \in Outputs : jobs'[w].at = f /\ jobs'[w].pc \in {"create", "fill"} =>
                jobs'[w] = jobs[w],
           \A w \in Outputs : jobs[w].at = f /\ jobs[w].pc \in {"create", "fill"} =>
                jobs'[w] = jobs[w],
           jobs'[f].pc \in {"submit", "sidecar", "done", "bypassed"} => jobs'[f] = jobs[f],
           f \in Archives /\ jobs'[f].pc = "done" => Declared(files[f].drv)'
    PROVE  SettledOK(f)'
<1>1. \A w \in Outputs : jobs'[w].at = f =>
        /\ jobs'[w].pc = "create" => files'[f] = Absent
        /\ jobs'[w].pc = "fill" => files'[f] = Empty({w})
  BY DEF SettledOK
<1>2. ASSUME jobs'[f].pc \in {"submit", "sidecar", "done"},
             \A w \in Outputs : jobs'[w].at = f => jobs'[w].pc \notin {"create", "fill"}
      PROVE  files'[f].kind \in {"pending", "ref"}
  <2>1. \A w \in Outputs : jobs[w].at = f => jobs[w].pc \notin {"create", "fill"}
    BY <1>2
  <2>2. jobs[f].pc \in {"submit", "sidecar", "done"}
    BY <1>2
  <2>3. QED
    BY <2>1, <2>2 DEF SettledOK
<1>3. /\ jobs'[f].pc = "bypassed" => files'[f] = Foreign
      /\ jobs'[f].pc \in {"submit", "sidecar"} => files'[f] = jobs'[f].put
  BY DEF SettledOK
<1>4. QED
  BY <1>1, <1>2, <1>3 DEF SettledOK, Empty

\* A recipe at work on a file unsettles no other file.
LEMMA WriteSettled ==
    ASSUME StateOK, \A p \in Outputs : OrderOK(p) /\ SettledOK(p), NEW o \in Outputs,
           RemoveOutput(o) \/ SymlinkOutput(o) \/ CreateStub(o) \/ FillStub(o)
    PROVE  \A f \in Outputs : SettledOK(f)'
<1> SUFFICES ASSUME NEW f \in Outputs, OneWriter(f) PROVE SettledOK(f)'
  <2>1. setting' = setting
    BY DEF RemoveOutput, SymlinkOutput, CreateStub, FillStub
  <2>2. QED
    BY <2>1 DEF SettledOK, OneWriter, Deferred
<1> PICK at, put, next : at = jobs[o].at /\ put = jobs[o].put /\ next = jobs[o].then
  OBVIOUS
<1>1. /\ JobOK(o) /\ JobOK(f) /\ Writing(o) /\ SettledOK(f) /\ DOMAIN files = Outputs
      /\ at \in Outputs
  BY PublishFacts DEF StateOK, Writing, RemoveOutput, SymlinkOutput, CreateStub, FillStub
<1>2. /\ Reference(put, at) \/ (put = Pending(at) /\ Deferred(at))
      /\ next \in {"done", "submit", "classify"}
      /\ next = "classify" => Deferred(at) /\ at \in ToSet(Inputs[o])
      /\ next \in {"done", "submit"} => at = o
      /\ next = "done" => o \in Compiles
  BY <1>1, PublishFacts
<1>3. /\ \A p \in Outputs \ {o} : jobs'[p] = jobs[p]
      /\ jobs'[o].at = at /\ jobs'[o].put = put
      /\ jobs'[o].pc \in {"create", "fill", "bypass", "failed", next}
      /\ members' = members
  <2>1. CASE RemoveOutput(o)
    BY <2>1, GotoFields DEF RemoveOutput
  <2>2. CASE SymlinkOutput(o)
    BY <1>1, <2>2 DEF SymlinkOutput, StateOK, JobOK, Goto, Fields
  <2>3. CASE CreateStub(o)
    BY <2>3, GotoFields DEF CreateStub
  <2>4. CASE FillStub(o)
    BY <2>4, GotoFields DEF FillStub
  <2>5. QED
    BY <2>1, <2>2, <2>3, <2>4
<1>4. CASE f # at
  <2>1. files'[f] = files[f]
    BY <1>1, <1>4 DEF RemoveOutput, SymlinkOutput, CreateStub, FillStub
  <2>2. \A w \in Outputs : jobs'[w].at = f => w # o /\ jobs'[w] = jobs[w]
    BY <1>3, <1>4
  <2>3. jobs'[f].pc \in {"submit", "sidecar", "done", "bypassed"} => jobs'[f] = jobs[f]
    BY <1>2, <1>3, <1>4
  <2>4. \A w \in Outputs : jobs[w].at = f => w # o /\ jobs'[w] = jobs[w]
    BY <1>3, <1>4
  <2>5. f \in Archives /\ jobs'[f].pc = "done" => Declared(files[f].drv)'
    BY <1>1, <1>3, <2>1, <2>3, DeclaredStays DEF SettledOK
  <2>6. QED
    BY <1>1, <2>1, <2>2, <2>3, <2>4, <2>5, StillSettled
<1>5. CASE f = at
  <2>1. \A w \in Outputs \ {o} : jobs[w].at = f => ~Writing(w)
    BY <1>1, <1>5, OneAtWork
  <2>2. \/ jobs'[o].pc = "create" /\ files'[f] = Absent
        \/ jobs'[o].pc = "fill" /\ files'[f] = Empty({o})
        \/ jobs'[o].pc = next /\ files'[f] = put
    BY <1>1, <1>5, WriteFields
  <2>3. f # o => f \in Compiles /\ jobs'[f] = jobs[f]
                    /\ jobs[f].pc \notin {"submit", "sidecar", "bypassed"}
    <3>1. f # o => Deferred(f)
      BY <1>2, <1>5
    <3>2. f \in Compiles => jobs[f].pc \notin {"submit", "sidecar", "bypassed"}
      BY <1>1, ToolsAssumption DEF JobOK
    <3>3. QED
      BY <1>3, <3>1, <3>2 DEF Deferred
  <2>4. \A w \in Outputs : jobs'[w].at = f /\ w # o => jobs'[w].pc \notin {"create", "fill"}
    BY <1>3, <2>1 DEF Writing
  <2>5. put.kind \in {"pending", "ref"}
    BY <1>2, <1>5, EntryFields
  <2>6. \A w \in Outputs : jobs'[w].at = f =>
            /\ jobs'[w].pc = "create" => files'[f] = Absent
            /\ jobs'[w].pc = "fill" => files'[f] = Empty({w})
    BY <1>2, <2>2, <2>4
  <2>7. jobs'[o].pc \notin {"create", "fill"} => files'[f].kind \in {"pending", "ref"}
    BY <2>2, <2>5
  <2>8. jobs'[f].pc # "bypassed"
    BY <1>2, <1>3, <2>3
  <2>9. jobs'[f].pc \in {"submit", "sidecar"} => files'[f] = jobs'[f].put
    BY <1>2, <1>3, <2>2, <2>3
  <2>10. ~(f \in Archives /\ jobs'[f].pc = "done")
    BY <1>2, <1>3, <2>2, <2>3, ToolsAssumption
  <2>11. QED
    BY <1>3, <1>5, <2>6, <2>7, <2>8, <2>9, <2>10 DEF SettledOK, Empty
<1>6. QED
  BY <1>4, <1>5

\* The real tool unsettles no file but the output it is run for.
LEMMA PassSettled ==
    ASSUME StateOK, \A p \in Outputs : OrderOK(p) /\ SettledOK(p), NEW o \in Outputs,
           Passthrough(o)
    PROVE  \A f \in Outputs : SettledOK(f)'
<1> SUFFICES ASSUME NEW f \in Outputs, OneWriter(f) PROVE SettledOK(f)'
  BY DEF SettledOK, OneWriter, Deferred, Passthrough
<1>1. /\ JobOK(o) /\ SettledOK(f) /\ DOMAIN files = Outputs
      /\ jobs[o].pc = "bypass" /\ o \notin Compiles /\ members' = members
  BY DEF StateOK, JobOK, Passthrough
<1>2. /\ \A p \in Outputs \ {o} : jobs'[p] = jobs[p]
      /\ jobs'[o].pc \in {"bypassed", "failed"}
      /\ jobs'[o].pc = "bypassed" => files'[o] = Foreign
      /\ \A g \in Outputs \ {o} : files'[g] = files[g]
  BY <1>1, GotoFields DEF Passthrough
<1>3. CASE f # o
  <2>1. files'[f] = files[f] /\ jobs'[f] = jobs[f]
    BY <1>2, <1>3
  <2>2. \A w \in Outputs : jobs'[w].pc \in {"create", "fill"} => jobs'[w] = jobs[w]
    BY <1>2
  <2>3. \A w \in Outputs : jobs[w].pc \in {"create", "fill"} => jobs'[w] = jobs[w]
    BY <1>1, <1>2
  <2>4. f \in Archives /\ jobs'[f].pc = "done" => Declared(files[f].drv)'
    BY <1>1, <2>1, DeclaredStays DEF SettledOK
  <2>5. QED
    BY <1>1, <2>1, <2>2, <2>3, <2>4, StillSettled
<1>4. CASE f = o
  <2>1. ASSUME NEW w \in Outputs, jobs'[w].at = f
        PROVE  jobs'[w].pc \notin {"create", "fill"}
    <3>1. SUFFICES ASSUME jobs'[w].pc \in {"create", "fill"} PROVE FALSE
      OBVIOUS
    <3>2. w # o /\ jobs[w] = jobs'[w] /\ JobOK(w) /\ Writing(w)
      BY <1>2, <3>1 DEF StateOK, Writing
    <3>3. Deferred(f)
      BY <1>4, <2>1, <3>2, PublishFacts
    <3>4. QED
      BY <1>1, <1>4, <3>3 DEF Deferred
  <2>2. jobs'[f].pc \notin {"submit", "sidecar", "done"}
    BY <1>2, <1>4
  <2>3. QED
    BY <1>2, <1>4, <2>1, <2>2 DEF SettledOK, Empty
<1>5. QED
  BY <1>3, <1>4

\* What is settled stays so in every step of a recipe.
LEMMA SettledStep ==
    ASSUME StateOK, \A p \in Outputs : OrderOK(p) /\ SettledOK(p) /\ GatheredOK(p),
           NEW o \in Outputs, Step(o)
    PROVE  \A f \in Outputs : SettledOK(f)'
<1>1. JobOK(o) /\ SettledOK(o) /\ GatheredOK(o) /\ DOMAIN jobs = Outputs
  BY DEF StateOK
<1>2. setting' = setting /\ members \subseteq members'
      /\ \A p \in Outputs \ {o} : jobs'[p] = jobs[p]
  BY StepBasics
<1>3. CASE \/ Start(o) \/ Upload(o) \/ collectSameGroupMembers(o) \/ FallThrough(o)
           \/ ClassifyInput(o) \/ CannotModel(o)
  <2>1. files' = files /\ jobs[o].pc \in {"idle", "upload", "try", "classify"}
    BY <1>3 DEF Start, Upload, collectSameGroupMembers, FallThrough, ClassifyInput, CannotModel
  <2>2. jobs'[o].pc \in {"classify", "try", "upload", "staged", "bypass"}
    <3>1. CASE Start(o)
      BY <1>1, <3>1 DEF Start, Job
    <3>2. CASE Upload(o) \/ collectSameGroupMembers(o) \/ FallThrough(o)
      BY <1>1, <3>2 DEF Upload, collectSameGroupMembers, FallThrough, Goto, JobOK, Fields
    <3>3. CASE ClassifyInput(o) \/ CannotModel(o)
      BY <1>1, <3>3 DEF ClassifyInput, CannotModel, Goto, JobOK, Fields
    <3>4. QED
      BY <1>3, <3>1, <3>2, <3>3
  <2>3. QED
    BY <1>2, <2>1, <2>2, QuietSettled
<1>4. CASE maybeSubmit(o) \/ WriteMembers(o)
  <2>1. /\ files' = files /\ jobs[o].pc \in {"submit", "sidecar"}
        /\ jobs'[o].pc \in {"sidecar", "done"} /\ jobs'[o].put = jobs[o].put
    BY <1>1, <1>4 DEF maybeSubmit, WriteMembers, Goto, JobOK, Fields
  <2>2. ASSUME jobs'[o].pc = "done", o \in Archives, OneWriter(o)
        PROVE  Declared(files[o].drv)'
    <3> PICK d : d = jobs[o].put.drv
      OBVIOUS
    <3>1. files[o].drv = d /\ Makes(d, o)
      BY <1>1, <2>1, <2>2 DEF SettledOK, JobOK, Reference
    <3>2. CASE maybeSubmit(o)
      <4>1. ~(o \in Thin /\ d.step = "archive")
        BY <1>1, <2>2, <3>2 DEF maybeSubmit, Goto, JobOK, Fields
      <4>2. d.of = o
        BY <2>2, <3>1, ToolsAssumption DEF Makes
      <4>3. QED
        BY <2>1, <3>1, <4>1, <4>2 DEF Declared, IsThin
    <3>3. CASE WriteMembers(o)
      <4>1. /\ jobs[o].pc = "sidecar"
            /\ members' = members \cup [archive : {d}, member : ToSet(jobs[o].got)]
        BY <3>3 DEF WriteMembers
      <4>2. d.step = "archive" => jobs[o].got = d.inputs
        BY <1>1, <4>1 DEF GatheredOK
      <4>3. \A e \in ToSet(jobs[o].got) :
                \E m \in members' : m.archive = d /\ m.member = e
        <5>1. SUFFICES ASSUME NEW e \in ToSet(jobs[o].got)
                       PROVE  \E m \in members' : m.archive = d /\ m.member = e
          OBVIOUS
        <5>2. [archive |-> d, member |-> e] \in members'
          BY <4>1
        <5>3. QED
          BY <5>2
      <4>4. \A e \in ToSet(jobs[o].got) : e \in MembersOf({d})'
        BY <4>3 DEF MembersOf
      <4>5. QED
        BY <2>1, <3>1, <4>2, <4>4 DEF Declared, IsThin
    <3>4. QED
      BY <1>4, <3>2, <3>3
  <2>3. QED
    BY <1>2, <2>1, <2>2, QuietSettled
<1>5. CASE \/ SubmitCompile(o) \/ deferCompileToBatch(o) \/ submitCombinedArchive(o)
           \/ ResolvePendingMember(o) \/ SubmitStep(o)
  <2>1. /\ files' = files /\ jobs[o].pc \in {"staged", "try", "classify"}
        /\ jobs'[o].pc = "remove"
    BY <1>5, DecideFields
  <2>2. QED
    BY <1>2, <2>1, QuietSettled
<1>6. QED
  BY <1>3, <1>4, <1>5, WriteSettled, PassSettled DEF Step

-----------------------------------------------------------------------------
\* Archives of archives nest only so deep.
LEMMA DepthOK == Depth \in Nat
<1>1. Archives \subseteq Outputs
  BY DEF Outputs
<1>2. QED
  BY <1>1, ToolsAssumption, FS_Subset, FS_CardinalityType DEF Depth

\* What covers an operand covers it when there is more of both.
LEMMA CoversGrow ==
    ASSUME store \subseteq store', NEW d, NEW U, NEW V, U \subseteq V, Covers(U, d)
    PROVE  Covers(V, d)'
<1>1. PICK r \in [0 .. Depth -> SUBSET store] :
            /\ ThinInputs({d}) \subseteq r[0]
            /\ \A n \in 1 .. Depth : r[n - 1] \cup ThinInputs(r[n - 1]) \subseteq r[n]
            /\ r[Depth] \subseteq U
  BY DEF Covers
<1>2. r \in [0 .. Depth -> SUBSET store']
  BY <1>1
<1>3. r[Depth] \subseteq V
  BY <1>1
<1>4. QED
  BY <1>1, <1>2, <1>3 DEF Covers

\* What covers a derivation still does with more in it.
LEMMA CoversMore ==
    ASSUME NEW d, NEW U, NEW V, U \subseteq V, Covers(U, d)
    PROVE  Covers(V, d)
<1>1. PICK r \in [0 .. Depth -> SUBSET store] :
            /\ ThinInputs({d}) \subseteq r[0]
            /\ \A n \in 1 .. Depth : r[n - 1] \cup ThinInputs(r[n - 1]) \subseteq r[n]
            /\ r[Depth] \subseteq U
  BY DEF Covers
<1>2. r[Depth] \subseteq V
  BY <1>1
<1>3. QED
  BY <1>1, <1>2 DEF Covers

\* Following the sidecars from an operand that has been declared reaches all
\* that a step which reads it may open.
LEMMA ExpandCovers ==
    ASSUME \A m \in members : MemberOK(m), NEW e, Declared(e),
           NEW U, expandMembers(e) \subseteq U
    PROVE  Covers(U, e)
<1> DEFINE D == {z \in store : Declared(z)}
           G == [T \in SUBSET D |-> MembersOf(T)]
           Is(f) == f = [n \in 0 .. Depth |->
                        IF n = 0 THEN MembersOf({e}) ELSE f[n - 1] \cup MembersOf(f[n - 1])]
           r == CHOOSE f : Is(f)
<1>1. \A T : MembersOf(T) \subseteq D
  BY DEF MembersOf, MemberOK
<1>2. G \in [SUBSET D -> SUBSET D] /\ MembersOf({e}) \in SUBSET D
  BY <1>1
<1>3. expandMembers(e) = r[Depth]
  BY DEF expandMembers, Depth
<1> HIDE DEF D
<1>4. Is(r)
  <2> HIDE DEF G
  <2>1. PICK f : Repeats(f, D, MembersOf({e}), G, Depth)
    BY <1>2, DepthOK, Repeated
  <2>2. \A n \in 0 .. Depth : n # 0 => n \in 1 .. Depth /\ f[n - 1] \in SUBSET D
    BY <2>1, DepthOK DEF Repeats
  <2>3. \A n \in 0 .. Depth : n # 0 => G[f[n - 1]] = MembersOf(f[n - 1])
    BY <2>2 DEF G
  <2>4. \A n \in 0 .. Depth :
            f[n] = IF n = 0 THEN MembersOf({e}) ELSE f[n - 1] \cup MembersOf(f[n - 1])
    BY <2>1, <2>2, <2>3 DEF Repeats
  <2>5. Is(f)
    BY <2>1, <2>4 DEF Repeats
  <2> HIDE DEF Is
  <2>6. QED
    BY <2>5
<1> HIDE DEF r
<1>5. /\ r[0] = MembersOf({e})
      /\ \A n \in 1 .. Depth : r[n] = r[n - 1] \cup MembersOf(r[n - 1])
  <2>1. \A n \in 0 .. Depth :
            r[n] = IF n = 0 THEN MembersOf({e}) ELSE r[n - 1] \cup MembersOf(r[n - 1])
    BY <1>4
  <2>2. 0 \in 0 .. Depth /\ \A n \in 1 .. Depth : n \in 0 .. Depth /\ n # 0
    BY DepthOK
  <2>3. QED
    BY <2>1, <2>2
<1>6. \A n \in 0 .. Depth : r[n] \subseteq D
  <2> DEFINE H == {n \in Nat : r[n] \subseteq D}
  <2>1. 0 \in H
    BY <1>1, <1>5
  <2>2. ASSUME NEW n \in 0 .. Depth, n # 0, n - 1 \in H PROVE n \in H
    <3>1. n \in 1 .. Depth /\ r[n - 1] \subseteq D
      BY <2>2, DepthOK
    <3>2. QED
      BY <1>1, <1>5, <3>1
  <2> HIDE DEF H
  <2>3. \A n \in 0 .. Depth : n \in H
    BY <2>1, <2>2, DepthOK, UpTo
  <2>4. QED
    BY <2>3 DEF H
<1>7. r \in [0 .. Depth -> SUBSET store]
  <2>1. DOMAIN r = 0 .. Depth /\ r = [n \in 0 .. Depth |-> r[n]]
    BY <1>4
  <2>2. \A n \in 0 .. Depth : r[n] \in SUBSET store
    BY <1>6 DEF D
  <2>3. QED
    BY <2>1, <2>2
<1>8. \A T \in SUBSET D : ThinInputs(T) \subseteq MembersOf(T)
  BY DEF ThinInputs, MembersOf, Declared, D
<1>9. ThinInputs({e}) \subseteq r[0]
  BY <1>5 DEF ThinInputs, Declared
<1>10. \A n \in 1 .. Depth : r[n - 1] \cup ThinInputs(r[n - 1]) \subseteq r[n]
  <2>1. \A n \in 1 .. Depth : n - 1 \in 0 .. Depth
    BY DepthOK
  <2>2. QED
    BY <1>5, <1>6, <1>8, <2>1
<1>11. QED
  BY <1>3, <1>7, <1>9, <1>10 DEF Covers

\* A longer store keeps what was gathered from a shorter one.
LEMMA SeqGrow ==
    ASSUME NEW S, NEW T, S \subseteq T, NEW s \in Seq(S)
    PROVE  s \in Seq(T)
BY SeqMonotonic

\* What a recipe has gathered stays covered, whatever the others do.
LEMMA KeepGathered ==
    ASSUME NEW o \in Outputs, GatheredOK(o), store \subseteq store', members \subseteq members',
           jobs'[o].got = jobs[o].got, jobs[o].extra = jobs'[o].extra,
           Gathering(o)' => Gathering(o)
    PROVE  Gathering(o)' =>
                (/\ jobs[o].got \in Seq(store)
                 /\ \A e \in ToSet(jobs[o].got) :
                    Declared(e) /\ Covers(ToSet(jobs[o].got) \cup jobs[o].extra, e))'
<1> SUFFICES ASSUME Gathering(o)'
             PROVE  (/\ jobs[o].got \in Seq(store)
                     /\ \A e \in ToSet(jobs[o].got) :
                        Declared(e) /\ Covers(ToSet(jobs[o].got) \cup jobs[o].extra, e))'
  OBVIOUS
<1> PICK got, U : got = jobs[o].got /\ U = ToSet(jobs[o].got) \cup jobs[o].extra
  OBVIOUS
<1>1. got \in Seq(store) /\ \A e \in ToSet(got) : Declared(e) /\ Covers(U, e)
  BY DEF GatheredOK
<1>2. got \in Seq(store')
  BY <1>1, SeqGrow
<1>3. \A e \in ToSet(got) : Declared(e)' /\ Covers(U, e)'
  BY <1>1, DeclaredStays, CoversGrow
<1>4. QED
  BY <1>2, <1>3

\* What a recipe has gathered stays gathered when another takes a step.
LEMMA OthersGathered ==
    ASSUME NEW o \in Outputs, GatheredOK(o), store \subseteq store', members \subseteq members',
           jobs'[o] = jobs[o]
    PROVE  GatheredOK(o)'
<1>1. Gathering(o)' => Gathering(o)
  BY DEF Gathering, Writing
<1>2. QED
  BY <1>1, KeepGathered DEF GatheredOK, Writing

\* An operand that a consumer classifies has declared its own members.
LEMMA OperandDeclared ==
    ASSUME StateOK, \A p \in Outputs : OrderOK(p) /\ SettledOK(p),
           NEW o \in Outputs, jobs[o].pc # "idle", NEW i \in ToSet(Inputs[o]),
           files[i].kind = "ref"
    PROVE  files[i].drv \in store /\ Declared(files[i].drv)
<1>1. i \in Outputs /\ FileOK(i) /\ Ready(i) /\ SettledOK(i)
  BY OperandsOK DEF StateOK, OrderOK
<1>2. files[i].drv \in store /\ Makes(files[i].drv, i)
  BY <1>1 DEF FileOK
<1>3. ASSUME files[i].drv.step = "archive" PROVE Declared(files[i].drv)
  <2>1. i \in Archives /\ i \notin Compiles
    BY <1>2, <1>3, ToolsAssumption DEF Makes
  <2>2. OneWriter(i)
    BY <2>1 DEF OneWriter, Deferred
  <2>3. jobs[i].pc # "bypassed"
    BY <1>1, <2>2, KindFields DEF SettledOK
  <2>4. jobs[i].pc = "done"
    BY <1>1, <2>3 DEF Ready
  <2>5. QED
    BY <1>1, <2>1, <2>2, <2>4 DEF SettledOK
<1>4. QED
  BY <1>2, <1>3 DEF Declared, IsThin

\* A consumer that classifies an operand gathers what the operand is built from.
LEMMA ClassifyGathered ==
    ASSUME StateOK, \A p \in Outputs : OrderOK(p) /\ SettledOK(p),
           \A m \in members : MemberOK(m),
           NEW o \in Outputs, GatheredOK(o), ClassifyInput(o)
    PROVE  GatheredOK(o)'
<1> PICK e, got, ins, extra :
        /\ e = files[Head(jobs[o].left)].drv /\ got = jobs[o].got
        /\ ins = Append(got, e) /\ extra = jobs[o].extra \cup (expandMembers(e) \ ToSet(ins))
  OBVIOUS
<1>1. /\ JobOK(o) /\ DOMAIN jobs = Outputs /\ jobs[o].pc = "classify" /\ jobs[o].left # <<>>
      /\ files[Head(jobs[o].left)].kind = "ref"
      /\ store' = store /\ members' = members
  BY DEF StateOK, ClassifyInput
<1>2. Head(jobs[o].left) \in ToSet(Inputs[o])
  BY <1>1, TailSet DEF JobOK
<1>3. e \in store /\ Declared(e)
  BY <1>1, <1>2, OperandDeclared
<1>4. /\ jobs'[o].pc = "classify" /\ jobs'[o].got = ins /\ jobs'[o].extra = extra
  BY <1>1 DEF ClassifyInput, JobOK, Fields
<1>5. /\ got \in Seq(store)
      /\ \A x \in ToSet(got) : Declared(x) /\ Covers(ToSet(got) \cup jobs[o].extra, x)
  BY <1>1 DEF GatheredOK, Gathering
<1>6. ins \in Seq(store) /\ ToSet(ins) = ToSet(got) \cup {e}
  BY <1>3, <1>5, AppendSet
<1>7. Covers(ToSet(ins) \cup extra, e)
  <2>1. expandMembers(e) \subseteq ToSet(ins) \cup extra
    OBVIOUS
  <2>2. QED
    BY <1>3, <2>1, ExpandCovers
<1>8. \A x \in ToSet(got) : Covers(ToSet(ins) \cup extra, x)
  <2>1. ToSet(got) \cup jobs[o].extra \subseteq ToSet(ins) \cup extra
    BY <1>6
  <2>2. QED
    BY <1>5, <2>1, CoversMore
<1>9. \A x \in ToSet(ins) : Declared(x)' /\ Covers(ToSet(ins) \cup extra, x)'
  <2>1. \A x \in ToSet(ins) : Declared(x) /\ Covers(ToSet(ins) \cup extra, x)
    BY <1>3, <1>5, <1>6, <1>7, <1>8
  <2>2. QED
    BY <1>1, <2>1, DeclaredStays, CoversGrow
<1>10. QED
  BY <1>1, <1>4, <1>6, <1>9 DEF GatheredOK, Gathering, Writing

\* What a recipe has gathered, and what it publishes of it.
LEMMA GatheredStep ==
    ASSUME StateOK, \A p \in Outputs : OrderOK(p) /\ SettledOK(p) /\ GatheredOK(p),
           \A m \in members : MemberOK(m), NEW o \in Outputs, Step(o)
    PROVE  \A p \in Outputs : GatheredOK(p)'
<1>1. /\ JobOK(o) /\ GatheredOK(o) /\ DOMAIN jobs = Outputs
      /\ store \subseteq store' /\ members \subseteq members'
      /\ \A p \in Outputs \ {o} : jobs'[p] = jobs[p]
  BY StepBasics DEF StateOK
<1>2. SUFFICES GatheredOK(o)'
  BY <1>1, OthersGathered
<1>3. CASE Start(o)
  <2>1. /\ jobs'[o].got = <<>>
        /\ jobs'[o].pc \in {"classify", "try", "upload", "staged"}
    BY <1>1, <1>3 DEF Start, Job
  <2>2. <<>> \in Seq(store') /\ ToSet(<<>>) = {}
    BY DEF ToSet
  <2>3. QED
    BY <2>1, <2>2 DEF GatheredOK, Writing
<1>4. CASE Upload(o) \/ collectSameGroupMembers(o) \/ CannotModel(o) \/ WriteMembers(o)
  <2>1. jobs'[o].pc \in {"staged", "try", "bypass", "done"}
    BY <1>1, <1>4 DEF Upload, collectSameGroupMembers, CannotModel, WriteMembers, Goto,
       JobOK, Fields
  <2>2. QED
    BY <2>1 DEF GatheredOK, Gathering, Writing
<1>5. CASE FallThrough(o)
  <2>1. jobs'[o].got = <<>> /\ jobs'[o].pc = "classify"
    BY <1>1, <1>5 DEF FallThrough, JobOK, Fields
  <2>2. <<>> \in Seq(store') /\ ToSet(<<>>) = {}
    BY DEF ToSet
  <2>3. QED
    BY <2>1, <2>2 DEF GatheredOK, Writing
<1>6. CASE ClassifyInput(o)
  BY <1>1, <1>6, ClassifyGathered
<1>7. CASE SubmitCompile(o) \/ deferCompileToBatch(o) \/ submitCombinedArchive(o)
  <2>1. /\ jobs'[o].pc = "remove" /\ jobs'[o].then # "classify"
        /\ jobs'[o].put.drv.step # "archive"
    <3>1. CASE SubmitCompile(o)
      <4> PICK d : d = CompileDrv(o)
        OBVIOUS
      <4>1. d.step = "compile"
        BY DEF CompileDrv, Derivation
      <4>2. jobs'[o].pc = "remove" /\ jobs'[o].then = "done" /\ jobs'[o].put = Ref(d)
        BY <3>1, PublishFields DEF SubmitCompile
      <4>3. QED
        BY <4>1, <4>2, RefFields
    <3>2. CASE deferCompileToBatch(o)
      <4>1. Pending(o).drv.step = "none"
        BY DEF Pending, Entry, NoDrv, Derivation
      <4>2. /\ jobs'[o].pc = "remove" /\ jobs'[o].then = "done"
            /\ jobs'[o].put = Pending(o)
        BY <3>2, PublishFields DEF deferCompileToBatch
      <4>3. QED
        BY <4>1, <4>2
    <3>3. CASE submitCombinedArchive(o)
      <4>1. BatchDrv(o, jobs[o].got).step = "batch"
        BY DEF BatchDrv, Derivation
      <4>2. QED
        BY <3>3, <4>1, PublishFields, RefFields DEF submitCombinedArchive
    <3>4. QED
      BY <1>7, <3>1, <3>2, <3>3
  <2>2. QED
    BY <2>1 DEF GatheredOK, Gathering
<1>8. CASE ResolvePendingMember(o)
  <2> PICK d : d = CompileDrv(records[Head(jobs[o].left)].tu)
    OBVIOUS
  <2>1. d.step = "compile"
    BY DEF CompileDrv, Derivation
  <2>2. /\ jobs[o].pc = "classify" /\ jobs'[o].pc = "remove"
        /\ jobs'[o].got = jobs[o].got /\ jobs'[o].extra = jobs[o].extra
        /\ jobs'[o].put = Ref(d)
    BY <1>8, PublishFields DEF ResolvePendingMember
  <2>3. jobs'[o].put.drv.step # "archive"
    BY <2>1, <2>2, RefFields
  <2>4. Gathering(o)
    BY <2>2 DEF Gathering
  <2>5. QED
    BY <1>1, <2>2, <2>3, <2>4, KeepGathered DEF GatheredOK
<1>9. CASE SubmitStep(o)
  <2> PICK d : d = StepDrv(o, jobs[o].got, jobs[o].extra)
    OBVIOUS
  <2>1. d.inputs = jobs[o].got
    BY DEF StepDrv, Derivation
  <2>2. /\ jobs'[o].pc = "remove" /\ jobs'[o].then = "submit"
        /\ jobs'[o].got = jobs[o].got /\ jobs'[o].put = Ref(d)
    BY <1>9, PublishFields DEF SubmitStep
  <2>3. jobs'[o].put.drv = d
    BY <2>2, RefFields
  <2>4. QED
    BY <2>1, <2>2, <2>3 DEF GatheredOK, Gathering
<1>10. CASE RemoveOutput(o) \/ SymlinkOutput(o) \/ CreateStub(o) \/ FillStub(o)
  <2>1. /\ jobs'[o].got = jobs[o].got /\ jobs'[o].extra = jobs[o].extra
        /\ jobs'[o].put = jobs[o].put /\ jobs'[o].then = jobs[o].then
    BY <1>1, <1>10 DEF RemoveOutput, SymlinkOutput, CreateStub, FillStub, Goto, JobOK, Fields
  <2>2. Writing(o) /\ jobs[o].then \in {"done", "submit", "classify"}
    BY <1>1, <1>10, PublishFacts DEF RemoveOutput, SymlinkOutput, CreateStub, FillStub, Writing
  <2>3. jobs'[o].pc \in {"create", "fill", "bypass", "failed", jobs[o].then}
    BY <1>1, <1>10 DEF RemoveOutput, SymlinkOutput, CreateStub, FillStub, Goto, JobOK, Fields
  <2>4. Gathering(o)' => Gathering(o)
    BY <2>1, <2>2, <2>3 DEF Gathering, Writing
  <2>5. QED
    BY <1>1, <2>1, <2>2, <2>3, <2>4, KeepGathered DEF GatheredOK
<1>11. CASE Passthrough(o)
  <2>1. jobs'[o].pc \in {"bypassed", "failed"}
    BY <1>1, <1>11 DEF Passthrough, Goto, JobOK, Fields
  <2>2. QED
    BY <2>1 DEF GatheredOK, Gathering, Writing
<1>12. CASE maybeSubmit(o)
  <2>1. /\ jobs[o].pc = "submit" /\ jobs'[o].pc \in {"sidecar", "done"}
        /\ jobs'[o].got = jobs[o].got /\ jobs'[o].put = jobs[o].put
        /\ jobs'[o].pc = "sidecar" => jobs[o].put.drv.step = "archive"
    BY <1>1, <1>12 DEF maybeSubmit, Goto, JobOK, Fields
  <2>2. QED
    BY <1>1, <2>1 DEF GatheredOK, Gathering, Writing
<1>13. QED
  BY <1>3, <1>4, <1>5, <1>6, <1>7, <1>8, <1>9, <1>10, <1>11, <1>12 DEF Step

-----------------------------------------------------------------------------
\* A derivation declares the members of what it reads: those registered before
\* still do, and a step that registers one has gathered them.
LEMMA StoreStays ==
    ASSUME store \subseteq store', members \subseteq members', NEW d, StoreOK(d)
    PROVE  StoreOK(d)'
<1> SUFFICES ASSUME d.step \in {"archive", "link"}, NEW e \in ToSet(d.inputs)
             PROVE  e \in store' /\ Declared(e)' /\ Covers(ToSet(d.inputs) \cup d.extras, e)'
  BY DEF StoreOK
<1>1. e \in store /\ Declared(e) /\ Covers(ToSet(d.inputs) \cup d.extras, e)
  BY DEF StoreOK
<1>2. QED
  BY <1>1, DeclaredStays, CoversGrow

\* What is in the store declares its members, also after a step of a recipe.
LEMMA StoreStep ==
    ASSUME StateOK, Undisturbed, NEW o \in Outputs, Step(o)
    PROVE  \A d \in store' : StoreOK(d)'
<1>1. JobOK(o) /\ GatheredOK(o) /\ store \subseteq store' /\ members \subseteq members'
  BY StepBasics DEF StateOK, Undisturbed
<1>2. \A d \in store : StoreOK(d)'
  BY <1>1, StoreStays DEF Undisturbed
<1>3. SUFFICES ASSUME NEW d \in store' \ store, d.step \in {"archive", "link"} PROVE StoreOK(d)'
  BY <1>2 DEF StoreOK
<1>4. CASE SubmitStep(o)
  <2>1. d = StepDrv(o, jobs[o].got, jobs[o].extra) /\ jobs[o].pc = "classify"
    BY <1>4 DEF SubmitStep
  <2>2. d.inputs = jobs[o].got /\ d.extras = jobs[o].extra
    BY <2>1 DEF StepDrv, Derivation
  <2>3. /\ jobs[o].got \in Seq(store)
        /\ \A e \in ToSet(jobs[o].got) :
            Declared(e) /\ Covers(ToSet(jobs[o].got) \cup jobs[o].extra, e)
    BY <1>1, <2>1 DEF GatheredOK, Gathering
  <2>4. ToSet(jobs[o].got) \subseteq store
    BY <2>3, ElementOfSeq, LenProperties DEF ToSet
  <2>5. StoreOK(d)
    BY <2>2, <2>3, <2>4 DEF StoreOK
  <2>6. QED
    BY <1>1, <2>5, StoreStays
<1>5. CASE SubmitCompile(o) \/ ResolvePendingMember(o)
  <2>1. \E c : d = CompileDrv(c)
    BY <1>5 DEF SubmitCompile, ResolvePendingMember
  <2>2. QED
    BY <1>3, <2>1 DEF CompileDrv, Derivation
<1>6. CASE submitCombinedArchive(o)
  <2>1. \E ms : d = BatchDrv(o, ms)
    BY <1>6 DEF submitCombinedArchive
  <2>2. QED
    BY <1>3, <2>1 DEF BatchDrv, Derivation
<1>7. CASE ~SubmitStep(o) /\ ~SubmitCompile(o) /\ ~ResolvePendingMember(o)
           /\ ~submitCombinedArchive(o)
  <2>1. store' = store
    BY <1>7 DEF Step, Start, Upload, deferCompileToBatch, RemoveOutput, SymlinkOutput,
       CreateStub, FillStub, collectSameGroupMembers, FallThrough, ClassifyInput,
       CannotModel, Passthrough, maybeSubmit, WriteMembers
  <2>2. QED
    BY <2>1
<1>8. QED
  BY <1>4, <1>5, <1>6, <1>7

\* Sidecars list registered derivations whose own sidecars are written.
LEMMA MemberStep ==
    ASSUME StateOK, Undisturbed, NEW o \in Outputs, Step(o)
    PROVE  \A m \in members' : MemberOK(m)'
<1>1. JobOK(o) /\ GatheredOK(o) /\ store \subseteq store' /\ members \subseteq members'
  BY StepBasics DEF StateOK, Undisturbed
<1>2. ASSUME NEW m, MemberOK(m) PROVE MemberOK(m)'
  BY <1>1, <1>2, DeclaredStays DEF MemberOK
<1>3. CASE WriteMembers(o)
  <2> PICK d : d = jobs[o].put.drv
    OBVIOUS
  <2>1. /\ jobs[o].pc = "sidecar"
        /\ members' = members \cup [archive : {d}, member : ToSet(jobs[o].got)]
    BY <1>3 DEF WriteMembers
  <2>2. d \in store /\ d.step = "archive" /\ jobs[o].got = d.inputs
    BY <1>1, <2>1 DEF JobOK, GatheredOK, Reference
  <2>3. \A e \in ToSet(d.inputs) : e \in store /\ Declared(e)
    BY <2>2 DEF Undisturbed, StoreOK
  <2>4. \A m \in [archive : {d}, member : ToSet(jobs[o].got)] : m.member \in ToSet(d.inputs)
    BY <2>2
  <2>5. \A m \in members' : MemberOK(m)
    BY <2>1, <2>3, <2>4 DEF MemberOK, Undisturbed
  <2>6. QED
    BY <1>2, <2>5
<1>4. CASE ~WriteMembers(o)
  <2>1. members' = members
    BY <1>4 DEF Step, Start, Upload, SubmitCompile, deferCompileToBatch, RemoveOutput,
       SymlinkOutput, CreateStub, FillStub, collectSameGroupMembers, submitCombinedArchive,
       FallThrough, ResolvePendingMember, ClassifyInput, CannotModel, Passthrough,
       SubmitStep, maybeSubmit
  <2>2. QED
    BY <1>2, <2>1 DEF Undisturbed
<1>5. QED
  BY <1>3, <1>4

-----------------------------------------------------------------------------
\* The invariant is inductive.
LEMMA StillUndisturbed ==
    ASSUME Undisturbed, jobs' = jobs, files' = files, setting' = setting, members' = members,
           store \subseteq store', \A d \in store' \ store : d.step = "assemble"
    PROVE  Undisturbed'
<1>1. \A o \in Outputs : OrderOK(o)'
  BY DEF Undisturbed, OrderOK, Ready
<1>2. \A o \in Outputs : SettledOK(o)'
  <2>1. ASSUME NEW f \in Outputs, OneWriter(f) PROVE SettledOK(f)'
    <3>1. f \in Archives /\ jobs'[f].pc = "done" => Declared(files[f].drv)'
      BY <2>1, DeclaredStays DEF Undisturbed, SettledOK
    <3>2. QED
      BY <2>1, <3>1, StillSettled DEF Undisturbed
  <2>2. QED
    BY <2>1 DEF SettledOK, OneWriter, Deferred
<1>3. \A o \in Outputs : GatheredOK(o)'
  BY OthersGathered DEF Undisturbed
<1>4. \A d \in store' : StoreOK(d)'
  <2>1. \A d \in store : StoreOK(d)'
    BY StoreStays DEF Undisturbed
  <2>2. QED
    BY <2>1 DEF StoreOK
<1>5. \A m \in members' : MemberOK(m)'
  BY DeclaredStays DEF Undisturbed, MemberOK
<1>6. QED
  BY <1>1, <1>2, <1>3, <1>4, <1>5 DEF Undisturbed

\* Every step keeps the invariant.
LEMMA NextOK ==
    ASSUME IInv, [Next]_vars
    PROVE  IInv'
<1>1. StateOK /\ StateOK'
  BY NextTyped DEF IInv
<1>2. SUFFICES ASSUME kills' = 0 PROVE Undisturbed'
  BY <1>1 DEF IInv
<1>3. CASE UNCHANGED vars
  <2>1. Undisturbed
    BY <1>2, <1>3 DEF IInv, vars
  <2>2. QED
    BY <1>3, <2>1, StillUndisturbed DEF vars
<1>4. CASE cmdAssemble
  <2>1. Undisturbed /\ jobs' = jobs /\ files' = files /\ setting' = setting
        /\ members' = members /\ store \subseteq store'
    BY <1>2, <1>4 DEF IInv, cmdAssemble
  <2>2. \A d \in store' \ store : d.step = "assemble"
    <3>1. store' = store \cup {Derivation("assemble", Outer, <<"bin", Outer>>, <<>>,
                                         SetToSeq({files[o].drv : o \in Walk}), {})}
      BY <1>4 DEF cmdAssemble
    <3>2. \A of, name, parts, ins, extras :
            Derivation("assemble", of, name, parts, ins, extras).step = "assemble"
      BY DEF Derivation
    <3>3. QED
      BY <3>1, <3>2
  <2>3. QED
    BY <2>1, <2>2, StillUndisturbed
<1>5. ASSUME NEW o \in Outputs, Step(o) PROVE Undisturbed'
  <2>1. Undisturbed
    BY <1>1, <1>2, <1>5, StepBasics DEF IInv
  <2>2. \A p \in Outputs : OrderOK(p)' /\ SettledOK(p)' /\ GatheredOK(p)'
    BY <1>1, <1>5, <2>1, OrderStep, SettledStep, GatheredStep DEF Undisturbed
  <2>3. (\A d \in store' : StoreOK(d)') /\ \A m \in members' : MemberOK(m)'
    BY <1>1, <1>5, <2>1, StoreStep, MemberStep
  <2>4. QED
    BY <2>2, <2>3 DEF Undisturbed
<1>6. CASE Rerun
  <2>1. kills = 0 /\ \E o \in Outputs : jobs[o].pc = "killed"
    BY <1>2, <1>6 DEF Rerun
  <2>2. QED
    BY <2>1 DEF IInv, Undisturbed, OrderOK
<1>7. ASSUME NEW o \in Outputs, Kill(o) PROVE FALSE
  BY <1>1, <1>2, <1>7 DEF Kill, StateOK
<1>8. QED
  BY <1>3, <1>4, <1>5, <1>6, <1>7 DEF Next, Build

\* A new build tree satisfies the invariant.
LEMMA InitOK == Init => IInv
<1> SUFFICES ASSUME Init PROVE IInv
  OBVIOUS
<1>1. /\ setting \in Settings /\ kills = 0 /\ DOMAIN jobs = Outputs /\ DOMAIN files = Outputs
      /\ \A o \in Outputs : jobs[o] = Job("idle") /\ files[o] = Absent
      /\ store = {} /\ members = {}
  BY DEF Init
<1>2. /\ DOMAIN Job("idle") = Fields /\ Job("idle").pc = "idle" /\ Job("idle").left = <<>>
      /\ <<>> \in Seq(Outputs) /\ ToSet(<<>>) = {}
  BY DEF Job, Fields, ToSet
<1>3. \A o \in Outputs : JobOK(o)
  BY <1>1, <1>2 DEF JobOK, Writing
<1>4. \A f \in Outputs : FileOK(f)
  BY <1>1, KindFields DEF FileOK
<1>5. \A o \in Outputs : OrderOK(o) /\ GatheredOK(o)
  BY <1>1, <1>2 DEF OrderOK, GatheredOK, Gathering, Writing
<1>6. \A f \in Outputs : SettledOK(f)
  BY <1>1, <1>2 DEF SettledOK
<1>7. QED
  BY <1>1, <1>3, <1>4, <1>5, <1>6 DEF IInv, StateOK, Undisturbed

-----------------------------------------------------------------------------
\* A derivation declares all it may open, since it covers each of its inputs.
LEMMA CoveredIsDeclared ==
    ASSUME NEW d, NEW U, ToSet(d.inputs) \subseteq U, ToSet(d.inputs) \subseteq store,
           \A e \in store : StoreOK(e),
           \A e \in ToSet(d.inputs) : Covers(U, e)
    PROVE  Opened(d) \subseteq U
<1> DEFINE Is(f) == f = [n \in 0 .. Depth |->
                        IF n = 0 THEN ToSet(d.inputs) ELSE f[n - 1] \cup ThinInputs(f[n - 1])]
           opened == CHOOSE f : Is(f)
           G == [T \in SUBSET store |-> ThinInputs(T)]
<1>1. Opened(d) = opened[Depth]
  BY DEF Opened, Depth
<1>2. \A T \in SUBSET store : ThinInputs(T) \subseteq store
  BY DEF ThinInputs, IsThin, StoreOK
<1>3. Is(opened)
  <2>1. G \in [SUBSET store -> SUBSET store]
    BY <1>2
  <2> HIDE DEF G
  <2>2. PICK f : Repeats(f, store, ToSet(d.inputs), G, Depth)
    BY <2>1, DepthOK, Repeated
  <2>3. \A n \in 0 .. Depth : n # 0 => n \in 1 .. Depth /\ f[n - 1] \in SUBSET store
    BY <2>2, DepthOK DEF Repeats
  <2>4. \A n \in 0 .. Depth : n # 0 => G[f[n - 1]] = ThinInputs(f[n - 1])
    BY <2>3 DEF G
  <2>5. \A n \in 0 .. Depth :
            f[n] = IF n = 0 THEN ToSet(d.inputs) ELSE f[n - 1] \cup ThinInputs(f[n - 1])
    BY <2>2, <2>3, <2>4 DEF Repeats
  <2>6. Is(f)
    BY <2>2, <2>5 DEF Repeats
  <2> HIDE DEF Is
  <2>7. QED
    BY <2>6
<1> HIDE DEF opened
<1>4. /\ opened[0] = ToSet(d.inputs)
      /\ \A n \in 1 .. Depth : opened[n] = opened[n - 1] \cup ThinInputs(opened[n - 1])
  <2>1. \A n \in 0 .. Depth :
            opened[n] = IF n = 0 THEN ToSet(d.inputs)
                                 ELSE opened[n - 1] \cup ThinInputs(opened[n - 1])
    BY <1>3
  <2>2. 0 \in 0 .. Depth /\ \A n \in 1 .. Depth : n \in 0 .. Depth /\ n # 0
    BY DepthOK
  <2>3. QED
    BY <2>1, <2>2
<1> DEFINE Cover(e, r) ==
        /\ r \in [0 .. Depth -> SUBSET store]
        /\ ThinInputs({e}) \subseteq r[0]
        /\ \A n \in 1 .. Depth : r[n - 1] \cup ThinInputs(r[n - 1]) \subseteq r[n]
        /\ r[Depth] \subseteq U
           cover == [e \in ToSet(d.inputs) |-> CHOOSE r : Cover(e, r)]
<1>5. \A e \in ToSet(d.inputs) : Cover(e, cover[e])
  <2>1. \A e \in ToSet(d.inputs) : \E r : Cover(e, r)
    BY DEF Covers
  <2> HIDE DEF Cover
  <2>2. QED
    BY <2>1
<1> HIDE DEF cover
\* A set within reach of the inputs after n steps.
<1> DEFINE Reached(n) == ToSet(d.inputs) \cup UNION {cover[e][n] : e \in ToSet(d.inputs)}
<1>6. ASSUME NEW n \in 0 .. Depth, n # 0, opened[n - 1] \subseteq Reached(n - 1)
      PROVE  opened[n] \subseteq Reached(n)
  <2>1. n \in 1 .. Depth /\ n - 1 \in 0 .. Depth
    BY <1>6, DepthOK
  <2>2. \A e \in ToSet(d.inputs) : cover[e][n - 1] \cup ThinInputs(cover[e][n - 1]) \subseteq cover[e][n]
    BY <1>5, <2>1
  <2>3. Reached(n - 1) \subseteq Reached(n)
    BY <2>2
  <2>4. ASSUME NEW z \in Reached(n - 1), IsThin(z), NEW x \in ToSet(z.inputs)
        PROVE  x \in Reached(n)
    <3>1. CASE z \in ToSet(d.inputs)
      <4>1. x \in ThinInputs({z})
        BY <2>4 DEF ThinInputs
      <4>2. x \in cover[z][0]
        BY <1>5, <3>1, <4>1
      <4>3. cover[z][0] \subseteq cover[z][n]
        <5> DEFINE H == {k \in Nat : cover[z][0] \subseteq cover[z][k]}
        <5>1. 0 \in H
          OBVIOUS
        <5>2. ASSUME NEW k \in 0 .. Depth, k # 0, k - 1 \in H PROVE k \in H
          <6>1. k \in 1 .. Depth
            BY <5>2, DepthOK
          <6>2. cover[z][k - 1] \subseteq cover[z][k]
            BY <1>5, <3>1, <6>1
          <6>3. QED
            BY <5>2, <6>1, <6>2, DepthOK
        <5> HIDE DEF H
        <5>3. \A k \in 0 .. Depth : k \in H
          BY <5>1, <5>2, DepthOK, UpTo
        <5>4. QED
          BY <5>3 DEF H
      <4>4. QED
        BY <3>1, <4>2, <4>3
    <3>2. CASE \E e \in ToSet(d.inputs) : z \in cover[e][n - 1]
      <4>1. PICK e \in ToSet(d.inputs) : z \in cover[e][n - 1]
        BY <3>2
      <4>2. x \in ThinInputs(cover[e][n - 1])
        BY <2>4, <4>1 DEF ThinInputs
      <4>3. QED
        BY <2>2, <4>1, <4>2
    <3>3. QED
      BY <2>4, <3>1, <3>2
  <2>5. ThinInputs(opened[n - 1]) \subseteq Reached(n)
    BY <1>6, <2>4 DEF ThinInputs
  <2>6. QED
    BY <1>4, <1>6, <2>1, <2>3, <2>5
<1>7. opened[Depth] \subseteq Reached(Depth)
  <2> DEFINE H == {n \in Nat : opened[n] \subseteq Reached(n)}
  <2>1. 0 \in H
    BY <1>4
  <2>2. ASSUME NEW n \in 0 .. Depth, n # 0, n - 1 \in H PROVE n \in H
    BY <1>6, <2>2, DepthOK
  <2> HIDE DEF H
  <2>3. \A n \in 0 .. Depth : n \in H
    BY <2>1, <2>2, DepthOK, UpTo
  <2>4. QED
    BY <2>3, DepthOK DEF H
<1>8. Reached(Depth) \subseteq U
  <2>1. \A e \in ToSet(d.inputs) : cover[e][Depth] \subseteq U
    BY <1>5
  <2> HIDE DEF Cover
  <2>2. QED
    BY <2>1
<1>9. QED
  BY <1>1, <1>7, <1>8

\* Until a recipe is killed, every archive and link that is registered declares
\* the members of the thin archives it reads, at any depth: whatever order
\* parallel recipes publish and write their sidecars in.
THEOREM StepsDeclareMembers == Spec => []MembersDeclared
<1>1. IInv => MembersDeclared
  <2> SUFFICES ASSUME IInv, kills = 0, NEW d \in store, d.step \in {"archive", "link"}
               PROVE  Opened(d) \subseteq ToSet(d.inputs) \cup d.extras
    BY DEF MembersDeclared
  <2>1. \A e \in store : StoreOK(e)
    BY DEF IInv, Undisturbed
  <2>2. \A e \in ToSet(d.inputs) :
            e \in store /\ Covers(ToSet(d.inputs) \cup d.extras, e)
    BY <2>1 DEF StoreOK
  <2>3. QED
    BY <2>1, <2>2, CoveredIsDeclared
<1>2. QED
  BY InitOK, NextOK, <1>1, PTL DEF Spec

-----------------------------------------------------------------------------
\* A recipe turns to the real tool over an operand it has no model for, or for
\* the pending stub it removed and finds in place again.
LEMMA TwoExits ==
    ASSUME StateOK, NEW o \in Outputs, Step(o), jobs[o].pc # "bypass",
           jobs'[o].pc = "bypass"
    PROVE  \/ CannotModel(o)
           \/ /\ SymlinkOutput(o) /\ Writing(o) /\ jobs[o].then = "classify"
              /\ files[jobs[o].at].kind # "absent"
<1>1. JobOK(o) /\ DOMAIN jobs = Outputs
  BY DEF StateOK
<1>2. Writing(o) => jobs[o].then \in {"done", "submit", "classify"}
  BY <1>1, PublishFacts
<1>3. ~Start(o)
  BY <1>1 DEF Start, Job
<1>4. ~(Upload(o) \/ collectSameGroupMembers(o) \/ FallThrough(o) \/ ClassifyInput(o))
  BY <1>1 DEF Upload, collectSameGroupMembers, FallThrough, ClassifyInput, Goto, JobOK, Fields
<1>5. ~(\/ SubmitCompile(o) \/ deferCompileToBatch(o) \/ submitCombinedArchive(o)
        \/ ResolvePendingMember(o) \/ SubmitStep(o))
  BY DecideFields
<1>6. ~(maybeSubmit(o) \/ WriteMembers(o))
  BY <1>1 DEF maybeSubmit, WriteMembers, Goto, JobOK, Fields
<1>7. ~(RemoveOutput(o) \/ CreateStub(o))
  BY <1>1 DEF RemoveOutput, CreateStub, Goto, JobOK, Fields
<1>8. ~FillStub(o)
  BY <1>1, <1>2 DEF FillStub, Writing, Goto, JobOK, Fields
<1>9. ~Passthrough(o)
  BY DEF Passthrough
<1>10. CASE SymlinkOutput(o)
  <2>1. jobs[o].pc = "create" /\ Writing(o)
    BY <1>10 DEF SymlinkOutput, Writing
  <2>2. CASE files[jobs[o].at].kind = "absent"
    <3>1. Goto(o, jobs[o].then)
      BY <1>10, <2>2 DEF SymlinkOutput
    <3>2. QED
      BY <1>1, <1>2, <2>1, <3>1, GotoFields
  <2>3. CASE files[jobs[o].at].kind # "absent"
    <3>1. Goto(o, IF jobs[o].then = "classify" THEN "bypass" ELSE "failed")
      BY <1>10, <2>3 DEF SymlinkOutput
    <3>2. jobs[o].then = "classify"
      BY <1>1, <3>1, GotoFields
    <3>3. QED
      BY <1>10, <2>1, <2>3, <3>2
  <2>4. QED
    BY <2>2, <2>3
<1>11. QED
  BY <1>3, <1>4, <1>5, <1>6, <1>7, <1>8, <1>9, <1>10 DEF Step

\* Until a recipe is killed, the real tool replaces nixgg, by either exit, only
\* over a file that it wrote or that two recipes read: for any Makefile, an
\* operand with one consumer is modelled to the end.
THEOREM FallbacksAreShared == Spec => OnlySharedOperandsRace
<1> DEFINE Race == \A o \in Outputs :
        jobs[o].pc # "bypass" /\ jobs'[o].pc = "bypass" /\ kills = 0 =>
            \/ files[InHand(o)] = Foreign
            \/ \E p \in Outputs \ {o} : InHand(o) \in ToSet(Inputs[p])
<1>1. IInv /\ [Next]_vars => [Race]_vars
  <2> SUFFICES ASSUME IInv, Next, NEW o \in Outputs, jobs[o].pc # "bypass",
                      jobs'[o].pc = "bypass", kills = 0,
                      \A p \in Outputs \ {o} : InHand(o) \notin ToSet(Inputs[p])
               PROVE  files[InHand(o)] = Foreign
    BY DEF Race
  <2> PICK i : i = InHand(o)
    OBVIOUS
  <2>1. StateOK /\ JobOK(o) /\ DOMAIN jobs = Outputs /\ OrderOK(o)
    BY DEF IInv, StateOK, Undisturbed
  <2>2. Step(o)
    <3>1. ~Rerun /\ ~cmdAssemble
      BY DEF IInv, Undisturbed, OrderOK, Rerun, cmdAssemble
    <3>2. \A p \in Outputs : ~Kill(p) \/ p # o
      BY <2>1, GotoFields DEF Kill
    <3>3. \A p \in Outputs : Kill(p) => jobs'[o].pc = jobs[o].pc \/ p = o
      BY <2>1, GotoFields DEF Kill
    <3>4. \A p \in Outputs : Step(p) => p = o
      BY <2>1, StepBasics
    <3>5. QED
      BY <3>1, <3>2, <3>3, <3>4 DEF Next, Build
  <2>3. i \in Outputs => OneWriter(i) /\ SettledOK(i)
    BY DEF OneWriter, IInv, Undisturbed
  <2>4. ~SymlinkOutput(o)
    <3>1. SUFFICES ASSUME SymlinkOutput(o) PROVE FALSE
      OBVIOUS
    <3>2. jobs[o].pc = "create" /\ i = jobs[o].at
      BY <3>1 DEF SymlinkOutput, InHand
    <3>3. Writing(o) /\ files[i].kind # "absent"
      BY <2>1, <2>2, <3>1, <3>2, TwoExits DEF CannotModel
    <3>4. i \in Outputs
      BY <2>1, <3>2, <3>3, PublishFacts
    <3>5. files[i] = Absent
      BY <2>3, <3>2, <3>4 DEF SettledOK
    <3>6. QED
      BY <3>3, <3>5, KindFields
  <2>5. CannotModel(o) /\ i = Head(jobs[o].left)
    <3>1. CannotModel(o)
      BY <2>1, <2>2, <2>4, TwoExits
    <3>2. QED
      BY <3>1 DEF CannotModel, InHand
  <2>6. i \in ToSet(Inputs[o]) /\ i \in Outputs /\ files[i].kind \notin {"pending", "ref"}
    BY <2>1, <2>5, TailSet, OperandsOK DEF CannotModel, JobOK
  <2>7. Ready(i)
    BY <2>1, <2>5, <2>6 DEF OrderOK, CannotModel
  <2>8. ASSUME NEW w \in Outputs, jobs[w].at = i PROVE jobs[w].pc \notin {"create", "fill"}
    <3>1. SUFFICES ASSUME jobs[w].pc \in {"create", "fill"} PROVE FALSE
      OBVIOUS
    <3>2. JobOK(w) /\ Writing(w)
      BY <2>1, <3>1 DEF StateOK, Writing
    <3>3. w # i
      BY <2>7, <3>1 DEF Ready
    <3>4. i \in ToSet(Inputs[w])
      BY <2>8, <3>2, <3>3, PublishFacts
    <3>5. w = o
      BY <3>4
    <3>6. QED
      BY <2>5, <3>1, <3>5 DEF CannotModel
  <2>9. jobs[i].pc # "done"
    BY <2>3, <2>6, <2>8 DEF SettledOK
  <2>10. QED
    BY <2>3, <2>6, <2>7, <2>9 DEF Ready, SettledOK
<1>2. QED
  BY InitOK, NextOK, <1>1, PTL DEF Spec, OnlySharedOperandsRace

-----------------------------------------------------------------------------
\* A tree that is captured has been built: nothing runs after it, and what each
\* path held is what the outer derivation submits.
LEMMA AssembleCaptures ==
    ASSUME ConventionalNames, CapturesUngrouped, IInv, CaptureOK, cmdAssemble
    PROVE  CaptureOK'
<1> DEFINE d == Derivation("assemble", Outer, <<"bin", Outer>>, <<>>,
                           SetToSeq({files[o].drv : o \in Walk}), {})
<1>1. Captures(setting) /\ setting' = setting /\ jobs' = jobs /\ files' = files /\ kills' = kills
  BY DEF cmdAssemble, Captures, Sandbox, targetOutputKey
<1>2. d.step = "assemble" /\ d.name = <<"bin", Outer>>
  BY DEF Derivation
<1>3. SubmitOutput(d, "out")
  BY DEF cmdAssemble
<1> HIDE DEF d
<1>4. "out" \in DOMAIN submitted' /\ submitted'["out"].step = "assemble"
  BY <1>1, <1>2, <1>3 DEF SubmitOutput, CaptureOK
<1>5. \A o \in Outputs : Ready(o)
  BY DEF cmdAssemble, Ready
<1>6. captured' = [o \in Outputs |->
            IF o \notin Walk THEN files[o]
            ELSE IF ArtifactSubdir(o) = outSubdir(files[o].drv)
            THEN Entry("built", "", files[o].drv, {}) ELSE Absent]
  BY DEF cmdAssemble
<1>7. ASSUME NEW o \in Outputs, files[o].kind = "ref"
      PROVE  captured'[o] = Entry("built", "", files[o].drv, {})
  <2>1. Makes(files[o].drv, o) /\ o \in Walk
    BY <1>7 DEF IInv, StateOK, FileOK, Walk
  <2>2. ArtifactSubdir(o) = outSubdir(files[o].drv)
    BY <2>1, ToolsAssumption DEF Makes, ConventionalNames, outSubdir
  <2>3. QED
    BY <1>6, <2>1, <2>2
<1>8. ASSUME NEW o \in Outputs, kills = 0 PROVE captured'[o].kind \in {"built", "foreign"}
  <2>1. ~Deferred(o)
    BY <1>1 DEF CapturesUngrouped, Deferred, IInv, StateOK
  <2>2. OneWriter(o) /\ SettledOK(o) /\ FileOK(o) /\ Ready(o)
    BY <1>5, <1>8, <2>1 DEF OneWriter, IInv, StateOK, Undisturbed
  <2>3. \A w \in Outputs : jobs[w].pc \notin {"create", "fill"}
    BY <1>5 DEF Ready
  <2>4. files[o].kind = "ref" \/ files[o] = Foreign
    BY <2>1, <2>2, <2>3 DEF SettledOK, FileOK, Ready
  <2>5. CASE files[o].kind = "ref"
    <3>1. PICK kind, of, drv : kind = "built" /\ of = "" /\ drv = files[o].drv
      OBVIOUS
    <3>2. captured'[o] = Entry(kind, of, drv, {})
      BY <1>7, <2>5, <3>1
    <3>3. captured'[o].kind = kind
      BY <3>2 DEF Entry
    <3>4. QED
      BY <3>1, <3>3
  <2>6. CASE files[o] = Foreign
    <3>1. captured'[o] = Foreign
      BY <1>6, <2>6, KindFields DEF Walk
    <3>2. QED
      BY <3>1, KindFields
  <2>7. QED
    BY <2>4, <2>5, <2>6
<1>9. CaptureIsReal'
  <2>1. \A o \in Outputs : captured'[o].kind \in {"built", "foreign"} \/ kills' > 0
    BY <1>1, <1>8 DEF IInv, StateOK
  <2>2. \A o \in Outputs : files'[o].kind = "ref" =>
            captured'[o] = Entry("built", "", files'[o].drv, {})
    BY <1>1, <1>7
  <2>3. QED
    BY <1>4, <2>1, <2>2 DEF CaptureIsReal, Entry
<1>10. QED
  BY <1>1, <1>4, <1>5, <1>9 DEF CaptureOK, Ready, Captures

\* Before the capture no recipe submits anything under the outer derivation's
\* key when that derivation is the only target.
LEMMA StepCaptures ==
    ASSUME IInv, CaptureOK, NEW o \in Outputs, Step(o)
    PROVE  CaptureOK'
<1>1. captured = Uncaptured
  BY StepBasics DEF IInv, CaptureOK
<1>2. captured' = Uncaptured /\ setting' = setting
  BY <1>1, StepBasics DEF IInv, Uncaptured
<1>3. "out" \in DOMAIN submitted'
      /\ (Captures(setting) => submitted' = submitted)
  <2>1. CASE maybeSubmit(o)
    <3>1. Captures(setting) => KeyFor(o) = ""
      BY DEF Captures, KeyFor, targetOutputKey
    <3>2. QED
      BY <2>1, <3>1 DEF maybeSubmit, SubmitOutput, CaptureOK
  <2>2. CASE ~maybeSubmit(o)
    BY <2>2 DEF CaptureOK, Step, Start, Upload, SubmitCompile, deferCompileToBatch,
       RemoveOutput, SymlinkOutput, CreateStub, FillStub, collectSameGroupMembers,
       submitCombinedArchive, FallThrough, ResolvePendingMember, ClassifyInput,
       CannotModel, Passthrough, SubmitStep, WriteMembers
  <2>3. QED
    BY <2>1, <2>2
<1>4. Uncaptured' = Uncaptured
  BY DEF Uncaptured, Absent
<1>5. QED
  BY <1>2, <1>3, <1>4 DEF CaptureOK, Captures, NoDrv

\* A captured derivation stays what the consumers of its output have gathered.
LEMMA CaptureStep ==
    ASSUME ConventionalNames, CapturesUngrouped, IInv, CaptureOK, [Next]_vars
    PROVE  CaptureOK'
<1>1. CASE UNCHANGED vars
  BY <1>1 DEF vars, CaptureOK, Captures, Ready, CaptureIsReal, Uncaptured, Absent, Entry
<1>2. ASSUME Rerun \/ \E o \in Outputs : Kill(o) PROVE CaptureOK'
  <2>1. captured = Uncaptured
    BY <1>2 DEF Rerun, Kill, Running, Ended, CaptureOK, Ready
  <2>2. captured' = Uncaptured /\ submitted' = submitted /\ setting' = setting
    BY <1>2, <2>1 DEF Rerun, Kill
  <2>3. QED
    BY <2>2 DEF CaptureOK, Captures, Uncaptured, Absent, Entry
<1>3. QED
  BY <1>1, <1>2, StepCaptures, AssembleCaptures DEF Next, Build

\* A tree captured under conventional names and outside every batch group holds
\* a built artifact or a real file at every path, and never a stub: for any
\* Makefile, any number of jobs and, for the paths that hold a reference,
\* whatever was killed on the way.
THEOREM CapturesAreReal ==
    ASSUME ConventionalNames, CapturesUngrouped
    PROVE  Spec => []CaptureIsReal
<1>1. Init => CaptureOK
  BY DEF Init, CaptureOK, Uncaptured
<1>2. IInv /\ CaptureOK /\ [Next]_vars => IInv' /\ CaptureOK'
  BY NextOK, CaptureStep
<1>3. CaptureOK => CaptureIsReal
  BY DEF CaptureOK, CaptureIsReal, Uncaptured
<1>4. QED
  BY InitOK, <1>1, <1>2, <1>3, PTL DEF Spec

-----------------------------------------------------------------------------
\* Flattening a sequence of sequences concatenates them one after the other.
LEMMA FlattenEquation ==
    ASSUME NEW S, NEW s \in Seq(Seq(S)), s # <<>>
    PROVE  \E f \in [1 .. Len(s) -> Seq(S)] :
            /\ f[1] = s[1] /\ \A i \in 2 .. Len(s) : f[i] = f[i - 1] \o s[i]
            /\ FlattenSeq(s) = f[Len(s)]
<1> PICK n : n = Len(s)
  OBVIOUS
<1>1. n \in Nat /\ n # 0 /\ n \in 1 .. n /\ \A i \in 1 .. n : s[i] \in Seq(S)
  BY EmptySeq, LenProperties, ElementOfSeq
<1> DEFINE Is(f) == f = [i \in 1 .. n |-> IF i = 1 THEN s[i] ELSE f[i - 1] \o s[i]]
           Good(m, f) == /\ f \in [1 .. m -> Seq(S)]
                         /\ \A i \in 1 .. m : f[i] = IF i = 1 THEN s[i] ELSE f[i - 1] \o s[i]
           flatten == CHOOSE f : Is(f)
           H == {m \in Nat : \E f : Good(m, f)}
<1>2. FlattenSeq(s) = flatten[n]
  BY <1>1 DEF FlattenSeq
<1>3. 0 \in H
  <2>1. Good(0, [i \in 1 .. 0 |-> <<>>])
    OBVIOUS
  <2> HIDE DEF Good
  <2>2. QED
    BY <2>1
<1>4. ASSUME NEW m \in 0 .. n, m # 0, m - 1 \in H PROVE m \in H
  <2>1. PICK g : Good(m - 1, g)
    BY <1>4
  <2> DEFINE f == [i \in 1 .. m |-> IF i = m THEN (IF m = 1 THEN s[m] ELSE g[m - 1] \o s[m])
                                            ELSE g[i]]
  <2>2. m \in Nat /\ m \in 1 .. n /\ s[m] \in Seq(S)
    BY <1>1, <1>4
  <2>3. m # 1 => g[m - 1] \in Seq(S)
    BY <2>1, <2>2
  <2>4. m # 1 => g[m - 1] \o s[m] \in Seq(S)
    BY <2>2, <2>3, ConcatProperties
  <2>5. \A i \in 1 .. m : i # m => i \in 1 .. m - 1
    BY <2>2
  <2>6. f \in [1 .. m -> Seq(S)]
    BY <2>1, <2>2, <2>4, <2>5
  <2>7. \A i \in 1 .. m : f[i] = IF i = 1 THEN s[i] ELSE f[i - 1] \o s[i]
    <3> SUFFICES ASSUME NEW i \in 1 .. m PROVE f[i] = IF i = 1 THEN s[i] ELSE f[i - 1] \o s[i]
      OBVIOUS
    <3>1. i # 1 => i - 1 \in 1 .. m /\ i - 1 # m /\ f[i - 1] = g[i - 1]
      BY <2>2
    <3>2. CASE i = m
      BY <2>2, <3>1, <3>2
    <3>3. CASE i # m
      <4>1. f[i] = g[i] /\ g[i] = IF i = 1 THEN s[i] ELSE g[i - 1] \o s[i]
        BY <2>1, <2>5, <3>3
      <4>2. QED
        BY <3>1, <4>1
    <3>4. QED
      BY <3>2, <3>3
  <2> HIDE DEF f
  <2>8. Good(m, f)
    BY <2>6, <2>7
  <2> HIDE DEF Good
  <2>9. QED
    BY <2>2, <2>8
<1> HIDE DEF H
<1>5. \E f : Good(n, f)
  <2>1. \A m \in 0 .. n : m \in H
    BY <1>1, <1>3, <1>4, UpTo
  <2>2. n \in H
    BY <1>1, <2>1
  <2> HIDE DEF Good
  <2>3. QED
    BY <2>2 DEF H
<1>6. PICK f : Good(n, f)
  BY <1>5
<1>7. Is(f)
  <2>1. DOMAIN f = 1 .. n /\ f = [i \in 1 .. n |-> f[i]]
    BY <1>6
  <2>2. QED
    BY <1>6, <2>1
<1>8. Is(flatten)
  <2> HIDE DEF Is
  <2>1. QED
    BY <1>7
<1> HIDE DEF flatten
<1> DEFINE R(i) == IF i = 1 THEN s[i] ELSE flatten[i - 1] \o s[i]
<1>9. DOMAIN flatten = 1 .. n /\ \A i \in 1 .. n : flatten[i] = R(i)
  BY <1>8
<1>10. \A i \in 1 .. n : flatten[i] \in Seq(S)
  <2> DEFINE K == {m \in Nat : m \in 1 .. n => flatten[m] \in Seq(S)}
  <2>1. 0 \in K
    OBVIOUS
  <2>2. ASSUME NEW m \in 0 .. n, m # 0, m - 1 \in K PROVE m \in K
    <3>1. m \in 1 .. n /\ m \in Nat /\ s[m] \in Seq(S)
      BY <1>1, <2>2
    <3>2. CASE m = 1
      BY <1>9, <3>1, <3>2
    <3>3. CASE m # 1
      <4>1. flatten[m - 1] \in Seq(S)
        BY <2>2, <3>1, <3>3
      <4>2. flatten[m] = flatten[m - 1] \o s[m]
        BY <1>9, <3>1, <3>3
      <4>3. flatten[m] \in Seq(S)
        BY <3>1, <4>1, <4>2, ConcatProperties
      <4>4. QED
        BY <3>1, <4>3
    <3>4. QED
      BY <3>2, <3>3
  <2> HIDE DEF K
  <2>3. \A m \in 0 .. n : m \in K
    BY <1>1, <2>1, <2>2, UpTo
  <2>4. QED
    BY <1>1, <2>3 DEF K
<1>11. \A i \in 2 .. n : i \in 1 .. n /\ i # 1
  BY <1>1
<1>12. 1 \in 1 .. n
  BY <1>1
<1>13. flatten = [i \in 1 .. n |-> flatten[i]]
  BY <1>8, <1>9
<1>14. flatten \in [1 .. n -> Seq(S)]
  BY <1>10, <1>13
<1>15. flatten[1] = s[1] /\ \A i \in 2 .. n : flatten[i] = flatten[i - 1] \o s[i]
  BY <1>9, <1>11, <1>12
<1> HIDE DEF R
<1>16. QED
  BY <1>2, <1>14, <1>15

\* What it gives is made of what they hold.
LEMMA FlattenType ==
    ASSUME NEW S, NEW s \in Seq(Seq(S))
    PROVE  FlattenSeq(s) \in Seq(S)
<1>1. CASE s = <<>>
  <2>1. Len(s) = 0 /\ FlattenSeq(s) = s
    BY <1>1, EmptySeq DEF FlattenSeq
  <2>2. QED
    BY <1>1, <2>1, EmptySeq
<1>2. CASE s # <<>>
  <2>1. Len(s) \in Nat /\ Len(s) \in 1 .. Len(s)
    BY <1>2, EmptySeq
  <2>2. PICK f \in [1 .. Len(s) -> Seq(S)] : FlattenSeq(s) = f[Len(s)]
    BY <1>2, FlattenEquation
  <2>3. QED
    BY <2>1, <2>2
<1>3. QED
  BY <1>1, <1>2

\* One element at a time it gives the sequence back.
LEMMA FlattenSingles ==
    ASSUME NEW S, NEW s \in Seq(S)
    PROVE  FlattenSeq([i \in DOMAIN s |-> <<s[i]>>]) = s
<1> DEFINE t == [i \in DOMAIN s |-> <<s[i]>>]
<1>1. /\ Len(s) \in Nat /\ DOMAIN s = 1 .. Len(s)
      /\ \A i \in 1 .. Len(s) : s[i] \in S /\ <<s[i]>> \in Seq(S)
  BY LenProperties, ElementOfSeq
<1>2. t \in Seq(Seq(S)) /\ Len(t) = Len(s) /\ \A i \in 1 .. Len(s) : t[i] = <<s[i]>>
  BY <1>1
<1> HIDE DEF t
<1>3. CASE s = <<>>
  <2>1. Len(t) = 0
    BY <1>2, <1>3, EmptySeq
  <2>2. t = <<>>
    BY <1>2, <2>1, EmptySeq
  <2>3. FlattenSeq(t) = t
    BY <2>1 DEF FlattenSeq
  <2>4. QED
    BY <1>3, <2>2, <2>3 DEF t
<1>4. CASE s # <<>>
  <2>1. Len(s) # 0 /\ t # <<>>
    BY <1>2, <1>4, EmptySeq
  <2>2. PICK f \in [1 .. Len(t) -> Seq(S)] :
            /\ f[1] = t[1] /\ \A i \in 2 .. Len(t) : f[i] = f[i - 1] \o t[i]
            /\ FlattenSeq(t) = f[Len(t)]
    BY <1>2, <2>1, FlattenEquation
  <2> DEFINE K == {m \in Nat : m \in 1 .. Len(s) => f[m] = SubSeq(s, 1, m)}
  <2>3. 0 \in K
    OBVIOUS
  <2>4. ASSUME NEW m \in 0 .. Len(s), m # 0, m - 1 \in K PROVE m \in K
    <3>1. m \in Nat /\ m \in 1 .. Len(s) /\ 1 \in 1 .. Len(s) /\ s[m] \in S
      BY <1>1, <2>4
    <3>2. SubSeq(s, 1, m) = SubSeq(s, 1, m - 1) \o <<s[m]>>
      BY <3>1, SubSeqRecursiveSecond
    <3>3. CASE m = 1
      <4>1. SubSeq(s, 1, 0) = <<>>
        BY SubSeqEmpty
      <4>2. SubSeq(s, 1, 1) = <<s[1]>>
        <5>1. s[1] \in S /\ <<s[1]>> \in Seq(S) /\ m - 1 = 0
          BY <1>1, <3>1, <3>3
        <5>2. <<>> \o <<s[1]>> = <<s[1]>>
          BY <5>1, ConcatEmptySeq
        <5>3. SubSeq(s, 1, 1) = SubSeq(s, 1, 0) \o <<s[1]>>
          BY <3>2, <3>3, <5>1
        <5>4. QED
          BY <4>1, <5>2, <5>3
      <4>3. QED
        BY <1>2, <2>2, <3>1, <3>3, <4>2
    <3>4. CASE m # 1
      <4>1. m - 1 \in 1 .. Len(s) /\ m \in 2 .. Len(t)
        BY <1>1, <1>2, <3>1, <3>4
      <4>2. f[m - 1] = SubSeq(s, 1, m - 1)
        BY <2>4, <4>1
      <4>3. f[m] = SubSeq(s, 1, m)
        BY <1>2, <2>2, <3>1, <3>2, <4>1, <4>2, Zenon
      <4>4. QED
        BY <3>1, <4>3
    <3>5. QED
      BY <3>3, <3>4
  <2> HIDE DEF K
  <2>5. \A m \in 0 .. Len(s) : m \in K
    BY <1>1, <2>3, <2>4, UpTo
  <2>6. Len(s) \in 1 .. Len(s) /\ Len(s) \in 0 .. Len(s)
    BY <1>1, <2>1
  <2>7. f[Len(s)] = SubSeq(s, 1, Len(s))
    BY <2>5, <2>6 DEF K
  <2>8. SubSeq(s, 1, Len(s)) = s
    BY SubSeqFull
  <2>9. QED
    BY <1>2, <2>2, <2>7, <2>8 DEF t
<1>5. QED
  BY <1>3, <1>4

-----------------------------------------------------------------------------
\* Ranks are bounded: there are finitely many outputs.
LEMMA RankBound ==
    ASSUME NEW rank, RecipeRanks(rank)
    PROVE  \E N \in Nat : \A o \in Outputs : rank[o] < N
<1>1. PICK n \in Nat : ExistsBijection(1 .. n, Outputs)
  BY ToolsAssumption, FS_NatBijection
<1>2. PICK b : b \in [1 .. n -> Outputs] /\ \A o \in Outputs : \E i \in 1 .. n : b[i] = o
  BY <1>1 DEF ExistsBijection, Bijection, Surjection
<1> DEFINE H == {k \in Nat : \E N \in Nat : \A i \in 1 .. k : i \in 1 .. n => rank[b[i]] < N}
<1>3. 0 \in H
  BY 0 \in Nat
<1>4. ASSUME NEW k \in 0 .. n, k # 0, k - 1 \in H PROVE k \in H
  <2>1. PICK N \in Nat : \A i \in 1 .. k - 1 : i \in 1 .. n => rank[b[i]] < N
    BY <1>4
  <2>2. k \in 1 .. n /\ rank[b[k]] \in Nat
    BY <1>2, <1>4 DEF RecipeRanks
  <2>3. PICK M \in Nat : N <= M /\ rank[b[k]] < M
    <3>1. CASE rank[b[k]] < N
      BY <3>1
    <3>2. CASE ~(rank[b[k]] < N)
      <4>1. rank[b[k]] + 1 \in Nat /\ N <= rank[b[k]] + 1 /\ rank[b[k]] < rank[b[k]] + 1
        BY <2>2, <3>2
      <4>2. QED
        BY <4>1
    <3>3. QED
      BY <3>1, <3>2
  <2>4. ASSUME NEW i \in 1 .. k, i \in 1 .. n PROVE rank[b[i]] < M
    <3>1. rank[b[i]] \in Nat
      BY <1>2, <2>4 DEF RecipeRanks
    <3>2. CASE i = k
      BY <2>3, <3>2
    <3>3. CASE i # k
      <4>1. i \in 1 .. k - 1
        BY <2>2, <3>3
      <4>2. rank[b[i]] < N
        BY <2>1, <2>4, <4>1
      <4>3. QED
        BY <2>3, <3>1, <4>2
    <3>4. QED
      BY <3>2, <3>3
  <2>5. QED
    BY <2>2, <2>4
<1> HIDE DEF H
<1>5. n \in H
  BY <1>3, <1>4, UpTo
<1>6. PICK N \in Nat : \A i \in 1 .. n : rank[b[i]] < N
  BY <1>5 DEF H
<1>7. QED
  BY <1>2, <1>6

\* What the Makefile asks for, one recipe at a time.
WantedOf(o, w) ==
    IF o \in Compiles THEN <<o>>
    ELSE FlattenSeq([i \in DOMAIN Inputs[o] |-> w[Inputs[o][i]]])

\* The recipe of every output asks for what its operands ask for: the recursive
\* definition names a function, since operands have lower ranks.
LEMMA WantedEquation ==
    ASSUME NEW rank, RecipeRanks(rank)
    PROVE  \A o \in Outputs : Wanted[o] = WantedOf(o, Wanted)
<1> DEFINE Below(n) == {o \in Outputs : rank[o] < n}
           Is(w) == w = [o \in Outputs |-> WantedOf(o, w)]
           Good(n, w) == \A o \in Below(n) : w[o] = WantedOf(o, w)
           H == {n \in Nat : \E w : Good(n, w)}
<1>1. PICK N \in Nat : \A o \in Outputs : rank[o] < N
  BY RankBound
<1>2. ASSUME NEW o \in Outputs, NEW i \in DOMAIN Inputs[o]
      PROVE  /\ Inputs[o][i] \in Outputs /\ rank[Inputs[o][i]] < rank[o]
             /\ rank[o] \in Nat /\ rank[Inputs[o][i]] \in Nat
  BY OperandsOK DEF RecipeRanks, ToSet
<1>3. 0 \in H
  <2>1. \A o \in Outputs : ~(rank[o] < 0)
    BY DEF RecipeRanks
  <2>2. Good(0, rank)
    BY <2>1
  <2> HIDE DEF Good
  <2>3. QED
    BY <2>2
<1>4. ASSUME NEW n \in 0 .. N, n # 0, n - 1 \in H PROVE n \in H
  <2>1. PICK v : Good(n - 1, v)
    BY <1>4
  <2> DEFINE w == [o \in Outputs |-> WantedOf(o, v)]
  <2>2. \A o \in Below(n - 1) : w[o] = v[o]
    BY <2>1
  <2>3. ASSUME NEW o \in Below(n), NEW i \in DOMAIN Inputs[o]
             PROVE  w[Inputs[o][i]] = v[Inputs[o][i]]
    <3>1. Inputs[o][i] \in Below(n - 1)
      BY <1>2, <2>3
    <3>2. QED
      BY <2>2, <3>1
  <2>4. ASSUME NEW o \in Below(n) PROVE w[o] = WantedOf(o, w)
    <3>1. [i \in DOMAIN Inputs[o] |-> w[Inputs[o][i]]] = [i \in DOMAIN Inputs[o] |-> v[Inputs[o][i]]]
      BY <2>3
    <3> HIDE DEF w
    <3>2. WantedOf(o, w) = WantedOf(o, v)
      BY <3>1 DEF WantedOf
    <3>3. o \in Outputs
      OBVIOUS
    <3>4. QED
      BY <3>2, <3>3 DEF w
  <2> HIDE DEF w
  <2>5. Good(n, w)
    BY <2>4
  <2> HIDE DEF Good
  <2>6. QED
    BY <2>5
<1> HIDE DEF H
<1>5. \E w : Good(N, w)
  <2>1. \A m \in 0 .. N : m \in H
    BY <1>3, <1>4, UpTo
  <2>2. N \in H
    BY <2>1
  <2> HIDE DEF Good
  <2>3. QED
    BY <2>2 DEF H
<1>6. PICK v : Good(N, v)
  BY <1>5
<1> DEFINE w == [o \in Outputs |-> v[o]]
<1>7. ASSUME NEW o \in Outputs PROVE w[o] = WantedOf(o, w)
  <2>1. [i \in DOMAIN Inputs[o] |-> w[Inputs[o][i]]] = [i \in DOMAIN Inputs[o] |-> v[Inputs[o][i]]]
    BY <1>2
  <2> HIDE DEF w
  <2>2. WantedOf(o, w) = WantedOf(o, v)
    BY <2>1 DEF WantedOf
  <2>3. v[o] = WantedOf(o, v)
    BY <1>1, <1>6
  <2>4. QED
    BY <2>2, <2>3 DEF w
<1>8. Is(w)
  BY <1>7
<1>9. Wanted = CHOOSE f : Is(f)
  BY DEF Wanted, WantedOf
<1> HIDE DEF Is, w
<1>10. Is(Wanted)
  BY <1>8, <1>9
<1>11. QED
  BY <1>10 DEF Is

-----------------------------------------------------------------------------
\* What the record of a deferred compile says of it.
RecordOf(c) == [group |-> setting.group[c], tu |-> c, outName |-> OutName[c]]

Recorded(c) ==
    c \in Compiles /\ records[c] = RecordOf(c) /\ (Registers => c \in uploaded)

MembersOfBatch(o) == [i \in DOMAIN Inputs[o] |-> RecordOf(Inputs[o][i])]

PartsOf(o) == disambiguateOutNames(MembersOfBatch(o))

\* Whose objects are all compiles'.
AllCompiles(o) == \A i \in DOMAIN Inputs[o] : Inputs[o][i] \in Compiles

\* The place of an object among those of its basename.
Nth(name, j) == Cardinality({k \in 1 .. j : name[k] = name[j]})

\* The objects of a batch that repeat a basename are counted from two on.
LEMMA RepeatCount ==
    ASSUME NEW n \in Nat, NEW name, NEW i \in 1 .. n
    PROVE  /\ Nth(name, i) \in 1 .. n
           /\ \A j \in 1 .. n : i < j /\ name[i] = name[j] =>
                Nth(name, j) # 1 /\ Nth(name, i) # Nth(name, j)
<1> DEFINE Same(j) == {k \in 1 .. j : name[k] = name[j]}
<1>1. ASSUME NEW j \in 1 .. n
      PROVE  /\ IsFiniteSet(Same(j)) /\ Cardinality(Same(j)) \in Nat
             /\ Cardinality(Same(j)) <= j /\ Cardinality(Same(j)) # 0 /\ j \in Same(j)
  <2>1. j \in Int /\ 1 \in Int /\ j \in Same(j) /\ Same(j) \in SUBSET (1 .. j) /\ ~(1 > j)
    OBVIOUS
  <2>2. IsFiniteSet(1 .. j) /\ Cardinality(1 .. j) = j
    BY <2>1, FS_Interval
  <2>3. IsFiniteSet(Same(j)) /\ Cardinality(Same(j)) <= j
    BY <2>1, <2>2, FS_Subset
  <2>4. Cardinality(Same(j)) \in Nat /\ Cardinality(Same(j)) # 0
    BY <2>1, <2>3, FS_CardinalityType, FS_EmptySet
  <2>5. QED
    BY <2>1, <2>3, <2>4
<1>2. Cardinality(Same(i)) \in 1 .. n
  BY <1>1
<1>3. ASSUME NEW j \in 1 .. n, i < j, name[i] = name[j]
      PROVE  Cardinality(Same(j)) # 1 /\ Cardinality(Same(i)) # Cardinality(Same(j))
  <2>1. Same(i) \in SUBSET Same(j) /\ j \notin Same(i) /\ j \in Same(j) /\ i \in Same(j) /\ i # j
    BY <1>3
  <2>2. IsFiniteSet(Same(j))
    BY <1>1
  <2> HIDE DEF Same
  <2>3. Cardinality(Same(j)) # 1
    BY <2>1, <2>2, FS_Singleton
  <2>4. Cardinality(Same(i)) # Cardinality(Same(j))
    BY <2>1, <2>2, FS_Subset
  <2>5. QED
    BY <2>3, <2>4
<1>4. QED
  BY <1>2, <1>3 DEF Nth

\* No two objects of a batch are given one name.
LEMMA NamesDiffer ==
    ASSUME NoGeneratedNames, NEW o \in Archives, AllCompiles(o),
           NEW i \in DOMAIN Inputs[o], NEW j \in DOMAIN Inputs[o], i < j
    PROVE  PartsOf(o)[i].outName # PartsOf(o)[j].outName
<1> DEFINE n == Len(Inputs[o])
           name == [k \in DOMAIN Inputs[o] |-> OutName[Inputs[o][k]]]
           count(k) == Nth(name, k)
           given(k) == IF count(k) = 1 THEN name[k] ELSE Append(name[k], count(k))
<1> PICK U : U = STRING \cup Nat
  OBVIOUS
<1>1. o \in Outputs
  BY DEF Outputs
<1>2. n \in Nat /\ DOMAIN Inputs[o] = 1 .. n
  BY <1>1, OperandsOK, LenProperties
<1>3. ASSUME NEW k \in 1 .. n
      PROVE  /\ name[k] \in Seq(U) /\ count(k) \in 1 .. n /\ count(k) \in U
             /\ Inputs[o][k] \in ToSet(Inputs[o]) \cap Compiles
             /\ name[k] = OutName[Inputs[o][k]]
  <2>1. Inputs[o][k] \in Compiles /\ Inputs[o][k] \in ToSet(Inputs[o])
    BY <1>2 DEF AllCompiles, ToSet
  <2>2. name[k] = OutName[Inputs[o][k]] /\ name[k] \in Seq(U)
    BY <1>2, <2>1, NamesAssumption
  <2>3. count(k) \in 1 .. n
    <3> HIDE DEF name, n
    <3>1. QED
      BY <1>2, RepeatCount
  <2> HIDE DEF name, count
  <2>4. count(k) \in U
    BY <1>2, <2>3
  <2>5. QED
    BY <2>1, <2>2, <2>3, <2>4
<1>4. ASSUME NEW k \in 1 .. n PROVE PartsOf(o)[k].outName = given(k)
  <2>1. DOMAIN MembersOfBatch(o) = 1 .. n
        /\ \A l \in 1 .. n : MembersOfBatch(o)[l].outName = name[l]
    BY <1>2 DEF MembersOfBatch, RecordOf
  <2>2. {l \in 1 .. k : MembersOfBatch(o)[l].outName = MembersOfBatch(o)[k].outName}
            = {l \in 1 .. k : name[l] = name[k]}
    <3>1. \A l \in 1 .. k : l \in 1 .. n
      BY <1>2
    <3> HIDE DEF name
    <3>2. QED
      BY <2>1, <3>1
  <2> HIDE DEF name
  <2>3. QED
    BY <2>1, <2>2 DEF PartsOf, disambiguateOutNames, Nth
<1>5. i \in 1 .. n /\ j \in 1 .. n /\ i # j
  BY <1>2
<1>6. name[i] = name[j] => count(j) # 1 /\ count(i) # count(j)
  <2> HIDE DEF name, n
  <2>1. QED
    BY <1>2, <1>5, RepeatCount
<1>7. \A k, l \in 1 .. n : count(l) # 1 => name[k] # Append(name[l], count(l))
  <2> SUFFICES ASSUME NEW k \in 1 .. n, NEW l \in 1 .. n, count(l) # 1
               PROVE  name[k] # Append(name[l], count(l))
    OBVIOUS
  <2>1. /\ Inputs[o][k] \in ToSet(Inputs[o]) \cap Compiles /\ name[k] = OutName[Inputs[o][k]]
        /\ Inputs[o][l] \in ToSet(Inputs[o]) \cap Compiles /\ name[l] = OutName[Inputs[o][l]]
        /\ count(l) \in 1 .. n
    BY <1>3
  <2> HIDE DEF name, count
  <2>2. count(l) \in 2 .. n
    BY <1>2, <2>1
  <2>3. OutName[Inputs[o][k]] # Append(OutName[Inputs[o][l]], count(l))
    BY <2>1, <2>2 DEF NoGeneratedNames
  <2>4. QED
    BY <2>1, <2>3
<1>8. /\ name[i] \in Seq(U) /\ name[j] \in Seq(U) /\ count(i) \in U /\ count(j) \in U
  BY <1>3, <1>5
<1> HIDE DEF name, count
<1>9. given(i) # given(j)
  <2>1. CASE count(i) = 1 /\ count(j) = 1
    BY <1>6, <2>1
  <2>2. CASE count(i) = 1 /\ count(j) # 1
    BY <1>5, <1>7, <2>2
  <2>3. CASE count(i) # 1 /\ count(j) = 1
    BY <1>5, <1>7, <2>3
  <2>4. CASE count(i) # 1 /\ count(j) # 1
    <3> PICK s, e, t, f : s = name[i] /\ e = count(i) /\ t = name[j] /\ f = count(j)
      OBVIOUS
    <3>1. s \in Seq(U) /\ e \in U /\ t \in Seq(U) /\ f \in U
      BY <1>8
    <3>2. Append(s, e) = Append(t, f) => s = t /\ e = f
      BY <3>1, AppendInjective
    <3>3. QED
      BY <1>6, <2>4, <3>2
  <2>5. QED
    BY <2>1, <2>2, <2>3, <2>4
<1> HIDE DEF given
<1>10. QED
  BY <1>4, <1>5, <1>9

-----------------------------------------------------------------------------
\* The last object written under a name, and so the objects a batch holds.
Written(ps, i) == Max({j \in DOMAIN ps : ps[j].outName = ps[i].outName})

BatchObjects(ps) == [i \in DOMAIN ps |-> ps[Written(ps, i)].tu]

\* A batch holds the objects of its archive, each in its place.
LEMMA BatchWhole ==
    ASSUME NoGeneratedNames, NEW o \in Archives, AllCompiles(o)
    PROVE  BatchObjects(PartsOf(o)) = Inputs[o]
<1> DEFINE ps == PartsOf(o)
           n == Len(Inputs[o])
<1>1. o \in Outputs
  BY DEF Outputs
<1>2. n \in Nat /\ DOMAIN Inputs[o] = 1 .. n /\ Inputs[o] = [i \in 1 .. n |-> Inputs[o][i]]
  BY <1>1, OperandsOK, LenProperties
<1>3. DOMAIN ps = 1 .. n /\ \A i \in 1 .. n : ps[i].tu = Inputs[o][i]
  BY <1>2 DEF PartsOf, disambiguateOutNames, MembersOfBatch, RecordOf
<1>4. \A i, j \in 1 .. n : i < j => ps[i].outName # ps[j].outName
  BY <1>2, NamesDiffer
<1> HIDE DEF ps
<1>5. ASSUME NEW i \in 1 .. n PROVE Written(ps, i) = i
  <2>1. {j \in DOMAIN ps : ps[j].outName = ps[i].outName} = {i}
    <3>1. \A j \in 1 .. n : j = i \/ j < i \/ i < j
      BY <1>2
    <3>2. QED
      BY <1>3, <1>4, <3>1
  <2>2. Max({i}) = i
    <3>1. i >= i
      BY <1>2
    <3>2. QED
      BY <3>1 DEF Max
  <2>3. QED
    BY <2>1, <2>2 DEF Written
<1>6. BatchObjects(ps) = [i \in 1 .. n |-> Inputs[o][i]]
  BY <1>3, <1>5 DEF BatchObjects
<1>7. QED
  BY <1>2, <1>6 DEF ps

-----------------------------------------------------------------------------
\* What holds of every derivation in the store: it names what it reads, output
\* by output, and what it reads is there.
Sources == {c \in Compiles : Registers => c \in uploaded}

ResultOf(d, f) == d \in store /\ d.step # "assemble" /\ d.of = f

AllRecorded(o) == \A i \in DOMAIN Inputs[o] : Recorded(Inputs[o][i])

WholeDrv(d) ==
    /\ d.step \in {"compile", "batch", "archive", "link", "assemble"}
    /\ d.step = "compile" => d.of \in Sources
    /\ d.step = "batch" => /\ d.of \in Archives /\ AllRecorded(d.of)
                           /\ d.parts = PartsOf(d.of)
    /\ d.step \in {"archive", "link"} =>
        /\ d.of \in Archives \cup Links
        /\ d.inputs \in Seq(store) /\ Len(d.inputs) = Len(Inputs[d.of])
        /\ \A i \in 1 .. Len(d.inputs) : ResultOf(d.inputs[i], Inputs[d.of][i])
    /\ d.step = "assemble" =>
        /\ d.inputs \in Seq(store)
        /\ \A i \in 1 .. Len(d.inputs) : d.inputs[i].step # "assemble"

\* The objects of a derivation, from those of its inputs.
ObjectsOf(d, f) ==
    CASE d.step = "compile" -> <<d.of>>
      [] d.step = "batch" -> BatchObjects(d.parts)
      [] OTHER -> FlattenSeq([i \in DOMAIN d.inputs |-> f[d.inputs[i]]])

ObjectsEquation(f) == f = [d \in store |-> ObjectsOf(d, f)]

\* The recursive definition of the objects in this form.
LEMMA ObjectsDefined == Objects = CHOOSE f : ObjectsEquation(f)
BY DEF Objects, ObjectsEquation, ObjectsOf, BatchObjects, Written

\* Objects depend on those of the inputs only.
LEMMA ObjectsLocal ==
    ASSUME NEW d, NEW f, NEW g, \A i \in DOMAIN d.inputs : f[d.inputs[i]] = g[d.inputs[i]]
    PROVE  ObjectsOf(d, f) = ObjectsOf(d, g)
<1>1. [i \in DOMAIN d.inputs |-> f[d.inputs[i]]] = [i \in DOMAIN d.inputs |-> g[d.inputs[i]]]
  OBVIOUS
<1>2. QED
  BY <1>1 DEF ObjectsOf

\* A step that is whole is given the objects of its recipe when its inputs are.
LEMMA ObjectsWanted ==
    ASSUME NoGeneratedNames, NEW rank, RecipeRanks(rank), NEW d \in store, WholeDrv(d),
           d.step # "assemble", NEW f,
           d.step \in {"archive", "link"} =>
               \A i \in DOMAIN d.inputs : f[d.inputs[i]] = Wanted[d.inputs[i].of]
    PROVE  ObjectsOf(d, f) = Wanted[d.of]
<1>1. d.of \in Outputs /\ \A o \in Outputs : Wanted[o] = WantedOf(o, Wanted)
  BY WantedEquation DEF WholeDrv, Sources, Outputs
<1>2. Wanted[d.of] = WantedOf(d.of, Wanted)
  BY <1>1
<1>3. CASE d.step = "compile"
  BY <1>2, <1>3 DEF WholeDrv, Sources, ObjectsOf, WantedOf
<1>4. CASE d.step = "batch"
  <2>1. d.of \in Archives /\ d.of \notin Compiles /\ AllCompiles(d.of) /\ d.parts = PartsOf(d.of)
    BY <1>4, ToolsAssumption DEF WholeDrv, AllRecorded, Recorded, AllCompiles
  <2>2. ObjectsOf(d, f) = Inputs[d.of]
    <3>1. ObjectsOf(d, f) = BatchObjects(d.parts)
      BY <1>4 DEF ObjectsOf
    <3>2. QED
      BY <2>1, <3>1, BatchWhole
  <2>3. \A i \in DOMAIN Inputs[d.of] : Wanted[Inputs[d.of][i]] = <<Inputs[d.of][i]>>
    BY <1>1, <2>1 DEF AllCompiles, WantedOf, Outputs
  <2>4. [i \in DOMAIN Inputs[d.of] |-> Wanted[Inputs[d.of][i]]]
            = [i \in DOMAIN Inputs[d.of] |-> <<Inputs[d.of][i]>>]
    BY <2>3
  <2>5. FlattenSeq([i \in DOMAIN Inputs[d.of] |-> <<Inputs[d.of][i]>>]) = Inputs[d.of]
    BY <1>1, OperandsOK, FlattenSingles
  <2>6. QED
    BY <1>2, <2>1, <2>2, <2>4, <2>5 DEF WantedOf
<1>5. CASE d.step \in {"archive", "link"}
  <2>1. /\ d.of \notin Compiles /\ d.inputs \in Seq(store)
        /\ Len(d.inputs) = Len(Inputs[d.of])
        /\ \A i \in 1 .. Len(d.inputs) : ResultOf(d.inputs[i], Inputs[d.of][i])
    BY <1>5, ToolsAssumption DEF WholeDrv
  <2>2. DOMAIN d.inputs = DOMAIN Inputs[d.of] /\ DOMAIN d.inputs = 1 .. Len(d.inputs)
    BY <1>1, <2>1, OperandsOK, LenProperties
  <2>3. \A i \in DOMAIN d.inputs : f[d.inputs[i]] = Wanted[Inputs[d.of][i]]
    BY <1>5, <2>1, <2>2 DEF ResultOf
  <2>4. [i \in DOMAIN d.inputs |-> f[d.inputs[i]]]
            = [i \in DOMAIN Inputs[d.of] |-> Wanted[Inputs[d.of][i]]]
    BY <2>2, <2>3
  <2>5. ObjectsOf(d, f) = FlattenSeq([i \in DOMAIN d.inputs |-> f[d.inputs[i]]])
    BY <1>5 DEF ObjectsOf
  <2>6. QED
    BY <1>2, <2>1, <2>4, <2>5 DEF WantedOf
<1>6. QED
  BY <1>3, <1>4, <1>5 DEF WholeDrv

\* The objects of every derivation are defined, when all of them are whole.
LEMMA ObjectsExist ==
    ASSUME NoGeneratedNames, NEW rank, RecipeRanks(rank), \A d \in store : WholeDrv(d)
    PROVE  ObjectsEquation(Objects)
<1> DEFINE f == [d \in store |->
                    IF d.step = "assemble"
                    THEN FlattenSeq([i \in DOMAIN d.inputs |-> Wanted[d.inputs[i].of]])
                    ELSE Wanted[d.of]]
<1>1. ASSUME NEW d \in store, NEW i \in DOMAIN d.inputs,
             d.step \in {"archive", "link", "assemble"}
      PROVE  f[d.inputs[i]] = Wanted[d.inputs[i].of]
  <2>1. d.inputs \in Seq(store) /\ \A j \in 1 .. Len(d.inputs) : d.inputs[j].step # "assemble"
    BY <1>1 DEF WholeDrv, ResultOf
  <2>2. i \in 1 .. Len(d.inputs) /\ d.inputs[i] \in store
    BY <1>1, <2>1, LenProperties, ElementOfSeq
  <2>3. QED
    BY <2>1, <2>2
<1>2. ASSUME NEW d \in store PROVE f[d] = ObjectsOf(d, f)
  <2>1. CASE d.step = "assemble"
    <3>1. f[d] = FlattenSeq([i \in DOMAIN d.inputs |-> Wanted[d.inputs[i].of]])
      BY <2>1
    <3>2. \A i \in DOMAIN d.inputs : f[d.inputs[i]] = Wanted[d.inputs[i].of]
      BY <1>1, <2>1
    <3> HIDE DEF f
    <3>3. [i \in DOMAIN d.inputs |-> f[d.inputs[i]]]
            = [i \in DOMAIN d.inputs |-> Wanted[d.inputs[i].of]]
      BY <3>2
    <3>4. ObjectsOf(d, f) = FlattenSeq([i \in DOMAIN d.inputs |-> f[d.inputs[i]]])
      BY <2>1 DEF ObjectsOf
    <3>5. QED
      BY <3>1, <3>3, <3>4
  <2>2. CASE d.step # "assemble"
    <3>1. f[d] = Wanted[d.of]
      BY <2>2
    <3>2. d.step \in {"archive", "link"} =>
                \A i \in DOMAIN d.inputs : f[d.inputs[i]] = Wanted[d.inputs[i].of]
      BY <1>1
    <3> HIDE DEF f
    <3>3. QED
      BY <2>2, <3>1, <3>2, ObjectsWanted
  <2>3. QED
    BY <2>1, <2>2
<1>3. ObjectsEquation(f)
  <2>1. f = [d \in store |-> f[d]]
    OBVIOUS
  <2> HIDE DEF f
  <2>2. QED
    BY <1>2, <2>1 DEF ObjectsEquation
<1> HIDE DEF f
<1>4. QED
  BY <1>3, ObjectsDefined

\* A store of whole derivations builds what the Makefile asks for.
LEMMA WholeStore ==
    ASSUME NoGeneratedNames, NEW rank, RecipeRanks(rank), \A d \in store : WholeDrv(d)
    PROVE  DerivationsAreWhole
<1>1. \A d \in store : Objects[d] = ObjectsOf(d, Objects)
  BY ObjectsExist DEF ObjectsEquation
<1>2. \A o \in Outputs : rank[o] \in Nat /\ Wanted[o] = WantedOf(o, Wanted)
  BY WantedEquation DEF RecipeRanks
<1> DEFINE Good(d) == Objects[d] = Wanted[d.of] /\ Wanted[d.of] \in Seq(Sources)
           Bad == {d \in store : d.step # "assemble" /\ ~Good(d)}
           T == {rank[d.of] : d \in Bad}
<1>3. \A d \in store : d.step # "assemble" => d.of \in Outputs
  BY DEF WholeDrv, Sources, Outputs
<1>4. ASSUME NEW d \in store, d.step # "assemble",
             \A e \in store : e.step # "assemble" /\ rank[e.of] < rank[d.of] => Good(e)
      PROVE  Good(d)
  <2>1. Wanted[d.of] = WantedOf(d.of, Wanted)
    BY <1>2, <1>3, <1>4
  <2>2. CASE d.step = "compile"
    <3>1. ObjectsOf(d, Objects) = Wanted[d.of]
      BY <2>2, ObjectsWanted
    <3>2. d.of \in Sources /\ d.of \in Compiles
      BY <2>2 DEF WholeDrv, Sources
    <3>3. Wanted[d.of] = <<d.of>>
      BY <2>1, <3>2 DEF WantedOf
    <3>4. QED
      BY <1>1, <3>1, <3>2, <3>3
  <2>3. CASE d.step = "batch"
    <3>1. ObjectsOf(d, Objects) = Wanted[d.of]
      BY <2>3, ObjectsWanted
    <3>2. d.of \in Archives /\ AllCompiles(d.of) /\ d.parts = PartsOf(d.of)
          /\ \A i \in DOMAIN Inputs[d.of] : Inputs[d.of][i] \in Sources
      BY <2>3 DEF WholeDrv, AllRecorded, AllCompiles, Recorded, Sources
    <3>3. ObjectsOf(d, Objects) = BatchObjects(d.parts)
      BY <2>3 DEF ObjectsOf
    <3>4. Wanted[d.of] = Inputs[d.of]
      BY <3>1, <3>2, <3>3, BatchWhole
    <3>5. Inputs[d.of] \in Seq(Sources)
      <4>1. /\ Inputs[d.of] \in Seq(Outputs) /\ DOMAIN Inputs[d.of] = 1 .. Len(Inputs[d.of])
            /\ Len(Inputs[d.of]) \in Nat
        BY <1>3, <1>4, OperandsOK, LenProperties
      <4> PICK s, S : s = Inputs[d.of] /\ S = Sources
        OBVIOUS
      <4>2. s \in Seq(Outputs) /\ \A i \in 1 .. Len(s) : s[i] \in S
        BY <3>2, <4>1
      <4>3. s \in Seq(S)
        BY <4>2
      <4>4. QED
        BY <4>3
    <3>6. QED
      BY <1>1, <3>1, <3>4, <3>5
  <2>4. CASE d.step \in {"archive", "link"}
    <3>1. /\ d.of \notin Compiles /\ d.of \in Outputs /\ d.inputs \in Seq(store)
          /\ Len(d.inputs) = Len(Inputs[d.of])
          /\ \A i \in 1 .. Len(d.inputs) : ResultOf(d.inputs[i], Inputs[d.of][i])
      BY <1>3, <1>4, <2>4, ToolsAssumption DEF WholeDrv
    <3>2. /\ DOMAIN d.inputs = DOMAIN Inputs[d.of] /\ DOMAIN d.inputs = 1 .. Len(d.inputs)
          /\ Inputs[d.of] \in Seq(Outputs) /\ Len(Inputs[d.of]) \in Nat
      BY <3>1, OperandsOK, LenProperties
    <3>3. ASSUME NEW i \in DOMAIN d.inputs
          PROVE  /\ Objects[d.inputs[i]] = Wanted[d.inputs[i].of]
                 /\ d.inputs[i].of = Inputs[d.of][i] /\ Wanted[Inputs[d.of][i]] \in Seq(Sources)
      <4>1. /\ d.inputs[i] \in store /\ d.inputs[i].step # "assemble"
            /\ d.inputs[i].of = Inputs[d.of][i]
        BY <3>1, <3>2 DEF ResultOf
      <4>2. Inputs[d.of][i] \in ToSet(Inputs[d.of])
        BY <3>2 DEF ToSet
      <4>3. rank[d.inputs[i].of] < rank[d.of]
        BY <3>1, <4>1, <4>2 DEF RecipeRanks
      <4>4. Good(d.inputs[i])
        BY <1>4, <4>1, <4>3
      <4>5. QED
        BY <4>1, <4>4
    <3>4. ObjectsOf(d, Objects) = Wanted[d.of]
      BY <1>4, <2>4, <3>3, ObjectsWanted
    <3>5. [i \in DOMAIN Inputs[d.of] |-> Wanted[Inputs[d.of][i]]] \in Seq(Seq(Sources))
      <4> PICK n, s, S : /\ n = Len(Inputs[d.of]) /\ S = Seq(Sources)
                         /\ s = [i \in DOMAIN Inputs[d.of] |-> Wanted[Inputs[d.of][i]]]
        OBVIOUS
      <4>1. n \in Nat /\ s \in [1 .. n -> S]
        BY <3>1, <3>2, <3>3
      <4>2. s \in Seq(S)
        BY <4>1
      <4>3. QED
        BY <4>2
    <3>6. Wanted[d.of] \in Seq(Sources)
      BY <2>1, <3>1, <3>5, FlattenType DEF WantedOf
    <3>7. QED
      BY <1>1, <3>4, <3>6
  <2>5. QED
    BY <1>4, <2>2, <2>3, <2>4 DEF WholeDrv
<1> HIDE DEF Good
<1>5. \A d \in store : d.step # "assemble" => Good(d)
  <2> SUFFICES ASSUME Bad # {} PROVE FALSE
    OBVIOUS
  <2>1. T \subseteq Nat /\ T # {}
    BY <1>2, <1>3
  <2>2. PICK m \in T : \A k \in T : m <= k
    BY <2>1, LeastNatural
  <2>3. PICK d \in Bad : m = rank[d.of]
    BY <2>2
  <2>4. ASSUME NEW e \in store, e.step # "assemble", rank[e.of] < rank[d.of] PROVE Good(e)
    <3>1. rank[e.of] \in Nat /\ m \in Nat /\ ~(m <= rank[e.of])
      BY <1>2, <1>3, <2>1, <2>3, <2>4
    <3>2. rank[e.of] \notin T
      BY <2>2, <3>1
    <3>3. QED
      BY <2>4, <3>2
  <2>5. QED
    BY <1>4, <2>3, <2>4
<1>6. ASSUME NEW d \in store, d.step # "assemble"
      PROVE  Objects[d] = Wanted[d.of] /\ (Registers => ToSet(Objects[d]) \subseteq uploaded)
  <2>1. Objects[d] = Wanted[d.of] /\ Wanted[d.of] \in Seq(Sources)
    BY <1>5, <1>6 DEF Good
  <2>2. ToSet(Objects[d]) \subseteq Sources
    BY <2>1, LenProperties, ElementOfSeq DEF ToSet
  <2>3. QED
    BY <2>1, <2>2 DEF Sources
<1>7. QED
  BY <1>6 DEF DerivationsAreWhole

-----------------------------------------------------------------------------
\* What a recipe has gathered of its operands, in their order.
InOrder(o) ==
    /\ Len(jobs[o].got) + Len(jobs[o].left) = Len(Inputs[o])
    /\ \A i \in 1 .. Len(jobs[o].left) :
        jobs[o].left[i] = Inputs[o][Len(jobs[o].got) + i]

Collected(o) ==
    /\ jobs[o].got \in Seq({RecordOf(c) : c \in Compiles}) /\ InOrder(o)
    /\ \A i \in 1 .. Len(jobs[o].got) :
        Recorded(Inputs[o][i]) /\ jobs[o].got[i] = RecordOf(Inputs[o][i])

Resolved(o) ==
    /\ jobs[o].got \in Seq(store) /\ InOrder(o)
    /\ \A i \in 1 .. Len(jobs[o].got) : ResultOf(jobs[o].got[i], Inputs[o][i])

\* An entry of the working tree that stands, or will, at f.
WholeEntry(e, f) ==
    /\ e.kind = "ref" => ResultOf(e.drv, f)
    /\ e.kind = "pending" => Recorded(f)

WholeJob(o) ==
    /\ jobs[o].pc = "staged" => o \in Sources
    /\ jobs[o].pc = "try" => Collected(o)
    /\ Gathering(o) => Resolved(o)
    /\ Writing(o) => WholeEntry(jobs[o].put, jobs[o].at)

WholeInv ==
    /\ DOMAIN records = Compiles
    /\ \A o \in Outputs : WholeJob(o) /\ WholeEntry(files[o], o)
    /\ \A d \in store : WholeDrv(d)

-----------------------------------------------------------------------------
\* A step that loses nothing of what is stored, uploaded and recorded.
Grows ==
    /\ setting' = setting /\ store \subseteq store' /\ uploaded \subseteq uploaded'
    /\ DOMAIN records' = Compiles
    /\ \A c \in Compiles : Recorded(c) => records'[c] = records[c]

\* A record that is made stays, and so do the source trees that are stored.
LEMMA RecordKept ==
    ASSUME Grows, NEW c
    PROVE  RecordOf(c)' = RecordOf(c) /\ (Recorded(c) => Recorded(c)')
           /\ (c \in Sources => c \in Sources')
<1>1. RecordOf(c)' = RecordOf(c) /\ Registers' = Registers
  BY DEF Grows, RecordOf, Registers
<1>2. QED
  BY <1>1 DEF Grows, Recorded, Sources

\* A derivation that is whole stays so.
LEMMA WholeDrvKept ==
    ASSUME Grows, NEW d, WholeDrv(d)
    PROVE  WholeDrv(d)'
<1>1. d.of \in Sources => d.of \in Sources'
  BY RecordKept
<1>2. AllRecorded(d.of) => AllRecorded(d.of)'
  BY RecordKept DEF AllRecorded
<1>3. PartsOf(d.of)' = PartsOf(d.of)
  BY DEF PartsOf, disambiguateOutNames, MembersOfBatch, RecordOf, Grows
<1>4. d.inputs \in Seq(store) => d.inputs \in Seq(store')
  BY SeqMonotonic DEF Grows
<1>5. \A e, f : ResultOf(e, f) => ResultOf(e, f)'
  BY DEF ResultOf, Grows
<1>6. QED
  BY <1>1, <1>2, <1>3, <1>4, <1>5 DEF WholeDrv

\* So does what stands in the working tree.
LEMMA WholeEntryKept ==
    ASSUME Grows, NEW e, NEW f, WholeEntry(e, f)
    PROVE  (e.kind = "ref" => ResultOf(e.drv, f)') /\ (e.kind = "pending" => Recorded(f)')
BY RecordKept DEF WholeEntry, ResultOf, Grows

\* What was gathered stays gathered.
LEMMA CollectedKept ==
    ASSUME Grows, NEW o \in Outputs, Collected(o), jobs'[o].got = jobs[o].got,
           jobs'[o].left = jobs[o].left
    PROVE  Collected(o)'
<1>1. {RecordOf(c) : c \in Compiles}' = {RecordOf(c) : c \in Compiles}
  BY DEF RecordOf, Grows
<1>2. \A c : Recorded(c) => Recorded(c)' /\ RecordOf(c)' = RecordOf(c)
  BY RecordKept
<1>3. QED
  BY <1>1, <1>2 DEF Collected, InOrder

\* So does what was resolved.
LEMMA ResolvedKept ==
    ASSUME Grows, NEW o \in Outputs, Resolved(o), jobs'[o].got = jobs[o].got,
           jobs'[o].left = jobs[o].left
    PROVE  Resolved(o)'
<1>1. jobs[o].got \in Seq(store')
  BY SeqMonotonic DEF Resolved, Grows
<1>2. \A e, f : ResultOf(e, f) => ResultOf(e, f)'
  BY DEF ResultOf, Grows
<1>3. QED
  BY <1>1, <1>2 DEF Resolved, InOrder

\* A recipe that does nothing stays whole.
LEMMA WholeJobKept ==
    ASSUME Grows, NEW o \in Outputs, WholeJob(o), jobs'[o] = jobs[o]
    PROVE  WholeJob(o)'
<1>1. Collected(o) => Collected(o)'
  BY CollectedKept
<1>2. Resolved(o) => Resolved(o)'
  BY ResolvedKept
<1>3. WholeEntry(jobs[o].put, jobs[o].at) => WholeEntry(jobs[o].put, jobs[o].at)'
  BY WholeEntryKept DEF WholeEntry
<1>4. o \in Sources => o \in Sources'
  BY RecordKept
<1>5. QED
  BY <1>1, <1>2, <1>3, <1>4 DEF WholeJob, Gathering, Writing

\* A step of one recipe keeps the invariant if it keeps it of the recipe, of the
\* file it changes and of the derivation it registers.
LEMMA WholeKept ==
    ASSUME WholeInv, Grows, NEW o \in Outputs,
           \A p \in Outputs \ {o} : jobs'[p] = jobs[p], WholeJob(o)',
           \A f \in Outputs : files'[f] = files[f] \/ WholeEntry(files[f], f)',
           \A d \in store' : d \in store \/ WholeDrv(d)'
    PROVE  WholeInv'
<1>1. \A p \in Outputs : WholeJob(p)'
  BY WholeJobKept DEF WholeInv
<1>2. ASSUME NEW f \in Outputs PROVE WholeEntry(files[f], f)'
  BY WholeEntryKept DEF WholeInv, WholeEntry
<1>3. \A d \in store' : WholeDrv(d)'
  BY WholeDrvKept DEF WholeInv
<1>4. QED
  BY <1>1, <1>2, <1>3 DEF WholeInv, Grows

\* Nothing has been gathered of operands that are all left.
LEMMA InOrderStart ==
    ASSUME NEW o \in Outputs, jobs'[o].got = <<>>, jobs'[o].left = Inputs[o]
    PROVE  InOrder(o)' /\ Collected(o)' /\ Resolved(o)'
<1>1. /\ Len(<<>>) = 0 /\ Len(Inputs[o]) \in Nat /\ \A S : <<>> \in Seq(S)
  BY OperandsOK, LenProperties, EmptySeq
<1>2. InOrder(o)'
  BY <1>1 DEF InOrder
<1>3. \A i \in 1 .. Len(<<>>) : FALSE
  BY <1>1
<1>4. QED
  BY <1>1, <1>2, <1>3 DEF Collected, Resolved

\* The next operand is the one after those gathered.
LEMMA InOrderNext ==
    ASSUME NEW o \in Outputs, NEW S, jobs[o].got \in Seq(S), NEW x \in S, JobOK(o), InOrder(o),
           jobs[o].left # <<>>,
           jobs'[o].got = Append(jobs[o].got, x), jobs'[o].left = Tail(jobs[o].left)
    PROVE  /\ Head(jobs[o].left) = Inputs[o][Len(jobs[o].got) + 1]
           /\ jobs'[o].got \in Seq(S) /\ Len(jobs'[o].got) = Len(jobs[o].got) + 1
           /\ \A i \in 1 .. Len(jobs[o].got) : jobs'[o].got[i] = jobs[o].got[i]
           /\ jobs'[o].got[Len(jobs[o].got) + 1] = x
           /\ Len(jobs[o].got) \in Nat /\ InOrder(o)'
<1> PICK got, left, all : got = jobs[o].got /\ left = jobs[o].left /\ all = Inputs[o]
  OBVIOUS
<1>1. left \in Seq(Outputs) /\ left # <<>> /\ got \in Seq(S)
  BY DEF JobOK
<1>2. /\ Append(got, x) \in Seq(S) /\ Len(Append(got, x)) = Len(got) + 1
      /\ \A i \in 1 .. Len(got) : Append(got, x)[i] = got[i]
      /\ Append(got, x)[Len(got) + 1] = x
  BY <1>1, AppendProperties
<1>3. /\ Head(left) = left[1] /\ Len(Tail(left)) = Len(left) - 1
      /\ \A i \in 1 .. Len(Tail(left)) : Tail(left)[i] = left[i + 1]
  BY <1>1, HeadTailProperties
<1>4. Len(left) \in Nat /\ Len(left) # 0 /\ Len(got) \in Nat
  BY <1>1, EmptySeq, LenProperties
<1>5. Len(got) + Len(left) = Len(all) /\ \A i \in 1 .. Len(left) : left[i] = all[Len(got) + i]
  BY DEF InOrder
<1> PICK newgot, newleft : newgot = Append(got, x) /\ newleft = Tail(left)
  OBVIOUS
<1>6. PICK k, l, newk, newl : /\ k = Len(got) /\ newk = Len(newgot)
                              /\ l = Len(left) /\ newl = Len(newleft)
  OBVIOUS
<1>7. newk = k + 1 /\ newl = l - 1 /\ k \in Nat /\ l \in Nat /\ k + l = Len(all)
  BY <1>2, <1>3, <1>4, <1>5, <1>6, Zenon
<1>8. Len(newgot) + Len(newleft) = Len(all)
  <2>1. newk + newl = Len(all)
    BY <1>7, Z3
  <2>2. QED
    BY <1>6, <2>1, Zenon
<1>9. ASSUME NEW i \in 1 .. Len(newleft) PROVE newleft[i] = all[Len(newgot) + i]
  <2>1. i + 1 \in 1 .. l /\ newk + i = k + (i + 1)
    <3>1. i \in 1 .. newl
      BY <1>6, <1>9, Zenon
    <3>2. QED
      BY <1>7, <3>1, Z3
  <2>2. newleft[i] = left[i + 1]
    BY <1>3, Zenon
  <2>3. QED
    BY <1>5, <1>6, <2>1, <2>2, Zenon
<1>10. InOrder(o)'
  BY <1>8, <1>9 DEF InOrder
<1>11. Head(left) = all[Len(got) + 1]
  BY <1>3, <1>4, <1>5
<1>12. QED
  BY <1>2, <1>4, <1>10, <1>11

-----------------------------------------------------------------------------
\* A recipe starts with its operands all left.
LEMMA StartWhole ==
    ASSUME StateOK, WholeInv, NEW o \in Outputs, Start(o)
    PROVE  WholeInv'
<1>1. /\ \A p \in Outputs \ {o} : jobs'[p] = jobs[p]
      /\ jobs'[o].left = Inputs[o] /\ jobs'[o].got = <<>>
      /\ jobs'[o].pc = IF o \in Links THEN "classify" ELSE IF o \in Archives THEN "try"
                       ELSE IF Registers THEN "upload" ELSE "staged"
  BY DEF Start, Job, StateOK
<1>2. Grows /\ files' = files /\ store' = store
  BY DEF Start, Grows, WholeInv
<1>3. InOrder(o)' /\ Collected(o)' /\ Resolved(o)'
  BY <1>1, InOrderStart
<1>4. jobs'[o].pc = "staged" => o \in Sources'
  BY <1>1, <1>2 DEF Sources, Outputs, Registers, Grows
<1>5. ~Writing(o)'
  BY <1>1 DEF Writing
<1>6. WholeJob(o)'
  BY <1>3, <1>4, <1>5 DEF WholeJob
<1>7. QED
  BY <1>1, <1>2, <1>6, WholeKept

\* Uploads, fallbacks and what follows a submission change no entry.
LEMMA MoveWhole ==
    ASSUME StateOK, WholeInv, NEW o \in Outputs,
           Upload(o) \/ FallThrough(o) \/ CannotModel(o) \/ maybeSubmit(o) \/ WriteMembers(o)
    PROVE  WholeInv'
<1>1. JobOK(o) /\ DOMAIN jobs = Outputs
  BY DEF StateOK
<1>2. /\ \A p \in Outputs \ {o} : jobs'[p] = jobs[p]
      /\ Grows /\ files' = files /\ store' = store
  BY <1>1, GotoFields DEF Upload, FallThrough, CannotModel, maybeSubmit, WriteMembers, Grows,
     WholeInv
<1>3. WholeJob(o)'
  <2>1. CASE Upload(o)
    <3>1. jobs'[o].pc = "staged" /\ o \in Compiles /\ o \in uploaded'
      BY <1>1, <2>1, GotoFields DEF Upload, JobOK
    <3>2. QED
      BY <3>1 DEF WholeJob, Sources, Gathering, Writing
  <2>2. CASE FallThrough(o)
    <3>1. jobs'[o].pc = "classify" /\ jobs'[o].left = Inputs[o] /\ jobs'[o].got = <<>>
      BY <1>1, <2>2 DEF FallThrough, JobOK, Fields
    <3>2. Resolved(o)'
      BY <3>1, InOrderStart
    <3>3. QED
      BY <3>1, <3>2 DEF WholeJob, Writing
  <2>3. CASE CannotModel(o) \/ maybeSubmit(o) \/ WriteMembers(o)
    <3>1. jobs'[o].pc \in {"bypass", "sidecar", "done"}
      BY <1>1, <2>3 DEF CannotModel, maybeSubmit, WriteMembers, Goto, JobOK, Fields
    <3>2. QED
      BY <3>1 DEF WholeJob, Gathering, Writing
  <2>4. QED
    BY <2>1, <2>2, <2>3
<1>4. QED
  BY <1>2, <1>3, WholeKept

\* An operand that has been deferred is on record.
LEMMA CollectWhole ==
    ASSUME StateOK, WholeInv, NEW o \in Outputs, collectSameGroupMembers(o)
    PROVE  WholeInv'
<1> PICK c, x : c = Head(jobs[o].left) /\ x = records[c]
  OBVIOUS
<1>1. JobOK(o) /\ DOMAIN jobs = Outputs /\ Collected(o) /\ jobs[o].left # <<>>
      /\ jobs[o].pc = "try"
  BY DEF StateOK, WholeInv, WholeJob, collectSameGroupMembers
<1>2. /\ \A p \in Outputs \ {o} : jobs'[p] = jobs[p]
      /\ Grows /\ files' = files /\ store' = store
  BY <1>1 DEF collectSameGroupMembers, Grows, WholeInv
<1>3. /\ jobs'[o].pc = "try" /\ jobs'[o].left = Tail(jobs[o].left)
      /\ jobs'[o].got = Append(jobs[o].got, x)
  BY <1>1 DEF collectSameGroupMembers, JobOK, Fields
<1>4. c \in Outputs
  BY <1>1, TailSet DEF JobOK
<1>5. Recorded(c)
  BY <1>4 DEF collectSameGroupMembers, SameGroup, WholeInv, WholeEntry
<1>6. x = RecordOf(c) /\ x \in {RecordOf(b) : b \in Compiles}
  BY <1>5 DEF Recorded
<1> PICK S, n : S = {RecordOf(b) : b \in Compiles} /\ n = Len(jobs[o].got)
  OBVIOUS
<1>7. jobs[o].got \in Seq(S) /\ InOrder(o) /\ x \in S
      /\ \A i \in 1 .. n : Recorded(Inputs[o][i]) /\ jobs[o].got[i] = RecordOf(Inputs[o][i])
  BY <1>1, <1>6 DEF Collected
<1>8. /\ c = Inputs[o][n + 1] /\ jobs'[o].got \in Seq(S) /\ Len(jobs'[o].got) = n + 1
      /\ \A i \in 1 .. n : jobs'[o].got[i] = jobs[o].got[i]
      /\ jobs'[o].got[n + 1] = x /\ n \in Nat /\ InOrder(o)'
  BY <1>1, <1>3, <1>7, InOrderNext
<1>9. \A i \in 1 .. n + 1 : i \in 1 .. n \/ i = n + 1
  BY <1>8
<1>10. \A i \in 1 .. n + 1 : Recorded(Inputs[o][i]) /\ jobs'[o].got[i] = RecordOf(Inputs[o][i])
  BY <1>5, <1>6, <1>7, <1>8, <1>9
<1>11. \A b : Recorded(b) => Recorded(b)' /\ RecordOf(b)' = RecordOf(b)
  BY <1>2, RecordKept
<1>12. {RecordOf(b) : b \in Compiles}' = S
  BY <1>2 DEF RecordOf, Grows
<1>13. Collected(o)'
  BY <1>8, <1>10, <1>11, <1>12 DEF Collected
<1>14. WholeJob(o)'
  BY <1>3, <1>13 DEF WholeJob, Gathering, Writing
<1>15. QED
  BY <1>2, <1>14, WholeKept

\* An operand that is a reference is its own result.
LEMMA ClassifyWhole ==
    ASSUME StateOK, WholeInv, NEW o \in Outputs, ClassifyInput(o)
    PROVE  WholeInv'
<1> PICK c, x : c = Head(jobs[o].left) /\ x = files[c].drv
  OBVIOUS
<1>1. JobOK(o) /\ DOMAIN jobs = Outputs /\ Resolved(o) /\ jobs[o].left # <<>>
      /\ jobs[o].pc = "classify"
  BY DEF StateOK, WholeInv, WholeJob, ClassifyInput, Gathering
<1>2. /\ \A p \in Outputs \ {o} : jobs'[p] = jobs[p]
      /\ Grows /\ files' = files /\ store' = store
  BY <1>1 DEF ClassifyInput, Grows, WholeInv
<1>3. /\ jobs'[o].pc = "classify" /\ jobs'[o].left = Tail(jobs[o].left)
      /\ jobs'[o].got = Append(jobs[o].got, x)
  BY <1>1 DEF ClassifyInput, JobOK, Fields
<1>4. c \in Outputs
  BY <1>1, TailSet DEF JobOK
<1>5. ResultOf(x, c) /\ x \in store
  BY <1>4 DEF ClassifyInput, WholeInv, WholeEntry, ResultOf
<1> PICK n : n = Len(jobs[o].got)
  OBVIOUS
<1>6. jobs[o].got \in Seq(store) /\ InOrder(o)
      /\ \A i \in 1 .. n : ResultOf(jobs[o].got[i], Inputs[o][i])
  BY <1>1 DEF Resolved
<1>7. /\ c = Inputs[o][n + 1] /\ jobs'[o].got \in Seq(store) /\ Len(jobs'[o].got) = n + 1
      /\ \A i \in 1 .. n : jobs'[o].got[i] = jobs[o].got[i]
      /\ jobs'[o].got[n + 1] = x /\ n \in Nat /\ InOrder(o)'
  BY <1>1, <1>3, <1>5, <1>6, InOrderNext
<1>8. \A i \in 1 .. n + 1 : i \in 1 .. n \/ i = n + 1
  BY <1>7
<1>9. \A i \in 1 .. n + 1 : ResultOf(jobs'[o].got[i], Inputs[o][i])
  BY <1>5, <1>6, <1>7, <1>8
<1>10. \A e, f : ResultOf(e, f) => ResultOf(e, f)'
  BY <1>2 DEF ResultOf
<1>11. Resolved(o)'
  BY <1>2, <1>7, <1>9, <1>10 DEF Resolved
<1>12. WholeJob(o)'
  BY <1>3, <1>11 DEF WholeJob, Gathering, Writing
<1>13. QED
  BY <1>2, <1>12, WholeKept

-----------------------------------------------------------------------------
\* A step that decides to publish a derivation of a file keeps the invariant if
\* the derivation is whole and the recipe keeps what it has gathered.
LEMMA PublishWhole ==
    ASSUME StateOK, WholeInv, Grows, NEW o \in Outputs, NEW file, NEW next, NEW d,
           Publish(o, file, Ref(d), next), files' = files, store' = store \cup {d},
           WholeDrv(d)', d.step # "assemble", d.of = file,
           next = "classify" => Resolved(o)
    PROVE  WholeInv'
<1>1. /\ \A p \in Outputs \ {o} : jobs'[p] = jobs[p]
      /\ jobs'[o].pc = "remove" /\ jobs'[o].at = file /\ jobs'[o].put = Ref(d)
      /\ jobs'[o].then = next /\ jobs'[o].got = jobs[o].got /\ jobs'[o].left = jobs[o].left
  BY PublishFields
<1>2. ResultOf(d, file)'
  BY DEF ResultOf
<1>3. WholeEntry(jobs[o].put, jobs[o].at)'
  <2>1. Ref(d).kind = "ref" /\ Ref(d).drv = d
    BY RefFields
  <2>2. jobs'[o].put.kind = "ref" /\ jobs'[o].put.drv = d
    BY <1>1, <2>1
  <2>3. QED
    BY <1>1, <1>2, <2>2 DEF WholeEntry
<1>4. next = "classify" => Resolved(o)'
  BY <1>1, ResolvedKept
<1>5. WholeJob(o)'
  BY <1>1, <1>3, <1>4 DEF WholeJob, Gathering
<1>6. QED
  BY <1>1, <1>5, WholeKept

\* The fields of a derivation.
LEMMA DrvFields ==
    ASSUME NEW step, NEW o, NEW name, NEW parts, NEW ins, NEW extras
    PROVE  LET d == Derivation(step, o, name, parts, ins, extras)
           IN  d.step = step /\ d.of = o /\ d.parts = parts /\ d.inputs = ins
BY DEF Derivation

\* A compile registers the object of its own source tree, in the store by then.
LEMMA CompileWhole ==
    ASSUME StateOK, WholeInv, NEW o \in Outputs, SubmitCompile(o)
    PROVE  WholeInv'
<1> PICK d : d = CompileDrv(o)
  OBVIOUS
<1>1. JobOK(o) /\ jobs[o].pc = "staged"
  BY DEF StateOK, SubmitCompile
<1>2. o \in Sources /\ d.step = "compile" /\ d.of = o
  BY <1>1, DrvFields DEF WholeInv, WholeJob, CompileDrv
<1>3. Grows /\ files' = files /\ store' = store \cup {d} /\ Publish(o, o, Ref(d), "done")
  BY DEF SubmitCompile, Grows, WholeInv
<1>4. d.of \in Sources'
  BY <1>2, <1>3, RecordKept
<1>5. WholeDrv(d)'
  BY <1>2, <1>4 DEF WholeDrv
<1>6. QED
  BY <1>2, <1>3, <1>5, PublishWhole

\* A compile that is deferred is on record before the stub says so.
LEMMA DeferWhole ==
    ASSUME StateOK, WholeInv, NEW o \in Outputs, deferCompileToBatch(o)
    PROVE  WholeInv'
<1>1. jobs[o].pc = "staged" /\ o \in Sources /\ o \in Compiles
  BY DEF WholeInv, WholeJob, deferCompileToBatch, Sources
<1>2. /\ setting' = setting /\ store' = store /\ files' = files /\ uploaded' = uploaded
      /\ Publish(o, o, Pending(o), "done") /\ records' = [records EXCEPT ![o] = RecordOf(o)]
  BY DEF deferCompileToBatch, RecordOf
<1>3. records'[o] = RecordOf(o) /\ DOMAIN records' = Compiles
      /\ \A c \in Compiles : c # o => records'[c] = records[c]
  BY <1>1, <1>2 DEF WholeInv
<1>4. Grows
  BY <1>2, <1>3 DEF Grows, Recorded
<1>5. Recorded(o)'
  <2>1. RecordOf(o)' = RecordOf(o) /\ Registers' = Registers
    BY <1>2 DEF RecordOf, Registers
  <2>2. QED
    BY <1>1, <1>2, <1>3, <2>1 DEF Recorded, Sources
<1>6. /\ \A p \in Outputs \ {o} : jobs'[p] = jobs[p]
      /\ jobs'[o].pc = "remove" /\ jobs'[o].at = o /\ jobs'[o].put = Pending(o)
      /\ jobs'[o].then = "done"
  BY <1>2, PublishFields
<1>7. WholeEntry(jobs[o].put, jobs[o].at)'
  <2>1. jobs'[o].put.kind = "pending"
    BY <1>6 DEF Pending, Entry
  <2>2. QED
    BY <1>5, <1>6, <2>1 DEF WholeEntry
<1>8. WholeJob(o)'
  BY <1>6, <1>7 DEF WholeJob, Gathering
<1>9. QED
  BY <1>2, <1>4, <1>6, <1>8, WholeKept

\* A batch folds in the objects of its archive, in order.
LEMMA BatchedWhole ==
    ASSUME StateOK, WholeInv, NEW o \in Outputs, submitCombinedArchive(o)
    PROVE  WholeInv'
<1> PICK d : d = BatchDrv(o, jobs[o].got)
  OBVIOUS
<1>1. JobOK(o) /\ jobs[o].pc = "try" /\ jobs[o].left = <<>> /\ Collected(o)
  BY DEF StateOK, WholeInv, WholeJob, submitCombinedArchive
<1>2. Grows /\ files' = files /\ store' = store \cup {d} /\ Publish(o, o, Ref(d), "submit")
  BY DEF submitCombinedArchive, Grows, WholeInv
<1>3. o \in Archives
  BY <1>1 DEF JobOK
<1>4. d.step = "batch" /\ d.of = o /\ d.parts = disambiguateOutNames(jobs[o].got)
  BY DrvFields DEF BatchDrv
<1>5. /\ Len(jobs[o].got) = Len(Inputs[o]) /\ DOMAIN Inputs[o] = 1 .. Len(Inputs[o])
      /\ DOMAIN jobs[o].got = 1 .. Len(jobs[o].got)
      /\ jobs[o].got = [i \in DOMAIN jobs[o].got |-> jobs[o].got[i]]
  <2>1. jobs[o].got \in Seq({RecordOf(c) : c \in Compiles}) /\ InOrder(o)
    BY <1>1 DEF Collected
  <2> PICK S, got, n, m : /\ S = {RecordOf(c) : c \in Compiles} /\ got = jobs[o].got
                          /\ n = Len(jobs[o].got) /\ m = Len(Inputs[o])
    OBVIOUS
  <2>2. n \in Nat /\ DOMAIN got = 1 .. n /\ got \in [1 .. n -> S]
    BY <2>1, LenProperties
  <2>3. m \in Nat /\ DOMAIN Inputs[o] = 1 .. m
    BY OperandsOK, LenProperties
  <2>4. n + 0 = m
    BY <1>1, <2>1, EmptySeq DEF InOrder
  <2>5. n = m
    BY <2>2, <2>3, <2>4
  <2>6. QED
    BY <2>2, <2>3, <2>5
<1>6. \A i \in DOMAIN Inputs[o] : Recorded(Inputs[o][i]) /\ jobs[o].got[i] = RecordOf(Inputs[o][i])
  BY <1>1, <1>5 DEF Collected
<1>7. jobs[o].got = MembersOfBatch(o)
  BY <1>5, <1>6 DEF MembersOfBatch
<1>8. AllRecorded(o) /\ d.parts = PartsOf(o)
  BY <1>4, <1>6, <1>7 DEF AllRecorded, PartsOf
<1>9. WholeDrv(d)'
  <2>1. AllRecorded(o)'
    BY <1>2, <1>8, RecordKept DEF AllRecorded
  <2>2. PartsOf(o)' = PartsOf(o)
    BY <1>2 DEF PartsOf, disambiguateOutNames, MembersOfBatch, RecordOf, Grows
  <2>3. QED
    BY <1>3, <1>4, <1>8, <2>1, <2>2 DEF WholeDrv
<1>10. QED
  BY <1>2, <1>4, <1>9, PublishWhole

\* A consumer that resolves a deferred compile registers that compile.
LEMMA ResolveWhole ==
    ASSUME StateOK, WholeInv, NEW o \in Outputs, ResolvePendingMember(o)
    PROVE  WholeInv'
<1> PICK i, d : i = Head(jobs[o].left) /\ d = CompileDrv(records[i].tu)
  OBVIOUS
<1>1. JobOK(o) /\ jobs[o].pc = "classify" /\ jobs[o].left # <<>> /\ Resolved(o)
  BY DEF StateOK, WholeInv, WholeJob, ResolvePendingMember, Gathering
<1>2. i \in Outputs
  BY <1>1, TailSet DEF JobOK
<1>3. Grows /\ files' = files /\ store' = store \cup {d} /\ Publish(o, i, Ref(d), "classify")
      /\ files[i].kind = "pending"
  BY DEF ResolvePendingMember, Grows, WholeInv
<1>4. Recorded(i)
  BY <1>2, <1>3 DEF WholeInv, WholeEntry
<1>5. records[i].tu = i /\ i \in Sources
  BY <1>4 DEF Recorded, RecordOf, Sources
<1>6. d.step = "compile" /\ d.of = i
  BY <1>5, DrvFields DEF CompileDrv
<1>7. d.of \in Sources'
  BY <1>3, <1>5, <1>6, RecordKept
<1>8. WholeDrv(d)'
  BY <1>6, <1>7 DEF WholeDrv
<1>9. QED
  BY <1>1, <1>3, <1>6, <1>8, PublishWhole

\* An archive or a link reads the results of its operands, in order.
LEMMA StepWhole ==
    ASSUME StateOK, WholeInv, NEW o \in Outputs, SubmitStep(o)
    PROVE  WholeInv'
<1> PICK d : d = StepDrv(o, jobs[o].got, jobs[o].extra)
  OBVIOUS
<1>1. JobOK(o) /\ jobs[o].pc = "classify" /\ jobs[o].left = <<>> /\ Resolved(o)
  BY DEF StateOK, WholeInv, WholeJob, SubmitStep, Gathering
<1>2. Grows /\ files' = files /\ store' = store \cup {d} /\ Publish(o, o, Ref(d), "submit")
  BY DEF SubmitStep, Grows, WholeInv
<1>3. o \in Archives \cup Links
  BY <1>1 DEF JobOK, Outputs
<1>4. d.step \in {"archive", "link"} /\ d.of = o /\ d.inputs = jobs[o].got
  BY DrvFields DEF StepDrv
<1>5. jobs[o].got \in Seq(store) /\ Len(jobs[o].got) = Len(Inputs[o])
      /\ \A i \in 1 .. Len(jobs[o].got) : ResultOf(jobs[o].got[i], Inputs[o][i])
  <2>1. jobs[o].got \in Seq(store) /\ InOrder(o)
    BY <1>1 DEF Resolved
  <2>2. PICK n, m : n = Len(jobs[o].got) /\ m = Len(Inputs[o])
    OBVIOUS
  <2>3. n \in Nat /\ m \in Nat
    BY <2>1, <2>2, OperandsOK, LenProperties
  <2>4. n + 0 = m
    BY <1>1, <2>1, <2>2, EmptySeq DEF InOrder
  <2>5. n = m
    BY <2>3, <2>4
  <2>6. QED
    BY <1>1, <2>1, <2>2, <2>5 DEF Resolved
<1>6. WholeDrv(d)'
  <2>1. jobs[o].got \in Seq(store')
    BY <1>2, <1>5, SeqMonotonic
  <2>2. \A e, f : ResultOf(e, f) => ResultOf(e, f)'
    BY <1>2 DEF ResultOf
  <2>3. QED
    BY <1>3, <1>4, <1>5, <2>1, <2>2 DEF WholeDrv
<1>7. QED
  BY <1>2, <1>4, <1>6, PublishWhole

-----------------------------------------------------------------------------
\* What is removed, created and filled.
LEMMA WriteWhole ==
    ASSUME StateOK, WholeInv, NEW o \in Outputs,
           RemoveOutput(o) \/ SymlinkOutput(o) \/ CreateStub(o) \/ FillStub(o)
    PROVE  WholeInv'
<1>1. PICK at, put : at = jobs[o].at /\ put = jobs[o].put
  OBVIOUS
<1>2. JobOK(o) /\ Writing(o) /\ DOMAIN files = Outputs /\ WholeJob(o)
      /\ (Reference(put, at) \/ (put = Pending(at) /\ Deferred(at)))
      /\ jobs[o].then \in {"done", "submit", "classify"} /\ WholeEntry(put, at) /\ at \in Outputs
  BY <1>1, PublishFacts DEF StateOK, Writing, RemoveOutput, SymlinkOutput, CreateStub, FillStub,
     WholeInv, WholeJob
<1>3. /\ Grows /\ store' = store /\ DOMAIN files' = Outputs
      /\ \A f \in Outputs \ {at} : files'[f] = files[f]
  BY <1>1, <1>2 DEF RemoveOutput, SymlinkOutput, CreateStub, FillStub, Grows, WholeInv
<1>4. \E next : Goto(o, next) /\ next \in {"create", "fill", jobs[o].then, "bypass", "failed"}
  BY DEF RemoveOutput, SymlinkOutput, CreateStub, FillStub
<1>5. PICK next : Goto(o, next) /\ next \in {"create", "fill", jobs[o].then, "bypass", "failed"}
  BY <1>4
<1>6. /\ \A p \in Outputs \ {o} : jobs'[p] = jobs[p]
      /\ jobs'[o].pc = next /\ jobs'[o].left = jobs[o].left /\ jobs'[o].got = jobs[o].got
      /\ jobs'[o].at = at /\ jobs'[o].put = put /\ jobs'[o].then = jobs[o].then
  BY <1>1, <1>5, GotoFields
<1>7. WholeJob(o)'
  <2>1. Resolved(o) => Resolved(o)'
    BY <1>3, <1>6, ResolvedKept
  <2>2. Gathering(o)' => Gathering(o)
    BY <1>2, <1>5, <1>6 DEF Gathering, Writing
  <2>3. WholeEntry(put, at)'
    BY <1>2, <1>3, WholeEntryKept DEF WholeEntry
  <2>4. jobs'[o].pc \notin {"staged", "try"}
    BY <1>2, <1>5, <1>6
  <2>5. WholeEntry(jobs[o].put, jobs[o].at)'
    BY <1>6, <2>3 DEF WholeEntry
  <2>6. QED
    BY <1>2, <2>1, <2>2, <2>4, <2>5 DEF WholeJob
<1>8. files'[at] = files[at] \/ WholeEntry(files[at], at)'
  <2>1. CASE \E by : files'[at] \in {Absent, Empty(by)}
    <3>1. PICK by : files'[at] \in {Absent, Empty(by)}
      BY <2>1
    <3>2. files'[at].kind \in {"absent", "empty"}
      BY <3>1, KindFields
    <3>3. QED
      BY <3>2 DEF WholeEntry
  <2>2. CASE \E by : files'[at] = [put EXCEPT !.by = by]
    <3>1. PICK by : files'[at] = [put EXCEPT !.by = by]
      BY <2>2
    <3>2. files'[at].kind = put.kind /\ files'[at].drv = put.drv
      BY <1>2, <3>1, EntryFields
    <3>3. (put.kind = "ref" => ResultOf(put.drv, at)') /\ (put.kind = "pending" => Recorded(at)')
      BY <1>2, <1>3, WholeEntryKept
    <3>4. QED
      BY <3>2, <3>3 DEF WholeEntry, ResultOf
  <2>3. CASE files'[at] = put
    <3>1. (put.kind = "ref" => ResultOf(put.drv, at)') /\ (put.kind = "pending" => Recorded(at)')
      BY <1>2, <1>3, WholeEntryKept
    <3>2. QED
      BY <2>3, <3>1 DEF WholeEntry, ResultOf
  <2>4. QED
    BY <1>1, <1>2, <2>1, <2>2, <2>3 DEF RemoveOutput, SymlinkOutput, CreateStub, FillStub
<1>9. \A f \in Outputs : files'[f] = files[f] \/ WholeEntry(files[f], f)'
  BY <1>3, <1>8
<1>10. QED
  BY <1>3, <1>6, <1>7, <1>9, WholeKept

\* What the real tool writes refers to nothing.
LEMMA PassWhole ==
    ASSUME StateOK, WholeInv, NEW o \in Outputs, Passthrough(o)
    PROVE  WholeInv'
<1>1. PICK next : Goto(o, next) /\ next \in {"bypassed", "failed"}
  BY DEF Passthrough
<1>2. (\A p \in Outputs \ {o} : jobs'[p] = jobs[p]) /\ jobs'[o].pc = next
  BY <1>1, GotoFields
<1>3. /\ Grows /\ store' = store
      /\ \A f \in Outputs : files'[f] = files[f] \/ files'[f] = Foreign
  BY DEF Passthrough, Grows, WholeInv, StateOK
<1>4. \A f \in Outputs : files'[f] = Foreign => WholeEntry(files[f], f)'
  BY KindFields DEF WholeEntry
<1>5. WholeJob(o)'
  BY <1>1, <1>2 DEF WholeJob, Gathering, Writing
<1>6. QED
  BY <1>2, <1>3, <1>4, <1>5, WholeKept

\* Killed recipes gather and publish nothing.
LEMMA KillWhole ==
    ASSUME StateOK, WholeInv, NEW o \in Outputs, Kill(o)
    PROVE  WholeInv'
<1>1. (\A p \in Outputs \ {o} : jobs'[p] = jobs[p]) /\ jobs'[o].pc = "killed"
  BY GotoFields DEF Kill
<1>2. Grows /\ store' = store /\ files' = files
  BY DEF Kill, Grows, WholeInv
<1>3. WholeJob(o)'
  BY <1>1 DEF WholeJob, Gathering, Writing
<1>4. QED
  BY <1>1, <1>2, <1>3, WholeKept

\* Those of another make start from what the tree holds.
LEMMA RerunWhole ==
    ASSUME StateOK, WholeInv, Rerun
    PROVE  WholeInv'
<1>1. Grows /\ store' = store /\ files' = files
  BY DEF Rerun, Grows, WholeInv
<1>2. ASSUME NEW o \in Outputs PROVE WholeJob(o)'
  <2>1. jobs'[o].pc \in {"idle", "bypassed", "done"}
    BY DEF Rerun, Job
  <2>2. QED
    BY <2>1 DEF WholeJob, Gathering, Writing
<1>3. \A o \in Outputs : WholeEntry(files[o], o)'
  BY <1>1, WholeEntryKept DEF WholeInv, WholeEntry
<1>4. \A d \in store' : WholeDrv(d)'
  BY <1>1, WholeDrvKept DEF WholeInv
<1>5. QED
  BY <1>1, <1>2, <1>3, <1>4 DEF WholeInv, Grows

\* A finite set can be listed.
LEMMA ListOfSet ==
    ASSUME NEW S, IsFiniteSet(S)
    PROVE  SetToSeq(S) \in Seq(S)
<1>1. Cardinality(S) \in Nat /\ ExistsBijection(1 .. Cardinality(S), S)
  BY FS_CardinalityType
<1>2. \E f \in [1 .. Cardinality(S) -> S] : IsInjective(f)
  BY <1>1 DEF ExistsBijection, Bijection, Injection
<1>3. SetToSeq(S) \in [1 .. Cardinality(S) -> S]
  BY <1>2 DEF SetToSeq
<1>4. PICK s, n : s = SetToSeq(S) /\ n = Cardinality(S)
  OBVIOUS
<1>5. n \in Nat /\ s \in [1 .. n -> S]
  BY <1>1, <1>3, <1>4
<1>6. s \in Seq(S)
  BY <1>5
<1>7. QED
  BY <1>4, <1>6

\* The outer derivation reads what the tree refers to.
LEMMA AssembleWhole ==
    ASSUME StateOK, WholeInv, cmdAssemble
    PROVE  WholeInv'
<1> DEFINE S == {files[o].drv : o \in Walk}
<1>1. PICK d : d = Derivation("assemble", Outer, <<"bin", Outer>>, <<>>, SetToSeq(S), {})
  OBVIOUS
<1>2. Grows /\ store' = store \cup {d} /\ files' = files /\ jobs' = jobs
  BY <1>1 DEF cmdAssemble, Grows, WholeInv
<1>3. d.step = "assemble" /\ d.inputs = SetToSeq(S)
  BY <1>1, DrvFields
<1>4. \A e \in S : e \in store /\ e.step # "assemble"
  BY DEF Walk, WholeInv, WholeEntry, ResultOf
<1>5. IsFiniteSet(S)
  <2> DEFINE f == [o \in Walk |-> files[o].drv]
  <2>1. IsFiniteSet(Walk)
    BY ToolsAssumption, FS_Subset DEF Walk
  <2>2. f \in Surjection(Walk, S)
    BY DEF Surjection
  <2> HIDE DEF f, S
  <2>3. QED
    BY <2>1, <2>2, FS_Surjection
<1> HIDE DEF S
<1>6. d.inputs \in Seq(S)
  BY <1>3, <1>5, ListOfSet
<1>7. d.inputs \in Seq(store') /\ \A i \in 1 .. Len(d.inputs) : d.inputs[i].step # "assemble"
  <2>1. S \subseteq store'
    BY <1>2, <1>4
  <2>2. d.inputs \in Seq(store')
    BY <1>6, <2>1, SeqMonotonic
  <2>3. \A i \in 1 .. Len(d.inputs) : d.inputs[i] \in S
    BY <1>6, ElementOfSeq
  <2>4. QED
    BY <1>4, <2>2, <2>3
<1>8. WholeDrv(d)'
  BY <1>3, <1>7 DEF WholeDrv
<1>9. \A e \in store' : WholeDrv(e)'
  BY <1>2, <1>8, WholeDrvKept DEF WholeInv
<1>10. \A o \in Outputs : WholeJob(o)' /\ WholeEntry(files[o], o)'
  BY <1>2, WholeJobKept, WholeEntryKept DEF WholeInv, WholeEntry
<1>11. QED
  BY <1>2, <1>9, <1>10 DEF WholeInv, Grows

-----------------------------------------------------------------------------
\* Every step keeps the invariant, whatever is killed on the way.
LEMMA NextWhole ==
    ASSUME StateOK, WholeInv, [Next]_vars
    PROVE  WholeInv'
<1>1. CASE UNCHANGED vars
  <2>1. /\ Grows /\ store' = store /\ files' = files /\ jobs' = jobs
    BY <1>1 DEF vars, Grows, WholeInv
  <2>2. \A d \in store' : WholeDrv(d)'
    BY <2>1, WholeDrvKept DEF WholeInv
  <2>3. \A o \in Outputs : WholeJob(o)' /\ WholeEntry(files[o], o)'
    BY <2>1, WholeJobKept, WholeEntryKept DEF WholeInv, WholeEntry
  <2>4. QED
    BY <2>1, <2>2, <2>3 DEF WholeInv, Grows
<1>2. ASSUME NEW o \in Outputs, Step(o) PROVE WholeInv'
  BY <1>2, StartWhole, MoveWhole, CollectWhole, ClassifyWhole, CompileWhole, DeferWhole,
     BatchedWhole, ResolveWhole, StepWhole, WriteWhole, PassWhole DEF Step
<1>3. QED
  BY <1>1, <1>2, AssembleWhole, RerunWhole, KillWhole DEF Next, Build

\* A new build tree has nothing in it.
LEMMA InitWhole == Init => WholeInv
<1> SUFFICES ASSUME Init PROVE WholeInv
  OBVIOUS
<1>1. /\ DOMAIN records = Compiles /\ store = {}
      /\ \A o \in Outputs : jobs[o] = Job("idle") /\ files[o] = Absent
  BY DEF Init
<1>2. Job("idle").pc = "idle"
  BY DEF Job
<1>3. \A o \in Outputs : WholeJob(o)
  BY <1>1, <1>2 DEF WholeJob, Gathering, Writing
<1>4. \A o \in Outputs : WholeEntry(files[o], o)
  BY <1>1, KindFields DEF WholeEntry
<1>5. QED
  BY <1>1, <1>3, <1>4 DEF WholeInv

\* Whatever was deferred, folded into a batch or resolved by whichever consumer
\* came first, killed or run again, a derivation of a recipe builds the objects
\* the Makefile asks for, in order, from source trees that are in the store: for
\* any Makefile without a circular dependency and whose basenames are not those
\* that a repeated one is given.
THEOREM DerivationsBuildTheMakefile ==
    ASSUME NoGeneratedNames, NEW rank, RecipeRanks(rank)
    PROVE  Spec => []DerivationsAreWhole
<1>1. Init => StateOK /\ WholeInv
  BY InitOK, InitWhole DEF IInv
<1>2. StateOK /\ WholeInv /\ [Next]_vars => StateOK' /\ WholeInv'
  BY NextTyped, NextWhole
<1>3. WholeInv => DerivationsAreWhole
  BY WholeStore DEF WholeInv
<1>4. QED
  BY <1>1, <1>2, <1>3, PTL DEF Spec
=============================================================================
