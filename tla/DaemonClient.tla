---------------------------- MODULE DaemonClient ----------------------------
(***************************************************************************)
(* The worker-protocol client of sandbox mode (internal/rpc): a shim dials *)
(* the builder's daemon, shakes hands, sends one request and reads its     *)
(* answer.  Both directions are FIFO streams of the protocol's primitives: *)
(* a 64-bit word, a padded string, the raw bytes of a frame.               *)
(*                                                                         *)
(* The client is straight-line code that reads what it expects next, so it *)
(* is modelled as the list of steps it still has to take.  A reply whose   *)
(* shape depends on what was read replaces the step by the steps that read *)
(* the rest.  The daemon is not part of the repository: it is modelled as  *)
(* the client relies on it, with log messages at any point, refusals, and  *)
(* a connection that may drop.                                             *)
(***************************************************************************)
EXTENDS Integers, Sequences, FiniteSets

CONSTANTS
    Requests,           \* calls a shim may make, see Request
    PathOf(_),          \* the store path the daemon answers with
    NoPath,             \* a call that returns no path
    DaemonVersions,     \* versions the daemon may speak
    DaemonFeatures,     \* feature sets the daemon may advertise
    MaxCalls,           \* connections made
    MaxLogs,            \* log messages the daemon sends in all
    MaxDrops            \* connections that drop

\* Only a derivation is uploaded with references, and a submission uploads nothing.
Request ==
    [op : {"derivation"}, name : STRING, refs : Seq(STRING), size : Nat]
        \cup [op : {"directory", "scan"}, name : STRING, refs : {<<>>}, size : Nat]
        \cup [op : {"submit"}, name : STRING, refs : {<<>>}, size : {0}]

ASSUME RequestsAssumption ==
    /\ Requests \subseteq Request
    /\ \A r \in Requests : PathOf(r) # NoPath <=> r.op # "submit"

ASSUME DaemonAssumption ==
    /\ DaemonVersions \subseteq Nat
    /\ \A v \in DaemonVersions : v < 65536
    /\ \A fs \in DaemonFeatures : IsFiniteSet(fs)

VARIABLES
    up, down,       \* bytes under way to the daemon and to the client
    buffered,       \* what the client wrote and has not flushed
    todo,           \* the steps the client still takes
    features,       \* Conn.features
    conn,           \* the call: its request, whether it returned, what it got
    daemon,         \* the daemon's side of the connection
    performed,      \* requests the daemon carried out
    budget          \* calls, log messages and drops so far

vars == <<up, down, buffered, todo, features, conn, daemon, performed, budget>>

-----------------------------------------------------------------------------
\* The primitives on the wire.
Word(n) == [kind |-> "word", val |-> n]
Text(s) == [kind |-> "text", val |-> s]
Bytes(n) == [kind |-> "bytes", val |-> n]

Strings(ss) == <<Word(Len(ss))>> \o [i \in DOMAIN ss |-> Text(ss[i])]

\* An upload is one frame and an empty one; an empty upload only the latter.
Framed(n) == IF n > 0 THEN <<Word(n), Bytes(n), Word(0)>> ELSE <<Word(0)>>

workerMagic1 == \h6e697863
workerMagic2 == \h6478696f
protoMajor == 1
protoVersion == protoMajor * 256 + 39
featureMinVersion == protoMajor * 256 + 38
opAddToStore == 7
opSubmitOutput == 1000
opAddToStoreScanning == 1001
stderrNext == \h6f6c6d67
stderrLast == \h616c7473
stderrError == \h63787470
stderrStartActivity == \h53545254
stderrStopActivity == \h53544f50
stderrResult == \h52534c54
Scanning == "add-to-store-scanning"
Submitting == "submit-output"
ourFeatures == <<Scanning, Submitting>>

Lesser(m, n) == IF m <= n THEN m ELSE n

-----------------------------------------------------------------------------
\* The steps of the client.  A read step says what it expects; the ones that
\* decide something have a name of their own.
Write(tokens) == [do |-> "write", tokens |-> tokens]
Flush == [do |-> "flush"]
Skip(kind) == [do |-> "skip", kind |-> kind]
Expect(token) == [do |-> "expect", token |-> token]
ReadPath == [do |-> "path"]
\* A count, then that many times the steps of an item.
Repeat(item) == [do |-> "repeat", item |-> item]
Feature == [do |-> "feature"]
Version == [do |-> "version"]
Field == [do |-> "field"]
Drain == [do |-> "drain"]
Raise == [do |-> "raise"]
Return == [do |-> "return"]

SkipStrings == Repeat(<<Skip("text")>>)
skipFields == Repeat(<<Field>>)
readProtoError ==
    <<Expect(Text("Error")), Skip("word"), Skip("text"), Skip("text"), Expect(Word(0)),
      Repeat(<<Expect(Word(0)), Skip("text")>>), Raise>>
skipActivity ==
    <<Skip("word"), Skip("word"), Skip("word"), Skip("text"), skipFields, Skip("word")>>
skipResult == <<Skip("word"), Skip("word"), skipFields>>
readDeriverFirst ==
    <<Skip("text"), ReadPath, Skip("text"), SkipStrings,
      Skip("word"), Skip("word"), Skip("word"), SkipStrings, Skip("text")>>

readValidPathInfoPath ==
    <<ReadPath, Skip("text"), Skip("text"), SkipStrings,
      Skip("word"), Skip("word"), Skip("word"), SkipStrings, Skip("text")>>

\* drainStderr reads one marker; every message but the last is followed by
\* another drain.  A marker it does not know is an error.
afterMarker(m) ==
    CASE m = stderrNext -> <<Skip("text"), Drain>>
      [] m = stderrError -> readProtoError
      [] m = stderrStartActivity -> skipActivity \o <<Drain>>
      [] m = stderrStopActivity -> <<Skip("word"), Drain>>
      [] m = stderrResult -> skipResult \o <<Drain>>
      [] m = stderrLast -> <<>>
      [] OTHER -> <<Raise>>

postHandshakeUndrained ==
    <<Write(<<Word(0)>>), Write(<<Word(0)>>), Flush, Skip("text"), Skip("word")>>

postHandshake ==
    <<Write(<<Word(0)>>), Write(<<Word(0)>>), Flush, Skip("text"), Skip("word"), Drain>>

handshakeUnflushed ==
    <<Write(<<Word(workerMagic1)>>), Write(<<Word(protoVersion)>>),
      Expect(Word(workerMagic2)), Version>> \o postHandshake

handshake ==
    <<Write(<<Word(workerMagic1)>>), Write(<<Word(protoVersion)>>), Flush,
      Expect(Word(workerMagic2)), Version>> \o postHandshake

exchangeFeatures == <<Write(Strings(ourFeatures)), Flush, Repeat(<<Feature>>)>>

AddToStore(cam, r) ==
    <<Write(<<Word(opAddToStore)>>), Write(<<Text(r.name)>>), Write(<<Text(cam)>>),
      Write(Strings(r.refs)), Write(<<Word(0)>>), Flush,
      Write(Framed(r.size)), Flush, Drain>> \o readValidPathInfoPath
AddDerivation(r) == AddToStore("text:sha256", r)
AddDirectory(r) == AddToStore("fixed:r:sha256", [r EXCEPT !.refs = <<>>])
AddToStoreScanning(r) ==
    <<Write(<<Word(opAddToStoreScanning)>>), Write(<<Text(r.name)>>),
      Write(<<Text("fixed:r:sha256")>>), Flush,
      Write(Framed(r.size)), Flush, Drain>> \o readValidPathInfoPath
SubmitOutputUnread(r) ==
    <<Write(<<Word(opSubmitOutput)>>), Write(<<Word(0)>>), Write(<<Text(r.name)>>),
      Write(<<Text("out")>>), Flush, Drain>>

SubmitOutput(r) ==
    <<Write(<<Word(opSubmitOutput)>>), Write(<<Word(0)>>), Write(<<Text(r.name)>>),
      Write(<<Text("out")>>), Flush, Drain, Skip("word")>>

\* Two calls need a feature the daemon may not have; they fail before the
\* first byte is written.
Needed(r) ==
    CASE r.op = "scan" -> {Scanning} [] r.op = "submit" -> {Submitting} [] OTHER -> {}

Operation(r) ==
    CASE r.op = "derivation" -> AddDerivation(r)
      [] r.op = "directory" -> AddDirectory(r)
      [] r.op = "scan" -> AddToStoreScanning(r)
      [] r.op = "submit" -> SubmitOutput(r)
Operate == [do |-> "operate"]

-----------------------------------------------------------------------------
\* The client.
NoCall == [state |-> "idle", path |-> NoPath]
Busy == conn.state = "busy"
Reading == Busy /\ todo # <<>>

Init ==
    /\ up = <<>> /\ down = <<>> /\ buffered = <<>>
    /\ todo = <<>>
    /\ features = {}
    /\ conn = NoCall
    /\ performed = {}
    /\ budget = [calls |-> 0, logs |-> 0, drops |-> 0]
    /\ daemon \in [state : {"away"}, request : {<<>>}, served : {FALSE},
                   version : DaemonVersions, features : DaemonFeatures]

\* Each exported operation of internal/sandbox dials a connection of its own
\* and closes it when it returns.
Dial(r) ==
    /\ ~Busy
    /\ budget.calls < MaxCalls
    /\ budget' = [budget EXCEPT !.calls = @ + 1]
    /\ conn' = [state |-> "busy", req |-> r, path |-> NoPath]
    /\ up' = <<>> /\ down' = <<>> /\ buffered' = <<>>
    /\ features' = {}
    /\ todo' = handshake \o <<Operate, Return>>
    /\ daemon' = [daemon EXCEPT !.state = "hello", !.request = <<>>, !.served = FALSE]
    /\ UNCHANGED performed

\* Every error ends the call; the caller closes the connection.
Failed == conn' = [conn EXCEPT !.state = "failed"] /\ todo' = <<>>
Then(steps) == todo' = steps \o Tail(todo)
Continue == Then(<<>>)
Step(do) == Reading /\ Head(todo).do = do
Quiet == UNCHANGED <<daemon, performed, budget>>

\* bufio.Writer: a write stays in the buffer until it is flushed.
WriteStep ==
    /\ Step("write")
    /\ buffered' = buffered \o Head(todo).tokens
    /\ Continue
    /\ UNCHANGED <<up, down, features, conn>> /\ Quiet

FlushStep ==
    /\ Step("flush")
    /\ \/ /\ daemon.state # "gone"
          /\ up' = up \o buffered
          /\ buffered' = <<>>
          /\ Continue
          /\ UNCHANGED conn
       \/ /\ daemon.state = "gone"
          /\ Failed
          /\ UNCHANGED <<up, buffered>>
    /\ UNCHANGED <<down, features>> /\ Quiet

\* A read takes the next primitive.  If it is not of the kind the client
\* reads, the client and the daemon have lost step: it would take a length
\* for a value, or text for a length.
Take(do, kind) ==
    /\ Step(do)
    /\ down # <<>>
    /\ Head(down).kind = kind
    /\ down' = Tail(down)
    /\ UNCHANGED <<up, buffered>> /\ Quiet

ReadsKind ==
    LET step == Head(todo)
    IN  CASE step.do = "skip" -> step.kind
          [] step.do = "expect" -> step.token.kind
          [] step.do \in {"path", "feature"} -> "text"
          [] step.do \in {"version", "repeat", "drain", "field"} -> "word"
          [] OTHER -> "none"

SkipStep ==
    /\ todo # <<>> /\ Take("skip", ReadsKind)
    /\ Continue
    /\ UNCHANGED <<features, conn>>

ExpectStep ==
    /\ todo # <<>> /\ Take("expect", ReadsKind)
    /\ IF Head(down) = Head(todo).token THEN Continue /\ UNCHANGED conn ELSE Failed
    /\ UNCHANGED features

PathStep ==
    /\ Take("path", "text")
    /\ conn' = [conn EXCEPT !.path = Head(down).val]
    /\ Continue
    /\ UNCHANGED features

RepeatStep ==
    /\ Take("repeat", "word")
    /\ LET item == Head(todo).item
           steps[n \in 0..Head(down).val] == IF n = 0 THEN <<>> ELSE item \o steps[n - 1]
       IN  Then(steps[Head(down).val])
    /\ UNCHANGED <<features, conn>>

\* A field is an integer or a string.
FieldStep ==
    /\ Take("field", "word")
    /\ \/ Head(down).val = 0 /\ Then(<<Skip("word")>>)
       \/ Head(down).val = 1 /\ Then(<<Skip("text")>>)
    /\ UNCHANGED <<features, conn>>

\* The 16 bits that count of the word with the daemon's version.
daemonVersion(wire) == wire % 65536

\* Feature lists are exchanged only if both sides are recent enough.
VersionStep ==
    /\ Take("version", "word")
    /\ LET version == daemonVersion(Head(down).val)
       IN  IF version \div 256 # protoMajor
           THEN Failed
           ELSE /\ Then(IF Lesser(version, protoVersion) >= featureMinVersion
                        THEN exchangeFeatures ELSE <<>>)
                /\ UNCHANGED conn
    /\ UNCHANGED features

FeatureStep ==
    /\ Take("feature", "text")
    /\ features' = features
           \cup ({Head(down).val} \cap {ourFeatures[i] : i \in DOMAIN ourFeatures})
    /\ Continue
    /\ UNCHANGED conn

DrainStep ==
    /\ Take("drain", "word")
    /\ Then(afterMarker(Head(down).val))
    /\ UNCHANGED <<features, conn>>

OperateStep ==
    /\ Step("operate")
    /\ IF Needed(conn.req) \subseteq features
       THEN Then(Operation(conn.req)) /\ UNCHANGED conn
       ELSE Failed
    /\ UNCHANGED <<up, down, buffered, features>> /\ Quiet

\* The daemon reported an error, or sent a marker the client does not know.
RaiseStep ==
    /\ Step("raise")
    /\ Failed
    /\ UNCHANGED <<up, down, buffered, features>> /\ Quiet

ReturnStep ==
    /\ Step("return")
    /\ conn' = [conn EXCEPT !.state = "returned"]
    /\ todo' = <<>>
    /\ UNCHANGED <<up, down, buffered, features>> /\ Quiet

\* Nothing more can come from a daemon that is gone.
EndOfFile ==
    /\ Reading /\ ReadsKind # "none"
    /\ down = <<>> /\ daemon.state = "gone"
    /\ Failed
    /\ UNCHANGED <<up, down, buffered, features>> /\ Quiet

Client ==
    \/ WriteStep \/ FlushStep \/ SkipStep \/ ExpectStep \/ PathStep \/ RepeatStep
    \/ FieldStep \/ VersionStep \/ FeatureStep \/ DrainStep \/ OperateStep
    \/ RaiseStep \/ ReturnStep \/ EndOfFile

-----------------------------------------------------------------------------
\* The daemon.
DaemonReads(n) == SubSeq(up, 1, n)
DaemonSends(tokens) == down' = down \o tokens
DaemonRest == UNCHANGED <<buffered, todo, features, conn>>

Hello ==
    /\ daemon.state = "hello"
    /\ Len(up) >= 2
    /\ DaemonReads(2) = <<Word(workerMagic1), Word(protoVersion)>>
    /\ up' = SubSeq(up, 3, Len(up))
    /\ DaemonSends(<<Word(workerMagic2), Word(daemon.version)>>)
    /\ daemon' = [daemon EXCEPT !.state =
           IF daemon.version \div 256 # protoMajor THEN "gone"
           ELSE IF Lesser(daemon.version, protoVersion) >= featureMinVersion THEN "features"
           ELSE "stubs"]
    /\ DaemonRest /\ UNCHANGED <<performed, budget>>

TheirFeatures == {s \in [1..Cardinality(daemon.features) -> daemon.features] :
                      {s[i] : i \in DOMAIN s} = daemon.features}

Features ==
    /\ daemon.state = "features"
    /\ up # <<>> /\ Head(up).kind = "word" /\ Len(up) > Head(up).val
    /\ up' = SubSeq(up, Head(up).val + 2, Len(up))
    /\ \E ss \in TheirFeatures : DaemonSends(Strings(ss))
    /\ daemon' = [daemon EXCEPT !.state = "stubs"]
    /\ DaemonRest /\ UNCHANGED <<performed, budget>>

Stubs ==
    /\ daemon.state = "stubs"
    /\ Len(up) >= 2
    /\ DaemonReads(2) = <<Word(0), Word(0)>>
    /\ up' = SubSeq(up, 3, Len(up))
    /\ DaemonSends(<<Text("2.32"), Word(1)>>)
    /\ daemon' = [daemon EXCEPT !.state = "greeting"]
    /\ DaemonRest /\ UNCHANGED <<performed, budget>>

\* The daemon logs whenever it owes the client a LAST.
Fields == {<<Word(0)>>, <<Word(2), Word(0), Word(0), Word(1), Text("file")>>}
LogMessages ==
    {<<Word(stderrNext), Text("line")>>, <<Word(stderrStopActivity), Word(1)>>}
        \cup {<<Word(stderrStartActivity), Word(1), Word(0), Word(0), Text("copying")>>
                  \o fs \o <<Word(0)>> : fs \in Fields}
        \cup {<<Word(stderrResult), Word(1), Word(0)>> \o fs : fs \in Fields}

Log ==
    /\ daemon.state \in {"greeting", "working"}
    /\ budget.logs < MaxLogs
    /\ budget' = [budget EXCEPT !.logs = @ + 1]
    /\ \E m \in LogMessages : DaemonSends(m)
    /\ DaemonRest /\ UNCHANGED <<up, daemon, performed>>

Greeted ==
    /\ daemon.state = "greeting"
    /\ DaemonSends(<<Word(stderrLast)>>)
    /\ daemon' = [daemon EXCEPT !.state = "ready"]
    /\ DaemonRest /\ UNCHANGED <<up, performed, budget>>

\* The daemon reads a request field by field.  Shape is what it expects of
\* each op; what a client sent that has no shape closes the connection.
Kinds(tokens) == [i \in DOMAIN tokens |-> tokens[i].kind]
Upload(tokens) ==
    \/ tokens = <<Word(0)>>
    \/ Kinds(tokens) = <<"word", "bytes", "word">> /\ tokens[1].val = tokens[2].val
           /\ tokens[3].val = 0
From(tokens, n) == SubSeq(tokens, n, Len(tokens))

IsAdd(t) ==
    /\ Len(t) >= 6
    /\ Kinds(SubSeq(t, 1, 4)) = <<"word", "text", "text", "word">>
    /\ Len(t) > t[4].val + 5
    /\ \A i \in 5..(t[4].val + 4) : t[i].kind = "text"
    /\ t[t[4].val + 5] = Word(0)
    /\ Upload(From(t, t[4].val + 6))
IsScan(t) ==
    /\ Len(t) >= 4
    /\ Kinds(SubSeq(t, 1, 3)) = <<"word", "text", "text">>
    /\ Upload(From(t, 4))
IsSubmit(t) == Kinds(t) = <<"word", "word", "text", "text">> /\ t[2] = Word(0)

IsRequest(t) ==
    CASE Head(t) = Word(opAddToStore) -> IsAdd(t)
      [] Head(t) = Word(opAddToStoreScanning) -> IsScan(t)
      [] Head(t) = Word(opSubmitOutput) -> IsSubmit(t)
      [] OTHER -> FALSE

Receive ==
    /\ daemon.state = "ready"
    /\ up # <<>>
    /\ up' = Tail(up)
    /\ LET request == Append(daemon.request, Head(up))
       IN  daemon' = [daemon EXCEPT !.request = request,
                                    !.state = IF IsRequest(request) THEN "working" ELSE @]
    /\ DaemonRest /\ UNCHANGED <<down, performed, budget>>

\* The request that was read, field by field.
Asked(r, t) ==
    CASE r.op = "derivation" ->
             t = <<Word(opAddToStore), Text(r.name), Text("text:sha256")>>
                     \o Strings(r.refs) \o <<Word(0)>> \o Framed(r.size)
      [] r.op = "directory" ->
             t = <<Word(opAddToStore), Text(r.name), Text("fixed:r:sha256")>>
                     \o Strings(<<>>) \o <<Word(0)>> \o Framed(r.size)
      [] r.op = "scan" ->
             t = <<Word(opAddToStoreScanning), Text(r.name), Text("fixed:r:sha256")>>
                     \o Framed(r.size)
      [] r.op = "submit" ->
             t = <<Word(opSubmitOutput), Word(0), Text(r.name), Text("out")>>

Info(path) ==
    <<Text(path), Text(""), Text("hash")>> \o Strings(<<>>) \o <<Word(0), Word(0), Word(0)>>
        \o Strings(<<"sig">>) \o <<Text("ca")>>

Serve ==
    /\ daemon.state = "working" /\ ~daemon.served
    /\ \E r \in Requests : Asked(r, daemon.request) /\ performed' = performed \cup {r}
    /\ daemon' = [daemon EXCEPT !.served = TRUE]
    /\ DaemonRest /\ UNCHANGED <<up, down, budget>>

Reply ==
    /\ daemon.state = "working" /\ daemon.served
    /\ \E r \in Requests :
           /\ Asked(r, daemon.request)
           /\ DaemonSends(<<Word(stderrLast)>>
                              \o (IF r.op = "submit" THEN <<Word(1)>> ELSE Info(PathOf(r))))
    /\ daemon' = [daemon EXCEPT !.state = "ready", !.request = <<>>, !.served = FALSE]
    /\ DaemonRest /\ UNCHANGED <<up, performed, budget>>

Traces == {<<Word(0)>>, <<Word(1), Word(0), Text("while adding")>>}

Refuse ==
    /\ daemon.state = "working" /\ ~daemon.served
    /\ \E t \in Traces :
           DaemonSends(<<Word(stderrError), Text("Error"), Word(0), Text("name"),
                         Text("refused"), Word(0)>> \o t)
    /\ daemon' = [daemon EXCEPT !.state = "gone"]
    /\ DaemonRest /\ UNCHANGED <<up, performed, budget>>

\* The daemon dies, or the builder's socket goes away: what it sent may still
\* be read, the rest is lost.
Drop ==
    /\ Busy /\ daemon.state # "gone"
    /\ budget.drops < MaxDrops
    /\ budget' = [budget EXCEPT !.drops = @ + 1]
    /\ daemon' = [daemon EXCEPT !.state = "gone"]
    /\ \E n \in {0, Len(down)} : down' = SubSeq(down, 1, n)
    /\ up' = <<>>
    /\ DaemonRest /\ UNCHANGED performed

Daemon ==
    \/ Hello \/ Features \/ Stubs \/ Log \/ Greeted \/ Receive \/ Serve \/ Reply \/ Refuse

Next == (\E r \in Requests : Dial(r)) \/ Client \/ Daemon \/ Drop

Spec == Init /\ [][Next]_vars

\* The client's code runs and the daemon answers; neither logging without end
\* nor a drop is required.
FairSpec == Spec /\ WF_vars(Client) /\ WF_vars(Daemon)

-----------------------------------------------------------------------------
\* The client reads every primitive as what the daemon wrote it as, and the
\* daemon never reads a request that is not one: after a handshake with any
\* version and any log traffic, neither side is a message ahead of the other
\* (conn.go: "silently shifting every subsequent read by one message").
InStep ==
    /\ Reading /\ ReadsKind # "none" /\ down # <<>> =>
           /\ Head(down).kind = ReadsKind
           /\ Head(todo).do = "drain" =>
                  Head(down).val \in {stderrNext, stderrLast, stderrError, stderrResult,
                                      stderrStartActivity, stderrStopActivity}
           /\ Head(todo).do = "field" => Head(down).val \in {0, 1}
    /\ daemon.state = "ready" /\ daemon.request # <<>> =>
           Head(daemon.request).val \in {opAddToStore, opSubmitOutput, opAddToStoreScanning}

\* A call that returns has read its whole answer and sent its whole request:
\* nothing is left in either stream or in the write buffer for a later call
\* on the connection to trip over (ops.go: the result code "must be read to
\* stay in sync").
LeavesNothing ==
    conn.state = "returned" => up = <<>> /\ down = <<>> /\ buffered = <<>>

\* A call is never stuck: it returns or fails, with a daemon of any version
\* and any features, and when the connection drops.  A client that reads
\* before it flushes would wait for ever.
CallReturns == Busy ~> ~Busy

\* Over this protocol the store is the one every caller in internal/sandbox
\* relies on: the path a call returns is the path of what that call uploaded,
\* and it was stored before the call returned.
AbstractCall ==
    CASE conn.state = "idle" -> [state |-> "idle"]
      [] conn.state = "busy" -> [state |-> "asked", req |-> conn.req]
      [] conn.state = "failed" -> [state |-> "failed", req |-> conn.req]
      [] conn.state = "returned" ->
             [state |-> "answered", req |-> conn.req, path |-> conn.path]

Service == INSTANCE StoreService WITH call <- AbstractCall
ServiceSpec == Service!Spec
=============================================================================
