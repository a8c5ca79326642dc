------------------------- MODULE DaemonClientProofs -------------------------
(***************************************************************************)
(* The client of internal/rpc stays in step with the daemon, for any       *)
(* requests, any versions and features a daemon may have, any log traffic, *)
(* refusals with any number of traces, and drops at any moment; a call     *)
(* that returns leaves nothing on the connection; and the client and the   *)
(* daemon together are the store service that internal/sandbox relies on.  *)
(*                                                                         *)
(* None of this is inductive: that the next token is the one the client's  *)
(* next step reads depends on all tokens before it and on all steps after  *)
(* it. The invariant, IInv, is about what is under way as a whole. Run     *)
(* says where reading a list of tokens takes a client, and Emits what      *)
(* steps write before they listen again. Client and daemon take turns.     *)
(* While the client hears the daemon out (Hearing), nothing is under way   *)
(* to the daemon, and reading all that is under way to it takes the client *)
(* to where the daemon takes it to be. While the client has its say        *)
(* (Saying), nothing is under way to it, and what the daemon has read,     *)
(* what is under way, what is buffered and what is still to be written     *)
(* make up the greeting or the request. Stage says which of the two, and   *)
(* up to where, for each state of the daemon. After a drop, what has       *)
(* arrived is still a start of what the daemon meant to send: it leaves    *)
(* the client at a read, a write, an error or its return (Heading).        *)
(*                                                                         *)
(* The proof has three layers: Run and Emits as algebras of lists (RunJoin *)
(* to EmitsSubmit), which show that every message of the daemon is read by *)
(* the steps meant for it and that every request is said by the steps that *)
(* say it; one lemma per action, which shows that it keeps Stage; and the  *)
(* refinement, in which the client's steps but the last are invisible and  *)
(* the daemon's one that performs the operation is the service's.          *)
(***************************************************************************)
EXTENDS DaemonClient, SequenceTheorems, FiniteSetTheorems, Induction

-----------------------------------------------------------------------------
\* What travels, and what a client may still have to do.  Literals are the texts the
\* model spells, each of them a string, which the provers take no notice of.
Literals ==
    {"line", "copying", "file", "2.32", "Error", "name", "refused", "while adding", "hash",
     "sig", "ca", "text:sha256", "fixed:r:sha256", "out", Scanning, Submitting}
Blank == ""
Values ==
    Nat \cup STRING \cup Literals \cup {Blank} \cup {PathOf(r) : r \in Requests}
        \cup UNION DaemonFeatures
Tokens == [kind : {"word", "text", "bytes"}, val : Values]

Plain ==
    [do : {"write"}, tokens : Seq(Tokens)] \cup [do : {"skip"}, kind : {"word", "text"}]
        \cup [do : {"expect"}, token : Tokens]
        \cup [do : {"flush", "path", "feature", "version", "field", "drain", "raise",
                    "return", "operate"}]
Steps == Plain \cup [do : {"repeat"}, item : Seq(Plain)]

\* A client: what it has still to do, and the path it has read.
At(steps, path) == [todo |-> steps, path |-> path]
Here == At(todo, conn.path)

Markers ==
    {stderrNext, stderrLast, stderrError, stderrResult, stderrStartActivity,
     stderrStopActivity}

\* n times the steps of an item.
Copies(s, item, n) ==
    \E f : f[0] = <<>> /\ f[n] = s /\ \A i \in 1 .. n : f[i] = item \o f[i - 1]

\* What a client does when it has read the daemon's version.
AfterVersion(v) ==
    LET version == daemonVersion(v)
    IN  IF version \div 256 # protoMajor THEN <<Raise>>
        ELSE IF Lesser(version, protoVersion) >= featureMinVersion THEN exchangeFeatures
        ELSE <<>>

\* What a step is replaced by when it reads x, as the daemon meant it.
Becomes(step, x, steps) ==
    \/ /\ \/ step = Skip("word") /\ x.kind = "word"
          \/ step \in {Skip("text"), ReadPath, Feature} /\ x.kind = "text"
          \/ step = Expect(x)
       /\ steps = <<>>
    \/ /\ step.do = "repeat" /\ x.kind = "word" /\ x.val \in Nat
       /\ step.item \in Seq(Plain) /\ Copies(steps, step.item, x.val)
    \/ step = Field /\ x = Word(0) /\ steps = <<Skip("word")>>
    \/ step = Field /\ x = Word(1) /\ steps = <<Skip("text")>>
    \/ /\ step = Version /\ x.kind = "word" /\ x.val \in Nat
       /\ steps = AfterVersion(x.val)
    \/ step = Drain /\ x.kind = "word" /\ x.val \in Markers /\ steps = afterMarker(x.val)

Reads(a, x, b) ==
    \E step \in Steps, steps \in Seq(Steps), rest \in Seq(Steps) :
        /\ a.todo = <<step>> \o rest /\ Becomes(step, x, steps)
        /\ b = At(steps \o rest, IF step = ReadPath THEN x.val ELSE a.path)

\* Reading t takes a client from a to b.
Run(a, t, b) ==
    \E f : /\ f[0] = a /\ f[Len(t)] = b
           /\ \A i \in 1 .. Len(t) : Reads(f[i - 1], t[i], f[i])

-----------------------------------------------------------------------------
\* Reading nothing leaves a client where it is.
LEMMA RunNothing ==
    ASSUME NEW a, NEW b
    PROVE  Run(a, <<>>, b) <=> a = b
<1>1. ASSUME Run(a, <<>>, b) PROVE a = b
  BY <1>1 DEF Run
<1>2. Run(a, <<>>, a)
  <2> DEFINE f == [i \in {0} |-> a]
  <2>1. f[0] = a /\ Len(<<>>) = 0 /\ 1 .. 0 = {}
    OBVIOUS
  <2> HIDE DEF f
  <2>2. QED
    BY <2>1 DEF Run
<1>3. QED
  BY <1>1, <1>2

\* A run may begin with one more token.
LEMMA RunCons ==
    ASSUME NEW x \in Tokens, NEW t \in Seq(Tokens), NEW a, NEW b, NEW c,
           Reads(a, x, b), Run(b, t, c)
    PROVE  Run(a, <<x>> \o t, c)
<1>1. PICK g : /\ g[0] = b /\ g[Len(t)] = c
               /\ \A i \in 1 .. Len(t) : Reads(g[i - 1], t[i], g[i])
  BY DEF Run
<1> DEFINE n == Len(t)
           u == <<x>> \o t
           f == [i \in 0 .. n + 1 |-> IF i = 0 THEN a ELSE g[i - 1]]
<1>2. n \in Nat /\ Len(u) = n + 1 /\ u[1] = x /\ \A i \in 2 .. n + 1 : u[i] = t[i - 1]
  OBVIOUS
<1>3. f[0] = a /\ f[n + 1] = c
  BY <1>1, <1>2
<1>4. ASSUME NEW i \in 1 .. n + 1 PROVE Reads(f[i - 1], u[i], f[i])
  <2>1. CASE i = 1
    BY <1>1, <1>2, <2>1
  <2>2. CASE i # 1
    <3>1. i - 1 \in 1 .. n /\ f[i - 1] = g[(i - 1) - 1] /\ f[i] = g[i - 1] /\ u[i] = t[i - 1]
      BY <1>2, <2>2
    <3>2. QED
      BY <1>1, <3>1
  <2>3. QED
    BY <2>1, <2>2
<1> HIDE DEF f, u
<1>5. QED
  BY <1>2, <1>3, <1>4 DEF Run, u

\* A run begins with the first token.
LEMMA RunHead ==
    ASSUME NEW t \in Seq(Tokens), t # <<>>, NEW a, NEW c, Run(a, t, c)
    PROVE  \E b : Reads(a, Head(t), b) /\ Run(b, Tail(t), c)
<1>1. PICK g : /\ g[0] = a /\ g[Len(t)] = c
               /\ \A i \in 1 .. Len(t) : Reads(g[i - 1], t[i], g[i])
  BY DEF Run
<1> DEFINE n == Len(t) - 1
           u == Tail(t)
           f == [i \in 0 .. n |-> g[i + 1]]
<1>2. /\ n \in Nat /\ Len(t) = n + 1 /\ Len(u) = n /\ Head(t) = t[1]
      /\ \A i \in 1 .. n : u[i] = t[i + 1]
  OBVIOUS
<1>3. f[0] = g[1] /\ f[n] = c
  BY <1>1, <1>2
<1>4. ASSUME NEW i \in 1 .. n PROVE Reads(f[i - 1], u[i], f[i])
  <2>1. /\ i + 1 \in 1 .. n + 1 /\ f[i - 1] = g[(i + 1) - 1] /\ f[i] = g[i + 1]
        /\ u[i] = t[i + 1]
    BY <1>2
  <2>2. QED
    BY <1>1, <1>2, <2>1
<1>5. Reads(a, Head(t), g[1])
  BY <1>1, <1>2, 1 \in 1 .. Len(t)
<1> HIDE DEF f, u
<1>6. Run(g[1], u, c)
  BY <1>2, <1>3, <1>4 DEF Run
<1>7. QED
  BY <1>5, <1>6 DEF u

\* Runs follow each other.
LEMMA RunJoin ==
    ASSUME NEW t \in Seq(Tokens), NEW u \in Seq(Tokens), NEW a, NEW b, NEW c,
           Run(a, t, b), Run(b, u, c)
    PROVE  Run(a, t \o u, c)
<1>1. PICK g : /\ g[0] = a /\ g[Len(t)] = b
               /\ \A i \in 1 .. Len(t) : Reads(g[i - 1], t[i], g[i])
  BY DEF Run
<1>2. PICK h : /\ h[0] = b /\ h[Len(u)] = c
               /\ \A i \in 1 .. Len(u) : Reads(h[i - 1], u[i], h[i])
  BY DEF Run
<1> DEFINE m == Len(t)
           n == Len(u)
           v == t \o u
           f == [i \in 0 .. m + n |-> IF i <= m THEN g[i] ELSE h[i - m]]
<1>3. /\ m \in Nat /\ n \in Nat /\ Len(v) = m + n
      /\ \A i \in 1 .. m : v[i] = t[i]
      /\ \A i \in (m + 1) .. (m + n) : v[i] = u[i - m]
  OBVIOUS
<1>4. f[0] = a /\ f[m + n] = c
  <2>1. f[0] = a
    BY <1>1, <1>3
  <2>2. CASE n = 0
    BY <1>1, <1>2, <1>3, <2>2
  <2>3. CASE n # 0
    <3>1. m + n \in 0 .. m + n /\ ~(m + n <= m) /\ (m + n) - m = n
      BY <1>3, <2>3
    <3>2. QED
      BY <1>2, <2>1, <3>1
  <2>4. QED
    BY <2>1, <2>2, <2>3
<1>5. ASSUME NEW i \in 1 .. (m + n) PROVE Reads(f[i - 1], v[i], f[i])
  <2>1. CASE i <= m
    <3>1. i \in 1 .. m /\ f[i - 1] = g[i - 1] /\ f[i] = g[i] /\ v[i] = t[i]
      BY <1>3, <2>1
    <3>2. QED
      BY <1>1, <3>1
  <2>2. CASE i > m
    <3>1. /\ i - m \in 1 .. n /\ f[i] = h[i - m] /\ v[i] = u[i - m]
          /\ f[i - 1] = h[(i - m) - 1]
      <4>1. i - m \in 1 .. n /\ f[i] = h[i - m] /\ v[i] = u[i - m]
        BY <1>3, <2>2
      <4>2. CASE i = m + 1
        BY <1>1, <1>2, <1>3, <4>1, <4>2
      <4>3. CASE i # m + 1
        BY <1>3, <2>2, <4>1, <4>3
      <4>4. QED
        BY <4>1, <4>2, <4>3
    <3>2. QED
      BY <1>2, <3>1
  <2>3. QED
    BY <1>3, <2>1, <2>2
<1> HIDE DEF f, v
<1>6. QED
  BY <1>3, <1>4, <1>5 DEF Run, v

-----------------------------------------------------------------------------
\* Writing w and nothing else takes a client from s to e: the last thing it does is
\* to flush, and it never flushes for nothing.
Emit(s, w, t, v) ==
    \/ \E x \in Seq(Tokens) : s = <<Write(x)>> \o t /\ w = x \o v
    \/ s = <<Flush>> \o t /\ w = v /\ w # <<>>

EmitsBy(s, w, e, n, f, g) ==
    /\ n \in Nat
    /\ f[0] = s /\ f[n] = <<Flush>> \o e /\ g[0] = w /\ g[n] = <<>>
    /\ \A i \in 1 .. n : /\ f[i] \in Seq(Steps) /\ g[i] \in Seq(Tokens)
                         /\ Emit(f[i - 1], g[i - 1], f[i], g[i])

Emits(s, w, e) == \E n, f, g : EmitsBy(s, w, e, n, f, g)

\* One more step, of any kind, before what a client writes.
LEMMA EmitsCons ==
    ASSUME NEW s \in Seq(Steps), NEW w \in Seq(Tokens), NEW e, Emits(s, w, e), NEW r, NEW v,
           Emit(r, v, s, w)
    PROVE  Emits(r, v, e)
<1>1. PICK n, f, g : EmitsBy(s, w, e, n, f, g)
  BY DEF Emits
<1> DEFINE m == n + 1
           f1 == [i \in 0 .. m |-> IF i = 0 THEN r ELSE f[i - 1]]
           g1 == [i \in 0 .. m |-> IF i = 0 THEN v ELSE g[i - 1]]
<1>2. /\ m \in Nat
      /\ f1[0] = r /\ f1[m] = <<Flush>> \o e /\ g1[0] = v /\ g1[m] = <<>>
  BY <1>1 DEF EmitsBy
<1>3. ASSUME NEW i \in 1 .. m
      PROVE  /\ f1[i] \in Seq(Steps) /\ g1[i] \in Seq(Tokens)
             /\ Emit(f1[i - 1], g1[i - 1], f1[i], g1[i])
  <2>1. CASE i = 1
    <3>1. f1[i - 1] = r /\ f1[i] = s /\ g1[i - 1] = v /\ g1[i] = w
      BY <1>1, <2>1 DEF EmitsBy
    <3> HIDE DEF f1, g1
    <3>2. QED
      BY <3>1
  <2>2. CASE i # 1
    <3> DEFINE j == i - 1
    <3>1. i \in 0 .. m /\ j \in 0 .. m /\ i # 0 /\ j # 0 /\ j \in 1 .. n
      BY <1>1, <2>2 DEF EmitsBy
    <3>2. /\ f1[i - 1] = f[j - 1] /\ f1[i] = f[j]
          /\ g1[i - 1] = g[j - 1] /\ g1[i] = g[j]
      BY <3>1
    <3> HIDE DEF f1, g1, m, j
    <3>3. QED
      BY <1>1, <3>1, <3>2 DEF EmitsBy
  <2>3. QED
    BY <2>1, <2>2
<1> HIDE DEF f1, g1, m
<1>4. EmitsBy(r, v, e, m, f1, g1)
  BY <1>2, <1>3 DEF EmitsBy
<1>5. QED
  BY <1>4 DEF Emits

\* The last flush.
LEMMA EmitsLast ==
    ASSUME NEW e
    PROVE  Emits(<<Flush>> \o e, <<>>, e)
<1> DEFINE f == [i \in {0} |-> <<Flush>> \o e]
           g == [i \in {0} |-> <<>>]
<1>1. f[0] = <<Flush>> \o e /\ g[0] = <<>> /\ 1 .. 0 = {} /\ 0 \in Nat
  OBVIOUS
<1> HIDE DEF f, g
<1>2. EmitsBy(<<Flush>> \o e, <<>>, e, 0, f, g)
  BY <1>1 DEF EmitsBy
<1>3. QED
  BY <1>2 DEF Emits

\* What a client that writes does next.
LEMMA EmitsHead ==
    ASSUME NEW s, NEW w, NEW e, Emits(s, w, e)
    PROVE  \/ s = <<Flush>> \o e /\ w = <<>>
           \/ \E t \in Seq(Steps), v \in Seq(Tokens) : Emit(s, w, t, v) /\ Emits(t, v, e)
<1>1. PICK n, f, g : EmitsBy(s, w, e, n, f, g)
  BY DEF Emits
<1>2. CASE n = 0
  BY <1>1, <1>2 DEF EmitsBy
<1>3. CASE n # 0
  <2> DEFINE m == n - 1
             f1 == [i \in 0 .. m |-> f[i + 1]]
             g1 == [i \in 0 .. m |-> g[i + 1]]
  <2>1. /\ m \in Nat /\ f1[0] = f[1] /\ f1[m] = <<Flush>> \o e
        /\ g1[0] = g[1] /\ g1[m] = <<>>
    BY <1>1, <1>3 DEF EmitsBy
  <2>2. ASSUME NEW i \in 1 .. m
        PROVE  /\ f1[i] \in Seq(Steps) /\ g1[i] \in Seq(Tokens)
               /\ Emit(f1[i - 1], g1[i - 1], f1[i], g1[i])
    <3> DEFINE j == i + 1
    <3>1. /\ j \in 1 .. n /\ f1[i - 1] = f[j - 1] /\ f1[i] = f[j]
          /\ g1[i - 1] = g[j - 1] /\ g1[i] = g[j]
      BY <1>1, <1>3 DEF EmitsBy
    <3> HIDE DEF f1, g1, m, j
    <3>2. QED
      BY <1>1, <3>1 DEF EmitsBy
  <2> HIDE DEF f1, g1, m
  <2>3. EmitsBy(f[1], g[1], e, m, f1, g1)
    BY <2>1, <2>2 DEF EmitsBy
  <2>4. Emits(f[1], g[1], e)
    BY <2>3 DEF Emits
  <2>5. 1 \in 1 .. n /\ 1 - 1 = 0
    BY <1>1, <1>3 DEF EmitsBy
  <2>6. f[1] \in Seq(Steps) /\ g[1] \in Seq(Tokens) /\ Emit(s, w, f[1], g[1])
    BY <1>1, <2>5 DEF EmitsBy
  <2>7. QED
    BY <2>4, <2>6
<1>4. QED
  BY <1>2, <1>3

-----------------------------------------------------------------------------
\* There is one way to repeat an item.
LEMMA CopiesUnique ==
    ASSUME NEW n \in Nat, NEW item, NEW s, NEW t, Copies(s, item, n), Copies(t, item, n)
    PROVE  s = t
<1>1. PICK f : f[0] = <<>> /\ f[n] = s /\ \A i \in 1 .. n : f[i] = item \o f[i - 1]
  BY DEF Copies
<1>2. PICK g : g[0] = <<>> /\ g[n] = t /\ \A i \in 1 .. n : g[i] = item \o g[i - 1]
  BY DEF Copies
<1> DEFINE H == {i \in 0 .. n : f[i] = g[i]}
<1>3. 0 \in H
  BY <1>1, <1>2
<1>4. ASSUME NEW i \in 0 .. n, i # 0, i - 1 \in H PROVE i \in H
  BY <1>1, <1>2, <1>4, i \in 1 .. n
<1> HIDE DEF H
<1>5. n \in H
  BY <1>3, <1>4, UpTo
<1>6. QED
  BY <1>1, <1>2, <1>5 DEF H

\* The function by which the client repeats an item.
Repeating(f, item, n) == f = [i \in 0 .. n |-> IF i = 0 THEN <<>> ELSE item \o f[i - 1]]

\* The copies of an item can be put together one by one.
LEMMA RepeatingExists ==
    ASSUME NEW n \in Nat, NEW item
    PROVE  \E f : Repeating(f, item, n)
<1> DEFINE H == {m \in 0 .. n : \E f : Repeating(f, item, m)}
<1>1. 0 \in H
  <2> DEFINE f == [i \in 0 .. 0 |-> <<>>]
  <2>1. Repeating(f, item, 0)
    BY DEF Repeating
  <2> HIDE DEF f
  <2>2. QED
    BY <2>1
<1>2. ASSUME NEW m \in 0 .. n, m # 0, m - 1 \in H PROVE m \in H
  <2>1. PICK g : Repeating(g, item, m - 1)
    BY <1>2
  <2> DEFINE f == [i \in 0 .. m |-> IF i = m THEN item \o g[m - 1] ELSE g[i]]
  <2>2. ASSUME NEW i \in 0 .. m PROVE f[i] = IF i = 0 THEN <<>> ELSE item \o f[i - 1]
    <3>1. CASE i = m
      BY <1>2, <3>1
    <3>2. CASE i # m
      <4>1. i \in 0 .. (m - 1) /\ f[i] = g[i]
        BY <3>2
      <4>2. i # 0 => i - 1 \in 0 .. m /\ i - 1 # m /\ f[i - 1] = g[i - 1]
        BY <3>2
      <4> HIDE DEF f
      <4>3. g[i] = IF i = 0 THEN <<>> ELSE item \o g[i - 1]
        BY <2>1, <4>1 DEF Repeating
      <4>4. QED
        BY <4>1, <4>2, <4>3
    <3>3. QED
      BY <3>1, <3>2
  <2>3. Repeating(f, item, m)
    BY <2>2 DEF Repeating
  <2> HIDE DEF f
  <2>4. QED
    BY <2>3
<1> HIDE DEF H
<1>3. n \in H
  BY <1>1, <1>2, UpTo
<1>4. QED
  BY <1>3 DEF H

\* What is put together so is copies of the item.
LEMMA RepeatingCopies ==
    ASSUME NEW n \in Nat, NEW item, NEW f, Repeating(f, item, n)
    PROVE  Copies(f[n], item, n)
<1>1. \A i \in 0 .. n : f[i] = IF i = 0 THEN <<>> ELSE item \o f[i - 1]
  BY DEF Repeating
<1>2. 0 \in 0 .. n /\ \A i \in 1 .. n : i \in 0 .. n /\ i # 0
  OBVIOUS
<1>3. f[0] = <<>> /\ \A i \in 1 .. n : f[i] = item \o f[i - 1]
  BY <1>1, <1>2
<1>4. QED
  BY <1>3 DEF Copies

\* An item that is not repeated, one that is once, and a single step any number of times.
LEMMA CopiesSmall ==
    ASSUME NEW item \in Seq(Steps)
    PROVE  Copies(<<>>, item, 0) /\ Copies(item, item, 1)
<1>1. Copies(<<>>, item, 0)
  <2> DEFINE f == [i \in {0} |-> <<>>]
  <2>1. f[0] = <<>> /\ 1 .. 0 = {}
    OBVIOUS
  <2> HIDE DEF f
  <2>2. QED
    BY <2>1 DEF Copies
<1>2. Copies(item, item, 1)
  <2> DEFINE f == [i \in 0 .. 1 |-> IF i = 0 THEN <<>> ELSE item]
  <2>1. f[0] = <<>> /\ f[1] = item /\ item \o <<>> = item /\ \A i \in 1 .. 1 : i = 1 /\ i - 1 = 0
    OBVIOUS
  <2> HIDE DEF f
  <2>2. QED
    BY <2>1 DEF Copies
<1>3. QED
  BY <1>1, <1>2

\* n copies of one step are a list of n times that step.
LEMMA CopiesOfStep ==
    ASSUME NEW n \in Nat, NEW x \in Steps
    PROVE  Copies([i \in 1 .. n |-> x], <<x>>, n)
<1> DEFINE f == [i \in 0 .. n |-> [j \in 1 .. i |-> x]]
<1>1. f[0] = <<>> /\ f[n] = [i \in 1 .. n |-> x]
  OBVIOUS
<1>2. ASSUME NEW i \in 1 .. n PROVE f[i] = <<x>> \o f[i - 1]
  <2> DEFINE s == [j \in 1 .. i |-> x]
             t == [j \in 1 .. i - 1 |-> x]
  <2>1. s \in Seq(Steps) /\ t \in Seq(Steps) /\ Len(s) = i /\ Len(t) = i - 1
    OBVIOUS
  <2>2. \A j \in 1 .. i : s[j] = x
    OBVIOUS
  <2>3. \A j \in 1 .. i - 1 : t[j] = x
    OBVIOUS
  <2>4. f[i] = s /\ f[i - 1] = t
    OBVIOUS
  <2> HIDE DEF s, t, f
  <2>5. s = <<x>> \o t
    BY <2>1, <2>2, <2>3
  <2>6. QED
    BY <2>4, <2>5
<1> HIDE DEF f
<1>3. QED
  BY <1>1, <1>2 DEF Copies

-----------------------------------------------------------------------------
\* The parts of a list that is not empty.
\* A list made of two.
Joins(S, a, b, t) ==
    /\ t \in Seq(S) /\ Len(t) = Len(a) + Len(b) /\ Len(a) \in Nat /\ Len(b) \in Nat
    /\ \A i \in 1 .. Len(a) : t[i] = a[i]
    /\ \A i \in 1 .. Len(b) : t[Len(a) + i] = b[i]

\* What two lists joined hold, place by place.
LEMMA TwoParts ==
    ASSUME NEW S, NEW a \in Seq(S), NEW b \in Seq(S)
    PROVE  Joins(S, a, b, a \o b)
<1> DEFINE u == a \o b
<1>1. /\ u \in Seq(S) /\ Len(u) = Len(a) + Len(b) /\ Len(a) \in Nat /\ Len(b) \in Nat
      /\ \A i \in 1 .. Len(a) : u[i] = a[i]
      /\ \A i \in 1 .. Len(b) : u[Len(a) + i] = b[i]
  OBVIOUS
<1> HIDE DEF u
<1>2. Joins(S, a, b, u)
  BY <1>1 DEF Joins
<1>3. QED
  BY <1>2 DEF u

\* Lists that start with an element are equal part by part.
LEMMA ConsParts ==
    ASSUME NEW S, NEW a \in S, NEW b \in S, NEW r \in Seq(S), NEW s \in Seq(S),
           <<a>> \o r = <<b>> \o s
    PROVE  a = b /\ r = s
<1>1. Head(<<a>> \o r) = a /\ Head(<<b>> \o s) = b
  OBVIOUS
<1>2. Tail(<<a>> \o r) = r /\ Tail(<<b>> \o s) = s
  OBVIOUS
<1>3. QED
  BY <1>1, <1>2

\* An element, a list and a list are joined in any order.
LEMMA ConsJoin ==
    ASSUME NEW S, NEW a \in S, NEW r \in Seq(S), NEW s \in Seq(S)
    PROVE  /\ (<<a>> \o r) \o s = <<a>> \o (r \o s)
           /\ r \o s \in Seq(S) /\ <<a>> \o r \in Seq(S)
<1>1. <<a>> \in Seq(S)
  OBVIOUS
<1>2. QED
  BY <1>1, ConcatAssociative, ConcatProperties

\* What a list is when something is put before it.
LEMMA ConsIs ==
    ASSUME NEW S, NEW a \in S, NEW t \in Seq(S), NEW u \in Seq(S), Len(u) = Len(t) + 1, u[1] = a,
           \A i \in 1 .. Len(t) : u[i + 1] = t[i]
    PROVE  <<a>> \o t = u
<1>1. <<a>> \in Seq(S) /\ Len(<<a>>) = 1 /\ <<a>>[1] = a
  OBVIOUS
<1> DEFINE v == <<a>> \o t
<1>2. v \in Seq(S) /\ Len(v) = Len(t) + 1
  BY <1>1, ConcatProperties
<1>3. \A i \in 1 .. Len(t) + 1 : v[i] = IF i <= 1 THEN a ELSE t[i - 1]
  BY <1>1, ConcatProperties
<1> HIDE DEF v
<1>4. ASSUME NEW i \in 1 .. Len(t) + 1 PROVE v[i] = u[i]
  <2>1. CASE i = 1
    BY <1>3, <2>1
  <2>2. CASE i # 1
    <3>1. i - 1 \in 1 .. Len(t) /\ (i - 1) + 1 = i /\ ~(i <= 1)
      BY <2>2
    <3>2. QED
      BY <1>3, <3>1
  <2>3. QED
    BY <2>1, <2>2
<1>5. v = u
  BY <1>2, <1>4, SeqEqual
<1>6. QED
  BY <1>5 DEF v

\* A short tuple is its first element and the rest.
LEMMA TupleCons ==
    /\ \A a : <<a>> \o <<>> = <<a>>
    /\ \A a, b : <<a>> \o <<b>> = <<a, b>>
    /\ \A a, b, c : <<a>> \o <<b, c>> = <<a, b, c>>
    /\ \A a, b, c, d : <<a>> \o <<b, c, d>> = <<a, b, c, d>>
<1>1. \A a, b, c, d :
             /\ <<a>> \o <<>> = <<a>>
             /\ <<a>> \o <<b>> = <<a, b>>
             /\ <<a>> \o <<b, c>> = <<a, b, c>>
             /\ <<a>> \o <<b, c, d>> = <<a, b, c, d>>
  <2> TAKE a, b, c, d
  <2> DEFINE S == {a, b, c, d}
  <2>1. <<a>> \o <<>> = <<a>>
    OBVIOUS
  <2>2. <<a>> \o <<b>> = <<a, b>>
    <3> DEFINE t == <<b>>
               u == <<a, b>>
    <3>1. t \in Seq(S) /\ u \in Seq(S) /\ Len(t) = 1 /\ Len(u) = 2 /\ u[1] = a
      OBVIOUS
    <3>2. u[2] = t[1]
      OBVIOUS
    <3> HIDE DEF t, u
    <3>3. Len(u) = Len(t) + 1 /\ \A i \in 1 .. Len(t) : u[i + 1] = t[i]
      BY <3>1, <3>2
    <3>4. <<a>> \o t = u
      BY <3>1, <3>3, ConsIs, Zenon
    <3>5. QED
      BY <3>4 DEF t, u
  <2>3. <<a>> \o <<b, c>> = <<a, b, c>>
    <3> DEFINE t == <<b, c>>
               u == <<a, b, c>>
    <3>1. t \in Seq(S) /\ u \in Seq(S) /\ Len(t) = 2 /\ Len(u) = 3 /\ u[1] = a
      OBVIOUS
    <3>2. u[2] = t[1] /\ u[3] = t[2]
      OBVIOUS
    <3> HIDE DEF t, u
    <3>3. Len(u) = Len(t) + 1 /\ \A i \in 1 .. Len(t) : u[i + 1] = t[i]
      BY <3>1, <3>2
    <3>4. <<a>> \o t = u
      BY <3>1, <3>3, ConsIs, Zenon
    <3>5. QED
      BY <3>4 DEF t, u
  <2>4. <<a>> \o <<b, c, d>> = <<a, b, c, d>>
    <3> DEFINE t == <<b, c, d>>
               u == <<a, b, c, d>>
    <3>1. t \in Seq(S) /\ u \in Seq(S) /\ Len(t) = 3 /\ Len(u) = 4 /\ u[1] = a
      OBVIOUS
    <3>2. u[2] = t[1] /\ u[3] = t[2] /\ u[4] = t[3]
      OBVIOUS
    <3> HIDE DEF t, u
    <3>3. Len(u) = Len(t) + 1 /\ \A i \in 1 .. Len(t) : u[i + 1] = t[i]
      BY <3>1, <3>2
    <3>4. <<a>> \o t = u
      BY <3>1, <3>3, ConsIs, Zenon
    <3>5. QED
      BY <3>4 DEF t, u
  <2>5. QED
    BY <2>1, <2>2, <2>3, <2>4
<1>2. \A a : <<a>> \o <<>> = <<a>>
  BY <1>1
<1>3. \A a, b : <<a>> \o <<b>> = <<a, b>>
  BY <1>1, Zenon
<1>4. \A a, b, c : <<a>> \o <<b, c>> = <<a, b, c>>
  BY <1>1, Zenon
<1>5. \A a, b, c, d : <<a>> \o <<b, c, d>> = <<a, b, c, d>>
  BY <1>1, Zenon
<1>6. QED
  BY <1>2, <1>3, <1>4, <1>5

\* The same for five elements.
LEMMA TupleConsFive ==
    ASSUME NEW a, NEW b, NEW c, NEW d, NEW e
    PROVE  <<a>> \o <<b, c, d, e>> = <<a, b, c, d, e>>
<1> DEFINE S == {a, b, c, d, e}
<1> DEFINE t == <<b, c, d, e>>
           u == <<a, b, c, d, e>>
<1>1. t \in Seq(S) /\ u \in Seq(S) /\ Len(t) = 4 /\ Len(u) = 5 /\ u[1] = a
  OBVIOUS
<1>2. u[2] = t[1] /\ u[3] = t[2] /\ u[4] = t[3] /\ u[5] = t[4]
  OBVIOUS
<1> HIDE DEF t, u
<1>3. Len(u) = Len(t) + 1 /\ \A i \in 1 .. Len(t) : u[i + 1] = t[i]
  BY <1>1, <1>2
<1>4. <<a>> \o t = u
  BY <1>1, <1>3, ConsIs, Zenon
<1>5. QED
  BY <1>4 DEF t, u

\* A list that is not empty begins with its head.
LEMMA Uncons ==
    ASSUME NEW S, NEW u \in Seq(S), u # <<>>, NEW r \in Seq(S)
    PROVE  u \o r = <<Head(u)>> \o (Tail(u) \o r)
OBVIOUS

\* Lists joined in another order.
JoinedFour(a, b, c, d) ==
    /\ ((a \o b) \o c) \o d = a \o (b \o (c \o d))
    /\ (a \o (b \o c)) \o d = a \o (b \o (c \o d))

\* Four lists are joined in any order.
LEMMA JoinFour ==
    ASSUME NEW S, NEW a \in Seq(S), NEW b \in Seq(S), NEW c \in Seq(S), NEW d \in Seq(S)
    PROVE  JoinedFour(a, b, c, d)
<1>1. ((a \o b) \o c) \o d = a \o (b \o (c \o d))
  OBVIOUS
<1>2. (a \o (b \o c)) \o d = a \o (b \o (c \o d))
  OBVIOUS
<1>3. QED
  BY <1>1, <1>2 DEF JoinedFour

\* A list taken apart, one by one.
PeeledSeven(a, b, c, d, e, f, g, k) ==
    <<a, b, c, d, e, f, g>> \o k
        = <<a>> \o (<<b>> \o (<<c>> \o (<<d>> \o (<<e>> \o (<<f>> \o (<<g>> \o k))))))

\* Seven elements come off a list one by one.
LEMMA PeelSeven ==
    ASSUME NEW S, NEW a \in S, NEW b \in S, NEW c \in S, NEW d \in S, NEW e \in S,
           NEW f \in S, NEW g \in S, NEW k \in Seq(S)
    PROVE  PeeledSeven(a, b, c, d, e, f, g, k)
<1>1. <<a, b, c, d, e, f, g>> \o k = <<a>> \o (<<b, c, d, e, f, g>> \o k)
  <2> DEFINE u == <<a, b, c, d, e, f, g>>
             v == <<b, c, d, e, f, g>>
  <2>1. u \in Seq(S) /\ u # <<>> /\ Head(u) = a /\ Tail(u) = v
    OBVIOUS
  <2> HIDE DEF u, v
  <2>2. u \o k = <<a>> \o (v \o k)
    BY <2>1, Uncons
  <2>3. QED
    BY <2>2 DEF u, v
<1>2. <<b, c, d, e, f, g>> \o k = <<b>> \o (<<c, d, e, f, g>> \o k)
  <2> DEFINE u == <<b, c, d, e, f, g>>
             v == <<c, d, e, f, g>>
  <2>1. u \in Seq(S) /\ u # <<>> /\ Head(u) = b /\ Tail(u) = v
    OBVIOUS
  <2> HIDE DEF u, v
  <2>2. u \o k = <<b>> \o (v \o k)
    BY <2>1, Uncons
  <2>3. QED
    BY <2>2 DEF u, v
<1>3. <<c, d, e, f, g>> \o k = <<c>> \o (<<d, e, f, g>> \o k)
  <2> DEFINE u == <<c, d, e, f, g>>
             v == <<d, e, f, g>>
  <2>1. u \in Seq(S) /\ u # <<>> /\ Head(u) = c /\ Tail(u) = v
    OBVIOUS
  <2> HIDE DEF u, v
  <2>2. u \o k = <<c>> \o (v \o k)
    BY <2>1, Uncons
  <2>3. QED
    BY <2>2 DEF u, v
<1>4. <<d, e, f, g>> \o k = <<d>> \o (<<e, f, g>> \o k)
  <2> DEFINE u == <<d, e, f, g>>
             v == <<e, f, g>>
  <2>1. u \in Seq(S) /\ u # <<>> /\ Head(u) = d /\ Tail(u) = v
    OBVIOUS
  <2> HIDE DEF u, v
  <2>2. u \o k = <<d>> \o (v \o k)
    BY <2>1, Uncons
  <2>3. QED
    BY <2>2 DEF u, v
<1>5. <<e, f, g>> \o k = <<e>> \o (<<f, g>> \o k)
  <2> DEFINE u == <<e, f, g>>
             v == <<f, g>>
  <2>1. u \in Seq(S) /\ u # <<>> /\ Head(u) = e /\ Tail(u) = v
    OBVIOUS
  <2> HIDE DEF u, v
  <2>2. u \o k = <<e>> \o (v \o k)
    BY <2>1, Uncons
  <2>3. QED
    BY <2>2 DEF u, v
<1>6. <<f, g>> \o k = <<f>> \o (<<g>> \o k)
  <2> DEFINE u == <<f, g>>
             v == <<g>>
  <2>1. u \in Seq(S) /\ u # <<>> /\ Head(u) = f /\ Tail(u) = v
    OBVIOUS
  <2> HIDE DEF u, v
  <2>2. u \o k = <<f>> \o (v \o k)
    BY <2>1, Uncons
  <2>3. QED
    BY <2>2 DEF u, v
<1>7. QED
  BY <1>1, <1>2, <1>3, <1>4, <1>5, <1>6, Zenon DEF PeeledSeven

PeeledNine(a, b, c, d, e, f, g, h, i, k) ==
    <<a, b, c, d, e, f, g, h, i>> \o k
        = <<a>> \o (<<b>> \o (<<c>> \o (<<d>>
            \o (<<e>> \o (<<f>> \o (<<g>> \o (<<h>> \o (<<i>> \o k))))))))

\* Nine elements come off a list one by one.
LEMMA PeelNine ==
    ASSUME NEW S, NEW a \in S, NEW b \in S, NEW c \in S, NEW d \in S, NEW e \in S,
           NEW f \in S, NEW g \in S, NEW h \in S, NEW i \in S, NEW k \in Seq(S)
    PROVE  PeeledNine(a, b, c, d, e, f, g, h, i, k)
<1>1. <<a, b, c, d, e, f, g, h, i>> \o k = <<a>> \o (<<b, c, d, e, f, g, h, i>> \o k)
  <2> DEFINE u == <<a, b, c, d, e, f, g, h, i>>
             v == <<b, c, d, e, f, g, h, i>>
  <2>1. u \in Seq(S) /\ u # <<>> /\ Head(u) = a /\ Tail(u) = v
    OBVIOUS
  <2> HIDE DEF u, v
  <2>2. u \o k = <<a>> \o (v \o k)
    BY <2>1, Uncons
  <2>3. QED
    BY <2>2 DEF u, v
<1>2. <<b, c, d, e, f, g, h, i>> \o k = <<b>> \o (<<c, d, e, f, g, h, i>> \o k)
  <2> DEFINE u == <<b, c, d, e, f, g, h, i>>
             v == <<c, d, e, f, g, h, i>>
  <2>1. u \in Seq(S) /\ u # <<>> /\ Head(u) = b /\ Tail(u) = v
    OBVIOUS
  <2> HIDE DEF u, v
  <2>2. u \o k = <<b>> \o (v \o k)
    BY <2>1, Uncons
  <2>3. QED
    BY <2>2 DEF u, v
<1>3. <<c, d, e, f, g, h, i>> \o k = <<c>> \o (<<d, e, f, g, h, i>> \o k)
  <2> DEFINE u == <<c, d, e, f, g, h, i>>
             v == <<d, e, f, g, h, i>>
  <2>1. u \in Seq(S) /\ u # <<>> /\ Head(u) = c /\ Tail(u) = v
    OBVIOUS
  <2> HIDE DEF u, v
  <2>2. u \o k = <<c>> \o (v \o k)
    BY <2>1, Uncons
  <2>3. QED
    BY <2>2 DEF u, v
<1>4. <<d, e, f, g, h, i>> \o k = <<d>> \o (<<e, f, g, h, i>> \o k)
  <2> DEFINE u == <<d, e, f, g, h, i>>
             v == <<e, f, g, h, i>>
  <2>1. u \in Seq(S) /\ u # <<>> /\ Head(u) = d /\ Tail(u) = v
    OBVIOUS
  <2> HIDE DEF u, v
  <2>2. u \o k = <<d>> \o (v \o k)
    BY <2>1, Uncons
  <2>3. QED
    BY <2>2 DEF u, v
<1>5. <<e, f, g, h, i>> \o k = <<e>> \o (<<f, g, h, i>> \o k)
  <2> DEFINE u == <<e, f, g, h, i>>
             v == <<f, g, h, i>>
  <2>1. u \in Seq(S) /\ u # <<>> /\ Head(u) = e /\ Tail(u) = v
    OBVIOUS
  <2> HIDE DEF u, v
  <2>2. u \o k = <<e>> \o (v \o k)
    BY <2>1, Uncons
  <2>3. QED
    BY <2>2 DEF u, v
<1>6. <<f, g, h, i>> \o k = <<f>> \o (<<g, h, i>> \o k)
  <2> DEFINE u == <<f, g, h, i>>
             v == <<g, h, i>>
  <2>1. u \in Seq(S) /\ u # <<>> /\ Head(u) = f /\ Tail(u) = v
    OBVIOUS
  <2> HIDE DEF u, v
  <2>2. u \o k = <<f>> \o (v \o k)
    BY <2>1, Uncons
  <2>3. QED
    BY <2>2 DEF u, v
<1>7. <<g, h, i>> \o k = <<g>> \o (<<h, i>> \o k)
  <2> DEFINE u == <<g, h, i>>
             v == <<h, i>>
  <2>1. u \in Seq(S) /\ u # <<>> /\ Head(u) = g /\ Tail(u) = v
    OBVIOUS
  <2> HIDE DEF u, v
  <2>2. u \o k = <<g>> \o (v \o k)
    BY <2>1, Uncons
  <2>3. QED
    BY <2>2 DEF u, v
<1>8. <<h, i>> \o k = <<h>> \o (<<i>> \o k)
  <2> DEFINE u == <<h, i>>
             v == <<i>>
  <2>1. u \in Seq(S) /\ u # <<>> /\ Head(u) = h /\ Tail(u) = v
    OBVIOUS
  <2> HIDE DEF u, v
  <2>2. u \o k = <<h>> \o (v \o k)
    BY <2>1, Uncons
  <2>3. QED
    BY <2>2 DEF u, v
<1>9. QED
  BY <1>1, <1>2, <1>3, <1>4, <1>5, <1>6, <1>7, <1>8, Zenon DEF PeeledNine

\* One read, forwards and backwards.
LEMMA ReadsForward ==
    ASSUME NEW step \in Steps, NEW steps \in Seq(Steps), NEW rest \in Seq(Steps), NEW x, NEW q,
           Becomes(step, x, steps), step # ReadPath
    PROVE  Reads(At(<<step>> \o rest, q), x, At(steps \o rest, q))
BY DEF Reads, At

\* A client that waits for a path has the path once it is read.
LEMMA ReadsPath ==
    ASSUME NEW rest \in Seq(Steps), NEW p, NEW q
    PROVE  Reads(At(<<ReadPath>> \o rest, q), Text(p), At(rest, p))
<1>1. ReadPath \in Steps /\ <<>> \in Seq(Steps) /\ <<>> \o rest = rest
  BY DEF ReadPath, Steps, Plain
<1>2. Becomes(ReadPath, Text(p), <<>>) /\ Text(p).val = p
  BY DEF Becomes, Text
<1>3. QED
  BY <1>1, <1>2 DEF Reads, At

\* What a read has done follows from the step that made it.
LEMMA ReadsBackward ==
    ASSUME NEW step \in Steps, NEW rest \in Seq(Steps), NEW x, NEW q, NEW b,
           Reads(At(<<step>> \o rest, q), x, b)
    PROVE  \E steps \in Seq(Steps) :
               /\ Becomes(step, x, steps)
               /\ b = At(steps \o rest, IF step = ReadPath THEN x.val ELSE q)
<1>1. PICK s \in Steps, steps \in Seq(Steps), r \in Seq(Steps) :
        /\ <<step>> \o rest = <<s>> \o r /\ Becomes(s, x, steps)
        /\ b = At(steps \o r, IF s = ReadPath THEN x.val ELSE q)
  BY DEF Reads, At
<1>2. s = step /\ r = rest
  BY <1>1, ConsParts
<1>3. QED
  BY <1>1, <1>2

\* Nothing is read by a client with nothing left to do.
LEMMA ReadsSome ==
    ASSUME NEW a, NEW x, NEW b, Reads(a, x, b)
    PROVE  \E step \in Steps, rest \in Seq(Steps) : a.todo = <<step>> \o rest
BY DEF Reads

\* A run of one token, and of tokens that are each taken by a step of their own.
LEMMA RunOne ==
    ASSUME NEW x \in Tokens, NEW a, NEW b, Reads(a, x, b)
    PROVE  Run(a, <<x>>, b)
<1>1. Run(b, <<>>, b)
  BY RunNothing
<1>2. Run(a, <<x>> \o <<>>, b)
  BY <1>1, <<>> \in Seq(Tokens), RunCons
<1>3. QED
  BY <1>2

\* Steps that read one token each read a list of as many.
LEMMA RunPlain ==
    ASSUME NEW s \in Seq(Steps), NEW t \in Seq(Tokens), NEW rest \in Seq(Steps), NEW q,
           Len(s) = Len(t), \A i \in 1 .. Len(t) : Becomes(s[i], t[i], <<>>) /\ s[i] # ReadPath
    PROVE  Run(At(s \o rest, q), t, At(rest, q))
<1> DEFINE n == Len(t)
           from == [i \in 1 .. n + 1 |-> SubSeq(s, i, n)]
           f == [i \in 0 .. n |-> At(from[i + 1] \o rest, q)]
<1>1. n \in Nat /\ 1 \in 1 .. n + 1 /\ n + 1 \in 1 .. n + 1 /\ \A i \in 1 .. n : s[i] \in Steps
  OBVIOUS
<1>2. from[1] = s /\ from[n + 1] = <<>> /\ <<>> \o rest = rest
  BY <1>1, SubSeqFull, SubSeqEmpty
<1>3. ASSUME NEW i \in 1 .. n
      PROVE  from[i] = <<s[i]>> \o from[i + 1] /\ from[i + 1] \in Seq(Steps)
  <2>1. i \in 1 .. n + 1 /\ i + 1 \in 1 .. n + 1
    OBVIOUS
  <2>2. from[i] = SubSeq(s, i, n) /\ from[i + 1] = SubSeq(s, i + 1, n)
    BY <2>1
  <2>3. QED
    <3>1. i \in 1 .. Len(s) /\ n \in i .. Len(s)
      BY <1>1
    <3>2. SubSeq(s, i, n) = <<s[i]>> \o SubSeq(s, i + 1, n)
      BY <3>1, SubSeqRecursiveFirst
    <3>3. SubSeq(s, i + 1, n) \in Seq(Steps)
      BY <1>1, SubSeqProperties
    <3> HIDE DEF from
    <3>4. QED
      BY <2>2, <3>2, <3>3
<1> HIDE DEF from
<1>4. f[0] = At(s \o rest, q) /\ f[n] = At(rest, q)
  <2>1. f[0] = At(from[1] \o rest, q) /\ f[n] = At(from[n + 1] \o rest, q)
    BY <1>1
  <2>2. QED
    BY <1>2, <2>1
<1>5. ASSUME NEW i \in 1 .. n PROVE Reads(f[i - 1], t[i], f[i])
  <2>1. f[i - 1] = At(from[i] \o rest, q) /\ f[i] = At(from[i + 1] \o rest, q)
    BY <1>1
  <2> HIDE DEF f
  <2>2. from[i + 1] \o rest \in Seq(Steps) /\ <<>> \o (from[i + 1] \o rest) = from[i + 1] \o rest
    <3>1. from[i + 1] \in Seq(Steps)
      BY <1>3
    <3>2. QED
      BY <3>1, ConcatProperties, ConcatEmptySeq
  <2>3. from[i] \o rest = <<s[i]>> \o (from[i + 1] \o rest)
    <3>1. s[i] \in Steps /\ <<s[i]>> \in Seq(Steps)
      BY <1>1
    <3>2. from[i] = <<s[i]>> \o from[i + 1] /\ from[i + 1] \in Seq(Steps)
      BY <1>3
    <3>3. \A u \in Seq(Steps) : (<<s[i]>> \o u) \o rest = <<s[i]>> \o (u \o rest)
      BY <3>1, ConsJoin
    <3>4. QED
      BY <3>2, <3>3
  <2>4. Reads(At(<<s[i]>> \o (from[i + 1] \o rest), q), t[i],
            At(<<>> \o (from[i + 1] \o rest), q))
    BY <1>1, <2>2, <<>> \in Seq(Steps), ReadsForward
  <2>5. QED
    BY <2>1, <2>2, <2>3, <2>4
<1> HIDE DEF f
<1>6. QED
  BY <1>4, <1>5 DEF Run

-----------------------------------------------------------------------------
\* The steps and the tokens there are.
LEMMA StepTypes ==
    /\ Plain \subseteq Steps
    /\ {Skip("text"), Skip("word"), ReadPath, Feature, Version, Field, Drain, Flush, Raise,
        Return, Operate} \subseteq Plain
    /\ \A x \in Tokens : Expect(x) \in Plain
    /\ \A t \in Seq(Tokens) : Write(t) \in Plain
    /\ \A item \in Seq(Plain) : Repeat(item) \in Steps
BY DEF Steps, Plain, Skip, ReadPath, Feature, Version, Field, Drain, Flush, Raise, Return,
   Operate, Expect, Write, Repeat

\* What the protocol sends are tokens.
LEMMA TokenTypes ==
    /\ \A n \in Nat : Word(n) \in Tokens /\ Bytes(n) \in Tokens
    /\ \A s \in Values : Text(s) \in Tokens
    /\ STRING \subseteq Values /\ Literals \subseteq Values /\ Blank \in Values
           /\ Nat \subseteq Values
    /\ \A r \in Requests : PathOf(r) \in Values
    /\ \A fs \in DaemonFeatures : fs \subseteq Values
BY DEF Tokens, Values, Word, Text, Bytes

\* What a step does with what it reads.
LEMMA BecomesPlain ==
    /\ \A n : Becomes(Skip("word"), Word(n), <<>>)
    /\ \A s : Becomes(Skip("text"), Text(s), <<>>) /\ Becomes(Feature, Text(s), <<>>)
    /\ \A x : Becomes(Expect(x), x, <<>>)
    /\ Becomes(Field, Word(0), <<Skip("word")>>) /\ Becomes(Field, Word(1), <<Skip("text")>>)
    /\ \A m \in Markers : Becomes(Drain, Word(m), afterMarker(m))
BY DEF Becomes, Word, Text

\* A count turns a repeated item into as many copies (readStrings of wire.go).
LEMMA BecomesCopies ==
    ASSUME NEW n \in Nat, NEW item \in Seq(Plain), NEW s, Copies(s, item, n)
    PROVE  Becomes(Repeat(item), Word(n), s)
BY DEF Becomes, Word, Repeat

\* Only ReadPath keeps what it reads.
LEMMA NotPath ==
    /\ \A k : Skip(k) # ReadPath
    /\ \A x : Expect(x) # ReadPath
    /\ \A x : Write(x) # ReadPath
    /\ \A x : Repeat(x) # ReadPath
    /\ ReadPath \notin {Feature, Version, Field, Drain, Flush, Raise, Return, Operate}
BY DEF Skip, ReadPath, Feature, Version, Field, Drain, Flush, Raise, Return, Operate, Expect,
   Write, Repeat

\* A step and a run of what is left.
LEMMA RunStep ==
    ASSUME NEW step \in Steps, NEW steps \in Seq(Steps), NEW rest \in Seq(Steps), NEW q, NEW c,
           NEW x \in Tokens, NEW t \in Seq(Tokens), Becomes(step, x, steps), step # ReadPath,
           Run(At(steps \o rest, q), t, c)
    PROVE  Run(At(<<step>> \o rest, q), <<x>> \o t, c)
<1>1. Reads(At(<<step>> \o rest, q), x, At(steps \o rest, q))
  BY ReadsForward
<1>2. QED
  BY <1>1, RunCons

\* What the markers lead to.
LEMMA AfterMarkers ==
    /\ afterMarker(stderrNext) = <<Skip("text"), Drain>>
    /\ afterMarker(stderrError) = readProtoError
    /\ afterMarker(stderrStartActivity) = skipActivity \o <<Drain>>
    /\ afterMarker(stderrStopActivity) = <<Skip("word"), Drain>>
    /\ afterMarker(stderrResult) = skipResult \o <<Drain>>
    /\ afterMarker(stderrLast) = <<>>
    /\ Markers \subseteq Nat
BY DEF afterMarker, Markers, stderrNext, stderrError, stderrStartActivity, stderrStopActivity,
   stderrResult, stderrLast

-----------------------------------------------------------------------------
\* skipFields is a step that repeats one field.
LEMMA SkipFieldsStep == skipFields \in Steps /\ <<Field>> \in Seq(Plain) /\ skipFields # ReadPath
<1>1. <<Field>> \in Seq(Plain)
  BY StepTypes
<1>2. QED
  BY <1>1, StepTypes, NotPath DEF skipFields

\* The fields of an activity are read as they are written.
LEMMA RunFields ==
    ASSUME NEW fs \in Fields, NEW rest \in Seq(Steps), NEW q
    PROVE  fs \in Seq(Tokens) /\ Run(At(<<skipFields>> \o rest, q), fs, At(rest, q))
<1>1. <<Field>> \in Seq(Plain) /\ <<Field>> \in Seq(Steps) /\ skipFields \in Steps
  <2>1. <<Field>> \in Seq(Plain) /\ <<Field>> \in Seq(Steps)
    BY StepTypes
  <2>2. QED
    BY <2>1, StepTypes DEF skipFields
<1>2. /\ Word(0) \in Tokens /\ Word(1) \in Tokens /\ Word(2) \in Tokens
      /\ Text("file") \in Tokens
  <2>1. "file" \in Values
    BY TokenTypes DEF Literals
  <2>2. QED
    BY <2>1, TokenTypes
<1>3. skipFields # ReadPath
  BY NotPath DEF skipFields
<1>4. CASE fs = <<Word(0)>>
  <2>1. Becomes(skipFields, Word(0), <<>>)
    BY <1>1, CopiesSmall, BecomesCopies DEF skipFields
  <2>2. Run(At(<<>> \o rest, q), <<>>, At(rest, q))
    BY RunNothing
  <2>3. Run(At(<<skipFields>> \o rest, q), <<Word(0)>> \o <<>>, At(rest, q))
    BY <1>1, <1>2, <1>3, <2>1, <2>2, RunStep, <<>> \in Seq(Tokens), <<>> \in Seq(Steps)
  <2>4. QED
    BY <1>2, <1>4, <2>3
<1>5. CASE fs = <<Word(2), Word(0), Word(0), Word(1), Text("file")>>
  <2>1. Becomes(skipFields, Word(2), <<Field, Field>>)
    <3>1. Copies([i \in 1 .. 2 |-> Field], <<Field>>, 2)
      BY StepTypes, CopiesOfStep
    <3>2. [i \in 1 .. 2 |-> Field] = <<Field, Field>>
      OBVIOUS
    <3>3. QED
      BY <1>1, <3>1, <3>2, BecomesCopies DEF skipFields
  <2> DEFINE r1 == <<Skip("text")>> \o rest
             r2 == <<Field>> \o rest
             r3 == <<Skip("word")>> \o r2
  <2>2. /\ r1 \in Seq(Steps) /\ r2 \in Seq(Steps) /\ r3 \in Seq(Steps)
        /\ Field \in Steps /\ Skip("word") \in Steps /\ Skip("text") \in Steps
    BY StepTypes
  <2>3. <<Field, Field>> \in Seq(Steps) /\ <<Field, Field>> \o rest = <<Field>> \o r2
    BY <2>2
  <2> HIDE DEF r1, r2, r3
  <2>4. <<>> \o rest = rest /\ <<>> \o r2 = r2
    BY <2>2
  <2>5. Run(At(<<>> \o rest, q), <<>>, At(rest, q))
    BY <2>4, RunNothing
  <2>6. Run(At(r1, q), <<Text("file")>>, At(rest, q))
    <3>1. Run(At(<<Skip("text")>> \o rest, q), <<Text("file")>> \o <<>>, At(rest, q))
      BY <1>2, <2>2, <2>5, RunStep, BecomesPlain, NotPath, <<>> \in Seq(Tokens),
         <<>> \in Seq(Steps)
    <3>2. QED
      BY <1>2, <3>1 DEF r1
  <2>7. Run(At(r2, q), <<Word(1), Text("file")>>, At(rest, q))
    <3>1. Run(At(<<Field>> \o rest, q), <<Word(1)>> \o <<Text("file")>>, At(rest, q))
      <4>1. <<Skip("text")>> \in Seq(Steps) /\ <<Text("file")>> \in Seq(Tokens)
        BY <1>2, <2>2
      <4>2. Run(At(<<Skip("text")>> \o rest, q), <<Text("file")>>, At(rest, q))
        BY <2>6 DEF r1
      <4>3. QED
        BY <1>2, <2>2, <4>1, <4>2, RunStep, BecomesPlain, NotPath
    <3>2. QED
      BY <3>1, TupleCons, Zenon DEF r2
  <2>8. Run(At(r3, q), <<Word(0), Word(1), Text("file")>>, At(rest, q))
    <3>1. <<Word(1), Text("file")>> \in Seq(Tokens)
      BY <1>2
    <3>2. Run(At(<<>> \o r2, q), <<Word(1), Text("file")>>, At(rest, q))
      BY <2>4, <2>7
    <3>3. Run(At(<<Skip("word")>> \o r2, q), <<Word(0)>> \o <<Word(1), Text("file")>>,
              At(rest, q))
      BY <1>2, <2>2, <3>1, <3>2, RunStep, BecomesPlain, NotPath, <<>> \in Seq(Steps)
    <3>4. QED
      BY <3>3, TupleCons, Zenon DEF r3
  <2>9. Run(At(<<Field>> \o r2, q), <<Word(0), Word(0), Word(1), Text("file")>>, At(rest, q))
    <3>1. <<Word(0), Word(1), Text("file")>> \in Seq(Tokens) /\ <<Skip("word")>> \in Seq(Steps)
      BY <1>2, <2>2
    <3>2. Run(At(<<Skip("word")>> \o r2, q), <<Word(0), Word(1), Text("file")>>, At(rest, q))
      BY <2>8 DEF r3
    <3>3. Run(At(<<Field>> \o r2, q), <<Word(0)>> \o <<Word(0), Word(1), Text("file")>>,
              At(rest, q))
      BY <1>2, <2>2, <3>1, <3>2, RunStep, BecomesPlain, NotPath
    <3>4. QED
      BY <3>3, TupleCons, Zenon
  <2>10. QED
    <3>1. <<Word(0), Word(0), Word(1), Text("file")>> \in Seq(Tokens)
      BY <1>2
    <3>2. Run(At(<<Field, Field>> \o rest, q), <<Word(0), Word(0), Word(1), Text("file")>>,
              At(rest, q))
      BY <2>3, <2>9
    <3>3. Run(At(<<skipFields>> \o rest, q),
              <<Word(2)>> \o <<Word(0), Word(0), Word(1), Text("file")>>, At(rest, q))
      BY <1>1, <1>2, <1>3, <2>1, <2>3, <3>1, <3>2, RunStep
    <3>4. fs \in Seq(Tokens)
      BY <1>2, <1>5
    <3>5. QED
      <4>1. fs = <<Word(2)>> \o <<Word(0), Word(0), Word(1), Text("file")>>
        BY <1>5, TupleConsFive
      <4>2. QED
        BY <3>3, <3>4, <4>1, Zenon
<1>6. QED
  BY <1>4, <1>5 DEF Fields

-----------------------------------------------------------------------------
\* A marker, a primitive that is skipped, and a chunk, before a run.
LEMMA RunMarker ==
    ASSUME NEW m \in Markers, NEW t \in Seq(Tokens), NEW rest \in Seq(Steps), NEW q, NEW c,
           afterMarker(m) \in Seq(Steps), Run(At(afterMarker(m) \o rest, q), t, c)
    PROVE  Run(At(<<Drain>> \o rest, q), <<Word(m)>> \o t, c)
<1>1. Drain \in Steps /\ Word(m) \in Tokens /\ Becomes(Drain, Word(m), afterMarker(m))
  BY StepTypes, TokenTypes, AfterMarkers, BecomesPlain
<1>2. QED
  BY <1>1, NotPath, RunStep

\* One skipped token in front of a run.
LEMMA RunSkip ==
    ASSUME NEW step \in {Skip("text"), Skip("word")}, NEW x \in Tokens, NEW t \in Seq(Tokens),
           NEW rest \in Seq(Steps), NEW q, NEW c, Becomes(step, x, <<>>), Run(At(rest, q), t, c)
    PROVE  Run(At(<<step>> \o rest, q), <<x>> \o t, c)
<1>1. step \in Steps /\ step # ReadPath /\ <<>> \in Seq(Steps) /\ <<>> \o rest = rest
  BY StepTypes, NotPath
<1>2. QED
  BY <1>1, RunStep

\* A chunk of plain reads in front of a run.
LEMMA RunChunk ==
    ASSUME NEW s \in Seq(Steps), NEW t \in Seq(Tokens), NEW rest \in Seq(Steps), NEW q, NEW c,
           Len(s) = Len(t), \A i \in 1 .. Len(t) : Becomes(s[i], t[i], <<>>) /\ s[i] # ReadPath,
           NEW u \in Seq(Tokens), Run(At(rest, q), u, c)
    PROVE  Run(At(s \o rest, q), t \o u, c)
BY RunPlain, RunJoin

\* A log message leads from one marker to the next.
Logged(m) == \A rest \in Seq(Steps) : \A q :
                 Run(At(<<Drain>> \o rest, q), m, At(<<Drain>> \o rest, q))

\* A log line leaves a client that drains where it is.
LEMMA LineLogged == Logged(<<Word(stderrNext), Text("line")>>)
<1> SUFFICES ASSUME NEW rest \in Seq(Steps), NEW q
             PROVE  Run(At(<<Drain>> \o rest, q), <<Word(stderrNext), Text("line")>>,
                        At(<<Drain>> \o rest, q))
  BY DEF Logged
<1> DEFINE r == <<Drain>> \o rest
<1>1. stderrNext \in Markers /\ Text("line") \in Tokens /\ r \in Seq(Steps)
  <2>1. Text("line") \in Tokens
    BY TokenTypes DEF Literals
  <2>2. QED
    BY <2>1, StepTypes DEF Markers
<1>2. <<Skip("text"), Drain>> \in Seq(Steps)
          /\ <<Skip("text"), Drain>> \o rest = <<Skip("text")>> \o r
  BY StepTypes
<1> HIDE DEF r
<1>3. Run(At(r, q), <<>>, At(r, q))
  BY RunNothing
<1>4. Run(At(<<Skip("text")>> \o r, q), <<Text("line")>> \o <<>>, At(r, q))
  BY <1>1, <1>3, RunSkip, BecomesPlain, <<>> \in Seq(Tokens)
<1>5. Run(At(<<Skip("text")>> \o r, q), <<Text("line")>>, At(r, q))
  BY <1>4, TupleCons, Zenon
<1>6. Run(At(<<Drain>> \o rest, q), <<Word(stderrNext)>> \o <<Text("line")>>, At(r, q))
  BY <1>1, <1>2, <1>5, AfterMarkers, RunMarker, <<Text("line")>> \in Seq(Tokens)
<1>7. QED
  BY <1>6, TupleCons, Zenon DEF r

\* So does the end of an activity.
LEMMA StopLogged == Logged(<<Word(stderrStopActivity), Word(1)>>)
<1> SUFFICES ASSUME NEW rest \in Seq(Steps), NEW q
             PROVE  Run(At(<<Drain>> \o rest, q), <<Word(stderrStopActivity), Word(1)>>,
                        At(<<Drain>> \o rest, q))
  BY DEF Logged
<1> DEFINE r == <<Drain>> \o rest
<1>1. stderrStopActivity \in Markers /\ Word(1) \in Tokens /\ r \in Seq(Steps)
  BY TokenTypes, StepTypes DEF Markers
<1>2. <<Skip("word"), Drain>> \in Seq(Steps)
          /\ <<Skip("word"), Drain>> \o rest = <<Skip("word")>> \o r
  BY StepTypes
<1> HIDE DEF r
<1>3. Run(At(r, q), <<>>, At(r, q))
  BY RunNothing
<1>4. Run(At(<<Skip("word")>> \o r, q), <<Word(1)>> \o <<>>, At(r, q))
  BY <1>1, <1>3, RunSkip, BecomesPlain, <<>> \in Seq(Tokens)
<1>5. Run(At(<<Skip("word")>> \o r, q), <<Word(1)>>, At(r, q))
  BY <1>4, TupleCons, Zenon
<1>6. Run(At(<<Drain>> \o rest, q), <<Word(stderrStopActivity)>> \o <<Word(1)>>, At(r, q))
  BY <1>1, <1>2, <1>5, AfterMarkers, RunMarker, <<Word(1)>> \in Seq(Tokens)
<1>7. QED
  BY <1>6, TupleCons, Zenon DEF r

\* So does a result, with any fields.
LEMMA ResultLogged ==
    ASSUME NEW fs \in Fields
    PROVE  Logged(<<Word(stderrResult), Word(1), Word(0)>> \o fs)
<1> SUFFICES ASSUME NEW rest \in Seq(Steps), NEW q
             PROVE  Run(At(<<Drain>> \o rest, q), <<Word(stderrResult), Word(1), Word(0)>> \o fs,
                        At(<<Drain>> \o rest, q))
  BY DEF Logged
<1> DEFINE r == <<Drain>> \o rest
           s == <<Skip("word"), Skip("word")>>
           t == <<Word(1), Word(0)>>
<1>1. /\ stderrResult \in Markers /\ Word(stderrResult) \in Tokens
      /\ Word(0) \in Tokens /\ Word(1) \in Tokens
  BY TokenTypes, AfterMarkers DEF Markers
<1>2. /\ Skip("word") \in Steps /\ Drain \in Steps /\ skipFields \in Steps
      /\ <<Field>> \in Seq(Plain)
  BY SkipFieldsStep, StepTypes
<1>3. r \in Seq(Steps) /\ <<skipFields>> \o r \in Seq(Steps)
          /\ skipResult \o <<Drain>> \in Seq(Steps)
  BY <1>2 DEF skipResult
<1>4. (skipResult \o <<Drain>>) \o rest = s \o (<<skipFields>> \o r)
  BY <1>2 DEF skipResult
<1>5. /\ s \in Seq(Steps) /\ t \in Seq(Tokens) /\ Len(s) = 2 /\ Len(t) = 2
      /\ \A i \in 1 .. 2 : s[i] = Skip("word")
      /\ t[1] = Word(1) /\ t[2] = Word(0)
  BY <1>1, <1>2
<1>6. fs \in Seq(Tokens) /\ Run(At(<<skipFields>> \o r, q), fs, At(r, q))
  BY <1>3, RunFields
<1>7. <<Word(stderrResult), Word(1), Word(0)>> \o fs = <<Word(stderrResult)>> \o (t \o fs)
  BY <1>1, <1>6
<1>8. t \o fs \in Seq(Tokens)
  BY <1>5, <1>6
<1> HIDE DEF r, s, t
<1>9. \A i \in 1 .. Len(t) : Becomes(s[i], t[i], <<>>) /\ s[i] # ReadPath
  BY <1>5, BecomesPlain, NotPath
<1>10. Run(At(s \o (<<skipFields>> \o r), q), t \o fs, At(r, q))
  BY <1>3, <1>5, <1>6, <1>9, RunChunk
<1>11. Run(At(<<Drain>> \o rest, q), <<Word(stderrResult)>> \o (t \o fs), At(r, q))
  BY <1>1, <1>3, <1>4, <1>8, <1>10, AfterMarkers, RunMarker
<1>12. QED
  BY <1>7, <1>11, Zenon DEF r

\* So does the start of an activity, with any fields.
LEMMA StartLogged ==
    ASSUME NEW fs \in Fields
    PROVE  Logged(<<Word(stderrStartActivity), Word(1), Word(0), Word(0), Text("copying")>>
                      \o fs \o <<Word(0)>>)
<1> DEFINE m == <<Word(stderrStartActivity), Word(1), Word(0), Word(0), Text("copying")>>
                    \o fs \o <<Word(0)>>
<1> SUFFICES ASSUME NEW rest \in Seq(Steps), NEW q
             PROVE  Run(At(<<Drain>> \o rest, q), m, At(<<Drain>> \o rest, q))
  BY DEF Logged
<1> DEFINE r == <<Drain>> \o rest
           r1 == <<Skip("word")>> \o r
           s == <<Skip("word"), Skip("word"), Skip("word"), Skip("text")>>
           t == <<Word(1), Word(0), Word(0), Text("copying")>>
           u == fs \o <<Word(0)>>
<1>1. /\ stderrStartActivity \in Markers /\ Word(stderrStartActivity) \in Tokens
      /\ Word(0) \in Tokens /\ Word(1) \in Tokens
  BY TokenTypes, AfterMarkers DEF Markers
<1>2. Text("copying") \in Tokens
  BY TokenTypes DEF Literals
<1>3. /\ Skip("word") \in Steps /\ Skip("text") \in Steps /\ Drain \in Steps
      /\ skipFields \in Steps /\ <<Field>> \in Seq(Plain)
  BY SkipFieldsStep, StepTypes
<1>4. r \in Seq(Steps) /\ r1 \in Seq(Steps) /\ <<skipFields>> \o r1 \in Seq(Steps)
  BY <1>3
<1>5. skipActivity \o <<Drain>> \in Seq(Steps)
  BY <1>3 DEF skipActivity
<1>6. (skipActivity \o <<Drain>>) \o rest = s \o (<<skipFields>> \o r1)
  <2>1. skipActivity = s \o <<skipFields, Skip("word")>>
    BY <1>3 DEF skipActivity
  <2>2. s \in Seq(Steps) /\ <<skipFields, Skip("word")>> \in Seq(Steps)
            /\ <<Drain>> \in Seq(Steps)
    BY <1>3
  <2>3. <<skipFields, Skip("word")>> \o r = <<skipFields>> \o r1
    BY <1>3, <1>4
  <2> HIDE DEF s, r, r1
  <2>4. (skipActivity \o <<Drain>>) \o rest = skipActivity \o r
    BY <2>1, <2>2, ConcatAssociative, ConcatProperties DEF r
  <2>5. (s \o <<skipFields, Skip("word")>>) \o r = s \o (<<skipFields, Skip("word")>> \o r)
    BY <1>4, <2>2, ConcatAssociative
  <2>6. QED
    BY <2>1, <2>3, <2>4, <2>5, Zenon
<1>7. /\ s \in Seq(Steps) /\ t \in Seq(Tokens) /\ Len(s) = 4 /\ Len(t) = 4
      /\ s[1] = Skip("word") /\ s[2] = Skip("word") /\ s[3] = Skip("word") /\ s[4] = Skip("text")
      /\ t[1] = Word(1) /\ t[2] = Word(0) /\ t[3] = Word(0) /\ t[4] = Text("copying")
  BY <1>1, <1>2, <1>3
<1>8. fs \in Seq(Tokens) /\ Run(At(<<skipFields>> \o r1, q), fs, At(r1, q))
  BY <1>4, RunFields
<1>9. m = <<Word(stderrStartActivity)>> \o (t \o u)
  <2>1. <<Word(stderrStartActivity)>> \o t
            = <<Word(stderrStartActivity), Word(1), Word(0), Word(0), Text("copying")>>
    BY TupleConsFive
  <2>2. <<Word(stderrStartActivity)>> \in Seq(Tokens) /\ <<Word(0)>> \in Seq(Tokens)
    BY <1>1
  <2> HIDE DEF t
  <2>3. m = ((<<Word(stderrStartActivity)>> \o t) \o fs) \o <<Word(0)>>
    BY <2>1
  <2> HIDE DEF m
  <2>4. m = <<Word(stderrStartActivity)>> \o (t \o (fs \o <<Word(0)>>))
    BY <1>7, <1>8, <2>2, <2>3
  <2>5. QED
    BY <2>4
<1>10. u \in Seq(Tokens) /\ t \o u \in Seq(Tokens)
  BY <1>1, <1>7, <1>8
<1> HIDE DEF r, r1, s, t, m
<1>11. \A i \in 1 .. Len(t) : Becomes(s[i], t[i], <<>>) /\ s[i] # ReadPath
  BY <1>7, BecomesPlain, NotPath
<1>12. Run(At(r1, q), <<Word(0)>>, At(r, q))
  <2>1. Run(At(r, q), <<>>, At(r, q))
    BY RunNothing
  <2>2. Run(At(r1, q), <<Word(0)>> \o <<>>, At(r, q))
    BY <1>1, <1>4, <2>1, RunSkip, BecomesPlain, <<>> \in Seq(Tokens) DEF r1
  <2>3. QED
    BY <2>2, TupleCons, Zenon
<1>13. Run(At(<<skipFields>> \o r1, q), u, At(r, q))
  BY <1>1, <1>8, <1>12, RunJoin, <<Word(0)>> \in Seq(Tokens)
<1> HIDE DEF u
<1>14. Run(At(s \o (<<skipFields>> \o r1), q), t \o u, At(r, q))
  BY <1>4, <1>7, <1>10, <1>11, <1>13, RunChunk
<1>15. Run(At(<<Drain>> \o rest, q), <<Word(stderrStartActivity)>> \o (t \o u), At(r, q))
  BY <1>1, <1>5, <1>6, <1>10, <1>14, AfterMarkers, RunMarker
<1>16. QED
  BY <1>9, <1>15, Zenon DEF r

\* Any log message does.
LEMMA LogRuns ==
    ASSUME NEW m \in LogMessages
    PROVE  m \in Seq(Tokens) /\ Logged(m)

<1>1. \A n \in Nat : Word(n) \in Tokens
  BY TokenTypes
<1>2. /\ Word(stderrNext) \in Tokens /\ Word(stderrStopActivity) \in Tokens
      /\ Word(stderrResult) \in Tokens /\ Word(stderrStartActivity) \in Tokens
  BY <1>1, AfterMarkers DEF Markers
<1>3. Text("line") \in Tokens /\ Text("copying") \in Tokens
  BY TokenTypes DEF Literals
<1>4. \A fs \in Fields : fs \in Seq(Tokens)
  BY RunFields, <<>> \in Seq(Steps)
<1>5. CASE m = <<Word(stderrNext), Text("line")>>
  BY <1>2, <1>3, <1>5, LineLogged
<1>6. CASE m = <<Word(stderrStopActivity), Word(1)>>
  BY <1>1, <1>2, <1>6, StopLogged
<1>7. ASSUME NEW fs \in Fields, m = <<Word(stderrResult), Word(1), Word(0)>> \o fs
      PROVE  m \in Seq(Tokens) /\ Logged(m)
  <2>1. <<Word(stderrResult), Word(1), Word(0)>> \in Seq(Tokens)
    BY <1>1, <1>2
  <2>2. m \in Seq(Tokens)
    BY <1>4, <1>7, <2>1, ConcatProperties
  <2>3. QED
    BY <1>7, <2>2, ResultLogged
<1>8. ASSUME NEW fs \in Fields,
             m = <<Word(stderrStartActivity), Word(1), Word(0), Word(0), Text("copying")>>
                     \o fs \o <<Word(0)>>
      PROVE  m \in Seq(Tokens) /\ Logged(m)
  <2> DEFINE t == <<Word(stderrStartActivity), Word(1), Word(0), Word(0), Text("copying")>>
  <2>1. t \in Seq(Tokens) /\ <<Word(0)>> \in Seq(Tokens)
    BY <1>1, <1>2, <1>3
  <2> HIDE DEF t
  <2>2. t \o fs \o <<Word(0)>> \in Seq(Tokens)
    BY <1>4, <2>1, ConcatProperties
  <2>3. QED
    BY <1>8, <2>2, StartLogged DEF t
<1>9. QED
  BY <1>5, <1>6, <1>7, <1>8 DEF LogMessages

-----------------------------------------------------------------------------
\* The lists of strings that are sent.
LEMMA StringsIs ==
    /\ Strings(<<>>) = <<Word(0)>>
    /\ \A x : Strings(<<x>>) = <<Word(1), Text(x)>>
    /\ \A ss \in Seq(Values) : /\ Strings(ss) = <<Word(Len(ss))>>
                                                \o [i \in 1 .. Len(ss) |-> Text(ss[i])]
                               /\ [i \in 1 .. Len(ss) |-> Text(ss[i])] \in Seq(Tokens)
                               /\ Strings(ss) \in Seq(Tokens)
<1>1. Strings(<<>>) = <<Word(0)>>
  <2>1. [i \in DOMAIN <<>> |-> Text(<<>>[i])] = <<>> /\ Len(<<>>) = 0
    OBVIOUS
  <2>2. QED
    BY <2>1, TupleCons DEF Strings
<1>2. ASSUME NEW x PROVE Strings(<<x>>) = <<Word(1), Text(x)>>
  <2>1. [i \in DOMAIN <<x>> |-> Text(<<x>>[i])] = <<Text(x)>> /\ Len(<<x>>) = 1
    OBVIOUS
  <2>2. QED
    BY <2>1, TupleCons, Zenon DEF Strings
<1>3. ASSUME NEW ss \in Seq(Values)
      PROVE  /\ Strings(ss) = <<Word(Len(ss))>> \o [i \in 1 .. Len(ss) |-> Text(ss[i])]
             /\ [i \in 1 .. Len(ss) |-> Text(ss[i])] \in Seq(Tokens)
             /\ Strings(ss) \in Seq(Tokens)
  <2> DEFINE t == [i \in 1 .. Len(ss) |-> Text(ss[i])]
  <2>1. DOMAIN ss = 1 .. Len(ss) /\ Len(ss) \in Nat /\ \A i \in 1 .. Len(ss) : ss[i] \in Values
    OBVIOUS
  <2>2. Strings(ss) = <<Word(Len(ss))>> \o t
    BY <2>1 DEF Strings
  <2>3. \A i \in 1 .. Len(ss) : Text(ss[i]) \in Tokens
    BY <2>1, TokenTypes
  <2>4. t \in Seq(Tokens)
    BY <2>1, <2>3, IsASeq
  <2>5. Word(Len(ss)) \in Tokens
    BY <2>1, TokenTypes
  <2> HIDE DEF t
  <2>6. <<Word(Len(ss))>> \o t \in Seq(Tokens)
    BY <2>4, <2>5
  <2>7. QED
    BY <2>2, <2>4, <2>6 DEF t
<1>4. QED
  BY <1>1, <1>2, <1>3

\* A list of features is read whatever it holds.
LEMMA RunFeatures ==
    ASSUME NEW ss \in Seq(Values), NEW rest \in Seq(Steps), NEW q
    PROVE  Run(At(<<Repeat(<<Feature>>)>> \o rest, q), Strings(ss), At(rest, q))
<1> DEFINE n == Len(ss)
           s == [i \in 1 .. n |-> Feature]
           t == [i \in 1 .. n |-> Text(ss[i])]
<1>1. n \in Nat /\ Feature \in Steps /\ <<Feature>> \in Seq(Plain) /\ Word(n) \in Tokens
  BY StepTypes, TokenTypes
<1>2. Strings(ss) = <<Word(n)>> \o t /\ t \in Seq(Tokens)
  BY StringsIs
<1>3. s \in Seq(Steps) /\ Len(s) = n /\ Len(t) = n
  BY <1>1
<1>4. \A i \in 1 .. n : s[i] = Feature /\ t[i] = Text(ss[i])
  OBVIOUS
<1>5. Copies(s, <<Feature>>, n)
  BY <1>1, CopiesOfStep
<1> HIDE DEF n, s, t
<1>6. Becomes(Repeat(<<Feature>>), Word(n), s)
  BY <1>1, <1>5, BecomesCopies
<1>7. \A i \in 1 .. Len(t) : Becomes(s[i], t[i], <<>>) /\ s[i] # ReadPath
  BY <1>3, <1>4, BecomesPlain, NotPath
<1>8. Run(At(s \o rest, q), t, At(rest, q))
  BY <1>2, <1>3, <1>7, RunPlain
<1>9. Repeat(<<Feature>>) \in Steps /\ Repeat(<<Feature>>) # ReadPath
  BY <1>1, StepTypes, NotPath
<1>10. Run(At(<<Repeat(<<Feature>>)>> \o rest, q), <<Word(n)>> \o t, At(rest, q))
  BY <1>1, <1>2, <1>3, <1>6, <1>8, <1>9, RunStep
<1>11. QED
  BY <1>2, <1>10

\* Strings that are skipped: none, or one.
LEMMA RunStrings ==
    ASSUME NEW rest \in Seq(Steps), NEW q, NEW c, NEW t \in Seq(Tokens), Run(At(rest, q), t, c)
    PROVE  /\ Run(At(<<SkipStrings>> \o rest, q), <<Word(0)>> \o t, c)
           /\ \A x \in Values : Run(At(<<SkipStrings>> \o rest, q), <<Word(1), Text(x)>> \o t, c)
<1>1. <<Skip("text")>> \in Seq(Plain) /\ <<Skip("text")>> \in Seq(Steps) /\ <<>> \in Seq(Steps)
  BY StepTypes
<1>2. SkipStrings \in Steps /\ SkipStrings # ReadPath
  BY <1>1, StepTypes, NotPath DEF SkipStrings
<1>3. Word(0) \in Tokens /\ Word(1) \in Tokens
  BY TokenTypes
<1>4. Becomes(SkipStrings, Word(0), <<>>) /\ Becomes(SkipStrings, Word(1), <<Skip("text")>>)
  BY <1>1, CopiesSmall, BecomesCopies DEF SkipStrings
<1>5. Run(At(<<SkipStrings>> \o rest, q), <<Word(0)>> \o t, c)
  <2>1. <<>> \o rest = rest
    OBVIOUS
  <2>2. QED
    BY <1>1, <1>2, <1>3, <1>4, <2>1, RunStep
<1>6. ASSUME NEW x \in Values
      PROVE  Run(At(<<SkipStrings>> \o rest, q), <<Word(1), Text(x)>> \o t, c)
  <2>1. Text(x) \in Tokens /\ <<Text(x)>> \o t \in Seq(Tokens)
    BY TokenTypes
  <2>2. <<Word(1), Text(x)>> \o t = <<Word(1)>> \o (<<Text(x)>> \o t)
    BY <1>3, <2>1
  <2>3. Run(At(<<Skip("text")>> \o rest, q), <<Text(x)>> \o t, c)
    BY <2>1, BecomesPlain, RunSkip
  <2>4. Run(At(<<SkipStrings>> \o rest, q), <<Word(1)>> \o (<<Text(x)>> \o t), c)
    BY <1>1, <1>2, <1>3, <1>4, <2>1, <2>3, RunStep
  <2>5. QED
    BY <2>2, <2>4
<1>7. QED
  BY <1>5, <1>6

-----------------------------------------------------------------------------
\* The stages of a connection: what is left to do when the client has to hear from the
\* daemon, or has something to say.
Rest == <<Operate, Return>>
Stubbing == postHandshake \o Rest
Exchanging == exchangeFeatures \o Stubbing
Greeting == <<Expect(Word(workerMagic2)), Version>> \o Stubbing
Listing == <<Repeat(<<Feature>>)>> \o Stubbing
Stubbed == <<Skip("text"), Skip("word"), Drain>> \o Rest
Result(r) ==
    IF r.op = "submit" THEN <<Skip("word"), Return>> ELSE readValidPathInfoPath \o <<Return>>
Answering(r) == <<Drain>> \o Result(r)

\* The stages of a call are lists of steps.
LEMMA StageTypes ==
    /\ Rest \in Seq(Steps) /\ Stubbing \in Seq(Steps) /\ Exchanging \in Seq(Steps)
    /\ Greeting \in Seq(Steps) /\ Listing \in Seq(Steps) /\ Stubbed \in Seq(Steps)
    /\ \A r : Result(r) \in Seq(Steps) /\ Answering(r) \in Seq(Steps)
    /\ \A v : AfterVersion(v) \in Seq(Steps)
    /\ postHandshake \in Seq(Steps) /\ exchangeFeatures \in Seq(Steps)
    /\ readValidPathInfoPath \in Seq(Steps)
<1>1. /\ Skip("word") \in Steps /\ Skip("text") \in Steps /\ Drain \in Steps /\ Return \in Steps
      /\ Operate \in Steps /\ Raise \in Steps /\ Flush \in Steps /\ Version \in Steps
      /\ ReadPath \in Steps
  BY StepTypes
<1>2. <<Word(0)>> \in Seq(Tokens) /\ Word(workerMagic2) \in Tokens
  BY TokenTypes DEF workerMagic2
<1>3. Write(<<Word(0)>>) \in Steps /\ Expect(Word(workerMagic2)) \in Steps
  BY <1>2, StepTypes
<1>4. Strings(ourFeatures) \in Seq(Tokens)
  <2>1. ourFeatures \in Seq(Values)
    <3>1. Scanning \in Values /\ Submitting \in Values
      BY TokenTypes DEF Literals
    <3>2. QED
      BY <3>1 DEF ourFeatures
  <2>2. QED
    BY <2>1, StringsIs
<1>5. Write(Strings(ourFeatures)) \in Steps
  BY <1>4, StepTypes
<1>6. Repeat(<<Feature>>) \in Steps /\ SkipStrings \in Steps
  <2>1. <<Feature>> \in Seq(Plain) /\ <<Skip("text")>> \in Seq(Plain)
    BY StepTypes
  <2>2. QED
    BY <2>1, StepTypes DEF SkipStrings
<1>7. Rest \in Seq(Steps)
  BY <1>1 DEF Rest
<1>8. postHandshake \in Seq(Steps)
  BY <1>1, <1>3 DEF postHandshake
<1>9. exchangeFeatures \in Seq(Steps)
  BY <1>1, <1>5, <1>6 DEF exchangeFeatures
<1>10. readValidPathInfoPath \in Seq(Steps)
  BY <1>1, <1>6 DEF readValidPathInfoPath
<1>11. Stubbing \in Seq(Steps)
  BY <1>7, <1>8 DEF Stubbing
<1>12. Exchanging \in Seq(Steps)
  BY <1>9, <1>11 DEF Exchanging
<1>13. Greeting \in Seq(Steps) /\ Listing \in Seq(Steps) /\ Stubbed \in Seq(Steps)
  BY <1>1, <1>3, <1>6, <1>7, <1>11 DEF Greeting, Listing, Stubbed
<1>14. ASSUME NEW r PROVE Result(r) \in Seq(Steps) /\ Answering(r) \in Seq(Steps)
  <2>1. Result(r) \in Seq(Steps)
    BY <1>1, <1>10 DEF Result
  <2>2. QED
    BY <1>1, <2>1 DEF Answering
<1>15. ASSUME NEW v PROVE AfterVersion(v) \in Seq(Steps)
  BY <1>1, <1>9 DEF AfterVersion
<1>16. QED
  BY <1>7, <1>8, <1>9, <1>10, <1>11, <1>12, <1>13, <1>14, <1>15

\* The daemon's answers, one after the other.
LEMMA RunHello ==
    ASSUME NEW v \in Nat, NEW q
    PROVE  Run(At(Greeting, q), <<Word(workerMagic2), Word(v)>>,
               At(AfterVersion(v) \o Stubbing, q))
<1>1. Word(workerMagic2) \in Tokens /\ Word(v) \in Tokens
  BY TokenTypes DEF workerMagic2
<1>2. /\ Expect(Word(workerMagic2)) \in Steps /\ Version \in Steps
      /\ Expect(Word(workerMagic2)) # ReadPath /\ Version # ReadPath
  BY <1>1, StepTypes, NotPath
<1> DEFINE r == <<Version>> \o Stubbing
<1>3. r \in Seq(Steps) /\ Greeting = <<Expect(Word(workerMagic2))>> \o r /\ <<>> \o r = r
  BY <1>2, StageTypes DEF Greeting
<1>4. Becomes(Version, Word(v), AfterVersion(v))
  BY DEF Becomes, Word
<1> HIDE DEF r
<1>5. Run(At(AfterVersion(v) \o Stubbing, q), <<>>, At(AfterVersion(v) \o Stubbing, q))
  BY RunNothing
<1>6. Run(At(<<Version>> \o Stubbing, q), <<Word(v)>> \o <<>>,
          At(AfterVersion(v) \o Stubbing, q))
  BY <1>1, <1>2, <1>4, <1>5, StageTypes, RunStep, <<>> \in Seq(Tokens)
<1>7. Run(At(r, q), <<Word(v)>>, At(AfterVersion(v) \o Stubbing, q))
  BY <1>6, TupleCons, Zenon DEF r
<1>8. Run(At(Greeting, q), <<Word(workerMagic2)>> \o <<Word(v)>>,
          At(AfterVersion(v) \o Stubbing, q))
  BY <1>1, <1>2, <1>3, <1>7, BecomesPlain, RunStep, <<>> \in Seq(Steps),
      <<Word(v)>> \in Seq(Tokens)
<1>9. QED
  BY <1>8, TupleCons, Zenon

\* The daemon's version string and trust level are what the client skips.
LEMMA RunStubs ==
    ASSUME NEW q
    PROVE  Run(At(Stubbed, q), <<Text("2.32"), Word(1)>>, At(<<Drain>> \o Rest, q))
<1> DEFINE s == <<Skip("text"), Skip("word")>>
           t == <<Text("2.32"), Word(1)>>
<1>1. Skip("text") \in Steps /\ Skip("word") \in Steps /\ Drain \in Steps
  BY StepTypes
<1>2. Text("2.32") \in Tokens /\ Word(1) \in Tokens
  BY TokenTypes DEF Literals
<1>3. /\ s \in Seq(Steps) /\ t \in Seq(Tokens) /\ Len(s) = 2 /\ Len(t) = 2
      /\ s[1] = Skip("text") /\ s[2] = Skip("word") /\ t[1] = Text("2.32") /\ t[2] = Word(1)
  BY <1>1, <1>2
<1>4. Stubbed = s \o (<<Drain>> \o Rest) /\ <<Drain>> \o Rest \in Seq(Steps)
  BY <1>1, StageTypes DEF Stubbed
<1> HIDE DEF s, t
<1>5. \A i \in 1 .. Len(t) : Becomes(s[i], t[i], <<>>) /\ s[i] # ReadPath
  BY <1>3, BecomesPlain, NotPath
<1>6. Run(At(s \o (<<Drain>> \o Rest), q), t, At(<<Drain>> \o Rest, q))
  BY <1>3, <1>4, <1>5, RunPlain
<1>7. QED
  BY <1>4, <1>6 DEF t

\* stderrLast ends a drain.
LEMMA RunLast ==
    ASSUME NEW rest \in Seq(Steps), NEW q, NEW t \in Seq(Tokens), NEW c, Run(At(rest, q), t, c)
    PROVE  Run(At(<<Drain>> \o rest, q), <<Word(stderrLast)>> \o t, c)
<1>1. afterMarker(stderrLast) \in Seq(Steps) /\ afterMarker(stderrLast) \o rest = rest
  BY AfterMarkers
<1>2. stderrLast \in Markers
  BY DEF Markers
<1>3. QED
  BY <1>1, <1>2, RunMarker

\* The information of a store object, of which the client keeps the path.
Informed(p, x) ==
    <<Text(p), Text(x), Text("hash")>> \o Strings(<<>>) \o <<Word(0), Word(0), Word(0)>>
        \o Strings(<<"sig">>) \o <<Text("ca")>>

\* The reply about a path in its parts, whatever word stands for the deriver.
LEMMA InformedIs ==
    ASSUME NEW p \in Values, NEW x \in Values
    PROVE  /\ Informed(p, x) = <<Text(p)>> \o (<<Text(x), Text("hash")>> \o (<<Word(0)>> \o
                        (<<Word(0), Word(0), Word(0)>>
                            \o (<<Word(1), Text("sig")>> \o <<Text("ca")>>))))
           /\ Informed(p, x) \in Seq(Tokens)
<1> DEFINE a == <<Text(p)>>
           b == <<Text(x), Text("hash")>>
           c == <<Word(0)>>
           d == <<Word(0), Word(0), Word(0)>>
           e == <<Word(1), Text("sig")>>
           f == <<Text("ca")>>
           ab == <<Text(p), Text(x), Text("hash")>>
<1>1. /\ Text(p) \in Tokens /\ Text(x) \in Tokens /\ Text("hash") \in Tokens
      /\ Text("sig") \in Tokens /\ Text("ca") \in Tokens
      /\ Word(0) \in Tokens /\ Word(1) \in Tokens
  <2>1. \A y \in Literals : Text(y) \in Tokens
    BY TokenTypes
  <2>2. "hash" \in Literals /\ "sig" \in Literals /\ "ca" \in Literals
    BY DEF Literals
  <2>3. QED
    BY <2>1, <2>2, TokenTypes
<1>2. /\ a \in Seq(Tokens) /\ b \in Seq(Tokens) /\ c \in Seq(Tokens) /\ d \in Seq(Tokens)
      /\ e \in Seq(Tokens) /\ f \in Seq(Tokens)
  BY <1>1
<1>3. ab = a \o b
  BY TupleCons, Zenon
<1>4. Informed(p, x) = (((ab \o c) \o d) \o e) \o f
  BY StringsIs DEF Informed
<1> HIDE DEF a, b, c, d, e, f, ab
<1>5. Informed(p, x) = ((((a \o b) \o c) \o d) \o e) \o f
  BY <1>3, <1>4, Zenon
<1>6. Informed(p, x) = a \o (b \o (c \o (d \o (e \o f)))) /\ Informed(p, x) \in Seq(Tokens)
  <2>1. ((((a \o b) \o c) \o d) \o e) \o f = a \o (b \o (c \o (d \o (e \o f))))
    <3> DEFINE ef == e \o f
               def == d \o ef
               abc == (a \o b) \o c
    <3>1. a \in Seq(Tokens) /\ b \in Seq(Tokens) /\ c \in Seq(Tokens)
      BY <1>2
    <3>2. d \in Seq(Tokens) /\ e \in Seq(Tokens) /\ f \in Seq(Tokens)
      BY <1>2
    <3>3. abc \in Seq(Tokens)
      BY <3>1
    <3>4. ef \in Seq(Tokens) /\ def \in Seq(Tokens)
      BY <3>2
    <3> HIDE DEF ef, def, abc
    <3>5. ((abc \o d) \o e) \o f = abc \o (d \o (e \o f))
      BY <3>2, <3>3
    <3>6. ((a \o b) \o c) \o def = a \o (b \o (c \o def))
      BY <3>1, <3>4
    <3>7. QED
      BY <3>5, <3>6, Zenon DEF ef, def, abc
  <2>2. a \o (b \o (c \o (d \o (e \o f)))) \in Seq(Tokens)
    BY <1>2
  <2>3. QED
    BY <1>5, <2>1, <2>2
<1>7. QED
  BY <1>6, Zenon DEF a, b, c, d, e, f

\* readValidPathInfoPath reads such a reply to its end and keeps the path.
LEMMA RunInformed ==
    ASSUME NEW p \in Values, NEW x \in Values, NEW rest \in Seq(Steps), NEW q
    PROVE  Run(At(readValidPathInfoPath \o rest, q), Informed(p, x), At(rest, p))
<1> DEFINE r1 == <<Skip("text")>> \o rest
           r2 == <<SkipStrings>> \o r1
           r3 == <<Skip("word"), Skip("word"), Skip("word")>> \o r2
           r4 == <<SkipStrings>> \o r3
           r5 == <<Skip("text"), Skip("text")>> \o r4
           t1 == <<Text("ca")>>
           t2 == <<Word(1), Text("sig")>> \o t1
           t3 == <<Word(0), Word(0), Word(0)>> \o t2
           t4 == <<Word(0)>> \o t3
           t5 == <<Text(x), Text("hash")>> \o t4
<1>1. Skip("word") \in Steps /\ Skip("text") \in Steps /\ ReadPath \in Steps
  BY StepTypes
<1>2. SkipStrings \in Steps
  <2>1. <<Skip("text")>> \in Seq(Plain)
    BY StepTypes
  <2>2. QED
    BY <2>1, StepTypes DEF SkipStrings
<1>3. /\ Text(p) \in Tokens /\ Text(x) \in Tokens /\ Text("hash") \in Tokens
      /\ Text("sig") \in Tokens /\ Text("ca") \in Tokens
      /\ Word(0) \in Tokens /\ Word(1) \in Tokens
  <2>1. \A y \in Literals : Text(y) \in Tokens
    BY TokenTypes
  <2>2. "hash" \in Literals /\ "sig" \in Literals /\ "ca" \in Literals
    BY DEF Literals
  <2>3. QED
    BY <2>1, <2>2, TokenTypes
<1>4. /\ r1 \in Seq(Steps) /\ r2 \in Seq(Steps) /\ r3 \in Seq(Steps) /\ r4 \in Seq(Steps)
      /\ r5 \in Seq(Steps)
  BY <1>1, <1>2
<1>5. /\ t1 \in Seq(Tokens) /\ t2 \in Seq(Tokens) /\ t3 \in Seq(Tokens) /\ t4 \in Seq(Tokens)
      /\ t5 \in Seq(Tokens)
  BY <1>3
<1>6. readValidPathInfoPath \o rest = <<ReadPath>> \o r5
  <2> DEFINE v1 == <<Skip("text"), Skip("text"), SkipStrings, Skip("word"), Skip("word"),
                     Skip("word"), SkipStrings, Skip("text")>>
             v2 == <<SkipStrings, Skip("word"), Skip("word"), Skip("word"), SkipStrings,
                     Skip("text")>>
             v3 == <<Skip("word"), Skip("word"), Skip("word"), SkipStrings, Skip("text")>>
             v4 == <<SkipStrings, Skip("text")>>
  <2>1. readValidPathInfoPath \o rest = <<ReadPath>> \o (v1 \o rest)
    <3> DEFINE u == readValidPathInfoPath
    <3>1. u # <<>> /\ Head(u) = ReadPath /\ Tail(u) = v1
      BY <1>1, <1>2 DEF readValidPathInfoPath
    <3> HIDE DEF v1
    <3>2. QED
      BY <3>1, StageTypes, Uncons
  <2>2. v1 \o rest = <<Skip("text"), Skip("text")>> \o (v2 \o rest)
    <3>1. v1 \in Seq(Steps) /\ v1 # <<>> /\ Head(v1) = Skip("text")
      BY <1>1, <1>2
    <3>2. Tail(v1) \in Seq(Steps) /\ Tail(v1) # <<>> /\ Head(Tail(v1)) = Skip("text")
      BY <1>1, <1>2
    <3>3. Tail(Tail(v1)) = v2 /\ v2 \in Seq(Steps)
      BY <1>1, <1>2
    <3> HIDE DEF v1, v2
    <3>4. v1 \o rest = <<Skip("text")>> \o (Tail(v1) \o rest)
      BY <3>1, Uncons
    <3>5. Tail(v1) \o rest = <<Skip("text")>> \o (v2 \o rest)
      BY <3>2, <3>3, Uncons
    <3>6. <<Skip("text")>> \o (<<Skip("text")>> \o (v2 \o rest))
              = <<Skip("text"), Skip("text")>> \o (v2 \o rest)
      BY <1>1, <3>3
    <3>7. QED
      BY <3>4, <3>5, <3>6, Zenon
  <2>3. v2 \o rest = <<SkipStrings>> \o (v3 \o rest)
    BY <1>1, <1>2
  <2>4. v3 \o rest = <<Skip("word"), Skip("word"), Skip("word")>> \o (v4 \o rest)
    BY <1>1, <1>2
  <2>5. v4 \o rest = r2
    BY <1>1, <1>2
  <2> HIDE DEF v1, v2, v3, v4, r2
  <2>6. QED
    BY <2>1, <2>2, <2>3, <2>4, <2>5, Zenon
<1>7. Informed(p, x) = <<Text(p)>> \o t5
  BY InformedIs
<1> HIDE DEF r1, r2, r3, r4, r5, t1, t2, t3, t4, t5
<1>8. Run(At(r1, p), t1, At(rest, p))
  <2>1. Run(At(rest, p), <<>>, At(rest, p))
    BY RunNothing
  <2>2. Run(At(r1, p), <<Text("ca")>> \o <<>>, At(rest, p))
    BY <1>3, <2>1, RunSkip, BecomesPlain, <<>> \in Seq(Tokens) DEF r1
  <2>3. QED
    BY <2>2, TupleCons, Zenon DEF t1
<1>9. Run(At(r2, p), t2, At(rest, p))
  <2>1. "sig" \in Values
    BY TokenTypes DEF Literals
  <2>2. QED
    BY <1>4, <1>5, <1>8, <2>1, RunStrings DEF r2, t2
<1>10. Run(At(r3, p), t3, At(rest, p))
  <2> DEFINE s == <<Skip("word"), Skip("word"), Skip("word")>>
             u == <<Word(0), Word(0), Word(0)>>
  <2>1. s \in Seq(Steps) /\ u \in Seq(Tokens) /\ Len(s) = 3 /\ Len(u) = 3
    BY <1>1, <1>3
  <2>2. \A i \in 1 .. 3 : s[i] = Skip("word") /\ u[i] = Word(0)
    OBVIOUS
  <2> HIDE DEF s, u
  <2>3. \A i \in 1 .. Len(u) : Becomes(s[i], u[i], <<>>) /\ s[i] # ReadPath
    BY <2>1, <2>2, BecomesPlain, NotPath
  <2>4. Run(At(s \o r2, p), u \o t2, At(rest, p))
    BY <1>4, <1>5, <1>9, <2>1, <2>3, RunChunk
  <2>5. QED
    BY <2>4 DEF s, u, r3, t3
<1>11. Run(At(r4, p), t4, At(rest, p))
  BY <1>4, <1>5, <1>10, RunStrings DEF r4, t4
<1>12. Run(At(r5, p), t5, At(rest, p))
  <2> DEFINE s == <<Skip("text"), Skip("text")>>
             u == <<Text(x), Text("hash")>>
  <2>1. s \in Seq(Steps) /\ u \in Seq(Tokens) /\ Len(s) = 2 /\ Len(u) = 2
    BY <1>1, <1>3
  <2>2. s[1] = Skip("text") /\ s[2] = Skip("text") /\ u[1] = Text(x) /\ u[2] = Text("hash")
    OBVIOUS
  <2> HIDE DEF s, u
  <2>3. \A i \in 1 .. Len(u) : Becomes(s[i], u[i], <<>>) /\ s[i] # ReadPath
    BY <2>1, <2>2, BecomesPlain, NotPath
  <2>4. Run(At(s \o r4, p), u \o t4, At(rest, p))
    BY <1>4, <1>5, <1>11, <2>1, <2>3, RunChunk
  <2>5. QED
    BY <2>4 DEF s, u, r5, t5
<1>13. Reads(At(<<ReadPath>> \o r5, q), Text(p), At(r5, p))
  BY <1>4, ReadsPath
<1>14. Run(At(<<ReadPath>> \o r5, q), <<Text(p)>> \o t5, At(rest, p))
  BY <1>3, <1>5, <1>12, <1>13, RunCons
<1>15. QED
  BY <1>6, <1>7, <1>14

\* So it does for the reply the daemon sends.
LEMMA RunInfo ==
    ASSUME NEW p \in Values, NEW rest \in Seq(Steps), NEW q
    PROVE  /\ Info(p) \in Seq(Tokens)
           /\ Run(At(readValidPathInfoPath \o rest, q), Info(p), At(rest, p))
<1>1. Info(p) = Informed(p, Blank)
  BY Zenon DEF Info, Informed, Blank
<1>2. QED
  BY <1>1, TokenTypes, InformedIs, RunInformed

\* The answer to a request leads a client to its return, with the path it asked for.
Answered(r) ==
    <<Word(stderrLast)>> \o (IF r.op = "submit" THEN <<Word(1)>> ELSE Info(PathOf(r)))

\* A reply is read to its end, and what is left is to return its path.
LEMMA RunReply ==
    ASSUME NEW r \in Requests
    PROVE  /\ Answered(r) \in Seq(Tokens)
           /\ Run(At(Answering(r), NoPath), Answered(r), At(<<Return>>, PathOf(r)))
<1>1. Word(stderrLast) \in Tokens /\ Word(1) \in Tokens
  BY TokenTypes DEF stderrLast
<1>2. <<Return>> \in Seq(Steps) /\ Skip("word") \in Steps
  BY StepTypes
<1>3. CASE r.op = "submit"
  <2>1. PathOf(r) = NoPath
    BY <1>3, RequestsAssumption
  <2>2. Result(r) = <<Skip("word"), Return>> /\ Answered(r) = <<Word(stderrLast)>> \o <<Word(1)>>
    BY <1>3 DEF Result, Answered
  <2>3. Run(At(<<Return>>, NoPath), <<>>, At(<<Return>>, NoPath))
    BY RunNothing
  <2>4. Run(At(<<Skip("word")>> \o <<Return>>, NoPath), <<Word(1)>> \o <<>>,
            At(<<Return>>, NoPath))
    BY <1>1, <1>2, <2>3, BecomesPlain, RunSkip, <<>> \in Seq(Tokens)
  <2>5. <<Word(1)>> \in Seq(Tokens)
    BY <1>1
  <2>6. Run(At(Result(r), NoPath), <<Word(1)>>, At(<<Return>>, NoPath))
    BY <2>2, <2>4, TupleCons, Zenon
  <2>7. Run(At(Answering(r), NoPath), Answered(r), At(<<Return>>, NoPath))
    BY <2>2, <2>5, <2>6, StageTypes, RunLast DEF Answering
  <2>8. Answered(r) \in Seq(Tokens)
    BY <1>1, <2>2
  <2>9. QED
    BY <2>1, <2>7, <2>8
<1>4. CASE r.op # "submit"
  <2>1. /\ Result(r) = readValidPathInfoPath \o <<Return>>
        /\ Answered(r) = <<Word(stderrLast)>> \o Info(PathOf(r))
    BY <1>4 DEF Result, Answered
  <2>2. PathOf(r) \in Values
    BY TokenTypes
  <2>3. /\ Info(PathOf(r)) \in Seq(Tokens)
        /\ Run(At(Result(r), NoPath), Info(PathOf(r)), At(<<Return>>, PathOf(r)))
    BY <1>2, <2>1, <2>2, RunInfo
  <2>4. Run(At(Answering(r), NoPath), Answered(r), At(<<Return>>, PathOf(r)))
    BY <2>1, <2>3, StageTypes, RunLast DEF Answering
  <2>5. QED
    BY <1>1, <2>1, <2>3, <2>4
<1>5. QED
  BY <1>3, <1>4

\* A refusal leads a client that drains to its error.
Refusal(t) ==
    <<Word(stderrError), Text("Error"), Word(0), Text("name"), Text("refused"), Word(0)>> \o t

\* A refusal's traces are read to their end.
LEMMA RunTrace ==
    ASSUME NEW t \in Traces, NEW rest \in Seq(Steps), NEW q
    PROVE  /\ t \in Seq(Tokens)
           /\ Repeat(<<Expect(Word(0)), Skip("text")>>) \in Steps
           /\ Run(At(<<Repeat(<<Expect(Word(0)), Skip("text")>>)>> \o rest, q), t, At(rest, q))
<1> DEFINE item == <<Expect(Word(0)), Skip("text")>>
           w == Text("while adding")
<1>1. /\ Word(0) \in Tokens /\ Word(1) \in Tokens /\ w \in Tokens
      /\ Becomes(Skip("text"), w, <<>>)
  <2>1. "while adding" \in Values
    BY TokenTypes DEF Literals
  <2>2. QED
    BY <2>1, TokenTypes, BecomesPlain, Zenon
<1> HIDE DEF w
<1>2. /\ Expect(Word(0)) \in Plain /\ Expect(Word(0)) \in Steps /\ Expect(Word(0)) # ReadPath
      /\ Skip("text") \in Plain /\ Skip("text") \in Steps
  BY <1>1, StepTypes, NotPath
<1>3. item \in Seq(Plain) /\ item \in Seq(Steps)
          /\ item = <<Expect(Word(0))>> \o <<Skip("text")>>
  BY <1>2, TupleCons
<1>4. item \o rest = <<Expect(Word(0))>> \o (<<Skip("text")>> \o rest)
  BY <1>2
<1> HIDE DEF item
<1>5. Repeat(item) \in Steps /\ Repeat(item) # ReadPath
  BY <1>3, StepTypes, NotPath
<1>6. Becomes(Repeat(item), Word(0), <<>>) /\ Becomes(Repeat(item), Word(1), item)
  BY <1>3, CopiesSmall, BecomesCopies
<1>7. Run(At(rest, q), <<>>, At(rest, q))
  BY RunNothing
<1>8. CASE t = <<Word(0)>>
  <2>1. <<>> \o rest = rest
    OBVIOUS
  <2>2. Run(At(<<Repeat(item)>> \o rest, q), <<Word(0)>> \o <<>>, At(rest, q))
    BY <1>1, <1>5, <1>6, <1>7, <2>1, RunStep, <<>> \in Seq(Tokens), <<>> \in Seq(Steps)
  <2>3. t \in Seq(Tokens)
    BY <1>1, <1>8
  <2>4. t = <<Word(0)>> \o <<>>
    BY <1>8, TupleCons, Zenon
  <2>5. QED
    BY <1>5, <2>2, <2>3, <2>4, Zenon DEF item
<1>9. CASE t = <<Word(1), Word(0), w>>
  <2>1. Run(At(<<Skip("text")>> \o rest, q), <<w>> \o <<>>, At(rest, q))
    BY <1>1, <1>7, RunSkip, <<>> \in Seq(Tokens)
  <2>2. Run(At(<<Skip("text")>> \o rest, q), <<w>>, At(rest, q))
    BY <2>1, TupleCons, Zenon
  <2> DEFINE r == <<Skip("text")>> \o rest
  <2>3. r \in Seq(Steps) /\ <<>> \o r = r /\ <<w>> \in Seq(Tokens)
    BY <1>1, <1>2
  <2>4. Run(At(r, q), <<w>>, At(rest, q))
    BY <2>2
  <2> HIDE DEF r
  <2>5. Run(At(<<Expect(Word(0))>> \o r, q), <<Word(0)>> \o <<w>>, At(rest, q))
    BY <1>1, <1>2, <2>3, <2>4, BecomesPlain, RunStep, <<>> \in Seq(Steps)
  <2>6. Run(At(item \o rest, q), <<Word(0), w>>, At(rest, q))
    BY <1>4, <2>5, TupleCons, Zenon DEF r
  <2>7. <<Word(0), w>> \in Seq(Tokens)
    BY <1>1
  <2>8. Run(At(<<Repeat(item)>> \o rest, q), <<Word(1)>> \o <<Word(0), w>>, At(rest, q))
    BY <1>1, <1>3, <1>5, <1>6, <2>6, <2>7, RunStep
  <2>9. t \in Seq(Tokens)
    BY <1>1, <1>9
  <2>10. t = <<Word(1)>> \o <<Word(0), w>>
    BY <1>9, TupleCons, Zenon
  <2>11. QED
    BY <1>5, <2>8, <2>9, <2>10, Zenon DEF item
<1>10. QED
  BY <1>8, <1>9, Zenon DEF Traces, w

\* A refusal is read to its end, and what is left is to fail.
LEMMA RunRefusal ==
    ASSUME NEW t \in Traces, NEW rest \in Seq(Steps), NEW q
    PROVE  /\ Refusal(t) \in Seq(Tokens)
           /\ Run(At(<<Drain>> \o rest, q), Refusal(t), At(<<Raise>> \o rest, q))
<1> DEFINE item == Repeat(<<Expect(Word(0)), Skip("text")>>)
           s == <<Expect(Text("Error")), Skip("word"), Skip("text"), Skip("text"),
               Expect(Word(0))>>
           u == <<Text("Error"), Word(0), Text("name"), Text("refused"), Word(0)>>
           r == <<Raise>> \o rest
<1>1. Word(0) \in Tokens /\ Word(stderrError) \in Tokens
  BY TokenTypes DEF stderrError
<1>2. Text("Error") \in Tokens /\ Text("name") \in Tokens /\ Text("refused") \in Tokens
  BY TokenTypes DEF Literals
<1>3. /\ Skip("word") \in Steps /\ Skip("text") \in Steps /\ Raise \in Steps
      /\ Expect(Text("Error")) \in Steps /\ Expect(Word(0)) \in Steps
  BY <1>1, <1>2, StepTypes
<1>4. r \in Seq(Steps)
  BY <1>3
<1>5. t \in Seq(Tokens) /\ item \in Steps /\ Run(At(<<item>> \o r, q), t, At(r, q))
  BY <1>4, RunTrace
<1> HIDE DEF item
<1>6. readProtoError \in Seq(Steps)
  BY <1>3, <1>5 DEF readProtoError, item
<1>7. /\ s \in Seq(Steps) /\ u \in Seq(Tokens) /\ Len(s) = 5 /\ Len(u) = 5
      /\ s[1] = Expect(Text("Error")) /\ s[2] = Skip("word") /\ s[3] = Skip("text")
      /\ s[4] = Skip("text") /\ s[5] = Expect(Word(0))
      /\ u[1] = Text("Error") /\ u[2] = Word(0) /\ u[3] = Text("name")
      /\ u[4] = Text("refused") /\ u[5] = Word(0)
  BY <1>1, <1>2, <1>3
<1>8. readProtoError = s \o <<item, Raise>>
  BY <1>3, <1>5 DEF readProtoError, item
<1>9. readProtoError \o rest = s \o (<<item>> \o r)
  <2>1. <<item, Raise>> \o rest = <<item>> \o r /\ <<item, Raise>> \in Seq(Steps)
    BY <1>3, <1>5
  <2> HIDE DEF s, r
  <2>2. (s \o <<item, Raise>>) \o rest = s \o (<<item, Raise>> \o rest)
    BY <1>7, <2>1, ConcatAssociative
  <2>3. QED
    BY <1>8, <2>1, <2>2, Zenon
<1>10. Refusal(t) = <<Word(stderrError)>> \o (u \o t)
  <2> DEFINE v == <<Word(stderrError), Text("Error"), Word(0), Text("name"), Text("refused"),
                    Word(0)>>
  <2>1. v \in Seq(Tokens) /\ v # <<>> /\ Head(v) = Word(stderrError)
    BY <1>1, <1>2
  <2>2. Tail(v) = u
    OBVIOUS
  <2>3. Refusal(t) = v \o t
    BY Zenon DEF Refusal
  <2> HIDE DEF u, v
  <2>4. v \o t = <<Head(v)>> \o (Tail(v) \o t)
    BY <1>5, <2>1, Uncons
  <2>5. QED
    BY <2>1, <2>2, <2>3, <2>4
<1>11. u \o t \in Seq(Tokens)
  BY <1>5, <1>7
<1> HIDE DEF s, u, r
<1>12. \A i \in 1 .. Len(u) : Becomes(s[i], u[i], <<>>) /\ s[i] # ReadPath
  BY <1>7, BecomesPlain, NotPath
<1>13. <<item>> \o r \in Seq(Steps)
  BY <1>4, <1>5
<1>14. Run(At(s \o (<<item>> \o r), q), u \o t, At(r, q))
  BY <1>5, <1>7, <1>12, <1>13, RunChunk
<1>15. stderrError \in Markers
  BY DEF Markers
<1>16. Run(At(<<Drain>> \o rest, q), <<Word(stderrError)>> \o (u \o t), At(r, q))
  BY <1>6, <1>9, <1>11, <1>14, <1>15, AfterMarkers, RunMarker
<1>17. Refusal(t) \in Seq(Tokens)
  BY <1>1, <1>10, <1>11
<1>18. QED
  BY <1>10, <1>16, <1>17 DEF r

-----------------------------------------------------------------------------
\* A write, and a flush, before what a client writes.
LEMMA EmitsWrite ==
    ASSUME NEW s \in Seq(Steps), NEW w \in Seq(Tokens), NEW e, Emits(s, w, e),
           NEW x \in Seq(Tokens)
    PROVE  Emits(<<Write(x)>> \o s, x \o w, e)
<1>1. Emit(<<Write(x)>> \o s, x \o w, s, w)
  BY DEF Emit
<1>2. QED
  BY <1>1, EmitsCons

\* A flush says nothing of its own.
LEMMA EmitsFlush ==
    ASSUME NEW s \in Seq(Steps), NEW w \in Seq(Tokens), w # <<>>, NEW e, Emits(s, w, e)
    PROVE  Emits(<<Flush>> \o s, w, e)
<1>1. Emit(<<Flush>> \o s, w, s, w)
  BY DEF Emit
<1>2. QED
  BY <1>1, EmitsCons

\* What the client writes of its own accord: two words and a flush, and a list.
LEMMA EmitsTwo ==
    ASSUME NEW x \in Tokens, NEW y \in Tokens, NEW e \in Seq(Steps)
    PROVE  Emits(<<Write(<<x>>), Write(<<y>>), Flush>> \o e, <<x, y>>, e)
<1>1. Flush \in Steps /\ Write(<<x>>) \in Steps /\ Write(<<y>>) \in Steps
  BY StepTypes, <<x>> \in Seq(Tokens), <<y>> \in Seq(Tokens)
<1> DEFINE s1 == <<Flush>> \o e
           s2 == <<Write(<<y>>)>> \o s1
<1>2. s1 \in Seq(Steps) /\ s2 \in Seq(Steps)
  BY <1>1
<1>3. <<Write(<<x>>), Write(<<y>>), Flush>> \o e = <<Write(<<x>>)>> \o s2
  BY <1>1
<1>4. Emits(s1, <<>>, e)
  BY EmitsLast
<1> HIDE DEF s1, s2
<1>5. Emits(s2, <<y>> \o <<>>, e)
  BY <1>2, <1>4, EmitsWrite, <<y>> \in Seq(Tokens), <<>> \in Seq(Tokens) DEF s2
<1>6. Emits(s2, <<y>>, e)
  BY <1>5, TupleCons, Zenon
<1>7. Emits(<<Write(<<x>>)>> \o s2, <<x>> \o <<y>>, e)
  BY <1>2, <1>6, EmitsWrite, <<x>> \in Seq(Tokens), <<y>> \in Seq(Tokens)
<1>8. QED
  BY <1>3, <1>7, TupleCons, Zenon

\* The handshake says the magic word and the version and then listens.
LEMMA EmitsGreeting ==
    /\ handshake \o Rest \in Seq(Steps)
    /\ Emits(handshake \o Rest, <<Word(workerMagic1), Word(protoVersion)>>, Greeting)
<1> DEFINE s == <<Write(<<Word(workerMagic1)>>), Write(<<Word(protoVersion)>>), Flush>>
           h == <<Expect(Word(workerMagic2)), Version>>
           hs == <<Write(<<Word(workerMagic1)>>), Write(<<Word(protoVersion)>>), Flush,
                   Expect(Word(workerMagic2)), Version>>
<1>1. Word(workerMagic1) \in Tokens /\ Word(protoVersion) \in Tokens
          /\ Word(workerMagic2) \in Tokens
  BY TokenTypes DEF workerMagic1, workerMagic2, protoVersion, protoMajor
<1>2. <<Word(workerMagic1)>> \in Seq(Tokens) /\ <<Word(protoVersion)>> \in Seq(Tokens)
  BY <1>1
<1>3. /\ Write(<<Word(workerMagic1)>>) \in Steps /\ Write(<<Word(protoVersion)>>) \in Steps
      /\ Flush \in Steps /\ Expect(Word(workerMagic2)) \in Steps /\ Version \in Steps
  BY <1>1, <1>2, StepTypes
<1>4. s \in Seq(Steps) /\ h \in Seq(Steps)
  BY <1>3
<1>5. hs = s \o h
  BY <1>3
<1> HIDE DEF s, h
<1>6. handshake \o Rest = ((s \o h) \o postHandshake) \o Rest
  BY <1>5, Zenon DEF handshake
<1>7. ((s \o h) \o postHandshake) \o Rest = s \o (h \o Stubbing)
  <2>1. postHandshake \in Seq(Steps) /\ Rest \in Seq(Steps)
    BY StageTypes
  <2>2. QED
    <3>1. JoinedFour(s, h, postHandshake, Rest)
      BY <1>4, <2>1, JoinFour
    <3>2. QED
      BY <3>1, Zenon DEF Stubbing, JoinedFour
<1>8. Greeting = h \o Stubbing
  BY Zenon DEF Greeting, h
<1>9. Emits(s \o Greeting, <<Word(workerMagic1), Word(protoVersion)>>, Greeting)
  BY <1>1, StageTypes, EmitsTwo DEF s
<1>10. s \o Greeting \in Seq(Steps)
  BY <1>4, StageTypes
<1>11. QED
  BY <1>6, <1>7, <1>8, <1>9, <1>10, Zenon

\* After the handshake two words of no meaning are said.
LEMMA EmitsStubbing == Emits(Stubbing, <<Word(0), Word(0)>>, Stubbed)
<1> DEFINE s == <<Write(<<Word(0)>>), Write(<<Word(0)>>), Flush>>
           h == <<Skip("text"), Skip("word"), Drain>>
<1>1. Word(0) \in Tokens
  BY TokenTypes
<1>2. <<Word(0)>> \in Seq(Tokens)
  BY <1>1
<1>3. /\ Write(<<Word(0)>>) \in Steps /\ Flush \in Steps /\ Skip("text") \in Steps
      /\ Skip("word") \in Steps /\ Drain \in Steps
  BY <1>2, StepTypes
<1>4. s \in Seq(Steps) /\ h \in Seq(Steps) /\ postHandshake = s \o h
  BY <1>3 DEF postHandshake
<1>5. Stubbed = h \o Rest
  BY Zenon DEF Stubbed, h
<1> HIDE DEF s, h
<1>6. Stubbing = s \o Stubbed
  <2>1. Rest \in Seq(Steps)
    BY StageTypes
  <2>2. QED
    BY <1>4, <1>5, <2>1 DEF Stubbing
<1>7. Emits(s \o Stubbed, <<Word(0), Word(0)>>, Stubbed)
  BY <1>1, StageTypes, EmitsTwo DEF s
<1>8. QED
  BY <1>6, <1>7

\* The exchange of features says the client's and then listens.
LEMMA EmitsExchanging ==
    /\ Strings(ourFeatures) \in Seq(Tokens) /\ Strings(ourFeatures) # <<>>
    /\ Emits(Exchanging, Strings(ourFeatures), Listing)
<1> DEFINE w == Strings(ourFeatures)
           s1 == <<Flush>> \o Listing
<1>1. ourFeatures \in Seq(Values)
  <2>1. Scanning \in Values /\ Submitting \in Values
    BY TokenTypes DEF Literals
  <2>2. QED
    BY <2>1 DEF ourFeatures
<1>2. w \in Seq(Tokens) /\ w # <<>>
  <2>1. w = <<Word(Len(ourFeatures))>> \o [i \in 1 .. Len(ourFeatures) |-> Text(ourFeatures[i])]
    BY <1>1, StringsIs
  <2>2. [i \in 1 .. Len(ourFeatures) |-> Text(ourFeatures[i])] \in Seq(Tokens)
            /\ w \in Seq(Tokens)
    BY <1>1, StringsIs
  <2>3. Word(Len(ourFeatures)) \in Tokens
    BY <1>1, TokenTypes
  <2>4. QED
    BY <2>1, <2>2, <2>3
<1>3. <<Feature>> \in Seq(Plain)
  BY StepTypes
<1> HIDE DEF w
<1>4. Write(w) \in Steps /\ Flush \in Steps /\ Repeat(<<Feature>>) \in Steps
  BY <1>2, <1>3, StepTypes
<1>5. s1 \in Seq(Steps)
  BY <1>4, StageTypes
<1>6. exchangeFeatures = <<Write(w), Flush, Repeat(<<Feature>>)>>
  BY DEF exchangeFeatures, w
<1>7. Exchanging = <<Write(w)>> \o s1
  BY <1>4, <1>6, StageTypes DEF Exchanging, Listing
<1>8. Emits(s1, <<>>, Listing)
  BY EmitsLast
<1> HIDE DEF s1
<1>9. Emits(Exchanging, w \o <<>>, Listing)
  BY <1>2, <1>5, <1>7, <1>8, EmitsWrite, <<>> \in Seq(Tokens)
<1>10. w \o <<>> = w
  BY <1>2
<1>11. QED
  BY <1>2, <1>9, <1>10 DEF w

-----------------------------------------------------------------------------
\* The requests, whole.
Whole(r) ==
    CASE r.op = "derivation" ->
             <<Word(opAddToStore), Text(r.name), Text("text:sha256")>>
                 \o Strings(r.refs) \o <<Word(0)>> \o Framed(r.size)
      [] r.op = "directory" ->
             <<Word(opAddToStore), Text(r.name), Text("fixed:r:sha256")>>
                 \o Strings(<<>>) \o <<Word(0)>> \o Framed(r.size)
      [] r.op = "scan" ->
             <<Word(opAddToStoreScanning), Text(r.name), Text("fixed:r:sha256")>>
                 \o Framed(r.size)
      [] r.op = "submit" ->
             <<Word(opSubmitOutput), Word(0), Text(r.name), Text("out")>>

\* An upload in frames is a list of tokens.
LEMMA FramedIs ==
    ASSUME NEW n \in Nat
    PROVE  Framed(n) \in Seq(Tokens) /\ Framed(n) # <<>>
<1>1. Word(n) \in Tokens /\ Bytes(n) \in Tokens /\ Word(0) \in Tokens
  BY TokenTypes
<1>2. QED
  BY <1>1 DEF Framed

\* The fields of a request.
LEMMA RequestFields ==
    ASSUME NEW r \in Requests
    PROVE  /\ r.op \in {"derivation", "directory", "scan", "submit"}
           /\ r.name \in Values /\ r.refs \in Seq(Values) /\ r.size \in Nat
           /\ r.op # "derivation" => r.refs = <<>>
<1>1. r \in Request
  BY RequestsAssumption
<1>2. /\ r.op \in {"derivation", "directory", "scan", "submit"}
      /\ r.name \in STRING /\ r.refs \in Seq(STRING) /\ r.size \in Nat
      /\ r.op # "derivation" => r.refs = <<>>
  <2>1. CASE r \in [op : {"derivation"}, name : STRING, refs : Seq(STRING), size : Nat]
    BY <2>1
  <2>2. CASE r \in [op : {"directory", "scan"}, name : STRING, refs : {<<>>}, size : Nat]
    BY <2>2, <<>> \in Seq(STRING)
  <2>3. CASE r \in [op : {"submit"}, name : STRING, refs : {<<>>}, size : {0}]
    <3>1. r.op = "submit" /\ r.name \in STRING /\ r.refs = <<>> /\ r.size = 0
      BY <2>3
    <3>2. QED
      BY <3>1, <<>> \in Seq(STRING)
  <2>4. QED
    BY <1>1, <2>1, <2>2, <2>3 DEF Request
<1>3. STRING \subseteq Values
  BY TokenTypes
<1>4. r.refs \in Seq(Values)
  BY <1>2, <1>3, SeqMonotonic
<1>5. QED
  BY <1>2, <1>3, <1>4

\* Writing what precedes an upload, and the upload.
LEMMA EmitsUpload ==
    ASSUME NEW n \in Nat, NEW rest \in Seq(Steps)
    PROVE  LET e == <<Drain>> \o rest
               s == <<Write(Framed(n))>> \o (<<Flush>> \o e)
           IN  /\ <<Flush>> \o s \in Seq(Steps)
               /\ Emits(<<Flush>> \o s, Framed(n), e)
<1> DEFINE e == <<Drain>> \o rest
           s1 == <<Flush>> \o e
           w == Framed(n)
           s2 == <<Write(w)>> \o s1
           s3 == <<Flush>> \o s2
<1>1. w \in Seq(Tokens) /\ w # <<>>
  BY FramedIs
<1> HIDE DEF w
<1>2. Flush \in Steps /\ Drain \in Steps /\ Write(w) \in Steps
  BY <1>1, StepTypes
<1>3. s1 \in Seq(Steps) /\ s2 \in Seq(Steps) /\ s3 \in Seq(Steps)
  BY <1>2
<1>4. Emits(s1, <<>>, e)
  BY EmitsLast
<1> HIDE DEF e, s1
<1>5. Emits(s2, w \o <<>>, e)
  BY <1>1, <1>3, <1>4, EmitsWrite, <<>> \in Seq(Tokens)
<1>6. w \o <<>> = w
  BY <1>1
<1> HIDE DEF s2
<1>7. Emits(s3, w, e)
  BY <1>1, <1>3, <1>5, <1>6, EmitsFlush
<1>8. QED
  BY <1>3, <1>7 DEF s3, s2, s1, e, w

\* AddToStore says its operation, its fields and its upload and then drains.
LEMMA EmitsAdd ==
    ASSUME NEW cam \in Values, NEW r, r.name \in Values, r.refs \in Seq(Values), r.size \in Nat,
           NEW k \in Seq(Steps)
    PROVE  /\ AddToStore(cam, r) \o k \in Seq(Steps)
           /\ Emits(AddToStore(cam, r) \o k,
                    <<Word(opAddToStore), Text(r.name), Text(cam)>>
                        \o Strings(r.refs) \o <<Word(0)>> \o Framed(r.size),
                    <<Drain>> \o (readValidPathInfoPath \o k))
<1> DEFINE rest == readValidPathInfoPath \o k
           e == <<Drain>> \o rest
           f == Framed(r.size)
           t == Strings(r.refs)
           w1 == <<Word(opAddToStore)>>
           w2 == <<Text(r.name)>>
           w3 == <<Text(cam)>>
           w4 == <<Word(0)>>
           s1 == <<Flush>> \o (<<Write(f)>> \o (<<Flush>> \o e))
           s2 == <<Write(w4)>> \o s1
           s3 == <<Write(t)>> \o s2
           s4 == <<Write(w3)>> \o s3
           s5 == <<Write(w2)>> \o s4
           s6 == <<Write(w1)>> \o s5
<1>1. rest \in Seq(Steps)
  BY StageTypes
<1>2. f \in Seq(Tokens) /\ t \in Seq(Tokens)
  BY FramedIs, StringsIs
<1>3. w1 \in Seq(Tokens) /\ w2 \in Seq(Tokens) /\ w3 \in Seq(Tokens) /\ w4 \in Seq(Tokens)
  <2>1. /\ Word(opAddToStore) \in Tokens /\ Text(r.name) \in Tokens /\ Text(cam) \in Tokens
        /\ Word(0) \in Tokens
    BY TokenTypes DEF opAddToStore
  <2>2. QED
    BY <2>1
<1>4. s1 \in Seq(Steps) /\ Emits(s1, f, e)
  BY <1>1, EmitsUpload
<1>5. AddToStore(cam, r) = <<Write(w1), Write(w2), Write(w3), Write(t), Write(w4), Flush,
                             Write(f), Flush, Drain>> \o readValidPathInfoPath
  BY Zenon DEF AddToStore
<1> HIDE DEF f, t, w1, w2, w3, w4
<1>6. /\ Flush \in Steps /\ Drain \in Steps /\ Write(w1) \in Steps /\ Write(w2) \in Steps
      /\ Write(w3) \in Steps /\ Write(w4) \in Steps /\ Write(t) \in Steps /\ Write(f) \in Steps
  BY <1>2, <1>3, StepTypes
<1>7. AddToStore(cam, r) \o k = s6
  <2> DEFINE u == <<Write(w1), Write(w2), Write(w3), Write(t), Write(w4), Flush, Write(f),
      Flush, Drain>>
  <2>1. u \o rest = s6
    <3>1. PeeledNine(Write(w1), Write(w2), Write(w3), Write(t), Write(w4), Flush, Write(f),
                     Flush, Drain, rest)
      BY <1>1, <1>6, PeelNine
    <3>2. QED
      BY <3>1, Zenon DEF PeeledNine
  <2>2. u \in Seq(Steps)
    BY <1>6
  <2>3. readValidPathInfoPath \in Seq(Steps)
    BY StageTypes
  <2> HIDE DEF u, s6
  <2>4. (u \o readValidPathInfoPath) \o k = u \o rest
    BY <2>2, <2>3, ConcatAssociative
  <2>5. AddToStore(cam, r) = u \o readValidPathInfoPath
    BY <1>5, Zenon DEF u
  <2>6. QED
    BY <2>1, <2>4, <2>5, Zenon
<1> HIDE DEF rest, e, s1
<1>8. s2 \in Seq(Steps) /\ s3 \in Seq(Steps) /\ s4 \in Seq(Steps)
  BY <1>4, <1>6
<1>9. s5 \in Seq(Steps) /\ s6 \in Seq(Steps)
  BY <1>6, <1>8
<1> DEFINE v2 == w4 \o f
           v3 == t \o v2
           v4 == w3 \o v3
           v5 == w2 \o v4
<1>10. v2 \in Seq(Tokens) /\ v3 \in Seq(Tokens)
  BY <1>2, <1>3
<1>11. v4 \in Seq(Tokens) /\ v5 \in Seq(Tokens)
  BY <1>3, <1>10
<1> HIDE DEF s2, s3, s4, s5, s6, v2, v3, v4, v5
<1>12. Emits(s2, v2, e)
  BY <1>2, <1>3, <1>4, EmitsWrite DEF s2, v2
<1>13. Emits(s3, v3, e)
  BY <1>2, <1>8, <1>10, <1>12, EmitsWrite DEF s3, v3
<1>14. Emits(s4, v4, e)
  BY <1>3, <1>8, <1>10, <1>13, EmitsWrite DEF s4, v4
<1>15. Emits(s5, v5, e)
  BY <1>3, <1>8, <1>11, <1>14, EmitsWrite DEF s5, v5
<1>16. Emits(s6, w1 \o v5, e)
  BY <1>3, <1>9, <1>11, <1>15, EmitsWrite DEF s6
<1>17. <<Word(opAddToStore), Text(r.name), Text(cam)>> \o Strings(r.refs) \o <<Word(0)>>
           \o Framed(r.size)
           = w1 \o v5
  <2> DEFINE h == <<Word(opAddToStore), Text(r.name), Text(cam)>>
             w23 == w2 \o w3
  <2>1. h = w1 \o w23
    <3>1. w23 = <<Text(r.name), Text(cam)>>
      BY TupleCons, Zenon DEF w2, w3
    <3> HIDE DEF w23
    <3>2. QED
      BY <3>1, TupleCons, Zenon DEF w1
  <2> HIDE DEF h
  <2>2. w1 \in Seq(Tokens) /\ w2 \in Seq(Tokens) /\ w3 \in Seq(Tokens)
    BY <1>3
  <2>3. ((h \o t) \o w4) \o f = h \o v3
    <3>1. h \in Seq(Tokens)
      BY <2>1, <2>2
    <3>2. t \in Seq(Tokens) /\ w4 \in Seq(Tokens) /\ f \in Seq(Tokens)
      BY <1>2, <1>3
    <3>3. JoinedFour(h, t, w4, f)
      BY <3>1, <3>2, JoinFour
    <3>4. QED
      BY <3>3, Zenon DEF JoinedFour, v3, v2
  <2>4. (w1 \o (w2 \o w3)) \o v3 = w1 \o v5
    <3>1. v3 \in Seq(Tokens)
      BY <1>10
    <3>2. JoinedFour(w1, w2, w3, v3)
      BY <2>2, <3>1, JoinFour
    <3>3. QED
      BY <3>2, Zenon DEF JoinedFour, v4, v5
  <2> HIDE DEF w23
  <2>5. ((h \o t) \o w4) \o f = w1 \o v5
    BY <2>1, <2>3, <2>4, Zenon DEF w23
  <2>6. QED
    BY <2>5, Zenon DEF h, t, w4, f
<1>18. QED
  BY <1>7, <1>9, <1>16, <1>17, Zenon DEF e, rest

\* So does the upload that the daemon scans for references.
LEMMA EmitsScan ==
    ASSUME NEW cam \in Values, NEW r, r.name \in Values, r.size \in Nat, NEW k \in Seq(Steps)
    PROVE  LET a == <<Write(<<Word(opAddToStoreScanning)>>), Write(<<Text(r.name)>>),
                      Write(<<Text(cam)>>), Flush, Write(Framed(r.size)), Flush, Drain>>
                        \o readValidPathInfoPath
           IN  /\ a \o k \in Seq(Steps)
               /\ Emits(a \o k,
                        <<Word(opAddToStoreScanning), Text(r.name), Text(cam)>>
                            \o Framed(r.size),
                        <<Drain>> \o (readValidPathInfoPath \o k))
<1> DEFINE rest == readValidPathInfoPath \o k
           e == <<Drain>> \o rest
           f == Framed(r.size)
           w1 == <<Word(opAddToStoreScanning)>>
           w2 == <<Text(r.name)>>
           w3 == <<Text(cam)>>
           s1 == <<Flush>> \o (<<Write(f)>> \o (<<Flush>> \o e))
           s2 == <<Write(w3)>> \o s1
           s3 == <<Write(w2)>> \o s2
           s4 == <<Write(w1)>> \o s3
           u == <<Write(w1), Write(w2), Write(w3), Flush, Write(f), Flush, Drain>>
<1>1. rest \in Seq(Steps) /\ readValidPathInfoPath \in Seq(Steps)
  BY StageTypes
<1>2. f \in Seq(Tokens)
  BY FramedIs
<1>3. w1 \in Seq(Tokens) /\ w2 \in Seq(Tokens) /\ w3 \in Seq(Tokens)
  <2>1. Word(opAddToStoreScanning) \in Tokens /\ Text(r.name) \in Tokens /\ Text(cam) \in Tokens
    BY TokenTypes DEF opAddToStoreScanning
  <2>2. QED
    BY <2>1
<1>4. s1 \in Seq(Steps) /\ Emits(s1, f, e)
  BY <1>1, EmitsUpload
<1> HIDE DEF f
<1>5. <<Word(opAddToStoreScanning), Text(r.name), Text(cam)>> = w1 \o (w2 \o w3)
  <2> DEFINE w23 == w2 \o w3
  <2>1. w23 = <<Text(r.name), Text(cam)>>
    BY TupleCons, Zenon
  <2> HIDE DEF w23, w2, w3
  <2>2. w1 \o w23 = <<Word(opAddToStoreScanning), Text(r.name), Text(cam)>>
    BY <2>1, TupleCons, Zenon DEF w1
  <2>3. QED
    BY <2>2, Zenon DEF w23
<1> HIDE DEF w1, w2, w3
<1>6. /\ Flush \in Steps /\ Drain \in Steps /\ Write(w1) \in Steps /\ Write(w2) \in Steps
      /\ Write(w3) \in Steps /\ Write(f) \in Steps
  BY <1>2, <1>3, StepTypes
<1>7. u \in Seq(Steps)
  BY <1>6
<1>8. u \o rest = s4
  <2>1. PeeledSeven(Write(w1), Write(w2), Write(w3), Flush, Write(f), Flush, Drain, rest)
    BY <1>1, <1>6, PeelSeven
  <2>2. QED
    BY <2>1, Zenon DEF PeeledSeven
<1> HIDE DEF u, s4
<1>9. (u \o readValidPathInfoPath) \o k = s4
  <2>1. (u \o readValidPathInfoPath) \o k = u \o rest
    BY <1>1, <1>7, ConcatAssociative
  <2>2. QED
    BY <1>8, <2>1, Zenon
<1> HIDE DEF rest, e, s1
<1>10. s2 \in Seq(Steps) /\ s3 \in Seq(Steps)
  BY <1>4, <1>6
<1>11. s4 \in Seq(Steps)
  BY <1>6, <1>10 DEF s4
<1> DEFINE v2 == w3 \o f
           v3 == w2 \o v2
<1>12. v2 \in Seq(Tokens) /\ v3 \in Seq(Tokens)
  BY <1>2, <1>3
<1> HIDE DEF s2, s3, v2, v3
<1>13. Emits(s2, v2, e)
  BY <1>2, <1>3, <1>4, EmitsWrite DEF s2, v2
<1>14. Emits(s3, v3, e)
  BY <1>3, <1>10, <1>12, <1>13, EmitsWrite DEF s3, v3
<1>15. Emits(s4, w1 \o v3, e)
  BY <1>3, <1>10, <1>12, <1>14, EmitsWrite DEF s4
<1>16. JoinedFour(w1, w2, w3, f)
  BY <1>2, <1>3, JoinFour
<1>17. <<Word(opAddToStoreScanning), Text(r.name), Text(cam)>> \o Framed(r.size) = w1 \o v3
  BY <1>5, <1>16, Zenon DEF JoinedFour, v3, v2, f
<1>18. QED
  BY <1>9, <1>11, <1>15, <1>17, Zenon DEF e, rest, u, f, w1, w2, w3

\* SubmitOutput says its operation and the output's name and then drains.
LEMMA EmitsSubmit ==
    ASSUME NEW r, r.name \in Values
    PROVE  /\ SubmitOutput(r) \o <<Return>> \in Seq(Steps)
           /\ Emits(SubmitOutput(r) \o <<Return>>,
                    <<Word(opSubmitOutput), Word(0), Text(r.name), Text("out")>>,
                    <<Drain>> \o <<Skip("word"), Return>>)
<1> DEFINE k == <<Return>>
           e == <<Drain>> \o <<Skip("word"), Return>>
           w1 == <<Word(opSubmitOutput)>>
           w2 == <<Word(0)>>
           w3 == <<Text(r.name)>>
           w4 == <<Text("out")>>
           s1 == <<Flush>> \o e
           s2 == <<Write(w4)>> \o s1
           s3 == <<Write(w3)>> \o s2
           s4 == <<Write(w2)>> \o s3
           s5 == <<Write(w1)>> \o s4
<1>1. w1 \in Seq(Tokens) /\ w2 \in Seq(Tokens) /\ w3 \in Seq(Tokens) /\ w4 \in Seq(Tokens)
  <2>1. "out" \in Values
    BY TokenTypes DEF Literals
  <2>2. /\ Word(opSubmitOutput) \in Tokens /\ Word(0) \in Tokens /\ Text(r.name) \in Tokens
        /\ Text("out") \in Tokens
    BY <2>1, TokenTypes DEF opSubmitOutput
  <2>3. QED
    BY <2>2
<1>2. w3 \o w4 = <<Text(r.name), Text("out")>>
  BY TupleCons, Zenon
<1>3. w2 \o <<Text(r.name), Text("out")>> = <<Word(0), Text(r.name), Text("out")>>
  BY TupleCons, Zenon
<1>4. w1 \o <<Word(0), Text(r.name), Text("out")>>
          = <<Word(opSubmitOutput), Word(0), Text(r.name), Text("out")>>
  BY TupleCons, Zenon
<1>5. SubmitOutput(r) = <<Write(w1), Write(w2), Write(w3), Write(w4), Flush, Drain,
          Skip("word")>>
  BY Zenon DEF SubmitOutput
<1> HIDE DEF w1, w2, w3, w4
<1>6. /\ Flush \in Steps /\ Drain \in Steps /\ Skip("word") \in Steps /\ Return \in Steps
      /\ Write(w1) \in Steps /\ Write(w2) \in Steps /\ Write(w3) \in Steps /\ Write(w4) \in Steps
  BY <1>1, StepTypes
<1>7. k \in Seq(Steps) /\ e \in Seq(Steps)
  BY <1>6
<1>8. SubmitOutput(r) \o k = s5
  <2>1. PeeledSeven(Write(w1), Write(w2), Write(w3), Write(w4), Flush, Drain, Skip("word"), k)
    BY <1>6, <1>7, PeelSeven
  <2>2. <<Skip("word")>> \o k = <<Skip("word"), Return>>
    BY TupleCons, Zenon
  <2> HIDE DEF k
  <2>3. QED
    BY <1>5, <2>1, <2>2, Zenon DEF PeeledSeven
<1> HIDE DEF k, e
<1>9. s1 \in Seq(Steps) /\ s2 \in Seq(Steps) /\ s3 \in Seq(Steps)
  BY <1>6, <1>7
<1>10. s4 \in Seq(Steps) /\ s5 \in Seq(Steps)
  BY <1>6, <1>9
<1>11. Emits(s1, <<>>, e)
  BY EmitsLast
<1> HIDE DEF s1, s2, s3, s4, s5
<1>12. Emits(s2, w4, e)
  <2>1. Emits(s2, w4 \o <<>>, e)
    BY <1>1, <1>9, <1>11, EmitsWrite, <<>> \in Seq(Tokens) DEF s2
  <2>2. w4 \o <<>> = w4
    BY <1>1
  <2>3. QED
    BY <2>1, <2>2
<1>13. Emits(s3, w3 \o w4, e)
  BY <1>1, <1>9, <1>12, EmitsWrite DEF s3
<1> DEFINE v3 == w3 \o w4
           v4 == w2 \o v3
<1>14. v3 \in Seq(Tokens) /\ v4 \in Seq(Tokens)
  BY <1>1
<1>15. Emits(s4, w2 \o v3, e)
  BY <1>1, <1>9, <1>13, <1>14, EmitsWrite DEF s4
<1> HIDE DEF v3
<1>16. Emits(s5, w1 \o v4, e)
  BY <1>1, <1>10, <1>14, <1>15, EmitsWrite DEF s5
<1>17. w1 \o v4 = <<Word(opSubmitOutput), Word(0), Text(r.name), Text("out")>>
  BY <1>2, <1>3, <1>4, Zenon DEF v3
<1>18. QED
  BY <1>8, <1>10, <1>16, <1>17, Zenon DEF k, e

\* What any request writes, and where that leaves the client.
LEMMA EmitsOperation ==
    ASSUME NEW r \in Requests
    PROVE  /\ Operation(r) \o <<Return>> \in Seq(Steps)
           /\ Emits(Operation(r) \o <<Return>>, Whole(r), Answering(r))
<1>1. <<Return>> \in Seq(Steps)
  BY StepTypes
<1>2. "text:sha256" \in Values /\ "fixed:r:sha256" \in Values
  BY TokenTypes DEF Literals
<1>3. CASE r.op = "derivation"
  <2>1. Operation(r) = AddToStore("text:sha256", r)
    BY <1>3 DEF Operation, AddDerivation
  <2>2. Whole(r) = <<Word(opAddToStore), Text(r.name), Text("text:sha256")>>
                       \o Strings(r.refs) \o <<Word(0)>> \o Framed(r.size)
    BY <1>3 DEF Whole
  <2>3. Answering(r) = <<Drain>> \o (readValidPathInfoPath \o <<Return>>)
    BY <1>3 DEF Answering, Result
  <2>4. QED
    BY <1>1, <1>2, <2>1, <2>2, <2>3, RequestFields, EmitsAdd
<1>4. CASE r.op = "directory"
  <2> DEFINE s == [r EXCEPT !.refs = <<>>]
  <2>1. Operation(r) = AddToStore("fixed:r:sha256", s)
    BY <1>4 DEF Operation, AddDirectory
  <2>2. /\ r.name \in Values /\ r.size \in Nat /\ r.refs = <<>> /\ r \in Request
    BY <1>4, RequestFields, RequestsAssumption
  <2>3. s.name = r.name /\ s.refs = <<>> /\ s.size = r.size
    BY <2>2 DEF Request
  <2>4. Whole(r) = <<Word(opAddToStore), Text(s.name), Text("fixed:r:sha256")>>
                       \o Strings(s.refs) \o <<Word(0)>> \o Framed(s.size)
    BY <1>4, <2>3 DEF Whole
  <2>5. Answering(r) = <<Drain>> \o (readValidPathInfoPath \o <<Return>>)
    BY <1>4 DEF Answering, Result
  <2> HIDE DEF s
  <2>6. s.name \in Values /\ s.refs \in Seq(Values) /\ s.size \in Nat
    BY <2>2, <2>3
  <2>7. QED
    BY <1>1, <1>2, <2>1, <2>4, <2>5, <2>6, EmitsAdd
<1>5. CASE r.op = "scan"
  <2>1. Operation(r) = AddToStoreScanning(r)
    BY <1>5 DEF Operation
  <2>2. Whole(r) = <<Word(opAddToStoreScanning), Text(r.name), Text("fixed:r:sha256")>>
                       \o Framed(r.size)
    BY <1>5 DEF Whole
  <2>3. Answering(r) = <<Drain>> \o (readValidPathInfoPath \o <<Return>>)
    BY <1>5 DEF Answering, Result
  <2>4. r.name \in Values /\ r.size \in Nat
    BY RequestFields
  <2>5. QED
    BY <1>1, <1>2, <2>1, <2>2, <2>3, <2>4, EmitsScan DEF AddToStoreScanning
<1>6. CASE r.op = "submit"
  <2>1. Operation(r) = SubmitOutput(r)
    BY <1>6 DEF Operation
  <2>2. Whole(r) = <<Word(opSubmitOutput), Word(0), Text(r.name), Text("out")>>
    BY <1>6 DEF Whole
  <2>3. Answering(r) = <<Drain>> \o <<Skip("word"), Return>>
    BY <1>6 DEF Answering, Result
  <2>4. QED
    BY <2>1, <2>2, <2>3, RequestFields, EmitsSubmit
<1>7. QED
  BY <1>3, <1>4, <1>5, <1>6, RequestFields

-----------------------------------------------------------------------------
\* The steps that read, and the kind of primitive each reads.
Listens(step) ==
    step.do \in {"skip", "expect", "path", "repeat", "field", "version", "feature", "drain"}

KindOf(step) ==
    CASE step.do = "skip" -> step.kind
      [] step.do = "expect" -> step.token.kind
      [] step.do \in {"path", "feature"} -> "text"
      [] step.do \in {"version", "repeat", "drain", "field"} -> "word"
      [] OTHER -> "none"

\* A step that reads a token is one that reads its kind, and goes on as the
\* client's code does.
LEMMA Hears ==
    ASSUME NEW step, NEW x, NEW steps, Becomes(step, x, steps)
    PROVE  /\ Listens(step) /\ KindOf(step) = x.kind
           /\ step.do \in {"skip", "path", "feature", "expect"} => steps = <<>>
           /\ step.do = "expect" => x = step.token
           /\ step.do = "repeat" => /\ x.val \in Nat /\ step.item \in Seq(Plain)
                                    /\ Copies(steps, step.item, x.val)
           /\ step.do = "field" => \/ x.val = 0 /\ steps = <<Skip("word")>>
                                   \/ x.val = 1 /\ steps = <<Skip("text")>>
           /\ step.do = "version" => x.val \in Nat /\ steps = AfterVersion(x.val)
           /\ step.do = "drain" => x.val \in Markers /\ steps = afterMarker(x.val)
           /\ step = ReadPath <=> step.do = "path"
<1> USE DEF Listens, KindOf
<1>1. CASE step = Skip("word") /\ x.kind = "word" /\ steps = <<>>
  BY <1>1 DEF Skip, ReadPath
<1>2. CASE step = Skip("text") /\ x.kind = "text" /\ steps = <<>>
  BY <1>2 DEF Skip, ReadPath
<1>3. CASE step \in {ReadPath, Feature} /\ x.kind = "text" /\ steps = <<>>
  BY <1>3 DEF ReadPath, Feature
<1>4. CASE step = Expect(x) /\ steps = <<>>
  BY <1>4 DEF Expect, ReadPath
<1>5. CASE /\ step.do = "repeat" /\ x.kind = "word" /\ x.val \in Nat
           /\ step.item \in Seq(Plain) /\ Copies(steps, step.item, x.val)
  BY <1>5 DEF ReadPath
<1>6. CASE step = Field /\ x = Word(0) /\ steps = <<Skip("word")>>
  BY <1>6 DEF Field, Word, ReadPath
<1>7. CASE step = Field /\ x = Word(1) /\ steps = <<Skip("text")>>
  BY <1>7 DEF Field, Word, ReadPath
<1>8. CASE step = Version /\ x.kind = "word" /\ x.val \in Nat /\ steps = AfterVersion(x.val)
  BY <1>8 DEF Version, ReadPath
<1>9. CASE step = Drain /\ x.kind = "word" /\ x.val \in Markers /\ steps = afterMarker(x.val)
  BY <1>9 DEF Drain, ReadPath
<1>10. QED
  BY <1>1, <1>2, <1>3, <1>4, <1>5, <1>6, <1>7, <1>8, <1>9 DEF Becomes

\* A client that is not about to read has nothing to read: it is where it was going.
LEMMA Stuck ==
    ASSUME NEW t \in Seq(Tokens), NEW s \in Seq(Steps), s # <<>>, ~Listens(Head(s)),
           NEW q, NEW c, Run(At(s, q), t, c)
    PROVE  t = <<>> /\ c = At(s, q)
<1>1. ASSUME t # <<>> PROVE FALSE
  <2>1. PICK b : Reads(At(s, q), Head(t), b)
    BY <1>1, RunHead
  <2>2. s = <<Head(s)>> \o Tail(s) /\ Head(s) \in Steps /\ Tail(s) \in Seq(Steps)
    OBVIOUS
  <2>3. PICK steps \in Seq(Steps) : Becomes(Head(s), Head(t), steps)
    BY <2>1, <2>2, ReadsBackward
  <2>4. QED
    BY <2>3, Hears
<1>2. t = <<>>
  BY <1>1
<1>3. QED
  BY <1>2, RunNothing

\* What is read next, on the way to where a client is going.
LEMMA NextRead ==
    ASSUME NEW t \in Seq(Tokens), t # <<>>, NEW s \in Seq(Steps), s # <<>>, NEW q, NEW c,
           Run(At(s, q), t, c)
    PROVE  \E steps \in Seq(Steps) :
               /\ Becomes(Head(s), Head(t), steps)
               /\ Run(At(steps \o Tail(s), IF Head(s) = ReadPath THEN Head(t).val ELSE q),
                      Tail(t), c)
<1>1. PICK b : Reads(At(s, q), Head(t), b) /\ Run(b, Tail(t), c)
  BY RunHead
<1>2. s = <<Head(s)>> \o Tail(s) /\ Head(s) \in Steps /\ Tail(s) \in Seq(Steps)
  OBVIOUS
<1> DEFINE x == Head(s)
           y == Tail(s)
<1>3. x \in Steps /\ y \in Seq(Steps) /\ Reads(At(<<x>> \o y, q), Head(t), b)
  BY <1>1, <1>2
<1> HIDE DEF x, y
<1>4. PICK steps \in Seq(Steps) :
          Becomes(x, Head(t), steps)
              /\ b = At(steps \o y, IF x = ReadPath THEN Head(t).val ELSE q)
  BY <1>3, ReadsBackward
<1>5. Becomes(Head(s), Head(t), steps)
      /\ b = At(steps \o Tail(s), IF Head(s) = ReadPath THEN Head(t).val ELSE q)
  BY <1>4 DEF x, y
<1>6. QED
  BY <1>1, <1>5

\* What a client that writes is about to do.
LEMMA Writes ==
    ASSUME NEW s \in Seq(Steps), NEW w \in Seq(Tokens), NEW e \in Seq(Steps), Emits(s, w, e)
    PROVE  /\ s # <<>> /\ Head(s).do \in {"write", "flush"} /\ ~Listens(Head(s))
           /\ Head(s).do = "write" =>
                  \E v \in Seq(Tokens) : /\ Head(s).tokens \in Seq(Tokens)
                                         /\ w = Head(s).tokens \o v /\ Emits(Tail(s), v, e)
           /\ Head(s).do = "flush" =>
                  \/ w = <<>> /\ Tail(s) = e
                  \/ w # <<>> /\ Emits(Tail(s), w, e)
<1>1. CASE s = <<Flush>> \o e /\ w = <<>>
  <2>1. s # <<>> /\ Head(s) = Flush /\ Tail(s) = e
    BY <1>1
  <2>2. Flush.do = "flush" /\ ~Listens(Flush)
    BY DEF Flush, Listens
  <2>3. QED
    BY <1>1, <2>1, <2>2
<1>2. ASSUME NEW t \in Seq(Steps), NEW v \in Seq(Tokens), Emit(s, w, t, v), Emits(t, v, e)
      PROVE  /\ s # <<>> /\ Head(s).do \in {"write", "flush"} /\ ~Listens(Head(s))
             /\ Head(s).do = "write" =>
                    \E u \in Seq(Tokens) : /\ Head(s).tokens \in Seq(Tokens)
                                           /\ w = Head(s).tokens \o u /\ Emits(Tail(s), u, e)
             /\ Head(s).do = "flush" =>
                    \/ w = <<>> /\ Tail(s) = e
                    \/ w # <<>> /\ Emits(Tail(s), w, e)
  <2>1. CASE s = <<Flush>> \o t /\ w = v /\ w # <<>>
    <3>1. s # <<>> /\ Head(s) = Flush /\ Tail(s) = t
      BY <2>1
    <3>2. Flush.do = "flush" /\ ~Listens(Flush)
      BY DEF Flush, Listens
    <3>3. QED
      BY <1>2, <2>1, <3>1, <3>2
  <2>2. ASSUME NEW x \in Seq(Tokens), s = <<Write(x)>> \o t, w = x \o v
        PROVE  /\ s # <<>> /\ Head(s).do = "write" /\ ~Listens(Head(s))
               /\ Head(s).tokens = x /\ Tail(s) = t
    <3>1. s # <<>> /\ Head(s) = Write(x) /\ Tail(s) = t
      BY <2>2
    <3>2. Write(x).do = "write" /\ Write(x).tokens = x /\ ~Listens(Write(x))
      BY DEF Write, Listens
    <3>3. QED
      BY <3>1, <3>2
  <2>3. CASE \E x \in Seq(Tokens) : s = <<Write(x)>> \o t /\ w = x \o v
    <3>1. PICK x \in Seq(Tokens) : s = <<Write(x)>> \o t /\ w = x \o v
      BY <2>3
    <3>2. /\ s # <<>> /\ Head(s).do = "write" /\ ~Listens(Head(s))
          /\ Head(s).tokens = x /\ Tail(s) = t
      BY <2>2, <3>1
    <3>3. QED
      BY <1>2, <3>1, <3>2
  <2>4. QED
    BY <1>2, <2>1, <2>3 DEF Emit
<1>3. QED
  BY <1>1, <1>2, EmitsHead

-----------------------------------------------------------------------------
\* The inductive invariant.  While the client hears the daemon out, nothing is
\* under way to the daemon, and what is under way to the client takes it to
\* where the daemon takes it to be.
Hearing(e, q) == up = <<>> /\ buffered = <<>> /\ Run(Here, down, At(e, q))

\* While the client has its say, nothing is under way to it, and what the
\* daemon has read, what is under way, what is buffered and what is still to
\* be written make up all that is to be said.
Saying(e, read, whole) ==
    /\ down = <<>> /\ conn.path = NoPath
    /\ \/ todo = e /\ buffered = <<>> /\ read \o up = whole
       \/ \E w \in Seq(Tokens) : /\ Emits(todo, w, e) /\ buffered \o w # <<>>
                                 /\ read \o (up \o (buffered \o w)) = whole

\* Where what the daemon has sent may leave a client: it reads on, raises an
\* error, is about to send its request, writes, or returns with its answer.
Ends(e, q) ==
    \/ e # <<>> /\ (Listens(Head(e)) \/ Head(e) = Raise)
    \/ e = Rest
    \/ \E w \in Seq(Tokens), d \in Seq(Steps) : Emits(e, w, d)
    \/ e = <<Return>> /\ q = PathOf(conn.req) /\ conn.req \in performed

Heading == \E e, q : e \in Seq(Steps) /\ Run(Here, down, At(e, q)) /\ Ends(e, q)
Writing == \E w \in Seq(Tokens), d \in Seq(Steps) : Emits(todo, w, d)

Hail == <<Word(workerMagic1), Word(protoVersion)>>
Zeros == <<Word(0), Word(0)>>

Stage ==
    /\ daemon.state # "away"
    /\ daemon.state = "hello" => Saying(Greeting, <<>>, Hail)
    /\ daemon.state = "features" =>
           Hearing(Exchanging, NoPath) \/ Saying(Listing, <<>>, Strings(ourFeatures))
    /\ daemon.state = "stubs" => Hearing(Stubbing, NoPath) \/ Saying(Stubbed, <<>>, Zeros)
    /\ daemon.state = "greeting" => Hearing(<<Drain>> \o Rest, NoPath)
    /\ daemon.state = "ready" =>
           \/ daemon.request = <<>> /\ Hearing(Rest, NoPath)
           \/ Saying(Answering(conn.req), daemon.request, Whole(conn.req))
           \/ daemon.request = <<>> /\ conn.req \in performed
                  /\ Hearing(<<Return>>, PathOf(conn.req))
    /\ daemon.state = "working" =>
           /\ daemon.request = Whole(conn.req)
           /\ daemon.served => conn.req \in performed
           /\ Hearing(Answering(conn.req), NoPath)
    /\ daemon.state = "gone" => up = <<>> /\ Heading /\ (buffered # <<>> => Writing)

\* Between calls nothing is left to do, and nothing is asked of the daemon.
Silent ==
    /\ todo = <<>> /\ up = <<>>
    /\ daemon.state \in {"away", "gone", "ready"}
    /\ daemon.state = "ready" => daemon.request = <<>>
    /\ conn.state = "returned" =>
           /\ down = <<>> /\ buffered = <<>>
           /\ conn.path = PathOf(conn.req) /\ conn.req \in performed

Paths == Values \cup {NoPath}
States == {"away", "hello", "features", "stubs", "greeting", "ready", "working", "gone"}

TypeOK ==
    /\ up \in Seq(Tokens) /\ down \in Seq(Tokens) /\ buffered \in Seq(Tokens)
    /\ todo \in Seq(Steps)
    /\ conn \in [state : {"idle"}, path : {NoPath}]
                    \cup [state : {"busy", "returned", "failed"}, req : Requests, path : Paths]
    /\ daemon \in [state : States, request : Seq(Tokens), served : BOOLEAN,
                   version : DaemonVersions, features : DaemonFeatures]
    /\ daemon.served => daemon.state \in {"working", "gone"}
    /\ daemon.request # <<>> => daemon.state \in {"ready", "working", "gone"}

IInv ==
    /\ TypeOK
    /\ Busy => Stage
    /\ ~Busy => Silent

-----------------------------------------------------------------------------
\* The call in progress.
LEMMA BusyCall ==
    ASSUME TypeOK, Busy
    PROVE  /\ conn \in [state : {"busy"}, req : Requests, path : Paths]
           /\ conn.req \in Requests
BY DEF TypeOK, Busy

\* What each stage is about to do.
Opens(e, x) == e \in Seq(Steps) /\ e # <<>> /\ Head(e) = x

\* A list of steps that starts with a given one.
LEMMA Opening ==
    ASSUME NEW x \in Steps, NEW k \in Seq(Steps)
    PROVE  Opens(<<x>> \o k, x) /\ Tail(<<x>> \o k) = k
BY DEF Opens

\* What each stage of a call starts with.
LEMMA StageHeads ==
    /\ Opens(Greeting, Expect(Word(workerMagic2)))
    /\ Opens(Listing, Repeat(<<Feature>>)) /\ Opens(Stubbed, Skip("text"))
    /\ Opens(<<Drain>> \o Rest, Drain) /\ Opens(Rest, Operate)
    /\ \A r : Opens(Answering(r), Drain)
<1>1. /\ Skip("text") \in Steps /\ Drain \in Steps /\ Operate \in Steps
      /\ Expect(Word(workerMagic2)) \in Steps /\ Version \in Steps
      /\ Repeat(<<Feature>>) \in Steps
  <2>1. Word(workerMagic2) \in Tokens
    BY TokenTypes DEF workerMagic2
  <2>2. <<Feature>> \in Seq(Plain)
    BY StepTypes
  <2>3. QED
    BY <2>1, <2>2, StepTypes
<1>2. Greeting \in Seq(Steps) /\ Greeting # <<>> /\ Head(Greeting) = Expect(Word(workerMagic2))
  <2> DEFINE p == Stubbing
             x == Expect(Word(workerMagic2))
  <2>1. p \in Seq(Steps) /\ x \in Steps
    BY <1>1, StageTypes
  <2>2. Greeting = <<x, Version>> \o p
    BY DEF Greeting
  <2> HIDE DEF p, x
  <2>3. <<x, Version>> \o p \in Seq(Steps) /\ <<x, Version>> \o p # <<>>
            /\ Head(<<x, Version>> \o p) = x
    BY <1>1, <2>1
  <2>4. QED
    BY <2>2, <2>3 DEF x
<1>3. Opens(Listing, Repeat(<<Feature>>))
  BY <1>1, StageTypes, Opening DEF Listing
<1>4. Stubbed \in Seq(Steps) /\ Stubbed # <<>> /\ Head(Stubbed) = Skip("text")
  <2> DEFINE p == Rest
  <2>1. p \in Seq(Steps)
    BY StageTypes
  <2>2. Stubbed = <<Skip("text"), Skip("word"), Drain>> \o p
    BY DEF Stubbed
  <2> HIDE DEF p
  <2>3. QED
    BY <1>1, <2>1, <2>2, StepTypes
<1>5. Opens(<<Drain>> \o Rest, Drain)
  BY <1>1, StageTypes, Opening
<1>6. Rest \in Seq(Steps) /\ Rest # <<>> /\ Head(Rest) = Operate
  BY StageTypes DEF Rest
<1>7. ASSUME NEW r PROVE Opens(Answering(r), Drain)
  BY <1>1, StageTypes, Opening DEF Answering
<1>8. QED
  BY <1>2, <1>3, <1>4, <1>5, <1>6, <1>7 DEF Opens

\* What a client that has its say is going to write.
LEMMA Sayings ==
    /\ Emits(Exchanging, Strings(ourFeatures), Listing)
    /\ Emits(Stubbing, Zeros, Stubbed)
    /\ Strings(ourFeatures) \in Seq(Tokens) /\ Hail \in Seq(Tokens) /\ Zeros \in Seq(Tokens)
    /\ Len(Strings(ourFeatures)) = 3 /\ Head(Strings(ourFeatures)) = Word(2)
    /\ Hail # <<>> /\ Zeros # <<>>
<1>1. Word(0) \in Tokens /\ Word(workerMagic1) \in Tokens /\ Word(protoVersion) \in Tokens
  BY TokenTypes DEF workerMagic1, protoVersion, protoMajor
<1>2. ourFeatures \in Seq(Values) /\ Len(ourFeatures) = 2
  <2>1. Scanning \in Values /\ Submitting \in Values
    BY TokenTypes DEF Literals
  <2>2. QED
    BY <2>1 DEF ourFeatures
<1>3. Strings(ourFeatures) \in Seq(Tokens)
  BY <1>2, StringsIs
<1>4. Len(Strings(ourFeatures)) = 3 /\ Head(Strings(ourFeatures)) = Word(2)
  <2> DEFINE u == [i \in 1 .. Len(ourFeatures) |-> Text(ourFeatures[i])]
  <2>1. Strings(ourFeatures) = <<Word(Len(ourFeatures))>> \o u /\ u \in Seq(Tokens)
    BY <1>2, StringsIs
  <2>2. Len(u) = 2
    BY <1>2
  <2>3. Word(2) \in Tokens
    BY TokenTypes
  <2>4. Strings(ourFeatures) = <<Word(2)>> \o u
    BY <1>2, <2>1
  <2>5. Len(<<Word(2)>> \o u) = 3 /\ Head(<<Word(2)>> \o u) = Word(2)
    <3> DEFINE x == Word(2)
    <3>1. u \in Seq(Tokens) /\ x \in Tokens /\ Len(u) = 2
      BY <2>1, <2>2, <2>3
    <3> HIDE DEF u, x
    <3> DEFINE h == <<x>>
    <3>2. h \in Seq(Tokens) /\ Len(h) = 1 /\ h[1] = x
      BY <3>1
    <3> HIDE DEF h
    <3>3. Joins(Tokens, h, u, h \o u)
      BY <3>1, <3>2, TwoParts
    <3>4. h \o u \in Seq(Tokens) /\ Len(h \o u) = 3 /\ (h \o u)[1] = x
      BY <3>1, <3>2, <3>3 DEF Joins
    <3>5. Head(h \o u) = (h \o u)[1]
      BY <3>4
    <3>6. QED
      BY <3>4, <3>5 DEF h, x
  <2> HIDE DEF u
  <2>6. QED
    BY <2>4, <2>5
<1>5. QED
  BY <1>1, <1>3, <1>4, EmitsExchanging, EmitsStubbing DEF Hail, Zeros

-----------------------------------------------------------------------------
\* Wherever the call is, what is under way to the client takes it to an end.
LEMMA StageEnds ==
    ASSUME NEW q
    PROVE  /\ Ends(Exchanging, q) /\ Ends(Stubbing, q) /\ Ends(Rest, q)
           /\ Ends(<<Drain>> \o Rest, q) /\ \A r : Ends(Answering(r), q)
<1>1. Listens(Drain)
  BY DEF Listens, Drain
<1>2. Ends(Exchanging, q)
  BY Sayings, StageTypes DEF Ends
<1>3. Ends(Stubbing, q)
  <2>1. Zeros \in Seq(Tokens) /\ Stubbed \in Seq(Steps) /\ Emits(Stubbing, Zeros, Stubbed)
    BY Sayings, StageTypes
  <2>2. QED
    BY <2>1 DEF Ends
<1>4. QED
  BY <1>1, <1>2, <1>3, StageHeads DEF Ends, Opens

\* A client that is to say something is at a write, a flush or what it waits for.
LEMMA SayingHeads ==
    ASSUME NEW e \in Seq(Steps), e # <<>>, Listens(Head(e)), NEW read, NEW whole,
           Saying(e, read, whole), todo \in Seq(Steps)
    PROVE  Heading /\ (buffered # <<>> => Writing)
<1>1. Run(Here, down, At(todo, NoPath))
  <2>1. down = <<>> /\ Here = At(todo, NoPath)
    BY DEF Saying, Here
  <2>2. QED
    BY <2>1, RunNothing
<1>2. CASE todo = e /\ buffered = <<>>
  BY <1>1, <1>2 DEF Heading, Ends
<1>3. CASE \E w \in Seq(Tokens) : Emits(todo, w, e)
  BY <1>1, <1>3 DEF Heading, Writing, Ends
<1>4. QED
  BY <1>2, <1>3 DEF Saying

\* A client that hears something is at what reads it.
LEMMA HearingHeads ==
    ASSUME NEW e \in Seq(Steps), NEW q, Hearing(e, q), Ends(e, q)
    PROVE  Heading /\ (buffered # <<>> => Writing)
BY DEF Hearing, Heading

\* In every stage of a call the client's next step is one the stage has.
LEMMA Headed ==
    ASSUME TypeOK, Busy, Stage
    PROVE  Heading /\ (buffered # <<>> => Writing)
<1>1. /\ todo \in Seq(Steps) /\ daemon.state \in States /\ conn.req \in Requests
      /\ daemon.state # "away"
  BY BusyCall DEF TypeOK, Stage
<1>2. /\ Listens(Expect(Word(workerMagic2))) /\ Listens(Repeat(<<Feature>>))
      /\ Listens(Skip("text")) /\ Listens(Drain)
  BY DEF Listens, Expect, Repeat, Skip, Drain
<1>3. CASE daemon.state = "hello"
  BY <1>1, <1>2, <1>3, StageHeads, SayingHeads DEF Stage, Opens
<1>4. CASE daemon.state = "features"
  <2>1. CASE Hearing(Exchanging, NoPath)
    BY <2>1, StageTypes, StageEnds, HearingHeads
  <2>2. CASE Saying(Listing, <<>>, Strings(ourFeatures))
    BY <1>1, <1>2, <2>2, StageHeads, SayingHeads DEF Opens
  <2>3. QED
    BY <1>4, <2>1, <2>2 DEF Stage
<1>5. CASE daemon.state = "stubs"
  <2>1. CASE Hearing(Stubbing, NoPath)
    BY <2>1, StageTypes, StageEnds, HearingHeads
  <2>2. CASE Saying(Stubbed, <<>>, Zeros)
    BY <1>1, <1>2, <2>2, StageHeads, SayingHeads DEF Opens
  <2>3. QED
    BY <1>5, <2>1, <2>2 DEF Stage
<1>6. CASE daemon.state = "greeting"
  <2>1. <<Drain>> \o Rest \in Seq(Steps)
    BY StageHeads DEF Opens
  <2>2. QED
    BY <1>6, <2>1, StageEnds, HearingHeads DEF Stage
<1>7. CASE daemon.state = "ready"
  <2>1. CASE Hearing(Rest, NoPath)
    BY <2>1, StageTypes, StageEnds, HearingHeads
  <2>2. CASE Saying(Answering(conn.req), daemon.request, Whole(conn.req))
    BY <1>1, <1>2, <2>2, StageHeads, SayingHeads DEF Opens
  <2>3. CASE conn.req \in performed /\ Hearing(<<Return>>, PathOf(conn.req))
    <3>1. <<Return>> \in Seq(Steps) /\ Ends(<<Return>>, PathOf(conn.req))
      BY <2>3, StepTypes DEF Ends
    <3>2. QED
      BY <2>3, <3>1, HearingHeads
  <2>4. QED
    BY <1>7, <2>1, <2>2, <2>3 DEF Stage
<1>8. CASE daemon.state = "working"
  <2>1. Hearing(Answering(conn.req), NoPath) /\ Answering(conn.req) \in Seq(Steps)
    BY <1>8, StageTypes DEF Stage
  <2>2. Ends(Answering(conn.req), NoPath)
    BY StageEnds
  <2>3. QED
    BY <2>1, <2>2, HearingHeads
<1>9. CASE daemon.state = "gone"
  BY <1>9 DEF Stage
<1>10. QED
  BY <1>1, <1>3, <1>4, <1>5, <1>6, <1>7, <1>8, <1>9 DEF States

-----------------------------------------------------------------------------
\* Where a client goes when it takes what is under way to it.
Taken(do, steps, e, q) ==
    /\ Becomes(Head(todo), Head(down), steps) /\ Head(todo).do = do
    /\ Run(At(steps \o Tail(todo), IF Head(todo) = ReadPath THEN Head(down).val ELSE conn.path),
           down', At(e, q))
    /\ down' \in Seq(Tokens) /\ Head(down).val \in Values
    /\ steps \o Tail(todo) \in Seq(Steps)

\* A read of what the daemon meant for it becomes what Becomes says.
LEMMA Took ==
    ASSUME TypeOK, NEW do, NEW kind, Take(do, kind), NEW e, NEW q, Run(Here, down, At(e, q))
    PROVE  \E steps \in Seq(Steps) : Taken(do, steps, e, q)
<1>1. /\ todo # <<>> /\ down # <<>> /\ Head(todo).do = do /\ down' = Tail(down)
  BY DEF Take, Step, Reading
<1>2. down \in Seq(Tokens) /\ todo \in Seq(Steps)
  BY DEF TypeOK
<1>3. PICK steps \in Seq(Steps) :
          /\ Becomes(Head(todo), Head(down), steps)
          /\ Run(At(steps \o Tail(todo),
                    IF Head(todo) = ReadPath THEN Head(down).val ELSE conn.path),
                 Tail(down), At(e, q))
  BY <1>1, <1>2, NextRead DEF Here
<1>4. Tail(down) \in Seq(Tokens) /\ Head(down).val \in Values
  <2>1. Head(down) \in Tokens
    BY <1>1, <1>2
  <2>2. QED
    BY <1>1, <1>2, <2>1 DEF Tokens
<1>5. steps \o Tail(todo) \in Seq(Steps)
  BY <1>1, <1>2
<1>6. QED
  BY <1>1, <1>3, <1>4, <1>5 DEF Taken

\* Reading on, towards e, or failing because the daemon is of another age.
Follows(e, q) ==
    /\ down' \in Seq(Tokens)
    /\ \/ /\ conn'.state = "busy" /\ conn'.path \in Paths
          /\ todo' \in Seq(Steps) /\ Run(At(todo', conn'.path), down', At(e, q))
       \/ conn'.state = "failed" /\ todo' = <<>> /\ conn'.path = conn.path
              /\ e # <<>> /\ Head(e) = Raise

\* The client goes where it was going when its step becomes what Becomes says.
LEMMA Continuing ==
    ASSUME TypeOK, Busy, NEW do, do # "path", NEW steps, NEW e, NEW q, Taken(do, steps, e, q),
           todo' = steps \o Tail(todo), conn' = conn
    PROVE  Follows(e, q)
<1>1. Head(todo) # ReadPath
  BY Hears DEF Taken
<1>2. conn.state = "busy" /\ conn.path \in Paths
  BY BusyCall
<1>3. QED
  BY <1>1, <1>2 DEF Follows, Taken

\* Skipping a token takes a client on.
LEMMA SkipStepFollows ==
    ASSUME TypeOK, Busy, SkipStep, NEW e, NEW q, Run(Here, down, At(e, q))
    PROVE  Follows(e, q)
<1>1. PICK steps \in Seq(Steps) : Taken("skip", steps, e, q)
  BY Took DEF SkipStep
<1>2. steps = <<>>
  BY <1>1, Hears DEF Taken
<1>3. todo' = steps \o Tail(todo) /\ conn' = conn
  BY <1>2 DEF SkipStep, Continue, Then
<1>4. QED
  BY <1>1, <1>3, Continuing

\* An expected token is the one that comes, and takes a client on.
LEMMA ExpectStepFollows ==
    ASSUME TypeOK, Busy, ExpectStep, NEW e, NEW q, Run(Here, down, At(e, q))
    PROVE  Follows(e, q)
<1>1. PICK steps \in Seq(Steps) : Taken("expect", steps, e, q)
  BY Took DEF ExpectStep
<1>2. steps = <<>> /\ Head(down) = Head(todo).token
  BY <1>1, Hears DEF Taken
<1>3. todo' = steps \o Tail(todo) /\ conn' = conn
  BY <1>2 DEF ExpectStep, Continue, Then
<1>4. QED
  BY <1>1, <1>3, Continuing

\* Reading a feature takes a client on.
LEMMA FeatureStepFollows ==
    ASSUME TypeOK, Busy, FeatureStep, NEW e, NEW q, Run(Here, down, At(e, q))
    PROVE  Follows(e, q)
<1>1. PICK steps \in Seq(Steps) : Taken("feature", steps, e, q)
  BY Took DEF FeatureStep
<1>2. steps = <<>>
  BY <1>1, Hears DEF Taken
<1>3. todo' = steps \o Tail(todo) /\ conn' = conn
  BY <1>2 DEF FeatureStep, Continue, Then
<1>4. QED
  BY <1>1, <1>3, Continuing

\* Reading the type of a field takes a client on.
LEMMA FieldStepFollows ==
    ASSUME TypeOK, Busy, FieldStep, NEW e, NEW q, Run(Here, down, At(e, q))
    PROVE  Follows(e, q)
<1>1. PICK steps \in Seq(Steps) : Taken("field", steps, e, q)
  BY Took DEF FieldStep
<1>2. \/ Head(down).val = 0 /\ steps = <<Skip("word")>>
      \/ Head(down).val = 1 /\ steps = <<Skip("text")>>
  BY <1>1, Hears DEF Taken
<1>3. todo' = steps \o Tail(todo) /\ conn' = conn
  <2>1. /\ conn' = conn
        /\ \/ Head(down).val = 0 /\ todo' = <<Skip("word")>> \o Tail(todo)
           \/ Head(down).val = 1 /\ todo' = <<Skip("text")>> \o Tail(todo)
    BY DEF FieldStep, Then
  <2>2. 0 # 1
    OBVIOUS
  <2>3. QED
    BY <1>2, <2>1, <2>2, Zenon
<1>4. QED
  BY <1>1, <1>3, Continuing

\* Reading a marker takes a client on.
LEMMA DrainStepFollows ==
    ASSUME TypeOK, Busy, DrainStep, NEW e, NEW q, Run(Here, down, At(e, q))
    PROVE  Follows(e, q)
<1>1. PICK steps \in Seq(Steps) : Taken("drain", steps, e, q)
  BY Took DEF DrainStep
<1>2. steps = afterMarker(Head(down).val)
  BY <1>1, Hears DEF Taken
<1>3. todo' = steps \o Tail(todo) /\ conn' = conn
  BY <1>2 DEF DrainStep, Then
<1>4. QED
  BY <1>1, <1>3, Continuing

\* Reading the path takes a client on.
LEMMA PathStepFollows ==
    ASSUME TypeOK, Busy, PathStep, NEW e, NEW q, Run(Here, down, At(e, q))
    PROVE  Follows(e, q)
<1>1. PICK steps \in Seq(Steps) : Taken("path", steps, e, q)
  BY Took DEF PathStep
<1>2. steps = <<>> /\ Head(todo) = ReadPath
  BY <1>1, Hears DEF Taken
<1>3. todo' = steps \o Tail(todo)
  BY <1>2 DEF PathStep, Continue, Then
<1>4. conn'.state = "busy" /\ conn'.path = Head(down).val
  BY BusyCall DEF PathStep
<1>5. Head(down).val \in Paths
  BY <1>1 DEF Taken, Paths
<1>6. QED
  BY <1>1, <1>2, <1>3, <1>4, <1>5 DEF Follows, Taken

\* Reading a count takes a client on.
LEMMA RepeatStepFollows ==
    ASSUME TypeOK, Busy, RepeatStep, NEW e, NEW q, Run(Here, down, At(e, q))
    PROVE  Follows(e, q)
<1>1. PICK steps \in Seq(Steps) : Taken("repeat", steps, e, q)
  BY Took DEF RepeatStep
<1> DEFINE n == Head(down).val
           item == Head(todo).item
           f == CHOOSE f : Repeating(f, item, n)
<1>2. n \in Nat /\ Copies(steps, item, n)
  BY <1>1, Hears DEF Taken
<1>3. todo' = f[n] \o Tail(todo) /\ conn' = conn
  BY DEF RepeatStep, Then, Repeating
<1>4. Repeating(f, item, n)
  <2>1. \E g : Repeating(g, item, n)
    BY <1>2, RepeatingExists
  <2> HIDE DEF n, item
  <2>2. QED
    BY <2>1
<1> HIDE DEF n, item, f
<1>5. Copies(f[n], item, n)
  BY <1>2, <1>4, RepeatingCopies
<1>6. steps = f[n]
  BY <1>2, <1>5, CopiesUnique
<1>7. QED
  BY <1>1, <1>3, <1>6, Continuing

\* Reading the daemon's version takes a client on.
LEMMA VersionStepFollows ==
    ASSUME TypeOK, Busy, VersionStep, NEW e \in Seq(Steps), NEW q, Run(Here, down, At(e, q))
    PROVE  Follows(e, q)
<1>1. PICK steps \in Seq(Steps) : Taken("version", steps, e, q)
  BY Took DEF VersionStep
<1> DEFINE v == Head(down).val
<1>2. v \in Nat /\ steps = AfterVersion(v)
  BY <1>1, Hears DEF Taken
<1>3. CASE daemonVersion(v) \div 256 # protoMajor
  <2>1. steps = <<Raise>>
    BY <1>2, <1>3 DEF AfterVersion
  <2>2. conn'.state = "failed" /\ todo' = <<>> /\ conn'.path = conn.path
    BY <1>3, BusyCall DEF VersionStep, Failed
  <2>3. Head(todo) # ReadPath
    BY <1>1, Hears DEF Taken
  <2> DEFINE s == steps \o Tail(todo)
  <2>4. s \in Seq(Steps) /\ s # <<>> /\ Head(s) = Raise
    <3>1. Tail(todo) \in Seq(Steps) /\ Raise \in Steps
      <4>1. todo \in Seq(Steps) /\ todo # <<>>
        BY DEF TypeOK, VersionStep, Take, Step, Reading
      <4>2. QED
        BY <4>1, StepTypes
    <3>2. QED
      BY <2>1, <3>1
  <2>5. Run(At(s, conn.path), down', At(e, q)) /\ down' \in Seq(Tokens)
    BY <1>1, <2>3 DEF Taken
  <2>6. ~Listens(Raise)
    BY DEF Listens, Raise
  <2> HIDE DEF s
  <2>7. ~Listens(Head(s))
    BY <2>4, <2>6
  <2>8. At(e, q) = At(s, conn.path)
    <3>1. s \in Seq(Steps) /\ s # <<>>
      BY <2>4
    <3>2. ASSUME NEW p, NEW c, NEW t \in Seq(Tokens), Run(At(s, p), t, c) PROVE c = At(s, p)
      BY <2>7, <3>1, <3>2, Stuck
    <3>3. QED
      BY <2>5, <3>2
  <2>9. e = s
    BY <2>8 DEF At
  <2>10. QED
    BY <2>2, <2>4, <2>5, <2>9 DEF Follows
<1>4. CASE daemonVersion(v) \div 256 = protoMajor
  <2>1. todo' = steps \o Tail(todo) /\ conn' = conn
    BY <1>2, <1>4 DEF VersionStep, Then, AfterVersion
  <2>2. QED
    BY <1>1, <2>1, Continuing
<1>5. QED
  BY <1>3, <1>4

-----------------------------------------------------------------------------
\* The invariant of the next state, in its parts.
HearingNext(e, q) ==
    up' = <<>> /\ buffered' = <<>> /\ Run(At(todo', conn'.path), down', At(e, q))

SayingNext(e, read, whole) ==
    /\ down' = <<>> /\ conn'.path = NoPath
    /\ \/ todo' = e /\ buffered' = <<>> /\ read \o up' = whole
       \/ \E w \in Seq(Tokens) : /\ Emits(todo', w, e) /\ buffered' \o w # <<>>
                                 /\ read \o (up' \o (buffered' \o w)) = whole

EndsNext(e, q) ==
    \/ e # <<>> /\ (Listens(Head(e)) \/ Head(e) = Raise)
    \/ e = Rest
    \/ \E w \in Seq(Tokens), d \in Seq(Steps) : Emits(e, w, d)
    \/ e = <<Return>> /\ q = PathOf(conn'.req) /\ conn'.req \in performed'

HeadingNext ==
    \E e, q : /\ e \in Seq(Steps) /\ Run(At(todo', conn'.path), down', At(e, q))
              /\ EndsNext(e, q)
WritingNext == \E w \in Seq(Tokens), d \in Seq(Steps) : Emits(todo', w, d)

StageNext ==
    /\ daemon'.state # "away"
    /\ daemon'.state = "hello" => SayingNext(Greeting, <<>>, Hail)
    /\ daemon'.state = "features" =>
           HearingNext(Exchanging, NoPath) \/ SayingNext(Listing, <<>>, Strings(ourFeatures))
    /\ daemon'.state = "stubs" =>
           HearingNext(Stubbing, NoPath) \/ SayingNext(Stubbed, <<>>, Zeros)
    /\ daemon'.state = "greeting" => HearingNext(<<Drain>> \o Rest, NoPath)
    /\ daemon'.state = "ready" =>
           \/ daemon'.request = <<>> /\ HearingNext(Rest, NoPath)
           \/ SayingNext(Answering(conn'.req), daemon'.request, Whole(conn'.req))
           \/ daemon'.request = <<>> /\ conn'.req \in performed'
                  /\ HearingNext(<<Return>>, PathOf(conn'.req))
    /\ daemon'.state = "working" =>
           /\ daemon'.request = Whole(conn'.req)
           /\ daemon'.served => conn'.req \in performed'
           /\ HearingNext(Answering(conn'.req), NoPath)
    /\ daemon'.state = "gone" => up' = <<>> /\ HeadingNext /\ (buffered' # <<>> => WritingNext)

SilentNext ==
    /\ todo' = <<>> /\ up' = <<>>
    /\ daemon'.state \in {"away", "gone", "ready"}
    /\ daemon'.state = "ready" => daemon'.request = <<>>
    /\ conn'.state = "returned" =>
           /\ down' = <<>> /\ buffered' = <<>>
           /\ conn'.path = PathOf(conn'.req) /\ conn'.req \in performed'

\* StageNext is Stage after a step.
LEMMA NextStage ==
    ASSUME StageNext
    PROVE  Stage'
<1>1. daemon'.state = "hello" => Saying(Greeting, <<>>, Hail)'
  BY DEF StageNext, Saying, SayingNext
<1>2. daemon'.state = "features" =>
           (Hearing(Exchanging, NoPath) \/ Saying(Listing, <<>>, Strings(ourFeatures)))'
  BY DEF StageNext, Hearing, HearingNext, Here, Saying, SayingNext
<1>3. daemon'.state = "stubs" => (Hearing(Stubbing, NoPath) \/ Saying(Stubbed, <<>>, Zeros))'
  BY DEF StageNext, Hearing, HearingNext, Here, Saying, SayingNext
<1>4. daemon'.state = "greeting" => Hearing(<<Drain>> \o Rest, NoPath)'
  BY DEF StageNext, Hearing, HearingNext, Here
<1>5. daemon'.state = "ready" =>
           (\/ daemon.request = <<>> /\ Hearing(Rest, NoPath)
            \/ Saying(Answering(conn.req), daemon.request, Whole(conn.req))
            \/ daemon.request = <<>> /\ conn.req \in performed
                   /\ Hearing(<<Return>>, PathOf(conn.req)))'
  BY DEF StageNext, Hearing, HearingNext, Here, Saying, SayingNext
<1>6. daemon'.state = "working" =>
           (/\ daemon.request = Whole(conn.req)
            /\ daemon.served => conn.req \in performed
            /\ Hearing(Answering(conn.req), NoPath))'
  BY DEF StageNext, Hearing, HearingNext, Here
<1>7. daemon'.state = "gone" => (up = <<>> /\ Heading /\ (buffered # <<>> => Writing))'
  BY DEF StageNext, HeadingNext, Heading, Here, Ends, EndsNext, Writing, WritingNext
<1>8. daemon'.state # "away"
  BY DEF StageNext
<1>9. QED
  BY <1>1, <1>2, <1>3, <1>4, <1>5, <1>6, <1>7, <1>8 DEF Stage

\* The invariant holds after a step from its parts.
LEMMA NextIInv ==
    ASSUME TypeOK', conn'.state = "busy" => StageNext, conn'.state # "busy" => SilentNext
    PROVE  IInv'
<1>1. Busy' => Stage'
  BY NextStage DEF Busy
<1>2. ~Busy' => Silent'
  BY DEF Busy, Silent, SilentNext
<1>3. QED
  BY <1>1, <1>2 DEF IInv

-----------------------------------------------------------------------------
\* What no step of the client changes, and what a call stays.
Calling(s) == [state : s, req : Requests, path : Paths]

\* Types after a step of the client.
LEMMA ClientTypes ==
    ASSUME TypeOK, daemon' = daemon, up' \in Seq(Tokens), down' \in Seq(Tokens),
           buffered' \in Seq(Tokens), todo' \in Seq(Steps),
           conn' \in Calling({"busy", "returned", "failed"})
    PROVE  TypeOK'
BY DEF TypeOK, Calling

\* The steps that read.
Listening ==
    \/ SkipStep \/ ExpectStep \/ PathStep \/ RepeatStep \/ FieldStep \/ VersionStep
    \/ FeatureStep \/ DrainStep

\* Every read takes a client on.
LEMMA ListeningFollows ==
    ASSUME TypeOK, Busy, Listening, NEW e \in Seq(Steps), NEW q, Run(Here, down, At(e, q))
    PROVE  Follows(e, q)
BY SkipStepFollows, ExpectStepFollows, PathStepFollows, RepeatStepFollows, FieldStepFollows,
   VersionStepFollows, FeatureStepFollows, DrainStepFollows DEF Listening

\* What a read leaves alone.
LEMMA ListeningFrame ==
    ASSUME TypeOK, Busy, Listening
    PROVE  /\ down # <<>> /\ up' = up /\ buffered' = buffered
           /\ daemon' = daemon /\ performed' = performed
           /\ conn' \in Calling({"busy", "failed"}) /\ conn'.req = conn.req
<1>1. conn \in Calling({"busy"}) /\ down \in Seq(Tokens)
  BY BusyCall DEF TypeOK, Calling
<1>2. ASSUME NEW do, NEW kind, Take(do, kind)
      PROVE  /\ down # <<>> /\ up' = up /\ buffered' = buffered
             /\ daemon' = daemon /\ performed' = performed
             /\ Head(down).val \in Paths
  <2>1. down # <<>>
    BY <1>2 DEF Take
  <2>2. Head(down) \in Tokens
    BY <1>1, <2>1
  <2>3. QED
    BY <1>2, <2>1, <2>2 DEF Take, Quiet, Tokens, Paths
<1>3. ASSUME conn' = conn PROVE conn' \in Calling({"busy", "failed"}) /\ conn'.req = conn.req
  BY <1>1, <1>3 DEF Calling
<1>4. ASSUME Failed PROVE conn' \in Calling({"busy", "failed"}) /\ conn'.req = conn.req
  BY <1>1, <1>4 DEF Calling, Failed
<1>5. CASE SkipStep
  BY <1>2, <1>3, <1>5 DEF SkipStep
<1>6. CASE ExpectStep
  BY <1>2, <1>3, <1>4, <1>6 DEF ExpectStep
<1>7. CASE PathStep
  <2>1. conn' = [conn EXCEPT !.path = Head(down).val] /\ Take("path", "text")
    BY <1>7 DEF PathStep
  <2>2. Head(down).val \in Paths
    BY <1>2, <2>1
  <2>3. conn' \in Calling({"busy", "failed"}) /\ conn'.req = conn.req
    BY <1>1, <2>1, <2>2 DEF Calling
  <2>4. QED
    BY <1>2, <2>1, <2>3
<1>8. CASE RepeatStep
  BY <1>2, <1>3, <1>8 DEF RepeatStep
<1>9. CASE FieldStep
  BY <1>2, <1>3, <1>9 DEF FieldStep
<1>10. CASE VersionStep
  BY <1>2, <1>3, <1>4, <1>10 DEF VersionStep
<1>11. CASE FeatureStep
  BY <1>2, <1>3, <1>11 DEF FeatureStep
<1>12. CASE DrainStep
  BY <1>2, <1>3, <1>12 DEF DrainStep
<1>13. QED
  BY <1>5, <1>6, <1>7, <1>8, <1>9, <1>10, <1>11, <1>12 DEF Listening

\* A daemon that talks sends no client away.
LEMMA NotRaised ==
    /\ Head(Exchanging) # Raise /\ Head(Stubbing) # Raise /\ Head(Rest) # Raise
    /\ Head(<<Drain>> \o Rest) # Raise /\ Head(<<Return>>) # Raise
    /\ \A r : Head(Answering(r)) # Raise
<1>1. Raise.do = "raise"
  BY DEF Raise
<1>2. Head(Exchanging).do # "raise" /\ Head(Stubbing).do # "raise"
  BY Sayings, StageTypes, Writes
<1>3. Drain # Raise /\ Operate # Raise /\ Return # Raise
  BY DEF Drain, Operate, Return, Raise
<1>4. Head(<<Return>>) = Return
  OBVIOUS
<1>5. QED
  BY <1>1, <1>2, <1>3, <1>4, StageHeads DEF Opens

\* A client that hears something is still hearing it after a read.
LEMMA HearingOn ==
    ASSUME TypeOK, Busy, Listening, NEW e \in Seq(Steps), NEW q, Hearing(e, q), Head(e) # Raise
    PROVE  conn'.state = "busy" /\ HearingNext(e, q)
<1>1. Follows(e, q)
  BY ListeningFollows DEF Hearing
<1>2. QED
  BY <1>1, ListeningFrame DEF Hearing, HearingNext, Follows

\* Reads keep the invariant.
LEMMA ListeningKeeps ==
    ASSUME IInv, Busy, Listening
    PROVE  IInv'
<1>1. /\ TypeOK /\ Stage /\ Heading /\ daemon.state \in States /\ daemon.state # "away"
      /\ buffered # <<>> => Writing
  BY Headed DEF IInv, TypeOK, Stage
<1>2. /\ down # <<>> /\ up' = up /\ buffered' = buffered
      /\ daemon' = daemon /\ performed' = performed
      /\ conn' \in Calling({"busy", "failed"}) /\ conn'.req = conn.req
  BY <1>1, ListeningFrame
<1>3. PICK e, q : e \in Seq(Steps) /\ Run(Here, down, At(e, q)) /\ Ends(e, q)
  BY <1>1 DEF Heading
<1>4. Follows(e, q)
  BY <1>1, <1>3, ListeningFollows
<1>5. TypeOK'
  <2>1. down' \in Seq(Tokens) /\ todo' \in Seq(Steps)
    BY <1>4, <<>> \in Seq(Steps) DEF Follows
  <2>2. up' \in Seq(Tokens) /\ buffered' \in Seq(Tokens)
    BY <1>1, <1>2 DEF TypeOK
  <2>3. conn' \in Calling({"busy", "returned", "failed"})
    BY <1>2 DEF Calling
  <2>4. QED
    BY <1>1, <1>2, <2>1, <2>2, <2>3, ClientTypes
<1>6. \A e1, r1, w1 : ~Saying(e1, r1, w1)
  BY <1>2 DEF Saying
<1>7. ASSUME NEW e1 \in Seq(Steps), NEW q1, Hearing(e1, q1), Head(e1) # Raise
      PROVE  conn'.state = "busy" /\ HearingNext(e1, q1)
  BY <1>1, <1>7, HearingOn
<1>8. CASE daemon.state = "hello"
  BY <1>1, <1>6, <1>8 DEF Stage
<1>9. CASE daemon.state = "features"
  <2>1. Hearing(Exchanging, NoPath)
    BY <1>1, <1>6, <1>9 DEF Stage
  <2>2. conn'.state = "busy" /\ HearingNext(Exchanging, NoPath)
    BY <1>7, <2>1, NotRaised, StageTypes
  <2>3. QED
    BY <1>2, <1>5, <1>9, <2>2, NextIInv DEF StageNext
<1>10. CASE daemon.state = "stubs"
  <2>1. Hearing(Stubbing, NoPath)
    BY <1>1, <1>6, <1>10 DEF Stage
  <2>2. conn'.state = "busy" /\ HearingNext(Stubbing, NoPath)
    BY <1>7, <2>1, NotRaised, StageTypes
  <2>3. QED
    BY <1>2, <1>5, <1>10, <2>2, NextIInv DEF StageNext
<1>11. CASE daemon.state = "greeting"
  <2>1. Hearing(<<Drain>> \o Rest, NoPath) /\ <<Drain>> \o Rest \in Seq(Steps)
    BY <1>1, <1>11, StageHeads DEF Stage, Opens
  <2>2. conn'.state = "busy" /\ HearingNext(<<Drain>> \o Rest, NoPath)
    BY <1>7, <2>1, NotRaised
  <2>3. QED
    BY <1>2, <1>5, <1>11, <2>2, NextIInv DEF StageNext
<1>12. CASE daemon.state = "ready"
  <2>1. CASE daemon.request = <<>> /\ Hearing(Rest, NoPath)
    <3>1. conn'.state = "busy" /\ HearingNext(Rest, NoPath)
      BY <1>7, <2>1, NotRaised, StageTypes
    <3>2. QED
      BY <1>2, <1>5, <1>12, <2>1, <3>1, NextIInv DEF StageNext
  <2>2. CASE /\ daemon.request = <<>> /\ conn.req \in performed
             /\ Hearing(<<Return>>, PathOf(conn.req))
    <3>1. PICK p : p = PathOf(conn.req)
      OBVIOUS
    <3>2. <<Return>> \in Seq(Steps)
      BY StepTypes
    <3>3. conn'.state = "busy" /\ HearingNext(<<Return>>, p)
      BY <1>7, <2>2, <3>1, <3>2, NotRaised
    <3>4. QED
      BY <1>2, <1>5, <1>12, <2>2, <3>1, <3>3, NextIInv DEF StageNext
  <2>3. QED
    BY <1>1, <1>6, <1>12, <2>1, <2>2 DEF Stage
<1>13. CASE daemon.state = "working"
  <2>1. PICK r : r = conn.req
    OBVIOUS
  <2>2. /\ daemon.request = Whole(conn.req) /\ (daemon.served => conn.req \in performed)
        /\ Hearing(Answering(r), NoPath)
    BY <1>1, <1>13, <2>1 DEF Stage
  <2>3. conn'.state = "busy" /\ HearingNext(Answering(r), NoPath)
    BY <1>7, <2>2, NotRaised, StageTypes
  <2>4. QED
    BY <1>2, <1>5, <1>13, <2>1, <2>2, <2>3, NextIInv DEF StageNext
<1>14. CASE daemon.state = "gone"
  <2>1. up' = <<>>
    BY <1>1, <1>2, <1>14 DEF Stage
  <2>2. CASE conn'.state = "failed"
    BY <1>2, <1>4, <1>5, <1>14, <2>1, <2>2, NextIInv DEF SilentNext, Follows
  <2>3. CASE conn'.state = "busy"
    <3>1. Run(At(todo', conn'.path), down', At(e, q))
      BY <1>4, <2>3 DEF Follows
    <3>2. EndsNext(e, q)
      BY <1>2, <1>3 DEF Ends, EndsNext
    <3>3. HeadingNext
      BY <1>3, <3>1, <3>2 DEF HeadingNext
    <3>4. buffered' = <<>>
      <4>1. ASSUME buffered # <<>> PROVE FALSE
        <5>1. PICK w \in Seq(Tokens), d \in Seq(Steps) : Emits(todo, w, d)
          BY <1>1, <4>1 DEF Writing
        <5>2. todo \in Seq(Steps) /\ down \in Seq(Tokens) /\ Here = At(todo, conn.path)
          BY <1>1 DEF TypeOK, Here
        <5>3. todo # <<>> /\ ~Listens(Head(todo))
          BY <5>1, <5>2, Writes
        <5>4. QED
          BY <1>2, <1>3, <5>2, <5>3, Stuck
      <4>2. QED
        BY <1>2, <4>1
    <3>5. QED
      BY <1>2, <1>5, <1>14, <2>1, <2>3, <3>3, <3>4, NextIInv DEF StageNext
  <2>4. QED
    BY <1>2, <2>2, <2>3 DEF Calling
<1>15. QED
  BY <1>1, <1>8, <1>9, <1>10, <1>11, <1>12, <1>13, <1>14 DEF States

-----------------------------------------------------------------------------
\* Who is about to write has heard the daemon out.
LEMMA HeardOut ==
    ASSUME TypeOK, NEW e, NEW q, Hearing(e, q), todo # <<>>, ~Listens(Head(todo))
    PROVE  todo = e /\ conn.path = q /\ down = <<>>
<1>1. todo \in Seq(Steps) /\ down \in Seq(Tokens) /\ Run(At(todo, conn.path), down, At(e, q))
  BY DEF TypeOK, Hearing, Here
<1>2. down = <<>> /\ At(e, q) = At(todo, conn.path)
  BY <1>1, Stuck
<1>3. QED
  BY <1>2 DEF At

\* A client that has heard all and has something to say is saying it.
LEMMA Speaks ==
    ASSUME TypeOK, NEW e, Hearing(e, NoPath), todo # <<>>, ~Listens(Head(todo)),
           NEW whole \in Seq(Tokens), whole # <<>>, NEW d, Emits(e, whole, d)
    PROVE  Saying(d, <<>>, whole)
<1>1. todo = e /\ conn.path = NoPath /\ down = <<>> /\ up = <<>> /\ buffered = <<>>
  BY HeardOut DEF Hearing
<1>2. <<>> \o (<<>> \o (<<>> \o whole)) = whole /\ <<>> \o whole # <<>>
  OBVIOUS
<1>3. QED
  BY <1>1, <1>2 DEF Saying

\* What is said at each stage.
Said(e, read, whole) ==
    /\ Saying(e, read, whole)
    /\ \/ daemon.state = "hello" /\ e = Greeting /\ read = <<>> /\ whole = Hail
       \/ daemon.state = "features" /\ e = Listing /\ read = <<>> /\ whole = Strings(ourFeatures)
       \/ daemon.state = "stubs" /\ e = Stubbed /\ read = <<>> /\ whole = Zeros
       \/ daemon.state = "ready" /\ e = Answering(conn.req) /\ read = daemon.request
              /\ whole = Whole(conn.req)

\* A client that writes or flushes is saying something.
LEMMA WritingStage ==
    ASSUME TypeOK, Busy, Stage, todo # <<>>, Head(todo).do \in {"write", "flush"},
           daemon.state # "gone"
    PROVE  \E e, read, whole :
               e \in Seq(Steps) /\ read \in Seq(Tokens) /\ Said(e, read, whole)
<1>1. ~Listens(Head(todo)) /\ Head(todo) \notin {Drain, Operate, Return}
  BY DEF Listens, Drain, Operate, Return
<1>2. daemon.state \in States /\ daemon.request \in Seq(Tokens) /\ daemon.state # "away"
  BY DEF TypeOK, Stage
<1>3. <<>> \in Seq(Tokens)
  OBVIOUS
<1>4. ASSUME NEW e, NEW q, Hearing(e, q) PROVE Head(e) \notin {Drain, Operate, Return}
  BY <1>1, <1>4, HeardOut
<1>5. /\ \A q : ~Hearing(<<Drain>> \o Rest, q) /\ ~Hearing(Rest, q) /\ ~Hearing(<<Return>>, q)
      /\ \A r, q : ~Hearing(Answering(r), q)
  <2>1. Head(<<Return>>) = Return
    OBVIOUS
  <2>2. QED
    BY <1>4, <2>1, StageHeads DEF Opens
<1>6. CASE daemon.state = "hello"
  BY <1>3, <1>6, StageTypes DEF Stage, Said
<1>7. CASE daemon.state = "features"
  <2>1. Saying(Listing, <<>>, Strings(ourFeatures))
    <3>1. CASE Hearing(Exchanging, NoPath)
      BY <1>1, <3>1, Speaks, EmitsExchanging
    <3>2. QED
      BY <1>7, <3>1 DEF Stage
  <2>2. QED
    BY <1>3, <1>7, <2>1, StageTypes DEF Said
<1>8. CASE daemon.state = "stubs"
  <2>1. Saying(Stubbed, <<>>, Zeros)
    <3>1. CASE Hearing(Stubbing, NoPath)
      BY <1>1, <3>1, Speaks, Sayings
    <3>2. QED
      BY <1>8, <3>1 DEF Stage
  <2>2. QED
    BY <1>3, <1>8, <2>1, StageTypes DEF Said
<1>9. CASE daemon.state = "greeting"
  BY <1>5, <1>9 DEF Stage
<1>10. CASE daemon.state = "ready"
  <2>1. Saying(Answering(conn.req), daemon.request, Whole(conn.req))
    BY <1>5, <1>10 DEF Stage
  <2>2. QED
    BY <1>2, <1>10, <2>1, StageTypes DEF Said
<1>11. CASE daemon.state = "working"
  BY <1>5, <1>11 DEF Stage
<1>12. QED
  BY <1>2, <1>6, <1>7, <1>8, <1>9, <1>10, <1>11 DEF States

\* A client that writes after the daemon has gone only fills its buffer.
LEMMA WritingGone ==
    ASSUME TypeOK, Busy, Stage, todo # <<>>, Head(todo).do \in {"write", "flush"},
           daemon.state = "gone"
    PROVE  down = <<>> /\ Writing
<1>1. todo \in Seq(Steps) /\ down \in Seq(Tokens) /\ ~Listens(Head(todo))
  BY DEF TypeOK, Listens
<1>2. PICK e, q : /\ e \in Seq(Steps) /\ Run(At(todo, conn.path), down, At(e, q))
                  /\ Ends(e, q)
  BY Headed DEF Heading, Here
<1>3. down = <<>> /\ At(e, q) = At(todo, conn.path)
  BY <1>1, <1>2, Stuck
<1>4. e = todo
  BY <1>3 DEF At
<1>5. Head(todo) \notin {Raise, Operate, Return}
  BY DEF Raise, Operate, Return
<1>6. todo # Rest /\ todo # <<Return>>
  <2>1. Head(<<Return>>) = Return
    OBVIOUS
  <2>2. QED
    BY <1>5, <2>1, StageHeads DEF Opens
<1>7. QED
  BY <1>1, <1>2, <1>3, <1>4, <1>5, <1>6 DEF Ends, Writing

\* A stage goes on as long as not all is said.
LEMMA SaidOn ==
    ASSUME NEW e, NEW read, NEW whole, Said(e, read, whole), SayingNext(e, read, whole),
           daemon' = daemon, conn' = conn
    PROVE  StageNext
BY DEF Said, StageNext

\* Who has its say and writes has not reached the end of it.
Unsaid(w, e, read, whole) ==
    /\ w \in Seq(Tokens) /\ Emits(todo, w, e) /\ buffered \o w # <<>>
    /\ read \o (up \o (buffered \o w)) = whole

\* Something of it is unsaid.
LEMMA StillSaying ==
    ASSUME TypeOK, NEW e \in Seq(Steps), NEW read, NEW whole, Said(e, read, whole),
           todo # <<>>, Head(todo).do \in {"write", "flush"}
    PROVE  \E w : Unsaid(w, e, read, whole)
<1>1. \A r : Opens(Answering(r), Drain)
  BY StageHeads
<1>2. Head(todo) \notin {Drain, Expect(Word(workerMagic2)), Repeat(<<Feature>>), Skip("text")}
  BY DEF Drain, Expect, Repeat, Skip
<1>3. todo # e
  BY <1>1, <1>2, StageHeads DEF Said, Opens
<1>4. QED
  BY <1>3 DEF Said, Saying, Unsaid

\* A write keeps the invariant.
LEMMA WriteStepKeeps ==
    ASSUME IInv, WriteStep
    PROVE  IInv'
<1>1. /\ todo # <<>> /\ Head(todo).do = "write" /\ Busy
      /\ buffered' = buffered \o Head(todo).tokens /\ up' = up /\ down' = down /\ conn' = conn
      /\ daemon' = daemon /\ performed' = performed
  BY DEF WriteStep, Step, Reading, Quiet
<1>2. TypeOK /\ Stage /\ conn.state = "busy" /\ conn \in Calling({"busy"})
  BY <1>1, BusyCall DEF IInv, Busy, Calling
<1>3. /\ todo \in Seq(Steps) /\ buffered \in Seq(Tokens) /\ up \in Seq(Tokens)
      /\ down \in Seq(Tokens)
  BY <1>2 DEF TypeOK
<1>4. todo' = Tail(todo)
  <2>1. Tail(todo) \in Seq(Steps)
    BY <1>1, <1>3
  <2>2. QED
    BY <2>1 DEF WriteStep, Continue, Then
<1>5. ASSUME NEW w \in Seq(Tokens), NEW d \in Seq(Steps), Emits(todo, w, d)
      PROVE  \E v \in Seq(Tokens) : /\ Head(todo).tokens \in Seq(Tokens)
                                    /\ w = Head(todo).tokens \o v /\ Emits(todo', v, d)
                                    /\ buffered' \o v = buffered \o w
  <2>1. PICK v \in Seq(Tokens) : /\ Head(todo).tokens \in Seq(Tokens)
                                 /\ w = Head(todo).tokens \o v /\ Emits(todo', v, d)
    BY <1>1, <1>3, <1>4, <1>5, Writes
  <2> DEFINE x == Head(todo).tokens
             b == buffered
  <2>2. b \in Seq(Tokens) /\ x \in Seq(Tokens)
    BY <1>3, <2>1
  <2> HIDE DEF x, b
  <2>3. (b \o x) \o v = b \o (x \o v)
    BY <2>2
  <2>4. buffered' \o v = buffered \o w
    BY <1>1, <2>1, <2>3 DEF x, b
  <2>5. QED
    BY <2>1, <2>4
<1>6. ASSUME Head(todo).tokens \in Seq(Tokens) PROVE TypeOK'
  <2>1. buffered' \in Seq(Tokens)
    BY <1>1, <1>3, <1>6
  <2>2. todo' \in Seq(Steps)
    BY <1>1, <1>3, <1>4
  <2>3. conn' \in Calling({"busy", "returned", "failed"})
    BY <1>1, <1>2 DEF Calling
  <2>4. QED
    BY <1>1, <1>2, <1>3, <2>1, <2>2, <2>3, ClientTypes
<1>7. CASE daemon.state # "gone"
  <2>1. PICK e, read, whole :
                e \in Seq(Steps) /\ read \in Seq(Tokens) /\ Said(e, read, whole)
    BY <1>1, <1>2, <1>7, WritingStage
  <2>2. PICK w \in Seq(Tokens) : /\ Emits(todo, w, e) /\ buffered \o w # <<>>
                                 /\ read \o (up \o (buffered \o w)) = whole
    <3>1. Head(todo).do \in {"write", "flush"}
      BY <1>1
    <3>2. \E w : Unsaid(w, e, read, whole)
      BY <1>1, <1>2, <2>1, <3>1, StillSaying
    <3>3. QED
      BY <3>2 DEF Unsaid
  <2>3. PICK v \in Seq(Tokens) : /\ Head(todo).tokens \in Seq(Tokens)
                                 /\ w = Head(todo).tokens \o v /\ Emits(todo', v, e)
                                 /\ buffered' \o v = buffered \o w
    BY <1>5, <2>1, <2>2
  <2>4. SayingNext(e, read, whole)
    BY <1>1, <2>1, <2>2, <2>3 DEF Said, Saying, SayingNext
  <2>5. QED
    BY <1>1, <1>2, <1>6, <2>1, <2>3, <2>4, SaidOn, NextIInv
<1>8. CASE daemon.state = "gone"
  <2>1. PICK w \in Seq(Tokens), d \in Seq(Steps) : Emits(todo, w, d)
    BY <1>1, <1>2, <1>8, WritingGone DEF Writing
  <2>2. PICK v \in Seq(Tokens) : Head(todo).tokens \in Seq(Tokens) /\ Emits(todo', v, d)
    BY <1>5, <2>1
  <2>3. TypeOK' /\ todo' \in Seq(Steps)
    BY <1>6, <2>2 DEF TypeOK
  <2>4. WritingNext /\ HeadingNext
    <3>1. down' = <<>>
      BY <1>1, <1>2, <1>8, WritingGone
    <3>2. Run(At(todo', conn'.path), down', At(todo', conn'.path))
      BY <3>1, RunNothing
    <3>3. QED
      BY <2>2, <2>3, <3>2 DEF WritingNext, HeadingNext, EndsNext
  <2>5. up' = <<>>
    BY <1>1, <1>2, <1>8 DEF Stage
  <2>6. QED
    BY <1>1, <1>2, <1>8, <2>3, <2>4, <2>5, NextIInv DEF StageNext
<1>9. QED
  BY <1>7, <1>8

\* A flush keeps the invariant.
LEMMA FlushStepKeeps ==
    ASSUME IInv, FlushStep
    PROVE  IInv'
<1>1. /\ todo # <<>> /\ Head(todo).do = "flush" /\ Busy
      /\ down' = down /\ daemon' = daemon /\ performed' = performed
  BY DEF FlushStep, Step, Reading, Quiet
<1>2. TypeOK /\ Stage /\ conn.state = "busy" /\ conn \in Calling({"busy"})
  BY <1>1, BusyCall DEF IInv, Busy, Calling
<1>3. /\ todo \in Seq(Steps) /\ buffered \in Seq(Tokens) /\ up \in Seq(Tokens)
      /\ down \in Seq(Tokens) /\ <<>> \in Seq(Tokens) /\ <<>> \in Seq(Steps)
  BY <1>2 DEF TypeOK
<1>4. CASE daemon.state # "gone"
  <2>1. up' = up \o buffered /\ buffered' = <<>> /\ conn' = conn
    BY <1>4 DEF FlushStep
  <2>2. todo' = Tail(todo) /\ todo' \in Seq(Steps)
    <3>1. Tail(todo) \in Seq(Steps)
      BY <1>1, <1>3
    <3>2. todo' = <<>> \o Tail(todo)
      BY <1>4 DEF FlushStep, Continue, Then
    <3>3. QED
      BY <3>1, <3>2
  <2>3. TypeOK'
    <3>1. up' \in Seq(Tokens)
      BY <1>3, <2>1
    <3>2. conn' \in Calling({"busy", "returned", "failed"})
      BY <1>2, <2>1 DEF Calling
    <3>3. QED
      BY <1>1, <1>2, <1>3, <2>1, <2>2, <3>1, <3>2, ClientTypes
  <2>4. PICK e, read, whole :
                e \in Seq(Steps) /\ read \in Seq(Tokens) /\ Said(e, read, whole)
    BY <1>1, <1>2, <1>4, WritingStage
  <2>5. PICK w \in Seq(Tokens) : /\ Emits(todo, w, e) /\ buffered \o w # <<>>
                                 /\ read \o (up \o (buffered \o w)) = whole
    <3>1. Head(todo).do \in {"write", "flush"}
      BY <1>1
    <3>2. \E w : Unsaid(w, e, read, whole)
      BY <1>1, <1>2, <2>4, <3>1, StillSaying
    <3>3. QED
      BY <3>2 DEF Unsaid
  <2>6. read \o (up' \o (<<>> \o w)) = whole
    <3> DEFINE b == buffered
               u == up
    <3>1. b \in Seq(Tokens) /\ u \in Seq(Tokens)
      BY <1>3
    <3> HIDE DEF b, u
    <3>2. (u \o b) \o (<<>> \o w) = u \o (b \o w)
      BY <3>1
    <3>3. QED
      BY <2>1, <2>5, <3>2 DEF b, u
  <2>7. down' = <<>> /\ conn'.path = NoPath
    BY <1>1, <2>1, <2>4 DEF Said, Saying
  <2>8. CASE w = <<>> /\ Tail(todo) = e
    <3>1. read \o up' = whole
      <4>1. up' \o (<<>> \o w) = up'
        BY <1>3, <2>1, <2>8
      <4>2. QED
        BY <2>6, <4>1
    <3>2. SayingNext(e, read, whole)
      BY <2>1, <2>2, <2>7, <2>8, <3>1 DEF SayingNext
    <3>3. QED
      BY <1>1, <1>2, <2>1, <2>3, <2>4, <3>2, SaidOn, NextIInv
  <2>9. CASE w # <<>> /\ Emits(Tail(todo), w, e)
    <3>1. <<>> \o w # <<>>
      BY <2>9
    <3>2. SayingNext(e, read, whole)
      BY <2>1, <2>2, <2>6, <2>7, <2>9, <3>1 DEF SayingNext
    <3>3. QED
      BY <1>1, <1>2, <2>1, <2>3, <2>4, <3>2, SaidOn, NextIInv
  <2>10. QED
    BY <1>1, <1>3, <2>4, <2>5, <2>8, <2>9, Writes
<1>5. CASE daemon.state = "gone"
  <2>1. Failed /\ up' = up /\ buffered' = buffered
    BY <1>5 DEF FlushStep
  <2>2. conn' \in Calling({"busy", "returned", "failed"}) /\ conn'.state = "failed"
            /\ todo' = <<>>
    BY <1>2, <2>1 DEF Failed, Calling
  <2>3. TypeOK'
    BY <1>1, <1>2, <1>3, <2>1, <2>2, ClientTypes
  <2>4. up' = <<>>
    BY <1>2, <1>5, <2>1 DEF Stage
  <2>5. QED
    BY <1>1, <1>5, <2>2, <2>3, <2>4, NextIInv DEF SilentNext
<1>6. QED
  BY <1>4, <1>5

-----------------------------------------------------------------------------
\* What a client that neither reads nor writes does.
LEMMA Ended ==
    ASSUME TypeOK, Busy, Stage, todo # <<>>, ~Listens(Head(todo))
    PROVE  down = <<>> /\ Ends(todo, conn.path)
<1>1. todo \in Seq(Steps) /\ down \in Seq(Tokens)
  BY DEF TypeOK
<1>2. PICK e, q : /\ e \in Seq(Steps) /\ Run(At(todo, conn.path), down, At(e, q))
                  /\ Ends(e, q)
  BY Headed DEF Heading, Here
<1>3. down = <<>> /\ At(e, q) = At(todo, conn.path)
  BY <1>1, <1>2, Stuck
<1>4. e = todo /\ q = conn.path
  BY <1>3 DEF At
<1>5. QED
  BY <1>2, <1>3, <1>4

\* Where a client operates, fails or returns it has nothing unsaid.
LEMMA NotWriting ==
    ASSUME TypeOK, Busy, Stage, todo # <<>>, Head(todo).do \in {"operate", "raise", "return"}
    PROVE  /\ buffered = <<>> /\ up = <<>> /\ ~Writing
           /\ \/ /\ daemon.state = "ready" /\ daemon.request = <<>>
                 /\ \/ todo = Rest /\ conn.path = NoPath
                    \/ todo = <<Return>>
              \/ daemon.state = "gone"
<1>1. /\ todo \in Seq(Steps) /\ down \in Seq(Tokens) /\ daemon.state \in States
      /\ daemon.state # "away" /\ ~Listens(Head(todo))
  BY DEF TypeOK, Stage, Listens
<1>2. ~Writing
  BY <1>1, Writes DEF Writing
<1>3. buffered = <<>>
  BY <1>2, Headed
<1>4. \A e \in Seq(Steps) : \A read, whole :
          e # <<>> /\ Listens(Head(e)) => ~Saying(e, read, whole)
  BY <1>1, <1>2 DEF Saying, Writing
<1>5. /\ Listens(Expect(Word(workerMagic2))) /\ Listens(Repeat(<<Feature>>))
      /\ Listens(Skip("text")) /\ Listens(Drain)
  BY DEF Listens, Expect, Repeat, Skip, Drain
<1>6. /\ \A read, whole : /\ ~Saying(Greeting, read, whole) /\ ~Saying(Listing, read, whole)
                          /\ ~Saying(Stubbed, read, whole)
      /\ \A r, read, whole : ~Saying(Answering(r), read, whole)
  BY <1>4, <1>5, StageHeads DEF Opens
<1>7. ASSUME NEW e, NEW q, Hearing(e, q)
      PROVE  todo = e /\ conn.path = q /\ up = <<>>
  BY <1>1, <1>7, HeardOut DEF Hearing
<1>8. ~Hearing(Exchanging, NoPath) /\ ~Hearing(Stubbing, NoPath)
  <2>1. Head(Exchanging).do \in {"write", "flush"} /\ Head(Stubbing).do \in {"write", "flush"}
    BY Sayings, StageTypes, Writes
  <2>2. QED
    BY <1>7, <2>1
<1>9. ~Hearing(<<Drain>> \o Rest, NoPath) /\ \A r : ~Hearing(Answering(r), NoPath)
  <2>1. /\ Opens(<<Drain>> \o Rest, Drain) /\ \A r : Opens(Answering(r), Drain)
    BY StageHeads
  <2>2. Head(<<Drain>> \o Rest) = Drain /\ \A r : Head(Answering(r)) = Drain
    BY <2>1 DEF Opens
  <2>3. ASSUME NEW e, NEW q, Head(e) = Drain PROVE ~Hearing(e, q)
    BY <1>1, <1>5, <1>7, <2>3
  <2>4. QED
    BY <2>2, <2>3
<1>10. CASE daemon.state = "ready"
  BY <1>3, <1>2, <1>6, <1>7, <1>10 DEF Stage
<1>11. CASE daemon.state = "gone"
  BY <1>2, <1>3, <1>11 DEF Stage
<1>12. QED
  BY <1>1, <1>6, <1>8, <1>9, <1>10, <1>11 DEF Stage, States

-----------------------------------------------------------------------------
\* A list made of four.
JoinsFour(S, a, b, c, d, t) ==
    /\ t \in Seq(S) /\ Len(t) = Len(a) + Len(b) + Len(c) + Len(d)
    /\ \A i \in 1 .. Len(a) : t[i] = a[i]
    /\ \A i \in 1 .. Len(b) : t[Len(a) + i] = b[i]
    /\ \A i \in 1 .. Len(c) : t[Len(a) + Len(b) + i] = c[i]
    /\ \A i \in 1 .. Len(d) : t[Len(a) + Len(b) + Len(c) + i] = d[i]

\* What four lists joined hold, place by place.
LEMMA FourParts ==
    ASSUME NEW S, NEW a \in Seq(S), NEW b \in Seq(S), NEW c \in Seq(S), NEW d \in Seq(S),
           NEW t, t = ((a \o b) \o c) \o d
    PROVE  JoinsFour(S, a, b, c, d, t)
<1> DEFINE u == a \o b
           v == u \o c
           k == Len(a)
           l == Len(b)
           m == Len(c)
           n == Len(d)
<1>1. Joins(S, a, b, u)
  BY TwoParts
<1>2. u \in Seq(S)
  BY <1>1 DEF Joins
<1> HIDE DEF u
<1>3. Joins(S, u, c, v)
  BY <1>2, TwoParts
<1>4. v \in Seq(S) /\ t = v \o d
  BY <1>3 DEF Joins, u
<1> HIDE DEF v
<1>5. Joins(S, v, d, t)
  <2>1. Joins(S, v, d, v \o d)
    BY <1>4, TwoParts
  <2>2. QED
    BY <1>4, <2>1
<1>6. /\ k \in Nat /\ l \in Nat /\ m \in Nat /\ n \in Nat
      /\ Len(u) = k + l /\ Len(v) = k + l + m
      /\ \A i \in 1 .. k : u[i] = a[i]
      /\ \A i \in 1 .. l : u[k + i] = b[i]
      /\ \A i \in 1 .. k + l : v[i] = u[i]
      /\ \A i \in 1 .. m : v[k + l + i] = c[i]
      /\ \A i \in 1 .. k + l + m : t[i] = v[i]
      /\ \A i \in 1 .. n : t[k + l + m + i] = d[i]
  <2>1. /\ k \in Nat /\ l \in Nat /\ Len(u) = k + l
        /\ \A i \in 1 .. k : u[i] = a[i]
        /\ \A i \in 1 .. l : u[k + i] = b[i]
    BY <1>1, Zenon DEF Joins
  <2>2. /\ m \in Nat /\ Len(v) = Len(u) + m
        /\ \A i \in 1 .. Len(u) : v[i] = u[i]
        /\ \A i \in 1 .. m : v[Len(u) + i] = c[i]
    BY <1>3, Zenon DEF Joins
  <2>3. /\ n \in Nat /\ Len(t) = Len(v) + n
        /\ \A i \in 1 .. Len(v) : t[i] = v[i]
        /\ \A i \in 1 .. n : t[Len(v) + i] = d[i]
    BY <1>5, Zenon DEF Joins
  <2> HIDE DEF k, l, m, n
  <2>4. Len(v) = k + l + m
    BY <2>1, <2>2
  <2>5. \A i \in 1 .. k + l + m : t[i] = v[i]
    BY <2>3, <2>4, Zenon
  <2>6. \A i \in 1 .. n : t[k + l + m + i] = d[i]
    BY <2>3, <2>4, Zenon
  <2>7. /\ \A i \in 1 .. k + l : v[i] = u[i]
        /\ \A i \in 1 .. m : v[k + l + i] = c[i]
    BY <2>1, <2>2, Zenon
  <2>8. QED
    BY <2>1, <2>2, <2>3, <2>4, <2>5, <2>6, <2>7, Zenon
<1> HIDE DEF k, l, m, n
<1>7. ASSUME NEW i \in 1 .. k PROVE t[i] = a[i]
  <2>1. i \in 1 .. k + l /\ i \in 1 .. k + l + m
    BY <1>6
  <2>2. QED
    BY <1>6, <2>1, Zenon
<1>8. ASSUME NEW i \in 1 .. l PROVE t[k + i] = b[i]
  <2>1. k + i \in 1 .. k + l /\ k + i \in 1 .. k + l + m
    BY <1>6
  <2>2. QED
    BY <1>6, <2>1, Zenon
<1>9. ASSUME NEW i \in 1 .. m PROVE t[k + l + i] = c[i]
  <2>1. k + l + i \in 1 .. k + l + m
    BY <1>6
  <2>2. QED
    BY <1>6, <2>1, Zenon
<1>10. Len(t) = k + l + m + n /\ t \in Seq(S)
  <2>1. t \in Seq(S) /\ Len(t) = Len(v) + n
    BY <1>5, Zenon DEF Joins, n
  <2>2. QED
    BY <1>6, <2>1
<1>11. QED
  BY <1>6, <1>7, <1>8, <1>9, <1>10, Zenon DEF k, l, m, n, JoinsFour

\* An upload, token by token.
LEMMA FramedShape ==
    ASSUME NEW n \in Nat
    PROVE  /\ Framed(n) \in Seq(Tokens) /\ Framed(n)[1] = Word(n)
           /\ Len(Framed(n)) = (IF n > 0 THEN 3 ELSE 1)
<1>1. Word(n) \in Tokens /\ Bytes(n) \in Tokens /\ Word(0) \in Tokens
  BY TokenTypes
<1>2. QED
  BY <1>1 DEF Framed

\* A request that ends in an upload after k tokens, and one with references
\* before it, token by token.
Uploads(t, k, size) ==
    /\ Len(t) = k + Len(Framed(size))
    /\ \A i \in 1 .. Len(Framed(size)) : t[k + i] = Framed(size)[i]

Added(t, name, cam, refs, size) ==
    /\ t[1] = Word(opAddToStore) /\ t[2] = Text(name) /\ t[3] = Text(cam)
    /\ t[4] = Word(Len(refs))
    /\ \A i \in 1 .. Len(refs) : t[4 + i] = Text(refs[i])
    /\ t[5 + Len(refs)] = Word(0)
    /\ Uploads(t, 5 + Len(refs), size)

\* The request of AddToStore, token by token.
LEMMA AddShape ==
    ASSUME NEW name \in Values, NEW cam \in Values, NEW refs \in Seq(Values), NEW size \in Nat,
           NEW t, t = <<Word(opAddToStore), Text(name), Text(cam)>>
                          \o Strings(refs) \o <<Word(0)>> \o Framed(size)
    PROVE  t \in Seq(Tokens) /\ Added(t, name, cam, refs, size)
<1> DEFINE a == <<Word(opAddToStore), Text(name), Text(cam)>>
           b == Strings(refs)
           c == <<Word(0)>>
           d == Framed(size)
           n == Len(refs)
<1>1. /\ a \in Seq(Tokens) /\ Len(a) = 3 /\ a[1] = Word(opAddToStore) /\ a[2] = Text(name)
      /\ a[3] = Text(cam)
  BY TokenTypes DEF opAddToStore
<1>2. /\ b \in Seq(Tokens) /\ Len(b) = n + 1 /\ b[1] = Word(n) /\ n \in Nat
      /\ \A i \in 1 .. n : b[1 + i] = Text(refs[i])
  <2> DEFINE s == [i \in 1 .. n |-> Text(refs[i])]
  <2>1. /\ b = <<Word(n)>> \o s /\ s \in Seq(Tokens) /\ b \in Seq(Tokens)
        /\ Len(s) = n /\ n \in Nat
    BY StringsIs
  <2>2. \A i \in 1 .. n : s[i] = Text(refs[i])
    OBVIOUS
  <2> HIDE DEF s, b, n
  <2>3. QED
    BY <2>1, <2>2
<1>3. c \in Seq(Tokens) /\ Len(c) = 1 /\ c[1] = Word(0)
  BY TokenTypes
<1>4. d \in Seq(Tokens) /\ Len(d) \in Nat
  BY FramedShape
<1>5. t = ((a \o b) \o c) \o d
  OBVIOUS
<1> HIDE DEF a, b, c, d, n
<1>6. JoinsFour(Tokens, a, b, c, d, t)
  <2>1. a \in Seq(Tokens) /\ b \in Seq(Tokens) /\ c \in Seq(Tokens) /\ d \in Seq(Tokens)
    BY <1>1, <1>2, <1>3, <1>4
  <2>2. QED
    BY <1>5, <2>1, FourParts
<1>7. t \in Seq(Tokens)
  BY <1>6 DEF JoinsFour
<1>8. /\ Len(t) = 3 + (n + 1) + 1 + Len(d)
      /\ \A i \in 1 .. 3 : t[i] = a[i]
      /\ \A i \in 1 .. n + 1 : t[3 + i] = b[i]
      /\ \A i \in 1 .. 1 : t[3 + (n + 1) + i] = c[i]
      /\ \A i \in 1 .. Len(d) : t[3 + (n + 1) + 1 + i] = d[i]
  <2>1. Len(a) = 3 /\ Len(b) = n + 1 /\ Len(c) = 1
    BY <1>1, <1>2, <1>3
  <2>2. QED
    BY <1>6, <2>1, Zenon DEF JoinsFour
<1> DEFINE m == Len(d)
<1>9. n \in Nat /\ m \in Nat
  BY <1>2, <1>4
<1> HIDE DEF m
<1>10. t[1] = Word(opAddToStore) /\ t[2] = Text(name) /\ t[3] = Text(cam)
  <2>1. 1 \in 1 .. 3 /\ 2 \in 1 .. 3 /\ 3 \in 1 .. 3
    OBVIOUS
  <2>2. QED
    BY <1>1, <1>8, <2>1, Zenon
<1>11. t[4] = Word(n)
  <2>1. 1 \in 1 .. n + 1 /\ 3 + 1 = 4
    BY <1>9
  <2>2. QED
    BY <1>2, <1>8, <2>1, Zenon
<1>12. ASSUME NEW i \in 1 .. n PROVE t[4 + i] = Text(refs[i])
  <2>1. 1 + i \in 1 .. n + 1 /\ 3 + (1 + i) = 4 + i
    BY <1>9
  <2>2. QED
    BY <1>2, <1>8, <2>1, Zenon
<1>13. t[5 + n] = Word(0)
  <2>1. 1 \in 1 .. 1 /\ 3 + (n + 1) + 1 = 5 + n
    BY <1>9
  <2>2. QED
    BY <1>3, <1>8, <2>1, Zenon
<1>14. ASSUME NEW i \in 1 .. m PROVE t[5 + n + i] = d[i]
  <2>1. 3 + (n + 1) + 1 + i = 5 + n + i
    BY <1>9
  <2>2. QED
    BY <1>8, <2>1, Zenon DEF m
<1>15. Len(t) = 5 + n + m
  <2>1. 3 + (n + 1) + 1 + m = 5 + n + m
    BY <1>9
  <2>2. QED
    BY <1>8, <2>1, Zenon DEF m
<1>16. QED
  BY <1>7, <1>10, <1>11, <1>12, <1>13, <1>14, <1>15, Zenon DEF n, m, d, Added, Uploads

\* The whole of a request, token by token.
Adding(r) == r.op \in {"derivation", "directory"}
Kept(r) == IF r.op = "derivation" THEN "text:sha256" ELSE "fixed:r:sha256"

\* The same for a request of a caller.
LEMMA AddWhole ==
    ASSUME NEW r \in Requests, Adding(r), NEW t, t = Whole(r)
    PROVE  t \in Seq(Tokens) /\ Added(t, r.name, Kept(r), r.refs, r.size)
<1>1. /\ r.name \in Values /\ r.refs \in Seq(Values) /\ r.size \in Nat
      /\ r.op # "derivation" => r.refs = <<>>
  BY RequestFields
<1>2. Kept(r) \in Values
  BY TokenTypes DEF Kept, Literals
<1>3. t = <<Word(opAddToStore), Text(r.name), Text(Kept(r))>>
              \o Strings(r.refs) \o <<Word(0)>> \o Framed(r.size)
  <2>1. CASE r.op = "derivation"
    BY <2>1 DEF Whole, Kept
  <2>2. CASE r.op = "directory"
    BY <1>1, <2>2 DEF Whole, Kept
  <2>3. QED
    BY <2>1, <2>2 DEF Adding
<1>4. QED
  BY <1>1, <1>2, <1>3, AddShape

Scanned(t, name, size) ==
    t[1] = Word(opAddToStoreScanning) /\ t[2] = Text(name) /\ Uploads(t, 3, size)

\* The request of a scanned upload, token by token.
LEMMA ScanWhole ==
    ASSUME NEW r \in Requests, r.op = "scan", NEW t, t = Whole(r)
    PROVE  t \in Seq(Tokens) /\ Scanned(t, r.name, r.size)
<1> DEFINE a == <<Word(opAddToStoreScanning), Text(r.name), Text("fixed:r:sha256")>>
           d == Framed(r.size)
<1>1. r.name \in Values /\ r.size \in Nat /\ "fixed:r:sha256" \in Values
  BY RequestFields, TokenTypes DEF Literals
<1>2. /\ a \in Seq(Tokens) /\ Len(a) = 3 /\ a[1] = Word(opAddToStoreScanning)
      /\ a[2] = Text(r.name)
  BY <1>1, TokenTypes DEF opAddToStoreScanning
<1>3. d \in Seq(Tokens)
  BY <1>1, FramedShape
<1>4. t = a \o d
  BY DEF Whole
<1> HIDE DEF a, d
<1>5. Joins(Tokens, a, d, t)
  <2>1. Joins(Tokens, a, d, a \o d)
    BY <1>2, <1>3, TwoParts
  <2>2. QED
    BY <1>4, <2>1
<1>6. /\ t \in Seq(Tokens) /\ Len(t) = 3 + Len(d) /\ \A i \in 1 .. 3 : t[i] = a[i]
      /\ \A i \in 1 .. Len(d) : t[3 + i] = d[i]
  BY <1>2, <1>5, Zenon DEF Joins
<1>7. 1 \in 1 .. 3 /\ 2 \in 1 .. 3
  OBVIOUS
<1>8. QED
  BY <1>2, <1>6, <1>7, Zenon DEF d, Scanned, Uploads

\* The request of SubmitOutput, token by token.
LEMMA SubmitWhole ==
    ASSUME NEW r \in Requests, r.op = "submit", NEW t, t = Whole(r)
    PROVE  /\ t \in Seq(Tokens) /\ Len(t) = 4
           /\ t[1] = Word(opSubmitOutput) /\ t[3] = Text(r.name)
<1>1. t = <<Word(opSubmitOutput), Word(0), Text(r.name), Text("out")>>
  BY DEF Whole
<1>2. r.name \in Values /\ "out" \in Values
  BY RequestFields, TokenTypes DEF Literals
<1>3. /\ Word(opSubmitOutput) \in Tokens /\ Word(0) \in Tokens /\ Text(r.name) \in Tokens
      /\ Text("out") \in Tokens
  BY <1>2, TokenTypes DEF opSubmitOutput
<1>4. QED
  BY <1>1, <1>3

\* The operations are told apart by their first word.
LEMMA Operations ==
    /\ Word(opAddToStore) # Word(opAddToStoreScanning)
           /\ Word(opAddToStore) # Word(opSubmitOutput)
    /\ Word(opAddToStoreScanning) # Word(opSubmitOutput)
    /\ \A r \in Requests : Adding(r) \/ r.op = "scan" \/ r.op = "submit"
    /\ \A m, n : Word(m) = Word(n) => m = n
    /\ \A m, n : Text(m) = Text(n) => m = n
<1>1. \A m, n : Word(m) = Word(n) => m = n
  <2>1. \A m : Word(m).val = m
    BY DEF Word
  <2>2. QED
    BY <2>1
<1>2. \A m, n : Text(m) = Text(n) => m = n
  <2>1. \A m : Text(m).val = m
    BY DEF Text
  <2>2. QED
    BY <2>1
<1>3. opAddToStore # opAddToStoreScanning /\ opAddToStore # opSubmitOutput
      /\ opAddToStoreScanning # opSubmitOutput
  BY DEF opAddToStore, opAddToStoreScanning, opSubmitOutput
<1>4. \A r \in Requests : Adding(r) \/ r.op = "scan" \/ r.op = "submit"
  BY RequestFields DEF Adding
<1>5. QED
  BY <1>1, <1>2, <1>3, <1>4

\* How long a request may be.
LEMMA Sizes ==
    ASSUME NEW r \in Requests
    PROVE  /\ r.refs \in Seq(Values) /\ r.size \in Nat /\ Len(r.refs) \in Nat
           /\ Len(Framed(r.size)) \in Nat /\ Len(Framed(r.size)) >= 1
           /\ r.op # "derivation" => r.refs = <<>>
<1>1. /\ r.refs \in Seq(Values) /\ r.size \in Nat
      /\ r.op # "derivation" => r.refs = <<>>
  BY RequestFields
<1>2. Len(Framed(r.size)) = (IF r.size > 0 THEN 3 ELSE 1)
  BY <1>1, FramedShape
<1>3. Len(Framed(r.size)) \in Nat /\ Len(Framed(r.size)) >= 1
  <2> DEFINE k == Len(Framed(r.size))
  <2>1. k = 3 \/ k = 1
    BY <1>2
  <2> HIDE DEF k
  <2>2. k \in Nat /\ k >= 1
    BY <2>1
  <2>3. QED
    BY <2>2 DEF k
<1>4. Len(r.refs) \in Nat
  BY <1>1
<1>5. QED
  BY <1>1, <1>3, <1>4

\* Every request is one of the three.
LEMMA WholeTypes ==
    ASSUME NEW r \in Requests
    PROVE  /\ Whole(r) \in Seq(Tokens) /\ Whole(r) # <<>>
           /\ Head(Whole(r)).val \in {opAddToStore, opSubmitOutput, opAddToStoreScanning}
<1>1. /\ Whole(r) \in Seq(Tokens) /\ Len(Whole(r)) >= 3
      /\ Whole(r)[1] \in {Word(opAddToStore), Word(opSubmitOutput), Word(opAddToStoreScanning)}
  <2> DEFINE m == Len(r.refs)
             n == Len(Framed(r.size))
             t == Whole(r)
  <2>1. m \in Nat /\ n \in Nat
    BY Sizes
  <2>2. CASE Adding(r)
    <3>1. t \in Seq(Tokens) /\ Added(t, r.name, Kept(r), r.refs, r.size)
      BY <2>2, AddWhole
    <3>2. t[1] = Word(opAddToStore) /\ Len(t) = 5 + m + n
      BY <3>1, Zenon DEF Added, Uploads
    <3> HIDE DEF m, n, t
    <3>3. Len(t) >= 3
      BY <2>1, <3>2
    <3>4. QED
      BY <3>1, <3>2, <3>3 DEF t
  <2>3. CASE r.op = "scan"
    <3>1. t \in Seq(Tokens) /\ Scanned(t, r.name, r.size)
      BY <2>3, ScanWhole
    <3>2. t[1] = Word(opAddToStoreScanning) /\ Len(t) = 3 + n
      BY <3>1, Zenon DEF Scanned, Uploads
    <3> HIDE DEF n, t
    <3>3. Len(t) >= 3
      BY <2>1, <3>2
    <3>4. QED
      BY <3>1, <3>2, <3>3 DEF t
  <2>4. CASE r.op = "submit"
    BY <2>4, SubmitWhole
  <2>5. QED
    BY <2>2, <2>3, <2>4, Operations
<1>2. Whole(r) # <<>> /\ Head(Whole(r)) = Whole(r)[1]
  BY <1>1
<1>3. \A n : Word(n).val = n
  BY DEF Word
<1>4. QED
  BY <1>1, <1>2, <1>3

\* What the daemon takes for an upload when it has read part of one is all of it.
LEMMA UploadWhole ==
    ASSUME NEW n \in Nat, NEW u \in Seq(Tokens), u # <<>>, Len(u) <= Len(Framed(n)),
           \A j \in 1 .. Len(u) : u[j] = Framed(n)[j], Upload(u)
    PROVE  Len(u) = Len(Framed(n))
<1>1. Len(u) \in Nat /\ Len(u) >= 1
  OBVIOUS
<1>2. Framed(n)[1] = Word(n) /\ Len(Framed(n)) = (IF n > 0 THEN 3 ELSE 1)
  BY FramedShape
<1>3. CASE u = <<Word(0)>>
  <2>1. Len(u) = 1 /\ u[1] = Word(0)
    BY <1>3
  <2>2. Word(n) = Word(0)
    BY <1>2, <2>1
  <2>3. n = 0
    BY <2>2, Operations
  <2>4. QED
    BY <1>2, <2>1, <2>3
<1>4. CASE Kinds(u) = <<"word", "bytes", "word">>
  <2>1. DOMAIN Kinds(u) = DOMAIN <<"word", "bytes", "word">>
    BY <1>4
  <2>2. DOMAIN Kinds(u) = 1 .. Len(u)
    BY DEF Kinds
  <2>3. DOMAIN <<"word", "bytes", "word">> = 1 .. 3
    OBVIOUS
  <2>4. Len(u) = 3
    <3>1. 3 \in 1 .. Len(u) /\ Len(u) \in 1 .. 3
      BY <1>1, <2>1, <2>2, <2>3
    <3>2. QED
      BY <1>1, <3>1
  <2>5. QED
    BY <1>2, <2>4
<1>5. QED
  BY <1>3, <1>4 DEF Upload

\* Two sequences with the same positions are of the same length.
LEMMA SameLength ==
    ASSUME NEW m \in Nat, NEW n \in Nat, n >= 1, 1 .. m = 1 .. n
    PROVE  m = n
<1>1. n \in 1 .. m
  OBVIOUS
<1>2. m \in 1 .. n
  BY <1>1
<1>3. QED
  BY <1>1, <1>2

\* What is left of a sequence from a position on.
LEMMA FromIs ==
    ASSUME NEW p \in Seq(Tokens), NEW k \in Nat, Len(p) > k
    PROVE  /\ From(p, k + 1) \in Seq(Tokens) /\ From(p, k + 1) # <<>>
           /\ Len(From(p, k + 1)) = Len(p) - k
           /\ \A j \in 1 .. Len(From(p, k + 1)) : From(p, k + 1)[j] = p[k + j]
<1> DEFINE u == SubSeq(p, k + 1, Len(p))
<1>1. Len(p) \in Nat
  OBVIOUS
<1>2. k + 1 \in 1 .. Len(p)
  BY <1>1
<1>3. u \in Seq(Tokens)
  BY <1>1, <1>2
<1>4. Len(u) = Len(p) - k
  BY <1>1, <1>2
<1>5. \A j \in 1 .. Len(p) - k : u[j] = p[k + j]
  BY <1>1, <1>2
<1>6. u = From(p, k + 1)
  BY DEF From
<1> HIDE DEF u
<1>7. u # <<>>
  BY <1>1, <1>4
<1>8. QED
  BY <1>3, <1>4, <1>5, <1>6, <1>7, Zenon

\* What the daemon takes for a request when it has read part of one is all of it.
LEMMA PrefixIsWhole ==
    ASSUME NEW r \in Requests, NEW p \in Seq(Tokens), p # <<>>, NEW z \in Seq(Tokens),
           p \o z = Whole(r), IsRequest(p)
    PROVE  z = <<>>
<1> DEFINE t == Whole(r)
           d == Framed(r.size)
<1>1. r.size \in Nat /\ Len(r.refs) \in Nat /\ Len(d) \in Nat
  BY Sizes
<1>2. /\ Len(t) = Len(p) + Len(z) /\ Len(p) \in Nat /\ Len(p) >= 1 /\ Len(z) \in Nat
      /\ \A i \in 1 .. Len(p) : p[i] = t[i]
      /\ Head(p) = t[1]
  <2> HIDE DEF t
  <2>1. Joins(Tokens, p, z, t)
    <3>1. Joins(Tokens, p, z, p \o z)
      BY TwoParts
    <3>2. QED
      BY <3>1, Zenon DEF t
  <2>2. Len(p) >= 1 /\ Head(p) = p[1]
    OBVIOUS
  <2>3. /\ Len(t) = Len(p) + Len(z) /\ Len(p) \in Nat /\ Len(z) \in Nat
        /\ \A i \in 1 .. Len(p) : p[i] = t[i]
    BY <2>1, Zenon DEF Joins
  <2>4. 1 \in 1 .. Len(p)
    BY <2>2, <2>3
  <2>5. QED
    BY <2>2, <2>3, <2>4, Zenon
<1>3. SUFFICES Len(p) = Len(t)
  <2> HIDE DEF t
  <2>1. Len(z) = 0
    BY <1>2
  <2>2. QED
    BY <2>1
<1>4. ASSUME NEW k \in Nat, Len(p) > k, Upload(From(p, k + 1)), Uploads(t, k, r.size)
      PROVE  Len(p) = Len(t)
  <2>0. Len(t) = k + Len(d) /\ \A i \in 1 .. Len(d) : t[k + i] = d[i]
    BY <1>4, Zenon DEF Uploads
  <2> DEFINE u == From(p, k + 1)
  <2>1. /\ u \in Seq(Tokens) /\ u # <<>> /\ Len(u) = Len(p) - k
        /\ \A j \in 1 .. Len(u) : u[j] = p[k + j]
    BY <1>4, FromIs
  <2> HIDE DEF u, t, d
  <2>2. Len(u) <= Len(d)
    BY <1>1, <1>2, <2>0, <2>1
  <2>3. \A j \in 1 .. Len(u) : u[j] = d[j]
    <3>1. SUFFICES ASSUME NEW j \in 1 .. Len(u) PROVE u[j] = d[j]
      OBVIOUS
    <3>2. k + j \in 1 .. Len(p) /\ j \in 1 .. Len(d)
      BY <1>1, <1>2, <1>4, <2>1, <2>2
    <3>3. u[j] = p[k + j] /\ p[k + j] = t[k + j] /\ t[k + j] = d[j]
      BY <1>2, <2>0, <2>1, <3>2, Zenon
    <3>4. QED
      BY <3>3
  <2>4. Upload(u)
    BY <1>4 DEF u
  <2>5. Len(u) = Len(d)
    BY <1>1, <2>1, <2>2, <2>3, <2>4, UploadWhole DEF d
  <2> DEFINE lp == Len(p)
             lt == Len(t)
             lu == Len(u)
             ld == Len(d)
  <2>6. /\ lp \in Nat /\ ld \in Nat /\ lt = k + ld
        /\ lu = lp - k /\ lu = ld
    BY <1>1, <1>2, <2>0, <2>1, <2>5, Zenon
  <2> HIDE DEF lp, lt, lu, ld
  <2>7. lp = lt
    BY <2>6
  <2>8. QED
    BY <2>7 DEF lp, lt
<1>5. CASE Adding(r)
  <2>0. t \in Seq(Tokens) /\ Added(t, r.name, Kept(r), r.refs, r.size)
    BY <1>5, AddWhole
  <2>1. /\ t[1] = Word(opAddToStore) /\ t[4] = Word(Len(r.refs))
        /\ Uploads(t, 5 + Len(r.refs), r.size)
    BY <2>0, Zenon DEF Added
  <2>2. IsAdd(p)
    BY <1>2, <2>1, Operations DEF IsRequest
  <2> HIDE DEF t, d
  <2>3. p[4].val = Len(r.refs)
    <3>1. Len(p) >= 6
      BY <2>2 DEF IsAdd
    <3>2. p[4] = Word(Len(r.refs))
      BY <1>2, <2>1, <3>1
    <3>3. QED
      BY <3>2 DEF Word
  <2> DEFINE k == 5 + Len(r.refs)
  <2>4. Len(p) > k /\ Upload(From(p, k + 1)) /\ k \in Nat
    <3>1. Len(p) > p[4].val + 5 /\ Upload(From(p, p[4].val + 6))
      BY <2>2 DEF IsAdd
    <3>2. p[4].val + 5 = k /\ p[4].val + 6 = k + 1
      BY <1>1, <2>3
    <3>3. QED
      BY <1>1, <3>1, <3>2
  <2>5. Uploads(t, k, r.size)
    BY <2>1
  <2> HIDE DEF k
  <2>6. QED
    BY <1>4, <2>4, <2>5
<1>6. CASE r.op = "scan"
  <2>0. t \in Seq(Tokens) /\ Scanned(t, r.name, r.size)
    BY <1>6, ScanWhole
  <2>1. t[1] = Word(opAddToStoreScanning) /\ Uploads(t, 3, r.size)
    BY <2>0, Zenon DEF Scanned
  <2>2. IsScan(p)
    BY <1>2, <2>1, Operations DEF IsRequest
  <2>3. Len(p) >= 4 /\ Upload(From(p, 4))
    BY <2>2 DEF IsScan
  <2> HIDE DEF t, d
  <2>4. Len(p) > 3 /\ Upload(From(p, 3 + 1)) /\ 3 \in Nat
    BY <1>2, <2>3
  <2>5. QED
    BY <1>4, <2>1, <2>4, Zenon
<1>7. CASE r.op = "submit"
  <2>1. Len(t) = 4 /\ t[1] = Word(opSubmitOutput)
    BY <1>7, SubmitWhole
  <2>2. Kinds(p) = <<"word", "word", "text", "text">>
    BY <1>2, <2>1, Operations DEF IsRequest, IsSubmit
  <2>3. DOMAIN Kinds(p) = 1 .. Len(p)
    BY DEF Kinds
  <2>4. DOMAIN <<"word", "word", "text", "text">> = 1 .. 4
    OBVIOUS
  <2>5. 1 .. Len(p) = 1 .. 4
    BY <2>2, <2>3, <2>4, Zenon
  <2>6. Len(p) = 4
    BY <1>2, <2>5, SameLength
  <2>7. QED
    BY <2>1, <2>6
<1>8. QED
  BY <1>5, <1>6, <1>7, Operations

\* The request that was sent is the only one the daemon can take it for.
LEMMA RequestIs ==
    ASSUME NEW r \in Requests, NEW s \in Requests, r.op = s.op, r.name = s.name,
           r.refs = s.refs, r.size = s.size
    PROVE  r = s
<1>1. r \in Request /\ s \in Request
  BY RequestsAssumption
<1>2. \A x \in Request : x = [op |-> x.op, name |-> x.name, refs |-> x.refs, size |-> x.size]
  BY DEF Request
<1>3. QED
  BY <1>1, <1>2

\* Uploads of different sizes differ in their first frame.
LEMMA FramedOnce ==
    ASSUME NEW m \in Nat, NEW n \in Nat, Framed(m)[1] = Framed(n)[1]
    PROVE  m = n
BY FramedShape, Operations

\* What a client says of a request is no other request.
LEMMA AskedWhole ==
    ASSUME NEW r \in Requests, NEW s \in Requests, Asked(s, Whole(r))
    PROVE  s = r
<1> DEFINE t == Whole(r)
<1>1. t = Whole(s)
  BY RequestFields DEF Asked, Whole
<1>2. /\ r.size \in Nat /\ s.size \in Nat
      /\ r.op # "derivation" => r.refs = <<>>
      /\ s.op # "derivation" => s.refs = <<>>
  BY RequestFields
<1>3. \A x \in Requests : 1 \in 1 .. Len(Framed(x.size))
  <2>1. SUFFICES ASSUME NEW x \in Requests PROVE 1 \in 1 .. Len(Framed(x.size))
    OBVIOUS
  <2> DEFINE k == Len(Framed(x.size))
  <2>2. k \in Nat /\ k >= 1
    BY Sizes
  <2> HIDE DEF k
  <2>3. 1 \in 1 .. k
    BY <2>2
  <2>4. QED
    BY <2>3 DEF k
<1>4. ASSUME NEW k, Uploads(t, k, r.size), Uploads(t, k, s.size)
      PROVE  r.size = s.size
  <2>1. t[k + 1] = Framed(r.size)[1] /\ t[k + 1] = Framed(s.size)[1]
    BY <1>3, <1>4, Zenon DEF Uploads
  <2> HIDE DEF t
  <2>2. Framed(r.size)[1] = Framed(s.size)[1]
    BY <2>1, Zenon
  <2>3. QED
    BY <1>2, <2>2, FramedOnce
<1>5. ASSUME NEW x \in Requests, t = Whole(x)
      PROVE  /\ Adding(x) => Added(t, x.name, Kept(x), x.refs, x.size)
             /\ x.op = "scan" => Scanned(t, x.name, x.size)
             /\ x.op = "submit" => t[1] = Word(opSubmitOutput) /\ t[3] = Text(x.name)
  BY <1>5, AddWhole, ScanWhole, SubmitWhole
<1>6. \/ Adding(r) /\ Adding(s)
      \/ r.op = "scan" /\ s.op = "scan"
      \/ r.op = "submit" /\ s.op = "submit"
  <2>1. ASSUME NEW x \in Requests, t = Whole(x)
        PROVE  /\ Adding(x) => t[1] = Word(opAddToStore)
               /\ x.op = "scan" => t[1] = Word(opAddToStoreScanning)
               /\ x.op = "submit" => t[1] = Word(opSubmitOutput)
    BY <1>5, <2>1, Zenon DEF Added, Scanned
  <2>2. /\ Word(opAddToStore) # Word(opAddToStoreScanning)
        /\ Word(opAddToStore) # Word(opSubmitOutput)
        /\ Word(opAddToStoreScanning) # Word(opSubmitOutput)
        /\ \A x \in Requests : Adding(x) \/ x.op = "scan" \/ x.op = "submit"
    BY Operations
  <2>3. t = Whole(r)
    OBVIOUS
  <2> HIDE DEF t
  <2>4. QED
    BY <1>1, <2>1, <2>2, <2>3, Zenon
<1>7. CASE Adding(r) /\ Adding(s)
  <2>1. /\ Added(t, r.name, Kept(r), r.refs, r.size)
        /\ Added(t, s.name, Kept(s), s.refs, s.size)
    BY <1>1, <1>5, <1>7
  <2> HIDE DEF t
  <2>2. Text(r.name) = Text(s.name) /\ Text(Kept(r)) = Text(Kept(s))
        /\ Word(Len(r.refs)) = Word(Len(s.refs))
    BY <2>1, Zenon DEF Added
  <2>3. r.name = s.name /\ Len(r.refs) = Len(s.refs) /\ Kept(r) = Kept(s)
    BY <2>2, Operations, Zenon
  <2>4. r.op = s.op
    BY <1>7, <2>3 DEF Adding, Kept
  <2>5. \A i \in 1 .. Len(r.refs) : Text(r.refs[i]) = Text(s.refs[i])
    BY <2>1, <2>3, Zenon DEF Added
  <2>6. \A i \in 1 .. Len(r.refs) : r.refs[i] = s.refs[i]
    BY <2>5, Operations, Zenon
  <2>7. r.refs = s.refs
    <3> DEFINE x == r.refs
               y == s.refs
    <3>1. /\ x \in Seq(Values) /\ y \in Seq(Values) /\ Len(x) = Len(y)
          /\ \A i \in 1 .. Len(x) : x[i] = y[i]
      BY <2>3, <2>6, Sizes
    <3> HIDE DEF x, y
    <3>2. x = y
      BY <3>1
    <3>3. QED
      BY <3>2 DEF x, y
  <2>8. r.size = s.size
    <3>1. Uploads(t, 5 + Len(r.refs), r.size) /\ Uploads(t, 5 + Len(r.refs), s.size)
      BY <2>1, <2>3, Zenon DEF Added
    <3>2. QED
      BY <1>4, <3>1
  <2>9. QED
    BY <2>3, <2>4, <2>7, <2>8, RequestIs
<1>8. CASE r.op = "scan" /\ s.op = "scan"
  <2>1. Scanned(t, r.name, r.size) /\ Scanned(t, s.name, s.size)
    BY <1>1, <1>5, <1>8
  <2>2. Text(r.name) = Text(s.name) /\ Uploads(t, 3, r.size) /\ Uploads(t, 3, s.size)
    BY <2>1, Zenon DEF Scanned
  <2>3. r.name = s.name /\ r.size = s.size
    BY <1>4, <2>2, Operations, Zenon
  <2>4. r.refs = s.refs /\ r.op = s.op
    BY <1>2, <1>8
  <2>5. QED
    BY <2>3, <2>4, RequestIs
<1>9. CASE r.op = "submit" /\ s.op = "submit"
  <2>1. Text(r.name) = Text(s.name)
    BY <1>1, <1>5, <1>9
  <2>2. r.name = s.name
    BY <2>1, Operations, Zenon
  <2>3. r.size = 0 /\ s.size = 0
    <3>1. r \in Request /\ s \in Request
      BY RequestsAssumption
    <3>2. \A x \in Request : x.op = "submit" => x.size = 0
      BY DEF Request
    <3>3. QED
      BY <1>9, <3>1, <3>2
  <2>4. r.refs = s.refs /\ r.op = s.op
    BY <1>2, <1>9
  <2>5. QED
    BY <2>2, <2>3, <2>4, RequestIs
<1>10. QED
  BY <1>6, <1>7, <1>8, <1>9

-----------------------------------------------------------------------------
\* The steps of the client that are neither reads nor writes.
LEMMA FailedKeeps ==
    ASSUME IInv, Busy, Failed, up = <<>>, up' = up, down' = down, buffered' = buffered,
           daemon' = daemon, daemon.state \in {"gone", "ready"},
           daemon.state = "ready" => daemon.request = <<>>
    PROVE  IInv'
<1>1. TypeOK /\ conn \in Calling({"busy"})
  BY BusyCall DEF IInv, Calling
<1>2. conn' \in Calling({"busy", "returned", "failed"}) /\ conn'.state = "failed" /\ todo' = <<>>
  BY <1>1 DEF Failed, Calling
<1>3. TypeOK'
  <2>1. up \in Seq(Tokens) /\ down \in Seq(Tokens) /\ buffered \in Seq(Tokens)
    BY <1>1 DEF TypeOK
  <2>2. QED
    BY <1>1, <1>2, <2>1, ClientTypes, <<>> \in Seq(Steps)
<1>4. QED
  BY <1>2, <1>3, NextIInv DEF SilentNext

\* The start of the operation keeps the invariant.
LEMMA OperateStepKeeps ==
    ASSUME IInv, OperateStep
    PROVE  IInv'
<1>1. /\ todo # <<>> /\ Head(todo).do = "operate" /\ Busy
      /\ up' = up /\ down' = down /\ buffered' = buffered
      /\ daemon' = daemon /\ performed' = performed
  BY DEF OperateStep, Step, Reading, Quiet
<1>2. /\ TypeOK /\ Stage /\ conn.state = "busy" /\ conn \in Calling({"busy"})
      /\ conn.req \in Requests
  BY <1>1, BusyCall DEF IInv, Busy, Calling
<1>3. /\ buffered = <<>> /\ up = <<>> /\ ~Writing
      /\ \/ /\ daemon.state = "ready" /\ daemon.request = <<>>
            /\ \/ todo = Rest /\ conn.path = NoPath
               \/ todo = <<Return>>
         \/ daemon.state = "gone"
  BY <1>1, <1>2, NotWriting
<1>4. CASE Failed
  BY <1>1, <1>3, <1>4, FailedKeeps
<1>5. CASE conn' = conn /\ todo' = Operation(conn.req) \o Tail(todo)
  <2>1. PICK r \in Requests : r = conn.req
    BY <1>2
  <2>2. down = <<>> /\ todo = Rest
    <3>1. Head(todo) \notin {Raise, Return} /\ ~Listens(Head(todo))
      BY <1>1 DEF Raise, Return, Listens
    <3>2. Head(<<Return>>) = Return
      OBVIOUS
    <3>3. down = <<>> /\ Ends(todo, conn.path)
      BY <1>1, <1>2, <3>1, Ended
    <3>4. QED
      BY <1>3, <3>1, <3>2, <3>3 DEF Ends, Writing
  <2>3. todo # <<Return>>
    <3>1. Head(Rest) = Operate /\ Head(<<Return>>) = Return
      BY DEF Rest
    <3>2. QED
      BY <2>2, <3>1 DEF Operate, Return
  <2>4. Tail(todo) = <<Return>>
    BY <2>2 DEF Rest
  <2>5. /\ todo' \in Seq(Steps) /\ Emits(todo', Whole(r), Answering(r))
    BY <1>5, <2>1, <2>4, EmitsOperation
  <2>6. Whole(r) \in Seq(Tokens) /\ Whole(r) # <<>> /\ Answering(r) \in Seq(Steps)
    BY WholeTypes, StageTypes
  <2>7. TypeOK'
    <3>1. up \in Seq(Tokens) /\ down \in Seq(Tokens) /\ buffered \in Seq(Tokens)
      BY <1>2 DEF TypeOK
    <3>2. conn' \in Calling({"busy", "returned", "failed"})
      BY <1>2, <1>5 DEF Calling
    <3>3. QED
      BY <1>1, <1>2, <2>5, <3>1, <3>2, ClientTypes
  <2>8. CASE daemon.state = "ready"
    <3>1. conn.path = NoPath /\ daemon.request = <<>>
      BY <1>3, <2>3, <2>8
    <3> DEFINE w == Whole(r)
    <3>2. w \in Seq(Tokens) /\ w # <<>>
      BY <2>6
    <3> HIDE DEF w
    <3>3. <<>> \o w # <<>> /\ <<>> \o (<<>> \o (<<>> \o w)) = w
      BY <3>2
    <3>4. SayingNext(Answering(r), <<>>, Whole(r))
      BY <1>1, <1>3, <1>5, <2>2, <2>5, <3>1, <3>2, <3>3 DEF SayingNext, w
    <3>5. QED
      BY <1>1, <1>2, <1>5, <2>1, <2>7, <2>8, <3>1, <3>4, NextIInv DEF StageNext
  <2>9. CASE daemon.state = "gone"
    <3>1. Run(At(todo', conn'.path), down', At(todo', conn'.path))
      BY <1>1, <2>2, RunNothing
    <3>2. HeadingNext /\ WritingNext
      BY <2>5, <2>6, <3>1 DEF HeadingNext, WritingNext, EndsNext
    <3>3. QED
      BY <1>1, <1>2, <1>3, <1>5, <2>7, <2>9, <3>2, NextIInv DEF StageNext
  <2>10. QED
    BY <1>3, <2>8, <2>9
<1>6. QED
  BY <1>4, <1>5 DEF OperateStep, Then

\* Failing keeps the invariant.
LEMMA RaiseStepKeeps ==
    ASSUME IInv, RaiseStep
    PROVE  IInv'
<1>1. /\ todo # <<>> /\ Head(todo).do = "raise" /\ Busy /\ Failed
      /\ up' = up /\ down' = down /\ buffered' = buffered /\ daemon' = daemon
  BY DEF RaiseStep, Step, Reading, Quiet
<1>2. TypeOK /\ Stage
  BY <1>1 DEF IInv
<1>3. QED
  BY <1>1, <1>2, NotWriting, FailedKeeps

\* A client that returns has its answer, and what it asked for is done.
LEMMA Returning ==
    ASSUME IInv, ReturnStep
    PROVE  /\ conn.path = PathOf(conn.req) /\ conn.req \in performed
           /\ down = <<>> /\ up = <<>> /\ buffered = <<>>
           /\ daemon.state \in {"ready", "gone"}
           /\ daemon.state = "ready" => daemon.request = <<>>
<1>1. /\ todo # <<>> /\ Head(todo).do = "return" /\ Busy
  BY DEF ReturnStep, Step, Reading
<1>2. TypeOK /\ Stage
  BY <1>1 DEF IInv
<1>3. Head(todo) \notin {Raise, Operate} /\ ~Listens(Head(todo))
  BY <1>1 DEF Raise, Operate, Listens
<1>4. /\ buffered = <<>> /\ up = <<>> /\ ~Writing /\ daemon.state \in {"ready", "gone"}
      /\ daemon.state = "ready" => daemon.request = <<>>
  BY <1>1, <1>2, NotWriting
<1>5. down = <<>> /\ Ends(todo, conn.path)
  BY <1>1, <1>2, <1>3, Ended
<1>6. todo # Rest
  BY <1>3, StageHeads DEF Opens
<1>7. QED
  BY <1>1, <1>3, <1>4, <1>5, <1>6 DEF Ends, Writing

\* Returning keeps the invariant.
LEMMA ReturnStepKeeps ==
    ASSUME IInv, ReturnStep
    PROVE  IInv'
<1>1. /\ conn' = [conn EXCEPT !.state = "returned"] /\ todo' = <<>> /\ Busy
      /\ up' = up /\ down' = down /\ buffered' = buffered
      /\ daemon' = daemon /\ performed' = performed
  BY DEF ReturnStep, Step, Reading, Quiet
<1>2. TypeOK /\ conn \in Calling({"busy"})
  BY <1>1, BusyCall DEF IInv, Calling
<1>3. /\ conn' \in Calling({"busy", "returned", "failed"}) /\ conn'.state = "returned"
      /\ conn'.path = conn.path /\ conn'.req = conn.req
  BY <1>1, <1>2 DEF Calling
<1>4. TypeOK'
  <2>1. up \in Seq(Tokens) /\ down \in Seq(Tokens) /\ buffered \in Seq(Tokens)
    BY <1>2 DEF TypeOK
  <2>2. QED
    BY <1>1, <1>2, <1>3, <2>1, ClientTypes, <<>> \in Seq(Steps)
<1>5. QED
  BY <1>1, <1>3, <1>4, Returning, NextIInv DEF SilentNext

\* Finding the connection closed keeps the invariant.
LEMMA EndOfFileKeeps ==
    ASSUME IInv, EndOfFile
    PROVE  IInv'
<1>1. /\ Busy /\ Failed /\ daemon.state = "gone"
      /\ up' = up /\ down' = down /\ buffered' = buffered /\ daemon' = daemon
  BY DEF EndOfFile, Reading, Quiet
<1>2. up = <<>>
  BY <1>1 DEF IInv, Stage
<1>3. QED
  BY <1>1, <1>2, FailedKeeps

\* Dialling.
LEMMA DialKeeps ==
    ASSUME IInv, NEW r \in Requests, Dial(r)
    PROVE  IInv'
<1>1. /\ conn' = [state |-> "busy", req |-> r, path |-> NoPath]
      /\ up' = <<>> /\ down' = <<>> /\ buffered' = <<>>
      /\ todo' = handshake \o Rest
      /\ daemon' = [daemon EXCEPT !.state = "hello", !.request = <<>>, !.served = FALSE]
  BY DEF Dial, Rest
<1>2. /\ daemon \in [state : States, request : Seq(Tokens), served : BOOLEAN,
                     version : DaemonVersions, features : DaemonFeatures]
  BY DEF IInv, TypeOK
<1>3. /\ daemon' \in [state : States, request : Seq(Tokens), served : BOOLEAN,
                      version : DaemonVersions, features : DaemonFeatures]
      /\ daemon'.state = "hello" /\ daemon'.request = <<>> /\ ~daemon'.served
  BY <1>1, <1>2, <<>> \in Seq(Tokens) DEF States
<1>4. todo' \in Seq(Steps) /\ Emits(todo', Hail, Greeting)
  BY <1>1, EmitsGreeting DEF Hail
<1>5. TypeOK'
  <2>1. conn' \in [state : {"busy", "returned", "failed"}, req : Requests, path : Paths]
    BY <1>1 DEF Paths
  <2>2. QED
    BY <1>1, <1>3, <1>4, <2>1, <<>> \in Seq(Tokens) DEF TypeOK
<1>6. SayingNext(Greeting, <<>>, Hail)
  <2>1. Hail \in Seq(Tokens) /\ Hail # <<>>
    BY Sayings
  <2>2. <<>> \o Hail # <<>> /\ <<>> \o (<<>> \o (<<>> \o Hail)) = Hail
    BY <2>1
  <2>3. QED
    BY <1>1, <1>4, <2>1, <2>2 DEF SayingNext
<1>7. QED
  BY <1>1, <1>3, <1>5, <1>6, NextIInv DEF StageNext

-----------------------------------------------------------------------------
\* The daemon.  When it has read, or is about to, all that is to be said, the
\* client has said it.
LEMMA AllSaid ==
    ASSUME TypeOK, NEW e, NEW read \in Seq(Tokens), NEW whole \in Seq(Tokens),
           Saying(e, read, whole), Len(read) + Len(up) >= Len(whole)
    PROVE  /\ todo = e /\ buffered = <<>> /\ read \o up = whole
           /\ down = <<>> /\ conn.path = NoPath
<1>1. ASSUME NEW w \in Seq(Tokens), buffered \o w # <<>>,
             read \o (up \o (buffered \o w)) = whole
      PROVE  FALSE
  <2> DEFINE x == buffered \o w
             y == up \o x
  <2>1. x \in Seq(Tokens) /\ Len(x) \in Nat /\ Len(x) > 0
    <3>1. buffered \in Seq(Tokens)
      BY DEF TypeOK
    <3>2. x \in Seq(Tokens) /\ x # <<>>
      BY <1>1, <3>1
    <3> HIDE DEF x
    <3>3. QED
      BY <3>2
  <2> HIDE DEF x
  <2>2. y \in Seq(Tokens) /\ Len(y) = Len(up) + Len(x) /\ Len(up) \in Nat
    <3>1. up \in Seq(Tokens)
      BY DEF TypeOK
    <3>2. QED
      BY <2>1, <3>1
  <2> HIDE DEF y
  <2>3. Len(whole) = Len(read) + Len(y) /\ Len(read) \in Nat
    <3>1. Joins(Tokens, read, y, read \o y)
      BY <2>2, TwoParts
    <3>2. Len(read \o y) = Len(read) + Len(y)
      BY <3>1 DEF Joins
    <3>3. read \o y = whole
      BY <1>1 DEF x, y
    <3>4. Len(read) \in Nat
      OBVIOUS
    <3>5. QED
      BY <3>2, <3>3, <3>4, Zenon
  <2> DEFINE n == Len(read)
             m == Len(up)
             k == Len(x)
  <2>4. n + m >= n + (m + k) /\ n \in Nat /\ m \in Nat /\ k \in Nat /\ k > 0
    BY <2>1, <2>2, <2>3
  <2> HIDE DEF n, m, k
  <2>5. QED
    BY <2>4
<1>2. QED
  BY <1>1, Zenon DEF Saying

\* A step of the daemon keeps the types.
Daemons ==
    [state : States, request : Seq(Tokens), served : BOOLEAN,
     version : DaemonVersions, features : DaemonFeatures]

\* Types after a step of the daemon.
LEMMA DaemonTypes ==
    ASSUME TypeOK, DaemonRest, up' \in Seq(Tokens), down' \in Seq(Tokens), daemon' \in Daemons,
           daemon'.served => daemon'.state \in {"working", "gone"},
           daemon'.request # <<>> => daemon'.state \in {"ready", "working", "gone"}
    PROVE  TypeOK'
BY DEF TypeOK, DaemonRest, Daemons

\* The daemon goes from one state to another.
LEMMA Turning ==
    ASSUME TypeOK, NEW x \in States, daemon' = [daemon EXCEPT !.state = x]
    PROVE  /\ daemon' \in Daemons /\ daemon'.state = x /\ daemon'.request = daemon.request
           /\ daemon'.served = daemon.served
BY DEF TypeOK, Daemons

\* What the daemon sends takes the client on from where it was going.
LEMMA Sent ==
    ASSUME TypeOK, DaemonRest, NEW a, NEW b, NEW m \in Seq(Tokens), DaemonSends(m),
           Run(Here, down, a), Run(a, m, b)
    PROVE  down' \in Seq(Tokens) /\ Run(At(todo', conn'.path), down', b)
<1>1. down \in Seq(Tokens) /\ down' = down \o m /\ todo' = todo /\ conn' = conn
  BY DEF TypeOK, DaemonSends, DaemonRest
<1>2. down \o m \in Seq(Tokens)
  BY <1>1
<1>3. Run(Here, down \o m, b)
  BY <1>1, RunJoin
<1>4. QED
  BY <1>1, <1>2, <1>3 DEF Here

\* Only a call in progress has the daemon do anything.
LEMMA Called ==
    ASSUME IInv, daemon.state \notin {"away", "gone", "ready"} \/ up # <<>>
    PROVE  TypeOK /\ Stage /\ conn.state = "busy" /\ conn.req \in Requests
BY BusyCall DEF IInv, Silent, Busy

\* A daemon's version fits the bits that the client looks at.
LEMMA VersionWhole ==
    ASSUME NEW v \in DaemonVersions
    PROVE  v \in Nat /\ daemonVersion(v) = v
<1>1. v \in Nat /\ v < 65536
  BY DaemonAssumption
<1>2. QED
  BY <1>1 DEF daemonVersion

\* The daemon's greeting keeps the invariant.
LEMMA HelloKeeps ==
    ASSUME IInv, Hello
    PROVE  IInv'
<1>1. /\ daemon.state = "hello" /\ Len(up) >= 2 /\ up' = SubSeq(up, 3, Len(up))
      /\ DaemonSends(<<Word(workerMagic2), Word(daemon.version)>>) /\ DaemonRest
  BY DEF Hello
<1>2. /\ TypeOK /\ Stage /\ conn.state = "busy" /\ conn' = conn
      /\ todo' = todo /\ buffered' = buffered
  BY <1>1, Called DEF DaemonRest
<1>3. todo = Greeting /\ buffered = <<>> /\ up = Hail /\ down = <<>> /\ conn.path = NoPath
  <2>1. Saying(Greeting, <<>>, Hail) /\ Hail \in Seq(Tokens) /\ <<>> \in Seq(Tokens)
    BY <1>1, <1>2, Sayings DEF Stage
  <2>2. Len(Hail) = 2 /\ Len(<<>>) = 0 /\ up \in Seq(Tokens)
    BY <1>2 DEF Hail, TypeOK
  <2>3. Len(<<>>) + Len(up) >= Len(Hail)
    BY <1>1, <2>2
  <2>4. todo = Greeting /\ buffered = <<>> /\ <<>> \o up = Hail /\ down = <<>>
            /\ conn.path = NoPath
    BY <1>2, <2>1, <2>3, AllSaid
  <2>5. QED
    BY <2>2, <2>4
<1>4. up' = <<>>
  <2>1. Len(Hail) = 2 /\ Hail \in Seq(Tokens)
    BY Sayings DEF Hail
  <2>2. SubSeq(Hail, 3, 2) = <<>>
    BY <2>1
  <2>3. QED
    BY <1>1, <1>3, <2>1, <2>2
<1>5. PICK v \in Nat : v = daemon.version /\ daemonVersion(v) = v
  <2>1. daemon.version \in DaemonVersions
    BY <1>2 DEF TypeOK
  <2>2. QED
    BY <2>1, VersionWhole
<1>6. down' \in Seq(Tokens) /\ Run(At(todo', conn'.path), down',
          At(AfterVersion(v) \o Stubbing, NoPath))
  <2>1. <<Word(workerMagic2), Word(v)>> \in Seq(Tokens)
    <3>1. Word(workerMagic2) \in Tokens /\ Word(v) \in Tokens
      BY TokenTypes DEF workerMagic2
    <3>2. QED
      BY <3>1
  <2>2. Run(At(Greeting, NoPath), <<Word(workerMagic2), Word(v)>>,
            At(AfterVersion(v) \o Stubbing, NoPath))
    BY RunHello
  <2>3. Run(Here, down, At(Greeting, NoPath))
    BY <1>3, RunNothing DEF Here
  <2>4. QED
    BY <1>1, <1>2, <1>5, <2>1, <2>2, <2>3, Sent
<1>7. ASSUME NEW x \in States \ {"away"}, daemon' = [daemon EXCEPT !.state = x]
             PROVE TypeOK' /\ daemon'.state = x
  <2>1. daemon' \in Daemons /\ daemon'.state = x /\ daemon'.request = daemon.request
        /\ daemon'.served = daemon.served
    BY <1>2, <1>7, Turning
  <2>2. daemon.request = <<>> /\ ~daemon.served
    BY <1>1, <1>2 DEF TypeOK
  <2>3. QED
    BY <1>1, <1>2, <1>4, <1>6, <2>1, <2>2, DaemonTypes, <<>> \in Seq(Tokens)
<1>8. CASE v \div 256 # protoMajor
  <2>1. daemon' = [daemon EXCEPT !.state = "gone"]
    BY <1>5, <1>8 DEF Hello
  <2>2. AfterVersion(v) = <<Raise>>
    BY <1>5, <1>8 DEF AfterVersion
  <2>3. Opens(<<Raise>> \o Stubbing, Raise)
    BY StageTypes, StepTypes, Opening
  <2>4. HeadingNext
    BY <1>6, <2>2, <2>3 DEF HeadingNext, EndsNext, Opens
  <2>5. TypeOK' /\ daemon'.state = "gone"
    BY <1>7, <2>1 DEF States
  <2>6. QED
    BY <1>2, <1>3, <1>4, <2>4, <2>5, NextIInv DEF StageNext
<1>9. CASE v \div 256 = protoMajor /\ Lesser(v, protoVersion) >= featureMinVersion
  <2>1. daemon' = [daemon EXCEPT !.state = "features"]
    BY <1>5, <1>9 DEF Hello
  <2>2. AfterVersion(v) \o Stubbing = Exchanging
    BY <1>5, <1>9 DEF AfterVersion, Exchanging
  <2>3. HearingNext(Exchanging, NoPath)
    BY <1>2, <1>3, <1>4, <1>6, <2>2 DEF HearingNext
  <2>4. TypeOK' /\ daemon'.state = "features"
    BY <1>7, <2>1 DEF States
  <2>5. QED
    BY <1>2, <2>3, <2>4, NextIInv DEF StageNext
<1>10. CASE v \div 256 = protoMajor /\ ~(Lesser(v, protoVersion) >= featureMinVersion)
  <2>1. daemon' = [daemon EXCEPT !.state = "stubs"]
    BY <1>5, <1>10 DEF Hello
  <2>2. AfterVersion(v) \o Stubbing = Stubbing
    <3>1. AfterVersion(v) = <<>>
      BY <1>5, <1>10 DEF AfterVersion
    <3>2. Stubbing \in Seq(Steps)
      BY StageTypes
    <3>3. QED
      BY <3>1, <3>2
  <2>3. HearingNext(Stubbing, NoPath)
    BY <1>2, <1>3, <1>4, <1>6, <2>2 DEF HearingNext
  <2>4. TypeOK' /\ daemon'.state = "stubs"
    BY <1>7, <2>1 DEF States
  <2>5. QED
    BY <1>2, <2>3, <2>4, NextIInv DEF StageNext
<1>11. QED
  BY <1>8, <1>9, <1>10

\* The daemon's features keep the invariant.
LEMMA FeaturesKeeps ==
    ASSUME IInv, Features
    PROVE  IInv'
<1>1. /\ daemon.state = "features" /\ up # <<>> /\ Len(up) > Head(up).val
      /\ Head(up).kind = "word" /\ up' = SubSeq(up, Head(up).val + 2, Len(up))
      /\ daemon' = [daemon EXCEPT !.state = "stubs"] /\ DaemonRest
  BY DEF Features
<1>2. /\ TypeOK /\ Stage /\ conn.state = "busy" /\ conn' = conn
      /\ todo' = todo /\ buffered' = buffered
  BY <1>1, Called DEF DaemonRest
<1> DEFINE ours == Strings(ourFeatures)
<1>3. ours \in Seq(Tokens) /\ Len(ours) = 3 /\ Head(ours) = Word(2)
  BY Sayings
<1>4. up \in Seq(Tokens)
  BY <1>2 DEF TypeOK
<1> HIDE DEF ours
<1>5. Saying(Listing, <<>>, ours)
  <2>1. ~Hearing(Exchanging, NoPath)
    BY <1>1 DEF Hearing
  <2>2. QED
    BY <1>1, <1>2, <2>1 DEF Stage, ours
\* The client writes the list at once, so what has come begins with its count.
<1>6. todo = Listing /\ buffered = <<>> /\ up = ours /\ down = <<>> /\ conn.path = NoPath
  <2>1. Len(up) >= 3
    <3>1. CASE <<>> \o up = ours
      <4>1. <<>> \o up = up
        BY <1>4
      <4>2. Len(up) = 3
        BY <1>3, <3>1, <4>1, Zenon
      <4>3. QED
        BY <4>2
    <3>2. ASSUME NEW w \in Seq(Tokens), <<>> \o (up \o (buffered \o w)) = ours
          PROVE  Head(up) = Word(2)
      <4> DEFINE x == buffered \o w
      <4>1. x \in Seq(Tokens)
        <5>1. buffered \in Seq(Tokens)
          BY <1>2 DEF TypeOK
        <5>2. QED
          BY <5>1
      <4> HIDE DEF x
      <4>2. <<>> \o (up \o x) = up \o x /\ Head(up \o x) = Head(up)
        BY <1>1, <1>4, <4>1
      <4>3. QED
        BY <1>3, <3>2, <4>2 DEF x
    <3>3. CASE Head(up) = Word(2)
      <4>1. Head(up).val = 2
        BY <3>3 DEF Word
      <4>2. Len(up) \in Nat
        BY <1>4
      <4>3. QED
        BY <1>1, <4>1, <4>2
    <3>4. QED
      BY <1>5, <3>1, <3>2, <3>3 DEF Saying
  <2>2. Len(<<>>) + Len(up) >= Len(ours)
    BY <1>3, <1>4, <2>1
  <2>3. todo = Listing /\ buffered = <<>> /\ <<>> \o up = ours /\ down = <<>>
            /\ conn.path = NoPath
    BY <1>2, <1>3, <1>5, <2>2, AllSaid, <<>> \in Seq(Tokens)
  <2>4. QED
    BY <1>4, <2>3
<1>7. up' = <<>>
  <2>1. Head(up).val = 2 /\ Len(up) = 3
    BY <1>3, <1>6 DEF Word
  <2>2. SubSeq(up, 4, 3) = <<>>
    BY <1>4
  <2>3. QED
    BY <1>1, <2>1, <2>2
<1>8. PICK ss \in TheirFeatures : DaemonSends(Strings(ss))
  BY DEF Features
<1>9. ss \in Seq(Values)
  <2>1. /\ daemon.features \in DaemonFeatures
        /\ IsFiniteSet(daemon.features)
    BY <1>2, DaemonAssumption DEF TypeOK
  <2>2. Cardinality(daemon.features) \in Nat
    BY <2>1, FS_CardinalityType
  <2>3. daemon.features \subseteq Values
    BY <2>1 DEF Values
  <2>4. ss \in [1 .. Cardinality(daemon.features) -> Values]
    BY <2>3 DEF TheirFeatures
  <2>5. QED
    BY <2>2, <2>4
<1>10. Strings(ss) \in Seq(Tokens)
  BY <1>9, StringsIs
<1>11. down' \in Seq(Tokens) /\ Run(At(todo', conn'.path), down', At(Stubbing, NoPath))
  <2>1. Run(At(Listing, NoPath), Strings(ss), At(Stubbing, NoPath))
    BY <1>9, StageTypes, RunFeatures DEF Listing
  <2>2. Run(Here, down, At(Listing, NoPath))
    BY <1>6, RunNothing DEF Here
  <2>3. QED
    BY <1>1, <1>2, <1>8, <1>10, <2>1, <2>2, Sent
<1>12. TypeOK' /\ daemon'.state = "stubs"
  <2>1. daemon' \in Daemons /\ daemon'.state = "stubs" /\ daemon'.request = daemon.request
        /\ daemon'.served = daemon.served
    BY <1>1, <1>2, Turning DEF States
  <2>2. daemon.request = <<>> /\ ~daemon.served
    BY <1>1, <1>2 DEF TypeOK
  <2>3. QED
    BY <1>1, <1>2, <1>7, <1>11, <2>1, <2>2, DaemonTypes, <<>> \in Seq(Tokens)
<1>13. HearingNext(Stubbing, NoPath)
  BY <1>2, <1>6, <1>7, <1>11 DEF HearingNext
<1>14. QED
  BY <1>2, <1>12, <1>13, NextIInv DEF StageNext

\* The end of the handshake keeps the invariant.
LEMMA StubsKeeps ==
    ASSUME IInv, Stubs
    PROVE  IInv'
<1>1. /\ daemon.state = "stubs" /\ Len(up) >= 2 /\ up' = SubSeq(up, 3, Len(up))
      /\ DaemonSends(<<Text("2.32"), Word(1)>>)
      /\ daemon' = [daemon EXCEPT !.state = "greeting"] /\ DaemonRest
  BY DEF Stubs
<1>2. /\ TypeOK /\ Stage /\ conn.state = "busy" /\ conn' = conn
      /\ todo' = todo /\ buffered' = buffered
  BY <1>1, Called DEF DaemonRest
<1>3. up \in Seq(Tokens) /\ Zeros \in Seq(Tokens) /\ Len(Zeros) = 2
  BY <1>2, Sayings DEF TypeOK, Zeros
<1>4. todo = Stubbed /\ buffered = <<>> /\ up = Zeros /\ down = <<>> /\ conn.path = NoPath
  <2>1. up # <<>>
    BY <1>1
  <2>2. Saying(Stubbed, <<>>, Zeros)
    BY <1>1, <1>2, <2>1 DEF Stage, Hearing
  <2>3. Len(<<>>) + Len(up) >= Len(Zeros)
    BY <1>1, <1>3
  <2>4. todo = Stubbed /\ buffered = <<>> /\ <<>> \o up = Zeros /\ down = <<>>
            /\ conn.path = NoPath
    BY <1>2, <1>3, <2>2, <2>3, AllSaid, <<>> \in Seq(Tokens)
  <2>5. QED
    BY <1>3, <2>4
<1>5. up' = <<>>
  <2>1. SubSeq(Zeros, 3, 2) = <<>>
    BY <1>3
  <2>2. QED
    BY <1>1, <1>3, <1>4, <2>1
<1>6. down' \in Seq(Tokens) /\ Run(At(todo', conn'.path), down', At(<<Drain>> \o Rest, NoPath))
  <2>1. <<Text("2.32"), Word(1)>> \in Seq(Tokens)
    <3>1. Text("2.32") \in Tokens /\ Word(1) \in Tokens
      BY TokenTypes DEF Literals
    <3>2. QED
      BY <3>1
  <2>2. Run(At(Stubbed, NoPath), <<Text("2.32"), Word(1)>>, At(<<Drain>> \o Rest, NoPath))
    BY RunStubs
  <2>3. Run(Here, down, At(Stubbed, NoPath))
    BY <1>4, RunNothing DEF Here
  <2>4. QED
    BY <1>1, <1>2, <2>1, <2>2, <2>3, Sent
<1>7. TypeOK' /\ daemon'.state = "greeting"
  <2>1. daemon' \in Daemons /\ daemon'.state = "greeting" /\ daemon'.request = daemon.request
        /\ daemon'.served = daemon.served
    BY <1>1, <1>2, Turning DEF States
  <2>2. daemon.request = <<>> /\ ~daemon.served
    BY <1>1, <1>2 DEF TypeOK
  <2>3. QED
    BY <1>1, <1>2, <1>5, <1>6, <2>1, <2>2, DaemonTypes, <<>> \in Seq(Tokens)
<1>8. HearingNext(<<Drain>> \o Rest, NoPath)
  BY <1>2, <1>4, <1>5, <1>6 DEF HearingNext
<1>9. QED
  BY <1>2, <1>7, <1>8, NextIInv DEF StageNext

\* What the daemon logs keeps the client draining.
LEMMA LogKeeps ==
    ASSUME IInv, Log
    PROVE  IInv'
<1>1. /\ daemon.state \in {"greeting", "working"} /\ up' = up /\ daemon' = daemon
      /\ performed' = performed /\ DaemonRest
  BY DEF Log
<1>2. /\ TypeOK /\ Stage /\ conn.state = "busy" /\ conn' = conn
      /\ todo' = todo /\ buffered' = buffered /\ conn.req \in Requests
  BY <1>1, Called DEF DaemonRest
<1>3. PICK m \in LogMessages : DaemonSends(m)
  BY DEF Log
<1>4. m \in Seq(Tokens) /\ Logged(m)
  BY LogRuns
<1>5. ASSUME NEW rest \in Seq(Steps), NEW q, Hearing(<<Drain>> \o rest, q)
      PROVE  down' \in Seq(Tokens) /\ HearingNext(<<Drain>> \o rest, q)
  <2>1. Run(At(<<Drain>> \o rest, q), m, At(<<Drain>> \o rest, q))
    BY <1>4, Zenon DEF Logged
  <2>2. down' \in Seq(Tokens) /\ Run(At(todo', conn'.path), down', At(<<Drain>> \o rest, q))
    BY <1>1, <1>2, <1>3, <1>4, <1>5, <2>1, Sent DEF Hearing
  <2>3. QED
    BY <1>1, <1>2, <1>5, <2>2 DEF Hearing, HearingNext
<1>6. PICK r \in Requests : r = conn.req
  BY <1>2
<1>7. ASSUME down' \in Seq(Tokens) PROVE TypeOK'
  BY <1>1, <1>2, <1>7, DaemonTypes DEF TypeOK, Daemons
<1>8. CASE daemon.state = "greeting"
  <2>1. Hearing(<<Drain>> \o Rest, NoPath) /\ Rest \in Seq(Steps)
    BY <1>2, <1>8, StageTypes DEF Stage
  <2>2. down' \in Seq(Tokens) /\ HearingNext(<<Drain>> \o Rest, NoPath)
    BY <1>5, <2>1
  <2>3. QED
    BY <1>1, <1>2, <1>7, <1>8, <2>2, NextIInv DEF StageNext
<1>9. CASE daemon.state = "working"
  <2>1. Hearing(Answering(r), NoPath) /\ Answering(r) = <<Drain>> \o Result(r)
        /\ Result(r) \in Seq(Steps)
    BY <1>2, <1>6, <1>9, StageTypes DEF Stage, Answering
  <2>2. down' \in Seq(Tokens) /\ HearingNext(Answering(r), NoPath)
    BY <1>5, <2>1
  <2>3. daemon.request = Whole(conn.req) /\ (daemon.served => conn.req \in performed)
    BY <1>2, <1>9 DEF Stage
  <2>4. QED
    BY <1>1, <1>2, <1>6, <1>7, <1>9, <2>2, <2>3, NextIInv DEF StageNext
<1>10. QED
  BY <1>1, <1>8, <1>9

\* The daemon's being ready keeps the invariant.
LEMMA GreetedKeeps ==
    ASSUME IInv, Greeted
    PROVE  IInv'
<1>1. /\ daemon.state = "greeting" /\ up' = up /\ DaemonRest
      /\ DaemonSends(<<Word(stderrLast)>>)
      /\ daemon' = [daemon EXCEPT !.state = "ready"]
  BY DEF Greeted
<1>2. /\ TypeOK /\ Stage /\ conn.state = "busy" /\ conn' = conn
      /\ todo' = todo /\ buffered' = buffered
  BY <1>1, Called DEF DaemonRest
<1>3. Hearing(<<Drain>> \o Rest, NoPath) /\ Rest \in Seq(Steps)
  BY <1>1, <1>2, StageTypes DEF Stage
<1>4. down' \in Seq(Tokens) /\ Run(At(todo', conn'.path), down', At(Rest, NoPath))
  <2>1. Run(At(Rest, NoPath), <<>>, At(Rest, NoPath))
    BY RunNothing
  <2>2. Run(At(<<Drain>> \o Rest, NoPath), <<Word(stderrLast)>> \o <<>>, At(Rest, NoPath))
    BY <1>3, <2>1, RunLast, <<>> \in Seq(Tokens)
  <2>3. <<Word(stderrLast)>> \o <<>> = <<Word(stderrLast)>>
    BY TupleCons, Zenon
  <2>4. <<Word(stderrLast)>> \in Seq(Tokens)
    <3>1. Word(stderrLast) \in Tokens
      BY TokenTypes DEF stderrLast
    <3>2. QED
      BY <3>1
  <2>5. Run(At(<<Drain>> \o Rest, NoPath), <<Word(stderrLast)>>, At(Rest, NoPath))
    BY <2>2, <2>3, Zenon
  <2>6. QED
    BY <1>1, <1>2, <1>3, <2>4, <2>5, Sent DEF Hearing
<1>5. /\ TypeOK' /\ daemon'.state = "ready" /\ daemon'.request = <<>>
  <2>1. daemon' \in Daemons /\ daemon'.state = "ready" /\ daemon'.request = daemon.request
        /\ daemon'.served = daemon.served
    BY <1>1, <1>2, Turning DEF States
  <2>2. daemon.request = <<>> /\ ~daemon.served /\ up \in Seq(Tokens)
    BY <1>1, <1>2 DEF TypeOK
  <2>3. QED
    BY <1>1, <1>2, <1>4, <2>1, <2>2, DaemonTypes
<1>6. HearingNext(Rest, NoPath)
  BY <1>1, <1>2, <1>3, <1>4 DEF Hearing, HearingNext
<1>7. QED
  BY <1>2, <1>5, <1>6, NextIInv DEF StageNext

\* A daemon that refuses sends the client away, wherever its call was.
LEMMA RefuseKeeps ==
    ASSUME IInv, Refuse
    PROVE  IInv'
<1>1. /\ daemon.state = "working" /\ ~daemon.served /\ up' = up /\ DaemonRest
      /\ daemon' = [daemon EXCEPT !.state = "gone"]
  BY DEF Refuse
<1>2. /\ TypeOK /\ Stage /\ conn.state = "busy" /\ conn' = conn
      /\ todo' = todo /\ buffered' = buffered /\ conn.req \in Requests
  BY <1>1, Called DEF DaemonRest
<1>3. PICK t \in Traces : DaemonSends(Refusal(t))
  BY DEF Refuse, Refusal
<1>4. PICK r \in Requests : r = conn.req
  BY <1>2
<1>5. Hearing(<<Drain>> \o Result(r), NoPath) /\ Result(r) \in Seq(Steps)
  BY <1>1, <1>2, <1>4, StageTypes DEF Stage, Answering
<1>6. down' \in Seq(Tokens) /\ Run(At(todo', conn'.path), down',
          At(<<Raise>> \o Result(r), NoPath))
  <2>1. /\ Refusal(t) \in Seq(Tokens)
        /\ Run(At(<<Drain>> \o Result(r), NoPath), Refusal(t),
               At(<<Raise>> \o Result(r), NoPath))
    BY <1>5, RunRefusal
  <2>2. QED
    BY <1>1, <1>2, <1>3, <1>5, <2>1, Sent DEF Hearing
<1>7. TypeOK' /\ daemon'.state = "gone"
  <2>1. daemon' \in Daemons /\ daemon'.state = "gone"
    BY <1>1, <1>2, Turning DEF States
  <2>2. QED
    BY <1>1, <1>2, <1>6, <2>1, DaemonTypes DEF TypeOK
<1>8. HeadingNext
  <2>1. Opens(<<Raise>> \o Result(r), Raise)
    BY <1>5, StepTypes, Opening
  <2>2. QED
    BY <1>6, <2>1 DEF HeadingNext, EndsNext, Opens
<1>9. QED
  BY <1>1, <1>2, <1>5, <1>7, <1>8, NextIInv DEF StageNext, Hearing

\* Lists are joined in any order, and grow by one.
Grouped(a, b, c) == (a \o b) \o c = a \o (b \o c)

\* Three lists are joined in any order.
LEMMA Grouping ==
    ASSUME NEW a \in Seq(Tokens), NEW b \in Seq(Tokens), NEW c \in Seq(Tokens)
    PROVE  Grouped(a, b, c)
BY DEF Grouped

\* A list that has grown by one.
LEMMA Appending ==
    \A S : \A a \in Seq(S), x \in S : Append(a, x) \in Seq(S) /\ Append(a, x) # <<>>
<1>1. SUFFICES ASSUME NEW S, NEW a \in Seq(S), NEW x \in S
      PROVE  Append(a, x) \in Seq(S) /\ Append(a, x) # <<>>
  OBVIOUS
<1>2. Append(a, x) \in Seq(S)
  BY AppendProperties
<1>3. QED
  BY <1>2

\* What has been read of a request, and what of it has still to come.
LEMMA Shift ==
    ASSUME NEW a \in Seq(Tokens), NEW b \in Seq(Tokens), b # <<>>, NEW c \in Seq(Tokens)
    PROVE  a \o (b \o c) = Append(a, Head(b)) \o (Tail(b) \o c)
<1> DEFINE x == <<Head(b)>>
           y == Tail(b)
<1>1. x \in Seq(Tokens) /\ y \in Seq(Tokens) /\ b = x \o y /\ Append(a, Head(b)) = a \o x
  <2>1. Head(b) \in Tokens
    OBVIOUS
  <2>2. b = <<Head(b)>> \o Tail(b) /\ Tail(b) \in Seq(Tokens)
    OBVIOUS
  <2>3. Append(a, Head(b)) = a \o <<Head(b)>>
    BY <2>1
  <2>4. QED
    BY <2>1, <2>2, <2>3
<1> HIDE DEF x, y
<1> DEFINE z == y \o c
<1>2. z \in Seq(Tokens) /\ (x \o y) \o c = x \o z
  BY <1>1
<1> HIDE DEF z
<1>3. a \o (x \o z) = (a \o x) \o z
  <2>1. a \in Seq(Tokens) /\ x \in Seq(Tokens) /\ z \in Seq(Tokens)
    BY <1>1, <1>2
  <2>2. Grouped(a, x, z)
    BY <2>1, Grouping, Zenon
  <2>3. QED
    BY <2>2, Zenon DEF Grouped
<1>4. QED
  BY <1>1, <1>2, <1>3 DEF y, z

\* A token of the request received keeps the invariant.
LEMMA ReceiveKeeps ==
    ASSUME IInv, Receive
    PROVE  IInv'
<1> DEFINE p == Append(daemon.request, Head(up))
<1>1. /\ daemon.state = "ready" /\ up # <<>> /\ up' = Tail(up) /\ down' = down /\ DaemonRest
      /\ performed' = performed
      /\ daemon' = [daemon EXCEPT !.request = p,
                                  !.state = IF IsRequest(p) THEN "working" ELSE @]
  BY DEF Receive
<1>2. /\ TypeOK /\ Stage /\ conn.state = "busy" /\ conn' = conn
      /\ todo' = todo /\ buffered' = buffered /\ conn.req \in Requests
  BY <1>1, Called DEF DaemonRest
<1>3. /\ daemon \in Daemons /\ daemon.request \in Seq(Tokens) /\ ~daemon.served
      /\ up \in Seq(Tokens) /\ down \in Seq(Tokens) /\ buffered \in Seq(Tokens)
  BY <1>1, <1>2 DEF TypeOK, Daemons
<1>4. p \in Seq(Tokens) /\ Tail(up) \in Seq(Tokens) /\ p # <<>>
  <2>1. Head(up) \in Tokens /\ Tail(up) \in Seq(Tokens)
    BY <1>1, <1>3
  <2>2. QED
    BY <1>3, <2>1, Appending, Zenon
<1>5. PICK r \in Requests : r = conn.req
  BY <1>2
<1>6. Saying(Answering(r), daemon.request, Whole(r))
  BY <1>1, <1>2, <1>5 DEF Stage, Hearing
<1>7. /\ down = <<>> /\ conn.path = NoPath
      /\ \/ todo = Answering(r) /\ buffered = <<>> /\ daemon.request \o up = Whole(r)
         \/ \E w \in Seq(Tokens) : /\ Emits(todo, w, Answering(r)) /\ buffered \o w # <<>>
                                   /\ daemon.request \o (up \o (buffered \o w)) = Whole(r)
  BY <1>6 DEF Saying
<1>8. ASSUME NEW c \in Seq(Tokens)
      PROVE  daemon.request \o (up \o c) = p \o (Tail(up) \o c)
  BY <1>1, <1>3, Shift
<1>9. daemon.request \o up = p \o Tail(up)
  <2>1. up \o <<>> = up
    BY <1>3
  <2>2. Tail(up) \o <<>> = Tail(up)
    BY <1>4
  <2>3. QED
    BY <1>8, <2>1, <2>2, <<>> \in Seq(Tokens)
<1>10. \A w \in Seq(Tokens) : buffered \o w \in Seq(Tokens)
  BY <1>3
<1> HIDE DEF p
<1>11. TypeOK' /\ daemon'.request = p /\ daemon'.served = daemon.served
       /\ daemon'.state = (IF IsRequest(p) THEN "working" ELSE "ready")
  <2>1. /\ daemon' \in Daemons /\ daemon'.request = p /\ daemon'.served = daemon.served
        /\ daemon'.state = (IF IsRequest(p) THEN "working" ELSE "ready")
    BY <1>1, <1>3, <1>4 DEF Daemons, States
  <2>2. QED
    BY <1>1, <1>2, <1>3, <1>4, <2>1, DaemonTypes
<1>12. CASE ~IsRequest(p)
  <2>1. SayingNext(Answering(r), p, Whole(r))
    <3>1. CASE todo = Answering(r) /\ buffered = <<>> /\ daemon.request \o up = Whole(r)
      BY <1>1, <1>2, <1>7, <1>9, <3>1 DEF SayingNext
    <3>2. CASE \E w \in Seq(Tokens) : /\ Emits(todo, w, Answering(r)) /\ buffered \o w # <<>>
                                      /\ daemon.request \o (up \o (buffered \o w)) = Whole(r)
      <4>1. PICK w \in Seq(Tokens) : /\ Emits(todo, w, Answering(r)) /\ buffered \o w # <<>>
                                     /\ daemon.request \o (up \o (buffered \o w)) = Whole(r)
        BY <3>2
      <4>2. p \o (up' \o (buffered' \o w)) = Whole(r)
        BY <1>1, <1>2, <1>8, <1>10, <4>1, Zenon
      <4>3. QED
        BY <1>1, <1>2, <1>7, <4>1, <4>2, Zenon DEF SayingNext
    <3>3. QED
      BY <1>7, <3>1, <3>2
  <2>2. QED
    BY <1>2, <1>5, <1>11, <1>12, <2>1, NextIInv DEF StageNext
<1>13. CASE IsRequest(p)
  <2>1. ASSUME NEW z \in Seq(Tokens), p \o z = Whole(r) PROVE z = <<>>
    BY <1>4, <1>13, <2>1, PrefixIsWhole
  <2>2. ASSUME NEW w \in Seq(Tokens), buffered \o w # <<>>,
               daemon.request \o (up \o (buffered \o w)) = Whole(r)
        PROVE  FALSE
    <3> DEFINE c == buffered \o w
               u == Tail(up)
    <3>1. c \in Seq(Tokens) /\ u \in Seq(Tokens) /\ c # <<>>
      BY <1>4, <1>10, <2>2
    <3>2. p \o (u \o c) = Whole(r)
      BY <1>8, <2>2, <3>1
    <3> HIDE DEF c, u
    <3>3. u \o c \in Seq(Tokens) /\ u \o c # <<>>
      <4>1. Joins(Tokens, u, c, u \o c)
        BY <3>1, TwoParts
      <4>2. u \o c \in Seq(Tokens) /\ Len(u \o c) = Len(u) + Len(c)
        BY <4>1 DEF Joins
      <4>3. Len(u) \in Nat /\ Len(c) \in Nat /\ Len(c) > 0
        BY <3>1
      <4>4. Len(u \o c) # 0
        BY <4>2, <4>3
      <4>5. QED
        BY <4>2, <4>4
    <3>4. QED
      BY <2>1, <3>2, <3>3
  <2>3. todo = Answering(r) /\ buffered = <<>> /\ daemon.request \o up = Whole(r)
    BY <1>7, <2>2
  <2>4. Tail(up) = <<>> /\ p = Whole(r)
    <3>1. p \o Tail(up) = Whole(r)
      BY <1>9, <2>3
    <3>2. Tail(up) = <<>>
      BY <1>4, <2>1, <3>1
    <3>3. p \o <<>> = p
      BY <1>4
    <3>4. QED
      BY <3>1, <3>2, <3>3
  <2>5. HearingNext(Answering(r), NoPath)
    <3>1. Run(At(todo', conn'.path), down', At(Answering(r), NoPath))
      BY <1>1, <1>2, <1>7, <2>3, RunNothing
    <3>2. QED
      BY <1>1, <1>2, <2>3, <2>4, <3>1 DEF HearingNext
  <2>6. QED
    BY <1>2, <1>3, <1>5, <1>11, <1>13, <2>4, <2>5, NextIInv DEF StageNext
<1>14. QED
  BY <1>12, <1>13

\* The daemon carries out the request that the call in progress made.
LEMMA Serving ==
    ASSUME IInv, daemon.state = "working", NEW s \in Requests, Asked(s, daemon.request)
    PROVE  s = conn.req /\ conn.state = "busy"
<1>1. Stage /\ conn.state = "busy" /\ conn.req \in Requests
  BY Called
<1>2. daemon.request = Whole(conn.req)
  BY <1>1 DEF Stage
<1>3. QED
  BY <1>1, <1>2, AskedWhole

\* Performing the operation keeps the invariant.
LEMMA ServeKeeps ==
    ASSUME IInv, Serve
    PROVE  IInv'
<1>1. /\ daemon.state = "working" /\ up' = up /\ down' = down /\ DaemonRest
      /\ daemon' = [daemon EXCEPT !.served = TRUE]
  BY DEF Serve
<1>2. /\ TypeOK /\ Stage /\ conn.state = "busy" /\ conn' = conn
      /\ todo' = todo /\ buffered' = buffered /\ conn.req \in Requests
  BY <1>1, Called DEF DaemonRest
<1>3. conn.req \in performed'
  <2>1. PICK s \in Requests : Asked(s, daemon.request) /\ performed' = performed \cup {s}
    BY DEF Serve
  <2>2. s = conn.req
    BY <1>1, <2>1, Serving
  <2>3. QED
    BY <2>1, <2>2
<1>4. /\ TypeOK' /\ daemon'.state = "working" /\ daemon'.request = daemon.request
  <2>1. /\ daemon' \in Daemons /\ daemon'.state = "working"
        /\ daemon'.request = daemon.request
    BY <1>1, <1>2 DEF TypeOK, Daemons
  <2>2. up \in Seq(Tokens) /\ down \in Seq(Tokens)
    BY <1>2 DEF TypeOK
  <2>3. QED
    BY <1>1, <1>2, <2>1, <2>2, DaemonTypes
<1>5. PICK r \in Requests : r = conn.req
  BY <1>2
<1>6. HearingNext(Answering(r), NoPath) /\ daemon.request = Whole(conn.req)
  BY <1>1, <1>2, <1>5 DEF Stage, Hearing, HearingNext, Here
<1>7. QED
  BY <1>2, <1>3, <1>4, <1>5, <1>6, NextIInv DEF StageNext

\* The reply keeps the invariant.
LEMMA ReplyKeeps ==
    ASSUME IInv, Reply
    PROVE  IInv'
<1>1. /\ daemon.state = "working" /\ daemon.served /\ up' = up /\ DaemonRest
      /\ performed' = performed
      /\ daemon' = [daemon EXCEPT !.state = "ready", !.request = <<>>, !.served = FALSE]
  BY DEF Reply
<1>2. /\ TypeOK /\ Stage /\ conn.state = "busy" /\ conn' = conn
      /\ todo' = todo /\ buffered' = buffered /\ conn.req \in Requests
  BY <1>1, Called DEF DaemonRest
<1>3. PICK r \in Requests : Asked(r, daemon.request) /\ DaemonSends(Answered(r))
  BY DEF Reply, Answered
<1>4. r = conn.req
  BY <1>1, <1>3, Serving
<1>5. conn.req \in performed /\ Hearing(Answering(r), NoPath)
  BY <1>1, <1>2, <1>4 DEF Stage
<1>6. down' \in Seq(Tokens) /\ Run(At(todo', conn'.path), down', At(<<Return>>, PathOf(r)))
  <2>1. /\ Answered(r) \in Seq(Tokens)
        /\ Run(At(Answering(r), NoPath), Answered(r), At(<<Return>>, PathOf(r)))
    BY RunReply
  <2>2. QED
    BY <1>1, <1>2, <1>3, <1>5, <2>1, Sent DEF Hearing
<1>7. /\ TypeOK' /\ daemon'.state = "ready" /\ daemon'.request = <<>>
  <2>1. /\ daemon' \in Daemons /\ daemon'.state = "ready"
        /\ daemon'.request = <<>> /\ ~daemon'.served
    BY <1>1, <1>2, <<>> \in Seq(Tokens) DEF TypeOK, Daemons, States
  <2>2. up \in Seq(Tokens)
    BY <1>2 DEF TypeOK
  <2>3. QED
    BY <1>1, <1>2, <1>6, <2>1, <2>2, DaemonTypes
<1>8. HearingNext(<<Return>>, PathOf(r))
  BY <1>1, <1>2, <1>5, <1>6 DEF Hearing, HearingNext
<1>9. QED
  BY <1>1, <1>2, <1>4, <1>5, <1>7, <1>8, NextIInv DEF StageNext

\* When the connection drops, the client goes on with what it has been sent,
\* or finds nothing where it was about to read.
LEMMA DropKeeps ==
    ASSUME IInv, Drop
    PROVE  IInv'
<1>1. /\ Busy /\ up' = <<>> /\ daemon' = [daemon EXCEPT !.state = "gone"] /\ DaemonRest
      /\ performed' = performed
  BY DEF Drop
<1>2. /\ TypeOK /\ Stage /\ conn.state = "busy" /\ conn' = conn
      /\ todo' = todo /\ buffered' = buffered
  BY <1>1 DEF IInv, Busy, DaemonRest
<1>3. down \in Seq(Tokens) /\ todo \in Seq(Steps) /\ Len(down) \in Nat
  BY <1>2 DEF TypeOK
<1>4. down' = <<>> \/ down' = down
  <2>1. SubSeq(down, 1, 0) = <<>> /\ SubSeq(down, 1, Len(down)) = down
    BY <1>3
  <2>2. QED
    BY <2>1 DEF Drop
<1>5. PICK e, q : /\ e \in Seq(Steps) /\ Run(At(todo, conn.path), down, At(e, q))
                  /\ Ends(e, q)
  BY <1>1, <1>2, Headed DEF Heading, Here
<1>6. ASSUME down' = down PROVE HeadingNext
  BY <1>1, <1>2, <1>5, <1>6 DEF HeadingNext, Ends, EndsNext
<1>7. ASSUME down' = <<>>, down # <<>> PROVE HeadingNext
  <2>1. todo # <<>>
    <3>1. PICK b : Reads(At(todo, conn.path), Head(down), b)
      BY <1>3, <1>5, <1>7, RunHead
    <3>2. PICK step \in Steps, rest \in Seq(Steps) : At(todo, conn.path).todo = <<step>> \o rest
      BY <3>1 DEF Reads
    <3>3. todo = <<step>> \o rest
      BY <3>2 DEF At
    <3>4. <<step>> \o rest # <<>>
      BY <3>2
    <3>5. QED
      BY <3>3, <3>4
  <2>2. Listens(Head(todo))
    BY <1>3, <1>5, <1>7, <2>1, NextRead, Hears
  <2>3. Run(At(todo', conn'.path), down', At(todo', conn'.path))
    BY <1>7, RunNothing
  <2>4. QED
    BY <1>2, <1>3, <2>1, <2>2, <2>3 DEF HeadingNext, EndsNext
<1>9. HeadingNext
  BY <1>4, <1>6, <1>7
<1>10. buffered' # <<>> => WritingNext
  BY <1>1, <1>2, Headed DEF Writing, WritingNext
<1>11. TypeOK' /\ daemon'.state = "gone"
  <2>1. daemon' \in Daemons /\ daemon'.state = "gone"
    BY <1>1, <1>2, Turning DEF States
  <2>2. down' \in Seq(Tokens)
    BY <1>3, <1>4, <<>> \in Seq(Tokens)
  <2>3. QED
    BY <1>1, <1>2, <2>1, <2>2, DaemonTypes, <<>> \in Seq(Tokens)
<1>12. QED
  BY <1>1, <1>2, <1>9, <1>10, <1>11, NextIInv DEF StageNext

-----------------------------------------------------------------------------
\* The invariant holds of every state the client and the daemon reach.
LEMMA ClientKeeps ==
    ASSUME IInv, Client
    PROVE  IInv'
<1>1. Busy
  BY DEF Client, WriteStep, FlushStep, SkipStep, ExpectStep, PathStep, RepeatStep, FieldStep,
         VersionStep, FeatureStep, DrainStep, OperateStep, RaiseStep, ReturnStep, EndOfFile,
         Take, Step, Reading
<1>2. CASE Listening
  BY <1>1, <1>2, ListeningKeeps
<1>3. QED
  BY <1>2, WriteStepKeeps, FlushStepKeeps, OperateStepKeeps, RaiseStepKeeps, ReturnStepKeeps,
     EndOfFileKeeps DEF Client, Listening

\* Steps of the daemon keep the invariant.
LEMMA DaemonKeeps ==
    ASSUME IInv, Daemon
    PROVE  IInv'
BY HelloKeeps, FeaturesKeeps, StubsKeeps, LogKeeps, GreetedKeeps, ReceiveKeeps, ServeKeeps,
   ReplyKeeps, RefuseKeeps DEF Daemon

\* No call, nothing sent.
LEMMA InitIInv ==
    ASSUME Init
    PROVE  IInv
<1>1. /\ daemon \in Daemons /\ daemon.state = "away" /\ daemon.request = <<>> /\ ~daemon.served
  BY <<>> \in Seq(Tokens) DEF Init, Daemons, States
<1>2. /\ up = <<>> /\ down = <<>> /\ buffered = <<>> /\ todo = <<>>
      /\ conn \in [state : {"idle"}, path : {NoPath}] /\ conn.state = "idle"
  BY DEF Init, NoCall
<1>3. TypeOK
  BY <1>1, <1>2, <<>> \in Seq(Tokens), <<>> \in Seq(Steps) DEF TypeOK, Daemons
<1>4. QED
  BY <1>1, <1>2, <1>3 DEF IInv, Busy, Silent

\* Stuttering keeps the invariant.
LEMMA StutterIInv ==
    ASSUME IInv, UNCHANGED vars
    PROVE  IInv'
<1>1. /\ up' = up /\ down' = down /\ buffered' = buffered /\ todo' = todo
      /\ conn' = conn /\ daemon' = daemon /\ performed' = performed
  BY DEF vars
<1>2. TypeOK'
  BY <1>1 DEF IInv, TypeOK
<1>3. Silent => Silent'
  BY <1>1 DEF Silent
<1>4. Stage => Stage'
  <2>1. ASSUME NEW e, NEW q, Hearing(e, q) PROVE HearingNext(e, q)
    BY <1>1, <2>1 DEF Hearing, HearingNext, Here
  <2>2. ASSUME NEW e, NEW read, NEW whole, Saying(e, read, whole)
        PROVE  SayingNext(e, read, whole)
    BY <1>1, <2>2, Zenon DEF Saying, SayingNext
  <2>3. Heading => HeadingNext
    BY <1>1 DEF Heading, HeadingNext, Ends, EndsNext, Here
  <2>4. Writing => WritingNext
    BY <1>1 DEF Writing, WritingNext
  <2>5. Stage => StageNext
    BY <1>1, <2>1, <2>2, <2>3, <2>4 DEF Stage, StageNext
  <2>6. QED
    BY <2>5, NextStage
<1>5. Busy' <=> Busy
  BY <1>1 DEF Busy
<1>6. QED
  BY <1>2, <1>3, <1>4, <1>5 DEF IInv

\* Whatever daemon answers and however the connection fares, at every step what is
\* under way in either direction takes the client to where the daemon takes it
\* to be (internal/rpc reads and writes blindly, one primitive after the other).
THEOREM Invariance == Spec => []IInv
<1>1. Init => IInv
  BY InitIInv
<1>2. IInv /\ [Next]_vars => IInv'
  BY DialKeeps, ClientKeeps, DaemonKeeps, DropKeeps, StutterIInv DEF Next
<1>3. QED
  BY <1>1, <1>2, PTL DEF Spec

-----------------------------------------------------------------------------
\* The head of two lists joined is that of the first.
Begins(a, b) == Head(a \o b) = Head(a)

\* The head of two lists joined, for lists of tokens.
LEMMA Beginning ==
    ASSUME NEW a \in Seq(Tokens), a # <<>>, NEW b \in Seq(Tokens)
    PROVE  Begins(a, b)
BY DEF Begins

\* A client that reads finds at the front what its step reads.
LEMMA InvInStep ==
    ASSUME IInv
    PROVE  InStep
<1>1. ASSUME Reading, down # <<>>
      PROVE  /\ Head(down).kind = ReadsKind
             /\ Head(todo).do = "drain" => Head(down).val \in Markers
             /\ Head(todo).do = "field" => Head(down).val \in {0, 1}
  <2>1. TypeOK /\ Busy /\ Stage /\ todo # <<>>
    BY <1>1 DEF IInv, Reading
  <2>2. todo \in Seq(Steps) /\ down \in Seq(Tokens)
    BY <2>1 DEF TypeOK
  <2>3. PICK e, q : Run(At(todo, conn.path), down, At(e, q))
    BY <2>1, Headed DEF Heading, Here
  <2>4. PICK steps \in Seq(Steps) : Becomes(Head(todo), Head(down), steps)
    BY <1>1, <2>1, <2>2, <2>3, NextRead
  <2>5. ReadsKind = KindOf(Head(todo))
    BY DEF ReadsKind, KindOf
  <2>6. QED
    BY <2>4, <2>5, Hears
<1>2. ASSUME daemon.state = "ready", daemon.request # <<>>
      PROVE  Head(daemon.request).val \in {opAddToStore, opSubmitOutput, opAddToStoreScanning}
  <2>1. TypeOK /\ Busy /\ Stage
    BY <1>2 DEF IInv, Silent
  <2>2. PICK r \in Requests : r = conn.req
    BY <2>1, BusyCall
  <2>3. Saying(Answering(r), daemon.request, Whole(r))
    BY <1>2, <2>1, <2>2 DEF Stage
  <2>4. /\ daemon.request \in Seq(Tokens) /\ up \in Seq(Tokens) /\ buffered \in Seq(Tokens)
    BY <2>1 DEF TypeOK
  <2>5. \A w \in Seq(Tokens) : up \o (buffered \o w) \in Seq(Tokens)
    <3>1. SUFFICES ASSUME NEW w \in Seq(Tokens) PROVE up \o (buffered \o w) \in Seq(Tokens)
      OBVIOUS
    <3>2. buffered \o w \in Seq(Tokens)
      BY <2>4
    <3>3. QED
      BY <2>4, <3>2
  <2>6. PICK c \in Seq(Tokens) : daemon.request \o c = Whole(r)
    BY <2>3, <2>4, <2>5, Zenon DEF Saying
  <2>7. Head(Whole(r)) = Head(daemon.request)
    <3>1. Begins(daemon.request, c)
      BY <1>2, <2>4, Beginning
    <3>2. QED
      BY <2>6, <3>1, Zenon DEF Begins
  <2>8. QED
    BY <2>7, WholeTypes
<1>3. QED
  BY <1>1, <1>2 DEF InStep, Markers

\* The client takes every primitive for what the daemon wrote it as, and the
\* daemon never begins to read a request that is not one (conn.go: a message
\* that is not read shifts "every subsequent read by one message").
THEOREM StaysInStep == Spec => []InStep
BY Invariance, InvInStep, PTL

\* A call that returns leaves nothing in either stream, nor in its buffer
\* (ops.go: the result of a submission "must be read to stay in sync").
THEOREM ReturnsClean == Spec => []LeavesNothing
<1>1. IInv => LeavesNothing
  BY DEF IInv, Busy, Silent, LeavesNothing
<1>2. QED
  BY <1>1, Invariance, PTL

-----------------------------------------------------------------------------
\* The store service that the callers of internal/sandbox rely on.
AbstractStep == Service!Next \/ UNCHANGED <<performed, AbstractCall>>

\* The abstract call, by the state of the connection.
LEMMA AbstractBusy ==
    /\ conn.state = "busy" => AbstractCall = [state |-> "asked", req |-> conn.req]
    /\ conn.state = "failed" => AbstractCall = [state |-> "failed", req |-> conn.req]
    /\ conn.state = "returned" =>
           AbstractCall = [state |-> "answered", req |-> conn.req, path |-> conn.path]
    /\ conn.state = "idle" => AbstractCall = [state |-> "idle"]
BY DEF AbstractCall

\* The same after a step.
LEMMA AbstractBusyNext ==
    /\ conn'.state = "busy" => AbstractCall' = [state |-> "asked", req |-> conn'.req]
    /\ conn'.state = "failed" => AbstractCall' = [state |-> "failed", req |-> conn'.req]
    /\ conn'.state = "returned" =>
           AbstractCall' = [state |-> "answered", req |-> conn'.req, path |-> conn'.path]
BY DEF AbstractCall

\* A call that goes on asks for what it asked for; one that fails is refused.
LEMMA GoesOn ==
    ASSUME conn.state = "busy", conn'.state \in {"busy", "failed"}, conn'.req = conn.req,
           performed' = performed
    PROVE  AbstractStep
<1>1. AbstractCall = [state |-> "asked", req |-> conn.req]
  BY AbstractBusy
<1>2. CASE conn'.state = "busy"
  BY <1>1, <1>2, AbstractBusyNext DEF AbstractStep
<1>3. CASE conn'.state = "failed"
  <2>1. AbstractCall' = [state |-> "failed", req |-> AbstractCall.req]
    BY <1>1, <1>3, AbstractBusyNext
  <2>2. AbstractCall.state = "asked"
    BY <1>1
  <2>3. Service!Refuse
    BY <2>1, <2>2 DEF Service!Refuse, Service!InProgress
  <2>4. QED
    BY <2>3 DEF AbstractStep, Service!Next
<1>4. QED
  BY <1>2, <1>3

\* The client's steps are invisible, but for the end of its call.
LEMMA ClientImplements ==
    ASSUME IInv, Client
    PROVE  AbstractStep
<1>1. Busy /\ TypeOK /\ Stage /\ conn.state = "busy" /\ conn \in Calling({"busy"})
  <2>1. Busy
    BY DEF Client, WriteStep, FlushStep, SkipStep, ExpectStep, PathStep, RepeatStep, FieldStep,
           VersionStep, FeatureStep, DrainStep, OperateStep, RaiseStep, ReturnStep, EndOfFile,
           Take, Step, Reading
  <2>2. QED
    BY <2>1, BusyCall DEF IInv, Busy, Calling
<1>2. ASSUME conn' = conn \/ Failed, performed' = performed PROVE AbstractStep
  <2>1. conn'.state \in {"busy", "failed"} /\ conn'.req = conn.req
    BY <1>1, <1>2 DEF Failed, Calling
  <2>2. QED
    BY <1>1, <1>2, <2>1, GoesOn
<1>3. CASE Listening
  <2>1. conn' \in Calling({"busy", "failed"}) /\ conn'.req = conn.req /\ performed' = performed
    BY <1>1, <1>3, ListeningFrame
  <2>2. QED
    BY <1>1, <2>1, GoesOn DEF Calling
<1>4. CASE WriteStep
  BY <1>2, <1>4 DEF WriteStep, Quiet
<1>5. CASE FlushStep
  BY <1>2, <1>5 DEF FlushStep, Quiet
<1>6. CASE OperateStep
  BY <1>2, <1>6 DEF OperateStep, Quiet
<1>7. CASE RaiseStep
  BY <1>2, <1>7 DEF RaiseStep, Quiet
<1>8. CASE EndOfFile
  BY <1>2, <1>8 DEF EndOfFile, Quiet
<1>9. CASE ReturnStep
  <2>1. conn.path = PathOf(conn.req) /\ conn.req \in performed
    BY <1>9, Returning
  <2>2. conn'.state = "returned" /\ conn'.req = conn.req /\ conn'.path = conn.path
        /\ performed' = performed
    BY <1>1, <1>9 DEF ReturnStep, Quiet, Calling
  <2>3. AbstractCall = [state |-> "asked", req |-> conn.req]
    BY <1>1, AbstractBusy
  <2>4. AbstractCall.state = "asked" /\ AbstractCall.req = conn.req
    BY <2>3
  <2>5. AbstractCall' = [state |-> "answered", req |-> conn.req, path |-> PathOf(conn.req)]
    BY <2>1, <2>2, AbstractBusyNext
  <2>6. Service!Answer
    BY <2>1, <2>2, <2>4, <2>5 DEF Service!Answer, Service!InProgress
  <2>7. QED
    BY <2>6 DEF AbstractStep, Service!Next
<1>10. QED
  BY <1>3, <1>4, <1>5, <1>6, <1>7, <1>8, <1>9 DEF Client, Listening

\* The daemon's steps are invisible, but for performing the operation.
LEMMA DaemonImplements ==
    ASSUME IInv, Daemon
    PROVE  AbstractStep
<1>1. ASSUME conn' = conn, performed' = performed PROVE AbstractStep
  <2>1. AbstractCall' = AbstractCall
    BY <1>1 DEF AbstractCall
  <2>2. QED
    BY <1>1, <2>1 DEF AbstractStep
<1>2. CASE Serve
  <2>1. PICK s \in Requests : Asked(s, daemon.request) /\ performed' = performed \cup {s}
    BY <1>2 DEF Serve
  <2>2. s = conn.req /\ conn.state = "busy" /\ conn' = conn
    BY <1>2, <2>1, Serving DEF Serve, DaemonRest
  <2>3. AbstractCall = [state |-> "asked", req |-> conn.req]
    BY <2>2, AbstractBusy
  <2>4. AbstractCall' = AbstractCall
    BY <2>2 DEF AbstractCall
  <2>5. AbstractCall.state = "asked" /\ AbstractCall.req = conn.req
    BY <2>3
  <2>6. Service!Perform
    BY <2>1, <2>2, <2>4, <2>5 DEF Service!Perform, Service!InProgress
  <2>7. QED
    BY <2>6 DEF AbstractStep, Service!Next
<1>3. CASE Hello
  BY <1>1, <1>3 DEF Hello, DaemonRest
<1>4. CASE Features
  BY <1>1, <1>4 DEF Features, DaemonRest
<1>5. CASE Stubs
  BY <1>1, <1>5 DEF Stubs, DaemonRest
<1>6. CASE Log
  BY <1>1, <1>6 DEF Log, DaemonRest
<1>7. CASE Greeted
  BY <1>1, <1>7 DEF Greeted, DaemonRest
<1>8. CASE Receive
  BY <1>1, <1>8 DEF Receive, DaemonRest
<1>9. CASE Reply
  BY <1>1, <1>9 DEF Reply, DaemonRest
<1>10. CASE Refuse
  BY <1>1, <1>10 DEF Refuse, DaemonRest
<1>11. QED
  BY <1>2, <1>3, <1>4, <1>5, <1>6, <1>7, <1>8, <1>9, <1>10 DEF Daemon

\* Dial asks the service.
LEMMA DialImplements ==
    ASSUME IInv, NEW r \in Requests, Dial(r)
    PROVE  AbstractStep
<1>1. /\ conn.state \in {"idle", "returned", "failed"} /\ performed' = performed
      /\ conn' = [state |-> "busy", req |-> r, path |-> NoPath]
  BY DEF Dial, Busy, IInv, TypeOK
<1>2. AbstractCall.state # "asked"
  BY <1>1, AbstractBusy
<1>3. AbstractCall' = [state |-> "asked", req |-> r]
  BY <1>1, AbstractBusyNext
<1>4. Service!Ask(r)
  BY <1>1, <1>2, <1>3 DEF Service!Ask, Service!InProgress
<1>5. QED
  BY <1>4 DEF AbstractStep, Service!Next

\* The client and the daemon together are the store service: a call returns the
\* path of what it uploaded, stored before it returned, or an error.
THEOREM ClientImplementsService == Spec => ServiceSpec
<1>1. Init => Service!Init
  BY AbstractBusy DEF Init, NoCall, Service!Init, Service!Idle
<1>2. IInv /\ [Next]_vars => [Service!Next]_<<performed, AbstractCall>>
  <2>1. SUFFICES ASSUME IInv, [Next]_vars PROVE AbstractStep
    BY DEF AbstractStep
  <2>2. CASE Drop
    BY <2>2 DEF Drop, DaemonRest, AbstractStep, AbstractCall
  <2>3. CASE UNCHANGED vars
    BY <2>3 DEF vars, AbstractStep, AbstractCall
  <2>4. QED
    BY <2>1, <2>2, <2>3, ClientImplements, DaemonImplements, DialImplements DEF Next
<1>3. QED
  BY <1>1, <1>2, Invariance, PTL DEF Spec, ServiceSpec, Service!Spec
=============================================================================
