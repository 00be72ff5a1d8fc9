------------------------- MODULE InspectCurrent_proofs -------------------------
(***************************************************************************)
(* Theorem about Inspect: what is shown of a stop is of that stop.         *)
(***************************************************************************)
EXTENDS Inspect_proofs

-----------------------------------------------------------------------------
(* The messages, and those behind the last stack                            *)

All(s) == {s[i] : i \in 1 .. Len(s)}

Behind(s, j) == \A k \in j .. Len(s) : s[k].kind # "stackTrace"
After(s) == {s[i] : i \in {j \in 1 .. Len(s) : Behind(s, j)}}

StackIn(A) == \E m \in A : m.kind = "stackTrace"
StopIn(A) == \E m \in A : m.kind = "stopped"

\* Those behind are messages, and without a stack all of them are.
LEMMA AfterFacts ==
  ASSUME NEW s, IsSequence(s)
  PROVE  After(s) \subseteq All(s) /\ (~StackIn(All(s)) => After(s) = All(s))
<1>1. Len(s) \in Nat
  BY DEF IsSequence
<1>2. After(s) \subseteq All(s)
  BY DEF After, All
<1>3. ASSUME ~StackIn(All(s)), NEW i \in 1 .. Len(s) PROVE Behind(s, i)
  <2>1. \A k \in i .. Len(s) : k \in 1 .. Len(s)
    BY <1>1
  <2>2. \A k \in 1 .. Len(s) : s[k].kind # "stackTrace"
    BY <1>3 DEF StackIn, All
  <2> QED BY <2>1, <2>2 DEF Behind
<1>4. ~StackIn(All(s)) => All(s) \subseteq After(s)
  BY <1>3 DEF All, After
<1> QED BY <1>2, <1>4

\* What a place gives.
LEMMA AfterAt ==
  ASSUME NEW s, NEW i \in 1 .. Len(s)
  PROVE  s[i] \in All(s) /\ (Behind(s, i) => s[i] \in After(s))
<1>1. s[i] \in All(s)
  BY DEF All
<1>2. Behind(s, i) => s[i] \in After(s)
  <2> DEFINE at == {j \in 1 .. Len(s) : Behind(s, j)}
  <2> HAVE Behind(s, i)
  <2>1. i \in at
    OBVIOUS
  <2> HIDE DEF at
  <2>2. s[i] \in {s[j] : j \in at}
    BY <2>1
  <2> QED BY <2>2 DEF After, at
<1> QED BY <1>1, <1>2

\* Two sequences in a row.
LEMMA ConcatAll ==
  ASSUME NEW s, NEW r, IsSequence(s), IsSequence(r)
  PROVE  /\ All(s \o r) = All(s) \cup All(r)
         /\ After(s \o r) \subseteq After(s) \cup All(r)
         /\ StackIn(All(r)) => After(s \o r) \subseteq All(r)
<1> DEFINE t == s \o r
<1>1. PICK S, R : s \in Seq(S) /\ r \in Seq(R)
  BY DEF IsSequence
<1>2. s \in Seq(S \cup R) /\ r \in Seq(S \cup R)
  BY <1>1
<1>3. /\ Len(s) \in Nat /\ Len(r) \in Nat /\ Len(t) = Len(s) + Len(r)
      /\ \A i \in 1 .. Len(s) : t[i] = s[i]
      /\ \A i \in 1 .. Len(t) : i \notin 1 .. Len(s) =>
           i - Len(s) \in 1 .. Len(r) /\ t[i] = r[i - Len(s)]
      /\ \A i \in 1 .. Len(r) : i + Len(s) \in 1 .. Len(t) /\ t[i + Len(s)] = r[i]
  BY <1>2
<1> HIDE DEF t
<1>4. \A i \in 1 .. Len(s) : i \in 1 .. Len(t)
  BY <1>3
<1>5. ASSUME NEW i \in 1 .. Len(t), i \notin 1 .. Len(s) PROVE t[i] \in All(r)
  BY <1>3, <1>5, AfterAt
<1>6. All(t) = All(s) \cup All(r)
  <2>1. ASSUME NEW m \in All(t) PROVE m \in All(s) \cup All(r)
    <3>1. PICK i \in 1 .. Len(t) : m = t[i]
      BY DEF All
    <3>2. CASE i \in 1 .. Len(s)
      BY <1>3, <3>1, <3>2, AfterAt
    <3> QED BY <1>5, <3>1, <3>2
  <2>2. ASSUME NEW m \in All(s) PROVE m \in All(t)
    <3>1. PICK i \in 1 .. Len(s) : m = s[i]
      BY DEF All
    <3> QED BY <1>3, <1>4, <3>1, AfterAt
  <2>3. ASSUME NEW m \in All(r) PROVE m \in All(t)
    <3>1. PICK i \in 1 .. Len(r) : m = r[i]
      BY DEF All
    <3>2. i + Len(s) \in 1 .. Len(t) /\ t[i + Len(s)] = m
      BY <1>3, <3>1
    <3> QED BY <3>2, AfterAt
  <2> QED BY <2>1, <2>2, <2>3
<1>7. ASSUME NEW m \in After(t) PROVE m \in All(r) \/ (m \in After(s) /\ ~StackIn(All(r)))
  <2>1. PICK i \in 1 .. Len(t) : m = t[i] /\ Behind(t, i)
    BY DEF After
  <2>2. CASE i \in 1 .. Len(s)
    <3>1. m = s[i]
      BY <1>3, <2>1, <2>2
    <3>2. Behind(s, i)
      <4>1. \A k \in i .. Len(s) : k \in i .. Len(t) /\ t[k] = s[k]
        BY <1>3, <2>2
      <4> QED BY <2>1, <4>1 DEF Behind
    <3>3. ~StackIn(All(r))
      <4>1. ASSUME NEW j \in 1 .. Len(r) PROVE r[j].kind # "stackTrace"
        <5>1. j + Len(s) \in i .. Len(t) /\ t[j + Len(s)] = r[j]
          BY <1>3, <2>2
        <5> QED BY <2>1, <5>1 DEF Behind
      <4> QED BY <4>1 DEF StackIn, All
    <3> QED BY <2>2, <3>1, <3>2, <3>3, AfterAt
  <2> QED BY <1>5, <2>1, <2>2
<1> QED BY <1>6, <1>7 DEF t

\* A message that is added.
LEMMA AppendAll ==
  ASSUME NEW s, IsSequence(s), NEW e
  PROVE  /\ All(Append(s, e)) = All(s) \cup {e}
         /\ After(Append(s, e)) \subseteq After(s) \cup {e}
         /\ e.kind = "stackTrace" => After(Append(s, e)) = {}
<1> DEFINE t == Append(s, e)
<1>1. PICK S : s \in Seq(S)
  BY DEF IsSequence
<1>2. s \in Seq(S \cup {e}) /\ e \in S \cup {e}
  BY <1>1
<1>3. /\ Len(s) \in Nat /\ Len(t) = Len(s) + 1 /\ t[Len(s) + 1] = e
      /\ \A i \in 1 .. Len(s) : t[i] = s[i]
  BY <1>2
<1> HIDE DEF t
<1>4. \A i \in 1 .. Len(t) : i = Len(t) \/ i \in 1 .. Len(s)
  BY <1>3
<1>5. \A i \in 1 .. Len(s) : i \in 1 .. Len(t)
  BY <1>3
<1>6. Len(t) \in 1 .. Len(t) /\ t[Len(t)] = e
  BY <1>3
<1>7. All(t) = All(s) \cup {e}
  <2>1. ASSUME NEW m \in All(t) PROVE m \in All(s) \cup {e}
    <3>1. PICK i \in 1 .. Len(t) : m = t[i]
      BY DEF All
    <3>2. CASE i \in 1 .. Len(s)
      BY <1>3, <3>1, <3>2, AfterAt
    <3> QED BY <1>4, <1>6, <3>1, <3>2
  <2>2. ASSUME NEW m \in All(s) PROVE m \in All(t)
    <3>1. PICK i \in 1 .. Len(s) : m = s[i]
      BY DEF All
    <3> QED BY <1>3, <1>5, <3>1, AfterAt
  <2>3. e \in All(t)
    BY <1>6, AfterAt
  <2> QED BY <2>1, <2>2, <2>3
<1>8. ASSUME NEW m \in After(t) PROVE m \in After(s) \cup {e} /\ e.kind # "stackTrace"
  <2>1. PICK i \in 1 .. Len(t) : m = t[i] /\ Behind(t, i)
    BY DEF After
  <2>2. e.kind # "stackTrace"
    <3>1. Len(t) \in i .. Len(t)
      BY <1>3
    <3> QED BY <1>6, <2>1, <3>1 DEF Behind
  <2>3. CASE i \in 1 .. Len(s)
    <3>1. m = s[i]
      BY <1>3, <2>1, <2>3
    <3>2. \A k \in i .. Len(s) : k \in i .. Len(t) /\ t[k] = s[k]
      BY <1>3, <2>3
    <3>3. Behind(s, i)
      BY <2>1, <3>2 DEF Behind
    <3> QED BY <2>2, <2>3, <3>1, <3>3, AfterAt
  <2> QED BY <1>4, <1>6, <2>1, <2>2, <2>3
<1> QED BY <1>7, <1>8 DEF t

\* The first message is taken.
LEMMA TailAll ==
  ASSUME NEW s, IsSequence(s), s # <<>>
  PROVE  /\ All(s) = All(Tail(s)) \cup {Head(s)}
         /\ After(Tail(s)) \subseteq After(s)
<1> DEFINE t == Tail(s)
<1>1. PICK S : s \in Seq(S)
  BY DEF IsSequence
<1>2. /\ Len(t) \in Nat /\ Len(s) = Len(t) + 1 /\ Head(s) = s[1]
      /\ \A i \in 1 .. Len(t) : t[i] = s[i + 1]
  BY <1>1, HeadTailProperties
<1> HIDE DEF t
<1>3. \A i \in 1 .. Len(t) : i + 1 \in 1 .. Len(s)
  BY <1>2
<1>4. \A i \in 1 .. Len(s) : i = 1 \/ (i - 1 \in 1 .. Len(t) /\ t[i - 1] = s[i])
  BY <1>2
<1>5. 1 \in 1 .. Len(s)
  BY <1>2
<1>6. All(s) = All(t) \cup {Head(s)}
  <2>1. ASSUME NEW m \in All(s) PROVE m \in All(t) \cup {Head(s)}
    <3>1. PICK i \in 1 .. Len(s) : m = s[i]
      BY DEF All
    <3>2. CASE i # 1
      <4>1. i - 1 \in 1 .. Len(t) /\ t[i - 1] = m
        BY <1>4, <3>1, <3>2
      <4> QED BY <4>1, AfterAt
    <3> QED BY <1>2, <3>1, <3>2
  <2>2. ASSUME NEW m \in All(t) PROVE m \in All(s)
    <3>1. PICK i \in 1 .. Len(t) : m = t[i]
      BY DEF All
    <3>2. i + 1 \in 1 .. Len(s) /\ s[i + 1] = m
      BY <1>2, <1>3, <3>1
    <3> QED BY <3>2, AfterAt
  <2>3. Head(s) \in All(s)
    BY <1>2, <1>5, AfterAt
  <2> QED BY <2>1, <2>2, <2>3
<1>7. ASSUME NEW m \in After(t) PROVE m \in After(s)
  <2>1. PICK i \in 1 .. Len(t) : m = t[i] /\ Behind(t, i)
    BY DEF After
  <2>2. i + 1 \in 1 .. Len(s) /\ s[i + 1] = m
    BY <1>2, <1>3, <2>1
  <2>3. ASSUME NEW k \in i + 1 .. Len(s) PROVE s[k].kind # "stackTrace"
    <3>1. k - 1 \in i .. Len(t) /\ t[k - 1] = s[k]
      BY <1>2
    <3> QED BY <2>1, <3>1 DEF Behind
  <2>4. Behind(s, i + 1)
    BY <2>3 DEF Behind
  <2> QED BY <2>2, <2>4, AfterAt
<1> QED BY <1>6, <1>7 DEF t

\* No message, one, and several.
LEMMA AllFacts ==
  /\ All(<<>>) = {} /\ After(<<>>) = {}
  /\ \A a : All(<<a>>) = {a}
  /\ \A s, K : Among(s, K) = {m \in All(s) : m.kind \in K}
<1>1. All(<<>>) = {} /\ After(<<>>) = {}
  <2> DEFINE t == <<>>
  <2>1. \A i \in 1 .. Len(t) : FALSE
    OBVIOUS
  <2> HIDE DEF t
  <2>2. All(t) = {} /\ After(t) = {}
    BY <2>1 DEF All, After
  <2> QED BY <2>2 DEF t
<1>2. ASSUME NEW a PROVE All(<<a>>) = {a}
  <2> DEFINE t == <<a>>
  <2>1. 1 \in 1 .. Len(t) /\ t[1] = a /\ \A i \in 1 .. Len(t) : i = 1
    OBVIOUS
  <2> HIDE DEF t
  <2>2. All(t) = {a}
    BY <2>1 DEF All
  <2> QED BY <2>2 DEF t
<1>3. ASSUME NEW s, NEW K PROVE Among(s, K) = {m \in All(s) : m.kind \in K}
  <2>1. ASSUME NEW m \in Among(s, K) PROVE m \in All(s) /\ m.kind \in K
    BY DEF Among, All
  <2>2. ASSUME NEW m \in All(s), m.kind \in K PROVE m \in Among(s, K)
    <3>1. PICK i \in 1 .. Len(s) : m = s[i]
      BY DEF All
    <3> QED BY <2>2, <3>1, AmongHas
  <2> QED BY <2>1, <2>2
<1> QED BY <1>1, <1>2, <1>3

\* Of a kind that is there once.
LEMMA OnlyOne ==
  ASSUME NEW s, IsSequence(s), NEW K, ~Two(s, K), NEW m \in Among(s, K), NEW n \in Among(s, K)
  PROVE  m = n
<1>1. PICK i \in 1 .. Len(s) : m = s[i] /\ s[i].kind \in K
  BY DEF Among
<1>2. PICK j \in 1 .. Len(s) : n = s[j] /\ s[j].kind \in K
  BY DEF Among
<1>3. ~(i < j) /\ ~(j < i)
  BY <1>1, <1>2 DEF Two
<1>4. Len(s) \in Nat
  BY DEF IsSequence
<1>5. i = j
  BY <1>3, <1>4
<1> QED BY <1>1, <1>2, <1>5

\* Of what moves the call stack, the stops and the stacks.
LEMMA MovesFacts ==
  /\ \A m \in All(asked) : m.kind = "stackTrace" => m \in Moving
  /\ \A m \in All(inbox) : m.kind \in {"stackTrace", "stopped"} => m \in Moved
  /\ \A m \in Moving : m \in All(asked)
  /\ \A m \in Moved : m \in All(inbox)
BY AllFacts DEF Moving, Moved, MovingRequests, MovingMessages

-----------------------------------------------------------------------------
(* What is of the stop n                                                    *)

Fresh(f, n) == f # None /\ f.stop = n

StaleRequest(m, n) == m.kind = "memory" /\ ~Fresh(m.arg, n)

StaleAnswer(m, n) ==
  \/ m.kind = "memory" /\ ~Fresh(m.body, n)
  \/ m.kind = "evaluate" /\ m.body # None /\ ~Fresh(m.body, n)
  \/ m.kind = "variables" /\ \E i \in 1 .. Len(m.body) : ~Fresh(m.body[i].frame, n)

\* The messages that will make what is shown of it: the scopes, the local variables, the value
\* of the watch w, and the memory.
ScopesAnswer(m, n) == m.kind = "scopes" /\ Fresh(m.body, n)
LocalsAnswer(m, n) ==
  m.kind = "variables" /\ \E f \in Frames : Fresh(f, n) /\ m.body = Variables(f, "Locals")
ValueAnswer(m, w, n) == m.kind = "evaluate" /\ m.node = <<w>> /\ Fresh(m.body, n)
MemoryAnswer(m, n) == m.kind = "memory" /\ Fresh(m.body, n)

ScopesRequest(m, n) == m.kind = "scopes" /\ Fresh(m.arg, n)
LocalsRequest(m, n) ==
  m.kind = "variables" /\ m.arg # None /\ m.arg.name = "Locals" /\ Fresh(m.arg.frame, n)
ValueRequest(m, w, n) == m.kind = "evaluate" /\ m.node = <<w>> /\ Fresh(m.arg, n)
MemoryRequest(m, n) == m.kind = "memory" /\ Fresh(m.arg, n)

\* They are asked for, A, or answered, I.
ScopesIn(A, I, n) == (\E m \in A : ScopesRequest(m, n)) \/ \E m \in I : ScopesAnswer(m, n)
LocalsIn(A, I, n) == (\E m \in A : LocalsRequest(m, n)) \/ \E m \in I : LocalsAnswer(m, n)
ValueIn(A, I, w, n) == (\E m \in A : ValueRequest(m, w, n)) \/ \E m \in I : ValueAnswer(m, w, n)
MemoryIn(A, I, n) == (\E m \in A : MemoryRequest(m, n)) \/ \E m \in I : MemoryAnswer(m, n)

\* The value of a watch, and what is shown is of the stop n or will be.
FreshValue(v, n) == v # None /\ Fresh(v.frame, n)

Done(W, mem, A, I, n) ==
  /\ \A w \in DOMAIN W : w \in LocalNames => FreshValue(W[w].value, n) \/ ValueIn(A, I, w, n)
  /\ MemoryShown => Fresh(mem, n) \/ MemoryIn(A, I, n)

-----------------------------------------------------------------------------
(* The invariant                                                            *)

Known == stop # 0 /\ ~StopIn(All(inbox))
Coming == StackIn(All(asked)) \/ StopIn(All(inbox)) \/ StackIn(All(inbox))

\* The call stack is that of the stop that is known.
StackFresh == Known => \A i \in 1 .. Len(backtrace) : Fresh(backtrace[i], stop)

\* So is one that is answered.
AnswerFresh ==
  \A m \in All(inbox) : m.kind = "stackTrace" =>
    m.body.source = source /\ \A i \in 1 .. Len(m.body.frames) : Fresh(m.body.frames[i], stop)

\* There is a frame in use when the stack is there.
FrameChosen == stop # 0 /\ ~Coming => frame # 0

\* What was asked for in a frame of an earlier stop is before the stack.
NoneStale ==
  Known =>
    /\ \A m \in After(asked) : ~StaleRequest(m, stop)
    /\ StackIn(All(asked)) \/ \A m \in After(inbox) : ~StaleAnswer(m, stop)

\* What is shown is of the stop, or what leads to it is on its way.
Follows ==
  running /\ stop # 0 /\ HasSource =>
    \/ Coming
    \/ ScopesIn(All(asked), All(inbox), stop)
    \/ LocalsIn(All(asked), All(inbox), stop)
    \/ Done(watches, memory, All(asked), All(inbox), stop)

CurrentInv == StackFresh /\ AnswerFresh /\ FrameChosen /\ NoneStale /\ Follows

-----------------------------------------------------------------------------
(* Steps that leave the stop and the call stack alone                       *)

\* A message, one of G or none, is taken, and the requests R are added.
Passes(G, R) ==
  /\ All(asked') = All(asked) \cup R /\ After(asked') \subseteq After(asked) \cup R
  /\ All(inbox) = All(inbox') \cup G /\ After(inbox') \subseteq After(inbox)
  /\ \A m \in R : m.kind # "stackTrace"
  /\ \A m \in G : m.kind \notin {"stopped", "stackTrace"}
  /\ UNCHANGED <<stop, source, depth, backtrace, frame, running>>

\* The user asks,
LEMMA PassAsk ==
  ASSUME Calm, NEW r, IsSequence(r), ~StackIn(All(r)), Ask(r), inbox' = inbox,
         UNCHANGED <<stop, source, depth, backtrace, frame, running>>
  PROVE  Passes({}, All(r))
<1>1. IsSequence(asked) /\ asked' = asked \o r
  BY DEF Calm, OneMoves, Ask
<1>2. All(asked') = All(asked) \cup All(r) /\ After(asked') \subseteq After(asked) \cup All(r)
  BY <1>1, ConcatAll
<1>3. \A m \in All(r) : m.kind # "stackTrace"
  BY DEF StackIn
<1> QED BY <1>2, <1>3 DEF Passes

\* or a message is handled.
LEMMA PassHandle ==
  ASSUME Calm, NEW r, IsSequence(r), ~StackIn(All(r)), Ask(r),
         NEW kind, Handle(kind), kind \notin {"stopped", "stackTrace"},
         UNCHANGED <<stop, source, depth, backtrace, frame, running>>
  PROVE  Passes({Head(inbox)}, All(r)) /\ Head(inbox) \in All(inbox) /\ Head(inbox).kind = kind
<1>1. /\ IsSequence(asked) /\ asked' = asked \o r
      /\ IsSequence(inbox) /\ inbox # <<>> /\ inbox' = Tail(inbox) /\ Head(inbox).kind = kind
  BY DEF Calm, OneMoves, Ask, Handle
<1>2. All(asked') = All(asked) \cup All(r) /\ After(asked') \subseteq After(asked) \cup All(r)
  BY <1>1, ConcatAll
<1>3. All(inbox) = All(inbox') \cup {Head(inbox)} /\ After(inbox') \subseteq After(inbox)
  BY <1>1, TailAll
<1>4. \A m \in All(r) : m.kind # "stackTrace"
  BY DEF StackIn
<1> QED BY <1>1, <1>2, <1>3, <1>4 DEF Passes

\* To ask nothing.
LEMMA AskNone ==
  ASSUME Calm, asked' = asked, seq' = seq, seq \in Nat
  PROVE  Ask(<<>>) /\ IsSequence(<<>>) /\ ~StackIn(All(<<>>)) /\ All(<<>>) = {}
<1>1. asked \o <<>> = asked
  <2>1. PICK S : asked \in Seq(S)
    BY DEF Calm, OneMoves, IsSequence
  <2> QED BY <2>1
<1>2. IsSequence(<<>>) /\ All(<<>>) = {}
  BY EmptyFacts, AllFacts
<1>3. Ask(<<>>)
  <2>1. Len(<<>>) = 0
    OBVIOUS
  <2> QED BY <1>1, <2>1 DEF Ask
<1> QED BY <1>2, <1>3 DEF StackIn

\* What is known and what comes stays.
LEMMA PassComing ==
  ASSUME NEW G, NEW R, Passes(G, R)
  PROVE  Known' = Known /\ Coming' = Coming /\ StackIn(All(asked')) = StackIn(All(asked))
<1>1. StackIn(All(asked')) <=> StackIn(All(asked))
  BY DEF Passes, StackIn
<1>2. StackIn(All(inbox')) <=> StackIn(All(inbox))
  BY DEF Passes, StackIn
<1>3. StopIn(All(inbox')) <=> StopIn(All(inbox))
  BY DEF Passes, StopIn
<1>4. Known' <=> Known
  BY <1>3 DEF Passes, Known
<1>5. Coming' <=> Coming
  BY <1>1, <1>2, <1>3 DEF Coming
<1>6. /\ Known \in BOOLEAN /\ Known' \in BOOLEAN /\ Coming \in BOOLEAN /\ Coming' \in BOOLEAN
      /\ StackIn(All(asked)) \in BOOLEAN /\ StackIn(All(asked')) \in BOOLEAN
  BY DEF Known, Coming, StackIn
<1> QED BY <1>1, <1>4, <1>5, <1>6

\* So does what does not depend on the watches.
LEMMA PassKept ==
  ASSUME CurrentInv, NEW G, NEW R, Passes(G, R), Known => \A m \in R : ~StaleRequest(m, stop)
  PROVE  StackFresh' /\ AnswerFresh' /\ FrameChosen' /\ NoneStale'
<1>0. stop' = stop /\ backtrace' = backtrace /\ frame' = frame /\ source' = source
  BY DEF Passes
<1>1. Known' = Known /\ Coming' = Coming /\ StackIn(All(asked')) = StackIn(All(asked))
  BY PassComing
<1>2. StackFresh'
  BY <1>0, <1>1 DEF CurrentInv, StackFresh
<1>3. AnswerFresh'
  <2>1. \A m \in All(inbox') : m \in All(inbox)
    BY DEF Passes
  <2> QED BY <1>0, <2>1 DEF CurrentInv, AnswerFresh
<1>4. FrameChosen'
  BY <1>0, <1>1 DEF CurrentInv, FrameChosen
<1>5. NoneStale'
  <2>1. \A m \in After(asked') : m \in After(asked) \/ m \in R
    BY DEF Passes
  <2>2. \A m \in After(inbox') : m \in After(inbox)
    BY DEF Passes
  <2> QED BY <1>0, <1>1, <2>1, <2>2 DEF CurrentInv, NoneStale
<1> QED BY <1>2, <1>3, <1>4, <1>5

\* What is on its way stays so, unless it is taken.
LEMMA PassWaits ==
  ASSUME NEW A, NEW I, NEW B, NEW J, NEW G, A \subseteq B, I \subseteq J \cup G, NEW n
  PROVE  /\ ScopesIn(A, I, n) => ScopesIn(B, J, n) \/ \E m \in G : ScopesAnswer(m, n)
         /\ LocalsIn(A, I, n) => LocalsIn(B, J, n) \/ \E m \in G : LocalsAnswer(m, n)
         /\ \A w : ValueIn(A, I, w, n) => ValueIn(B, J, w, n) \/ \E m \in G : ValueAnswer(m, w, n)
         /\ MemoryIn(A, I, n) => MemoryIn(B, J, n) \/ \E m \in G : MemoryAnswer(m, n)
<1>1. ScopesIn(A, I, n) => ScopesIn(B, J, n) \/ \E m \in G : ScopesAnswer(m, n)
  BY DEF ScopesIn
<1>2. LocalsIn(A, I, n) => LocalsIn(B, J, n) \/ \E m \in G : LocalsAnswer(m, n)
  BY DEF LocalsIn
<1>3. \A w : ValueIn(A, I, w, n) => ValueIn(B, J, w, n) \/ \E m \in G : ValueAnswer(m, w, n)
  BY DEF ValueIn
<1>4. MemoryIn(A, I, n) => MemoryIn(B, J, n) \/ \E m \in G : MemoryAnswer(m, n)
  BY DEF MemoryIn
<1> QED BY <1>1, <1>2, <1>3, <1>4

\* What is on its way to be shown is still so.
StillIn(A, I, B, J, n) ==
  /\ \A w : ValueIn(A, I, w, n) => ValueIn(B, J, w, n)
  /\ MemoryIn(A, I, n) => MemoryIn(B, J, n)

\* Other messages are taken.
LEMMA PassStill ==
  ASSUME NEW A, NEW I, NEW B, NEW J, NEW G, A \subseteq B, I \subseteq J \cup G, NEW n,
         \A m \in G : m.kind \notin {"evaluate", "memory"}
  PROVE  StillIn(A, I, B, J, n)
<1>1. \A w : ValueIn(A, I, w, n) => ValueIn(B, J, w, n) \/ \E m \in G : ValueAnswer(m, w, n)
  BY PassWaits
<1>2. MemoryIn(A, I, n) => MemoryIn(B, J, n) \/ \E m \in G : MemoryAnswer(m, n)
  BY PassWaits
<1>3. \A m \in G : ~MemoryAnswer(m, n) /\ \A w : ~ValueAnswer(m, w, n)
  BY DEF MemoryAnswer, ValueAnswer
<1> QED BY <1>1, <1>2, <1>3 DEF StillIn

\* The watches keep their values, or get fresh ones.
FreshOrSame(W, V, B, J, n) ==
  \A w \in DOMAIN V : w \in LocalNames =>
    \/ w \in DOMAIN W /\ V[w].value = W[w].value
    \/ FreshValue(V[w].value, n) \/ ValueIn(B, J, w, n)

\* Then what is shown is or will be of the stop, as before.
LEMMA PassDone ==
  ASSUME NEW W, NEW mem, NEW A, NEW I, NEW n, Done(W, mem, A, I, n),
         NEW V, NEW B, NEW J, StillIn(A, I, B, J, n), FreshOrSame(W, V, B, J, n)
  PROVE  Done(V, mem, B, J, n)
<1>1. MemoryShown => Fresh(mem, n) \/ MemoryIn(B, J, n)
  BY DEF Done, StillIn
<1>2. ASSUME NEW w \in DOMAIN V, w \in LocalNames
      PROVE  FreshValue(V[w].value, n) \/ ValueIn(B, J, w, n)
  <2>1. CASE w \in DOMAIN W /\ V[w].value = W[w].value
    <3>1. FreshValue(W[w].value, n) \/ ValueIn(A, I, w, n)
      BY <1>2, <2>1 DEF Done
    <3> QED BY <2>1, <3>1 DEF StillIn
  <2> QED BY <1>2, <2>1 DEF FreshOrSame
<1> QED BY <1>1, <1>2 DEF Done

\* What follows a stop goes on: the scopes lead to the local variables, those to what is shown.
LEMMA PassFollows ==
  ASSUME CurrentInv, NEW G, NEW R, Passes(G, R),
         Known => \A m \in R : ~StaleRequest(m, stop),
         ~Coming /\ stop # 0 /\ (\E m \in G : ScopesAnswer(m, stop)) =>
           LocalsIn(All(asked'), All(inbox'), stop),
         ~Coming /\ stop # 0 /\ (\E m \in G : LocalsAnswer(m, stop)) =>
           Done(watches', memory', All(asked'), All(inbox'), stop),
         ~Coming /\ stop # 0 /\ running /\ Done(watches, memory, All(asked), All(inbox), stop) =>
           Done(watches', memory', All(asked'), All(inbox'), stop)
  PROVE  CurrentInv'
<1>1. StackFresh' /\ AnswerFresh' /\ FrameChosen' /\ NoneStale'
  BY PassKept
<1>2. Coming' = Coming
  BY PassComing
<1>3. stop' = stop /\ running' = running /\ (HasSource' <=> HasSource)
  BY DEF Passes, HasSource
<1>4. All(asked) \subseteq All(asked') /\ All(inbox) \subseteq All(inbox') \cup G
  BY DEF Passes
<1>5. /\ ScopesIn(All(asked), All(inbox), stop) =>
           ScopesIn(All(asked'), All(inbox'), stop) \/ \E m \in G : ScopesAnswer(m, stop)
      /\ LocalsIn(All(asked), All(inbox), stop) =>
           LocalsIn(All(asked'), All(inbox'), stop) \/ \E m \in G : LocalsAnswer(m, stop)
  BY <1>4, PassWaits
<1>6. ASSUME running, stop # 0, HasSource, ~Coming
      PROVE  \/ ScopesIn(All(asked'), All(inbox'), stop)
             \/ LocalsIn(All(asked'), All(inbox'), stop)
             \/ Done(watches', memory', All(asked'), All(inbox'), stop)
  BY <1>5, <1>6 DEF CurrentInv, Follows
<1>7. Follows'
  BY <1>2, <1>3, <1>6 DEF Follows
<1> QED BY <1>1, <1>7 DEF CurrentInv

-----------------------------------------------------------------------------
(* What is asked about the frame in use                                     *)

\* It is a frame of the stop that is known.
LEMMA InFrame ==
  ASSUME Calm, CurrentInv, Known, frame # 0
  PROVE  Fresh(backtrace[frame], stop)
<1>1. frame \in 1 .. Len(backtrace)
  BY DEF Calm, Ranges
<1> QED BY <1>1 DEF CurrentInv, StackFresh

\* It is what is asked about, if there is one.
LEMMA FrameAsked ==
  ASSUME NEW kind, NEW node, NEW n
  PROVE  /\ IsSequence(AskFrame(kind, node, n))
         /\ \A m \in All(AskFrame(kind, node, n)) :
              m.kind = kind /\ m.arg = backtrace[frame] /\ m.node = node /\ frame # 0
         /\ frame # 0 => \E m \in All(AskFrame(kind, node, n)) :
                           m.kind = kind /\ m.arg = backtrace[frame] /\ m.node = node
<1> DEFINE a == Request(kind, backtrace[frame], node, n)
<1>1. HasKind(a) /\ a.kind = kind /\ a.arg = backtrace[frame] /\ a.node = node
  BY FieldFacts
<1> HIDE DEF a
<1>2. IsSequence(<<a>>) /\ All(<<a>>) = {a} /\ IsSequence(<<>>) /\ All(<<>>) = {}
  BY <1>1, SingleFacts, EmptyFacts, AllFacts
<1>3. CASE frame = 0
  <2>1. AskFrame(kind, node, n) = <<>>
    BY <1>3 DEF AskFrame
  <2> QED BY <1>2, <1>3, <2>1
<1>4. CASE frame # 0
  <2>1. AskFrame(kind, node, n) = <<a>>
    BY <1>4 DEF AskFrame, a
  <2> QED BY <1>1, <1>2, <1>4, <2>1
<1> QED BY <1>3, <1>4

\* The disassembly and the memory.
LEMMA RefreshAsked ==
  ASSUME NEW n
  PROVE  /\ IsSequence(Refresh(n))
         /\ \A m \in All(Refresh(n)) :
              m.kind \in {"disassemble", "memory"} /\ m.arg = backtrace[frame] /\ frame # 0
         /\ MemoryShown /\ frame # 0 =>
              \E m \in All(Refresh(n)) : m.kind = "memory" /\ m.arg = backtrace[frame]
<1> DEFINE code == IF DisassemblyShown THEN AskFrame("disassemble", Nobody, n) ELSE <<>>
           data == IF MemoryShown THEN AskFrame("memory", Nobody, n + Len(code)) ELSE <<>>
<1>1. /\ IsSequence(code)
      /\ \A m \in All(code) : m.kind = "disassemble" /\ m.arg = backtrace[frame] /\ frame # 0
  BY FrameAsked, EmptyFacts, AllFacts
<1> HIDE DEF code
<1>2. /\ IsSequence(data)
      /\ \A m \in All(data) : m.kind = "memory" /\ m.arg = backtrace[frame] /\ frame # 0
      /\ MemoryShown /\ frame # 0 => \E m \in All(data) : m.kind = "memory" /\ m.arg = backtrace[frame]
  BY FrameAsked, EmptyFacts, AllFacts
<1>3. Refresh(n) = code \o data
  BY DEF Refresh, code
<1> HIDE DEF data
<1>4. IsSequence(code \o data)
  <2>1. Idle(Refresh(n))
    BY RequestsIdle
  <2> QED BY <1>3, <2>1 DEF Idle
<1>5. All(code \o data) = All(code) \cup All(data)
  BY <1>1, <1>2, ConcatAll
<1> QED BY <1>1, <1>2, <1>3, <1>4, <1>5

\* The value of a watch.
LEMMA UpdateAsked ==
  ASSUME NEW node, NEW n
  PROVE  /\ IsSequence(UpdateRequests(node, n))
         /\ \A m \in All(UpdateRequests(node, n)) : m.kind \in {"info", "evaluate"}
         /\ frame # 0 => \E m \in All(UpdateRequests(node, n)) :
              m.kind = "evaluate" /\ m.arg = backtrace[frame] /\ m.node = <<node.name>>
<1> DEFINE a == Request("info", None, Nobody, n)
           r == AskFrame("evaluate", <<node.name>>, n + 1)
<1>1. HasKind(a) /\ a.kind = "info"
  BY FieldFacts
<1>2. /\ IsSequence(r) /\ \A m \in All(r) : m.kind = "evaluate"
      /\ frame # 0 => \E m \in All(r) :
           m.kind = "evaluate" /\ m.arg = backtrace[frame] /\ m.node = <<node.name>>
  BY FrameAsked
<1>3. UpdateRequests(node, n) = <<a>> \o r
  BY DEF UpdateRequests
<1> HIDE DEF a, r
<1>4. IsSequence(<<a>>) /\ All(<<a>>) = {a}
  BY <1>1, SingleFacts, AllFacts
<1>5. IsSequence(<<a>> \o r)
  <2>1. Idle(UpdateRequests(node, n))
    BY RequestsIdle
  <2> QED BY <1>3, <2>1 DEF Idle
<1> DEFINE s == <<a>>
<1> HIDE DEF s
<1>6. All(s \o r) = All(s) \cup All(r)
  BY <1>2, <1>4, ConcatAll DEF s
<1> QED BY <1>1, <1>2, <1>3, <1>4, <1>5, <1>6 DEF s

-----------------------------------------------------------------------------
(* The user                                                                 *)

\* Requests about the frame in use, which leave the watches their values or ask for them.
LEMMA AskCurrent ==
  ASSUME Calm, CurrentInv, NEW r, IsSequence(r), Ask(r), inbox' = inbox,
         UNCHANGED <<stop, source, depth, backtrace, frame, running, memory>>,
         \A m \in All(r) :
           m.kind # "stackTrace" /\ (m.kind = "memory" => frame # 0 /\ m.arg = backtrace[frame]),
         \A w \in DOMAIN watches' : w \in LocalNames =>
           \/ w \in DOMAIN watches /\ watches'[w].value = watches[w].value
           \/ running /\ frame # 0 => \E m \in All(r) :
                m.kind = "evaluate" /\ m.arg = backtrace[frame] /\ m.node = <<w>>
  PROVE  CurrentInv'
<1>1. Passes({}, All(r))
  BY PassAsk DEF StackIn
<1>2. Known => \A m \in All(r) : ~StaleRequest(m, stop)
  BY InFrame DEF StaleRequest
<1>3. ASSUME ~Coming, stop # 0, running, Done(watches, memory, All(asked), All(inbox), stop)
      PROVE  Done(watches', memory', All(asked'), All(inbox'), stop)
  <2>1. Known /\ frame # 0
    BY <1>3 DEF Coming, Known, CurrentInv, FrameChosen
  <2>2. Fresh(backtrace[frame], stop)
    BY <2>1, InFrame
  <2> DEFINE G == {}
  <2>3. /\ All(asked) \subseteq All(asked') /\ All(r) \subseteq All(asked')
        /\ All(inbox) \subseteq All(inbox') \cup G
        /\ \A m \in G : m.kind \notin {"evaluate", "memory"}
    BY <1>1 DEF Passes
  <2> HIDE DEF G
  <2>4. ASSUME NEW w \in DOMAIN watches', w \in LocalNames
        PROVE  \/ w \in DOMAIN watches /\ watches'[w].value = watches[w].value
               \/ FreshValue(watches'[w].value, stop) \/ ValueIn(All(asked'), All(inbox'), w, stop)
    BY <1>3, <2>1, <2>2, <2>3, <2>4 DEF ValueIn, ValueRequest
  <2>5. FreshOrSame(watches, watches', All(asked'), All(inbox'), stop)
    BY <2>4 DEF FreshOrSame
  <2>6. StillIn(All(asked), All(inbox), All(asked'), All(inbox'), stop)
    BY <2>3, PassStill
  <2>7. Done(watches', memory, All(asked'), All(inbox'), stop)
    BY <1>3, <2>5, <2>6, PassDone
  <2> QED BY <2>7
<1> QED BY <1>1, <1>2, <1>3, PassFollows

\* Nothing is asked.
LEMMA StayCurrent ==
  ASSUME ShownInv, Calm, CurrentInv,
         UNCHANGED <<asked, seq, inbox, stop, source, depth, backtrace, frame, running, memory>>,
         \A w \in DOMAIN watches' : w \in LocalNames =>
           \/ w \in DOMAIN watches /\ watches'[w].value = watches[w].value
           \/ ~running
  PROVE  CurrentInv'
<1> DEFINE r == <<>>
<1>1. seq \in Nat
  BY DEF ShownInv, MessagesInv
<1>2. Ask(r) /\ IsSequence(r) /\ All(r) = {}
  BY <1>1, AskNone
<1> HIDE DEF r
<1> QED BY <1>2, AskCurrent

\* Resume and SetNextStatement.
LEMMA CurrentResume == ASSUME Calm, CurrentInv, Resume \/ SetNextStatement PROVE CurrentInv'
<1>1. PICK kind \in {"resume", "gotoTargets"} : Ask(<<Request(kind, None, Nobody, seq)>>)
  BY DEF Resume, SetNextStatement
<1>2. UNCHANGED <<inbox, stop, source, depth, backtrace, frame, running, memory, watches>>
  BY DEF Resume, SetNextStatement, adapter, frames, shown
<1> DEFINE a == Request(kind, None, Nobody, seq)
           r == <<a>>
<1>3. HasKind(a) /\ a.kind = kind
  BY FieldFacts
<1> HIDE DEF a
<1>4. IsSequence(r) /\ All(r) = {a} /\ Ask(r)
  BY <1>1, <1>3, SingleFacts, AllFacts DEF a
<1> HIDE DEF r
<1> QED BY <1>2, <1>3, <1>4, AskCurrent

\* What is asked about the frame in use.
LEMMA CurrentLook ==
  ASSUME Calm, CurrentInv, UpdateRegisters \/ Tooltip \/ SendCommand \/ ExamineMemory
  PROVE  CurrentInv'
<1>1. PICK kind \in {"scopes", "text", "memory"} : Ask(AskFrame(kind, Nobody, seq))
  BY DEF UpdateRegisters, Tooltip, SendCommand, ExamineMemory, AskAbout
<1>2. UNCHANGED <<inbox, stop, source, depth, backtrace, frame, running, memory, watches>>
  BY DEF UpdateRegisters, Tooltip, SendCommand, ExamineMemory, AskAbout, adapter, frames, shown
<1> DEFINE r == AskFrame(kind, Nobody, seq)
<1>3. IsSequence(r) /\ \A m \in All(r) : m.kind = kind /\ m.arg = backtrace[frame] /\ frame # 0
  BY FrameAsked
<1> HIDE DEF r
<1>4. Ask(r)
  BY <1>1 DEF r
<1> QED BY <1>2, <1>3, <1>4, AskCurrent

\* A watch is updated.
LEMMA CurrentUpdate ==
  ASSUME Calm, CurrentInv, NEW w \in DOMAIN watches, UpdateWatch(w) PROVE CurrentInv'
<1>1. UNCHANGED <<inbox, stop, source, depth, backtrace, frame, running, memory, watches>>
  BY DEF UpdateWatch, adapter, frames, shown
<1> DEFINE r == UpdateRequests(watches[w], seq)
<1>2. IsSequence(r) /\ \A m \in All(r) : m.kind \in {"info", "evaluate"}
  BY UpdateAsked
<1>3. Ask(r)
  BY DEF UpdateWatch
<1> HIDE DEF r
<1> QED BY <1>1, <1>2, <1>3, AskCurrent

\* A watch is added: in a session its value is asked for.
LEMMA CurrentAdd ==
  ASSUME ShownInv, Calm, CurrentInv, NEW w \in Symbols \ DOMAIN watches, AddWatch(w)
  PROVE  CurrentInv'
<1> DEFINE node == IF w \in DOMAIN stack THEN NodeOf(stack[w]) ELSE Node(w, None, None)
<1>1. /\ UNCHANGED <<inbox, stop, source, depth, backtrace, frame, running, memory>>
      /\ watches' = [v \in DOMAIN watches \cup {w} |-> IF v = w THEN node ELSE watches[v]]
      /\ IF running THEN Ask(UpdateRequests(node, seq)) ELSE UNCHANGED <<asked, seq>>
  BY DEF AddWatch, adapter, frames
<1>2. node.name = w
  BY NodeFacts DEF ShownInv, WatchesInv
<1> HIDE DEF node
<1>3. \A v \in DOMAIN watches' : v = w \/ (v \in DOMAIN watches /\ watches'[v] = watches[v])
  BY <1>1
<1>4. CASE running
  <2> DEFINE r == UpdateRequests(node, seq)
  <2>1. /\ IsSequence(r) /\ \A m \in All(r) : m.kind \in {"info", "evaluate"}
        /\ frame # 0 => \E m \in All(r) :
             m.kind = "evaluate" /\ m.arg = backtrace[frame] /\ m.node = <<node.name>>
    BY UpdateAsked
  <2>2. Ask(r)
    BY <1>1, <1>4
  <2> HIDE DEF r
  <2> QED BY <1>1, <1>2, <1>3, <2>1, <2>2, AskCurrent
<1>5. CASE ~running
  BY <1>1, <1>3, <1>5, StayCurrent
<1> QED BY <1>4, <1>5

\* A watch or a child of one is expanded: the values stay.
LEMMA CurrentExpand ==
  ASSUME ShownInv, Calm, CurrentInv, NEW w \in DOMAIN watches,
         ExpandWatch(w) \/ \E k \in watches[w].kids : ExpandChild(w, k)
  PROVE  CurrentInv'
<1>1. PICK arg, node : Ask(<<Request("variables", arg, node, seq)>>)
  BY DEF ExpandWatch, ExpandChild
<1>2. UNCHANGED <<inbox, stop, source, depth, backtrace, frame, running, memory>>
  BY DEF ExpandWatch, ExpandChild, adapter, frames
<1> DEFINE x == watches[w]
<1>3. x = [name |-> x.name, value |-> x.value, ref |-> x.ref, seq |-> x.seq, kids |-> x.kids]
  BY DEF ShownInv, WatchesInv, GoodWatch, GoodNode
<1>4. PICK y : watches' = [watches EXCEPT ![w] = y] /\ y.value = x.value
  <2>1. ASSUME NEW n, NEW new PROVE [x EXCEPT !.seq = n, !.kids = new].value = x.value
    <3> DEFINE z == [x EXCEPT !.seq = n]
    <3>1. z = [name |-> x.name, value |-> x.value, ref |-> x.ref, seq |-> n, kids |-> x.kids]
      BY <1>3
    <3>2. z.value = x.value /\ "value" \in DOMAIN z
      BY <3>1
    <3>3. [x EXCEPT !.seq = n, !.kids = new] = [z EXCEPT !.kids = new]
      BY <1>3
    <3> HIDE DEF z
    <3>4. [z EXCEPT !.kids = new].value = z.value
      BY <3>2
    <3> QED BY <3>2, <3>3, <3>4
  <2>2. ASSUME NEW new PROVE [x EXCEPT !.kids = new].value = x.value
    <3>1. "value" \in DOMAIN x
      BY <1>3
    <3> QED BY <3>1
  <2>3. CASE ExpandWatch(w)
    BY <2>1, <2>3 DEF ExpandWatch, Opened
  <2>4. ASSUME NEW k \in watches[w].kids, ExpandChild(w, k)
        PROVE  \E y : watches' = [watches EXCEPT ![w] = y] /\ y.value = x.value
    BY <2>2, <2>4 DEF ExpandChild
  <2> QED BY <2>3, <2>4
<1>5. \A v \in DOMAIN watches' : v \in DOMAIN watches /\ watches'[v].value = watches[v].value
  <2> HIDE DEF x
  <2>1. \A v \in DOMAIN watches' :
          v \in DOMAIN watches /\ watches'[v] = IF v = w THEN y ELSE watches[v]
    BY <1>4
  <2> QED BY <1>4, <2>1 DEF x
<1> DEFINE a == Request("variables", arg, node, seq)
           r == <<a>>
<1>6. HasKind(a) /\ a.kind = "variables"
  BY FieldFacts
<1> HIDE DEF a
<1>7. IsSequence(r) /\ All(r) = {a} /\ Ask(r)
  BY <1>1, <1>6, SingleFacts, AllFacts DEF a
<1> HIDE DEF r
<1> QED BY <1>2, <1>5, <1>6, <1>7, AskCurrent

-----------------------------------------------------------------------------
(* The handlers that leave the stop alone                                   *)

\* When neither a stop nor a stack comes, what is answered is of the stop.
LEMMA NothingComes ==
  ASSUME Calm, CurrentInv, ~Coming, stop # 0
  PROVE  /\ Known /\ frame # 0 /\ Fresh(backtrace[frame], stop)
         /\ \A m \in All(asked) : ~StaleRequest(m, stop)
         /\ \A m \in All(inbox) : ~StaleAnswer(m, stop)
<1>1. Known /\ frame # 0 /\ ~StackIn(All(asked)) /\ ~StackIn(All(inbox))
  BY DEF Coming, Known, CurrentInv, FrameChosen
<1>2. Fresh(backtrace[frame], stop)
  BY <1>1, InFrame
<1>3. IsSequence(asked) /\ IsSequence(inbox)
  BY DEF Calm, OneMoves
<1>4. After(asked) = All(asked) /\ After(inbox) = All(inbox)
  BY <1>1, <1>3, AfterFacts
<1> QED BY <1>1, <1>2, <1>4 DEF CurrentInv, NoneStale

\* What is only shown, and the targets of a goto.
LEMMA CurrentOther ==
  ASSUME ShownInv, Calm, CurrentInv, OnGotoTargets \/ OnDisassemble \/ OnOther PROVE CurrentInv'
<1>0. seq \in Nat
  BY DEF ShownInv, MessagesInv
<1>1. PICK kind \in {"gotoTargets", "disassemble", "threads", "text", "goto"} : Handle(kind)
  BY DEF OnGotoTargets, OnDisassemble, OnOther
<1>2. UNCHANGED <<stop, source, depth, backtrace, frame, running, memory, watches>>
  BY DEF OnGotoTargets, OnDisassemble, OnOther, adapter, frames, shown
<1> DEFINE a == Request("goto", active, Nobody, seq)
<1>3. HasKind(a) /\ a.kind = "goto"
  BY FieldFacts
<1>4. \/ Ask(<<a>>) \/ Ask(<<>>)
  <2>1. asked' = asked /\ seq' = seq => Ask(<<>>)
    BY <1>0, AskNone
  <2> QED BY <2>1 DEF OnGotoTargets, OnDisassemble, OnOther
<1> HIDE DEF a
<1>5. PICK r : IsSequence(r) /\ Ask(r) /\ \A m \in All(r) : m.kind = "goto"
  <2>1. IsSequence(<<a>>) /\ All(<<a>>) = {a}
    BY <1>3, SingleFacts, AllFacts
  <2>2. IsSequence(<<>>) /\ All(<<>>) = {}
    BY EmptyFacts, AllFacts
  <2> QED BY <1>3, <1>4, <2>1, <2>2
<1> DEFINE G == {Head(inbox)}
<1>6. Passes(G, All(r)) /\ Head(inbox).kind = kind
  <2>1. kind \notin {"stopped", "stackTrace"} /\ ~StackIn(All(r))
    BY <1>5 DEF StackIn
  <2> QED BY <1>1, <1>2, <1>5, <2>1, PassHandle
<1>7. \A m \in G : m.kind \notin {"scopes", "variables", "evaluate", "memory"}
  BY <1>6
<1> HIDE DEF G
<1>8. \A m \in G : ~ScopesAnswer(m, stop) /\ ~LocalsAnswer(m, stop)
  BY <1>7 DEF ScopesAnswer, LocalsAnswer
<1>9. ASSUME Done(watches, memory, All(asked), All(inbox), stop)
      PROVE  Done(watches', memory', All(asked'), All(inbox'), stop)
  <2>1. All(asked) \subseteq All(asked') /\ All(inbox) \subseteq All(inbox') \cup G
    BY <1>6 DEF Passes
  <2>2. StillIn(All(asked), All(inbox), All(asked'), All(inbox'), stop)
    BY <1>7, <2>1, PassStill
  <2>3. FreshOrSame(watches, watches', All(asked'), All(inbox'), stop)
    BY <1>2 DEF FreshOrSame
  <2> QED BY <1>2, <1>9, <2>2, <2>3, PassDone
<1>10. \A m \in All(r) : ~StaleRequest(m, stop)
  BY <1>5 DEF StaleRequest
<1> QED BY <1>6, <1>8, <1>9, <1>10, PassFollows

\* The memory.
LEMMA CurrentMemory == ASSUME ShownInv, Calm, CurrentInv, OnMemory PROVE CurrentInv'
<1> DEFINE r == <<>>
           m == Head(inbox)
           G == {m}
<1>1. Handle("memory") /\ memory' = m.body
  BY DEF OnMemory
<1>2. UNCHANGED <<stop, source, depth, backtrace, frame, running, watches>>
  BY DEF OnMemory, adapter, frames
<1>3. Ask(r) /\ IsSequence(r) /\ ~StackIn(All(r)) /\ All(r) = {}
  <2>1. asked' = asked /\ seq' = seq /\ seq \in Nat
    BY DEF OnMemory, ShownInv, MessagesInv
  <2> QED BY <2>1, AskNone
<1> HIDE DEF r
<1>4. Passes(G, All(r)) /\ m \in All(inbox) /\ m.kind = "memory"
  BY <1>1, <1>2, <1>3, PassHandle
<1>7. \A d \in G : d = m
  OBVIOUS
<1> HIDE DEF m, G
<1>5. \A d \in G : ~ScopesAnswer(d, stop) /\ ~LocalsAnswer(d, stop)
  BY <1>4, <1>7 DEF ScopesAnswer, LocalsAnswer
<1>6. ASSUME ~Coming, stop # 0, Done(watches, memory, All(asked), All(inbox), stop)
      PROVE  Done(watches', memory', All(asked'), All(inbox'), stop)
  <2>1. Fresh(memory', stop)
    BY <1>1, <1>4, <1>6, NothingComes DEF StaleAnswer, m
  <2>2. All(asked) \subseteq All(asked') /\ All(inbox) \subseteq All(inbox') \cup G
    BY <1>4 DEF Passes
  <2>3. \A w : ValueIn(All(asked), All(inbox), w, stop) =>
          ValueIn(All(asked'), All(inbox'), w, stop) \/ \E d \in G : ValueAnswer(d, w, stop)
    BY <2>2, PassWaits
  <2>4. \A w : ~\E d \in G : ValueAnswer(d, w, stop)
    BY <1>4, <1>7 DEF ValueAnswer
  <2>5. \A w \in DOMAIN watches : w \in LocalNames =>
          FreshValue(watches[w].value, stop) \/ ValueIn(All(asked'), All(inbox'), w, stop)
    BY <1>6, <2>3, <2>4 DEF Done
  <2> QED BY <1>2, <2>1, <2>5 DEF Done
<1> QED BY <1>3, <1>4, <1>5, <1>6, PassFollows

\* A value: it is that of the watch that it was asked for, if that one is still there.
LEMMA CurrentEvaluate == ASSUME ShownInv, Calm, CurrentInv, OnEvaluate PROVE CurrentInv'
<1> DEFINE m == Head(inbox)
           G == {m}
<1>0. seq \in Nat /\ inbox # <<>> /\ m.body \in Frames \cup {None}
  <2>1. seq \in Nat /\ inbox # <<>> /\ GoodAnswer(m) /\ m.kind = "evaluate"
    BY AnswersFacts DEF ShownInv, MessagesInv, OnEvaluate, Handle
  <2> QED BY <2>1 DEF GoodAnswer
<1>1. Handle("evaluate")
  BY DEF OnEvaluate
<1>2. UNCHANGED <<stop, source, depth, backtrace, frame, running, memory>>
  BY DEF OnEvaluate, adapter, frames
<1>3. \/ m.body = None /\ watches' = watches /\ Ask(<<>>)
      \/ /\ m.body # None /\ Ask(Refresh(seq))
         /\ watches' = [w \in DOMAIN watches |->
                          IF m.node = <<w>> THEN [watches[w] EXCEPT !.value = Variable(m.body, w)]
                          ELSE watches[w]]
  <2>1. asked' = asked /\ seq' = seq => Ask(<<>>)
    BY <1>0, AskNone
  <2> QED BY <2>1 DEF OnEvaluate
<1>4. PICK r : /\ IsSequence(r) /\ Ask(r)
               /\ \A d \in All(r) : d.kind \in {"disassemble", "memory"} /\ d.arg = backtrace[frame] /\ frame # 0
  <2>1. IsSequence(<<>>) /\ All(<<>>) = {}
    BY EmptyFacts, AllFacts
  <2>2. /\ IsSequence(Refresh(seq))
        /\ \A d \in All(Refresh(seq)) :
             d.kind \in {"disassemble", "memory"} /\ d.arg = backtrace[frame] /\ frame # 0
    BY RefreshAsked
  <2> QED BY <1>3, <2>1, <2>2
<1>5. Passes(G, All(r)) /\ m \in All(inbox) /\ m.kind = "evaluate"
  <2>1. ~StackIn(All(r))
    BY <1>4 DEF StackIn
  <2> QED BY <1>1, <1>2, <1>4, <2>1, PassHandle
<1>6. Known => \A d \in All(r) : ~StaleRequest(d, stop)
  BY <1>4, InFrame DEF StaleRequest
<1>9. \A d \in G : d = m
  OBVIOUS
<1> HIDE DEF m, G
<1>7. \A d \in G : ~ScopesAnswer(d, stop) /\ ~LocalsAnswer(d, stop)
  BY <1>5, <1>9 DEF ScopesAnswer, LocalsAnswer
<1>8. ASSUME ~Coming, stop # 0, Done(watches, memory, All(asked), All(inbox), stop)
      PROVE  Done(watches', memory', All(asked'), All(inbox'), stop)
  <2>1. m.body # None => Fresh(m.body, stop)
    BY <1>5, <1>8, NothingComes DEF StaleAnswer
  <2>2. All(asked) \subseteq All(asked') /\ All(inbox) \subseteq All(inbox') \cup G
    BY <1>5 DEF Passes
  <2>3. /\ \A w : ValueIn(All(asked), All(inbox), w, stop) =>
             ValueIn(All(asked'), All(inbox'), w, stop) \/ \E d \in G : ValueAnswer(d, w, stop)
        /\ MemoryIn(All(asked), All(inbox), stop) =>
             MemoryIn(All(asked'), All(inbox'), stop) \/ \E d \in G : MemoryAnswer(d, stop)
    BY <2>2, PassWaits
  <2>4. ~\E d \in G : MemoryAnswer(d, stop)
    BY <1>5, <1>9 DEF MemoryAnswer
  <2>5. ASSUME NEW w \in DOMAIN watches, w \in LocalNames
        PROVE  FreshValue(watches'[w].value, stop) \/ ValueIn(All(asked'), All(inbox'), w, stop)
    <3>1. FreshValue(watches[w].value, stop) \/ ValueIn(All(asked), All(inbox), w, stop)
      BY <1>8, <2>5 DEF Done
    <3>2. CASE m.body # None /\ m.node = <<w>>
      <4> DEFINE v == Variable(m.body, w)
      <4>1. watches'[w] = [watches[w] EXCEPT !.value = v]
        BY <1>3, <3>2
      <4>2. "value" \in DOMAIN watches[w]
        <5>1. GoodNode(watches[w])
          BY DEF ShownInv, WatchesInv, GoodWatch
        <5> QED BY <5>1 DEF GoodNode
      <4>3. v.frame = m.body /\ v \in Named
        <5>1. w \in Names
          BY DEF ShownInv, WatchesInv, Names
        <5>2. m.body \in Frames
          BY <1>0, <3>2 DEF m
        <5> HIDE DEF Names
        <5> QED BY <5>1, <5>2 DEF Variable, Named
      <4>4. v # None
        BY <4>3, NoneAssumption
      <4> HIDE DEF v
      <4>5. watches'[w].value = v
        BY <4>1, <4>2
      <4> QED BY <2>1, <3>2, <4>3, <4>4, <4>5 DEF FreshValue
    <3>3. CASE m.body = None \/ m.node # <<w>>
      <4>1. watches'[w] = watches[w]
        BY <1>3, <3>3
      <4>2. ~\E d \in G : ValueAnswer(d, w, stop)
        BY <1>9, <3>3 DEF ValueAnswer, Fresh
      <4> QED BY <2>3, <3>1, <4>1, <4>2
    <3> QED BY <3>2, <3>3
  <2>6. DOMAIN watches' = DOMAIN watches
    BY <1>3
  <2>7. MemoryShown => Fresh(memory', stop) \/ MemoryIn(All(asked'), All(inbox'), stop)
    BY <1>2, <1>8, <2>3, <2>4 DEF Done
  <2> QED BY <2>5, <2>6, <2>7 DEF Done
<1> QED BY <1>5, <1>6, <1>7, <1>8, PassFollows

\* The scopes: the local variables are asked for.
LEMMA CurrentScopes == ASSUME ShownInv, Calm, CurrentInv, OnScopes PROVE CurrentInv'
<1> DEFINE m == Head(inbox)
           f == m.body
           a == Request("variables", Variable(f, "Locals"), Nobody, seq)
           b == Request("variables", Variable(f, "Registers"), Nobody, seq + 1)
           t == IF RegistersShown THEN <<b>> ELSE <<>>
           r == IF f = None THEN <<>> ELSE <<a>> \o t
           G == {m}
<1>1. Handle("scopes") /\ Ask(r)
  BY DEF OnScopes
<1>2. UNCHANGED <<stop, source, depth, backtrace, frame, running, memory, watches>>
  BY DEF OnScopes, adapter, frames
<1>3. f \in Frames \cup {None}
  <2>1. inbox # <<>> /\ m.kind = "scopes" /\ GoodAnswer(m)
    BY <1>1, AnswersFacts DEF ShownInv, MessagesInv, Handle
  <2> QED BY <2>1 DEF GoodAnswer
<1>4. HasKind(a) /\ a.kind = "variables" /\ a.arg = Variable(f, "Locals")
  BY FieldFacts
<1>5. HasKind(b) /\ b.kind = "variables"
  BY FieldFacts
<1> HIDE DEF a, b
<1>6. IsSequence(t) /\ \A d \in All(t) : d = b
  BY <1>5, SingleFacts, EmptyFacts, AllFacts
<1> HIDE DEF t
<1>7. /\ IsSequence(r) /\ \A d \in All(r) : d.kind = "variables"
      /\ f # None => a \in All(r)
  <2>1. IsSequence(<<a>>) /\ All(<<a>>) = {a} /\ IsSequence(<<>>) /\ All(<<>>) = {}
    BY <1>4, SingleFacts, EmptyFacts, AllFacts
  <2> DEFINE s == <<a>>
  <2> HIDE DEF s
  <2>2. IsSequence(s \o t) /\ All(s \o t) = All(s) \cup All(t)
    BY <1>6, <2>1, ConcatFacts, ConcatAll DEF s
  <2>3. All(s) = {a}
    BY <2>1 DEF s
  <2>4. CASE f = None
    <3>1. r = <<>>
      BY <2>4
    <3> QED BY <2>1, <2>4, <3>1
  <2>5. CASE f # None
    <3>1. r = s \o t
      BY <2>5 DEF s
    <3> HIDE DEF r
    <3> QED BY <1>4, <1>5, <1>6, <2>2, <2>3, <2>5, <3>1
  <2> QED BY <2>4, <2>5
<1> HIDE DEF r
<1>8. Passes(G, All(r)) /\ m.kind = "scopes"
  <2>1. ~StackIn(All(r))
    BY <1>7 DEF StackIn
  <2> QED BY <1>1, <1>2, <1>7, <2>1, PassHandle
<1>9. \A d \in All(r) : ~StaleRequest(d, stop)
  BY <1>7 DEF StaleRequest
<1>10. \A d \in G : d = m
  OBVIOUS
<1>11. ASSUME \E d \in G : ScopesAnswer(d, stop)
       PROVE  LocalsIn(All(asked'), All(inbox'), stop)
  <2>1. Fresh(f, stop)
    BY <1>10, <1>11 DEF ScopesAnswer
  <2>2. f # None /\ f \in Frames
    BY <1>3, <2>1 DEF Fresh
  <2>3. a \in All(asked')
    BY <1>7, <1>8, <2>2 DEF Passes
  <2>4. "Locals" \in Names
    BY DEF Names, Contents
  <2> HIDE DEF m, f
  <2>5. a.arg \in Named /\ a.arg.name = "Locals" /\ a.arg.frame = f
    BY <1>4, <2>2, <2>4 DEF Variable, Named
  <2>6. a.arg # None
    BY <2>5, NoneAssumption
  <2>7. LocalsRequest(a, stop)
    BY <1>4, <2>1, <2>5, <2>6 DEF LocalsRequest
  <2> QED BY <2>3, <2>7 DEF LocalsIn
<1> HIDE DEF G, f, m
<1>12. \A d \in G : ~LocalsAnswer(d, stop) /\ d.kind \notin {"evaluate", "memory"}
  BY <1>8, <1>10 DEF LocalsAnswer
<1>13. ASSUME Done(watches, memory, All(asked), All(inbox), stop)
       PROVE  Done(watches', memory', All(asked'), All(inbox'), stop)
  <2>1. All(asked) \subseteq All(asked') /\ All(inbox) \subseteq All(inbox') \cup G
    BY <1>8 DEF Passes
  <2>2. StillIn(All(asked), All(inbox), All(asked'), All(inbox'), stop)
    BY <1>12, <2>1, PassStill
  <2>3. FreshOrSame(watches, watches', All(asked'), All(inbox'), stop)
    BY <1>2 DEF FreshOrSame
  <2> QED BY <1>2, <1>13, <2>2, <2>3, PassDone
<1> QED BY <1>8, <1>9, <1>11, <1>12, <1>13, PassFollows

\* The local variables of a frame.
LEMMA LocalsFacts ==
  ASSUME NEW f \in Frames
  PROVE  LET vs == Variables(f, "Locals")
         IN  /\ vs \in Seq(Named) /\ vs # <<>> /\ vs[1].name = "n" /\ vs[1].name \in LocalNames
             /\ \A i \in DOMAIN vs : vs[i].frame = f
             /\ \A w \in LocalNames : \E i \in DOMAIN vs : vs[i].name = w
<1> DEFINE vs == Variables(f, "Locals")
           c == Contents["Locals"]
<1>1. "Locals" \in DOMAIN Contents
  BY DEF Contents
<1>2. Len(c) = 2 /\ c[1] = "n"
  BY <1>1, ContentsFacts
<1>3. /\ vs \in Seq(Named) /\ Len(vs) = Len(c)
      /\ \A i \in 1 .. Len(c) : vs[i] = Variable(f, c[i])
  BY <1>1, VariablesFacts
<1>4. DOMAIN c = 1 .. Len(c)
  <2>1. c \in Seq(Names)
    BY <1>1, ContentsFacts
  <2> QED BY <2>1
<1>5. LocalNames = {c[i] : i \in DOMAIN c}
  BY DEF LocalNames, Entries
<1> HIDE DEF vs, c
<1>6. DOMAIN vs = 1 .. Len(c) /\ 1 \in 1 .. Len(c) /\ vs # <<>>
  BY <1>2, <1>3
<1>7. \A i \in DOMAIN vs : vs[i].frame = f /\ vs[i].name = c[i]
  BY <1>3, <1>6 DEF Variable
<1>8. vs[1].name = "n" /\ vs[1].name \in LocalNames
  BY <1>2, <1>4, <1>5, <1>6, <1>7
<1>9. \A w \in LocalNames : \E i \in DOMAIN vs : vs[i].name = w
  BY <1>4, <1>5, <1>6, <1>7
<1> QED BY <1>3, <1>6, <1>7, <1>8, <1>9 DEF vs

\* The value that a watch takes.
LEMMA CheckedValue ==
  ASSUME NEW x, GoodWatch(x), NEW vs, NEW n
  PROVE  LET y == Checked(x, vs, n)
         IN  \/ y.value = x.value /\ \A i \in DOMAIN vs : vs[i].name # x.name
             \/ \E i \in DOMAIN vs : vs[i].name = x.name /\ y.value = vs[i]
<1> DEFINE match == {i \in DOMAIN vs : vs[i].name = x.name}
           i == CHOOSE i \in match : TRUE
           v == vs[i]
           y == Checked(x, vs, n)
<1>1. PICK all : LET own == [x EXCEPT !.kids = all]
                 IN  y = IF match = {} THEN own ELSE [own EXCEPT !.value = v, !.ref = Reference(v), !.seq = n]
  BY DEF Checked
<1>2. x = [name |-> x.name, value |-> x.value, ref |-> x.ref, seq |-> x.seq, kids |-> x.kids]
  BY DEF GoodWatch, GoodNode
<1> DEFINE own == [x EXCEPT !.kids = all]
<1>3. own = [name |-> x.name, value |-> x.value, ref |-> x.ref, seq |-> x.seq, kids |-> all]
  BY <1>2
<1>4. y = IF match = {} THEN own ELSE [own EXCEPT !.value = v, !.ref = Reference(v), !.seq = n]
  BY <1>1
<1>5. match # {} => i \in match
  OBVIOUS
<1> HIDE DEF own, v, i, y
<1>6. CASE match = {}
  <2>1. y.value = x.value
    BY <1>3, <1>4, <1>6
  <2> QED BY <1>6, <2>1 DEF y
<1>7. CASE match # {}
  <2>1. y = [name |-> x.name, value |-> v, ref |-> Reference(v), seq |-> n, kids |-> all]
    BY <1>3, <1>4, <1>7
  <2>2. y.value = v
    BY <2>1
  <2>3. i \in DOMAIN vs /\ vs[i].name = x.name
    BY <1>5, <1>7
  <2> QED BY <2>2, <2>3 DEF y, v
<1> QED BY <1>6, <1>7

\* Variables: the local ones of the stop make the values of the watches and ask for the memory,
\* and others leave both.
LEMMA CurrentVariables == ASSUME ShownInv, Calm, ChainInv, CurrentInv, OnVariables PROVE CurrentInv'
<1> DEFINE m == Head(inbox)
           vs == m.body
           a == Request("variables", vs[1], Nobody, seq)
           G == {m}
           Takes == /\ vs # <<>> /\ ~flagged /\ Ask(Refresh(seq))
                    /\ watches' = [w \in DOMAIN watches |-> Checked(watches[w], vs, m.seq)]
<1>0. seq \in Nat
  BY DEF ShownInv, MessagesInv
<1>1. PICK kind \in {"variables", "info"} : Handle(kind)
  BY DEF OnVariables
<1>2. UNCHANGED <<stop, source, depth, backtrace, frame, running>>
  BY DEF OnVariables, adapter, frames
<1>3. IF vs = <<>> THEN UNCHANGED <<shown, asked, seq>>
      ELSE IF vs[1].name = "GPR" THEN AskRegisters(vs[1])
      ELSE IF flagged THEN ShowRegisters(vs)
      ELSE CheckWatches(vs, m.seq)
  BY DEF OnVariables
<1>4. /\ 1 \in 1 .. Len(Flow) /\ Flow[1] = AnswerMark(m) /\ m.kind \in {"variables", "info"}
      /\ GoodVariables(vs)
  BY ShownVariables
<1>5. HasKind(a) /\ a.kind = "variables"
  BY FieldFacts
<1>6. vs # <<>> => m.kind = "variables"
  <2>1. inbox # <<>>
    BY <1>1 DEF Handle
  <2>2. Among(inbox, {"info"}) = Among(Tail(inbox), {"info"}) \cup {d \in {m} : d.kind \in {"info"}}
    BY <2>1, AnswersFacts, TailFacts DEF ShownInv, MessagesInv
  <2>3. m.kind = "info" => m \in Among(inbox, {"info"})
    BY <2>2
  <2> QED BY <1>4, <2>3 DEF ChainInv
<1>7. /\ memory' = memory
      /\ \/ watches' = watches /\ (Ask(<<>>) \/ Ask(<<a>>)) /\ (flagged \/ vs = <<>> \/ vs[1].name = "GPR")
         \/ Takes
  <2>1. asked' = asked /\ seq' = seq => Ask(<<>>)
    BY <1>0, AskNone
  <2> QED BY <1>3, <2>1 DEF AskRegisters, ShowRegisters, CheckWatches, shown
<1>8. PICK r : /\ IsSequence(r) /\ Ask(r)
               /\ \A d \in All(r) :
                    /\ d.kind \in {"variables", "disassemble", "memory"}
                    /\ d.kind = "memory" => frame # 0 /\ d.arg = backtrace[frame]
               /\ Takes /\ MemoryShown /\ frame # 0 =>
                    \E d \in All(r) : d.kind = "memory" /\ d.arg = backtrace[frame]
  <2>1. CASE Takes
    <3> DEFINE u == Refresh(seq)
    <3>1. /\ IsSequence(u)
          /\ \A d \in All(u) : d.kind \in {"disassemble", "memory"} /\ d.arg = backtrace[frame] /\ frame # 0
          /\ MemoryShown /\ frame # 0 => \E d \in All(u) : d.kind = "memory" /\ d.arg = backtrace[frame]
      BY RefreshAsked
    <3>2. Ask(u)
      BY <2>1
    <3> HIDE DEF u, Takes
    <3> QED BY <3>1, <3>2
  <2>2. CASE ~Takes /\ Ask(<<>>)
    <3>1. IsSequence(<<>>) /\ All(<<>>) = {}
      BY EmptyFacts, AllFacts
    <3> HIDE DEF Takes
    <3> QED BY <2>2, <3>1
  <2>3. CASE ~Takes /\ Ask(<<a>>)
    <3> HIDE DEF a, Takes
    <3>1. IsSequence(<<a>>) /\ All(<<a>>) = {a}
      BY <1>5, SingleFacts, AllFacts
    <3>2. \A d \in All(<<a>>) : d.kind = "variables"
      BY <1>5, <3>1
    <3> QED BY <2>3, <3>1, <3>2
  <2> QED BY <1>7, <2>1, <2>2, <2>3
<1>9. Passes(G, All(r)) /\ m \in All(inbox)
  <2>1. ~StackIn(All(r))
    BY <1>8 DEF StackIn
  <2> QED BY <1>1, <1>2, <1>8, <2>1, PassHandle
<1>10. Known => \A d \in All(r) : ~StaleRequest(d, stop)
  BY <1>8, InFrame DEF StaleRequest
<1>11. \A d \in G : d = m
  OBVIOUS
<1>12. Takes => /\ DOMAIN watches' = DOMAIN watches
                /\ \A w \in DOMAIN watches :
                     \/ watches'[w].value = watches[w].value /\ \A i \in DOMAIN vs : vs[i].name # w
                     \/ \E i \in DOMAIN vs : vs[i].name = w /\ watches'[w].value = vs[i]
  <2> SUFFICES ASSUME Takes
               PROVE  /\ DOMAIN watches' = DOMAIN watches
                      /\ \A w \in DOMAIN watches :
                           \/ watches'[w].value = watches[w].value /\ \A i \in DOMAIN vs : vs[i].name # w
                           \/ \E i \in DOMAIN vs : vs[i].name = w /\ watches'[w].value = vs[i]
    OBVIOUS
  <2>1. \A w \in DOMAIN watches : GoodWatch(watches[w]) /\ watches[w].name = w
    BY DEF ShownInv, WatchesInv
  <2>2. /\ DOMAIN watches' = DOMAIN watches
        /\ \A w \in DOMAIN watches : watches'[w] = Checked(watches[w], vs, m.seq)
    OBVIOUS
  <2> HIDE DEF Takes, m
  <2> QED BY <2>1, <2>2, CheckedValue
<1> HIDE DEF Takes, G, m
<1>13. \A i \in DOMAIN vs : vs[i] \in Named /\ i \in 1 .. Len(vs)
  <2>1. vs \in Seq(Named)
    BY <1>4 DEF GoodVariables
  <2> HIDE DEF vs
  <2> QED BY <2>1
<1>14. \A d \in G : ~ScopesAnswer(d, stop) /\ d.kind \notin {"evaluate", "memory"}
  BY <1>4, <1>11 DEF ScopesAnswer
<1>15. All(asked) \subseteq All(asked') /\ All(inbox) \subseteq All(inbox') \cup G /\ All(r) \subseteq All(asked')
  BY <1>9 DEF Passes
<1>16. ASSUME ~Coming, stop # 0, \E d \in G : LocalsAnswer(d, stop)
       PROVE  Done(watches', memory', All(asked'), All(inbox'), stop)
  <2>1. PICK f \in Frames : Fresh(f, stop) /\ vs = Variables(f, "Locals") /\ m.kind = "variables"
    BY <1>11, <1>16 DEF LocalsAnswer
  <2>2. /\ vs # <<>> /\ vs[1].name = "n" /\ vs[1].name \in LocalNames
        /\ \A i \in DOMAIN vs : vs[i].frame = f
        /\ \A w \in LocalNames : \E i \in DOMAIN vs : vs[i].name = w
    BY <2>1, LocalsFacts
  <2>3. ~flagged
    <3>1. 1 \in DOMAIN vs
      <4>1. vs \in Seq(Named)
        BY <1>4 DEF GoodVariables
      <4> HIDE DEF vs
      <4> QED BY <2>2, <4>1
    <3> HIDE DEF vs
    <3>2. AnswerColor(m) = "locals"
      BY <2>1, <2>2, <3>1 DEF AnswerColor, vs
    <3>3. Flow[1].color = "locals"
      BY <1>4, <3>2 DEF AnswerMark, Mark
    <3> QED BY <1>4, <3>3 DEF ChainInv, NoLocals
  <2>4. Takes
    BY <1>7, <2>2, <2>3
  <2>5. ASSUME NEW w \in DOMAIN watches', w \in LocalNames
        PROVE  FreshValue(watches'[w].value, stop)
    <3> HIDE DEF vs, LocalNames
    <3>1. PICK i \in DOMAIN vs : watches'[w].value = vs[i]
      BY <1>12, <2>2, <2>4, <2>5
    <3>2. vs[i] # None
      BY <1>13, NoneAssumption
    <3> QED BY <2>1, <2>2, <3>1, <3>2 DEF FreshValue
  <2>6. MemoryShown => MemoryIn(All(asked'), All(inbox'), stop)
    <3>1. frame # 0 /\ Fresh(backtrace[frame], stop)
      BY <1>16, NothingComes
    <3> QED BY <1>8, <1>15, <2>4, <3>1 DEF MemoryIn, MemoryRequest
  <2> QED BY <2>5, <2>6 DEF Done
<1>17. ASSUME ~Coming, stop # 0, Done(watches, memory, All(asked), All(inbox), stop)
       PROVE  Done(watches', memory', All(asked'), All(inbox'), stop)
  <2>1. StillIn(All(asked), All(inbox), All(asked'), All(inbox'), stop)
    BY <1>14, <1>15, PassStill
  <2>2. FreshOrSame(watches, watches', All(asked'), All(inbox'), stop)
    <3>1. CASE watches' = watches
      BY <3>1 DEF FreshOrSame
    <3>2. CASE Takes
      <4>1. m.kind = "variables"
        BY <1>6, <3>2 DEF Takes
      <4>2. ~StaleAnswer(m, stop)
        BY <1>9, <1>17, NothingComes
      <4>3. \A i \in DOMAIN vs : FreshValue(vs[i], stop)
        BY <1>13, <4>1, <4>2, NoneAssumption DEF StaleAnswer, FreshValue
      <4>4. \A w \in DOMAIN watches' :
              /\ w \in DOMAIN watches
              /\ watches'[w].value = watches[w].value \/ \E i \in DOMAIN vs : watches'[w].value = vs[i]
        BY <1>12, <3>2
      <4> HIDE DEF vs
      <4>5. \A w \in DOMAIN watches' :
              \/ w \in DOMAIN watches /\ watches'[w].value = watches[w].value
              \/ FreshValue(watches'[w].value, stop)
        BY <4>3, <4>4
      <4> QED BY <4>5 DEF FreshOrSame
    <3> QED BY <1>7, <3>1, <3>2
  <2> QED BY <1>7, <1>17, <2>1, <2>2, PassDone
<1> QED BY <1>9, <1>10, <1>14, <1>16, <1>17, PassFollows

-----------------------------------------------------------------------------
(* Stops                                                                    *)

\* What comes of stops and stacks after a step.
LEMMA MovesAfter == \A m \in All(inbox') : m.kind \in {"stackTrace", "stopped"} => m \in Moved'
BY AllFacts DEF Moved, MovingMessages

\* While the debuggee runs nothing is known.
LEMMA AtRest == ASSUME Calm', stop' = 0 PROVE CurrentInv'
<1>1. Moved' = {}
  BY DEF Calm, OneMoves
<1>2. \A m \in All(inbox') : m.kind # "stackTrace"
  BY <1>1, MovesAfter
<1>3. AnswerFresh'
  BY <1>2 DEF AnswerFresh
<1>4. StackFresh' /\ FrameChosen' /\ NoneStale' /\ Follows'
  BY DEF StackFresh, FrameChosen, NoneStale, Follows, Known
<1> QED BY <1>3, <1>4 DEF CurrentInv

\* A stop is on its way: it is not known yet.
LEMMA CurrentStops == ASSUME Calm, AdapterStops \/ AdapterGoes PROVE CurrentInv'
<1>1. Moved = {} /\ IsSequence(inbox)
  <2>1. CASE AdapterStops
    BY <2>1 DEF Calm, OneMoves, AdapterStops
  <2>2. CASE AdapterGoes
    BY <2>2, TakenMover DEF Calm, OneMoves, AdapterGoes, MovingRequests
  <2> QED BY <2>1, <2>2
<1>2. PICK t : inbox' = Append(inbox, [kind |-> "stopped", body |-> t, node |-> Nobody, seq |-> 0])
  BY DEF AdapterStops, AdapterGoes
<1> DEFINE m == [kind |-> "stopped", body |-> t, node |-> Nobody, seq |-> 0]
<1>3. m.kind = "stopped"
  OBVIOUS
<1> HIDE DEF m
<1>4. All(inbox') = All(inbox) \cup {m}
  BY <1>1, <1>2, AppendAll DEF m
<1>5. StopIn(All(inbox'))
  BY <1>3, <1>4 DEF StopIn
<1>6. \A d \in All(inbox') : d.kind # "stackTrace"
  BY <1>1, <1>3, <1>4, MovesFacts
<1>7. AnswerFresh'
  BY <1>6 DEF AnswerFresh
<1>8. StackFresh' /\ FrameChosen' /\ NoneStale' /\ Follows'
  BY <1>5 DEF StackFresh, FrameChosen, NoneStale, Follows, Known, Coming
<1> QED BY <1>7, <1>8 DEF CurrentInv

\* The stop is known: its stack is asked for.
LEMMA CurrentStopped == ASSUME Calm, OnStopped PROVE CurrentInv'
<1>1. Moved' = {} /\ Head(inbox) \in Moved /\ Moving = {} /\ stop # 0 /\ IsSequence(asked)
  BY HandledMover DEF OnStopped, MovingMessages, Calm, OneMoves
<1>2. backtrace' = <<>>
  BY DEF OnStopped
<1> DEFINE m == Request("stackTrace", active', Nobody, seq)
           n == Request("threads", None, Nobody, seq + 1)
           r == <<m, n>>
<1>3. m.kind = "stackTrace" /\ n.kind = "threads" /\ HasKind(m) /\ HasKind(n)
  BY RecordFacts
<1>4. asked' = asked \o r
  BY DEF OnStopped, Ask
<1> HIDE DEF m, n
<1>5. IsSequence(r)
  BY <1>3, PairFacts
<1>6. All(r) = {m, n}
  <2>1. IsSequence(<<m>>) /\ IsSequence(<<n>>) /\ All(<<m>>) = {m} /\ All(<<n>>) = {n}
    BY <1>3, SingleFacts, AllFacts
  <2>2. r = <<m>> \o <<n>>
    BY PairConcat
  <2> DEFINE s == <<m>>
             t == <<n>>
  <2> HIDE DEF s, t, r
  <2>3. All(s \o t) = All(s) \cup All(t)
    BY <2>1, ConcatAll DEF s, t
  <2> QED BY <2>1, <2>2, <2>3 DEF s, t
<1> HIDE DEF r
<1>7. StackIn(All(r)) /\ \A d \in All(r) : d.kind # "memory"
  BY <1>3, <1>6 DEF StackIn
<1>8. All(asked') = All(asked) \cup All(r) /\ After(asked') \subseteq All(r)
  BY <1>1, <1>4, <1>5, <1>7, ConcatAll
<1>9. StackIn(All(asked'))
  BY <1>7, <1>8 DEF StackIn
<1>10. AnswerFresh'
  BY <1>1, MovesAfter DEF AnswerFresh
<1>11. StackFresh'
  <2>1. Len(backtrace') = 0
    BY <1>2
  <2> QED BY <2>1 DEF StackFresh
<1>12. NoneStale'
  BY <1>7, <1>8, <1>9 DEF NoneStale, StaleRequest
<1>13. FrameChosen' /\ Follows'
  BY <1>9 DEF FrameChosen, Follows, Coming
<1> QED BY <1>10, <1>11, <1>12, <1>13 DEF CurrentInv

\* What is asked when the stack is there.
LEMMA ScopesAsked ==
  ASSUME NEW body, NEW n
  PROVE  /\ IsSequence(ScopesOf(body, n)) /\ \A m \in All(ScopesOf(body, n)) : m.kind = "scopes"
         /\ body.source <= Len(body.frames) =>
              \E m \in All(ScopesOf(body, n)) : m.kind = "scopes" /\ m.arg = body.frames[body.source]
<1> DEFINE a == Request("scopes", body.frames[body.source], Nobody, n)
<1>1. HasKind(a) /\ a.kind = "scopes" /\ a.arg = body.frames[body.source]
  BY FieldFacts
<1> HIDE DEF a
<1>2. IsSequence(<<a>>) /\ All(<<a>>) = {a} /\ IsSequence(<<>>) /\ All(<<>>) = {}
  BY <1>1, SingleFacts, EmptyFacts, AllFacts
<1>3. CASE body.source <= Len(body.frames)
  <2>1. ScopesOf(body, n) = <<a>>
    BY <1>3 DEF ScopesOf, a
  <2> QED BY <1>1, <1>2, <2>1
<1>4. CASE ~(body.source <= Len(body.frames))
  <2>1. ScopesOf(body, n) = <<>>
    BY <1>4 DEF ScopesOf
  <2> QED BY <1>2, <1>4, <2>1
<1> QED BY <1>3, <1>4

\* The stack is there: it is that of the stop, a frame of it is in use, and the scopes of one
\* whose file exists are asked for.
LEMMA CurrentStackTrace == ASSUME ShownInv, Calm, CurrentInv, OnStackTrace PROVE CurrentInv'
<1> DEFINE m == Head(inbox)
           body == m.body
           r == ScopesOf(body, seq)
<1>1. /\ Moved' = {} /\ m \in Moved /\ m.kind = "stackTrace" /\ Moving = {} /\ stop # 0
      /\ IsSequence(asked) /\ IsSequence(inbox) /\ ~Two(inbox, MovingMessages)
  BY HandledMover DEF OnStackTrace, MovingMessages, Calm, OneMoves
<1>2. inbox # <<>> /\ inbox' = Tail(inbox)
  BY DEF OnStackTrace, Handle
<1>3. UNCHANGED <<stop, source, depth, running>>
  BY DEF OnStackTrace, adapter
<1>4. body.frames # <<>> /\ IsStack(body.frames)
  BY <1>1 DEF Calm, AnsweredFits
<1>5. backtrace' = body.frames /\ frame' # 0
  <2>1. backtrace' = body.frames /\ frame' = IF user = 0 THEN 1 ELSE user
    BY <1>4 DEF OnStackTrace
  <2> QED BY <2>1
<1>6. asked' = asked \o r
  BY DEF OnStackTrace, Ask
<1>7. /\ IsSequence(r) /\ \A d \in All(r) : d.kind = "scopes"
      /\ body.source <= Len(body.frames) =>
           \E d \in All(r) : d.kind = "scopes" /\ d.arg = body.frames[body.source]
  BY ScopesAsked
<1> HIDE DEF m, body, r
<1>8. m \in All(inbox) /\ ~StackIn(All(asked))
  BY <1>1, MovesFacts DEF StackIn
<1>9. Known
  <2>1. \A d \in All(inbox) : d.kind = "stopped" => d \in Moved
    BY MovesFacts
  <2>2. \A d \in Moved : d = m
    BY <1>1, OnlyOne DEF Moved
  <2> QED BY <1>1, <2>1, <2>2 DEF Known, StopIn
<1>10. body.source = source /\ \A i \in 1 .. Len(body.frames) : Fresh(body.frames[i], stop)
  BY <1>1, <1>8 DEF CurrentInv, AnswerFresh, body
<1>11. StackFresh'
  BY <1>3, <1>5, <1>10 DEF StackFresh
<1>12. AnswerFresh'
  BY <1>1, MovesAfter DEF AnswerFresh
<1>13. FrameChosen'
  BY <1>5 DEF FrameChosen
<1>14. All(r) \subseteq All(asked') /\ After(asked') \subseteq After(asked) \cup All(r)
  BY <1>1, <1>6, <1>7, ConcatAll
<1>15. NoneStale'
  <2>1. After(inbox') \subseteq After(inbox)
    BY <1>1, <1>2, TailAll
  <2>2. \A d \in After(inbox') : ~StaleAnswer(d, stop)
    BY <1>8, <1>9, <2>1 DEF CurrentInv, NoneStale
  <2>3. \A d \in After(asked') : ~StaleRequest(d, stop)
    BY <1>7, <1>9, <1>14 DEF CurrentInv, NoneStale, StaleRequest
  <2> QED BY <1>3, <2>2, <2>3 DEF NoneStale
<1>16. ASSUME HasSource PROVE ScopesIn(All(asked'), All(inbox'), stop)
  <2>1. Len(body.frames) \in Nat /\ source <= Len(body.frames)
    BY <1>4, <1>16, InspectAssumption DEF IsStack, HasSource, Calm, Ranges
  <2>2. source \in Nat /\ source >= 1
    BY InspectAssumption DEF ShownInv, FramesInv
  <2>3. source \in 1 .. Len(body.frames)
    BY <2>1, <2>2
  <2>4. Fresh(body.frames[source], stop)
    BY <1>10, <2>3
  <2>5. \E d \in All(r) : d.kind = "scopes" /\ d.arg = body.frames[source]
    BY <1>7, <1>10, <2>1
  <2> QED BY <1>14, <2>4, <2>5 DEF ScopesIn, ScopesRequest
<1>17. Follows'
  <2>1. HasSource' => HasSource
    BY <1>3 DEF HasSource
  <2> QED BY <1>3, <1>16, <2>1 DEF Follows
<1> QED BY <1>11, <1>12, <1>13, <1>15, <1>17 DEF CurrentInv

-----------------------------------------------------------------------------
(* Answers                                                                  *)

\* A frame of the stop is answered with one, and one of an earlier stop with none.
LEMMA BodyFresh ==
  ASSUME ShownInv, stop # 0, NEW req, GoodRequest(req), NEW body \in Bodies(req)
  PROVE  LET e == Answer(req, body)
         IN  /\ ~StaleRequest(req, stop) => ~StaleAnswer(e, stop)
             /\ ScopesRequest(req, stop) => ScopesAnswer(e, stop)
             /\ LocalsRequest(req, stop) => LocalsAnswer(e, stop)
             /\ \A w : ValueRequest(req, w, stop) => ValueAnswer(e, w, stop)
             /\ MemoryRequest(req, stop) => MemoryAnswer(e, stop)
<1> DEFINE e == Answer(req, body)
<1>1. e.kind = req.kind /\ e.body = body /\ e.node = req.node
  BY FieldFacts
<1> HIDE DEF e
<1>2. \A f : Valid(f) <=> Fresh(f, stop)
  BY DEF Valid, Fresh
<1>3. req.kind \in {"scopes", "evaluate", "memory"} =>
        body = IF Fresh(req.arg, stop) THEN req.arg ELSE None
  BY <1>2 DEF Bodies
<1>4. req.kind = "variables" =>
        /\ body = IF req.arg # None /\ Fresh(req.arg.frame, stop)
                  THEN Variables(req.arg.frame, req.arg.name) ELSE <<>>
        /\ req.arg # None => req.arg.frame \in Frames /\ req.arg.name \in DOMAIN Contents
  <2> SUFFICES ASSUME req.kind = "variables"
               PROVE  /\ body = IF req.arg # None /\ Fresh(req.arg.frame, stop)
                                THEN Variables(req.arg.frame, req.arg.name) ELSE <<>>
                      /\ req.arg # None => req.arg.frame \in Frames /\ req.arg.name \in DOMAIN Contents
    OBVIOUS
  <2>1. body = IF req.arg # None /\ Fresh(req.arg.frame, stop)
               THEN Variables(req.arg.frame, req.arg.name) ELSE <<>>
    BY <1>2 DEF Bodies
  <2>2. req.arg \in MaybeVar /\ (req.arg # None => req.arg.name \in DOMAIN Contents)
    BY DEF GoodRequest
  <2>3. req.arg # None => req.arg.frame \in Frames
    BY <2>2 DEF MaybeVar, Named
  <2> QED BY <2>1, <2>2, <2>3
<1>5. ASSUME ~StaleRequest(req, stop) PROVE ~StaleAnswer(e, stop)
  <2>1. CASE req.kind = "memory"
    BY <1>1, <1>3, <1>5, <2>1 DEF StaleRequest, StaleAnswer
  <2>2. CASE req.kind = "evaluate"
    BY <1>1, <1>3, <2>2 DEF StaleAnswer
  <2>3. CASE req.kind = "variables"
    <3>1. CASE req.arg # None /\ Fresh(req.arg.frame, stop)
      <4> DEFINE c == Contents[req.arg.name]
      <4>1. /\ body = Variables(req.arg.frame, req.arg.name)
            /\ req.arg.frame \in Frames /\ req.arg.name \in DOMAIN Contents
        BY <1>4, <2>3, <3>1
      <4>2. Len(body) = Len(c) /\ \A i \in 1 .. Len(c) : body[i] = Variable(req.arg.frame, c[i])
        BY <4>1, VariablesFacts
      <4> HIDE DEF c
      <4> DEFINE g == req.arg.frame
      <4> HIDE DEF g
      <4>3. \A i \in 1 .. Len(body) : body[i] = Variable(g, c[i])
        BY <4>2 DEF g
      <4>4. \A name : Variable(g, name).frame = g
        BY DEF Variable
      <4>5. \A i \in 1 .. Len(body) : body[i].frame = req.arg.frame
        BY <4>3, <4>4 DEF g
      <4> QED BY <1>1, <2>3, <3>1, <4>5 DEF StaleAnswer
    <3>2. CASE ~(req.arg # None /\ Fresh(req.arg.frame, stop))
      <4>1. body = <<>>
        BY <1>4, <2>3, <3>2
      <4>2. Len(body) = 0
        BY <4>1
      <4>3. \A i \in 1 .. Len(body) : FALSE
        BY <4>2
      <4> QED BY <1>1, <2>3, <4>3 DEF StaleAnswer
    <3> QED BY <3>1, <3>2
  <2>4. CASE req.kind \notin {"memory", "evaluate", "variables"}
    BY <1>1, <2>4 DEF StaleAnswer
  <2> QED BY <2>1, <2>2, <2>3, <2>4
<1>6. ScopesRequest(req, stop) => ScopesAnswer(e, stop)
  BY <1>1, <1>3 DEF ScopesRequest, ScopesAnswer
<1>7. LocalsRequest(req, stop) => LocalsAnswer(e, stop)
  BY <1>1, <1>4 DEF LocalsRequest, LocalsAnswer
<1>8. \A w : ValueRequest(req, w, stop) => ValueAnswer(e, w, stop)
  BY <1>1, <1>3 DEF ValueRequest, ValueAnswer
<1>9. MemoryRequest(req, stop) => MemoryAnswer(e, stop)
  BY <1>1, <1>3 DEF MemoryRequest, MemoryAnswer
<1> QED BY <1>5, <1>6, <1>7, <1>8, <1>9 DEF e

\* A stack that is answered is that of the stop.
LEMMA StackBodyFresh ==
  ASSUME ShownInv, stop # 0, NEW req, req.kind = "stackTrace", req.arg \in Threads,
         NEW body \in Bodies(req)
  PROVE  body.source = source /\ \A i \in 1 .. Len(body.frames) : Fresh(body.frames[i], stop)
<1>1. /\ stop \in Nat /\ req.arg # None
      /\ depth[req.arg] \in Nat
  BY InspectAssumption DEF ShownInv, FramesInv
<1> DEFINE s == [i \in 1 .. depth[req.arg] |-> Frame(req.arg, i)]
<1>2. body = [frames |-> s, source |-> source]
  BY <1>1 DEF Bodies
<1>3. Len(s) = depth[req.arg] /\ \A i \in 1 .. depth[req.arg] : s[i] = Frame(req.arg, i)
  BY <1>1
<1> HIDE DEF s
<1>4. body.source = source /\ body.frames = s
  BY <1>2
<1>5. ASSUME NEW i \in 1 .. depth[req.arg] PROVE Fresh(Frame(req.arg, i), stop)
  <2>1. Frame(req.arg, i) \in Frames /\ Frame(req.arg, i).stop = stop
    BY <1>1 DEF Frame, Frames
  <2> QED BY <2>1, NoneAssumption DEF Fresh
<1> QED BY <1>3, <1>4, <1>5

\* Every answer is there for its request.
LEMMA CurrentAnswers ==
  ASSUME ShownInv, Calm, CurrentInv, AdapterAnswers, Head(asked).kind # "resume"
  PROVE  CurrentInv'
<1> DEFINE req == Head(asked)
<1>1. /\ asked # <<>> /\ asked' = Tail(asked) /\ IsSequence(asked) /\ IsSequence(inbox)
      /\ GoodRequest(req)
  BY RequestsFacts DEF AdapterAnswers, ShownInv, MessagesInv, Calm, OneMoves
<1>2. UNCHANGED <<stop, source, depth, backtrace, frame, running, watches, memory>>
  BY DEF AdapterAnswers, frames, shown
<1>3. PICK body \in Bodies(req) : inbox' = Append(inbox, Answer(req, body))
  BY DEF AdapterAnswers
<1> DEFINE e == Answer(req, body)
<1>4. e.kind = req.kind /\ e.body = body /\ e.kind # "stopped"
  BY <1>1, FieldFacts DEF GoodRequest
<1>5. stop # 0 =>
        /\ ~StaleRequest(req, stop) => ~StaleAnswer(e, stop)
        /\ ScopesRequest(req, stop) => ScopesAnswer(e, stop)
        /\ LocalsRequest(req, stop) => LocalsAnswer(e, stop)
        /\ \A w : ValueRequest(req, w, stop) => ValueAnswer(e, w, stop)
        /\ MemoryRequest(req, stop) => MemoryAnswer(e, stop)
  BY <1>1, <1>3, BodyFresh
<1>6. inbox' = Append(inbox, e)
  BY <1>3
<1> HIDE DEF e, req
<1>7. All(asked) = All(asked') \cup {req} /\ After(asked') \subseteq After(asked)
  BY <1>1, TailAll DEF req
<1>8. /\ All(inbox') = All(inbox) \cup {e} /\ After(inbox') \subseteq After(inbox) \cup {e}
      /\ e.kind = "stackTrace" => After(inbox') = {}
  BY <1>1, <1>6, AppendAll
<1>9. StopIn(All(inbox')) <=> StopIn(All(inbox))
  BY <1>4, <1>8 DEF StopIn
<1>10. Known' <=> Known
  BY <1>2, <1>9 DEF Known
<1>11. StackFresh'
  BY <1>2, <1>10 DEF CurrentInv, StackFresh
<1>12. CASE req.kind = "stackTrace"
  <2>1. req \in Moving /\ Moved = {} /\ stop # 0
    BY <1>1, <1>12, TakenMover DEF MovingRequests, req
  <2>2. req.arg \in Threads
    BY <1>12, <2>1 DEF Calm, AskedFits
  <2>3. body.source = source /\ \A i \in 1 .. Len(body.frames) : Fresh(body.frames[i], stop)
    BY <1>3, <1>12, <2>1, <2>2, StackBodyFresh
  <2>4. \A d \in All(inbox') : d.kind = "stackTrace" => d = e
    BY <1>8, <2>1, MovesFacts
  <2>5. AnswerFresh'
    BY <1>2, <1>4, <2>3, <2>4 DEF AnswerFresh
  <2>6. StackIn(All(inbox'))
    BY <1>4, <1>8, <1>12 DEF StackIn
  <2>7. NoneStale'
    BY <1>2, <1>4, <1>7, <1>8, <1>10, <1>12 DEF CurrentInv, NoneStale
  <2>8. FrameChosen' /\ Follows'
    BY <2>6 DEF FrameChosen, Follows, Coming
  <2> QED BY <1>11, <2>5, <2>7, <2>8 DEF CurrentInv
<1>13. CASE req.kind # "stackTrace"
  <2>1. StackIn(All(asked')) <=> StackIn(All(asked))
    BY <1>7, <1>13 DEF StackIn
  <2>2. StackIn(All(inbox')) <=> StackIn(All(inbox))
    BY <1>4, <1>8, <1>13 DEF StackIn
  <2>3. Coming' <=> Coming
    BY <1>9, <2>1, <2>2 DEF Coming
  <2>4. AnswerFresh'
    BY <1>2, <1>4, <1>8, <1>13 DEF CurrentInv, AnswerFresh
  <2>5. FrameChosen'
    BY <1>2, <2>3 DEF CurrentInv, FrameChosen
  <2>6. NoneStale'
    <3>1. ASSUME Known, ~StackIn(All(asked)) PROVE ~StaleAnswer(e, stop)
      <4>1. req \in After(asked)
        BY <1>1, <1>7, <3>1, AfterFacts
      <4> QED BY <1>5, <3>1, <4>1 DEF CurrentInv, NoneStale, Known
    <3> QED BY <1>2, <1>7, <1>8, <1>10, <2>1, <3>1 DEF CurrentInv, NoneStale
  <2>7. ASSUME stop # 0
        PROVE  /\ ScopesIn(All(asked), All(inbox), stop) => ScopesIn(All(asked'), All(inbox'), stop)
               /\ LocalsIn(All(asked), All(inbox), stop) => LocalsIn(All(asked'), All(inbox'), stop)
               /\ StillIn(All(asked), All(inbox), All(asked'), All(inbox'), stop)
    <3>1. ScopesIn(All(asked), All(inbox), stop) => ScopesIn(All(asked'), All(inbox'), stop)
      BY <1>5, <1>7, <1>8, <2>7 DEF ScopesIn
    <3>2. LocalsIn(All(asked), All(inbox), stop) => LocalsIn(All(asked'), All(inbox'), stop)
      BY <1>5, <1>7, <1>8, <2>7 DEF LocalsIn
    <3>3. \A w : ValueIn(All(asked), All(inbox), w, stop) => ValueIn(All(asked'), All(inbox'), w, stop)
      BY <1>5, <1>7, <1>8, <2>7 DEF ValueIn
    <3>4. MemoryIn(All(asked), All(inbox), stop) => MemoryIn(All(asked'), All(inbox'), stop)
      BY <1>5, <1>7, <1>8, <2>7 DEF MemoryIn
    <3> QED BY <3>1, <3>2, <3>3, <3>4 DEF StillIn
  <2>8. ASSUME stop # 0, Done(watches, memory, All(asked), All(inbox), stop)
        PROVE  Done(watches', memory', All(asked'), All(inbox'), stop)
    <3>1. FreshOrSame(watches, watches', All(asked'), All(inbox'), stop)
      BY <1>2 DEF FreshOrSame
    <3> QED BY <1>2, <2>7, <2>8, <3>1, PassDone
  <2>9. Follows'
    <3>1. HasSource' <=> HasSource
      BY <1>2 DEF HasSource
    <3> QED BY <1>2, <2>3, <2>7, <2>8, <3>1 DEF CurrentInv, Follows
  <2> QED BY <1>11, <2>4, <2>5, <2>6, <2>9 DEF CurrentInv
<1> QED BY <1>12, <1>13

-----------------------------------------------------------------------------
(* The user moves the call stack, or deletes a watch                        *)

\* With all answered the stack of a thread is asked for,
LEMMA CurrentStack ==
  ASSUME Calm, CurrentInv, UpdateBacktrace \/ \E t \in Threads : SwitchToThread(t), ~disturbed'
  PROVE  CurrentInv'
<1>1. Settled /\ IsSequence(asked)
  BY DEF UpdateBacktrace, SwitchToThread, Disturb, Calm, OneMoves
<1>2. PICK t : Ask(<<Request("stackTrace", t, Nobody, seq)>>)
  BY DEF UpdateBacktrace, SwitchToThread
<1>3. UNCHANGED <<stop, source, depth, backtrace, inbox>>
  BY DEF UpdateBacktrace, SwitchToThread, adapter, frames
<1> DEFINE a == Request("stackTrace", t, Nobody, seq)
           r == <<a>>
<1>4. HasKind(a) /\ a.kind = "stackTrace"
  BY FieldFacts
<1> HIDE DEF a
<1>5. IsSequence(r) /\ All(r) = {a} /\ asked' = asked \o r
  BY <1>2, <1>4, SingleFacts, AllFacts DEF a, Ask
<1> HIDE DEF r
<1>6. StackIn(All(r)) /\ \A d \in All(r) : d.kind # "memory"
  BY <1>4, <1>5 DEF StackIn
<1>7. All(asked') = All(asked) \cup All(r) /\ After(asked') \subseteq All(r)
  BY <1>1, <1>5, <1>6, ConcatAll
<1>8. StackIn(All(asked'))
  BY <1>6, <1>7 DEF StackIn
<1>9. Known' <=> Known
  BY <1>3 DEF Known
<1>10. StackFresh' /\ AnswerFresh'
  BY <1>3, <1>9 DEF CurrentInv, StackFresh, AnswerFresh
<1>11. NoneStale'
  BY <1>6, <1>7, <1>8 DEF NoneStale, StaleRequest
<1>12. FrameChosen' /\ Follows'
  BY <1>8 DEF FrameChosen, Follows, Coming
<1> QED BY <1>10, <1>11, <1>12 DEF CurrentInv

\* or another frame is selected.
LEMMA CurrentFrame ==
  ASSUME Calm, CurrentInv, NEW i \in 1 .. Len(backtrace), SwitchToFrame(i)
  PROVE  CurrentInv'
<1>1. UNCHANGED <<stop, source, depth, backtrace, running, asked, inbox, watches, memory>> /\ frame' = i
  BY DEF SwitchToFrame, adapter, shown
<1>2. frame' # 0
  BY <1>1
<1>3. (Known' <=> Known) /\ (HasSource' <=> HasSource)
  BY <1>1 DEF Known, HasSource
<1>4. Coming' <=> Coming
  BY <1>1 DEF Coming
<1>5. StackFresh' /\ AnswerFresh'
  BY <1>1, <1>3 DEF CurrentInv, StackFresh, AnswerFresh
<1>6. FrameChosen'
  BY <1>2 DEF FrameChosen
<1>7. NoneStale'
  BY <1>1, <1>3 DEF CurrentInv, NoneStale
<1>8. Follows'
  BY <1>1, <1>3, <1>4 DEF CurrentInv, Follows
<1> QED BY <1>5, <1>6, <1>7, <1>8 DEF CurrentInv

\* What is left of a message when the watch w is gone.
Kept(m, d, w) ==
  \/ d = m
  \/ /\ m.kind = "evaluate" /\ d.kind = "evaluate" /\ m.node = <<w>>
     /\ "body" \in DOMAIN m => d.body = m.body

\* Each message is left, where it was.
LEMMA ForgetAll ==
  ASSUME NEW s, IsSequence(s), NEW w
  PROVE  /\ \A m \in All(s) : \E d \in All(Forget(s, w)) : Kept(m, d, w)
         /\ \A d \in All(Forget(s, w)) : \E m \in All(s) : Kept(m, d, w)
         /\ \A d \in After(Forget(s, w)) : \E m \in After(s) : Kept(m, d, w)
<1> DEFINE Without(m) == IF m.kind = "evaluate" /\ m.node = <<w>> THEN [m EXCEPT !.node = Nobody] ELSE m
           t == Forget(s, w)
<1>1. PICK S : s \in Seq(S) /\ \A m \in S : HasKind(m)
  BY DEF IsSequence
<1>2. t = [i \in 1 .. Len(s) |-> Without(s[i])]
  BY <1>1 DEF Forget
<1>3. ASSUME NEW m, HasKind(m) PROVE Kept(m, Without(m), w) /\ Without(m).kind = m.kind
  <2>1. CASE m.kind = "evaluate" /\ m.node = <<w>>
    <3> DEFINE e == [m EXCEPT !.node = Nobody]
    <3>1. e.kind = "evaluate" /\ ("body" \in DOMAIN m => e.body = m.body)
      BY <1>3, <2>1 DEF HasKind
    <3>2. Without(m) = e
      BY <2>1
    <3> HIDE DEF e, Without
    <3> QED BY <2>1, <3>1, <3>2 DEF Kept
  <2>2. CASE ~(m.kind = "evaluate" /\ m.node = <<w>>)
    <3>1. Without(m) = m
      BY <2>2
    <3> HIDE DEF Without
    <3> QED BY <3>1 DEF Kept
  <2> QED BY <2>1, <2>2
<1> HIDE DEF Without, t
<1>4. Len(s) \in Nat /\ Len(t) = Len(s) /\ \A i \in 1 .. Len(s) : t[i] = Without(s[i]) /\ HasKind(s[i])
  BY <1>1, <1>2
<1>5. \A i \in 1 .. Len(s) : Kept(s[i], t[i], w) /\ t[i].kind = s[i].kind
  BY <1>3, <1>4
<1>6. ASSUME NEW m \in All(s) PROVE \E d \in All(t) : Kept(m, d, w)
  <2>1. PICK i \in 1 .. Len(s) : m = s[i]
    BY DEF All
  <2>2. t[i] \in All(t)
    BY <1>4, AfterAt
  <2> QED BY <1>5, <2>1, <2>2
<1>7. ASSUME NEW d \in All(t) PROVE \E m \in All(s) : Kept(m, d, w)
  <2>1. PICK i \in 1 .. Len(s) : d = t[i]
    BY <1>4 DEF All
  <2>2. s[i] \in All(s)
    BY AfterAt
  <2> QED BY <1>5, <2>1, <2>2
<1>8. ASSUME NEW d \in After(t) PROVE \E m \in After(s) : Kept(m, d, w)
  <2>1. PICK i \in 1 .. Len(s) : d = t[i] /\ Behind(t, i)
    BY <1>4 DEF After
  <2>2. Behind(s, i)
    <3>1. \A k \in i .. Len(s) : k \in 1 .. Len(s)
      BY <1>4
    <3> QED BY <1>4, <1>5, <2>1, <3>1 DEF Behind
  <2>3. s[i] \in After(s)
    BY <2>2, AfterAt
  <2> QED BY <1>5, <2>1, <2>3
<1> QED BY <1>6, <1>7, <1>8 DEF t

\* A watch is deleted: the others keep their values, and those that come.
LEMMA CurrentDelete ==
  ASSUME ShownInv, Calm, CurrentInv, NEW w \in DOMAIN watches, DeleteWatch(w)
  PROVE  CurrentInv'
<1>1. /\ UNCHANGED <<stop, source, depth, backtrace, frame, running, memory>>
      /\ asked' = Forget(asked, w) /\ inbox' = Forget(inbox, w)
      /\ watches' = [v \in DOMAIN watches \ {w} |-> watches[v]]
  BY DEF DeleteWatch, adapter, frames
<1>2. IsSequence(asked) /\ IsSequence(inbox)
  BY DEF Calm, OneMoves
<1>3. /\ \A m \in All(asked) : \E d \in All(asked') : Kept(m, d, w)
      /\ \A d \in All(asked') : \E m \in All(asked) : Kept(m, d, w)
      /\ \A d \in After(asked') : \E m \in After(asked) : Kept(m, d, w)
  BY <1>1, <1>2, ForgetAll
<1>4. /\ \A m \in All(inbox) : \E d \in All(inbox') : Kept(m, d, w)
      /\ \A d \in All(inbox') : \E m \in All(inbox) : Kept(m, d, w)
      /\ \A d \in After(inbox') : \E m \in After(inbox) : Kept(m, d, w)
  BY <1>1, <1>2, ForgetAll
<1>5. (StackIn(All(asked')) <=> StackIn(All(asked))) /\ (StackIn(All(inbox')) <=> StackIn(All(inbox)))
  BY <1>3, <1>4 DEF StackIn, Kept
<1>6. StopIn(All(inbox')) <=> StopIn(All(inbox))
  BY <1>4 DEF StopIn, Kept
<1>7. (Known' <=> Known) /\ (HasSource' <=> HasSource)
  BY <1>1, <1>6 DEF Known, HasSource
<1>8. Coming' <=> Coming
  BY <1>5, <1>6 DEF Coming
<1>9. StackFresh' /\ FrameChosen'
  BY <1>1, <1>7, <1>8 DEF CurrentInv, StackFresh, FrameChosen
<1>10. AnswerFresh'
  <2>1. \A d \in All(inbox') : d.kind = "stackTrace" => d \in All(inbox)
    BY <1>4 DEF Kept
  <2> QED BY <1>1, <2>1 DEF CurrentInv, AnswerFresh
<1>11. \A m \in All(inbox) : m.kind = "evaluate" => "body" \in DOMAIN m
  <2>1. PICK S : inbox \in Seq(S) /\ \A m \in S : GoodAnswer(m)
    BY DEF ShownInv, MessagesInv, Answers
  <2>2. \A i \in 1 .. Len(inbox) : inbox[i] \in S
    BY <2>1
  <2> QED BY <2>1, <2>2 DEF All, GoodAnswer
<1>12. NoneStale'
  <2>1. ASSUME Known, NEW d \in After(asked') PROVE ~StaleRequest(d, stop)
    <3>1. PICK m \in After(asked) : Kept(m, d, w)
      BY <1>3
    <3>2. ~StaleRequest(m, stop)
      BY <2>1 DEF CurrentInv, NoneStale
    <3> QED BY <3>1, <3>2 DEF Kept, StaleRequest
  <2>2. ASSUME Known, ~StackIn(All(asked)), NEW d \in After(inbox') PROVE ~StaleAnswer(d, stop)
    <3>1. PICK m \in After(inbox) : Kept(m, d, w)
      BY <1>4
    <3>2. ~StaleAnswer(m, stop) /\ m \in All(inbox)
      BY <1>2, <2>2, AfterFacts DEF CurrentInv, NoneStale
    <3>3. CASE d = m
      BY <3>2, <3>3
    <3>4. CASE m.kind = "evaluate" /\ d.kind = "evaluate" /\ d.body = m.body
      BY <3>2, <3>4 DEF StaleAnswer
    <3> QED BY <1>11, <3>1, <3>2, <3>3, <3>4 DEF Kept
  <2> QED BY <1>1, <1>5, <1>7, <2>1, <2>2 DEF NoneStale
<1>13. \A m : (m.kind # "evaluate" \/ m.node # <<w>>) =>
         /\ m \in All(asked) => m \in All(asked')
         /\ m \in All(inbox) => m \in All(inbox')
  BY <1>3, <1>4 DEF Kept
<1>14. ScopesIn(All(asked), All(inbox), stop) => ScopesIn(All(asked'), All(inbox'), stop)
  BY <1>13 DEF ScopesIn, ScopesRequest, ScopesAnswer
<1>15. LocalsIn(All(asked), All(inbox), stop) => LocalsIn(All(asked'), All(inbox'), stop)
  BY <1>13 DEF LocalsIn, LocalsRequest, LocalsAnswer
<1>16. Done(watches, memory, All(asked), All(inbox), stop) =>
         Done(watches', memory', All(asked'), All(inbox'), stop)
  <2>1. MemoryIn(All(asked), All(inbox), stop) => MemoryIn(All(asked'), All(inbox'), stop)
    BY <1>13 DEF MemoryIn, MemoryRequest, MemoryAnswer
  <2>2. ASSUME NEW v, v # w, ValueIn(All(asked), All(inbox), v, stop)
        PROVE  ValueIn(All(asked'), All(inbox'), v, stop)
    <3>1. <<v>> # <<w>>
      BY <2>2
    <3>2. \A m : m.node = <<v>> => m.node # <<w>>
      BY <3>1
    <3>3. CASE \E m \in All(asked) : ValueRequest(m, v, stop)
      BY <1>13, <3>2, <3>3 DEF ValueIn, ValueRequest
    <3>4. CASE \E m \in All(inbox) : ValueAnswer(m, v, stop)
      BY <1>13, <3>2, <3>4 DEF ValueIn, ValueAnswer
    <3> QED BY <2>2, <3>3, <3>4 DEF ValueIn
  <2>3. \A v \in DOMAIN watches' : v \in DOMAIN watches /\ v # w /\ watches'[v] = watches[v]
    BY <1>1
  <2> QED BY <1>1, <2>1, <2>2, <2>3 DEF Done
<1>17. Follows'
  BY <1>1, <1>7, <1>8, <1>14, <1>15, <1>16 DEF CurrentInv, Follows
<1> QED BY <1>9, <1>10, <1>12, <1>17 DEF CurrentInv

-----------------------------------------------------------------------------
(* The theorem                                                              *)

\* The invariant as long as nothing disturbs it.
AllCurrent == disturbed \/ CurrentInv

\* At first nothing is known.
LEMMA CurrentInit == Init => AllCurrent
<1> SUFFICES ASSUME Init PROVE CurrentInv
  BY DEF AllCurrent
<1>1. stop = 0 /\ All(inbox) = {}
  BY AllFacts DEF Init
<1>2. StackFresh /\ AnswerFresh /\ FrameChosen /\ NoneStale /\ Follows
  BY <1>1 DEF StackFresh, AnswerFresh, FrameChosen, NoneStale, Follows, Known
<1> QED BY <1>2 DEF CurrentInv

\* What the user asks.
LEMMA CurrentAsking ==
  ASSUME ShownInv, Calm, CurrentInv, ~disturbed', Asking
  PROVE  CurrentInv'
<1>1. CASE Resume \/ SetNextStatement
  BY <1>1, CurrentResume
<1>2. CASE UpdateBacktrace \/ \E t \in Threads : SwitchToThread(t)
  BY <1>2, CurrentStack
<1>3. CASE Tooltip \/ SendCommand \/ ExamineMemory
  BY <1>3, CurrentLook
<1>4. CASE \E i \in 1 .. Len(backtrace) : SwitchToFrame(i)
  BY <1>4, CurrentFrame
<1>5. CASE \E w \in DOMAIN watches : UpdateWatch(w)
  BY <1>5, CurrentUpdate
<1>6. CASE UseMissingFrame
  BY <1>6 DEF UseMissingFrame, InRange, Calm, Ranges
<1> QED BY <1>1, <1>2, <1>3, <1>4, <1>5, <1>6 DEF Asking

\* Every step keeps it.
LEMMA CurrentNext == ShownInv /\ CalmChain /\ AllCurrent /\ [Next]_vars => AllCurrent'
<1> SUFFICES ASSUME ShownInv, Calm, ChainInv, CurrentInv, [Next]_vars, ~disturbed' PROVE CurrentInv'
  BY StaysDisturbed DEF CalmChain, AllCurrent
<1>1. Calm'
  BY RangeStep DEF RangeInv
<1>2. CASE Next
  <2>1. CASE StartSession \/ SessionEnds
    <3>1. stop' = 0
      BY <2>1 DEF StartSession, SessionEnds
    <3> QED BY <1>1, <3>1, AtRest
  <2>2. CASE AdapterStops \/ AdapterGoes
    BY <2>2, CurrentStops
  <2>3. CASE AdapterAnswers
    <3>1. CASE Head(asked).kind = "resume"
      <4>1. stop' = 0
        BY <2>3, <3>1 DEF AdapterAnswers
      <4> QED BY <1>1, <4>1, AtRest
    <3> QED BY <2>3, <3>1, CurrentAnswers
  <2>4. CASE OnStopped
    BY <2>4, CurrentStopped
  <2>5. CASE OnStackTrace
    BY <2>5, CurrentStackTrace
  <2>6. CASE OnScopes
    BY <2>6, CurrentScopes
  <2>7. CASE OnVariables
    BY <2>7, CurrentVariables
  <2>8. CASE OnEvaluate
    BY <2>8, CurrentEvaluate
  <2>9. CASE OnMemory
    BY <2>9, CurrentMemory
  <2>10. CASE OnGotoTargets \/ OnDisassemble \/ OnOther
    BY <2>10, CurrentOther
  <2>11. CASE Asking
    BY <2>11, CurrentAsking
  <2>12. CASE UpdateRegisters
    BY <2>12, CurrentLook
  <2>13. CASE \E w \in Symbols \ DOMAIN watches : AddWatch(w)
    BY <2>13, CurrentAdd
  <2>14. CASE \E w \in DOMAIN watches : DeleteWatch(w)
    BY <2>14, CurrentDelete
  <2>15. CASE \/ \E w \in DOMAIN watches : ExpandWatch(w)
              \/ \E w \in DOMAIN watches : \E k \in watches[w].kids : ExpandChild(w, k)
    BY <2>15, CurrentExpand
  <2> QED BY <1>2, <2>1, <2>2, <2>3, <2>4, <2>5, <2>6, <2>7, <2>8, <2>9, <2>10, <2>11, <2>12, <2>13,
             <2>14, <2>15, ShownCases
<1>3. CASE UNCHANGED vars
  <2>1. UNCHANGED <<asked, seq, inbox, stop, source, depth, backtrace, frame, running, memory, watches>>
    BY <1>3 DEF vars, adapter, frames, shown
  <2> QED BY <2>1, StayCurrent
<1> QED BY <1>2, <1>3

\* With all answered, nothing is on its way any more.
LEMMA SettledCurrent == ASSUME CurrentInv, running, Settled, HasSource PROVE ShownOf(LocalNames)
<1>1. All(asked) = {} /\ All(inbox) = {} /\ stop # 0
  BY AllFacts DEF Settled, Quiet
<1>2. ~Coming
  BY <1>1 DEF Coming, StackIn, StopIn
<1>3. ~ScopesIn(All(asked), All(inbox), stop) /\ ~LocalsIn(All(asked), All(inbox), stop)
  BY <1>1 DEF ScopesIn, LocalsIn
<1>4. Done(watches, memory, All(asked), All(inbox), stop)
  BY <1>1, <1>2, <1>3 DEF CurrentInv, Follows
<1>5. ~MemoryIn(All(asked), All(inbox), stop) /\ \A w : ~ValueIn(All(asked), All(inbox), w, stop)
  BY <1>1 DEF MemoryIn, ValueIn
<1>6. \A w \in DOMAIN watches : w \in LocalNames =>
        watches[w].value # None /\ Current(watches[w].value.frame)
  BY <1>4, <1>5 DEF Done, FreshValue, Fresh, Current
<1>7. MemoryShown => Current(memory)
  BY <1>4, <1>5 DEF Done, Fresh, Current
<1> HIDE DEF LocalNames
<1> QED BY <1>6, <1>7 DEF ShownOf

\* When everything is answered, each watch of a local variable has its value at this stop and
\* not at an earlier one, and so has the memory, however the answers of stops before and the
\* requests of the user lie between the stack, its scopes and their variables
\* (Debugger_DAP::OnStackTrace, DBG_DAP_Watches::OnScopes and OnVariables).
THEOREM ShownIsCurrent == Spec => []ValuesAreCurrent
<1>1. Init => ShownInv /\ CalmChain /\ AllCurrent
  BY ShownInit, ChainInit, CurrentInit
<1>2. ShownInv /\ CalmChain /\ AllCurrent /\ [Next]_vars => (ShownInv /\ CalmChain /\ AllCurrent)'
  BY ShownNext, ChainNext, CurrentNext
<1>3. AllCurrent => ValuesAreCurrent
  BY SettledCurrent DEF AllCurrent, ValuesAreCurrent
<1> QED BY <1>1, <1>2, <1>3, PTL DEF Spec
=============================================================================
