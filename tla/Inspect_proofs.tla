---------------------------- MODULE Inspect_proofs ----------------------------
(***************************************************************************)
(* Theorems about Inspect: the frame in use is one of the call stack, and  *)
(* what is shown: the types, the registers, and the children of a watch    *)
(* that is expanded.                                                       *)
(***************************************************************************)
EXTENDS Inspect, SequenceTheorems, TLAPS

-----------------------------------------------------------------------------
(* Messages on their way *)

\* A sequence of records that have a kind.
HasKind(m) == "kind" \in DOMAIN m
IsSequence(s) == \E S : s \in Seq(S) /\ \A m \in S : HasKind(m)

\* The messages of the kinds K, and whether there are two of them.
Among(s, K) == {s[i] : i \in {j \in 1 .. Len(s) : s[j].kind \in K}}
Two(s, K) == \E i, j \in 1 .. Len(s) : i < j /\ s[i].kind \in K /\ s[j].kind \in K

\* The messages of the kinds K are the same in s and t.
Alike(s, t, K) == IsSequence(t) /\ Among(t, K) = Among(s, K) /\ (Two(t, K) <=> Two(s, K))

\* Where one of them is.
LEMMA AmongHas ==
  ASSUME NEW s, NEW K, NEW i \in 1 .. Len(s), s[i].kind \in K PROVE s[i] \in Among(s, K)
<1> DEFINE at == {j \in 1 .. Len(s) : s[j].kind \in K}
<1>1. i \in at
  OBVIOUS
<1> HIDE DEF at
<1>2. s[i] \in {s[j] : j \in at}
  BY <1>1
<1> QED BY <1>2 DEF Among, at

\* A message that is added.
LEMMA AppendFacts ==
  ASSUME NEW s, IsSequence(s), NEW e, HasKind(e), NEW K
  PROVE  /\ IsSequence(Append(s, e))
         /\ Among(Append(s, e), K) = Among(s, K) \cup {d \in {e} : d.kind \in K}
         /\ Two(Append(s, e), K) <=> Two(s, K) \/ (e.kind \in K /\ Among(s, K) # {})
<1>1. PICK S : s \in Seq(S) /\ \A m \in S : HasKind(m)
  BY DEF IsSequence
<1> DEFINE t == Append(s, e)
<1>2. s \in Seq(S \cup {e}) /\ e \in S \cup {e}
  BY <1>1
<1>3. t \in Seq(S \cup {e})
  BY <1>2
<1>4. /\ Len(s) \in Nat /\ Len(t) = Len(s) + 1 /\ t[Len(s) + 1] = e
      /\ \A i \in 1 .. Len(s) : t[i] = s[i]
  BY <1>2
<1> HIDE DEF t
<1>5. \A i \in 1 .. Len(t) : i = Len(s) + 1 \/ i \in 1 .. Len(s)
  BY <1>4
<1>6. \A i \in 1 .. Len(s) : i \in 1 .. Len(t) /\ i < Len(s) + 1
  BY <1>4
<1>7. Len(s) + 1 \in 1 .. Len(t)
  BY <1>4
<1>8. Among(t, K) = Among(s, K) \cup {d \in {e} : d.kind \in K}
  BY <1>4, <1>5, <1>6, <1>7 DEF Among
<1>9. Two(t, K) => Two(s, K) \/ (e.kind \in K /\ Among(s, K) # {})
  <2> SUFFICES ASSUME NEW i \in 1 .. Len(t), NEW j \in 1 .. Len(t), i < j,
                      t[i].kind \in K, t[j].kind \in K
               PROVE  Two(s, K) \/ (e.kind \in K /\ Among(s, K) # {})
    BY DEF Two
  <2>1. i \in 1 .. Len(s) /\ t[i] = s[i]
    BY <1>4, <1>5
  <2>2. CASE j = Len(s) + 1
    BY <1>4, <2>1, <2>2 DEF Among
  <2>3. CASE j \in 1 .. Len(s)
    BY <1>4, <2>1, <2>3 DEF Two
  <2> QED BY <1>5, <2>2, <2>3
<1>10. Two(s, K) => Two(t, K)
  BY <1>4, <1>6 DEF Two
<1>11. e.kind \in K /\ Among(s, K) # {} => Two(t, K)
  <2> SUFFICES ASSUME e.kind \in K, NEW i \in 1 .. Len(s), s[i].kind \in K PROVE Two(t, K)
    BY DEF Among
  <2> QED BY <1>4, <1>6, <1>7 DEF Two
<1> QED BY <1>1, <1>3, <1>8, <1>9, <1>10, <1>11 DEF IsSequence, t

\* The first message is taken.
LEMMA TailFacts ==
  ASSUME NEW s, IsSequence(s), s # <<>>, NEW K
  PROVE  /\ IsSequence(Tail(s))
         /\ Among(s, K) = Among(Tail(s), K) \cup {d \in {Head(s)} : d.kind \in K}
         /\ Two(s, K) <=> Two(Tail(s), K) \/ (Head(s).kind \in K /\ Among(Tail(s), K) # {})
<1>1. PICK S : s \in Seq(S) /\ \A m \in S : HasKind(m)
  BY DEF IsSequence
<1> DEFINE t == Tail(s)
<1>2. t \in Seq(S)
  BY <1>1, HeadTailProperties
<1>3. /\ Len(t) \in Nat /\ Len(s) = Len(t) + 1 /\ Head(s) = s[1]
      /\ \A i \in 1 .. Len(t) : t[i] = s[i + 1]
  BY <1>1, HeadTailProperties
<1> HIDE DEF t
<1>4. \A i \in 1 .. Len(s) : i = 1 \/ (i - 1 \in 1 .. Len(t) /\ t[i - 1] = s[i])
  BY <1>3
<1>5. /\ \A i \in 1 .. Len(t) : i + 1 \in 1 .. Len(s) /\ 1 < i + 1
      /\ 1 \in 1 .. Len(s)
  BY <1>3
<1>6. Among(s, K) = Among(t, K) \cup {d \in {Head(s)} : d.kind \in K}
  <2>1. ASSUME NEW d \in Among(s, K) PROVE d \in Among(t, K) \/ (d = Head(s) /\ d.kind \in K)
    BY <1>3, <1>4, <2>1 DEF Among
  <2>2. ASSUME NEW d \in Among(t, K) PROVE d \in Among(s, K)
    BY <1>3, <1>5, <2>2 DEF Among
  <2>3. Head(s).kind \in K => Head(s) \in Among(s, K)
    BY <1>3, <1>5 DEF Among
  <2> QED BY <2>1, <2>2, <2>3
<1>7. Two(s, K) => Two(t, K) \/ (Head(s).kind \in K /\ Among(t, K) # {})
  <2> SUFFICES ASSUME NEW i \in 1 .. Len(s), NEW j \in 1 .. Len(s), i < j,
                      s[i].kind \in K, s[j].kind \in K
               PROVE  Two(t, K) \/ (Head(s).kind \in K /\ Among(t, K) # {})
    BY DEF Two
  <2>1. j - 1 \in 1 .. Len(t) /\ t[j - 1] = s[j]
    BY <1>4
  <2>2. CASE i = 1
    BY <1>3, <2>1, <2>2 DEF Among
  <2>3. CASE i # 1
    <3>1. i - 1 \in 1 .. Len(t) /\ t[i - 1] = s[i] /\ i - 1 < j - 1
      BY <1>4, <2>3
    <3> QED BY <2>1, <3>1 DEF Two
  <2> QED BY <2>2, <2>3
<1>8. Two(t, K) => Two(s, K)
  <2> SUFFICES ASSUME NEW i \in 1 .. Len(t), NEW j \in 1 .. Len(t), i < j,
                      t[i].kind \in K, t[j].kind \in K
               PROVE  Two(s, K)
    BY DEF Two
  <2>1. i + 1 < j + 1
    OBVIOUS
  <2> QED BY <1>3, <1>5, <2>1 DEF Two
<1>9. Head(s).kind \in K /\ Among(t, K) # {} => Two(s, K)
  <2> SUFFICES ASSUME Head(s).kind \in K, NEW i \in 1 .. Len(t), t[i].kind \in K PROVE Two(s, K)
    BY DEF Among
  <2> QED BY <1>3, <1>5 DEF Two
<1> QED BY <1>1, <1>2, <1>6, <1>7, <1>8, <1>9 DEF IsSequence, t

\* Two sequences in a row.
LEMMA ConcatFacts ==
  ASSUME NEW s, IsSequence(s), NEW r, IsSequence(r), NEW K
  PROVE  /\ IsSequence(s \o r)
         /\ Among(s \o r, K) = Among(s, K) \cup Among(r, K)
         /\ Two(s \o r, K) => Two(s, K) \/ Two(r, K) \/ (Among(s, K) # {} /\ Among(r, K) # {})
         /\ Two(s, K) => Two(s \o r, K)
<1>1. PICK S : s \in Seq(S) /\ \A m \in S : HasKind(m)
  BY DEF IsSequence
<1>2. PICK R : r \in Seq(R) /\ \A m \in R : HasKind(m)
  BY DEF IsSequence
<1> DEFINE t == s \o r
<1>3. s \in Seq(S \cup R) /\ r \in Seq(S \cup R)
  BY <1>1, <1>2
<1>4. t \in Seq(S \cup R)
  BY <1>3
<1>5. /\ Len(s) \in Nat /\ Len(r) \in Nat /\ Len(t) = Len(s) + Len(r)
      /\ \A i \in 1 .. Len(s) : t[i] = s[i]
      /\ \A i \in 1 .. Len(t) : i \notin 1 .. Len(s) =>
           i - Len(s) \in 1 .. Len(r) /\ t[i] = r[i - Len(s)]
      /\ \A i \in 1 .. Len(r) : i + Len(s) \in 1 .. Len(t) /\ t[i + Len(s)] = r[i]
  BY <1>3
<1> HIDE DEF t
<1>6. \A i \in 1 .. Len(s) : i \in 1 .. Len(t)
  BY <1>5
<1>7. Among(t, K) = Among(s, K) \cup Among(r, K)
  <2>1. ASSUME NEW m \in Among(t, K) PROVE m \in Among(s, K) \cup Among(r, K)
    <3>1. PICK i \in 1 .. Len(t) : m = t[i] /\ t[i].kind \in K
      BY DEF Among
    <3>2. CASE i \in 1 .. Len(s)
      BY <1>5, <3>1, <3>2 DEF Among
    <3>3. CASE i \notin 1 .. Len(s)
      BY <1>5, <3>1, <3>3 DEF Among
    <3> QED BY <3>2, <3>3
  <2>2. ASSUME NEW m \in Among(s, K) PROVE m \in Among(t, K)
    BY <1>5, <1>6 DEF Among
  <2>3. ASSUME NEW m \in Among(r, K) PROVE m \in Among(t, K)
    BY <1>5 DEF Among
  <2> QED BY <2>1, <2>2, <2>3
<1>8. Two(t, K) => Two(s, K) \/ Two(r, K) \/ (Among(s, K) # {} /\ Among(r, K) # {})
  <2> SUFFICES ASSUME NEW i \in 1 .. Len(t), NEW j \in 1 .. Len(t), i < j,
                      t[i].kind \in K, t[j].kind \in K
               PROVE  Two(s, K) \/ Two(r, K) \/ (Among(s, K) # {} /\ Among(r, K) # {})
    BY DEF Two
  <2>1. CASE i \in 1 .. Len(s) /\ j \in 1 .. Len(s)
    BY <1>5, <2>1 DEF Two
  <2>2. CASE i \in 1 .. Len(s) /\ j \notin 1 .. Len(s)
    BY <1>5, <2>2 DEF Among
  <2>3. CASE i \notin 1 .. Len(s)
    <3>1. j \notin 1 .. Len(s) /\ i - Len(s) < j - Len(s)
      BY <1>5, <2>3
    <3> QED BY <1>5, <2>3, <3>1 DEF Two
  <2> QED BY <2>1, <2>2, <2>3
<1>9. Two(s, K) => Two(t, K)
  BY <1>5, <1>6 DEF Two
<1> QED BY <1>1, <1>2, <1>4, <1>7, <1>8, <1>9 DEF IsSequence, t

\* No message.
LEMMA EmptyFacts ==
  ASSUME NEW K PROVE IsSequence(<<>>) /\ Among(<<>>, K) = {} /\ ~Two(<<>>, K)
<1> DEFINE S == {}
           t == <<>>
<1>1. t \in Seq(S) /\ Len(t) = 0 /\ \A m \in S : HasKind(m)
  OBVIOUS
<1> HIDE DEF S, t
<1>2. IsSequence(t)
  BY <1>1 DEF IsSequence
<1>3. Among(t, K) = {} /\ ~Two(t, K)
  BY <1>1 DEF Among, Two
<1> QED BY <1>2, <1>3 DEF t

\* One message.
LEMMA SingleFacts ==
  ASSUME NEW a, HasKind(a), NEW K
  PROVE  /\ IsSequence(<<a>>)
         /\ Among(<<a>>, K) = {d \in {a} : d.kind \in K}
         /\ ~Two(<<a>>, K)
<1> DEFINE s == <<a>>
<1>1. s \in Seq({a}) /\ Len(s) = 1 /\ s[1] = a
  OBVIOUS
<1> HIDE DEF s
<1>2. 1 \in 1 .. 1 /\ \A i, j \in 1 .. 1 : i = 1 /\ ~(i < j)
  OBVIOUS
<1>3. Among(s, K) = {d \in {a} : d.kind \in K}
  BY <1>1, <1>2 DEF Among
<1>4. ~Two(s, K)
  BY <1>1, <1>2 DEF Two
<1> QED BY <1>1, <1>3, <1>4 DEF IsSequence, s

\* Two messages.
LEMMA PairFacts ==
  ASSUME NEW a, HasKind(a), NEW b, HasKind(b), NEW K
  PROVE  /\ IsSequence(<<a, b>>)
         /\ Among(<<a, b>>, K) = {d \in {a, b} : d.kind \in K}
         /\ Two(<<a, b>>, K) => a.kind \in K /\ b.kind \in K
<1> DEFINE s == <<a, b>>
<1>1. s \in Seq({a, b}) /\ Len(s) = 2 /\ s[1] = a /\ s[2] = b
  OBVIOUS
<1> HIDE DEF s
<1>2. \A i, j \in 1 .. 2 : (i = 1 \/ i = 2) /\ (i < j => i = 1 /\ j = 2)
  OBVIOUS
<1>3. 1 \in 1 .. 2 /\ 2 \in 1 .. 2
  OBVIOUS
<1>4. Among(s, K) = {d \in {a, b} : d.kind \in K}
  <2>1. ASSUME NEW m \in Among(s, K) PROVE m \in {a, b} /\ m.kind \in K
    BY <1>1, <1>2 DEF Among
  <2>2. ASSUME NEW m \in {a, b}, m.kind \in K PROVE m \in Among(s, K)
    <3>1. PICK i \in 1 .. Len(s) : s[i] = m
      BY <1>1, <1>3, <2>2
    <3>2. s[i].kind \in K
      BY <2>2, <3>1
    <3>3. s[i] \in Among(s, K)
      BY <3>2, AmongHas, Zenon
    <3> QED BY <3>1, <3>3
  <2> QED BY <2>1, <2>2
<1>5. Two(s, K) => a.kind \in K /\ b.kind \in K
  BY <1>1, <1>2 DEF Two
<1> QED BY <1>1, <1>4, <1>5 DEF IsSequence, s

-----------------------------------------------------------------------------
(* What moves the call stack                                                *)

\* The requests and the messages that move the debuggee, the call stack or the frame
\* in use.  Nobody asks for a stop.
MovingRequests == {"resume", "stackTrace", "gotoTargets", "goto", "stopped"}
MovingMessages == {"stopped", "stackTrace", "gotoTargets"}

Moving == Among(asked, MovingRequests)
Moved  == Among(inbox, MovingMessages)

\* At most one of them is on its way, none while the debuggee runs.
OneMoves ==
  /\ IsSequence(asked) /\ IsSequence(inbox)
  /\ ~Two(asked, MovingRequests) /\ ~Two(inbox, MovingMessages)
  /\ Moving = {} \/ Moved = {}
  /\ stop = 0 => Moving = {} /\ Moved = {}

\* A stack that is asked for is that of a thread, and has the frame that the user selected.
AskedFits ==
  \A m \in Moving :
    /\ m.kind # "stopped"
    /\ m.kind = "stackTrace" => m.arg \in Threads /\ user <= depth[m.arg]
    /\ m.kind = "goto" => m.arg \in Threads

IsStack(s) == s[1].thread \in Threads /\ Len(s) = depth[s[1].thread]

\* So has the stack that was answered.
AnsweredFits ==
  \A m \in Moved :
    /\ m.kind = "stackTrace" =>
         m.body.frames # <<>> /\ IsStack(m.body.frames) /\ user <= Len(m.body.frames)
    /\ m.kind = "stopped" => m.body \in Threads

\* What is displayed, once the stop is known, is the stack of a thread or nothing.
DisplayedFits ==
  stop # 0 /\ (\A m \in Moved : m.kind # "stopped") =>
    active \in Threads /\ (backtrace = <<>> \/ IsStack(backtrace))

Ranges ==
  /\ stop \in Nat /\ lastStop \in Nat
  /\ depth \in [Threads -> 1 .. MaxDepth]
  /\ active \in Threads \cup {None}
  /\ frame \in Nat /\ user \in Nat
  /\ frame <= Len(backtrace) /\ user <= Len(backtrace)
  /\ ~crashed

Calm == OneMoves /\ AskedFits /\ AnsweredFits /\ DisplayedFits /\ Ranges

RangeInv == disturbed \/ Calm

\* Steps that have nothing to do with it.
Drifts ==
  /\ UNCHANGED <<stop, lastStop, depth, active, backtrace, frame, user, crashed>>
  /\ Alike(asked, asked', MovingRequests)
  /\ Alike(inbox, inbox', MovingMessages)

\* They keep the invariant.
LEMMA DriftStep == Calm /\ Drifts => Calm'
<1> SUFFICES ASSUME Calm, Drifts PROVE Calm'
  OBVIOUS
<1>1. Moving' = Moving /\ Moved' = Moved
  BY DEF Drifts, Alike, Moving, Moved
<1>2. OneMoves'
  BY <1>1 DEF Calm, Drifts, OneMoves, Alike
<1>3. AskedFits' /\ AnsweredFits' /\ DisplayedFits' /\ Ranges'
  BY <1>1 DEF Calm, Drifts, AskedFits, AnsweredFits, DisplayedFits, IsStack, Ranges
<1> QED BY <1>2, <1>3 DEF Calm

\* A sequence is like itself.
LEMMA Unmoved == ASSUME Calm PROVE /\ Alike(asked, asked, MovingRequests)
                                   /\ Alike(inbox, inbox, MovingMessages)
BY DEF Calm, OneMoves, Alike

\* Requests and answers are records.
LEMMA RecordFacts ==
  /\ \A kind, arg, node, n :
       /\ HasKind(Request(kind, arg, node, n))
       /\ Request(kind, arg, node, n).kind = kind /\ Request(kind, arg, node, n).arg = arg
  /\ \A req, body :
       /\ HasKind(Answer(req, body))
       /\ Answer(req, body).kind = req.kind /\ Answer(req, body).body = body
BY DEF Request, Answer, HasKind

\* Requests that move nothing.
Idle(r) == IsSequence(r) /\ Among(r, MovingRequests) = {}

\* They add up, and asking them changes nothing.
LEMMA IdleFacts ==
  /\ Idle(<<>>)
  /\ \A a : HasKind(a) /\ a.kind \notin MovingRequests => Idle(<<a>>)
  /\ \A r, t : Idle(r) /\ Idle(t) => Idle(r \o t)
<1>1. Idle(<<>>)
  BY EmptyFacts DEF Idle
<1>2. ASSUME NEW a, HasKind(a), a.kind \notin MovingRequests PROVE Idle(<<a>>)
  <2>1. IsSequence(<<a>>) /\ Among(<<a>>, MovingRequests) = {d \in {a} : d.kind \in MovingRequests}
    BY <1>2, SingleFacts
  <2> QED BY <1>2, <2>1 DEF Idle
<1>3. ASSUME NEW r, NEW t, Idle(r), Idle(t) PROVE Idle(r \o t)
  BY <1>3, ConcatFacts DEF Idle
<1> QED BY <1>1, <1>2, <1>3

\* To ask for them.
LEMMA AskIdle ==
  ASSUME Calm, NEW r, Idle(r), Ask(r)
  PROVE  Alike(asked, asked', MovingRequests)
<1>1. asked' = asked \o r /\ IsSequence(asked) /\ IsSequence(r) /\ Among(r, MovingRequests) = {}
  BY DEF Ask, Calm, OneMoves, Idle
<1>2. ~Two(r, MovingRequests)
  BY <1>1 DEF Two, Among
<1> DEFINE t == asked \o r
<1>3. /\ IsSequence(t)
      /\ Among(t, MovingRequests) = Among(asked, MovingRequests) \cup Among(r, MovingRequests)
      /\ Two(t, MovingRequests) =>
           \/ Two(asked, MovingRequests) \/ Two(r, MovingRequests)
           \/ Among(asked, MovingRequests) # {} /\ Among(r, MovingRequests) # {}
      /\ Two(asked, MovingRequests) => Two(t, MovingRequests)
  BY <1>1, ConcatFacts
<1> HIDE DEF t
<1>4. Among(t, MovingRequests) = Among(asked, MovingRequests)
  BY <1>1, <1>3
<1>5. Alike(asked, t, MovingRequests)
  BY <1>1, <1>2, <1>3, <1>4 DEF Alike
<1> QED BY <1>1, <1>5 DEF t

\* A message is handled that moves nothing.
LEMMA HandledIdle ==
  ASSUME Calm, NEW k, k \notin MovingMessages, Handle(k)
  PROVE  Alike(inbox, inbox', MovingMessages)
<1>1. IsSequence(inbox) /\ inbox # <<>> /\ inbox' = Tail(inbox) /\ Head(inbox).kind = k
  BY DEF Calm, OneMoves, Handle
<1>2. /\ IsSequence(Tail(inbox))
      /\ Among(inbox, MovingMessages) =
           Among(Tail(inbox), MovingMessages) \cup {d \in {Head(inbox)} : d.kind \in MovingMessages}
      /\ Two(inbox, MovingMessages) <=>
           \/ Two(Tail(inbox), MovingMessages)
           \/ Head(inbox).kind \in MovingMessages /\ Among(Tail(inbox), MovingMessages) # {}
  BY <1>1, TailFacts
<1>3. Among(inbox, MovingMessages) = Among(Tail(inbox), MovingMessages)
  BY <1>1, <1>2
<1>4. Alike(inbox, Tail(inbox), MovingMessages)
  BY <1>1, <1>2, <1>3 DEF Alike
<1> QED BY <1>1, <1>4

\* One that moves something was the only one.
LEMMA HandledMover ==
  ASSUME Calm, NEW k \in MovingMessages, Handle(k)
  PROVE  /\ IsSequence(inbox') /\ Moved' = {} /\ ~Two(inbox', MovingMessages)
         /\ Head(inbox) \in Moved /\ Head(inbox).kind = k
         /\ Moving = {} /\ stop # 0
<1>1. IsSequence(inbox) /\ inbox # <<>> /\ inbox' = Tail(inbox) /\ Head(inbox).kind = k
  BY DEF Calm, OneMoves, Handle
<1>2. /\ IsSequence(Tail(inbox))
      /\ Among(inbox, MovingMessages) =
           Among(Tail(inbox), MovingMessages) \cup {d \in {Head(inbox)} : d.kind \in MovingMessages}
      /\ Two(inbox, MovingMessages) <=>
           \/ Two(Tail(inbox), MovingMessages)
           \/ Head(inbox).kind \in MovingMessages /\ Among(Tail(inbox), MovingMessages) # {}
  BY <1>1, TailFacts
<1>3. Head(inbox) \in Moved
  BY <1>1, <1>2 DEF Moved
<1>4. /\ ~Two(inbox, MovingMessages)
      /\ Moving = {} /\ stop # 0
  BY <1>3 DEF Calm, OneMoves
<1>5. Among(Tail(inbox), MovingMessages) = {} /\ ~Two(Tail(inbox), MovingMessages)
  BY <1>1, <1>2, <1>4
<1> QED BY <1>1, <1>2, <1>3, <1>4, <1>5 DEF Moved

\* The adapter takes a request that moves nothing.
LEMMA TakenIdle ==
  ASSUME Calm, asked # <<>>, asked' = Tail(asked), Head(asked).kind \notin MovingRequests
  PROVE  Alike(asked, asked', MovingRequests)
<1>1. IsSequence(asked)
  BY DEF Calm, OneMoves
<1>2. /\ IsSequence(Tail(asked))
      /\ Among(asked, MovingRequests) =
           Among(Tail(asked), MovingRequests) \cup {d \in {Head(asked)} : d.kind \in MovingRequests}
      /\ Two(asked, MovingRequests) <=>
           \/ Two(Tail(asked), MovingRequests)
           \/ Head(asked).kind \in MovingRequests /\ Among(Tail(asked), MovingRequests) # {}
  BY <1>1, TailFacts
<1>3. Among(asked, MovingRequests) = Among(Tail(asked), MovingRequests)
  BY <1>2
<1>4. Alike(asked, Tail(asked), MovingRequests)
  BY <1>2, <1>3 DEF Alike
<1> QED BY <1>4

\* The one that moves something was the only one.
LEMMA TakenMover ==
  ASSUME Calm, asked # <<>>, asked' = Tail(asked), Head(asked).kind \in MovingRequests
  PROVE  /\ IsSequence(asked') /\ Moving' = {} /\ ~Two(asked', MovingRequests)
         /\ Head(asked) \in Moving /\ Moved = {} /\ stop # 0
<1>1. IsSequence(asked)
  BY DEF Calm, OneMoves
<1>2. /\ IsSequence(Tail(asked))
      /\ Among(asked, MovingRequests) =
           Among(Tail(asked), MovingRequests) \cup {d \in {Head(asked)} : d.kind \in MovingRequests}
      /\ Two(asked, MovingRequests) <=>
           \/ Two(Tail(asked), MovingRequests)
           \/ Head(asked).kind \in MovingRequests /\ Among(Tail(asked), MovingRequests) # {}
  BY <1>1, TailFacts
<1>3. Head(asked) \in Moving
  BY <1>2 DEF Moving
<1>4. ~Two(asked, MovingRequests) /\ Moved = {} /\ stop # 0
  BY <1>3 DEF Calm, OneMoves
<1>5. Among(Tail(asked), MovingRequests) = {} /\ ~Two(Tail(asked), MovingRequests)
  BY <1>2, <1>4
<1> QED BY <1>2, <1>3, <1>4, <1>5 DEF Moving

\* The first request that moves something.
LEMMA AskMover ==
  ASSUME Calm, Moving = {}, NEW m, HasKind(m), Ask(<<m>>)
  PROVE  /\ IsSequence(asked') /\ ~Two(asked', MovingRequests)
         /\ Moving' = {d \in {m} : d.kind \in MovingRequests}
<1>1. /\ asked' = asked \o <<m>> /\ IsSequence(asked) /\ ~Two(asked, MovingRequests)
      /\ Among(asked, MovingRequests) = {}
  BY DEF Ask, Calm, OneMoves, Moving
<1>2. /\ IsSequence(<<m>>) /\ ~Two(<<m>>, MovingRequests)
      /\ Among(<<m>>, MovingRequests) = {d \in {m} : d.kind \in MovingRequests}
  BY SingleFacts
<1> DEFINE r == <<m>>
<1> HIDE DEF r
<1>3. /\ IsSequence(asked \o r)
      /\ Among(asked \o r, MovingRequests) = Among(asked, MovingRequests) \cup Among(r, MovingRequests)
      /\ Two(asked \o r, MovingRequests) =>
           \/ Two(asked, MovingRequests) \/ Two(r, MovingRequests)
           \/ Among(asked, MovingRequests) # {} /\ Among(r, MovingRequests) # {}
  BY <1>1, <1>2, ConcatFacts DEF r
<1> QED BY <1>1, <1>2, <1>3 DEF Moving, r

\* The first message that moves something.
LEMMA AppendMover ==
  ASSUME Calm, Moved = {}, NEW m, HasKind(m), inbox' = Append(inbox, m)
  PROVE  /\ IsSequence(inbox') /\ ~Two(inbox', MovingMessages)
         /\ Moved' = {d \in {m} : d.kind \in MovingMessages}
<1>1. /\ IsSequence(inbox) /\ ~Two(inbox, MovingMessages) /\ Among(inbox, MovingMessages) = {}
  BY DEF Calm, OneMoves, Moved
<1> DEFINE t == Append(inbox, m)
<1>2. /\ IsSequence(t)
      /\ Among(t, MovingMessages) =
           Among(inbox, MovingMessages) \cup {d \in {m} : d.kind \in MovingMessages}
      /\ Two(t, MovingMessages) <=>
           Two(inbox, MovingMessages) \/ (m.kind \in MovingMessages /\ Among(inbox, MovingMessages) # {})
  BY <1>1, AppendFacts
<1> HIDE DEF t
<1> QED BY <1>1, <1>2 DEF Moved, t

\* A message that moves nothing is added.
LEMMA AppendIdle ==
  ASSUME Calm, NEW m, HasKind(m), m.kind \notin MovingMessages, inbox' = Append(inbox, m)
  PROVE  Alike(inbox, inbox', MovingMessages)
<1>1. IsSequence(inbox)
  BY DEF Calm, OneMoves
<1> DEFINE t == Append(inbox, m)
<1>2. /\ IsSequence(t)
      /\ Among(t, MovingMessages) =
           Among(inbox, MovingMessages) \cup {d \in {m} : d.kind \in MovingMessages}
      /\ Two(t, MovingMessages) <=>
           Two(inbox, MovingMessages) \/ (m.kind \in MovingMessages /\ Among(inbox, MovingMessages) # {})
  BY <1>1, AppendFacts
<1> HIDE DEF t
<1>3. Among(t, MovingMessages) = Among(inbox, MovingMessages)
  BY <1>2
<1>4. Alike(inbox, t, MovingMessages)
  BY <1>2, <1>3 DEF Alike
<1> QED BY <1>4 DEF t

-----------------------------------------------------------------------------
(* The debuggee and its adapter                                             *)

\* The depths change with nothing under way, and nothing is displayed as known.
LEMMA AdapterStopsStep == ASSUME Calm, AdapterStops PROVE Calm'
<1>1. Moving = {} /\ Moved = {}
  BY DEF Calm, OneMoves, AdapterStops
<1>2. PICK t \in Threads :
        inbox' = Append(inbox, [kind |-> "stopped", body |-> t, node |-> Nobody, seq |-> 0])
  BY DEF AdapterStops
<1> DEFINE m == [kind |-> "stopped", body |-> t, node |-> Nobody, seq |-> 0]
<1>3. /\ IsSequence(inbox') /\ ~Two(inbox', MovingMessages)
      /\ Moved' = {d \in {m} : d.kind \in MovingMessages}
  BY <1>1, <1>2, AppendMover DEF HasKind
<1>4. Moved' = {m}
  BY <1>3 DEF MovingMessages
<1>5. asked' = asked /\ Moving' = {}
  BY <1>1 DEF AdapterStops, Moving
<1>6. stop' \in Nat /\ stop' # 0 /\ lastStop' \in Nat
  BY DEF Calm, Ranges, AdapterStops
<1>7. OneMoves'
  BY <1>3, <1>5, <1>6 DEF Calm, OneMoves
<1>8. AskedFits' /\ AnsweredFits' /\ DisplayedFits'
  BY <1>4, <1>5 DEF AskedFits, AnsweredFits, DisplayedFits
<1>9. Ranges'
  BY <1>6 DEF Calm, Ranges, AdapterStops, frames, ghosts
<1> QED BY <1>7, <1>8, <1>9 DEF Calm

\* The goto was the only request that moves something.
LEMMA AdapterGoesStep == ASSUME Calm, AdapterGoes PROVE Calm'
<1>1. asked # <<>> /\ asked' = Tail(asked) /\ Head(asked).kind = "goto" /\ stop # 0
  BY DEF AdapterGoes
<1>2. /\ IsSequence(asked') /\ Moving' = {} /\ ~Two(asked', MovingRequests)
      /\ Head(asked) \in Moving /\ Moved = {}
  BY <1>1, TakenMover DEF MovingRequests
<1>3. Head(asked).arg \in Threads
  BY <1>1, <1>2 DEF Calm, AskedFits
<1> DEFINE m == [kind |-> "stopped", body |-> Head(asked).arg, node |-> Nobody, seq |-> 0]
<1>4. /\ IsSequence(inbox') /\ ~Two(inbox', MovingMessages)
      /\ Moved' = {d \in {m} : d.kind \in MovingMessages}
  BY <1>2, AppendMover DEF AdapterGoes, HasKind
<1>5. Moved' = {m}
  BY <1>4 DEF MovingMessages
<1>6. stop' \in Nat /\ stop' # 0 /\ lastStop' \in Nat
  BY DEF Calm, Ranges, AdapterGoes
<1>7. OneMoves'
  BY <1>2, <1>4, <1>6 DEF OneMoves
<1>8. AskedFits' /\ AnsweredFits' /\ DisplayedFits'
  BY <1>2, <1>3, <1>5 DEF AskedFits, AnsweredFits, DisplayedFits
<1>9. Ranges'
  BY <1>6 DEF Calm, Ranges, AdapterGoes, frames, ghosts
<1> QED BY <1>7, <1>8, <1>9 DEF Calm

\* The stack that is answered is that of the thread that was asked for.
LEMMA StackBody ==
  ASSUME Calm, stop # 0, NEW m \in Moving, m.kind = "stackTrace", NEW body \in Bodies(m)
  PROVE  body.frames # <<>> /\ IsStack(body.frames) /\ user <= Len(body.frames)
<1>1. m.arg \in Threads /\ user <= depth[m.arg] /\ m.arg # None
  BY InspectAssumption DEF Calm, AskedFits
<1>2. depth[m.arg] \in Nat /\ depth[m.arg] >= 1
  BY <1>1, InspectAssumption DEF Calm, Ranges
<1> DEFINE s == [i \in 1 .. depth[m.arg] |-> Frame(m.arg, i)]
<1>3. body = [frames |-> s, source |-> source]
  BY <1>1 DEF Bodies
<1>4. body.frames = s
  BY <1>3
<1>5. s \in Seq({Frame(m.arg, i) : i \in 1 .. depth[m.arg]}) /\ Len(s) = depth[m.arg]
  BY <1>2
<1>6. s[1] = Frame(m.arg, 1) /\ s # <<>>
  BY <1>2, <1>5
<1>7. s[1].thread = m.arg
  BY <1>6 DEF Frame
<1> HIDE DEF s
<1> QED BY <1>1, <1>4, <1>5, <1>6, <1>7 DEF IsStack

\* What is answered moves something only when what was asked does.
LEMMA AdapterAnswersStep == ASSUME Calm, AdapterAnswers PROVE Calm'
<1> DEFINE req == Head(asked)
<1>1. asked # <<>> /\ asked' = Tail(asked)
  BY DEF AdapterAnswers
<1>2. UNCHANGED <<lastStop, depth, active, backtrace, frame, user, crashed>>
  BY DEF AdapterAnswers, frames
<1>3. CASE req.kind = "resume"
  <2>1. stop' = 0 /\ inbox' = inbox
    BY <1>3 DEF AdapterAnswers
  <2>2. IsSequence(asked') /\ Moving' = {} /\ ~Two(asked', MovingRequests) /\ Moved = {}
    BY <1>1, <1>3, TakenMover DEF MovingRequests
  <2>3. Moved' = {}
    BY <2>1, <2>2 DEF Moved
  <2>4. OneMoves'
    BY <2>1, <2>2, <2>3 DEF Calm, OneMoves
  <2>5. AskedFits' /\ AnsweredFits' /\ DisplayedFits'
    BY <2>1, <2>2, <2>3 DEF AskedFits, AnsweredFits, DisplayedFits
  <2>6. Ranges'
    BY <1>2, <2>1 DEF Calm, Ranges
  <2> QED BY <2>4, <2>5, <2>6 DEF Calm
<1>4. CASE req.kind # "resume" /\ req.kind \in MovingRequests
  <2>1. PICK body \in Bodies(req) : inbox' = Append(inbox, Answer(req, body))
    BY <1>4 DEF AdapterAnswers
  <2>2. stop' = stop
    BY <1>4 DEF AdapterAnswers
  <2>3. /\ IsSequence(asked') /\ Moving' = {} /\ ~Two(asked', MovingRequests)
        /\ req \in Moving /\ Moved = {} /\ stop # 0
    BY <1>1, <1>4, TakenMover
  <2> DEFINE m == Answer(req, body)
  <2>4. HasKind(m) /\ m.kind = req.kind /\ m.body = body /\ m.kind # "stopped"
    BY <2>3, RecordFacts DEF Calm, AskedFits
  <2>5. /\ IsSequence(inbox') /\ ~Two(inbox', MovingMessages)
        /\ Moved' = {d \in {m} : d.kind \in MovingMessages}
    BY <2>1, <2>3, <2>4, AppendMover
  <2> HIDE DEF m
  <2>6. OneMoves'
    BY <2>2, <2>3, <2>5 DEF OneMoves
  <2>7. AskedFits'
    BY <2>3 DEF AskedFits
  <2>8. AnsweredFits'
    <3>1. m.kind = "stackTrace" =>
            body.frames # <<>> /\ IsStack(body.frames) /\ user <= Len(body.frames)
      BY <2>1, <2>3, <2>4, StackBody
    <3> QED BY <1>2, <2>4, <2>5, <3>1 DEF AnsweredFits, IsStack
  <2>9. DisplayedFits'
    BY <1>2, <2>2, <2>3 DEF Calm, DisplayedFits, IsStack
  <2>10. Ranges'
    BY <1>2, <2>2 DEF Calm, Ranges
  <2> QED BY <2>6, <2>7, <2>8, <2>9, <2>10 DEF Calm
<1>5. CASE req.kind \notin MovingRequests
  <2>1. req.kind # "resume" /\ req.kind \notin MovingMessages
    BY <1>5 DEF MovingRequests, MovingMessages
  <2>2. PICK body \in Bodies(req) : inbox' = Append(inbox, Answer(req, body))
    BY <2>1 DEF AdapterAnswers
  <2>3. stop' = stop
    BY <2>1 DEF AdapterAnswers
  <2>4. HasKind(Answer(req, body)) /\ Answer(req, body).kind = req.kind
    BY RecordFacts
  <2>5. Alike(inbox, inbox', MovingMessages)
    BY <2>1, <2>2, <2>4, AppendIdle
  <2>6. Alike(asked, asked', MovingRequests)
    BY <1>1, <1>5, TakenIdle
  <2> QED BY <1>2, <2>3, <2>5, <2>6, DriftStep DEF Drifts
<1> QED BY <1>3, <1>4, <1>5

-----------------------------------------------------------------------------
(* The handlers                                                             *)

\* OnStopped asks for the stack of the thread that stopped, with no frame selected.
LEMMA OnStoppedStep == ASSUME Calm, OnStopped PROVE Calm'
<1>1. /\ IsSequence(inbox') /\ Moved' = {} /\ ~Two(inbox', MovingMessages)
      /\ Head(inbox) \in Moved /\ Head(inbox).kind = "stopped"
      /\ Moving = {} /\ stop # 0
  BY HandledMover DEF OnStopped, MovingMessages
<1>2. active' = Head(inbox).body /\ active' \in Threads
  BY <1>1 DEF OnStopped, Calm, AnsweredFits
<1>3. backtrace' = <<>> /\ frame' = 0 /\ user' = 0 /\ Len(<<>>) = 0
  BY DEF OnStopped
<1>4. UNCHANGED <<stop, lastStop, depth, crashed>>
  BY DEF OnStopped, adapter, ghosts
<1> DEFINE m == Request("stackTrace", active', Nobody, seq)
           n == Request("threads", None, Nobody, seq + 1)
           r == <<m, n>>
<1>5. /\ m.kind = "stackTrace" /\ m.arg = active' /\ n.kind = "threads"
      /\ HasKind(m) /\ HasKind(n)
  BY RecordFacts
<1>6. asked' = asked \o r
  BY DEF OnStopped, Ask
<1> HIDE DEF m, n
<1>7. /\ IsSequence(r) /\ Among(r, MovingRequests) = {d \in {m, n} : d.kind \in MovingRequests}
      /\ Two(r, MovingRequests) => m.kind \in MovingRequests /\ n.kind \in MovingRequests
  BY <1>5, PairFacts
<1>8. Among(r, MovingRequests) = {m} /\ ~Two(r, MovingRequests)
  BY <1>5, <1>7 DEF MovingRequests
<1> HIDE DEF r
<1>9. IsSequence(asked) /\ Among(asked, MovingRequests) = {} /\ ~Two(asked, MovingRequests)
  BY <1>1 DEF Calm, OneMoves, Moving
<1>10. /\ IsSequence(asked \o r)
       /\ Among(asked \o r, MovingRequests) = Among(asked, MovingRequests) \cup Among(r, MovingRequests)
       /\ Two(asked \o r, MovingRequests) =>
            \/ Two(asked, MovingRequests) \/ Two(r, MovingRequests)
            \/ Among(asked, MovingRequests) # {} /\ Among(r, MovingRequests) # {}
  BY <1>7, <1>9, ConcatFacts
<1>11. Moving' = {m} /\ IsSequence(asked') /\ ~Two(asked', MovingRequests)
  BY <1>6, <1>8, <1>9, <1>10 DEF Moving
<1>12. OneMoves'
  BY <1>1, <1>4, <1>11 DEF OneMoves
<1>13. AskedFits'
  <2>1. depth'[active'] \in Nat
    BY <1>2, <1>4, InspectAssumption DEF Calm, Ranges
  <2> QED BY <1>2, <1>3, <1>5, <1>11, <2>1 DEF AskedFits
<1>14. AnsweredFits' /\ DisplayedFits'
  BY <1>1, <1>2, <1>3 DEF AnsweredFits, DisplayedFits
<1>15. Ranges'
  BY <1>2, <1>3, <1>4 DEF Calm, Ranges
<1> QED BY <1>12, <1>13, <1>14, <1>15 DEF Calm

\* OnStackTrace takes over a stack that has the frame it selects.
LEMMA OnStackTraceStep == ASSUME Calm, OnStackTrace PROVE Calm'
<1> DEFINE body == Head(inbox).body
<1>1. /\ IsSequence(inbox') /\ Moved' = {} /\ ~Two(inbox', MovingMessages)
      /\ Head(inbox) \in Moved /\ Head(inbox).kind = "stackTrace"
      /\ Moving = {} /\ stop # 0
  BY HandledMover DEF OnStackTrace, MovingMessages
<1>2. body.frames # <<>> /\ IsStack(body.frames) /\ user <= Len(body.frames)
  BY <1>1 DEF Calm, AnsweredFits
<1>3. Len(body.frames) \in Nat /\ Len(body.frames) >= 1
  BY <1>2, InspectAssumption DEF IsStack, Calm, Ranges
<1>4. active \in Threads
  <2>1. \A m \in Moved : m = Head(inbox)
    <3>1. IsSequence(inbox) /\ inbox # <<>> /\ inbox' = Tail(inbox)
      BY DEF Calm, OneMoves, OnStackTrace, Handle
    <3>2. Among(inbox, MovingMessages) = Among(Tail(inbox), MovingMessages) \cup
            {d \in {Head(inbox)} : d.kind \in MovingMessages}
      BY <3>1, TailFacts
    <3> QED BY <1>1, <3>1, <3>2 DEF Moved
  <2> QED BY <1>1, <2>1 DEF Calm, DisplayedFits
<1>5. /\ backtrace' = body.frames /\ frame' \in Nat /\ user' \in Nat
      /\ frame' <= Len(body.frames) /\ user' <= Len(body.frames) /\ ~crashed'
  <2> DEFINE index == IF user = 0 THEN 1 ELSE user
  <2>1. /\ backtrace' = body.frames
        /\ frame' = index /\ user' = (IF index > 1 THEN index ELSE user)
        /\ crashed' = (index > Len(body.frames))
    BY <1>2 DEF OnStackTrace
  <2>2. user \in Nat
    BY DEF Calm, Ranges
  <2>3. index \in Nat /\ index <= Len(body.frames)
    BY <1>2, <1>3, <2>2
  <2> HIDE DEF index, body
  <2>4. ~(index > Len(body.frames))
    BY <1>3, <2>3
  <2> QED BY <1>2, <2>1, <2>2, <2>3, <2>4
<1>6. UNCHANGED <<stop, lastStop, depth, active>>
  BY DEF OnStackTrace, adapter
<1>7. Idle(ScopesOf(body, seq))
  BY IdleFacts, RecordFacts DEF ScopesOf, MovingRequests
<1>8. Alike(asked, asked', MovingRequests)
  BY <1>7, AskIdle DEF OnStackTrace
<1>9. Moving' = {} /\ IsSequence(asked') /\ ~Two(asked', MovingRequests)
  BY <1>1, <1>8 DEF Alike, Moving, Calm, OneMoves
<1>10. OneMoves'
  BY <1>1, <1>6, <1>9 DEF OneMoves
<1>11. AskedFits' /\ AnsweredFits'
  BY <1>1, <1>9 DEF AskedFits, AnsweredFits
<1>12. DisplayedFits'
  BY <1>2, <1>4, <1>5, <1>6 DEF DisplayedFits, IsStack
<1>13. Ranges'
  BY <1>5, <1>6 DEF Calm, Ranges
<1> QED BY <1>10, <1>11, <1>12, <1>13 DEF Calm

\* OnGotoTargetsResponse asks to go to one of them, or does not.
LEMMA OnGotoTargetsStep == ASSUME Calm, OnGotoTargets PROVE Calm'
<1>1. /\ IsSequence(inbox') /\ Moved' = {} /\ ~Two(inbox', MovingMessages)
      /\ Moving = {} /\ stop # 0
  BY HandledMover DEF OnGotoTargets, MovingMessages
<1>2. UNCHANGED <<stop, lastStop, depth, active, backtrace, frame, user, crashed>>
  BY DEF OnGotoTargets, adapter, frames, ghosts
<1>3. /\ IsSequence(asked') /\ ~Two(asked', MovingRequests)
      /\ \A m \in Moving' : m.kind = "goto" /\ m.arg \in Threads
  <2>1. CASE Ask(<<>>)
    <3>1. Alike(asked, asked', MovingRequests)
      BY <2>1, AskIdle, IdleFacts
    <3> QED BY <1>1, <3>1 DEF Alike, Moving, Calm, OneMoves
  <2>2. CASE active # None /\ Ask(<<Request("goto", active, Nobody, seq)>>)
    <3> DEFINE m == Request("goto", active, Nobody, seq)
    <3>1. HasKind(m) /\ m.kind = "goto" /\ m.arg = active /\ active \in Threads
      BY <2>2, RecordFacts DEF Calm, Ranges
    <3> HIDE DEF m
    <3>2. /\ IsSequence(asked') /\ ~Two(asked', MovingRequests)
          /\ Moving' = {d \in {m} : d.kind \in MovingRequests}
      BY <1>1, <2>2, <3>1, AskMover DEF m
    <3> QED BY <3>1, <3>2
  <2>3. Ask(<<>>) \/ (active # None /\ Ask(<<Request("goto", active, Nobody, seq)>>))
    BY DEF OnGotoTargets
  <2> QED BY <2>1, <2>2, <2>3
<1>4. OneMoves'
  BY <1>1, <1>2, <1>3 DEF OneMoves
<1>5. AskedFits'
  BY <1>3 DEF AskedFits
<1>6. AnsweredFits'
  BY <1>1 DEF AnsweredFits
<1>7. DisplayedFits'
  <2>1. \A m \in Moved : m.kind # "stopped"
    <3>1. IsSequence(inbox) /\ inbox # <<>> /\ inbox' = Tail(inbox) /\ Head(inbox).kind = "gotoTargets"
      BY DEF Calm, OneMoves, OnGotoTargets, Handle
    <3>2. Among(inbox, MovingMessages) = Among(Tail(inbox), MovingMessages) \cup
            {d \in {Head(inbox)} : d.kind \in MovingMessages}
      BY <3>1, TailFacts
    <3> QED BY <1>1, <3>1, <3>2 DEF Moved
  <2> QED BY <1>1, <1>2, <2>1 DEF Calm, DisplayedFits, IsStack
<1>8. Ranges'
  BY <1>2 DEF Calm, Ranges
<1> QED BY <1>4, <1>5, <1>6, <1>7, <1>8 DEF Calm

\* What is asked about the frame in use moves nothing.
LEMMA RequestsIdle ==
  /\ \A kind, node, n : kind \notin MovingRequests => Idle(AskFrame(kind, node, n))
  /\ \A n : Idle(Refresh(n))
  /\ \A node, n : Idle(UpdateRequests(node, n))
<1>1. ASSUME NEW kind, NEW node, NEW n, kind \notin MovingRequests
      PROVE  Idle(AskFrame(kind, node, n))
  <2>1. LET m == Request(kind, backtrace[frame], node, n) IN HasKind(m) /\ m.kind = kind
    BY RecordFacts
  <2> QED BY <1>1, <2>1, IdleFacts DEF AskFrame
<1>2. ASSUME NEW n PROVE Idle(Refresh(n))
  <2> DEFINE code == IF DisassemblyShown THEN AskFrame("disassemble", Nobody, n) ELSE <<>>
             data == IF MemoryShown THEN AskFrame("memory", Nobody, n + Len(code)) ELSE <<>>
  <2>1. Idle(code)
    BY <1>1, IdleFacts DEF MovingRequests
  <2>2. Idle(data)
    BY <1>1, IdleFacts DEF MovingRequests
  <2>3. Refresh(n) = code \o data
    BY DEF Refresh
  <2> HIDE DEF code, data
  <2> QED BY <2>1, <2>2, <2>3, IdleFacts
<1>3. ASSUME NEW node, NEW n PROVE Idle(UpdateRequests(node, n))
  <2>1. LET m == Request("info", None, Nobody, n) IN HasKind(m) /\ m.kind \notin MovingRequests
    BY RecordFacts DEF MovingRequests
  <2>2. Idle(<<Request("info", None, Nobody, n)>>)
    BY <2>1, IdleFacts
  <2>3. Idle(AskFrame("evaluate", <<node.name>>, n + 1))
    BY <1>1 DEF MovingRequests
  <2> QED BY <2>2, <2>3, IdleFacts DEF UpdateRequests
<1> QED BY <1>1, <1>2, <1>3

\* The handlers of what is displayed.
LEMMA OnScopesStep == ASSUME Calm, OnScopes PROVE Drifts
<1> DEFINE f == Head(inbox).body
           r == <<Request("variables", Variable(f, "Locals"), Nobody, seq)>>
           t == IF RegistersShown
                THEN <<Request("variables", Variable(f, "Registers"), Nobody, seq + 1)>> ELSE <<>>
<1>1. \A arg, n : LET m == Request("variables", arg, Nobody, n)
                  IN  HasKind(m) /\ m.kind \notin MovingRequests
  BY RecordFacts DEF MovingRequests
<1>2. Idle(r) /\ Idle(t)
  BY <1>1, IdleFacts
<1>3. Ask(IF f = None THEN <<>> ELSE r \o t)
  BY DEF OnScopes
<1> HIDE DEF r, t
<1>4. Alike(asked, asked', MovingRequests)
  BY <1>2, <1>3, IdleFacts, AskIdle
<1>5. Alike(inbox, inbox', MovingMessages)
  BY HandledIdle DEF OnScopes, MovingMessages
<1> QED BY <1>4, <1>5 DEF OnScopes, Drifts, adapter, frames, ghosts

\* OnVariables, for the watches or for the registers.
LEMMA OnVariablesStep == ASSUME Calm, OnVariables PROVE Drifts
<1>1. Alike(inbox, inbox', MovingMessages)
  BY HandledIdle DEF OnVariables, MovingMessages
<1> DEFINE vs == Head(inbox).body
<1>2. Alike(asked, asked', MovingRequests)
  <2>1. CASE asked' = asked
    BY <2>1, Unmoved
  <2>2. CASE AskRegisters(vs[1])
    <3>1. LET m == Request("variables", vs[1], Nobody, seq)
          IN  HasKind(m) /\ m.kind \notin MovingRequests
      BY RecordFacts DEF MovingRequests
    <3> QED BY <2>2, <3>1, IdleFacts, AskIdle DEF AskRegisters
  <2>3. CASE CheckWatches(vs, Head(inbox).seq)
    BY <2>3, RequestsIdle, AskIdle DEF CheckWatches
  <2> QED BY <2>1, <2>2, <2>3 DEF OnVariables, ShowRegisters
<1> QED BY <1>1, <1>2 DEF OnVariables, Drifts, adapter, frames, ghosts

\* An evaluation, the memory, and what is only shown.
LEMMA OnOthersStep ==
  ASSUME Calm, OnEvaluate \/ OnMemory \/ OnDisassemble \/ OnOther PROVE Drifts
<1>1. CASE OnEvaluate
  <2>1. Alike(inbox, inbox', MovingMessages)
    BY <1>1, HandledIdle DEF OnEvaluate, MovingMessages
  <2>2. asked' = asked \/ Ask(Refresh(seq))
    BY <1>1 DEF OnEvaluate
  <2>3. Alike(asked, asked', MovingRequests)
    BY <2>2, Unmoved, RequestsIdle, AskIdle
  <2> QED BY <1>1, <2>1, <2>3 DEF OnEvaluate, Drifts, adapter, frames, ghosts
<1>2. CASE OnMemory
  <2>1. Alike(inbox, inbox', MovingMessages)
    BY <1>2, HandledIdle DEF OnMemory, MovingMessages
  <2> QED BY <1>2, <2>1, Unmoved DEF OnMemory, Drifts, adapter, frames, ghosts
<1>3. CASE OnDisassemble
  <2>1. Alike(inbox, inbox', MovingMessages)
    BY <1>3, HandledIdle DEF OnDisassemble, MovingMessages
  <2> QED BY <1>3, <2>1, Unmoved DEF OnDisassemble, Drifts, adapter, frames, ghosts
<1>4. CASE OnOther
  <2>1. Alike(inbox, inbox', MovingMessages)
    BY <1>4, HandledIdle DEF OnOther, MovingMessages
  <2> QED BY <1>4, <2>1, Unmoved DEF OnOther, Drifts, adapter, frames, ghosts
<1> QED BY <1>1, <1>2, <1>3, <1>4

-----------------------------------------------------------------------------
(* The user                                                                 *)

\* A deleted watch is forgotten by evaluations only.
LEMMA ForgetFacts ==
  ASSUME NEW s, IsSequence(s), NEW w, NEW K, "evaluate" \notin K
  PROVE  Alike(s, Forget(s, w), K)
<1> DEFINE t == Forget(s, w)
<1>1. PICK S : s \in Seq(S) /\ \A m \in S : HasKind(m)
  BY DEF IsSequence
<1>2. /\ Len(s) \in Nat /\ DOMAIN s = 1 .. Len(s)
      /\ \A i \in 1 .. Len(s) : HasKind(s[i])
  BY <1>1
<1>3. \A i \in 1 .. Len(s) :
        t[i] = IF s[i].kind = "evaluate" /\ s[i].node = <<w>>
               THEN [s[i] EXCEPT !.node = Nobody] ELSE s[i]
  BY <1>2 DEF Forget
<1>4. t \in Seq({t[i] : i \in 1 .. Len(s)}) /\ Len(t) = Len(s)
  BY <1>2 DEF Forget
<1> HIDE DEF t
<1>5. \A i \in 1 .. Len(s) : HasKind(t[i]) /\ t[i].kind = s[i].kind
  BY <1>2, <1>3 DEF HasKind
<1>6. \A i \in 1 .. Len(s) : s[i].kind \in K => t[i] = s[i]
  BY <1>3
<1>7. IsSequence(t)
  <2>1. \A m \in {t[i] : i \in 1 .. Len(s)} : HasKind(m)
    BY <1>5
  <2> QED BY <1>4, <2>1 DEF IsSequence
<1>8. Among(t, K) = Among(s, K)
  BY <1>4, <1>5, <1>6 DEF Among
<1>9. Two(t, K) <=> Two(s, K)
  BY <1>4, <1>5 DEF Two
<1> QED BY <1>7, <1>8, <1>9 DEF Alike, t

\* Acts that ask for something to display.
LEMMA LookStep ==
  ASSUME Calm,
         \/ UpdateRegisters \/ Tooltip \/ SendCommand \/ ExamineMemory
         \/ \E w : UpdateWatch(w) \/ AddWatch(w)
  PROVE  Drifts
<1>1. asked' = asked \/ \E r : Idle(r) /\ Ask(r)
  <2>1. \A node, n : /\ Idle(AskFrame("scopes", node, n)) /\ Idle(AskFrame("text", node, n))
                     /\ Idle(AskFrame("memory", node, n))
    BY RequestsIdle DEF MovingRequests
  <2>2. CASE UpdateRegisters
    BY <2>1, <2>2 DEF UpdateRegisters
  <2>3. CASE Tooltip \/ SendCommand \/ ExamineMemory
    BY <2>1, <2>3 DEF Tooltip, SendCommand, ExamineMemory, AskAbout
  <2>4. ASSUME NEW w, UpdateWatch(w) PROVE \E r : Idle(r) /\ Ask(r)
    BY <2>4, RequestsIdle DEF UpdateWatch
  <2>5. ASSUME NEW w, AddWatch(w) PROVE asked' = asked \/ \E r : Idle(r) /\ Ask(r)
    BY <2>5, RequestsIdle DEF AddWatch
  <2> QED BY <2>2, <2>3, <2>4, <2>5
<1>2. Alike(asked, asked', MovingRequests)
  BY <1>1, AskIdle, Unmoved
<1>3. UNCHANGED <<stop, lastStop, depth, active, backtrace, frame, user, crashed, inbox>>
  BY DEF UpdateRegisters, Tooltip, SendCommand, ExamineMemory, AskAbout, UpdateWatch, AddWatch,
         adapter, frames
<1> QED BY <1>2, <1>3, Unmoved DEF Drifts

\* Acts on a watch, or on a child of one.
LEMMA WatchStep ==
  ASSUME Calm, NEW w, DeleteWatch(w) \/ ExpandWatch(w) \/ \E k : ExpandChild(w, k)
  PROVE  Drifts
<1>1. CASE DeleteWatch(w)
  <2>1. /\ Alike(asked, asked', MovingRequests)
        /\ Alike(inbox, inbox', MovingMessages)
    BY <1>1, ForgetFacts DEF DeleteWatch, Calm, OneMoves, MovingRequests, MovingMessages
  <2> QED BY <1>1, <2>1 DEF DeleteWatch, Drifts, adapter, frames
<1>2. CASE ExpandWatch(w) \/ \E k : ExpandChild(w, k)
  <2>1. PICK arg, node : Ask(<<Request("variables", arg, node, seq)>>)
    BY <1>2 DEF ExpandWatch, ExpandChild
  <2>2. LET m == Request("variables", arg, node, seq) IN HasKind(m) /\ m.kind \notin MovingRequests
    BY RecordFacts DEF MovingRequests
  <2>3. Alike(asked, asked', MovingRequests)
    BY <2>1, <2>2, IdleFacts, AskIdle
  <2>4. UNCHANGED <<stop, lastStop, depth, active, backtrace, frame, user, crashed, inbox>>
    BY <1>2 DEF ExpandWatch, ExpandChild, adapter, frames
  <2> QED BY <2>3, <2>4, Unmoved DEF Drifts
<1> QED BY <1>1, <1>2

\* When all is answered nothing moves, and the stop is known.
LEMMA SettledFacts ==
  ASSUME Calm, Settled
  PROVE  /\ Moving = {} /\ Moved = {} /\ stop # 0
         /\ active \in Threads /\ (backtrace = <<>> \/ IsStack(backtrace))
<1>1. Moving = {} /\ Moved = {}
  BY EmptyFacts DEF Settled, Quiet, Moving, Moved
<1>2. stop # 0
  BY DEF Settled
<1> QED BY <1>1, <1>2 DEF Calm, DisplayedFits

\* A request that moves something, when all is answered.
LEMMA MoveStep ==
  ASSUME Calm, Settled, NEW m, HasKind(m), m.kind \in MovingRequests, m.kind # "stopped",
         Ask(<<m>>), inbox' = inbox,
         UNCHANGED <<stop, lastStop, depth, active, backtrace, crashed>>,
         frame' \in Nat, user' \in Nat, frame' <= Len(backtrace), user' <= Len(backtrace),
         m.kind = "stackTrace" => m.arg \in Threads /\ user' <= depth[m.arg],
         m.kind = "goto" => m.arg \in Threads
  PROVE  Calm'
<1>1. Moving = {} /\ Moved = {} /\ stop # 0
  BY SettledFacts
<1>2. /\ IsSequence(asked') /\ ~Two(asked', MovingRequests)
      /\ Moving' = {d \in {m} : d.kind \in MovingRequests}
  BY <1>1, AskMover
<1>3. Moved' = {}
  BY <1>1 DEF Moved
<1>4. OneMoves'
  BY <1>1, <1>2, <1>3 DEF Calm, OneMoves
<1>5. AskedFits'
  BY <1>2 DEF AskedFits
<1>6. AnsweredFits'
  BY <1>3 DEF AnsweredFits
<1>7. DisplayedFits'
  BY <1>1, SettledFacts DEF DisplayedFits, IsStack
<1>8. Ranges'
  BY DEF Calm, Ranges
<1> QED BY <1>4, <1>5, <1>6, <1>7, <1>8 DEF Calm

\* Resume and SetNextStatement, when all is answered.
LEMMA ResumeStep ==
  ASSUME Calm, Resume \/ SetNextStatement, ~disturbed'
  PROVE  Calm'
<1>1. PICK kind \in {"resume", "gotoTargets"} : Ask(<<Request(kind, None, Nobody, seq)>>)
  BY DEF Resume, SetNextStatement
<1>2. Settled
  BY DEF Resume, SetNextStatement, Disturb
<1>3. UNCHANGED <<stop, lastStop, depth, active, backtrace, frame, user, crashed, inbox>>
  BY DEF Resume, SetNextStatement, adapter, frames
<1> DEFINE m == Request(kind, None, Nobody, seq)
<1>4. HasKind(m) /\ m.kind = kind
  BY RecordFacts
<1> HIDE DEF m
<1>5. Ask(<<m>>)
  BY <1>1 DEF m
<1>6. m.kind \in MovingRequests /\ m.kind \notin {"stopped", "stackTrace", "goto"}
  BY <1>1, <1>4 DEF MovingRequests
<1>7. /\ frame' \in Nat /\ user' \in Nat
      /\ frame' <= Len(backtrace) /\ user' <= Len(backtrace)
  BY <1>3 DEF Calm, Ranges
<1> QED BY <1>2, <1>3, <1>4, <1>5, <1>6, <1>7, MoveStep

\* SwitchToThread and RequestUpdate(Backtrace): the selected frame is none, or one of
\* the stack that is asked for.
LEMMA StackStep ==
  ASSUME Calm, UpdateBacktrace \/ \E t \in Threads : SwitchToThread(t), ~disturbed'
  PROVE  Calm'
<1>1. Settled
  BY DEF UpdateBacktrace, SwitchToThread, Disturb
<1>2. active \in Threads /\ (backtrace = <<>> \/ IsStack(backtrace))
  BY <1>1, SettledFacts
<1>3. UNCHANGED <<stop, lastStop, depth, active, backtrace, crashed, inbox>>
  BY DEF UpdateBacktrace, SwitchToThread, adapter, frames
<1>4. \A t \in Threads : depth[t] \in Nat
  BY InspectAssumption DEF Calm, Ranges
<1>5. 0 <= Len(backtrace)
  BY DEF Calm, Ranges
<1>6. PICK t \in Threads :
        /\ Ask(<<Request("stackTrace", t, Nobody, seq)>>)
        /\ frame' \in Nat /\ user' \in Nat
        /\ frame' <= Len(backtrace) /\ user' <= Len(backtrace) /\ user' <= depth[t]
  <2>1. CASE UpdateBacktrace
    <3>1. backtrace # <<>> => backtrace[1].thread = active
      BY <2>1 DEF UpdateBacktrace, Disturb
    <3>2. user <= depth[active]
      <4>1. Len(<<>>) = 0
        OBVIOUS
      <4> QED BY <1>2, <1>4, <3>1, <4>1 DEF IsStack, Calm, Ranges
    <3>3. frame' = frame /\ user' = user /\ Ask(<<Request("stackTrace", active, Nobody, seq)>>)
      BY <2>1 DEF UpdateBacktrace, frames
    <3> QED BY <1>2, <3>2, <3>3 DEF Calm, Ranges
  <2>2. ASSUME NEW t \in Threads, SwitchToThread(t)
        PROVE  /\ Ask(<<Request("stackTrace", t, Nobody, seq)>>)
               /\ frame' = 0 /\ user' = 0
    BY <2>2 DEF SwitchToThread
  <2> QED BY <1>4, <1>5, <2>1, <2>2
<1> DEFINE m == Request("stackTrace", t, Nobody, seq)
<1>7. HasKind(m) /\ m.kind = "stackTrace" /\ m.arg = t
  BY RecordFacts
<1> HIDE DEF m
<1>8. Ask(<<m>>)
  BY <1>6 DEF m
<1>9. m.kind \in MovingRequests
  BY <1>7 DEF MovingRequests
<1> QED BY <1>1, <1>3, <1>6, <1>7, <1>8, <1>9, MoveStep

\* SwitchToFrame selects a frame on display.
LEMMA SwitchToFrameStep ==
  ASSUME Calm, NEW i \in 1 .. Len(backtrace), SwitchToFrame(i), ~disturbed'
  PROVE  Calm'
<1>1. Settled
  BY DEF SwitchToFrame, Disturb
<1>2. Moving = {} /\ Moved = {}
  BY <1>1, SettledFacts
<1>3. UNCHANGED <<stop, lastStop, depth, active, backtrace, crashed, asked, inbox>>
  BY DEF SwitchToFrame, adapter
<1>4. frame' = i /\ user' = i /\ i \in Nat /\ i <= Len(backtrace)
  BY DEF SwitchToFrame
<1>5. Moving' = {} /\ Moved' = {}
  BY <1>2, <1>3 DEF Moving, Moved
<1>6. OneMoves'
  BY <1>3, <1>5 DEF Calm, OneMoves
<1>7. AskedFits' /\ AnsweredFits'
  BY <1>5 DEF AskedFits, AnsweredFits
<1>8. DisplayedFits'
  BY <1>1, <1>3, SettledFacts DEF DisplayedFits, IsStack
<1>9. Ranges'
  BY <1>3, <1>4 DEF Calm, Ranges
<1> QED BY <1>6, <1>7, <1>8, <1>9 DEF Calm

-----------------------------------------------------------------------------
(* Sessions, and the theorem                                                *)

\* A session begins and ends with nothing under way.
LEMMA SessionStep == ASSUME Calm, StartSession \/ SessionEnds PROVE Calm'
<1>1. stop' = 0 /\ asked' = <<>> /\ inbox' = <<>>
  BY DEF StartSession, SessionEnds
<1>2. Moving' = {} /\ Moved' = {}
  BY <1>1, EmptyFacts DEF Moving, Moved
<1>3. OneMoves'
  BY <1>1, <1>2, EmptyFacts DEF OneMoves
<1>4. AskedFits' /\ AnsweredFits' /\ DisplayedFits'
  BY <1>1, <1>2 DEF AskedFits, AnsweredFits, DisplayedFits
<1>5. Ranges'
  <2>1. Len(<<>>) = 0
    OBVIOUS
  <2> QED BY <1>1, <2>1 DEF Calm, Ranges, StartSession, SessionEnds, frames, ghosts
<1> QED BY <1>3, <1>4, <1>5 DEF Calm

\* Init is calm.
LEMMA InitRange == Init => RangeInv
<1> SUFFICES ASSUME Init PROVE Calm
  BY DEF RangeInv
<1>1. Moving = {} /\ Moved = {}
  BY EmptyFacts DEF Init, Moving, Moved
<1>2. OneMoves
  BY <1>1, EmptyFacts DEF Init, OneMoves
<1>3. AskedFits /\ AnsweredFits /\ DisplayedFits
  BY <1>1 DEF Init, AskedFits, AnsweredFits, DisplayedFits
<1>4. Ranges
  <2>1. Len(<<>>) = 0
    OBVIOUS
  <2> QED BY <2>1, InspectAssumption DEF Init, Ranges
<1> QED BY <1>2, <1>3, <1>4 DEF Calm

\* A disturbance is not forgotten.
LEMMA StaysDisturbed == disturbed /\ [Next]_vars => disturbed'
BY DEF Next, StartSession, SessionEnds, AdapterStops, AdapterGoes, AdapterAnswers, Handlers,
       OnStopped, OnStackTrace, OnScopes, OnVariables, OnEvaluate, OnMemory, OnGotoTargets,
       OnDisassemble, OnOther, UserActs, Resume, UpdateBacktrace, UpdateRegisters, Tooltip,
       SendCommand, ExamineMemory, AskAbout, SetNextStatement, SwitchToFrame, SwitchToThread,
       AddWatch, UpdateWatch, DeleteWatch, ExpandWatch, ExpandChild, UseMissingFrame,
       Disturb, ghosts, vars

\* Every step leaves what is calm so, unless it disturbs.
LEMMA RangeStep == RangeInv /\ [Next]_vars => RangeInv'
<1> SUFFICES ASSUME Calm, [Next]_vars, ~disturbed' PROVE Calm'
  BY StaysDisturbed DEF RangeInv
<1>1. CASE UNCHANGED vars
  <2>1. Drifts
    BY <1>1, Unmoved DEF vars, adapter, frames, ghosts, Drifts
  <2> QED BY <2>1, DriftStep
<1>2. CASE StartSession \/ SessionEnds
  BY <1>2, SessionStep
<1>3. CASE AdapterStops \/ AdapterGoes \/ AdapterAnswers
  BY <1>3, AdapterStopsStep, AdapterGoesStep, AdapterAnswersStep
<1>4. CASE Handlers
  BY <1>4, OnStoppedStep, OnStackTraceStep, OnGotoTargetsStep, OnScopesStep, OnVariablesStep,
     OnOthersStep, DriftStep DEF Handlers
<1>5. CASE UserActs
  <2>1. CASE Resume \/ SetNextStatement
    BY <2>1, ResumeStep
  <2>2. CASE UpdateBacktrace \/ \E t \in Threads : SwitchToThread(t)
    BY <2>2, StackStep
  <2>3. CASE \E i \in 1 .. Len(backtrace) : SwitchToFrame(i)
    BY <2>3, SwitchToFrameStep
  <2>4. CASE \/ UpdateRegisters \/ Tooltip \/ SendCommand \/ ExamineMemory
             \/ \E w : UpdateWatch(w) \/ AddWatch(w)
    BY <2>4, LookStep, DriftStep
  <2>5. CASE \E w : DeleteWatch(w) \/ ExpandWatch(w) \/ \E k : ExpandChild(w, k)
    BY <2>5, WatchStep, DriftStep
  <2> QED BY <1>5, <2>1, <2>2, <2>3, <2>4, <2>5 DEF UserActs
<1>6. CASE UseMissingFrame
  BY <1>6 DEF UseMissingFrame, InRange, Calm, Ranges
<1> QED BY <1>1, <1>2, <1>3, <1>4, <1>5, <1>6 DEF Next

\* The frame in use is one of m_backtrace, although nothing looks at its size: as long
\* as the user waits for the answers, a stack that is displayed or under way has the
\* frame that was selected, whatever the number of threads, frames, stops and sessions.
THEOREM FrameInUse == Spec => []FrameInRange
<1>1. RangeInv => FrameInRange
  BY DEF RangeInv, Calm, Ranges, FrameInRange, InRange
<1> QED BY <1>1, InitRange, RangeStep, PTL DEF Spec


-----------------------------------------------------------------------------
(* The messages in the order in which they are handled                      *)

\* The references of a frame that only a handler of scopes asks for.
Sections == {"Locals", "Registers"}

\* A request and its answer, as far as what is shown depends on them: the number that the
\* watches compare, the watch whose children were asked for, and its part in the chain
\* of requests that follows a stop.
NumberedKinds == {"variables", "info"}

Mark(m, color) ==
  [number |-> IF m.kind \in NumberedKinds THEN m.seq ELSE 0,
   node   |-> IF m.kind = "variables" THEN m.node ELSE Nobody,
   color  |-> color]

RequestColor(m) ==
  IF m.kind = "scopes" THEN "scopes"
  ELSE IF m.kind = "variables" /\ m.arg # None /\ m.arg.name = "Locals" THEN "locals"
  ELSE IF m.kind = "variables" /\ m.arg # None /\ m.arg.name = "Registers" THEN "registers"
  ELSE "plain"

AnswerColor(m) ==
  IF m.kind = "scopes" THEN "scopes"
  ELSE IF m.kind = "variables" /\ m.body # <<>> /\ m.body[1].name = "GPR" THEN "registers"
  ELSE IF m.kind = "variables" /\ \E i \in DOMAIN m.body : m.body[i].name \in LocalNames THEN "locals"
  ELSE "plain"

RequestMark(m) == Mark(m, RequestColor(m))
AnswerMark(m) == Mark(m, AnswerColor(m))

\* The answers and then the requests.
FlowOf(in, out) ==
  [i \in 1 .. Len(in) + Len(out) |->
     IF i <= Len(in) THEN AnswerMark(in[i]) ELSE RequestMark(out[i - Len(in)])]

Flow == FlowOf(inbox, asked)

\* Its elements.
LEMMA FlowAt ==
  ASSUME NEW in, NEW out, IsSequence(in), IsSequence(out)
  PROVE  /\ Len(in) \in Nat /\ Len(out) \in Nat
         /\ Len(FlowOf(in, out)) = Len(in) + Len(out)
         /\ \A i \in 1 .. Len(in) : i \in 1 .. Len(in) + Len(out) /\ FlowOf(in, out)[i] = AnswerMark(in[i])
         /\ \A i \in 1 .. Len(out) : /\ Len(in) + i \in 1 .. Len(in) + Len(out)
                                     /\ FlowOf(in, out)[Len(in) + i] = RequestMark(out[i])
         /\ \A i \in 1 .. Len(in) + Len(out) : i \in 1 .. Len(in) \/ i - Len(in) \in 1 .. Len(out)
<1>1. Len(in) \in Nat /\ Len(out) \in Nat
  BY DEF IsSequence
<1> DEFINE F == FlowOf(in, out)
           n == Len(in) + Len(out)
<1>2. F = [i \in 1 .. n |-> IF i <= Len(in) THEN AnswerMark(in[i]) ELSE RequestMark(out[i - Len(in)])]
  BY DEF FlowOf
<1>3. n \in Nat
  BY <1>1
<1>4. Len(F) = n
  BY <1>2, <1>3
<1>5. \A i \in 1 .. n : F[i] = IF i <= Len(in) THEN AnswerMark(in[i]) ELSE RequestMark(out[i - Len(in)])
  BY <1>2
<1> HIDE DEF F
<1>6. ASSUME NEW i \in 1 .. Len(in) PROVE i \in 1 .. n /\ F[i] = AnswerMark(in[i])
  <2>1. i \in 1 .. n /\ i <= Len(in)
    BY <1>1
  <2> QED BY <1>5, <2>1
<1>7. ASSUME NEW i \in 1 .. Len(out) PROVE Len(in) + i \in 1 .. n /\ F[Len(in) + i] = RequestMark(out[i])
  <2>1. /\ Len(in) + i \in 1 .. n /\ ~(Len(in) + i <= Len(in)) /\ Len(in) + i - Len(in) = i
    BY <1>1
  <2> QED BY <1>5, <2>1
<1>8. \A i \in 1 .. n : i \in 1 .. Len(in) \/ i - Len(in) \in 1 .. Len(out)
  BY <1>1
<1> QED BY <1>1, <1>4, <1>6, <1>7, <1>8 DEF F

\* Requests are added behind what remains of F.
Shifted(F, G, k, r) ==
  /\ Len(F) \in Nat /\ Len(r) \in Nat /\ k <= Len(F)
  /\ Len(G) = Len(F) - k + Len(r)
  /\ \A i \in 1 .. Len(F) - k : G[i] = F[i + k]
  /\ \A i \in 1 .. Len(r) : G[Len(F) - k + i] = RequestMark(r[i])

\* Requests are sent,
LEMMA FlowAsk ==
  ASSUME NEW in, NEW out, NEW r, IsSequence(in), IsSequence(out), IsSequence(r)
  PROVE  Shifted(FlowOf(in, out), FlowOf(in, out \o r), 0, r)
<1> DEFINE new == out \o r
           F == FlowOf(in, out)
           G == FlowOf(in, new)
<1>1. IsSequence(new)
  BY ConcatFacts
<1>2. /\ Len(r) \in Nat /\ Len(out) \in Nat /\ Len(new) = Len(out) + Len(r)
      /\ \A i \in 1 .. Len(out) : new[i] = out[i]
      /\ \A i \in 1 .. Len(r) : new[Len(out) + i] = r[i]
  <2>1. PICK S : out \in Seq(S)
    BY DEF IsSequence
  <2>2. PICK R : r \in Seq(R)
    BY DEF IsSequence
  <2>3. out \in Seq(S \cup R) /\ r \in Seq(S \cup R)
    BY <2>1, <2>2
  <2> QED BY <2>3
<1> HIDE DEF new
<1>3. /\ Len(in) \in Nat /\ Len(F) = Len(in) + Len(out)
      /\ \A i \in 1 .. Len(in) : F[i] = AnswerMark(in[i])
      /\ \A i \in 1 .. Len(out) : F[Len(in) + i] = RequestMark(out[i])
  BY FlowAt
<1>4. /\ Len(G) = Len(in) + Len(new)
      /\ \A i \in 1 .. Len(in) : G[i] = AnswerMark(in[i])
      /\ \A i \in 1 .. Len(new) : G[Len(in) + i] = RequestMark(new[i])
  BY <1>1, FlowAt
<1> HIDE DEF F, G
<1>5. ASSUME NEW i \in 1 .. Len(F) - 0 PROVE G[i] = F[i + 0]
  <2>1. CASE i \in 1 .. Len(in)
    BY <1>3, <1>4, <2>1
  <2>2. CASE i \notin 1 .. Len(in)
    <3> DEFINE j == i - Len(in)
    <3>1. j \in 1 .. Len(out) /\ j \in 1 .. Len(new) /\ Len(in) + j = i /\ i + 0 = i
      BY <1>2, <1>3, <2>2
    <3> HIDE DEF j
    <3>2. F[Len(in) + j] = RequestMark(out[j]) /\ G[Len(in) + j] = RequestMark(new[j])
      BY <1>3, <1>4, <3>1
    <3> QED BY <1>2, <3>1, <3>2
  <2> QED BY <2>1, <2>2
<1>6. ASSUME NEW i \in 1 .. Len(r) PROVE G[Len(F) - 0 + i] = RequestMark(r[i])
  <2>1. Len(out) + i \in 1 .. Len(new) /\ Len(F) - 0 + i = Len(in) + (Len(out) + i)
    BY <1>2, <1>3
  <2> QED BY <1>2, <1>4, <2>1
<1>7. Len(F) \in Nat /\ 0 <= Len(F) /\ Len(G) = Len(F) - 0 + Len(r)
  BY <1>2, <1>3, <1>4
<1> QED BY <1>2, <1>5, <1>6, <1>7 DEF Shifted, F, G, new

\* and a message is handled before.
LEMMA FlowHandle ==
  ASSUME NEW in, NEW out, NEW r, IsSequence(in), IsSequence(out), IsSequence(r), in # <<>>
  PROVE  /\ Shifted(FlowOf(in, out), FlowOf(Tail(in), out \o r), 1, r)
         /\ 1 \in 1 .. Len(FlowOf(in, out)) /\ FlowOf(in, out)[1] = AnswerMark(Head(in))
<1> DEFINE t == Tail(in)
           F == FlowOf(in, out)
           E == FlowOf(t, out)
           G == FlowOf(t, out \o r)
<1>1. IsSequence(t)
  BY TailFacts
<1>2. Len(in) = Len(t) + 1 /\ Head(in) = in[1] /\ \A i \in 1 .. Len(t) : t[i] = in[i + 1]
  <2>1. PICK S : in \in Seq(S)
    BY DEF IsSequence
  <2> QED BY <2>1, HeadTailProperties
<1>3. Shifted(E, G, 0, r)
  BY <1>1, FlowAsk
<1> HIDE DEF t
<1>4. /\ Len(in) \in Nat /\ Len(out) \in Nat /\ Len(F) = Len(in) + Len(out)
      /\ \A i \in 1 .. Len(in) : F[i] = AnswerMark(in[i])
      /\ \A i \in 1 .. Len(out) : F[Len(in) + i] = RequestMark(out[i])
  BY FlowAt
<1>5. /\ Len(t) \in Nat /\ Len(E) = Len(t) + Len(out)
      /\ \A i \in 1 .. Len(t) : E[i] = AnswerMark(t[i])
      /\ \A i \in 1 .. Len(out) : E[Len(t) + i] = RequestMark(out[i])
  BY <1>1, FlowAt
<1> HIDE DEF F, E, G
<1>6. /\ Len(r) \in Nat /\ Len(G) = Len(E) + Len(r)
      /\ \A i \in 1 .. Len(E) : G[i] = E[i]
      /\ \A i \in 1 .. Len(r) : G[Len(E) + i] = RequestMark(r[i])
  BY <1>3, <1>4, <1>5 DEF Shifted
<1>7. ASSUME NEW i \in 1 .. Len(E) PROVE E[i] = F[i + 1]
  <2>1. CASE i \in 1 .. Len(t)
    <3>1. i + 1 \in 1 .. Len(in)
      BY <1>2, <1>5, <2>1
    <3> QED BY <1>2, <1>4, <1>5, <2>1, <3>1
  <2>2. CASE i \notin 1 .. Len(t)
    <3> DEFINE j == i - Len(t)
    <3>1. j \in 1 .. Len(out) /\ Len(t) + j = i /\ Len(in) + j = i + 1
      BY <1>2, <1>4, <1>5, <2>2
    <3> HIDE DEF j
    <3> QED BY <1>4, <1>5, <3>1
  <2> QED BY <2>1, <2>2
<1>8. Len(E) = Len(F) - 1 /\ Len(F) \in Nat /\ 1 <= Len(F) /\ 1 \in 1 .. Len(in)
  BY <1>2, <1>4, <1>5
<1>9. F[1] = AnswerMark(Head(in))
  BY <1>2, <1>4, <1>8
<1>10. Shifted(F, G, 1, r)
  BY <1>6, <1>7, <1>8 DEF Shifted
<1> QED BY <1>8, <1>9, <1>10 DEF F, G, t

\* What matters to nothing that is shown, and what matters no more than before.
Dull(x) == x.number = 0 /\ x.node = Nobody /\ x.color = "plain"
Fades(x, y) == x.number = y.number /\ x.node = y.node /\ (x.color = y.color \/ x.color = "plain")

\* G is a part of F, in its order, with dull elements in between.
Embeds(F, G) ==
  /\ Len(F) \in Nat /\ Len(G) \in Nat
  /\ \E m \in [1 .. Len(G) -> Int] :
       /\ \A i \in 1 .. Len(G) : Dull(G[i]) \/ (m[i] \in 1 .. Len(F) /\ Fades(G[i], F[m[i]]))
       /\ \A i, j \in 1 .. Len(G) : i < j /\ ~Dull(G[i]) /\ ~Dull(G[j]) => m[i] < m[j]

\* The debuggee stops,
LEMMA FlowInsert ==
  ASSUME NEW in, NEW out, IsSequence(in), IsSequence(out), NEW e, HasKind(e), Dull(AnswerMark(e))
  PROVE  Embeds(FlowOf(in, out), FlowOf(Append(in, e), out))
<1> DEFINE new == Append(in, e)
           F == FlowOf(in, out)
           G == FlowOf(new, out)
<1>1. IsSequence(new)
  BY AppendFacts
<1>2. /\ Len(in) \in Nat /\ Len(new) = Len(in) + 1 /\ new[Len(in) + 1] = e
      /\ \A i \in 1 .. Len(in) : new[i] = in[i]
  <2>1. PICK S : in \in Seq(S)
    BY DEF IsSequence
  <2>2. in \in Seq(S \cup {e})
    BY <2>1
  <2> QED BY <2>2
<1> HIDE DEF new
<1>3. /\ Len(in) \in Nat /\ Len(out) \in Nat /\ Len(F) = Len(in) + Len(out)
      /\ \A i \in 1 .. Len(in) : F[i] = AnswerMark(in[i])
      /\ \A i \in 1 .. Len(out) : F[Len(in) + i] = RequestMark(out[i])
  BY FlowAt
<1>4. /\ Len(G) = Len(new) + Len(out)
      /\ \A i \in 1 .. Len(new) : G[i] = AnswerMark(new[i])
      /\ \A i \in 1 .. Len(out) : G[Len(new) + i] = RequestMark(out[i])
  BY <1>1, FlowAt
<1> HIDE DEF F, G
<1> DEFINE m == [i \in 1 .. Len(G) |-> IF i <= Len(in) THEN i ELSE i - 1]
<1>5. m \in [1 .. Len(G) -> Int]
  BY <1>2, <1>3, <1>4
<1>6. \A i \in 1 .. Len(G) : m[i] = IF i <= Len(in) THEN i ELSE i - 1
  OBVIOUS
<1> HIDE DEF m
<1>7. ASSUME NEW i \in 1 .. Len(G)
      PROVE  /\ Dull(G[i]) \/ (m[i] \in 1 .. Len(F) /\ Fades(G[i], F[m[i]]))
             /\ i = Len(in) + 1 => Dull(G[i])
  <2>1. CASE i <= Len(in)
    <3>1. m[i] = i /\ i \in 1 .. Len(in) /\ i \in 1 .. Len(new) /\ i \in 1 .. Len(F) /\ i # Len(in) + 1
      BY <1>2, <1>3, <1>4, <1>6, <2>1
    <3>2. G[i] = F[i]
      BY <1>2, <1>3, <1>4, <3>1
    <3> QED BY <3>1, <3>2 DEF Fades
  <2>2. CASE i = Len(in) + 1
    <3>1. i \in 1 .. Len(new)
      BY <1>2, <2>2
    <3> QED BY <1>2, <1>4, <2>2, <3>1
  <2>3. CASE ~(i <= Len(in)) /\ i # Len(in) + 1
    <3> DEFINE j == i - Len(new)
    <3>1. j \in 1 .. Len(out) /\ Len(new) + j = i /\ m[i] = Len(in) + j /\ m[i] \in 1 .. Len(F)
      BY <1>2, <1>3, <1>4, <1>6, <2>3
    <3> HIDE DEF j
    <3>2. G[i] = F[m[i]]
      BY <1>3, <1>4, <3>1
    <3> QED BY <2>3, <3>1, <3>2 DEF Fades
  <2> QED BY <1>2, <2>1, <2>2, <2>3
<1>8. ASSUME NEW i \in 1 .. Len(G), NEW j \in 1 .. Len(G), i < j, ~Dull(G[i]), ~Dull(G[j])
      PROVE  m[i] < m[j]
  BY <1>2, <1>6, <1>7, <1>8
<1>9. Len(F) \in Nat /\ Len(G) \in Nat
  BY <1>2, <1>3, <1>4
<1>10. Embeds(F, G)
  BY <1>5, <1>7, <1>8, <1>9 DEF Embeds
<1> QED BY <1>10 DEF F, G, new

\* or resumes.
LEMMA FlowDrop ==
  ASSUME NEW in, NEW out, IsSequence(in), IsSequence(out), out # <<>>
  PROVE  Embeds(FlowOf(in, out), FlowOf(in, Tail(out)))
<1> DEFINE t == Tail(out)
           F == FlowOf(in, out)
           G == FlowOf(in, t)
<1>1. IsSequence(t)
  BY TailFacts
<1>2. Len(t) \in Nat /\ Len(out) = Len(t) + 1 /\ \A i \in 1 .. Len(t) : t[i] = out[i + 1]
  <2>1. PICK S : out \in Seq(S)
    BY DEF IsSequence
  <2> QED BY <2>1, HeadTailProperties
<1> HIDE DEF t
<1>3. /\ Len(in) \in Nat /\ Len(F) = Len(in) + Len(out)
      /\ \A i \in 1 .. Len(in) : F[i] = AnswerMark(in[i])
      /\ \A i \in 1 .. Len(out) : F[Len(in) + i] = RequestMark(out[i])
  BY FlowAt
<1>4. /\ Len(G) = Len(in) + Len(t)
      /\ \A i \in 1 .. Len(in) : G[i] = AnswerMark(in[i])
      /\ \A i \in 1 .. Len(t) : G[Len(in) + i] = RequestMark(t[i])
  BY <1>1, FlowAt
<1> HIDE DEF F, G
<1> DEFINE m == [i \in 1 .. Len(G) |-> IF i <= Len(in) THEN i ELSE i + 1]
<1>5. m \in [1 .. Len(G) -> Int]
  BY <1>2, <1>3, <1>4
<1>6. \A i \in 1 .. Len(G) : m[i] = IF i <= Len(in) THEN i ELSE i + 1
  OBVIOUS
<1> HIDE DEF m
<1>7. ASSUME NEW i \in 1 .. Len(G) PROVE m[i] \in 1 .. Len(F) /\ Fades(G[i], F[m[i]])
  <2>1. CASE i <= Len(in)
    <3>1. m[i] = i /\ i \in 1 .. Len(in) /\ i \in 1 .. Len(F)
      BY <1>2, <1>3, <1>4, <1>6, <2>1
    <3>2. G[i] = F[i]
      BY <1>3, <1>4, <3>1
    <3> QED BY <3>1, <3>2 DEF Fades
  <2>2. CASE ~(i <= Len(in))
    <3> DEFINE j == i - Len(in)
    <3>1. /\ j \in 1 .. Len(t) /\ j + 1 \in 1 .. Len(out) /\ Len(in) + j = i
          /\ m[i] = Len(in) + (j + 1) /\ m[i] \in 1 .. Len(F)
      BY <1>2, <1>3, <1>4, <1>6, <2>2
    <3> HIDE DEF j
    <3>2. G[i] = F[m[i]]
      BY <1>2, <1>3, <1>4, <3>1
    <3> QED BY <3>1, <3>2 DEF Fades
  <2> QED BY <2>1, <2>2
<1>8. ASSUME NEW i \in 1 .. Len(G), NEW j \in 1 .. Len(G), i < j PROVE m[i] < m[j]
  BY <1>3, <1>6, <1>8
<1>9. Len(F) \in Nat /\ Len(G) \in Nat
  BY <1>2, <1>3, <1>4
<1>10. Embeds(F, G)
  BY <1>5, <1>7, <1>8, <1>9 DEF Embeds
<1> QED BY <1>10 DEF F, G, t

\* A request is answered.
LEMMA FlowAnswer ==
  ASSUME NEW in, NEW out, IsSequence(in), IsSequence(out), out # <<>>, NEW e, HasKind(e),
         Fades(AnswerMark(e), RequestMark(Head(out)))
  PROVE  Embeds(FlowOf(in, out), FlowOf(Append(in, e), Tail(out)))
<1> DEFINE t == Tail(out)
           new == Append(in, e)
           F == FlowOf(in, out)
           G == FlowOf(new, t)
<1>1. IsSequence(t) /\ IsSequence(new)
  BY TailFacts, AppendFacts
<1>2. /\ Len(t) \in Nat /\ Len(out) = Len(t) + 1 /\ Head(out) = out[1]
      /\ \A i \in 1 .. Len(t) : t[i] = out[i + 1]
  <2>1. PICK S : out \in Seq(S)
    BY DEF IsSequence
  <2> QED BY <2>1, HeadTailProperties
<1>3. /\ Len(in) \in Nat /\ Len(new) = Len(in) + 1 /\ new[Len(in) + 1] = e
      /\ \A i \in 1 .. Len(in) : new[i] = in[i]
  <2>1. PICK S : in \in Seq(S)
    BY DEF IsSequence
  <2>2. in \in Seq(S \cup {e})
    BY <2>1
  <2> QED BY <2>2
<1> HIDE DEF t, new
<1>4. /\ Len(F) = Len(in) + Len(out)
      /\ \A i \in 1 .. Len(in) : F[i] = AnswerMark(in[i])
      /\ \A i \in 1 .. Len(out) : F[Len(in) + i] = RequestMark(out[i])
  BY FlowAt
<1>5. /\ Len(G) = Len(new) + Len(t)
      /\ \A i \in 1 .. Len(new) : G[i] = AnswerMark(new[i])
      /\ \A i \in 1 .. Len(t) : G[Len(new) + i] = RequestMark(t[i])
  BY <1>1, FlowAt
<1> HIDE DEF F, G
<1> DEFINE m == [i \in 1 .. Len(G) |-> i]
<1>6. m \in [1 .. Len(G) -> Int] /\ \A i \in 1 .. Len(G) : m[i] = i
  BY <1>2, <1>3, <1>5
<1> HIDE DEF m
<1>7. ASSUME NEW i \in 1 .. Len(G) PROVE m[i] \in 1 .. Len(F) /\ Fades(G[i], F[m[i]])
  <2>1. m[i] = i /\ i \in 1 .. Len(F)
    BY <1>2, <1>3, <1>4, <1>5, <1>6
  <2>2. CASE i \in 1 .. Len(in)
    <3>1. i \in 1 .. Len(new)
      BY <1>3, <2>2
    <3>2. G[i] = F[i]
      BY <1>3, <1>4, <1>5, <2>2, <3>1
    <3> QED BY <2>1, <3>2 DEF Fades
  <2>3. CASE i = Len(in) + 1
    <3>1. i \in 1 .. Len(new) /\ 1 \in 1 .. Len(out)
      BY <1>2, <1>3, <2>3
    <3>2. G[i] = AnswerMark(e) /\ F[i] = RequestMark(Head(out))
      BY <1>2, <1>3, <1>4, <1>5, <2>3, <3>1
    <3> QED BY <2>1, <3>2
  <2>4. CASE i \notin 1 .. Len(in) /\ i # Len(in) + 1
    <3> DEFINE j == i - Len(new)
    <3>1. j \in 1 .. Len(t) /\ j + 1 \in 1 .. Len(out) /\ Len(new) + j = i /\ Len(in) + (j + 1) = i
      BY <1>2, <1>3, <1>5, <2>4
    <3> HIDE DEF j
    <3>2. G[i] = RequestMark(t[j]) /\ F[i] = RequestMark(out[j + 1]) /\ t[j] = out[j + 1]
      <4>1. G[Len(new) + j] = RequestMark(t[j]) /\ F[Len(in) + (j + 1)] = RequestMark(out[j + 1])
        BY <1>4, <1>5, <3>1
      <4> QED BY <1>2, <3>1, <4>1
    <3> QED BY <2>1, <3>2 DEF Fades
  <2> QED BY <2>2, <2>3, <2>4
<1>8. ASSUME NEW i \in 1 .. Len(G), NEW j \in 1 .. Len(G), i < j PROVE m[i] < m[j]
  BY <1>6, <1>8
<1>9. Len(F) \in Nat /\ Len(G) \in Nat
  BY <1>2, <1>3, <1>4, <1>5
<1>10. Embeds(F, G)
  BY <1>6, <1>7, <1>8, <1>9 DEF Embeds
<1> QED BY <1>10 DEF F, G, t, new

-----------------------------------------------------------------------------
(* The numbers of the requests                                              *)

\* Those under way were used, and grow.
NumbersOf(F, n) ==
  /\ \A i \in 1 .. Len(F) : F[i].number = 0 \/ F[i].number \in 1 .. n - 1
  /\ \A i, j \in 1 .. Len(F) :
       i < j /\ F[i].number # 0 /\ F[j].number # 0 => F[i].number < F[j].number

\* Requests that have the numbers from n on.
Numbered(r, n) == \A i \in 1 .. Len(r) : r[i].seq = n + i - 1

\* New requests have the next numbers.
LEMMA NumbersShifted ==
  ASSUME NEW F, NEW G, NEW n \in Nat \ {0}, NEW k \in {0, 1}, NEW r,
         NumbersOf(F, n), Shifted(F, G, k, r), Numbered(r, n)
  PROVE  NumbersOf(G, n + Len(r))
<1> DEFINE b == Len(F) - k
<1>1. /\ Len(F) \in Nat /\ Len(r) \in Nat /\ k <= Len(F) /\ Len(G) = b + Len(r)
      /\ \A i \in 1 .. b : G[i] = F[i + k]
      /\ \A i \in 1 .. Len(r) : G[b + i] = RequestMark(r[i])
  BY DEF Shifted
<1>2. b \in Nat
  BY <1>1
<1>3. ASSUME NEW i \in 1 .. b
      PROVE  /\ i + k \in 1 .. Len(F) /\ G[i].number = F[i + k].number
             /\ G[i].number = 0 \/ G[i].number \in 1 .. n - 1
  <2>1. i + k \in 1 .. Len(F)
    BY <1>1
  <2> QED BY <1>1, <2>1 DEF NumbersOf
<1> HIDE DEF b
<1>4. ASSUME NEW i \in 1 .. Len(r)
      PROVE  G[b + i].number = 0 \/ G[b + i].number = n + i - 1
  <2>1. \A m, c : Mark(m, c).number = 0 \/ Mark(m, c).number = m.seq
    BY DEF Mark
  <2>2. RequestMark(r[i]).number = 0 \/ RequestMark(r[i]).number = r[i].seq
    BY <2>1 DEF RequestMark
  <2>3. r[i].seq = n + i - 1
    BY DEF Numbered
  <2> QED BY <1>1, <2>2, <2>3
<1>5. ASSUME NEW i \in 1 .. Len(G), i \notin 1 .. b
      PROVE  i - b \in 1 .. Len(r) /\ (G[i].number = 0 \/ G[i].number = n + (i - b) - 1)
  <2>1. i - b \in 1 .. Len(r) /\ b + (i - b) = i
    BY <1>1, <1>2, <1>5
  <2> QED BY <1>4, <2>1
<1>6. ASSUME NEW i \in 1 .. Len(G) PROVE G[i].number = 0 \/ G[i].number \in 1 .. n + Len(r) - 1
  <2>1. CASE i \in 1 .. b
    BY <1>1, <1>3, <2>1
  <2>2. CASE i \notin 1 .. b
    BY <1>1, <1>5, <2>2
  <2> QED BY <2>1, <2>2
<1>7. ASSUME NEW i \in 1 .. Len(G), NEW j \in 1 .. Len(G), i < j, G[i].number # 0, G[j].number # 0
      PROVE  G[i].number < G[j].number
  <2>1. CASE j \in 1 .. b
    <3>1. i \in 1 .. b /\ i + k < j + k
      BY <1>2, <1>7, <2>1
    <3> QED BY <1>3, <1>7, <2>1, <3>1 DEF NumbersOf
  <2>2. CASE i \in 1 .. b /\ j \notin 1 .. b
    <3>1. G[i].number \in 1 .. n - 1
      BY <1>3, <1>7, <2>2
    <3>2. j - b \in 1 .. Len(r) /\ G[j].number = n + (j - b) - 1
      BY <1>5, <1>7, <2>2
    <3> QED BY <1>1, <3>1, <3>2
  <2>3. CASE i \notin 1 .. b /\ j \notin 1 .. b
    <3>1. i - b \in 1 .. Len(r) /\ G[i].number = n + (i - b) - 1
      BY <1>5, <1>7, <2>3
    <3>2. j - b \in 1 .. Len(r) /\ G[j].number = n + (j - b) - 1
      BY <1>5, <1>7, <2>3
    <3> QED BY <1>1, <1>2, <1>7, <3>1, <3>2
  <2> QED BY <2>1, <2>2, <2>3
<1> QED BY <1>6, <1>7 DEF NumbersOf

\* Nothing else has one.
LEMMA NumbersEmbedded ==
  ASSUME NEW F, NEW G, NEW n, NumbersOf(F, n), Embeds(F, G)
  PROVE  NumbersOf(G, n)
<1>1. PICK m \in [1 .. Len(G) -> Int] :
        /\ \A i \in 1 .. Len(G) : Dull(G[i]) \/ (m[i] \in 1 .. Len(F) /\ Fades(G[i], F[m[i]]))
        /\ \A i, j \in 1 .. Len(G) : i < j /\ ~Dull(G[i]) /\ ~Dull(G[j]) => m[i] < m[j]
  BY DEF Embeds
<1>2. ASSUME NEW i \in 1 .. Len(G), G[i].number # 0
      PROVE  m[i] \in 1 .. Len(F) /\ G[i].number = F[m[i]].number /\ ~Dull(G[i])
  BY <1>1, <1>2 DEF Dull, Fades
<1> QED BY <1>1, <1>2 DEF NumbersOf

-----------------------------------------------------------------------------
(* The messages                                                             *)

\* What a watch refers to.
Sendable(r) == r \in MaybeVar /\ (r # None => r.name \in DOMAIN Contents \ Sections)

GoodRequest(m) ==
  /\ HasKind(m) /\ m.kind # "stopped"
  /\ m.kind = "evaluate" => "arg" \in DOMAIN m
  /\ m.kind = "stackTrace" => m.arg \in Threads \cup {None}
  /\ m.kind = "goto" => m.arg \in Threads
  /\ m.kind \in {"scopes", "evaluate", "memory"} => m.arg \in Frames
  /\ m.kind = "variables" =>
       /\ m.arg \in MaybeVar /\ (m.arg # None => m.arg.name \in DOMAIN Contents)
       /\ m.node # Nobody => Sendable(m.arg)

GoodVariables(vs) == vs \in Seq(Named) /\ \A i \in 1 .. Len(vs) : vs[i].name \notin Sections

GoodAnswer(m) ==
  /\ HasKind(m)
  /\ m.kind = "evaluate" => "body" \in DOMAIN m
  /\ m.kind = "stopped" => m.body \in Threads
  /\ m.kind = "stackTrace" => m.body.frames \in Seq(Frames) /\ m.body.source \in Nat \ {0}
  /\ m.kind \in {"scopes", "evaluate", "memory"} => m.body \in Frames \cup {None}
  /\ m.kind \in {"variables", "info"} => GoodVariables(m.body)
  /\ m.kind = "variables" /\ m.node # Nobody =>
       \A i \in 1 .. Len(m.body) : m.body[i].name # "GPR"

Requests(s) == \E S : s \in Seq(S) /\ \A m \in S : GoodRequest(m)
Answers(s) == \E S : s \in Seq(S) /\ \A m \in S : GoodAnswer(m)

\* The fields of a request and of an answer.
LEMMA FieldFacts ==
  /\ \A kind, arg, node, n :
       LET m == Request(kind, arg, node, n)
       IN  /\ HasKind(m) /\ m.kind = kind /\ m.arg = arg /\ m.node = node /\ m.seq = n
           /\ "arg" \in DOMAIN m
  /\ \A req, body :
       LET m == Answer(req, body)
       IN  /\ HasKind(m) /\ m.kind = req.kind /\ m.body = body /\ m.node = req.node /\ m.seq = req.seq
           /\ "body" \in DOMAIN m
BY DEF Request, Answer, HasKind

\* Sequences of good requests.
LEMMA RequestsFacts ==
  /\ Requests(<<>>)
  /\ \A a : GoodRequest(a) => Requests(<<a>>)
  /\ \A s, t : Requests(s) /\ Requests(t) => Requests(s \o t)
  /\ \A s : Requests(s) => IsSequence(s) /\ \A i \in 1 .. Len(s) : GoodRequest(s[i])
  /\ \A s : Requests(s) /\ s # <<>> => Requests(Tail(s)) /\ GoodRequest(Head(s))
<1>1. Requests(<<>>)
  <2> DEFINE S == {}
             e == <<>>
  <2>1. e \in Seq(S) /\ \A m \in S : GoodRequest(m)
    OBVIOUS
  <2> HIDE DEF S, e
  <2>2. Requests(e)
    BY <2>1 DEF Requests
  <2> QED BY <2>2 DEF e
<1>2. ASSUME NEW a, GoodRequest(a) PROVE Requests(<<a>>)
  <2> DEFINE s == <<a>>
  <2>1. s \in Seq({a}) /\ \A m \in {a} : GoodRequest(m)
    BY <1>2
  <2> HIDE DEF s
  <2>2. Requests(s)
    BY <2>1 DEF Requests
  <2> QED BY <2>2 DEF s
<1>3. ASSUME NEW s, NEW t, Requests(s), Requests(t) PROVE Requests(s \o t)
  <2>1. PICK S : s \in Seq(S) /\ \A m \in S : GoodRequest(m)
    BY <1>3 DEF Requests
  <2>2. PICK T : t \in Seq(T) /\ \A m \in T : GoodRequest(m)
    BY <1>3 DEF Requests
  <2>3. s \in Seq(S \cup T) /\ t \in Seq(S \cup T)
    BY <2>1, <2>2
  <2>4. s \o t \in Seq(S \cup T) /\ \A m \in S \cup T : GoodRequest(m)
    BY <2>1, <2>2, <2>3
  <2> DEFINE u == s \o t
  <2> HIDE DEF u
  <2>5. Requests(u)
    BY <2>4 DEF Requests, u
  <2> QED BY <2>5 DEF u
<1>4. ASSUME NEW s, Requests(s)
      PROVE  IsSequence(s) /\ \A i \in 1 .. Len(s) : GoodRequest(s[i])
  <2>1. PICK S : s \in Seq(S) /\ \A m \in S : GoodRequest(m)
    BY <1>4 DEF Requests
  <2>2. \A m \in S : HasKind(m)
    BY <2>1 DEF GoodRequest
  <2>3. \A i \in 1 .. Len(s) : s[i] \in S
    BY <2>1
  <2> QED BY <2>1, <2>2, <2>3 DEF IsSequence
<1>5. ASSUME NEW s, Requests(s), s # <<>> PROVE Requests(Tail(s)) /\ GoodRequest(Head(s))
  <2>1. PICK S : s \in Seq(S) /\ \A m \in S : GoodRequest(m)
    BY <1>5 DEF Requests
  <2>2. Tail(s) \in Seq(S) /\ Head(s) \in S
    BY <1>5, <2>1, HeadTailProperties
  <2> QED BY <2>1, <2>2 DEF Requests
<1> QED BY <1>1, <1>2, <1>3, <1>4, <1>5

\* Sequences of good answers.
LEMMA AnswersFacts ==
  /\ Answers(<<>>)
  /\ \A s, e : Answers(s) /\ GoodAnswer(e) => Answers(Append(s, e))
  /\ \A s : Answers(s) => IsSequence(s)
  /\ \A s : Answers(s) /\ s # <<>> => Answers(Tail(s)) /\ GoodAnswer(Head(s))
<1>1. Answers(<<>>)
  <2> DEFINE S == {}
             e == <<>>
  <2>1. e \in Seq(S) /\ \A m \in S : GoodAnswer(m)
    OBVIOUS
  <2> HIDE DEF S, e
  <2>2. Answers(e)
    BY <2>1 DEF Answers
  <2> QED BY <2>2 DEF e
<1>2. ASSUME NEW s, NEW e, Answers(s), GoodAnswer(e) PROVE Answers(Append(s, e))
  <2>1. PICK S : s \in Seq(S) /\ \A m \in S : GoodAnswer(m)
    BY <1>2 DEF Answers
  <2>2. s \in Seq(S \cup {e}) /\ \A m \in S \cup {e} : GoodAnswer(m)
    BY <1>2, <2>1
  <2> DEFINE u == Append(s, e)
  <2>3. u \in Seq(S \cup {e})
    BY <2>2
  <2> HIDE DEF u
  <2>4. Answers(u)
    BY <2>2, <2>3 DEF Answers
  <2> QED BY <2>4 DEF u
<1>3. ASSUME NEW s, Answers(s) PROVE IsSequence(s)
  <2>1. PICK S : s \in Seq(S) /\ \A m \in S : GoodAnswer(m)
    BY <1>3 DEF Answers
  <2>2. \A m \in S : HasKind(m)
    BY <2>1 DEF GoodAnswer
  <2> QED BY <2>1, <2>2 DEF IsSequence
<1>4. ASSUME NEW s, Answers(s), s # <<>> PROVE Answers(Tail(s)) /\ GoodAnswer(Head(s))
  <2>1. PICK S : s \in Seq(S) /\ \A m \in S : GoodAnswer(m)
    BY <1>4 DEF Answers
  <2>2. Tail(s) \in Seq(S) /\ Head(s) \in S
    BY <1>4, <2>1, HeadTailProperties
  <2> QED BY <2>1, <2>2 DEF Answers
<1> QED BY <1>1, <1>2, <1>3, <1>4

\* Requests that may be sent with the numbers from n on.
Sound(r, n) == Requests(r) /\ Numbered(r, n)

\* They add up.
LEMMA SoundFacts ==
  ASSUME NEW n \in Nat
  PROVE  /\ Sound(<<>>, n)
         /\ \A a : GoodRequest(a) /\ a.seq = n => Sound(<<a>>, n)
         /\ \A r, t : Sound(r, n) /\ Sound(t, n + Len(r)) => Sound(r \o t, n)
<1>1. Sound(<<>>, n)
  <2> DEFINE e == <<>>
  <2>1. Len(e) = 0 /\ Requests(e) /\ 1 .. 0 = {}
    BY RequestsFacts
  <2> HIDE DEF e
  <2>2. Sound(e, n)
    BY <2>1 DEF Sound, Numbered
  <2> QED BY <2>2 DEF e
<1>2. ASSUME NEW a, GoodRequest(a), a.seq = n PROVE Sound(<<a>>, n)
  <2> DEFINE s == <<a>>
  <2>1. Len(s) = 1 /\ s[1] = a /\ n + 1 - 1 = n /\ \A i \in 1 .. 1 : i = 1
    OBVIOUS
  <2>2. Requests(s)
    BY <1>2, RequestsFacts
  <2> HIDE DEF s
  <2>3. Sound(s, n)
    BY <1>2, <2>1, <2>2 DEF Sound, Numbered
  <2> QED BY <2>3 DEF s
<1>3. ASSUME NEW r, NEW t, Sound(r, n), Sound(t, n + Len(r)) PROVE Sound(r \o t, n)
  <2> DEFINE u == r \o t
  <2>1. Requests(r) /\ Requests(t) /\ Requests(u)
    BY <1>3, RequestsFacts DEF Sound
  <2>2. PICK R : r \in Seq(R)
    BY <2>1 DEF Requests
  <2>3. PICK T : t \in Seq(T)
    BY <2>1 DEF Requests
  <2>4. r \in Seq(R \cup T) /\ t \in Seq(R \cup T)
    BY <2>2, <2>3
  <2>5. /\ Len(r) \in Nat /\ Len(t) \in Nat /\ Len(u) = Len(r) + Len(t)
        /\ \A i \in 1 .. Len(r) : u[i] = r[i]
        /\ \A i \in 1 .. Len(u) : i \notin 1 .. Len(r) =>
             i - Len(r) \in 1 .. Len(t) /\ u[i] = t[i - Len(r)]
    BY <2>4
  <2> HIDE DEF u
  <2>6. ASSUME NEW i \in 1 .. Len(u) PROVE u[i].seq = n + i - 1
    <3>1. CASE i \in 1 .. Len(r)
      BY <1>3, <2>5, <3>1 DEF Sound, Numbered
    <3>2. CASE i \notin 1 .. Len(r)
      <4>1. i - Len(r) \in 1 .. Len(t) /\ u[i] = t[i - Len(r)]
        BY <2>5, <3>2
      <4>2. t[i - Len(r)].seq = n + Len(r) + (i - Len(r)) - 1
        BY <1>3, <4>1 DEF Sound, Numbered
      <4>3. n + Len(r) + (i - Len(r)) - 1 = n + i - 1
        BY <2>5
      <4> QED BY <4>1, <4>2, <4>3
    <3> QED BY <3>1, <3>2
  <2>7. Sound(u, n)
    BY <2>1, <2>6 DEF Sound, Numbered
  <2> QED BY <2>7 DEF u
<1> QED BY <1>1, <1>2, <1>3

\* What is on its way.
MessagesInv ==
  /\ Requests(asked) /\ Answers(inbox)
  /\ seq \in Nat /\ seq > 0
  /\ NumbersOf(Flow, seq)

\* The user or a handler asks,
LEMMA AskMessages ==
  ASSUME MessagesInv, NEW r, Sound(r, seq), Ask(r), inbox' = inbox
  PROVE  MessagesInv' /\ seq <= seq' /\ Shifted(Flow, Flow', 0, r)
<1>1. /\ asked' = asked \o r /\ seq' = seq + Len(r) /\ Requests(r) /\ Requests(asked) /\ Answers(inbox)
      /\ seq \in Nat /\ seq > 0
  BY DEF Ask, Sound, MessagesInv
<1>2. IsSequence(r) /\ IsSequence(asked) /\ IsSequence(inbox) /\ Len(r) \in Nat
  <2>1. IsSequence(r)
    BY <1>1, RequestsFacts
  <2> QED BY <1>1, <2>1, RequestsFacts, AnswersFacts DEF IsSequence
<1>3. Shifted(FlowOf(inbox, asked), FlowOf(inbox, asked \o r), 0, r)
  BY <1>2, FlowAsk
<1>4. Shifted(Flow, Flow', 0, r)
  BY <1>1, <1>3 DEF Flow
<1>5. seq \in Nat \ {0} /\ 0 \in {0, 1} /\ NumbersOf(Flow, seq) /\ Numbered(r, seq)
  BY <1>1 DEF MessagesInv, Sound
<1>6. NumbersOf(Flow', seq')
  BY <1>1, <1>4, <1>5, NumbersShifted
<1>7. seq' \in Nat /\ seq' > 0 /\ seq <= seq'
  BY <1>1, <1>2
<1>8. Requests(asked')
  BY <1>1, RequestsFacts
<1> QED BY <1>1, <1>4, <1>6, <1>7, <1>8 DEF MessagesInv

\* and a message is handled.
LEMMA HandleMessages ==
  ASSUME MessagesInv, NEW r, Sound(r, seq), Ask(r), inbox # <<>>, inbox' = Tail(inbox)
  PROVE  /\ MessagesInv' /\ seq <= seq' /\ Shifted(Flow, Flow', 1, r)
         /\ GoodAnswer(Head(inbox))
         /\ 1 \in 1 .. Len(Flow) /\ Flow[1] = AnswerMark(Head(inbox))
<1>1. /\ asked' = asked \o r /\ seq' = seq + Len(r) /\ Requests(r) /\ Requests(asked) /\ Answers(inbox)
      /\ seq \in Nat /\ seq > 0
  BY DEF Ask, Sound, MessagesInv
<1>2. IsSequence(r) /\ IsSequence(asked) /\ IsSequence(inbox) /\ Len(r) \in Nat
  <2>1. IsSequence(r)
    BY <1>1, RequestsFacts
  <2> QED BY <1>1, <2>1, RequestsFacts, AnswersFacts DEF IsSequence
<1>3. /\ Shifted(FlowOf(inbox, asked), FlowOf(Tail(inbox), asked \o r), 1, r)
      /\ 1 \in 1 .. Len(FlowOf(inbox, asked)) /\ FlowOf(inbox, asked)[1] = AnswerMark(Head(inbox))
  BY <1>2, FlowHandle
<1>4. Shifted(Flow, Flow', 1, r)
  BY <1>1, <1>3 DEF Flow
<1>5. seq \in Nat \ {0} /\ 1 \in {0, 1} /\ NumbersOf(Flow, seq) /\ Numbered(r, seq)
  BY <1>1 DEF MessagesInv, Sound
<1>6. NumbersOf(Flow', seq')
  BY <1>1, <1>4, <1>5, NumbersShifted
<1>7. seq' \in Nat /\ seq' > 0 /\ seq <= seq'
  BY <1>1, <1>2
<1>8. Requests(asked')
  BY <1>1, RequestsFacts
<1>9. Answers(inbox') /\ GoodAnswer(Head(inbox))
  BY <1>1, AnswersFacts
<1> QED BY <1>1, <1>3, <1>4, <1>6, <1>7, <1>8, <1>9 DEF MessagesInv, Flow

\* Nothing is asked.
LEMMA AskNothing ==
  ASSUME MessagesInv, asked' = asked, seq' = seq
  PROVE  Ask(<<>>) /\ Sound(<<>>, seq)
<1>1. PICK S : asked \in Seq(S)
  BY DEF MessagesInv, Requests
<1>2. asked \o <<>> = asked /\ Len(<<>>) = 0 /\ seq + 0 = seq /\ seq \in Nat
  BY <1>1 DEF MessagesInv
<1> QED BY <1>2, SoundFacts DEF Ask

-----------------------------------------------------------------------------
(* The variables that are no messages                                       *)

FramesInv ==
  /\ stop \in {0, lastStop} /\ lastStop \in 0 .. MaxStops
  /\ depth \in [Threads -> 1 .. MaxDepth] /\ source \in 1 .. MaxDepth
  /\ active \in Threads \cup {None}
  /\ backtrace \in Seq(Frames) /\ frame \in Nat /\ user \in Nat
  /\ memory \in Frames \cup {None}
  /\ sessions \in 0 .. MaxSessions /\ acts \in 0 .. MaxActs

FlagsInv ==
  /\ running \in BOOLEAN /\ flagged \in BOOLEAN /\ crashed \in BOOLEAN /\ disturbed \in BOOLEAN

\* A node of the tree of watches.
GoodNode(x) ==
  /\ x = [name |-> x.name, value |-> x.value, ref |-> x.ref, seq |-> x.seq, kids |-> x.kids]
  /\ x.value \in MaybeVar /\ Sendable(x.ref) /\ x.seq \in Nat

GoodWatch(x) == GoodNode(x) /\ \A k \in x.kids : GoodNode(k)

WatchesInv ==
  /\ \A w \in DOMAIN stack : stack[w] \in Named /\ stack[w].name \notin Sections /\ stack[w].name = w
  /\ DOMAIN watches \subseteq Symbols
  /\ \A w \in DOMAIN watches :
       /\ GoodWatch(watches[w]) /\ watches[w].name = w
       /\ watches[w].seq < seq \/ sessions > 1
       /\ sessions = 0 => watches[w].seq = 0
  /\ sessions = 0 => ~running
  /\ registers \subseteq Named

ShownInv == MessagesInv /\ FramesInv /\ FlagsInv /\ WatchesInv

\* They are the type invariant.
LEMMA ShownTypes == ShownInv => TypeOK
<1> SUFFICES ASSUME ShownInv PROVE TypeOK
  OBVIOUS
<1>1. \A w \in DOMAIN stack : stack[w] \in Named
  BY DEF ShownInv, WatchesInv
<1>2. /\ DOMAIN watches \subseteq Symbols /\ registers \subseteq Named
      /\ \A w \in DOMAIN watches :
           /\ watches[w].name = w /\ (watches[w].seq < seq \/ sessions > 1)
           /\ watches[w].value \in MaybeVar /\ watches[w].ref \in MaybeVar
  BY DEF ShownInv, WatchesInv, GoodWatch, GoodNode, Sendable
<1> QED BY <1>1, <1>2 DEF ShownInv, FramesInv, FlagsInv, MessagesInv, TypeOK

\* A sequence with its elements in S.
LEMMA Retyped ==
  ASSUME NEW R, NEW S, NEW s \in Seq(R), \A i \in 1 .. Len(s) : s[i] \in S
  PROVE  s \in Seq(S)
OBVIOUS

\* What the adapter finds behind a reference.
LEMMA ContentsFacts ==
  ASSUME NEW name \in DOMAIN Contents
  PROVE  /\ Contents[name] \in Seq(Names)
         /\ \A i \in 1 .. Len(Contents[name]) :
              /\ Contents[name][i] \notin Sections
              /\ name \notin Sections => Contents[name][i] # "GPR"
              /\ name # "Locals" => Contents[name][i] \notin LocalNames
         /\ name = "Registers" => Len(Contents[name]) = 1 /\ Contents[name][1] = "GPR"
         /\ name = "Locals" => Len(Contents[name]) = 2 /\ Contents[name][1] = "n"
<1> DEFINE v == Contents[name]
           Listed == v \in Seq(Names)
           Apart == \A i \in 1 .. Len(v) : v[i] \notin Sections /\ (name \notin Sections => v[i] # "GPR")
                                          /\ (name # "Locals" => v[i] \notin LocalNames)
<1>1. name \in {"Locals", "Registers", "GPR", "s", "t", "u"}
  BY DEF Contents
<1>2. \A x : x \in LocalNames => x = "n" \/ x = "s"
  <2> DEFINE t == <<"n", "s">>
  <2>1. Contents.Locals = t
    BY DEF Contents
  <2>2. DOMAIN t = 1 .. 2 /\ t[1] = "n" /\ t[2] = "s"
    OBVIOUS
  <2>3. \A i \in 1 .. 2 : i = 1 \/ i = 2
    OBVIOUS
  <2> HIDE DEF t
  <2> QED BY <2>1, <2>2, <2>3 DEF LocalNames, Entries
<1>3. ASSUME NEW R, v \in Seq(R) PROVE Listed
  <2>1. DOMAIN v = 1 .. Len(v)
    BY <1>3
  <2>2. \A i \in 1 .. Len(v) : v[i] \in Entries(v)
    BY <2>1 DEF Entries
  <2>3. Entries(v) \subseteq Names
    BY DEF Names
  <2> HIDE DEF v
  <2>4. \A i \in 1 .. Len(v) : v[i] \in Names
    BY <2>2, <2>3
  <2> QED BY <1>3, <2>4, Retyped
<1>4. ASSUME NEW a, NEW b, v = <<a, b>>, a \notin Sections, b \notin Sections, a # "GPR", b # "GPR",
             name # "Locals" => a \notin LocalNames /\ b \notin LocalNames
      PROVE  Listed /\ Apart /\ Len(v) = 2 /\ v[1] = a
  <2> DEFINE t == <<a, b>>
  <2>1. t \in Seq({a, b}) /\ Len(t) = 2 /\ t[1] = a /\ t[2] = b
    OBVIOUS
  <2>2. \A i \in 1 .. 2 : i = 1 \/ i = 2
    OBVIOUS
  <2>3. v = t
    BY <1>4
  <2> HIDE DEF t, v
  <2>4. Listed
    BY <1>3, <2>1, <2>3
  <2> QED BY <1>4, <2>1, <2>2, <2>3, <2>4
<1>5. ASSUME NEW a, v = <<a>>, a \notin Sections, a \notin LocalNames, name # "Registers" => a # "GPR"
      PROVE  Listed /\ Apart /\ Len(v) = 1 /\ v[1] = a
  <2> DEFINE t == <<a>>
  <2>1. t \in Seq({a}) /\ Len(t) = 1 /\ t[1] = a
    OBVIOUS
  <2>2. \A i \in 1 .. 1 : i = 1
    OBVIOUS
  <2>3. v = t
    BY <1>5
  <2> HIDE DEF t, v
  <2>4. Listed
    BY <1>3, <2>1, <2>3
  <2> QED BY <1>5, <2>1, <2>2, <2>3, <2>4 DEF Sections
<1>6. CASE name = "Locals"
  <2>1. v = <<"n", "s">>
    BY <1>6 DEF Contents
  <2> HIDE DEF v, Listed, Apart
  <2>2. Listed /\ Apart /\ Len(v) = 2 /\ v[1] = "n"
    BY <1>4, <1>6, <2>1 DEF Sections
  <2> QED BY <1>6, <2>2 DEF v, Listed, Apart
<1>7. CASE name = "s"
  <2>1. v = <<"a", "t">>
    BY <1>7 DEF Contents
  <2>2. "a" \notin LocalNames /\ "t" \notin LocalNames
    BY <1>2
  <2> HIDE DEF v, Listed, Apart
  <2>3. Listed /\ Apart /\ Len(v) = 2 /\ v[1] = "a"
    BY <1>4, <2>1, <2>2 DEF Sections
  <2> QED BY <1>7, <2>3 DEF v, Listed, Apart
<1>8. CASE name = "Registers"
  <2>1. v = <<"GPR">> /\ "GPR" \notin LocalNames
    BY <1>2, <1>8 DEF Contents
  <2> HIDE DEF v, Listed, Apart
  <2>2. Listed /\ Apart /\ Len(v) = 1 /\ v[1] = "GPR"
    BY <1>5, <1>8, <2>1 DEF Sections
  <2> QED BY <1>8, <2>2 DEF v, Listed, Apart
<1>9. CASE name = "GPR" \/ name = "t"
  <2>1. PICK c \in {"rax", "u"} : v = <<c>>
    BY <1>9 DEF Contents
  <2>2. c \notin LocalNames
    BY <1>2
  <2> HIDE DEF v, Listed, Apart
  <2>3. Listed /\ Apart
    BY <1>5, <2>1, <2>2 DEF Sections
  <2> QED BY <1>9, <2>3 DEF v, Listed, Apart
<1>10. CASE name = "u"
  <2> DEFINE t == <<>>
  <2>1. v = t
    BY <1>10 DEF Contents
  <2>2. t \in Seq({}) /\ Len(t) = 0
    OBVIOUS
  <2> HIDE DEF t, v
  <2>3. Listed
    BY <1>3, <2>1, <2>2
  <2> QED BY <1>10, <2>1, <2>2, <2>3 DEF v
<1> QED BY <1>1, <1>6, <1>7, <1>8, <1>9, <1>10

\* Variables of a frame.
LEMMA VariablesFacts ==
  ASSUME NEW f \in Frames, NEW name \in DOMAIN Contents
  PROVE  /\ Variables(f, name) \in Seq(Named)
         /\ Len(Variables(f, name)) = Len(Contents[name])
         /\ \A i \in 1 .. Len(Contents[name]) : Variables(f, name)[i] = Variable(f, Contents[name][i])
         /\ GoodVariables(Variables(f, name))
<1> DEFINE c == Contents[name]
           vs == Variables(f, name)
<1>1. c \in Seq(Names) /\ \A i \in 1 .. Len(c) : c[i] \notin Sections
  BY ContentsFacts
<1> HIDE DEF c
<1>2. /\ vs = [i \in 1 .. Len(c) |-> Variable(f, c[i])]
      /\ Len(c) \in Nat /\ \A i \in 1 .. Len(c) : c[i] \in Names
  BY <1>1 DEF Variables, c
<1>3. \A i \in 1 .. Len(c) : Variable(f, c[i]) \in Named /\ Variable(f, c[i]).name = c[i]
  BY <1>2 DEF Variable, Named
<1>4. vs \in Seq(Named) /\ Len(vs) = Len(c) /\ \A i \in 1 .. Len(c) : vs[i] = Variable(f, c[i])
  BY <1>2, <1>3
<1> HIDE DEF vs
<1>5. GoodVariables(vs)
  BY <1>1, <1>3, <1>4 DEF GoodVariables
<1> QED BY <1>4, <1>5 DEF vs, c

\* No variables.
LEMMA NoVariables == GoodVariables(<<>>) /\ \A i \in 1 .. Len(<<>>) : FALSE
<1> DEFINE e == <<>>
<1>1. e \in Seq(Named) /\ Len(e) = 0
  OBVIOUS
<1> HIDE DEF e
<1>2. GoodVariables(e) /\ \A i \in 1 .. Len(e) : FALSE
  BY <1>1 DEF GoodVariables
<1> QED BY <1>2 DEF e

\* Requests that have no part in the chain that follows a stop.
Modest(r, n) == Sound(r, n) /\ \A i \in 1 .. Len(r) : r[i].kind \notin {"variables", "scopes"}

\* They add up.
LEMMA ModestFacts ==
  ASSUME NEW n \in Nat
  PROVE  /\ Modest(<<>>, n)
         /\ \A a : GoodRequest(a) /\ a.seq = n /\ a.kind \notin {"variables", "scopes"} => Modest(<<a>>, n)
         /\ \A r, t : Modest(r, n) /\ Modest(t, n + Len(r)) => Modest(r \o t, n)
<1>1. Modest(<<>>, n)
  <2> DEFINE e == <<>>
  <2>1. Len(e) = 0 /\ Sound(e, n) /\ 1 .. 0 = {}
    BY SoundFacts
  <2> HIDE DEF e
  <2>2. Modest(e, n)
    BY <2>1 DEF Modest
  <2> QED BY <2>2 DEF e
<1>2. ASSUME NEW a, GoodRequest(a), a.seq = n, a.kind \notin {"variables", "scopes"}
      PROVE  Modest(<<a>>, n)
  <2> DEFINE s == <<a>>
  <2>1. Len(s) = 1 /\ s[1] = a /\ \A i \in 1 .. 1 : i = 1
    OBVIOUS
  <2>2. Sound(s, n)
    BY <1>2, SoundFacts
  <2> HIDE DEF s
  <2>3. Modest(s, n)
    BY <1>2, <2>1, <2>2 DEF Modest
  <2> QED BY <2>3 DEF s
<1>3. ASSUME NEW r, NEW t, Modest(r, n), Modest(t, n + Len(r)) PROVE Modest(r \o t, n)
  <2> DEFINE u == r \o t
  <2>1. Sound(r, n) /\ Sound(t, n + Len(r))
    BY <1>3 DEF Modest
  <2>2. Sound(u, n)
    BY <2>1, SoundFacts
  <2>3. PICK R : r \in Seq(R)
    BY <2>1 DEF Sound, Requests
  <2>4. PICK T : t \in Seq(T)
    BY <2>1 DEF Sound, Requests
  <2>5. r \in Seq(R \cup T) /\ t \in Seq(R \cup T)
    BY <2>3, <2>4
  <2>6. /\ \A i \in 1 .. Len(r) : u[i] = r[i]
        /\ \A i \in 1 .. Len(u) : i \notin 1 .. Len(r) =>
             i - Len(r) \in 1 .. Len(t) /\ u[i] = t[i - Len(r)]
    BY <2>5
  <2> HIDE DEF u
  <2>7. Modest(u, n)
    BY <1>3, <2>2, <2>6 DEF Modest
  <2> QED BY <2>7 DEF u
<1> QED BY <1>1, <1>2, <1>3

\* What is asked about the frame in use.
LEMMA FrameSound ==
  ASSUME FramesInv, InRange, NEW kind, kind \notin {"stackTrace", "goto", "variables", "stopped"},
         NEW node, NEW n \in Nat
  PROVE  /\ Sound(AskFrame(kind, node, n), n)
         /\ kind # "scopes" => Modest(AskFrame(kind, node, n), n)
<1> DEFINE m == Request(kind, backtrace[frame], node, n)
<1>1. m.kind = kind /\ m.arg = backtrace[frame] /\ m.seq = n /\ HasKind(m) /\ "arg" \in DOMAIN m
  BY FieldFacts
<1>2. frame # 0 => backtrace[frame] \in Frames
  BY DEF FramesInv, InRange
<1> HIDE DEF m
<1>3. frame # 0 => GoodRequest(m)
  BY <1>1, <1>2 DEF GoodRequest
<1>4. AskFrame(kind, node, n) = IF frame = 0 THEN <<>> ELSE <<m>>
  BY DEF AskFrame, m
<1>5. Sound(<<>>, n) /\ Modest(<<>>, n)
  BY SoundFacts, ModestFacts
<1>6. frame # 0 => Sound(<<m>>, n)
  BY <1>1, <1>3, SoundFacts
<1>7. frame # 0 /\ kind # "scopes" => Modest(<<m>>, n)
  <2>1. kind # "scopes" => m.kind \notin {"variables", "scopes"}
    BY <1>1
  <2> QED BY <1>1, <1>3, <2>1, ModestFacts
<1> QED BY <1>4, <1>5, <1>6, <1>7

\* The disassembly and the memory,
LEMMA RefreshSound ==
  ASSUME FramesInv, InRange, NEW n \in Nat PROVE Modest(Refresh(n), n)
<1> DEFINE code == IF DisassemblyShown THEN AskFrame("disassemble", Nobody, n) ELSE <<>>
           data == IF MemoryShown THEN AskFrame("memory", Nobody, n + Len(code)) ELSE <<>>
<1>1. Modest(code, n)
  BY FrameSound, ModestFacts
<1>2. Len(code) \in Nat
  BY <1>1 DEF Modest, Sound, Requests
<1> HIDE DEF code
<1>3. n + Len(code) \in Nat
  BY <1>2
<1>4. Modest(data, n + Len(code))
  BY <1>3, FrameSound, ModestFacts
<1>5. Refresh(n) = code \o data
  BY DEF Refresh, code
<1> HIDE DEF data
<1>6. Modest(code \o data, n)
  BY <1>1, <1>4, ModestFacts
<1> QED BY <1>5, <1>6

\* and what a watch is updated with.
LEMMA UpdateSound ==
  ASSUME FramesInv, InRange, NEW node, NEW n \in Nat PROVE Modest(UpdateRequests(node, n), n)
<1> DEFINE m == Request("info", None, Nobody, n)
           info == <<m>>
           value == AskFrame("evaluate", <<node.name>>, n + 1)
<1>1. m.kind = "info" /\ m.seq = n /\ HasKind(m)
  BY FieldFacts
<1>2. GoodRequest(m)
  BY <1>1 DEF GoodRequest
<1> HIDE DEF m
<1>3. Modest(info, n) /\ Len(info) = 1
  BY <1>1, <1>2, ModestFacts
<1>4. Modest(value, n + 1)
  BY FrameSound
<1>5. UpdateRequests(node, n) = info \o value
  BY DEF UpdateRequests, m
<1> HIDE DEF info, value
<1>6. Modest(value, n + Len(info))
  BY <1>3, <1>4
<1>7. Modest(info \o value, n)
  BY <1>3, <1>6, ModestFacts
<1> QED BY <1>5, <1>7

\* They are asked for by nobody, and colorless.
LEMMA ModestMarks ==
  ASSUME NEW m, m.kind \notin {"variables", "scopes"}
  PROVE  RequestMark(m).node = Nobody /\ RequestMark(m).color = "plain"
BY DEF RequestMark, RequestColor, Mark

-----------------------------------------------------------------------------
(* Nodes                                                                    *)

\* New ones.
LEMMA NodeFacts ==
  /\ \A w : LET x == Node(w, None, None)
          IN  GoodWatch(x) /\ x.name = w /\ x.seq = 0 /\ x.kids = {}
  /\ \A v \in Named : v.name \notin Sections =>
       LET x == NodeOf(v)
       IN  GoodWatch(x) /\ x.name = v.name /\ x.seq = 0 /\ x.kids = {}
<1>1. ASSUME NEW w, NEW v \in MaybeVar, NEW r, Sendable(r)
      PROVE  LET x == Node(w, v, r)
             IN  GoodWatch(x) /\ x.name = w /\ x.seq = 0 /\ x.kids = {}
  <2> DEFINE x == Node(w, v, r)
  <2>1. /\ x = [name |-> w, value |-> v, ref |-> r, seq |-> 0, kids |-> {}]
        /\ x.name = w /\ x.value = v /\ x.ref = r /\ x.seq = 0 /\ x.kids = {}
    BY DEF Node
  <2> HIDE DEF x
  <2>2. GoodNode(x)
    BY <1>1, <2>1 DEF GoodNode
  <2>3. GoodWatch(x)
    BY <2>1, <2>2 DEF GoodWatch
  <2> QED BY <2>1, <2>3 DEF x
<1>2. Sendable(None) /\ None \in MaybeVar
  BY DEF Sendable, MaybeVar
<1>3. ASSUME NEW v \in Named, v.name \notin Sections PROVE Sendable(Reference(v)) /\ v \in MaybeVar
  BY <1>3 DEF Sendable, Reference, Structured, MaybeVar
<1> QED BY <1>1, <1>2, <1>3 DEF NodeOf

\* The structured ones of some variables.
LEMMA StructuredFacts ==
  ASSUME NEW vs, GoodVariables(vs), NEW I \in SUBSET (DOMAIN vs)
  PROVE  \A k \in StructuredIn(vs, I) : GoodNode(k)
<1>1. ASSUME NEW i \in I PROVE vs[i] \in Named /\ vs[i].name \notin Sections
  <2>1. DOMAIN vs = 1 .. Len(vs) /\ vs \in Seq(Named)
    BY DEF GoodVariables
  <2>2. i \in 1 .. Len(vs)
    BY <2>1
  <2> QED BY <2>1, <2>2 DEF GoodVariables
<1>2. ASSUME NEW i \in I PROVE GoodNode(NodeOf(vs[i]))
  BY <1>1, NodeFacts DEF GoodWatch
<1> QED BY <1>2 DEF StructuredIn

\* A node that is expanded, and one that gets children.
LEMMA OpenedFacts ==
  ASSUME NEW x, GoodNode(x)
  PROVE  /\ \A n \in Nat : LET y == Opened(x, n)
                           IN  GoodWatch(y) /\ y.name = x.name /\ y.seq = n /\ y.kids = {}
         /\ \A new : GoodNode(Adopt(x, new))
<1>1. /\ x = [name |-> x.name, value |-> x.value, ref |-> x.ref, seq |-> x.seq, kids |-> x.kids]
      /\ x.value \in MaybeVar /\ Sendable(x.ref) /\ x.seq \in Nat
  BY DEF GoodNode
<1>2. ASSUME NEW n \in Nat
      PROVE  LET y == Opened(x, n) IN GoodWatch(y) /\ y.name = x.name /\ y.seq = n /\ y.kids = {}
  <2> DEFINE y == Opened(x, n)
  <2>1. y = [name |-> x.name, value |-> x.value, ref |-> x.ref, seq |-> n, kids |-> {}]
    <3> DEFINE z == [x EXCEPT !.seq = n]
    <3>1. z = [name |-> x.name, value |-> x.value, ref |-> x.ref, seq |-> n, kids |-> x.kids]
      BY <1>1
    <3>2. z.name = x.name /\ z.value = x.value /\ z.ref = x.ref /\ z.seq = n
      BY <3>1
    <3>3. y = [z EXCEPT !.kids = {}]
      BY <1>1 DEF Opened
    <3> HIDE DEF z, y
    <3>4. y = [name |-> z.name, value |-> z.value, ref |-> z.ref, seq |-> z.seq, kids |-> {}]
      BY <3>1, <3>2, <3>3
    <3> QED BY <3>2, <3>4
  <2>2. y.name = x.name /\ y.value = x.value /\ y.ref = x.ref /\ y.seq = n /\ y.kids = {}
    BY <2>1
  <2> HIDE DEF y
  <2>3. GoodNode(y)
    BY <1>1, <2>1, <2>2 DEF GoodNode
  <2>4. GoodWatch(y)
    BY <2>2, <2>3 DEF GoodWatch
  <2> QED BY <2>2, <2>4 DEF y
<1>3. ASSUME NEW new PROVE GoodNode(Adopt(x, new))
  <2> DEFINE y == Adopt(x, new)
  <2>1. y = [name |-> x.name, value |-> x.value, ref |-> x.ref, seq |-> x.seq, kids |-> x.kids \cup new]
    BY <1>1 DEF Adopt
  <2>2. y.name = x.name /\ y.value = x.value /\ y.ref = x.ref /\ y.seq = x.seq /\ y.kids = x.kids \cup new
    BY <2>1
  <2> HIDE DEF y
  <2>3. GoodNode(y)
    BY <1>1, <2>1, <2>2 DEF GoodNode
  <2> QED BY <2>3 DEF y
<1> QED BY <1>2, <1>3

\* A watch that takes what was answered.  One that has no children gets all the structured
\* variables when it waits for them, and stays without when it waits for another answer.
LEMMA CheckedFacts ==
  ASSUME NEW x, GoodWatch(x), NEW vs, GoodVariables(vs), NEW n \in Nat
  PROVE  LET y == Checked(x, vs, n)
         IN  /\ GoodWatch(y) /\ y.name = x.name /\ y.seq \in {x.seq, n}
             /\ x.kids = {} /\ x.seq = n => y.kids = StructuredIn(vs, DOMAIN vs)
             /\ x.kids = {} /\ y.seq # n => y.kids = {}
<1> DEFINE match == {i \in DOMAIN vs : vs[i].name = x.name}
           from == IF x.seq = n THEN DOMAIN vs
                   ELSE {i \in DOMAIN vs : \E j \in match : j <= i}
           rest == StructuredIn(vs, DOMAIN vs \ from)
           kids == {IF k.seq = n THEN Adopt(k, rest) ELSE k : k \in x.kids}
           new == StructuredIn(vs, from)
           all == kids \cup new
           own == [x EXCEPT !.kids = all]
           i == CHOOSE i \in match : TRUE
           v == vs[i]
           y == Checked(x, vs, n)
<1>1. y = IF match = {} THEN own ELSE [own EXCEPT !.value = v, !.ref = Reference(v), !.seq = n]
  BY DEF Checked
<1>2. /\ x = [name |-> x.name, value |-> x.value, ref |-> x.ref, seq |-> x.seq, kids |-> x.kids]
      /\ x.value \in MaybeVar /\ Sendable(x.ref) /\ x.seq \in Nat
      /\ \A k \in x.kids : GoodNode(k)
  BY DEF GoodWatch, GoodNode
<1>3. from \in SUBSET (DOMAIN vs)
  OBVIOUS
<1>4. \A k \in new : GoodNode(k)
  BY <1>3, StructuredFacts
<1>5. \A k \in kids : GoodNode(k)
  <2> HIDE DEF rest
  <2> QED BY <1>2, OpenedFacts
<1>6. match # {} => v \in MaybeVar /\ Sendable(Reference(v))
  <2> SUFFICES ASSUME match # {} PROVE v \in MaybeVar /\ Sendable(Reference(v))
    OBVIOUS
  <2>1. i \in DOMAIN vs
    OBVIOUS
  <2> HIDE DEF i
  <2>2. v \in Named /\ v.name \notin Sections
    <3>1. DOMAIN vs = 1 .. Len(vs) /\ vs \in Seq(Named)
      BY DEF GoodVariables
    <3>2. i \in 1 .. Len(vs)
      BY <2>1, <3>1
    <3> QED BY <3>1, <3>2 DEF GoodVariables
  <2> QED BY <2>2 DEF Sendable, Reference, Structured, MaybeVar
<1>7. x.kids = {} => kids = {}
  OBVIOUS
<1>8. x.seq = n => from = DOMAIN vs
  OBVIOUS
<1>9. x.seq # n /\ match = {} => new = {}
  BY DEF StructuredIn
<1> HIDE DEF y, kids, new, from, rest, v, i
<1>10. all = kids \cup new
  OBVIOUS
<1> HIDE DEF all
<1>11. CASE match = {}
  <2>1. y = [name |-> x.name, value |-> x.value, ref |-> x.ref, seq |-> x.seq, kids |-> all]
    BY <1>1, <1>2, <1>11
  <2>2. y.name = x.name /\ y.value = x.value /\ y.ref = x.ref /\ y.seq = x.seq /\ y.kids = all
    BY <2>1
  <2>3. GoodNode(y)
    BY <1>2, <2>1, <2>2 DEF GoodNode
  <2>4. GoodWatch(y)
    BY <1>4, <1>5, <1>10, <2>2, <2>3 DEF GoodWatch
  <2>5. x.kids = {} /\ x.seq = n => y.kids = StructuredIn(vs, DOMAIN vs)
    BY <1>7, <1>8, <1>10, <2>2 DEF new
  <2>6. x.kids = {} /\ y.seq # n => y.kids = {}
    BY <1>7, <1>9, <1>10, <1>11, <2>2
  <2> QED BY <2>2, <2>4, <2>5, <2>6 DEF y
<1>12. CASE match # {}
  <2>1. own = [name |-> x.name, value |-> x.value, ref |-> x.ref, seq |-> x.seq, kids |-> all]
    BY <1>2
  <2>2. y = [name |-> x.name, value |-> v, ref |-> Reference(v), seq |-> n, kids |-> all]
    BY <1>1, <1>12, <2>1
  <2>3. y.name = x.name /\ y.value = v /\ y.ref = Reference(v) /\ y.seq = n /\ y.kids = all
    BY <2>2
  <2>4. GoodNode(y)
    BY <1>6, <1>12, <2>2, <2>3 DEF GoodNode
  <2>5. GoodWatch(y)
    BY <1>4, <1>5, <1>10, <2>3, <2>4 DEF GoodWatch
  <2>6. x.kids = {} /\ x.seq = n => y.kids = StructuredIn(vs, DOMAIN vs)
    BY <1>7, <1>8, <1>10, <2>3 DEF new
  <2> QED BY <2>3, <2>5, <2>6 DEF y
<1> QED BY <1>11, <1>12

-----------------------------------------------------------------------------
(* The adapter                                                              *)

\* What it answers has the type of an answer, and matters to what the request did.
LEMMA GoodBody ==
  ASSUME FramesInv, NEW req, GoodRequest(req), NEW body \in Bodies(req)
  PROVE  /\ GoodAnswer(Answer(req, body)) /\ HasKind(Answer(req, body))
         /\ Fades(AnswerMark(Answer(req, body)), RequestMark(req))
<1> DEFINE e == Answer(req, body)
<1>1. /\ HasKind(e) /\ e.kind = req.kind /\ e.body = body /\ e.node = req.node /\ e.seq = req.seq
      /\ "body" \in DOMAIN e
  BY FieldFacts
<1> HIDE DEF e
<1>2. /\ AnswerMark(e).number = RequestMark(req).number
      /\ AnswerMark(e).node = RequestMark(req).node
      /\ AnswerMark(e).color = AnswerColor(e) /\ RequestMark(req).color = RequestColor(req)
  BY <1>1 DEF AnswerMark, RequestMark, Mark
<1>3. stop \in Nat
  BY InspectAssumption DEF FramesInv
<1>4. \A t \in Threads, l \in Nat : Frame(t, l) \in Frames
  BY <1>3 DEF Frame, Frames
<1>5. req.kind = "stackTrace" => body.frames \in Seq(Frames) /\ body.source \in Nat \ {0}
  <2> SUFFICES ASSUME req.kind = "stackTrace"
               PROVE  body.frames \in Seq(Frames) /\ body.source \in Nat \ {0}
    OBVIOUS
  <2> DEFINE s == IF stop = 0 \/ req.arg = None THEN <<>>
                  ELSE [i \in 1 .. depth[req.arg] |-> Frame(req.arg, i)]
  <2>1. body = [frames |-> s, source |-> source]
    BY DEF Bodies
  <2>2. body.frames = s /\ body.source \in Nat \ {0}
    BY <2>1, InspectAssumption DEF FramesInv
  <2>3. CASE stop = 0 \/ req.arg = None
    <3>1. s = <<>> /\ <<>> \in Seq(Frames)
      BY <2>3
    <3> QED BY <2>2, <3>1
  <2>4. CASE stop # 0 /\ req.arg # None
    <3>1. req.arg \in Threads
      BY <2>4 DEF GoodRequest
    <3>2. depth[req.arg] \in Nat
      BY <3>1, InspectAssumption DEF FramesInv
    <3> DEFINE n == depth[req.arg]
               a == req.arg
               f == [i \in 1 .. n |-> Frame(a, i)]
    <3>3. s = f
      BY <2>4
    <3> HIDE DEF n, a
    <3>4. f \in Seq(Frames)
      BY <1>4, <3>1, <3>2 DEF n, a
    <3> QED BY <2>2, <3>3, <3>4
  <2> QED BY <2>3, <2>4
<1>6. req.kind \in {"scopes", "evaluate", "memory"} => body \in Frames \cup {None}
  BY DEF Bodies, GoodRequest
<1>7. req.kind = "info" => GoodVariables(body)
  <2> SUFFICES ASSUME req.kind = "info" PROVE GoodVariables(body)
    OBVIOUS
  <2>1. body \in {<<>>} \/ \E t \in Threads : \E name \in {"Locals", "s"} :
          body = Variables(Frame(t, 1), name)
    BY DEF Bodies
  <2>2. \A t \in Threads : \A name \in {"Locals", "s"} : GoodVariables(Variables(Frame(t, 1), name))
    <3>1. {"Locals", "s"} \subseteq DOMAIN Contents
      BY DEF Contents
    <3>2. \A t \in Threads : Frame(t, 1) \in Frames
      BY <1>4
    <3> QED BY <3>1, <3>2, VariablesFacts
  <2> QED BY <2>1, <2>2, NoVariables
<1>8. req.kind = "variables" =>
        /\ GoodVariables(body)
        /\ req.node # Nobody => \A i \in 1 .. Len(body) : body[i].name # "GPR"
        /\ AnswerColor(e) \in {RequestColor(req), "plain"}
  <2> SUFFICES ASSUME req.kind = "variables"
               PROVE  /\ GoodVariables(body)
                      /\ req.node # Nobody => \A i \in 1 .. Len(body) : body[i].name # "GPR"
                      /\ AnswerColor(e) \in {RequestColor(req), "plain"}
    OBVIOUS
  <2>1. body = IF req.arg # None /\ Valid(req.arg.frame)
               THEN Variables(req.arg.frame, req.arg.name) ELSE <<>>
    BY DEF Bodies
  <2>2. CASE ~(req.arg # None /\ Valid(req.arg.frame))
    <3>1. body = <<>>
      BY <2>1, <2>2
    <3>2. AnswerColor(e) = "plain"
      <4>1. e.body = <<>> /\ e.kind = "variables" /\ DOMAIN e.body = {}
        BY <1>1, <3>1
      <4> QED BY <4>1 DEF AnswerColor
    <3> QED BY <3>1, <3>2, NoVariables
  <2>3. CASE req.arg # None /\ Valid(req.arg.frame)
    <3> DEFINE f == req.arg.frame
               name == req.arg.name
               c == Contents[name]
    <3>1. f \in Frames /\ name \in DOMAIN Contents
      BY <2>3 DEF GoodRequest, MaybeVar, Named
    <3>2. body = Variables(f, name)
      BY <2>1, <2>3
    <3>3. /\ body \in Seq(Named) /\ Len(body) = Len(c) /\ GoodVariables(body)
          /\ \A i \in 1 .. Len(c) : body[i] = Variable(f, c[i])
      BY <3>1, <3>2, VariablesFacts
    <3>4. \A x : Variable(f, x).name = x
      BY DEF Variable
    <3>5. \A i \in 1 .. Len(body) : body[i].name = c[i]
      BY <3>3, <3>4
    <3>6. /\ \A i \in 1 .. Len(c) : /\ name \notin Sections => c[i] # "GPR"
                                    /\ name # "Locals" => c[i] \notin LocalNames
          /\ name = "Registers" => Len(c) = 1 /\ c[1] = "GPR"
          /\ name = "Locals" => Len(c) = 2 /\ c[1] = "n"
      BY <3>1, ContentsFacts
    <3>7. RequestColor(req) = IF name = "Locals" THEN "locals"
                              ELSE IF name = "Registers" THEN "registers" ELSE "plain"
      BY <2>3 DEF RequestColor
    <3>8. AnswerColor(e) = IF body # <<>> /\ body[1].name = "GPR" THEN "registers"
                           ELSE IF \E i \in DOMAIN body : body[i].name \in LocalNames THEN "locals"
                           ELSE "plain"
      BY <1>1 DEF AnswerColor
    <3>9. DOMAIN body = 1 .. Len(body) /\ (body # <<>> => 1 \in 1 .. Len(body))
      BY <3>3
    <3>10. req.node # Nobody => \A i \in 1 .. Len(body) : body[i].name # "GPR"
      BY <2>3, <3>3, <3>5, <3>6 DEF GoodRequest, Sendable
    <3> HIDE DEF f, name, c
    <3>11. CASE name = "Locals"
      <4>1. 1 \in 1 .. Len(body) /\ body[1].name # "GPR"
        BY <3>3, <3>5, <3>6, <3>11
      <4> QED BY <3>3, <3>7, <3>8, <3>10, <3>11, <4>1
    <3>12. CASE name = "Registers"
      <4>1. 1 \in 1 .. Len(body) /\ body[1].name = "GPR" /\ body # <<>>
        BY <3>3, <3>5, <3>6, <3>12
      <4> QED BY <3>3, <3>7, <3>8, <3>10, <3>12, <4>1
    <3>13. CASE name \notin Sections
      <4>1. \A i \in DOMAIN body : body[i].name # "GPR" /\ body[i].name \notin LocalNames
        BY <3>3, <3>5, <3>6, <3>9, <3>13 DEF Sections
      <4>2. AnswerColor(e) = "plain"
        BY <3>8, <3>9, <4>1
      <4> QED BY <3>3, <3>10, <4>2
    <3> QED BY <3>11, <3>12, <3>13 DEF Sections
  <2> QED BY <2>2, <2>3
<1>9. AnswerColor(e) = RequestColor(req) \/ AnswerColor(e) = "plain"
  <2>1. CASE req.kind = "variables"
    BY <1>8, <2>1
  <2>2. CASE req.kind # "variables"
    BY <1>1, <2>2 DEF AnswerColor, RequestColor
  <2> QED BY <2>1, <2>2
<1>10. GoodAnswer(e)
  BY <1>1, <1>5, <1>6, <1>7, <1>8 DEF GoodAnswer, GoodRequest
<1> QED BY <1>1, <1>2, <1>9, <1>10 DEF Fades, e

\* One part after the other.
LEMMA EmbedsTwice ==
  ASSUME NEW F, NEW E, NEW G, Embeds(F, E), Embeds(E, G)
  PROVE  Embeds(F, G)
<1>1. PICK m \in [1 .. Len(E) -> Int] :
        /\ \A i \in 1 .. Len(E) : Dull(E[i]) \/ (m[i] \in 1 .. Len(F) /\ Fades(E[i], F[m[i]]))
        /\ \A i, j \in 1 .. Len(E) : i < j /\ ~Dull(E[i]) /\ ~Dull(E[j]) => m[i] < m[j]
  BY DEF Embeds
<1>2. PICK k \in [1 .. Len(G) -> Int] :
        /\ \A i \in 1 .. Len(G) : Dull(G[i]) \/ (k[i] \in 1 .. Len(E) /\ Fades(G[i], E[k[i]]))
        /\ \A i, j \in 1 .. Len(G) : i < j /\ ~Dull(G[i]) /\ ~Dull(G[j]) => k[i] < k[j]
  BY DEF Embeds
<1> DEFINE p == [i \in 1 .. Len(G) |-> IF k[i] \in 1 .. Len(E) THEN m[k[i]] ELSE 0]
<1>3. p \in [1 .. Len(G) -> Int] /\ \A i \in 1 .. Len(G) : k[i] \in 1 .. Len(E) => p[i] = m[k[i]]
  OBVIOUS
<1> HIDE DEF p
<1>4. \A x, y, z : Fades(x, y) /\ Fades(y, z) => Fades(x, z)
  BY DEF Fades
<1>5. \A x, y : Fades(x, y) /\ Dull(y) => Dull(x)
  BY DEF Fades, Dull
<1>6. ASSUME NEW i \in 1 .. Len(G), ~Dull(G[i])
      PROVE  /\ k[i] \in 1 .. Len(E) /\ ~Dull(E[k[i]]) /\ p[i] = m[k[i]]
             /\ p[i] \in 1 .. Len(F) /\ Fades(G[i], F[p[i]])
  <2>1. k[i] \in 1 .. Len(E) /\ Fades(G[i], E[k[i]])
    BY <1>2, <1>6
  <2>2. ~Dull(E[k[i]])
    BY <1>5, <1>6, <2>1
  <2>3. m[k[i]] \in 1 .. Len(F) /\ Fades(E[k[i]], F[m[k[i]]])
    BY <1>1, <2>1, <2>2
  <2> QED BY <1>3, <1>4, <2>1, <2>2, <2>3
<1>7. ASSUME NEW i \in 1 .. Len(G), NEW j \in 1 .. Len(G), i < j, ~Dull(G[i]), ~Dull(G[j])
      PROVE  p[i] < p[j]
  <2>1. k[i] < k[j]
    BY <1>2, <1>7
  <2> QED BY <1>1, <1>6, <1>7, <2>1
<1>8. Len(F) \in Nat /\ Len(G) \in Nat
  BY DEF Embeds
<1> QED BY <1>3, <1>6, <1>7, <1>8 DEF Embeds

\* The debuggee stops,
LEMMA StopMessages ==
  ASSUME MessagesInv, NEW t \in Threads, seq' = seq,
         inbox' = Append(inbox, [kind |-> "stopped", body |-> t, node |-> Nobody, seq |-> 0]),
         asked' = asked \/ (asked # <<>> /\ asked' = Tail(asked))
  PROVE  MessagesInv' /\ Embeds(Flow, Flow')
<1> DEFINE e == [kind |-> "stopped", body |-> t, node |-> Nobody, seq |-> 0]
<1>1. HasKind(e) /\ e.kind = "stopped" /\ e.body = t
  BY DEF HasKind
<1>2. Dull(AnswerMark(e))
  BY <1>1 DEF Dull, AnswerMark, Mark, AnswerColor, NumberedKinds
<1>3. GoodAnswer(e)
  BY <1>1 DEF GoodAnswer
<1> HIDE DEF e
<1>4. Requests(asked) /\ Answers(inbox) /\ IsSequence(asked) /\ IsSequence(inbox)
  BY RequestsFacts, AnswersFacts DEF MessagesInv
<1>5. Requests(asked') /\ IsSequence(asked')
  BY <1>4, RequestsFacts
<1>6. Answers(inbox')
  BY <1>3, <1>4, AnswersFacts DEF e
<1> DEFINE F == FlowOf(inbox, asked)
           E == FlowOf(inbox, asked')
           G == FlowOf(Append(inbox, e), asked')
<1>7. Embeds(E, G)
  BY <1>1, <1>2, <1>4, <1>5, FlowInsert
<1>8. F = E \/ Embeds(F, E)
  BY <1>4, FlowDrop
<1>9. Flow = F /\ Flow' = G
  BY DEF Flow, e
<1> HIDE DEF E, F, G
<1>10. Embeds(Flow, Flow')
  BY <1>7, <1>8, <1>9, EmbedsTwice
<1>11. NumbersOf(Flow', seq')
  BY <1>10, NumbersEmbedded DEF MessagesInv
<1> QED BY <1>5, <1>6, <1>10, <1>11 DEF MessagesInv

\* resumes,
LEMMA DropMessages ==
  ASSUME MessagesInv, asked # <<>>, asked' = Tail(asked), inbox' = inbox, seq' = seq
  PROVE  MessagesInv' /\ Embeds(Flow, Flow')
<1>1. Requests(asked) /\ Answers(inbox) /\ IsSequence(asked) /\ IsSequence(inbox)
  BY RequestsFacts, AnswersFacts DEF MessagesInv
<1>2. Requests(asked') /\ Answers(inbox')
  BY <1>1, RequestsFacts
<1>3. Embeds(FlowOf(inbox, asked), FlowOf(inbox, Tail(asked)))
  BY <1>1, FlowDrop
<1>4. Embeds(Flow, Flow')
  BY <1>3 DEF Flow
<1>5. NumbersOf(Flow', seq')
  BY <1>4, NumbersEmbedded DEF MessagesInv
<1> QED BY <1>2, <1>4, <1>5 DEF MessagesInv

\* or a request is answered.
LEMMA AnswerMessages ==
  ASSUME MessagesInv, FramesInv, asked # <<>>, asked' = Tail(asked), seq' = seq,
         NEW body \in Bodies(Head(asked)), inbox' = Append(inbox, Answer(Head(asked), body))
  PROVE  MessagesInv' /\ Embeds(Flow, Flow')
<1> DEFINE e == Answer(Head(asked), body)
<1>1. /\ Requests(asked) /\ Answers(inbox) /\ IsSequence(asked) /\ IsSequence(inbox)
      /\ GoodRequest(Head(asked)) /\ Requests(asked')
  BY RequestsFacts, AnswersFacts DEF MessagesInv
<1>2. GoodAnswer(e) /\ HasKind(e) /\ Fades(AnswerMark(e), RequestMark(Head(asked)))
  BY <1>1, GoodBody
<1> HIDE DEF e
<1>3. Answers(inbox')
  BY <1>1, <1>2, AnswersFacts DEF e
<1>4. Embeds(FlowOf(inbox, asked), FlowOf(Append(inbox, e), Tail(asked)))
  BY <1>1, <1>2, FlowAnswer
<1>5. Embeds(Flow, Flow')
  BY <1>4 DEF Flow, e
<1>6. NumbersOf(Flow', seq')
  BY <1>5, NumbersEmbedded DEF MessagesInv
<1> QED BY <1>1, <1>3, <1>5, <1>6 DEF MessagesInv

-----------------------------------------------------------------------------
(* The types                                                                *)

\* The watches stay as they are.
LEMMA WatchesStay ==
  ASSUME WatchesInv, seq \in Nat, seq' \in Nat, seq <= seq',
         UNCHANGED <<stack, watches, registers, running, sessions>>
  PROVE  WatchesInv'
<1>1. ASSUME NEW w \in DOMAIN watches
      PROVE  /\ GoodWatch(watches[w]) /\ watches[w].name = w
             /\ (watches[w].seq < seq' \/ sessions > 1)
             /\ (sessions = 0 => watches[w].seq = 0)
  <2>1. GoodWatch(watches[w]) /\ watches[w].name = w /\ (sessions = 0 => watches[w].seq = 0)
    BY DEF WatchesInv
  <2>2. watches[w].seq \in Nat
    BY <2>1 DEF GoodWatch, GoodNode
  <2>3. watches[w].seq < seq \/ sessions > 1
    BY DEF WatchesInv
  <2>4. watches[w].seq < seq' \/ sessions > 1
    BY <2>2, <2>3
  <2> QED BY <2>1, <2>4
<1> QED BY <1>1 DEF WatchesInv

\* At first.
LEMMA ShownInit == Init => ShownInv
<1> SUFFICES ASSUME Init PROVE ShownInv
  OBVIOUS
<1>1. MessagesInv
  <2>1. Requests(asked) /\ Answers(inbox) /\ seq \in Nat /\ seq > 0
    BY RequestsFacts, AnswersFacts DEF Init
  <2>2. IsSequence(asked) /\ IsSequence(inbox)
    BY <2>1, RequestsFacts, AnswersFacts
  <2>3. Len(Flow) = Len(inbox) + Len(asked)
    BY <2>2, FlowAt DEF Flow
  <2>4. Len(inbox) = 0 /\ Len(asked) = 0
    BY DEF Init
  <2>5. Len(Flow) = 0
    BY <2>3, <2>4
  <2>6. NumbersOf(Flow, seq)
    BY <2>5 DEF NumbersOf
  <2> QED BY <2>1, <2>6 DEF MessagesInv
<1>2. FramesInv
  <2>1. backtrace \in Seq(Frames)
    BY DEF Init
  <2>2. 1 \in 1 .. MaxDepth /\ 0 \in 0 .. MaxStops /\ 0 \in 0 .. MaxSessions /\ 0 \in 0 .. MaxActs
    BY InspectAssumption
  <2> QED BY <2>1, <2>2 DEF Init, FramesInv
<1>3. FlagsInv
  BY DEF Init, FlagsInv
<1>4. WatchesInv
  <2>1. \A w \in DOMAIN stack : FALSE
    BY DEF Init
  <2>2. DOMAIN watches = Watched /\ \A w \in Watched : watches[w] = Node(w, None, None)
    BY DEF Init
  <2>3. seq = 1 /\ sessions = 0 /\ ~running /\ registers = {}
    BY DEF Init
  <2>4. ASSUME NEW w \in DOMAIN watches
        PROVE  GoodWatch(watches[w]) /\ watches[w].name = w /\ watches[w].seq = 0
    BY <2>2, NodeFacts
  <2>5. 0 < seq
    BY <2>3
  <2>6. DOMAIN watches \subseteq Symbols
    BY <2>2, InspectAssumption
  <2> QED BY <2>1, <2>3, <2>4, <2>5, <2>6 DEF WatchesInv
<1> QED BY <1>1, <1>2, <1>3, <1>4 DEF ShownInv

\* The debuggee and its adapter.
LEMMA ShownAdapter ==
  ASSUME ShownInv, AdapterStops \/ AdapterGoes \/ AdapterAnswers
  PROVE  ShownInv' /\ Embeds(Flow, Flow') /\ UNCHANGED <<shown, seq, running, sessions>>
<1>0. MessagesInv /\ FramesInv /\ FlagsInv /\ WatchesInv
  BY DEF ShownInv
<1>1. UNCHANGED <<stack, flagged, watches, registers, memory, seq, running, sessions>>
  BY DEF AdapterStops, AdapterGoes, AdapterAnswers, shown, ghosts
<1>2. WatchesInv'
  <2>1. seq \in Nat /\ seq' \in Nat /\ seq <= seq'
    BY <1>0, <1>1 DEF MessagesInv
  <2> QED BY <1>0, <1>1, <2>1, WatchesStay
<1>3. CASE AdapterStops
  <2>1. PICK t \in Threads :
          inbox' = Append(inbox, [kind |-> "stopped", body |-> t, node |-> Nobody, seq |-> 0])
    BY <1>3 DEF AdapterStops
  <2>2. asked' = asked
    BY <1>3 DEF AdapterStops
  <2>3. MessagesInv' /\ Embeds(Flow, Flow')
    BY <1>0, <1>1, <2>1, <2>2, StopMessages
  <2>4. FramesInv'
    <3>1. lastStop + 1 \in 0 .. MaxStops
      BY <1>0, <1>3, InspectAssumption DEF FramesInv, AdapterStops
    <3> QED BY <1>0, <1>1, <1>3, <3>1 DEF FramesInv, AdapterStops, frames, ghosts
  <2>5. FlagsInv'
    BY <1>0, <1>1, <1>3 DEF FlagsInv, AdapterStops, ghosts
  <2> QED BY <1>1, <1>2, <2>3, <2>4, <2>5 DEF ShownInv, shown
<1>4. CASE AdapterGoes
  <2>1. /\ asked # <<>> /\ asked' = Tail(asked) /\ Head(asked).kind = "goto"
        /\ inbox' = Append(inbox, [kind |-> "stopped", body |-> Head(asked).arg, node |-> Nobody, seq |-> 0])
    BY <1>4 DEF AdapterGoes
  <2>2. GoodRequest(Head(asked))
    BY <1>0, <2>1, RequestsFacts DEF MessagesInv
  <2>3. Head(asked).arg \in Threads
    BY <2>1, <2>2 DEF GoodRequest
  <2> DEFINE t == Head(asked).arg
  <2>4. inbox' = Append(inbox, [kind |-> "stopped", body |-> t, node |-> Nobody, seq |-> 0])
    BY <2>1
  <2> HIDE DEF t
  <2>5. MessagesInv' /\ Embeds(Flow, Flow')
    BY <1>0, <1>1, <2>1, <2>3, <2>4, StopMessages DEF t
  <2>6. FramesInv'
    <3>1. lastStop + 1 \in 0 .. MaxStops
      BY <1>0, <1>4, InspectAssumption DEF FramesInv, AdapterGoes
    <3> QED BY <1>0, <1>1, <1>4, <3>1 DEF FramesInv, AdapterGoes, frames, ghosts
  <2>7. FlagsInv'
    BY <1>0, <1>1, <1>4 DEF FlagsInv, AdapterGoes, ghosts
  <2> QED BY <1>1, <1>2, <2>5, <2>6, <2>7 DEF ShownInv, shown
<1>5. CASE AdapterAnswers
  <2>1. asked # <<>> /\ asked' = Tail(asked)
    BY <1>5 DEF AdapterAnswers
  <2>2. MessagesInv' /\ Embeds(Flow, Flow')
    <3>1. CASE Head(asked).kind = "resume"
      <4>1. inbox' = inbox
        BY <1>5, <3>1 DEF AdapterAnswers
      <4> QED BY <1>0, <1>1, <2>1, <4>1, DropMessages
    <3>2. CASE Head(asked).kind # "resume"
      <4>1. PICK body \in Bodies(Head(asked)) : inbox' = Append(inbox, Answer(Head(asked), body))
        BY <1>5, <3>2 DEF AdapterAnswers
      <4> QED BY <1>0, <1>1, <2>1, <4>1, AnswerMessages
    <3> QED BY <3>1, <3>2
  <2>3. FramesInv'
    <3>1. stop' = 0 \/ stop' = stop
      BY <1>5 DEF AdapterAnswers
    <3> QED BY <1>0, <1>1, <1>5, <3>1 DEF FramesInv, AdapterAnswers, frames, ghosts
  <2>4. FlagsInv'
    <3>1. disturbed' \in BOOLEAN
      <4>1. disturbed' = disturbed \/ \E body : disturbed' = (disturbed \/ (Head(asked).kind = "info" /\ body # <<>>))
        BY <1>5 DEF AdapterAnswers
      <4> QED BY <1>0, <4>1 DEF FlagsInv
    <3>2. crashed' = crashed
      BY <1>5 DEF AdapterAnswers
    <3> QED BY <1>0, <1>1, <3>1, <3>2 DEF FlagsInv
  <2> QED BY <1>1, <1>2, <2>2, <2>3, <2>4 DEF ShownInv, shown
<1> QED BY <1>3, <1>4, <1>5

\* Requests that change nothing that is shown, and that of the scopes.
Asks(k) ==
  \E r : /\ Sound(r, seq) /\ Shifted(Flow, Flow', k, r)
         /\ \A i \in 1 .. Len(r) : /\ RequestMark(r[i]).node = Nobody
                                   /\ RequestMark(r[i]).color = "plain"

AsksScopes(k) ==
  \E r : /\ Sound(r, seq) /\ Shifted(Flow, Flow', k, r)
         /\ Len(r) <= 1 /\ \A i \in 1 .. Len(r) : r[i].kind = "scopes"

\* Modest ones are of that kind.
LEMMA ModestAsks ==
  ASSUME NEW r, Modest(r, seq), NEW k, Shifted(Flow, Flow', k, r)
  PROVE  Asks(k)
<1>1. \A i \in 1 .. Len(r) : RequestMark(r[i]).node = Nobody /\ RequestMark(r[i]).color = "plain"
  BY ModestMarks DEF Modest
<1> QED BY <1>1 DEF Asks, Modest

\* A message is taken.
LEMMA TakeMessage ==
  ASSUME ShownInv, NEW kind, Handle(kind), NEW r, Sound(r, seq), Ask(r)
  PROVE  /\ MessagesInv' /\ seq \in Nat /\ seq' \in Nat /\ seq <= seq' /\ Shifted(Flow, Flow', 1, r)
         /\ GoodAnswer(Head(inbox)) /\ Head(inbox).kind = kind
         /\ 1 \in 1 .. Len(Flow) /\ Flow[1] = AnswerMark(Head(inbox))
<1>1. inbox # <<>> /\ inbox' = Tail(inbox) /\ Head(inbox).kind = kind
  BY DEF Handle
<1>2. MessagesInv
  BY DEF ShownInv
<1>3. /\ MessagesInv' /\ seq <= seq' /\ Shifted(Flow, Flow', 1, r)
      /\ GoodAnswer(Head(inbox))
      /\ 1 \in 1 .. Len(Flow) /\ Flow[1] = AnswerMark(Head(inbox))
  BY <1>1, <1>2, HandleMessages
<1> QED BY <1>1, <1>2, <1>3 DEF MessagesInv

\* Two requests in a row.
LEMMA PairConcat == ASSUME NEW a, NEW b PROVE <<a, b>> = <<a>> \o <<b>>
<1> DEFINE S == {a, b}
           s == <<a>>
           t == <<b>>
           u == s \o t
           p == <<a, b>>
<1>1. s \in Seq(S) /\ t \in Seq(S) /\ Len(s) = 1 /\ Len(t) = 1 /\ s[1] = a /\ t[1] = b
  OBVIOUS
<1>2. p \in Seq(S) /\ Len(p) = 2 /\ p[1] = a /\ p[2] = b
  OBVIOUS
<1> HIDE DEF s, t, p
<1>3. u \in Seq(S) /\ Len(u) = 2 /\ u[1] = a /\ u[2] = b
  <2>1. /\ u \in Seq(S) /\ Len(u) = Len(s) + Len(t)
        /\ \A i \in 1 .. Len(s) : u[i] = s[i]
        /\ \A i \in 1 .. Len(t) : u[Len(s) + i] = t[i]
    <3>1. \A x, y \in Seq(S) : /\ x \o y \in Seq(S) /\ Len(x \o y) = Len(x) + Len(y)
                               /\ \A i \in 1 .. Len(x) : (x \o y)[i] = x[i]
                               /\ \A i \in 1 .. Len(y) : (x \o y)[Len(x) + i] = y[i]
      OBVIOUS
    <3> HIDE DEF S
    <3> QED BY <1>1, <3>1
  <2> HIDE DEF u
  <2>2. 1 \in 1 .. 1 /\ 1 + 1 = 2
    OBVIOUS
  <2> QED BY <1>1, <2>1, <2>2
<1> HIDE DEF u
<1>4. \A i \in 1 .. Len(p) : p[i] = u[i]
  BY <1>2, <1>3
<1>5. p = u
  BY <1>2, <1>3, <1>4, SeqEqual
<1> QED BY <1>5 DEF p, u, s, t

\* OnStopped.
LEMMA ShownStopped ==
  ASSUME ShownInv, OnStopped
  PROVE  ShownInv' /\ Asks(1) /\ UNCHANGED <<stack, flagged, watches, registers, running, sessions>>
<1>0. MessagesInv /\ FramesInv /\ FlagsInv /\ WatchesInv /\ seq \in Nat
  BY DEF ShownInv, MessagesInv
<1>1. UNCHANGED <<stack, flagged, watches, registers, memory, running, sessions, crashed, disturbed>>
  BY DEF OnStopped, shown, ghosts
<1>2. Handle("stopped")
  BY DEF OnStopped
<1>3. active' \in Threads
  <2>1. GoodAnswer(Head(inbox))
    BY <1>0, <1>2, AnswersFacts DEF MessagesInv, Handle
  <2>2. Head(inbox).body \in Threads
    BY <1>2, <2>1 DEF GoodAnswer, Handle
  <2> QED BY <2>2 DEF OnStopped
<1> DEFINE a == Request("stackTrace", active', Nobody, seq)
           b == Request("threads", None, Nobody, seq + 1)
           r == <<a, b>>
<1>4. a.kind = "stackTrace" /\ a.arg = active' /\ a.seq = seq /\ HasKind(a)
  BY FieldFacts
<1>5. b.kind = "threads" /\ b.seq = seq + 1 /\ HasKind(b)
  BY FieldFacts
<1>6. Ask(r)
  BY DEF OnStopped
<1> HIDE DEF a, b
<1>7. GoodRequest(a) /\ GoodRequest(b)
  BY <1>3, <1>4, <1>5 DEF GoodRequest
<1>8. Modest(<<a>>, seq) /\ Len(<<a>>) = 1 /\ seq + 1 \in Nat
  BY <1>0, <1>4, <1>7, ModestFacts
<1>9. Modest(<<b>>, seq + 1)
  BY <1>5, <1>7, <1>8, ModestFacts
<1>10. r = <<a>> \o <<b>>
  BY PairConcat
<1>11. Modest(r, seq)
  <2> DEFINE s == <<a>>
             t == <<b>>
  <2>1. Modest(s, seq) /\ Modest(t, seq + Len(s))
    BY <1>8, <1>9
  <2> HIDE DEF s, t
  <2>2. Modest(s \o t, seq)
    BY <1>0, <2>1, ModestFacts
  <2> QED BY <1>10, <2>2 DEF s, t
<1> HIDE DEF r
<1>12. MessagesInv' /\ seq' \in Nat /\ seq <= seq' /\ Shifted(Flow, Flow', 1, r)
  BY <1>2, <1>6, <1>11, TakeMessage DEF Modest
<1>13. Asks(1)
  BY <1>11, <1>12, ModestAsks
<1>14. WatchesInv'
  BY <1>0, <1>1, <1>12, WatchesStay
<1>15. FramesInv'
  BY <1>0, <1>1, <1>3 DEF FramesInv, OnStopped, adapter, ghosts
<1>16. FlagsInv'
  BY <1>0, <1>1 DEF FlagsInv
<1> QED BY <1>1, <1>12, <1>13, <1>14, <1>15, <1>16 DEF ShownInv

\* OnStackTrace.
LEMMA ShownStackTrace ==
  ASSUME ShownInv, OnStackTrace
  PROVE  ShownInv' /\ AsksScopes(1) /\ UNCHANGED <<stack, flagged, watches, registers, running, sessions>>
<1>0. MessagesInv /\ FramesInv /\ FlagsInv /\ WatchesInv /\ seq \in Nat
  BY DEF ShownInv, MessagesInv
<1>1. UNCHANGED <<stack, flagged, watches, registers, memory, running, sessions, disturbed>>
  BY DEF OnStackTrace, shown
<1>2. Handle("stackTrace")
  BY DEF OnStackTrace
<1> DEFINE body == Head(inbox).body
           r == ScopesOf(body, seq)
           m == Request("scopes", body.frames[body.source], Nobody, seq)
<1>3. body.frames \in Seq(Frames) /\ body.source \in Nat \ {0}
  <2>1. GoodAnswer(Head(inbox))
    BY <1>0, <1>2, AnswersFacts DEF MessagesInv, Handle
  <2> QED BY <1>2, <2>1 DEF GoodAnswer, Handle
<1>4. Ask(r) /\ backtrace' = body.frames
  BY DEF OnStackTrace
<1>5. r = IF body.source <= Len(body.frames) THEN <<m>> ELSE <<>>
  BY DEF ScopesOf
<1>6. m.kind = "scopes" /\ m.arg = body.frames[body.source] /\ m.seq = seq /\ HasKind(m)
  BY FieldFacts
<1>7. /\ body.frames = <<>> => frame' = frame /\ user' = user /\ crashed' = crashed
      /\ body.frames # <<>> => /\ frame' = (IF user = 0 THEN 1 ELSE user)
                               /\ user' \in {user, IF user = 0 THEN 1 ELSE user}
                               /\ crashed' \in BOOLEAN
  <2> DEFINE index == IF user = 0 THEN 1 ELSE user
  <2>1. IF body.frames = <<>> THEN UNCHANGED <<frame, user, crashed>>
        ELSE /\ frame' = index
             /\ user' = (IF index > 1 THEN index ELSE user)
             /\ crashed' = (index > Len(body.frames))
    BY DEF OnStackTrace
  <2> HIDE DEF index, body
  <2>2. body.frames # <<>> => crashed' \in BOOLEAN
    BY <2>1
  <2>3. body.frames # <<>> => frame' = index /\ user' \in {user, index}
    BY <2>1
  <2>4. body.frames = <<>> => frame' = frame /\ user' = user /\ crashed' = crashed
    BY <2>1
  <2> QED BY <2>2, <2>3, <2>4 DEF index
<1>8. frame' \in Nat /\ user' \in Nat /\ crashed' \in BOOLEAN
  BY <1>0, <1>7 DEF FramesInv, FlagsInv
<1>9. body.source <= Len(body.frames) => m.arg \in Frames
  <2>1. body.source <= Len(body.frames) => body.source \in 1 .. Len(body.frames)
    BY <1>3
  <2> QED BY <1>3, <1>6, <2>1
<1> HIDE DEF m
<1>10. body.source <= Len(body.frames) => GoodRequest(m)
  BY <1>6, <1>9 DEF GoodRequest
<1>11. Sound(r, seq)
  BY <1>0, <1>5, <1>6, <1>10, SoundFacts
<1>12. Len(r) <= 1 /\ \A i \in 1 .. Len(r) : r[i].kind = "scopes"
  <2>1. CASE r = <<m>>
    <3> DEFINE s == <<m>>
    <3>1. Len(s) = 1 /\ s[1] = m /\ \A i \in 1 .. 1 : i = 1
      OBVIOUS
    <3>2. r = s
      BY <2>1
    <3>3. m.kind = "scopes"
      BY <1>6
    <3> HIDE DEF s, r
    <3>4. Len(r) = 1
      BY <3>1, <3>2
    <3>5. \A i \in 1 .. 1 : r[i] = m
      BY <3>1, <3>2
    <3> QED BY <3>3, <3>4, <3>5
  <2>2. CASE r = <<>>
    <3> DEFINE s == <<>>
    <3>1. Len(s) = 0 /\ 1 .. 0 = {} /\ r = s
      BY <2>2
    <3> HIDE DEF s, r
    <3> QED BY <3>1
  <2> QED BY <1>5, <2>1, <2>2
<1> HIDE DEF r
<1>13. MessagesInv' /\ seq' \in Nat /\ seq <= seq' /\ Shifted(Flow, Flow', 1, r)
  BY <1>2, <1>4, <1>11, TakeMessage
<1>14. AsksScopes(1)
  BY <1>11, <1>12, <1>13 DEF AsksScopes
<1>15. WatchesInv'
  BY <1>0, <1>1, <1>13, WatchesStay
<1>16. FramesInv'
  BY <1>0, <1>1, <1>3, <1>4, <1>8 DEF FramesInv, OnStackTrace, adapter
<1>17. FlagsInv'
  BY <1>0, <1>1, <1>8 DEF FlagsInv
<1> QED BY <1>1, <1>13, <1>14, <1>15, <1>16, <1>17 DEF ShownInv

\* The local variables and then the registers.
AsksSections ==
  \E r : /\ Sound(r, seq) /\ Shifted(Flow, Flow', 1, r) /\ Len(r) <= 2
         /\ \A i \in 1 .. Len(r) : /\ RequestMark(r[i]).node = Nobody
                                   /\ RequestMark(r[i]).color \in {"plain", IF i = 1 THEN "locals" ELSE "registers"}

\* OnScopes.
LEMMA ShownScopes ==
  ASSUME ShownInv, OnScopes
  PROVE  /\ ShownInv' /\ AsksSections /\ stack' = <<>> /\ flagged' = FALSE
         /\ UNCHANGED <<watches, registers, running, sessions>>
<1>0. MessagesInv /\ FramesInv /\ FlagsInv /\ WatchesInv /\ seq \in Nat
  BY DEF ShownInv, MessagesInv
<1>1. /\ UNCHANGED <<watches, registers, memory, running, sessions, crashed, disturbed>>
      /\ stack' = <<>> /\ flagged' = FALSE
  BY DEF OnScopes, ghosts
<1>2. Handle("scopes")
  BY DEF OnScopes
<1> DEFINE f == Head(inbox).body
           a == Request("variables", Variable(f, "Locals"), Nobody, seq)
           b == Request("variables", Variable(f, "Registers"), Nobody, seq + 1)
           s == <<a>>
           t == IF RegistersShown THEN <<b>> ELSE <<>>
           r == IF f = None THEN <<>> ELSE s \o t
           Marked(x) == /\ Len(x) <= 2
                        /\ \A i \in 1 .. Len(x) :
                             /\ RequestMark(x[i]).node = Nobody
                             /\ RequestMark(x[i]).color \in {"plain", IF i = 1 THEN "locals" ELSE "registers"}
<1>3. f \in Frames \cup {None}
  <2>1. GoodAnswer(Head(inbox))
    BY <1>0, <1>2, AnswersFacts DEF MessagesInv, Handle
  <2> QED BY <1>2, <2>1 DEF GoodAnswer, Handle
<1>4. Ask(r)
  BY DEF OnScopes
<1>5. /\ a.kind = "variables" /\ a.arg = Variable(f, "Locals") /\ a.node = Nobody /\ a.seq = seq
      /\ HasKind(a)
  BY FieldFacts
<1>6. /\ b.kind = "variables" /\ b.arg = Variable(f, "Registers") /\ b.node = Nobody /\ b.seq = seq + 1
      /\ HasKind(b)
  BY FieldFacts
<1>7. f # None => /\ a.arg \in MaybeVar /\ a.arg.name = "Locals"
                  /\ b.arg \in MaybeVar /\ b.arg.name = "Registers"
  <2>1. "Locals" \in Names /\ "Registers" \in Names
    BY DEF Names, Contents
  <2> QED BY <1>3, <1>5, <1>6, <2>1 DEF Variable, Named, MaybeVar
<1>8. {"Locals", "Registers"} \subseteq DOMAIN Contents
  BY DEF Contents
<1> HIDE DEF a, b, f
<1>9. f # None => GoodRequest(a) /\ GoodRequest(b)
  BY <1>5, <1>6, <1>7, <1>8 DEF GoodRequest
<1>10. f # None => /\ RequestMark(a).node = Nobody /\ RequestMark(b).node = Nobody
                   /\ RequestMark(a).color \in {"plain", "locals"}
                   /\ RequestMark(b).color \in {"plain", "registers"}
  BY <1>5, <1>6, <1>7 DEF RequestMark, Mark, RequestColor
<1>11. Sound(<<>>, seq) /\ Marked(<<>>)
  <2> DEFINE e == <<>>
  <2>1. Len(e) = 0 /\ Sound(e, seq) /\ 1 .. 0 = {}
    BY <1>0, SoundFacts
  <2> HIDE DEF e
  <2>2. Marked(e)
    BY <2>1
  <2> QED BY <2>1, <2>2 DEF e
<1>12. f # None => Sound(s \o t, seq) /\ Marked(s \o t)
  <2> SUFFICES ASSUME f # None PROVE Sound(s \o t, seq) /\ Marked(s \o t)
    OBVIOUS
  <2>1. Sound(s, seq) /\ Len(s) = 1 /\ s[1] = a /\ s \in Seq({a, b}) /\ seq + 1 \in Nat
    BY <1>0, <1>5, <1>9, SoundFacts
  <2>2. Sound(<<b>>, seq + 1) /\ Sound(<<>>, seq + 1)
    BY <1>6, <1>9, <2>1, SoundFacts
  <2>3. Sound(t, seq + 1)
    BY <2>2
  <2>4. t \in Seq({a, b}) /\ Len(t) \in {0, 1} /\ (Len(t) = 1 => t[1] = b)
    <3> DEFINE p == <<b>>
               e == <<>>
    <3>1. p \in Seq({a, b}) /\ Len(p) = 1 /\ p[1] = b
      OBVIOUS
    <3>2. e \in Seq({a, b}) /\ Len(e) = 0
      OBVIOUS
    <3>3. t = p \/ t = e
      OBVIOUS
    <3> HIDE DEF p, e, t
    <3>4. CASE t = p
      <4>1. t \in Seq({a, b})
        BY <3>1, <3>4
      <4>2. Len(t) = 1 /\ t[1] = b
        BY <3>1, <3>4
      <4> QED BY <4>1, <4>2
    <3>5. CASE t = e
      <4>1. t \in Seq({a, b})
        BY <3>2, <3>5
      <4>2. Len(t) = 0
        BY <3>2, <3>5
      <4> QED BY <4>1, <4>2
    <3> QED BY <3>3, <3>4, <3>5
  <2> HIDE DEF s, t
  <2>5. Sound(t, seq + Len(s))
    BY <2>1, <2>3
  <2>6. Sound(s \o t, seq)
    BY <1>0, <2>1, <2>5, SoundFacts
  <2> DEFINE u == s \o t
             S == {a, b}
  <2>7. /\ Len(u) = Len(s) + Len(t)
        /\ \A i \in 1 .. Len(s) : u[i] = s[i]
        /\ \A i \in 1 .. Len(t) : u[Len(s) + i] = t[i]
    <3>1. \A x, y \in Seq(S) : /\ Len(x \o y) = Len(x) + Len(y)
                               /\ \A i \in 1 .. Len(x) : (x \o y)[i] = x[i]
                               /\ \A i \in 1 .. Len(y) : (x \o y)[Len(x) + i] = y[i]
      OBVIOUS
    <3> HIDE DEF S
    <3> QED BY <2>1, <2>4, <3>1 DEF S
  <2> HIDE DEF u
  <2>8. Len(u) <= 2 /\ \A i \in 1 .. Len(u) : (i = 1 /\ u[i] = a) \/ (i # 1 /\ u[i] = b)
    <3>1. CASE Len(t) = 0
      <4>1. Len(u) = 1 /\ u[1] = a /\ \A i \in 1 .. 1 : i = 1
        BY <2>1, <2>7, <3>1
      <4> QED BY <4>1
    <3>2. CASE Len(t) = 1
      <4>1. 1 \in 1 .. 1 /\ 1 + 1 = 2 /\ \A i \in 1 .. 2 : i = 1 \/ i = 2
        OBVIOUS
      <4>2. Len(u) = 2 /\ u[1] = a /\ u[2] = b
        BY <2>1, <2>4, <2>7, <3>2, <4>1
      <4> QED BY <4>1, <4>2
    <3> QED BY <2>4, <3>1, <3>2
  <2>9. Marked(u)
    BY <1>10, <2>8
  <2> QED BY <2>6, <2>9 DEF u
<1> HIDE DEF s, t, Marked
<1>13. Sound(r, seq) /\ Marked(r)
  BY <1>11, <1>12
<1> HIDE DEF r
<1>14. MessagesInv' /\ seq' \in Nat /\ seq <= seq' /\ Shifted(Flow, Flow', 1, r)
  BY <1>2, <1>4, <1>13, TakeMessage
<1>15. AsksSections
  BY <1>13, <1>14 DEF AsksSections, Marked
<1>16. WatchesInv'
  <2>1. \A w \in DOMAIN stack' : FALSE
    BY <1>1
  <2>2. ASSUME NEW w \in DOMAIN watches
        PROVE  /\ GoodWatch(watches[w]) /\ watches[w].name = w
               /\ (watches[w].seq < seq' \/ sessions > 1)
               /\ (sessions = 0 => watches[w].seq = 0)
    <3>1. GoodWatch(watches[w]) /\ watches[w].name = w /\ (sessions = 0 => watches[w].seq = 0)
      BY <1>0 DEF WatchesInv
    <3>2. watches[w].seq \in Nat
      BY <3>1 DEF GoodWatch, GoodNode
    <3>3. watches[w].seq < seq \/ sessions > 1
      BY <1>0 DEF WatchesInv
    <3>4. watches[w].seq < seq' \/ sessions > 1
      BY <1>0, <1>14, <3>2, <3>3
    <3> QED BY <3>1, <3>4
  <2> QED BY <1>0, <1>1, <2>1, <2>2 DEF WatchesInv
<1>17. FramesInv'
  BY <1>0, <1>1 DEF FramesInv, OnScopes, adapter, frames, ghosts
<1>18. FlagsInv'
  BY <1>0, <1>1 DEF FlagsInv
<1> QED BY <1>1, <1>14, <1>15, <1>16, <1>17, <1>18 DEF ShownInv

\* The variables of the last scopes and the new ones.
LEMMA StackGrows ==
  ASSUME NEW vs, GoodVariables(vs), NEW w \in DOMAIN FirstOfName(vs)
  PROVE  /\ FirstOfName(vs)[w] \in Named /\ FirstOfName(vs)[w].name \notin Sections
         /\ FirstOfName(vs)[w].name = w
<1>1. PICK j \in DOMAIN vs : w = vs[j].name
  BY DEF FirstOfName
<1> DEFINE i == CHOOSE i \in DOMAIN vs : vs[i].name = w
<1>2. i \in DOMAIN vs /\ vs[i].name = w
  BY <1>1
<1>3. FirstOfName(vs)[w] = vs[i]
  BY DEF FirstOfName
<1> HIDE DEF i
<1>4. DOMAIN vs = 1 .. Len(vs) /\ vs \in Seq(Named)
  BY DEF GoodVariables
<1>5. i \in 1 .. Len(vs)
  BY <1>2, <1>4
<1>6. vs[i] \in Named /\ vs[i].name \notin Sections
  BY <1>4, <1>5 DEF GoodVariables
<1> QED BY <1>2, <1>3, <1>6

\* The watches that the variables of an answer are compared with.
Checks(m) ==
  /\ ~flagged
  /\ watches' = [w \in DOMAIN watches |-> Checked(watches[w], m.body, m.seq)]
  /\ Asks(1) /\ UNCHANGED <<flagged, registers>>

\* The registers that are shown.
ShowsRegisters(m) ==
  /\ flagged /\ Asks(1) /\ UNCHANGED <<flagged, watches>>
  /\ Entries(m.body) \subseteq registers' /\ registers' \subseteq registers \cup Entries(m.body)

\* The first variable is that of the registers.
ToRegisters(m) ==
  /\ m.body # <<>> /\ m.body[1].name = "GPR" /\ Asks(1)
  /\ flagged' = TRUE /\ UNCHANGED <<watches, registers>>

\* OnVariables.
LEMMA ShownVariables ==
  ASSUME ShownInv, OnVariables
  PROVE  LET m == Head(inbox)
         IN  /\ ShownInv' /\ UNCHANGED <<running, sessions>>
             /\ GoodAnswer(m) /\ m.kind \in {"variables", "info"} /\ GoodVariables(m.body)
             /\ 1 \in 1 .. Len(Flow) /\ Flow[1] = AnswerMark(m)
             /\ \/ m.body = <<>> /\ Asks(1) /\ UNCHANGED <<flagged, watches, registers>>
                \/ m.body[1].name # "GPR" /\ Checks(m)
                \/ m.body[1].name # "GPR" /\ ShowsRegisters(m)
                \/ ToRegisters(m)
<1> DEFINE m == Head(inbox)
           vs == m.body
           n == m.seq
<1>0. MessagesInv /\ FramesInv /\ FlagsInv /\ WatchesInv /\ seq \in Nat
  BY DEF ShownInv, MessagesInv
<1>1. UNCHANGED <<running, sessions, crashed, disturbed>>
  BY DEF OnVariables, ghosts
<1>2. PICK kind \in {"variables", "info"} : Handle(kind)
  BY DEF OnVariables
<1>3. Alive /\ inbox # <<>> /\ inbox' = Tail(inbox) /\ m.kind = kind
  BY <1>2 DEF Handle
<1>4. GoodAnswer(m) /\ GoodVariables(vs)
  <2>1. GoodAnswer(m)
    BY <1>0, <1>3, AnswersFacts DEF MessagesInv
  <2> QED BY <1>2, <1>3, <2>1 DEF GoodAnswer
<1>5. 1 \in 1 .. Len(Flow) /\ Flow[1] = AnswerMark(m)
  BY <1>0, <1>3, FlowHandle, EmptyFacts, RequestsFacts, AnswersFacts DEF Flow, MessagesInv
<1>6. Flow[1].number = n
  BY <1>2, <1>3, <1>5 DEF AnswerMark, Mark, NumberedKinds
<1>7. n \in Nat /\ n < seq
  <2>1. n = 0 \/ n \in 1 .. seq - 1
    BY <1>0, <1>5, <1>6 DEF MessagesInv, NumbersOf
  <2>2. seq > 0
    BY <1>0 DEF MessagesInv
  <2> QED BY <1>0, <2>1, <2>2
<1>8. IF vs = <<>> THEN UNCHANGED <<shown, asked, seq>>
      ELSE IF vs[1].name = "GPR" THEN AskRegisters(vs[1])
      ELSE IF flagged THEN ShowRegisters(vs)
      ELSE CheckWatches(vs, n)
  BY DEF OnVariables
<1>9. FramesInv' <=> memory' \in Frames \cup {None}
  BY <1>0 DEF FramesInv, OnVariables, adapter, frames, ghosts
<1>10. sessions # 0
  BY <1>0, <1>3 DEF WatchesInv, Alive
<1> HIDE DEF m
<1>11. ASSUME asked' = asked, seq' = seq
       PROVE  MessagesInv' /\ seq' \in Nat /\ seq <= seq' /\ Asks(1)
  <2>1. Ask(<<>>) /\ Modest(<<>>, seq)
    BY <1>0, <1>11, AskNothing, ModestFacts
  <2>2. MessagesInv' /\ seq' \in Nat /\ seq <= seq' /\ Shifted(Flow, Flow', 1, <<>>)
    BY <1>2, <2>1, TakeMessage DEF Modest
  <2> QED BY <2>1, <2>2, ModestAsks
<1>12. CASE vs = <<>>
  <2>1. UNCHANGED <<stack, flagged, watches, registers, memory, asked, seq>>
    BY <1>8, <1>12 DEF shown
  <2>2. MessagesInv' /\ seq' \in Nat /\ seq <= seq' /\ Asks(1)
    BY <1>11, <2>1
  <2>3. WatchesInv'
    BY <1>0, <1>1, <2>1, <2>2, WatchesStay
  <2>4. FramesInv' /\ FlagsInv'
    BY <1>0, <1>1, <1>9, <2>1 DEF FramesInv, FlagsInv
  <2>5. ShownInv'
    BY <2>2, <2>3, <2>4 DEF ShownInv
  <2> QED BY <1>1, <1>2, <1>3, <1>4, <1>5, <1>12, <2>1, <2>2, <2>5 DEF m
<1>13. CASE vs # <<>> /\ vs[1].name = "GPR"
  <2> DEFINE a == Request("variables", vs[1], Nobody, seq)
             r == <<a>>
  <2>1. flagged' = TRUE /\ Ask(r) /\ UNCHANGED <<stack, watches, registers, memory>>
    BY <1>8, <1>13 DEF AskRegisters
  <2>2. vs[1] \in Named
    <3>1. vs \in Seq(Named)
      BY <1>4 DEF GoodVariables
    <3> HIDE DEF vs
    <3> QED BY <1>13, <3>1
  <2>3. a.kind = "variables" /\ a.arg = vs[1] /\ a.node = Nobody /\ a.seq = seq /\ HasKind(a)
    BY FieldFacts
  <2>4. "GPR" \in DOMAIN Contents
    BY DEF Contents
  <2> HIDE DEF a
  <2>5. GoodRequest(a)
    BY <1>13, <2>2, <2>3, <2>4 DEF GoodRequest, MaybeVar
  <2>6. RequestMark(a).node = Nobody /\ RequestMark(a).color = "plain"
    BY <1>13, <2>3 DEF RequestMark, Mark, RequestColor
  <2>7. Sound(r, seq)
    BY <1>0, <2>3, <2>5, SoundFacts
  <2>8. MessagesInv' /\ seq' \in Nat /\ seq <= seq' /\ Shifted(Flow, Flow', 1, r)
    BY <1>2, <2>1, <2>7, TakeMessage
  <2>9. Len(r) = 1 /\ r[1] = a /\ \A i \in 1 .. 1 : i = 1
    OBVIOUS
  <2> HIDE DEF r
  <2>10. Asks(1)
    BY <2>6, <2>7, <2>8, <2>9 DEF Asks
  <2>11. WatchesInv'
    BY <1>0, <1>1, <2>1, <2>8, WatchesStay
  <2>12. FramesInv' /\ FlagsInv'
    BY <1>0, <1>1, <1>9, <2>1 DEF FramesInv, FlagsInv
  <2>13. ShownInv'
    BY <2>8, <2>11, <2>12 DEF ShownInv
  <2>14. ToRegisters(m)
    BY <1>13, <2>1, <2>10 DEF ToRegisters
  <2> QED BY <1>1, <1>2, <1>3, <1>4, <1>5, <2>13, <2>14 DEF m
<1>14. CASE vs # <<>> /\ vs[1].name # "GPR" /\ flagged
  <2>1. /\ registers' = {x \in registers : \A i \in DOMAIN vs : vs[i].name # x.name} \cup Entries(vs)
        /\ UNCHANGED <<stack, flagged, watches, memory, asked, seq>>
    BY <1>8, <1>14 DEF ShowRegisters
  <2>2. MessagesInv' /\ seq' \in Nat /\ seq <= seq' /\ Asks(1)
    BY <1>11, <2>1
  <2>3. Entries(vs) \subseteq Named
    <3>1. vs \in Seq(Named)
      BY <1>4 DEF GoodVariables
    <3> HIDE DEF vs
    <3>2. \A i \in DOMAIN vs : vs[i] \in Named
      BY <3>1
    <3> QED BY <3>2 DEF Entries
  <2>4. registers' \subseteq Named
    BY <1>0, <2>1, <2>3 DEF WatchesInv
  <2>5. WatchesInv'
    BY <1>0, <1>1, <2>1, <2>4 DEF WatchesInv
  <2>6. FramesInv' /\ FlagsInv'
    BY <1>0, <1>1, <1>9, <2>1 DEF FramesInv, FlagsInv
  <2>7. ShownInv'
    BY <2>2, <2>5, <2>6 DEF ShownInv
  <2>8. ShowsRegisters(m)
    BY <1>14, <2>1, <2>2 DEF ShowsRegisters
  <2> QED BY <1>1, <1>2, <1>3, <1>4, <1>5, <1>14, <2>7, <2>8 DEF m
<1>15. CASE vs # <<>> /\ vs[1].name # "GPR" /\ ~flagged
  <2> DEFINE new == FirstOfName(vs)
             r == Refresh(seq)
  <2>1. /\ InRange /\ Ask(r) /\ UNCHANGED <<flagged, registers, memory>>
        /\ watches' = [w \in DOMAIN watches |-> Checked(watches[w], vs, n)]
        /\ stack' = [v \in DOMAIN stack \cup DOMAIN new |-> IF v \in DOMAIN stack THEN stack[v] ELSE new[v]]
    BY <1>8, <1>15 DEF CheckWatches
  <2>2. Modest(r, seq)
    BY <1>0, <2>1, RefreshSound
  <2> HIDE DEF r
  <2>3. MessagesInv' /\ seq' \in Nat /\ seq <= seq' /\ Shifted(Flow, Flow', 1, r)
    BY <1>2, <2>1, <2>2, TakeMessage DEF Modest
  <2>4. Asks(1)
    BY <2>2, <2>3, ModestAsks
  <2>5. \A w \in DOMAIN stack' : /\ stack'[w] \in Named /\ stack'[w].name \notin Sections
                                /\ stack'[w].name = w
    <3>1. \A w \in DOMAIN new : new[w] \in Named /\ new[w].name \notin Sections /\ new[w].name = w
      BY <1>4, StackGrows
    <3>2. \A w \in DOMAIN stack : stack[w] \in Named /\ stack[w].name \notin Sections /\ stack[w].name = w
      BY <1>0 DEF WatchesInv
    <3> HIDE DEF new
    <3> QED BY <2>1, <3>1, <3>2
  <2>6. ASSUME NEW w \in DOMAIN watches
        PROVE  /\ GoodWatch(watches'[w]) /\ watches'[w].name = w
               /\ watches'[w].seq < seq' \/ sessions > 1
    <3>1. GoodWatch(watches[w]) /\ watches[w].name = w /\ (watches[w].seq < seq \/ sessions > 1)
      BY <1>0 DEF WatchesInv
    <3>2. watches[w].seq \in Nat
      BY <3>1 DEF GoodWatch, GoodNode
    <3> DEFINE y == Checked(watches[w], vs, n)
    <3>3. watches'[w] = y
      BY <2>1
    <3> HIDE DEF vs, n
    <3>4. GoodWatch(y) /\ y.name = watches[w].name /\ y.seq \in {watches[w].seq, n}
      BY <1>4, <1>7, <3>1, CheckedFacts
    <3> HIDE DEF y
    <3>5. y.seq < seq' \/ sessions > 1
      BY <1>0, <1>7, <2>3, <3>1, <3>2, <3>4
    <3> QED BY <3>1, <3>3, <3>4, <3>5
  <2>7. DOMAIN watches' = DOMAIN watches
    BY <2>1
  <2>8. WatchesInv'
    BY <1>0, <1>1, <1>10, <2>1, <2>5, <2>6, <2>7 DEF WatchesInv
  <2>9. FramesInv' /\ FlagsInv'
    BY <1>0, <1>1, <1>9, <2>1 DEF FramesInv, FlagsInv
  <2>10. ShownInv'
    BY <2>3, <2>8, <2>9 DEF ShownInv
  <2>11. Checks(m)
    BY <1>15, <2>1, <2>4 DEF Checks
  <2> QED BY <1>1, <1>2, <1>3, <1>4, <1>5, <1>15, <2>10, <2>11 DEF m
<1> QED BY <1>12, <1>13, <1>14, <1>15

\* A watch gets its value.
LEMMA ShownEvaluate ==
  ASSUME ShownInv, OnEvaluate
  PROVE  /\ ShownInv' /\ Asks(1) /\ UNCHANGED <<flagged, registers, running, sessions>>
         /\ DOMAIN watches' = DOMAIN watches
         /\ \A w \in DOMAIN watches : watches'[w].kids = watches[w].kids /\ watches'[w].seq = watches[w].seq
<1>0. MessagesInv /\ FramesInv /\ FlagsInv /\ WatchesInv /\ seq \in Nat
  BY DEF ShownInv, MessagesInv
<1>1. UNCHANGED <<stack, flagged, registers, memory, running, sessions, crashed, disturbed>>
  BY DEF OnEvaluate, ghosts
<1>2. Handle("evaluate")
  BY DEF OnEvaluate
<1> DEFINE f == Head(inbox).body
           node == Head(inbox).node
<1>3. f \in Frames \cup {None}
  <2>1. GoodAnswer(Head(inbox))
    BY <1>0, <1>2, AnswersFacts DEF MessagesInv, Handle
  <2> QED BY <1>2, <2>1 DEF GoodAnswer, Handle
<1>4. IF f = None THEN UNCHANGED <<watches, asked, seq>>
      ELSE /\ InRange
           /\ watches' = [w \in DOMAIN watches |->
                            IF node = <<w>> THEN [watches[w] EXCEPT !.value = Variable(f, w)]
                            ELSE watches[w]]
           /\ Ask(Refresh(seq))
  BY DEF OnEvaluate
<1>5. FramesInv'
  BY <1>0, <1>1 DEF FramesInv, OnEvaluate, adapter, frames, ghosts
<1>6. FlagsInv'
  BY <1>0, <1>1 DEF FlagsInv
<1> HIDE DEF f, node
<1>7. CASE f = None
  <2>1. Ask(<<>>) /\ Modest(<<>>, seq)
    BY <1>0, <1>4, <1>7, AskNothing, ModestFacts
  <2>2. MessagesInv' /\ seq' \in Nat /\ seq <= seq' /\ Shifted(Flow, Flow', 1, <<>>)
    BY <1>2, <2>1, TakeMessage DEF Modest
  <2>3. Asks(1)
    BY <2>1, <2>2, ModestAsks
  <2>4. WatchesInv'
    BY <1>0, <1>1, <1>4, <1>7, <2>2, WatchesStay
  <2> QED BY <1>1, <1>4, <1>5, <1>6, <1>7, <2>2, <2>3, <2>4 DEF ShownInv
<1>8. CASE f # None
  <2> DEFINE r == Refresh(seq)
  <2>1. /\ InRange /\ Ask(r)
        /\ watches' = [w \in DOMAIN watches |->
                         IF node = <<w>> THEN [watches[w] EXCEPT !.value = Variable(f, w)]
                         ELSE watches[w]]
    BY <1>4, <1>8
  <2>2. Modest(r, seq)
    BY <1>0, <2>1, RefreshSound
  <2> HIDE DEF r
  <2>3. MessagesInv' /\ seq' \in Nat /\ seq <= seq' /\ Shifted(Flow, Flow', 1, r)
    BY <1>2, <2>1, <2>2, TakeMessage DEF Modest
  <2>4. Asks(1)
    BY <2>2, <2>3, ModestAsks
  <2>5. ASSUME NEW w \in DOMAIN watches
        PROVE  /\ GoodWatch(watches'[w]) /\ watches'[w].name = w
               /\ watches'[w].seq = watches[w].seq /\ watches'[w].kids = watches[w].kids
               /\ watches'[w].seq < seq' \/ sessions > 1
               /\ sessions = 0 => watches'[w].seq = 0
    <3> DEFINE x == watches[w]
               y == watches'[w]
               v == Variable(f, w)
    <3>1. /\ GoodWatch(x) /\ x.name = w /\ (x.seq < seq \/ sessions > 1)
          /\ (sessions = 0 => x.seq = 0)
      BY <1>0 DEF WatchesInv
    <3>2. y = x \/ y = [x EXCEPT !.value = v]
      BY <2>1
    <3>3. v \in MaybeVar
      <4>1. w \in Names
        BY <1>0 DEF WatchesInv, Names
      <4> QED BY <1>3, <1>8, <4>1 DEF Variable, Named, MaybeVar
    <3> HIDE DEF x, y, v
    <3>4. /\ x = [name |-> x.name, value |-> x.value, ref |-> x.ref, seq |-> x.seq, kids |-> x.kids]
          /\ x.value \in MaybeVar /\ Sendable(x.ref) /\ x.seq \in Nat
          /\ \A k \in x.kids : GoodNode(k)
      BY <3>1 DEF GoodWatch, GoodNode
    <3>5. GoodWatch(y) /\ y.name = x.name /\ y.seq = x.seq /\ y.kids = x.kids
      <4>1. CASE y = [x EXCEPT !.value = v]
        <5>1. y = [name |-> x.name, value |-> v, ref |-> x.ref, seq |-> x.seq, kids |-> x.kids]
          BY <3>4, <4>1
        <5>2. y.name = x.name /\ y.value = v /\ y.ref = x.ref /\ y.seq = x.seq /\ y.kids = x.kids
          BY <5>1
        <5>3. GoodNode(y)
          BY <3>3, <3>4, <5>1, <5>2 DEF GoodNode
        <5> QED BY <3>4, <5>2, <5>3 DEF GoodWatch
      <4>2. CASE y = x
        BY <3>1, <4>2
      <4> QED BY <3>2, <4>1, <4>2
    <3>6. x.seq < seq' \/ sessions > 1
      BY <1>0, <2>3, <3>1, <3>4
    <3> QED BY <3>1, <3>5, <3>6 DEF x, y
  <2>6. DOMAIN watches' = DOMAIN watches
    BY <2>1
  <2>7. WatchesInv'
    BY <1>0, <1>1, <2>5, <2>6 DEF WatchesInv
  <2> QED BY <1>1, <1>5, <1>6, <2>3, <2>4, <2>5, <2>6, <2>7 DEF ShownInv
<1> QED BY <1>7, <1>8

\* The other handlers.
LEMMA ShownOthers ==
  ASSUME ShownInv, OnMemory \/ OnGotoTargets \/ OnDisassemble \/ OnOther
  PROVE  ShownInv' /\ Asks(1) /\ UNCHANGED <<stack, flagged, watches, registers, running, sessions>>
<1>0. MessagesInv /\ FramesInv /\ FlagsInv /\ WatchesInv /\ seq \in Nat
  BY DEF ShownInv, MessagesInv
<1>1. UNCHANGED <<stack, flagged, watches, registers, running, sessions, crashed, disturbed>>
  BY DEF OnMemory, OnGotoTargets, OnDisassemble, OnOther, shown, ghosts
<1>2. PICK kind : Handle(kind)
  BY DEF OnMemory, OnGotoTargets, OnDisassemble, OnOther
<1>3. UNCHANGED <<stop, lastStop, depth, source, active, backtrace, frame, user, acts>>
  BY DEF OnMemory, OnGotoTargets, OnDisassemble, OnOther, adapter, frames, ghosts
<1>4. memory' \in Frames \cup {None}
  <2>1. CASE OnMemory
    <3>1. GoodAnswer(Head(inbox)) /\ Head(inbox).kind = "memory"
      BY <1>0, <2>1, AnswersFacts DEF MessagesInv, Handle, OnMemory
    <3> QED BY <2>1, <3>1 DEF GoodAnswer, OnMemory
  <2>2. CASE OnGotoTargets \/ OnDisassemble \/ OnOther
    BY <1>0, <2>2 DEF FramesInv, OnGotoTargets, OnDisassemble, OnOther, shown
  <2> QED BY <2>1, <2>2
<1>5. FramesInv' /\ FlagsInv'
  BY <1>0, <1>1, <1>3, <1>4 DEF FramesInv, FlagsInv
<1>6. \E r : Modest(r, seq) /\ Ask(r)
  <2>1. CASE asked' = asked /\ seq' = seq
    BY <1>0, <2>1, AskNothing, ModestFacts
  <2>2. CASE OnGotoTargets
    <3> DEFINE a == Request("goto", active, Nobody, seq)
    <3>1. a.kind = "goto" /\ a.arg = active /\ a.seq = seq /\ HasKind(a)
      BY FieldFacts
    <3>2. Ask(<<>>) \/ (active # None /\ Ask(<<a>>))
      BY <2>2 DEF OnGotoTargets
    <3> HIDE DEF a
    <3>3. active # None => GoodRequest(a)
      BY <1>0, <3>1 DEF GoodRequest, FramesInv
    <3>4. active # None => Modest(<<a>>, seq)
      BY <1>0, <3>1, <3>3, ModestFacts
    <3>5. Modest(<<>>, seq)
      BY <1>0, ModestFacts
    <3> QED BY <3>2, <3>4, <3>5
  <2> QED BY <2>1, <2>2 DEF OnMemory, OnDisassemble, OnOther
<1>7. PICK r : Modest(r, seq) /\ Ask(r)
  BY <1>6
<1>8. MessagesInv' /\ seq' \in Nat /\ seq <= seq' /\ Shifted(Flow, Flow', 1, r)
  BY <1>2, <1>7, TakeMessage DEF Modest
<1>9. Asks(1)
  BY <1>7, <1>8, ModestAsks
<1>10. WatchesInv'
  BY <1>0, <1>1, <1>8, WatchesStay
<1> QED BY <1>1, <1>5, <1>8, <1>9, <1>10 DEF ShownInv

-----------------------------------------------------------------------------
(* The user                                                                 *)

\* Requests are sent.
LEMMA SendRequests ==
  ASSUME ShownInv, inbox' = inbox, NEW r, Sound(r, seq), Ask(r)
  PROVE  MessagesInv' /\ seq \in Nat /\ seq' \in Nat /\ seq <= seq' /\ Shifted(Flow, Flow', 0, r)
<1>1. MessagesInv
  BY DEF ShownInv
<1>2. MessagesInv' /\ seq <= seq' /\ Shifted(Flow, Flow', 0, r)
  BY <1>1, AskMessages
<1> QED BY <1>1, <1>2 DEF MessagesInv

\* What the user asks for that changes nothing that is shown.
LEMMA ShownAsking ==
  ASSUME ShownInv,
         \/ Resume \/ UpdateBacktrace \/ SetNextStatement
         \/ Tooltip \/ SendCommand \/ ExamineMemory
         \/ \E i \in 1 .. Len(backtrace) : SwitchToFrame(i)
         \/ \E t \in Threads : SwitchToThread(t)
         \/ \E w \in DOMAIN watches : UpdateWatch(w)
         \/ UseMissingFrame
  PROVE  ShownInv' /\ Asks(0) /\ UNCHANGED <<stack, flagged, watches, registers, running, sessions>>
<1>0. MessagesInv /\ FramesInv /\ FlagsInv /\ WatchesInv /\ seq \in Nat
  BY DEF ShownInv, MessagesInv
<1>1. /\ UNCHANGED <<stop, lastStop, depth, source, active, backtrace>>
      /\ UNCHANGED <<stack, flagged, watches, registers, memory, running, sessions>>
      /\ inbox' = inbox
  BY DEF Resume, UpdateBacktrace, SetNextStatement, Tooltip, SendCommand, ExamineMemory, AskAbout,
         SwitchToFrame, SwitchToThread, UpdateWatch, UseMissingFrame, adapter, frames, shown
<1>2. acts' \in 0 .. MaxActs
  <2>1. Act \/ acts' = acts
    BY DEF Resume, UpdateBacktrace, SetNextStatement, Tooltip, SendCommand, ExamineMemory, AskAbout,
           SwitchToFrame, SwitchToThread, UpdateWatch, UseMissingFrame
  <2> QED BY <1>0, <2>1, InspectAssumption DEF Act, FramesInv
<1>3. frame' \in Nat /\ user' \in Nat
  <2>1. UNCHANGED <<frame, user>> \/ (\E i \in 1 .. Len(backtrace) : SwitchToFrame(i))
          \/ (\E t \in Threads : SwitchToThread(t))
    BY DEF Resume, UpdateBacktrace, SetNextStatement, Tooltip, SendCommand, ExamineMemory, AskAbout,
           UpdateWatch, UseMissingFrame, frames
  <2>2. \A i \in 1 .. Len(backtrace) : i \in Nat
    OBVIOUS
  <2>3. CASE \E i \in 1 .. Len(backtrace) : SwitchToFrame(i)
    BY <2>2, <2>3 DEF SwitchToFrame
  <2>4. CASE \E t \in Threads : SwitchToThread(t)
    BY <2>4 DEF SwitchToThread
  <2> QED BY <1>0, <2>1, <2>3, <2>4 DEF FramesInv
<1>4. FlagsInv'
  <2>1. crashed' \in BOOLEAN
    BY <1>0 DEF FlagsInv, Resume, UpdateBacktrace, SetNextStatement, Tooltip, SendCommand,
           ExamineMemory, AskAbout, SwitchToFrame, SwitchToThread, UpdateWatch, UseMissingFrame
  <2>2. disturbed' = disturbed \/ \E c : Disturb(c)
    BY DEF Resume, UpdateBacktrace, SetNextStatement, Tooltip, SendCommand,
           ExamineMemory, AskAbout, SwitchToFrame, SwitchToThread, UpdateWatch, UseMissingFrame
  <2>3. disturbed' \in BOOLEAN
    BY <1>0, <2>2 DEF Disturb, FlagsInv
  <2> QED BY <1>0, <1>1, <2>1, <2>3 DEF FlagsInv
<1>5. FramesInv'
  BY <1>0, <1>1, <1>2, <1>3 DEF FramesInv
<1>6. \E r : Modest(r, seq) /\ Ask(r)
  <2>1. CASE asked' = asked /\ seq' = seq
    BY <1>0, <2>1, AskNothing, ModestFacts
  <2>2. CASE Resume \/ SetNextStatement
    <3>1. PICK kind \in {"resume", "gotoTargets"} : Ask(<<Request(kind, None, Nobody, seq)>>)
      BY <2>2 DEF Resume, SetNextStatement
    <3> DEFINE a == Request(kind, None, Nobody, seq)
    <3>2. a.kind = kind /\ a.seq = seq /\ HasKind(a)
      BY FieldFacts
    <3>3. Ask(<<a>>)
      BY <3>1
    <3> HIDE DEF a
    <3>4. GoodRequest(a)
      BY <3>2 DEF GoodRequest
    <3>5. Modest(<<a>>, seq)
      BY <1>0, <3>2, <3>4, ModestFacts
    <3> QED BY <3>3, <3>5
  <2>3. CASE UpdateBacktrace \/ \E t \in Threads : SwitchToThread(t)
    <3>1. PICK t \in Threads \cup {None} : Ask(<<Request("stackTrace", t, Nobody, seq)>>)
      BY <1>0, <2>3 DEF UpdateBacktrace, SwitchToThread, FramesInv
    <3> DEFINE a == Request("stackTrace", t, Nobody, seq)
    <3>2. a.kind = "stackTrace" /\ a.arg = t /\ a.seq = seq /\ HasKind(a)
      BY FieldFacts
    <3>3. Ask(<<a>>)
      BY <3>1
    <3> HIDE DEF a
    <3>4. GoodRequest(a)
      BY <3>2 DEF GoodRequest
    <3>5. Modest(<<a>>, seq)
      BY <1>0, <3>2, <3>4, ModestFacts
    <3> QED BY <3>3, <3>5
  <2>4. CASE Tooltip \/ SendCommand \/ ExamineMemory
    <3>1. PICK kind \in {"text", "memory"} : InRange /\ Ask(AskFrame(kind, Nobody, seq))
      BY <2>4 DEF Tooltip, SendCommand, ExamineMemory, AskAbout
    <3>2. Modest(AskFrame(kind, Nobody, seq), seq)
      BY <1>0, <3>1, FrameSound
    <3> QED BY <3>1, <3>2
  <2>5. CASE \E w \in DOMAIN watches : UpdateWatch(w)
    <3>1. PICK w \in DOMAIN watches : InRange /\ Ask(UpdateRequests(watches[w], seq))
      BY <2>5 DEF UpdateWatch
    <3>2. Modest(UpdateRequests(watches[w], seq), seq)
      BY <1>0, <3>1, UpdateSound
    <3> QED BY <3>1, <3>2
  <2> QED BY <2>1, <2>2, <2>3, <2>4, <2>5 DEF SwitchToFrame, UseMissingFrame
<1>7. PICK r : Modest(r, seq) /\ Ask(r)
  BY <1>6
<1>8. MessagesInv' /\ seq' \in Nat /\ seq <= seq' /\ Shifted(Flow, Flow', 0, r)
  BY <1>1, <1>7, SendRequests DEF Modest
<1>9. Asks(0)
  BY <1>7, <1>8, ModestAsks
<1>10. WatchesInv'
  BY <1>0, <1>1, <1>8, WatchesStay
<1> QED BY <1>1, <1>4, <1>5, <1>8, <1>9, <1>10 DEF ShownInv

\* The registers are asked for anew.
LEMMA ShownRegisters ==
  ASSUME ShownInv, UpdateRegisters
  PROVE  /\ ShownInv' /\ AsksScopes(0) /\ registers' = {}
         /\ UNCHANGED <<stack, flagged, watches, running, sessions>>
<1>0. MessagesInv /\ FramesInv /\ FlagsInv /\ WatchesInv /\ seq \in Nat
  BY DEF ShownInv, MessagesInv
<1>1. /\ UNCHANGED <<stop, lastStop, depth, source, active, backtrace, frame, user>>
      /\ UNCHANGED <<stack, flagged, watches, memory, running, sessions, crashed>>
      /\ inbox' = inbox /\ registers' = {} /\ InRange /\ Disturb(~Settled)
  BY DEF UpdateRegisters, adapter, frames
<1>2. acts' \in 0 .. MaxActs
  BY <1>0, InspectAssumption DEF UpdateRegisters, Act, FramesInv
<1> DEFINE m == Request("scopes", backtrace[frame], Nobody, seq)
           r == AskFrame("scopes", Nobody, seq)
<1>3. Ask(r)
  BY DEF UpdateRegisters
<1>4. Sound(r, seq)
  BY <1>0, <1>1, FrameSound
<1>5. Len(r) <= 1 /\ \A i \in 1 .. Len(r) : r[i].kind = "scopes"
  <2> DEFINE e == <<>>
             s == <<m>>
  <2>1. m.kind = "scopes"
    BY FieldFacts
  <2>2. r = e \/ r = s
    BY DEF AskFrame
  <2>3. Len(e) = 0 /\ 1 .. 0 = {}
    OBVIOUS
  <2>4. Len(s) = 1 /\ s[1] = m /\ \A i \in 1 .. 1 : i = 1
    OBVIOUS
  <2> HIDE DEF m, e, s, r
  <2>5. CASE r = e
    BY <2>3, <2>5
  <2>6. CASE r = s
    <3>1. Len(r) = 1 /\ \A i \in 1 .. 1 : r[i] = m
      BY <2>4, <2>6
    <3> QED BY <2>1, <3>1
  <2> QED BY <2>2, <2>5, <2>6
<1> HIDE DEF r
<1>6. MessagesInv' /\ seq' \in Nat /\ seq <= seq' /\ Shifted(Flow, Flow', 0, r)
  BY <1>1, <1>3, <1>4, SendRequests
<1>7. AsksScopes(0)
  BY <1>4, <1>5, <1>6 DEF AsksScopes
<1>8. WatchesInv'
  <2>1. ASSUME NEW w \in DOMAIN watches
        PROVE  /\ GoodWatch(watches[w]) /\ watches[w].name = w
               /\ (watches[w].seq < seq' \/ sessions > 1)
               /\ (sessions = 0 => watches[w].seq = 0)
    <3>1. /\ GoodWatch(watches[w]) /\ watches[w].name = w /\ (sessions = 0 => watches[w].seq = 0)
          /\ (watches[w].seq < seq \/ sessions > 1)
      BY <1>0 DEF WatchesInv
    <3>2. watches[w].seq \in Nat
      BY <3>1 DEF GoodWatch, GoodNode
    <3>3. watches[w].seq < seq' \/ sessions > 1
      BY <1>0, <1>6, <3>1, <3>2
    <3> QED BY <3>1, <3>3
  <2> QED BY <1>0, <1>1, <2>1 DEF WatchesInv
<1>9. FramesInv' /\ FlagsInv'
  BY <1>0, <1>1, <1>2 DEF FramesInv, FlagsInv, Disturb
<1> QED BY <1>1, <1>6, <1>7, <1>8, <1>9 DEF ShownInv

\* A watch is added.
LEMMA ShownAdd ==
  ASSUME ShownInv, NEW w \in Symbols \ DOMAIN watches, AddWatch(w)
  PROVE  /\ ShownInv' /\ Asks(0) /\ UNCHANGED <<stack, flagged, registers, running, sessions>>
         /\ DOMAIN watches' = DOMAIN watches \cup {w} /\ watches'[w].seq = 0
         /\ \A v \in DOMAIN watches : watches'[v] = watches[v]
<1>0. MessagesInv /\ FramesInv /\ FlagsInv /\ WatchesInv /\ seq \in Nat
  BY DEF ShownInv, MessagesInv
<1> DEFINE node == IF w \in DOMAIN stack THEN NodeOf(stack[w]) ELSE Node(w, None, None)
<1>1. /\ UNCHANGED <<stop, lastStop, depth, source, active, backtrace, frame, user>>
      /\ UNCHANGED <<stack, flagged, registers, memory, running, sessions, crashed, disturbed>>
      /\ inbox' = inbox /\ InRange
      /\ watches' = [v \in DOMAIN watches \cup {w} |-> IF v = w THEN node ELSE watches[v]]
      /\ IF running THEN Ask(UpdateRequests(node, seq)) ELSE UNCHANGED <<asked, seq>>
  BY DEF AddWatch, adapter, frames
<1>2. acts' \in 0 .. MaxActs
  BY <1>0, InspectAssumption DEF AddWatch, Act, FramesInv
<1>3. GoodWatch(node) /\ node.seq = 0 /\ node.name = w
  BY <1>0, NodeFacts DEF WatchesInv
<1> HIDE DEF node
<1>4. \E r : Modest(r, seq) /\ Ask(r)
  <2>1. CASE running
    BY <1>0, <1>1, <2>1, UpdateSound
  <2>2. CASE ~running
    BY <1>0, <1>1, <2>2, AskNothing, ModestFacts
  <2> QED BY <2>1, <2>2
<1>5. PICK r : Modest(r, seq) /\ Ask(r)
  BY <1>4
<1>6. MessagesInv' /\ seq' \in Nat /\ seq <= seq' /\ Shifted(Flow, Flow', 0, r)
  BY <1>1, <1>5, SendRequests DEF Modest
<1>7. Asks(0)
  BY <1>5, <1>6, ModestAsks
<1>8. /\ DOMAIN watches' = DOMAIN watches \cup {w} /\ watches'[w] = node
      /\ \A v \in DOMAIN watches : watches'[v] = watches[v]
  BY <1>1
<1>9. WatchesInv'
  <2>1. ASSUME NEW v \in DOMAIN watches'
        PROVE  /\ GoodWatch(watches'[v]) /\ watches'[v].name = v
               /\ (watches'[v].seq < seq' \/ sessions > 1)
               /\ (sessions = 0 => watches'[v].seq = 0)
    <3>1. CASE v = w
      <4>1. seq > 0
        BY <1>0 DEF MessagesInv
      <4>2. 0 < seq'
        BY <1>0, <1>6, <4>1
      <4> QED BY <1>3, <1>8, <3>1, <4>2
    <3>2. CASE v # w
      <4>1. /\ GoodWatch(watches[v]) /\ watches[v].name = v /\ (sessions = 0 => watches[v].seq = 0)
            /\ (watches[v].seq < seq \/ sessions > 1) /\ watches'[v] = watches[v]
        BY <1>0, <1>8, <3>2 DEF WatchesInv
      <4>2. watches[v].seq \in Nat
        BY <4>1 DEF GoodWatch, GoodNode
      <4>3. watches[v].seq < seq' \/ sessions > 1
        BY <1>0, <1>6, <4>1, <4>2
      <4> QED BY <4>1, <4>3
    <3> QED BY <3>1, <3>2
  <2>2. DOMAIN watches' \subseteq Symbols
    BY <1>0, <1>8 DEF WatchesInv
  <2> QED BY <1>0, <1>1, <2>1, <2>2 DEF WatchesInv
<1>10. FramesInv' /\ FlagsInv'
  BY <1>0, <1>1, <1>2 DEF FramesInv, FlagsInv
<1> QED BY <1>1, <1>3, <1>6, <1>7, <1>8, <1>9, <1>10 DEF ShownInv

\* What is on its way for a watch that is deleted stays what it was.
LEMMA Forgotten ==
  ASSUME NEW w
  PROVE  /\ \A s : Requests(s) =>
              /\ Requests(Forget(s, w)) /\ Len(Forget(s, w)) = Len(s)
              /\ \A i \in 1 .. Len(s) : RequestMark(Forget(s, w)[i]) = RequestMark(s[i])
         /\ \A s : Answers(s) =>
              /\ Answers(Forget(s, w)) /\ Len(Forget(s, w)) = Len(s)
              /\ \A i \in 1 .. Len(s) : AnswerMark(Forget(s, w)[i]) = AnswerMark(s[i])
<1> DEFINE Without(m) == IF m.kind = "evaluate" /\ m.node = <<w>> THEN [m EXCEPT !.node = Nobody] ELSE m
<1>1. ASSUME NEW S, NEW s \in Seq(S)
      PROVE  /\ Forget(s, w) \in Seq({Without(m) : m \in S}) /\ Len(Forget(s, w)) = Len(s)
             /\ \A i \in 1 .. Len(s) : s[i] \in S /\ Forget(s, w)[i] = Without(s[i])
  <2>1. Forget(s, w) = [i \in 1 .. Len(s) |-> Without(s[i])]
    BY <1>1 DEF Forget
  <2> HIDE DEF Without
  <2>2. Len(s) \in Nat /\ \A i \in 1 .. Len(s) : s[i] \in S
    BY <1>1
  <2> QED BY <2>1, <2>2
<1>2. ASSUME NEW m, GoodRequest(m)
      PROVE  GoodRequest(Without(m)) /\ RequestMark(Without(m)) = RequestMark(m)
  <2>1. CASE m.kind = "evaluate" /\ m.node = <<w>>
    <3> DEFINE e == [m EXCEPT !.node = Nobody]
    <3>1. e.kind = "evaluate" /\ e.arg = m.arg /\ HasKind(e) /\ "arg" \in DOMAIN e
      BY <1>2, <2>1 DEF GoodRequest, HasKind
    <3>2. Without(m) = e
      BY <2>1
    <3> HIDE DEF e, Without
    <3>3. GoodRequest(e)
      BY <1>2, <2>1, <3>1 DEF GoodRequest
    <3>4. RequestMark(e) = RequestMark(m)
      BY <2>1, <3>1 DEF RequestMark, Mark, RequestColor, NumberedKinds
    <3> QED BY <3>2, <3>3, <3>4
  <2>2. CASE ~(m.kind = "evaluate" /\ m.node = <<w>>)
    <3>1. Without(m) = m
      BY <2>2
    <3> QED BY <1>2, <3>1
  <2> QED BY <2>1, <2>2
<1>3. ASSUME NEW m, GoodAnswer(m)
      PROVE  GoodAnswer(Without(m)) /\ AnswerMark(Without(m)) = AnswerMark(m)
  <2>1. CASE m.kind = "evaluate" /\ m.node = <<w>>
    <3> DEFINE e == [m EXCEPT !.node = Nobody]
    <3>1. e.kind = "evaluate" /\ e.body = m.body /\ HasKind(e) /\ "body" \in DOMAIN e
      BY <1>3, <2>1 DEF GoodAnswer, HasKind
    <3>2. Without(m) = e
      BY <2>1
    <3> HIDE DEF e, Without
    <3>3. GoodAnswer(e)
      BY <1>3, <2>1, <3>1 DEF GoodAnswer
    <3>4. AnswerMark(e) = AnswerMark(m)
      BY <2>1, <3>1 DEF AnswerMark, Mark, AnswerColor, NumberedKinds
    <3> QED BY <3>2, <3>3, <3>4
  <2>2. CASE ~(m.kind = "evaluate" /\ m.node = <<w>>)
    <3>1. Without(m) = m
      BY <2>2
    <3> QED BY <1>3, <3>1
  <2> QED BY <2>1, <2>2
<1> HIDE DEF Without
<1>4. ASSUME NEW s, Requests(s)
      PROVE  /\ Requests(Forget(s, w)) /\ Len(Forget(s, w)) = Len(s)
             /\ \A i \in 1 .. Len(s) : RequestMark(Forget(s, w)[i]) = RequestMark(s[i])
  <2>1. PICK S : s \in Seq(S) /\ \A m \in S : GoodRequest(m)
    BY <1>4 DEF Requests
  <2>2. /\ Forget(s, w) \in Seq({Without(m) : m \in S}) /\ Len(Forget(s, w)) = Len(s)
        /\ \A i \in 1 .. Len(s) : s[i] \in S /\ Forget(s, w)[i] = Without(s[i])
    BY <1>1, <2>1
  <2>3. \A m \in {Without(m) : m \in S} : GoodRequest(m)
    BY <1>2, <2>1
  <2>4. Requests(Forget(s, w))
    BY <2>2, <2>3 DEF Requests
  <2> QED BY <1>2, <2>1, <2>2, <2>4
<1>5. ASSUME NEW s, Answers(s)
      PROVE  /\ Answers(Forget(s, w)) /\ Len(Forget(s, w)) = Len(s)
             /\ \A i \in 1 .. Len(s) : AnswerMark(Forget(s, w)[i]) = AnswerMark(s[i])
  <2>1. PICK S : s \in Seq(S) /\ \A m \in S : GoodAnswer(m)
    BY <1>5 DEF Answers
  <2>2. /\ Forget(s, w) \in Seq({Without(m) : m \in S}) /\ Len(Forget(s, w)) = Len(s)
        /\ \A i \in 1 .. Len(s) : s[i] \in S /\ Forget(s, w)[i] = Without(s[i])
    BY <1>1, <2>1
  <2>3. \A m \in {Without(m) : m \in S} : GoodAnswer(m)
    BY <1>3, <2>1
  <2>4. Answers(Forget(s, w))
    BY <2>2, <2>3 DEF Answers
  <2> QED BY <1>3, <2>1, <2>2, <2>4
<1> QED BY <1>4, <1>5

\* A watch is deleted.
LEMMA ShownDelete ==
  ASSUME ShownInv, NEW w \in DOMAIN watches, DeleteWatch(w)
  PROVE  /\ ShownInv' /\ Shifted(Flow, Flow', 0, <<>>)
         /\ UNCHANGED <<stack, flagged, registers, running, sessions>>
         /\ DOMAIN watches' \subseteq DOMAIN watches
         /\ \A v \in DOMAIN watches' : watches'[v] = watches[v]
<1>0. MessagesInv /\ FramesInv /\ FlagsInv /\ WatchesInv /\ seq \in Nat
  BY DEF ShownInv, MessagesInv
<1>1. /\ UNCHANGED <<stop, lastStop, depth, source, active, backtrace, frame, user>>
      /\ UNCHANGED <<stack, flagged, registers, memory, running, sessions, crashed, disturbed, seq>>
      /\ asked' = Forget(asked, w) /\ inbox' = Forget(inbox, w)
      /\ watches' = [v \in DOMAIN watches \ {w} |-> watches[v]]
  BY DEF DeleteWatch, adapter, frames
<1>2. acts' \in 0 .. MaxActs
  BY <1>0, InspectAssumption DEF DeleteWatch, Act, FramesInv
<1>3. Requests(asked) /\ Answers(inbox)
  BY <1>0 DEF MessagesInv
<1>4. /\ Requests(asked') /\ Len(asked') = Len(asked)
      /\ \A i \in 1 .. Len(asked) : RequestMark(asked'[i]) = RequestMark(asked[i])
  BY <1>1, <1>3, Forgotten
<1>5. /\ Answers(inbox') /\ Len(inbox') = Len(inbox)
      /\ \A i \in 1 .. Len(inbox) : AnswerMark(inbox'[i]) = AnswerMark(inbox[i])
  BY <1>1, <1>3, Forgotten
<1>6. /\ IsSequence(asked) /\ IsSequence(inbox) /\ IsSequence(asked') /\ IsSequence(inbox')
  BY <1>3, <1>4, <1>5, RequestsFacts, AnswersFacts
<1>7. /\ Len(inbox) \in Nat /\ Len(asked) \in Nat /\ Len(Flow) = Len(inbox) + Len(asked)
      /\ \A i \in 1 .. Len(inbox) : Flow[i] = AnswerMark(inbox[i])
      /\ \A i \in 1 .. Len(asked) : Flow[Len(inbox) + i] = RequestMark(asked[i])
      /\ \A i \in 1 .. Len(inbox) + Len(asked) : i \in 1 .. Len(inbox) \/ i - Len(inbox) \in 1 .. Len(asked)
  BY <1>6, FlowAt DEF Flow
<1>8. /\ Len(Flow') = Len(inbox') + Len(asked')
      /\ \A i \in 1 .. Len(inbox') : Flow'[i] = AnswerMark(inbox'[i])
      /\ \A i \in 1 .. Len(asked') : Flow'[Len(inbox') + i] = RequestMark(asked'[i])
  BY <1>6, FlowAt DEF Flow
<1>9. ASSUME NEW i \in 1 .. Len(Flow) PROVE Flow'[i] = Flow[i]
  <2>1. CASE i \in 1 .. Len(inbox)
    BY <1>5, <1>7, <1>8, <2>1
  <2>2. CASE i - Len(inbox) \in 1 .. Len(asked)
    <3> DEFINE j == i - Len(inbox)
    <3>1. j \in 1 .. Len(asked) /\ Len(inbox) + j = i
      BY <1>7, <2>2
    <3> HIDE DEF j
    <3> QED BY <1>4, <1>5, <1>7, <1>8, <3>1
  <2> QED BY <1>7, <2>1, <2>2
<1>10. Len(Flow') = Len(Flow) /\ Len(Flow) \in Nat
  BY <1>4, <1>5, <1>7, <1>8
<1>11. Shifted(Flow, Flow', 0, <<>>)
  <2> DEFINE e == <<>>
  <2>1. Len(e) = 0 /\ 1 .. 0 = {}
    OBVIOUS
  <2> HIDE DEF e
  <2>2. \A i \in 1 .. Len(Flow) - 0 : i \in 1 .. Len(Flow) /\ i + 0 = i
    BY <1>10
  <2>3. Len(Flow') = Len(Flow) - 0 + 0 /\ 0 <= Len(Flow)
    BY <1>10
  <2>4. Shifted(Flow, Flow', 0, e)
    BY <1>9, <1>10, <2>1, <2>2, <2>3 DEF Shifted
  <2> QED BY <2>4 DEF e
<1>12. NumbersOf(Flow', seq')
  BY <1>0, <1>1, <1>9, <1>10 DEF MessagesInv, NumbersOf
<1>13. MessagesInv'
  BY <1>0, <1>1, <1>4, <1>5, <1>12 DEF MessagesInv
<1>14. DOMAIN watches' = DOMAIN watches \ {w} /\ \A v \in DOMAIN watches' : watches'[v] = watches[v]
  BY <1>1
<1>15. WatchesInv'
  BY <1>0, <1>1, <1>14 DEF WatchesInv
<1>16. FramesInv' /\ FlagsInv'
  BY <1>0, <1>1, <1>2 DEF FramesInv, FlagsInv
<1> QED BY <1>1, <1>11, <1>13, <1>14, <1>15, <1>16 DEF ShownInv

\* A request for the members of a watch, or of one of its members.
AsksMembers(n) ==
  \E m : /\ Sound(<<m>>, seq) /\ Shifted(Flow, Flow', 0, <<m>>)
         /\ RequestMark(m).node = n /\ RequestMark(m).number = seq /\ RequestMark(m).color = "plain"

\* It is sent.
LEMMA MembersSent ==
  ASSUME ShownInv, inbox' = inbox, NEW ref, Sendable(ref), NEW n,
         Ask(<<Request("variables", ref, n, seq)>>)
  PROVE  MessagesInv' /\ AsksMembers(n) /\ seq' = seq + 1
<1>0. MessagesInv /\ seq \in Nat
  BY DEF ShownInv, MessagesInv
<1> DEFINE m == Request("variables", ref, n, seq)
           r == <<m>>
<1>1. m.kind = "variables" /\ m.arg = ref /\ m.node = n /\ m.seq = seq /\ HasKind(m)
  BY FieldFacts
<1>2. Ask(r)
  OBVIOUS
<1> HIDE DEF m
<1>3. GoodRequest(m)
  BY <1>1 DEF GoodRequest, Sendable
<1>4. RequestMark(m).node = n /\ RequestMark(m).number = seq /\ RequestMark(m).color = "plain"
  BY <1>1 DEF RequestMark, Mark, RequestColor, NumberedKinds, Sendable, Sections
<1>5. Sound(r, seq)
  BY <1>0, <1>1, <1>3, SoundFacts
<1>6. Len(r) = 1
  OBVIOUS
<1> HIDE DEF r
<1>7. MessagesInv' /\ Shifted(Flow, Flow', 0, r)
  BY <1>2, <1>5, SendRequests
<1>8. seq' = seq + 1
  BY <1>2, <1>6 DEF Ask
<1> QED BY <1>4, <1>5, <1>7, <1>8 DEF AsksMembers, r

\* A watch is expanded.
LEMMA ShownExpand ==
  ASSUME ShownInv, NEW w \in DOMAIN watches, ExpandWatch(w)
  PROVE  /\ ShownInv' /\ AsksMembers(<<w>>)
         /\ UNCHANGED <<stack, flagged, registers, running, sessions>>
         /\ DOMAIN watches' = DOMAIN watches
         /\ watches'[w].seq = seq /\ watches'[w].kids = {}
         /\ \A v \in DOMAIN watches \ {w} : watches'[v] = watches[v]
<1>0. MessagesInv /\ FramesInv /\ FlagsInv /\ WatchesInv /\ seq \in Nat
  BY DEF ShownInv, MessagesInv
<1> DEFINE y == Opened(watches[w], seq)
<1>1. /\ UNCHANGED <<stop, lastStop, depth, source, active, backtrace, frame, user>>
      /\ UNCHANGED <<stack, flagged, registers, memory, running, sessions, crashed, disturbed>>
      /\ inbox' = inbox /\ running
      /\ watches' = [watches EXCEPT ![w] = y]
      /\ Ask(<<Request("variables", watches[w].ref, <<w>>, seq)>>)
  BY DEF ExpandWatch, adapter, frames
<1>2. acts' \in 0 .. MaxActs
  BY <1>0, InspectAssumption DEF ExpandWatch, Act, FramesInv
<1>3. GoodWatch(watches[w]) /\ watches[w].name = w
  BY <1>0 DEF WatchesInv
<1>4. GoodWatch(y) /\ y.name = w /\ y.seq = seq /\ y.kids = {}
  BY <1>0, <1>3, OpenedFacts DEF GoodWatch
<1> HIDE DEF y
<1>5. Sendable(watches[w].ref)
  BY <1>3 DEF GoodWatch, GoodNode
<1>6. MessagesInv' /\ AsksMembers(<<w>>) /\ seq' = seq + 1
  BY <1>1, <1>5, MembersSent
<1>7. /\ DOMAIN watches' = DOMAIN watches /\ watches'[w] = y
      /\ \A v \in DOMAIN watches \ {w} : watches'[v] = watches[v]
  BY <1>1
<1>8. sessions # 0
  BY <1>0, <1>1 DEF WatchesInv
<1>9. WatchesInv'
  <2>1. ASSUME NEW v \in DOMAIN watches
        PROVE  /\ GoodWatch(watches'[v]) /\ watches'[v].name = v
               /\ (watches'[v].seq < seq' \/ sessions > 1)
    <3>1. CASE v = w
      BY <1>0, <1>4, <1>6, <1>7, <3>1
    <3>2. CASE v # w
      <4>1. /\ GoodWatch(watches[v]) /\ watches[v].name = v /\ watches'[v] = watches[v]
            /\ (watches[v].seq < seq \/ sessions > 1)
        BY <1>0, <1>7, <3>2 DEF WatchesInv
      <4>2. watches[v].seq \in Nat
        BY <4>1 DEF GoodWatch, GoodNode
      <4>3. watches[v].seq < seq' \/ sessions > 1
        BY <1>0, <1>6, <4>1, <4>2
      <4> QED BY <4>1, <4>3
    <3> QED BY <3>1, <3>2
  <2> QED BY <1>0, <1>1, <1>7, <1>8, <2>1 DEF WatchesInv
<1>10. FramesInv' /\ FlagsInv'
  BY <1>0, <1>1, <1>2 DEF FramesInv, FlagsInv
<1> QED BY <1>1, <1>4, <1>6, <1>7, <1>9, <1>10 DEF ShownInv

\* A member of a watch is expanded.
LEMMA ShownExpandChild ==
  ASSUME ShownInv, NEW w \in DOMAIN watches, NEW k \in watches[w].kids, ExpandChild(w, k)
  PROVE  /\ ShownInv' /\ AsksMembers(<<w, k.name>>)
         /\ UNCHANGED <<stack, flagged, registers, running, sessions>>
         /\ DOMAIN watches' = DOMAIN watches /\ watches'[w].seq = watches[w].seq
         /\ \A v \in DOMAIN watches \ {w} : watches'[v] = watches[v]
<1>0. MessagesInv /\ FramesInv /\ FlagsInv /\ WatchesInv /\ seq \in Nat
  BY DEF ShownInv, MessagesInv
<1> DEFINE x == watches[w]
           new == (x.kids \ {k}) \cup {Opened(k, seq)}
           y == [x EXCEPT !.kids = new]
<1>1. /\ UNCHANGED <<stop, lastStop, depth, source, active, backtrace, frame, user>>
      /\ UNCHANGED <<stack, flagged, registers, memory, running, sessions, crashed, disturbed>>
      /\ inbox' = inbox /\ running
      /\ Ask(<<Request("variables", k.ref, <<w, k.name>>, seq)>>)
  BY DEF ExpandChild, adapter, frames
<1>2. acts' \in 0 .. MaxActs
  BY <1>0, InspectAssumption DEF ExpandChild, Act, FramesInv
<1>3. watches' = [watches EXCEPT ![w] = y]
  BY DEF ExpandChild
<1>4. GoodWatch(x) /\ x.name = w
  BY <1>0 DEF WatchesInv
<1>5. GoodNode(k)
  BY <1>4 DEF GoodWatch
<1>6. \A d \in new : GoodNode(d)
  <2>1. GoodNode(Opened(k, seq))
    BY <1>0, <1>5, OpenedFacts DEF GoodWatch
  <2> QED BY <1>4, <2>1 DEF GoodWatch
<1>7. Sendable(k.ref)
  BY <1>5 DEF GoodNode
<1>8. MessagesInv' /\ AsksMembers(<<w, k.name>>) /\ seq' = seq + 1
  BY <1>1, <1>7, MembersSent
<1> HIDE DEF new, x
<1>9. GoodWatch(y) /\ y.name = w /\ y.seq = x.seq
  <2>1. /\ x = [name |-> x.name, value |-> x.value, ref |-> x.ref, seq |-> x.seq, kids |-> x.kids]
        /\ x.value \in MaybeVar /\ Sendable(x.ref) /\ x.seq \in Nat
    BY <1>4 DEF GoodWatch, GoodNode
  <2>2. y = [name |-> x.name, value |-> x.value, ref |-> x.ref, seq |-> x.seq, kids |-> new]
    BY <2>1
  <2>3. y.name = x.name /\ y.value = x.value /\ y.ref = x.ref /\ y.seq = x.seq /\ y.kids = new
    BY <2>2
  <2> HIDE DEF y
  <2>4. GoodNode(y)
    BY <2>1, <2>2, <2>3 DEF GoodNode
  <2> QED BY <1>4, <1>6, <2>3, <2>4 DEF GoodWatch
<1> HIDE DEF y
<1>10. /\ DOMAIN watches' = DOMAIN watches /\ watches'[w] = y
       /\ \A v \in DOMAIN watches \ {w} : watches'[v] = watches[v]
  BY <1>3
<1>11. sessions # 0
  BY <1>0, <1>1 DEF WatchesInv
<1>12. WatchesInv'
  <2>1. ASSUME NEW v \in DOMAIN watches
        PROVE  /\ GoodWatch(watches'[v]) /\ watches'[v].name = v
               /\ (watches'[v].seq < seq' \/ sessions > 1)
    <3>1. /\ GoodWatch(watches[v]) /\ watches[v].name = v
          /\ (watches[v].seq < seq \/ sessions > 1)
      BY <1>0 DEF WatchesInv
    <3>2. watches[v].seq \in Nat
      BY <3>1 DEF GoodWatch, GoodNode
    <3>3. watches[v].seq < seq' \/ sessions > 1
      BY <1>0, <1>8, <3>1, <3>2
    <3>4. CASE v = w
      BY <1>9, <1>10, <3>3, <3>4 DEF x
    <3>5. CASE v # w
      BY <1>10, <3>1, <3>3, <3>5
    <3> QED BY <3>4, <3>5
  <2> QED BY <1>0, <1>1, <1>10, <1>11, <2>1 DEF WatchesInv
<1>13. FramesInv' /\ FlagsInv'
  BY <1>0, <1>1, <1>2 DEF FramesInv, FlagsInv
<1> QED BY <1>1, <1>8, <1>9, <1>10, <1>12, <1>13 DEF ShownInv, x

\* A session begins or ends: nothing is on its way.
LEMMA ShownSession ==
  ASSUME ShownInv, StartSession \/ SessionEnds
  PROVE  ShownInv' /\ Len(Flow') = 0 /\ UNCHANGED <<stack, flagged, watches, registers>>
<1>0. MessagesInv /\ FramesInv /\ FlagsInv /\ WatchesInv
  BY DEF ShownInv
<1>1. /\ asked' = <<>> /\ inbox' = <<>> /\ stop' = 0 /\ running' \in BOOLEAN
      /\ UNCHANGED <<lastStop, depth, source, acts, crashed, disturbed>>
      /\ UNCHANGED <<stack, flagged, watches, registers, memory>>
  BY DEF StartSession, SessionEnds, shown, ghosts
<1>2. Requests(asked') /\ Answers(inbox')
  BY <1>1, RequestsFacts, AnswersFacts
<1>3. IsSequence(asked') /\ IsSequence(inbox')
  BY <1>2, RequestsFacts, AnswersFacts
<1>4. Len(Flow') = Len(inbox') + Len(asked')
  BY <1>3, FlowAt DEF Flow
<1>5. Len(inbox') = 0 /\ Len(asked') = 0
  BY <1>1
<1>6. Len(Flow') = 0
  BY <1>4, <1>5
<1>7. NumbersOf(Flow', seq')
  BY <1>6 DEF NumbersOf
<1>8. seq' \in Nat /\ seq' > 0
  BY <1>0 DEF StartSession, SessionEnds, MessagesInv
<1>9. MessagesInv'
  BY <1>2, <1>7, <1>8 DEF MessagesInv
<1>10. FramesInv'
  <2>1. CASE StartSession
    <3>1. sessions' \in 0 .. MaxSessions
      BY <1>0, <2>1, InspectAssumption DEF StartSession, FramesInv
    <3> QED BY <1>0, <1>1, <2>1, <3>1 DEF FramesInv, StartSession, frames
  <2>2. CASE SessionEnds
    <3>1. <<>> \in Seq(Frames)
      OBVIOUS
    <3> QED BY <1>0, <1>1, <2>2, <3>1 DEF FramesInv, SessionEnds, ghosts
  <2> QED BY <2>1, <2>2
<1>11. FlagsInv'
  BY <1>0, <1>1 DEF FlagsInv
<1>12. WatchesInv'
  <2>1. CASE StartSession
    <3>1. ~running /\ sessions' = sessions + 1 /\ seq' = 1
      BY <2>1 DEF StartSession
    <3>2. sessions \in Nat
      BY <1>0, InspectAssumption DEF FramesInv
    <3>3. ASSUME NEW w \in DOMAIN watches
          PROVE  watches[w].seq < seq' \/ sessions' > 1
      <4>1. sessions = 0 => watches[w].seq = 0
        BY <1>0 DEF WatchesInv
      <4> QED BY <3>1, <3>2, <4>1
    <3>4. sessions' # 0
      BY <3>1, <3>2
    <3> QED BY <1>0, <1>1, <3>3, <3>4 DEF WatchesInv
  <2>2. CASE SessionEnds
    <3>1. running' = FALSE /\ sessions' = sessions /\ seq' = seq
      BY <2>2 DEF SessionEnds, ghosts
    <3> QED BY <1>0, <1>1, <3>1 DEF WatchesInv
  <2> QED BY <2>1, <2>2
<1> QED BY <1>1, <1>6, <1>9, <1>10, <1>11, <1>12 DEF ShownInv

\* The other acts of the user, and a frame that is missing.
Asking ==
  \/ Resume \/ UpdateBacktrace \/ SetNextStatement
  \/ Tooltip \/ SendCommand \/ ExamineMemory
  \/ \E i \in 1 .. Len(backtrace) : SwitchToFrame(i)
  \/ \E t \in Threads : SwitchToThread(t)
  \/ \E w \in DOMAIN watches : UpdateWatch(w)
  \/ UseMissingFrame

\* Every step is one of these.
LEMMA ShownCases ==
  ASSUME Next
  PROVE  \/ StartSession \/ SessionEnds
         \/ AdapterStops \/ AdapterGoes \/ AdapterAnswers
         \/ OnStopped \/ OnStackTrace \/ OnScopes \/ OnVariables \/ OnEvaluate
         \/ OnMemory \/ OnGotoTargets \/ OnDisassemble \/ OnOther
         \/ Asking \/ UpdateRegisters
         \/ \E w \in Symbols \ DOMAIN watches : AddWatch(w)
         \/ \E w \in DOMAIN watches : DeleteWatch(w)
         \/ \E w \in DOMAIN watches : ExpandWatch(w)
         \/ \E w \in DOMAIN watches : \E k \in watches[w].kids : ExpandChild(w, k)
BY DEF Next, Handlers, UserActs, Asking

\* Every step keeps the types.
LEMMA ShownNext == ShownInv /\ [Next]_vars => ShownInv'
<1> SUFFICES ASSUME ShownInv, [Next]_vars PROVE ShownInv'
  OBVIOUS
<1>1. CASE Next
  <2>1. CASE StartSession \/ SessionEnds
    BY <2>1, ShownSession
  <2>2. CASE AdapterStops \/ AdapterGoes \/ AdapterAnswers
    BY <2>2, ShownAdapter
  <2>3. CASE OnStopped
    BY <2>3, ShownStopped
  <2>4. CASE OnStackTrace
    BY <2>4, ShownStackTrace
  <2>5. CASE OnScopes
    BY <2>5, ShownScopes
  <2>6. CASE OnVariables
    BY <2>6, ShownVariables
  <2>7. CASE OnEvaluate
    BY <2>7, ShownEvaluate
  <2>8. CASE OnMemory \/ OnGotoTargets \/ OnDisassemble \/ OnOther
    BY <2>8, ShownOthers
  <2>9. CASE Asking
    BY <2>9, ShownAsking DEF Asking
  <2>10. CASE UpdateRegisters
    BY <2>10, ShownRegisters
  <2>11. CASE \E w \in Symbols \ DOMAIN watches : AddWatch(w)
    BY <2>11, ShownAdd
  <2>12. CASE \E w \in DOMAIN watches : DeleteWatch(w)
    BY <2>12, ShownDelete
  <2>13. CASE \E w \in DOMAIN watches : ExpandWatch(w)
    BY <2>13, ShownExpand
  <2>14. CASE \E w \in DOMAIN watches : \E k \in watches[w].kids : ExpandChild(w, k)
    BY <2>14, ShownExpandChild
  <2> QED BY <1>1, <2>1, <2>2, <2>3, <2>4, <2>5, <2>6, <2>7, <2>8, <2>9, <2>10, <2>11, <2>12, <2>13,
             <2>14, ShownCases
<1>2. CASE UNCHANGED vars
  <2>1. UNCHANGED <<stop, lastStop, depth, source, asked, inbox, running, seq, active, backtrace, frame,
                    user, stack, flagged, watches, registers, memory, sessions, acts, crashed, disturbed>>
    BY <1>2 DEF vars, adapter, frames, shown, ghosts
  <2>2. Flow' = Flow
    BY <2>1 DEF Flow
  <2>3. MessagesInv'
    BY <2>1, <2>2 DEF ShownInv, MessagesInv
  <2>4. FramesInv' /\ FlagsInv' /\ WatchesInv'
    BY <2>1 DEF ShownInv, FramesInv, FlagsInv, WatchesInv
  <2> QED BY <2>3, <2>4 DEF ShownInv
<1> QED BY <1>1, <1>2

\* Every variable has its type, whatever is answered and in whatever order the user acts: the
\* watches have numbers that were used in this session, and refer to what can be asked for
\* (DAP_Watches.cpp:417, 955-1018).
THEOREM TypeCorrect == Spec => []TypeOK
<1>1. Init => ShownInv
  BY ShownInit
<1>2. ShownInv /\ [Next]_vars => ShownInv'
  BY ShownNext
<1>3. ShownInv => TypeOK
  BY ShownTypes
<1> QED BY <1>1, <1>2, <1>3, PTL DEF Spec

-----------------------------------------------------------------------------
(* The children of a watch                                                  *)

\* What remains of the requests for children, and of their answers.
Keeps(F, G, k) ==
  \A i \in 1 .. Len(G) :
    G[i].node # Nobody =>
      \E j \in 1 .. Len(F) : j > k /\ G[i].node = F[j].node /\ G[i].number = F[j].number

\* The adapter asks for no children,
LEMMA EmbeddedKeeps == ASSUME NEW F, NEW G, Embeds(F, G) PROVE Keeps(F, G, 0)
<1>1. PICK m \in [1 .. Len(G) -> Int] :
        \A i \in 1 .. Len(G) : Dull(G[i]) \/ (m[i] \in 1 .. Len(F) /\ Fades(G[i], F[m[i]]))
  BY DEF Embeds
<1>2. ASSUME NEW i \in 1 .. Len(G), G[i].node # Nobody
      PROVE  \E j \in 1 .. Len(F) : j > 0 /\ G[i].node = F[j].node /\ G[i].number = F[j].number
  <2>1. m[i] \in 1 .. Len(F) /\ Fades(G[i], F[m[i]])
    BY <1>1, <1>2 DEF Dull
  <2>2. m[i] > 0
    BY <2>1
  <2> QED BY <2>1, <2>2 DEF Fades
<1> QED BY <1>2 DEF Keeps

\* nor do most requests.
LEMMA ShiftedKeeps ==
  ASSUME NEW F, NEW G, NEW k \in {0, 1}, NEW r, Shifted(F, G, k, r),
         \A i \in 1 .. Len(r) : RequestMark(r[i]).node = Nobody
  PROVE  Keeps(F, G, k)
<1> DEFINE b == Len(F) - k
<1>1. /\ Len(F) \in Nat /\ Len(r) \in Nat /\ k <= Len(F) /\ Len(G) = b + Len(r)
      /\ \A i \in 1 .. b : G[i] = F[i + k]
      /\ \A i \in 1 .. Len(r) : G[b + i] = RequestMark(r[i])
  BY DEF Shifted
<1>2. b \in Nat
  BY <1>1
<1>3. ASSUME NEW i \in 1 .. Len(G), G[i].node # Nobody
      PROVE  \E j \in 1 .. Len(F) : j > k /\ G[i].node = F[j].node /\ G[i].number = F[j].number
  <2>1. i \in 1 .. b
    <3>1. SUFFICES ASSUME i \notin 1 .. b PROVE FALSE
      OBVIOUS
    <3> DEFINE c == i - b
    <3>2. c \in 1 .. Len(r) /\ i = b + c
      <4> HIDE DEF b
      <4> QED BY <1>1, <1>2, <3>1
    <3> HIDE DEF c, b
    <3> QED BY <1>1, <1>3, <3>2
  <2>2. i + k \in 1 .. Len(F) /\ i + k > k
    BY <1>1, <2>1
  <2>3. G[i] = F[i + k]
    BY <1>1, <2>1
  <2> QED BY <2>2, <2>3
<1> QED BY <1>3 DEF Keeps

\* A request for the scopes neither.
LEMMA AsksKeep ==
  ASSUME NEW k \in {0, 1}, Asks(k) \/ AsksScopes(k)
  PROVE  Keeps(Flow, Flow', k)
<1>1. CASE Asks(k)
  BY <1>1, ShiftedKeeps DEF Asks
<1>2. CASE AsksScopes(k)
  <2>1. PICK r : /\ Shifted(Flow, Flow', k, r) /\ \A i \in 1 .. Len(r) : r[i].kind = "scopes"
    BY <1>2 DEF AsksScopes
  <2>2. \A i \in 1 .. Len(r) : RequestMark(r[i]).node = Nobody
    BY <2>1 DEF RequestMark, Mark
  <2> QED BY <2>1, <2>2, ShiftedKeeps
<1> QED BY <1>1, <1>2

\* While the children of a watch are on their way it has none: ExpandWatch removes them.
KidsInv ==
  /\ \A i \in 1 .. Len(Flow) : Flow[i].node # Nobody => Flow[i].number # 0
  /\ \A w \in DOMAIN watches : \A i \in 1 .. Len(Flow) :
       Flow[i].node = <<w>> /\ Flow[i].number = watches[w].seq => watches[w].kids = {}

\* What a step that asks for no children has to keep.
LEMMA KidsKept ==
  ASSUME KidsInv, NEW k \in {0, 1}, Keeps(Flow, Flow', k),
         \A w \in DOMAIN watches' : \A i \in 1 .. Len(Flow) :
           i > k /\ Flow[i].node = <<w>> /\ Flow[i].number = watches'[w].seq => watches'[w].kids = {}
  PROVE  KidsInv'
<1>1. ASSUME NEW i \in 1 .. Len(Flow'), Flow'[i].node # Nobody PROVE Flow'[i].number # 0
  BY <1>1 DEF Keeps, KidsInv
<1>2. ASSUME NEW w \in DOMAIN watches', NEW i \in 1 .. Len(Flow'),
             Flow'[i].node = <<w>>, Flow'[i].number = watches'[w].seq
      PROVE  watches'[w].kids = {}
  <2>1. <<w>> # Nobody
    BY DEF Nobody
  <2>2. PICK j \in 1 .. Len(Flow) : j > k /\ Flow'[i].node = Flow[j].node
                                     /\ Flow'[i].number = Flow[j].number
    BY <1>2, <2>1 DEF Keeps
  <2> QED BY <1>2, <2>2
<1> QED BY <1>1, <1>2 DEF KidsInv

\* The watches as they were, or without some.
LEMMA KidsSame ==
  ASSUME KidsInv, NEW k \in {0, 1}, Keeps(Flow, Flow', k), DOMAIN watches' \subseteq DOMAIN watches,
         \A w \in DOMAIN watches' : watches'[w].seq = watches[w].seq /\ watches'[w].kids = watches[w].kids
  PROVE  KidsInv'
<1>1. \A w \in DOMAIN watches' : \A i \in 1 .. Len(Flow) :
        i > k /\ Flow[i].node = <<w>> /\ Flow[i].number = watches'[w].seq => watches'[w].kids = {}
  BY DEF KidsInv
<1> QED BY <1>1, KidsKept

\* The answer is taken: the numbers behind it are greater, so that no watch that takes its
\* number waits for another one.
LEMMA KidsChecked ==
  ASSUME ShownInv, KidsInv, NEW m, Checks(m), GoodAnswer(m), GoodVariables(m.body),
         m.kind \in NumberedKinds, 1 \in 1 .. Len(Flow), Flow[1] = AnswerMark(m)
  PROVE  KidsInv'
<1> DEFINE n == m.seq
           vs == m.body
<1>1. watches' = [w \in DOMAIN watches |-> Checked(watches[w], vs, n)] /\ Asks(1)
  BY DEF Checks
<1>2. Keeps(Flow, Flow', 1)
  BY <1>1, AsksKeep
<1>3. NumbersOf(Flow, seq) /\ seq \in Nat
  BY DEF ShownInv, MessagesInv
<1>4. Flow[1].number = n
  BY DEF AnswerMark, Mark
<1>5. n \in Nat
  BY <1>3, <1>4 DEF NumbersOf
<1>6. ASSUME NEW w \in DOMAIN watches', NEW i \in 1 .. Len(Flow), i > 1,
             Flow[i].node = <<w>>, Flow[i].number = watches'[w].seq
      PROVE  watches'[w].kids = {}
  <2> DEFINE x == watches[w]
             y == Checked(x, vs, n)
  <2>1. w \in DOMAIN watches /\ watches'[w] = y
    BY <1>1
  <2>2. GoodWatch(x)
    BY <2>1 DEF ShownInv, WatchesInv
  <2> HIDE DEF x, vs, n
  <2>3. y.seq \in {x.seq, n} /\ (x.kids = {} /\ y.seq # n => y.kids = {})
    BY <1>5, <2>2, CheckedFacts DEF vs
  <2>4. Flow[i].node # Nobody
    BY <1>6 DEF Nobody
  <2>5. Flow[i].number # 0
    BY <2>4 DEF KidsInv
  <2>6. Flow[i].number # n
    <3>1. n # 0 => n < Flow[i].number
      BY <1>3, <1>4, <1>6, <2>5 DEF NumbersOf
    <3>2. Flow[i].number \in 1 .. seq - 1
      BY <1>3, <2>5 DEF NumbersOf
    <3> QED BY <1>5, <2>5, <3>1, <3>2
  <2>7. Flow[i].number = x.seq /\ y.seq # n
    BY <1>6, <2>1, <2>3, <2>6
  <2>8. x.kids = {}
    BY <1>6, <2>1, <2>7 DEF KidsInv, x
  <2> QED BY <2>1, <2>3, <2>7, <2>8
<1> QED BY <1>2, <1>6, KidsKept

\* OnVariables.
LEMMA KidsVariables == ASSUME ShownInv, KidsInv, OnVariables PROVE KidsInv'
<1> DEFINE m == Head(inbox)
<1>1. /\ GoodAnswer(m) /\ m.kind \in NumberedKinds /\ GoodVariables(m.body)
      /\ 1 \in 1 .. Len(Flow) /\ Flow[1] = AnswerMark(m)
      /\ Checks(m) \/ (Asks(1) /\ UNCHANGED watches)
  BY ShownVariables DEF NumberedKinds, ToRegisters, ShowsRegisters
<1> HIDE DEF m
<1>2. CASE Checks(m)
  BY <1>1, <1>2, KidsChecked
<1>3. CASE Asks(1) /\ UNCHANGED watches
  BY <1>3, AsksKeep, KidsSame
<1> QED BY <1>1, <1>2, <1>3

\* The request for children is behind all that is under way.
LEMMA MembersMarks ==
  ASSUME NEW node, AsksMembers(node)
  PROVE  \A i \in 1 .. Len(Flow') :
           \/ i \in 1 .. Len(Flow) /\ Flow'[i] = Flow[i]
           \/ Flow'[i].node = node /\ Flow'[i].number = seq
<1>1. PICK m : /\ Shifted(Flow, Flow', 0, <<m>>)
               /\ RequestMark(m).node = node /\ RequestMark(m).number = seq
  BY DEF AsksMembers
<1> DEFINE r == <<m>>
<1>2. Len(r) = 1 /\ r[1] = m
  OBVIOUS
<1> HIDE DEF r
<1>3. Shifted(Flow, Flow', 0, r)
  BY <1>1 DEF r
<1>4. /\ Len(Flow) \in Nat /\ Len(Flow') = Len(Flow) + 1
      /\ \A i \in 1 .. Len(Flow) : Flow'[i] = Flow[i]
      /\ Flow'[Len(Flow) + 1] = RequestMark(m)
  BY <1>2, <1>3 DEF Shifted
<1>5. ASSUME NEW i \in 1 .. Len(Flow') PROVE i \in 1 .. Len(Flow) \/ i = Len(Flow) + 1
  BY <1>4
<1> QED BY <1>1, <1>4, <1>5

\* A watch or one of its children is expanded.
LEMMA KidsExpand ==
  ASSUME ShownInv, KidsInv, NEW w \in DOMAIN watches,
         \/ ExpandWatch(w) \/ \E k \in watches[w].kids : ExpandChild(w, k)
  PROVE  KidsInv'
<1>0. NumbersOf(Flow, seq) /\ seq \in Nat /\ seq > 0
  BY DEF ShownInv, MessagesInv
<1>1. \A i \in 1 .. Len(Flow) : Flow[i].number # seq
  BY <1>0 DEF NumbersOf
<1>2. CASE ExpandWatch(w)
  <2>1. /\ AsksMembers(<<w>>) /\ DOMAIN watches' = DOMAIN watches
        /\ watches'[w].seq = seq /\ watches'[w].kids = {}
        /\ \A v \in DOMAIN watches \ {w} : watches'[v] = watches[v]
    BY <1>2, ShownExpand
  <2>2. \A i \in 1 .. Len(Flow') : \/ i \in 1 .. Len(Flow) /\ Flow'[i] = Flow[i]
                                   \/ Flow'[i].node = <<w>> /\ Flow'[i].number = seq
    BY <2>1, MembersMarks
  <2>3. ASSUME NEW i \in 1 .. Len(Flow'), Flow'[i].node # Nobody PROVE Flow'[i].number # 0
    BY <1>0, <2>2, <2>3 DEF KidsInv
  <2>4. ASSUME NEW v \in DOMAIN watches', NEW i \in 1 .. Len(Flow'),
               Flow'[i].node = <<v>>, Flow'[i].number = watches'[v].seq
        PROVE  watches'[v].kids = {}
    <3>1. CASE v = w
      BY <2>1, <3>1
    <3>2. CASE v # w
      <4>1. <<v>> # <<w>>
        BY <3>2
      <4>2. i \in 1 .. Len(Flow) /\ Flow'[i] = Flow[i] /\ watches'[v] = watches[v] /\ v \in DOMAIN watches
        BY <2>1, <2>2, <2>4, <3>2, <4>1
      <4> QED BY <2>4, <4>2 DEF KidsInv
    <3> QED BY <3>1, <3>2
  <2> QED BY <2>3, <2>4 DEF KidsInv
<1>3. ASSUME NEW k \in watches[w].kids, ExpandChild(w, k) PROVE KidsInv'
  <2> DEFINE node == <<w, k.name>>
  <2>0. node # Nobody /\ \A v : node # <<v>>
    <3>1. Len(node) = 2 /\ \A v : Len(<<v>>) = 1
      OBVIOUS
    <3> HIDE DEF node
    <3> QED BY <3>1 DEF Nobody
  <2>1. /\ AsksMembers(node) /\ DOMAIN watches' = DOMAIN watches
        /\ watches'[w].seq = watches[w].seq
        /\ \A v \in DOMAIN watches \ {w} : watches'[v] = watches[v]
    BY <1>3, ShownExpandChild
  <2>2. \A i \in 1 .. Len(Flow') : \/ i \in 1 .. Len(Flow) /\ Flow'[i] = Flow[i]
                                   \/ Flow'[i].node = node /\ Flow'[i].number = seq
    BY <2>1, MembersMarks
  <2>3. ASSUME NEW i \in 1 .. Len(Flow'), Flow'[i].node # Nobody PROVE Flow'[i].number # 0
    BY <1>0, <2>2, <2>3 DEF KidsInv
  <2> HIDE DEF node
  <2>4. ASSUME NEW v \in DOMAIN watches', NEW i \in 1 .. Len(Flow'),
               Flow'[i].node = <<v>>, Flow'[i].number = watches'[v].seq
        PROVE  watches'[v].kids = {}
    <3>1. i \in 1 .. Len(Flow) /\ Flow'[i] = Flow[i] /\ v \in DOMAIN watches
      BY <2>0, <2>1, <2>2, <2>4
    <3>2. watches'[v].seq = watches[v].seq
      BY <2>1, <3>1
    <3>3. watches[v].kids = {}
      BY <2>4, <3>1, <3>2 DEF KidsInv
    <3> QED BY <2>1, <3>1, <3>3
  <2> QED BY <2>3, <2>4 DEF KidsInv
<1> QED BY <1>2, <1>3

\* Nothing is under way at first.
LEMMA KidsInit == Init => KidsInv
<1> SUFFICES ASSUME Init PROVE KidsInv
  OBVIOUS
<1>1. Len(Flow) = 0
  BY EmptyFacts DEF Init, Flow, FlowOf
<1>2. \A i \in 1 .. Len(Flow) : FALSE
  BY <1>1
<1> QED BY <1>2 DEF KidsInv

\* Every step keeps it.
LEMMA KidsNext == ShownInv /\ KidsInv /\ [Next]_vars => KidsInv'
<1> SUFFICES ASSUME ShownInv, KidsInv, [Next]_vars PROVE KidsInv'
  OBVIOUS
<1>1. CASE Next
  <2>1. CASE StartSession \/ SessionEnds
    <3>1. \A i \in 1 .. Len(Flow') : FALSE
      BY <2>1, ShownSession
    <3> QED BY <3>1 DEF KidsInv
  <2>2. CASE AdapterStops \/ AdapterGoes \/ AdapterAnswers
    <3>1. Embeds(Flow, Flow') /\ UNCHANGED shown
      BY <2>2, ShownAdapter
    <3>2. UNCHANGED watches
      BY <3>1 DEF shown
    <3> QED BY <3>1, <3>2, EmbeddedKeeps, KidsSame
  <2>3. CASE OnStopped \/ OnMemory \/ OnGotoTargets \/ OnDisassemble \/ OnOther
    <3>1. Asks(1) /\ UNCHANGED watches
      BY <2>3, ShownStopped, ShownOthers
    <3> QED BY <3>1, AsksKeep, KidsSame
  <2>4. CASE OnStackTrace
    <3>1. AsksScopes(1) /\ UNCHANGED watches
      BY <2>4, ShownStackTrace
    <3> QED BY <3>1, AsksKeep, KidsSame
  <2>5. CASE OnScopes
    <3>1. AsksSections /\ UNCHANGED watches
      BY <2>5, ShownScopes
    <3>2. Keeps(Flow, Flow', 1)
      BY <3>1, ShiftedKeeps DEF AsksSections
    <3> QED BY <3>1, <3>2, KidsSame
  <2>6. CASE OnVariables
    BY <2>6, KidsVariables
  <2>7. CASE OnEvaluate
    <3>1. /\ Asks(1) /\ DOMAIN watches' = DOMAIN watches
          /\ \A w \in DOMAIN watches : watches'[w].kids = watches[w].kids /\ watches'[w].seq = watches[w].seq
      BY <2>7, ShownEvaluate
    <3> QED BY <3>1, AsksKeep, KidsSame
  <2>8. CASE Asking
    <3>1. Asks(0) /\ UNCHANGED watches
      BY <2>8, ShownAsking DEF Asking
    <3> QED BY <3>1, AsksKeep, KidsSame
  <2>9. CASE UpdateRegisters
    <3>1. AsksScopes(0) /\ UNCHANGED watches
      BY <2>9, ShownRegisters
    <3> QED BY <3>1, AsksKeep, KidsSame
  <2>10. ASSUME NEW w \in Symbols \ DOMAIN watches, AddWatch(w) PROVE KidsInv'
    <3>1. /\ Asks(0) /\ DOMAIN watches' = DOMAIN watches \cup {w} /\ watches'[w].seq = 0
          /\ \A v \in DOMAIN watches : watches'[v] = watches[v]
      BY <2>10, ShownAdd
    <3>2. ASSUME NEW v \in DOMAIN watches', NEW i \in 1 .. Len(Flow), i > 0,
                 Flow[i].node = <<v>>, Flow[i].number = watches'[v].seq
          PROVE  watches'[v].kids = {}
      <4>1. Flow[i].number # 0
        <5>1. <<v>> # Nobody
          BY DEF Nobody
        <5> QED BY <3>2, <5>1 DEF KidsInv
      <4>2. v \in DOMAIN watches /\ watches'[v] = watches[v]
        BY <3>1, <3>2, <4>1
      <4> QED BY <3>2, <4>2 DEF KidsInv
    <3> QED BY <3>1, <3>2, AsksKeep, KidsKept
  <2>11. ASSUME NEW w \in DOMAIN watches, DeleteWatch(w) PROVE KidsInv'
    <3> DEFINE r == <<>>
    <3>1. /\ Shifted(Flow, Flow', 0, r) /\ DOMAIN watches' \subseteq DOMAIN watches
          /\ \A v \in DOMAIN watches' : watches'[v] = watches[v]
      BY <2>11, ShownDelete
    <3>2. \A i \in 1 .. Len(r) : FALSE
      OBVIOUS
    <3> HIDE DEF r
    <3>3. Keeps(Flow, Flow', 0)
      BY <3>1, <3>2, ShiftedKeeps
    <3> QED BY <3>1, <3>3, KidsSame
  <2>12. CASE \E w \in DOMAIN watches : ExpandWatch(w)
    BY <2>12, KidsExpand
  <2>13. CASE \E w \in DOMAIN watches : \E k \in watches[w].kids : ExpandChild(w, k)
    BY <2>13, KidsExpand
  <2> QED BY <1>1, <2>1, <2>2, <2>3, <2>4, <2>5, <2>6, <2>7, <2>8, <2>9, <2>10, <2>11, <2>12, <2>13,
             ShownCases
<1>2. CASE UNCHANGED vars
  <2>1. UNCHANGED <<asked, inbox, watches>>
    BY <1>2 DEF vars, shown
  <2> QED BY <2>1 DEF KidsInv, Flow
<1> QED BY <1>1, <1>2

\* What becomes of the answer to the last expansion of a watch.
LEMMA ExpansionStep ==
  ASSUME ShownInv, KidsInv, NEW w \in DOMAIN watches, OnVariables, Expanding(w)
  PROVE  IF flagged
         THEN watches'[w].kids = {} /\ Entries(Head(inbox).body) \subseteq registers'
         ELSE {k.name : k \in watches'[w].kids} =
              {v.name : v \in {u \in Entries(Head(inbox).body) : Structured(u)}}
<1> DEFINE m == Head(inbox)
           vs == m.body
<1>1. m.kind = "variables" /\ m.node = <<w>> /\ vs # <<>> /\ watches[w].seq = m.seq
  BY DEF Expanding
<1>2. /\ GoodAnswer(m) /\ GoodVariables(vs)
      /\ 1 \in 1 .. Len(Flow) /\ Flow[1] = AnswerMark(m)
      /\ Checks(m) \/ ShowsRegisters(m) \/ ToRegisters(m)
  BY <1>1, ShownVariables
<1>3. m.node # Nobody
  <2>1. <<w>> # Nobody
    BY DEF Nobody
  <2> QED BY <1>1, <2>1
<1>4. 1 \in 1 .. Len(vs) /\ DOMAIN vs = 1 .. Len(vs)
  <2>1. vs \in Seq(Named)
    BY <1>2 DEF GoodVariables
  <2> HIDE DEF vs
  <2> QED BY <1>1, <2>1
<1>5. vs[1].name # "GPR"
  BY <1>1, <1>2, <1>3, <1>4 DEF GoodAnswer
<1>6. Flow[1].node = <<w>> /\ Flow[1].number = watches[w].seq
  BY <1>1, <1>2 DEF AnswerMark, Mark, NumberedKinds
<1>7. watches[w].kids = {}
  BY <1>2, <1>6 DEF KidsInv
<1>8. CASE flagged
  <2>1. watches' = watches /\ Entries(vs) \subseteq registers'
    BY <1>2, <1>5, <1>8 DEF Checks, ShowsRegisters, ToRegisters
  <2> QED BY <1>7, <1>8, <2>1
<1>9. CASE ~flagged
  <2>1. watches' = [v \in DOMAIN watches |-> Checked(watches[v], vs, m.seq)]
    BY <1>2, <1>5, <1>9 DEF Checks, ShowsRegisters, ToRegisters
  <2>2. GoodWatch(watches[w])
    BY DEF ShownInv, WatchesInv
  <2>3. m.seq \in Nat
    BY <1>1, <2>2 DEF GoodWatch, GoodNode
  <2> DEFINE n == m.seq
             y == Checked(watches[w], vs, n)
  <2>4. watches'[w].kids = StructuredIn(vs, DOMAIN vs)
    <3>1. watches'[w] = y
      BY <2>1
    <3>2. watches[w].seq = n /\ n \in Nat /\ GoodVariables(vs)
      BY <1>1, <1>2, <2>3
    <3> HIDE DEF m, n, vs
    <3>3. y.kids = StructuredIn(vs, DOMAIN vs)
      BY <1>7, <2>2, <3>2, CheckedFacts
    <3> QED BY <3>1, <3>3
  <2>5. \A v : NodeOf(v).name = v.name
    BY DEF NodeOf, Node
  <2>6. {k.name : k \in StructuredIn(vs, DOMAIN vs)} = {v.name : v \in {u \in Entries(vs) : Structured(u)}}
    <3> HIDE DEF vs
    <3> QED BY <2>5 DEF StructuredIn, Entries
  <2> QED BY <1>9, <2>4, <2>6
<1> QED BY <1>8, <1>9

\* What becomes of the answer to the last expansion of a watch, in every session and however the
\* user expands, adds and deletes watches in between.  Unless the registers have been asked for
\* since the last scopes, exactly its structured members are below it: ExpandWatch removes the
\* children and remembers the number (DAP_Watches.cpp:417-418), and the answers come in the
\* order of the numbers (OnVariablesCheck, 955-1018).  If they have been, the answer is taken for
\* registers: all members are in their window and nothing is below the watch (1078-1083, 1135).
THEOREM Expansion == Spec => ExpansionArrives
<1> DEFINE Arrives == \A w \in DOMAIN watches :
                        OnVariables /\ Expanding(w) =>
                          IF flagged
                          THEN watches'[w].kids = {} /\ Entries(Head(inbox).body) \subseteq registers'
                          ELSE {k.name : k \in watches'[w].kids} =
                               {v.name : v \in {u \in Entries(Head(inbox).body) : Structured(u)}}
<1>1. Init => ShownInv /\ KidsInv
  BY ShownInit, KidsInit
<1>2. ShownInv /\ KidsInv /\ [Next]_vars => (ShownInv /\ KidsInv)'
  BY ShownNext, KidsNext
<1>3. ShownInv /\ KidsInv => [Arrives]_vars
  BY ExpansionStep
<1> QED BY <1>1, <1>2, <1>3, PTL DEF Spec, ExpansionArrives

-----------------------------------------------------------------------------
(* The chain from the scopes to the registers                               *)

\* No part of the chain is under way, no local variables are, and of two parts the first
\* one are the local variables and the second one the registers.
Plain(F) == \A i \in 1 .. Len(F) : F[i].color = "plain"
NoLocals(F) == \A i \in 1 .. Len(F) : F[i].color # "locals"
Ordered(F) ==
  \A i, j \in 1 .. Len(F) :
    i < j /\ F[i].color # "plain" /\ F[j].color # "plain" =>
      F[i].color = "locals" /\ F[j].color = "registers"

\* The adapter adds nothing to the chain,
LEMMA ChainEmbedded ==
  ASSUME NEW F, NEW G, Embeds(F, G)
  PROVE  /\ Plain(F) => Plain(G)
         /\ NoLocals(F) => NoLocals(G)
         /\ Ordered(F) => Ordered(G)
<1>1. PICK m \in [1 .. Len(G) -> Int] :
        /\ \A i \in 1 .. Len(G) : Dull(G[i]) \/ (m[i] \in 1 .. Len(F) /\ Fades(G[i], F[m[i]]))
        /\ \A i, j \in 1 .. Len(G) : i < j /\ ~Dull(G[i]) /\ ~Dull(G[j]) => m[i] < m[j]
  BY DEF Embeds
<1>2. ASSUME NEW i \in 1 .. Len(G), G[i].color # "plain"
      PROVE  ~Dull(G[i]) /\ m[i] \in 1 .. Len(F) /\ G[i].color = F[m[i]].color
  BY <1>1, <1>2 DEF Dull, Fades
<1>3. Plain(F) => Plain(G)
  BY <1>2 DEF Plain
<1>4. NoLocals(F) => NoLocals(G)
  BY <1>2 DEF NoLocals
<1>5. Ordered(F) => Ordered(G)
  <2> SUFFICES ASSUME Ordered(F), NEW i \in 1 .. Len(G), NEW j \in 1 .. Len(G), i < j,
                      G[i].color # "plain", G[j].color # "plain"
               PROVE  G[i].color = "locals" /\ G[j].color = "registers"
    BY DEF Ordered
  <2>1. m[i] < m[j]
    BY <1>1, <1>2
  <2> QED BY <1>2, <2>1 DEF Ordered
<1> QED BY <1>3, <1>4, <1>5

\* The elements after a step that asks.
LEMMA ShiftedElements ==
  ASSUME NEW F, NEW G, NEW k \in {0, 1}, NEW r, Shifted(F, G, k, r)
  PROVE  \A i \in 1 .. Len(G) :
           \/ i + k \in 1 .. Len(F) /\ i + k > k /\ G[i] = F[i + k]
           \/ /\ i - (Len(F) - k) \in 1 .. Len(r) /\ i > Len(F) - k
              /\ G[i] = RequestMark(r[i - (Len(F) - k)])
<1> DEFINE b == Len(F) - k
<1>1. /\ Len(F) \in Nat /\ Len(r) \in Nat /\ k <= Len(F) /\ Len(G) = b + Len(r)
      /\ \A i \in 1 .. b : G[i] = F[i + k]
      /\ \A i \in 1 .. Len(r) : G[b + i] = RequestMark(r[i])
  BY DEF Shifted
<1>2. b \in Nat
  BY <1>1
<1>3. ASSUME NEW i \in 1 .. Len(G)
      PROVE  \/ i + k \in 1 .. Len(F) /\ i + k > k /\ G[i] = F[i + k]
             \/ i - b \in 1 .. Len(r) /\ i > b /\ G[i] = RequestMark(r[i - b])
  <2>1. CASE i \in 1 .. b
    <3>1. i + k \in 1 .. Len(F) /\ i + k > k
      BY <1>1, <2>1
    <3> QED BY <1>1, <2>1, <3>1
  <2>2. CASE i \notin 1 .. b
    <3> DEFINE c == i - b
    <3>1. c \in 1 .. Len(r) /\ i = b + c /\ i > b
      <4> HIDE DEF b
      <4> QED BY <1>1, <1>2, <2>2
    <3> HIDE DEF c
    <3>2. G[i] = RequestMark(r[c])
      BY <1>1, <3>1
    <3> QED BY <3>1, <3>2 DEF c
  <2> QED BY <2>1, <2>2
<1> QED BY <1>3

\* nor do most requests.
LEMMA ChainShifted ==
  ASSUME NEW F, NEW G, NEW k \in {0, 1}, NEW r, Shifted(F, G, k, r),
         \A i \in 1 .. Len(r) : RequestMark(r[i]).color = "plain"
  PROVE  /\ Plain(F) => Plain(G)
         /\ NoLocals(F) => NoLocals(G)
         /\ Ordered(F) => Ordered(G)
<1>1. \A i \in 1 .. Len(G) : \/ i + k \in 1 .. Len(F) /\ G[i] = F[i + k]
                             \/ G[i].color = "plain"
  BY ShiftedElements
<1>2. Plain(F) => Plain(G)
  BY <1>1 DEF Plain
<1>3. NoLocals(F) => NoLocals(G)
  BY <1>1 DEF NoLocals
<1>4. Ordered(F) => Ordered(G)
  <2> SUFFICES ASSUME Ordered(F), NEW i \in 1 .. Len(G), NEW j \in 1 .. Len(G), i < j,
                      G[i].color # "plain", G[j].color # "plain"
               PROVE  G[i].color = "locals" /\ G[j].color = "registers"
    BY DEF Ordered
  <2>1. i + k \in 1 .. Len(F) /\ j + k \in 1 .. Len(F) /\ G[i] = F[i + k] /\ G[j] = F[j + k]
    BY <1>1
  <2>2. i + k < j + k
    OBVIOUS
  <2> QED BY <2>1, <2>2 DEF Ordered
<1> QED BY <1>2, <1>3, <1>4

\* A chain begins when no other one is under way, and what it asks for is in its order.
LEMMA ChainAdded ==
  ASSUME NEW F, NEW G, NEW k \in {0, 1}, NEW r, Shifted(F, G, k, r),
         \A i \in 1 .. Len(F) : i > k => F[i].color = "plain",
         \A i, j \in 1 .. Len(r) :
           i < j /\ RequestMark(r[i]).color # "plain" /\ RequestMark(r[j]).color # "plain" =>
             RequestMark(r[i]).color = "locals" /\ RequestMark(r[j]).color = "registers"
  PROVE  Ordered(G)
<1> DEFINE b == Len(F) - k
<1>0. b \in Int
  BY DEF Shifted
<1>1. \A i \in 1 .. Len(G) : \/ G[i].color = "plain"
                             \/ i - b \in 1 .. Len(r) /\ G[i] = RequestMark(r[i - b])
  BY ShiftedElements
<1> SUFFICES ASSUME NEW i \in 1 .. Len(G), NEW j \in 1 .. Len(G), i < j,
                    G[i].color # "plain", G[j].color # "plain"
             PROVE  G[i].color = "locals" /\ G[j].color = "registers"
  BY DEF Ordered
<1>2. /\ i - b \in 1 .. Len(r) /\ G[i] = RequestMark(r[i - b])
      /\ j - b \in 1 .. Len(r) /\ G[j] = RequestMark(r[j - b])
  BY <1>1
<1> HIDE DEF b
<1>3. i - b < j - b
  BY <1>0
<1> QED BY <1>2, <1>3

\* While the call stack or the debuggee moves there is no chain; there is one at most, whose
\* local variables are before its registers; the flag is set behind the local variables.
ChainInv ==
  /\ Ordered(Flow)
  /\ Moving # {} \/ Moved # {} \/ stop = 0 => Plain(Flow)
  /\ flagged => NoLocals(Flow)
  /\ \A m \in Among(inbox, {"info"}) : m.body = <<>>
  /\ \A v \in registers : v.name \notin LocalNames

\* A flow that is plain has everything that is asked of it.
LEMMA PlainFacts == ASSUME NEW F, Plain(F) PROVE Ordered(F) /\ NoLocals(F)
BY DEF Plain, Ordered, NoLocals

\* So has what most steps leave.
Tame ==
  /\ Plain(Flow) => Plain(Flow')
  /\ NoLocals(Flow) => NoLocals(Flow')
  /\ Ordered(Flow) => Ordered(Flow')

\* They are these.
LEMMA AsksTame == ASSUME NEW k \in {0, 1}, Asks(k) PROVE Tame
BY ChainShifted DEF Asks, Tame

\* What most steps do.
LEMMA ChainTame ==
  ASSUME ChainInv, Tame, registers' = registers, flagged' => flagged,
         Moving' # {} \/ Moved' # {} \/ stop' = 0 => Plain(Flow),
         \A m \in Among(inbox, {"info"})' : m.body = <<>>
  PROVE  ChainInv'
BY DEF ChainInv, Tame

\* A step that moves nothing.
LEMMA DriftsStill == ASSUME Drifts PROVE Moving' = Moving /\ Moved' = Moved /\ stop' = stop
BY DEF Drifts, Alike, Moving, Moved

\* The answers to requests with a wrong reference, when a message is taken,
LEMMA InfoTaken ==
  ASSUME ShownInv, ChainInv, NEW kind, Handle(kind)
  PROVE  \A m \in Among(inbox, {"info"})' : m.body = <<>>
<1>1. IsSequence(inbox) /\ inbox # <<>> /\ inbox' = Tail(inbox)
  BY AnswersFacts DEF ShownInv, MessagesInv, Handle
<1>2. Among(Tail(inbox), {"info"}) \subseteq Among(inbox, {"info"})
  BY <1>1, TailFacts
<1> QED BY <1>1, <1>2 DEF ChainInv

\* and when one is added.
LEMMA InfoAdded ==
  ASSUME ShownInv, ChainInv, NEW e, HasKind(e), e.kind = "info" => e.body = <<>>,
         inbox' = Append(inbox, e)
  PROVE  \A m \in Among(inbox, {"info"})' : m.body = <<>>
<1>1. IsSequence(inbox)
  BY AnswersFacts DEF ShownInv, MessagesInv
<1>2. Among(Append(inbox, e), {"info"}) = Among(inbox, {"info"}) \cup {d \in {e} : d.kind \in {"info"}}
  BY <1>1, AppendFacts
<1> QED BY <1>2 DEF ChainInv

\* The adapter.
LEMMA ChainAdapter ==
  ASSUME ShownInv, Calm, ChainInv, ~disturbed', AdapterStops \/ AdapterGoes \/ AdapterAnswers
  PROVE  ChainInv'
<1>1. Embeds(Flow, Flow') /\ UNCHANGED shown
  BY ShownAdapter
<1>2. Tame
  BY <1>1, ChainEmbedded DEF Tame
<1>3. registers' = registers /\ flagged' = flagged
  BY <1>1 DEF shown
<1>4. CASE AdapterStops
  <2>1. PICK t \in Threads :
          inbox' = Append(inbox, [kind |-> "stopped", body |-> t, node |-> Nobody, seq |-> 0])
    BY <1>4 DEF AdapterStops
  <2>2. \A m \in Among(inbox, {"info"})' : m.body = <<>>
    BY <2>1, InfoAdded DEF HasKind
  <2>3. Plain(Flow)
    BY <1>4 DEF AdapterStops, ChainInv
  <2> QED BY <1>2, <1>3, <2>2, <2>3, ChainTame
<1>5. CASE AdapterGoes
  <2>1. inbox' = Append(inbox, [kind |-> "stopped", body |-> Head(asked).arg, node |-> Nobody, seq |-> 0])
    BY <1>5 DEF AdapterGoes
  <2>2. \A m \in Among(inbox, {"info"})' : m.body = <<>>
    BY <2>1, InfoAdded DEF HasKind
  <2>3. Moving # {}
    BY <1>5, TakenMover DEF AdapterGoes, MovingRequests
  <2>4. Plain(Flow)
    BY <2>3 DEF ChainInv
  <2> QED BY <1>2, <1>3, <2>2, <2>4, ChainTame
<1>6. CASE AdapterAnswers
  <2> DEFINE req == Head(asked)
  <2>1. asked # <<>> /\ asked' = Tail(asked)
    BY <1>6 DEF AdapterAnswers
  <2>2. CASE req.kind = "resume"
    <3>1. inbox' = inbox
      BY <1>6, <2>2 DEF AdapterAnswers
    <3>2. Moving # {}
      BY <2>1, <2>2, TakenMover DEF MovingRequests
    <3>3. Plain(Flow)
      BY <3>2 DEF ChainInv
    <3> QED BY <1>2, <1>3, <3>1, <3>3, ChainTame DEF ChainInv
  <2>3. CASE req.kind # "resume"
    <3>1. PICK body \in Bodies(req) :
            /\ inbox' = Append(inbox, Answer(req, body))
            /\ disturbed' = (disturbed \/ (req.kind = "info" /\ body # <<>>))
            /\ stop' = stop
      BY <1>6, <2>3 DEF AdapterAnswers
    <3> DEFINE e == Answer(req, body)
    <3>2. HasKind(e) /\ e.kind = req.kind /\ e.body = body
      BY RecordFacts
    <3> HIDE DEF e
    <3>3. \A m \in Among(inbox, {"info"})' : m.body = <<>>
      BY <3>1, <3>2, InfoAdded DEF e
    <3>4. Moving' # {} \/ Moved' # {} \/ stop' = 0 => Plain(Flow)
      <4>1. CASE req.kind \in MovingRequests
        <5>1. Moving # {}
          BY <2>1, <4>1, TakenMover
        <5> QED BY <5>1 DEF ChainInv
      <4>2. CASE req.kind \notin MovingRequests
        <5>1. req.kind \notin MovingMessages
          BY <4>2 DEF MovingRequests, MovingMessages
        <5>2. Alike(inbox, inbox', MovingMessages) /\ Alike(asked, asked', MovingRequests)
          BY <2>1, <3>1, <3>2, <4>2, <5>1, AppendIdle, TakenIdle DEF e
        <5>3. Moving' = Moving /\ Moved' = Moved
          BY <5>2 DEF Alike, Moving, Moved
        <5> QED BY <3>1, <5>3 DEF ChainInv
      <4> QED BY <4>1, <4>2
    <3> QED BY <1>2, <1>3, <3>3, <3>4, ChainTame
  <2> QED BY <2>2, <2>3
<1> QED BY <1>4, <1>5, <1>6

\* A message is handled that moves something, and no scopes are asked for.
LEMMA ChainMoved ==
  ASSUME ShownInv, Calm, ChainInv, OnStopped \/ OnGotoTargets
  PROVE  ChainInv'
<1>1. Asks(1) /\ UNCHANGED <<flagged, registers>>
  BY ShownStopped, ShownOthers
<1>2. PICK kind \in MovingMessages : Handle(kind)
  BY DEF OnStopped, OnGotoTargets, MovingMessages
<1>3. Moved # {}
  BY <1>2, HandledMover
<1>4. Plain(Flow)
  BY <1>3 DEF ChainInv
<1>5. Tame
  BY <1>1, AsksTame
<1>6. \A m \in Among(inbox, {"info"})' : m.body = <<>>
  BY <1>2, InfoTaken
<1> QED BY <1>1, <1>4, <1>5, <1>6, ChainTame

\* The stack is there: its scopes are asked for, and nothing moves.
LEMMA ChainStackTrace == ASSUME ShownInv, Calm, ChainInv, OnStackTrace PROVE ChainInv'
<1>1. AsksScopes(1) /\ UNCHANGED <<flagged, registers>>
  BY ShownStackTrace
<1>2. Handle("stackTrace") /\ Ask(ScopesOf(Head(inbox).body, seq)) /\ stop' = stop
  BY DEF OnStackTrace, adapter
<1>3. Moved # {} /\ Moved' = {} /\ Moving = {} /\ stop # 0
  BY <1>2, HandledMover DEF MovingMessages
<1>4. Idle(ScopesOf(Head(inbox).body, seq))
  BY IdleFacts, RecordFacts DEF ScopesOf, MovingRequests
<1>5. Alike(asked, asked', MovingRequests)
  BY <1>2, <1>4, AskIdle
<1>6. Moving' = {}
  BY <1>3, <1>5 DEF Alike, Moving
<1>7. Plain(Flow)
  BY <1>3 DEF ChainInv
<1>8. PICK r : /\ Shifted(Flow, Flow', 1, r) /\ Len(r) \in Nat /\ Len(r) <= 1
               /\ \A i \in 1 .. Len(r) : r[i].kind = "scopes"
  BY <1>1 DEF AsksScopes, Shifted
<1>9. Ordered(Flow')
  <2>1. \A i, j \in 1 .. Len(r) : ~(i < j)
    BY <1>8
  <2> QED BY <1>7, <1>8, <2>1, ChainAdded DEF Plain
<1>10. NoLocals(Flow')
  <2>1. \A i \in 1 .. Len(r) : RequestMark(r[i]).color = "scopes"
    BY <1>8 DEF RequestMark, Mark, RequestColor
  <2>2. \A i \in 1 .. Len(Flow') : \/ i + 1 \in 1 .. Len(Flow) /\ Flow'[i] = Flow[i + 1]
                                   \/ Flow'[i].color = "scopes"
    BY <1>8, <2>1, ShiftedElements
  <2> QED BY <1>7, <2>2 DEF NoLocals, Plain
<1>11. \A m \in Among(inbox, {"info"})' : m.body = <<>>
  BY <1>2, InfoTaken
<1> QED BY <1>1, <1>2, <1>3, <1>6, <1>9, <1>10, <1>11 DEF ChainInv

\* The scopes are there: they were the chain, which goes on with the local variables and the
\* registers.
LEMMA ChainScopes == ASSUME ShownInv, Calm, ChainInv, OnScopes PROVE ChainInv'
<1>1. AsksSections /\ flagged' = FALSE /\ registers' = registers
  BY ShownScopes
<1>2. Handle("scopes")
  BY DEF OnScopes
<1>3. inbox # <<>> /\ Head(inbox).kind = "scopes"
  BY <1>2 DEF Handle
<1>4. 1 \in 1 .. Len(Flow) /\ Flow[1] = AnswerMark(Head(inbox))
  BY <1>3, FlowHandle, EmptyFacts, RequestsFacts, AnswersFacts DEF Flow, ShownInv, MessagesInv
<1>5. Flow[1].color = "scopes"
  BY <1>3, <1>4 DEF AnswerMark, Mark, AnswerColor
<1>6. \A i \in 1 .. Len(Flow) : i > 1 => Flow[i].color = "plain"
  BY <1>4, <1>5 DEF ChainInv, Ordered
<1>7. ~Plain(Flow)
  BY <1>4, <1>5 DEF Plain
<1>8. Moving' = Moving /\ Moved' = Moved /\ stop' = stop
  BY OnScopesStep, DriftsStill
<1>9. PICK r : /\ Shifted(Flow, Flow', 1, r) /\ Len(r) \in Nat /\ Len(r) <= 2
               /\ \A i \in 1 .. Len(r) :
                    RequestMark(r[i]).color \in {"plain", IF i = 1 THEN "locals" ELSE "registers"}
  BY <1>1 DEF AsksSections, Shifted
<1>10. Ordered(Flow')
  <2>1. ASSUME NEW i \in 1 .. Len(r), NEW j \in 1 .. Len(r), i < j,
               RequestMark(r[i]).color # "plain", RequestMark(r[j]).color # "plain"
        PROVE  RequestMark(r[i]).color = "locals" /\ RequestMark(r[j]).color = "registers"
    <3>1. i = 1 /\ j # 1
      BY <1>9, <2>1
    <3> QED BY <1>9, <2>1, <3>1
  <2> QED BY <1>6, <1>9, <2>1, ChainAdded
<1>11. \A m \in Among(inbox, {"info"})' : m.body = <<>>
  BY <1>2, InfoTaken
<1> QED BY <1>1, <1>7, <1>8, <1>10, <1>11 DEF ChainInv

\* Variables are there: with the flag they are not the local ones, and the first of the
\* registers, which sets the flag, was the last of the chain.
LEMMA ChainVariables == ASSUME ShownInv, Calm, ChainInv, OnVariables PROVE ChainInv'
<1> DEFINE m == Head(inbox)
           vs == m.body
<1>1. /\ GoodVariables(vs) /\ m.kind \in {"variables", "info"}
      /\ 1 \in 1 .. Len(Flow) /\ Flow[1] = AnswerMark(m)
      /\ \/ vs = <<>> /\ Asks(1) /\ UNCHANGED <<flagged, watches, registers>>
         \/ Checks(m)
         \/ vs[1].name # "GPR" /\ ShowsRegisters(m)
         \/ ToRegisters(m)
  BY ShownVariables
<1>2. PICK kind : Handle(kind)
  BY DEF OnVariables
<1>3. inbox # <<>>
  BY <1>2 DEF Handle
<1>4. m.kind = "info" => vs = <<>>
  <2>1. m.kind = "info" => m \in Among(inbox, {"info"})
    <3>1. Among(inbox, {"info"}) =
            Among(Tail(inbox), {"info"}) \cup {d \in {m} : d.kind \in {"info"}}
      BY <1>3, AnswersFacts, TailFacts DEF ShownInv, MessagesInv
    <3> QED BY <3>1
  <2> QED BY <2>1 DEF ChainInv
<1>5. \A n \in Among(inbox, {"info"})' : n.body = <<>>
  BY <1>2, InfoTaken
<1>6. Moving' = Moving /\ Moved' = Moved /\ stop' = stop
  BY OnVariablesStep, DriftsStill
<1>7. Asks(1)
  BY <1>1 DEF Checks, ShowsRegisters, ToRegisters
<1>8. Tame
  BY <1>7, AsksTame
<1>9. Moving' # {} \/ Moved' # {} \/ stop' = 0 => Plain(Flow)
  BY <1>6 DEF ChainInv
<1> HIDE DEF m
<1>10. CASE UNCHANGED <<flagged, registers>>
  BY <1>5, <1>8, <1>9, <1>10, ChainTame
<1>11. CASE vs[1].name # "GPR" /\ ShowsRegisters(m)
  <2>1. flagged /\ flagged' = flagged /\ registers' \subseteq registers \cup Entries(vs)
    BY <1>11 DEF ShowsRegisters
  <2>2. \A v \in Entries(vs) : v.name \notin LocalNames
    <3>1. CASE vs = <<>>
      <4>1. Entries(<<>>) = {}
        BY DEF Entries
      <4> QED BY <3>1, <4>1
    <3>2. CASE vs # <<>>
      <4>1. m.kind = "variables"
        BY <1>1, <1>4, <3>2
      <4>2. Flow[1].color # "locals"
        BY <1>1, <2>1 DEF ChainInv, NoLocals
      <4>3. AnswerColor(m) # "locals"
        BY <1>1, <4>2 DEF AnswerMark, Mark
      <4>4. ~\E i \in DOMAIN vs : vs[i].name \in LocalNames
        BY <1>11, <4>1, <4>3 DEF AnswerColor
      <4> HIDE DEF vs
      <4> QED BY <4>4 DEF Entries
    <3> QED BY <3>1, <3>2
  <2>3. \A v \in registers' : v.name \notin LocalNames
    BY <2>1, <2>2 DEF ChainInv
  <2> QED BY <1>5, <1>8, <1>9, <2>1, <2>3 DEF ChainInv, Tame
<1>12. CASE ToRegisters(m)
  <2>1. vs # <<>> /\ vs[1].name = "GPR" /\ registers' = registers
    BY <1>12 DEF ToRegisters
  <2>2. m.kind = "variables"
    BY <1>1, <1>4, <2>1
  <2>3. Flow[1].color = "registers"
    BY <1>1, <2>1, <2>2 DEF AnswerMark, Mark, AnswerColor
  <2>4. \A i \in 1 .. Len(Flow) : i > 1 => Flow[i].color = "plain"
    BY <1>1, <2>3 DEF ChainInv, Ordered
  <2>5. NoLocals(Flow)
    BY <1>1, <2>3, <2>4 DEF NoLocals
  <2> QED BY <1>5, <1>8, <1>9, <2>1, <2>5 DEF ChainInv, Tame
<1> QED BY <1>1, <1>10, <1>11, <1>12 DEF Checks

\* Other answers.
LEMMA ChainOthers ==
  ASSUME ShownInv, Calm, ChainInv, OnEvaluate \/ OnMemory \/ OnDisassemble \/ OnOther
  PROVE  ChainInv'
<1>1. Asks(1) /\ UNCHANGED <<flagged, registers>>
  BY ShownEvaluate, ShownOthers
<1>2. Tame
  BY <1>1, AsksTame
<1>3. PICK kind : Handle(kind)
  BY DEF OnEvaluate, OnMemory, OnDisassemble, OnOther
<1>4. \A m \in Among(inbox, {"info"})' : m.body = <<>>
  BY <1>3, InfoTaken
<1>5. Moving' = Moving /\ Moved' = Moved /\ stop' = stop
  BY OnOthersStep, DriftsStill
<1> QED BY <1>1, <1>2, <1>4, <1>5, ChainTame DEF ChainInv

\* With nothing under way, nothing of a chain is.
LEMMA QuietPlain == ASSUME Quiet PROVE Plain(Flow)
<1>1. Len(Flow) = 0
  BY EmptyFacts DEF Quiet, Flow, FlowOf
<1>2. \A i \in 1 .. Len(Flow) : FALSE
  BY <1>1
<1> QED BY <1>2 DEF Plain

\* The user asks for what is not part of the chain.
LEMMA ChainAsking == ASSUME ShownInv, Calm, ChainInv, ~disturbed', Asking PROVE ChainInv'
<1>1. Asks(0) /\ UNCHANGED <<flagged, registers>>
  BY ShownAsking DEF Asking
<1>2. Tame
  BY <1>1, AsksTame
<1>3. inbox' = inbox
  BY DEF Asking, Resume, UpdateBacktrace, SetNextStatement, Tooltip, SendCommand, ExamineMemory,
         AskAbout, SwitchToFrame, SwitchToThread, UpdateWatch, UseMissingFrame
<1>4. Moving' # {} \/ Moved' # {} \/ stop' = 0 => Plain(Flow)
  <2>1. CASE \/ Resume \/ UpdateBacktrace \/ SetNextStatement
             \/ \E i \in 1 .. Len(backtrace) : SwitchToFrame(i)
             \/ \E t \in Threads : SwitchToThread(t)
    <3>1. Settled
      BY <2>1 DEF Resume, UpdateBacktrace, SetNextStatement, SwitchToFrame, SwitchToThread, Disturb
    <3> QED BY <3>1, QuietPlain DEF Settled
  <2>2. CASE Tooltip \/ SendCommand \/ ExamineMemory \/ \E w \in DOMAIN watches : UpdateWatch(w)
    <3>1. Drifts
      BY <2>2, LookStep
    <3> QED BY <3>1, DriftsStill DEF ChainInv
  <2>3. CASE UseMissingFrame
    BY <2>3 DEF UseMissingFrame, InRange, Calm, Ranges
  <2> QED BY <2>1, <2>2, <2>3 DEF Asking
<1> QED BY <1>1, <1>2, <1>3, <1>4, ChainTame DEF ChainInv

\* The registers are asked for again, from the scopes on.
LEMMA ChainRegisters == ASSUME ShownInv, Calm, ChainInv, ~disturbed', UpdateRegisters PROVE ChainInv'
<1>1. AsksScopes(0) /\ registers' = {} /\ flagged' = flagged
  BY ShownRegisters
<1>2. Settled /\ inbox' = inbox
  BY DEF UpdateRegisters, Disturb
<1>3. Plain(Flow)
  BY <1>2, QuietPlain DEF Settled
<1>4. Moving' = {} /\ Moved' = {} /\ stop' # 0
  <2>1. Moving' = Moving /\ Moved' = Moved /\ stop' = stop
    BY LookStep, DriftsStill
  <2> QED BY <1>2, <2>1, SettledFacts
<1>5. PICK r : /\ Shifted(Flow, Flow', 0, r) /\ Len(r) \in Nat /\ Len(r) <= 1
               /\ \A i \in 1 .. Len(r) : r[i].kind = "scopes"
  BY <1>1 DEF AsksScopes, Shifted
<1>6. Ordered(Flow')
  <2>1. \A i, j \in 1 .. Len(r) : ~(i < j)
    BY <1>5
  <2> QED BY <1>3, <1>5, <2>1, ChainAdded DEF Plain
<1>7. NoLocals(Flow')
  <2>1. \A i \in 1 .. Len(r) : RequestMark(r[i]).color = "scopes"
    BY <1>5 DEF RequestMark, Mark, RequestColor
  <2>2. \A i \in 1 .. Len(Flow') : \/ i + 0 \in 1 .. Len(Flow) /\ Flow'[i] = Flow[i + 0]
                                   \/ Flow'[i].color = "scopes"
    BY <1>5, <2>1, ShiftedElements
  <2> QED BY <1>3, <2>2 DEF NoLocals, Plain
<1> QED BY <1>1, <1>2, <1>4, <1>6, <1>7 DEF ChainInv

\* The user acts on a watch.
LEMMA ChainWatch ==
  ASSUME ShownInv, Calm, ChainInv,
         \/ \E w \in Symbols \ DOMAIN watches : AddWatch(w)
         \/ \E w \in DOMAIN watches : DeleteWatch(w)
         \/ \E w \in DOMAIN watches : ExpandWatch(w)
         \/ \E w \in DOMAIN watches : \E k \in watches[w].kids : ExpandChild(w, k)
  PROVE  ChainInv'
<1>1. ASSUME Drifts, Tame, UNCHANGED <<flagged, registers>>,
             \A m \in Among(inbox, {"info"})' : m.body = <<>>
      PROVE  ChainInv'
  BY <1>1, DriftsStill, ChainTame DEF ChainInv
<1>2. ASSUME NEW w \in Symbols \ DOMAIN watches, AddWatch(w) PROVE ChainInv'
  <2>1. Asks(0) /\ UNCHANGED <<flagged, registers>>
    BY <1>2, ShownAdd
  <2>2. Drifts /\ inbox' = inbox
    BY <1>2, LookStep DEF AddWatch
  <2> QED BY <1>1, <2>1, <2>2, AsksTame DEF ChainInv
<1>3. ASSUME NEW w \in DOMAIN watches, DeleteWatch(w) PROVE ChainInv'
  <2> DEFINE r == <<>>
  <2>1. Shifted(Flow, Flow', 0, r) /\ UNCHANGED <<flagged, registers>>
    BY <1>3, ShownDelete
  <2>2. \A i \in 1 .. Len(r) : FALSE
    OBVIOUS
  <2> HIDE DEF r
  <2>3. Tame
    BY <2>1, <2>2, ChainShifted DEF Tame
  <2>4. Drifts
    BY <1>3, WatchStep
  <2>5. Among(inbox, {"info"})' = Among(inbox, {"info"})
    <3>1. IsSequence(inbox) /\ inbox' = Forget(inbox, w)
      BY <1>3, AnswersFacts DEF ShownInv, MessagesInv, DeleteWatch
    <3>2. "evaluate" \notin {"info"}
      OBVIOUS
    <3>3. Alike(inbox, Forget(inbox, w), {"info"})
      BY <3>1, <3>2, ForgetFacts
    <3> QED BY <3>1, <3>3 DEF Alike
  <2> QED BY <1>1, <2>1, <2>3, <2>4, <2>5 DEF ChainInv
<1>4. ASSUME NEW w \in DOMAIN watches, ExpandWatch(w) \/ \E k \in watches[w].kids : ExpandChild(w, k)
      PROVE  ChainInv'
  <2>1. (\E n : AsksMembers(n)) /\ UNCHANGED <<flagged, registers>>
    BY <1>4, ShownExpand, ShownExpandChild
  <2>2. PICK m : Shifted(Flow, Flow', 0, <<m>>) /\ RequestMark(m).color = "plain"
    BY <2>1 DEF AsksMembers
  <2> DEFINE r == <<m>>
  <2>3. \A i \in 1 .. Len(r) : RequestMark(r[i]).color = "plain"
    <3>1. Len(r) = 1 /\ r[1] = m /\ \A i \in 1 .. 1 : i = 1
      OBVIOUS
    <3> HIDE DEF r
    <3> QED BY <2>2, <3>1
  <2> HIDE DEF r
  <2>4. Tame
    BY <2>2, <2>3, ChainShifted DEF Tame, r
  <2>5. Drifts
    BY <1>4, WatchStep
  <2>6. inbox' = inbox
    BY <1>4 DEF ExpandWatch, ExpandChild
  <2> QED BY <1>1, <2>1, <2>4, <2>5, <2>6 DEF ChainInv
<1> QED BY <1>2, <1>3, <1>4

\* A session begins or ends with nothing under way.
LEMMA ChainSession == ASSUME ShownInv, ChainInv, StartSession \/ SessionEnds PROVE ChainInv'
<1>1. asked' = <<>> /\ inbox' = <<>> /\ registers' = registers
  BY DEF StartSession, SessionEnds, shown
<1>2. Plain(Flow')
  <2>1. Len(Flow') = 0
    BY ShownSession
  <2>2. \A i \in 1 .. Len(Flow') : FALSE
    BY <2>1
  <2> QED BY <2>2 DEF Plain
<1>3. Ordered(Flow') /\ NoLocals(Flow')
  BY <1>2, PlainFacts
<1>4. Among(inbox, {"info"})' = {}
  BY <1>1, EmptyFacts
<1> QED BY <1>1, <1>2, <1>3, <1>4 DEF ChainInv

\* The chain as long as nothing disturbs it.
CalmChain == disturbed \/ (Calm /\ ChainInv)

\* At first there is none.
LEMMA ChainInit == Init => CalmChain
<1> SUFFICES ASSUME Init PROVE Calm /\ ChainInv
  BY DEF CalmChain
<1>1. Calm
  BY InitRange DEF RangeInv, Init
<1>2. Plain(Flow)
  BY QuietPlain DEF Init, Quiet
<1>3. Ordered(Flow) /\ NoLocals(Flow)
  BY <1>2, PlainFacts
<1>4. Among(inbox, {"info"}) = {} /\ registers = {}
  BY EmptyFacts DEF Init
<1> QED BY <1>1, <1>2, <1>3, <1>4 DEF ChainInv

\* Every step keeps it.
LEMMA ChainNext == ShownInv /\ CalmChain /\ [Next]_vars => CalmChain'
<1> SUFFICES ASSUME ShownInv, Calm, ChainInv, [Next]_vars, ~disturbed' PROVE Calm' /\ ChainInv'
  BY StaysDisturbed DEF CalmChain
<1>1. Calm'
  BY RangeStep DEF RangeInv
<1>2. CASE Next
  <2>1. CASE StartSession \/ SessionEnds
    BY <1>1, <2>1, ChainSession
  <2>2. CASE AdapterStops \/ AdapterGoes \/ AdapterAnswers
    BY <1>1, <2>2, ChainAdapter
  <2>3. CASE OnStopped \/ OnGotoTargets
    BY <1>1, <2>3, ChainMoved
  <2>4. CASE OnStackTrace
    BY <1>1, <2>4, ChainStackTrace
  <2>5. CASE OnScopes
    BY <1>1, <2>5, ChainScopes
  <2>6. CASE OnVariables
    BY <1>1, <2>6, ChainVariables
  <2>7. CASE OnEvaluate \/ OnMemory \/ OnDisassemble \/ OnOther
    BY <1>1, <2>7, ChainOthers
  <2>8. CASE Asking
    BY <1>1, <2>8, ChainAsking
  <2>9. CASE UpdateRegisters
    BY <1>1, <2>9, ChainRegisters
  <2>10. CASE \/ \E w \in Symbols \ DOMAIN watches : AddWatch(w)
              \/ \E w \in DOMAIN watches : DeleteWatch(w)
              \/ \E w \in DOMAIN watches : ExpandWatch(w)
              \/ \E w \in DOMAIN watches : \E k \in watches[w].kids : ExpandChild(w, k)
    BY <1>1, <2>10, ChainWatch
  <2> QED BY <1>1, <1>2, <2>1, <2>2, <2>3, <2>4, <2>5, <2>6, <2>7, <2>8, <2>9, <2>10, ShownCases
<1>3. CASE UNCHANGED vars
  <2>1. UNCHANGED <<stop, asked, inbox, flagged, registers>>
    BY <1>3 DEF vars, adapter, shown
  <2>2. ChainInv'
    BY <2>1 DEF ChainInv, Flow, Moving, Moved
  <2> QED BY <1>1, <2>2
<1> QED BY <1>2, <1>3

\* As long as the user waits for the answers no local variable is taken for a CPU register, in
\* whatever order the debuggee stops, goes and is asked: the scopes reset m_RequestedGPRegs
\* (DAP_Watches.cpp:822), and the local variables of a stop come before its registers set it
\* (1067).
THEOREM Registers == Spec => []RegistersAreRegisters
<1>1. Init => ShownInv /\ CalmChain
  BY ShownInit, ChainInit
<1>2. ShownInv /\ CalmChain /\ [Next]_vars => (ShownInv /\ CalmChain)'
  BY ShownNext, ChainNext
<1>3. CalmChain => RegistersAreRegisters
  BY DEF CalmChain, ChainInv, RegistersAreRegisters
<1> QED BY <1>1, <1>2, <1>3, PTL DEF Spec

=============================================================================
