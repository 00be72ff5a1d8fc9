--------------------------- MODULE DapClient_proofs ---------------------------
(***************************************************************************)
(* Proofs about DapClient: the queues of the client mirror the requests on *)
(* their way, so that every response is reported with its own subject, and *)
(* CanInteract() is not true too long.                                     *)
(***************************************************************************)
EXTENDS DapClient, TLAPS

\* The actions that change no label and no request.
EventStep ==
  \/ Step \/ StepAnswered \/ DebuggeeContinues \/ OnEvent
  \/ \E t \in Id : DebuggeeStops(t)

\* Requests are numbered upwards: those of a command in the order of its queue,
\* and no two of breakpointLocations alike.
Numbered ==
  /\ seq <= MaxSeq
  /\ \A k \in Commands : \A i \in 1 .. Len(asked[k]) : asked[k][i].seq \in 1 .. seq
  /\ \A k \in Commands : \A i, j \in 1 .. Len(asked[k]) :
       i < j => asked[k][i].seq < asked[k][j].seq
  /\ \A r \in located : r.seq \in 1 .. seq
  /\ \A r1, r2 \in located : r1.seq = r2.seq => r1 = r2

\* The map holds the file of every breakpointLocations request on its way.
FilesMirrorRequests ==
  \A r \in located : r.seq \in DOMAIN files /\ files[r.seq] = r.tag

-----------------------------------------------------------------------------
(* Sequences: facts about one step of a queue *)

\* What Append does to a sequence.
LEMMA AppendFacts ==
  ASSUME NEW S, NEW s \in Seq(S), NEW e \in S
  PROVE  /\ Append(s, e) \in Seq(S)
         /\ Len(Append(s, e)) = Len(s) + 1
         /\ Append(s, e)[Len(s) + 1] = e
         /\ \A i \in 1 .. Len(s) : Append(s, e)[i] = s[i]
OBVIOUS

\* What Head and Tail do to a sequence that is not empty.
LEMMA TailFacts ==
  ASSUME NEW S, NEW s \in Seq(S), s # <<>>
  PROVE  /\ Tail(s) \in Seq(S) /\ Head(s) \in S /\ Head(s) = s[1]
         /\ Len(s) \in Nat \ {0}
         /\ Len(Tail(s)) = Len(s) - 1
         /\ \A i \in 1 .. Len(s) - 1 : Tail(s)[i] = s[i + 1]
OBVIOUS

-----------------------------------------------------------------------------
(* Type correctness *)

\* The empty queues and the empty map are queues and a map.
LEMMA FreshFacts ==
  /\ \A S : Fresh \in [Commands -> Seq(S)]
  /\ \A k \in Commands : Fresh[k] = <<>> /\ Len(Fresh[k]) = 0
  /\ DOMAIN NoFile = {}
<1>1. \A S : <<>> \in Seq(S)
  OBVIOUS
<1> QED  BY <1>1 DEF Fresh, NoFile

\* The type invariant is inductive: every action keeps each variable in its type.
LEMMA TypeInit == Init => TypeOK
<1> SUFFICES ASSUME Init PROVE TypeOK
  OBVIOUS
<1>1. /\ queue \in [Commands -> Seq(Subject)] /\ asked \in [Commands -> Seq(Request)]
      /\ DOMAIN files = {}
  BY FreshFacts DEF Init
<1>2. events \in Seq(Event) /\ located \subseteq [seq : Nat, tag : Id]
  BY DEF Init
<1>3. /\ seq \in Nat /\ activeThread \in Subject /\ canInteract \in BOOLEAN
      /\ steps \in Nat /\ debuggee \in Subject /\ connected \in BOOLEAN
  BY DEF Init, Subject
<1> QED  BY <1>1, <1>2, <1>3 DEF TypeOK

\* Client::Reset leaves every variable in its type.
LEMMA TypeReset == ASSUME Reset, connected' \in BOOLEAN PROVE TypeOK'
<1>1. /\ queue' \in [Commands -> Seq(Subject)] /\ asked' \in [Commands -> Seq(Request)]
      /\ DOMAIN files' = {}
  BY FreshFacts DEF Reset
<1>2. events' \in Seq(Event) /\ located' \subseteq [seq : Nat, tag : Id]
  BY DEF Reset
<1>3. DOMAIN files' \subseteq 1 .. seq' /\ \A s \in DOMAIN files' : files'[s] \in Id
  BY <1>1
<1>4. /\ seq' \in Nat /\ activeThread' \in Subject /\ canInteract' \in BOOLEAN
      /\ steps' \in Nat /\ debuggee' \in Subject
  BY DEF Reset, Subject
<1> QED  BY <1>1, <1>2, <1>3, <1>4 DEF TypeOK

\* A request with a queue leaves every variable in its type.
LEMMA TypeAsk ==
  ASSUME TypeOK, NEW k \in Commands, NEW tag \in Subject, Ask(k, tag)
  PROVE  TypeOK'
<1>1. seq' \in Nat /\ seq <= seq' /\ seq + 1 \in Nat
  BY DEF TypeOK, Ask, SeqUsed
<1>2. queue' \in [Commands -> Seq(Subject)]
  BY AppendFacts DEF TypeOK, Ask
<1>3. [seq |-> seq + 1, tag |-> tag] \in Request
  BY <1>1 DEF Request
<1>4. asked' \in [Commands -> Seq(Request)]
  BY <1>3, AppendFacts DEF TypeOK, Ask
<1>5. DOMAIN files \subseteq 1 .. seq' 
  BY <1>1 DEF TypeOK
<1> QED  BY <1>1, <1>2, <1>4, <1>5 DEF TypeOK, Ask

\* GetVariableInfo leaves every variable in its type.
LEMMA TypeGetVariableInfo ==
  ASSUME TypeOK, NEW tag \in Id, GetVariableInfo(tag)
  PROVE  TypeOK'
<1>1. seq' \in Nat /\ seq <= seq' /\ seq + 1 \in Nat
  BY DEF TypeOK, GetVariableInfo
<1>2. [seq |-> seq + 1, tag |-> tag] \in Request
  BY <1>1 DEF Request, Subject
<1>3. asked' \in [Commands -> Seq(Request)]
  BY <1>2, AppendFacts DEF TypeOK, GetVariableInfo
<1>4. DOMAIN files \subseteq 1 .. seq' 
  BY <1>1 DEF TypeOK
<1> QED  BY <1>1, <1>3, <1>4 DEF TypeOK, GetVariableInfo

\* A breakpointLocations request leaves every variable in its type.
LEMMA TypeBreakpointLocations ==
  ASSUME TypeOK, NEW file \in Id, BreakpointLocations(file)
  PROVE  TypeOK'
<1>1. seq' = seq + 1 /\ seq' \in Nat
  BY DEF TypeOK, BreakpointLocations
<1>2. DOMAIN files' \subseteq 1 .. seq' /\ \A s \in DOMAIN files' : files'[s] \in Id
  BY <1>1 DEF TypeOK, BreakpointLocations
<1>3. located' \subseteq [seq : Nat, tag : Id]
  BY <1>1 DEF TypeOK, BreakpointLocations
<1> QED  BY <1>1, <1>2, <1>3 DEF TypeOK, BreakpointLocations

\* A labelled response leaves every variable in its type.
LEMMA TypeOnResponse ==
  ASSUME TypeOK, NEW k \in Commands, OnResponse(k)
  PROVE  TypeOK'
<1>1. asked' \in [Commands -> Seq(Request)]
  BY TailFacts DEF TypeOK, OnResponse
<1>2. queue' \in [Commands -> Seq(Subject)]
  BY TailFacts DEF TypeOK, OnResponse
<1> QED  BY <1>1, <1>2 DEF TypeOK, OnResponse

\* The requests to resume and the events leave every variable in its type.
LEMMA TypeEventStep == ASSUME TypeOK, EventStep PROVE TypeOK'
<1>1. CASE Step
  <2>1. seq' \in Nat /\ seq <= seq' /\ steps' \in Nat
    BY <1>1 DEF TypeOK, Step
  <2>2. DOMAIN files \subseteq 1 .. seq' 
    BY <2>1 DEF TypeOK
  <2> QED  BY <1>1, <2>1, <2>2 DEF TypeOK, Step
<1>2. CASE StepAnswered
  <2>1. steps' \in Nat /\ debuggee' \in Subject
    BY <1>2 DEF TypeOK, StepAnswered, Subject
  <2>2. events' \in Seq(Event)
    BY <1>2, AppendFacts DEF TypeOK, StepAnswered, Event
  <2> QED  BY <1>2, <2>1, <2>2 DEF TypeOK, StepAnswered, clientVars
<1>3. CASE DebuggeeContinues
  <2>1. events' \in Seq(Event)
    BY <1>3, AppendFacts DEF TypeOK, DebuggeeContinues, Event
  <2> QED  BY <1>3, <2>1 DEF TypeOK, DebuggeeContinues, clientVars, Subject
<1>4. CASE OnEvent
  <2>1. events' \in Seq(Event) /\ Head(events) \in Event
    BY <1>4, TailFacts DEF TypeOK, OnEvent
  <2>2. activeThread' \in Subject /\ canInteract' \in BOOLEAN
    BY <1>4, <2>1 DEF TypeOK, OnEvent, Event, Subject
  <2> QED  BY <1>4, <2>1, <2>2 DEF TypeOK, OnEvent
<1>5. CASE \E t \in Id : DebuggeeStops(t)
  <2> PICK t \in Id : DebuggeeStops(t)  BY <1>5
  <2>1. events' \in Seq(Event) /\ debuggee' \in Subject
    BY AppendFacts DEF TypeOK, DebuggeeStops, Event, Subject
  <2> QED  BY <2>1 DEF TypeOK, DebuggeeStops, clientVars
<1> QED  BY <1>1, <1>2, <1>3, <1>4, <1>5 DEF EventStep

\* A response to breakpointLocations leaves every variable in its type.
LEMMA TypeOnBreakpointLocations ==
  ASSUME TypeOK, NEW own \in located, OnBreakpointLocations(own)
  PROVE  TypeOK'
BY DEF TypeOK, OnBreakpointLocations

\* A step is one of six kinds.
LEMMA Steps ==
  ASSUME TypeOK, [Next]_vars
  PROVE  \/ Reset /\ UNCHANGED told /\ connected' \in BOOLEAN
         \/ \E k \in Commands, tag \in Subject : Ask(k, tag)
         \/ \E v \in Id : GetVariableInfo(v)
         \/ \E f \in Id : BreakpointLocations(f)
         \/ \E k \in Commands : OnResponse(k)
         \/ \E own \in located : OnBreakpointLocations(own)
         \/ EventStep
         \/ UNCHANGED vars
<1>1. CASE Connect \/ Disconnect
  BY <1>1 DEF Connect, Disconnect
<1>2. ASSUME NEW k \in Commands, NEW s \in Subject, AskFor(k, s)
      PROVE  \E tag \in Subject : Ask(k, tag)
  BY <1>2 DEF AskFor, TypeOK
<1> QED  BY <1>1, <1>2 DEF Next, EventStep

\* Every step leaves every variable in its type.
LEMMA TypeStep == TypeOK /\ [Next]_vars => TypeOK'
<1> SUFFICES ASSUME TypeOK, [Next]_vars PROVE TypeOK'
  OBVIOUS
<1>1. CASE UNCHANGED vars
  BY <1>1 DEF TypeOK, vars, clientVars, adapterVars
<1> QED
  BY <1>1, Steps, TypeReset, TypeAsk, TypeGetVariableInfo, TypeBreakpointLocations,
     TypeOnResponse, TypeOnBreakpointLocations, TypeEventStep

\* dap::Client: type correctness, for any ids, commands and bounds.
THEOREM TypeCorrect == Spec => []TypeOK
BY TypeInit, TypeStep, PTL DEF Spec

-----------------------------------------------------------------------------
(* The queues mirror the requests *)

\* What is inductive of the requests and their labels.
RequestsInv == TypeOK /\ Numbered /\ FilesMirrorRequests /\ QueuesMirrorRequests

\* After a reset there is no request and no label.
LEMMA RequestsReset ==
  ASSUME Reset
  PROVE  Numbered' /\ FilesMirrorRequests' /\ QueuesMirrorRequests'
<1>1. \A k \in Commands : Len(queue'[k]) = 0 /\ Len(asked'[k]) = 0
  BY FreshFacts DEF Reset
<1>2. seq' = 0 /\ located' = {}
  BY DEF Reset
<1>3. Numbered'
  BY <1>1, <1>2, ConstantsAssumption DEF Numbered
<1>4. FilesMirrorRequests'
  BY <1>2 DEF FilesMirrorRequests
<1>5. QueuesMirrorRequests'
  BY <1>1 DEF QueuesMirrorRequests
<1> QED  BY <1>3, <1>4, <1>5

\* A request with a label: both go to the end of their queues.
LEMMA RequestsAsk ==
  ASSUME RequestsInv, NEW k \in Commands, NEW tag \in Subject, Ask(k, tag)
  PROVE  Numbered' /\ FilesMirrorRequests' /\ QueuesMirrorRequests'
<1> DEFINE r == [seq |-> seq + 1, tag |-> tag]
<1>1. /\ seq \in Nat /\ seq' \in Nat /\ seq + 1 <= seq' /\ seq' <= MaxSeq
      /\ r \in Request
  BY DEF RequestsInv, TypeOK, Ask, SeqUsed, Request
<1>2. asked[k] \in Seq(Request) /\ queue[k] \in Seq(Subject)
  BY DEF RequestsInv, TypeOK
<1>3. /\ asked'[k] = Append(asked[k], r) /\ queue'[k] = Append(queue[k], tag)
      /\ \A c \in Commands : c # k => asked'[c] = asked[c] /\ queue'[c] = queue[c]
  BY DEF RequestsInv, TypeOK, Ask
<1>4. /\ Len(asked'[k]) = Len(asked[k]) + 1 /\ asked'[k][Len(asked[k]) + 1] = r
      /\ \A i \in 1 .. Len(asked[k]) : asked'[k][i] = asked[k][i]
      /\ Len(asked[k]) \in Nat
  BY <1>1, <1>2, <1>3, AppendFacts
<1>5. /\ Len(queue'[k]) = Len(queue[k]) + 1 /\ queue'[k][Len(queue[k]) + 1] = tag
      /\ \A i \in 1 .. Len(queue[k]) : queue'[k][i] = queue[k][i]
  BY <1>2, <1>3, AppendFacts
<1>6. Numbered'
  <2>1. ASSUME NEW c \in Commands, NEW i \in 1 .. Len(asked'[c])
        PROVE  asked'[c][i].seq \in 1 .. seq'
    <3>1. CASE c # k
      <4>1. asked'[c] = asked[c]
        BY <1>3, <3>1
      <4>2. asked[c][i].seq \in 1 .. seq
        BY <2>1, <4>1 DEF RequestsInv, Numbered
      <4> QED  BY <1>1, <4>1, <4>2
    <3>2. CASE c = k /\ i # Len(asked[k]) + 1
      <4>1. i \in 1 .. Len(asked[k]) /\ asked'[k][i] = asked[k][i]
        BY <1>4, <2>1, <3>2
      <4>2. asked[k][i].seq \in 1 .. seq
        BY <4>1 DEF RequestsInv, Numbered
      <4> QED  BY <1>1, <3>2, <4>1, <4>2
    <3>3. CASE c = k /\ i = Len(asked[k]) + 1
      BY <1>1, <1>4, <3>3
    <3> QED  BY <3>1, <3>2, <3>3
  <2>2. ASSUME NEW c \in Commands, NEW i \in 1 .. Len(asked'[c]), NEW j \in 1 .. Len(asked'[c]),
               i < j
        PROVE  asked'[c][i].seq < asked'[c][j].seq
    <3>0. \A a, b \in 1 .. Len(asked[c]) : a < b => asked[c][a].seq < asked[c][b].seq
      BY DEF RequestsInv, Numbered
    <3>1. CASE c # k
      <4>1. asked'[c] = asked[c]
        BY <1>3, <3>1
      <4> QED  BY <2>2, <3>0, <4>1
    <3>3. CASE c = k /\ j # Len(asked[k]) + 1
      <4>1. /\ i \in 1 .. Len(asked[k]) /\ asked'[k][i] = asked[k][i]
            /\ j \in 1 .. Len(asked[k]) /\ asked'[k][j] = asked[k][j]
        BY <1>4, <2>2, <3>3
      <4> QED  BY <2>2, <3>0, <3>3, <4>1
    <3>2. CASE c = k /\ j = Len(asked[k]) + 1
      <4>1. i \in 1 .. Len(asked[k]) /\ asked'[c][i] = asked[k][i] /\ asked'[c][j].seq = seq + 1
        BY <1>4, <2>2, <3>2
      <4>2. asked[k][i].seq \in 1 .. seq
        BY <4>1 DEF RequestsInv, Numbered
      <4> QED  BY <1>1, <4>1, <4>2
    <3> QED  BY <3>1, <3>2, <3>3
  <2>3. located' = located
    BY DEF Ask
  <2> QED  BY <1>1, <2>1, <2>2, <2>3 DEF RequestsInv, Numbered
<1>7. FilesMirrorRequests'
  BY DEF RequestsInv, FilesMirrorRequests, Ask
<1>8. QueuesMirrorRequests'
  <2>1. ASSUME NEW c \in Commands, c # "variables" \/ ~UsesVariableInfo
        PROVE  /\ Len(queue'[c]) = Len(asked'[c])
               /\ \A i \in 1 .. Len(asked'[c]) : queue'[c][i] = asked'[c][i].tag
    <3>1. /\ Len(queue[c]) = Len(asked[c])
          /\ \A i \in 1 .. Len(asked[c]) : queue[c][i] = asked[c][i].tag
      BY <2>1 DEF RequestsInv, QueuesMirrorRequests
    <3>2. CASE c # k
      BY <1>3, <3>1, <3>2
    <3>3. CASE c = k
      <4>1. ASSUME NEW i \in 1 .. Len(asked'[k])
            PROVE  queue'[k][i] = asked'[k][i].tag
        <5>1. CASE i = Len(asked[k]) + 1
          BY <1>4, <1>5, <3>1, <3>3, <5>1
        <5>2. CASE i # Len(asked[k]) + 1
          <6>1. i \in 1 .. Len(asked[k])
            BY <1>4, <4>1, <5>2
          <6> QED  BY <1>4, <1>5, <3>1, <3>3, <6>1
        <5> QED  BY <5>1, <5>2
      <4> QED  BY <1>4, <1>5, <3>1, <3>3, <4>1
    <3> QED  BY <3>2, <3>3
  <2> QED  BY <2>1 DEF QueuesMirrorRequests
<1> QED  BY <1>6, <1>7, <1>8

\* A request without a label: the queue of variables is behind afterwards, which
\* QueuesMirrorRequests says nothing of.
LEMMA RequestsGetVariableInfo ==
  ASSUME RequestsInv, NEW tag \in Id, GetVariableInfo(tag)
  PROVE  Numbered' /\ FilesMirrorRequests' /\ QueuesMirrorRequests'
<1> DEFINE k == "variables"
           r == [seq |-> seq + 1, tag |-> tag]
<1>1. /\ seq \in Nat /\ seq' = seq + 1 /\ seq' <= MaxSeq /\ k \in Commands
      /\ r \in Request /\ UsesVariableInfo
  BY DEF RequestsInv, TypeOK, GetVariableInfo, Request, Subject
<1>2. asked[k] \in Seq(Request)
  BY <1>1 DEF RequestsInv, TypeOK
<1>3. /\ asked'[k] = Append(asked[k], r)
      /\ \A c \in Commands : c # k => asked'[c] = asked[c]
  BY <1>1 DEF RequestsInv, TypeOK, GetVariableInfo
<1>4. /\ Len(asked'[k]) = Len(asked[k]) + 1 /\ asked'[k][Len(asked[k]) + 1] = r
      /\ \A i \in 1 .. Len(asked[k]) : asked'[k][i] = asked[k][i]
      /\ Len(asked[k]) \in Nat
  BY <1>1, <1>2, <1>3, AppendFacts
<1>5. Numbered'
  <2>1. ASSUME NEW c \in Commands, NEW i \in 1 .. Len(asked'[c])
        PROVE  asked'[c][i].seq \in 1 .. seq'
    <3>1. CASE c # k
      <4>1. asked[c][i].seq \in 1 .. seq /\ asked'[c] = asked[c]
        BY <1>3, <2>1, <3>1 DEF RequestsInv, Numbered
      <4> QED  BY <1>1, <4>1
    <3>2. CASE c = k /\ i # Len(asked[k]) + 1
      <4>1. i \in 1 .. Len(asked[k]) /\ asked'[k][i] = asked[k][i]
        BY <1>4, <2>1, <3>2
      <4>2. asked[k][i].seq \in 1 .. seq
        BY <1>1, <4>1 DEF RequestsInv, Numbered
      <4> QED  BY <1>1, <3>2, <4>1, <4>2
    <3>3. CASE c = k /\ i = Len(asked[k]) + 1
      BY <1>1, <1>4, <3>3
    <3> QED  BY <3>1, <3>2, <3>3
  <2>2. ASSUME NEW c \in Commands, NEW i \in 1 .. Len(asked'[c]), NEW j \in 1 .. Len(asked'[c]),
               i < j
        PROVE  asked'[c][i].seq < asked'[c][j].seq
    <3>1. CASE c # k
      BY <1>3, <2>2, <3>1 DEF RequestsInv, Numbered
    <3>2. CASE c = k /\ j # Len(asked[k]) + 1
      <4>1. i \in 1 .. Len(asked[k]) /\ j \in 1 .. Len(asked[k])
        BY <1>4, <2>2, <3>2
      <4> QED  BY <1>1, <1>4, <2>2, <3>2, <4>1 DEF RequestsInv, Numbered
    <3>3. CASE c = k /\ j = Len(asked[k]) + 1
      <4>1. i \in 1 .. Len(asked[k]) /\ asked'[c][i] = asked[k][i] /\ asked'[c][j].seq = seq + 1
        BY <1>4, <2>2, <3>3
      <4>2. asked[k][i].seq \in 1 .. seq
        BY <1>1, <4>1 DEF RequestsInv, Numbered
      <4> QED  BY <1>1, <4>1, <4>2
    <3> QED  BY <3>1, <3>2, <3>3
  <2>3. located' = located
    BY DEF GetVariableInfo
  <2> QED  BY <1>1, <2>1, <2>2, <2>3 DEF RequestsInv, Numbered
<1>6. FilesMirrorRequests'
  BY DEF RequestsInv, FilesMirrorRequests, GetVariableInfo
<1>7. QueuesMirrorRequests'
  BY <1>1, <1>3 DEF RequestsInv, QueuesMirrorRequests, GetVariableInfo
<1> QED  BY <1>5, <1>6, <1>7

\* A breakpointLocations request: its number is in the map for its file only.
LEMMA RequestsBreakpointLocations ==
  ASSUME RequestsInv, NEW file \in Id, BreakpointLocations(file)
  PROVE  Numbered' /\ FilesMirrorRequests' /\ QueuesMirrorRequests'
<1>1. /\ seq \in Nat /\ seq' = seq + 1 /\ seq' <= MaxSeq /\ asked' = asked /\ queue' = queue
      /\ located' = located \cup {[seq |-> seq + 1, tag |-> file]}
      /\ seq + 1 \notin DOMAIN files
  BY DEF RequestsInv, TypeOK, BreakpointLocations
<1>2. \A s \in 1 .. seq : s \in 1 .. seq'
  BY <1>1
<1>3. Numbered'
  BY <1>1, <1>2 DEF RequestsInv, Numbered
<1>4. FilesMirrorRequests'
  BY <1>1 DEF RequestsInv, FilesMirrorRequests, BreakpointLocations
<1>5. QueuesMirrorRequests'
  BY <1>1 DEF RequestsInv, QueuesMirrorRequests
<1> QED  BY <1>3, <1>4, <1>5

\* A response: the heads of both queues leave together.
LEMMA RequestsOnResponse ==
  ASSUME RequestsInv, NEW k \in Commands, OnResponse(k)
  PROVE  Numbered' /\ FilesMirrorRequests' /\ QueuesMirrorRequests'
<1>1. asked[k] \in Seq(Request) /\ asked[k] # <<>> /\ queue[k] \in Seq(Subject)
  BY DEF RequestsInv, TypeOK, OnResponse
<1>2. /\ asked'[k] = Tail(asked[k]) /\ queue'[k] = IF queue[k] = <<>> THEN <<>> ELSE Tail(queue[k])
      /\ \A c \in Commands : c # k => asked'[c] = asked[c] /\ queue'[c] = queue[c]
      /\ seq' = seq /\ located' = located /\ files' = files
  BY DEF RequestsInv, TypeOK, OnResponse
<1>3. /\ Len(asked[k]) \in Nat \ {0} /\ Len(asked'[k]) = Len(asked[k]) - 1
      /\ \A i \in 1 .. Len(asked[k]) - 1 : asked'[k][i] = asked[k][i + 1]
  BY <1>1, <1>2, TailFacts
<1>4. Numbered'
  <2>1. ASSUME NEW i \in 1 .. Len(asked'[k])
        PROVE  i + 1 \in 1 .. Len(asked[k]) /\ asked'[k][i] = asked[k][i + 1]
    BY <1>3, <2>1
  <2>2. ASSUME NEW c \in Commands, NEW i \in 1 .. Len(asked'[c])
        PROVE  asked'[c][i].seq \in 1 .. seq'
    <3>0. \A a \in 1 .. Len(asked[c]) : asked[c][a].seq \in 1 .. seq
      BY DEF RequestsInv, Numbered
    <3>1. CASE c # k
      BY <1>2, <2>2, <3>0, <3>1
    <3>2. CASE c = k
      BY <1>2, <2>1, <2>2, <3>0, <3>2
    <3> QED  BY <3>1, <3>2
  <2>3. ASSUME NEW c \in Commands, NEW i \in 1 .. Len(asked'[c]), NEW j \in 1 .. Len(asked'[c]),
               i < j
        PROVE  asked'[c][i].seq < asked'[c][j].seq
    <3>0. \A a, b \in 1 .. Len(asked[c]) : a < b => asked[c][a].seq < asked[c][b].seq
      BY DEF RequestsInv, Numbered
    <3>1. CASE c # k
      <4>1. asked'[c] = asked[c]
        BY <1>2, <3>1
      <4> QED  BY <2>3, <3>0, <4>1
    <3>2. CASE c = k
      <4>1. i + 1 < j + 1
        BY <1>3, <2>3, <3>2
      <4>2. /\ i + 1 \in 1 .. Len(asked[k]) /\ asked'[k][i] = asked[k][i + 1]
            /\ j + 1 \in 1 .. Len(asked[k]) /\ asked'[k][j] = asked[k][j + 1]
        BY <2>1, <2>3, <3>2
      <4> QED  BY <3>0, <3>2, <4>1, <4>2
    <3> QED  BY <3>1, <3>2
  <2> QED  BY <1>2, <2>2, <2>3 DEF RequestsInv, Numbered
<1>5. FilesMirrorRequests'
  BY <1>2 DEF RequestsInv, FilesMirrorRequests
<1>6. QueuesMirrorRequests'
  <2>1. ASSUME NEW c \in Commands, c # "variables" \/ ~UsesVariableInfo
        PROVE  /\ Len(queue'[c]) = Len(asked'[c])
               /\ \A i \in 1 .. Len(asked'[c]) : queue'[c][i] = asked'[c][i].tag
    <3>1. /\ Len(queue[c]) = Len(asked[c])
          /\ \A i \in 1 .. Len(asked[c]) : queue[c][i] = asked[c][i].tag
      BY <2>1 DEF RequestsInv, QueuesMirrorRequests
    <3>2. CASE c # k
      BY <1>2, <3>1, <3>2
    <3>3. CASE c = k
      <4>1. queue[k] # <<>>
        BY <1>3, <3>1, <3>3
      <4>2. /\ Len(queue'[k]) = Len(queue[k]) - 1
            /\ \A i \in 1 .. Len(queue[k]) - 1 : queue'[k][i] = queue[k][i + 1]
        BY <1>1, <1>2, <4>1, TailFacts
      <4>3. ASSUME NEW i \in 1 .. Len(asked'[k])
            PROVE  queue'[k][i] = asked'[k][i].tag
        <5>1. i \in 1 .. Len(asked[k]) - 1 /\ i + 1 \in 1 .. Len(asked[k])
          BY <1>3, <4>3
        <5> QED  BY <1>3, <3>1, <3>3, <4>2, <5>1
      <4> QED  BY <1>3, <3>1, <3>3, <4>2, <4>3
    <3> QED  BY <3>2, <3>3
  <2> QED  BY <2>1 DEF QueuesMirrorRequests
<1> QED  BY <1>4, <1>5, <1>6

\* The response to a breakpointLocations request: no other request is in the map
\* under its number.
LEMMA RequestsOnBreakpointLocations ==
  ASSUME RequestsInv, NEW own \in located, OnBreakpointLocations(own)
  PROVE  Numbered' /\ FilesMirrorRequests' /\ QueuesMirrorRequests'
<1>1. /\ seq' = seq /\ asked' = asked /\ queue' = queue /\ located' = located \ {own}
      /\ files' = [s \in DOMAIN files \ {own.seq} |-> files[s]]
  BY DEF OnBreakpointLocations
<1>2. \A r \in located' : r.seq # own.seq
  BY <1>1 DEF RequestsInv, Numbered
<1>3. Numbered'
  BY <1>1 DEF RequestsInv, Numbered
<1>4. FilesMirrorRequests'
  BY <1>1, <1>2 DEF RequestsInv, FilesMirrorRequests
<1>5. QueuesMirrorRequests'
  BY <1>1 DEF RequestsInv, QueuesMirrorRequests
<1> QED  BY <1>3, <1>4, <1>5

\* The other steps change neither, but a request to resume takes a number.
LEMMA RequestsEventStep ==
  ASSUME RequestsInv, EventStep \/ UNCHANGED vars
  PROVE  Numbered' /\ FilesMirrorRequests' /\ QueuesMirrorRequests'
<1>1. asked' = asked /\ queue' = queue /\ located' = located /\ files' = files
  BY DEF EventStep, Step, StepAnswered, DebuggeeContinues, OnEvent, DebuggeeStops,
         vars, clientVars, adapterVars
<1>2. seq \in Nat /\ seq' \in Nat /\ seq <= seq' /\ seq' <= MaxSeq
  <2>1. seq \in Nat /\ seq <= MaxSeq
    BY DEF RequestsInv, TypeOK, Numbered
  <2>2. seq' = seq \/ (seq' = seq + 1 /\ seq + 1 <= MaxSeq)
    BY DEF EventStep, Step, StepAnswered, DebuggeeContinues, OnEvent, DebuggeeStops,
           vars, clientVars
  <2> QED  BY <2>1, <2>2
<1>3. \A s \in 1 .. seq : s \in 1 .. seq'
  BY <1>2
<1> QED
  BY <1>1, <1>2, <1>3 DEF RequestsInv, Numbered, FilesMirrorRequests, QueuesMirrorRequests

\* The invariant of the requests is inductive.
LEMMA RequestsStep == RequestsInv /\ [Next]_vars => RequestsInv'
<1> SUFFICES ASSUME RequestsInv, [Next]_vars PROVE RequestsInv'
  OBVIOUS
<1>1. TypeOK /\ TypeOK'
  BY TypeStep DEF RequestsInv
<1>2. Numbered' /\ FilesMirrorRequests' /\ QueuesMirrorRequests'
  BY <1>1, Steps, RequestsReset, RequestsAsk, RequestsGetVariableInfo,
     RequestsBreakpointLocations, RequestsOnResponse, RequestsOnBreakpointLocations,
     RequestsEventStep
<1> QED  BY <1>1, <1>2 DEF RequestsInv

\* The invariant of the requests holds of a client without requests.
LEMMA RequestsInit == Init => RequestsInv
<1> SUFFICES ASSUME Init PROVE RequestsInv
  OBVIOUS
<1>1. \A k \in Commands : Len(queue[k]) = 0 /\ Len(asked[k]) = 0
  BY FreshFacts DEF Init
<1>2. seq = 0 /\ located = {}
  BY DEF Init
<1> QED
  BY <1>1, <1>2, TypeInit, ConstantsAssumption
  DEF RequestsInv, Numbered, FilesMirrorRequests, QueuesMirrorRequests

\* dap::Client: the FIFO queues of labels are the requests on their way, through
\* any number of requests, responses and resets.
THEOREM QueuesMirror == Spec => []QueuesMirrorRequests
<1>1. RequestsInv => QueuesMirrorRequests
  BY DEF RequestsInv
<1> QED  BY <1>1, RequestsInit, RequestsStep, PTL DEF Spec

-----------------------------------------------------------------------------
(* CanInteract() *)

\* What is inductive of the events: an event stopped that is the last on its way
\* names the thread that is stopped.
EventsInv ==
  /\ TypeOK
  /\ InteractIsCurrent
  /\ events # <<>> /\ events[Len(events)].what = "stopped" => debuggee = events[Len(events)].thread
  /\ events # <<>> \/ steps > 0 => connected

\* The messages about the debuggee.
LEMMA EventsEventStep == ASSUME EventsInv, EventStep, TypeOK' PROVE EventsInv'
<1> USE DEF EventsInv
<1>1. CASE Step
  BY <1>1 DEF Step, InteractIsCurrent
<1>2. CASE StepAnswered
  <2> DEFINE e == [what |-> "stepped", thread |-> None]
  <2>1. events' = Append(events, e) /\ steps > 0 /\ connected' = connected
    BY <1>2 DEF StepAnswered, clientVars
  <2>2. e \in Event /\ events \in Seq(Event)
    BY DEF Event, TypeOK
  <2>3. Len(events') = Len(events) + 1 /\ events'[Len(events) + 1] = e
    BY <2>1, <2>2, AppendFacts
  <2>4. events' # <<>>
    BY <2>1, <2>2
  <2>5. events'[Len(events')].what # "stopped"
    BY <2>3
  <2> QED  BY <2>1, <2>4, <2>5 DEF InteractIsCurrent
<1>3. CASE DebuggeeContinues
  <2> DEFINE e == [what |-> "continued", thread |-> None]
  <2>1. events' = Append(events, e) /\ connected' /\ steps' = steps
    BY <1>3 DEF DebuggeeContinues, clientVars
  <2>2. e \in Event /\ events \in Seq(Event)
    BY DEF Event, TypeOK
  <2>3. Len(events') = Len(events) + 1 /\ events'[Len(events) + 1] = e
    BY <2>1, <2>2, AppendFacts
  <2>4. events' # <<>>
    BY <2>1, <2>2
  <2>5. events'[Len(events')].what # "stopped"
    BY <2>3
  <2> QED  BY <2>1, <2>4, <2>5 DEF InteractIsCurrent
<1>4. CASE \E t \in Id : DebuggeeStops(t)
  <2> PICK t \in Id : DebuggeeStops(t)  BY <1>4
  <2> DEFINE e == [what |-> "stopped", thread |-> t]
  <2>1. events' = Append(events, e) /\ connected' /\ steps' = steps /\ debuggee' = t
    BY DEF DebuggeeStops, clientVars
  <2>2. events' # <<>> /\ events'[Len(events')].thread = t
    BY <2>1 DEF TypeOK
  <2> QED  BY <2>1, <2>2 DEF InteractIsCurrent
<1>5. CASE OnEvent
  <2>1. /\ events \in Seq(Event) /\ events # <<>> /\ events' = Tail(events)
        /\ connected /\ connected' = connected /\ debuggee' = debuggee
        /\ canInteract' = (Head(events).what = "stopped")
        /\ activeThread' = IF Head(events).what = "stopped" THEN Head(events).thread ELSE activeThread
    BY <1>5 DEF OnEvent, TypeOK
  <2>2. /\ Len(events) \in Nat \ {0} /\ Head(events) = events[1] /\ Head(events) \in Event
        /\ Len(events') = Len(events) - 1
        /\ \A i \in 1 .. Len(events) - 1 : events'[i] = events[i + 1]
    BY <2>1, TailFacts
  <2>3. InteractIsCurrent'
    <3> SUFFICES ASSUME events' = <<>>, canInteract'
                 PROVE  connected' /\ debuggee' # None /\ activeThread' = debuggee'
      BY DEF InteractIsCurrent
    <3>1. Len(events) = 1 /\ events[Len(events)] = Head(events)
      <4>1. Len(events') = 0
        OBVIOUS
      <4>2. Len(events) \in Nat /\ Len(events') = Len(events) - 1
        BY <2>2
      <4>3. Len(events) = 1
        BY <4>1, <4>2
      <4> QED  BY <2>2, <4>3
    <3>2. Head(events).thread \in Id /\ debuggee = Head(events).thread
      BY <2>1, <2>2, <3>1 DEF Event
    <3> QED  BY <2>1, <3>2, ConstantsAssumption
  <2>4. ASSUME events' # <<>> PROVE events'[Len(events')] = events[Len(events)]
    <3>1. events' \in Seq(Event)
      BY <2>1, TailFacts
    <3>2. Len(events') \in 1 .. Len(events) - 1
      BY <2>2, <2>4, <3>1
    <3> QED  BY <2>2, <3>2
  <2> QED  BY <2>1, <2>3, <2>4
<1> QED  BY <1>1, <1>2, <1>3, <1>4, <1>5 DEF EventStep

\* The invariant of the events is inductive.
LEMMA EventsStep == EventsInv /\ [Next]_vars => EventsInv'
<1> SUFFICES ASSUME EventsInv, [Next]_vars PROVE EventsInv'
  OBVIOUS
<1>1. TypeOK /\ TypeOK'
  BY TypeStep DEF EventsInv
<1>2. CASE Reset
  BY <1>1, <1>2 DEF Reset, EventsInv, InteractIsCurrent
<1>3. CASE UNCHANGED <<connected, activeThread, canInteract, steps, debuggee, events>>
  BY <1>1, <1>3 DEF EventsInv, InteractIsCurrent
<1>4. CASE EventStep
  BY <1>1, <1>4, EventsEventStep
<1>5. ASSUME NEW k \in Commands, NEW tag \in Subject, Ask(k, tag)
      PROVE  UNCHANGED <<connected, activeThread, canInteract, steps, debuggee, events>>
  BY <1>5 DEF Ask
<1>6. ASSUME NEW tag \in Id, GetVariableInfo(tag) \/ BreakpointLocations(tag)
      PROVE  UNCHANGED <<connected, activeThread, canInteract, steps, debuggee, events>>
  BY <1>6 DEF GetVariableInfo, BreakpointLocations
<1>7. ASSUME NEW k \in Commands, OnResponse(k)
      PROVE  UNCHANGED <<connected, activeThread, canInteract, steps, debuggee, events>>
  BY <1>7 DEF OnResponse
<1>8. ASSUME NEW own \in located, OnBreakpointLocations(own)
      PROVE  UNCHANGED <<connected, activeThread, canInteract, steps, debuggee, events>>
  BY <1>8 DEF OnBreakpointLocations
<1>9. CASE UNCHANGED vars
  BY <1>3, <1>9 DEF vars, clientVars, adapterVars
<1> QED  BY <1>1, <1>2, <1>3, <1>4, <1>5, <1>6, <1>7, <1>8, <1>9, Steps

\* dap::Client: CanInteract() is true only while the debuggee is stopped, in the
\* thread that requests go to by default, once all that was sent is handled.
THEOREM InteractCurrent == Spec => []InteractIsCurrent
<1>1. Init => EventsInv
  BY TypeInit DEF Init, EventsInv, InteractIsCurrent
<1>2. EventsInv => InteractIsCurrent
  BY DEF EventsInv
<1> QED  BY <1>1, <1>2, EventsStep, PTL DEF Spec

-----------------------------------------------------------------------------
(* The refinement of RequestReply *)

\* The open questions are the requests on their way, and nothing else.
LEMMA OpenFacts ==
  /\ \A q : q \in OpenQuestions <=>
       \/ \E k \in Commands : \E i \in 1 .. Len(asked[k]) : q = QuestionOf(k, asked[k][i])
       \/ \E r \in located : q = QuestionOf("breakpointLocations", r)
  /\ \A q : q \in OpenQuestions' <=>
       \/ \E k \in Commands : \E i \in 1 .. Len(asked'[k]) : q = QuestionOf(k, asked'[k][i])
       \/ \E r \in located' : q = QuestionOf("breakpointLocations", r)
<1>1. ASSUME NEW q
      PROVE  q \in OpenQuestions <=>
               \/ \E k \in Commands : \E i \in 1 .. Len(asked[k]) : q = QuestionOf(k, asked[k][i])
               \/ \E r \in located : q = QuestionOf("breakpointLocations", r)
  <2> DEFINE Queued == UNION {{QuestionOf(k, asked[k][i]) : i \in 1 .. Len(asked[k])} : k \in Commands}
             Located == {QuestionOf("breakpointLocations", r) : r \in located}
  <2>1. q \in Queued
          <=> \E k \in Commands : \E i \in 1 .. Len(asked[k]) : q = QuestionOf(k, asked[k][i])
    OBVIOUS
  <2>2. q \in Located <=> \E r \in located : q = QuestionOf("breakpointLocations", r)
    OBVIOUS
  <2>3. OpenQuestions = Queued \cup Located
    BY DEF OpenQuestions
  <2> HIDE DEF Queued, Located
  <2> QED  BY <2>1, <2>2, <2>3
<1>2. ASSUME NEW q
      PROVE  q \in OpenQuestions' <=>
               \/ \E k \in Commands : \E i \in 1 .. Len(asked'[k]) : q = QuestionOf(k, asked'[k][i])
               \/ \E r \in located' : q = QuestionOf("breakpointLocations", r)
  <2> DEFINE Queued == UNION {{QuestionOf(k, asked'[k][i]) : i \in 1 .. Len(asked'[k])} : k \in Commands}
             Located == {QuestionOf("breakpointLocations", r) : r \in located'}
  <2>1. q \in Queued
          <=> \E k \in Commands : \E i \in 1 .. Len(asked'[k]) : q = QuestionOf(k, asked'[k][i])
    OBVIOUS
  <2>2. q \in Located <=> \E r \in located' : q = QuestionOf("breakpointLocations", r)
    OBVIOUS
  <2>3. OpenQuestions' = Queued \cup Located
    BY DEF OpenQuestions
  <2> HIDE DEF Queued, Located
  <2> QED  BY <2>1, <2>2, <2>3
<1> QED  BY <1>1, <1>2

\* A request on its way is an open question.
LEMMA AskedIsOpen ==
  \A k \in Commands : \A i \in 1 .. Len(asked'[k]) : QuestionOf(k, asked'[k][i]) \in OpenQuestions'
BY DEF OpenQuestions

\* No command with a queue is breakpointLocations.
LEMMA NotQueued == "breakpointLocations" \notin Commands
BY ConstantsAssumption DEF QueuedCommand

\* A reset forgets the open questions.
LEMMA RefineReset == ASSUME Reset, UNCHANGED told PROVE RR!Forget
<1>1. \A k \in Commands : Len(asked'[k]) = 0
  BY FreshFacts DEF Reset
<1>2. located' = {}
  BY DEF Reset
<1>3. \A q : q \notin OpenQuestions'
  BY <1>1, <1>2, OpenFacts
<1>4. Labels' = RR!NoLabels
  BY FreshFacts DEF Reset, Labels, Shared, RR!NoLabels
<1> QED  BY <1>3, <1>4 DEF RR!Forget

\* The open questions have numbers up to the last one given.
LEMMA OpenNumbers == ASSUME RequestsInv PROVE \A q \in OpenQuestions : q.seq \in 1 .. seq
BY OpenFacts DEF QuestionOf, RequestsInv, Numbered

\* A request at the end of its queue is a new question.
LEMMA NewQuestion ==
  ASSUME RequestsInv, NEW k \in Commands, NEW tag \in Subject, seq + 1 <= MaxSeq,
         asked' = [asked EXCEPT ![k] = Append(@, [seq |-> seq + 1, tag |-> tag])],
         located' = located
  PROVE  LET q == [seq |-> seq + 1, kind |-> k, tag |-> tag]
         IN  /\ q \in RR!Question
             /\ OpenQuestions' = OpenQuestions \cup {q}
             /\ \A o \in OpenQuestions : o.seq < q.seq
<1> DEFINE r == [seq |-> seq + 1, tag |-> tag]
           q == [seq |-> seq + 1, kind |-> k, tag |-> tag]
<1>1. /\ seq \in Nat /\ seq + 1 <= MaxSeq /\ r \in Request
      /\ asked[k] \in Seq(Request) /\ Len(asked[k]) \in Nat
  <2>1. seq \in Nat /\ asked[k] \in Seq(Request)
    BY DEF RequestsInv, TypeOK
  <2> QED  BY <2>1 DEF Request
<1>2. /\ asked'[k] = Append(asked[k], r) /\ located' = located
      /\ \A c \in Commands : c # k => asked'[c] = asked[c]
  BY DEF RequestsInv, TypeOK
<1>3. /\ Len(asked'[k]) = Len(asked[k]) + 1 /\ asked'[k][Len(asked[k]) + 1] = r
      /\ \A i \in 1 .. Len(asked[k]) : asked'[k][i] = asked[k][i]
  BY <1>1, <1>2, AppendFacts
<1>4. q = QuestionOf(k, r)
  BY DEF QuestionOf
<1>5. \A o : o \in OpenQuestions => o \in OpenQuestions'
  <2> SUFFICES ASSUME NEW o \in OpenQuestions PROVE o \in OpenQuestions'
    OBVIOUS
  <2>1. CASE \E x \in located : o = QuestionOf("breakpointLocations", x)
    BY <1>2, <2>1, OpenFacts
  <2>2. ASSUME NEW c \in Commands, NEW i \in 1 .. Len(asked[c]), o = QuestionOf(c, asked[c][i])
        PROVE  o \in OpenQuestions'
    <3>1. i \in 1 .. Len(asked'[c]) /\ asked'[c][i] = asked[c][i]
      <4>1. CASE c # k
        <5>1. asked'[c] = asked[c]
          BY <1>2, <4>1
        <5> QED  BY <2>2, <5>1
      <4>2. CASE c = k
        BY <1>1, <1>3, <2>2, <4>2
      <4> QED  BY <4>1, <4>2
    <3>2. o = QuestionOf(c, asked'[c][i])
      BY <2>2, <3>1
    <3> QED  BY <3>1, <3>2, AskedIsOpen
  <2> QED  BY <2>1, <2>2, OpenFacts
<1>6. q \in OpenQuestions'
  <2>1. Len(asked[k]) + 1 \in 1 .. Len(asked'[k])
    BY <1>1, <1>3
  <2> QED  BY <1>3, <1>4, <2>1, OpenFacts
<1>7. ASSUME NEW o \in OpenQuestions', o # q PROVE o \in OpenQuestions
  <2>1. CASE \E x \in located' : o = QuestionOf("breakpointLocations", x)
    BY <1>2, <2>1, OpenFacts
  <2>2. ASSUME NEW c \in Commands, NEW i \in 1 .. Len(asked'[c]), o = QuestionOf(c, asked'[c][i])
        PROVE  i \in 1 .. Len(asked[c]) /\ asked'[c][i] = asked[c][i]
    <3>1. CASE c # k
      BY <1>2, <2>2, <3>1
    <3>2. CASE c = k
      <4>1. i # Len(asked[k]) + 1
        BY <1>3, <1>4, <1>7, <2>2, <3>2
      <4>2. i \in 1 .. Len(asked[k])
        BY <1>1, <1>3, <2>2, <3>2, <4>1
      <4> QED  BY <1>3, <3>2, <4>2
    <3> QED  BY <3>1, <3>2
  <2> QED  BY <2>1, <2>2, OpenFacts
<1>8. OpenQuestions' = OpenQuestions \cup {q}
  BY <1>5, <1>6, <1>7
<1>9. \A o \in OpenQuestions : o.seq < q.seq
  BY <1>1, OpenNumbers
<1>10. q \in RR!Question
  BY <1>1, ConstantsAssumption DEF RR!Question
<1> QED  BY <1>8, <1>9, <1>10

\* A request with a label is a question asked with one.
LEMMA RefineAsk ==
  ASSUME RequestsInv, NEW k \in Commands, NEW tag \in Subject, Ask(k, tag)
  PROVE  \E q \in RR!Question : RR!Ask(q)
<1> DEFINE q == [seq |-> seq + 1, kind |-> k, tag |-> tag]
<1>1. seq + 1 <= MaxSeq
  <2>1. seq \in Nat
    BY DEF RequestsInv, TypeOK
  <2> QED  BY <2>1, ConstantsAssumption DEF Ask, SeqUsed
<1>2. /\ q \in RR!Question
      /\ OpenQuestions' = OpenQuestions \cup {q}
      /\ \A o \in OpenQuestions : o.seq < q.seq
  BY <1>1, NewQuestion DEF Ask
<1>3. Labels' = [c \in Shared |-> IF c = q.kind THEN Append(Labels[c], q.tag) ELSE Labels[c]]
  <2>1. queue' = [queue EXCEPT ![k] = Append(@, tag)] /\ DOMAIN queue = Commands
    BY DEF Ask, RequestsInv, TypeOK
  <2> QED  BY <2>1 DEF Labels, Shared
<1>4. told' = told
  BY DEF Ask
<1> HIDE DEF q
<1> QED  BY <1>2, <1>3, <1>4 DEF RR!Ask

\* One of GetVariableInfo is a question asked without one.
LEMMA RefineGetVariableInfo ==
  ASSUME RequestsInv, NEW tag \in Id, GetVariableInfo(tag)
  PROVE  \E q \in RR!Question : RR!AskUnlabelled(q)
<1> DEFINE q == [seq |-> seq + 1, kind |-> "variables", tag |-> tag]
<1>1. "variables" \in Shared
  BY DEF GetVariableInfo, Shared
<1>2. /\ q \in RR!Question
      /\ OpenQuestions' = OpenQuestions \cup {q}
      /\ \A o \in OpenQuestions : o.seq < q.seq
  BY NewQuestion DEF GetVariableInfo, Subject
<1>3. Labels' = Labels /\ told' = told
  BY DEF GetVariableInfo, Labels
<1>4. q.kind \in Shared
  BY <1>1
<1> HIDE DEF q
<1> QED  BY <1>2, <1>3, <1>4 DEF RR!AskUnlabelled

\* So is one of breakpointLocations.
LEMMA RefineBreakpointLocations ==
  ASSUME RequestsInv, NEW file \in Id, BreakpointLocations(file)
  PROVE  \E q \in RR!Question : RR!Ask(q)
<1> DEFINE r == [seq |-> seq + 1, tag |-> file]
           q == [seq |-> seq + 1, kind |-> "breakpointLocations", tag |-> file]
<1>1. /\ seq \in Nat /\ seq + 1 <= MaxSeq /\ asked' = asked /\ told' = told
      /\ located' = located \cup {r}
  BY DEF RequestsInv, TypeOK, BreakpointLocations
<1>2. q = QuestionOf("breakpointLocations", r)
  BY DEF QuestionOf
<1>3. OpenQuestions' = OpenQuestions \cup {q}
  BY <1>1, <1>2, OpenFacts
<1>4. \A o \in OpenQuestions : o.seq < q.seq
  BY <1>1, OpenNumbers
<1>5. q \in RR!Question
  BY <1>1, ConstantsAssumption DEF RR!Question, Subject
<1>6. Labels' = [c \in Shared |-> IF c = q.kind THEN Append(Labels[c], q.tag) ELSE Labels[c]]
  BY NotQueued DEF BreakpointLocations, Labels, Shared
<1> QED  BY <1>1, <1>3, <1>4, <1>5, <1>6 DEF RR!Ask

\* A response is the answer to its question: the label at the head of the queue
\* is what the question is about, or the oldest of a shared command.
LEMMA RefineOnResponse ==
  ASSUME RequestsInv, NEW k \in Commands, OnResponse(k)
  PROVE  \E q \in OpenQuestions : RR!Answer(q)
<1> DEFINE own == Head(asked[k])
           q == [seq |-> own.seq, kind |-> k, tag |-> own.tag]
<1>1. asked[k] \in Seq(Request) /\ asked[k] # <<>> /\ queue[k] \in Seq(Subject)
  BY DEF RequestsInv, TypeOK, OnResponse
<1>2. /\ asked'[k] = Tail(asked[k]) /\ located' = located
      /\ \A c \in Commands : c # k => asked'[c] = asked[c]
      /\ told' = [seq |-> own.seq, kind |-> k, tag |-> own.tag,
                  label |-> IF queue[k] = <<>> THEN None ELSE Head(queue[k])]
  BY DEF RequestsInv, TypeOK, OnResponse
<1>3. /\ Len(asked[k]) \in Nat \ {0} /\ Len(asked'[k]) = Len(asked[k]) - 1 /\ own = asked[k][1]
      /\ \A i \in 1 .. Len(asked[k]) - 1 : asked'[k][i] = asked[k][i + 1]
  BY <1>1, <1>2, TailFacts
<1>4. k \notin Shared => queue[k] # <<>> /\ Head(queue[k]) = own.tag
  <2> SUFFICES ASSUME k \notin Shared PROVE queue[k] # <<>> /\ Head(queue[k]) = own.tag
    OBVIOUS
  <2>1. /\ Len(queue[k]) = Len(asked[k])
        /\ \A i \in 1 .. Len(asked[k]) : queue[k][i] = asked[k][i].tag
    BY DEF RequestsInv, QueuesMirrorRequests, Shared
  <2>2. queue[k] # <<>> /\ 1 \in 1 .. Len(asked[k])
    BY <1>3, <2>1
  <2>3. Head(queue[k]) = queue[k][1]
    BY <1>1, <2>2, TailFacts
  <2> QED  BY <1>3, <2>1, <2>2, <2>3
<1>5. q = QuestionOf(k, asked[k][1]) /\ q \in OpenQuestions
  <2>1. 1 \in 1 .. Len(asked[k])
    BY <1>3
  <2>2. q = QuestionOf(k, asked[k][1])
    BY <1>3 DEF QuestionOf
  <2> QED  BY <2>1, <2>2, OpenFacts
<1>6. ASSUME NEW o \in OpenQuestions, o # q PROVE o \in OpenQuestions'
  <2>1. CASE \E x \in located : o = QuestionOf("breakpointLocations", x)
    BY <1>2, <2>1, OpenFacts
  <2>2. ASSUME NEW c \in Commands, NEW i \in 1 .. Len(asked[c]), o = QuestionOf(c, asked[c][i])
        PROVE  \E j \in 1 .. Len(asked'[c]) : asked'[c][j] = asked[c][i]
    <3>1. CASE c # k
      BY <1>2, <2>2, <3>1
    <3>2. CASE c = k
      <4>1. i # 1
        BY <1>5, <1>6, <2>2, <3>2
      <4>2. i - 1 \in 1 .. Len(asked[k]) - 1 /\ (i - 1) + 1 = i
        BY <1>3, <2>2, <3>2, <4>1
      <4>3. asked'[k][i - 1] = asked[k][i] /\ i - 1 \in 1 .. Len(asked'[k])
        BY <1>3, <4>2
      <4> QED  BY <3>2, <4>3
    <3> QED  BY <3>1, <3>2
  <2> QED  BY <2>1, <2>2, OpenFacts
<1>7. ASSUME NEW o \in OpenQuestions' PROVE o \in OpenQuestions /\ o # q
  <2>1. ASSUME NEW x \in located', o = QuestionOf("breakpointLocations", x)
        PROVE  o \in OpenQuestions /\ o # q
    <3>1. o.kind = "breakpointLocations" /\ q.kind = k
      BY <2>1 DEF QuestionOf
    <3> QED  BY <1>2, <2>1, <3>1, OpenFacts, NotQueued
  <2>2. ASSUME NEW c \in Commands, NEW i \in 1 .. Len(asked'[c]), o = QuestionOf(c, asked'[c][i])
        PROVE  o \in OpenQuestions /\ o # q
    <3>1. CASE c # k
      <4>1. o.kind = c /\ q.kind = k
        BY <2>2 DEF QuestionOf
      <4> QED  BY <1>2, <2>2, <3>1, <4>1, OpenFacts
    <3>2. CASE c = k
      <4>1. i + 1 \in 1 .. Len(asked[k]) /\ asked'[k][i] = asked[k][i + 1] /\ 1 < i + 1
        BY <1>3, <2>2, <3>2
      <4>2. asked[k][1].seq < asked[k][i + 1].seq /\ asked[k][1].seq \in Nat
        <5>1. 1 \in 1 .. Len(asked[k])
          BY <1>3
        <5> QED  BY <4>1, <5>1 DEF RequestsInv, Numbered, TypeOK
      <4>3. o.seq = asked[k][i + 1].seq /\ q.seq = asked[k][1].seq
        BY <1>3, <2>2, <3>2, <4>1 DEF QuestionOf
      <4> QED  BY <2>2, <3>2, <4>1, <4>2, <4>3, OpenFacts
    <3> QED  BY <3>1, <3>2
  <2> QED  BY <2>1, <2>2, OpenFacts
<1>8. OpenQuestions' = OpenQuestions \ {q}
  BY <1>6, <1>7
<1>9. RR!Label(q) = IF queue[k] = <<>> THEN None ELSE Head(queue[k])
  BY <1>4 DEF RR!Label, Labels
<1>10. Labels' = [c \in Shared |-> IF c = q.kind /\ Labels[c] # <<>> THEN Tail(Labels[c])
                                   ELSE Labels[c]]
  <2>1. queue' = [queue EXCEPT ![k] = IF @ = <<>> THEN <<>> ELSE Tail(@)] /\ DOMAIN queue = Commands
    BY DEF OnResponse, RequestsInv, TypeOK
  <2> QED  BY <2>1 DEF Labels, Shared
<1>11. told' = [seq |-> q.seq, kind |-> q.kind, tag |-> q.tag, label |-> RR!Label(q)]
  BY <1>2, <1>9
<1> HIDE DEF q
<1>12. RR!Answer(q)
  BY <1>8, <1>10, <1>11 DEF RR!Answer
<1> QED  BY <1>5, <1>12

\* So is one of breakpointLocations: the map has its file under its number.
LEMMA RefineOnBreakpointLocations ==
  ASSUME RequestsInv, NEW own \in located, OnBreakpointLocations(own)
  PROVE  \E q \in OpenQuestions : RR!Answer(q)
<1> DEFINE q == QuestionOf("breakpointLocations", own)
<1>1. /\ asked' = asked /\ located' = located \ {own}
      /\ told' = [seq |-> own.seq, kind |-> "breakpointLocations", tag |-> own.tag, label |-> own.tag]
  BY DEF OnBreakpointLocations, RequestsInv, FilesMirrorRequests
<1>2. q \in OpenQuestions
  BY OpenFacts
<1>3. ASSUME NEW r \in located, r # own PROVE QuestionOf("breakpointLocations", r) # q
  <2>1. r.seq # own.seq
    BY <1>3 DEF RequestsInv, Numbered
  <2> QED  BY <2>1 DEF QuestionOf
<1>4. ASSUME NEW k \in Commands, NEW i \in 1 .. Len(asked[k])
      PROVE  QuestionOf(k, asked[k][i]) # q
  BY NotQueued DEF QuestionOf
<1>5. OpenQuestions' = OpenQuestions \ {q}
  BY <1>1, <1>3, <1>4, OpenFacts
<1>6. q.kind = "breakpointLocations" /\ q.kind \notin Shared
  BY NotQueued DEF QuestionOf, Shared
<1>7. told' = [seq |-> q.seq, kind |-> q.kind, tag |-> q.tag, label |-> RR!Label(q)]
  BY <1>1, <1>6 DEF QuestionOf, RR!Label
<1>8. Labels' = [c \in Shared |-> IF c = q.kind /\ Labels[c] # <<>> THEN Tail(Labels[c])
                                  ELSE Labels[c]]
  BY <1>6 DEF OnBreakpointLocations, Labels
<1> HIDE DEF q
<1> QED  BY <1>2, <1>5, <1>7, <1>8 DEF RR!Answer

\* dap::Client implements RequestReply: every response is reported once and with
\* the subject of its own request, and the responses to variables requests, if
\* GetVariableInfo is used, with the labels of those in their order.
THEOREM AnswersMatchTheorem == Spec => AnswersMatch
<1>1. Init => RR!Init
  <2> SUFFICES ASSUME Init PROVE RR!Init
    OBVIOUS
  <2>1. \A k \in Commands : Len(asked[k]) = 0
    BY FreshFacts DEF Init
  <2>2. \A q : q \notin OpenQuestions
    BY <2>1, OpenFacts DEF Init
  <2>3. Labels = RR!NoLabels
    BY FreshFacts DEF Init, Labels, Shared, RR!NoLabels
  <2> QED  BY <2>2, <2>3 DEF Init, RR!Init
<1>2. RequestsInv /\ [Next]_vars => [RR!Next]_RR!vars
  <2> SUFFICES ASSUME RequestsInv, [Next]_vars PROVE [RR!Next]_RR!vars
    OBVIOUS
  <2>1. CASE UNCHANGED <<asked, located, queue, told>>
    BY <2>1 DEF RR!vars, OpenQuestions, Labels
  <2>2. EventStep \/ UNCHANGED vars => UNCHANGED <<asked, located, queue, told>>
    BY DEF EventStep, Step, StepAnswered, DebuggeeContinues, OnEvent, DebuggeeStops,
           vars, clientVars, adapterVars
  <2>3. TypeOK
    BY DEF RequestsInv
  <2> QED
    BY <2>1, <2>2, <2>3, Steps, RefineReset, RefineAsk, RefineGetVariableInfo,
       RefineBreakpointLocations, RefineOnResponse, RefineOnBreakpointLocations
    DEF RR!Next
<1> QED
  BY <1>1, <1>2, RequestsInit, RequestsStep, PTL DEF Spec, AnswersMatch, RR!Spec

=============================================================================
