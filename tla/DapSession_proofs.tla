-------------------------- MODULE DapSession_proofs --------------------------
(***************************************************************************)
(* Theorems about DapSession and their proofs, for every set of targets,   *)
(* either configuration and every bound.                                   *)
(***************************************************************************)
EXTENDS DapSession, TLAPS

-----------------------------------------------------------------------------
(* The connection *)

\* There is a reader thread exactly while there is a transport.
TransportRead == transport = None <=> reader = "none"

\* What Client::Reset makes of the connection.
Disconnected == transport' = None /\ reader' = "none" /\ handshake' = "notPerformed"

\* A message handled by the client keeps the connection or resets it.
LEMMA OnMessageConnection ==
  ASSUME NEW m, OnMessage(m)
  PROVE  UNCHANGED <<transport, reader>> \/ Disconnected
<1> USE DEF Disconnected
<1>1. CASE OnInitializeResponse(m.ok)
  BY <1>1 DEF OnInitializeResponse, ResetClient
<1>2. CASE OnInitializedEvent
  BY <1>2 DEF OnInitializedEvent, SendRequest, OnConnectionError, ResetClient, clientVars
<1>3. CASE OnLaunchResponse(m.ok)
  BY <1>3 DEF OnLaunchResponse, OpenBox, clientVars
<1>4. CASE OnAttachToProcessResponse(m.ok)
  BY <1>4 DEF OnAttachToProcessResponse, OpenBox, clientVars
<1>5. CASE OnExited \/ OnTerminated
  BY <1>5 DEF OnExited, OnTerminated, ResetData, ResetClient, clientVars
<1>6. CASE UNCHANGED clientVars
  BY <1>6 DEF clientVars
<1>7. CASE Dispatch(m)
  BY <1>2, <1>3, <1>4, <1>5, <1>6, <1>7 DEF Dispatch
<1> QED BY <1>1, <1>6, <1>7 DEF OnMessage

\* Any step keeps the connection, resets it, makes a new one, or ends the
\* reader thread.
LEMMA ConnectionSteps ==
  ASSUME [Next]_vars
  PROVE  \/ UNCHANGED <<transport, reader>>
         \/ Disconnected
         \/ \E attaching \in BOOLEAN : LaunchConnects(attaching)
         \/ ReaderLoses
<1> USE DEF Disconnected, clientVars
<1>1. ASSUME NEW attaching \in BOOLEAN, StartDebugger(attaching)
      PROVE  LaunchConnects(attaching) \/ Disconnected
  BY <1>1 DEF StartDebugger, LaunchFails, ResetData, ResetClient
<1>2. ASSUME NEW r, NEW open, SendRequest(r, open)
      PROVE  UNCHANGED <<transport, reader>> \/ Disconnected
  BY <1>2 DEF SendRequest, OnConnectionError, ResetClient
<1>3. CASE Debug \/ AdapterCloses \/ ReaderReads
  BY <1>3 DEF Debug, AdapterCloses, ReaderReads
<1>4. CASE CompilerFinished
  BY <1>1, <1>4 DEF CompilerFinished
<1>5. ASSUME NEW t \in Targets, AttachToProcess(t)
      PROVE  \/ UNCHANGED <<transport, reader>>
             \/ Disconnected
             \/ LaunchConnects(TRUE)
  BY <1>1, <1>2, <1>5 DEF AttachToProcess
<1>6. CASE DetachFromProcess
  BY <1>2, <1>6 DEF DetachFromProcess
<1>7. CASE Stop
  BY <1>2, <1>7 DEF Stop
<1>8. CASE StopFinishes \/ Release
  BY <1>8 DEF StopFinishes, Release, ResetData, ResetClient
<1>9. CASE HandleEvent
  <2>1. CASE OnMessage(Head(pending).msg)
    BY <2>1, OnMessageConnection
  <2>2. CASE OnLost
    BY <2>2 DEF OnLost, OnConnectionError, ResetClient
  <2> QED BY <1>9, <2>1, <2>2 DEF HandleEvent
<1>10. CASE CloseBox
  BY <1>2, <1>10 DEF CloseBox, ResetData, ResetClient
<1>11. CASE UNCHANGED vars
  BY <1>11 DEF vars
<1> QED BY <1>3, <1>4, <1>5, <1>6, <1>7, <1>8, <1>9, <1>10, <1>11 DEF Next

\* The transport and its reader thread come and go together.
LEMMA TransportReadStep ==
  ASSUME TypeOK, TransportRead, [Next]_vars
  PROVE  TransportRead'
<1>1. ASSUME NEW attaching \in BOOLEAN, LaunchConnects(attaching)
      PROVE  TransportRead'
  BY <1>1, ConstantsAssumption DEF LaunchConnects, TypeOK, TransportRead
<1> QED BY <1>1, ConnectionSteps DEF TransportRead, Disconnected, ReaderLoses

-----------------------------------------------------------------------------
(* Type correctness *)

\* The operators of Debugger_State return a mask.
LEMMA FlagsType ==
  ASSUME NEW s \in SUBSET Flag, NEW f \in Flag
  PROVE  /\ RemoveState(s, f) \in SUBSET Flag
         /\ AddState(s, f) \in SUBSET Flag
  BY DEF RemoveState, AddState, Linked, Flag

\* Pushing a continuation, and popping one, leaves a stack of continuations.
LEMMA StackType ==
  ASSUME NEW s \in Seq(Continuation), NEW c \in Continuation
  PROVE  /\ Append(s, c) \in Seq(Continuation)
         /\ s # <<>> => SubSeq(s, 1, Len(s) - 1) \in Seq(Continuation)
  OBVIOUS

\* What Reset leaves has the right types.
LEMMA ResetClientType ==
  ASSUME ResetClient
  PROVE  /\ transport' \in Connection \cup {None}
         /\ reader' \in {"none", "running", "ended"}
         /\ handshake' \in {"notPerformed", "inProgress", "completed"}
         /\ up' \in BOOLEAN
         /\ sent' \in SUBSET Request /\ owed' \in SUBSET Request
         /\ emitted' \in SUBSET AdapterEvent
  BY DEF ResetClient

\* The handler of a lost connection, from any stack of boxes.
LEMMA OnConnectionErrorType ==
  ASSUME TypeOK, NEW open \in Seq(Continuation), OnConnectionError(open)
  PROVE  /\ boxes' \in Seq(Continuation)
         /\ transport' \in Connection \cup {None}
         /\ reader' \in {"none", "running", "ended"}
         /\ handshake' \in {"notPerformed", "inProgress", "completed"}
         /\ up' \in BOOLEAN
         /\ sent' \in SUBSET Request /\ owed' \in SUBSET Request
         /\ emitted' \in SUBSET AdapterEvent
<1>1. CASE IsRunning(flags) /\ boxes' = Append(open, "resetData")
           /\ UNCHANGED <<clientVars, adapterVars>>
  <2>1. "resetData" \in Continuation
    BY DEF Continuation
  <2> QED BY <1>1, <2>1, StackType DEF TypeOK, clientVars, adapterVars
<1>2. CASE boxes' = open /\ ResetClient
  BY <1>2, ResetClientType
<1> QED BY <1>1, <1>2 DEF OnConnectionError

\* A request, whether there is a transport or not.
LEMMA SendRequestType ==
  ASSUME TypeOK, NEW open \in Seq(Continuation), NEW r \in Request,
         SendRequest(r, open)
  PROVE  /\ boxes' \in Seq(Continuation)
         /\ transport' \in Connection \cup {None}
         /\ reader' \in {"none", "running", "ended"}
         /\ handshake' \in {"notPerformed", "inProgress", "completed"}
         /\ up' \in BOOLEAN
         /\ sent' \in SUBSET Request /\ owed' \in SUBSET Request
         /\ emitted' \in SUBSET AdapterEvent
<1>1. CASE transport # None
  BY <1>1 DEF SendRequest, TypeOK, clientVars, OnConnectionError
<1>2. CASE transport = None
  BY <1>2, OnConnectionErrorType DEF SendRequest
<1> QED BY <1>1, <1>2

\* DAPDebuggerResetData.
LEMMA ResetDataType ==
  ASSUME TypeOK, ResetData
  PROVE  /\ flags' \in SUBSET Flag
         /\ transport' \in Connection \cup {None}
         /\ reader' \in {"none", "running", "ended"}
         /\ handshake' \in {"notPerformed", "inProgress", "completed"}
         /\ up' \in BOOLEAN
         /\ sent' \in SUBSET Request /\ owed' \in SUBSET Request
         /\ emitted' \in SUBSET AdapterEvent
         /\ dapPid' \in Pid \cup {None}
         /\ unkilled' \in SUBSET Pid
  BY ResetClientType, FlagsType DEF ResetData, TypeOK, Flag

\* LaunchDebugger, whether it connects or not, called by either command.
LEMMA StartDebuggerType ==
  ASSUME TypeOK, NEW attaching \in BOOLEAN, StartDebugger(attaching),
         pidAttached' \in Targets \cup {None}, building' \in BOOLEAN
  PROVE  TypeOK'
<1>1. CASE LaunchConnects(attaching)
  <2>1. launches + 1 \in Connection
    BY <1>1, ConstantsAssumption DEF LaunchConnects, Spawned, TypeOK, Connection
  <2>2. flags' \in SUBSET Flag
    BY <1>1, FlagsType DEF LaunchConnects, Spawned, TypeOK, Flag
  <2>3. /\ launches' \in 0 .. MaxSessions
        /\ transport' \in Connection \cup {None}
        /\ dapPid' \in Pid \cup {None} /\ unkilled' \in SUBSET Pid
    BY <1>1, <2>1, ConstantsAssumption DEF LaunchConnects, Spawned, TypeOK, Connection, Pid
  <2>4. sent' \in SUBSET Request /\ owed' \in SUBSET Request
    BY <1>1 DEF LaunchConnects, Request
  <2> QED BY <1>1, <2>2, <2>3, <2>4 DEF LaunchConnects, Spawned, TypeOK
<1>2. CASE LaunchFails(attaching)
  <2>1. launches' \in 0 .. MaxSessions
    BY <1>2, ConstantsAssumption DEF LaunchFails, TypeOK
  <2>2. boxes' \in Seq(Continuation)
    <3>1. (IF attaching THEN "attach" ELSE "nothing") \in Continuation
      BY DEF Continuation
    <3> QED BY <1>2, <3>1, StackType DEF LaunchFails, TypeOK
  <2> QED BY <1>2, <2>1, <2>2, ResetDataType DEF LaunchFails, TypeOK
<1> QED BY <1>1, <1>2 DEF StartDebugger

\* The handlers of the adapter's messages.
LEMMA OnMessageType ==
  ASSUME TypeOK, NEW m \in Message, OnMessage(m),
         UNCHANGED <<building, main, launches>>,
         pending' \in Seq(PendingEvent), staleHandled' \in BOOLEAN
  PROVE  TypeOK'
<1> DEFINE Same == UNCHANGED <<flags, pidAttached, dapPid, boxes, clientVars, adapterVars, unkilled>>
<1>0. \A s \in SUBSET Flag : AddState(s, "Running") \in SUBSET Flag
  BY FlagsType DEF Flag
<1>1. CASE Same
  BY <1>1 DEF TypeOK, clientVars, adapterVars
<1>2. CASE OnInitializeResponse(m.ok)
  <2>1. CASE UNCHANGED <<flags, boxes, transport, reader, adapterVars>> /\ handshake' = "completed"
    BY <1>2, <2>1 DEF OnInitializeResponse, TypeOK, adapterVars
  <2>2. CASE /\ handshake' = "completed"
             /\ sent' = sent \cup {"launch"} /\ owed' = owed \cup {"launch"}
             /\ flags' = AddState(flags, "Running")
             /\ UNCHANGED <<boxes, transport, reader, up, emitted>>
    BY <1>0, <1>2, <2>2 DEF OnInitializeResponse, TypeOK, Request
  <2>3. CASE /\ ResetClient
             /\ flags' = AddState(flags, "Running")
             /\ UNCHANGED boxes
    BY <1>0, <1>2, <2>3, ResetClientType DEF OnInitializeResponse, TypeOK
  <2>4. CASE /\ boxes' = Append(boxes, "resetData")
             /\ handshake' = "completed"
             /\ UNCHANGED <<flags, transport, reader, adapterVars>>
    <3>1. boxes' \in Seq(Continuation)
      BY <2>4, StackType DEF TypeOK, Continuation
    <3> QED BY <1>2, <2>4, <3>1 DEF OnInitializeResponse, TypeOK, adapterVars
  <2> QED BY <1>2, <2>1, <2>2, <2>3, <2>4 DEF OnInitializeResponse
<1>3. CASE OnInitializedEvent
  <2>1. "configurationDone" \in Request /\ boxes \in Seq(Continuation)
    BY DEF Request, TypeOK
  <2> QED BY <1>3, <2>1, SendRequestType DEF OnInitializedEvent, TypeOK
<1>4. ASSUME NEW c \in Continuation, OpenBox(c) PROVE TypeOK'
  BY <1>4, StackType DEF OpenBox, TypeOK, clientVars, adapterVars
<1>5. CASE OnLaunchResponse(m.ok)
  BY <1>1, <1>4, <1>5 DEF OnLaunchResponse, Continuation
<1>6. CASE OnAttachToProcessResponse(m.ok)
  <2>1. CASE /\ flags' = AddState(AddState(flags, "Running"), "Stopped")
             /\ dapPid' = pidAttached
             /\ UNCHANGED <<pidAttached, boxes, clientVars, adapterVars, unkilled>>
    <3>1. flags' \in SUBSET Flag
      BY <1>0, <2>1, FlagsType DEF TypeOK, Flag
    <3> QED BY <2>1, <3>1 DEF TypeOK, clientVars, adapterVars, Pid
  <2>2. CASE OpenBox("clearPid")
    BY <1>4, <2>2 DEF Continuation
  <2> QED BY <1>6, <2>1, <2>2 DEF OnAttachToProcessResponse
<1>7. CASE OnExited
  <2>1. flags' \in SUBSET Flag
    BY <1>7, FlagsType DEF OnExited, TypeOK, Flag
  <2> QED BY <1>7, <2>1 DEF OnExited, TypeOK, clientVars, adapterVars
<1>8. CASE OnTerminated
  BY <1>8, ResetDataType DEF OnTerminated, TypeOK
<1>9. CASE Dispatch(m)
  BY <1>1, <1>3, <1>5, <1>6, <1>7, <1>8, <1>9 DEF Dispatch
<1> QED BY <1>1, <1>2, <1>9 DEF OnMessage

\* What the main thread does when it closes a box.
LEMMA CloseBoxType ==
  ASSUME TypeOK, CloseBox
  PROVE  TypeOK'
<1> DEFINE open == SubSeq(boxes, 1, Len(boxes) - 1)
<1>1. open \in Seq(Continuation)
  BY StackType DEF CloseBox, TypeOK
<1>2. CASE /\ ResetData
           /\ pidAttached' \in {pidAttached, None}
           /\ boxes' = open
  BY <1>1, <1>2, ResetDataType DEF CloseBox, TypeOK
<1>3. CASE /\ pidAttached' \in {pidAttached, None}
           /\ boxes' = open
           /\ UNCHANGED <<flags, dapPid, clientVars, adapterVars, unkilled>>
  BY <1>1, <1>3 DEF CloseBox, TypeOK, clientVars, adapterVars
<1>4. CASE /\ SendRequest("attach", open)
           /\ UNCHANGED <<flags, pidAttached, dapPid, unkilled>>
  <2>1. "attach" \in Request
    BY DEF Request
  <2> QED BY <1>1, <1>4, <2>1, SendRequestType DEF CloseBox, TypeOK
<1> QED BY <1>2, <1>3, <1>4 DEF CloseBox

\* In every reachable state the variables have their types, and there is a
\* reader thread exactly while there is a transport: the thread that queues an
\* event knows its connection.
THEOREM TypeCorrect == Spec => [](TypeOK /\ TransportRead)
<1>1. Init => TypeOK /\ TransportRead
  <2>1. InitialState \in SUBSET Flag
    BY DEF InitialState, RemoveState, Flag
  <2>2. <<>> \in Seq(Continuation) /\ <<>> \in Seq(PendingEvent)
    OBVIOUS
  <2>3. Targets \subseteq Pid /\ 0 \in 0 .. MaxSessions
    BY ConstantsAssumption DEF Pid
  <2> QED BY <2>1, <2>2, <2>3 DEF Init, TypeOK, TransportRead
<1>2. TypeOK /\ TransportRead /\ [Next]_vars => TypeOK'
  <2> SUFFICES ASSUME TypeOK, TransportRead, [Next]_vars PROVE TypeOK'
    OBVIOUS
  <2>1. CASE Debug
    BY <2>1 DEF Debug, TypeOK, clientVars, adapterVars, processVars
  <2>2. CASE CompilerFinished
    <3>1. CASE StartDebugger(FALSE)
      <4>1. pidAttached' \in Targets \cup {None} /\ building' \in BOOLEAN
        BY <2>2 DEF CompilerFinished, TypeOK
      <4> QED BY <3>1, <4>1, StartDebuggerType
    <3>2. CASE UNCHANGED <<flags, dapPid, main, boxes, clientVars, pending,
                           adapterVars, processVars, staleHandled>>
      BY <2>2, <3>2 DEF CompilerFinished, TypeOK, clientVars, adapterVars, processVars
    <3> QED BY <2>2, <3>1, <3>2 DEF CompilerFinished
  <2>3. ASSUME NEW t \in Targets, AttachToProcess(t) PROVE TypeOK'
    <3>1. CASE StartDebugger(TRUE)
      <4>1. pidAttached' \in Targets \cup {None} /\ building' \in BOOLEAN
        BY <2>3 DEF AttachToProcess, TypeOK
      <4> QED BY <3>1, <4>1, StartDebuggerType
    <3>2. CASE /\ SendRequest("attach", boxes)
               /\ UNCHANGED <<flags, dapPid, main, pending, processVars, staleHandled>>
      <4>1. "attach" \in Request /\ boxes \in Seq(Continuation)
        BY DEF Request, TypeOK
      <4> QED BY <2>3, <3>2, <4>1, SendRequestType DEF AttachToProcess, TypeOK, processVars
    <3> QED BY <2>3, <3>1, <3>2 DEF AttachToProcess
  <2>4. CASE DetachFromProcess
    <3>1. "disconnect" \in Request /\ "detach" \in Continuation /\ boxes \in Seq(Continuation)
      BY DEF Request, Continuation, TypeOK
    <3>2. CASE SendRequest("disconnect", boxes) /\ pidAttached' = None
      BY <2>4, <3>1, <3>2, SendRequestType DEF DetachFromProcess, TypeOK, processVars
    <3>3. CASE /\ boxes' = Append(boxes, "detach")
               /\ UNCHANGED <<pidAttached, clientVars, adapterVars>>
      <4>1. boxes' \in Seq(Continuation)
        BY <3>1, <3>3, StackType
      <4> QED BY <2>4, <3>3, <4>1
              DEF DetachFromProcess, TypeOK, clientVars, adapterVars, processVars
    <3> QED BY <2>4, <3>2, <3>3 DEF DetachFromProcess
  <2>5. CASE Stop
    <3>1. "disconnect" \in Request /\ boxes \in Seq(Continuation)
      BY DEF Request, TypeOK
    <3> QED BY <2>5, <3>1, SendRequestType DEF Stop, TypeOK, processVars
  <2>6. CASE StopFinishes
    BY <2>6, ResetDataType DEF StopFinishes, TypeOK
  <2>7. CASE Release
    BY <2>7, ResetDataType DEF Release, TypeOK
  <2>8. CASE HandleEvent
    <3>1. /\ pending' \in Seq(PendingEvent) /\ Head(pending) \in PendingEvent
          /\ staleHandled' \in BOOLEAN
      BY <2>8 DEF HandleEvent, TypeOK
    <3>2. CASE Head(pending).kind = "data" /\ OnMessage(Head(pending).msg)
      <4>1. Head(pending).msg \in Message
        BY <3>1, <3>2 DEF PendingEvent
      <4> QED BY <2>8, <3>1, <3>2, <4>1, OnMessageType DEF HandleEvent
    <3>3. CASE OnLost
      <4>1. boxes \in Seq(Continuation)
        BY DEF TypeOK
      <4> QED BY <2>8, <3>1, <3>3, <4>1, OnConnectionErrorType DEF HandleEvent, OnLost, TypeOK
    <3> QED BY <2>8, <3>2, <3>3 DEF HandleEvent
  <2>9. CASE CloseBox
    BY <2>9, CloseBoxType
  <2>10. CASE ReaderReads
    <3> SUFFICES ASSUME NEW m \in Message,
                        pending' = Append(pending, [kind |-> "data", conn |-> transport, msg |-> m]),
                        owed' \in {owed \ {m.what}, owed, {}},
                        emitted' \in {emitted, AdapterEvent, emitted \cup {m.what}},
                        emitted' = emitted \cup {m.what} => m.what \in AdapterEvent \/ emitted' = emitted
                 PROVE  TypeOK'
      BY <2>10 DEF ReaderReads
    <3>1. pending' \in Seq(PendingEvent)
      BY <2>10 DEF ReaderReads, TransportRead, TypeOK, PendingEvent
    <3>2. owed' \in SUBSET Request /\ emitted' \in SUBSET AdapterEvent
      BY DEF TypeOK
    <3> QED BY <2>10, <3>1, <3>2
            DEF ReaderReads, TypeOK, pluginVars, clientVars, processVars
  <2>11. CASE ReaderLoses
    <3>1. pending' \in Seq(PendingEvent)
      BY <2>11 DEF ReaderLoses, TransportRead, TypeOK, PendingEvent
    <3> QED BY <2>11, <3>1 DEF ReaderLoses, TypeOK, pluginVars, adapterVars, processVars
  <2>12. CASE AdapterCloses
    BY <2>12 DEF AdapterCloses, TypeOK, pluginVars, clientVars, processVars
  <2>13. CASE UNCHANGED vars
    BY <2>13 DEF vars, TypeOK, pluginVars, clientVars, adapterVars, processVars
  <2> QED BY <2>1, <2>2, <2>3, <2>4, <2>5, <2>6, <2>7, <2>8, <2>9, <2>10,
             <2>11, <2>12, <2>13 DEF Next
<1> QED BY <1>1, <1>2, TransportReadStep, PTL DEF Spec

-----------------------------------------------------------------------------
(* A running session is served *)

\* RunningIsServed with what makes it inductive.  Its second part is why a
\* launch response or an attach response cannot make a session run that has
\* lost its transport.
ServedInv ==
  /\ IsRunning(flags) => IsConnected(flags)
  /\ ~staleHandled /\ handshake = "completed" => transport # None
  /\ IsRunning(flags) /\ ~staleHandled => handshake = "completed"

\* What AddState and RemoveState do to Running.
LEMMA RunningFlag ==
  ASSUME NEW s \in SUBSET Flag, NEW f \in Flag
  PROVE  /\ ~IsRunning(RemoveState(s, "Connected"))
         /\ ~IsRunning(AddState(RemoveState(s, "Connected"), "Connected"))
         /\ IsRunning(AddState(s, f)) => IsConnected(AddState(s, f))
  BY DEF Flag, IsRunning, IsConnected, IsStopped, IsBusy, RemoveState, Linked, AddState

\* DAPDebuggerResetData ends the run.
LEMMA ResetDataServed ==
  ASSUME TypeOK, ResetData
  PROVE  ServedInv'
  BY RunningFlag DEF ResetData, ResetClient, TypeOK, ServedInv, IsRunning, IsConnected, Flag

\* LaunchDebugger begins and ends without a run.
LEMMA StartDebuggerServed ==
  ASSUME TypeOK, NEW attaching \in BOOLEAN, StartDebugger(attaching)
  PROVE  ServedInv'
<1>1. CASE LaunchConnects(attaching)
  BY <1>1, RunningFlag DEF LaunchConnects, TypeOK, ServedInv, IsRunning, IsConnected, Flag
<1> QED BY <1>1, ResetDataServed DEF StartDebugger, LaunchFails

\* A request without a transport resets the client only when nothing runs.
LEMMA SendRequestServed ==
  ASSUME ServedInv, NEW r, NEW open, SendRequest(r, open), UNCHANGED flags,
         staleHandled' \in BOOLEAN, staleHandled => staleHandled'
  PROVE  ServedInv'
  BY DEF SendRequest, OnConnectionError, ResetClient, ServedInv, IsRunning, IsConnected, clientVars

\* The handlers of the messages, when the message is of the current connection
\* unless staleHandled is set.
LEMMA OnMessageServed ==
  ASSUME TypeOK, ServedInv, NEW m \in Message, OnMessage(m),
         staleHandled' \in BOOLEAN, staleHandled => staleHandled',
         ~staleHandled' => transport # None
  PROVE  ServedInv'
<1> DEFINE Same == UNCHANGED <<flags, pidAttached, dapPid, boxes, clientVars, adapterVars, unkilled>>
<1>1. CASE UNCHANGED <<flags, clientVars>>
  BY <1>1 DEF ServedInv, clientVars, IsRunning, IsConnected
<1>2. ASSUME NEW s \in SUBSET Flag, NEW f \in Flag, flags' = AddState(s, f)
      PROVE  IsRunning(flags)' => IsConnected(flags)'
  BY <1>2, RunningFlag DEF IsRunning, IsConnected
<1>3. CASE OnInitializeResponse(m.ok)
  <2>1. CASE UNCHANGED <<flags, transport>> /\ handshake' = "completed"
    BY <2>1 DEF ServedInv, IsRunning, IsConnected
  <2>2. CASE /\ transport # None
             /\ handshake' = "completed"
             /\ flags' = AddState(flags, "Running")
             /\ UNCHANGED transport
    BY <1>2, <2>2 DEF ServedInv, TypeOK, Flag
  <2>3. CASE /\ transport = None
             /\ ResetClient
             /\ flags' = AddState(flags, "Running")
    BY <1>2, <2>3 DEF ServedInv, ResetClient, TypeOK, Flag
  <2> QED BY <1>3, <2>1, <2>2, <2>3 DEF OnInitializeResponse
<1>4. CASE OnInitializedEvent
  BY <1>4, SendRequestServed DEF OnInitializedEvent
<1>5. CASE OnLaunchResponse(m.ok)
  BY <1>1, <1>5 DEF OnLaunchResponse, OpenBox
<1>6. CASE OnAttachToProcessResponse(m.ok) /\ handshake = "completed"
  <2>1. CASE /\ flags' = AddState(AddState(flags, "Running"), "Stopped")
             /\ UNCHANGED clientVars
    <3>1. AddState(flags, "Running") \in SUBSET Flag
      BY FlagsType DEF TypeOK, Flag
    <3> QED BY <1>2, <1>6, <2>1, <3>1 DEF ServedInv, clientVars, Flag
  <2> QED BY <1>1, <1>6, <2>1 DEF OnAttachToProcessResponse, OpenBox
<1>7. CASE OnExited
  BY <1>7, RunningFlag DEF OnExited, ServedInv, TypeOK, IsRunning, clientVars, Flag
<1>8. CASE OnTerminated
  BY <1>8, ResetDataServed DEF OnTerminated
<1>9. CASE Dispatch(m) /\ handshake = "completed"
  BY <1>1, <1>4, <1>5, <1>6, <1>7, <1>8, <1>9 DEF Dispatch
<1> QED BY <1>1, <1>3, <1>9 DEF OnMessage

\* The invariant of a running session is inductive.
LEMMA ServedStep ==
  ASSUME TypeOK, ServedInv, [Next]_vars
  PROVE  ServedInv'
<1>1. CASE UNCHANGED <<flags, transport, handshake, staleHandled>>
  BY <1>1 DEF ServedInv, IsRunning, IsConnected
<1>2. CASE Debug \/ AdapterCloses \/ ReaderReads \/ ReaderLoses \/ UNCHANGED vars
  BY <1>1, <1>2 DEF Debug, AdapterCloses, ReaderReads, ReaderLoses,
                    vars, pluginVars, clientVars
<1>3. CASE CompilerFinished
  BY <1>1, <1>3, StartDebuggerServed DEF CompilerFinished, clientVars
<1>4. ASSUME NEW t \in Targets, AttachToProcess(t) PROVE ServedInv'
  <2>1. CASE StartDebugger(TRUE)
    BY <2>1, StartDebuggerServed
  <2>2. CASE SendRequest("attach", boxes) /\ UNCHANGED <<flags, staleHandled>>
    <3>1. staleHandled' \in BOOLEAN /\ (staleHandled => staleHandled')
      BY <2>2 DEF TypeOK
    <3> QED BY <2>2, <3>1, SendRequestServed
  <2> QED BY <1>4, <2>1, <2>2 DEF AttachToProcess
<1>5. CASE DetachFromProcess
  <2>1. CASE transport = None
    BY <1>1, <1>5, <2>1 DEF DetachFromProcess, clientVars
  <2>2. CASE transport # None
    BY <1>5, <2>2, SendRequestServed DEF DetachFromProcess, TypeOK
  <2> QED BY <2>1, <2>2
<1>6. CASE Stop
  BY <1>6, SendRequestServed DEF Stop, TypeOK
<1>7. CASE StopFinishes \/ Release
  BY <1>7, ResetDataServed DEF StopFinishes, Release
<1>8. CASE HandleEvent
  <2>1. Head(pending) \in PendingEvent
    BY <1>8 DEF HandleEvent, TypeOK
  <2>2. /\ staleHandled' \in BOOLEAN
        /\ staleHandled => staleHandled'
        /\ ~staleHandled' => transport # None
    <3>1. Head(pending).conn # None
      BY <2>1, ConstantsAssumption DEF PendingEvent, Connection
    <3>2. staleHandled \in BOOLEAN /\ staleHandled' = (staleHandled \/ Head(pending).conn # transport)
      BY <1>8 DEF HandleEvent, TypeOK
    <3> QED BY <3>1, <3>2, Zenon
  <2>3. CASE Head(pending).kind = "data" /\ OnMessage(Head(pending).msg)
    <3>1. Head(pending).msg \in Message
      BY <2>1, <2>3 DEF PendingEvent
    <3> QED BY <2>2, <2>3, <3>1, OnMessageServed
  <2>4. CASE OnLost
    BY <2>2, <2>4 DEF OnLost, OnConnectionError, ResetClient, ServedInv, IsRunning,
                      IsConnected, clientVars
  <2> QED BY <1>8, <2>3, <2>4 DEF HandleEvent
<1>9. CASE CloseBox
  <2> DEFINE open == SubSeq(boxes, 1, Len(boxes) - 1)
  <2>1. CASE ResetData
    BY <2>1, ResetDataServed
  <2>2. CASE UNCHANGED <<flags, dapPid, clientVars, adapterVars, unkilled>>
    BY <1>1, <1>9, <2>2 DEF CloseBox, clientVars
  <2>3. CASE /\ SendRequest("attach", open)
             /\ UNCHANGED <<flags, pidAttached, dapPid, unkilled>>
    <3>1. staleHandled' \in BOOLEAN /\ (staleHandled => staleHandled')
      BY <1>9 DEF CloseBox, TypeOK
    <3> QED BY <2>3, <3>1, SendRequestServed
  <2> QED BY <1>9, <2>1, <2>2, <2>3 DEF CloseBox
<1> QED BY <1>2, <1>3, <1>4, <1>5, <1>6, <1>7, <1>8, <1>9 DEF Next

\* The plugin believes a debuggee runs only while it is connected, has a
\* reader thread and a completed handshake, unless an event of an older
\* connection was handled since the session was launched.
THEOREM RunningServed == Spec => []RunningIsServed
<1>1. Init => ServedInv
  BY DEF Init, ServedInv, InitialState, RemoveState, IsRunning
<1>2. TypeOK /\ ServedInv /\ [Next]_vars => ServedInv'
  BY ServedStep
<1>3. ServedInv /\ TransportRead => RunningIsServed
  BY DEF ServedInv, TransportRead, RunningIsServed
<1> QED BY <1>1, <1>2, <1>3, TypeCorrect, PTL DEF Spec

-----------------------------------------------------------------------------
(* The loss of a connection comes last *)

\* LossComesLast with what makes it inductive: the transport is the newest
\* connection, and a thread that still runs has reported no loss of it.
LossInv ==
  /\ LossComesLast
  /\ transport # None => transport = launches
  /\ \A i \in 1 .. Len(pending) : pending[i].conn <= launches
  /\ reader = "running" =>
       \A i \in 1 .. Len(pending) : pending[i].kind = "error" => pending[i].conn < transport

\* What a step that reads nothing and connects to nothing does to the queue.
Drains ==
  /\ pending' = pending \/ pending' = <<>> \/ (pending # <<>> /\ pending' = Tail(pending))
  /\ \/ UNCHANGED <<transport, reader, launches>>
     \/ Disconnected /\ launches' \in {launches, launches + 1}

\* Any step drains the queue or leaves it, connects, or is the reader's.
LEMMA QueueSteps ==
  ASSUME [Next]_vars
  PROVE  \/ Drains
         \/ \E attaching \in BOOLEAN : LaunchConnects(attaching)
         \/ ReaderReads
         \/ ReaderLoses
<1>1. UNCHANGED <<transport, reader>> \/ Disconnected
        \/ (\E attaching \in BOOLEAN : LaunchConnects(attaching)) \/ ReaderLoses
  BY ConnectionSteps
<1>2. ASSUME NEW attaching \in BOOLEAN, StartDebugger(attaching)
      PROVE  LaunchConnects(attaching) \/ Drains
  BY <1>2 DEF StartDebugger, LaunchFails, ResetData, ResetClient, Drains, Disconnected
<1>3. CASE UNCHANGED <<pending, launches>>
  BY <1>1, <1>3 DEF Drains
<1>4. CASE Debug \/ AdapterCloses \/ UNCHANGED vars
  BY <1>3, <1>4 DEF Debug, AdapterCloses, vars, processVars
<1>5. CASE CompilerFinished
  BY <1>2, <1>3, <1>5 DEF CompilerFinished, processVars
<1>6. ASSUME NEW t \in Targets, AttachToProcess(t)
      PROVE  Drains \/ \E attaching \in BOOLEAN : LaunchConnects(attaching)
  <2>1. CASE StartDebugger(TRUE)
    BY <1>2, <2>1
  <2>2. CASE UNCHANGED <<pending, launches>>
    BY <1>3, <1>6, <2>2, <1>1 DEF ReaderLoses, Drains
  <2> QED  BY <1>6, <2>1, <2>2 DEF AttachToProcess, processVars
<1>7. CASE DetachFromProcess \/ Stop
  BY <1>3, <1>7 DEF DetachFromProcess, Stop, processVars
<1>8. CASE StopFinishes \/ CloseBox
  BY <1>3, <1>8 DEF StopFinishes, CloseBox
<1>9. CASE Release
  BY <1>9 DEF Release, ResetData, ResetClient, Drains, Disconnected
<1>10. CASE HandleEvent
  <2>1. pending # <<>> /\ pending' = Tail(pending) /\ launches' = launches
    BY <1>10 DEF HandleEvent
  <2>2. CASE OnMessage(Head(pending).msg)
    BY <2>1, <2>2, OnMessageConnection DEF Drains
  <2>3. CASE OnLost
    BY <2>1, <2>3 DEF OnLost, OnConnectionError, ResetClient, clientVars, Drains, Disconnected
  <2> QED  BY <1>10, <2>2, <2>3 DEF HandleEvent
<1> QED  BY <1>4, <1>5, <1>6, <1>7, <1>8, <1>9, <1>10 DEF Next

\* What is left of the queue is in the order it was.
LEMMA DrainsInOrder ==
  ASSUME TypeOK, LossInv, Drains
  PROVE  LossInv'
<1>1. launches \in Nat /\ launches' \in Nat /\ launches <= launches' /\ transport \in Connection \cup {None}
  BY DEF TypeOK, Drains
<1>2. PICK d \in {0, 1} : /\ \A i \in 1 .. Len(pending') : /\ i + d \in 1 .. Len(pending)
                                                           /\ pending'[i] = pending[i + d]
  <2>1. pending \in Seq(PendingEvent)
    BY DEF TypeOK
  <2>2. CASE pending' = pending
    <3>1. \A i \in 1 .. Len(pending') : i + 0 \in 1 .. Len(pending) /\ pending'[i] = pending[i + 0]
      BY <2>1, <2>2
    <3> QED  BY <3>1
  <2>3. CASE pending' = <<>>
    <3>1. Len(pending') = 0
      BY <2>3
    <3> QED  BY <3>1
  <2>4. CASE pending # <<>> /\ pending' = Tail(pending)
    <3>1. \A i \in 1 .. Len(pending') : i + 1 \in 1 .. Len(pending) /\ pending'[i] = pending[i + 1]
      BY <2>1, <2>4
    <3> QED  BY <3>1
  <2> QED  BY <2>2, <2>3, <2>4 DEF Drains
<1>3. LossComesLast'
  <2> SUFFICES ASSUME NEW i \in 1 .. Len(pending'), NEW j \in 1 .. Len(pending'), i < j
               PROVE  /\ pending'[i].conn <= pending'[j].conn
                      /\ pending'[i].kind = "error" => pending'[i].conn < pending'[j].conn
    BY DEF LossComesLast
  <2>1. i + d < j + d
    OBVIOUS
  <2> QED  BY <1>2, <2>1 DEF LossInv, LossComesLast
<1>4. transport' # None => transport' = launches'
  BY DEF LossInv, Drains, Disconnected
<1>5. \A i \in 1 .. Len(pending') : pending'[i].conn <= launches'
  <2>1. \A i \in 1 .. Len(pending) : pending[i].conn <= launches /\ pending[i].conn \in Nat
    <3>1. \A i \in 1 .. Len(pending) : pending[i] \in PendingEvent
      BY DEF TypeOK
    <3> QED  BY <3>1, ConstantsAssumption DEF LossInv, PendingEvent, Connection
  <2> QED  BY <1>1, <1>2, <2>1
<1>6. reader' = "running" =>
        \A i \in 1 .. Len(pending') : pending'[i].kind = "error" => pending'[i].conn < transport'
  BY <1>2 DEF LossInv, Drains, Disconnected
<1> QED  BY <1>3, <1>4, <1>5, <1>6 DEF LossInv

\* What the reader thread appends is of the newest connection.
LEMMA ReaderInOrder ==
  ASSUME TypeOK, TransportRead, LossInv, NEW e \in PendingEvent,
         reader = "running", pending' = Append(pending, e), e.conn = transport,
         launches' = launches, transport' = transport,
         e.kind = "error" => reader' # "running"
  PROVE  LossInv'
<1>1. transport = launches /\ launches \in Nat
  BY DEF TypeOK, TransportRead, LossInv
<1>2. /\ Len(pending') = Len(pending) + 1 /\ pending'[Len(pending) + 1] = e
      /\ \A i \in 1 .. Len(pending) : pending'[i] = pending[i]
      /\ Len(pending) \in Nat
  BY DEF TypeOK
<1>3. \A i \in 1 .. Len(pending') : i = Len(pending) + 1 \/ i \in 1 .. Len(pending)
  BY <1>2
<1>4. ASSUME NEW i \in 1 .. Len(pending') PROVE pending'[i].conn <= launches
  BY <1>1, <1>2, <1>3 DEF LossInv
<1>5. LossComesLast'
  <2> SUFFICES ASSUME NEW i \in 1 .. Len(pending'), NEW j \in 1 .. Len(pending'), i < j
               PROVE  /\ pending'[i].conn <= pending'[j].conn
                      /\ pending'[i].kind = "error" => pending'[i].conn < pending'[j].conn
    BY DEF LossComesLast
  <2>1. i \in 1 .. Len(pending) /\ pending'[i] = pending[i]
    BY <1>2
  <2>2. CASE j = Len(pending) + 1
    BY <1>1, <1>2, <1>4, <2>1, <2>2 DEF LossInv
  <2>3. CASE j \in 1 .. Len(pending)
    BY <1>2, <2>1, <2>3 DEF LossInv, LossComesLast
  <2> QED  BY <1>3, <2>2, <2>3
<1>6. ASSUME reader' = "running", NEW i \in 1 .. Len(pending'), pending'[i].kind = "error"
      PROVE  pending'[i].conn < transport'
  <2>1. i \in 1 .. Len(pending)
    BY <1>2, <1>3, <1>6
  <2> QED  BY <1>2, <1>6, <2>1 DEF LossInv
<1> QED  BY <1>1, <1>4, <1>5, <1>6 DEF LossInv

\* The invariant of the queue is inductive.
LEMMA LossStep ==
  ASSUME TypeOK, TypeOK', TransportRead, LossInv, [Next]_vars
  PROVE  LossInv'
<1>1. ASSUME NEW attaching \in BOOLEAN, LaunchConnects(attaching)
      PROVE  LossInv'
  <2>1. /\ pending' = pending /\ launches \in Nat /\ launches' = launches + 1
        /\ transport' = launches + 1
    BY <1>1 DEF LaunchConnects, TypeOK
  <2>2. \A i \in 1 .. Len(pending) : pending[i].conn \in Nat
    <3>1. \A i \in 1 .. Len(pending) : pending[i] \in PendingEvent
      BY DEF TypeOK
    <3> QED  BY <3>1, ConstantsAssumption DEF PendingEvent, Connection
  <2> QED  BY <2>1, <2>2 DEF LossInv, LossComesLast
<1>2. CASE ReaderReads
  <2> PICK m \in Message :
        pending' = Append(pending, [kind |-> "data", conn |-> transport, msg |-> m])
    BY <1>2 DEF ReaderReads
  <2> DEFINE e == [kind |-> "data", conn |-> transport, msg |-> m]
  <2>1. /\ reader = "running" /\ transport' = transport /\ launches' = launches
        /\ transport \in Connection
    BY <1>2 DEF ReaderReads, clientVars, processVars, TransportRead, TypeOK
  <2>2. e \in PendingEvent
    BY <2>1 DEF PendingEvent
  <2> QED  BY <2>1, <2>2, ReaderInOrder
<1>3. CASE ReaderLoses
  <2> DEFINE e == [kind |-> "error", conn |-> transport, msg |-> NoMessage]
  <2>1. /\ reader = "running" /\ transport' = transport /\ launches' = launches
        /\ transport \in Connection /\ pending' = Append(pending, e) /\ reader' # "running"
    BY <1>3 DEF ReaderLoses, processVars, TransportRead, TypeOK
  <2>2. e \in PendingEvent
    BY <2>1 DEF PendingEvent
  <2> QED  BY <2>1, <2>2, ReaderInOrder
<1> QED  BY <1>1, <1>2, <1>3, QueueSteps, DrainsInOrder

\* The events queued for the main thread are in the order of the connections
\* and end, for each, with its loss, through resets and new connections.
THEOREM LossIsLast == Spec => []LossComesLast
<1>1. Init => LossInv
  <2> SUFFICES ASSUME Init PROVE LossInv
    OBVIOUS
  <2>1. Len(pending) = 0 /\ transport = None /\ reader = "none"
    BY DEF Init
  <2> QED  BY <2>1 DEF LossInv, LossComesLast
<1>2. TypeOK /\ TypeOK' /\ TransportRead /\ LossInv /\ [Next]_vars => LossInv'
  BY LossStep
<1>3. LossInv => LossComesLast
  BY DEF LossInv
<1> QED  BY <1>1, <1>2, <1>3, TypeCorrect, PTL DEF Spec

-----------------------------------------------------------------------------
(***************************************************************************)
(* The handshake: what initialize and its answer guarantee in spite of the *)
(* events that Client::Reset leaves queued; and, when nobody attaches, the *)
(* adapters that are spawned.                                              *)
(***************************************************************************)

-----------------------------------------------------------------------------
(* What a step does to the conversation with the adapter *)

\* The command set R is sent, or nothing when it is empty.
Sends(R) == sent' = sent \cup R /\ owed' = owed \cup R

\* What is sent at any time of a session.
Later == Request \ {"initialize", "launch"}

\* The client is reset; what the readers have queued may stay.
Hangs ==
  /\ Disconnected /\ sent' = {} /\ owed' = {}
  /\ launches' \in {launches, launches + 1}
  /\ \/ staleHandled' = FALSE
     \/ staleHandled' = staleHandled
     \/ staleHandled' = TRUE
  /\ pending' = pending \/ pending' = <<>> \/ (pending # <<>> /\ pending' = Tail(pending))

\* The connection stays, no event is handled.
Talks ==
  /\ UNCHANGED <<transport, launches, handshake, pending, staleHandled>>
  /\ \E R \in SUBSET Later : Sends(R)

\* An answer to initialize completes the handshake.
Answers(e) == e.kind = "data" /\ e.msg.what = "initialize" /\ handshake # "completed"

\* The connection stays, an event is handled.
Handles ==
  /\ UNCHANGED <<transport, launches>>
  /\ pending # <<>> /\ pending' = Tail(pending)
  /\ staleHandled' = (staleHandled \/ Head(pending).conn # transport)
  /\ \/ /\ ~Answers(Head(pending)) /\ handshake' = handshake
        /\ \E R \in SUBSET Later : Sends(R)
     \/ /\ Answers(Head(pending)) /\ handshake' = "completed"
        /\ \E R \in SUBSET {"launch"} : Sends(R)

\* A request of Later is sent, or the client is reset, or a box opens.
LEMMA SendRequestTalks ==
  ASSUME NEW r \in Later, NEW open, SendRequest(r, open)
  PROVE  \/ UNCHANGED <<transport, handshake>> /\ \E R \in SUBSET Later : Sends(R)
         \/ Disconnected /\ sent' = {} /\ owed' = {}
<1>1. CASE transport # None /\ sent' = sent \cup {r} /\ owed' = owed \cup {r} /\ UNCHANGED clientVars
  <2>1. {r} \in SUBSET Later /\ Sends({r})
    BY <1>1 DEF Sends
  <2> QED BY <1>1, <2>1 DEF clientVars
<1>2. CASE UNCHANGED <<clientVars, adapterVars>>
  <2>1. {} \in SUBSET Later /\ Sends({})
    BY <1>2 DEF Sends, adapterVars
  <2> QED BY <1>2, <2>1 DEF clientVars
<1>3. CASE ResetClient
  BY <1>3 DEF ResetClient, Disconnected
<1> QED BY <1>1, <1>2, <1>3 DEF SendRequest, OnConnectionError

\* A message that is handled.
LEMMA OnMessageTalks ==
  ASSUME NEW m, OnMessage(m)
  PROVE  \/ /\ UNCHANGED <<transport, handshake>> /\ \E R \in SUBSET Later : Sends(R)
            /\ m.what = "initialize" => handshake = "completed"
         \/ /\ m.what = "initialize" /\ handshake # "completed" /\ handshake' = "completed"
            /\ transport' = transport
            /\ \E R \in SUBSET {"launch"} : Sends(R)
         \/ Disconnected /\ sent' = {} /\ owed' = {}
<1> DEFINE Kept == UNCHANGED <<transport, handshake>> /\ \E R \in SUBSET Later : Sends(R)
           Gone == Disconnected /\ sent' = {} /\ owed' = {}
<1>1. ASSUME UNCHANGED <<clientVars, adapterVars>> PROVE Kept
  <2>1. {} \in SUBSET Later /\ Sends({})
    BY <1>1 DEF Sends, adapterVars
  <2> QED BY <1>1, <2>1 DEF clientVars
<1>2. CASE handshake # "completed" /\ m.what = "initialize" /\ OnInitializeResponse(m.ok)
  <2>1. CASE handshake' = "completed" /\ UNCHANGED <<transport, adapterVars>>
    <3>1. {} \in SUBSET {"launch"} /\ Sends({})
      BY <2>1 DEF Sends, adapterVars
    <3> QED BY <1>2, <2>1, <3>1
  <2>2. CASE /\ handshake' = "completed" /\ UNCHANGED transport
             /\ sent' = sent \cup {"launch"} /\ owed' = owed \cup {"launch"}
    <3>1. {"launch"} \in SUBSET {"launch"} /\ Sends({"launch"})
      BY <2>2 DEF Sends
    <3> QED BY <1>2, <2>2, <3>1
  <2>3. CASE ResetClient
    BY <2>3 DEF ResetClient, Disconnected
  <2> QED BY <1>2, <2>1, <2>2, <2>3 DEF OnInitializeResponse
<1>3. CASE handshake # "completed" /\ m.what # "initialize" /\ UNCHANGED <<clientVars, adapterVars>>
  BY <1>1, <1>3
<1>4. CASE handshake = "completed" /\ Dispatch(m)
  <2>1. CASE OnInitializedEvent
    <3>1. "configurationDone" \in Later
      BY DEF Later, Request
    <3> QED BY <1>4, <2>1, <3>1, SendRequestTalks DEF OnInitializedEvent
  <2>2. CASE OnTerminated
    BY <2>2 DEF OnTerminated, ResetData, ResetClient, Disconnected
  <2>3. CASE UNCHANGED <<clientVars, adapterVars>>
    BY <1>1, <1>4, <2>3
  <2>4. OnInitializedEvent \/ OnTerminated \/ UNCHANGED <<clientVars, adapterVars>>
    BY <1>4 DEF Dispatch, OnLaunchResponse, OpenBox, OnAttachToProcessResponse, OnExited
  <2> QED BY <2>1, <2>2, <2>3, <2>4
<1> QED BY <1>2, <1>3, <1>4 DEF OnMessage

\* Any step talks, handles an event, hangs up, connects or is the reader's.
LEMMA ConversationSteps ==
  ASSUME TypeOK, [Next]_vars
  PROVE  \/ Talks \/ Handles \/ Hangs
         \/ \E attaching \in BOOLEAN : LaunchConnects(attaching)
         \/ ReaderReads \/ ReaderLoses
<1>1. ASSUME UNCHANGED <<transport, launches, handshake, pending, staleHandled, sent, owed>>
      PROVE  Talks
  <2>1. {} \in SUBSET Later /\ Sends({})
    BY <1>1 DEF Sends
  <2> QED BY <1>1, <2>1 DEF Talks
<1>2. CASE Debug \/ AdapterCloses \/ UNCHANGED vars
  BY <1>1, <1>2 DEF Debug, AdapterCloses, vars, clientVars, adapterVars, processVars
<1>3. ASSUME NEW attaching \in BOOLEAN, StartDebugger(attaching)
      PROVE  LaunchConnects(attaching) \/ Hangs
  BY <1>3 DEF StartDebugger, LaunchFails, ResetData, ResetClient, Hangs, Disconnected
<1>4. ASSUME NEW r \in Later, NEW open, SendRequest(r, open),
             UNCHANGED <<launches, pending, staleHandled>>
      PROVE  Talks \/ Hangs
  BY <1>4, SendRequestTalks DEF Talks, Hangs
<1>5. "attach" \in Later /\ "disconnect" \in Later
  BY DEF Later, Request
<1>6. CASE CompilerFinished
  BY <1>1, <1>3, <1>6 DEF CompilerFinished, clientVars, adapterVars, processVars
<1>7. ASSUME NEW t \in Targets, AttachToProcess(t)
      PROVE  Talks \/ Hangs \/ LaunchConnects(TRUE)
  BY <1>3, <1>4, <1>5, <1>7 DEF AttachToProcess, processVars
<1>8. CASE DetachFromProcess
  <2>1. CASE SendRequest("disconnect", boxes)
    BY <1>4, <1>5, <1>8, <2>1 DEF DetachFromProcess, processVars
  <2>2. CASE UNCHANGED <<clientVars, adapterVars>>
    BY <1>1, <1>8, <2>2 DEF DetachFromProcess, clientVars, adapterVars, processVars
  <2> QED BY <1>8, <2>1, <2>2 DEF DetachFromProcess
<1>9. CASE Stop
  BY <1>4, <1>5, <1>9 DEF Stop, processVars
<1>10. CASE StopFinishes \/ Release
  BY <1>10 DEF StopFinishes, Release, ResetData, ResetClient, Hangs, Disconnected
<1>11. CASE HandleEvent
  <2>1. /\ pending # <<>> /\ pending' = Tail(pending) /\ launches' = launches
        /\ staleHandled' = (staleHandled \/ Head(pending).conn # transport)
        /\ staleHandled' \in BOOLEAN
    BY <1>11 DEF HandleEvent, TypeOK
  <2>2. ASSUME Disconnected, sent' = {}, owed' = {} PROVE Hangs
    BY <2>1, <2>2 DEF Hangs
  <2>3. CASE Head(pending).kind = "data" /\ OnMessage(Head(pending).msg)
    BY <2>1, <2>2, <2>3, OnMessageTalks DEF Handles, Answers
  <2>4. CASE Head(pending).kind = "error" /\ OnLost
    <3>1. CASE ResetClient
      BY <2>2, <3>1 DEF ResetClient, Disconnected
    <3>2. CASE UNCHANGED <<clientVars, adapterVars>>
      <4>1. {} \in SUBSET Later /\ Sends({})
        BY <3>2 DEF Sends, adapterVars
      <4> QED BY <2>1, <2>4, <3>2, <4>1 DEF Handles, Answers, clientVars
    <3> QED BY <2>4, <3>1, <3>2 DEF OnLost, OnConnectionError
  <2> QED BY <1>11, <2>3, <2>4 DEF HandleEvent
<1>12. CASE CloseBox
  <2> DEFINE open == SubSeq(boxes, 1, Len(boxes) - 1)
  <2>1. CASE ResetData
    BY <1>12, <2>1 DEF CloseBox, ResetData, ResetClient, Hangs, Disconnected
  <2>2. CASE UNCHANGED <<clientVars, adapterVars>>
    BY <1>1, <1>12, <2>2 DEF CloseBox, clientVars, adapterVars
  <2>3. CASE SendRequest("attach", open)
    BY <1>4, <1>5, <1>12, <2>3 DEF CloseBox
  <2> QED BY <1>12, <2>1, <2>2, <2>3 DEF CloseBox
<1> QED BY <1>2, <1>6, <1>7, <1>8, <1>9, <1>10, <1>11, <1>12 DEF Next

-----------------------------------------------------------------------------
(* The handshake *)

\* Whatever is read from a connection comes after its adapter's answer to
\* initialize, or is that answer.
ReadIsAnswered ==
  \A i \in 1 .. Len(pending) :
    pending[i].kind = "data" /\ pending[i].conn = transport => "initialize" \notin owed

\* launch is sent by the handler that completes the handshake.
LaunchCompletes == "launch" \in sent => handshake = "completed"

\* The four properties of the handshake and what makes them inductive.
HandshakeInv ==
  /\ ReadIsAnswered
  /\ LaunchCompletes
  /\ HandshakeAnswerComes
  /\ AnsweredIsCurrent
  /\ LaunchAfterInitialize

\* An answer to initialize that is queued, of the current connection.
Queued(i) ==
  /\ pending[i].kind = "data" /\ pending[i].conn = transport
  /\ pending[i].msg.what = "initialize"

\* Handling an event shifts the queue by one.
LEMMA TailFacts ==
  ASSUME TypeOK, pending # <<>>, pending' = Tail(pending)
  PROVE  /\ Len(pending) \in Nat /\ Len(pending') = Len(pending) - 1
         /\ 1 \in 1 .. Len(pending) /\ Head(pending) = pending[1]
         /\ \A i \in 1 .. Len(pending') : i + 1 \in 1 .. Len(pending) /\ pending'[i] = pending[i + 1]
         /\ \A i \in 1 .. Len(pending) :
              i = 1 \/ (i - 1 \in 1 .. Len(pending') /\ pending'[i - 1] = pending[i])
<1>1. pending \in Seq(PendingEvent)
  BY DEF TypeOK
<1> QED BY <1>1

\* What the reader thread queues comes last.
LEMMA AppendFacts ==
  ASSUME TypeOK, NEW e, pending' = Append(pending, e)
  PROVE  /\ Len(pending) + 1 \in 1 .. Len(pending') /\ pending'[Len(pending) + 1] = e
         /\ \A i \in 1 .. Len(pending) : i \in 1 .. Len(pending') /\ pending'[i] = pending[i]
         /\ \A i \in 1 .. Len(pending') : i = Len(pending) + 1 \/ i \in 1 .. Len(pending)
<1>1. pending \in Seq(PendingEvent)
  BY DEF TypeOK
<1> QED BY <1>1

\* A step that sends something, and handles nothing.
LEMMA TalksKeeps ==
  ASSUME TypeOK, HandshakeInv, Talks
  PROVE  HandshakeInv'
<1>1. PICK R \in SUBSET Later : Sends(R)
  BY DEF Talks
<1>2. /\ "initialize" \in owed' <=> "initialize" \in owed
      /\ "launch" \in sent' <=> "launch" \in sent
  BY <1>1 DEF Sends, Later
<1> QED BY <1>2 DEF Talks, HandshakeInv, ReadIsAnswered, LaunchCompletes, HandshakeAnswerComes,
                    AnsweredIsCurrent, LaunchAfterInitialize

\* A step that handles an event.
LEMMA HandlesKeeps ==
  ASSUME TypeOK, LossInv, HandshakeInv, Handles
  PROVE  HandshakeInv'
<1>1. /\ UNCHANGED transport /\ pending # <<>> /\ pending' = Tail(pending)
      /\ staleHandled \in BOOLEAN
      /\ staleHandled' = (staleHandled \/ Head(pending).conn # transport)
  BY DEF Handles, TypeOK
<1>2. "initialize" \in owed' <=> "initialize" \in owed
  BY DEF Handles, Sends, Later
<1>3. ReadIsAnswered'
  BY <1>1, <1>2, TailFacts DEF HandshakeInv, ReadIsAnswered
<1>4. LaunchCompletes'
  BY DEF HandshakeInv, LaunchCompletes, Handles, Sends, Later
<1>5. HandshakeAnswerComes'
  <2> SUFFICES ASSUME handshake' = "inProgress", "initialize" \notin owed
               PROVE  \E i \in 1 .. Len(pending') :
                        /\ pending'[i].kind = "data" /\ pending'[i].conn = transport
                        /\ pending'[i].msg.what = "initialize"
    BY <1>1, <1>2 DEF HandshakeAnswerComes
  <2>1. ~Answers(Head(pending)) /\ handshake = "inProgress"
    BY DEF Handles
  <2>2. PICK i \in 1 .. Len(pending) : Queued(i)
    BY <2>1 DEF HandshakeInv, HandshakeAnswerComes, Queued
  <2>3. i # 1
    BY <1>1, <2>1, <2>2, TailFacts DEF Answers, Queued
  <2>4. i - 1 \in 1 .. Len(pending') /\ pending'[i - 1] = pending[i]
    BY <1>1, <2>3, TailFacts
  <2> QED BY <2>2, <2>4 DEF Queued
<1>6. AnsweredIsCurrent'
  <2> SUFFICES ASSUME transport # None, "initialize" \notin owed,
                      \A i \in 1 .. Len(pending') :
                        ~(pending'[i].conn = transport /\ pending'[i].msg.what = "initialize"),
                      NEW k \in 1 .. Len(pending')
               PROVE  pending'[k].conn = transport
    BY <1>1, <1>2 DEF AnsweredIsCurrent
  <2>1. k + 1 \in 1 .. Len(pending) /\ pending'[k] = pending[k + 1] /\ k \in 1 .. Len(pending')
    BY <1>1, TailFacts
  <2>2. CASE pending[1].conn = transport /\ pending[1].msg.what = "initialize"
    <3>1. 1 \in 1 .. Len(pending) /\ 1 < k + 1
      BY <1>1, TailFacts
    <3>2. pending[1].conn <= pending[k + 1].conn
      BY <2>1, <3>1 DEF LossInv, LossComesLast
    <3>3. pending[k + 1].conn <= transport
      BY <2>1 DEF LossInv
    <3>4. pending[k + 1].conn \in Nat /\ transport \in Nat
      <4>1. pending[k + 1] \in PendingEvent /\ transport \in Connection
        BY <2>1 DEF TypeOK
      <4> QED BY <4>1, ConstantsAssumption DEF PendingEvent, Connection
    <3> QED BY <2>1, <2>2, <3>2, <3>3, <3>4
  <2>3. CASE ~(pending[1].conn = transport /\ pending[1].msg.what = "initialize")
    <3>1. \A i \in 1 .. Len(pending) :
            ~(pending[i].conn = transport /\ pending[i].msg.what = "initialize")
      <4> SUFFICES ASSUME NEW i \in 1 .. Len(pending)
                   PROVE  ~(pending[i].conn = transport /\ pending[i].msg.what = "initialize")
        OBVIOUS
      <4>1. CASE i = 1
        BY <2>3, <4>1
      <4>2. CASE i # 1
        <5>1. i - 1 \in 1 .. Len(pending') /\ pending'[i - 1] = pending[i]
          BY <1>1, <4>2, TailFacts
        <5> QED BY <5>1
      <4> QED BY <4>1, <4>2
    <3>2. AnsweredIsCurrent
      BY DEF HandshakeInv
    <3>3. pending[k + 1].conn = transport
      BY <2>1, <3>1, <3>2 DEF AnsweredIsCurrent
    <3> QED BY <2>1, <3>3
  <2> QED BY <2>2, <2>3
<1>7. LaunchAfterInitialize'
  <2> SUFFICES ASSUME "launch" \in sent', ~staleHandled' PROVE "initialize" \notin owed
    BY <1>2 DEF LaunchAfterInitialize
  <2>1. ~staleHandled /\ Head(pending).conn = transport
    BY <1>1
  <2>2. CASE "launch" \in sent
    BY <2>1, <2>2 DEF HandshakeInv, LaunchAfterInitialize
  <2>3. CASE "launch" \notin sent
    <3>1. Answers(Head(pending))
      BY <2>3 DEF Handles, Sends, Later
    <3> QED BY <1>1, <2>1, <3>1, TailFacts DEF Answers, HandshakeInv, ReadIsAnswered
  <2> QED BY <2>2, <2>3
<1> QED BY <1>3, <1>4, <1>5, <1>6, <1>7 DEF HandshakeInv

\* Without a connection there is nothing to keep.
LEMMA HangsKeeps ==
  ASSUME Hangs
  PROVE  HandshakeInv'
  BY DEF Hangs, Disconnected, HandshakeInv, ReadIsAnswered, LaunchCompletes, HandshakeAnswerComes,
         AnsweredIsCurrent, LaunchAfterInitialize

\* A new connection is newer than all that is queued.
LEMMA ConnectsKeeps ==
  ASSUME TypeOK, LossInv, NEW attaching \in BOOLEAN, LaunchConnects(attaching)
  PROVE  HandshakeInv'
<1>1. /\ pending' = pending /\ transport' = launches + 1 /\ launches \in Nat
      /\ "initialize" \in owed' /\ "launch" \notin sent'
  BY DEF LaunchConnects, TypeOK
<1>2. \A i \in 1 .. Len(pending) : pending[i].conn # transport'
  <2> TAKE i \in 1 .. Len(pending)
  <2>1. pending[i] \in PendingEvent
    BY DEF TypeOK
  <2>2. pending[i].conn \in Nat /\ pending[i].conn <= launches
    BY <2>1, ConstantsAssumption DEF LossInv, PendingEvent, Connection
  <2> QED BY <1>1, <2>2
<1> QED BY <1>1, <1>2 DEF HandshakeInv, ReadIsAnswered, LaunchCompletes, HandshakeAnswerComes,
                          AnsweredIsCurrent, LaunchAfterInitialize

\* What a step of the reader thread leaves.
LEMMA ReaderKeeps ==
  ASSUME TypeOK, HandshakeInv, NEW e \in PendingEvent,
         pending' = Append(pending, e), e.conn = transport,
         UNCHANGED <<transport, handshake, sent, staleHandled>>,
         owed' \subseteq owed,
         e.kind = "data" => "initialize" \notin owed',
         "initialize" \in owed \ owed' => e.msg.what = "initialize" /\ e.kind = "data"
  PROVE  HandshakeInv'
<1>1. ReadIsAnswered'
  BY AppendFacts DEF HandshakeInv, ReadIsAnswered
<1>2. LaunchCompletes' /\ LaunchAfterInitialize'
  BY DEF HandshakeInv, LaunchCompletes, LaunchAfterInitialize
<1>3. HandshakeAnswerComes'
  <2> SUFFICES ASSUME handshake = "inProgress", "initialize" \notin owed'
               PROVE  \E i \in 1 .. Len(pending') :
                        /\ pending'[i].kind = "data" /\ pending'[i].conn = transport
                        /\ pending'[i].msg.what = "initialize"
    BY DEF HandshakeAnswerComes
  <2>1. CASE "initialize" \in owed
    BY <2>1, AppendFacts
  <2>2. CASE "initialize" \notin owed
    <3>1. PICK i \in 1 .. Len(pending) : Queued(i)
      BY <2>2 DEF HandshakeInv, HandshakeAnswerComes, Queued
    <3> QED BY <3>1, AppendFacts DEF Queued
  <2> QED BY <2>1, <2>2
<1>4. AnsweredIsCurrent'
  <2> SUFFICES ASSUME transport # None, "initialize" \notin owed',
                      \A i \in 1 .. Len(pending') :
                        ~(pending'[i].conn = transport /\ pending'[i].msg.what = "initialize"),
                      NEW k \in 1 .. Len(pending')
               PROVE  pending'[k].conn = transport
    BY DEF AnsweredIsCurrent
  <2>1. e.msg.what # "initialize"
    BY AppendFacts
  <2>2. "initialize" \notin owed
    BY <2>1
  <2>3. \A i \in 1 .. Len(pending) :
          ~(pending[i].conn = transport /\ pending[i].msg.what = "initialize")
    BY AppendFacts
  <2>4. \A i \in 1 .. Len(pending) : pending[i].conn = transport
    BY <2>2, <2>3 DEF HandshakeInv, AnsweredIsCurrent
  <2> QED BY <2>4, AppendFacts
<1> QED BY <1>1, <1>2, <1>3, <1>4 DEF HandshakeInv

\* The invariant of the handshake is inductive.
LEMMA HandshakeStep ==
  ASSUME TypeOK, TransportRead, LossInv, HandshakeInv, [Next]_vars
  PROVE  HandshakeInv'
<1>1. CASE ReaderReads
  <2> PICK m \in Message :
        /\ MaySend(m)
        /\ pending' = Append(pending, [kind |-> "data", conn |-> transport, msg |-> m])
        /\ \/ /\ m.what \in Request /\ (m.ok \/ m.what # "initialize")
              /\ owed' = owed \ {m.what}
           \/ m.what = "initialize" /\ owed' = {}
           \/ m.what \in AdapterEvent /\ owed' = owed
    BY <1>1 DEF ReaderReads
  <2> DEFINE e == [kind |-> "data", conn |-> transport, msg |-> m]
  <2>1. transport \in Connection
    BY <1>1 DEF ReaderReads, TransportRead, TypeOK
  <2>2. e \in PendingEvent
    BY <2>1 DEF PendingEvent
  <2>3. /\ owed' \subseteq owed /\ "initialize" \notin owed'
        /\ "initialize" \in owed \ owed' => m.what = "initialize"
    BY DEF MaySend, Request, AdapterEvent
  <2>4. UNCHANGED <<transport, handshake, sent, staleHandled>>
    BY <1>1 DEF ReaderReads, clientVars
  <2> QED BY <2>2, <2>3, <2>4, ReaderKeeps
<1>2. CASE ReaderLoses
  <2> DEFINE e == [kind |-> "error", conn |-> transport, msg |-> NoMessage]
  <2>1. transport \in Connection
    BY <1>2 DEF ReaderLoses, TransportRead, TypeOK
  <2>2. e \in PendingEvent
    BY <2>1 DEF PendingEvent
  <2>3. pending' = Append(pending, e) /\ UNCHANGED <<transport, handshake, sent, owed, staleHandled>>
    BY <1>2 DEF ReaderLoses, adapterVars
  <2> QED BY <2>2, <2>3, ReaderKeeps
<1> QED BY <1>1, <1>2, ConversationSteps, TalksKeeps, HandlesKeeps, HangsKeeps, ConnectsKeeps

\* The invariant of the handshake holds, with those it rests on.
LEMMA HandshakeHolds == Spec => [](TypeOK /\ TransportRead /\ LossInv /\ HandshakeInv)
<1>1. Init => LossInv /\ HandshakeInv
  <2> SUFFICES ASSUME Init PROVE LossInv /\ HandshakeInv
    OBVIOUS
  <2>1. /\ Len(pending) = 0 /\ transport = None /\ reader = "none"
        /\ sent = {} /\ owed = {} /\ handshake = "notPerformed"
    BY DEF Init
  <2> QED BY <2>1 DEF LossInv, LossComesLast, HandshakeInv, ReadIsAnswered, LaunchCompletes,
                      HandshakeAnswerComes, AnsweredIsCurrent, LaunchAfterInitialize
<1>2. TypeOK /\ TypeOK' /\ TransportRead /\ LossInv /\ [Next]_vars => LossInv'
  BY LossStep
<1>3. TypeOK /\ TransportRead /\ LossInv /\ HandshakeInv /\ [Next]_vars => HandshakeInv'
  BY HandshakeStep
<1> QED BY <1>1, <1>2, <1>3, TypeCorrect, PTL DEF Spec

\* A client that waits for the end of its handshake (m_handshake_state) waits for
\* an answer that the adapter owes, or that is queued for the main thread, across
\* any number of resets.
THEOREM HandshakeAnswer == Spec => []HandshakeAnswerComes
<1>1. HandshakeInv => HandshakeAnswerComes
  BY DEF HandshakeInv
<1> QED BY <1>1, HandshakeHolds, PTL

\* Once the answer to initialize was handled nothing that Client::Reset has left
\* queued is still to be handled.
THEOREM Answered == Spec => []AnsweredIsCurrent
<1>1. HandshakeInv => AnsweredIsCurrent
  BY DEF HandshakeInv
<1> QED BY <1>1, HandshakeHolds, PTL

\* OnInitializeResponse sends launch to an adapter that has answered initialize,
\* unless an answer of an older connection was taken for its own.
THEOREM LaunchFollows == Spec => []LaunchAfterInitialize
<1>1. HandshakeInv => LaunchAfterInitialize
  BY DEF HandshakeInv
<1> QED BY <1>1, HandshakeHolds, PTL

\* A launch that was answered is not sent again on its connection, whatever answers
\* to initialize are handled after it.
THEOREM LaunchedOnce == Spec => LaunchOnce
<1> DEFINE Once == transport' = transport /\ "launch" \in sent \ owed => "launch" \notin owed'
<1>1. TypeOK /\ TransportRead /\ LossInv /\ HandshakeInv /\ [Next]_vars => Once
  <2> SUFFICES ASSUME TypeOK, LossInv, HandshakeInv, [Next]_vars,
                      transport' = transport, "launch" \in sent, "launch" \notin owed
               PROVE  "launch" \notin owed'
    OBVIOUS
  <2>1. handshake = "completed"
    BY DEF HandshakeInv, LaunchCompletes
  <2>2. CASE Talks
    BY <2>2 DEF Talks, Sends, Later
  <2>3. CASE Handles
    BY <2>1, <2>3 DEF Handles, Answers, Sends, Later
  <2>4. CASE Hangs
    BY <2>4 DEF Hangs
  <2>5. ASSUME NEW attaching \in BOOLEAN, LaunchConnects(attaching) PROVE FALSE
    <3>1. launches \in Nat /\ transport \in Connection \cup {None}
      BY DEF TypeOK
    <3> QED BY <2>5, <3>1, ConstantsAssumption DEF LaunchConnects, LossInv
  <2>6. CASE ReaderReads
    BY <2>6 DEF ReaderReads
  <2>7. CASE ReaderLoses
    BY <2>7 DEF ReaderLoses, adapterVars
  <2> QED BY <2>2, <2>3, <2>4, <2>5, <2>6, <2>7, ConversationSteps
<1>2. TypeOK /\ TransportRead /\ LossInv /\ HandshakeInv /\ [Next]_vars => [Once]_vars
  BY <1>1
<1> QED BY <1>2, HandshakeHolds, PTL DEF Spec, LaunchOnce

-----------------------------------------------------------------------------
(* The adapters that are spawned *)

\* When there is no process to attach to, attach is nowhere, and m_dapPid names
\* the adapter that the plugin has spawned last.
OrphanInv ==
  Targets = {} =>
    /\ unkilled \subseteq {dapPid}
    /\ "attach" \notin owed
    /\ \A i \in 1 .. Len(pending) : pending[i].msg.what # "attach"
    /\ \A i \in 1 .. Len(boxes) : boxes[i] # "attach"

\* A box that is opened, or the one that is closed, leaves the others.
LEMMA BoxesFacts ==
  ASSUME TypeOK
  PROVE  /\ \A c \in Continuation : \A i \in 1 .. Len(Append(boxes, c)) :
              Append(boxes, c)[i] = c \/ (i \in 1 .. Len(boxes) /\ Append(boxes, c)[i] = boxes[i])
         /\ boxes # <<>> => /\ Len(boxes) \in 1 .. Len(boxes)
                            /\ \A i \in 1 .. Len(SubSeq(boxes, 1, Len(boxes) - 1)) :
                                 /\ i \in 1 .. Len(boxes)
                                 /\ SubSeq(boxes, 1, Len(boxes) - 1)[i] = boxes[i]
<1>1. boxes \in Seq(Continuation)
  BY DEF TypeOK
<1> QED BY <1>1

\* Reset and kill.
LEMMA ResetDataOrphan ==
  ASSUME OrphanInv, ResetData, pending' = pending \/ pending' = <<>>,
         \A i \in 1 .. Len(boxes') : boxes'[i] # "attach" \/ \E j \in 1 .. Len(boxes) : boxes'[i] = boxes[j]
  PROVE  OrphanInv'
<1>1. unkilled' = unkilled \ {dapPid} /\ owed' = {}
  BY DEF ResetData, ResetClient
<1>2. Len(<<>>) = 0
  OBVIOUS
<1> QED BY <1>1, <1>2 DEF OrphanInv

\* LaunchDebugger for the user's Debug.
LEMMA StartDebuggerOrphan ==
  ASSUME TypeOK, OrphanInv, StartDebugger(FALSE)
  PROVE  OrphanInv'
<1>1. CASE LaunchConnects(FALSE)
  BY <1>1 DEF LaunchConnects, Spawned, OrphanInv
<1>2. CASE LaunchFails(FALSE)
  <2>1. boxes' = Append(boxes, "nothing") /\ "nothing" \in Continuation
    BY <1>2 DEF LaunchFails, Continuation
  <2> QED BY <1>2, <2>1, BoxesFacts, ResetDataOrphan DEF LaunchFails
<1> QED BY <1>1, <1>2 DEF StartDebugger

\* A request, other than attach, that is sent or finds no transport.
LEMMA SendRequestOrphan ==
  ASSUME TypeOK, OrphanInv, NEW r, r # "attach", SendRequest(r, boxes),
         UNCHANGED <<unkilled, dapPid>>,
         \A i \in 1 .. Len(pending') : \E j \in 1 .. Len(pending) : pending'[i] = pending[j]
  PROVE  OrphanInv'
<1>1. CASE boxes' = boxes /\ owed' \subseteq owed \cup {r}
  BY <1>1 DEF OrphanInv
<1>2. CASE boxes' = Append(boxes, "resetData") /\ owed' = owed
  <2>1. "resetData" \in Continuation
    BY DEF Continuation
  <2>2. \A i \in 1 .. Len(boxes') :
          boxes'[i] = "resetData" \/ (i \in 1 .. Len(boxes) /\ boxes'[i] = boxes[i])
    BY <1>2, <2>1, BoxesFacts
  <2> QED BY <1>2, <2>2 DEF OrphanInv
<1> QED BY <1>1, <1>2 DEF SendRequest, OnConnectionError, ResetClient, adapterVars

\* The handlers of the messages, attach's excepted.
LEMMA OnMessageOrphan ==
  ASSUME TypeOK, OrphanInv, NEW m, m.what # "attach", OnMessage(m),
         \A i \in 1 .. Len(pending') : \E j \in 1 .. Len(pending) : pending'[i] = pending[j]
  PROVE  OrphanInv'
<1>1. ASSUME UNCHANGED <<dapPid, unkilled, boxes>>, owed' \subseteq owed \cup {"launch"}
      PROVE  OrphanInv'
  BY <1>1 DEF OrphanInv
<1>2. ASSUME NEW c \in Continuation \ {"attach"}, boxes' = Append(boxes, c),
             UNCHANGED <<dapPid, unkilled, adapterVars>>
      PROVE  OrphanInv'
  <2>1. \A i \in 1 .. Len(boxes') : boxes'[i] = c \/ (i \in 1 .. Len(boxes) /\ boxes'[i] = boxes[i])
    BY <1>2, BoxesFacts
  <2> QED BY <1>2, <2>1 DEF OrphanInv, adapterVars
<1>3. "resetData" \in Continuation \ {"attach"}
  BY DEF Continuation
<1>4. CASE OnInitializeResponse(m.ok)
  BY <1>1, <1>2, <1>3, <1>4 DEF OnInitializeResponse, ResetClient, adapterVars
<1>5. CASE OnInitializedEvent
  BY <1>5, SendRequestOrphan DEF OnInitializedEvent
<1>6. CASE OnLaunchResponse(m.ok)
  BY <1>1, <1>2, <1>3, <1>6 DEF OnLaunchResponse, OpenBox, adapterVars
<1>7. CASE OnTerminated
  BY <1>7 DEF OnTerminated, ResetData, ResetClient, OrphanInv
<1>8. CASE UNCHANGED <<dapPid, unkilled, boxes, adapterVars>>
  BY <1>1, <1>8 DEF adapterVars
<1>9. CASE Dispatch(m)
  BY <1>5, <1>6, <1>7, <1>8, <1>9 DEF Dispatch, OnExited
<1> QED BY <1>4, <1>8, <1>9 DEF OnMessage

\* The invariant of the adapters is inductive.
LEMMA OrphanStep ==
  ASSUME TypeOK, OrphanInv, [Next]_vars
  PROVE  OrphanInv'
<1>1. CASE UNCHANGED <<unkilled, dapPid, boxes, owed, pending>>
  BY <1>1 DEF OrphanInv
<1>2. CASE Debug \/ AdapterCloses \/ UNCHANGED vars
  BY <1>1, <1>2 DEF Debug, AdapterCloses, vars, pluginVars, adapterVars, processVars
<1>3. CASE CompilerFinished
  BY <1>1, <1>3, StartDebuggerOrphan DEF CompilerFinished, adapterVars, processVars
<1>4. ASSUME NEW t \in Targets, AttachToProcess(t) PROVE OrphanInv'
  BY DEF OrphanInv
<1>5. CASE DetachFromProcess
  BY <1>5 DEF DetachFromProcess, TypeOK, OrphanInv
<1>6. CASE Stop
  BY <1>6, SendRequestOrphan DEF Stop, processVars
<1>7. CASE StopFinishes \/ Release
  BY <1>7, ResetDataOrphan DEF StopFinishes, Release
<1>8. CASE HandleEvent
  <2> SUFFICES ASSUME Targets = {} PROVE OrphanInv'
    BY DEF OrphanInv
  <2>1. /\ \A i \in 1 .. Len(pending') : \E j \in 1 .. Len(pending) : pending'[i] = pending[j]
        /\ Head(pending).msg.what # "attach"
    <3>1. pending # <<>> /\ pending' = Tail(pending)
      BY <1>8 DEF HandleEvent
    <3> QED BY <3>1, TailFacts DEF OrphanInv
  <2>2. CASE OnMessage(Head(pending).msg)
    BY <2>1, <2>2, OnMessageOrphan
  <2>3. CASE OnLost /\ ResetClient /\ boxes' = boxes
    BY <2>1, <2>3 DEF OnLost, ResetClient, OrphanInv
  <2>4. CASE OnLost /\ boxes' = Append(boxes, "resetData") /\ UNCHANGED adapterVars
    <3>1. "resetData" \in Continuation
      BY DEF Continuation
    <3>2. \A i \in 1 .. Len(boxes') :
            boxes'[i] = "resetData" \/ (i \in 1 .. Len(boxes) /\ boxes'[i] = boxes[i])
      BY <2>4, <3>1, BoxesFacts
    <3> QED BY <2>1, <2>4, <3>2 DEF OnLost, OrphanInv, adapterVars
  <2> QED BY <1>8, <2>2, <2>3, <2>4 DEF HandleEvent, OnLost, OnConnectionError
<1>9. CASE CloseBox
  <2> SUFFICES ASSUME Targets = {} PROVE OrphanInv'
    BY DEF OrphanInv
  <2>1. boxes[Len(boxes)] # "attach"
    BY <1>9, BoxesFacts DEF CloseBox, OrphanInv
  <2>2. /\ boxes' = SubSeq(boxes, 1, Len(boxes) - 1) /\ pending' = pending
        /\ ResetData \/ UNCHANGED <<dapPid, unkilled, adapterVars>>
    BY <1>9, <2>1 DEF CloseBox
  <2>3. \A i \in 1 .. Len(boxes') : i \in 1 .. Len(boxes) /\ boxes'[i] = boxes[i]
    BY <1>9, <2>2, BoxesFacts DEF CloseBox
  <2>4. CASE ResetData
    BY <2>2, <2>3, <2>4, ResetDataOrphan
  <2>5. CASE UNCHANGED <<dapPid, unkilled, adapterVars>>
    BY <2>2, <2>3, <2>5 DEF OrphanInv, adapterVars
  <2> QED BY <2>2, <2>4, <2>5
<1>10. CASE ReaderReads \/ ReaderLoses
  <2> SUFFICES ASSUME Targets = {} PROVE OrphanInv'
    BY DEF OrphanInv
  <2>1. /\ UNCHANGED <<dapPid, unkilled, boxes>> /\ owed' \subseteq owed
        /\ \E e : pending' = Append(pending, e) /\ e.msg.what # "attach"
    <3>1. CASE ReaderLoses
      <4>1. NoMessage.what # "attach"
        BY DEF NoMessage
      <4> QED BY <3>1, <4>1 DEF ReaderLoses, pluginVars, processVars, adapterVars
    <3>2. CASE ReaderReads
      <4> PICK m \in Message :
            /\ MaySend(m)
            /\ pending' = Append(pending, [kind |-> "data", conn |-> transport, msg |-> m])
            /\ owed' \subseteq owed
        BY <3>2 DEF ReaderReads
      <4>1. m.what # "attach"
        BY DEF MaySend, AdapterEvent, Request, OrphanInv
      <4> QED BY <3>2, <4>1 DEF ReaderReads, pluginVars, processVars
    <3> QED BY <1>10, <3>1, <3>2
  <2> QED BY <2>1, AppendFacts DEF OrphanInv
<1> QED BY <1>2, <1>3, <1>4, <1>5, <1>6, <1>7, <1>8, <1>9, <1>10 DEF Next

\* A plugin that is never attached to a process kills every adapter it spawns, or
\* can still kill it: m_dapPid names it, through failed launches, lost
\* connections, nested message boxes and restarts (DAPDebuggerResetData).
THEOREM NoOrphan == Spec => []NoOrphanAdapter
<1>1. Init => OrphanInv
  <2> SUFFICES ASSUME Init PROVE OrphanInv
    OBVIOUS
  <2>1. Len(pending) = 0 /\ Len(boxes) = 0 /\ unkilled = Targets /\ owed = {}
    BY DEF Init
  <2> QED BY <2>1 DEF OrphanInv
<1>2. TypeOK /\ OrphanInv /\ [Next]_vars => OrphanInv'
  BY OrphanStep
<1>3. OrphanInv => NoOrphanAdapter
  BY DEF OrphanInv, NoOrphanAdapter
<1> QED BY <1>1, <1>2, <1>3, TypeCorrect, PTL DEF Spec

=============================================================================
