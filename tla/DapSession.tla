----------------------------- MODULE DapSession -----------------------------
(***************************************************************************)
(* The life of a debug session, from the user's Debug or Attach command to *)
(* the clean-up after it: the plugin Debugger_DAP, the dap::Client it owns *)
(* with its reader thread, and the debug adapter at the other end of the   *)
(* socket.                                                                 *)
(*                                                                         *)
(* Two threads of the program interleave.  The main thread runs user       *)
(* commands and the events that wxEvtHandler::CallAfter queued in pending, *)
(* one at a time; the reader thread queues them.  A message box opened by  *)
(* a handler runs a nested event loop: pending events are handled and a    *)
(* build may finish while the handler waits, and its continuation is kept  *)
(* on the stack boxes.                                                     *)
(*                                                                         *)
(* Connections are numbered by the call of LaunchDebugger that made them,  *)
(* and the adapter process spawned by that call has the same number.  The  *)
(* tag conn of an event (not in the code) is the connection it was read    *)
(* from.  A handler runs to completion, so an action is a whole handler.   *)
(*                                                                         *)
(* What the adapter may send is modelled from how the client uses it: a    *)
(* response to a request it was sent, initialize first, and each event at  *)
(* most once; an adapter that refuses initialize says nothing more of      *)
(* itself.  Messages that the session does not react to are left out, and  *)
(* so are the 20 ms poll timer and the dialogs.                            *)
(***************************************************************************)
EXTENDS Integers, Sequences, DebuggerState

CONSTANTS
  Targets,      \* processes the user may attach to
  None,         \* no pid (0 in the code), no transport (nullptr)
  RunDAPServer, \* the configuration flag: does the plugin spawn the adapter?
  MaxSessions,  \* bound on the calls of LaunchDebugger
  MaxPending,   \* bound on the queue of pending events
  MaxBoxes      \* bound on nested message boxes

ASSUME ConstantsAssumption ==
  /\ None \notin Nat /\ None \notin Targets
  /\ Targets \cap Nat = {}
  /\ RunDAPServer \in BOOLEAN
  /\ MaxSessions \in Nat /\ MaxPending \in Nat /\ MaxBoxes \in Nat

VARIABLES
  flags,        \* Debugger_State::DAPDebuggerState
  pidAttached,  \* m_pid_attached
  dapPid,       \* m_dapPid
  building,     \* the build started by Debug is not finished (SDK)
  main,         \* "idle", "stopping" inside Stop, "released" after unload
  boxes,        \* continuations of the open message boxes, innermost last
  transport,    \* m_transport: the number of its connection
  reader,       \* m_readerThread: "none", "running", or "ended" (m_terminated)
  handshake,    \* m_handshake_state
  pending,      \* events queued by CallAfter
  up,           \* the adapter has not closed the current connection
  sent,         \* commands sent on the current connection
  owed,         \* commands sent and not answered yet
  emitted,      \* events read from the current connection
  launches,     \* calls of LaunchDebugger so far
  unkilled,     \* of the targets and of the adapters the plugin has spawned,
                \* those it has not killed
  staleHandled  \* since the last LaunchDebugger an event of another
                \* connection than the current one was handled (history)

pluginVars  == <<flags, pidAttached, dapPid, building, main>>
clientVars  == <<transport, reader, handshake>>
adapterVars == <<up, sent, owed, emitted>>
processVars == <<launches, unkilled>>
vars == <<pluginVars, boxes, clientVars, pending, adapterVars, processVars, staleHandled>>

-----------------------------------------------------------------------------
(* Values *)

Connection == 1 .. MaxSessions
Pid        == Connection \cup Targets
Request    == {"initialize", "launch", "attach", "configurationDone", "disconnect"}
AdapterEvent == {"initialized", "exited", "terminated"}

\* The messages of the adapter that the session reacts to.
Message == [what : (Request \ {"disconnect"}) \cup AdapterEvent, ok : BOOLEAN]
NoMessage == [what |-> "none", ok |-> FALSE]

\* CallAfter(OnDataRead) and CallAfter(OnConnectionError).
PendingEvent ==
  [kind : {"data"}, conn : Connection, msg : Message] \cup
  [kind : {"error"}, conn : Connection, msg : {NoMessage}]

\* What a handler still has to do when the user closes its message box.
Continuation == {"resetData", "clearPid", "detach", "attach", "nothing"}

TypeOK ==
  /\ flags \in SUBSET Flag
  /\ pidAttached \in Targets \cup {None}
  /\ dapPid \in Pid \cup {None}
  /\ building \in BOOLEAN
  /\ main \in {"idle", "stopping", "released"}
  /\ boxes \in Seq(Continuation)
  /\ transport \in Connection \cup {None}
  /\ reader \in {"none", "running", "ended"}
  /\ handshake \in {"notPerformed", "inProgress", "completed"}
  /\ pending \in Seq(PendingEvent)
  /\ up \in BOOLEAN
  /\ sent \in SUBSET Request /\ owed \in SUBSET Request
  /\ emitted \in SUBSET AdapterEvent
  /\ launches \in 0 .. MaxSessions
  /\ unkilled \in SUBSET Pid
  /\ staleHandled \in BOOLEAN

Init ==
  /\ flags = InitialState
  /\ pidAttached = None /\ dapPid = None
  /\ building = FALSE /\ main = "idle" /\ boxes = <<>>
  /\ transport = None /\ reader = "none" /\ handshake = "notPerformed"
  /\ pending = <<>>
  /\ up = FALSE /\ sent = {} /\ owed = {} /\ emitted = {}
  /\ launches = 0 /\ unkilled = Targets
  /\ staleHandled = FALSE

-----------------------------------------------------------------------------
(* The client *)

\* Mutant: Reset does not stop the reader thread.
ResetClient_LeavesReader ==
  /\ transport' = None /\ reader' = reader /\ handshake' = "notPerformed"
  /\ up' = FALSE /\ sent' = {} /\ owed' = {} /\ emitted' = {}

\* Client::Reset: the reader thread is joined, the transport deleted, which
\* closes the socket.  The events that thread has queued stay queued.
ResetClient ==
  /\ transport' = None /\ reader' = "none" /\ handshake' = "notPerformed"
  /\ up' = FALSE /\ sent' = {} /\ owed' = {} /\ emitted' = {}

\* Mutants: the plugin's handler always returns at once; Reset is skipped when
\* the handler returns.
OnConnectionError_NeverResets(open) == boxes' = open /\ ResetClient
OnConnectionError_KeepsClient(open) ==
  IF IsRunning(flags)
  THEN /\ Len(open) < MaxBoxes
       /\ boxes' = Append(open, "resetData")
       /\ UNCHANGED <<clientVars, adapterVars>>
  ELSE boxes' = open /\ UNCHANGED <<clientVars, adapterVars>>

\* Client::OnConnectionError with the plugin's handler: unless the debugger
\* runs it returns at once, so that only the client is reset; when it runs, a
\* message box is opened and the reset comes after it.  The argument is the
\* stack of boxes that are open before.
OnConnectionError(open) ==
  \/ /\ IsRunning(flags)
     /\ Len(open) < MaxBoxes
     /\ boxes' = Append(open, "resetData")
     /\ UNCHANGED <<clientVars, adapterVars>>
  \/ /\ ~IsRunning(flags)
     /\ boxes' = open
     /\ ResetClient

\* Client::SendRequest: an error only when there is no transport, since a
\* failing Send is swallowed by SocketTransport.
SendRequest(r, open) ==
  \/ /\ transport # None
     /\ sent' = sent \cup {r} /\ owed' = owed \cup {r}
     /\ boxes' = open
     /\ UNCHANGED <<clientVars, up, emitted>>
  \/ /\ transport = None
     /\ OnConnectionError(open)

\* Mutant: m_dapPid is cleared without killing the adapter.
ResetData_KeepsAdapter ==
  /\ flags' = RemoveState(flags, "Connected")
  /\ ResetClient
  /\ dapPid' = None
  /\ UNCHANGED unkilled

\* Debugger_DAP::DAPDebuggerResetData: also kills whatever m_dapPid names.
ResetData ==
  /\ flags' = RemoveState(flags, "Connected")
  /\ ResetClient
  /\ unkilled' = unkilled \ {dapPid}
  /\ dapPid' = None

-----------------------------------------------------------------------------
(* Starting a session *)

\* LaunchDAPDebugger: the adapter that launch n spawns, if the plugin runs it.
Spawned(n) == IF RunDAPServer THEN {n} ELSE {}

\* Mutant: launch is sent right after initialize, as attach is.
LaunchConnects_Eager(attaching) ==
  LET n == launches + 1 IN
  /\ launches < MaxSessions
  /\ launches' = n
  /\ flags' = AddState(RemoveState(flags, "Connected"), "Connected")
  /\ transport' = n /\ reader' = "running" /\ handshake' = "inProgress"
  /\ up' = TRUE /\ emitted' = {}
  /\ sent' = {"initialize", IF attaching THEN "attach" ELSE "launch"}
  /\ owed' = sent'
  /\ unkilled' = (unkilled \ {dapPid}) \cup Spawned(n)
  /\ dapPid' = IF RunDAPServer THEN n ELSE None
  /\ staleHandled' = FALSE
  /\ UNCHANGED <<boxes, main, pending>>

\* LaunchDebugger: the previous session is reset first (its adapter killed),
\* then the adapter is spawned if the plugin runs it, then the socket
\* connects.  When it does, the transport is installed, the reader thread
\* started and initialize sent; AttachToProcess sends attach right after it.
LaunchConnects(attaching) ==
  LET n == launches + 1 IN
  /\ launches < MaxSessions
  /\ launches' = n
  /\ flags' = AddState(RemoveState(flags, "Connected"), "Connected")
  /\ transport' = n /\ reader' = "running" /\ handshake' = "inProgress"
  /\ up' = TRUE /\ emitted' = {}
  /\ sent' = {"initialize"} \cup (IF attaching THEN {"attach"} ELSE {})
  /\ owed' = sent'
  /\ unkilled' = (unkilled \ {dapPid}) \cup Spawned(n)
  /\ dapPid' = IF RunDAPServer THEN n ELSE None
  /\ staleHandled' = FALSE
  /\ UNCHANGED <<boxes, main, pending>>

\* No connection: the adapter just spawned is killed and a box tells the user.
\* AttachToProcess goes on after the box as if StartDebugger had succeeded.
LaunchFails(attaching) ==
  /\ launches < MaxSessions /\ Len(boxes) < MaxBoxes
  /\ launches' = launches + 1
  /\ ResetData
  /\ boxes' = Append(boxes, IF attaching THEN "attach" ELSE "nothing")
  /\ staleHandled' = FALSE
  /\ UNCHANGED <<main, pending>>

\* StartDebugger when it gets as far as LaunchDebugger.
StartDebugger(attaching) == LaunchConnects(attaching) \/ LaunchFails(attaching)

\* The user can act: the main thread is in its event loop and no modal box
\* disables the frame.
UserIdle == main = "idle" /\ boxes = <<>>

\* Debug (and RunToCursor): the SDK offers it while IsRunning() is false and
\* starts a build.
Debug ==
  /\ UserIdle /\ ~IsRunning(flags) /\ ~building
  /\ building' = TRUE
  /\ UNCHANGED <<flags, pidAttached, dapPid, main, boxes, clientVars, pending,
                 adapterVars, processVars, staleHandled>>

\* CompilerFinished: the build may end while a box is open.  A failed build, or
\* a check of StartDebugger that fails before LaunchDebugger, changes nothing.
CompilerFinished ==
  /\ main = "idle" /\ building
  /\ building' = FALSE
  /\ UNCHANGED pidAttached
  /\ \/ StartDebugger(FALSE)
     \/ UNCHANGED <<flags, dapPid, main, boxes, clientVars, pending,
                    adapterVars, processVars, staleHandled>>

\* AttachToProcess: the pid is remembered before anything is known to work,
\* and attach is sent whatever StartDebugger returned.
AttachToProcess(t) ==
  /\ UserIdle /\ ~IsRunning(flags)
  /\ pidAttached' = t
  /\ UNCHANGED building
  /\ \/ StartDebugger(TRUE)
     \/ /\ SendRequest("attach", boxes)
        /\ UNCHANGED <<flags, dapPid, main, pending, processVars, staleHandled>>

-----------------------------------------------------------------------------
(* Ending a session *)

\* DetachFromProcess: Disconnect(false) and forget the pid, but not m_dapPid.
\* Without a transport Disconnect reports the loss first.
DetachFromProcess ==
  /\ UserIdle /\ IsRunning(flags) /\ pidAttached # None
  /\ \/ /\ transport # None
        /\ SendRequest("disconnect", boxes)
        /\ pidAttached' = None
     \/ /\ transport = None
        /\ Len(boxes) < MaxBoxes
        /\ boxes' = Append(boxes, "detach")
        /\ UNCHANGED <<pidAttached, clientVars, adapterVars>>
  /\ UNCHANGED <<flags, dapPid, building, main, pending, processVars, staleHandled>>

\* Stop: refused unless running; Disconnect(true), then 100 ms in which the
\* reader thread goes on while the main thread sleeps.  Without a transport
\* the loss of the connection is reported first.
Stop ==
  /\ UserIdle /\ IsRunning(flags)
  /\ SendRequest("disconnect", boxes)
  /\ main' = IF transport = None THEN "idle" ELSE "stopping"
  /\ UNCHANGED <<flags, pidAttached, dapPid, building, pending, processVars, staleHandled>>

\* The end of Stop.
StopFinishes ==
  /\ main = "stopping"
  /\ main' = "idle"
  /\ ResetData
  /\ UNCHANGED <<pidAttached, building, boxes, pending, launches, staleHandled>>

\* OnReleaseReal: the plugin is unloaded; its pending events die with it.
Release ==
  /\ UserIdle
  /\ main' = "released"
  /\ ResetData
  /\ pending' = <<>>
  /\ UNCHANGED <<pidAttached, building, boxes, launches, staleHandled>>

-----------------------------------------------------------------------------
(* Handling the messages of the adapter *)

\* A handler that only opens a message box first.
OpenBox(continuation) ==
  /\ Len(boxes) < MaxBoxes
  /\ boxes' = Append(boxes, continuation)
  /\ UNCHANGED <<flags, pidAttached, dapPid, clientVars, adapterVars, unkilled>>

\* Mutants: the handshake is not marked complete; a failing response to
\* initialize is ignored before the handshake is marked complete.
OnInitializeResponse_StaysInProgress(ok) ==
  /\ IF ok /\ pidAttached = None /\ transport # None
     THEN /\ sent' = sent \cup {"launch"} /\ owed' = owed \cup {"launch"}
          /\ flags' = AddState(flags, "Running")
     ELSE UNCHANGED <<sent, owed, flags>>
  /\ UNCHANGED <<boxes, clientVars, up, emitted, pidAttached, dapPid, unkilled>>
OnInitializeResponse_IgnoresFailure(ok) ==
  /\ handshake' = IF ok THEN "completed" ELSE handshake
  /\ IF ok /\ pidAttached = None /\ transport # None
     THEN /\ sent' = sent \cup {"launch"} /\ owed' = owed \cup {"launch"}
          /\ flags' = AddState(flags, "Running")
     ELSE UNCHANGED <<sent, owed, flags>>
  /\ UNCHANGED <<boxes, transport, reader, up, emitted, pidAttached, dapPid, unkilled>>

\* OnMessage before the handshake is complete: only a response to initialize
\* is looked at, whatever request it answers.  OnInitializeResponse then sends
\* launch and adds Running, unless a pid to attach to is remembered.
OnInitializeResponse(ok) ==
  /\ UNCHANGED <<pidAttached, dapPid, unkilled>>
  /\ \/ /\ ~ok \/ pidAttached # None
        /\ handshake' = "completed"
        /\ UNCHANGED <<flags, boxes, transport, reader, adapterVars>>
     \/ /\ ok /\ pidAttached = None /\ transport # None
        /\ handshake' = "completed"
        /\ sent' = sent \cup {"launch"} /\ owed' = owed \cup {"launch"}
        /\ flags' = AddState(flags, "Running")
        /\ UNCHANGED <<boxes, transport, reader, up, emitted>>
     \/ \* no transport: OnConnectionError resets the client, or opens the box
        /\ ok /\ pidAttached = None /\ transport = None
        /\ \/ /\ ~IsRunning(flags)
              /\ ResetClient
              /\ flags' = AddState(flags, "Running")
              /\ UNCHANGED boxes
           \/ /\ IsRunning(flags)
              /\ Len(boxes) < MaxBoxes
              /\ boxes' = Append(boxes, "resetData")
              /\ handshake' = "completed"
              /\ UNCHANGED <<flags, transport, reader, adapterVars>>

\* OnInitializedEvent: breakpoints and watches, then configurationDone.
OnInitializedEvent ==
  /\ SendRequest("configurationDone", boxes)
  /\ UNCHANGED <<flags, pidAttached, dapPid, unkilled>>

\* OnLaunchResponse and OnConfigurationDoneResponse: a failure is reported in a
\* box, then everything is reset.
OnLaunchResponse(ok) ==
  \/ ok /\ UNCHANGED <<flags, pidAttached, dapPid, boxes, clientVars, adapterVars, unkilled>>
  \/ ~ok /\ OpenBox("resetData")

\* OnAttachToProcessResponse: m_dapPid, the adapter's pid so far, becomes the
\* pid of the process attached to.
OnAttachToProcessResponse(ok) ==
  \/ /\ ok
     /\ flags' = AddState(AddState(flags, "Running"), "Stopped")
     /\ dapPid' = pidAttached
     /\ UNCHANGED <<pidAttached, boxes, clientVars, adapterVars, unkilled>>
  \/ ~ok /\ OpenBox("clearPid")

\* OnExited: the debuggee is gone, the adapter still connected.
OnExited ==
  /\ flags' = RemoveState(flags, "Connected")
  /\ UNCHANGED <<pidAttached, dapPid, boxes, clientVars, adapterVars, unkilled>>

OnTerminated ==
  /\ ResetData
  /\ UNCHANGED <<pidAttached, boxes>>

\* OnMessage once the handshake is complete.
Dispatch(m) ==
  \/ m.what = "initialize" /\ UNCHANGED <<flags, pidAttached, dapPid, boxes, clientVars,
                                          adapterVars, unkilled>>
  \/ m.what = "initialized" /\ OnInitializedEvent
  \/ m.what \in {"launch", "configurationDone"} /\ OnLaunchResponse(m.ok)
  \/ m.what = "attach" /\ OnAttachToProcessResponse(m.ok)
  \/ m.what = "exited" /\ OnExited
  \/ m.what = "terminated" /\ OnTerminated

OnMessage(m) ==
  \/ /\ handshake # "completed" /\ m.what = "initialize"
     /\ OnInitializeResponse(m.ok)
  \/ /\ handshake # "completed" /\ m.what # "initialize"
     /\ UNCHANGED <<flags, pidAttached, dapPid, boxes, clientVars, adapterVars, unkilled>>
  \/ /\ handshake = "completed"
     /\ Dispatch(m)

\* The loss of a connection: OnConnectionError, whichever connection it was.
OnLost ==
  /\ OnConnectionError(boxes)
  /\ UNCHANGED <<flags, pidAttached, dapPid, unkilled>>

\* The event loop, nested or not, handles the oldest pending event.
HandleEvent ==
  /\ main = "idle" /\ pending # <<>>
  /\ pending' = Tail(pending)
  /\ staleHandled' = (staleHandled \/ Head(pending).conn # transport)
  /\ UNCHANGED <<building, main, launches>>
  /\ \/ Head(pending).kind = "data" /\ OnMessage(Head(pending).msg)
     \/ Head(pending).kind = "error" /\ OnLost

\* The user closes the innermost message box and its handler goes on.
CloseBox ==
  LET open == SubSeq(boxes, 1, Len(boxes) - 1)
      next == boxes[Len(boxes)] IN
  /\ main = "idle" /\ boxes # <<>>
  /\ UNCHANGED <<building, main, pending, launches, staleHandled>>
  /\ \/ /\ next \in {"resetData", "detach"}
        /\ ResetData
        /\ pidAttached' = IF next = "detach" THEN None ELSE pidAttached
        /\ boxes' = open
     \/ /\ next \in {"clearPid", "nothing"}
        /\ pidAttached' = IF next = "clearPid" THEN None ELSE pidAttached
        /\ boxes' = open
        /\ UNCHANGED <<flags, dapPid, clientVars, adapterVars, unkilled>>
     \/ /\ next = "attach"
        /\ SendRequest("attach", open)
        /\ UNCHANGED <<flags, pidAttached, dapPid, unkilled>>

-----------------------------------------------------------------------------
(* The reader thread and the adapter *)

\* What an adapter may send: see the module's header.
MaySend(m) ==
  \/ /\ m.what \in Request
     /\ m.what \in owed
     /\ m.what = "initialize" \/ "initialize" \notin owed
  \/ /\ m.what \in AdapterEvent \ emitted
     /\ m.ok
     /\ "initialize" \notin owed
     /\ m.what = "initialized" \/ sent \cap {"launch", "attach"} # {}

\* Mutant: what is read is handled before what is queued already.
ReaderReads_JumpsQueue ==
  /\ reader = "running" /\ up /\ Len(pending) < MaxPending
  /\ \E m \in Message :
       /\ MaySend(m)
       /\ pending' = <<[kind |-> "data", conn |-> transport, msg |-> m]>> \o pending
       /\ \/ /\ m.what \in Request
             /\ owed' = owed \ {m.what}
             /\ UNCHANGED emitted
          \/ /\ m.what \in AdapterEvent
             /\ emitted' = emitted \cup {m.what}
             /\ UNCHANGED owed
  /\ UNCHANGED <<pluginVars, boxes, clientVars, up, sent, processVars, staleHandled>>

\* The reader thread reads a message of the adapter and queues it.  After a
\* refused initialize nothing is owed and no event is left to be emitted.
ReaderReads ==
  /\ reader = "running" /\ up /\ Len(pending) < MaxPending
  /\ \E m \in Message :
       /\ MaySend(m)
       /\ pending' = Append(pending, [kind |-> "data", conn |-> transport, msg |-> m])
       /\ \/ /\ m.what \in Request /\ (m.ok \/ m.what # "initialize")
             /\ owed' = owed \ {m.what}
             /\ UNCHANGED emitted
          \/ /\ m.what = "initialize" /\ ~m.ok
             /\ owed' = {} /\ emitted' = AdapterEvent
          \/ /\ m.what \in AdapterEvent
             /\ emitted' = emitted \cup {m.what}
             /\ UNCHANGED owed
  /\ UNCHANGED <<pluginVars, boxes, clientVars, up, sent, processVars, staleHandled>>

\* Mutant: the thread does not leave its loop.
ReaderLoses_GoesOn ==
  /\ reader = "running" /\ ~up /\ Len(pending) < MaxPending
  /\ pending' = Append(pending, [kind |-> "error", conn |-> transport, msg |-> NoMessage])
  /\ UNCHANGED <<pluginVars, boxes, clientVars, adapterVars, processVars, staleHandled>>

\* Reading fails: the thread queues OnConnectionError and leaves its loop.
ReaderLoses ==
  /\ reader = "running" /\ ~up /\ Len(pending) < MaxPending
  /\ reader' = "ended"
  /\ pending' = Append(pending, [kind |-> "error", conn |-> transport, msg |-> NoMessage])
  /\ UNCHANGED <<pluginVars, boxes, transport, handshake, adapterVars, processVars, staleHandled>>

\* The adapter closes the connection: it crashes, or it ends the session and
\* exits or goes on listening.
AdapterCloses ==
  /\ up
  /\ up' = FALSE
  /\ UNCHANGED <<pluginVars, boxes, clientVars, pending, sent, owed, emitted,
                 processVars, staleHandled>>

-----------------------------------------------------------------------------
(* The specification *)

Next ==
  \/ Debug
  \/ CompilerFinished
  \/ \E t \in Targets : AttachToProcess(t)
  \/ DetachFromProcess
  \/ Stop
  \/ StopFinishes
  \/ Release
  \/ HandleEvent
  \/ CloseBox
  \/ ReaderReads
  \/ ReaderLoses
  \/ AdapterCloses

Spec == Init /\ [][Next]_vars

\* The threads of the program are scheduled, the event loop handles what is
\* queued, and the user closes a message box.  Nothing else is fair: the user
\* need not act and the adapter need not answer.
Fairness ==
  /\ WF_vars(ReaderLoses)
  /\ WF_vars(HandleEvent)
  /\ WF_vars(CloseBox)
  /\ WF_vars(StopFinishes)

FairSpec == Spec /\ Fairness

-----------------------------------------------------------------------------
(* Safety *)

\* The plugin believes a debuggee runs only while there is a connection whose
\* handshake is complete, so that a command it sends reaches an adapter that
\* accepts it, and IsRunning implies IsConnected.  It needs that no event of an
\* older connection was handled in this session: Client::Reset leaves such
\* events queued, and a response to initialize among them adds Running.
RunningIsServed ==
  IsRunning(flags) /\ ~staleHandled =>
    /\ IsConnected(flags)
    /\ transport # None /\ reader # "none"
    /\ handshake = "completed"

\* The reader thread reports the loss of its connection once, after all it has
\* read from it, and before anything a later connection sends: what is queued
\* for the main thread is in the order of the connections and ends, for each,
\* with its loss.
LossComesLast ==
  \A i, j \in 1 .. Len(pending) :
    i < j =>
      /\ pending[i].conn <= pending[j].conn
      /\ pending[i].kind = "error" => pending[i].conn < pending[j].conn

\* A client that waits for the end of its handshake waits for something: the
\* adapter has not answered initialize yet, or the answer is queued.
HandshakeAnswerComes ==
  handshake = "inProgress" =>
    \/ "initialize" \in owed
    \/ \E i \in 1 .. Len(pending) :
         /\ pending[i].kind = "data" /\ pending[i].conn = transport
         /\ pending[i].msg.what = "initialize"

\* The handshake keeps the messages of older connections out: once the adapter's
\* answer to initialize was handled, every event still queued is of the current
\* connection.  Until then OnMessage drops all but a response to initialize.
AnsweredIsCurrent ==
  /\ transport # None
  /\ "initialize" \notin owed
  /\ \A i \in 1 .. Len(pending) :
       ~(pending[i].conn = transport /\ pending[i].msg.what = "initialize")
  => \A i \in 1 .. Len(pending) : pending[i].conn = transport

\* OnInitializeResponse sends launch: never before the adapter has answered
\* initialize on this connection (again, unless the answer was an older
\* connection's).
LaunchAfterInitialize ==
  "launch" \in sent /\ ~staleHandled => "initialize" \notin owed

\* A connection is asked to launch the debuggee once: after the adapter has
\* answered launch, it is never sent again on the same connection.
LaunchOnce ==
  [][transport' = transport /\ "launch" \in sent \ owed => "launch" \notin owed']_vars

\* As long as nobody attaches to a process, the plugin keeps track of every
\* adapter it spawns: one it has not killed is the one m_dapPid names, through
\* failed launches, lost connections, nested message boxes and restarts.
NoOrphanAdapter == Targets = {} => unkilled \subseteq {dapPid}

-----------------------------------------------------------------------------
(* Liveness *)

\* OnConnectionError: when the adapter closes the connection of a running
\* session, the plugin stops to believe that the debuggee runs.
LossEndsRun == (IsRunning(flags) /\ transport # None /\ ~up) ~> ~IsRunning(flags)

\* A reader thread that has left its loop is joined, by Reset.
EndedReaderIsJoined == reader = "ended" ~> reader # "ended"

-----------------------------------------------------------------------------
(* What the documents say and the code does not do *)

\* DetachFromProcess: "This tells the debug adapter to detach without killing
\* the process."  A process attached to is killed only while attached to.
DetachedTargetSurvives ==
  [][\A t \in Targets : t \in unkilled \ unkilled' => pidAttached = t]_vars

=============================================================================
