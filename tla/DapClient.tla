------------------------------ MODULE DapClient ------------------------------
(***************************************************************************)
(* dap::Client as the plugin uses it once the handshake is complete: it    *)
(* sends requests, and remembers beside each what its response shall be    *)
(* reported with, because a DAP response repeats the command and the       *)
(* sequence number of its request and nothing else.  For most commands     *)
(* what is remembered is a FIFO queue and the response takes its head; for *)
(* breakpointLocations it is a map from the sequence number.               *)
(*                                                                         *)
(* Whatever a request is about (a thread, a frame, a variablesReference, a *)
(* file, a callback) is an element of Id.  The adapter answers the         *)
(* requests of one command in the order in which it gets them; between     *)
(* commands the order is its own, so that the responses of each command    *)
(* are a queue of their own here, asked, from the request to its handling. *)
(* The messages about the debuggee are in the order of events.             *)
(*                                                                         *)
(* Without a transport SendRequest resets the client, which is reset then: *)
(* see DapSession for this and for the messages of older connections.      *)
(* Requests that nothing is remembered of (threads, pause, disassemble,    *)
(* those of the handshake) only use up sequence numbers and are left out.  *)
(***************************************************************************)
EXTENDS Integers, Sequences

CONSTANTS
  Id,                \* threads, frames, variable references, files, callbacks
  None,              \* wxNOT_FOUND, no label, the thread of a running debuggee
  Commands,          \* the commands with a queue that are used
  UsesVariableInfo,  \* is GetVariableInfo used?
  MaxSeq,            \* bound on the sequence numbers of a connection
  MaxSteps,          \* bound on the unanswered requests to resume
  MaxEvents          \* bound on the queue of events

QueuedCommand ==
  {"stackTrace", "scopes", "variables", "setBreakpoints", "source", "evaluate"}

ASSUME ConstantsAssumption ==
  /\ None \notin Id
  /\ Commands \subseteq QueuedCommand
  /\ UsesVariableInfo \in BOOLEAN
  /\ MaxSeq \in Nat /\ MaxSteps \in Nat /\ MaxEvents \in Nat

VARIABLES
  connected,     \* m_transport is there and the handshake complete
  seq,           \* m_requestSeuqnce
  queue,         \* m_get_frames_queue, m_get_scopes_queue, ... by command
  files,         \* m_requestIdToFilepath
  activeThread,  \* m_active_thread_id
  canInteract,   \* m_can_interact
  asked,         \* by command: requests whose response was not handled
  located,       \* breakpointLocations requests whose response was not handled
  steps,         \* requests to resume that the adapter has not answered
  debuggee,      \* the thread that stopped, None while the debuggee runs
  events,        \* messages about the debuggee on their way to OnMessage
  told           \* the last labelled response (history)

clientVars  == <<connected, seq, queue, files, activeThread, canInteract>>
adapterVars == <<asked, located, steps, debuggee, events>>
vars == <<clientVars, adapterVars, told>>

Subject == Id \cup {None}
Request == [seq : Nat, tag : Subject]
Event   == [what : {"stopped"}, thread : Id] \cup [what : {"continued", "stepped"}, thread : {None}]

TypeOK ==
  /\ connected \in BOOLEAN
  /\ seq \in Nat
  /\ queue \in [Commands -> Seq(Subject)]
  /\ DOMAIN files \subseteq 1 .. seq /\ \A s \in DOMAIN files : files[s] \in Id
  /\ activeThread \in Subject
  /\ canInteract \in BOOLEAN
  /\ asked \in [Commands -> Seq(Request)]
  /\ located \subseteq [seq : Nat, tag : Id]
  /\ steps \in Nat
  /\ debuggee \in Subject
  /\ events \in Seq(Event)

NoFile == [s \in {} |-> None]
Fresh  == [k \in Commands |-> <<>>]

Init ==
  /\ connected = FALSE /\ seq = 0 /\ queue = Fresh /\ files = NoFile
  /\ activeThread = None /\ canInteract = FALSE
  /\ asked = Fresh /\ located = {} /\ steps = 0 /\ debuggee = None /\ events = <<>>
  /\ told = [seq |-> 0]

-----------------------------------------------------------------------------
(* Connecting *)

\* Mutants: the map, or the queues, survive.
Reset_KeepsFiles ==
  /\ seq' = 0 /\ queue' = Fresh /\ files' = files
  /\ activeThread' = None /\ canInteract' = FALSE
  /\ asked' = Fresh /\ located' = {} /\ steps' = 0 /\ debuggee' = None /\ events' = <<>>
Reset_KeepsQueues ==
  /\ seq' = 0 /\ queue' = queue /\ files' = NoFile
  /\ activeThread' = None /\ canInteract' = FALSE
  /\ asked' = Fresh /\ located' = {} /\ steps' = 0 /\ debuggee' = None /\ events' = <<>>

\* Client::Reset.  What is on the way is lost with the transport.
Reset ==
  /\ seq' = 0 /\ queue' = Fresh /\ files' = NoFile
  /\ activeThread' = None /\ canInteract' = FALSE
  /\ asked' = Fresh /\ located' = {} /\ steps' = 0 /\ debuggee' = None /\ events' = <<>>

\* SetTransport, Initialize and the response to it.
Connect ==
  /\ connected' = TRUE
  /\ Reset
  /\ UNCHANGED told

\* OnConnectionError, or DAPDebuggerResetData of the plugin.
Disconnect ==
  /\ connected
  /\ connected' = FALSE
  /\ Reset
  /\ UNCHANGED told

-----------------------------------------------------------------------------
(* Requests *)

\* GetScopes and SetBreakpointsFile call MakeRequest twice and send the request
\* made first.
SeqUsed(k) == IF k \in {"scopes", "setBreakpoints"} THEN 2 ELSE 1

\* GetFrames, GetScopes, GetChildrenVariables, SetBreakpointsFile, LoadSource,
\* EvaluateExpression: the label is queued and the request sent.
Ask(k, tag) ==
  /\ connected /\ seq + SeqUsed(k) <= MaxSeq
  /\ seq' = seq + SeqUsed(k)
  /\ queue' = [queue EXCEPT ![k] = Append(@, tag)]
  /\ asked' = [asked EXCEPT ![k] = Append(@, [seq |-> seq + 1, tag |-> tag])]
  /\ UNCHANGED <<connected, files, activeThread, canInteract, located, steps, debuggee, events, told>>

\* GetFrames asks for the active thread unless it is given one; the others ask
\* for what they are given.
AskFor(k, subject) ==
  \/ subject # None /\ Ask(k, subject)
  \/ subject = None /\ k = "stackTrace" /\ Ask(k, activeThread)

\* GetVariableInfo: a variables request that queues nothing.
GetVariableInfo(tag) ==
  /\ UsesVariableInfo /\ "variables" \in Commands
  /\ connected /\ seq + 1 <= MaxSeq
  /\ seq' = seq + 1
  /\ asked' = [asked EXCEPT !["variables"] = Append(@, [seq |-> seq + 1, tag |-> tag])]
  /\ UNCHANGED <<connected, queue, files, activeThread, canInteract, located, steps, debuggee, events, told>>

\* BreakpointLocations: insert() leaves an entry that is there as it is.
BreakpointLocations(file) ==
  /\ connected /\ seq + 1 <= MaxSeq
  /\ seq' = seq + 1
  /\ files' = [s \in DOMAIN files \cup {seq + 1} |-> IF s \in DOMAIN files THEN files[s] ELSE file]
  /\ located' = located \cup {[seq |-> seq + 1, tag |-> file]}
  /\ UNCHANGED <<connected, queue, activeThread, canInteract, asked, steps, debuggee, events, told>>

\* Next, StepIn, StepOut, Continue.
Step ==
  /\ connected /\ seq + 1 <= MaxSeq /\ steps < MaxSteps
  /\ seq' = seq + 1
  /\ steps' = steps + 1
  /\ UNCHANGED <<connected, queue, files, activeThread, canInteract, asked, located, debuggee, events, told>>

-----------------------------------------------------------------------------
(* The adapter and the debuggee *)

\* A request to resume is accepted or refused: the client does not look which.
StepAnswered ==
  /\ steps > 0 /\ Len(events) < MaxEvents
  /\ steps' = steps - 1
  /\ debuggee' \in {debuggee, None}
  /\ events' = Append(events, [what |-> "stepped", thread |-> None])
  /\ UNCHANGED <<clientVars, asked, located, told>>

DebuggeeStops(t) ==
  /\ connected /\ debuggee = None /\ Len(events) < MaxEvents
  /\ debuggee' = t
  /\ events' = Append(events, [what |-> "stopped", thread |-> t])
  /\ UNCHANGED <<clientVars, asked, located, steps, told>>

DebuggeeContinues ==
  /\ connected /\ debuggee # None /\ Len(events) < MaxEvents
  /\ debuggee' = None
  /\ events' = Append(events, [what |-> "continued", thread |-> None])
  /\ UNCHANGED <<clientVars, asked, located, steps, told>>

-----------------------------------------------------------------------------
(* OnMessage *)

\* Mutant: the queue is read and not popped.
OnResponse_Peeks(k) ==
  LET own   == Head(asked[k])
      label == IF queue[k] = <<>> THEN None ELSE Head(queue[k])
  IN
  /\ asked[k] # <<>>
  /\ asked' = [asked EXCEPT ![k] = Tail(@)]
  /\ told' = [seq |-> own.seq, kind |-> k, tag |-> own.tag, label |-> label]
  /\ UNCHANGED <<clientVars, located, steps, debuggee, events>>

\* The response to the oldest request of a command is labelled with the head of
\* the command's queue, whatever its success, or with nothing.
OnResponse(k) ==
  LET own   == Head(asked[k])
      label == IF queue[k] = <<>> THEN None ELSE Head(queue[k])
  IN
  /\ asked[k] # <<>>
  /\ asked' = [asked EXCEPT ![k] = Tail(@)]
  /\ queue' = [queue EXCEPT ![k] = IF @ = <<>> THEN <<>> ELSE Tail(@)]
  /\ told' = [seq |-> own.seq, kind |-> k, tag |-> own.tag, label |-> label]
  /\ UNCHANGED <<connected, seq, files, activeThread, canInteract, located, steps, debuggee, events>>

\* The response to a breakpointLocations request, in any order.
OnBreakpointLocations(own) ==
  /\ located' = located \ {own}
  /\ files' = [s \in DOMAIN files \ {own.seq} |-> files[s]]
  /\ told' = [seq |-> own.seq, kind |-> "breakpointLocations", tag |-> own.tag,
              label |-> IF own.seq \in DOMAIN files THEN files[own.seq] ELSE None]
  /\ UNCHANGED <<connected, seq, queue, activeThread, canInteract, asked, steps, debuggee, events>>

\* Mutant: the response to a request to resume is ignored.
OnEvent_IgnoresSteps ==
  LET e == Head(events) IN
  /\ events # <<>>
  /\ events' = Tail(events)
  /\ canInteract' = IF e.what = "stepped" THEN canInteract ELSE e.what = "stopped"
  /\ activeThread' = IF e.what = "stopped" THEN e.thread ELSE activeThread
  /\ UNCHANGED <<connected, seq, queue, files, asked, located, steps, debuggee, told>>

\* The events stopped and continued, and the response to a request to resume.
OnEvent ==
  LET e == Head(events) IN
  /\ events # <<>>
  /\ events' = Tail(events)
  /\ canInteract' = (e.what = "stopped")
  /\ activeThread' = IF e.what = "stopped" THEN e.thread ELSE activeThread
  /\ UNCHANGED <<connected, seq, queue, files, asked, located, steps, debuggee, told>>

Next ==
  \/ Connect
  \/ Disconnect
  \/ \E k \in Commands, s \in Subject : AskFor(k, s)
  \/ \E v \in Id : GetVariableInfo(v)
  \/ \E f \in Id : BreakpointLocations(f)
  \/ Step
  \/ StepAnswered
  \/ \E t \in Id : DebuggeeStops(t)
  \/ DebuggeeContinues
  \/ \E k \in Commands : OnResponse(k)
  \/ \E own \in located : OnBreakpointLocations(own)
  \/ OnEvent

Spec == Init /\ [][Next]_vars

-----------------------------------------------------------------------------
(* Safety *)

\* The queues of the client are the requests on their way, label by label, so
\* that the response OnMessage handles next takes its own label: also after
\* requests without a connection, failed responses and resets.  GetVariableInfo
\* breaks it for the command it shares.
QueuesMirrorRequests ==
  \A k \in Commands :
    k # "variables" \/ ~UsesVariableInfo =>
      /\ Len(queue[k]) = Len(asked[k])
      /\ \A i \in 1 .. Len(asked[k]) : queue[k][i] = asked[k][i].tag

\* Once the client has handled all that was sent to it, CanInteract() is true
\* only while the debuggee is stopped, and the active thread, the one that
\* requests without a thread go to, is the one that stopped.
InteractIsCurrent ==
  events = <<>> /\ canInteract => connected /\ debuggee # None /\ activeThread = debuggee

-----------------------------------------------------------------------------
(* The abstract specification *)

\* A request and its command, as a question.
QuestionOf(k, r) == [seq |-> r.seq, kind |-> k, tag |-> r.tag]

\* The requests a label is remembered for.
OpenQuestions ==
  (UNION {{QuestionOf(k, asked[k][i]) : i \in 1 .. Len(asked[k])} : k \in Commands})
    \cup {QuestionOf("breakpointLocations", r) : r \in located}

\* The command whose requests GetVariableInfo makes too, without a label.
Shared == {k \in Commands : k = "variables" /\ UsesVariableInfo}

Labels == [k \in Shared |-> queue[k]]

RR == INSTANCE RequestReply WITH
  Number <- 1 .. MaxSeq,
  Kind <- Commands \cup {"breakpointLocations"},
  Shared <- Shared,
  Subject <- Subject,
  NoLabel <- None,
  open <- OpenQuestions,
  labels <- Labels,
  report <- told

\* Every response is reported once, with the subject of its own request
\* (Client.cpp:311-412); those to variables requests, which GetVariableInfo makes
\* without a label (Client.cpp:826-837, called at DAP_Watches.cpp:471), with the
\* oldest label that no response has been given.
AnswersMatch == RR!Spec

\* "extension to the protocol: holds the parent of these variables" (refId,
\* dap.hpp:1550): the variables that a response brings are not reported as those of
\* anything else than what they were asked of.
ParentOfVariables ==
  told.seq # 0 => (told.kind = "variables" => told.label \in {None, told.tag})

=============================================================================
