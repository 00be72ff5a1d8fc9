# debugger_DAP: a verification project

debugger_DAP is a Code::Blocks plugin that debugs programs through a debug
adapter (lldb-dap, gdb) speaking the Debug Adapter Protocol. This directory
holds TLA+ modules translated from its C++ code, the TLC configurations that
check them on small instances, and proofs that TLAPS checks for every value of
the constants. Paths below are relative to `src/src/`.

## 1. The system

| Component | Files | State | Operations |
|---|---|---|---|
| State mask | `DebugAdapterClient/DAP_Debugger_State.*` | one static mask: NotConnected, Connected, Stopped, Running | AddState, RemoveState, IsRunning, IsStopped, IsConnected, IsBusy |
| Session control | `DebugAdapterClient/plugin.*` | m_pid_attached, m_dapPid, the build in progress, the message boxes that are open | Debug, CompilerFinished, AttachToProcess, DetachFromProcess, Stop, unload, LaunchDebugger, DAPDebuggerResetData and a handler per message |
| Client: connection | `DebugAdapterProtocol/Client.*` | m_transport, m_readerThread, m_terminated, m_handshake_state, the queue of CallAfter events | SetTransport, Initialize, Reset, reader thread, OnDataRead, OnConnectionError, SendRequest |
| Client: requests | `DebugAdapterProtocol/Client.*` | m_requestSeuqnce, six FIFO queues of labels, m_requestIdToFilepath, m_active_thread_id, m_can_interact | one function per DAP request, OnMessage |
| Framing | `DebugAdapterProtocol/JsonRPC.*` | m_buffer | AppendBuffer, ReadHeaders, DoProcessBuffer, ProcessBuffer, Send |
| Transport | `DebugAdapterProtocol/Socket*.cpp` | the socket | Connect, Read, Send |
| Breakpoints | `DebugAdapterClient/DAP_Breakpoints.*` | the list of breakpoints, the map from file to breakpoints (shared objects) | add, update, delete, enable, shift lines, answers of the adapter |
| Watches, registers | `DebugAdapterClient/DAP_Watches.*` | watch trees, m_stackdapvariables, m_RequestedGPRegs, m_pProject | add, edit, delete, expand, evaluate; the answers to scopes and variables |
| Call stack, threads | `DebugAdapterClient/DAP_CallStack.*` | m_backtrace, the frame in use and the one the user selected | the answer to stackTrace, SwitchToFrame, SwitchToThread |
| Messages | `DebugAdapterProtocol/dap.*` | none | To and From of every class, Initialize (the registry), FromJSON |
| State kept with the project | `SaveStateToFile`, `LoadStateFromFile` in `plugin.cpp`, `DAP_Watches.cpp`, `DAP_Breakpoints.cpp`; `definitions.cpp` | the .bps file beside a project | load, save, close |
| JSON | `DebugAdapterProtocol/JSON.*`, `cJSON.*` | none | parse, print, getters |
| The rest | configuration, dialogs, logger, terminal panel, process helpers, server half of the protocol library, tinyxml2 | — | user interface, system calls, vendored or unused code |

How they interact: the plugin owns a `dap::Client` and is the handler of the wx
events it emits. The client owns a transport, a reader thread and a
`dap::JsonRPC`. The reader thread reads the socket and queues
`OnDataRead(string)` or, once, `OnConnectionError` for the main thread with
CallAfter; the main thread appends the string to the buffer, cuts messages out
of it, and `Client::OnMessage` matches each with what was remembered of its
request and calls the plugin. The plugin changes the static mask, sends further
requests through the client and opens message boxes. A message box runs a nested
event loop: while a handler waits for the user, queued events are handled, and a
build that ends then starts a new session.

What is hard about it:

- two threads, and a queue between them that `Client::Reset` does not empty, so
  that events of a dead connection are handled in the next session;
- handlers that continue after a nested event loop, with state read before it;
- an adapter that may answer late, refuse, crash, or close the connection at any
  moment, also while the main thread sleeps in `Stop`;
- responses that say nothing about their request but its command, and are
  matched to it by position;
- bytes on the wire and characters in the buffer;
- m_dapPid, m_pid_attached and the mask, which outlive the session that set them;
- what is displayed comes by a chain of requests (stackTrace, scopes, variables,
  evaluate), each sent by the handler of the answer before it, while the user
  selects, expands, deletes and resumes;
- some hundred message classes whose To and From are written apart, field by field, by hand;
- a state file that is written five times when a project is closed, each time
  whole, and read again at every activation and every session, over what is in
  memory.

What makes each part correct is stated in section 3; what can go wrong, line by
line, is the list "hazards" of `PROJECT.json`.

## 2. The modules

| Module | Models | Role |
|---|---|---|
| `DebuggerState` | the mask and its coupled updates | operators used by `DapSession` |
| `DapSession` | plugin, client and reader thread, from Debug/Attach to the clean-up | state machine |
| `DapSession_proofs` | | theorems about it: types, the mask and the losses; the handshake and the adapters |
| `MessageChannel` | what the framing layer promises | abstract specification |
| `JsonRpc` | reader thread, AppendBuffer, ProcessBuffer | state machine, implements `MessageChannel` |
| `JsonRpc_proofs` | | theorems about it: types, the order, what is read is handled, the channel |
| `MCJsonRpc` | scripts of messages for TLC | model-checking module |
| `RequestReply` | what the client promises to those who ask | abstract specification |
| `DapClient` | requests, labels, stopped/continued | state machine, implements `RequestReply` |
| `DapClient_proofs` | | theorems about it |
| `Breakpoints` | the user's breakpoints, their map by file, the setBreakpoints requests | state machine |
| `Breakpoints_proofs` | | theorems about it: the list; the map and the requests |
| `MCDapClient` | the symmetry for TLC | model-checking module |
| `MCBreakpoints` | lines, shifts and the symmetry for TLC | model-checking module |
| `Inspect` | the call stack, the frame in use, watches, their children, registers and memory at a stop | state machine |
| `Inspect_proofs` | | theorems about it: the frame in use, types, the expansion of a watch, the registers |
| `InspectCurrent_proofs` | | theorem about it: the values are those of this stop |
| `Messages` | every message class: what it writes, what it reads, which class a message is taken for | tables and a three-step machine |
| `Messages_proofs` | | theorems about it: types, what is read back and heard, what is left out, the class |
| `Persist` | the .bps files, the watches and breakpoints of several projects, crashes | state machine |
| `Persist_proofs` | | theorems about it: types, owners, what survives, no twins |
| `MCPersist` | edits of a watch and the symmetry for TLC | model-checking module |

### DapSession

`flags` is the mask, `pidAttached` and `dapPid` are m_pid_attached and m_dapPid.
`transport` is m_transport: the number of the call of LaunchDebugger that made
it, or None. `reader` is m_readerThread, with m_terminated ("ended"). `pending`
is the queue of CallAfter; each event carries the number of the connection it
was read from, which the code does not know. `boxes` is the stack of message
boxes with what each handler does when its box is closed. `up`, `sent`, `owed`
and `emitted` are the adapter. `unkilled` and `staleHandled` are history.

An action is a whole handler of the main thread up to its end or to the box it
opens; CloseBox is the rest. ReaderReads and ReaderLoses are the two ends of the
reader thread's loop. Launching is one action, because `LaunchDebugger` blocks
the main thread from the reset to `Initialize`.

The adapter (external) answers a request it was sent, initialize first; it emits
initialized, exited and terminated at most once; one that refuses initialize
says no more. It may close the connection at any moment.

### JsonRpc

A header is two characters, its name and its end; a body is a sequence of bytes
in which "lead" "cont" is one character. The reader takes any prefix of the wire
up to MaxChunk bytes. ProcessBuffer is one action per turn of its loop, since
each turn calls handlers that may reset the client or run a nested event loop;
`loops` counts the loops that are on the stack, of which the innermost runs.

### DapClient

`queue[k]` is the label queue of command k and `files` is
m_requestIdToFilepath. `asked[k]` is what is on its way in either direction: the
requests of command k whose response OnMessage has not handled. The adapter
answers the requests of one command in their order. `told` records the last
labelled response. GetVariableInfo sends a variables request and queues no label,
so that of the command variables nothing tells the responses apart: for such a
command (`Shared`) `RequestReply` promises less, that its labels are given once and in the order
of the requests that have one, and its other commands keep the whole promise. The run state is apart: `steps` requests to resume,
`debuggee` the thread that stopped, `events` the messages about it.

`DapSession` says when a connection exists and whose messages are handled;
`DapClient` starts where its handshake is complete. They share no action; a
composition is in the plan.

### Breakpoints

`brk.list` is m_breakpoints, `brk.info` its objects, which `brk.byFile`,
m_map_filebreakpoints, shares; {} stands for a file the map lacks.
`brk.requests[f]` are the setBreakpoints requests for f whose answers have not
been handled, wherever they are on their way. `told`, `behind` and `mixed` are
history: what the last request for a file asked for, the files whose latest
change was not sent, and the files where the map lost another object than the
one deleted. `todo` is what is left of the loop of the handler in progress; it
is empty between handlers. `due` is what the adapter has still to say before the
run begins, `built` says that the map has been filled since LaunchDebugger
cleared it.

A user's action, an edit of the text included, is one action; the two handlers
with loops over breakpoints, OnBreakpointDataSet and ShiftAllFileBreakpoints,
take one action per turn, in any order of the turns. An answer may verify any
part of what it was asked, some lines further down, with or without a path, and
with any distinct ids: this includes an adapter that counts from 1 again after a
restart. The answers to the requests for one file come in their order; those of
different files may be handled in any order, more than the code allows. When a
connection ends, the answers already queued for the main thread may still be
handled and the others do not come (Disconnected).

Left out: data, function and exception breakpoints and the dialogs (the .bps
file is in `Persist`); there is one project, and UseNativePaths, so that a file has one name.
UpdateDAPSetBreakpointsByFileName dereferences end() for a file that is not in a
map with others (ReadsAtEnd). What it reads there is undefined: Update returns the set of
outcomes, a request for any lines whatever, and Restart is the program that ends and is
started again, which may happen at any moment. Such a file counts as `behind` until
its next request.

### Inspect

`asked` and `inbox` are the requests and answers on their way, in order: the
adapter answers in the order it is asked and the client handles in the order of
arrival, which is what one connection gives. `stop` numbers the stops; a frame
carries the stop it belongs to, and a variable the frame it was read in, so that
a stale value can be told from a current one. `depth` and `source` are the stack
of the debuggee: its length, and the first level whose source file exists, for
which alone the plugin asks scopes. `backtrace` is m_backtrace, `frame` and
`user` are the two fields of DAPCurrentFrame, counted from 1. `stack` is
m_stackdapvariables, the first variable of each name since the last scopes.
`watches` are trees of nodes with the number of the last request that may bring
them children: the code matches an answer to a node by that number alone.
`registers` and `memory` are what those windows show.

Each handler is one action that sends what the code sends, in that order.
Debugger_DAP and the windows it owns are not separate processes: the handlers of
one answer run one after the other (OnStackTrace is the call stack's and then the
plugin's). `disturbed` is history: the user resumed, or acted on the call stack,
before everything was answered. After that the code gives no guarantee, and
`UseMissingFrame` records that it indexes m_backtrace past its end.

### Messages

A class of `dap.hpp` is a table of rows, one per C++ field: where To() writes it,
where From() reads it, the JSON type, what the getter accepts and what is left
when the key is absent. The tables are the translation of `dap.cpp`, inheritance
included (a class has the rows of its base). The machine builds one message with
at most MaxChanges fields set or keys left out, has the library or an adapter write
it, and lets FromJSON read it. The defaults and the quirks of the getters are part of
the rows, and the exceptions in the properties are the complete list of what does
not come back; each is an asymmetry of the code that a reader can look up. The
properties speak of the fields that were kept, whatever else of the message is set or
left out, so that they are also about messages from an adapter that omits
optional keys. The rows have three keys each: the one of the protocol (`key`), and those
that To() and From() use. An adapter writes at the first, the library at the second, so that a key
misread by From() shows. What a new object holds is not taken from
the rows but stated apart (`Declared`), after `dap.hpp`: a field without an initialiser holds
any number (Indeterminate), a wxOptional is unset. The fields that `dap.cpp` neither writes nor reads
have rows too, and are listed: `Ignored` those of the protocol, `ClientOnly` those that
the client fills in itself. An adapter may give both an event and a command (`Stray`). The section "Facts about the tables" states row by row what they rest
on; TLC evaluates it for every value of every row.

### Persist

`at[p]` is the address of the cbProject of an open project, since m_pProject of a
watch is compared as a pointer and an address may be used again. `file[p]` is
what is on the disk. A save is the three writes of SaveStateToFile; closing a
project makes five (breakpoints, watches, compiler, breakpoints, watches) and
clears all breakpoints and that project's watches. Every write replaces the
document, so that after a closing the file has the watches alone. Crash loses the memory,
CrashWhileClosing leaves any of the five documents. A load happens at every
activation when the setting is on, and at every start of a session whatever the
setting; it adds watches to those in memory. Texts are a word or a number, and
a word read as a number leaves what the variable held before (Junk). The dialog
takes any text for the symbol, an empty one as well: such a watch is saved, but a
load passes it over. The loops over the list are recursive functions (Picked,
LoadWatches), which the provers can follow.
`saved`, `interrupted` and `strays` are history: the watches when last written, the
projects at whose closing the program died, the addresses that m_pProject keeps
after their project was closed.

## 3. What is checked

Every passing run is exhaustive within its bounds.

| Run | Properties | What it shows |
|---|---|---|
| DapSession | TypeOK, RunningIsServed, LossComesLast, HandshakeAnswerComes, AnsweredIsCurrent, LaunchAfterInitialize, LaunchOnce | the mask, transport, reader thread and handshake agree through refusals, crashes, stale events and nested boxes |
| DapSessionLive | NoOrphanAdapter, LossEndsRun, EndedReaderIsJoined | without attaching no spawned adapter is forgotten; a lost connection ends the run; the reader thread is joined |
| JsonRpcMixed | TypeOK, DeliveredInOrder | any headers, bodies and chunks, across a reset: nothing twice or out of order |
| JsonRpcNarrow | ReadIsDelivered, ImplementsChannel | a conforming adapter with one-byte characters: every message is handled (refinement of `MessageChannel`, with liveness) |
| DapClient | TypeOK, QueuesMirrorRequests, InteractIsCurrent, AnswersMatch | every response is reported once with the subject of its own request, those to variables requests, which GetVariableInfo makes without a label, with each label once and in order (refinement of `RequestReply`); CanInteract() is never true too long |
| Breakpoints | TypeOK, NoTwins, UniqueIds, MapMirrorsList, AdapterFollowsList | through edits, late and stale answers, hits and new sessions: a place and an id name one breakpoint, the map has the objects of the list, and the adapter was asked for what the list says; also after a read at end() and a restart |
| Inspect | TypeOK, FrameInRange, RegistersAreRegisters, ValuesAreCurrent, ExpansionArrives, StopIsShown | the frame in use is one of the call stack; locals are not taken for registers; when all is answered the watches and the memory are of this stop, and they get there; an expansion brings exactly its children, whatever is answered in between, or, once the registers were asked for, all of its members go to the registers window and none below the watch |
| Messages | TypeOK, ReadBack, AdapterIsHeard, OmittedIsDefault, NeverMistaken | for every class: what is written is read back, what an adapter sends at the keys of the protocol is what the plugin gets, also beside missing keys, which leave the values that `dap.hpp` declares (up to the listed exceptions); no message is taken for one of another kind, also when it has two names |
| Persist | TypeOK, NoneLeftBehind, WatchesSurvive, LoadAddsNoTwin | through closings, crashes at a closing, sessions and edits: the watches come back (all, or after a crash all or none), loading again adds no duplicate, closing a project leaves none of its watches |

Three runs expect a violation: DapSessionDetach, JsonRpcWide and DapClientParent; see
below.

Bounds, and why they are enough:

- `DapSession`: MaxSessions = 2 (3 in the live run) so that an event, a box or a
  pid of one session meets the next; MaxPending = 3 so that a response, an event
  and a loss queue together; MaxBoxes = 2 so that a box opens inside another's
  event loop; one target, since m_pid_attached remembers one. Unloading the
  plugin stops the system, hence CHECK_DEADLOCK FALSE.
- `JsonRpc`: bodies of up to three bytes and chunks of up to five, so that chunks
  end inside headers, bodies and characters and span two messages; one reset.
  The adapter's script ends, hence CHECK_DEADLOCK FALSE.
- `DapClient`: two subjects, so that labels can be exchanged, and interchangeable, hence
  SYMMETRY, which is sound for safety; three queued commands and the map, one of the commands
  taking two sequence numbers and one shared with GetVariableInfo; MaxSeq = 3 allows three
  requests in flight; a request to resume in flight and two events queued, so that a stop and
  the response to a step meet.
- `Breakpoints`: two files, since an answer without a path is matched by line in
  any file; two lines and shifts by one either way, so that a shift loses a
  breakpoint and moves another onto its line; two objects, so that one can stand
  for the other in the map; two ids, so that an id of an earlier session is met
  again; two unanswered requests when something new begins (MaxRequests), an
  answer handled meanwhile adding more. Drift 0 or 1. Files, objects and ids are
  interchangeable, hence SYMMETRY, which is sound for invariants.
- `Inspect`: one thread and one watch; the variable it watches has structured
  members two levels deep, so that a child can be expanded below an expanded
  watch. Two stops, so that answers of the first meet the second; two
  acts of the user, so that one overtakes the other; stacks of one or two frames,
  of which the first with a source file may be the second. While developing, the
  same properties passed with two threads (1.9 million states), with two
  sessions (1.8 million) and, the safety properties, with three acts (3 million).
  The user stops when the acts are used up, hence CHECK_DEADLOCK FALSE.
- `Messages`: two changes, so that a field that depends on another one (a list and its
  length, a key written only when another is set) is met with it; the theorems have no
  such bound. One message is
  one behaviour, hence CHECK_DEADLOCK FALSE.
- `Persist`: two projects, so that the watches of one stand beside those of the other;
  two addresses, so that one is used again by another project; one symbol with
  two types ("int", or none yet), which is what makes two watches of one
  symbol; two acts, so that a watch is added and edited: made an array in another
  format, or robbed of its symbol. The program may die any number of
  times, but at most one project's last closing was cut short (MaxInterrupted). A program with no project open and no
  acts left need not go on, hence CHECK_DEADLOCK FALSE. Projects and addresses
  are interchangeable.

Two parts of the properties of `Breakpoints` are exceptions that the code makes.
`behind`: a change made without a run, the shift of breakpoints (where the code
logs "Cannot move debugger Breakpoints"), the breakpoints of an adapter that
attaches, and an id found in another file than the one given send no request for
the file. `mixed`: the map erases by line, so that after a shift it may lose the
object that stays. The first ends with a later request for the file, the second
when the map is cleared.

Fairness, in FairSpec of `DapSession`: the reader thread is scheduled
(ReaderLoses), the event loop handles what is queued (HandleEvent), `Stop` ends
after its 100 ms (StopFinishes), and the user closes a modal box (CloseBox), which
is an assumption about the user that every modal dialog makes. The user need do
nothing else and the adapter need not answer. In `JsonRpc`: the reader thread and
the main thread run. In `Inspect`: the main thread handles what arrives, and the
adapter answers what it is asked, in order. That is the one assumption about an
adapter; without it nothing is ever displayed, and the plugin has no timeout
that it could be replaced by. It is not assumed that the debuggee stops.

### Where the code disagrees with what is said about it

| Run | Property | The disagreement |
|---|---|---|
| DapSessionDetach | DetachedTargetSurvives | "detach without killing the process": m_dapPid is the pid of the target once an attach has succeeded, and the clean-up kills m_dapPid |
| JsonRpcWide | CompleteIsDelivered | complete messages with a two-byte character stay in the buffer, bytes being compared with characters |
| DapClientParent | ParentOfVariables | "holds the parent of these variables" (`dap.hpp:1550`): the response to GetVariableInfo takes the label of another request (`Client.cpp:835`) |

Met while modelling and without a run of their own: the loss of an old connection
stays queued across Reset and ends the next session (`Client.cpp:554`); of a
header section without Content-Length it is the section that is kept
(`JsonRPC.cpp:36`); GetVariableInfo is given the number of a request where a
reference is expected (`DAP_Watches.cpp:471`); after an attached session that
ended by itself, Debug connects and configures but never sends launch
(`plugin.cpp:1809`); a refused step clears m_can_interact while the debuggee
stays stopped (`Client.cpp:379`); a chunk that ends inside a character is lost
whole (`Socket.cpp:51`); the answer to an earlier request enables again a
breakpoint disabled meanwhile (`DAP_Breakpoints.cpp:538`); a shift that loses a
breakpoint may erase from the map the one that took its line (`:794`);
RunToCursor on a breakpoint of the user makes it temporary, and the next hit
deletes it (`:173`); deleting the last breakpoint of one of several files
dereferences end() (`:388`); an adapter that attaches is sent no breakpoints
until one is changed (`:1135`); when the user resumes before a stop was fully
answered, the two stack traces overlap, local variables go to the registers
window (`DAP_Watches.cpp:1078`), and the frame in use may be past the end of an
empty stack (`DAP_CallStack.cpp:120`); with the registers window open, the members of
a watch that is expanded are put into that window and not below the watch (`:1078`,
ExpansionArrives); a JSON false reads as the default of its getter (`JSON.cpp:281`), so
that four booleans whose default is true are never false (`FalseNotRead` of `Messages`); a frame
whose id is 0 is not sent with an evaluation (`dap.cpp:1951`); the breakpoints are
saved but the call that would load them is commented out (`plugin.cpp`,
LoadStateFromFile), and the last document written at a closing does not have
them; is_array of a watch is saved as a word and read as a number, so that what
is restored is an uninitialised variable (`definitions.cpp:115`).

## 4. What is proved

For every set of targets, commands, subjects, files and threads, and every bound.
Every invariant that a passing run checks is proved.
The assumptions are the named ASSUME of each module: None is not a value of
the kind it stands for, targets are not numbers, lines and bounds are natural
numbers, what a theorem's own ASSUME says, and, in `Messages`, facts about the
finite tables of `dap.cpp`, which TLC evaluates in full.

- `DapSession_proofs`: Spec => []TypeOK, with TransportRead (a transport exactly
  when there is a reader thread), which the type of a queued event needs: its
  connection is that of the transport. Spec => []RunningIsServed, from
  ServedInv: a complete handshake has a transport, and Running a complete
  handshake, unless an event of another connection was handled. RunningIsServed
  is not inductive alone, since a launch response could otherwise arrive at a
  client whose handshake is complete and whose transport is gone.
  Spec => []LossComesLast, from LossInv: the transport is the newest connection,
  no queued event is of a later one, and a thread that still runs has reported
  no loss of it. The proofs go by ConnectionSteps and QueueSteps, which say what
  each action does to the connection and to the queue.
  Spec => []HandshakeAnswerComes,
  []AnsweredIsCurrent and []LaunchAfterInitialize, from HandshakeInv: these three
  and that what was read from the connection is answered (ReadIsAnswered) and that
  launch is sent by a completed handshake (LaunchCompletes). The three are not inductive one by one,
  since each response needs that the earlier one was handled. With LossInv an
  event of the queue is of the current connection or an older one.
  Spec => LaunchOnce, an action property, from the same invariant.
  Spec => []NoOrphanAdapter, from OrphanInv: when there is nothing to attach to,
  no attach is on its way anywhere, in a box, a request or a queued event, so that nothing
  overwrites m_dapPid.
- `DapClient_proofs`: Spec => []TypeOK. Spec => []QueuesMirrorRequests, from
  RequestsInv, which adds that requests are numbered upwards and that the map
  holds the file of every breakpointLocations request. Spec =>
  []InteractIsCurrent, from EventsInv: if the last event on its way is a stopped
  one, its thread is the one that is stopped. AnswersMatchTheorem: every step
  of the client is a step of `RequestReply` or a stutter, GetVariableInfo in use or not;
  RequestsInv gives the label, and the numbering that the removed
  question is the only one with its number.

- `Breakpoints_proofs`: Spec => []TypeOK, []UniqueIds and []NoTwins, from IInv.
  NoTwins speaks of the time between handlers; LostTwins says for the turns of an
  edit that of two breakpoints at a place one is still to be deleted, which needs
  that what is to be deleted is in the list (LostAreSet) and that a handler with
  turns of the other kind has none (OneLoop). Each operator on the breakpoints
  has its lemma (UpdateOrAddFacts, DeletedFacts, ...), each action cites it.
  Spec => []MapMirrorsList and []AdapterFollowsList, from
  MInv with IInv. MInv splits the second at the map: what was asked for is what
  the map has, always, for every file that is not behind (ToldIsMap), and the map
  has only breakpoints of the list (MapWithin), also before it is filled. That
  filling it leaves none out is where NoTwins is needed.

- `JsonRpc_proofs`: Spec => []TypeOK and []DeliveredInOrder, for any script, with any
  headers, characters, chunks and resets, from OrderInv: what is in the buffer, queued and
  on the wire is in the order in which it was written (InOrder), and of a message that
  was delivered what is still on its way is past its first character (Passed). Under Conforming (every body is preceded by its length and every
  character is one byte) and MaxResets = 0, the two conditions under which the property is
  claimed at all (JsonRpcWide shows what happens without the first, and a reset
  discards what was read): Spec => []ReadIsDelivered, and ChannelTheorem, by which
  every step is a step of `MessageChannel` or a stutter. Both come from FlowInv:
  the bytes of the wire are those of the script from the start to where the adapter is
  (ChunksFollow), the buffer is the next segment (BufferFollows), what was
  delivered is a prefix of the script (FirstDelivered), and between loops no
  whole message is in the buffer (NoneWhole). That CharsOf, a recursive function,
  exists and turns each byte into a character is proved with Least, the least
  counterexample among the natural numbers, which stands in for induction.
- `Inspect_proofs`: Spec => []FrameInRange, from RangeInv. FrameInRange speaks of two
  numbers and a list; that it holds rests on what is on its way. RangeInv says that
  at most one request or message is that moves the debuggee, the call stack or the
  frame in use (OneMoves), that a stack that was asked for, and one that was
  answered, has the frame the user selected (AskedFits, AnsweredFits), and that
  what is displayed is the stack of a thread (DisplayedFits). Drifts covers the
  other steps in one lemma. Spec => []TypeOK, from ShownInv, the types of what is on its
  way. Spec => ExpansionArrives, an action property, from KidsInv: numbers on
  their way increase (so a number finds the one node it was sent for), and a
  watch whose children are on their way has none yet. The property says
  both what comes below the watch and, while m_RequestedGPRegs is set, what goes to
  the registers window instead. Spec =>
  []RegistersAreRegisters, from CalmChain: until the user disturbs, the requests on
  their way are in the order scopes, locals, registers (Ordered), nothing
  but watches and memory is while the frame is being moved (Plain), and once the
  registers are awaited no locals are (NoLocals). A registers answer is told from
  one for locals by a flag alone, so that the order is all there is.
- `InspectCurrent_proofs`: Spec => []ValuesAreCurrent, from CurrentInv, which holds
  until the user disturbs. The call stack shown is of this stop unless its answer
  is on its way (StackFresh, AnswerFresh), the frame in use is the one chosen
  in it (FrameChosen); what was asked in a frame of an earlier stop lies, in the order of
  arrival, before the call stack of this one, so that it is overwritten (NoneStale); and
  from the stop on there is always a request on its way whose answer leads to
  the values, or they are there (Follows: the stack, then scopes, then locals, then
  the answer for each watch and the memory). Without NoneStale a late answer could
  replace a current value; without Follows nothing need bring it at all.
  NoneAssumption (None is neither a frame nor a name) is used here.
- `Persist_proofs`: Spec => []TypeOK, []NoneLeftBehind, WatchesSurvive and
  LoadAddsNoTwin, the last two action properties, for any number of projects and
  addresses and lists of any length, from IInv. FilesInv is the part that matters:
  the file of a project is the document that its last closing was to leave, and
  holds exactly the nodes of the watches in `saved`, or has never been written; only a
  closing at which the program died may have left another (FileIs). WatchesSurvive is not a
  fact about states, and without FilesInv a project could be opened with any file.
  OwnersInv has with NoneLeftBehind that m_pProject itself, which the next watch
  gets, is open or one of `strays`. MemoryInv has the types and that no two
  open projects lie at one address, without which closing one would take the
  watches of the other. The rest are lemmas about the operators: a watch comes back
  from its node but for is_array (WatchComesBack); AddWatch on a list makes at
  most a first watch of its kind (AddLoadedTwins) and removes none of another
  kind (AddLoadedKeeps); and so does the loop over the file (LoadRestores, LoadTwins),
  by Least as above. PersistAssumption says that an object is not Null, that the
  bounds are natural numbers, and what the dialog can return: six formats (the radio
  box of `src/resources/edit_watches_DAP_dlg.xrc`) and integers. FormatComesBack needs
  it: a format without a name in the file would come back as another.

- `Messages_proofs`: Spec => []TypeOK, []ReadBack, []AdapterIsHeard,
  []OmittedIsDefault and []NeverMistaken, for any number of fields set and of keys left
  out. The argument has two halves. The first is about the rows alone, a
  finite fact that TLC evaluates at the start of the run: a value that is written and
  read by itself comes back, or is one of the exceptions, and nothing else is
  written at its key or at those of the lists it is in (RowsAreRead); no row uses a
  key of the header (HeaderIsApart); kind and name tell the classes apart
  (ClassesAreTold); a missing key leaves what is declared, or the field is listed
  (MissingIsDeclared); what has no initialiser is an int (IntsAreIndeterminate). The second is
  proved: WireInv says that the wire is what was written of the object but for what was left
  out, and ReadAlone that a field is then read as if it were alone in the
  message. Its hard case is an element of a list, which is there only if the length
  of every list around it, itself a row, was written and kept. Dispatch
  follows the header through FromJSON, with any of its keys missing. The run cannot show
  this: with two changes no three fields ever meet.

Only model-checked: LossEndsRun, EndedReaderIsJoined, StopIsShown and the liveness
part of ImplementsChannel, liveness being out of the prover's reach.

## 5. What is not modelled, and what is left

Not modelled:

- display: the windows themselves, dialogs, the editor's markers, tooltips, the
  disassembly's text, the poll timer that refreshes the display;
- logging, the terminal panel, file name helpers, path translation;
- data, function and exception breakpoints (what is saved of data breakpoints is
  in `Persist`);
- `Socket::Send`, which may give up with part of a message written
  (`Socket.cpp:84`): the adapter has then half a message, and nothing in the plugin
  notices, so that there is no behaviour of this code to follow but the loss of the
  connection, which `DapSession` has; of the connection attempts only whether they
  succeed is modelled;
- the server half of the protocol library and its process classes, which the plugin
  does not use;
- cJSON and tinyxml2, which are vendored.

What would be worth doing next: `DapSystem`, the composition of `DapSession` and
`DapClient`, so that labels of one connection meet responses of another (Reset
clears the queues, and the handshake drops what arrives before; each half is checked
on its own); data breakpoints; `Inspect` together with `Breakpoints`, so that a
stop and its deletions of temporary breakpoints are one step.
