-------------------------------- MODULE Inspect --------------------------------
(***************************************************************************)
(* What the plugin shows of a debuggee that is stopped: the call stack and *)
(* the frame in use (DAP_CallStack), the watches, their children and the   *)
(* CPU registers (DAP_Watches), and the requests by which the plugin asks  *)
(* for them: stackTrace, then scopes, then variables, each sent by the     *)
(* handler of the answer before it.                                        *)
(*                                                                         *)
(* The user acts in between, and the debuggee may run and stop again.      *)
(* Requests are answered, and answers handled, in the order they are sent. *)
(*                                                                         *)
(* Abstracted: a variable is its name in a frame, which stands for its     *)
(* value and its variablesReference; the children of a watch are a set;    *)
(* only a watch and its children can be expanded.  The Stopped flag is set *)
(* when a project is opened (plugin.cpp:493) and nothing removes it, so    *)
(* that the guards on Running and Stopped are guards on Running.  The call *)
(* stack window exists.                                                    *)
(***************************************************************************)
EXTENDS Naturals, Sequences, FiniteSets

CONSTANTS
  Threads,      \* the threads of the debuggee
  Symbols,      \* the symbols that may be watched
  Watched,      \* those that the project's file has (see module Persist)
  RegistersShown, DisassemblyShown, MemoryShown,  \* the windows on the screen
  MaxDepth,     \* bound: frames of a thread
  MaxStops,     \* bound: times the debuggee stops
  MaxActs,      \* bound: what the user does
  MaxSessions,  \* bound: sessions
  None          \* no value

ASSUME InspectAssumption ==
  /\ Watched \subseteq Symbols /\ None \notin Threads
  /\ {RegistersShown, DisassemblyShown, MemoryShown} \subseteq BOOLEAN
  /\ MaxDepth \in Nat \ {0} /\ MaxStops \in Nat /\ MaxActs \in Nat /\ MaxSessions \in Nat

VARIABLES
  \* The adapter and the debuggee
  stop,       \* the number of the stop the debuggee is at, 0 while it runs
  lastStop,   \* the number of its last stop
  depth,      \* the number of frames of every thread
  source,     \* the first level whose source file exists, in every thread
  asked,      \* the requests it has not answered
  inbox,      \* its events and answers that the client has not handled
  \* The plugin
  running,    \* Connected, Running and Stopped are set
  seq,        \* the number of the next request (Client::m_requestSeuqnce + 1)
  active,     \* Client::m_active_thread_id
  backtrace,  \* m_backtrace
  frame, user,\* DAPCurrentFrame: m_stack_frame, m_user_selected_stack_frame (+1)
  stack,      \* m_stackdapvariables: the first variable of each name
  flagged,    \* m_RequestedGPRegs
  watches,    \* m_DAP_watches: symbol -> node
  registers,  \* the variables that the CPU registers window shows
  memory,     \* the frame in which the memory window's content was asked for
  \* Bookkeeping
  sessions, acts,
  crashed,    \* a frame beyond the end of m_backtrace was used
  disturbed   \* the user resumed, or acted on the call stack, before all was answered

adapter == <<stop, lastStop, depth, source>>
frames  == <<active, backtrace, frame, user>>
shown   == <<stack, flagged, watches, registers, memory>>
ghosts  == <<sessions, acts, crashed, disturbed>>
vars == <<adapter, asked, inbox, running, seq, frames, shown, ghosts>>

-----------------------------------------------------------------------------
(* Variables and watches                                                    *)

\* What a variables request finds behind a reference, in the order of the answer.
Contents ==
  [Locals |-> <<"n", "s">>, Registers |-> <<"GPR">>, GPR |-> <<"rax">>,
   s |-> <<"a", "t">>, t |-> <<"u">>, u |-> <<>>]

Entries(vs) == {vs[i] : i \in DOMAIN vs}
LocalNames == Entries(Contents.Locals)

Structured(v) == v.name \in DOMAIN Contents
Reference(v) == IF Structured(v) THEN v ELSE None

Variable(f, name) == [frame |-> f, name |-> name]
Variables(f, name) == [i \in 1..Len(Contents[name]) |-> Variable(f, Contents[name][i])]

Node(name, value, ref) ==
  [name |-> name, value |-> value, ref |-> ref, seq |-> 0, kids |-> {}]

NodeOf(v) == Node(v.name, v, Reference(v))

StructuredIn(vs, I) == {NodeOf(vs[i]) : i \in {j \in I : Structured(vs[j])}}

Adopt(node, new) == [node EXCEPT !.kids = @ \cup new]

\* Mutant: a watch that has a value keeps it.
Checked_Once(node, vs, n) ==
  LET match == {i \in DOMAIN vs : vs[i].name = node.name}
  IN  IF match = {} \/ node.value # None THEN node
      ELSE LET v == vs[CHOOSE i \in match : TRUE]
           IN  [node EXCEPT !.value = v, !.ref = Reference(v), !.seq = n]

\* OnVariablesCheck for one watch: a variable with its name gives it its value and
\* the number of the answer; every structured variable becomes a child of the node
\* that has the number of the answer.
Checked(node, vs, n) ==
  LET match == {i \in DOMAIN vs : vs[i].name = node.name}
      from  == IF node.seq = n THEN DOMAIN vs
               ELSE {i \in DOMAIN vs : \E j \in match : j <= i}
      rest  == StructuredIn(vs, DOMAIN vs \ from)
      kids  == {IF k.seq = n THEN Adopt(k, rest) ELSE k : k \in node.kids}
      own   == [node EXCEPT !.kids = kids \cup StructuredIn(vs, from)]
  IN  IF match = {} THEN own
      ELSE LET v == vs[CHOOSE i \in match : TRUE]
           IN  [own EXCEPT !.value = v, !.ref = Reference(v), !.seq = n]

FirstOfName(vs) ==
  [name \in {vs[i].name : i \in DOMAIN vs} |-> vs[CHOOSE i \in DOMAIN vs : vs[i].name = name]]

-----------------------------------------------------------------------------
(* Requests and answers                                                     *)

Request(kind, arg, node, n) == [kind |-> kind, arg |-> arg, node |-> node, seq |-> n]
Answer(req, body) == [kind |-> req.kind, body |-> body, node |-> req.node, seq |-> req.seq]

Ask(reqs) == asked' = asked \o reqs /\ seq' = seq + Len(reqs)

Nobody == <<>>  \* no watch

\* GetStackFrame does not look at the size of m_backtrace: an action that reads the
\* frame in use is possible when there is one, and UseMissingFrame when there is none.
InRange == frame <= Len(backtrace)

\* What is asked about the frame in use is not asked when there is none.
AskFrame(kind, node, n) ==
  IF frame = 0 THEN <<>> ELSE <<Request(kind, backtrace[frame], node, n)>>

\* UpdateDAPWatches: RequestUpdate of the disassembly and of the memory.
Refresh(n) ==
  LET code == IF DisassemblyShown THEN AskFrame("disassemble", Nobody, n) ELSE <<>>
  IN  code \o IF MemoryShown THEN AskFrame("memory", Nobody, n + Len(code)) ELSE <<>>

Alive == running /\ ~crashed
Quiet == asked = <<>> /\ inbox = <<>>
Settled == Quiet /\ stop # 0

-----------------------------------------------------------------------------
(* The debuggee and its adapter                                             *)

Frame(t, level) == [stop |-> stop, thread |-> t, level |-> level]
Valid(f) == stop # 0 /\ f # None /\ f.stop = stop

AdapterStops ==
  /\ Alive /\ stop = 0 /\ lastStop < MaxStops
  /\ stop' = lastStop + 1 /\ lastStop' = lastStop + 1
  /\ depth' \in [Threads -> 1..MaxDepth]
  /\ source' \in 1..MaxDepth
  /\ \E t \in Threads :
       inbox' = Append(inbox, [kind |-> "stopped", body |-> t, node |-> Nobody, seq |-> 0])
  /\ UNCHANGED <<asked, running, seq, frames, shown, ghosts>>

\* What the adapter answers.  Its references and frames are those of the stop it is
\* at.  A request made with a number that is not a reference may find one all the
\* same (GetVariableInfo).
Bodies(req) ==
  CASE req.kind = "stackTrace" ->
         {[frames |-> IF stop = 0 \/ req.arg = None THEN <<>>
                      ELSE [i \in 1..depth[req.arg] |-> Frame(req.arg, i)],
           source |-> source]}
    [] req.kind \in {"scopes", "evaluate", "memory"} -> {IF Valid(req.arg) THEN req.arg ELSE None}
    [] req.kind = "variables" ->
         {IF req.arg # None /\ Valid(req.arg.frame)
          THEN Variables(req.arg.frame, req.arg.name) ELSE <<>>}
    [] req.kind = "info" ->
         {<<>>} \cup (IF stop # 0 /\ \E t \in Threads : depth[t] > 0
                      THEN {Variables(Frame(t, 1), name) : t \in {u \in Threads : depth[u] > 0},
                                                           name \in {"Locals", "s"}} ELSE {})
    [] OTHER -> {IF stop = 0 THEN None ELSE "done"}

\* The debuggee is stopped anew, at the line that it is told to go to.
AdapterGoes ==
  /\ Alive /\ asked # <<>> /\ Head(asked).kind = "goto"
  /\ stop # 0 /\ lastStop < MaxStops
  /\ asked' = Tail(asked)
  /\ stop' = lastStop + 1 /\ lastStop' = lastStop + 1
  /\ inbox' = Append(inbox, [kind |-> "stopped", body |-> Head(asked).arg, node |-> Nobody, seq |-> 0])
  /\ UNCHANGED <<depth, source, running, seq, frames, shown, ghosts>>

AdapterAnswers ==
  /\ Alive /\ asked # <<>>
  /\ ~(Head(asked).kind = "goto" /\ stop # 0 /\ lastStop < MaxStops)
  /\ asked' = Tail(asked)
  /\ LET req == Head(asked)
     IN  IF req.kind = "resume"
         THEN stop' = 0 /\ UNCHANGED <<inbox, disturbed>>
         ELSE \E body \in Bodies(req) :
                /\ inbox' = Append(inbox, Answer(req, body))
                /\ disturbed' = (disturbed \/ (req.kind = "info" /\ body # <<>>))
                /\ UNCHANGED stop
  /\ UNCHANGED <<lastStop, depth, source, running, seq, frames, shown,
                 sessions, acts, crashed>>

-----------------------------------------------------------------------------
(* The handlers of events and answers                                       *)

Handle(kind) == Alive /\ inbox # <<>> /\ Head(inbox).kind = kind /\ inbox' = Tail(inbox)

\* Mutant: the frame that the user selected survives the next stop.
OnStopped_KeepsFrame ==
  /\ Handle("stopped")
  /\ active' = Head(inbox).body
  /\ backtrace' = <<>>
  /\ Ask(<<Request("stackTrace", active', Nobody, seq), Request("threads", None, Nobody, seq + 1)>>)
  /\ UNCHANGED <<adapter, running, frame, user, shown, ghosts>>

\* Debugger_DAP::OnStopped, with OnProcessBreakpointData (the breakpoints that it
\* deletes are in module Breakpoints).
OnStopped ==
  /\ Handle("stopped")
  /\ active' = Head(inbox).body
  /\ backtrace' = <<>> /\ frame' = 0 /\ user' = 0
  /\ Ask(<<Request("stackTrace", active', Nobody, seq), Request("threads", None, Nobody, seq + 1)>>)
  /\ UNCHANGED <<adapter, running, shown, ghosts>>

\* Mutant: only the first frame is looked at.
ScopesOf_First(body, n) ==
  IF body.source = 1 /\ body.frames # <<>>
  THEN <<Request("scopes", body.frames[1], Nobody, n)>> ELSE <<>>

\* The scopes of the first frame whose file exists are asked for.
ScopesOf(body, n) ==
  IF body.source <= Len(body.frames)
  THEN <<Request("scopes", body.frames[body.source], Nobody, n)>> ELSE <<>>

\* DBG_DAP_CallStack::OnStackTrace, then Debugger_DAP::OnStackTrace.  The frame that
\* the user selected stays selected, and is looked up without a look at the size.
OnStackTrace ==
  /\ Handle("stackTrace")
  /\ LET body  == Head(inbox).body
         index == IF user = 0 THEN 1 ELSE user
     IN  /\ backtrace' = body.frames
         /\ IF body.frames = <<>> THEN UNCHANGED <<frame, user, crashed>>
            ELSE /\ frame' = index
                 /\ user' = IF index > 1 THEN index ELSE user
                 /\ crashed' = (index > Len(body.frames))
         /\ Ask(ScopesOf(body, seq))
  /\ UNCHANGED <<adapter, running, active, shown, sessions, acts, disturbed>>

\* Mutant: the flag of the registers is not reset.
OnScopes_KeepsFlag ==
  /\ Handle("scopes")
  /\ LET f == Head(inbox).body
         asks == <<Request("variables", Variable(f, "Locals"), Nobody, seq)>> \o
                 IF RegistersShown
                 THEN <<Request("variables", Variable(f, "Registers"), Nobody, seq + 1)>> ELSE <<>>
     IN  Ask(IF f = None THEN <<>> ELSE asks)
  /\ stack' = <<>>
  /\ UNCHANGED <<adapter, running, frames, flagged, watches, registers, memory, ghosts>>

\* DBG_DAP_Watches::OnScopes
OnScopes ==
  /\ Handle("scopes")
  /\ LET f == Head(inbox).body
         asks == <<Request("variables", Variable(f, "Locals"), Nobody, seq)>> \o
                 IF RegistersShown
                 THEN <<Request("variables", Variable(f, "Registers"), Nobody, seq + 1)>> ELSE <<>>
     IN  Ask(IF f = None THEN <<>> ELSE asks)
  /\ stack' = <<>> /\ flagged' = FALSE
  /\ UNCHANGED <<adapter, running, frames, watches, registers, memory, ghosts>>

\* OnVariablesCheck: the watches take the values of their names.
CheckWatches(vs, n) ==
  /\ InRange
  /\ LET new == FirstOfName(vs)
     IN  stack' = [v \in DOMAIN stack \cup DOMAIN new |->
                     IF v \in DOMAIN stack THEN stack[v] ELSE new[v]]
  /\ watches' = [w \in DOMAIN watches |-> Checked(watches[w], vs, n)]
  /\ Ask(Refresh(seq))
  /\ UNCHANGED <<flagged, registers, memory>>

\* While the flag is set every variable that has a value is a CPU register
\* (OnVarCPURegisters): the window has one value for a name.
ShowRegisters(vs) ==
  /\ registers' = {r \in registers : \A i \in DOMAIN vs : vs[i].name # r.name} \cup Entries(vs)
  /\ UNCHANGED <<stack, flagged, watches, memory, asked, seq>>

\* The general purpose registers are a variable whose children are asked for.
AskRegisters(v) ==
  /\ flagged' = TRUE
  /\ Ask(<<Request("variables", v, Nobody, seq)>>)
  /\ UNCHANGED <<stack, watches, registers, memory>>

\* DBG_DAP_Watches::OnVariables
OnVariables ==
  /\ \/ Handle("variables")
     \/ Handle("info")
  /\ LET vs == Head(inbox).body
     IN  IF vs = <<>> THEN UNCHANGED <<shown, asked, seq>>
         ELSE IF vs[1].name = "GPR" THEN AskRegisters(vs[1])
         ELSE IF flagged THEN ShowRegisters(vs)
         ELSE CheckWatches(vs, Head(inbox).seq)
  /\ UNCHANGED <<adapter, running, frames, ghosts>>

\* DBG_DAP_Watches::EvaluateWatchCallback: the watch takes the value even when the
\* debuggee has stopped again.
OnEvaluate ==
  /\ Handle("evaluate")
  /\ LET node == Head(inbox).node
         f == Head(inbox).body
     IN  IF f = None THEN UNCHANGED <<watches, asked, seq>>
         ELSE /\ InRange
              /\ watches' = [w \in DOMAIN watches |->
                               IF node = <<w>> THEN [watches[w] EXCEPT !.value = Variable(f, w)]
                               ELSE watches[w]]
              /\ Ask(Refresh(seq))
  /\ UNCHANGED <<adapter, running, frames, stack, flagged, registers, memory, ghosts>>

\* Debugger_DAP::GetMemoryCallback: an evaluation that failed leaves an error there.
OnMemory ==
  /\ Handle("memory")
  /\ memory' = Head(inbox).body
  /\ UNCHANGED <<adapter, asked, running, seq, frames, stack, flagged, watches, registers, ghosts>>

\* Debugger_DAP::OnGotoTargetsResponse
OnGotoTargets ==
  /\ Handle("gotoTargets")
  /\ Head(inbox).body # None => InRange
  /\ Ask(IF Head(inbox).body = None \/ frame = 0 \/ active = None THEN <<>>
         ELSE <<Request("goto", active, Nobody, seq)>>)
  /\ UNCHANGED <<adapter, running, frames, shown, ghosts>>

\* Debugger_DAP::OnDisassembleResponse reads the frame in use.
OnDisassemble ==
  /\ Handle("disassemble")
  /\ Head(inbox).body # None => InRange
  /\ UNCHANGED <<adapter, asked, running, seq, frames, shown, ghosts>>

\* Answers that are shown and change nothing else: the threads, a tooltip, the output
\* of a command.
OnOther ==
  /\ Handle("threads") \/ Handle("text") \/ Handle("goto")
  /\ UNCHANGED <<adapter, asked, running, seq, frames, shown, ghosts>>

-----------------------------------------------------------------------------
(* The user                                                                 *)

Act == ~crashed /\ acts < MaxActs /\ acts' = acts + 1

Disturb(cond) == disturbed' = (disturbed \/ cond)

\* Continue, Next, Step, StepOut: the plugin keeps what it shows.
Resume ==
  /\ running /\ Act
  /\ Ask(<<Request("resume", None, Nobody, seq)>>)
  /\ Disturb(~Settled)
  /\ UNCHANGED <<adapter, inbox, running, frames, shown, sessions, crashed>>

\* DBG_DAP_CallStack::SwitchToFrame
SwitchToFrame(i) ==
  /\ running /\ Act
  /\ frame' = i /\ user' = i
  /\ Disturb(~Settled)
  /\ UNCHANGED <<adapter, asked, inbox, running, seq, active, backtrace, shown, sessions, crashed>>

\* DBG_DAP_CallStack::SwitchToThread
SwitchToThread(t) ==
  /\ running /\ Act
  /\ frame' = 0 /\ user' = 0
  /\ Ask(<<Request("stackTrace", t, Nobody, seq)>>)
  /\ Disturb(~Settled)
  /\ UNCHANGED <<adapter, inbox, running, active, backtrace, shown, sessions, crashed>>

\* RequestUpdate(Backtrace) asks for the stack of the thread that stopped, whichever
\* is on display and whatever the user has selected.
UpdateBacktrace ==
  /\ running /\ Act
  /\ Ask(<<Request("stackTrace", active, Nobody, seq)>>)
  /\ Disturb(~Settled \/ (backtrace # <<>> /\ backtrace[1].thread # active))
  /\ UNCHANGED <<adapter, inbox, running, frames, shown, sessions, crashed>>

\* RequestUpdate(CPURegisters)
UpdateRegisters ==
  /\ running /\ Act /\ RegistersShown /\ InRange
  /\ registers' = {}
  /\ Ask(AskFrame("scopes", Nobody, seq))
  /\ Disturb(~Settled)
  /\ UNCHANGED <<adapter, inbox, running, frames, stack, flagged, watches, memory, sessions, crashed>>

\* Debugger_DAP::UpdateWatch: GetVariableInfo is given a request number for a
\* reference; then the symbol is evaluated in the current frame.
UpdateRequests(node, n) ==
  <<Request("info", None, Nobody, n)>> \o AskFrame("evaluate", <<node.name>>, n + 1)

UpdateWatch(w) ==
  /\ running /\ Act /\ InRange
  /\ Ask(UpdateRequests(watches[w], seq))
  /\ UNCHANGED <<adapter, inbox, running, frames, shown, sessions, crashed, disturbed>>

\* Debugger_DAP::AddWatch: the value is that of the last scopes.
AddWatch(w) ==
  /\ Act /\ InRange
  /\ LET node == IF w \in DOMAIN stack THEN NodeOf(stack[w]) ELSE Node(w, None, None)
     IN  /\ watches' = [v \in DOMAIN watches \cup {w} |-> IF v = w THEN node ELSE watches[v]]
         /\ IF running THEN Ask(UpdateRequests(node, seq)) ELSE UNCHANGED <<asked, seq>>
  /\ UNCHANGED <<adapter, inbox, running, frames, stack, flagged, registers, memory, sessions,
                 crashed, disturbed>>

\* The callback of an evaluation holds the watch that it was made for.
Forget(messages, w) ==
  [i \in DOMAIN messages |->
     IF messages[i].kind = "evaluate" /\ messages[i].node = <<w>>
     THEN [messages[i] EXCEPT !.node = Nobody] ELSE messages[i]]

\* DBG_DAP_Watches::DeleteWatch
DeleteWatch(w) ==
  /\ Act
  /\ asked' = Forget(asked, w) /\ inbox' = Forget(inbox, w)
  /\ watches' = [v \in DOMAIN watches \ {w} |-> watches[v]]
  /\ UNCHANGED <<adapter, running, seq, frames, stack, flagged, registers, memory,
                 sessions, crashed, disturbed>>

\* Mutant: the children of the last expansion stay.
Opened_KeepsChildren(node, n) == [node EXCEPT !.seq = n]

\* Mutant: the number remembered is that of the next request.
Opened_Next(node, n) == [node EXCEPT !.seq = n + 1, !.kids = {}]

\* The children are removed, and the number of the request for new ones remembered.
Opened(node, n) == [node EXCEPT !.seq = n, !.kids = {}]

\* DBG_DAP_Watches::ExpandWatch
ExpandWatch(w) ==
  /\ running /\ Act
  /\ watches' = [watches EXCEPT ![w] = Opened(watches[w], seq)]
  /\ Ask(<<Request("variables", watches[w].ref, <<w>>, seq)>>)
  /\ UNCHANGED <<adapter, inbox, running, frames, stack, flagged, registers, memory, sessions,
                 crashed, disturbed>>

ExpandChild(w, k) ==
  /\ running /\ Act
  /\ watches' = [watches EXCEPT ![w].kids = (watches[w].kids \ {k}) \cup {Opened(k, seq)}]
  /\ Ask(<<Request("variables", k.ref, <<w, k.name>>, seq)>>)
  /\ UNCHANGED <<adapter, inbox, running, frames, stack, flagged, registers, memory, sessions,
                 crashed, disturbed>>

AskAbout(kind) ==
  /\ running /\ Act /\ InRange
  /\ Ask(AskFrame(kind, Nobody, seq))
  /\ UNCHANGED <<adapter, inbox, running, frames, shown, sessions, crashed, disturbed>>

\* Debugger_DAP::OnValueTooltip
Tooltip == AskAbout("text")

\* Debugger_DAP::SendCommand
SendCommand == AskAbout("text")

\* RequestUpdate(ExamineMemory)
ExamineMemory == MemoryShown /\ AskAbout("memory")

\* Debugger_DAP::SetNextStatement
SetNextStatement ==
  /\ running /\ Act
  /\ Ask(<<Request("gotoTargets", None, Nobody, seq)>>)
  /\ Disturb(~Settled)
  /\ UNCHANGED <<adapter, inbox, running, frames, shown, sessions, crashed>>

\* A handler or a request uses a frame that m_backtrace does not have.
UseMissingFrame ==
  /\ Alive /\ ~InRange
  /\ crashed' = TRUE
  /\ UNCHANGED <<adapter, asked, inbox, running, seq, frames, shown, sessions, acts, disturbed>>

\* A session begins: the numbers of requests start again, the watches stay as they
\* are (CreateStartWatches is called on a response, and OnInitializedEvent has none).
StartSession ==
  /\ ~crashed /\ ~running /\ sessions < MaxSessions
  /\ running' = TRUE /\ sessions' = sessions + 1
  /\ stop' = 0 /\ asked' = <<>> /\ inbox' = <<>> /\ seq' = 1
  /\ UNCHANGED <<lastStop, depth, source, frames, shown, acts, crashed, disturbed>>

\* Debugger_DAP::DAPDebuggerResetData, as far as the call stack goes.
SessionEnds ==
  /\ Alive
  /\ running' = FALSE
  /\ stop' = 0 /\ asked' = <<>> /\ inbox' = <<>>
  /\ backtrace' = <<>> /\ frame' = 0 /\ user' = 0 /\ active' = None
  /\ UNCHANGED <<lastStop, depth, source, seq, shown, ghosts>>

-----------------------------------------------------------------------------

Init ==
  /\ stop = 0 /\ lastStop = 0 /\ active = None
  /\ depth = [t \in Threads |-> 1] /\ source = 1
  /\ asked = <<>> /\ inbox = <<>>
  /\ running = FALSE /\ seq = 1
  /\ backtrace = <<>> /\ frame = 0 /\ user = 0
  /\ stack = <<>> /\ flagged = FALSE /\ registers = {} /\ memory = None
  /\ watches = [w \in Watched |-> Node(w, None, None)]
  /\ sessions = 0 /\ acts = 0 /\ crashed = FALSE /\ disturbed = FALSE

Handlers ==
  \/ OnStopped \/ OnStackTrace \/ OnScopes \/ OnVariables \/ OnEvaluate
  \/ OnMemory \/ OnGotoTargets \/ OnDisassemble \/ OnOther

UserActs ==
  \/ Resume \/ UpdateBacktrace \/ UpdateRegisters
  \/ Tooltip \/ SendCommand \/ ExamineMemory \/ SetNextStatement
  \/ \E i \in 1..Len(backtrace) : SwitchToFrame(i)
  \/ \E t \in Threads : SwitchToThread(t)
  \/ \E w \in Symbols \ DOMAIN watches : AddWatch(w)
  \/ \E w \in DOMAIN watches :
       \/ UpdateWatch(w) \/ DeleteWatch(w) \/ ExpandWatch(w)
       \/ \E k \in watches[w].kids : ExpandChild(w, k)

Next ==
  \/ StartSession \/ SessionEnds
  \/ AdapterStops \/ AdapterGoes \/ AdapterAnswers
  \/ Handlers \/ UserActs \/ UseMissingFrame

\* The adapter answers what it is asked, and the main loop handles what arrives.
Spec ==
  /\ Init /\ [][Next]_vars /\ WF_vars(AdapterGoes \/ AdapterAnswers) /\ WF_vars(Handlers)

-----------------------------------------------------------------------------
(* What holds                                                               *)

Frames   == [stop : Nat, thread : Threads, level : Nat]
Names    == Symbols \cup DOMAIN Contents \cup UNION {Entries(Contents[c]) : c \in DOMAIN Contents}
Named    == [frame : Frames, name : Names]
MaybeVar == Named \cup {None}

\* No value is none of the values.
ASSUME NoneAssumption == None \notin Frames \cup Named

\* Every variable has its type.
TypeOK ==
  /\ stop \in {0, lastStop} /\ lastStop \in 0..MaxStops
  /\ depth \in [Threads -> 1..MaxDepth] /\ source \in 1..MaxDepth
  /\ running \in BOOLEAN /\ seq \in Nat /\ active \in Threads \cup {None}
  /\ backtrace \in Seq(Frames) /\ frame \in Nat /\ user \in Nat
  /\ \A w \in DOMAIN stack : stack[w] \in Named
  /\ flagged \in BOOLEAN
  /\ DOMAIN watches \subseteq Symbols
  /\ \A w \in DOMAIN watches :
       /\ watches[w].name = w /\ (watches[w].seq < seq \/ sessions > 1)
       /\ watches[w].value \in MaybeVar /\ watches[w].ref \in MaybeVar
  /\ registers \subseteq Named /\ memory \in Frames \cup {None}
  /\ sessions \in 0..MaxSessions /\ acts \in 0..MaxActs
  /\ crashed \in BOOLEAN /\ disturbed \in BOOLEAN

\* The frame in use is one of the call stack, unless the user acted on it, or
\* resumed, while answers about it were under way (GetStackFrame, DAP_CallStack.cpp:120, and
\* OnStackTrace, line 318, index m_backtrace without a look at its size).
FrameInRange == crashed \/ ~InRange => disturbed

\* Local variables are not taken for CPU registers: m_RequestedGPRegs is reset by the
\* scopes before the variables of the next stop come (DAP_Watches.cpp:822, 1067).  The members
\* of a watch are (ExpansionArrives).
RegistersAreRegisters ==
  ~disturbed => \A v \in registers : v.name \notin LocalNames

Current(f) == f # None /\ f.stop = stop

ShownOf(names) ==
  /\ \A w \in DOMAIN watches \cap names : watches[w].value # None /\ Current(watches[w].value.frame)
  /\ MemoryShown => Current(memory)

HasSource == \A t \in Threads : source <= depth[t]

\* When everything is answered, each watch of a local variable has its value at this
\* stop and not at an earlier one, and so has the memory (OnScopes, OnVariables).
ValuesAreCurrent == ~disturbed /\ running /\ Settled /\ HasSource => ShownOf(LocalNames)

Expanding(w) ==
  LET m == Head(inbox)
  IN  m.kind = "variables" /\ m.node = <<w>> /\ m.body # <<>> /\ watches[w].seq = m.seq

\* What becomes of the answer to the last expansion of a watch.  With the registers asked for
\* since the last scopes, all of its members go to the registers window, whatever they are, and
\* the watch has nothing below it (DAP_Watches.cpp:1078-1083, 1135); without, exactly its
\* structured members are below it, whatever was answered in between (417-418, 955-1018).
ExpansionArrives ==
  [][\A w \in DOMAIN watches :
       OnVariables /\ Expanding(w) =>
         IF flagged
         THEN watches'[w].kids = {} /\ Entries(Head(inbox).body) \subseteq registers'
         ELSE {k.name : k \in watches'[w].kids} =
              {v.name : v \in {u \in Entries(Head(inbox).body) : Structured(u)}}]_vars

\* After a stop the watches of local variables get their values, unless the debuggee
\* goes on, the session ends or the user disturbs it.
StopIsShown ==
  \A k \in 1..MaxStops :
    stop = k /\ running /\ HasSource ~>
      stop # k \/ ~running \/ disturbed \/ crashed \/ ShownOf(LocalNames)

=============================================================================
