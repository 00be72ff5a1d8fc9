----------------------------- MODULE Breakpoints -----------------------------
(***************************************************************************)
(* DBG_DAP_Breakpoints: the breakpoints of the user, and what the adapter  *)
(* is told of them.                                                        *)
(*                                                                         *)
(* A breakpoint is an object shared by the list m_breakpoints and the map  *)
(* m_map_filebreakpoints from files to breakpoints, from which the         *)
(* setBreakpoints requests are made; the map is cleared at every start of  *)
(* the debugger and filled from the list when the adapter says it is       *)
(* initialized.  A request replaces all the breakpoints of a file, its     *)
(* answer gives each an id and a line, and is handled as if the user had   *)
(* set them.                                                               *)
(*                                                                         *)
(* Not modelled: data breakpoints, function and exception breakpoints, the *)
(* dialogs, the .bps file.  Files have one name: UseNativePaths, with      *)
(* m_map_fileSystemDap the identity.  All files are in one project.        *)
(***************************************************************************)
EXTENDS Integers, Sequences, FiniteSets, DebuggerState

CONSTANTS
  File, Line,
  Object,        \* breakpoint objects: bounds how many exist at a time
  Shifts,        \* by how many lines an edit may move the rest of a file
  Drift,         \* how far below the line asked for an adapter may put one
  Id, NoId,      \* ids an adapter gives, and -1
  MaxRequests    \* bounds the requests unanswered when something new begins

ASSUME BreakpointsAssumption ==
  /\ Line \subseteq Nat /\ Shifts \subseteq Int /\ Drift \subseteq Nat
  /\ NoId \notin Id
  /\ MaxRequests \in Nat

Info == [file: File, line: Line, enabled: BOOLEAN, id: Id \cup {NoId}, temporary: BOOLEAN]
Unset == [id |-> NoId]  \* what an object that does not exist contains

VARIABLES
  brk,      \* the breakpoints and the requests made of them:
            \*   list      m_breakpoints, info its objects
            \*   byFile    m_map_filebreakpoints, {} for a file it lacks
            \*   requests  the lines of the setBreakpoints requests whose
            \*             answers have not been handled, by file
            \*   told      history: the lines of the last request for a file,
            \*             unless it is behind
            \*   behind    history: files the adapter was not told the latest of,
            \*             or told what was read past the end of the map
            \*   mixed     history: files from whose entry of the map another
            \*             object than the deleted one was erased
  todo,     \* what the loop of the handler in progress has still to do
  flags,    \* Debugger_State::DAPDebuggerState
  due,      \* what the adapter has still to say: "launch" or "attach", "initialized"
  connected,
  built     \* the map has been filled since it was last cleared

vars == <<brk, todo, flags, due, connected, built>>
session == <<flags, due, connected, built>>

Idle == todo = {}
Interactive == IsRunning(flags) /\ IsStopped(flags)
Unanswered == UNION {{f} \X DOMAIN brk.requests[f] : f \in File}
Room == Cardinality(Unanswered) < MaxRequests

-----------------------------------------------------------------------------
(* The list and the map.                                                   *)

Exist(b) == b.list \cup UNION {b.byFile[f] : f \in File}
Unused(b) == Object \ Exist(b)
Holders(b, id) == {o \in b.list : b.info[o].id = id}
At(b, f, l) == {o \in b.list : b.info[o].file = f /\ b.info[o].line = l}

\* Mutant: the list alone keeps an object alive.
Freed_ListOnly(b) == [b EXCEPT !.info = [o \in Object |-> IF o \in b.list THEN @[o] ELSE Unset]]

\* Objects that neither the list nor the map refers to cease to exist.
Freed(b) == [b EXCEPT !.info = [o \in Object |-> IF o \in Exist(b) THEN @[o] ELSE Unset]]

EnabledLines(b, objects) == {b.info[o].line : o \in {p \in objects : b.info[p].enabled}}

Behind(b, files) ==
  [b EXCEPT !.behind = @ \cup files,
            !.told = [f \in File |-> IF f \in files THEN {} ELSE @[f]]]

Tell(b, f, lines) ==
  [b EXCEPT !.requests[f] = Append(@, lines), !.told[f] = lines, !.behind = @ \ {f}]

\* The map is searched only when it is not empty, and what is found is not
\* compared with end().
ReadsAtEnd(b, f) == b.byFile[f] = {} /\ \E g \in File : b.byFile[g] # {}

\* UpdateDAPSetBreakpointsByFileName.  Reading the vector at end() is undefined: the
\* request may ask for any lines, or the program ends (Restart).
Update(b, f) ==
  IF ~Interactive THEN {Behind(b, {f})}
  ELSE IF ReadsAtEnd(b, f) THEN {Behind(Tell(b, f, lines), {f}) : lines \in SUBSET Line}
  ELSE {Tell(b, f, EnabledLines(b, b.byFile[f]))}

\* UpdateMapFileBreakPoints looks for the line and not for the object, both when
\* it adds one and when it erases one.
MapAdd(b, f, o) ==
  IF \E p \in b.byFile[f] : b.info[p].line = b.info[o].line
  THEN [b EXCEPT !.mixed = @ \cup {f}]
  ELSE [b EXCEPT !.byFile[f] = @ \cup {o}]

\* Mutant: a deleted breakpoint stays in the map.
MapErase_Nothing(b, f, o) == {b}

MapErase(b, f, o) ==
  LET same == {p \in b.byFile[f] : b.info[p].line = b.info[o].line}
  IN  IF same = {} THEN {b}
      ELSE {[b EXCEPT !.byFile[f] = @ \ {p},
                      !.mixed = IF p = o THEN @ ELSE @ \cup {f}] : p \in same}

SetEnabled(b, o, on) == Behind([b EXCEPT !.info[o].enabled = on], {b.info[o].file})

\* A breakpoint found by its id is enabled or disabled where it is, but the
\* request is made for the file that was given.
Enable(b, o, on, f) ==
  IF b.info[o].enabled = on THEN {b} ELSE Update(SetEnabled(b, o, on), f)

Add(b, f, l, id, o) ==
  LET new == [file |-> f, line |-> l, enabled |-> TRUE, id |-> id, temporary |-> FALSE]
      made == [b EXCEPT !.info[o] = new, !.list = @ \cup {o}]
  IN  Update(MapAdd(made, f, o), f)

\* Mutant: the breakpoint is not looked for by its id.
UpdateOrAdd_ByPlace(b, f, l, on, id) ==
  IF At(b, f, l) # {}
  THEN UNION {Enable(IF id = NoId THEN b ELSE [b EXCEPT !.info[o].id = id], o, on, f) : o \in At(b, f, l)}
  ELSE UNION {Add(b, f, l, id, o) : o \in Unused(b)}

\* Mutant: a breakpoint with an id is not looked for by its place.
UpdateOrAdd_ById(b, f, l, on, id) ==
  IF id # NoId /\ Holders(b, id) # {}
  THEN UNION {Enable(b, o, on, f) : o \in Holders(b, id)}
  ELSE IF id = NoId /\ At(b, f, l) # {}
  THEN UNION {Enable(b, o, on, f) : o \in At(b, f, l)}
  ELSE UNION {Add(b, f, l, id, o) : o \in Unused(b)}

\* UpdateOrAddBreakpoint.  A new breakpoint is enabled, whatever "on" says.
UpdateOrAdd(b, f, l, on, id) ==
  IF id # NoId /\ Holders(b, id) # {}
  THEN UNION {Enable(b, o, on, f) : o \in Holders(b, id)}
  ELSE IF At(b, f, l) # {}
  THEN UNION {Enable(IF id = NoId THEN b ELSE [b EXCEPT !.info[o].id = id], o, on, f) : o \in At(b, f, l)}
  ELSE UNION {Add(b, f, l, id, o) : o \in Unused(b)}

\* Mutant: the request is made before the breakpoint is erased from the map.
Deleted_SentFirst(b, o) ==
  LET f == b.info[o].file
  IN  {Freed([c EXCEPT !.list = @ \ {o}]) : c \in UNION {MapErase(d, f, o) : d \in Update(b, f)}}

\* DeleteBreakpoint: the request says what the map has left.
Deleted(b, o) ==
  LET f == b.info[o].file
      erased == {[c EXCEPT !.list = @ \ {o}] : c \in MapErase(b, f, o)}
  IN  {Freed(d) : d \in UNION {Update(c, f) : c \in erased}}

-----------------------------------------------------------------------------
Nothing == [list     |-> {},
            info     |-> [o \in Object |-> Unset],
            byFile   |-> [f \in File |-> {}],
            requests |-> [f \in File |-> <<>>],
            told     |-> [f \in File |-> {}],
            behind   |-> {},
            mixed    |-> {}]

Init ==
  /\ brk = Nothing
  /\ todo = {}
  /\ flags = InitialState
  /\ due = {}
  /\ connected = FALSE
  /\ built = TRUE

(* The user.                                                               *)

AddBreakpoint(f, l) ==
  /\ Idle /\ Room
  /\ brk' \in UpdateOrAdd(brk, f, l, TRUE, NoId)
  /\ UNCHANGED <<todo, session>>

DeleteBreakpoint(o) ==
  /\ Idle /\ Room
  /\ brk' \in Deleted(brk, o)
  /\ UNCHANGED <<todo, session>>

EnableBreakpoint(o, on) ==
  LET i == brk.info[o] IN
  /\ Idle /\ Room
  /\ i.enabled # on
  /\ brk' \in IF IsRunning(flags)
              THEN UpdateOrAdd(brk, i.file, i.line, on, i.id)
              ELSE {SetEnabled(brk, o, on)}
  /\ UNCHANGED <<todo, session>>

\* UpdateBreakpoint, when its dialog is closed with OK: the breakpoint is
\* replaced by a new one at its place.
UpdateBreakpoint(o) ==
  LET i == brk.info[o] IN
  /\ Idle /\ Room
  /\ \E b \in Deleted(brk, o) : brk' \in UpdateOrAdd(b, i.file, i.line, TRUE, NoId)
  /\ UNCHANGED <<todo, session>>

DeleteAllBreakpoints ==
  LET told(f) == IsRunning(flags) /\ brk.byFile[f] # {}
  IN
  /\ Idle /\ Room
  /\ brk' = Freed([brk EXCEPT
       !.list = {},
       !.byFile = [f \in File |-> {}],
       !.requests = [f \in File |-> IF told(f) THEN Append(@[f], {}) ELSE @[f]],
       !.told = [f \in File |-> IF brk.byFile[f] # {} THEN {} ELSE @[f]],
       !.behind = {f \in File : ~told(f) /\ (f \in brk.behind \/ brk.byFile[f] # {})},
       !.mixed = {}])
  /\ UNCHANGED <<todo, session>>

\* The temporary breakpoint is the one AddBreakpoint returns: the breakpoint of
\* the user, if there is one at the cursor.
RunToCursor(f, l) ==
  /\ Idle /\ Room
  /\ IsRunning(flags) => IsStopped(flags)
  /\ \E b \in UpdateOrAdd(brk, f, l, TRUE, NoId) :
       \E o \in At(b, f, l) : brk' = [b EXCEPT !.info[o].temporary = TRUE]
  /\ UNCHANGED <<todo, session>>

Below(f, first) == {o \in brk.list : brk.info[o].file = f /\ brk.info[o].line >= first}

\* The breakpoints on the lines an edit deletes.
Lost(f, first, n) == {o \in Below(f, first) : n < 0 /\ brk.info[o].line <= first - n - 1}

\* ShiftAllFileBreakpoints: the rest are moved, which the adapter is not told;
\* then the lost ones are deleted, one after the other.
ShiftAllFileBreakpoints(f, first, n) ==
  LET moved == Below(f, first) \ Lost(f, first, n) IN
  /\ Idle /\ Room
  /\ brk' = Behind(
       [brk EXCEPT !.info = [o \in Object |->
         IF o \in moved THEN [brk.info[o] EXCEPT !.line = @ + n] ELSE brk.info[o]]],
       IF moved = {} THEN {} ELSE {f})
  /\ todo' = [do: {"delete"}, object: Lost(f, first, n)]
  /\ UNCHANGED session

\* The edits the bound on Line allows.
Shiftable(f, first, n) ==
  \A o \in Below(f, first) \ Lost(f, first, n) : brk.info[o].line + n \in Line

CleanupWhenProjectClosed ==
  /\ Idle /\ Room
  /\ brk' = Freed([Behind(brk, {f \in File : brk.byFile[f] # {}}) EXCEPT
                     !.list = {}, !.byFile = [f \in File |-> {}], !.mixed = {}])
  /\ UNCHANGED <<todo, session>>

-----------------------------------------------------------------------------
(* The session.                                                            *)

Prefixes(q) == {SubSeq(q, 1, n) : n \in 0 .. Len(q)}

\* The end of a connection: the answers already read are still queued, the others
\* do not come.
Disconnected(b) ==
  {[Behind(b, File) EXCEPT !.requests = r] : r \in {q \in [File -> UNION {Prefixes(b.requests[f]) : f \in File}] :
                                        \A f \in File : q[f] \in Prefixes(b.requests[f])}}

\* LaunchDebugger: reset with ResetData_Startup, then a new adapter, if it
\* answers.
LaunchDebugger(how, connects) ==
  LET reset == RemoveState(flags, "Connected") IN
  /\ Idle /\ Room
  /\ \E b \in Disconnected(brk) :
       brk' = Freed([b EXCEPT !.byFile = [f \in File |-> {}], !.told = [f \in File |-> {}],
                              !.behind = {}, !.mixed = {}])
  /\ built' = FALSE
  /\ connected' = connects
  /\ due' = IF connects THEN {how, "initialized"} ELSE {}
  /\ flags' = IF connects THEN AddState(reset, "Connected") ELSE reset
  /\ UNCHANGED todo

\* OnInitializeResponse of a launch, OnAttachToProcessResponse: the run begins.
BeginRun ==
  /\ Idle
  /\ due \cap {"launch", "attach"} # {}
  /\ due' = due \ {"launch", "attach"}
  /\ flags' = AddState(flags, "Running")
  /\ UNCHANGED <<brk, todo, connected, built>>

\* CreateStartBreakpoints: the list is added to the map, and the files of the
\* map are sent, unless the run has not begun: an adapter that is asked to attach
\* is initialized before it answers.
OnInitializedEvent ==
  LET map == [f \in File |-> brk.byFile[f] \cup
                {o \in brk.list : /\ brk.info[o].file = f
                                  /\ \A p \in brk.byFile[f] : brk.info[p].line # brk.info[o].line}]
      files == {f \in File : map[f] # {}}
      lines == [f \in File |-> EnabledLines(brk, map[f])]
  IN
  /\ Idle /\ Room
  /\ "initialized" \in due /\ "launch" \notin due
  /\ due' = due \ {"initialized"}
  /\ built' = TRUE
  /\ brk' = IF Interactive
            THEN [brk EXCEPT
                   !.byFile = map,
                   !.requests = [f \in File |-> IF f \in files THEN Append(@[f], lines[f]) ELSE @[f]],
                   !.told = [f \in File |-> IF f \in files THEN lines[f] ELSE @[f]],
                   !.behind = @ \ files]
            ELSE Behind([brk EXCEPT !.byFile = map], files)
  /\ UNCHANGED <<todo, flags, connected>>

OnExited ==
  /\ Idle /\ connected /\ IsRunning(flags)
  /\ flags' = RemoveState(flags, "Connected")
  /\ UNCHANGED <<brk, todo, due, connected, built>>

\* DAPDebuggerResetData with ResetData_Normal: the session ends; the list and the
\* map stay.
DAPDebuggerResetData ==
  /\ Idle /\ connected
  /\ flags' = RemoveState(flags, "Connected")
  /\ brk' \in Disconnected(brk)
  /\ connected' = FALSE
  /\ due' = {}
  /\ UNCHANGED <<todo, built>>

-----------------------------------------------------------------------------
(* The answers of the adapter.                                             *)

\* OnBreakpointDataSet, up to its loop.  The adapter may have placed a breakpoint
\* further down than it was asked, and may have failed to verify one, which the
\* loop ignores; its ids are distinct, but another adapter may have given them
\* before.  (The last guard bounds the objects the loop may need.)
OnBreakpointDataSet(f) ==
  /\ Idle /\ brk.requests[f] # <<>>
  /\ \E verified \in SUBSET Head(brk.requests[f]), path \in BOOLEAN :
       \E id \in [verified -> Id], drift \in [verified -> Drift] :
         /\ \A k, l \in verified : id[k] = id[l] => k = l
         /\ \A l \in verified : l + drift[l] \in Line
         /\ Cardinality(verified) <= Cardinality(Unused(brk))
         /\ todo' = {[do |-> "confirm", file |-> f, path |-> path, id |-> id[l],
                      line |-> l + drift[l]] : l \in verified}
  /\ brk' = [brk EXCEPT !.requests[f] = Tail(@)]
  /\ UNCHANGED session

\* One turn of it.  An answer without a path is matched with every breakpoint at
\* its line, in any file; after the first, which then has the id, the others find
\* that one enabled.
Confirm(t) ==
  LET sameLine == {o \in brk.list : brk.info[o].line = t.line} IN
  /\ t \in todo /\ t.do = "confirm"
  /\ \/ t.path /\ brk' \in UpdateOrAdd(brk, t.file, t.line, TRUE, t.id)
     \/ /\ ~t.path
        /\ \E o \in sameLine :
             brk' \in UpdateOrAdd(brk, brk.info[o].file, t.line, TRUE, t.id)
     \/ ~t.path /\ sameLine = {} /\ UNCHANGED brk
  /\ todo' = todo \ {t}
  /\ UNCHANGED session

\* One turn of the last loop of ShiftAllFileBreakpoints.
DeleteLost(t) ==
  /\ t \in todo /\ t.do = "delete"
  /\ brk' \in Deleted(brk, t.object)
  /\ todo' = todo \ {t}
  /\ UNCHANGED session

\* OnProcessBreakpointData, when the debuggee stops at a temporary breakpoint (for
\* any other it changes nothing here).
OnProcessBreakpointData(id) ==
  /\ Idle /\ connected /\ IsRunning(flags) /\ Room
  /\ \E o \in Holders(brk, id) : brk.info[o].temporary /\ brk' \in Deleted(brk, o)
  /\ UNCHANGED <<todo, session>>

\* The program ends, by a read at end() or otherwise, and is started again: what
\* LoadStateFromFile reads of the breakpoints changes only those of the list, which
\* has none.
Restart ==
  /\ brk' = Nothing
  /\ todo' = {}
  /\ flags' = InitialState
  /\ due' = {}
  /\ connected' = FALSE
  /\ built' = TRUE

-----------------------------------------------------------------------------
UserNext ==
  \/ \E f \in File, l \in Line : AddBreakpoint(f, l) \/ RunToCursor(f, l)
  \/ \E o \in brk.list : \/ DeleteBreakpoint(o) \/ UpdateBreakpoint(o)
                         \/ \E on \in BOOLEAN : EnableBreakpoint(o, on)
  \/ DeleteAllBreakpoints
  \/ \E f \in File, first \in Line, n \in Shifts :
       Shiftable(f, first, n) /\ ShiftAllFileBreakpoints(f, first, n)
  \/ CleanupWhenProjectClosed

SessionNext ==
  \/ \E how \in {"launch", "attach"}, connects \in BOOLEAN : LaunchDebugger(how, connects)
  \/ BeginRun \/ OnInitializedEvent \/ OnExited \/ DAPDebuggerResetData

AdapterNext ==
  \/ \E f \in File : OnBreakpointDataSet(f)
  \/ \E id \in Id : OnProcessBreakpointData(id)
  \/ \E t \in todo : Confirm(t) \/ DeleteLost(t)

Next == UserNext \/ SessionNext \/ AdapterNext \/ Restart

Spec == Init /\ [][Next]_vars

-----------------------------------------------------------------------------
(* Properties.                                                             *)

Confirmation == [do: {"confirm"}, file: File, line: Line, id: Id, path: BOOLEAN]
Deletion == [do: {"delete"}, object: Object]

Brk == [list: SUBSET Object, info: [Object -> Info \cup {Unset}], byFile: [File -> SUBSET Object],
        requests: [File -> Seq(SUBSET Line)], told: [File -> SUBSET Line],
        behind: SUBSET File, mixed: SUBSET File]

\* What is referred to exists, and is in the file the map has it under.
Whole(b) ==
  /\ \A o \in Object : b.info[o] = Unset <=> o \in Unused(b)
  /\ \A f \in File : \A o \in b.byFile[f] : b.info[o].file = f

\* The variables have their types; a breakpoint that the list or the map refers to
\* exists, and the map has it under the file it is in (DAP_Breakpoints.cpp:292-372
\* takes the file and the breakpoint as separate arguments).
TypeOK ==
  /\ brk \in Brk /\ Whole(brk)
  /\ todo \subseteq Confirmation \cup Deletion
  /\ flags \subseteq Flag
  /\ due \subseteq {"launch", "attach", "initialized"}
  /\ connected \in BOOLEAN /\ built \in BOOLEAN

\* Between handlers a place has one breakpoint, although an edit moves breakpoints
\* onto lines whose own are yet to be deleted, and an answer may move one onto
\* another: FindBreakpoint (DAP_Breakpoints.cpp:269-289) returns the first.
NoTwins ==
  Idle => \A o, p \in brk.list :
    brk.info[o].file = brk.info[p].file /\ brk.info[o].line = brk.info[p].line => o = p

\* No two breakpoints have the same id, although every adapter counts from 1 and
\* the ids of earlier sessions stay in the list: GetBreakpointByID
\* (DAP_Breakpoints.cpp:253-266) returns the first.
UniqueIds ==
  \A o, p \in brk.list :
    brk.info[o].id = brk.info[p].id /\ brk.info[o].id # NoId => o = p

\* Once the map is filled it has the breakpoints of the list, whatever the order
\* of edits, answers, hits and sessions; except in a file where an erasure by line
\* (DAP_Breakpoints.cpp:322-357) has taken another object.
MapMirrorsList ==
  built => \A f \in File \ brk.mixed :
    brk.byFile[f] = {o \in brk.list : brk.info[o].file = f}

\* While a program is debugged, the last request for a file asks for the enabled
\* breakpoints of the list; except after the changes that send none: without a
\* run, by a shift, or to a breakpoint that an id finds in another file
\* (DAP_Breakpoints.cpp:379, 511-519, 821-825); and except in a file whose request
\* was made of what is read at end() of the map (386-388).
AdapterFollowsList ==
  IsRunning(flags) /\ built => \A f \in File \ (brk.behind \cup brk.mixed) :
    brk.told[f] = EnabledLines(brk, {o \in brk.list : brk.info[o].file = f})

=============================================================================
