------------------------------ MODULE Persist -------------------------------
(***************************************************************************)
(* What the plugin keeps of a project on the disk, in the .bps file beside *)
(* the project, and what becomes of the watches and breakpoints in memory  *)
(* when projects are opened, activated and closed, when sessions begin, and *)
(* when the program dies.                                                   *)
(*                                                                          *)
(* The file is written whole by three classes in turn, each with a document *)
(* of its own (DAP_Breakpoints.cpp, DAP_Watches.cpp, plugin.cpp): every     *)
(* write discards what the one before has written.  It is read by LoadState-*)
(* FromFile when a project is activated and at the start of every session.  *)
(* A text in the file is a word or a number; a number that is not there, or *)
(* is no number, is read from an uninitialised variable (definitions.cpp).  *)
(***************************************************************************)
EXTENDS Integers, Sequences, FiniteSets, SequencesExt

CONSTANTS
  Projects,   \* project files
  Addresses,  \* where cbProject objects may lie in memory
  Null,       \* no object
  Symbols,    \* what is watched
  Types,      \* the types that the adapter reports
  Edits,      \* what the dialog can make of a watch
  Lines,      \* lines of breakpoints
  MaxWatches, MaxBreakpoints, \* the sizes of the two lists
  MaxInterrupted, \* projects at whose last closing the program died
  MaxActs     \* what the user does to watches, breakpoints and settings

\* The dialog offers six formats, and any text for the symbol.
ASSUME PersistAssumption ==
  /\ Null \notin Addresses
  /\ Edits \subseteq [symbol : Symbols \cup {""}, format : 0 .. 5, array : BOOLEAN,
                     range : Int \X Int]
  /\ MaxWatches \in Nat /\ MaxBreakpoints \in Nat /\ MaxInterrupted \in Nat /\ MaxActs \in Nat

VARIABLES
  at,          \* where the object of each open project is, or Null
  current,     \* m_pProject of the watches
  running,     \* a session is on
  persist,     \* the setting PersistDebugElements
  watches,     \* m_DAP_watches
  breakpoints, \* m_breakpoints
  file,        \* the .bps file of each project
  acts,        \* how often the user has changed something
  saved,       \* history: the watches of the project when they were last written
  interrupted, \* history: the projects at whose closing the program died
  strays       \* history: addresses of closed projects that m_pProject has kept

vars == <<at, current, running, persist, watches, breakpoints, file, acts,
          saved, interrupted, strays>>

-----------------------------------------------------------------------------
(* Texts of the file                                                        *)

Word(s)   == [word |-> s]
Number(n) == [number |-> n]

\* BoolTowxString
BoolText(b) == Word(IF b THEN "True" ELSE "False")

FormatNames == <<"Undefined", "Decimal", "Unsigned", "Hex", "Binary", "Char", "Float",
                 "Last", "Any">>
FormatText(f) == Word(IF f + 1 \in DOMAIN FormatNames THEN FormatNames[f + 1] ELSE "unknown")
Places(text) == {i \in DOMAIN FormatNames : text = Word(FormatNames[i])}

\* Mutant: the place in the list, and not the value of the enumeration.
TextFormat_Place(text) == IF Places(text) = {} THEN 0 ELSE CHOOSE i \in Places(text) : TRUE

TextFormat(text) == IF Places(text) = {} THEN 0 ELSE (CHOOSE i \in Places(text) : TRUE) - 1

\* What an uninitialised variable may hold.
Junk == {0, 1}

\* The child elements of a node are its fields.
ReadText(node, name) == IF name \in DOMAIN node THEN node[name] ELSE Word("")
ReadLong(node, name, junk) ==
  LET text == ReadText(node, name) IN IF "number" \in DOMAIN text THEN text.number ELSE junk

\* DAPBreakpoint::SaveBreakpointToXML
BreakpointNode(b) ==
  [type |-> Word("bptCode"), line |-> Number(b.line), enabled |-> BoolText(b.enabled)]

\* DAPWatch::SaveWatchToXML
WatchNode(w) ==
  [DAPWatchClassName |-> Word("DAPWatch"), symbol |-> Word(w.symbol), type |-> Word(w.type),
   format |-> FormatText(w.format), is_array |-> BoolText(w.array),
   array_start |-> Number(w.range[1]), array_end |-> Number(w.range[2])]

\* DAPWatch::LoadWatchFromXML: is_array is written as a word and read as a number.
LoadWatch(node, project, junk) ==
  [project |-> project, symbol |-> ReadText(node, "symbol").word,
   type |-> ReadText(node, "type").word, format |-> TextFormat(ReadText(node, "format")),
   array |-> ReadLong(node, "is_array", junk) # 0,
   range |-> <<ReadLong(node, "array_start", junk), ReadLong(node, "array_end", junk)>>]

-----------------------------------------------------------------------------
(* The file                                                                 *)

Missing == [exists |-> FALSE]
Broken  == [exists |-> TRUE, parses |-> FALSE]
Document(bps, ws) == [exists |-> TRUE, parses |-> TRUE, breakpoints |-> bps, watches |-> ws]
Readable(f) == f.exists /\ f.parses

\* The elements of s at the places in I, in their order.
Picked(s, I) ==
  LET picked[n \in 0 .. Len(s)] ==
        IF n = 0 THEN <<>>
        ELSE IF n \in I THEN Append(picked[n - 1], s[n]) ELSE picked[n - 1]
  IN  picked[Len(s)]

Own(list, project) == Picked(list, {i \in DOMAIN list : list[i].project = project})
Nodes(list, Node(_)) == [i \in DOMAIN list |-> Node(list[i])]

\* The three SaveStateToFile: the lists of the breakpoints, those of the watches,
\* and the compiler only.
BreakpointsDocument(p) == Document(Nodes(Own(breakpoints, at[p]), BreakpointNode), <<>>)
WatchesDocument(p) == Document(<<>>, Nodes(Own(watches, at[p]), WatchNode))
CompilerDocument == Document(<<>>, <<>>)

\* Debugger_DAP::SaveStateToFile
SaveState(p) == <<BreakpointsDocument(p), WatchesDocument(p), CompilerDocument>>

\* Mutant: the watches are removed before they are saved.
ClosingWrites_Late(p) == SaveState(p) \o <<BreakpointsDocument(p), Document(<<>>, <<>>)>>

\* What is written to the file, one after the other, while the project is closed.
ClosingWrites(p) == SaveState(p) \o <<BreakpointsDocument(p), WatchesDocument(p)>>

-----------------------------------------------------------------------------
(* Loading                                                                  *)

\* Mutant: the same watch is one that is equal in everything.
AddLoaded_Equal(list, w) ==
  LET Same(v) == v = w
  IN  Append(RemoveFirstMatch(list, Same), w)

\* DBG_DAP_Watches::AddWatch(DAPWatch*): the first watch with the same symbol, project
\* and type makes room.
AddLoaded(list, w) ==
  LET Same(v) == v.symbol = w.symbol /\ v.project = w.project /\ v.type = w.type
  IN  Append(RemoveFirstMatch(list, Same), w)

\* DBG_DAP_Watches::LoadStateFromFile: a watch without a symbol is passed over.
LoadWatches(list, f, project, junk) ==
  LET loaded[n \in 0 .. Len(f.watches)] ==
        IF n = 0 THEN list
        ELSE LET w == LoadWatch(f.watches[n], project, junk[n])
             IN  IF w.symbol = "" THEN loaded[n - 1] ELSE AddLoaded(loaded[n - 1], w)
  IN  IF ~Readable(f) THEN list ELSE loaded[Len(f.watches)]

\* DBG_DAP_Breakpoints::LoadStateFromFile: what is in the file is not read; every
\* element is taken for a breakpoint of the project that has no file and no line.
LoadBreakpoints(list, f, project) ==
  IF ~Readable(f) \/ f.breakpoints = <<>> THEN list
  ELSE [i \in DOMAIN list |->
          IF list[i].project = project /\ list[i].line = -1
          THEN [list[i] EXCEPT !.enabled = TRUE] ELSE list[i]]

Entries(f) == IF Readable(f) THEN DOMAIN f.watches ELSE {}

\* The watches after LoadStateFromFile.  MaxWatches bounds the list (a session adds to
\* it whenever types have changed).
Load(f, project) ==
  /\ \E junk \in [Entries(f) -> Junk] : watches' = LoadWatches(watches, f, project, junk)
  /\ Len(watches') <= MaxWatches

-----------------------------------------------------------------------------
(* Projects                                                                 *)

Open == {at[p] : p \in Projects} \ {Null}

Init ==
  /\ at = [p \in Projects |-> Null]
  /\ current = Null
  /\ running = FALSE /\ persist \in BOOLEAN
  /\ watches = <<>> /\ breakpoints = <<>>
  /\ file = [p \in Projects |-> Missing]
  /\ acts = 0
  /\ saved = [p \in Projects |-> <<>>]
  /\ interrupted = {} /\ strays = {}

\* A project is activated, and opened first when it is not open: the event
\* cbEVT_PROJECT_ACTIVATE, Debugger_DAP::OnProjectOpened.
Activate(p, address) ==
  /\ IF at[p] # Null THEN address = at[p] ELSE address \notin Open
  /\ at' = [at EXCEPT ![p] = address]
  /\ IF persist
     THEN /\ breakpoints' = LoadBreakpoints(breakpoints, file[p], address)
          /\ Load(file[p], address)
     ELSE UNCHANGED <<watches, breakpoints>>
  /\ UNCHANGED <<current, running, persist, file, acts, saved, interrupted, strays>>

\* Mutant: the loop ends with the first watch that it removes.
Others_First(project) == RemoveFirstMatch(watches, LAMBDA w : w.project = project)

\* DBG_DAP_Watches::CleanupWhenProjectClosed removes the watches of the project.
Others(project) == Picked(watches, {i \in DOMAIN watches : watches[i].project # project})

\* Debugger_DAP::CleanupWhenProjectClosed.  The breakpoints of all projects go.
\* m_pProject of the watches stays as it is.
CloseProject(p) ==
  /\ at[p] # Null
  /\ at' = [at EXCEPT ![p] = Null]
  /\ IF persist
     THEN /\ file' = [file EXCEPT ![p] = Last(ClosingWrites(p))]
          /\ saved' = [saved EXCEPT ![p] = Own(watches, at[p])]
          /\ interrupted' = interrupted \ {p}
     ELSE UNCHANGED <<file, saved, interrupted>>
  /\ breakpoints' = <<>>
  /\ watches' = Others(at[p])
  /\ strays' = IF current = at[p] THEN strays \cup {current} ELSE strays \ {at[p]}
  /\ UNCHANGED <<current, running, persist, acts>>

Dead ==
  /\ at' = [p \in Projects |-> Null]
  /\ current' = Null /\ running' = FALSE
  /\ watches' = <<>> /\ breakpoints' = <<>>
  /\ strays' = {}
  /\ UNCHANGED <<persist, acts>>

\* The program dies.
Crash ==
  /\ Open # {}
  /\ Dead
  /\ UNCHANGED <<file, saved, interrupted>>

\* It dies after one of the writes of a closing, or in it.
CrashWhileClosing(p) ==
  /\ at[p] # Null /\ persist
  /\ Cardinality(interrupted \ {p}) < MaxInterrupted
  /\ \E f \in ToSet(ClosingWrites(p)) \cup {Broken} : file' = [file EXCEPT ![p] = f]
  /\ saved' = [saved EXCEPT ![p] = Own(watches, at[p])]
  /\ interrupted' = interrupted \cup {p}
  /\ Dead

-----------------------------------------------------------------------------
(* Sessions                                                                 *)

\* Debugger_DAP::StartDebugger loads the watches whatever the setting says.
StartDebugger(p) ==
  /\ ~running /\ at[p] # Null
  /\ running' = TRUE
  /\ current' = at[p]
  /\ Load(file[p], at[p])
  /\ UNCHANGED <<at, persist, breakpoints, file, acts, saved, interrupted, strays>>

\* Debugger_DAP::AttachToProcess starts without a project.
AttachToProcess ==
  /\ ~running
  /\ running' = TRUE /\ current' = Null
  /\ UNCHANGED <<at, persist, watches, breakpoints, file, acts, saved, interrupted, strays>>

EndSession ==
  /\ running
  /\ running' = FALSE
  /\ UNCHANGED <<at, current, persist, watches, breakpoints, file, acts, saved,
                 interrupted, strays>>

\* DBG_DAP_Watches::OnVariablesCheck: every watch of that name gets the type.
OnVariablesCheck(symbol, type) ==
  /\ running
  /\ \E i \in DOMAIN watches : watches[i].symbol = symbol /\ watches[i].type # type
  /\ watches' = [i \in DOMAIN watches |->
                   IF watches[i].symbol = symbol THEN [watches[i] EXCEPT !.type = type]
                   ELSE watches[i]]
  /\ UNCHANGED <<at, current, running, persist, breakpoints, file, acts, saved,
                 interrupted, strays>>

-----------------------------------------------------------------------------
(* The user                                                                 *)

Act == acts < MaxActs /\ acts' = acts + 1

\* DBG_DAP_Watches::AddWatch(symbol), with the type of the variable in scope, if any.
AddWatch(symbol, type) ==
  /\ Act /\ Len(watches) < MaxWatches
  /\ type # "" => running
  /\ watches' = Append(watches, [project |-> current, symbol |-> symbol, type |-> type,
                                 format |-> 0, array |-> FALSE, range |-> <<-1, -1>>])
  /\ UNCHANGED <<at, current, running, persist, breakpoints, file, saved, interrupted, strays>>

\* DBG_DAP_Watches::DeleteWatch
DeleteWatch(i) ==
  /\ Act
  /\ watches' = RemoveAt(watches, i)
  /\ UNCHANGED <<at, current, running, persist, breakpoints, file, saved, interrupted, strays>>

Edited(w, edit) ==
  [project |-> w.project, symbol |-> edit.symbol, type |-> w.type,
   format |-> edit.format, array |-> edit.array, range |-> edit.range]

\* EditWatchDlg::EndModal
EditWatch(i, edit) ==
  /\ Act
  /\ watches' = [watches EXCEPT ![i] = Edited(@, edit)]
  /\ UNCHANGED <<at, current, running, persist, breakpoints, file, saved, interrupted, strays>>

\* DBG_DAP_Breakpoints::AddBreakpoint for a line of an open project, or by Add-
\* DataBreakpoint, for no file and no line (-1): such a breakpoint has no project.
AddBreakpoint(p, line) ==
  /\ Act
  /\ at[p] # Null
  /\ LET project == IF line = -1 THEN Null ELSE at[p]
         Same == {i \in DOMAIN breakpoints :
                    breakpoints[i].project = project /\ breakpoints[i].line = line}
     IN  /\ Same = {} => Len(breakpoints) < MaxBreakpoints
         /\ breakpoints' =
              IF Same # {} THEN [breakpoints EXCEPT ![CHOOSE i \in Same : TRUE].enabled = TRUE]
              ELSE Append(breakpoints, [project |-> project, line |-> line, enabled |-> TRUE])
  /\ UNCHANGED <<at, current, running, persist, watches, file, saved, interrupted, strays>>

\* DBG_DAP_Breakpoints::EnableBreakpoint
EnableBreakpoint(i) ==
  /\ Act
  /\ breakpoints' = [breakpoints EXCEPT ![i].enabled = ~@]
  /\ UNCHANGED <<at, current, running, persist, watches, file, saved, interrupted, strays>>

\* DebuggerConfiguration::SaveChanges
SaveChanges ==
  /\ Act
  /\ persist' = ~persist
  /\ UNCHANGED <<at, current, running, watches, breakpoints, file, saved, interrupted, strays>>

Next ==
  \/ \E p \in Projects, a \in Addresses : Activate(p, a)
  \/ \E p \in Projects : CloseProject(p) \/ CrashWhileClosing(p) \/ StartDebugger(p)
  \/ Crash
  \/ AttachToProcess \/ EndSession
  \/ \E s \in Symbols, t \in Types : OnVariablesCheck(s, t)
  \/ \E s \in Symbols, t \in Types \cup {""} : AddWatch(s, t)
  \/ \E i \in DOMAIN watches : DeleteWatch(i)
  \/ \E i \in DOMAIN watches, e \in Edits : EditWatch(i, e)
  \/ \E p \in Projects, n \in Lines \cup {-1} : AddBreakpoint(p, n)
  \/ \E i \in DOMAIN breakpoints : EnableBreakpoint(i)
  \/ SaveChanges

Spec == Init /\ [][Next]_vars

-----------------------------------------------------------------------------
(* Properties                                                               *)

Watch == [project : Addresses \cup {Null}, symbol : Symbols \cup {""}, type : Types \cup {""},
          format : {e.format : e \in Edits} \cup {0}, array : BOOLEAN,
          range : {e.range : e \in Edits} \cup {<<-1, -1>>}]
Breakpoint == [project : Addresses \cup {Null}, line : Lines \cup {-1}, enabled : BOOLEAN]

\* No two open projects share an object, a file that can be read holds either
\* breakpoints or watches, and what is read from it has the values that were written.
TypeOK ==
  /\ at \in [Projects -> Addresses \cup {Null}]
  /\ \A p, q \in Projects : at[p] = at[q] /\ p # q => at[p] = Null
  /\ current \in Addresses \cup {Null}
  /\ running \in BOOLEAN /\ persist \in BOOLEAN
  /\ ToSet(watches) \subseteq Watch /\ ToSet(breakpoints) \subseteq Breakpoint
  /\ \A p \in Projects :
       /\ Readable(file[p]) => file[p].breakpoints = <<>> \/ file[p].watches = <<>>
       /\ ToSet(saved[p]) \subseteq Watch
  /\ acts \in 0..MaxActs
  /\ interrupted \subseteq Projects /\ strays \subseteq Addresses

\* The watch w is one of list as far as the file can tell.
Restored(w, project, list) ==
  \E v \in ToSet(list) :
    /\ v.project = project /\ v.symbol = w.symbol /\ v.type = w.type
    /\ v.format = w.format /\ v.range = w.range

\* Those saved watches that none after them replaces.
Lasting(list) ==
  {list[i] : i \in {i \in DOMAIN list : \A j \in (i + 1)..Len(list) :
                      list[j].symbol # list[i].symbol \/ list[j].type # list[i].type}}

\* When a project is opened, the watches it had when it was closed (if the user has left
\* them a symbol) are there again with their types, formats and ranges, though the file
\* was written five times meanwhile; if the program died at the closing, all of them are
\* there or none (Debugger_DAP::CleanupWhenProjectClosed, DBG_DAP_Watches::LoadStateFromFile).
WatchesSurvive ==
  [][\A p \in Projects : at[p] = Null /\ at'[p] # Null /\ persist =>
       \/ \A w \in Lasting(saved[p]) : w.symbol # "" => Restored(w, at'[p], watches')
       \/ p \in interrupted /\ watches' = watches]_vars

Twins(list, w) ==
  Cardinality({i \in DOMAIN list : list[i].symbol = w.symbol /\ list[i].type = w.type /\
                                   list[i].project = w.project})

\* Only types have changed.
Retyped == /\ DOMAIN watches' = DOMAIN watches
           /\ \A i \in DOMAIN watches :
                watches'[i] = [watches[i] EXCEPT !.type = watches'[i].type]

\* Loading the file again, at every activation and every session, never adds to watches
\* of the same project, symbol and type that are there already
\* (DBG_DAP_Watches::AddWatch, "don't add duplicate watch").
LoadAddsNoTwin ==
  [][acts' = acts /\ ~Retyped =>
       \A w \in ToSet(watches') : Twins(watches', w) <= 1 \/
                                   Twins(watches', w) <= Twins(watches, w)]_vars

\* A watch belongs to an open project, or was made when m_pProject was none or one
\* that had been closed: closing a project leaves none of its watches behind
\* (DBG_DAP_Watches::CleanupWhenProjectClosed).
NoneLeftBehind ==
  \A i \in DOMAIN watches : watches[i].project \in Open \cup {Null} \cup strays

=============================================================================
