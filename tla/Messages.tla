------------------------------- MODULE Messages -------------------------------
(***************************************************************************)
(* The messages of the protocol library: which JSON keys the To() of every *)
(* class writes, which keys its From() reads and with which getter, what a *)
(* field holds when its key is missing, and how ObjGenerator::FromJSON     *)
(* finds the class of a message that arrives.                              *)
(*                                                                         *)
(* A class is a set of rows, one per C++ field.  A row says where the      *)
(* field is in the object, which key the protocol gives it, where To()     *)
(* writes it, where From() reads it, the JSON type, and what From() leaves *)
(* when the key is absent (miss) or present but not what the getter        *)
(* accepts (bad).  The value that a new object has is declared apart, in   *)
(* Declared, so that the two can differ.  Objects and messages             *)
(* are functions from paths to values; the elements of a list are rows     *)
(* that live only when the list is that long.                              *)
(*                                                                         *)
(* Abstracted: values are a few representatives per type, lists have at    *)
(* most two elements, and the text between the two ends is the Json value  *)
(* itself (JsonRpc models its framing).                                    *)
(***************************************************************************)
EXTENDS Naturals, Sequences, FiniteSets, TLC

CONSTANTS
  MaxChanges,  \* bound: fields set and keys left out of one message
  NoPath       \* the path of a key that is not written or not read

VARIABLES
  class,   \* the class of the message that is under way
  object,  \* its C++ object at the sender: field path -> value
  stage,   \* "built", "sent" or "read"
  author,  \* who wrote the message: "library" or "adapter"
  wire,    \* the Json value: key path -> [t, v]
  omitted, \* the keys that the peer left out
  got      \* what FromJSON returned: [class, object]

vars == <<class, object, stage, author, wire, omitted, got>>

-----------------------------------------------------------------------------
(* Rows                                                                     *)

\* The key of the protocol is the name that dap.hpp gives to the field, inside the
\* members that it is in; To() and From() are written with the same name or not.
Row(owner, name, json, miss) ==
  [owner |-> owner, name |-> name, field |-> <<name>>, key |-> <<name>>, out |-> <<name>>,
   in |-> <<name>>, json |-> json, read |-> json, miss |-> miss, bad |-> miss,
   when |-> "always", lists |-> {}]

Rows(names, json, miss) == {Row("", n, json, miss) : n \in names}
Str(names)  == Rows(names, "string", "")
Int(names)  == Rows(names, "number", "-1")
Bool(names) == Rows(names, "bool", "FALSE")

Alter(rows, attr, value) == {[r EXCEPT ![attr] = value] : r \in rows}
OutOnly(rows)       == Alter(rows, "in", NoPath)
InOnly(rows)        == Alter(rows, "out", NoPath)
Silent(rows)        == InOnly(OutOnly(rows))
When(rows, cond)    == Alter(rows, "when", cond)
Else(rows, default) == Alter(Alter(rows, "miss", default), "bad", default)

\* Fields that the client fills in itself: no key of a message.
Labels(rows) == Alter(Silent(rows), "key", NoPath)

\* Fields whose key has another name.
Keyed(key, rows) == {[r EXCEPT !.key = key, !.out = key, !.in = key] : r \in rows}

Owned(owner, rows) == {[r EXCEPT !.owner = IF @ = "" THEN owner ELSE @] : r \in rows}

Within(key, path) == IF path = NoPath THEN NoPath ELSE <<key>> \o path

Inside(f, k, r) ==
  [r EXCEPT !.field = IF f = "" THEN @ ELSE Within(f, @), !.key = Within(k, @),
            !.out = Within(k, @), !.in = Within(k, @),
            !.lists = {[l EXCEPT !.field = IF f = "" THEN l.field ELSE Within(f, l.field),
                                 !.out = Within(k, l.out), !.in = Within(k, l.in)] : l \in @}]

\* Rows whose keys are inside the object k of the message.
In(k, rows) == {Inside("", k, r) : r \in rows}

\* The rows of a member n of struct type.
Struct(n, rows) == {Inside(n, n, r) : r \in rows}

\* A member n that is a vector: its length, and the rows of its elements.  The protocol
\* calls it key, and it is written and read at out and in.
ListAt(n, key, out, in, rows) ==
  LET length == [Row("", n, "array", "0") EXCEPT !.key = <<key>>, !.out = <<out>>, !.in = <<in>>]
      Element(i, r) ==
        [Inside(i, i, r) EXCEPT
           !.field = Within(n, @), !.key = Within(key, @),
           !.out = Within(out, @), !.in = Within(in, @),
           !.lists = {[field |-> <<n>>, out |-> <<out>>, in |-> <<in>>, least |-> i]} \cup
                     {[field |-> Within(n, l.field), out |-> Within(out, l.out),
                       in |-> Within(in, l.in), least |-> l.least] : l \in @}]
  IN  {length} \cup {Element(i, r) : i \in {"1", "2"}, r \in rows}
List(n, rows) == ListAt(n, n, n, n, rows)
Strings(n) == List(n, Keyed(<<>>, {[r EXCEPT !.field = <<>>] : r \in Str({""})}))

Reaches(length, least) == length = "2" \/ length = least

-----------------------------------------------------------------------------
(* The tables of dap.cpp: what To() writes and From() reads                 *)

MessageRows == Owned("ProtocolMessage", Int({"seq"}))

BaseRows ==
  LET Response == MessageRows \cup
        Owned("Response", Int({"request_seq"}) \cup Bool({"success"}) \cup Str({"message"}))
  IN  [request |-> MessageRows, event |-> MessageRows, response |-> Response]

\* CancelRequest::From reads the object "arguments" itself as an integer, so it
\* never finds the request id.
CancelRows ==
  [CancelRequest |-> Owned("CancelRequest", In("arguments", OutOnly(Int({"requestId"}))))]

\* An event without text carries the whole message as its text.
EventRows ==
  [InitializedEvent |-> Owned("InitializedEvent", {}),
   StoppedEvent     |-> Owned("StoppedEvent", In("body",
                          Str({"reason", "description"}) \cup Bool({"allThreadsStopped"}) \cup
                          Int({"threadId"}) \cup
                          Alter(Else(Str({"text"}), "whole"), "read", "orWhole"))),
   ContinuedEvent   |-> Owned("ContinuedEvent", In("body",
                          Int({"threadId"}) \cup Bool({"allThreadsContinued"}))),
   ExitedEvent      |-> Owned("ExitedEvent", In("body", Int({"exitCode"}))),
   TerminatedEvent  |-> Owned("TerminatedEvent", {}),
   ThreadEvent      |-> Owned("ThreadEvent", In("body", Str({"reason"}) \cup Int({"threadId"}))),
   OutputEvent      |-> Owned("OutputEvent", In("body", Str({"category", "output"})))]

SourceRows ==
  Owned("Source", Str({"name"}) \cup When(Str({"path"}), "nonempty") \cup
                  When(Else(Int({"sourceReference"}), "0"), "positive"))
Positions == Int({"line", "column", "endLine", "endColumn"})

FrameRows ==
  LET src == Struct("source", SourceRows)
      bp  == Owned("Breakpoint", Int({"id"}) \cup Positions \cup Bool({"verified"}) \cup
                                 Str({"message"}) \cup src)
  IN  [StackFrame |-> Owned("StackFrame", Str({"name", "instructionPointerReference"}) \cup
                            Int({"id", "line"}) \cup src),
       Breakpoint |-> bp,
       BreakpointEvent |-> Owned("BreakpointEvent", In("body",
                             Str({"reason"}) \cup Struct("breakpoint", bp))),
       ProcessEvent |-> Owned("ProcessEvent", In("body",
                             Str({"name", "startMethod"}) \cup
                             Int({"systemProcessId", "pointerSize"}) \cup
                             Else(Bool({"isLocalProcess"}), "TRUE")))]

\* The first line of a location is looked for under "restart", and its last
\* line is not read at all.
LocationRows ==
  LET place == Alter(Int({"line"}), "in", <<"restart">>) \cup OutOnly(Int({"endLine"})) \cup
               Int({"column", "endColumn"})
      unset == InOnly(Alter(Str({"description", "conditionDescription"}), "miss", "unset"))
  IN  [BreakpointLocationsRequest |-> Owned("BreakpointLocationsRequest",
         Struct("arguments", Owned("BreakpointLocationsArguments",
                                   place \cup Struct("source", SourceRows)))),
       StepArguments |-> Owned("StepArguments",
         Int({"threadId"}) \cup Else(Bool({"singleThread"}), "TRUE") \cup
         Else(Str({"granularity"}), "line")),
       BreakpointLocation |-> Owned("BreakpointLocation", place),
       ExceptionBreakpointsFilter |-> Owned("ExceptionBreakpointsFilter",
         Str({"filter", "label"}) \cup unset \cup
         InOnly(Keyed(<<"default">>, Bool({"default_value"}))) \cup
         InOnly(Alter(Bool({"supportsCondition"}), "miss", "unset")))]

\* Of a column, wxformat, type and number (its width) are neither written nor read.
BreakpointRows ==
  LET sb == Owned("SourceBreakpoint", Int({"line"}) \cup Str({"condition"}))
      fb == Owned("FunctionBreakpoint", Str({"name", "condition"}))
  IN  [ColumnDescriptor |-> Owned("ColumnDescriptor", Str({"attributeName", "label"}) \cup
         Silent(Keyed(<<"format">>, Str({"wxformat"})) \cup Str({"type"}) \cup
                Keyed(<<"width">>, Int({"number"})))),
       Thread |-> Owned("Thread", Int({"id"}) \cup Str({"name"})),
       BreakpointLocationsResponse |-> Owned("BreakpointLocationsResponse",
         Labels(Str({"filepath"})) \cup
         In("body", List("breakpoints", LocationRows.BreakpointLocation))),
       FunctionBreakpoint |-> fb,
       SetBreakpointsArguments |-> Owned("SetBreakpointsArguments",
         Struct("source", SourceRows) \cup List("breakpoints", sb))]

InitializeRows ==
  [InitializeRequest |-> Owned("InitializeRequest", Struct("arguments",
     Owned("InitializeRequestArguments",
       Str({"clientID", "clientName", "adapterID", "locale", "pathFormat"}) \cup
       Bool({"linesStartAt1", "columnsStartAt1", "supportsVariableType",
             "supportsVariablePaging", "supportsRunInTerminalRequest",
             "supportsMemoryReferences", "supportsProgressReporting",
             "supportsInvalidatedEvent", "supportsMemoryEvent",
             "supportsArgsCanBeInterpretedByShell"}))))]

\* The members of Capabilities that are read; each holds nothing until it is set.
CapabilityFlags ==
  {"supportsBreakpointLocationsRequest", "supportsCancelRequest",
   "supportsClipboardContext", "supportsCompletionsRequest",
   "supportsConditionalBreakpoints", "supportsConfigurationDoneRequest",
   "supportsDataBreakpoints", "supportsDelayedStackTraceLoading",
   "supportsDisassembleRequest", "supportsGotoTargetsRequest",
   "supportsEvaluateForHovers", "supportsExceptionFilterOptions",
   "supportsExceptionInfoRequest", "supportsExceptionOptions",
   "supportsFunctionBreakpoints", "supportsHitConditionalBreakpoints",
   "supportsInstructionBreakpoints", "supportsLoadedSourcesRequest",
   "supportsLogPoints", "supportsModulesRequest", "supportsRestartFrame",
   "supportsRestartRequest", "supportsSetExpression", "supportsSetVariable",
   "supportsSingleThreadExecutionRequests", "supportsStepBack",
   "supportsStepInTargetsRequest", "supportsSteppingGranularity",
   "supportsTerminateRequest", "supportsTerminateThreadsRequest",
   "supportSuspendDebuggee", "supportsValueFormattingOptions",
   "supportsWriteMemoryRequest", "supportsReadMemoryRequest",
   "supportTerminateDebuggee"}

CapabilityLists ==
  {"exceptionBreakpointFilters", "completionTriggerCharacters", "additionalModuleColumns",
   "supportedChecksumAlgorithms"}

\* InitializeResponse::To writes an empty body.  A capability whose key is absent stays
\* as it is, which is unset, and one that is not true reads as false.  The checksum
\* algorithms are not read.
CapabilityRows ==
  LET flags == Bool(CapabilityFlags)
      lists == List("exceptionBreakpointFilters", LocationRows.ExceptionBreakpointsFilter) \cup
               Strings("completionTriggerCharacters") \cup
               List("additionalModuleColumns", BreakpointRows.ColumnDescriptor)
      untouched == {r \in flags \cup lists : r.lists = {}}
  IN  [InitializeResponse |-> Owned("Capabilities", In("body", InOnly(
         Alter(untouched, "miss", "unset") \cup (lists \ untouched) \cup
         Silent(Rows({"supportedChecksumAlgorithms"}, "array", "0")))))]

\* The environment is written as a dictionary, as a list or not at all, and only
\* a list is read.
AckRows ==
  [ConfigurationDoneRequest |-> Owned("ConfigurationDoneRequest", {}),
   EmptyAckResponse |-> Owned("EmptyAckResponse", {}),
   Environment |-> Owned("Environment",
     {[Row("", "env", "environment", "empty") EXCEPT !.when = "accepted"]})]

LaunchRows ==
  LET acks == [c \in {"ConfigurationDoneResponse", "LaunchResponse", "AttachResponse",
                      "DisconnectResponse", "TerminateResponse", "NextResponse",
                      "PauseResponse"} |-> AckRows.EmptyAckResponse]
  IN  [AttachResponse |-> Owned("AttachResponse", Labels(Str({"jsonDump"})))] @@ acks @@
      [LaunchRequest |-> Owned("LaunchRequest", Struct("arguments", Owned("LaunchRequestArguments",
         Bool({"noDebug"}) \cup Str({"program", "cwd"}) \cup Strings("args") \cup
         AckRows.Environment))),
       AttachRequest |-> Owned("AttachRequest", Struct("arguments",
         Owned("AttachRequestArguments", Int({"pid"})))),
       DisconnectRequest |-> Owned("DisconnectRequest", In("arguments",
         Bool({"restart"}) \cup Else(Bool({"terminateDebuggee"}), "TRUE"))),
       TerminateRequest |-> Owned("TerminateRequest", Struct("arguments",
         Owned("TerminateArguments", Bool({"restart"}))))]

\* Exception filters are read back as JSON text, with their quotes; the options of
\* filters and exceptions are neither written nor read.
SetBreakpointRows ==
  LET arguments == BreakpointRows.SetBreakpointsArguments
      filters   == {IF r.lists = {} THEN r ELSE [r EXCEPT !.read = "text"] : r \in Strings("filters")}
  IN  [SetBreakpointsRequest |-> Owned("SetBreakpointsRequest", Struct("arguments", arguments)),
       SetExceptionBreakpointsRequest |-> Owned("SetExceptionBreakpointsRequest",
         Struct("arguments", Owned("SetExceptionBreakpointsArguments", filters \cup
           Silent(Rows({"filterOptions", "exceptionOptions"}, "array", "0"))))),
       SetFunctionBreakpointsRequest |-> Owned("SetFunctionBreakpointsRequest",
         Struct("arguments", Owned("SetFunctionBreakpointsArguments",
                                   List("breakpoints", BreakpointRows.FunctionBreakpoint)))),
       ContinueArguments |-> Owned("ContinueArguments", Int({"threadId"}) \cup Bool({"singleThread"})),
       NextArguments |-> Owned("NextArguments",
         Int({"threadId"}) \cup Bool({"singleThread"}) \cup Str({"granularity"}))]

\* ContinueResponse reads a boolean as a number: -1, hence true.
RunRows ==
  LET step == Struct("arguments", LocationRows.StepArguments)
      breakpoints == In("body", List("breakpoints", FrameRows.Breakpoint)) \cup
                     Labels(Str({"originSource"}))
  IN  [ContinueRequest |-> Owned("ContinueRequest",
                               Struct("arguments", SetBreakpointRows.ContinueArguments)),
       NextRequest |-> Owned("NextRequest", Struct("arguments", SetBreakpointRows.NextArguments)),
       StepRequest    |-> Owned("StepRequest", step),
       StepInRequest  |-> Owned("StepInRequest", step),
       StepOutRequest |-> Owned("StepOutRequest", step),
       ThreadsRequest |-> Owned("ThreadsRequest", {}),
       ContinueResponse |-> Owned("ContinueResponse", In("body",
         Else(Alter(Bool({"allThreadsContinued"}), "read", "number"), "TRUE"))),
       SetBreakpointsResponse |-> Owned("SetBreakpointsResponse", breakpoints),
       SetFunctionBreakpointsResponse |-> Owned("SetBreakpointsResponse", breakpoints),
       ThreadsResponse |-> Owned("ThreadsResponse", In("body", List("threads", BreakpointRows.Thread)))]

ScopeRows ==
  LET hint == Owned("VariablePresentationHint",
                    Str({"kind", "visibility"}) \cup Strings("attributes"))
      refId == Labels(Int({"refId"}))
  IN  [Variable |-> Owned("Variable", Str({"name", "value", "type"}) \cup
                          Int({"variablesReference"}) \cup Struct("presentationHint", hint)),
       ScopesRequest |-> Owned("ScopesRequest", Struct("arguments",
                           Owned("ScopesArguments", Int({"frameId"})))),
       ScopesResponse |-> Owned("ScopesResponse", refId \cup In("body", List("scopes",
         Owned("Scope", Str({"name"}) \cup Int({"variablesReference"}) \cup Bool({"expensive"})))))]

\* startFrame, levels, start and filter are neither written nor read.
StackRows ==
  LET refId  == Labels(Int({"refId"}))
      format == Struct("format", Owned("ValueFormat", Bool({"hex"})))
  IN  [ValueFormat |-> format,
       StackTraceRequest |-> Owned("StackTraceRequest", Struct("arguments",
         Owned("StackTraceArguments", Int({"threadId"}) \cup Silent(Int({"startFrame", "levels"}))))),
       VariablesRequest |-> Owned("VariablesRequest", Struct("arguments",
         Owned("VariablesArguments", Int({"variablesReference"}) \cup Else(Int({"count"}), "0") \cup
           format \cup Silent(Int({"start"}) \cup Str({"filter"}))))),
       StackTraceResponse |-> Owned("StackTraceResponse", refId \cup
         In("body", List("stackFrames", FrameRows.StackFrame))),
       VariablesResponse |-> Owned("VariablesResponse",
         refId \cup Labels(Rows({"context"}, "context", "VARIABLES")) \cup In("body", List("variables", ScopeRows.Variable)))]

SourceRequestRows ==
  [PauseRequest |-> Owned("PauseRequest", Struct("arguments",
     Owned("PauseArguments", Else(Int({"threadId"}), "0")))),
   RunInTerminalRequest |-> Owned("RunInTerminalRequest", Struct("arguments",
     Owned("RunInTerminalRequestArguments", Str({"kind", "title"}) \cup Strings("args")))),
   RunInTerminalResponse |-> Owned("RunInTerminalResponse", In("body", Int({"processId"}))),
   SourceRequest |-> Owned("SourceRequest", Struct("arguments", Owned("SourceArguments",
     Struct("source", SourceRows) \cup When(Else(Int({"sourceReference"}), "0"), "positive")))),
   SourceResponse |-> Owned("SourceResponse", In("body", Str({"content", "mimeType"})))]

\* The id of a module is a number or a string in the message.
EvaluateRows ==
  [EvaluateRequest |-> Owned("EvaluateRequest", Struct("arguments", Owned("EvaluateArguments",
     Str({"expression"}) \cup When(Int({"frameId"}), "positive") \cup
     Else(Str({"context"}), "hover") \cup StackRows.ValueFormat))),
   EvaluateResponse |-> Owned("EvaluateResponse", In("body",
     Str({"result", "type"}) \cup Int({"variablesReference"}))),
   ModuleEvent |-> Owned("ModuleEvent", In("body", Str({"reason"}) \cup
     Struct("module", Owned("Module", Alter(Str({"id"}), "read", "either") \cup
       Str({"name", "path", "version", "symbolStatus", "symbolFilePath",
            "dateTimeStamp", "addressRange"}) \cup Bool({"isOptimized", "isUserCode"}))))),
   DebugpyWaitingForServerEvent |-> Owned("DebugpyWaitingForServerEvent",
     In("body", Str({"host"}) \cup Int({"port"})))]

\* The arguments of disassemble, goto and gotoTargets are never read.  The name and the
\* path of an instruction are in its location; To() writes them beside it.
DisassembleRows ==
  LET info == Str({"address"}) \cup Int({"column"}) \cup
              InOnly(Str({"instruction", "instructionBytes"}) \cup Int({"line"})) \cup
              {[r EXCEPT !.key = Within("location", @), !.in = Within("location", @)] :
                 r \in Str({"name", "path"})}
  IN  [DisassembleRequest |-> Owned("DisassembleRequest", Struct("arguments",
         Owned("DisassembleArguments", OutOnly(Str({"memoryReference"}) \cup
           Int({"offset", "instructionOffset", "instructionCount"}) \cup Bool({"resolveSymbols"}))))),
       DisassembleResponse |-> Owned("DisassembleResponse", In("body",
         Silent(Str({"result", "type"})) \cup
         ListAt("disassembleInfo", "instructions", "instructions", "instructions",
                Owned("DisassembleInfo", info)))),
       GotoRequest |-> Owned("GotoRequest", Struct("arguments",
         Owned("GotoArguments", OutOnly(Int({"threadId", "targetId"}))))),
       GotoResponse |-> Owned("GotoResponse", {})]

\* The targets are written as "gotoTargets" and read as "targets".
GotoTargetRows ==
  LET info == Owned("GotoTargetsInfo", Int({"id"}) \cup Positions \cup
                    Str({"label", "instructionPointerReference"}))
  IN  [GotoTargetsRequest |-> Owned("GotoTargetsRequest", Struct("arguments",
         OutOnly(Owned("GotoTargetsArguments", Int({"line", "column"}) \cup
           Silent(Int({"threadId"})) \cup Struct("source", SourceRows))))),
       GotoTargetsResponse |-> Owned("GotoTargetsResponse", In("body",
         Silent(Str({"result", "type"})) \cup
         ListAt("gotoTargetsInfo", "targets", "gotoTargets", "targets", info))),
       ReadMemoryRequest |-> Owned("ReadMemoryRequest", Struct("arguments",
         Owned("ReadMemoryArguments", Str({"memoryReference"}) \cup Int({"offset", "count"})))),
       ReadMemoryResponse |-> Owned("ReadMemoryResponse", In("body",
         Str({"address", "data"}) \cup Int({"unreadableBytes"})))]

-----------------------------------------------------------------------------
(* The declarations of dap.hpp: kind and name of a class, and the fields    *)
(* whose declared value is not the usual one of their type.  A wxAny is     *)
(* declared unset, and an int without an initialiser holds anything.        *)

Indeterminate == "indeterminate"
Unset(names) == [n \in names |-> "unset"]

Entry(kind, name, dflt) == [kind |-> kind, name |-> name, dflt |-> dflt]
Request(name)  == Entry("request", name, <<>>)
Response(name) == Entry("response", name, <<>>)
Event(name)    == Entry("event", name, <<>>)
Plain(dflt)    == Entry("none", "", dflt)

BaseDeclared ==
  [CancelRequest    |-> Request("cancel"),
   Response         |-> Plain([success |-> "TRUE"]),
   CancelResponse   |-> Response("cancel"),
   InitializedEvent |-> Event("initialized"),
   StoppedEvent     |-> Event("stopped"),
   ContinuedEvent   |-> Entry("event", "continued", [allThreadsContinued |-> "TRUE"]),
   ExitedEvent      |-> Entry("event", "exited", [exitCode |-> "0"]),
   TerminatedEvent  |-> Event("terminated"),
   ThreadEvent      |-> Entry("event", "thread", [threadId |-> "0"])]

SourceDeclared ==
  [OutputEvent     |-> Event("output"),
   Source          |-> Plain([sourceReference |-> "0"]),
   ModuleEvent     |-> Event("module"),
   BreakpointEvent |-> Event("breakpoint")]

InitializeDeclared ==
  [ProcessEvent |-> Entry("event", "process", [isLocalProcess |-> "TRUE", pointerSize |-> "8"]),
   InitializeRequestArguments |-> Plain([locale |-> "en-US", pathFormat |-> "path"]),
   InitializeRequest |-> Request("initialize")]

CapabilityDeclared ==
  [ColumnDescriptor |-> Plain(Unset({"wxformat", "type", "number"})),
   ExceptionBreakpointsFilter |->
     Plain(Unset({"description", "default_value", "supportsCondition", "conditionDescription"})),
   Capabilities |-> Plain(Unset(CapabilityFlags \cup CapabilityLists))]

AckDeclared ==
  [InitializeResponse |-> Response("initialize"),
   ConfigurationDoneRequest |-> Request("configurationDone"),
   EmptyAckResponse |-> Response(""),
   ConfigurationDoneResponse |-> Response("configurationDone"),
   Environment |-> Plain([env |-> "empty"]),
   LaunchRequest |-> Request("launch"),
   LaunchResponse |-> Response("launch"),
   AttachRequestArguments |-> Plain([pid |-> Indeterminate]),
   AttachRequest |-> Request("attach"),
   AttachResponse |-> Response("attach"),
   DisconnectRequest |-> Entry("request", "disconnect", [terminateDebuggee |-> "TRUE"]),
   DisconnectResponse |-> Response("disconnect"),
   TerminateRequest |-> Request("terminate"),
   TerminateResponse |-> Response("terminate")]

BreakpointDeclared ==
  [StepArguments |-> Plain([singleThread |-> "TRUE", granularity |-> "line"]),
   BreakpointLocationsResponse |-> Response("breakpointLocations"),
   BreakpointLocationsRequest  |-> Request("breakpointLocations"),
   SetBreakpointsRequest  |-> Request("setBreakpoints"),
   SetBreakpointsResponse |-> Response("setBreakpoints")]

RunDeclared ==
  [SetExceptionBreakpointsArguments |-> Plain(Unset({"filterOptions", "exceptionOptions"})),
   SetExceptionBreakpointsRequest  |-> Request("setExceptionBreakpoints"),
   SetExceptionBreakpointsResponse |-> Response("setExceptionBreakpoints"),
   SetFunctionBreakpointsResponse  |-> Response("setFunctionBreakpoints"),
   SetFunctionBreakpointsRequest   |-> Request("setFunctionBreakpoints")]

StepDeclared ==
  [NextArguments    |-> Plain([granularity |-> "line", singleThread |-> "TRUE"]),
   ContinueRequest  |-> Request("continue"),
   ContinueResponse |-> Entry("response", "continue", [allThreadsContinued |-> "TRUE"]),
   NextRequest      |-> Request("next"),
   NextResponse     |-> Response("next"),
   StepRequest      |-> Request("step"),
   StepInRequest    |-> Request("stepIn"),
   StepOutRequest   |-> Request("stepOut"),
   StepResponse     |-> Response("step"),
   StepInResponse   |-> Response("stepIn"),
   StepOutResponse  |-> Response("stepOut"),
   StackFrame       |-> Plain([line |-> "0"]),
   ThreadsRequest   |-> Request("threads"),
   ThreadsResponse  |-> Response("threads")]

ScopeDeclared ==
  [Variable |-> Plain([variablesReference |-> "0"]),
   ScopesArguments |-> Plain([frameId |-> "0"]),
   ScopesRequest |-> Request("scopes"),
   Scope |-> Plain([variablesReference |-> "0"]),
   ScopesResponse |-> Response("scopes"),
   StackTraceArguments |-> Plain([threadId |-> "0", startFrame |-> "0", levels |-> "0"]),
   StackTraceRequest |-> Request("stackTrace"),
   StackTraceResponse |-> Response("stackTrace"),
   VariablesArguments |-> Plain([variablesReference |-> "0", start |-> "0", count |-> "0"])]

EvaluateDeclared ==
  [VariablesRequest  |-> Request("variables"),
   VariablesResponse |-> Response("variables"),
   PauseArguments |-> Plain([threadId |-> "0"]),
   RunInTerminalRequest  |-> Request("runInTerminal"),
   RunInTerminalResponse |-> Response("runInTerminal"),
   PauseRequest    |-> Request("pause"),
   PauseResponse   |-> Response("pause"),
   SourceArguments |-> Plain([sourceReference |-> "0"]),
   SourceRequest   |-> Request("source"),
   SourceResponse  |-> Response("source"),
   EvaluateArguments |-> Plain([context |-> "hover"]),
   EvaluateRequest |-> Request("evaluate")]

DisassembleDeclared ==
  [EvaluateResponse |-> Entry("response", "evaluate", [variablesReference |-> "0"]),
   DebugpyWaitingForServerEvent |-> Entry("event", "", [port |-> Indeterminate]),
   ReadMemoryArguments |-> Plain([offset |-> "0", count |-> "0"]),
   ReadMemoryRequest  |-> Request("readMemory"),
   ReadMemoryResponse |-> Entry("response", "readMemory", [unreadableBytes |-> "0"]),
   DisassembleArguments |-> Plain([offset |-> "0", instructionOffset |-> "0",
                                   instructionCount |-> "0", resolveSymbols |-> "TRUE"]),
   DisassembleRequest  |-> Request("disassemble"),
   DisassembleInfo |-> Plain([line |-> Indeterminate]),
   DisassembleResponse |-> Response("disassemble")]

GotoDeclared ==
  [GotoRequest  |-> Request("goto"),
   GotoResponse |-> Response("goto"),
   GotoTargetsArguments |-> Plain([column |-> "1", threadId |-> "0"]),
   GotoTargetsRequest  |-> Request("gotoTargets"),
   GotoTargetsResponse |-> Response("gotoTargets")]

Declared == BaseDeclared @@ SourceDeclared @@ InitializeDeclared @@ CapabilityDeclared @@
  AckDeclared @@ BreakpointDeclared @@ RunDeclared @@ StepDeclared @@ ScopeDeclared @@ EvaluateDeclared @@
  DisassembleDeclared @@ GotoDeclared

\* The classes that can be sent: those with a kind.
Class == {c \in DOMAIN Declared : Declared[c].kind # "none"}

RowTables == CancelRows @@ EventRows @@ FrameRows @@ LocationRows @@ BreakpointRows @@
  InitializeRows @@ CapabilityRows @@ AckRows @@ LaunchRows @@ SetBreakpointRows @@ RunRows @@
  ScopeRows @@ StackRows @@ SourceRequestRows @@ EvaluateRows @@ DisassembleRows @@ GotoTargetRows

\* The rows of a class: those of its base, and those of its own.  A class without a
\* table of its own has no body.
RowsOf(c) == BaseRows[Declared[c].kind] \cup (RowTables @@ [d \in Class |-> {}])[c]

-----------------------------------------------------------------------------
(* Objects, JSON values and the dispatch                                    *)

UsualDefault == [string |-> "", number |-> "-1", bool |-> "FALSE", array |-> "0",
                 environment |-> "empty", context |-> "VARIABLES"]
SomeValues == [string |-> {"", "x"}, number |-> {"-1", "0", "1"}, bool |-> {"FALSE", "TRUE"},
               array |-> {"0", "1", "2"},
               environment |-> {"empty", "dictionary", "list", "none"},
               context |-> {"VARIABLES", "HOVER"}]

\* The rows of every class by their field.
ByField(rows) == [f \in {r.field : r \in rows} |-> CHOOSE r \in rows : r.field = f]
Table == [c \in Class |-> ByField(RowsOf(c))]

\* What dap.hpp declares for a field, whatever From() makes of it.
Default(r) ==
  IF r.owner \in DOMAIN Declared /\ r.name \in DOMAIN Declared[r.owner].dflt
  THEN Declared[r.owner].dflt[r.name]
  ELSE UsualDefault[r.json]

DefaultObject(table) == [f \in DOMAIN table |-> Default(table[f])]
Defaults == [c \in Class |-> DefaultObject(Table[c])]

\* A new object: what is not initialised has some value x.
New(c, x) ==
  [f \in DOMAIN Defaults[c] |-> IF Defaults[c][f] = Indeterminate THEN x ELSE Defaults[c][f]]

\* A row of an element exists in objects whose list is long enough.
Live(r, o) == \A l \in r.lists : Reaches(o[l.field], l.least)

Emits(r, v) ==
  CASE r.when = "nonempty" -> v # ""
    [] r.when = "positive" -> v \notin {"-1", "0"}
    [] r.when = "accepted" -> v # "none"
    [] OTHER -> TRUE

Leaf(r, v) ==
  [t |-> IF r.json # "environment" THEN r.json ELSE IF v = "list" THEN "array" ELSE "object",
   v |-> v]

NameKey(c) == IF Declared[c].kind = "event" THEN <<"event">> ELSE <<"command">>
Header(c) == [k \in {<<"type">>, NameKey(c)} |->
                [t |-> "string", v |-> IF k = <<"type">> THEN Declared[c].kind ELSE Declared[c].name]]
HeaderKeys == {<<"type">>, <<"event">>, <<"command">>}

\* The key at which a field is written: by To(), or by an adapter, which writes the keys
\* of the protocol whatever To() writes and From() reads.
KeyOf(r, who) == IF who = "library" THEN r.out ELSE r.key

\* Mutant: of a list only the first element is written.
Writes_FirstOnly(r, o, who) ==
  /\ Live(r, o) /\ KeyOf(r, who) # NoPath /\ \A l \in r.lists : l.least = "1"
  /\ o[r.field] # "unset" /\ Emits(r, o[r.field])

Writes(r, o, who) ==
  /\ Live(r, o) /\ KeyOf(r, who) # NoPath
  /\ o[r.field] # "unset" /\ Emits(r, o[r.field])
Leaves(rows, o, who) ==
  {<<KeyOf(r, who), Leaf(r, o[r.field])>> : r \in {q \in rows : Writes(q, o, who)}}
ByKey(leaves) == [k \in {l[1] : l \in leaves} |-> (CHOOSE l \in leaves : l[1] = k)[2]]
Written(table, o, who) == ByKey(Leaves({table[f] : f \in DOMAIN o}, o, who))

Below(h, w) == [k \in DOMAIN h \cup DOMAIN w |-> IF k \in DOMAIN h THEN h[k] ELSE w[k]]

\* The key that does not name the class, with the name of a class of its kind.
Stray(c) ==
  [k \in {<<"event">>, <<"command">>} \ {NameKey(c)} |->
     [t |-> "string", v |-> IF Declared[c].kind = "event" THEN "exited" ELSE "next"]]

\* The headers of an adapter, which may give both an event and a command.
Heads(c) == {Header(c), Below(Stray(c), Header(c))}

\* What the To() of the class writes, and what an adapter writes.
To(c, o) == Below(Header(c), Written(Table[c], o, "library"))
AdapterWrites(c, o, head) == Below(head, Written(Table[c], o, "adapter"))

\* GetBool compares the pointer of the value, and not its type, with cJsonDap_False:
\* a JSON false is answered with the default.
GetBool(leaf, default) == IF leaf.t = "bool" /\ leaf.v = "TRUE" THEN "TRUE" ELSE default

GetText(leaf, default) == IF leaf.t = "string" THEN leaf.v ELSE default
GetNumber(leaf, default) == IF leaf.t = "number" THEN leaf.v ELSE default

Read(r, leaf) ==
  CASE r.read = "bool"   -> GetBool(leaf, r.bad)
    [] r.read = "string" -> GetText(leaf, r.bad)
    [] r.read = "number" -> GetNumber(leaf, r.bad)
    [] r.read = "either" -> GetNumber(leaf, GetText(leaf, r.bad))
    [] r.read = "orWhole" -> IF GetText(leaf, "") = "" THEN "whole" ELSE leaf.v
    [] r.read = "text"   -> "quoted"
    [] r.read = "array"  -> IF leaf.t = "array" THEN leaf.v ELSE "0"
    [] r.read = "environment" -> IF leaf.t = "array" THEN "list" ELSE "empty"

Length(k, w) == IF k \in DOMAIN w THEN w[k].v ELSE "0"

\* Mutant: the members of the body are looked for beside it.
Field_NoBody(r, w) ==
  LET in == IF r.in # NoPath /\ r.in[1] = "body" THEN Tail(r.in) ELSE r.in
  IN  IF in = NoPath \/ \E l \in r.lists : ~Reaches(Length(l.in, w), l.least) THEN Default(r)
      ELSE IF in \in DOMAIN w THEN Read(r, w[in]) ELSE r.miss

\* Mutant: From() reads without asking whether the key is there.
Field_Unasked(r, w) ==
  IF r.in = NoPath \/ \E l \in r.lists : ~Reaches(Length(l.in, w), l.least) THEN Default(r)
  ELSE IF r.in \in DOMAIN w THEN Read(r, w[r.in]) ELSE r.bad

\* json[key] on a message where the key is absent is a null Json, and every getter of
\* a null Json gives its default.
Field(r, w) ==
  IF r.in = NoPath \/ \E l \in r.lists : ~Reaches(Length(l.in, w), l.least) THEN Default(r)
  ELSE IF r.in \in DOMAIN w THEN Read(r, w[r.in]) ELSE r.miss

Object(table, w) == [f \in DOMAIN table |-> Field(table[f], w)]

\* Mutant: the object holds what the message mentions only.
From_Partial(c, w) ==
  [f \in {f \in DOMAIN Table[c] : Table[c][f].in \in DOMAIN w} |->
     Read(Table[c][f], w[Table[c][f].in])]

From(c, w) == Object(Table[c], w)

\* The classes that Initialize() registers: constructing a class registers it and
\* its bases.  Two are not constructed.
Registered == Class \ {"VariablesRequest", "StepResponse"}

NoClass == "none"
OneOf(found) == IF found = {} THEN NoClass ELSE CHOOSE c \in found : TRUE

\* ObjGenerator::New
Lookup(kind, name) ==
  OneOf({c \in Registered : Declared[c].kind = kind /\ Declared[c].name = name})

\* ObjGenerator::FromJSON: of the two keys for a name only that of the kind counts.
Text(k, w) == IF k \in DOMAIN w THEN w[k].v ELSE ""
ReadAs(c, w) == [class |-> c, object |-> IF c = NoClass THEN <<>> ELSE From(c, w)]

\* Mutant: a message with a command is found by its command, also when it is an event.
FromJSON_ByCommand(w) ==
  ReadAs(Lookup(Text(<<"type">>, w),
                Text(IF <<"command">> \in DOMAIN w THEN <<"command">> ELSE <<"event">>, w)),
         w)

FromJSON(w) ==
  ReadAs(Lookup(Text(<<"type">>, w),
                Text(IF Text(<<"type">>, w) = "event" THEN <<"event">> ELSE <<"command">>, w)),
         w)

-----------------------------------------------------------------------------
(* One message from its construction to its reading                         *)

Nothing == [class |-> NoClass, object |-> <<>>]

Init ==
  /\ class \in Class
  /\ \E x \in SomeValues["number"] : object = New(class, x)
  /\ stage = "built" /\ author = "library"
  /\ wire = <<>> /\ omitted = {} /\ got = Nothing

Changes ==
  Cardinality({f \in DOMAIN object : Defaults[class][f] \notin {Indeterminate, object[f]}}) +
  Cardinality(omitted)

\* The sender gives a field a value.
Set(f, v) ==
  /\ stage = "built" /\ Changes < MaxChanges
  /\ Live(Table[class][f], object)
  /\ object[f] = Defaults[class][f] /\ v # object[f]
  /\ object' = [object EXCEPT ![f] = v]
  /\ UNCHANGED <<class, stage, author, wire, omitted, got>>

\* The library writes the message (the client its requests; all classes can be
\* written by a peer that uses the library).
LibrarySends ==
  /\ stage = "built"
  /\ stage' = "sent"
  /\ wire' = To(class, object)
  /\ UNCHANGED <<class, object, author, omitted, got>>

\* An adapter writes an event or a response.
AdapterSends ==
  /\ stage = "built" /\ Declared[class].kind # "request"
  /\ stage' = "sent" /\ author' = "adapter"
  /\ \E head \in Heads(class) : wire' = AdapterWrites(class, object, head)
  /\ UNCHANGED <<class, object, omitted, got>>

\* The peer leaves a key out.
Omit(k) ==
  /\ stage = "sent" /\ Changes < MaxChanges
  /\ omitted' = omitted \cup {k}
  /\ wire' = [q \in DOMAIN wire \ {k} |-> wire[q]]
  /\ UNCHANGED <<class, object, stage, author, got>>

Receive ==
  /\ stage = "sent"
  /\ stage' = "read"
  /\ got' = FromJSON(wire)
  /\ UNCHANGED <<class, object, author, wire, omitted>>

Next ==
  \/ \E f \in DOMAIN object : \E v \in SomeValues[Table[class][f].json] : Set(f, v)
  \/ LibrarySends
  \/ AdapterSends
  \/ \E k \in DOMAIN wire : Omit(k)
  \/ Receive

Spec == Init /\ [][Next]_vars

-----------------------------------------------------------------------------
(* Properties                                                               *)

\* Every object is a function on the fields of its class, and what was received
\* is nothing or an object of a class that can be sent.
TypeOK ==
  /\ class \in Class
  /\ DOMAIN object = DOMAIN Table[class]
  /\ stage \in {"built", "sent", "read"} /\ author \in {"library", "adapter"}
  /\ \A k \in DOMAIN wire : DOMAIN wire[k] = {"t", "v"}
  /\ stage # "read" => got = Nothing
  /\ got.class \in Class \cup {NoClass}
  /\ got.class \in Class => DOMAIN got.object = DOMAIN Table[got.class]

\* The labels that the client gives to an answer, which are in no message.
ClientOnly ==
  {<<"BreakpointLocationsResponse", "filepath">>, <<"SetBreakpointsResponse", "originSource">>,
   <<"AttachResponse", "jsonDump">>, <<"ScopesResponse", "refId">>,
   <<"StackTraceResponse", "refId">>, <<"VariablesResponse", "refId">>,
   <<"VariablesResponse", "context">>}

\* The fields of the protocol that dap.hpp declares and dap.cpp neither writes nor reads.
Ignored ==
  {<<"Capabilities", "supportedChecksumAlgorithms">>} \cup
  ({"ColumnDescriptor"} \X {"wxformat", "type", "number"}) \cup
  ({"SetExceptionBreakpointsArguments"} \X {"filterOptions", "exceptionOptions"}) \cup
  ({"DisassembleResponse", "GotoTargetsResponse"} \X {"result", "type"}) \cup
  ({"StackTraceArguments"} \X {"startFrame", "levels"}) \cup
  ({"VariablesArguments"} \X {"start", "filter"})

\* A false that is answered with the default true of its getter.
FalseNotRead ==
  {<<"ProcessEvent", "isLocalProcess">>, <<"ContinueResponse", "allThreadsContinued">>,
   <<"StepArguments", "singleThread">>, <<"DisconnectRequest", "terminateDebuggee">>}

\* What does not survive the To() and the From() of the library:
\*  - what neither of them knows, a false that is not read, and the small references that
\*    To() does not write;
\*  - the body of an initialize response, which To() leaves empty;
\*  - the arguments of three requests, which From() does not read;
\*  - the targets and the place of an instruction, which are read at other keys, and single
\*    fields that one of the two sides forgets.
ArgumentsNotRead == {"DisassembleRequest", "GotoRequest", "GotoTargetsRequest"}
SmallNotWritten ==
  {<<"Source", "sourceReference">>, <<"SourceArguments", "sourceReference">>,
   <<"EvaluateArguments", "frameId">>}
OneSided ==
  {<<"CancelRequest", "requestId">>, <<"StoppedEvent", "text">>, <<"Environment", "env">>,
   <<"SetExceptionBreakpointsArguments", "">>, <<"GotoTargetsResponse", "gotoTargetsInfo">>} \cup
  ({"BreakpointLocationsArguments", "BreakpointLocation"} \X {"line", "endLine"}) \cup
  ({"DisassembleInfo"} \X {"instruction", "instructionBytes", "line", "name", "path"})

Lost(c, r, v) ==
  LET id == <<r.owner, r.name>>
  IN  \/ id \in ClientOnly \cup Ignored \cup OneSided
      \/ id \in FalseNotRead /\ v = "FALSE"
      \/ id \in SmallNotWritten /\ v \in {"-1", "0"}
      \/ c = "InitializeResponse" /\ r.owner \notin {"ProtocolMessage", "Response"}
      \/ c \in ArgumentsNotRead /\ r.field[1] = "arguments"
      \/ r.owner = "GotoTargetsInfo"

\* What an adapter says and the plugin does not get: the fields that From() ignores, a
\* false whose getter has the default true, the two lines of a breakpoint location, one
\* looked for under "restart" and one not at all, the text of a stopped event that has
\* none, and that a filter has no default.
Unheard(r, v) ==
  LET id == <<r.owner, r.name>>
  IN  \/ id \in ClientOnly \cup Ignored
      \/ id \in FalseNotRead /\ v = "FALSE"
      \/ id = <<"Source", "sourceReference">> /\ v = "-1"
      \/ id = <<"ExceptionBreakpointsFilter", "default_value">> /\ v = "unset"
      \/ id \in {<<"BreakpointLocation", "line">>, <<"BreakpointLocation", "endLine">>,
                 <<"StoppedEvent", "text">>}

\* Neither the key at which the field is read nor that of a list that it is in was left out.
Kept(r) == r.in \notin omitted /\ \A l \in r.lists : l.in \notin omitted

\* What the library writes and reads again is the same object of the same class,
\* up to the losses listed above, whatever else of the message is left out (dap.cpp: To()
\* and From() of every class, and ObjGenerator::FromJSON).
ReadBack ==
  stage = "read" /\ author = "library" /\ omitted \cap HeaderKeys = {} /\ class \in Registered =>
    /\ got.class = class
    /\ \A f \in DOMAIN object :
         Live(Table[class][f], object) /\ Kept(Table[class][f]) /\ got.object[f] # object[f] =>
           Lost(class, Table[class][f], object[f])

\* A value that an adapter sends, at the key that the protocol has for it, in an event or a
\* response of a class that Initialize() registers (all but the response to "step", which is
\* never asked for) is the value the plugin gets, up to Unheard, whatever else the adapter
\* leaves out and also when it gives both an event and a command: From() looks for every
\* other field where the protocol has it (dap.cpp: From() of every event and response).
AdapterIsHeard ==
  stage = "read" /\ author = "adapter" /\ omitted \cap HeaderKeys = {} /\ class \in Registered =>
    /\ got.class = class
    /\ \A f \in DOMAIN object :
         Live(Table[class][f], object) /\ Kept(Table[class][f]) /\ got.object[f] # object[f] =>
           Unheard(Table[class][f], object[f])

\* The fields for which From() makes something else of a missing key than dap.hpp declares:
\* another default of the getter, false instead of unset, or -1 instead of no value at all.
NotAsDeclared ==
  {<<"AttachRequestArguments", "pid">>, <<"ContinuedEvent", "allThreadsContinued">>,
   <<"DebugpyWaitingForServerEvent", "port">>, <<"DisassembleInfo", "line">>,
   <<"EvaluateResponse", "variablesReference">>,
   <<"ExceptionBreakpointsFilter", "default_value">>, <<"ExitedEvent", "exitCode">>, <<"InitializeRequestArguments", "locale">>,
   <<"InitializeRequestArguments", "pathFormat">>, <<"NextArguments", "granularity">>,
   <<"NextArguments", "singleThread">>, <<"ProcessEvent", "pointerSize">>,
   <<"ReadMemoryArguments", "count">>, <<"ReadMemoryArguments", "offset">>,
   <<"ReadMemoryResponse", "unreadableBytes">>, <<"Response", "success">>,
   <<"Scope", "variablesReference">>, <<"ScopesArguments", "frameId">>,
   <<"StackFrame", "line">>, <<"StackTraceArguments", "threadId">>,
   <<"StoppedEvent", "text">>, <<"ThreadEvent", "threadId">>, <<"Variable", "variablesReference">>}

\* A key that the peer leaves out leaves its field as dap.hpp declares it, except
\* for the fields listed above; in particular a capability that the adapter does
\* not mention stays unset, which is not the same as false.
OmittedIsDefault ==
  stage = "read" /\ got.class = class =>
    \A f \in DOMAIN object :
      LET r == Table[class][f]
      IN  r.in \in omitted /\ <<r.owner, r.name>> \notin NotAsDeclared =>
            got.object[f] = Default(r)

\* A message without its type or its name, or with a second name, is never taken for a
\* message of another kind or of another class: FromJSON drops what lost its type or its
\* name, or makes of it one of the two classes without a name.
NeverMistaken ==
  stage = "read" =>
    /\ got.class \in {class, NoClass, "EmptyAckResponse", "DebugpyWaitingForServerEvent"}
    /\ got.class # NoClass => Declared[got.class].kind = Declared[class].kind

-----------------------------------------------------------------------------
(* Facts about the tables, row by row, which say nothing of messages: TLC   *)
(* evaluates them, and the theorems about whole messages rest on them.      *)

ASSUME DistinctFields ==
  \A c \in Class : Cardinality({r.field : r \in RowsOf(c)}) = Cardinality(RowsOf(c))

\* The values of a field: those that are set, and that of a new object.
Values(r) == SomeValues[r.json] \cup ({Default(r)} \ {Indeterminate})

\* The value that a field would have if it were written and read alone.
Alone(r, v, who) ==
  IF r.in = NoPath THEN Default(r)
  ELSE IF KeyOf(r, who) = r.in /\ v # "unset" /\ Emits(r, v) THEN Read(r, Leaf(r, v)) ELSE r.miss

\* No field but f is written at the key.
Owns(table, f, key, who) == \A g \in DOMAIN table : KeyOf(table[g], who) = key => g = f

\* Nothing else is written at the key of r, nor at the keys of the lists it is in, and
\* these are always written.
Carried(table, r, who) ==
  /\ Owns(table, r.field, r.in, who)
  /\ \A l \in r.lists :
       /\ l.field \in DOMAIN table /\ l.least \in {"1", "2"}
       /\ Owns(table, l.field, l.in, who)
       /\ KeyOf(table[l.field], who) = l.in /\ l.in # NoPath
       /\ table[l.field].when = "always" /\ table[l.field].lists \subseteq r.lists

Writers(c) ==
  {who \in {"library", "adapter"} :
     c \in Registered /\ (who = "adapter" => Declared[c].kind # "request")}
Excused(c, r, v, who) == IF who = "library" THEN Lost(c, r, v) ELSE Unheard(r, v)

\* Every value of every row but the exceptions.
ASSUME RowsAreRead ==
  \A c \in Class : \A who \in Writers(c), f \in DOMAIN Table[c] :
    \A v \in Values(Table[c][f]) :
      \/ Excused(c, Table[c][f], v, who)
      \/ /\ Alone(Table[c][f], v, who) = v
         /\ Table[c][f].in = NoPath \/ Carried(Table[c], Table[c][f], who)

\* No row is written or read at a key of the header.
ASSUME HeaderIsApart ==
  /\ NoPath \notin HeaderKeys
  /\ \A c \in Class : \A f \in DOMAIN Table[c] :
       {Table[c][f].key, Table[c][f].in, Table[c][f].out} \cap HeaderKeys = {}

\* What has no initialiser is an int.
ASSUME IntsAreIndeterminate ==
  \A c \in Class : \A f \in DOMAIN Table[c] :
    Default(Table[c][f]) = Indeterminate => Table[c][f].json = "number"

\* Kind and name tell the classes apart, and two have no name.
ASSUME ClassesAreTold ==
  /\ NoClass \notin Class
  /\ \A c, d \in Class :
       Declared[c].kind = Declared[d].kind /\ Declared[c].name = Declared[d].name => c = d
  /\ \A c \in Class :
       /\ Declared[c].kind \in {"request", "event", "response"}
       /\ Declared[c].name = "" => c \in {"EmptyAckResponse", "DebugpyWaitingForServerEvent"}

\* A missing key leaves what is declared, but in the listed fields.
ASSUME MissingIsDeclared ==
  \A c \in Registered : \A f \in DOMAIN Table[c] :
    \/ Table[c][f].in = NoPath
    \/ Table[c][f].miss = Default(Table[c][f])
    \/ <<Table[c][f].owner, Table[c][f].name>> \in NotAsDeclared

=============================================================================
