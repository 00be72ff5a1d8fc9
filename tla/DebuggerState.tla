---------------------------- MODULE DebuggerState ----------------------------
(***************************************************************************)
(* The class Debugger_State: one static bit mask with four flags that the  *)
(* plugin consults before almost every operation.  The mask is the set of  *)
(* its flags; AddState and RemoveState are functions from masks to masks.  *)
(***************************************************************************)

Flag == {"NotConnected", "Connected", "Stopped", "Running"}

IsRunning(s)   == "Running" \in s
IsStopped(s)   == "Stopped" \in s
IsConnected(s) == "Connected" \in s
IsBusy(s)      == IsConnected(s) /\ IsRunning(s) /\ ~IsStopped(s)

\* Mutant: removing Connected leaves the other flags alone.
RemoveState_Alone(s, f) == s \ {f}

\* Losing the connection also ends the run and marks the debugger stopped.
RemoveState(s, f) ==
  IF f = "Connected" THEN (s \ {"Connected", "Running"}) \cup {"Stopped"}
                     ELSE s \ {f}

\* The mask that AddState has computed before its last line: Running cannot be
\* added without Connected, and Connected displaces NotConnected.
Linked(s, f) ==
  LET added == s \cup {f}
  IN  IF IsConnected(added)
      THEN RemoveState(added, "NotConnected")
      ELSE RemoveState(RemoveState(added, "Connected"), "Running") \cup {"Stopped"}

\* The last line of AddState: a mask that is busy loses Stopped (which a busy
\* mask does not have).
AddState(s, f) ==
  LET linked == Linked(s, f)
  IN  IF IsBusy(linked) THEN RemoveState(linked, "Stopped") ELSE linked

\* The mask after the plugin's constructor: the static initial value
\* NotConnected, then RemoveState(Connected).
InitialState == RemoveState({"NotConnected"}, "Connected")

=============================================================================
