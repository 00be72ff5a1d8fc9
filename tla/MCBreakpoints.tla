---------------------------- MODULE MCBreakpoints ----------------------------
(* Files, breakpoint objects and ids are interchangeable. *)
EXTENDS Breakpoints, TLC

Symmetry == Permutations(File) \cup Permutations(Object) \cup Permutations(Id)

MCLine == 1 .. 2
MCShifts == {-1, 1}
MCDrift == {0, 1}

=============================================================================
