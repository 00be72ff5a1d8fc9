----------------------------- MODULE MCPersist ------------------------------
(* A small instance of Persist: two projects, which are alike, as are the *)
(* addresses at which their objects may lie.                               *)
EXTENDS Persist

\* The watch becomes an array of four elements, in the format whose number is 3, Hex, or
\* loses its symbol.
MCEdits == {[symbol |-> "x", format |-> 3, array |-> TRUE, range |-> <<0, 4>>],
            [symbol |-> "", format |-> 0, array |-> FALSE, range |-> <<-1, -1>>]}

Symmetry == Permutations(Projects) \cup Permutations(Addresses)

=============================================================================
