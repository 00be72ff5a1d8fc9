----------------------------- MODULE MCDapClient -----------------------------
(* Threads, frames, references and files are interchangeable. *)
EXTENDS DapClient, TLC

Symmetry == Permutations(Id)

=============================================================================
