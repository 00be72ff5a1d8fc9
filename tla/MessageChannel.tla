---------------------------- MODULE MessageChannel ----------------------------
(***************************************************************************)
(* What the framing layer promises to the client: the adapter writes the   *)
(* messages 1 .. Total, and the client's OnMessage is called once for      *)
(* each of them, in that order, and only after it was written.             *)
(***************************************************************************)
EXTENDS Naturals, Sequences

CONSTANT Total   \* number of messages

VARIABLES
  written,       \* messages the adapter has written
  delivered      \* messages OnMessage was called for, in order

Init == written = 0 /\ delivered = <<>>

Write ==
  /\ written < Total
  /\ written' = written + 1
  /\ UNCHANGED delivered

Deliver ==
  /\ Len(delivered) < written
  /\ delivered' = Append(delivered, Len(delivered) + 1)
  /\ UNCHANGED written

Next == Write \/ Deliver

Spec == Init /\ [][Next]_<<written, delivered>> /\ WF_<<written, delivered>>(Deliver)

=============================================================================
