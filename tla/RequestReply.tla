----------------------------- MODULE RequestReply -----------------------------
(***************************************************************************)
(* What dap::Client promises to whoever asks it questions: every answer of *)
(* the debug adapter is reported with what was asked, once, until a reset  *)
(* forgets the questions that are open.                                    *)
(*                                                                         *)
(* A kind of question is shared when some of its questions are asked       *)
(* without a label.  Of these nothing tells the answers apart: each answer *)
(* of the kind is reported with the oldest label not given yet, as long as *)
(* there is one, so that a label is given once and none out of its turn.   *)
(***************************************************************************)
EXTENDS Naturals, Sequences

CONSTANTS
  Number,   \* the numbers of questions: a set of natural numbers
  Kind,     \* kinds of questions
  Shared,   \* kinds that are also asked without a label
  Subject,  \* what a question is about
  NoLabel   \* the subject of a report when there is no label

Question == [seq : Number, kind : Kind, tag : Subject]

VARIABLES
  open,     \* questions asked and not answered
  labels,   \* of the shared kinds: labels not given to an answer
  report    \* the last report: its question and the subject it was given

vars == <<open, labels, report>>

NoLabels == [k \in Shared |-> <<>>]

Init == open = {} /\ labels = NoLabels /\ report = [seq |-> 0]

Ask(q) ==
  /\ \A o \in open : o.seq < q.seq
  /\ open' = open \cup {q}
  /\ labels' = [k \in Shared |-> IF k = q.kind THEN Append(labels[k], q.tag) ELSE labels[k]]
  /\ UNCHANGED report

AskUnlabelled(q) ==
  /\ q.kind \in Shared
  /\ \A o \in open : o.seq < q.seq
  /\ open' = open \cup {q}
  /\ UNCHANGED <<labels, report>>

Label(q) ==
  IF q.kind \notin Shared THEN q.tag
  ELSE IF labels[q.kind] = <<>> THEN NoLabel ELSE Head(labels[q.kind])

Answer(q) ==
  /\ open' = open \ {q}
  /\ labels' = [k \in Shared |-> IF k = q.kind /\ labels[k] # <<>> THEN Tail(labels[k])
                                 ELSE labels[k]]
  /\ report' = [seq |-> q.seq, kind |-> q.kind, tag |-> q.tag, label |-> Label(q)]

Forget == open' = {} /\ labels' = NoLabels /\ UNCHANGED report

Next ==
  \/ \E q \in Question : Ask(q) \/ AskUnlabelled(q)
  \/ \E q \in open : Answer(q)
  \/ Forget

Spec == Init /\ [][Next]_vars

=============================================================================
