------------------------------ MODULE MCJsonRpc ------------------------------
(* Scripts for the model checker. *)
EXTENDS JsonRpc

Msg(body) == [header |-> TRUE, json |-> TRUE, body |-> body]

\* A conforming adapter, and every body in one-byte characters.
Narrow == <<Msg(<<"n", "n">>), Msg(<<"n">>), Msg(<<"n", "n", "n">>)>>

\* One message with a two-byte character among others.
Wide == <<Msg(<<"n", "lead", "cont">>), Msg(<<"n">>)>>

\* A message whose header lacks Content-Length.
NoLength == <<Msg(<<"n">>), [Msg(<<"n">>) EXCEPT !.header = FALSE], Msg(<<"n">>)>>

\* All of it, with a body that is not JSON and one that is empty.
Mixed == <<Msg(<<"n">>), [Msg(<<"n">>) EXCEPT !.json = FALSE],
           Msg(<<"lead", "cont">>), Msg(<<"n", "n">>),
           [Msg(<<"n">>) EXCEPT !.header = FALSE], Msg(<<>>)>>

=============================================================================
