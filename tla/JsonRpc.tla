------------------------------- MODULE JsonRpc -------------------------------
(***************************************************************************)
(* How the messages of the debug adapter get from the socket to            *)
(* Client::OnMessage: the reader thread reads bytes and turns each chunk   *)
(* into a string, the main thread appends the strings to the buffer of     *)
(* dap::JsonRPC and cuts messages out of it.                               *)
(*                                                                         *)
(* A header "Content-Length: <n>" CR LF CR LF is two characters here, its  *)
(* name and its end; n is known from the message it belongs to and counts  *)
(* bytes, as the adapter does.  A body is a sequence of bytes: "n" is a    *)
(* one-byte character, "lead" followed by "cont" a two-byte one.  In       *)
(* m_buffer, which holds characters, the two are one character "lead".     *)
(*                                                                         *)
(* The loop of ProcessBuffer is one action per message: its callback runs  *)
(* the handlers of the plugin, which may reset the client or open a        *)
(* message box, whose event loop enters OnDataRead and a further loop of   *)
(* ProcessBuffer on the same buffer.  The innermost loop runs.             *)
(***************************************************************************)
EXTENDS Integers, Sequences

CONSTANTS
  Script,      \* the messages an adapter writes: a sequence of records
               \*   header: has the header a Content-Length?
               \*   json:   is the body JSON?
               \*   body:   its bytes
  MaxChunk,    \* bound on the bytes read at once (4095 in the code)
  MaxPending,  \* bound on the queued chunks
  MaxResets    \* bound on the calls of Client::Reset

Part == {"name", "end", "n", "lead", "cont"}

ASSUME ScriptAssumption ==
  /\ Script \in Seq([header : BOOLEAN, json : BOOLEAN, body : Seq({"n", "lead", "cont"})])
  /\ MaxChunk \in Nat \ {0} /\ MaxPending \in Nat \ {0} /\ MaxResets \in Nat

VARIABLES
  conn,        \* the number of the connection, from 1
  written,     \* messages the adapter has written on it
  wire,        \* bytes written and not read
  chunks,      \* strings queued by CallAfter(OnDataRead)
  buffer,      \* JsonRPC::m_buffer
  loops,       \* loops of ProcessBuffer on the stack
  inCallback,  \* the innermost of them is in its callback
  delivered    \* the messages OnMessage was called for

vars == <<conn, written, wire, chunks, buffer, loops, inCallback, delivered>>

-----------------------------------------------------------------------------
(* Bytes and characters, each tagged with the message it belongs to *)

Byte == [conn : 1 .. MaxResets + 1, msg : 1 .. Len(Script), part : Part, pos : Nat]
Char == {b \in Byte : b.part # "cont"}

\* The bytes of message i.
BytesOf(c, i) ==
  LET byte(part, pos) == [conn |-> c, msg |-> i, part |-> part, pos |-> pos]
  IN  <<byte("name", 0), byte("end", 0)>>
        \o [p \in 1 .. Len(Script[i].body) |-> byte(Script[i].body[p], p)]

\* The characters of a string of bytes.
CharsOf(bytes) ==
  LET chars[i \in 0 .. Len(bytes)] ==
        IF i = 0 THEN <<>>
        ELSE IF bytes[i].part = "cont" THEN chars[i - 1] ELSE Append(chars[i - 1], bytes[i])
  IN  chars[Len(bytes)]

BodyOf(c, i) == SubSeq(CharsOf(BytesOf(c, i)), 3, Len(CharsOf(BytesOf(c, i))))

\* Mutant: every byte becomes a character.
Decode_Latin1(bytes) == bytes

\* Socket::Read converts a chunk with the locale's UTF-8: the result is empty
\* when the chunk begins or ends inside a character.
Decode(bytes) ==
  IF bytes[1].part = "cont" \/ bytes[Len(bytes)].part = "lead" THEN <<>> ELSE CharsOf(bytes)

-----------------------------------------------------------------------------
(* JsonRPC *)

\* ReadHeaders: the length of the header section, 0 if it is not complete.
HeaderSize(buf) ==
  IF \E i \in 1 .. Len(buf) : buf[i].part = "end"
  THEN CHOOSE i \in 1 .. Len(buf) :
         buf[i].part = "end" /\ \A j \in 1 .. i - 1 : buf[j].part # "end"
  ELSE 0

\* The section has a Content-Length: it is one whole header, with nothing
\* before it, and the adapter put the length there.
HasContentLength(buf) ==
  /\ HeaderSize(buf) = 2
  /\ buf[1].part = "name"
  /\ buf[1].conn = buf[2].conn /\ buf[1].msg = buf[2].msg
  /\ Script[buf[1].msg].header

\* Json::Parse: cJSON reads one value and ignores what follows it.
Parses(payload, c, i) ==
  LET body == BodyOf(c, i) IN
  /\ Script[i].json
  /\ Len(body) > 0 /\ Len(body) <= Len(payload)
  /\ SubSeq(payload, 1, Len(body)) = body

Nothing(rest) == [rest |-> rest, found |-> FALSE, payload |-> <<>>]

\* Mutant: the message found is not removed from the buffer.
DoProcessBuffer_Keeps(buf) ==
  LET size == HeaderSize(buf)
      msglen == Len(Script[buf[1].msg].body)
  IN  IF size = 0 \/ ~HasContentLength(buf) \/ size + msglen > Len(buf)
      THEN Nothing(buf)
      ELSE [rest |-> buf, found |-> TRUE, payload |-> SubSeq(buf, size + 1, size + msglen)]

\* DoProcessBuffer: what is left in m_buffer and the payload cut out of it.
\* erase(headerSize) keeps the header section and removes what follows it.
\* The length the header declares counts bytes, the buffer characters.
DoProcessBuffer(buf) ==
  LET size == HeaderSize(buf)
      msglen == Len(Script[buf[1].msg].body)
  IN  CASE size = 0 -> Nothing(buf)
        [] size > 0 /\ ~HasContentLength(buf) -> Nothing(SubSeq(buf, 1, size))
        [] size > 0 /\ HasContentLength(buf) /\ (msglen = 0 \/ size + msglen > Len(buf)) -> Nothing(buf)
        [] OTHER -> [rest |-> SubSeq(buf, size + msglen + 1, Len(buf)),
                     found |-> TRUE,
                     payload |-> SubSeq(buf, size + 1, size + msglen)]

-----------------------------------------------------------------------------
(* The state machine *)

TypeOK ==
  /\ conn \in 1 .. MaxResets + 1
  /\ written \in 0 .. Len(Script)
  /\ wire \in Seq(Byte)
  /\ chunks \in Seq(Seq(Char))
  /\ buffer \in Seq(Char)
  /\ loops \in Nat /\ inCallback \in BOOLEAN
  /\ delivered \in Seq([conn : 1 .. MaxResets + 1, msg : 1 .. Len(Script)])

Init ==
  /\ conn = 1 /\ written = 0 /\ wire = <<>>
  /\ chunks = <<>> /\ buffer = <<>> /\ loops = 0 /\ inCallback = FALSE
  /\ delivered = <<>>

\* The adapter writes its next message.
AdapterWrites ==
  /\ written < Len(Script)
  /\ written' = written + 1
  /\ wire' = wire \o BytesOf(conn, written + 1)
  /\ UNCHANGED <<conn, chunks, buffer, loops, inCallback, delivered>>

\* Events are handled and handlers run: outside ProcessBuffer or in a callback.
EventLoop == loops = 0 \/ inCallback

\* Mutant: the reader thread drops a chunk that fills its buffer.
ReaderReads_DropsFull ==
  /\ wire # <<>> /\ Len(chunks) < MaxPending
  /\ \E k \in 1 .. MaxChunk :
       /\ k <= Len(wire)
       /\ wire' = SubSeq(wire, k + 1, Len(wire))
       /\ chunks' = IF k = MaxChunk THEN chunks ELSE Append(chunks, Decode(SubSeq(wire, 1, k)))
  /\ UNCHANGED <<conn, written, buffer, loops, inCallback, delivered>>

\* The reader thread: SocketTransport::Read gets some of the bytes that have
\* arrived, and OnDataRead is queued unless their string is empty.
ReaderReads ==
  /\ wire # <<>> /\ Len(chunks) < MaxPending
  /\ \E k \in 1 .. MaxChunk :
       LET string == Decode(SubSeq(wire, 1, k)) IN
       /\ k <= Len(wire)
       /\ wire' = SubSeq(wire, k + 1, Len(wire))
       /\ chunks' = IF string = <<>> THEN chunks ELSE Append(chunks, string)
  /\ UNCHANGED <<conn, written, buffer, loops, inCallback, delivered>>

\* Mutant: the string replaces what is left of the previous ones.
OnDataRead_Overwrites ==
  /\ EventLoop /\ chunks # <<>>
  /\ chunks' = Tail(chunks)
  /\ buffer' = Head(chunks)
  /\ loops' = loops + 1 /\ inCallback' = FALSE
  /\ UNCHANGED <<conn, written, wire, delivered>>

\* OnDataRead: the string is appended and ProcessBuffer starts its loop.
OnDataRead ==
  /\ EventLoop /\ chunks # <<>>
  /\ chunks' = Tail(chunks)
  /\ buffer' = buffer \o Head(chunks)
  /\ loops' = loops + 1 /\ inCallback' = FALSE
  /\ UNCHANGED <<conn, written, wire, delivered>>

\* One turn of the loop of ProcessBuffer.  It ends when there is no message, or
\* one that is not JSON; a loop below is still in its callback then.
ProcessBuffer ==
  LET result == DoProcessBuffer(buffer)
      first == result.payload[1]
      isOK == result.found /\ first.pos = 1 /\ Parses(result.payload, first.conn, first.msg)
  IN
  /\ loops > 0
  /\ buffer' = result.rest
  /\ loops' = IF isOK THEN loops ELSE loops - 1
  /\ inCallback' = (isOK \/ loops > 1)
  /\ delivered' = IF isOK
                  THEN Append(delivered, [conn |-> first.conn, msg |-> first.msg])
                  ELSE delivered
  /\ UNCHANGED <<conn, written, wire, chunks>>

\* Client::Reset, from a handler or from a message's callback, and a new
\* connection: m_rpc is cleared, the strings already queued are not.
Reset ==
  /\ EventLoop /\ conn <= MaxResets
  /\ conn' = conn + 1
  /\ written' = 0 /\ wire' = <<>>
  /\ buffer' = <<>>
  /\ UNCHANGED <<chunks, loops, inCallback, delivered>>

Next == AdapterWrites \/ ReaderReads \/ OnDataRead \/ ProcessBuffer \/ Reset

Spec == Init /\ [][Next]_vars

\* Both threads are scheduled and the event loop handles what is queued.
FairSpec ==
  Spec /\ WF_vars(ReaderReads) /\ WF_vars(OnDataRead) /\ WF_vars(ProcessBuffer)

-----------------------------------------------------------------------------
(* Safety *)

\* ProcessBuffer calls OnMessage at most once for a message, and in the order in
\* which the adapters wrote them: whatever the headers, the characters and the
\* chunks are, through resets and stale strings.
DeliveredInOrder ==
  \A i, j \in 1 .. Len(delivered) :
    i < j => \/ delivered[i].conn < delivered[j].conn
             \/ delivered[i].conn = delivered[j].conn /\ delivered[i].msg < delivered[j].msg

\* The messages of the current connection that were written and read entirely.
Read == {i \in 1 .. written : \A k \in 1 .. Len(wire) : wire[k].msg # i}

\* When the main thread has nothing left to do, every message that was read
\* entirely was delivered, and nothing but the beginning of one message is in
\* the buffer.
ReadIsDelivered ==
  chunks = <<>> /\ loops = 0 =>
    /\ {delivered[k].msg : k \in 1 .. Len(delivered)} = Read
    /\ \A k \in 1 .. Len(buffer) : buffer[k].msg \notin Read

-----------------------------------------------------------------------------
(* The abstract channel *)

\* OnMessage sees what MessageChannel promises.
Channel == INSTANCE MessageChannel WITH
  Total <- Len(Script),
  written <- written,
  delivered <- [k \in 1 .. Len(delivered) |-> delivered[k].msg]

ImplementsChannel == Channel!Spec

-----------------------------------------------------------------------------
(* What comments say and the code does not do *)

\* JsonRPC::ProcessBuffer: the callback "will get called as long there are
\* complete messages in the internal buffer".  Between its calls the buffer
\* does not begin with a complete message.
CompleteIsDelivered ==
  loops = 0 /\ buffer # <<>> =>
    LET first == buffer[1]
        whole == CharsOf(BytesOf(first.conn, first.msg))
    IN  ~ /\ Len(whole) <= Len(buffer)
          /\ SubSeq(buffer, 1, Len(whole)) = whole

=============================================================================
