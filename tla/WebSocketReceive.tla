-------------------------- MODULE WebSocketReceive --------------------------
(***************************************************************************)
(* How WebSocketConnection reads a message: receiveBinary over the frames  *)
(* the server sends, with receiveText and receiveFrame around it.  A       *)
(* connection reads text messages until the session gateway is entered and *)
(* binary messages after that.  Frames are opcodes, lengths and flags; a   *)
(* payload is the position of its frame in the stream.                     *)
(*                                                                         *)
(* The server is not under src/: it sends any frame at all, and the        *)
(* connection may break at any point.                                      *)
(***************************************************************************)
EXTENDS Naturals, Sequences

CONSTANTS
    MaxMessage,  \* max_websocket_message_size
    MaxControl,  \* the largest payload of a control frame: 125
    Sizes,       \* payload lengths the server uses
    MaxFrames    \* bound on the frames the server sends

ASSUME WebSocketReceiveAssumption ==
    /\ MaxMessage \in Nat /\ MaxControl \in Nat /\ MaxControl <= MaxMessage
    /\ Sizes \subseteq Nat
    /\ MaxFrames \in Nat

DataOpcodes == {"text", "binary"}
ControlOpcodes == {"close", "ping", "pong", "reservedControl"}
Opcodes == DataOpcodes \cup ControlOpcodes \cup {"continuation", "reserved"}

\* goodHeader: no RSV bit, no mask, and the shortest length encoding.
Frame == [opcode : Opcodes, fin : BOOLEAN, goodHeader : BOOLEAN, size : Sizes]

VARIABLES
    open,        \* fd_ >= 0
    calling,     \* a receive is in progress
    want,        \* expected_opcode of the current or last receive
    message,     \* receiveBinary's message: the frames it was put together from
    held,        \* message.size()
    fragmented,  \* receiveBinary's fragmented
    log,         \* every frame read from the connection
    sent,        \* control frames written: their opcode and the frame they answer
    delivered,   \* messages returned: the opcode asked for and their frames
    outcome      \* how the last receive ended

vars == <<open, calling, want, message, held, fragmented, log, sent, delivered, outcome>>

Categories == {"protocol_error", "resource_limit", "transport_error"}

TypeOK ==
    /\ open \in BOOLEAN /\ calling \in BOOLEAN /\ fragmented \in BOOLEAN
    /\ want \in DataOpcodes
    /\ message \in Seq(1 .. MaxFrames)
    /\ held \in 0 .. MaxMessage
    /\ log \in Seq(Frame) /\ Len(log) <= MaxFrames
    /\ sent \in Seq([opcode : {"pong", "close"}, answers : 1 .. MaxFrames])
    /\ delivered \in Seq([opcode : DataOpcodes, frames : Seq(1 .. MaxFrames)])
    /\ outcome \in Categories \cup {"none", "message"}

Init ==
    /\ open = TRUE /\ calling = FALSE /\ want = "text"
    /\ message = <<>> /\ held = 0 /\ fragmented = FALSE
    /\ log = <<>> /\ sent = <<>> /\ delivered = <<>>
    /\ outcome = "none"

-----------------------------------------------------------------------------
IsControl(f) == f.opcode \in ControlOpcodes

\* Mutant: a control frame may be of any size and may be fragmented.
BreaksFramingLate(f) == ~f.goodHeader

\* The checks made on a header before its payload is read.
BreaksFraming(f) ==
    \/ ~f.goodHeader
    \/ IsControl(f) /\ (~f.fin \/ f.size > MaxControl)

\* Mutant: only the frame is measured, not the message it belongs to.
TooLargeAlone(f) == f.size > MaxMessage

TooLarge(f) == f.size > MaxMessage \/ held > MaxMessage - f.size

\* Mutant: whether a message is in progress is not looked at.
MisplacedIgnoringProgress(f) ==
    \/ f.opcode \in {"reserved", "reservedControl"}
    \/ f.opcode \in DataOpcodes /\ f.opcode # want

\* A frame that does not continue what was read so far.
Misplaced(f) ==
    \/ f.opcode \in {"reserved", "reservedControl"}
    \/ f.opcode = "continuation" /\ ~fragmented
    \/ f.opcode \in DataOpcodes /\ (fragmented \/ f.opcode # want)

Accepted(f) == ~BreaksFraming(f) /\ ~TooLarge(f)

\* receiveText and receiveFrame close the connection whatever was thrown.
End(v) ==
    /\ calling' = FALSE
    /\ outcome' = v
    /\ open' = (v = "message")

\* receiveBinary starts with an empty message.  The handshake reads text messages,
\* the session gateway binary ones.
Call(opcode) ==
    /\ ~calling /\ open
    /\ opcode = "text" => want = "text"
    /\ calling' = TRUE /\ want' = opcode
    /\ message' = <<>> /\ held' = 0 /\ fragmented' = FALSE
    /\ UNCHANGED <<open, log, sent, delivered, outcome>>

\* A read or the write of a pong failed: the connection broke.
TransportFails ==
    /\ calling
    /\ End("transport_error")
    /\ UNCHANGED <<want, message, held, fragmented, log, sent, delivered>>

\* The next frame of the stream.
Take(f) ==
    /\ calling /\ Len(log) < MaxFrames
    /\ log' = Append(log, f)

This == Len(log) + 1

Refuse(f) ==
    /\ Take(f)
    /\ \/ BreaksFraming(f) /\ End("protocol_error")
       \/ ~BreaksFraming(f) /\ TooLarge(f) /\ End("resource_limit")
       \/ Accepted(f) /\ Misplaced(f) /\ End("protocol_error")
    /\ UNCHANGED <<want, message, held, fragmented, sent, delivered>>

\* A ping is answered at once, in the middle of a message too.
AnswerPing(f) ==
    /\ Take(f) /\ Accepted(f) /\ f.opcode = "ping"
    /\ sent' = Append(sent, [opcode |-> "pong", answers |-> This])
    /\ UNCHANGED <<open, calling, outcome, want, message, held, fragmented, delivered>>

\* The pong could not be written.
AnswerFails(f) ==
    /\ Take(f) /\ Accepted(f) /\ f.opcode = "ping"
    /\ End("transport_error")
    /\ UNCHANGED <<sent, want, message, held, fragmented, delivered>>

IgnorePong(f) ==
    /\ Take(f) /\ Accepted(f) /\ f.opcode = "pong"
    /\ UNCHANGED <<open, calling, outcome, sent, want, message, held, fragmented, delivered>>

\* A close is echoed if it can be; the receive fails either way.
AnswerClose(f) ==
    /\ Take(f) /\ Accepted(f) /\ f.opcode = "close"
    /\ sent' \in {sent, Append(sent, [opcode |-> "close", answers |-> This])}
    /\ End("transport_error")
    /\ UNCHANGED <<want, message, held, fragmented, delivered>>

\* The message is complete.  receiveFrame refuses it when it is not one SGW1 frame.
Return(frames) ==
    \/ /\ End("message")
       /\ delivered' = Append(delivered, [opcode |-> want, frames |-> frames])
    \/ /\ want = "binary"
       /\ End("protocol_error")
       /\ UNCHANGED delivered

\* Mutant: the frame that ends a fragmented message is returned alone.
ReadContinuationAlone(f) ==
    /\ Take(f) /\ Accepted(f) /\ ~Misplaced(f) /\ f.opcode = "continuation"
    /\ message' = Append(message, This)
    /\ held' = held + f.size
    /\ IF f.fin THEN Return(<<This>>) ELSE UNCHANGED <<open, calling, outcome, delivered>>
    /\ UNCHANGED <<sent, want, fragmented>>

ReadContinuation(f) ==
    /\ Take(f) /\ Accepted(f) /\ ~Misplaced(f) /\ f.opcode = "continuation"
    /\ message' = Append(message, This)
    /\ held' = held + f.size
    /\ IF f.fin THEN Return(message') ELSE UNCHANGED <<open, calling, outcome, delivered>>
    /\ UNCHANGED <<sent, want, fragmented>>

ReadWhole(f) ==
    /\ Take(f) /\ Accepted(f) /\ ~Misplaced(f) /\ f.opcode \in DataOpcodes /\ f.fin
    /\ Return(<<This>>)
    /\ UNCHANGED <<sent, want, message, held, fragmented>>

ReadFirst(f) ==
    /\ Take(f) /\ Accepted(f) /\ ~Misplaced(f) /\ f.opcode \in DataOpcodes /\ ~f.fin
    /\ fragmented' = TRUE /\ message' = <<This>> /\ held' = f.size
    /\ UNCHANGED <<open, calling, outcome, sent, want, delivered>>

Next ==
    \/ \E opcode \in DataOpcodes : Call(opcode)
    \/ TransportFails
    \/ \E f \in Frame :
          \/ Refuse(f) \/ AnswerPing(f) \/ AnswerFails(f) \/ IgnorePong(f)
          \/ AnswerClose(f) \/ ReadContinuation(f) \/ ReadWhole(f) \/ ReadFirst(f)

Spec == Init /\ [][Next]_vars

-----------------------------------------------------------------------------
(* Properties.                                                             *)

\* The data frames of the stream up to its n-th frame, and after its m-th.
DataBetween(m, n) == {i \in m + 1 .. n : ~IsControl(log[i])}
LastFrame(k) == IF k = 0 THEN 0 ELSE delivered[k].frames[Len(delivered[k].frames)]

\* The members of S, each once and in their order.
Enumerates(seq, S) ==
    /\ {seq[j] : j \in DOMAIN seq} = S
    /\ \A i, j \in DOMAIN seq : i < j => seq[i] < seq[j]

\* The messages returned by successive receives are the stream's data frames, in order,
\* none skipped, repeated or shared, whatever control frames lie between them: each
\* message takes up where the one before it ended, and between two receives nothing
\* was read beyond the last message: of a message that was refused half way no rest is
\* left that could be read as the next one.
DeliversTheStream ==
    /\ \A k \in DOMAIN delivered :
          Enumerates(delivered[k].frames, DataBetween(LastFrame(k - 1), LastFrame(k)))
    /\ open /\ ~calling => LastFrame(Len(delivered)) = Len(log)

\* Each message returned is one WebSocket message of the type asked for: it starts with
\* a frame of that opcode, goes on with continuations, and its last frame alone ends it.
MessagesAreFramed ==
    \A k \in DOMAIN delivered :
        LET frames == delivered[k].frames
        IN  \A j \in DOMAIN frames :
               LET f == log[frames[j]]
               IN  /\ f.goodHeader
                   /\ f.opcode = IF j = 1 THEN delivered[k].opcode ELSE "continuation"
                   /\ f.fin <=> j = Len(frames)

\* What a message's frames hold together.
Total(sizes) ==
    LET upTo[j \in 0 .. Len(sizes)] == IF j = 0 THEN 0 ELSE upTo[j - 1] + sizes[j]
    IN  upTo[Len(sizes)]
Bytes(frames) == Total([j \in 1 .. Len(frames) |-> log[frames[j]].size])

\* No message, in progress or returned, is larger than the limit: the frames of a
\* fragmented message are measured together.
SizeBounded ==
    /\ Bytes(message) <= MaxMessage
    /\ \A k \in DOMAIN delivered : Bytes(delivered[k].frames) <= MaxMessage

\* Every ping read from a connection that is still usable was answered, in order; a
\* control frame that is answered fits one.
PingsAnswered ==
    /\ open => Enumerates([j \in DOMAIN sent |-> sent[j].answers],
                          {i \in DOMAIN log : log[i].opcode = "ping"})
    /\ \A j \in DOMAIN sent : log[sent[j].answers].size <= MaxControl

\* docs/protocol_v1.md, the WebSocket carrier: fragmented carrier messages are protocol
\* errors and close the connection.
FragmentedMessageRefused ==
    \A k \in DOMAIN delivered :
        delivered[k].opcode = "binary" => Len(delivered[k].frames) = 1
=============================================================================
