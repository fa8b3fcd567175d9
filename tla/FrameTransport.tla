--------------------------- MODULE FrameTransport ---------------------------
(***************************************************************************)
(* The way out of a WebSocketConnection: sendText, sendBinary, sendControl *)
(* and sendFrame build a masked WebSocket frame in webSocketFrameBuffer_,  *)
(* transportWrite hands it to the socket or to TLS in as many pieces as    *)
(* those take, and the peer reads the stream by the rules of               *)
(* receiveBinary.  A peer that sends a SessionGW frame back, whole or      *)
(* damaged, has it read by decodeFrame.                                    *)
(*                                                                         *)
(* Widths are narrow: a byte has Base values, every header field and every *)
(* length is one byte (the longest form: two), the mask is two bytes.  A   *)
(* mask byte is all zeros or all ones, so that XOR is the identity or the  *)
(* complement.  FIN, the mask bit and the other constant bits of the first *)
(* two bytes are left out.  What a caller may do after a write that failed *)
(* is SessionRpc's.                                                        *)
(***************************************************************************)
EXTENDS Integers, Sequences, SequencesExt

CONSTANTS
    Base,        \* values of a byte, and so of a length or a header field
    Short,       \* the longest payload with a one-byte length: 125
    Wide,        \* the longest payload of the next length form: 0xffff
    MaxInt,      \* the largest int
    IntValues,   \* values of an int: 2^32
    Sizes,       \* payload sizes that are sent
    Masks,       \* masks that are drawn
    MaxSends     \* bound on the messages sent

ASSUME FrameTransportAssumption ==
    /\ {Base, Short, Wide, MaxInt, IntValues, MaxSends} \subseteq Nat
    /\ 10 < Base /\ Short + 2 < Base /\ Short < Wide /\ Wide < Base
    /\ MaxInt < IntValues
    /\ Sizes \subseteq 0 .. Base * Base - 1
    /\ Masks \subseteq [1 .. 2 -> {0, Base - 1}]

Byte == 0 .. Base - 1
\* The opcodes that are sent: of control frames, close and pong.
Text == 1
Binary == 2
Control == {8, 10}

\* SessionGW frames: magic, version, type, flags, reserved, id, payload size.
Magic == 5
Version == 1
HeaderSize == 7
MaxPayload == Base - 1   \* the largest size its field can hold: 2^32 - 1
Frames == [type : Byte, flags : Byte, id : Byte, payload : Seq(Byte)]

VARIABLES
    tls,      \* ssl_ is there
    buffer,   \* webSocketFrameBuffer_
    message,  \* the message it was built from
    written,  \* bytes of it that are written
    phase,    \* "ready", "writing", "failed", or a frame came back: "accepted", "refused"
    wire,     \* the bytes the transport took
    sent,     \* the messages whose send returned
    arrived,  \* the bytes of a frame that came back
    decoded   \* what decodeFrame made of it

sender == <<buffer, message, written, sent>>
receiver == <<arrived, decoded>>
vars == <<tls, sender, phase, wire, receiver>>

NoFrame == [type |-> 0, flags |-> 0, id |-> 0, payload |-> <<>>]
\* A message that is not a SessionGW frame, and none.
Data(opcode, payload) == [opcode |-> opcode, payload |-> payload, frame |-> NoFrame]
NoMessage == Data(0, <<>>)

Init ==
    /\ tls \in BOOLEAN /\ phase = "ready"
    /\ buffer = <<>> /\ message = NoMessage /\ written = 0
    /\ wire = <<>> /\ sent = <<>>
    /\ arrived = <<>> /\ decoded = NoFrame

-----------------------------------------------------------------------------
(* Building a frame.                                                       *)

\* The payload length in its shortest form.
Length(n) ==
    IF n <= Short THEN <<n>>
    ELSE IF n <= Wide THEN <<Short + 1, n>>
    ELSE <<Short + 2, n \div Base, n % Base>>

\* Mutant: the mask is added.
AddMask(byte, mask) == byte + mask

\* XOR with a mask byte.
Xor(byte, mask) == IF mask = 0 THEN byte ELSE Base - 1 - byte

\* appendMaskedPayloadWithMask and appendMaskedBigEndian: bytes masked on from an index.
Masked(bytes, mask, index) ==
    [i \in DOMAIN bytes |-> Xor(bytes[i], mask[((index + i - 1) % 2) + 1])]

\* A WebSocket frame.
WebSocketFrame(opcode, size, mask, masked) == <<opcode>> \o Length(size) \o mask \o masked

\* The header of a SessionGW frame, as appendMaskedSessionGatewayFrame writes it.
SessionGatewayHeader(type, id, size) == <<Magic, Version, type, 0, 0, id, size>>

\* Starts to write what was built.
Start(m, frame) ==
    /\ message' = m /\ buffer' = frame /\ written' = 0
    /\ phase' = "writing"
    /\ UNCHANGED <<tls, wire, sent, receiver>>

MaySend == phase = "ready" /\ Len(sent) < MaxSends

\* sendText and sendBinary.
SendData(opcode, payload, mask) ==
    /\ MaySend /\ opcode \in {Text, Binary}
    /\ Start(Data(opcode, payload),
             WebSocketFrame(opcode, Len(payload), mask, Masked(payload, mask, 0)))

\* sendControl refuses what does not fit the short form.
SendControl(opcode, payload, mask) ==
    /\ MaySend /\ opcode \in Control
    /\ Len(payload) <= Short
    /\ Start(Data(opcode, payload),
             WebSocketFrame(opcode, Len(payload), mask, Masked(payload, mask, 0)))

\* sendFrame: header and payload are masked as one payload.  A payload whose size does
\* not fit its field is refused before anything is written.
SendFrame(type, id, payload, mask) ==
    /\ MaySend
    /\ Len(payload) <= MaxPayload
    /\ LET header == SessionGatewayHeader(type, id, Len(payload))
       IN  Start([opcode |-> Binary, payload |-> <<>>,
                  frame |-> [type |-> type, flags |-> 0, id |-> id, payload |-> payload]],
                 WebSocketFrame(Binary, HeaderSize + Len(payload), mask,
                                Masked(header, mask, 0) \o Masked(payload, mask, HeaderSize)))

-----------------------------------------------------------------------------
(* Writing it.                                                             *)

\* static_cast<int>.
AsInt(n) == LET low == n % IntValues IN IF low > MaxInt THEN low - IntValues ELSE low

\* How much the transport is asked to take: TLS takes an int.
Requested == LET left == Len(buffer) - written IN IF tls THEN AsInt(left) ELSE left

\* The transport takes n bytes, and by the loop's condition that was all or it goes on.
Taken(n, more) ==
    /\ phase = "writing"
    /\ wire' = wire \o SubSeq(buffer, written + 1, written + n)
    /\ IF more
       THEN written' = written + n /\ UNCHANGED <<buffer, message, phase, sent>>
       ELSE /\ sent' = Append(sent, message)
            /\ buffer' = <<>> /\ message' = NoMessage /\ written' = 0
            /\ phase' = "ready"
    /\ UNCHANGED <<tls, receiver>>

\* Mutant: what was asked for counts as written, and not what was taken.
WriteSomeCountsRequest(n) == n <= Requested /\ Taken(n, written + Requested < Len(buffer))

\* A turn of transportWrite's loop: send() and SSL_write take a part or all of it.
WriteSome(n) == n <= Requested /\ Taken(n, written + n < Len(buffer))

\* They fail, on a signal too, and must where nothing or less is asked for.  The
\* exception leaves the connection open behind whatever was written.
WriteFails ==
    /\ phase = "writing"
    /\ phase' = "failed"
    /\ UNCHANGED <<tls, sender, wire, receiver>>

-----------------------------------------------------------------------------
(* SessionGW frames that come back.                                        *)

\* encodeFrame.
Encode(frame) ==
    <<Magic, Version, frame.type, frame.flags, 0, frame.id, Len(frame.payload)>> \o frame.payload

\* The frame that bytes are, if they are one.
Parsed(bytes) ==
    [type |-> bytes[3], flags |-> bytes[4], id |-> bytes[6],
     payload |-> SubSeq(bytes, HeaderSize + 1, Len(bytes))]

\* Mutant: bytes behind the payload are let through.
AcceptableAndMore(bytes) ==
    /\ Len(bytes) >= HeaderSize
    /\ bytes[1] = Magic /\ bytes[2] = Version
    /\ Len(bytes) >= HeaderSize + bytes[7]

\* What decodeFrame accepts: flags are kept and the reserved bytes are not looked at.
Acceptable(bytes) ==
    /\ Len(bytes) >= HeaderSize
    /\ bytes[1] = Magic /\ bytes[2] = Version
    /\ Len(bytes) = HeaderSize + bytes[7]

\* receiveFrame, of a carrier message with these bytes.
Receive(bytes) ==
    /\ phase = "ready"
    /\ arrived' = bytes
    /\ IF Acceptable(bytes)
       THEN phase' = "accepted" /\ decoded' = Parsed(bytes)
       ELSE phase' = "refused" /\ UNCHANGED decoded
    /\ UNCHANGED <<tls, sender, wire>>

\* Bytes, and what may become of them: cut off, longer, or one of them another.
Damaged(bytes) ==
    {SubSeq(bytes, 1, n) : n \in 0 .. Len(bytes)}
    \cup {Append(bytes, b) : b \in {0, Base - 1}}
    \cup {[bytes EXCEPT ![i] = b] : i \in DOMAIN bytes, b \in {0, 1, Base - 1}}

\* The peer sends the last frame it read back, with flags or without.
PeerReturns ==
    /\ sent # <<>> /\ Last(sent).frame # NoFrame
    /\ \E flags \in {0, 1} :
          \E bytes \in Damaged(Encode([Last(sent).frame EXCEPT !.flags = flags])) :
             Receive(bytes)

-----------------------------------------------------------------------------
\* A payload of n bytes, no two neighbours of which are alike.
Content(n) == [i \in 1 .. n |-> (5 * i) % Base]

Next ==
    \/ \E n \in Sizes, mask \in Masks :
          \/ \E opcode \in {Text, Binary} : SendData(opcode, Content(n), mask)
          \/ \E opcode \in Control : SendControl(opcode, Content(n), mask)
          \/ SendFrame(3, (1 + Len(sent)) % Base, Content(n), mask)
    \/ \E n \in 1 .. Len(buffer) : WriteSome(n)
    \/ WriteFails
    \/ PeerReturns

Spec == Init /\ [][Next]_vars

-----------------------------------------------------------------------------
(* The reader at the other end, by receiveBinary's rules.                  *)

\* What of the stream w, from p on, is one whole frame: where its payload is.  Lengths
\* have to be in their shortest form, and a control frame fits the short one.
Extra(w, p) == IF w[p + 1] <= Short THEN 0 ELSE w[p + 1] - Short
SizeAt(w, p) ==
    CASE Extra(w, p) = 0 -> w[p + 1]
      [] Extra(w, p) = 1 -> w[p + 2]
      [] OTHER -> w[p + 2] * Base + w[p + 3]
BodyAt(w, p) == p + 2 + Extra(w, p) + 2
IsFrameAt(w, p) ==
    /\ p + 1 <= Len(w)
    /\ p + 1 + Extra(w, p) <= Len(w)
    /\ SizeAt(w, p) > (CASE Extra(w, p) = 0 -> -1 [] Extra(w, p) = 1 -> Short [] OTHER -> Wide)
    /\ w[p] \in Control => SizeAt(w, p) <= Short
    /\ BodyAt(w, p) + SizeAt(w, p) - 1 <= Len(w)

\* The messages of the stream w, and where the first incomplete one starts.
Read(w) ==
    LET read[p \in 1 .. Len(w) + 1] ==
            IF ~IsFrameAt(w, p) THEN [messages |-> <<>>, rest |-> p]
            ELSE LET body == BodyAt(w, p)
                     next == body + SizeAt(w, p)
                     mask == SubSeq(w, body - 2, body - 1)
                     m == [opcode |-> w[p],
                           payload |-> Masked(SubSeq(w, body, next - 1), mask, 0)]
                 IN  [read[next] EXCEPT !.messages = <<m>> \o @]
    IN  read[1]

\* A message that was read is the one that was sent; a SessionGW frame comes out of
\* decodeFrame as it went in.
IsRead(m, s) ==
    /\ m.opcode = s.opcode
    /\ IF s.frame = NoFrame THEN m.payload = s.payload
       ELSE Acceptable(m.payload) /\ Parsed(m.payload) = s.frame

-----------------------------------------------------------------------------
(* Properties.                                                             *)

TypeOK ==
    /\ tls \in BOOLEAN
    /\ phase \in {"ready", "writing", "failed", "accepted", "refused"}
    /\ buffer \in Seq(Byte) /\ wire \in Seq(Byte) /\ arrived \in Seq(Byte)
    /\ written \in 0 .. Len(buffer)
    /\ decoded \in Frames /\ Len(sent) <= MaxSends

\* Whatever pieces a frame goes out in, and wherever its writing breaks off - also for a
\* size that is cut to an int, on the TLS path - the peer reads exactly the messages
\* whose send returned, each as it was sent, and behind them the beginning of the one
\* in progress and nothing else.  A send never returns with a part of its frame missing.
PeerReadsWhatWasSent ==
    LET read == Read(wire)
    IN  /\ Len(read.messages) = Len(sent)
        /\ \A k \in DOMAIN sent : IsRead(read.messages[k], sent[k])
        /\ SubSeq(wire, read.rest, Len(wire)) = SubSeq(buffer, 1, written)

\* decodeFrame accepts what encodeFrame makes of some frame, but for the reserved bytes,
\* and nothing shorter, longer or otherwise different; and returns that frame.
AcceptsOnlyWholeFrames ==
    /\ phase = "accepted" => Encode(decoded) = [arrived EXCEPT ![5] = 0]
    /\ phase = "refused" /\ Len(arrived) >= HeaderSize =>
          Encode(Parsed(arrived)) # [arrived EXCEPT ![5] = 0]
=============================================================================
