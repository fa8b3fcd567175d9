------------------------ MODULE FrameTransportProof ------------------------
(***************************************************************************)
(* FrameTransport's properties, proved for every width of a byte and of an *)
(* int, every limit of the length forms, every payload that is sent and    *)
(* any number of messages, however they are cut into pieces.  What is on   *)
(* the wire are the frames of the messages sent, one behind the other, and *)
(* the part written of the one being written; the peer's reader finds them *)
(* because a frame is read by its own bytes alone, wherever it lies.       *)
(***************************************************************************)
EXTENDS FrameTransport, SequenceTheorems, WellFoundedInduction, TLAPS

(***************************************************************************)
(* The inductive invariant.                                                *)
(***************************************************************************)
Message == [opcode : Byte, payload : Seq(Byte), frame : {f \in Frames : Len(f.payload) <= MaxPayload}]

\* Where the frame at p ends and the next one begins, and the message in it.
NextAt(w, p) == BodyAt(w, p) + SizeAt(w, p)
MessageAt(w, p) ==
    [opcode |-> w[p],
     payload |-> Masked(SubSeq(w, BodyAt(w, p), NextAt(w, p) - 1),
                        SubSeq(w, BodyAt(w, p) - 2, BodyAt(w, p) - 1), 0)]

\* The message s lies in w from p on, before q.
LiesAt(w, p, s, q) == IsFrameAt(w, p) /\ q = NextAt(w, p) /\ IsRead(MessageAt(w, p), s)

\* The buffer holds the frame of its message, of which a part is written.
BufferInv ==
    /\ message \in Message
    /\ IF phase \in {"writing", "failed"}
       THEN /\ LiesAt(buffer, 1, message, Len(buffer) + 1)
            /\ written < Len(buffer) /\ Len(sent) < MaxSends
       ELSE buffer = <<>> /\ written = 0

\* The messages sent begin at `at`, one behind the other, and behind them lies what is
\* written of the next.
Starts(at) ==
    /\ at \in Seq(Nat) /\ Len(at) = Len(sent) + 1 /\ at[1] = 1
    /\ \A k \in 1 .. Len(sent) : at[k] < at[k + 1] /\ LiesAt(wire, at[k], sent[k], at[k + 1])
    /\ at[Len(sent) + 1] + written = Len(wire) + 1
    /\ \A i \in 1 .. written : wire[at[Len(sent) + 1] + i - 1] = buffer[i]

\* decodeFrame's frame, if it took the bytes that came back for one.
ArrivedInv ==
    /\ phase = "accepted" => Acceptable(arrived) /\ decoded = Parsed(arrived)
    /\ phase = "refused" => ~Acceptable(arrived)

TransportInv ==
    /\ TypeOK
    /\ sent \in Seq(Message)
    /\ BufferInv
    /\ \E at : Starts(at)
    /\ ArrivedInv

-----------------------------------------------------------------------------
(* Bytes and lengths.                                                      *)

LEMMA Constants ==
    /\ Base \in Nat /\ Short \in Nat /\ Wide \in Nat /\ MaxInt \in Nat /\ IntValues \in Nat
    /\ MaxSends \in Nat /\ 10 < Base /\ Short + 2 < Base /\ Short < Wide /\ Wide < Base
    /\ MaxInt < IntValues
    /\ \A n \in Sizes : n \in Nat /\ n < Base * Base
    /\ \A mask \in Masks : mask \in [1 .. 2 -> {0, Base - 1}]
    /\ Base * Base \in Nat
<1>1. /\ Base \in Nat /\ Short \in Nat /\ Wide \in Nat /\ MaxInt \in Nat /\ IntValues \in Nat
      /\ MaxSends \in Nat
  BY FrameTransportAssumption
<1>2. Base * Base \in Nat
  BY <1>1
<1> QED BY <1>1, <1>2, FrameTransportAssumption

\* The header of a frame in a stream of bytes.
LEMMA HeaderFacts ==
    ASSUME NEW w \in Seq(Byte), NEW p \in Nat \ {0}, IsFrameAt(w, p)
    PROVE  /\ Len(w) \in Nat /\ Extra(w, p) \in Nat /\ SizeAt(w, p) \in Nat
           /\ p \in 1 .. Len(w) /\ p + 1 \in 1 .. Len(w)
           /\ Extra(w, p) >= 1 => p + 2 \in 1 .. Len(w)
           /\ Extra(w, p) >= 2 => p + 3 \in 1 .. Len(w)
           /\ BodyAt(w, p) \in Nat /\ NextAt(w, p) \in Nat /\ p + 4 <= BodyAt(w, p)
           /\ BodyAt(w, p) <= NextAt(w, p) /\ NextAt(w, p) <= Len(w) + 1
           /\ BodyAt(w, p) = p + 4 + Extra(w, p)
<1>1. Len(w) \in Nat /\ \A i \in 1 .. Len(w) : w[i] \in Nat
  BY LenProperties, ElementOfSeq, Constants DEF Byte
<1>2. /\ p + 1 <= Len(w) /\ p + 1 + Extra(w, p) <= Len(w)
      /\ BodyAt(w, p) + SizeAt(w, p) - 1 <= Len(w)
  BY DEF IsFrameAt
<1>3. p + 1 \in 1 .. Len(w) /\ p \in 1 .. Len(w) /\ w[p + 1] \in Nat
  BY <1>1, <1>2
<1>4. Extra(w, p) \in Nat
  BY <1>3, Constants DEF Extra
<1>5. /\ Extra(w, p) >= 1 => p + 2 \in 1 .. Len(w)
      /\ Extra(w, p) >= 2 => p + 3 \in 1 .. Len(w)
  BY <1>1, <1>2, <1>4
<1>6. SizeAt(w, p) \in Nat
  <2>1. CASE Extra(w, p) = 0
    BY <1>3, <2>1 DEF SizeAt
  <2>2. CASE Extra(w, p) = 1
    BY <1>1, <1>5, <2>2 DEF SizeAt
  <2>3. CASE Extra(w, p) >= 2
    <3>1. w[p + 2] \in Nat /\ w[p + 3] \in Nat
      BY <1>1, <1>4, <1>5, <2>3
    <3>2. SizeAt(w, p) = w[p + 2] * Base + w[p + 3]
      BY <1>4, <2>3 DEF SizeAt
    <3> QED BY <3>1, <3>2, Constants
  <2> QED BY <1>4, <2>1, <2>2, <2>3
<1>7. BodyAt(w, p) = p + 4 + Extra(w, p)
  BY <1>4 DEF BodyAt
<1>8. NextAt(w, p) = BodyAt(w, p) + SizeAt(w, p)
  BY DEF NextAt
<1> QED BY SMTT(30), <1>1, <1>2, <1>3, <1>4, <1>5, <1>6, <1>7, <1>8

\* n bytes of w from q on are those of u from p on.
Same(w, q, u, p, n) == \A i \in 0 .. n - 1 : w[q + i] = u[p + i]

LEMMA SubSeqMoved ==
    ASSUME NEW u \in Seq(Byte), NEW a \in Nat \ {0}, NEW w \in Seq(Byte), NEW c \in Nat \ {0},
           NEW n \in Nat, a + n <= Len(u) + 1, c + n <= Len(w) + 1, Same(w, c, u, a, n)
    PROVE  SubSeq(w, c, c + n - 1) = SubSeq(u, a, a + n - 1)
<1> DEFINE x == SubSeq(w, c, c + n - 1)
           y == SubSeq(u, a, a + n - 1)
<1>1. Len(u) \in Nat /\ Len(w) \in Nat
  BY LenProperties
<1>2. /\ c + n - 1 \in Int /\ \A i \in c .. c + n - 1 : w[i] \in Byte
      /\ a + n - 1 \in Int /\ \A i \in a .. a + n - 1 : u[i] \in Byte
  BY <1>1, ElementOfSeq
<1>3. /\ x \in Seq(Byte) /\ Len(x) = n
      /\ \A i \in 1 .. n : x[i] = w[c + i - 1]
  <2>1. /\ x \in Seq(Byte) /\ Len(x) = IF c <= c + n - 1 THEN (c + n - 1) - c + 1 ELSE 0
        /\ \A i \in 1 .. (c + n - 1) - c + 1 : x[i] = w[c + i - 1]
    BY <1>2, SubSeqProperties
  <2> HIDE DEF x
  <2> QED BY <2>1
<1>4. /\ y \in Seq(Byte) /\ Len(y) = n
      /\ \A i \in 1 .. n : y[i] = u[a + i - 1]
  <2>1. /\ y \in Seq(Byte) /\ Len(y) = IF a <= a + n - 1 THEN (a + n - 1) - a + 1 ELSE 0
        /\ \A i \in 1 .. (a + n - 1) - a + 1 : y[i] = u[a + i - 1]
    BY <1>2, SubSeqProperties
  <2> HIDE DEF y
  <2> QED BY <2>1
<1>5. \A i \in 1 .. n : w[c + i - 1] = u[a + i - 1]
  <2> TAKE i \in 1 .. n
  <2>1. PICK j \in 0 .. n - 1 : j = i - 1
    OBVIOUS
  <2>2. w[c + j] = u[a + j]
    BY DEF Same
  <2> QED BY <2>1, <2>2
<1> HIDE DEF x, y
<1>6. x = y
  BY <1>3, <1>4, <1>5, SeqEqual
<1> QED BY <1>6 DEF x, y

\* A frame is read by its own bytes: it is the same frame wherever they lie.
LEMMA HeaderMoved ==
    ASSUME NEW u \in Seq(Byte), NEW p \in Nat \ {0}, IsFrameAt(u, p),
           NEW w \in Seq(Byte), NEW q \in Nat \ {0}, NEW n \in Nat, NextAt(u, p) = p + n,
           q + n <= Len(w) + 1, Same(w, q, u, p, n)
    PROVE  /\ w[q] = u[p] /\ Extra(w, q) = Extra(u, p) /\ SizeAt(w, q) = SizeAt(u, p)
           /\ BodyAt(w, q) = q + 4 + Extra(u, p) /\ NextAt(w, q) = q + n
           /\ n = 4 + Extra(u, p) + SizeAt(u, p)
<1>1. /\ Len(u) \in Nat /\ Extra(u, p) \in Nat /\ SizeAt(u, p) \in Nat
      /\ BodyAt(u, p) = p + 4 + Extra(u, p) /\ NextAt(u, p) = BodyAt(u, p) + SizeAt(u, p)
  BY HeaderFacts DEF NextAt
<1>2. n = 4 + Extra(u, p) + SizeAt(u, p)
  BY SMTT(30), <1>1
<1>3. w[q + 0] = u[p + 0] /\ w[q + 1] = u[p + 1] /\ w[q + 2] = u[p + 2] /\ w[q + 3] = u[p + 3]
  <2>1. 0 \in 0 .. n - 1 /\ 1 \in 0 .. n - 1 /\ 2 \in 0 .. n - 1 /\ 3 \in 0 .. n - 1
    <3>1. \A e, s \in Nat : n = 4 + e + s => n - 1 >= 3 /\ n - 1 \in Int
      OBVIOUS
    <3>2. n - 1 >= 3 /\ n - 1 \in Int
      BY <1>1, <1>2, <3>1
    <3> QED BY <3>2
  <2> QED BY <2>1, Zenon DEF Same
<1>4. w[q] = u[p]
  <2>1. q + 0 = q /\ p + 0 = p
    OBVIOUS
  <2> QED BY <1>3, <2>1
<1>5. Extra(w, q) = Extra(u, p)
  BY <1>3 DEF Extra
<1>6. SizeAt(w, q) = SizeAt(u, p)
  BY <1>3, <1>5 DEF SizeAt
<1>7. BodyAt(w, q) = q + 4 + Extra(u, p)
  BY <1>1, <1>5 DEF BodyAt
<1>8. NextAt(w, q) = q + n
  BY SMTT(30), <1>1, <1>2, <1>6, <1>7 DEF NextAt
<1> QED BY <1>2, <1>4, <1>5, <1>6, <1>7, <1>8

LEMMA FrameMoved ==
    ASSUME NEW u \in Seq(Byte), NEW p \in Nat \ {0}, IsFrameAt(u, p),
           NEW w \in Seq(Byte), NEW q \in Nat \ {0}, NEW n \in Nat, NextAt(u, p) = p + n,
           q + n <= Len(w) + 1, Same(w, q, u, p, n)
    PROVE  /\ IsFrameAt(w, q) /\ NextAt(w, q) = q + n
           /\ MessageAt(w, q) = MessageAt(u, p)
<1> DEFINE e == Extra(u, p)
           s == SizeAt(u, p)
<1>1. /\ w[q] = u[p] /\ Extra(w, q) = e /\ SizeAt(w, q) = s
      /\ BodyAt(w, q) = q + 4 + e /\ NextAt(w, q) = q + n
      /\ n = 4 + e + s
  BY HeaderMoved
<1>2. /\ Len(u) \in Nat /\ e \in Nat /\ s \in Nat /\ Len(w) \in Nat
      /\ BodyAt(u, p) = p + 4 + e /\ NextAt(u, p) <= Len(u) + 1
  BY HeaderFacts, LenProperties
<1>3. IsFrameAt(w, q)
  <2>1. q + 1 <= Len(w) /\ q + 1 + e <= Len(w) /\ BodyAt(w, q) + s - 1 <= Len(w)
    <3> HIDE DEF e, s
    <3> QED BY <1>1, <1>2
  <2>2. /\ s > (CASE e = 0 -> -1 [] e = 1 -> Short [] OTHER -> Wide)
        /\ u[p] \in Control => s <= Short
    BY DEF IsFrameAt
  <2> HIDE DEF e, s
  <2> QED BY <1>1, <2>1, <2>2 DEF IsFrameAt
<1>4. SubSeq(w, BodyAt(w, q), NextAt(w, q) - 1) = SubSeq(u, BodyAt(u, p), NextAt(u, p) - 1)
  <2> HIDE DEF e, s
  <2> DEFINE a == p + 4 + e
             c == q + 4 + e
  <2>1. a \in Nat \ {0} /\ c \in Nat \ {0} /\ a + s <= Len(u) + 1 /\ c + s <= Len(w) + 1
    BY <1>1, <1>2
  <2>2. Same(w, c, u, a, s)
    <3> SUFFICES ASSUME NEW i \in 0 .. s - 1 PROVE w[c + i] = u[a + i]
      BY DEF Same
    <3>1. 4 + e + i \in 0 .. n - 1
      BY <1>1, <1>2
    <3>2. w[q + (4 + e + i)] = u[p + (4 + e + i)]
      BY <3>1 DEF Same
    <3>3. q + (4 + e + i) = c + i /\ p + (4 + e + i) = a + i
      BY <1>2
    <3> QED BY <3>2, <3>3
  <2>3. c + s - 1 = NextAt(w, q) - 1 /\ a + s - 1 = NextAt(u, p) - 1
    BY <1>1, <1>2
  <2>4. a = BodyAt(u, p) /\ c = BodyAt(w, q)
    BY <1>1, <1>2
  <2> HIDE DEF a, c
  <2>5. SubSeq(w, c, c + s - 1) = SubSeq(u, a, a + s - 1)
    BY SMTT(30), <1>2, <2>1, <2>2, SubSeqMoved
  <2> QED BY <2>3, <2>4, <2>5
<1>5. SubSeq(w, BodyAt(w, q) - 2, BodyAt(w, q) - 1) = SubSeq(u, BodyAt(u, p) - 2, BodyAt(u, p) - 1)
  <2> HIDE DEF e, s
  <2> DEFINE a == p + 2 + e
             c == q + 2 + e
  <2>1. a \in Nat \ {0} /\ c \in Nat \ {0} /\ a + 2 <= Len(u) + 1 /\ c + 2 <= Len(w) + 1
    BY <1>1, <1>2
  <2>2. Same(w, c, u, a, 2)
    <3> SUFFICES ASSUME NEW i \in 0 .. 1 PROVE w[c + i] = u[a + i]
      BY DEF Same
    <3>1. 2 + e + i \in 0 .. n - 1
      BY <1>1, <1>2
    <3>2. w[q + (2 + e + i)] = u[p + (2 + e + i)]
      BY <3>1 DEF Same
    <3>3. q + (2 + e + i) = c + i /\ p + (2 + e + i) = a + i
      BY <1>2
    <3> QED BY <3>2, <3>3
  <2>3. c + 2 - 1 = BodyAt(w, q) - 1 /\ a + 2 - 1 = BodyAt(u, p) - 1
    BY <1>1, <1>2
  <2>4. a = BodyAt(u, p) - 2 /\ c = BodyAt(w, q) - 2
    BY <1>1, <1>2
  <2> HIDE DEF a, c
  <2>5. SubSeq(w, c, c + 2 - 1) = SubSeq(u, a, a + 2 - 1)
    BY <2>1, <2>2, SubSeqMoved
  <2> QED BY <2>3, <2>4, <2>5
<1> HIDE DEF e, s
<1> QED BY <1>1, <1>3, <1>4, <1>5 DEF MessageAt
\* The beginning of a frame is none.
LEMMA PartIsNoFrame ==
    ASSUME NEW u \in Seq(Byte), IsFrameAt(u, 1), NextAt(u, 1) = Len(u) + 1,
           NEW w \in Seq(Byte), NEW q \in Nat \ {0}, NEW m \in Nat,
           m < Len(u), q + m = Len(w) + 1, Same(w, q, u, 1, m)
    PROVE  ~IsFrameAt(w, q)
<1> SUFFICES ASSUME IsFrameAt(w, q) PROVE FALSE
  OBVIOUS
<1>1. Len(u) \in Nat /\ Len(w) \in Nat
  BY LenProperties
<1>2. NextAt(w, q) \in Nat /\ q + 4 <= NextAt(w, q) /\ NextAt(w, q) <= q + m
  <2>1. /\ BodyAt(w, q) \in Nat /\ NextAt(w, q) \in Nat /\ q + 4 <= BodyAt(w, q)
        /\ BodyAt(w, q) <= NextAt(w, q) /\ NextAt(w, q) <= Len(w) + 1
    BY HeaderFacts
  <2> QED BY <2>1
<1>3. PICK n \in Nat : NextAt(w, q) = q + n /\ n <= m
  <2>1. NextAt(w, q) - q \in Nat /\ NextAt(w, q) = q + (NextAt(w, q) - q) /\ NextAt(w, q) - q <= m
    BY <1>2
  <2> QED BY <2>1
<1>4. Same(u, 1, w, q, n)
  <2> SUFFICES ASSUME NEW i \in 0 .. n - 1 PROVE u[1 + i] = w[q + i]
    BY DEF Same
  <2>1. i \in 0 .. m - 1
    BY <1>3
  <2> QED BY <2>1 DEF Same
<1>5. 1 + n <= Len(u) + 1
  BY <1>1, <1>3
<1>6. NextAt(u, 1) = 1 + n
  BY <1>3, <1>4, <1>5, FrameMoved
<1> QED BY <1>1, <1>3, <1>6

LEMMA NothingIsNoFrame ==
    ASSUME NEW w \in Seq(Byte)
    PROVE  ~IsFrameAt(w, Len(w) + 1)
BY LenProperties DEF IsFrameAt

-----------------------------------------------------------------------------
(* What the reader returns.                                                *)

LEMMA LessThanIsWellFounded == IsWellFoundedOn({ss \in Nat \X Nat : ss[1] < ss[2]}, Nat)
BY NatLessThanWellFounded, Zenon DEF OpToRel

LEMMA Least ==
    ASSUME NEW T \in SUBSET Nat, T # {}
    PROVE  \E x \in T : \A y \in T : x <= y
<1> DEFINE R == {ss \in Nat \X Nat : ss[1] < ss[2]}
<1>1. IsWellFoundedOn(R, Nat)
  BY LessThanIsWellFounded
<1>2. \A y \in Nat, x \in Nat : <<y, x>> \in R <=> y < x
  OBVIOUS
<1> HIDE DEF R
<1>3. PICK x \in T : \A y \in T : ~(<<y, x>> \in R)
  BY <1>1, WFMin
<1>4. \A y \in T : ~(y < x) /\ y \in Nat /\ x \in Nat
  BY <1>2, <1>3
<1> QED BY <1>4

\* What is read from p on, by what f says is read behind the frame there.
From(w, p, f) ==
    IF ~IsFrameAt(w, p) THEN [messages |-> <<>>, rest |-> p]
    ELSE [f[NextAt(w, p)] EXCEPT !.messages = <<MessageAt(w, p)>> \o @]
\* f is what is read from m on.
Reads(f, w, m) == f = [p \in m .. Len(w) + 1 |-> From(w, p, f)]

LEMMA ReadsExist ==
    ASSUME NEW w \in Seq(Byte)
    PROVE  \E f : Reads(f, w, 1)
<1> DEFINE N == Len(w) + 1
           T == {k \in 0 .. N : \A f : ~Reads(f, w, N + 1 - k)}
<1>1. N \in Nat \ {0} /\ Len(w) \in Nat
  BY LenProperties
<1>2. ASSUME T # {} PROVE FALSE
  <2>1. PICK k \in T : \A y \in T : k <= y
    <3>1. T \in SUBSET Nat
      BY <1>1
    <3> QED BY <1>2, <3>1, Least
  <2>2. k # 0
    <3>1. ASSUME k = 0 PROVE Reads([p \in N + 1 .. N |-> 0], w, N + 1 - k)
      <4>1. N + 1 - k = N + 1 /\ N + 1 .. N = {}
        BY <1>1, <3>1
      <4>2. \A f : [p \in N + 1 .. N |-> 0] = [p \in N + 1 .. N |-> From(w, p, f)]
        BY <4>1
      <4> HIDE DEF N
      <4>3. N = Len(w) + 1
        BY DEF N
      <4> QED BY <4>1, <4>2, <4>3 DEF Reads
    <3> QED BY <2>1, <3>1
  <2>3. k - 1 \in 0 .. N /\ k - 1 \notin T
    BY <1>1, <2>1, <2>2
  <2>4. PICK m \in Nat \ {0} : m = N + 1 - k
    <3>1. k \in 0 .. N
      BY <2>1
    <3> HIDE DEF N
    <3>2. N + 1 - k \in Nat \ {0}
      BY <1>1, <3>1
    <3> QED BY <3>2
  <2>5. m <= N /\ N + 1 - (k - 1) = m + 1
    BY <1>1, <2>1, <2>2, <2>4
  <2>6. PICK h : Reads(h, w, m + 1)
    BY <2>3, <2>5
  <2> DEFINE f == [p \in m .. N |-> IF p = m THEN From(w, m, h) ELSE h[p]]
  <2>7. \A p \in m .. N : From(w, p, f) = From(w, p, h)
    <3> SUFFICES ASSUME NEW p \in m .. N PROVE From(w, p, f) = From(w, p, h)
      OBVIOUS
    <3> SUFFICES ASSUME IsFrameAt(w, p) PROVE f[NextAt(w, p)] = h[NextAt(w, p)]
      <4>1. ASSUME f[NextAt(w, p)] = h[NextAt(w, p)] PROVE From(w, p, f) = From(w, p, h)
        <5> HIDE DEF f
        <5> QED BY <4>1 DEF From
      <4>2. ASSUME ~IsFrameAt(w, p) PROVE From(w, p, f) = From(w, p, h)
        <5> HIDE DEF f
        <5> QED BY <4>2 DEF From
      <4> HIDE DEF f
      <4> QED BY <4>1, <4>2
    <3>1. /\ BodyAt(w, p) \in Nat /\ NextAt(w, p) \in Nat /\ p + 4 <= BodyAt(w, p)
          /\ BodyAt(w, p) <= NextAt(w, p) /\ NextAt(w, p) <= Len(w) + 1
      BY HeaderFacts
    <3>2. NextAt(w, p) \in m .. N /\ NextAt(w, p) # m
      BY <1>1, <3>1
    <3> QED BY <3>2
  <2>8. \A p \in m .. N : f[p] = From(w, p, f)
    <3> SUFFICES ASSUME NEW p \in m .. N PROVE f[p] = From(w, p, h)
      BY <2>7
    <3>1. CASE p = m
      BY <3>1
    <3>2. CASE p # m
      <4>1. p \in m + 1 .. Len(w) + 1
        BY <1>1, <3>2
      <4>2. h[p] = From(w, p, h)
        BY <2>6, <4>1 DEF Reads
      <4> QED BY <3>2, <4>2
    <3> QED BY <3>1, <3>2
  <2>9. Reads(f, w, m)
    <3>1. f = [p \in m .. N |-> f[p]]
      OBVIOUS
    <3> HIDE DEF f
    <3> QED BY <2>8, <3>1 DEF Reads
  <2> QED BY <2>1, <2>4, <2>9
<1>3. N \in 0 .. N /\ N \notin T /\ N + 1 - N = 1
  BY <1>1, <1>2
<1> QED BY <1>3

LEMMA ReadIs ==
    ASSUME NEW w \in Seq(Byte)
    PROVE  \E f : Reads(f, w, 1) /\ Read(w) = f[1]
<1> DEFINE f == CHOOSE g : g = [p \in 1 .. Len(w) + 1 |->
            IF ~IsFrameAt(w, p) THEN [messages |-> <<>>, rest |-> p]
            ELSE LET body == BodyAt(w, p)
                     next == body + SizeAt(w, p)
                     mask == SubSeq(w, body - 2, body - 1)
                     m == [opcode |-> w[p],
                           payload |-> Masked(SubSeq(w, body, next - 1), mask, 0)]
                 IN  [g[next] EXCEPT !.messages = <<m>> \o @]]
<1>1. \E g : g = [p \in 1 .. Len(w) + 1 |-> From(w, p, g)]
  BY ReadsExist DEF Reads
<1>2. f = [p \in 1 .. Len(w) + 1 |-> From(w, p, f)]
  BY <1>1 DEF From, MessageAt, NextAt
<1>3. Read(w) = f[1]
  BY DEF Read
<1> HIDE DEF f
<1> QED BY <1>2, <1>3 DEF Reads
\* n frames begin in w at `at`, one behind the other, and none behind them.
Chained(w, at, n) ==
    /\ \A k \in 1 .. n : IsFrameAt(w, at[k]) /\ at[k + 1] = NextAt(w, at[k])
    /\ \A k \in 1 .. n + 1 : at[k] \in 1 .. Len(w) + 1
    /\ ~IsFrameAt(w, at[n + 1])
\* The messages of the last k of them.
LastOf(w, at, n, k) == [i \in 1 .. k |-> MessageAt(w, at[n - k + i])]

LEMMA OneMore ==
    ASSUME NEW w, NEW at, NEW n \in Nat, NEW k \in 1 .. n
    PROVE  <<MessageAt(w, at[n - k + 1])>> \o LastOf(w, at, n, k - 1) = LastOf(w, at, n, k)
<1> DEFINE S == {MessageAt(w, at[i]) : i \in 1 .. n}
           x == LastOf(w, at, n, k)
           y == LastOf(w, at, n, k - 1)
           m == MessageAt(w, at[n - k + 1])
<1>1. x \in [1 .. k -> S] /\ x[1] = m
  <2>1. \A i \in 1 .. k : n - k + i \in 1 .. n
    OBVIOUS
  <2>2. \A i \in 1 .. k : MessageAt(w, at[n - k + i]) \in S
    BY <2>1
  <2> HIDE DEF S, m
  <2>3. x \in [1 .. k -> S] /\ x[1] = MessageAt(w, at[n - k + 1])
    BY <2>2 DEF LastOf
  <2> QED BY <2>3 DEF m
<1>2. y \in [1 .. k - 1 -> S] /\ \A i \in 1 .. k - 1 : y[i] = x[i + 1]
  <2>1. \A i \in 1 .. k - 1 : n - (k - 1) + i \in 1 .. n /\ i + 1 \in 1 .. k /\ n - (k - 1) + i = n - k + (i + 1)
    OBVIOUS
  <2>2. \A i \in 1 .. k - 1 : MessageAt(w, at[n - (k - 1) + i]) \in S
    BY <2>1
  <2>3. y = [i \in 1 .. k - 1 |-> MessageAt(w, at[n - (k - 1) + i])]
    BY DEF LastOf
  <2>4. x = [i \in 1 .. k |-> MessageAt(w, at[n - k + i])]
    BY DEF LastOf
  <2> HIDE DEF S, m, x, y
  <2>5. \A i \in 1 .. k - 1 : x[i + 1] = MessageAt(w, at[n - k + (i + 1)])
    BY <2>1, <2>4
  <2> QED BY <2>1, <2>2, <2>3, <2>5
<1>3. m \in S
  <2>1. n - k + 1 \in 1 .. n
    OBVIOUS
  <2> QED BY <2>1
<1> HIDE DEF S, m, x, y
<1>4. x \in Seq(S) /\ Len(x) = k /\ y \in Seq(S) /\ Len(y) = k - 1
  BY <1>1, <1>2, SeqDef
<1>5. <<m>> \in Seq(S) /\ Len(<<m>>) = 1 /\ <<m>>[1] = m
  BY <1>3
<1> DEFINE z == <<m>> \o y
<1>6. /\ z \in Seq(S) /\ Len(z) = k
      /\ \A i \in 1 .. k : z[i] = IF i <= 1 THEN m ELSE y[i - 1]
  <2>1. /\ z \in Seq(S) /\ Len(z) = 1 + (k - 1)
        /\ \A i \in 1 .. 1 + (k - 1) : z[i] = IF i <= 1 THEN <<m>>[i] ELSE y[i - 1]
    BY <1>4, <1>5, ConcatProperties
  <2> HIDE DEF z
  <2> QED BY <1>5, <2>1
<1> HIDE DEF z
<1>7. \A i \in 1 .. k : z[i] = x[i]
  BY <1>1, <1>2, <1>6
<1>8. z = x
  BY <1>4, <1>6, <1>7, SeqEqual
<1> QED BY <1>8 DEF x, y, z, m

\* The reader finds them all.
LEMMA ReadsChain ==
    ASSUME NEW w \in Seq(Byte), NEW at, NEW n \in Nat, at[1] = 1, Chained(w, at, n)
    PROVE  Read(w) = [messages |-> LastOf(w, at, n, n), rest |-> at[n + 1]]
<1>1. PICK f : Reads(f, w, 1) /\ Read(w) = f[1]
  BY ReadIs
<1> DEFINE Holds(k) == f[at[n + 1 - k]] = [messages |-> LastOf(w, at, n, k), rest |-> at[n + 1]]
           T == {k \in 0 .. n : ~Holds(k)}
<1>2. ASSUME NEW p \in 1 .. Len(w) + 1 PROVE f[p] = From(w, p, f)
  BY <1>1 DEF Reads
<1>3. ASSUME T # {} PROVE FALSE
  <2>1. PICK k \in T : \A y \in T : k <= y
    <3>1. T \in SUBSET Nat
      OBVIOUS
    <3> HIDE DEF T
    <3> QED BY <1>3, <3>1, Least
  <2>2. k \in 0 .. n /\ ~Holds(k)
    BY <2>1
  <2>3. k # 0
    <3>1. ASSUME k = 0 PROVE Holds(k)
      <4>1. n + 1 - k = n + 1 /\ at[n + 1] \in 1 .. Len(w) + 1 /\ ~IsFrameAt(w, at[n + 1])
        BY <3>1 DEF Chained
      <4>2. f[at[n + 1]] = [messages |-> <<>>, rest |-> at[n + 1]]
        BY <1>2, <4>1 DEF From
      <4>3. LastOf(w, at, n, k) = <<>>
        BY <3>1 DEF LastOf
      <4> QED BY <4>1, <4>2, <4>3
    <3> QED BY <2>2, <3>1
  <2>4. k - 1 \in 0 .. n /\ k - 1 \notin T
    BY <2>1, <2>2, <2>3
  <2>5. Holds(k - 1)
    BY <2>4
  <2>6. PICK j \in 1 .. n : j = n + 1 - k
    <3>1. n + 1 - k \in 1 .. n
      BY <2>2, <2>3
    <3> QED BY <3>1
  <2>7. n + 1 - (k - 1) = j + 1 /\ n - k + 1 = j
    BY <2>2, <2>6
  <2>8. /\ IsFrameAt(w, at[j]) /\ at[j + 1] = NextAt(w, at[j]) /\ at[j] \in 1 .. Len(w) + 1
    BY <2>6 DEF Chained
  <2> DEFINE ms == LastOf(w, at, n, k - 1)
             m == MessageAt(w, at[j])
             r == at[n + 1]
  <2>9. f[at[j + 1]] = [messages |-> ms, rest |-> r]
    BY <2>5, <2>7
  <2>10. f[at[j]] = [f[at[j + 1]] EXCEPT !.messages = <<m>> \o f[at[j + 1]].messages]
    BY <1>2, <2>8 DEF From
  <2>11. <<m>> \o ms = LastOf(w, at, n, k)
    <3>1. k \in 1 .. n
      BY <2>2, <2>3
    <3> QED BY <2>7, <3>1, OneMore
  <2> HIDE DEF ms, m, r
  <2>12. f[at[j]] = [messages |-> <<m>> \o ms, rest |-> r]
    <3> DEFINE x == f[at[j + 1]]
    <3>1. x = [messages |-> ms, rest |-> r] /\ x.messages = ms
      BY <2>9
    <3>2. f[at[j]] = [x EXCEPT !.messages = <<m>> \o x.messages]
      BY <2>10
    <3> HIDE DEF x
    <3>3. PICK u : u = <<m>> \o ms
      OBVIOUS
    <3>4. f[at[j]] = [x EXCEPT !.messages = u]
      BY <3>1, <3>2, <3>3
    <3>5. f[at[j]] = [[messages |-> ms, rest |-> r] EXCEPT !.messages = u]
      BY <3>1, <3>4
    <3>6. [[messages |-> ms, rest |-> r] EXCEPT !.messages = u] = [messages |-> u, rest |-> r]
      OBVIOUS
    <3> QED BY <3>3, <3>5, <3>6
  <2>13. Holds(k)
    BY <2>6, <2>11, <2>12 DEF r
  <2> QED BY <2>2, <2>13
<1>4. Holds(n)
  <2>1. n \in 0 .. n /\ n \notin T
    BY <1>3
  <2> QED BY <2>1
<1>5. n + 1 - n = 1
  OBVIOUS
<1> QED BY <1>1, <1>4, <1>5
-----------------------------------------------------------------------------
(* What is built.                                                          *)

LEMMA DivMod ==
    ASSUME NEW b \in Nat \ {0}, NEW n \in Nat, n < b * b
    PROVE  /\ n \div b \in 0 .. b - 1 /\ n % b \in 0 .. b - 1
           /\ (n \div b) * b + (n % b) = n
<1>1. n \div b \in Nat /\ n % b \in 0 .. b - 1 /\ n = b * (n \div b) + (n % b)
  OBVIOUS
<1>2. n \div b < b
  <2>1. ASSUME NEW d \in Nat, d >= b PROVE b * d >= b * b
    BY <2>1
  <2> SUFFICES ASSUME n \div b >= b PROVE FALSE
    BY <1>1
  <2>2. b * (n \div b) >= b * b
    BY <1>1, <2>1
  <2> QED BY <1>1, <2>2
<1>3. (n \div b) * b = b * (n \div b)
  BY <1>1
<1> QED BY <1>1, <1>2, <1>3

\* The length in the form the size calls for.
LEMMA LengthForms ==
    ASSUME NEW n \in Nat, n < Base * Base
    PROVE  /\ Length(n) \in Seq(Byte)
           /\ n <= Short => Len(Length(n)) = 1 /\ Length(n)[1] = n
           /\ Short < n /\ n <= Wide =>
                 Len(Length(n)) = 2 /\ Length(n)[1] = Short + 1 /\ Length(n)[2] = n
           /\ Wide < n => /\ Len(Length(n)) = 3 /\ Length(n)[1] = Short + 2
                          /\ Length(n)[2] * Base + Length(n)[3] = n
<1> USE Constants
<1>1. CASE n <= Short
  <2>1. Length(n) = <<n>> /\ n \in Byte
    BY <1>1 DEF Length, Byte
  <2> QED BY <1>1, <2>1
<1>2. CASE Short < n /\ n <= Wide
  <2>1. Length(n) = <<Short + 1, n>> /\ n \in Byte /\ Short + 1 \in Byte
    BY <1>2 DEF Length, Byte
  <2> QED BY <1>2, <2>1
<1>3. CASE Wide < n
  <2>1. PICK d \in Byte, m \in Byte : d = n \div Base /\ m = n % Base /\ d * Base + m = n
    BY DivMod DEF Byte
  <2>2. Length(n) = <<Short + 2, d, m>> /\ Short + 2 \in Byte
    BY <1>3, <2>1 DEF Length, Byte
  <2>3. Len(Length(n)) = 3 /\ Length(n)[1] = Short + 2 /\ Length(n)[2] = d /\ Length(n)[3] = m
    BY <2>2
  <2>4. Length(n) \in Seq(Byte)
    BY <2>1, <2>2
  <2> QED BY <1>3, <2>1, <2>3, <2>4
<1> QED BY <1>1, <1>2, <1>3

\* Masking twice gives the bytes back.
LEMMA MaskBytes ==
    ASSUME NEW mask \in [1 .. 2 -> {0, Base - 1}], NEW p \in Seq(Byte), NEW index \in Nat
    PROVE  /\ Masked(p, mask, index) \in Seq(Byte)
           /\ Len(Masked(p, mask, index)) = Len(p)
           /\ \A i \in 1 .. Len(p) :
                 Masked(p, mask, index)[i] = Xor(p[i], mask[((index + i - 1) % 2) + 1])
<1>1. Len(p) \in Nat /\ DOMAIN p = 1 .. Len(p) /\ \A i \in 1 .. Len(p) : p[i] \in Byte
  BY LenProperties, ElementOfSeq
<1>2. \A i \in 1 .. Len(p) : ((index + i - 1) % 2) + 1 \in 1 .. 2
  BY <1>1
<1>3. \A i \in 1 .. Len(p) : mask[((index + i - 1) % 2) + 1] \in {0, Base - 1}
  BY <1>2
<1>4. \A i \in 1 .. Len(p) : Xor(p[i], mask[((index + i - 1) % 2) + 1]) \in Byte
  BY <1>1, <1>3, Constants DEF Xor, Byte
<1>5. Masked(p, mask, index) = [i \in 1 .. Len(p) |-> Xor(p[i], mask[((index + i - 1) % 2) + 1])]
  BY <1>1 DEF Masked
<1>6. Masked(p, mask, index) \in [1 .. Len(p) -> Byte]
  BY <1>4, <1>5
<1>7. Masked(p, mask, index) \in Seq(Byte) /\ Len(Masked(p, mask, index)) = Len(p)
  BY <1>1, <1>6, SeqDef
<1> QED BY <1>5, <1>7

LEMMA Unmasked ==
    ASSUME NEW mask \in [1 .. 2 -> {0, Base - 1}], NEW p \in Seq(Byte)
    PROVE  Masked(Masked(p, mask, 0), mask, 0) = p
<1>1. Len(p) \in Nat /\ \A i \in 1 .. Len(p) : p[i] \in Byte
  BY LenProperties, ElementOfSeq
<1> DEFINE x == Masked(p, mask, 0)
           y == Masked(x, mask, 0)
           At(i) == mask[((0 + i - 1) % 2) + 1]
<1>2. x \in Seq(Byte) /\ Len(x) = Len(p) /\ \A i \in 1 .. Len(p) : x[i] = Xor(p[i], At(i))
  BY MaskBytes
<1> HIDE DEF x
<1>3. y \in Seq(Byte) /\ Len(y) = Len(x) /\ \A i \in 1 .. Len(x) : y[i] = Xor(x[i], At(i))
  BY <1>2, MaskBytes
<1>4. ASSUME NEW b \in Byte, NEW m \in {0, Base - 1} PROVE Xor(Xor(b, m), m) = b
  BY Constants DEF Xor, Byte
<1>5. \A i \in 1 .. Len(p) : At(i) \in {0, Base - 1}
  BY <1>1
<1> HIDE DEF y, At
<1>6. \A i \in 1 .. Len(p) : y[i] = p[i]
  BY SMTT(30), <1>1, <1>2, <1>3, <1>4, <1>5
<1>7. y = p
  BY <1>2, <1>3, <1>6, SeqEqual
<1> QED BY <1>7 DEF x, y

\* Where its parts lie in what WebSocketFrame builds.
Parts(b, opcode, size, mask, masked, l) ==
    /\ b \in Seq(Byte) /\ Len(b) = 3 + l + size
    /\ b[1] = opcode
    /\ \A i \in 1 .. l : b[1 + i] = Length(size)[i]
    /\ \A i \in 1 .. 2 : b[1 + l + i] = mask[i]
    /\ \A i \in 1 .. size : b[3 + l + i] = masked[i]

LEMMA PartsOf ==
    ASSUME NEW opcode \in Byte, NEW size \in Nat, size < Base * Base,
           NEW mask \in [1 .. 2 -> {0, Base - 1}], NEW masked \in Seq(Byte), Len(masked) = size,
           NEW l \in Nat, l = Len(Length(size)), NEW b, b = WebSocketFrame(opcode, size, mask, masked)
    PROVE  Parts(b, opcode, size, mask, masked, l)
<1> DEFINE L == Length(size)
           x == <<opcode>> \o L
           y == x \o mask
           z == y \o masked
<1>1. L \in Seq(Byte) /\ Len(L) = l
  BY LengthForms
<1>2. <<opcode>> \in Seq(Byte) /\ Len(<<opcode>>) = 1 /\ <<opcode>>[1] = opcode
  OBVIOUS
<1>3. mask \in Seq(Byte) /\ Len(mask) = 2
  <2>1. mask \in [1 .. 2 -> Byte]
    BY Constants DEF Byte
  <2>2. PICK n \in Nat : n = 2
    OBVIOUS
  <2>3. mask \in [1 .. n -> Byte]
    BY <2>1, <2>2
  <2>4. mask \in Seq(Byte) /\ Len(mask) = n
    BY <2>3, SeqDef
  <2> QED BY <2>2, <2>4
<1> HIDE DEF L
<1>4. x \in Seq(Byte) /\ Len(x) = 1 + l /\ \A i \in 1 .. 1 + l : x[i] = IF i <= 1 THEN <<opcode>>[i] ELSE L[i - 1]
  BY SMTT(30), <1>1, <1>2, ConcatProperties
<1> HIDE DEF x
<1>5. y \in Seq(Byte) /\ Len(y) = 3 + l /\ \A i \in 1 .. 3 + l : y[i] = IF i <= 1 + l THEN x[i] ELSE mask[i - (1 + l)]
  <2>1. /\ y \in Seq(Byte) /\ Len(y) = Len(x) + Len(mask)
        /\ \A i \in 1 .. Len(x) + Len(mask) : y[i] = IF i <= Len(x) THEN x[i] ELSE mask[i - Len(x)]
    BY <1>3, <1>4, ConcatProperties
  <2> HIDE DEF y
  <2> QED BY <1>3, <1>4, <2>1
<1> HIDE DEF y
<1>6. z \in Seq(Byte) /\ Len(z) = 3 + l + size /\ \A i \in 1 .. 3 + l + size : z[i] = IF i <= 3 + l THEN y[i] ELSE masked[i - (3 + l)]
  <2>1. /\ z \in Seq(Byte) /\ Len(z) = Len(y) + Len(masked)
        /\ \A i \in 1 .. Len(y) + Len(masked) : z[i] = IF i <= Len(y) THEN y[i] ELSE masked[i - Len(y)]
    <3>1. y \in Seq(Byte)
      BY <1>5
    <3> QED BY <3>1, ConcatProperties
  <2> HIDE DEF z
  <2> QED BY <1>5, <2>1
<1>7. b = z
  BY DEF WebSocketFrame, x, y, z, L
<1> HIDE DEF z
<1>8. b[1] = opcode
  BY <1>2, <1>4, <1>5, <1>6, <1>7
<1>9. \A i \in 1 .. l : b[1 + i] = L[i]
  <2> TAKE i \in 1 .. l
  <2>1. b[1 + i] = y[1 + i] /\ y[1 + i] = x[1 + i] /\ x[1 + i] = L[(1 + i) - 1] /\ (1 + i) - 1 = i
    BY <1>4, <1>5, <1>6, <1>7
  <2> QED BY <2>1
<1>10. \A i \in 1 .. 2 : b[1 + l + i] = mask[i]
  <2> TAKE i \in 1 .. 2
  <2>1. b[1 + l + i] = y[1 + l + i] /\ y[1 + l + i] = mask[(1 + l + i) - (1 + l)] /\ (1 + l + i) - (1 + l) = i
    BY <1>5, <1>6, <1>7
  <2> QED BY <2>1
<1>11. \A i \in 1 .. size : b[3 + l + i] = masked[i]
  <2> TAKE i \in 1 .. size
  <2>1. b[3 + l + i] = masked[(3 + l + i) - (3 + l)] /\ (3 + l + i) - (3 + l) = i
    BY <1>6, <1>7
  <2> QED BY <2>1
<1> QED BY <1>6, <1>7, <1>8, <1>9, <1>10, <1>11 DEF L, Parts
\* What WebSocketFrame builds is read as one frame, with the payload that was masked.
LEMMA BuiltFrame ==
    ASSUME NEW opcode \in Byte, NEW size \in Nat, size < Base * Base,
           opcode \in Control => size <= Short,
           NEW mask \in [1 .. 2 -> {0, Base - 1}], NEW p \in Seq(Byte), Len(p) = size,
           NEW b, b = WebSocketFrame(opcode, size, mask, Masked(p, mask, 0))
    PROVE  /\ b \in Seq(Byte) /\ Len(b) \in Nat \ {0}
           /\ IsFrameAt(b, 1) /\ NextAt(b, 1) = Len(b) + 1
           /\ MessageAt(b, 1) = [opcode |-> opcode, payload |-> p]
<1> DEFINE masked == Masked(p, mask, 0)
<1>1. masked \in Seq(Byte) /\ Len(masked) = size
  BY MaskBytes
<1>2. PICK l \in {1, 2, 3} : l = Len(Length(size))
  <2>1. Len(Length(size)) \in {1, 2, 3}
    BY Constants, LengthForms
  <2> QED BY <2>1
<1>3. /\ b \in Seq(Byte) /\ Len(b) = 3 + l + size
      /\ b[1] = opcode
      /\ \A i \in 1 .. l : b[1 + i] = Length(size)[i]
      /\ \A i \in 1 .. 2 : b[1 + l + i] = mask[i]
      /\ \A i \in 1 .. size : b[3 + l + i] = masked[i]
  <2>1. b = WebSocketFrame(opcode, size, mask, masked) /\ l \in Nat /\ l = Len(Length(size))
    BY <1>2
  <2> HIDE DEF masked
  <2>2. masked \in Seq(Byte) /\ Len(masked) = size
    BY <1>1
  <2>3. Parts(b, opcode, size, mask, masked, l)
    BY <2>1, <2>2, PartsOf
  <2> QED BY <2>3 DEF Parts
<1>4. Extra(b, 1) = l - 1 /\ SizeAt(b, 1) = size
      /\ size > (CASE l - 1 = 0 -> -1 [] l - 1 = 1 -> Short [] OTHER -> Wide)
  <2> DEFINE L == Length(size)
  <2>1. /\ size <= Short => l = 1 /\ L[1] = size
        /\ Short < size /\ size <= Wide => l = 2 /\ L[1] = Short + 1 /\ L[2] = size
        /\ Wide < size => l = 3 /\ L[1] = Short + 2 /\ L[2] * Base + L[3] = size
    BY <1>2, LengthForms
  <2>2. b[1 + 1] = L[1]
    BY <1>3
  <2>3. l >= 2 => b[1 + 2] = L[2]
    BY <1>3
  <2>4. l >= 3 => b[1 + 3] = L[3]
    BY <1>3
  <2> HIDE DEF L
  <2>5. CASE size <= Short
    <3>1. l = 1 /\ b[1 + 1] = size
      BY <2>1, <2>2, <2>5
    <3>2. Extra(b, 1) = 0
      BY <2>5, <3>1 DEF Extra
    <3>3. SizeAt(b, 1) = size
      BY <3>1, <3>2 DEF SizeAt
    <3> QED BY <2>5, <3>1, <3>2, <3>3
  <2>6. CASE Short < size /\ size <= Wide
    <3>1. l = 2 /\ b[1 + 1] = Short + 1 /\ b[1 + 2] = size
      BY <2>1, <2>2, <2>3, <2>6
    <3>2. Extra(b, 1) = 1
      BY <3>1, Constants DEF Extra
    <3>3. SizeAt(b, 1) = size
      BY <3>1, <3>2 DEF SizeAt
    <3> QED BY <2>6, <3>1, <3>2, <3>3
  <2>7. CASE Wide < size
    <3>1. l = 3 /\ b[1 + 1] = Short + 2 /\ b[1 + 2] = L[2] /\ b[1 + 3] = L[3] /\ L[2] * Base + L[3] = size
      BY <2>1, <2>2, <2>3, <2>4, <2>7
    <3>2. Extra(b, 1) = 2
      BY <3>1, Constants DEF Extra
    <3>3. SizeAt(b, 1) = size
      BY <3>1, <3>2 DEF SizeAt
    <3> QED BY <2>7, <3>1, <3>2, <3>3
  <2> QED BY <2>5, <2>6, <2>7, Constants
<1>5. BodyAt(b, 1) = 4 + l /\ NextAt(b, 1) = 4 + l + size
  BY <1>4 DEF BodyAt, NextAt
<1>6. IsFrameAt(b, 1)
  <2>1. /\ 1 + 1 <= Len(b) /\ 1 + 1 + Extra(b, 1) <= Len(b)
        /\ BodyAt(b, 1) + SizeAt(b, 1) - 1 <= Len(b)
    BY SMTT(30), <1>3, <1>4, <1>5
  <2> QED BY <1>3, <1>4, <2>1 DEF IsFrameAt
<1>7. SubSeq(b, 4 + l, 4 + l + size - 1) = masked
  <2> HIDE DEF masked
  <2>1. Same(b, 4 + l, masked, 1, size)
    <3> SUFFICES ASSUME NEW i \in 0 .. size - 1 PROVE b[4 + l + i] = masked[1 + i]
      BY DEF Same
    <3>1. 1 + i \in 1 .. size
      OBVIOUS
    <3>2. b[3 + l + (1 + i)] = masked[1 + i]
      BY <1>3, <3>1
    <3>3. 3 + l + (1 + i) = 4 + l + i
      OBVIOUS
    <3> QED BY <3>2, <3>3
  <2>2. SubSeq(b, 4 + l, 4 + l + size - 1) = SubSeq(masked, 1, 1 + size - 1)
    <3>1. 4 + l \in Nat \ {0} /\ 4 + l + size <= Len(b) + 1 /\ 1 + size <= Len(masked) + 1
      BY <1>1, <1>3
    <3> QED BY SMTT(30), <1>1, <1>3, <2>1, <3>1, SubSeqMoved
  <2>3. SubSeq(masked, 1, size) = masked
    BY <1>1, SubSeqFull
  <2>4. 1 + size - 1 = size
    OBVIOUS
  <2> QED BY <2>2, <2>3, <2>4
<1>8. SubSeq(b, 2 + l, 2 + l + 2 - 1) = mask
  <2>1. mask \in Seq(Byte) /\ Len(mask) = 2
    <3>1. mask \in [1 .. 2 -> Byte]
      BY Constants DEF Byte
    <3>2. PICK n \in Nat : n = 2
      OBVIOUS
    <3>3. mask \in [1 .. n -> Byte]
      BY <3>1, <3>2
    <3>4. mask \in Seq(Byte) /\ Len(mask) = n
      BY <3>3, SeqDef
    <3> QED BY <3>2, <3>4
  <2>2. Same(b, 2 + l, mask, 1, 2)
    <3> SUFFICES ASSUME NEW i \in 0 .. 1 PROVE b[2 + l + i] = mask[1 + i]
      BY DEF Same
    <3>1. 1 + i \in 1 .. 2
      OBVIOUS
    <3>2. b[1 + l + (1 + i)] = mask[1 + i]
      BY <1>3, <3>1
    <3>3. 1 + l + (1 + i) = 2 + l + i
      OBVIOUS
    <3> QED BY <3>2, <3>3
  <2>3. SubSeq(b, 2 + l, 2 + l + 2 - 1) = SubSeq(mask, 1, 1 + 2 - 1)
    <3>1. 2 + l \in Nat \ {0} /\ 2 + l + 2 <= Len(b) + 1 /\ 1 + 2 <= Len(mask) + 1
      BY <1>3, <2>1
    <3> QED BY <1>3, <2>1, <2>2, <3>1, SubSeqMoved
  <2>4. SubSeq(mask, 1, 2) = mask
    BY <2>1, SubSeqFull
  <2> QED BY <2>3, <2>4
<1>9. MessageAt(b, 1) = [opcode |-> opcode, payload |-> p]
  <2>1. /\ NextAt(b, 1) - 1 = 4 + l + size - 1
        /\ BodyAt(b, 1) - 2 = 2 + l /\ BodyAt(b, 1) - 1 = 2 + l + 2 - 1
    BY <1>5
  <2>2. MessageAt(b, 1) = [opcode |-> opcode, payload |-> Masked(masked, mask, 0)]
    BY <1>3, <1>5, <1>7, <1>8, <2>1 DEF MessageAt
  <2>3. Masked(masked, mask, 0) = p
    BY Unmasked
  <2> QED BY <2>2, <2>3
<1>10. Len(b) \in Nat \ {0} /\ NextAt(b, 1) = Len(b) + 1
  BY <1>3, <1>5
<1> QED BY <1>3, <1>6, <1>9, <1>10

\* A part masked on from where the one before ended is masked as one with it.
LEMMA MaskedTogether ==
    ASSUME NEW mask \in [1 .. 2 -> {0, Base - 1}], NEW h \in Seq(Byte), NEW p \in Seq(Byte)
    PROVE  Masked(h, mask, 0) \o Masked(p, mask, Len(h)) = Masked(h \o p, mask, 0)
<1> DEFINE x == Masked(h, mask, 0)
           y == Masked(p, mask, Len(h))
           c == h \o p
           z == Masked(c, mask, 0)
           xy == x \o y
           By(j) == mask[(j % 2) + 1]
<1>1. Len(h) \in Nat /\ Len(p) \in Nat
  BY LenProperties
<1>2. x \in Seq(Byte) /\ Len(x) = Len(h) /\ \A i \in 1 .. Len(h) : x[i] = Xor(h[i], By(0 + i - 1))
  BY MaskBytes
<1>3. y \in Seq(Byte) /\ Len(y) = Len(p) /\ \A i \in 1 .. Len(p) : y[i] = Xor(p[i], By(Len(h) + i - 1))
  BY <1>1, MaskBytes
<1>4. /\ c \in Seq(Byte) /\ Len(c) = Len(h) + Len(p)
      /\ \A i \in 1 .. Len(h) + Len(p) : c[i] = IF i <= Len(h) THEN h[i] ELSE p[i - Len(h)]
  BY ConcatProperties
<1> HIDE DEF x, y, c
<1>5. z \in Seq(Byte) /\ Len(z) = Len(c) /\ \A i \in 1 .. Len(c) : z[i] = Xor(c[i], By(0 + i - 1))
  BY <1>4, MaskBytes
<1>6. /\ xy \in Seq(Byte) /\ Len(xy) = Len(x) + Len(y)
      /\ \A i \in 1 .. Len(x) + Len(y) : xy[i] = IF i <= Len(x) THEN x[i] ELSE y[i - Len(x)]
  <2>1. x \in Seq(Byte) /\ y \in Seq(Byte)
    BY <1>2, <1>3
  <2> QED BY <2>1, ConcatProperties
<1> HIDE DEF z, xy, By
<1>7. ASSUME NEW i \in 1 .. Len(h) + Len(p) PROVE xy[i] = z[i]
  <2>1. CASE i <= Len(h)
    <3>1. xy[i] = x[i] /\ x[i] = Xor(h[i], By(0 + i - 1)) /\ c[i] = h[i] /\ z[i] = Xor(c[i], By(0 + i - 1))
      BY <1>1, <1>2, <1>3, <1>4, <1>5, <1>6, <2>1
    <3> QED BY <3>1
  <2>2. CASE i > Len(h)
    <3>1. PICK j \in 1 .. Len(p) : j = i - Len(h)
      <4>1. i - Len(h) \in 1 .. Len(p)
        BY <1>1, <2>2
      <4> QED BY <4>1
    <3>2. Len(h) + j - 1 = 0 + i - 1
      BY <1>1, <3>1
    <3>3. y[j] = Xor(p[j], By(Len(h) + j - 1))
      BY <1>3
    <3>4. xy[i] = y[j] /\ c[i] = p[j] /\ z[i] = Xor(c[i], By(0 + i - 1))
      BY <1>1, <1>2, <1>3, <1>4, <1>5, <1>6, <2>2, <3>1
    <3> QED BY <3>2, <3>3, <3>4
  <2> QED BY <1>1, <2>1, <2>2
<1>8. xy = z
  BY <1>2, <1>3, <1>4, <1>5, <1>6, <1>7, SeqEqual
<1> QED BY <1>8 DEF x, y, z, xy, c
-----------------------------------------------------------------------------
(* Sending.                                                                *)

LEMMA Contents ==
    ASSUME NEW n \in Nat
    PROVE  Content(n) \in Seq(Byte) /\ Len(Content(n)) = n
<1>1. \A i \in 1 .. n : (5 * i) % Base \in Byte
  BY Constants DEF Byte
<1>2. Content(n) \in [1 .. n -> Byte]
  BY <1>1 DEF Content
<1> QED BY <1>2, SeqDef

LEMMA Nothing ==
    /\ NoFrame \in Frames /\ Len(NoFrame.payload) <= MaxPayload
    /\ NoMessage \in Message /\ NoFrame.type = 0
<1>1. 0 \in Byte /\ <<>> \in Seq(Byte) /\ Len(<<>>) = 0 /\ 0 <= MaxPayload
  BY Constants DEF Byte, MaxPayload
<1>2. NoFrame \in Frames /\ NoFrame.payload = <<>> /\ NoFrame.type = 0
  BY <1>1 DEF NoFrame, Frames
<1> QED BY <1>1, <1>2 DEF NoMessage, Data, Message

\* The frame f of m is built, and none of it written.
LEMMA Started ==
    ASSUME TransportInv, MaySend, NEW m \in Message, NEW f \in Seq(Byte),
           Len(f) \in Nat \ {0}, LiesAt(f, 1, m, Len(f) + 1), Start(m, f)
    PROVE  TransportInv'
<1>1. /\ message' = m /\ buffer' = f /\ written' = 0 /\ phase' = "writing"
      /\ tls' = tls /\ wire' = wire /\ sent' = sent /\ arrived' = arrived /\ decoded' = decoded
  BY DEF Start, receiver
<1>2. TypeOK'
  BY <1>1 DEF TypeOK, TransportInv
<1>3. BufferInv'
  BY <1>1 DEF MaySend, BufferInv, LiesAt, IsFrameAt, NextAt, IsRead, MessageAt
<1>4. PICK at : Starts(at)
  BY DEF TransportInv
<1>5. written = 0
  BY DEF MaySend, TransportInv, BufferInv
<1>6. Starts(at)'
  BY <1>1, <1>4, <1>5 DEF Starts
<1>7. ArrivedInv'
  BY <1>1 DEF ArrivedInv
<1> QED BY <1>1, <1>2, <1>3, <1>6, <1>7 DEF TransportInv

\* sendText, sendBinary and sendControl.
LEMMA PayloadSent ==
    ASSUME TransportInv, MaySend, NEW opcode \in Byte, NEW p \in Seq(Byte),
           Len(p) < Base * Base, opcode \in Control => Len(p) <= Short,
           NEW mask \in [1 .. 2 -> {0, Base - 1}],
           Start(Data(opcode, p),
                 WebSocketFrame(opcode, Len(p), mask, Masked(p, mask, 0)))
    PROVE  TransportInv'
<1> DEFINE m == [opcode |-> opcode, payload |-> p, frame |-> NoFrame]
           f == WebSocketFrame(opcode, Len(p), mask, Masked(p, mask, 0))
<1>1. Data(opcode, p) = m
  BY DEF Data
<1>2. Len(p) \in Nat
  BY LenProperties
<1>3. /\ f \in Seq(Byte) /\ Len(f) \in Nat \ {0}
      /\ IsFrameAt(f, 1) /\ NextAt(f, 1) = Len(f) + 1
      /\ MessageAt(f, 1) = [opcode |-> opcode, payload |-> p]
  BY <1>2, BuiltFrame
<1>4. m \in Message
  BY Nothing DEF Message
<1>5. Start(m, f)
  BY <1>1
<1> HIDE DEF f
<1>6. LiesAt(f, 1, m, Len(f) + 1)
  BY <1>3 DEF LiesAt, IsRead
<1> HIDE DEF m
<1> QED BY <1>3, <1>4, <1>5, <1>6, Started

LEMMA BehindHeader ==
    ASSUME NEW h \in Seq(Byte), NEW p \in Seq(Byte)
    PROVE  SubSeq(h \o p, Len(h) + 1, Len(h) + Len(p)) = p
<1> DEFINE c == h \o p
           a == Len(h) + 1
           n == Len(p)
<1>1. Len(h) \in Nat /\ n \in Nat /\ a \in Nat \ {0}
  BY LenProperties
<1>2. /\ c \in Seq(Byte) /\ Len(c) = Len(h) + n
      /\ \A j \in 1 .. Len(h) + n : c[j] = IF j <= Len(h) THEN h[j] ELSE p[j - Len(h)]
  BY ConcatProperties
<1> HIDE DEF c
<1>3. Same(c, a, p, 1, n)
  <2> SUFFICES ASSUME NEW j \in 0 .. n - 1 PROVE c[a + j] = p[1 + j]
    BY DEF Same
  <2>1. a + j \in 1 .. Len(h) + n /\ ~(a + j <= Len(h)) /\ (a + j) - Len(h) = 1 + j
    BY <1>1
  <2>2. c[a + j] = p[(a + j) - Len(h)]
    BY <1>2, <2>1
  <2> QED BY <2>1, <2>2
<1>4. a + n <= Len(c) + 1 /\ 1 + n <= Len(p) + 1
  BY <1>1, <1>2
<1>5. a + n - 1 = Len(h) + Len(p) /\ 1 + n - 1 = Len(p)
  BY <1>1
<1> HIDE DEF a, n
<1>6. SubSeq(c, a, a + n - 1) = SubSeq(p, 1, 1 + n - 1)
  <2>1. PICK k \in Nat, b \in Nat \ {0}, d \in Nat \ {0} : k = n /\ b = a /\ d = 1
    BY <1>1
  <2>2. c \in Seq(Byte) /\ Same(c, b, p, d, k) /\ b + k <= Len(c) + 1 /\ d + k <= Len(p) + 1
    BY <1>2, <1>3, <1>4, <2>1
  <2>3. SubSeq(c, b, b + k - 1) = SubSeq(p, d, d + k - 1)
    BY ONLY <2>2, SubSeqMoved
  <2> QED BY <2>1, <2>3
<1>7. SubSeq(p, 1, Len(p)) = p
  BY SubSeqFull
<1> QED BY <1>5, <1>6, <1>7 DEF a, c

\* The header of a SessionGW frame and what it heads.
LEMMA HeadedPayload ==
    ASSUME NEW frame \in Frames, frame.flags = 0, Len(frame.payload) <= MaxPayload,
           NEW h, h = SessionGatewayHeader(frame.type, frame.id, Len(frame.payload)),
           NEW c, c = h \o frame.payload
    PROVE  /\ h \in Seq(Byte) /\ Len(h) = HeaderSize
           /\ c \in Seq(Byte) /\ Len(c) = HeaderSize + Len(frame.payload)
           /\ Acceptable(c) /\ Parsed(c) = frame
<1> DEFINE p == frame.payload
           n == Len(p)
<1>1. /\ p \in Seq(Byte) /\ n \in Nat /\ n \in Byte /\ frame.type \in Byte /\ frame.id \in Byte
      /\ frame = [type |-> frame.type, flags |-> 0, id |-> frame.id, payload |-> p]
  <2>1. p \in Seq(Byte) /\ frame.type \in Byte /\ frame.id \in Byte
    BY DEF Frames
  <2>2. n \in Nat
    BY <2>1, LenProperties
  <2>3. frame = [type |-> frame.type, flags |-> 0, id |-> frame.id, payload |-> p]
    BY DEF Frames
  <2> QED BY <2>1, <2>2, <2>3, Constants DEF MaxPayload, Byte
<1>2. PICK t \in Byte, i \in Byte : t = frame.type /\ i = frame.id
  BY <1>1
<1>3. h = <<Magic, Version, t, 0, 0, i, n>>
  BY <1>2 DEF SessionGatewayHeader
<1> HIDE DEF n, p
<1>4. Magic \in Byte /\ Version \in Byte /\ 0 \in Byte
  BY Constants DEF Magic, Version, Byte
<1>5. /\ h \in Seq(Byte) /\ Len(h) = 7
      /\ h[1] = Magic /\ h[2] = Version /\ h[3] = t /\ h[4] = 0 /\ h[6] = i /\ h[7] = n
  BY <1>1, <1>2, <1>3, <1>4
<1>6. c = h \o p
  BY DEF p
<1>7. /\ c \in Seq(Byte) /\ Len(c) = 7 + n
      /\ \A j \in 1 .. 7 + n : c[j] = IF j <= 7 THEN h[j] ELSE p[j - 7]
  <2>1. /\ h \o p \in Seq(Byte) /\ Len(h \o p) = Len(h) + Len(p)
        /\ \A j \in 1 .. Len(h) + Len(p) : (h \o p)[j] = IF j <= Len(h) THEN h[j] ELSE p[j - Len(h)]
    BY ZenonT(60), <1>1, <1>5, ConcatProperties
  <2>2. n = Len(p)
    BY DEF n
  <2> QED BY <1>5, <1>6, <2>1, <2>2
<1>8. /\ c[1] = Magic /\ c[2] = Version /\ c[3] = t /\ c[4] = 0 /\ c[6] = i /\ c[7] = n
  BY SMTT(30), <1>1, <1>5, <1>7
<1>9. Acceptable(c)
  BY <1>1, <1>7, <1>8 DEF Acceptable, HeaderSize
<1>10. SubSeq(c, 8, 7 + n) = p
  <2>1. SubSeq(h \o p, Len(h) + 1, Len(h) + Len(p)) = p
    BY <1>1, <1>5, BehindHeader
  <2>2. Len(h) + 1 = 8 /\ Len(h) + Len(p) = 7 + n
    BY <1>1, <1>5 DEF n
  <2> QED BY <1>6, <2>1, <2>2
<1>11. Parsed(c) = frame
  <2>1. HeaderSize + 1 = 8 /\ Len(c) = 7 + n
    BY <1>7 DEF HeaderSize
  <2>2. Parsed(c) = [type |-> t, flags |-> 0, id |-> i, payload |-> p]
    BY <1>8, <1>10, <2>1 DEF Parsed
  <2> QED BY <1>1, <1>2, <2>2
<1> QED BY <1>5, <1>7, <1>9, <1>11 DEF HeaderSize, n, p
\* sendFrame.
LEMMA FrameSent ==
    ASSUME TransportInv, NEW type \in Byte, type # 0, NEW id \in Byte, NEW p \in Seq(Byte),
           NEW mask \in [1 .. 2 -> {0, Base - 1}], SendFrame(type, id, p, mask)
    PROVE  TransportInv'
<1> DEFINE n == Len(p)
           frame == [type |-> type, flags |-> 0, id |-> id, payload |-> p]
           m == [opcode |-> Binary, payload |-> <<>>, frame |-> frame]
           h == SessionGatewayHeader(type, id, n)
           c == h \o p
           f == WebSocketFrame(Binary, HeaderSize + n, mask, Masked(c, mask, 0))
<1>1. /\ n \in Nat /\ n <= MaxPayload /\ MaySend
      /\ Start(m, WebSocketFrame(Binary, HeaderSize + n, mask,
                                 Masked(h, mask, 0) \o Masked(p, mask, HeaderSize)))
  BY LenProperties DEF SendFrame
<1>2. 0 \in Byte /\ Binary \in Byte /\ Binary \notin Control /\ <<>> \in Seq(Byte)
  BY Constants DEF Byte, Binary, Control
<1>3. frame \in Frames /\ frame.flags = 0 /\ frame.type = type /\ frame.id = id /\ frame.payload = p
  BY <1>2 DEF Frames
<1>4. m \in Message
  <2>1. Len(frame.payload) <= MaxPayload
    BY <1>1, <1>3
  <2> HIDE DEF frame
  <2> QED BY <1>2, <1>3, <2>1 DEF Message
<1>5. m.frame # NoFrame /\ m.opcode = Binary /\ m.frame = frame
  BY <1>3, Nothing
<1>6. /\ h \in Seq(Byte) /\ Len(h) = HeaderSize
      /\ c \in Seq(Byte) /\ Len(c) = HeaderSize + n
      /\ Acceptable(c) /\ Parsed(c) = frame
  <2>1. h = SessionGatewayHeader(frame.type, frame.id, Len(frame.payload)) /\ c = h \o frame.payload
    BY <1>3
  <2>2. Len(frame.payload) <= MaxPayload /\ Len(frame.payload) = n
    BY <1>1, <1>3
  <2> HIDE DEF frame, h, c, n
  <2> QED BY ZenonT(60), <1>3, <2>1, <2>2, HeadedPayload
<1>7. Masked(h, mask, 0) \o Masked(p, mask, HeaderSize) = Masked(c, mask, 0)
  <2> HIDE DEF h
  <2> QED BY <1>6, MaskedTogether
<1> HIDE DEF frame, m, h, c, n
<1>8. Start(m, f)
  BY <1>1, <1>7
<1>9. HeaderSize + n \in Nat /\ HeaderSize + n < Base * Base
  <2>1. n < Base /\ 10 < Base /\ Base \in Nat
    BY <1>1, Constants DEF MaxPayload
  <2>2. ASSUME NEW b \in Nat, 10 < b PROVE 7 + b < b * b
    <3>1. b * b >= 10 * b
      BY <2>2
    <3> QED BY <2>2, <3>1
  <2> QED BY <1>1, <2>1, <2>2 DEF HeaderSize
<1>10. /\ f \in Seq(Byte) /\ Len(f) \in Nat \ {0}
       /\ IsFrameAt(f, 1) /\ NextAt(f, 1) = Len(f) + 1
       /\ MessageAt(f, 1) = [opcode |-> Binary, payload |-> c]
  <2>1. f = WebSocketFrame(Binary, HeaderSize + n, mask, Masked(c, mask, 0))
    OBVIOUS
  <2> HIDE DEF f
  <2> QED BY <1>2, <1>6, <1>9, <2>1, BuiltFrame
<1> HIDE DEF f
<1>11. LiesAt(f, 1, m, Len(f) + 1)
  BY <1>5, <1>6, <1>10 DEF LiesAt, IsRead
<1> QED BY <1>1, <1>4, <1>8, <1>10, <1>11, Started

-----------------------------------------------------------------------------
(* Writing.                                                                *)

LEMMA AsIntIsNoMore ==
    ASSUME NEW n \in Nat
    PROVE  AsInt(n) \in Int /\ AsInt(n) <= n
<1> DEFINE low == n % IntValues
<1>1. IntValues \in Nat \ {0} /\ MaxInt \in Nat
  BY Constants
<1>2. low \in Nat /\ low <= n
  <2>1. n \div IntValues \in Nat /\ low \in Nat /\ n = IntValues * (n \div IntValues) + low
    BY <1>1
  <2>2. IntValues * (n \div IntValues) \in Nat
    BY <1>1, <2>1
  <2> HIDE DEF low
  <2> QED BY <2>1, <2>2
<1> HIDE DEF low
<1>3. AsInt(n) = IF low > MaxInt THEN low - IntValues ELSE low
  BY DEF AsInt, low
<1> QED BY <1>1, <1>2, <1>3

\* What lies in a stream stays there when the stream goes on.
LEMMA LiesStill ==
    ASSUME NEW w \in Seq(Byte), NEW x \in Seq(Byte), NEW p \in Nat \ {0}, NEW q, NEW s,
           LiesAt(w, p, s, q)
    PROVE  LiesAt(w \o x, p, s, q)
<1>1. Len(w) \in Nat /\ Len(x) \in Nat
  BY LenProperties
<1>2. /\ w \o x \in Seq(Byte) /\ Len(w \o x) = Len(w) + Len(x)
      /\ \A i \in 1 .. Len(w) + Len(x) : (w \o x)[i] = IF i <= Len(w) THEN w[i] ELSE x[i - Len(w)]
  BY ConcatProperties
<1>3. IsFrameAt(w, p) /\ q = NextAt(w, p) /\ IsRead(MessageAt(w, p), s)
  BY DEF LiesAt
<1>4. NextAt(w, p) \in Nat /\ p + 4 <= NextAt(w, p) /\ NextAt(w, p) <= Len(w) + 1
  <2>1. /\ BodyAt(w, p) \in Nat /\ NextAt(w, p) \in Nat /\ p + 4 <= BodyAt(w, p)
        /\ BodyAt(w, p) <= NextAt(w, p) /\ NextAt(w, p) <= Len(w) + 1
    BY <1>3, HeaderFacts
  <2> QED BY <2>1
<1>5. PICK n \in Nat : NextAt(w, p) = p + n
  <2>1. NextAt(w, p) - p \in Nat /\ NextAt(w, p) = p + (NextAt(w, p) - p)
    BY <1>4
  <2> QED BY <2>1
<1> DEFINE z == w \o x
<1>6. Same(z, p, w, p, n)
  <2> SUFFICES ASSUME NEW i \in 0 .. n - 1 PROVE z[p + i] = w[p + i]
    BY DEF Same
  <2>1. p + i \in 1 .. Len(w) + Len(x) /\ p + i <= Len(w)
    BY <1>1, <1>4, <1>5
  <2> QED BY <1>2, <2>1
<1>7. z \in Seq(Byte) /\ p + n <= Len(z) + 1
  BY <1>1, <1>2, <1>4, <1>5
<1> HIDE DEF z
<1>8. IsFrameAt(z, p) /\ NextAt(z, p) = p + n /\ MessageAt(z, p) = MessageAt(w, p)
  BY <1>3, <1>5, <1>6, <1>7, FrameMoved
<1>9. LiesAt(z, p, s, q)
  BY <1>3, <1>5, <1>8 DEF LiesAt
<1> QED BY <1>9 DEF z
\* A part of the buffer goes out: all that is written of it lies behind the messages sent.
LEMMA PartWritten ==
    ASSUME TransportInv, NEW n \in 1 .. Len(buffer), WriteSome(n), NEW at, Starts(at),
           NEW last, last = at[Len(sent) + 1]
    PROVE  /\ n \in Nat /\ written \in Nat /\ written + n <= Len(buffer) /\ last \in Nat \ {0}
           /\ wire' \in Seq(Byte) /\ last + (written + n) = Len(wire') + 1
           /\ Same(wire', last, buffer, 1, written + n)
           /\ \A k \in 1 .. Len(sent) :
                 at[k] < at[k + 1] /\ LiesAt(wire', at[k], sent[k], at[k + 1])
<1> DEFINE x == SubSeq(buffer, written + 1, written + n)
           L == Len(sent)
<1>1. /\ phase = "writing" /\ n <= Requested /\ wire' = wire \o x
  BY DEF WriteSome, Taken
<1>2. /\ buffer \in Seq(Byte) /\ wire \in Seq(Byte) /\ Len(buffer) \in Nat /\ Len(wire) \in Nat
      /\ written \in Nat /\ written < Len(buffer) /\ sent \in Seq(Message) /\ L \in Nat
  BY <1>1, LenProperties DEF TransportInv, TypeOK, BufferInv
<1>3. n \in Nat /\ written + n <= Len(buffer)
  <2>1. Len(buffer) - written \in Nat
    BY <1>2
  <2>2. Requested <= Len(buffer) - written /\ Requested \in Int
    BY <2>1, AsIntIsNoMore DEF Requested
  <2> QED BY <1>1, <1>2, <2>2
<1>4. x \in Seq(Byte) /\ Len(x) = n /\ \A i \in 1 .. n : x[i] = buffer[written + i]
  <2>1. \A i \in written + 1 .. written + n : buffer[i] \in Byte
    BY <1>2, <1>3, ElementOfSeq
  <2>2. /\ x \in Seq(Byte) /\ Len(x) = IF written + 1 <= written + n THEN (written + n) - (written + 1) + 1 ELSE 0
        /\ \A i \in 1 .. (written + n) - (written + 1) + 1 : x[i] = buffer[(written + 1) + i - 1]
    BY <1>2, <1>3, <2>1, SubSeqProperties
  <2> HIDE DEF x
  <2>3. (written + n) - (written + 1) + 1 = n /\ written + 1 <= written + n
    BY <1>2, <1>3
  <2>4. \A i \in 1 .. n : (written + 1) + i - 1 = written + i
    BY <1>2, <1>3
  <2> QED BY <2>2, <2>3, <2>4
<1> HIDE DEF x
<1>5. /\ wire' \in Seq(Byte) /\ Len(wire') = Len(wire) + n
      /\ \A i \in 1 .. Len(wire) + n : wire'[i] = IF i <= Len(wire) THEN wire[i] ELSE x[i - Len(wire)]
  <2>1. /\ wire \o x \in Seq(Byte) /\ Len(wire \o x) = Len(wire) + Len(x)
        /\ \A i \in 1 .. Len(wire) + Len(x) : (wire \o x)[i] = IF i <= Len(wire) THEN wire[i] ELSE x[i - Len(wire)]
    BY <1>2, <1>4, ConcatProperties
  <2> QED BY <1>1, <1>4, <2>1
<1>6. /\ at \in Seq(Nat) /\ Len(at) = L + 1 /\ at[1] = 1
      /\ \A k \in 1 .. L : at[k] < at[k + 1] /\ LiesAt(wire, at[k], sent[k], at[k + 1])
      /\ last + written = Len(wire) + 1
      /\ \A i \in 1 .. written : wire[last + i - 1] = buffer[i]
  BY DEF Starts
<1>7. \A k \in 1 .. L + 1 : at[k] \in Nat \ {0}
  <2>1. \A k \in 1 .. L + 1 : at[k] \in Nat
    BY <1>6, ElementOfSeq
  <2> SUFFICES ASSUME NEW k \in 1 .. L + 1, k # 1 PROVE at[k] # 0
    BY <1>6, <2>1
  <2>2. PICK j \in 1 .. L : k = j + 1
    <3>1. k - 1 \in 1 .. L /\ k = (k - 1) + 1
      BY <1>2
    <3> QED BY <3>1
  <2>3. at[j] < at[j + 1] /\ at[j] \in Nat
    BY SMTT(30), <1>2, <1>6, <2>1
  <2> QED BY <2>1, <2>2, <2>3
<1>8. last \in Nat \ {0}
  BY <1>2, <1>7
<1>9. Same(wire', last, buffer, 1, written + n)
  <2> SUFFICES ASSUME NEW i \in 0 .. (written + n) - 1 PROVE wire'[last + i] = buffer[1 + i]
    BY DEF Same
  <2>1. i \in Nat /\ i < written + n /\ last + i \in 1 .. Len(wire) + n
    BY SMTT(30), <1>2, <1>3, <1>6, <1>8
  <2>2. CASE i < written
    <3>1. last + i <= Len(wire)
      BY <1>2, <1>6, <1>8, <2>1, <2>2
    <3>2. wire'[last + i] = wire[last + i]
      BY <1>5, <2>1, <3>1
    <3>3. PICK j \in 1 .. written : j = 1 + i /\ last + j - 1 = last + i
      <4>1. 1 + i \in 1 .. written /\ last + (1 + i) - 1 = last + i
        BY <1>2, <1>8, <2>1, <2>2
      <4> QED BY <4>1
    <3>4. wire[last + j - 1] = buffer[j]
      BY <1>6
    <3> QED BY <3>2, <3>3, <3>4
  <2>3. CASE i >= written
    <3>1. ~(last + i <= Len(wire))
      BY <1>2, <1>6, <1>8, <2>1, <2>3
    <3>2. wire'[last + i] = x[(last + i) - Len(wire)]
      BY <1>5, <2>1, <3>1
    <3>3. PICK j \in 1 .. n : j = (last + i) - Len(wire) /\ written + j = 1 + i
      <4>1. (last + i) - Len(wire) \in 1 .. n /\ written + ((last + i) - Len(wire)) = 1 + i
        <5>1. ASSUME NEW l \in Nat, NEW w \in Nat, NEW m \in Nat, NEW v \in Nat, NEW j \in Nat,
                     l + v = w + 1, v <= j, j < v + m
              PROVE  (l + j) - w \in 1 .. m /\ v + ((l + j) - w) = 1 + j
          BY <5>1
        <5>2. last \in Nat /\ Len(wire) \in Nat /\ n \in Nat /\ written \in Nat /\ i \in Nat
              /\ last + written = Len(wire) + 1 /\ written <= i /\ i < written + n
          BY <1>2, <1>3, <1>6, <1>8, <2>1, <2>3
        <5> QED BY ONLY <5>1, <5>2
      <4> QED BY <4>1
    <3>4. x[j] = buffer[written + j]
      BY <1>4
    <3> QED BY <3>2, <3>3, <3>4
  <2> QED BY <1>2, <2>1, <2>2, <2>3
<1>10. last + (written + n) = Len(wire') + 1
  <2>1. ASSUME NEW l \in Nat, NEW w \in Nat, NEW m \in Nat, NEW v \in Nat, NEW k, l + v = w + 1, k = w + m
        PROVE  l + (v + m) = k + 1
    BY <2>1
  <2>2. last \in Nat /\ Len(wire) \in Nat /\ n \in Nat /\ written \in Nat
        /\ last + written = Len(wire) + 1 /\ Len(wire') = Len(wire) + n
    BY <1>2, <1>3, <1>5, <1>6, <1>8
  <2> QED BY ONLY <2>1, <2>2
<1>11. \A k \in 1 .. L : LiesAt(wire', at[k], sent[k], at[k + 1])
  <2> TAKE k \in 1 .. L
  <2>1. at[k] \in Nat \ {0} /\ LiesAt(wire, at[k], sent[k], at[k + 1])
    BY <1>2, <1>6, <1>7
  <2>2. LiesAt(wire \o x, at[k], sent[k], at[k + 1])
    BY <1>2, <1>4, <2>1, LiesStill
  <2> QED BY <1>1, <2>2
<1> QED BY <1>2, <1>3, <1>5, <1>6, <1>8, <1>9, <1>10, <1>11
LEMMA Written ==
    ASSUME TransportInv, NEW n \in 1 .. Len(buffer), WriteSome(n)
    PROVE  TransportInv'
<1> DEFINE L == Len(sent)
<1>1. PICK at : Starts(at)
  BY DEF TransportInv
<1>2. PICK last : last = at[L + 1]
  OBVIOUS
<1>3. /\ n \in Nat /\ written \in Nat /\ written + n <= Len(buffer) /\ last \in Nat \ {0}
      /\ wire' \in Seq(Byte) /\ last + (written + n) = Len(wire') + 1
      /\ Same(wire', last, buffer, 1, written + n)
      /\ \A k \in 1 .. L : at[k] < at[k + 1] /\ LiesAt(wire', at[k], sent[k], at[k + 1])
  BY <1>1, <1>2, PartWritten
<1>4. /\ buffer \in Seq(Byte) /\ Len(buffer) \in Nat /\ sent \in Seq(Message) /\ L \in Nat
      /\ phase = "writing" /\ L < MaxSends /\ message \in Message
      /\ LiesAt(buffer, 1, message, Len(buffer) + 1)
      /\ at \in Seq(Nat) /\ Len(at) = L + 1 /\ at[1] = 1
  <2>1. buffer \in Seq(Byte) /\ sent \in Seq(Message) /\ phase = "writing"
    BY DEF TransportInv, TypeOK, WriteSome, Taken
  <2>2. Len(buffer) \in Nat /\ L \in Nat
    BY <2>1, LenProperties
  <2>3. L < MaxSends /\ message \in Message /\ LiesAt(buffer, 1, message, Len(buffer) + 1)
    BY <2>1 DEF TransportInv, BufferInv
  <2>4. at \in Seq(Nat) /\ Len(at) = L + 1 /\ at[1] = 1
    BY <1>1 DEF Starts
  <2> QED BY <2>1, <2>2, <2>3, <2>4
<1>5. tls' = tls /\ arrived' = arrived /\ decoded' = decoded
  BY DEF WriteSome, Taken, receiver
<1>6. CASE written + n < Len(buffer)
  <2>1. /\ written' = written + n /\ buffer' = buffer /\ message' = message
        /\ phase' = phase /\ sent' = sent
    BY <1>6 DEF WriteSome, Taken
  <2>2. TypeOK'
    BY <1>3, <1>4, <1>5, <1>6, <2>1 DEF TransportInv, TypeOK
  <2>3. BufferInv'
    BY <1>4, <1>6, <2>1 DEF BufferInv, LiesAt, IsFrameAt, NextAt, IsRead, MessageAt
  <2>4. Starts(at)'
    <3>1. \A i \in 1 .. written + n : wire'[last + i - 1] = buffer[i]
      <4> TAKE i \in 1 .. written + n
      <4>1. PICK j \in 0 .. (written + n) - 1 : j = i - 1
        <5>1. i - 1 \in 0 .. (written + n) - 1
          BY <1>3
        <5> QED BY <5>1
      <4>2. wire'[last + j] = buffer[1 + j]
        BY <1>3 DEF Same
      <4>3. last + j = last + i - 1 /\ 1 + j = i
        BY <4>1
      <4> QED BY <4>2, <4>3
    <3>2. \A k \in 1 .. L : LiesAt(wire, at[k], sent[k], at[k + 1])'
      BY <1>3, <2>1 DEF LiesAt, IsFrameAt, NextAt, IsRead, MessageAt
    <3> QED BY <1>2, <1>3, <1>4, <2>1, <3>1, <3>2 DEF Starts
  <2>5. ArrivedInv'
    BY <1>5, <2>1 DEF ArrivedInv, TransportInv
  <2> QED BY <1>4, <2>1, <2>2, <2>3, <2>4, <2>5 DEF TransportInv
<1>7. CASE ~(written + n < Len(buffer))
  <2>1. /\ written' = 0 /\ buffer' = <<>> /\ message' = NoMessage
        /\ phase' = "ready" /\ sent' = Append(sent, message)
    BY <1>7 DEF WriteSome, Taken
  <2>2. /\ sent' \in Seq(Message) /\ Len(sent') = L + 1
        /\ \A i \in 1 .. L : sent'[i] = sent[i]
        /\ sent'[L + 1] = message
    BY <1>4, <2>1, AppendProperties
  <2>3. TypeOK'
    BY <1>3, <1>4, <1>5, <2>1, <2>2, Constants DEF TransportInv, TypeOK
  <2>4. BufferInv'
    BY <2>1, Nothing DEF BufferInv
  <2> DEFINE N == Len(buffer)
  <2>5. written + n = N /\ last + N = Len(wire') + 1 /\ last + N \in Nat /\ last < last + N
    <3>1. written + n = N /\ N \in Nat \ {0}
      BY <1>3, <1>4, <1>7
    <3> HIDE DEF N
    <3>2. last + N = Len(wire') + 1 /\ last \in Nat
      BY <1>3, <3>1
    <3> QED BY ONLY <3>1, <3>2
  <2>at. PICK at2 : at2 = Append(at, last + N)
    OBVIOUS
  <2>6. /\ at2 \in Seq(Nat) /\ Len(at2) = L + 2
        /\ \A i \in 1 .. L + 1 : at2[i] = at[i]
        /\ at2[L + 2] = last + N
    <3>1. /\ at2 \in Seq(Nat) /\ Len(at2) = Len(at) + 1
          /\ \A i \in 1 .. Len(at) : at2[i] = at[i]
          /\ at2[Len(at) + 1] = last + N
      BY <1>4, <2>5, <2>at, AppendProperties
    <3>2. Len(at) = L + 1 /\ L + 1 + 1 = L + 2
      BY <1>4
    <3> QED BY <3>1, <3>2
  <2>7. LiesAt(wire', last, message, last + N)
    <3>1. IsFrameAt(buffer, 1) /\ N + 1 = NextAt(buffer, 1) /\ IsRead(MessageAt(buffer, 1), message)
      BY <1>4 DEF LiesAt
    <3>2. NextAt(buffer, 1) = 1 + N /\ last + N <= Len(wire') + 1 /\ Same(wire', last, buffer, 1, N) /\ N \in Nat
      BY <1>3, <1>4, <2>5, <3>1
    <3>3. IsFrameAt(wire', last) /\ NextAt(wire', last) = last + N /\ MessageAt(wire', last) = MessageAt(buffer, 1)
      <4> HIDE DEF N
      <4> QED BY <1>3, <1>4, <3>1, <3>2, FrameMoved
    <3> QED BY <3>1, <3>3 DEF LiesAt
  <2> HIDE DEF N
  <2>8. \A k \in 1 .. L + 1 : at2[k] < at2[k + 1] /\ LiesAt(wire', at2[k], sent'[k], at2[k + 1])
    <3> TAKE k \in 1 .. L + 1
    <3>1. CASE k = L + 1
      <4>1. at2[k] = last /\ at2[k + 1] = last + N /\ sent'[k] = message
        <5>1. L + 1 \in 1 .. L + 1 /\ L + 1 + 1 = L + 2
          BY <1>4
        <5> QED BY <1>2, <2>2, <2>6, <3>1, <5>1
      <4> QED BY <2>5, <2>7, <4>1
    <3>2. CASE k # L + 1
      <4>1. k \in 1 .. L /\ k + 1 \in 1 .. L + 1
        BY <1>4, <3>2
      <4>2. at2[k] = at[k] /\ at2[k + 1] = at[k + 1] /\ sent'[k] = sent[k]
        BY <2>2, <2>6, <4>1
      <4>3. at[k] < at[k + 1] /\ LiesAt(wire', at[k], sent[k], at[k + 1])
        BY <1>3, <4>1
      <4> QED BY <4>2, <4>3
    <3> QED BY <3>1, <3>2
  <2>9. Starts(at2)'
    <3>1. at2[1] = 1
      BY <1>4, <2>6
    <3>2. \A k \in 1 .. L + 1 : LiesAt(wire, at2[k], sent[k], at2[k + 1])'
      BY <2>8 DEF LiesAt, IsFrameAt, NextAt, IsRead, MessageAt
    <3>3. L + 1 + 1 = L + 2 /\ last + N + 0 = Len(wire') + 1
      BY <1>3, <1>4, <2>5
    <3> QED BY <2>1, <2>2, <2>6, <2>8, <3>1, <3>2, <3>3 DEF Starts
  <2>10. ArrivedInv'
    BY <1>5, <2>1 DEF ArrivedInv, TransportInv
  <2> QED BY <2>2, <2>3, <2>4, <2>9, <2>10 DEF TransportInv
<1> QED BY <1>6, <1>7

-----------------------------------------------------------------------------
(* Frames that come back.                                                  *)

LEMMA ParsedIsFrame ==
    ASSUME NEW b \in Seq(Byte), Acceptable(b)
    PROVE  Parsed(b) \in Frames
<1>1. Len(b) \in Nat /\ Len(b) >= 7 /\ HeaderSize = 7
  BY LenProperties DEF Acceptable, HeaderSize
<1>2. b[3] \in Byte /\ b[4] \in Byte /\ b[6] \in Byte /\ \A i \in 8 .. Len(b) : b[i] \in Byte
  BY <1>1, ElementOfSeq
<1>3. SubSeq(b, 8, Len(b)) \in Seq(Byte)
  BY <1>1, <1>2, SubSeqProperties
<1>4. HeaderSize + 1 = 8
  BY <1>1
<1> QED BY <1>2, <1>3, <1>4 DEF Parsed, Frames

LEMMA DamagedBytes ==
    ASSUME NEW b \in Seq(Byte)
    PROVE  Damaged(b) \subseteq Seq(Byte)
<1>1. Len(b) \in Nat /\ DOMAIN b = 1 .. Len(b)
  BY LenProperties
<1>2. ASSUME NEW n \in 0 .. Len(b) PROVE SubSeq(b, 1, n) \in Seq(Byte)
  <2>1. \A i \in 1 .. n : b[i] \in Byte
    BY <1>1, ElementOfSeq
  <2> QED BY <2>1, SubSeqProperties
<1>3. {0, 1, Base - 1} \subseteq Byte
  BY Constants DEF Byte
<1>4. ASSUME NEW x \in {0, Base - 1} PROVE Append(b, x) \in Seq(Byte)
  BY <1>3, AppendProperties
<1>5. ASSUME NEW i \in DOMAIN b, NEW x \in {0, 1, Base - 1} PROVE [b EXCEPT ![i] = x] \in Seq(Byte)
  BY <1>1, <1>3, ExceptSeq
<1> QED BY <1>2, <1>4, <1>5 DEF Damaged

LEMMA EncodedBytes ==
    ASSUME NEW frame \in Frames, Len(frame.payload) <= MaxPayload
    PROVE  Encode(frame) \in Seq(Byte)
<1>1. /\ frame.type \in Byte /\ frame.flags \in Byte /\ frame.id \in Byte
      /\ frame.payload \in Seq(Byte)
  BY DEF Frames
<1>2. Magic \in Byte /\ Version \in Byte /\ 0 \in Byte /\ Len(frame.payload) \in Byte
  BY <1>1, LenProperties, Constants DEF Magic, Version, Byte, MaxPayload
<1> DEFINE h == <<Magic, Version, frame.type, frame.flags, 0, frame.id, Len(frame.payload)>>
<1>3. h \in Seq(Byte)
  BY <1>1, <1>2
<1> HIDE DEF h
<1>4. h \o frame.payload \in Seq(Byte)
  BY <1>1, <1>3, ConcatProperties
<1> QED BY <1>4 DEF Encode, h

LEMMA Received ==
    ASSUME TransportInv, NEW b \in Seq(Byte), Receive(b)
    PROVE  TransportInv'
<1>1. /\ arrived' = b /\ tls' = tls /\ wire' = wire /\ phase = "ready"
      /\ buffer' = buffer /\ message' = message /\ written' = written /\ sent' = sent
      /\ phase' \in {"accepted", "refused"}
  BY DEF Receive, sender
<1>2. decoded' \in Frames
  BY ParsedIsFrame DEF Receive, TransportInv, TypeOK
<1>3. TypeOK'
  BY <1>1, <1>2 DEF TransportInv, TypeOK
<1>4. BufferInv'
  BY <1>1 DEF TransportInv, BufferInv
<1>5. PICK at : Starts(at)
  BY DEF TransportInv
<1>6. Starts(at)'
  BY <1>1, <1>5 DEF Starts
<1>7. ArrivedInv'
  BY <1>1 DEF Receive, ArrivedInv
<1> QED BY <1>1, <1>3, <1>4, <1>6, <1>7 DEF TransportInv

LEMMA Returned ==
    ASSUME TransportInv, PeerReturns
    PROVE  TransportInv'
<1>1. sent \in Seq(Message) /\ sent # <<>> /\ Len(sent) \in Nat \ {0}
  BY EmptySeq DEF TransportInv, PeerReturns
<1>2. Last(sent) \in Message
  BY <1>1, ElementOfSeq DEF Last
<1>3. PICK flags \in {0, 1} :
         \E bytes \in Damaged(Encode([Last(sent).frame EXCEPT !.flags = flags])) : Receive(bytes)
  BY DEF PeerReturns
<1> DEFINE frame == Last(sent).frame
           back == [frame EXCEPT !.flags = flags]
<1>4. frame \in Frames /\ Len(frame.payload) <= MaxPayload /\ flags \in Byte
  BY <1>2, Constants DEF Message, Byte
<1> HIDE DEF frame
<1>5. back \in Frames /\ back.payload = frame.payload
  BY <1>4 DEF Frames
<1>6. PICK bytes \in Damaged(Encode(back)) : Receive(bytes)
  BY <1>3 DEF frame
<1> HIDE DEF back
<1>7. bytes \in Seq(Byte)
  BY <1>4, <1>5, EncodedBytes, DamagedBytes
<1> QED BY <1>6, <1>7, Received
-----------------------------------------------------------------------------
(* The theorems.                                                           *)

LEMMA TransportInit == Init => TransportInv
<1> SUFFICES ASSUME Init PROVE TransportInv
  OBVIOUS
<1>1. /\ tls \in BOOLEAN /\ phase = "ready" /\ buffer = <<>> /\ message = NoMessage /\ written = 0
      /\ wire = <<>> /\ sent = <<>> /\ arrived = <<>> /\ decoded = NoFrame
  BY DEF Init
<1>2. <<>> \in Seq(Byte) /\ <<>> \in Seq(Message) /\ Len(<<>>) = 0
  OBVIOUS
<1>3. TypeOK
  BY <1>1, <1>2, Nothing, Constants DEF TypeOK
<1>4. BufferInv
  BY <1>1, Nothing DEF BufferInv
<1>5. Starts(<<1>>)
  <2>1. <<1>> \in Seq(Nat) /\ Len(<<1>>) = 1 /\ <<1>>[1] = 1
    OBVIOUS
  <2>2. PICK at : at = <<1>>
    OBVIOUS
  <2>3. Len(sent) = 0 /\ Len(wire) = 0
    BY <1>1, <1>2
  <2>4. Starts(at)
    BY <1>1, <2>1, <2>2, <2>3 DEF Starts
  <2> QED BY <2>2, <2>4
<1>6. ArrivedInv
  BY <1>1 DEF ArrivedInv
<1> QED BY <1>1, <1>2, <1>3, <1>4, <1>5, <1>6 DEF TransportInv

LEMMA TransportNext == TransportInv /\ [Next]_vars => TransportInv'
<1> SUFFICES ASSUME TransportInv, [Next]_vars PROVE TransportInv'
  OBVIOUS
<1>1. ASSUME NEW n \in Sizes, NEW mask \in Masks
      PROVE  /\ n \in Nat /\ n < Base * Base /\ mask \in [1 .. 2 -> {0, Base - 1}]
             /\ Content(n) \in Seq(Byte) /\ Len(Content(n)) = n
  BY Constants, Contents
<1>2. Text \in Byte /\ Binary \in Byte /\ Text \notin Control /\ Binary \notin Control /\ Control \subseteq Byte
  BY Constants DEF Byte, Text, Binary, Control
<1>3. ASSUME NEW n \in Sizes, NEW mask \in Masks, NEW opcode \in {Text, Binary},
             SendData(opcode, Content(n), mask)
      PROVE  TransportInv'
  <2>1. PICK p : p = Content(n)
    OBVIOUS
  <2>2. /\ MaySend
        /\ Start(Data(opcode, p), WebSocketFrame(opcode, Len(p), mask, Masked(p, mask, 0)))
    BY <1>3, <2>1 DEF SendData
  <2>3. p \in Seq(Byte) /\ Len(p) < Base * Base /\ mask \in [1 .. 2 -> {0, Base - 1}]
        /\ opcode \in Byte /\ opcode \notin Control
    BY <1>1, <1>2, <2>1
  <2> QED BY <2>2, <2>3, PayloadSent
<1>4. ASSUME NEW n \in Sizes, NEW mask \in Masks, NEW opcode \in Control,
             SendControl(opcode, Content(n), mask)
      PROVE  TransportInv'
  <2>1. PICK p : p = Content(n)
    OBVIOUS
  <2>2. /\ MaySend /\ Len(p) <= Short
        /\ Start(Data(opcode, p), WebSocketFrame(opcode, Len(p), mask, Masked(p, mask, 0)))
    BY <1>4, <2>1 DEF SendControl
  <2>3. p \in Seq(Byte) /\ Len(p) < Base * Base /\ mask \in [1 .. 2 -> {0, Base - 1}]
        /\ opcode \in Byte
    BY <1>1, <1>2, <2>1
  <2> QED BY <2>2, <2>3, PayloadSent
<1>5. ASSUME NEW n \in Sizes, NEW mask \in Masks,
             SendFrame(3, (1 + Len(sent)) % Base, Content(n), mask)
      PROVE  TransportInv'
  <2>1. PICK type, id : type = 3 /\ id = (1 + Len(sent)) % Base
    OBVIOUS
  <2>2. Len(sent) \in Nat
    BY LenProperties DEF TransportInv
  <2>3. type \in Byte /\ type # 0 /\ id \in Byte
    BY <2>1, <2>2, Constants DEF Byte
  <2>4. SendFrame(type, id, Content(n), mask)
    BY <1>5, <2>1
  <2> QED BY <1>1, <2>3, <2>4, FrameSent
<1>6. ASSUME NEW n \in 1 .. Len(buffer), WriteSome(n) PROVE TransportInv'
  BY <1>6, Written
<1>7. CASE WriteFails
  <2>1. /\ phase = "writing" /\ phase' = "failed" /\ tls' = tls /\ wire' = wire
        /\ buffer' = buffer /\ message' = message /\ written' = written /\ sent' = sent
        /\ arrived' = arrived /\ decoded' = decoded
    BY <1>7 DEF WriteFails, sender, receiver
  <2>2. TypeOK'
    BY <2>1 DEF TransportInv, TypeOK
  <2>3. BufferInv'
    BY <2>1 DEF TransportInv, BufferInv, LiesAt, IsFrameAt, NextAt, IsRead, MessageAt
  <2>4. PICK at : Starts(at)
    BY DEF TransportInv
  <2>5. Starts(at)'
    BY <2>1, <2>4 DEF Starts
  <2>6. ArrivedInv'
    BY <2>1 DEF ArrivedInv
  <2> QED BY <2>1, <2>2, <2>3, <2>5, <2>6 DEF TransportInv
<1>8. CASE PeerReturns
  BY <1>8, Returned
<1>9. CASE UNCHANGED vars
  <2>1. /\ phase' = phase /\ tls' = tls /\ wire' = wire
        /\ buffer' = buffer /\ message' = message /\ written' = written /\ sent' = sent
        /\ arrived' = arrived /\ decoded' = decoded
    BY <1>9 DEF vars, sender, receiver
  <2>2. TypeOK'
    BY <2>1 DEF TransportInv, TypeOK
  <2>3. BufferInv'
    BY <2>1 DEF TransportInv, BufferInv, LiesAt, IsFrameAt, NextAt, IsRead, MessageAt
  <2>4. PICK at : Starts(at)
    BY DEF TransportInv
  <2>5. Starts(at)'
    BY <2>1, <2>4 DEF Starts
  <2>6. ArrivedInv'
    BY <2>1 DEF TransportInv, ArrivedInv
  <2> QED BY <2>1, <2>2, <2>3, <2>5, <2>6 DEF TransportInv
<1> QED BY <1>3, <1>4, <1>5, <1>6, <1>7, <1>8, <1>9 DEF Next

\* The inductive invariant holds: on the wire are the whole frames of the messages sent,
\* in their order, and the part written of the next.
THEOREM TransportHolds == Spec => []TransportInv
<1>1. Init => TransportInv
  BY TransportInit
<1>2. TransportInv /\ [Next]_vars => TransportInv'
  BY TransportNext
<1> QED BY <1>1, <1>2, PTL DEF Spec

\* The buffer, the wire and what came back are bytes, and no more is written than there is.
THEOREM TypeCorrect == Spec => []TypeOK
<1>1. TransportInv => TypeOK
  BY DEF TransportInv
<1> QED BY <1>1, TransportHolds, PTL

LEMMA InvIsRead == TransportInv => PeerReadsWhatWasSent
<1> SUFFICES ASSUME TransportInv PROVE PeerReadsWhatWasSent
  OBVIOUS
<1> DEFINE L == Len(sent)
<1>1. PICK at : Starts(at)
  BY DEF TransportInv
<1>2. PICK last : last = at[L + 1]
  OBVIOUS
<1>3. /\ wire \in Seq(Byte) /\ buffer \in Seq(Byte) /\ sent \in Seq(Message)
      /\ written \in Nat /\ written <= Len(buffer)
  <2>1. buffer \in Seq(Byte) /\ wire \in Seq(Byte) /\ sent \in Seq(Message) /\ written \in 0 .. Len(buffer)
    BY DEF TransportInv, TypeOK
  <2> QED BY <2>1, LenProperties
<1>4. Len(wire) \in Nat /\ Len(buffer) \in Nat /\ L \in Nat /\ DOMAIN sent = 1 .. L
  BY <1>3, LenProperties
<1>5. /\ at \in Seq(Nat) /\ Len(at) = L + 1 /\ at[1] = 1
      /\ \A k \in 1 .. L : at[k] < at[k + 1] /\ LiesAt(wire, at[k], sent[k], at[k + 1])
      /\ last + written = Len(wire) + 1
      /\ \A i \in 1 .. written : wire[last + i - 1] = buffer[i]
  BY <1>1, <1>2 DEF Starts
<1>6. \A k \in 1 .. L + 1 : at[k] \in Nat
  BY <1>5, ElementOfSeq
<1>7. \A k \in 1 .. L + 1 : at[k] >= 1
  <2> SUFFICES ASSUME NEW k \in 1 .. L + 1, k # 1 PROVE at[k] >= 1
    BY <1>5
  <2>1. PICK j \in 1 .. L : k = j + 1
    <3>1. k - 1 \in 1 .. L /\ k = (k - 1) + 1
      BY <1>4
    <3> QED BY <3>1
  <2>2. at[j] < at[j + 1] /\ at[j] \in Nat /\ at[j + 1] \in Nat
    BY <1>4, <1>5, <1>6, <2>1
  <2> QED BY <2>1, <2>2
<1>8. last \in Nat \ {0} /\ last <= Len(wire) + 1
  <2>1. last \in Nat /\ last >= 1
    BY <1>2, <1>4, <1>6, <1>7
  <2>2. last + written = Len(wire) + 1
    BY <1>5
  <2> QED BY <1>3, <1>4, <2>1, <2>2
<1>9. Same(wire, last, buffer, 1, written)
  <2> SUFFICES ASSUME NEW i \in 0 .. written - 1 PROVE wire[last + i] = buffer[1 + i]
    BY DEF Same
  <2>1. PICK j \in 1 .. written : j = 1 + i
    <3>1. 1 + i \in 1 .. written
      BY <1>3
    <3> QED BY <3>1
  <2>2. wire[last + j - 1] = buffer[j]
    BY <1>5
  <2>3. last + j - 1 = last + i
    BY <2>1
  <2> QED BY <2>1, <2>2, <2>3
<1>10. ~IsFrameAt(wire, last)
  <2>1. CASE phase \in {"writing", "failed"}
    <3>1. /\ IsFrameAt(buffer, 1) /\ NextAt(buffer, 1) = Len(buffer) + 1 /\ written < Len(buffer)
      BY <2>1 DEF TransportInv, BufferInv, LiesAt
    <3> QED BY <1>3, <1>5, <1>8, <1>9, <3>1, PartIsNoFrame
  <2>2. CASE phase \notin {"writing", "failed"}
    <3>1. written = 0
      BY <2>2 DEF TransportInv, BufferInv
    <3>2. last = Len(wire) + 1
      BY <1>4, <1>5, <1>8, <3>1
    <3> QED BY <1>3, <3>2, NothingIsNoFrame
  <2> QED BY <2>1, <2>2
<1>11. Chained(wire, at, L)
  <2>1. \A k \in 1 .. L : IsFrameAt(wire, at[k]) /\ at[k + 1] = NextAt(wire, at[k])
    BY <1>5 DEF LiesAt
  <2>2. \A k \in 1 .. L + 1 : at[k] \in 1 .. Len(wire) + 1
    <3> SUFFICES ASSUME NEW k \in 1 .. L + 1 PROVE at[k] <= Len(wire) + 1
      BY <1>4, <1>6, <1>7
    <3>1. CASE k = L + 1
      BY <1>2, <1>8, <3>1
    <3>2. CASE k # L + 1
      <4>1. k \in 1 .. L /\ at[k] \in Nat \ {0}
        BY <1>4, <1>6, <1>7, <3>2
      <4>2. IsFrameAt(wire, at[k])
        BY <2>1, <4>1
      <4>3. at[k] \in 1 .. Len(wire)
        BY <1>3, <4>1, <4>2, HeaderFacts
      <4> QED BY <1>4, <4>3
    <3> QED BY <3>1, <3>2
  <2> QED BY <1>2, <1>10, <2>1, <2>2 DEF Chained
<1>12. Read(wire) = [messages |-> LastOf(wire, at, L, L), rest |-> last]
  <2> HIDE DEF L
  <2> QED BY <1>2, <1>3, <1>4, <1>5, <1>11, ReadsChain
<1>13. LastOf(wire, at, L, L) = [i \in 1 .. L |-> MessageAt(wire, at[i])]
  <2>1. \A i \in 1 .. L : L - L + i = i
    BY <1>4
  <2> HIDE DEF L
  <2> QED BY <2>1 DEF LastOf
<1>14. PICK ms : ms = [i \in 1 .. L |-> MessageAt(wire, at[i])]
  OBVIOUS
<1>15. Read(wire).messages = ms /\ Read(wire).rest = last
  BY <1>12, <1>13, <1>14
<1>16. Len(ms) = L
  BY <1>4, <1>14
<1>17. \A k \in 1 .. L : IsRead(ms[k], sent[k])
  BY <1>5, <1>14 DEF LiesAt
<1>18. SubSeq(wire, last, Len(wire)) = SubSeq(buffer, 1, written)
  <2>1. PICK o \in Nat \ {0} : o = 1
    OBVIOUS
  <2>2. /\ last + written <= Len(wire) + 1 /\ o + written <= Len(buffer) + 1
        /\ Same(wire, last, buffer, o, written)
    BY <1>3, <1>4, <1>5, <1>8, <1>9, <2>1
  <2>3. SubSeq(wire, last, last + written - 1) = SubSeq(buffer, o, o + written - 1)
    BY <1>3, <1>8, <2>2, SubSeqMoved
  <2>4. last + written - 1 = Len(wire) /\ o + written - 1 = written
    BY <1>3, <1>4, <1>5, <1>8, <2>1
  <2> QED BY <2>1, <2>3, <2>4
<1> QED BY <1>4, <1>15, <1>16, <1>17, <1>18 DEF PeerReadsWhatWasSent

\* Whatever pieces the frames go out in and wherever their writing breaks off, the peer
\* reads the messages whose send returned, each as it was sent, and the beginning of the next.
THEOREM PeerReadsMessages == Spec => []PeerReadsWhatWasSent
BY InvIsRead, TransportHolds, PTL

\* decodeFrame's condition is that the bytes are encodeFrame's of the frame it returns.
LEMMA AcceptableIsEncoded ==
    ASSUME NEW b \in Seq(Byte), Len(b) >= HeaderSize
    PROVE  Acceptable(b) <=> Encode(Parsed(b)) = [b EXCEPT ![5] = 0]
<1> DEFINE n == Len(b) - 7
           p == SubSeq(b, 8, Len(b))
           h == <<Magic, Version, b[3], b[4], 0, b[6], n>>
           e == h \o p
           z == [b EXCEPT ![5] = 0]
<1>1. Len(b) \in Nat /\ HeaderSize = 7 /\ n \in Nat /\ \A i \in 1 .. Len(b) : b[i] \in Nat
  <2>1. Len(b) \in Nat /\ \A i \in 1 .. Len(b) : b[i] \in Byte
    BY LenProperties, ElementOfSeq
  <2> QED BY <2>1, Constants DEF HeaderSize, Byte
<1>2. p \in Seq(Nat) /\ Len(p) = n /\ \A i \in 1 .. n : p[i] = b[7 + i]
  <2>1. \A i \in 8 .. Len(b) : b[i] \in Nat
    BY <1>1
  <2>2. /\ p \in Seq(Nat) /\ Len(p) = IF 8 <= Len(b) THEN Len(b) - 8 + 1 ELSE 0
        /\ \A i \in 1 .. Len(b) - 8 + 1 : p[i] = b[8 + i - 1]
    BY <1>1, <2>1, SubSeqProperties
  <2> HIDE DEF p
  <2>3. Len(b) - 8 + 1 = n /\ Len(p) = n
    <3>1. PICK l \in Nat : l = Len(b) /\ l >= 7
      BY <1>1
    <3>2. Len(p) = IF 8 <= l THEN l - 8 + 1 ELSE 0
      BY <2>2, <3>1
    <3>3. n = l - 7
      BY <3>1
    <3> QED BY ONLY <3>1, <3>2, <3>3
  <2>4. \A i \in 1 .. n : 8 + i - 1 = 7 + i
    OBVIOUS
  <2> QED BY <2>2, <2>3, <2>4
<1>3. Encode(Parsed(b)) = e
  <2>1. HeaderSize + 1 = 8
    BY <1>1
  <2>2. Parsed(b) = [type |-> b[3], flags |-> b[4], id |-> b[6], payload |-> p]
    BY <2>1 DEF Parsed
  <2>3. Len(p) = n
    BY <1>2
  <2> HIDE DEF p, n
  <2> QED BY <2>2, <2>3 DEF Encode
<1> HIDE DEF p, n
<1>4. Magic \in Nat /\ Version \in Nat /\ 0 \in Nat /\ b[3] \in Nat /\ b[4] \in Nat /\ b[6] \in Nat
      /\ b[1] \in Nat /\ b[2] \in Nat /\ b[7] \in Nat
  BY <1>1 DEF Magic, Version
<1>5. h \in Seq(Nat) /\ Len(h) = 7 /\ h[1] = Magic /\ h[2] = Version /\ h[3] = b[3] /\ h[4] = b[4]
      /\ h[5] = 0 /\ h[6] = b[6] /\ h[7] = n
  BY <1>1, <1>4
<1> HIDE DEF h
<1>6. e \in Seq(Nat) /\ Len(e) = 7 + n /\ \A i \in 1 .. 7 + n : e[i] = IF i <= 7 THEN h[i] ELSE p[i - 7]
  <2>1. /\ e \in Seq(Nat) /\ Len(e) = Len(h) + Len(p)
        /\ \A i \in 1 .. Len(h) + Len(p) : e[i] = IF i <= Len(h) THEN h[i] ELSE p[i - Len(h)]
    BY <1>2, <1>5, ConcatProperties
  <2> HIDE DEF e
  <2> QED BY <1>2, <1>5, <2>1
<1> HIDE DEF e
<1>7. Len(b) = 7 + n
  BY <1>1 DEF n
<1>8. b \in Seq(Nat)
  BY Constants, SeqMonotonic DEF Byte
<1>9. z \in Seq(Nat) /\ Len(z) = 7 + n /\ \A i \in 1 .. 7 + n : z[i] = IF i = 5 THEN 0 ELSE b[i]
  <2>1. 5 \in 1 .. Len(b)
    BY <1>1
  <2>2. /\ z \in Seq(Nat) /\ Len(z) = Len(b)
        /\ \A i \in 1 .. Len(b) : z[i] = IF i = 5 THEN 0 ELSE b[i]
    BY <1>8, <2>1, ExceptSeq
  <2> HIDE DEF z
  <2> QED BY <1>7, <2>2
<1> HIDE DEF z
<1>10. e[1] = Magic /\ e[2] = Version /\ e[7] = n /\ z[1] = b[1] /\ z[2] = b[2] /\ z[7] = b[7]
  <2>1. 1 \in 1 .. 7 + n /\ 2 \in 1 .. 7 + n /\ 7 \in 1 .. 7 + n
    BY <1>1 DEF n
  <2>2. /\ e[1] = h[1] /\ e[2] = h[2] /\ e[7] = h[7]
        /\ z[1] = b[1] /\ z[2] = b[2] /\ z[7] = b[7]
    BY <1>6, <1>9, <2>1
  <2> QED BY <1>5, <2>2
<1>11. ASSUME e = z PROVE Acceptable(b)
  BY <1>1, <1>7, <1>10, <1>11 DEF Acceptable
<1>12. ASSUME Acceptable(b) PROVE e = z
  <2>1. b[1] = Magic /\ b[2] = Version /\ b[7] = n
    BY SMTT(30), <1>1, <1>4, <1>7, <1>12 DEF Acceptable
  <2>2. ASSUME NEW i \in 1 .. 7 + n PROVE e[i] = z[i]
    <3>1. CASE i > 7
      <4>1. PICK j \in 1 .. n : j = i - 7 /\ 7 + j = i
        <5>1. i - 7 \in 1 .. n /\ 7 + (i - 7) = i
          BY <1>1, <3>1
        <5> QED BY <5>1
      <4>2. e[i] = p[j] /\ z[i] = b[i]
        BY SMTT(30), <1>1, <1>6, <1>9, <3>1, <4>1
      <4> QED BY <1>2, <4>1, <4>2
    <3>2. CASE ~(i > 7)
      <4>1. i \in {1, 2, 3, 4, 5, 6, 7} /\ e[i] = h[i]
        BY <1>1, <1>6, <3>2
      <4>2. z[i] = IF i = 5 THEN 0 ELSE b[i]
        BY <1>9
      <4> QED BY <1>5, <2>1, <4>1, <4>2
    <3> QED BY <3>1, <3>2
  <2> QED BY <1>6, <1>9, <2>2, SeqEqual
<1> QED BY <1>3, <1>11, <1>12 DEF z

LEMMA InvAcceptsWhole == TransportInv => AcceptsOnlyWholeFrames
<1> SUFFICES ASSUME TransportInv PROVE AcceptsOnlyWholeFrames
  OBVIOUS
<1>1. arrived \in Seq(Byte)
  BY DEF TransportInv, TypeOK
<1>2. ASSUME phase = "accepted" PROVE Encode(decoded) = [arrived EXCEPT ![5] = 0]
  <2>1. Acceptable(arrived) /\ decoded = Parsed(arrived) /\ Len(arrived) >= HeaderSize
    BY <1>2 DEF TransportInv, ArrivedInv, Acceptable
  <2>2. Encode(Parsed(arrived)) = [arrived EXCEPT ![5] = 0]
    BY <1>1, <2>1, AcceptableIsEncoded
  <2> QED BY <2>1, <2>2
<1>3. ASSUME phase = "refused", Len(arrived) >= HeaderSize
      PROVE  Encode(Parsed(arrived)) # [arrived EXCEPT ![5] = 0]
  <2>1. ~Acceptable(arrived)
    BY <1>3 DEF TransportInv, ArrivedInv
  <2> QED BY <1>1, <1>3, <2>1, AcceptableIsEncoded
<1> QED BY <1>2, <1>3 DEF AcceptsOnlyWholeFrames

\* decodeFrame accepts the bytes encodeFrame makes of some frame, but for the reserved
\* ones, and no others; and returns that frame.
THEOREM OnlyWholeFramesAccepted == Spec => []AcceptsOnlyWholeFrames
BY InvAcceptsWhole, TransportHolds, PTL
=============================================================================
