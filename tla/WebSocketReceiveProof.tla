----------------------- MODULE WebSocketReceiveProof -----------------------
(***************************************************************************)
(* WebSocketReceive's properties, proved for every stream of frames, every *)
(* limit and any number of receives.  What a receive in progress has       *)
(* gathered is related to the part of the stream it has read; the messages *)
(* returned before it are not touched by what is read after them.          *)
(***************************************************************************)
EXTENDS WebSocketReceive, SequenceTheorems, WellFoundedInduction, TLAPS

(***************************************************************************)
(* The inductive invariant.                                                *)
(***************************************************************************)
InLog(frames) == \A j \in 1 .. Len(frames) : frames[j] \in 1 .. Len(log)

\* A message that was returned: a part of the stream, well framed and not too large.
MessageOk(k) ==
    LET frames == delivered[k].frames
    IN  /\ frames # <<>> /\ InLog(frames)
        /\ Enumerates(frames, DataBetween(LastFrame(k - 1), LastFrame(k)))
        /\ Bytes(frames) <= MaxMessage
        /\ \A j \in 1 .. Len(frames) :
              LET f == log[frames[j]]
              IN  /\ f.goodHeader
                  /\ f.opcode = IF j = 1 THEN delivered[k].opcode ELSE "continuation"
                  /\ f.fin <=> j = Len(frames)

\* Where the stream after the last message begins, and the data frames read of it.
Begun == LastFrame(Len(delivered))
Read == DataBetween(Begun, Len(log))

\* receiveBinary's variables: the message in progress holds what was read since the last
\* one was returned, its first frame has the opcode asked for, and none ends it yet.
ProgressInv ==
    /\ InLog(message) /\ held = Bytes(message)
    /\ calling =>
          /\ open /\ (fragmented <=> message # <<>>)
          /\ Enumerates(message, Read)
          /\ \A j \in 1 .. Len(message) :
                LET f == log[message[j]]
                IN  /\ f.goodHeader /\ ~f.fin
                    /\ f.opcode = IF j = 1 THEN want ELSE "continuation"
    /\ open /\ ~calling => Begun = Len(log)

Answers == [j \in DOMAIN sent |-> sent[j].answers]
Pings == {i \in DOMAIN log : log[i].opcode = "ping"}

\* Control frames: what was answered fits one, and an open connection owes no pong.
PingInv ==
    /\ open => Enumerates(Answers, Pings)
    /\ \A j \in DOMAIN sent : sent[j].answers \in 1 .. Len(log) /\ log[sent[j].answers].size <= MaxControl

ReceiveInv ==
    /\ TypeOK
    /\ \A k \in 1 .. Len(delivered) : MessageOk(k)
    /\ ProgressInv
    /\ PingInv

-----------------------------------------------------------------------------
(* Sequences of increasing numbers.                                        *)

LEMMA EnumeratesNone == Enumerates(<<>>, {})
BY DEF Enumerates

LEMMA EnumeratesOne ==
    ASSUME NEW x \in Nat
    PROVE  Enumerates(<<x>>, {x})
<1>1. DOMAIN <<x>> = {1} /\ <<x>>[1] = x
  OBVIOUS
<1> QED BY <1>1 DEF Enumerates

LEMMA EnumeratesMore ==
    ASSUME NEW s \in Seq(Nat), NEW S, NEW x \in Nat, Enumerates(s, S), \A y \in S : y < x
    PROVE  Enumerates(Append(s, x), S \cup {x})
<1> DEFINE a == Append(s, x)
<1>1. /\ Len(s) \in Nat /\ DOMAIN s = 1 .. Len(s) /\ DOMAIN a = 1 .. Len(s) + 1
      /\ \A j \in 1 .. Len(s) : a[j] = s[j] /\ s[j] \in Nat
      /\ a[Len(s) + 1] = x
  BY AppendProperties, LenProperties, ElementOfSeq
<1>2. S = {s[j] : j \in 1 .. Len(s)} /\ \A i, j \in 1 .. Len(s) : i < j => s[i] < s[j]
  BY <1>1 DEF Enumerates
<1> HIDE DEF a
<1>3. {a[j] : j \in 1 .. Len(s) + 1} = S \cup {x}
  <2>1. ASSUME NEW j \in 1 .. Len(s) + 1 PROVE a[j] \in S \cup {x}
    BY <1>1, <1>2
  <2>2. ASSUME NEW y \in S PROVE \E j \in 1 .. Len(s) + 1 : a[j] = y
    BY <1>1, <1>2
  <2>3. Len(s) + 1 \in 1 .. Len(s) + 1
    BY <1>1
  <2> QED BY <1>1, <2>1, <2>2, <2>3
<1>4. \A i, j \in 1 .. Len(s) + 1 : i < j => a[i] < a[j]
  <2>1. ASSUME NEW i \in 1 .. Len(s) + 1, NEW j \in 1 .. Len(s) + 1, i < j
        PROVE  a[i] < a[j]
    <3>1. CASE j = Len(s) + 1
      <4>1. i \in 1 .. Len(s) /\ s[i] \in S
        BY <1>1, <1>2, <2>1, <3>1
      <4> QED BY <1>1, <3>1, <4>1
    <3>2. CASE j # Len(s) + 1
      BY <1>1, <1>2, <2>1, <3>2
    <3> QED BY <3>1, <3>2
  <2> QED BY <2>1
<1> QED BY <1>1, <1>3, <1>4 DEF Enumerates, a

-----------------------------------------------------------------------------
(* What a sequence of numbers adds up to.  Induction over its length is by *)
(* the least counterexample.                                               *)

LEMMA LessThanIsWellFounded == IsWellFoundedOn({ss \in Nat \X Nat : ss[1] < ss[2]}, Nat)
BY NatLessThanWellFounded, Zenon DEF OpToRel

LEMMA Least ==
    ASSUME NEW T \in SUBSET Nat, T # {}
    PROVE  \E x \in T : \A y \in T : x <= y
<1> DEFINE R == {ss \in Nat \X Nat : ss[1] < ss[2]}
<1>1. IsWellFoundedOn(R, Nat)
  BY LessThanIsWellFounded
<1>2. \A y \in Nat, x \in Nat : <<y, x>> \in R <=> y < x
  OBVIOUS
<1> HIDE DEF R
<1>3. PICK x \in T : \A y \in T : ~(<<y, x>> \in R)
  BY <1>1, WFMin
<1>4. \A y \in T : ~(y < x) /\ y \in Nat /\ x \in Nat
  BY <1>2, <1>3
<1> QED BY <1>4

\* g holds the sums of the first numbers of w, up to the n-th.
AddsUp(g, w, n) == g = [j \in 0 .. n |-> IF j = 0 THEN 0 ELSE g[j - 1] + w[j]]

LEMMA SumsExist ==
    ASSUME NEW n \in Nat, NEW w, \A j \in 1 .. n : w[j] \in Nat
    PROVE  \E g : AddsUp(g, w, n)
<1> DEFINE T == {m \in 0 .. n : \A g : ~AddsUp(g, w, m)}
<1> SUFFICES ASSUME T # {} PROVE FALSE
  OBVIOUS
<1>1. PICK m \in T : \A y \in T : m <= y
  <2>1. T \in SUBSET Nat
    OBVIOUS
  <2> QED BY <2>1, Least
<1>2. CASE m = 0
  <2>1. AddsUp([j \in 0 .. 0 |-> 0], w, 0)
    BY DEF AddsUp
  <2> QED BY <1>1, <1>2, <2>1
<1>3. CASE m # 0
  <2>1. m - 1 \in 0 .. n /\ m - 1 \notin T
    BY <1>1, <1>3
  <2>2. PICK g : AddsUp(g, w, m - 1)
    BY <2>1
  <2> DEFINE h == [j \in 0 .. m |-> IF j = m THEN g[m - 1] + w[m] ELSE g[j]]
  <2>3. \A j \in 0 .. m : h[j] = IF j = 0 THEN 0 ELSE h[j - 1] + w[j]
    BY <1>1, <1>3, <2>2 DEF AddsUp
  <2>4. h = [j \in 0 .. m |-> IF j = 0 THEN 0 ELSE h[j - 1] + w[j]]
    <3>1. h = [j \in 0 .. m |-> h[j]]
      OBVIOUS
    <3> HIDE DEF h
    <3> QED BY <2>3, <3>1
  <2>5. AddsUp(h, w, m)
    BY <2>4 DEF AddsUp
  <2> QED BY <1>1, <2>5
<1> QED BY <1>2, <1>3

Sums(g, w, n) == \A j \in 0 .. n : g[j] = IF j = 0 THEN 0 ELSE g[j - 1] + w[j]

LEMMA SumsAgree ==
    ASSUME NEW n \in Nat, NEW w, NEW g, NEW h,
           Sums(g, w, n), Sums(h, w, n)
    PROVE  \A j \in 0 .. n : g[j] = h[j]
<1> USE DEF Sums
<1> DEFINE T == {m \in 0 .. n : g[m] # h[m]}
<1> SUFFICES ASSUME T # {} PROVE FALSE
  OBVIOUS
<1>1. PICK m \in T : \A y \in T : m <= y
  <2>1. T \in SUBSET Nat
    OBVIOUS
  <2> QED BY <2>1, Least
<1>2. m # 0
  BY <1>1
<1>3. m - 1 \in 0 .. n /\ m - 1 \notin T
  BY <1>1, <1>2
<1> QED BY <1>1, <1>2, <1>3

LEMMA SumsAreNumbers ==
    ASSUME NEW n \in Nat, NEW w, NEW g, \A j \in 1 .. n : w[j] \in Nat, Sums(g, w, n)
    PROVE  \A j \in 0 .. n : g[j] \in Nat
<1> USE DEF Sums
<1> DEFINE T == {m \in 0 .. n : g[m] \notin Nat}
<1> SUFFICES ASSUME T # {} PROVE FALSE
  OBVIOUS
<1>1. PICK m \in T : \A y \in T : m <= y
  <2>1. T \in SUBSET Nat
    OBVIOUS
  <2> QED BY <2>1, Least
<1>2. m # 0
  BY <1>1
<1>3. m - 1 \in 0 .. n /\ m - 1 \notin T /\ m \in 1 .. n
  BY <1>1, <1>2
<1> QED BY <1>1, <1>2, <1>3

\* The function by which Total is defined.
LEMMA TotalIs ==
    ASSUME NEW w \in Seq(Nat)
    PROVE  \E g : Sums(g, w, Len(w)) /\ Total(w) = g[Len(w)]
<1> DEFINE g == CHOOSE f : f = [j \in 0 .. Len(w) |-> IF j = 0 THEN 0 ELSE f[j - 1] + w[j]]
<1>1. Len(w) \in Nat /\ \A j \in 1 .. Len(w) : w[j] \in Nat
  BY LenProperties, ElementOfSeq
<1>2. \E f : f = [j \in 0 .. Len(w) |-> IF j = 0 THEN 0 ELSE f[j - 1] + w[j]]
  BY <1>1, SumsExist DEF AddsUp
<1>3. g = [j \in 0 .. Len(w) |-> IF j = 0 THEN 0 ELSE g[j - 1] + w[j]]
  BY <1>2
<1>4. Total(w) = g[Len(w)]
  BY DEF Total
<1> HIDE DEF g
<1>5. Sums(g, w, Len(w))
  BY <1>3 DEF Sums
<1> QED BY <1>4, <1>5

LEMMA TotalNone == Total(<<>>) = 0
<1>1. <<>> \in Seq(Nat) /\ Len(<<>>) = 0
  OBVIOUS
<1>2. PICK g : Sums(g, <<>>, 0) /\ Total(<<>>) = g[0]
  BY <1>1, TotalIs
<1> QED BY <1>2 DEF Sums

LEMMA TotalMore ==
    ASSUME NEW w \in Seq(Nat), NEW x \in Nat
    PROVE  Total(Append(w, x)) = Total(w) + x /\ Total(w) \in Nat
<1> DEFINE a == Append(w, x)
           n == Len(w)
<1>1. /\ a \in Seq(Nat) /\ n \in Nat /\ Len(a) = n + 1 /\ a[n + 1] = x
      /\ \A j \in 1 .. n : a[j] = w[j] /\ w[j] \in Nat
  BY AppendProperties, LenProperties, ElementOfSeq
<1>2. PICK g : Sums(g, w, Len(w)) /\ Total(w) = g[Len(w)]
  BY TotalIs
<1>3. PICK h : Sums(h, a, Len(a)) /\ Total(a) = h[Len(a)]
  BY <1>1, TotalIs
<1> HIDE DEF a, n
<1>4. Sums(h, w, n)
  BY <1>1, <1>3 DEF Sums
<1>5. Sums(g, w, n)
  BY <1>2 DEF n
<1>6. g[n] = h[n] /\ g[n] \in Nat
  <2>1. n \in 0 .. n
    BY <1>1
  <2>2. \A j \in 0 .. n : g[j] = h[j]
    BY <1>1, <1>4, <1>5, SumsAgree
  <2>3. \A j \in 1 .. n : w[j] \in Nat
    BY <1>1
  <2>4. \A j \in 0 .. n : g[j] \in Nat
    BY <1>1, <1>5, <2>3, SumsAreNumbers
  <2> QED BY <2>1, <2>2, <2>4
<1>7. h[n + 1] = h[n] + x
  BY <1>1, <1>3 DEF Sums
<1> QED BY <1>1, <1>2, <1>3, <1>6, <1>7 DEF n, a

-----------------------------------------------------------------------------
(* Reading on leaves what was read before as it is.                        *)

\* The stream grows by one frame, or not at all.
Grows == log' = log \/ \E f \in Frame : log' = Append(log, f)

LEMMA LogType ==
    ASSUME TypeOK
    PROVE  /\ log \in Seq(Frame) /\ Len(log) \in Nat /\ DOMAIN log = 1 .. Len(log)
           /\ \A i \in 1 .. Len(log) : log[i] \in Frame /\ log[i].size \in Nat
<1>1. log \in Seq(Frame)
  BY DEF TypeOK
<1>2. Len(log) \in Nat /\ DOMAIN log = 1 .. Len(log)
  BY <1>1, LenProperties
<1>3. \A i \in 1 .. Len(log) : log[i] \in Frame
  BY <1>1, <1>2, ElementOfSeq
<1>4. \A f \in Frame : f.size \in Nat
  BY WebSocketReceiveAssumption DEF Frame
<1> QED BY <1>1, <1>2, <1>3, <1>4

SizesAreNumbers == \A i \in 1 .. Len(log) : log[i].size \in Nat

LEMMA LogTypeNext == TypeOK' => \A i \in 1 .. Len(log') : log'[i].size \in Nat
<1>1. TypeOK => SizesAreNumbers
  BY LogType DEF SizesAreNumbers
<1>2. TypeOK' => SizesAreNumbers'
  BY <1>1, PTL
<1> QED BY <1>2 DEF SizesAreNumbers

LEMMA LogGrows ==
    ASSUME TypeOK, Grows
    PROVE  /\ Len(log') \in Nat /\ Len(log) <= Len(log')
           /\ \A i \in 1 .. Len(log) : i \in 1 .. Len(log') /\ log'[i] = log[i]
<1>1. log \in Seq(Frame) /\ Len(log) \in Nat
  BY LogType
<1>2. CASE log' = log
  BY <1>1, <1>2
<1>3. ASSUME NEW f \in Frame, log' = Append(log, f)
      PROVE  /\ Len(log') = Len(log) + 1
             /\ \A i \in 1 .. Len(log) : log'[i] = log[i]
  BY <1>1, <1>3, AppendProperties
<1> QED BY <1>1, <1>2, <1>3 DEF Grows

LEMMA BetweenKept ==
    ASSUME TypeOK, Grows, NEW m \in Nat, NEW n \in 0 .. Len(log)
    PROVE  DataBetween(m, n)' = DataBetween(m, n)
<1>1. \A i \in m + 1 .. n : log'[i] = log[i]
  BY LogType, LogGrows
<1> QED BY <1>1 DEF DataBetween, IsControl

LEMMA BytesKept ==
    ASSUME TypeOK, Grows, NEW frames, Len(frames) \in Nat, InLog(frames)
    PROVE  InLog(frames)' /\ Bytes(frames)' = Bytes(frames)
<1>1. InLog(frames)'
  BY LogGrows DEF InLog
<1>2. [j \in 1 .. Len(frames) |-> log'[frames[j]].size] = [j \in 1 .. Len(frames) |-> log[frames[j]].size]
  BY LogGrows DEF InLog
<1> QED BY <1>1, <1>2 DEF Bytes

LEMMA BytesNone == Bytes(<<>>) = 0
<1>1. [j \in 1 .. Len(<<>>) |-> log[<<>>[j]].size] = <<>>
  OBVIOUS
<1> QED BY <1>1, TotalNone DEF Bytes

\* A frame behind the others adds its own size; l is the stream.
BytesOf(l, frames) == Total([j \in 1 .. Len(frames) |-> l[frames[j]].size])

LEMMA BytesMore ==
    ASSUME NEW l, NEW frames \in Seq(Nat), \A j \in 1 .. Len(frames) : l[frames[j]].size \in Nat,
           NEW i \in Nat, l[i].size \in Nat
    PROVE  BytesOf(l, Append(frames, i)) = BytesOf(l, frames) + l[i].size
<1> DEFINE n == Len(frames)
           a == Append(frames, i)
           w == [j \in 1 .. n |-> l[frames[j]].size]
           v == [j \in 1 .. n + 1 |-> l[a[j]].size]
<1>1. /\ n \in Nat /\ Len(a) = n + 1 /\ a[n + 1] = i /\ \A j \in 1 .. n : a[j] = frames[j]
  BY AppendProperties, LenProperties
<1>2. w \in Seq(Nat) /\ Len(w) = n
  BY <1>1
<1>3. v = Append(w, l[i].size)
  <2> DEFINE u == Append(w, l[i].size)
  <2>1. /\ u \in Seq(Nat) /\ Len(u) = n + 1 /\ u[n + 1] = l[i].size
        /\ \A j \in 1 .. n : u[j] = w[j]
    BY <1>2, AppendProperties
  <2>2. \A j \in 1 .. n + 1 : u[j] = l[a[j]].size
    <3> HIDE DEF a, n, u
    <3> QED BY <1>1, <2>1
  <2> HIDE DEF w, a, n, u
  <2>3. u = [j \in 1 .. n + 1 |-> u[j]]
    BY <1>1, <2>1
  <2> QED BY <2>2, <2>3 DEF u
<1>4. Total(v) = Total(w) + l[i].size
  <2> HIDE DEF v, w
  <2> QED BY <1>2, <1>3, TotalMore
<1> QED BY <1>1, <1>4 DEF BytesOf

LEMMA BytesOne ==
    ASSUME NEW l, NEW i \in Nat, l[i].size \in Nat
    PROVE  BytesOf(l, <<i>>) = l[i].size
<1>1. <<>> \in Seq(Nat) /\ Append(<<>>, i) = <<i>> /\ Len(<<>>) = 0
  OBVIOUS
<1>2. BytesOf(l, Append(<<>>, i)) = BytesOf(l, <<>>) + l[i].size
  <2>1. PICK s \in Seq(Nat) : s = <<>>
    BY <1>1
  <2>2. 1 .. Len(s) = {}
    BY <1>1, <2>1
  <2>3. \A j \in 1 .. Len(s) : l[s[j]].size \in Nat
    BY <2>2
  <2> QED BY <2>1, <2>3, BytesMore
<1>3. BytesOf(l, <<>>) = 0
  <2>1. [j \in 1 .. Len(<<>>) |-> l[<<>>[j]].size] = <<>>
    OBVIOUS
  <2> QED BY <2>1, TotalNone DEF BytesOf
<1> QED BY <1>1, <1>2, <1>3

-----------------------------------------------------------------------------
(* The messages that were returned.                                        *)

\* One more message is returned, or none.
Returns == delivered' = delivered \/ \E d : delivered' = Append(delivered, d)

LEMMA DeliveredType ==
    ASSUME TypeOK
    PROVE  /\ Len(delivered) \in Nat /\ DOMAIN delivered = 1 .. Len(delivered)
           /\ \A k \in 1 .. Len(delivered) :
                 /\ delivered[k].opcode \in DataOpcodes
                 /\ delivered[k].frames \in Seq(1 .. MaxFrames) /\ delivered[k].frames \in Seq(Nat)
                 /\ Len(delivered[k].frames) \in Nat
<1> DEFINE D == [opcode : DataOpcodes, frames : Seq(1 .. MaxFrames)]
<1>1. delivered \in Seq(D)
  BY DEF TypeOK
<1>2. \A s \in Seq(1 .. MaxFrames) : s \in Seq(Nat) /\ Len(s) \in Nat
  <2>1. 1 .. MaxFrames \subseteq Nat
    BY WebSocketReceiveAssumption
  <2> QED BY <2>1, LenProperties, SeqMonotonic
<1> HIDE DEF D
<1>3. Len(delivered) \in Nat /\ DOMAIN delivered = 1 .. Len(delivered)
      /\ \A k \in 1 .. Len(delivered) : delivered[k] \in D
  BY <1>1, LenProperties, ElementOfSeq
<1> QED BY <1>2, <1>3 DEF D

LEMMA DeliveredGrows ==
    ASSUME TypeOK, Returns
    PROVE  \A k \in 1 .. Len(delivered) : delivered'[k] = delivered[k]
<1>1. delivered \in Seq([opcode : DataOpcodes, frames : Seq(1 .. MaxFrames)])
  BY DEF TypeOK
<1>2. ASSUME NEW d, delivered' = Append(delivered, d)
      PROVE  \A k \in 1 .. Len(delivered) : delivered'[k] = delivered[k]
  BY <1>1, <1>2
<1> QED BY <1>2 DEF Returns

LEMMA LastFrameIs ==
    ASSUME TypeOK, \A k \in 1 .. Len(delivered) : MessageOk(k)
    PROVE  /\ \A k \in 0 .. Len(delivered) : LastFrame(k) \in 0 .. Len(log)
           /\ Begun \in 0 .. Len(log)
<1>1. Len(log) \in Nat /\ Len(delivered) \in Nat
  BY LogType, DeliveredType
<1>2. ASSUME NEW k \in 1 .. Len(delivered) PROVE LastFrame(k) \in 1 .. Len(log)
  <2>1. Len(delivered[k].frames) \in Nat /\ Len(delivered[k].frames) # 0
    BY DeliveredType, EmptySeq DEF MessageOk
  <2> QED BY <2>1 DEF MessageOk, InLog, LastFrame
<1>3. LastFrame(0) = 0
  BY DEF LastFrame
<1>4. \A k \in 0 .. Len(delivered) : LastFrame(k) \in 0 .. Len(log)
  BY <1>1, <1>2, <1>3
<1> QED BY <1>1, <1>4 DEF Begun

LEMMA LastFrameKept ==
    ASSUME TypeOK, Returns, NEW k \in 0 .. Len(delivered)
    PROVE  LastFrame(k)' = LastFrame(k)
<1>1. Len(delivered) \in Nat
  BY DeliveredType
<1> QED BY <1>1, DeliveredGrows DEF LastFrame

LEMMA MessagesKept ==
    ASSUME TypeOK, \A k \in 1 .. Len(delivered) : MessageOk(k), Grows, Returns,
           NEW k \in 1 .. Len(delivered)
    PROVE  MessageOk(k)'
<1> DEFINE frames == delivered[k].frames
<1>1. /\ Len(frames) \in Nat /\ Len(delivered) \in Nat /\ k - 1 \in 0 .. Len(delivered)
      /\ k \in 0 .. Len(delivered)
  BY DeliveredType
<1>2. delivered'[k] = delivered[k] /\ LastFrame(k)' = LastFrame(k) /\ LastFrame(k - 1)' = LastFrame(k - 1)
  BY <1>1, DeliveredGrows, LastFrameKept
<1>3. LastFrame(k) \in 0 .. Len(log) /\ LastFrame(k - 1) \in Nat
  BY <1>1, LastFrameIs
<1>4. DataBetween(LastFrame(k - 1), LastFrame(k))' = DataBetween(LastFrame(k - 1), LastFrame(k))
  <2>1. \A m \in Nat, n \in 0 .. Len(log) : {i \in m + 1 .. n : ~IsControl(log'[i])} = {i \in m + 1 .. n : ~IsControl(log[i])}
    BY BetweenKept DEF DataBetween, IsControl
  <2> QED BY <1>2, <1>3, <2>1 DEF DataBetween, IsControl
<1>5. frames # <<>> /\ InLog(frames) /\ Bytes(frames) <= MaxMessage
  BY DEF MessageOk
<1>6. InLog(frames)' /\ Bytes(frames)' = Bytes(frames)
  <2>1. ASSUME NEW s, Len(s) \in Nat, InLog(s)
        PROVE  /\ \A j \in 1 .. Len(s) : s[j] \in 1 .. Len(log')
               /\ Total([j \in 1 .. Len(s) |-> log'[s[j]].size]) = Bytes(s)
    BY <2>1, BytesKept DEF InLog, Bytes
  <2> QED BY <1>1, <1>2, <1>5, <2>1 DEF InLog, Bytes
<1>7. \A j \in 1 .. Len(frames) : log'[frames[j]] = log[frames[j]]
  BY <1>5, LogGrows DEF InLog
<1> QED BY <1>2, <1>4, <1>5, <1>6, <1>7 DEF MessageOk

-----------------------------------------------------------------------------
(* One more frame.                                                         *)

Messages == \A k \in 1 .. Len(delivered) : MessageOk(k)

LEMMA FrameTaken ==
    ASSUME TypeOK, NEW f \in Frame, Take(f)
    PROVE  /\ Grows /\ calling /\ log' = Append(log, f)
           /\ Len(log') = This /\ This \in 1 .. MaxFrames /\ log'[This] = f
           /\ This \in 1 .. Len(log') /\ DOMAIN log' = 1 .. This
<1>1. log \in Seq(Frame) /\ Len(log) \in Nat /\ log' = Append(log, f) /\ Len(log) < MaxFrames /\ calling
  BY LogType DEF Take
<1>2. Len(log') = Len(log) + 1 /\ log'[Len(log) + 1] = f /\ log' \in Seq(Frame)
  BY <1>1, AppendProperties
<1>3. DOMAIN log' = 1 .. Len(log')
  BY <1>2, LenProperties
<1> QED BY <1>1, <1>2, <1>3, WebSocketReceiveAssumption DEF This, Grows

LEMMA MessageType ==
    ASSUME TypeOK
    PROVE  /\ message \in Seq(Nat) /\ message \in Seq(1 .. MaxFrames) /\ Len(message) \in Nat
           /\ DOMAIN message = 1 .. Len(message) /\ held \in 0 .. MaxMessage
<1>1. message \in Seq(1 .. MaxFrames) /\ held \in 0 .. MaxMessage
  BY DEF TypeOK
<1>2. 1 .. MaxFrames \subseteq Nat
  BY WebSocketReceiveAssumption
<1> QED BY <1>1, <1>2, LenProperties, SeqMonotonic

\* The stream behind the last message grows by the frame, if it is no control frame.
LEMMA ReadGrows ==
    ASSUME TypeOK, Messages, NEW f \in Frame, Take(f), NEW b, b = Begun, NEW n, n = This
    PROVE  /\ DataBetween(b, n)' = Read \cup (IF IsControl(f) THEN {} ELSE {n})
           /\ \A y \in Read : y < n
<1>1. b \in 0 .. Len(log) /\ Len(log) \in Nat /\ n = Len(log) + 1
  BY LastFrameIs, LogType DEF Messages, This
<1>2. \A i \in b + 1 .. Len(log) : log'[i] = log[i]
  BY <1>1, FrameTaken, LogGrows
<1>3. log'[n] = f
  BY FrameTaken
<1> QED BY <1>1, <1>2, <1>3 DEF Read, DataBetween, IsControl

LEMMA PingsGrow ==
    ASSUME TypeOK, NEW f \in Frame, Take(f)
    PROVE  /\ Pings' = Pings \cup (IF f.opcode = "ping" THEN {This} ELSE {})
           /\ \A y \in Pings : y < This
<1>1. Len(log) \in Nat /\ DOMAIN log = 1 .. Len(log) /\ DOMAIN log' = 1 .. Len(log) + 1
      /\ log'[Len(log) + 1] = f /\ \A i \in 1 .. Len(log) : log'[i] = log[i]
  BY LogType, FrameTaken, LogGrows DEF This
<1> QED BY <1>1 DEF Pings, This

-----------------------------------------------------------------------------
(* Types.                                                                  *)

LEMMA LargeFrame ==
    ASSUME TypeOK, NEW f \in Frame, ~TooLarge(f)
    PROVE  f.size \in 0 .. MaxMessage /\ held + f.size \in 0 .. MaxMessage
<1>1. f.size \in Nat /\ MaxMessage \in Nat /\ held \in 0 .. MaxMessage
  BY MessageType, WebSocketReceiveAssumption DEF Frame
<1> QED BY <1>1 DEF TooLarge

LEMMA TypeStep == TypeOK /\ [Next]_vars => TypeOK'
<1> SUFFICES ASSUME TypeOK, [Next]_vars PROVE TypeOK'
  OBVIOUS
<1> USE DEF TypeOK, Categories
<1>1. CASE UNCHANGED vars
  BY <1>1 DEF vars
<1>2. ASSUME NEW opcode \in DataOpcodes, Call(opcode) PROVE TypeOK'
  <2>1. message' \in Seq(1 .. MaxFrames) /\ held' \in 0 .. MaxMessage
    BY <1>2, WebSocketReceiveAssumption DEF Call
  <2> QED BY <1>2, <2>1 DEF Call
<1>3. CASE TransportFails
  BY <1>3 DEF TransportFails, End
<1>4. ASSUME NEW f \in Frame, Take(f)
      PROVE  log' \in Seq(Frame) /\ Len(log') <= MaxFrames /\ This \in 1 .. MaxFrames
  <2>1. log \in Seq(Frame) /\ log' = Append(log, f) /\ Len(log') = This /\ This \in 1 .. MaxFrames
    BY <1>4, FrameTaken
  <2>2. This <= MaxFrames
    BY <2>1, WebSocketReceiveAssumption
  <2> QED BY <2>1, <2>2, AppendProperties
<1>5. ASSUME NEW f \in Frame, Refuse(f) PROVE TypeOK'
  BY <1>4, <1>5 DEF Refuse, End
<1>6. ASSUME NEW f \in Frame, AnswerPing(f) PROVE TypeOK'
  <2>1. [opcode |-> "pong", answers |-> This] \in [opcode : {"pong", "close"}, answers : 1 .. MaxFrames]
    BY <1>4, <1>6 DEF AnswerPing
  <2>2. sent' \in Seq([opcode : {"pong", "close"}, answers : 1 .. MaxFrames])
    BY <1>6, <2>1, AppendProperties DEF AnswerPing
  <2> QED BY <1>4, <1>6, <2>2 DEF AnswerPing
<1>7. ASSUME NEW f \in Frame, AnswerFails(f) PROVE TypeOK'
  BY <1>4, <1>7 DEF AnswerFails, End
<1>8. ASSUME NEW f \in Frame, IgnorePong(f) PROVE TypeOK'
  BY <1>4, <1>8 DEF IgnorePong
<1>9. ASSUME NEW f \in Frame, AnswerClose(f) PROVE TypeOK'
  <2>1. [opcode |-> "close", answers |-> This] \in [opcode : {"pong", "close"}, answers : 1 .. MaxFrames]
    BY <1>4, <1>9 DEF AnswerClose
  <2>2. sent' \in Seq([opcode : {"pong", "close"}, answers : 1 .. MaxFrames])
    <3>1. sent' = sent \/ sent' = Append(sent, [opcode |-> "close", answers |-> This])
      BY <1>9 DEF AnswerClose
    <3> DEFINE D == [opcode : {"pong", "close"}, answers : 1 .. MaxFrames]
               x == [opcode |-> "close", answers |-> This]
    <3>2. sent \in Seq(D) /\ x \in D
      BY <2>1
    <3> HIDE DEF D, x
    <3>3. Append(sent, x) \in Seq(D)
      BY <3>2, AppendProperties
    <3> QED BY <3>1, <3>2, <3>3 DEF D, x
  <2> QED BY <1>4, <1>9, <2>2 DEF AnswerClose, End
<1>10. ASSUME NEW frames \in Seq(1 .. MaxFrames), Return(frames)
       PROVE  /\ delivered' \in Seq([opcode : DataOpcodes, frames : Seq(1 .. MaxFrames)])
              /\ open' \in BOOLEAN /\ calling' \in BOOLEAN /\ outcome' \in Categories \cup {"none", "message"}
  <2>1. [opcode |-> want, frames |-> frames] \in [opcode : DataOpcodes, frames : Seq(1 .. MaxFrames)]
    OBVIOUS
  <2>2. \/ delivered' = delivered
        \/ delivered' = Append(delivered, [opcode |-> want, frames |-> frames])
    BY <1>10 DEF Return
  <2>3. delivered' \in Seq([opcode : DataOpcodes, frames : Seq(1 .. MaxFrames)])
    <3> DEFINE D == [opcode : DataOpcodes, frames : Seq(1 .. MaxFrames)]
               d == [opcode |-> want, frames |-> frames]
    <3>1. delivered \in Seq(D) /\ d \in D
      BY <2>1
    <3> HIDE DEF D, d
    <3>2. Append(delivered, d) \in Seq(D)
      BY <3>1, AppendProperties
    <3> QED BY <2>2, <3>1, <3>2 DEF D, d
  <2> QED BY <1>10, <2>3 DEF Return, End
<1>11. ASSUME NEW f \in Frame, ReadContinuation(f) PROVE TypeOK'
  <2>1. message' \in Seq(1 .. MaxFrames)
    BY <1>4, <1>11, AppendProperties DEF ReadContinuation
  <2>2. held' \in 0 .. MaxMessage
    BY <1>11, LargeFrame DEF ReadContinuation, Accepted
  <2>3. CASE f.fin
    BY <1>4, <1>10, <1>11, <2>1, <2>2, <2>3 DEF ReadContinuation
  <2>4. CASE ~f.fin
    BY <1>4, <1>11, <2>1, <2>2, <2>4 DEF ReadContinuation
  <2> QED BY <2>3, <2>4
<1>12. ASSUME NEW f \in Frame, ReadWhole(f) PROVE TypeOK'
  <2>1. <<This>> \in Seq(1 .. MaxFrames)
    BY <1>4, <1>12 DEF ReadWhole
  <2> QED BY <1>4, <1>10, <1>12, <2>1 DEF ReadWhole
<1>13. ASSUME NEW f \in Frame, ReadFirst(f) PROVE TypeOK'
  <2>1. <<This>> \in Seq(1 .. MaxFrames)
    BY <1>4, <1>13 DEF ReadFirst
  <2>2. f.size \in 0 .. MaxMessage
    BY <1>13, LargeFrame DEF ReadFirst, Accepted
  <2> QED BY <1>4, <1>13, <2>1, <2>2 DEF ReadFirst
<1> QED BY <1>1, <1>2, <1>3, <1>5, <1>6, <1>7, <1>8, <1>9, <1>11, <1>12, <1>13 DEF Next

-----------------------------------------------------------------------------
(* The receive in progress, and the pongs.                                 *)

\* The receive is over without a message, and the connection closed.
Fails == ~open' /\ ~calling'

\* A control frame, or a failure: what was gathered stays.
LEMMA ProgressKept ==
    ASSUME TypeOK, Messages, ProgressInv, Grows,
           UNCHANGED <<message, held, delivered, want, fragmented>>,
           Fails \/ (UNCHANGED <<open, calling>> /\ calling /\ Read' = Read)
    PROVE  ProgressInv'
<1>1. Len(message) \in Nat /\ InLog(message) /\ held = Bytes(message)
  BY MessageType DEF ProgressInv
<1>2. InLog(message)' /\ held' = Bytes(message)'
  <2>1. ASSUME NEW s, Len(s) \in Nat, InLog(s)
        PROVE  /\ \A j \in 1 .. Len(s) : s[j] \in 1 .. Len(log')
               /\ Total([j \in 1 .. Len(s) |-> log'[s[j]].size]) = Bytes(s)
    BY <2>1, BytesKept DEF InLog, Bytes
  <2> QED BY <1>1, <2>1 DEF InLog, Bytes
<1>3. \A j \in 1 .. Len(message) : log'[message[j]] = log[message[j]]
  BY <1>1, LogGrows DEF InLog
<1>4. CASE Fails
  BY <1>2, <1>4 DEF ProgressInv, Fails
<1>5. CASE UNCHANGED <<open, calling>> /\ calling /\ Read' = Read
  BY <1>2, <1>3, <1>5 DEF ProgressInv, Enumerates
<1> QED BY <1>4, <1>5

LEMMA PingKept ==
    ASSUME TypeOK, PingInv, Grows, sent' = sent, open' => open, open' => Pings' = Pings
    PROVE  PingInv'
<1>1. \A i \in 1 .. Len(log) : i \in 1 .. Len(log') /\ log'[i] = log[i]
  BY LogGrows
<1>2. \A j \in DOMAIN sent : sent[j].answers \in 1 .. Len(log) /\ log[sent[j].answers].size <= MaxControl
  BY DEF PingInv
<1>3. open' => Enumerates(Answers', Pings')
  <2>1. Answers' = Answers
    BY DEF Answers
  <2> QED BY <2>1 DEF PingInv
<1>4. \A j \in DOMAIN sent' : sent'[j].answers \in 1 .. Len(log') /\ log'[sent'[j].answers].size <= MaxControl
  BY <1>1, <1>2
<1> QED BY <1>3, <1>4 DEF PingInv, Enumerates

\* The message that is returned, over the stream as it is now.
LEMMA Returned ==
    ASSUME TypeOK, Messages, NEW f \in Frame, Take(f), NEW frames \in Seq(Nat), Return(frames),
           NEW b, b = Begun, NEW n, n = This,
           frames # <<>>, frames[Len(frames)] = n, InLog(frames)',
           Enumerates(frames, DataBetween(b, n)'), Bytes(frames)' <= MaxMessage,
           \A j \in 1 .. Len(frames) :
              LET g == log'[frames[j]]
              IN  /\ g.goodHeader
                  /\ g.opcode = IF j = 1 THEN want ELSE "continuation"
                  /\ g.fin <=> j = Len(frames)
    PROVE  /\ Messages' /\ ~calling'
           /\ open' => Begun' = Len(log')
<1>1. Grows /\ Returns /\ Len(log') = n
  BY FrameTaken DEF Return, Returns
<1>2. Len(delivered) \in Nat /\ \A k \in 1 .. Len(delivered) : MessageOk(k)'
  BY <1>1, DeliveredType, MessagesKept DEF Messages
<1>3. CASE delivered' = delivered /\ ~open' /\ ~calling'
  BY <1>2, <1>3 DEF Messages
<1>4. ASSUME End("message"), delivered' = Append(delivered, [opcode |-> want, frames |-> frames])
      PROVE  Messages' /\ ~calling' /\ Begun' = Len(log')
  <2>0. PICK k \in Nat : k = Len(delivered) + 1
    BY <1>2
  <2>1. Len(delivered') = k /\ delivered'[k].frames = frames /\ delivered'[k].opcode = want
    <3>1. delivered \in Seq([opcode : DataOpcodes, frames : Seq(1 .. MaxFrames)])
      BY DEF TypeOK
    <3> QED BY <1>4, <2>0, <3>1
  <2>2. k - 1 = Len(delivered) /\ k # 0
    BY <1>2, <2>0
  <2>3. LastFrame(k)' = n
    BY <2>1, <2>2 DEF LastFrame
  <2>4. LastFrame(k - 1)' = b
    <3>1. \A i \in 0 .. Len(delivered) : (IF i = 0 THEN 0 ELSE delivered'[i].frames[Len(delivered'[i].frames)]) = LastFrame(i)
      BY <1>1, LastFrameKept DEF LastFrame
    <3>2. k - 1 \in 0 .. Len(delivered)
      BY <1>2, <2>2
    <3> QED BY <2>2, <3>1, <3>2 DEF LastFrame, Begun
  <2>5. MessageOk(k)'
    BY <2>1, <2>3, <2>4 DEF MessageOk
  <2>6. Messages'
    <3>1. \A i \in 1 .. Len(delivered') : i \in 1 .. Len(delivered) \/ i = k
      BY <1>2, <2>0, <2>1
    <3>2. \A i : i \in 1 .. Len(delivered) => MessageOk(i)'
      BY <1>2
    <3>3. \A i : i = k => MessageOk(i)'
      BY <2>5
    <3> QED BY <3>1, <3>2, <3>3 DEF Messages
  <2>7. Begun' = n
    BY <2>1, <2>3 DEF Begun
  <2> QED BY <1>1, <1>4, <2>6, <2>7 DEF End
<1>5. \/ delivered' = delivered /\ ~open' /\ ~calling'
      \/ End("message") /\ delivered' = Append(delivered, [opcode |-> want, frames |-> frames])
  BY DEF Return, End
<1> QED BY <1>3, <1>4, <1>5

-----------------------------------------------------------------------------
(* The invariant.                                                          *)

LEMMA ReceiveInit == Init => ReceiveInv
<1> SUFFICES ASSUME Init PROVE ReceiveInv
  OBVIOUS
<1>1. TypeOK
  <2>1. held \in 0 .. MaxMessage /\ Len(log) <= MaxFrames
    BY WebSocketReceiveAssumption DEF Init
  <2>2. \A S : <<>> \in Seq(S)
    OBVIOUS
  <2> QED BY <2>1, <2>2 DEF Init, TypeOK, DataOpcodes
<1>2. Len(delivered) = 0 /\ Len(log) = 0 /\ DOMAIN log = {} /\ DOMAIN sent = {} /\ Len(message) = 0
  BY DEF Init
<1>3. ProgressInv
  <2>1. Begun = 0 /\ Bytes(message) = 0
    BY <1>2, BytesNone DEF Begun, LastFrame, Init
  <2> QED BY <1>2, <2>1 DEF Init, ProgressInv, InLog
<1>4. PingInv
  BY <1>2 DEF PingInv, Enumerates, Answers, Pings
<1> QED BY <1>1, <1>2, <1>3, <1>4 DEF ReceiveInv

LEMMA ReceiveNext == ReceiveInv /\ [Next]_vars => ReceiveInv'
<1> SUFFICES ASSUME ReceiveInv, [Next]_vars PROVE ReceiveInv'
  OBVIOUS
<1>1. TypeOK /\ Messages /\ ProgressInv /\ PingInv
  BY DEF ReceiveInv, Messages
<1>2. TypeOK'
  BY <1>1, TypeStep
<1>3. ASSUME Grows, delivered' = delivered PROVE Messages'
  <2>1. Returns
    BY <1>3 DEF Returns
  <2> QED BY <1>1, <1>3, <2>1, MessagesKept DEF Messages
<1>4. ASSUME Messages', ProgressInv', PingInv' PROVE ReceiveInv'
  BY <1>2, <1>4 DEF ReceiveInv, Messages
<1>5. CASE UNCHANGED vars
  <2>1. Grows /\ delivered' = delivered
    BY <1>5 DEF vars, Grows
  <2>2. ProgressInv'
    BY <1>1, <1>5 DEF vars, ProgressInv, InLog, Bytes, Begun, LastFrame, Read, DataBetween, IsControl, Enumerates
  <2>3. PingInv'
    BY <1>1, <1>5 DEF vars, PingInv, Enumerates, Answers, Pings
  <2> QED BY <1>3, <1>4, <2>1, <2>2, <2>3
<1>6. ASSUME NEW opcode \in DataOpcodes, Call(opcode) PROVE ReceiveInv'
  <2>1. Grows /\ delivered' = delivered /\ log' = log /\ open /\ open' = open /\ sent' = sent
        /\ Begun = Len(log) /\ message' = <<>> /\ held' = 0 /\ ~fragmented' /\ calling'
    BY <1>1, <1>6 DEF Call, Grows, ProgressInv
  <2>2. Begun' = Begun
    BY <2>1 DEF Begun, LastFrame
  <2>3. Read' = {}
    BY <2>1, <2>2, LogType, <1>1 DEF Read, DataBetween
  <2>4. Len(message') = 0 /\ InLog(message)'
    BY <2>1 DEF InLog
  <2>5. Bytes(message)' = 0
    <3>1. [j \in 1 .. Len(message') |-> log'[message'[j]].size] = <<>>
      BY <2>1
    <3> QED BY <3>1, TotalNone DEF Bytes
  <2>6. ProgressInv'
    BY <2>1, <2>3, <2>4, <2>5, EnumeratesNone DEF ProgressInv, Enumerates
  <2>7. PingInv'
    BY <1>1, <2>1, PingKept DEF Pings
  <2> QED BY <1>3, <1>4, <2>1, <2>6, <2>7
<1>7. CASE TransportFails
  <2>1. /\ Grows /\ delivered' = delivered /\ log' = log /\ sent' = sent /\ Fails
        /\ UNCHANGED <<message, held, want, fragmented>>
    BY <1>7 DEF TransportFails, End, Grows, Fails
  <2>2. ProgressInv'
    BY <1>1, <2>1, ProgressKept
  <2>3. PingInv'
    BY <1>1, <2>1, PingKept DEF Fails
  <2> QED BY <1>3, <1>4, <2>1, <2>2, <2>3
\* Frames that end the receive without a message.
<1>8. ASSUME NEW f \in Frame, Refuse(f) \/ AnswerFails(f) PROVE ReceiveInv'
  <2>1. /\ Take(f) /\ delivered' = delivered /\ sent' = sent /\ Fails
        /\ UNCHANGED <<message, held, want, fragmented>>
    BY <1>8 DEF Refuse, AnswerFails, End, Fails
  <2>2. Grows
    BY <1>1, <2>1, FrameTaken
  <2>3. ProgressInv'
    BY <1>1, <2>1, <2>2, ProgressKept
  <2>4. PingInv'
    BY <1>1, <2>1, <2>2, PingKept DEF Fails
  <2> QED BY <1>3, <1>4, <2>1, <2>2, <2>3, <2>4
\* Control frames.
<1>9. ASSUME NEW f \in Frame, Take(f), IsControl(f), delivered' = delivered PROVE Read' = Read
  <2>1. PICK b : b = Begun
    OBVIOUS
  <2>2. PICK n : n = This
    OBVIOUS
  <2>3. DataBetween(b, n)' = Read
    BY <1>1, <1>9, <2>1, <2>2, ReadGrows
  <2>4. Begun' = b /\ Len(log') = n
    BY <1>1, <1>9, <2>1, <2>2, FrameTaken DEF Begun, LastFrame
  <2> QED BY <2>3, <2>4 DEF Read, DataBetween
<1>10. ASSUME NEW f \in Frame, IgnorePong(f) PROVE ReceiveInv'
  <2>1. /\ Take(f) /\ IsControl(f) /\ delivered' = delivered /\ sent' = sent /\ f.opcode # "ping"
        /\ UNCHANGED <<message, held, want, fragmented, open, calling>>
    BY <1>10 DEF IgnorePong, IsControl, ControlOpcodes
  <2>2. Grows /\ calling /\ Pings' = Pings
    BY <1>1, <2>1, FrameTaken, PingsGrow
  <2>3. ProgressInv'
    BY <1>1, <1>9, <2>1, <2>2, ProgressKept
  <2>4. PingInv'
    BY <1>1, <2>1, <2>2, PingKept
  <2> QED BY <1>3, <1>4, <2>1, <2>2, <2>3, <2>4
<1>11. ASSUME NEW f \in Frame, Take(f), Accepted(f), IsControl(f), NEW opcode \in {"pong", "close"},
              sent' = Append(sent, [opcode |-> opcode, answers |-> This])
       PROVE  /\ Len(sent') = Len(sent) + 1 /\ Len(sent) \in Nat
              /\ \A j \in 1 .. Len(sent) : sent'[j] = sent[j]
              /\ sent'[Len(sent) + 1].answers = This
              /\ \A j \in DOMAIN sent' : sent'[j].answers \in 1 .. Len(log') /\ log'[sent'[j].answers].size <= MaxControl
  <2>1. sent \in Seq([opcode : {"pong", "close"}, answers : 1 .. MaxFrames])
    BY <1>1 DEF TypeOK
  <2>2. /\ Len(sent') = Len(sent) + 1 /\ Len(sent) \in Nat /\ DOMAIN sent = 1 .. Len(sent)
        /\ DOMAIN sent' = 1 .. Len(sent) + 1
        /\ \A j \in 1 .. Len(sent) : sent'[j] = sent[j]
        /\ sent'[Len(sent) + 1].answers = This
    BY <1>11, <2>1
  <2>3. \A j \in 1 .. Len(sent) : sent[j].answers \in 1 .. Len(log) /\ log[sent[j].answers].size <= MaxControl
    BY <1>1, <2>2 DEF PingInv
  <2>4. Grows /\ This \in 1 .. Len(log') /\ log'[This] = f
    BY <1>1, <1>11, FrameTaken
  <2>5. f.size <= MaxControl
    <3>1. f.size \in Nat /\ MaxControl \in Nat
      BY WebSocketReceiveAssumption DEF Frame
    <3> QED BY <1>11, <3>1 DEF Accepted, BreaksFraming
  <2>6. \A i \in 1 .. Len(log) : i \in 1 .. Len(log') /\ log'[i] = log[i]
    BY <1>1, <2>4, LogGrows
  <2>7. ASSUME NEW j \in 1 .. Len(sent) + 1
        PROVE  sent'[j].answers \in 1 .. Len(log') /\ log'[sent'[j].answers].size <= MaxControl
    <3>1. CASE j = Len(sent) + 1
      BY <2>2, <2>4, <2>5, <3>1
    <3>2. CASE j # Len(sent) + 1
      BY <2>2, <2>3, <2>6, <3>2
    <3> QED BY <3>1, <3>2
  <2> QED BY <2>2, <2>7
<1>12. ASSUME NEW f \in Frame, AnswerPing(f) PROVE ReceiveInv'
  <2>1. /\ Take(f) /\ IsControl(f) /\ Accepted(f) /\ delivered' = delivered /\ f.opcode = "ping"
        /\ sent' = Append(sent, [opcode |-> "pong", answers |-> This])
        /\ UNCHANGED <<message, held, want, fragmented, open, calling>>
    BY <1>12 DEF AnswerPing, IsControl, ControlOpcodes
  <2>2. Grows /\ calling
    BY <1>1, <2>1, FrameTaken
  <2>3. ProgressInv'
    BY <1>1, <1>9, <2>1, <2>2, ProgressKept
  <2>4. /\ Len(sent') = Len(sent) + 1 /\ Len(sent) \in Nat
        /\ \A j \in 1 .. Len(sent) : sent'[j] = sent[j]
        /\ sent'[Len(sent) + 1].answers = This
        /\ \A j \in DOMAIN sent' : sent'[j].answers \in 1 .. Len(log') /\ log'[sent'[j].answers].size <= MaxControl
    BY <1>11, <2>1
  <2>5. open' => Enumerates(Answers', Pings')
    <3>1. sent \in Seq([opcode : {"pong", "close"}, answers : 1 .. MaxFrames])
      BY <1>1 DEF TypeOK
    <3>2. DOMAIN sent = 1 .. Len(sent) /\ DOMAIN sent' = 1 .. Len(sent) + 1
          /\ \A j \in 1 .. Len(sent) : sent[j].answers \in Nat
      <4>1. \A j \in 1 .. Len(sent) : sent[j] \in [opcode : {"pong", "close"}, answers : 1 .. MaxFrames]
        BY <3>1, ElementOfSeq
      <4> QED BY <2>1, <2>4, <3>1, <4>1
    <3>3. Answers \in Seq(Nat) /\ Len(Answers) = Len(sent)
      BY <2>4, <3>2 DEF Answers
    <3>4. This \in Nat
      BY <1>1, <2>1, FrameTaken
    <3>5. Answers' = Append(Answers, This)
      <4>1. Append(Answers, This) = [j \in 1 .. Len(sent) + 1 |-> IF j = Len(sent) + 1 THEN This ELSE Answers[j]]
        <5> DEFINE a == Append(Answers, This)
        <5>1. /\ a \in Seq(Nat) /\ Len(a) = Len(sent) + 1 /\ a[Len(sent) + 1] = This
              /\ \A j \in 1 .. Len(sent) : a[j] = Answers[j]
          BY <3>3, <3>4, AppendProperties
        <5> HIDE DEF a
        <5>2. a = [j \in 1 .. Len(sent) + 1 |-> a[j]]
          BY <2>4, <5>1
        <5>3. \A j \in 1 .. Len(sent) + 1 : a[j] = IF j = Len(sent) + 1 THEN This ELSE Answers[j]
          BY <2>4, <5>1
        <5> QED BY <5>2, <5>3 DEF a
      <4>2. \A j \in 1 .. Len(sent) + 1 : sent'[j].answers = IF j = Len(sent) + 1 THEN This ELSE Answers[j]
        BY <2>4, <3>2 DEF Answers
      <4>3. Answers' = [j \in 1 .. Len(sent) + 1 |-> sent'[j].answers]
        BY <3>2 DEF Answers
      <4> QED BY <4>1, <4>2, <4>3
    <3>6. Pings' = Pings \cup {This} /\ \A y \in Pings : y < This
      BY <1>1, <2>1, PingsGrow
    <3>7. open => Enumerates(Answers, Pings)
      BY <1>1 DEF PingInv
    <3>8. open => Enumerates(Append(Answers, This), Pings \cup {This})
      BY <3>3, <3>4, <3>6, <3>7, EnumeratesMore
    <3> QED BY <2>1, <3>5, <3>6, <3>8
  <2>6. PingInv'
    BY <2>4, <2>5 DEF PingInv, Enumerates
  <2> QED BY <1>3, <1>4, <2>1, <2>2, <2>3, <2>6
<1>13. ASSUME NEW f \in Frame, AnswerClose(f) PROVE ReceiveInv'
  <2>1. /\ Take(f) /\ IsControl(f) /\ Accepted(f) /\ delivered' = delivered /\ Fails
        /\ UNCHANGED <<message, held, want, fragmented>>
        /\ sent' = sent \/ sent' = Append(sent, [opcode |-> "close", answers |-> This])
    BY <1>13 DEF AnswerClose, IsControl, ControlOpcodes, End, Fails
  <2>2. Grows
    BY <1>1, <2>1, FrameTaken
  <2>3. ProgressInv'
    BY <1>1, <2>1, <2>2, ProgressKept
  <2>4. PingInv'
    <3>1. CASE sent' = sent
      BY <1>1, <2>1, <2>2, <3>1, PingKept DEF Fails
    <3>2. CASE sent' = Append(sent, [opcode |-> "close", answers |-> This])
      BY <1>11, <2>1, <3>2 DEF PingInv, Fails
    <3> QED BY <2>1, <3>1, <3>2
  <2> QED BY <1>3, <1>4, <2>1, <2>2, <2>3, <2>4
\* Data frames.
<1>14. ASSUME NEW f \in Frame, Take(f), Accepted(f), ~Misplaced(f),
              f.opcode \in DataOpcodes \cup {"continuation"}
       PROVE  /\ f.goodHeader /\ ~IsControl(f) /\ f.size <= MaxMessage
              /\ f.opcode = "continuation" => fragmented
              /\ f.opcode # "continuation" => ~fragmented /\ f.opcode = want
  BY <1>1, <1>14, LargeFrame DEF Accepted, BreaksFraming, Misplaced, IsControl, ControlOpcodes, DataOpcodes
<1>15. ASSUME NEW f \in Frame, Take(f), sent' = sent, ~IsControl(f), open' => open
       PROVE  PingInv'
  <2>1. f.opcode # "ping"
    BY <1>15 DEF IsControl, ControlOpcodes
  <2> QED BY <1>1, <1>15, <2>1, FrameTaken, PingsGrow, PingKept
<1>16. ASSUME NEW f \in Frame, ReadContinuation(f) PROVE ReceiveInv'
  <2>1. /\ Take(f) /\ Accepted(f) /\ ~Misplaced(f) /\ f.opcode = "continuation"
        /\ sent' = sent /\ message' = Append(message, This) /\ held' = held + f.size
        /\ want' = want /\ fragmented' = fragmented
    BY <1>16 DEF ReadContinuation
  <2>2. /\ f.goodHeader /\ ~IsControl(f) /\ fragmented /\ held + f.size <= MaxMessage
    BY <1>1, <1>14, <2>1, LargeFrame DEF Accepted
  <2>3. Grows /\ calling /\ open /\ log'[This] = f
    BY <1>1, <2>1, FrameTaken DEF ProgressInv
  <2>4. PICK b : b = Begun
    OBVIOUS
  <2>5. PICK n \in Nat : n = This /\ n \in 1 .. Len(log') /\ Len(log') = n
    BY <1>1, <2>1, FrameTaken
  <2>6. PICK s \in Seq(Nat) : s = Append(message, n) /\ message' = s
    BY <1>1, <2>1, <2>5, MessageType, AppendProperties
  <2>7. /\ Len(message) \in Nat /\ Len(s) = Len(message) + 1 /\ s[Len(s)] = n
        /\ \A j \in 1 .. Len(message) : s[j] = message[j]
    BY <1>1, <2>5, <2>6, MessageType, AppendProperties
  <2>8. InLog(s)' /\ Bytes(s)' = held + f.size
    <3>1. PICK m \in Seq(Nat) : m = message /\ InLog(m) /\ Bytes(m) = held
      BY <1>1, MessageType DEF ProgressInv
    <3>2. InLog(m)' /\ Bytes(m)' = held /\ Len(m) = Len(message)
      BY <1>1, <2>3, <3>1, BytesKept, LenProperties
    <3>3. \A i \in 1 .. n : log'[i].size \in Nat
      BY <1>2, <2>5, LogTypeNext
    <3>4. \A j \in 1 .. Len(m) : log'[m[j]].size \in Nat
      BY <2>5, <3>2, <3>3 DEF InLog
    <3>5. BytesOf(log', s) = BytesOf(log', m) + f.size
      BY <2>3, <2>5, <2>6, <3>1, <3>3, <3>4, BytesMore
    <3>6. \A j \in 1 .. Len(s) : s[j] \in 1 .. Len(log')
      BY SMTT(30), <2>5, <2>7, <3>1, <3>2 DEF InLog
    <3> QED BY <3>2, <3>5, <3>6 DEF BytesOf, Bytes, InLog
  <2>9. Enumerates(s, DataBetween(b, n)')
    <3>1. DataBetween(b, n)' = Read \cup {n} /\ \A y \in Read : y < n
      BY <1>1, <2>1, <2>2, <2>4, <2>5, ReadGrows
    <3>2. Enumerates(message, Read)
      BY <1>1, <2>3 DEF ProgressInv
    <3> QED BY <1>1, <2>6, <3>1, <3>2, MessageType, EnumeratesMore
  <2>10. ASSUME NEW j \in 1 .. Len(s)
         PROVE  LET g == log'[s[j]]
                IN  /\ g.goodHeader
                    /\ g.opcode = IF j = 1 THEN want ELSE "continuation"
                    /\ g.fin => j = Len(s) /\ f.fin
    <3>1. CASE j = Len(s)
      <4>1. Len(message) # 0
        BY <1>1, <2>2, <2>3, MessageType, EmptySeq DEF ProgressInv
      <4> QED BY <2>1, <2>2, <2>3, <2>5, <2>7, <3>1, <4>1
    <3>2. CASE j # Len(s)
      <4>1. j \in 1 .. Len(message) /\ s[j] = message[j]
        BY <2>7, <3>2
      <4>2. log'[message[j]] = log[message[j]]
        BY <1>1, <2>3, <4>1, LogGrows DEF ProgressInv, InLog
      <4> QED BY <1>1, <2>3, <4>1, <4>2 DEF ProgressInv
    <3> QED BY <3>1, <3>2
  <2>11. s # <<>>
    BY <2>7
  <2>12. CASE f.fin
    <3>1. Return(message')
      BY <1>16, <2>12 DEF ReadContinuation
    <3>2. Return(s)
      BY <2>6, <3>1 DEF Return
    <3>3. \A j \in 1 .. Len(s) :
              LET g == log'[s[j]]
              IN  /\ g.goodHeader
                  /\ g.opcode = IF j = 1 THEN want ELSE "continuation"
                  /\ g.fin <=> j = Len(s)
      BY <2>3, <2>5, <2>7, <2>10, <2>12
    <3>4. Messages' /\ ~calling' /\ (open' => Begun' = Len(log'))
      BY <1>1, <2>1, <2>2, <2>4, <2>5, <2>7, <2>8, <2>9, <2>11, <3>2, <3>3, Returned
    <3>5. ProgressInv'
      BY <2>1, <2>6, <2>8, <3>4 DEF ProgressInv, InLog, Bytes
    <3> QED BY <1>4, <1>15, <2>1, <2>2, <2>3, <3>4, <3>5
  <2>13. CASE ~f.fin
    <3>1. UNCHANGED <<open, calling, delivered>>
      BY <1>16, <2>13 DEF ReadContinuation
    <3>2. Begun' = b /\ Read' = DataBetween(b, n)'
      BY <2>4, <2>5, <3>1 DEF Begun, LastFrame, Read, DataBetween
    <3>3. Enumerates(s, Read')
      BY <2>9, <3>2
    <3>4. \A j \in 1 .. Len(s) :
              LET g == log'[s[j]]
              IN  /\ g.goodHeader /\ ~g.fin
                  /\ g.opcode = IF j = 1 THEN want ELSE "continuation"
      BY <2>10, <2>13
    <3>5. Enumerates(message, Read)' /\ InLog(message)' /\ Bytes(message)' = held'
      BY <2>1, <2>6, <2>8, <3>3 DEF Enumerates, InLog, Bytes
    <3>6. /\ open' /\ calling' /\ fragmented' /\ message' # <<>> /\ want' = want /\ message' = s
      BY <2>1, <2>2, <2>3, <2>6, <2>11, <3>1
    <3>7. ProgressInv'
      BY <3>4, <3>5, <3>6 DEF ProgressInv
    <3> QED BY <1>3, <1>4, <1>15, <2>1, <2>2, <2>3, <3>1, <3>7
  <2> QED BY <2>12, <2>13
\* A frame of the opcode asked for, with no message in progress.
<1>17. ASSUME NEW f \in Frame, Take(f), Accepted(f), ~Misplaced(f), f.opcode \in DataOpcodes,
              NEW b, b = Begun, NEW n, n = This
       PROVE  /\ f.goodHeader /\ ~IsControl(f) /\ f.opcode = want /\ f.size <= MaxMessage
              /\ f.opcode # "continuation"
              /\ message = <<>> /\ Grows /\ calling /\ open /\ log'[n] = f /\ Len(log') = n
              /\ n \in Nat /\ n \in 1 .. Len(log')
              /\ Enumerates(<<n>>, DataBetween(b, n)')
              /\ InLog(<<n>>)' /\ Bytes(<<n>>)' = f.size
  <2>1. f.goodHeader /\ ~IsControl(f) /\ f.opcode = want /\ ~fragmented /\ f.opcode # "continuation"
        /\ f.size <= MaxMessage
    BY <1>14, <1>17 DEF DataOpcodes
  <2>2. Grows /\ calling /\ log'[n] = f /\ Len(log') = n /\ n \in Nat /\ n \in 1 .. Len(log')
    BY <1>1, <1>17, FrameTaken
  <2>3. message = <<>> /\ open /\ Enumerates(message, Read)
    BY <1>1, <2>1, <2>2 DEF ProgressInv
  <2>4. Read = {}
    BY <2>3 DEF Enumerates
  <2>5. DataBetween(b, n)' = {n}
    BY <1>1, <1>17, <2>1, <2>4, ReadGrows
  <2>6. Enumerates(<<n>>, DataBetween(b, n)')
    BY <2>2, <2>5, EnumeratesOne
  <2>7. log'[n].size \in Nat
    BY <1>2, <2>2, LogTypeNext
  <2>8. InLog(<<n>>)' /\ Bytes(<<n>>)' = f.size
    <3>1. BytesOf(log', <<n>>) = f.size
      BY <2>2, <2>7, BytesOne
    <3> QED BY <2>2, <3>1 DEF BytesOf, Bytes, InLog
  <2> QED BY <2>1, <2>2, <2>3, <2>6, <2>8
<1>18. ASSUME NEW f \in Frame, ReadWhole(f) PROVE ReceiveInv'
  <2>1. /\ Take(f) /\ Accepted(f) /\ ~Misplaced(f) /\ f.opcode \in DataOpcodes /\ f.fin
        /\ Return(<<This>>) /\ UNCHANGED <<sent, want, message, held, fragmented>>
    BY <1>18 DEF ReadWhole
  <2>2. PICK b : b = Begun
    OBVIOUS
  <2>3. PICK n : n = This
    OBVIOUS
  <2>4. /\ f.goodHeader /\ ~IsControl(f) /\ f.opcode = want /\ f.size <= MaxMessage
        /\ f.opcode # "continuation"
        /\ message = <<>> /\ Grows /\ calling /\ open /\ log'[n] = f /\ Len(log') = n
        /\ n \in Nat /\ n \in 1 .. Len(log')
        /\ Enumerates(<<n>>, DataBetween(b, n)')
        /\ InLog(<<n>>)' /\ Bytes(<<n>>)' = f.size
    BY <1>17, <2>1, <2>2, <2>3
  <2>5. /\ <<n>> \in Seq(Nat) /\ <<n>> # <<>> /\ Len(<<n>>) = 1 /\ <<n>>[1] = n /\ Return(<<n>>)
    BY <2>1, <2>3, <2>4
  <2>6. \A j \in 1 .. Len(<<n>>) :
            LET g == log'[<<n>>[j]]
            IN  /\ g.goodHeader
                /\ g.opcode = IF j = 1 THEN want ELSE "continuation"
                /\ g.fin <=> j = Len(<<n>>)
    BY <2>1, <2>4, <2>5
  <2>7. Messages' /\ ~calling' /\ (open' => Begun' = Len(log'))
    BY <1>1, <2>1, <2>2, <2>3, <2>4, <2>5, <2>6, Returned
  <2>8. ProgressInv'
    <3>1. InLog(message)' /\ held' = Bytes(message)'
      <4>1. Len(message') = 0 /\ held = Bytes(message)
        BY <1>1, <2>1, <2>4 DEF ProgressInv
      <4>2. [j \in 1 .. Len(message') |-> log'[message'[j]].size] = <<>>
            /\ [j \in 1 .. Len(message) |-> log[message[j]].size] = <<>>
        BY <2>1, <2>4, <4>1
      <4> QED BY <2>1, <4>1, <4>2 DEF InLog, Bytes
    <3> QED BY <2>7, <3>1 DEF ProgressInv
  <2> QED BY <1>4, <1>15, <2>1, <2>4, <2>7, <2>8
<1>19. ASSUME NEW f \in Frame, ReadFirst(f) PROVE ReceiveInv'
  <2>1. /\ Take(f) /\ Accepted(f) /\ ~Misplaced(f) /\ f.opcode \in DataOpcodes /\ ~f.fin
        /\ fragmented' = TRUE /\ message' = <<This>> /\ held' = f.size
        /\ UNCHANGED <<open, calling, sent, want, delivered>>
    BY <1>19 DEF ReadFirst
  <2>2. PICK b : b = Begun
    OBVIOUS
  <2>3. PICK n : n = This
    OBVIOUS
  <2>4. /\ f.goodHeader /\ ~IsControl(f) /\ f.opcode = want /\ f.size <= MaxMessage
        /\ f.opcode # "continuation"
        /\ message = <<>> /\ Grows /\ calling /\ open /\ log'[n] = f /\ Len(log') = n
        /\ n \in Nat /\ n \in 1 .. Len(log')
        /\ Enumerates(<<n>>, DataBetween(b, n)')
        /\ InLog(<<n>>)' /\ Bytes(<<n>>)' = f.size
    BY <1>17, <2>1, <2>2, <2>3
  <2>5. <<n>> # <<>> /\ Len(<<n>>) = 1 /\ <<n>>[1] = n /\ message' = <<n>>
    BY <2>1, <2>3, <2>4
  <2>6. Begun' = b /\ Read' = DataBetween(b, n)'
    BY <2>1, <2>2, <2>4 DEF Begun, LastFrame, Read, DataBetween
  <2>7. Enumerates(message, Read)' /\ InLog(message)' /\ Bytes(message)' = held'
    BY <2>1, <2>4, <2>5, <2>6 DEF Enumerates, InLog, Bytes
  <2>8. \A j \in 1 .. Len(message') :
            LET g == log'[message'[j]]
            IN  /\ g.goodHeader /\ ~g.fin
                /\ g.opcode = IF j = 1 THEN want' ELSE "continuation"
    BY <2>1, <2>4, <2>5
  <2>9. ProgressInv'
    BY <2>1, <2>4, <2>5, <2>7, <2>8 DEF ProgressInv
  <2> QED BY <1>3, <1>4, <1>15, <2>1, <2>4, <2>9
<1> QED BY <1>5, <1>6, <1>7, <1>8, <1>10, <1>12, <1>13, <1>16, <1>18, <1>19 DEF Next

\* The invariant holds of every stream, whatever the server sends and however long.
THEOREM ReceiveHolds == Spec => []ReceiveInv
<1>1. Init => ReceiveInv
  BY ReceiveInit
<1>2. ReceiveInv /\ [Next]_vars => ReceiveInv'
  BY ReceiveNext
<1> QED BY <1>1, <1>2, PTL DEF Spec

\* Every variable keeps its type; in particular what a receive holds never exceeds the
\* limit of a message.
THEOREM TypeCorrect == Spec => []TypeOK
<1>1. ReceiveInv => TypeOK
  BY DEF ReceiveInv
<1> QED BY <1>1, ReceiveHolds, PTL

\* Successive receives return the stream's data frames, each once and in order, and
\* between two receives nothing of it was read that was not returned.
THEOREM StreamIsDelivered == Spec => []DeliversTheStream
<1>1. ReceiveInv => DeliversTheStream
  BY DeliveredType DEF ReceiveInv, MessageOk, ProgressInv, Begun, DeliversTheStream
<1> QED BY <1>1, ReceiveHolds, PTL

\* Each message returned is a first frame of the type asked for, and its continuations
\* up to the one that ends it.
THEOREM MessagesAreWellFramed == Spec => []MessagesAreFramed
<1>1. ASSUME ReceiveInv PROVE MessagesAreFramed
  <2>1. \A k \in DOMAIN delivered : DOMAIN delivered[k].frames = 1 .. Len(delivered[k].frames)
    BY <1>1, DeliveredType, LenProperties DEF ReceiveInv
  <2> QED BY ZenonT(60), <1>1, <2>1, DeliveredType DEF ReceiveInv, MessageOk, MessagesAreFramed
<1> QED BY <1>1, ReceiveHolds, PTL

\* No message is larger than the limit, in however many frames it comes.
THEOREM SizeIsBounded == Spec => []SizeBounded
<1>1. ASSUME ReceiveInv PROVE SizeBounded
  <2>1. Bytes(message) <= MaxMessage
    BY <1>1, MessageType, WebSocketReceiveAssumption DEF ReceiveInv, ProgressInv
  <2> QED BY <1>1, <2>1, DeliveredType DEF ReceiveInv, MessageOk, SizeBounded
<1> QED BY <1>1, ReceiveHolds, PTL

\* An open connection owes the server no pong, and answered its pings in order.
THEOREM PingsAreAnswered == Spec => []PingsAnswered
<1>1. ReceiveInv => PingsAnswered
  BY DEF ReceiveInv, PingInv, Answers, Pings, PingsAnswered
<1> QED BY <1>1, ReceiveHolds, PTL

=============================================================================
