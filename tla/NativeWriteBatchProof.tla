----------------------- MODULE NativeWriteBatchProof -----------------------
(***************************************************************************)
(* Proofs about NativeWriteBatch for batches of any shape: however many    *)
(* rows and columns, whatever the sizes of the values, wherever the batch  *)
(* begins.                                                                 *)
(***************************************************************************)
EXTENDS NativeWriteBatch, WellFoundedInduction, TLAPS

-----------------------------------------------------------------------------
(* Rounding.                                                               *)

\* Rounding up gives the next multiple of 16.
LEMMA RoundUpFacts ==
    ASSUME NEW n \in Nat
    PROVE  /\ RoundUp(n) \in Nat /\ Follows(n, RoundUp(n))
           /\ RoundUp(n) % Alignment = 0
BY DEF RoundUp, Follows, Alignment

LEMMA AlignOutputFacts ==
    ASSUME TypeOK, NEW n \in Nat, batchOffset <= n
    PROVE  /\ AlignOutput(n) \in Nat /\ Follows(n, AlignOutput(n))
           /\ batchOffset <= AlignOutput(n)
           /\ (AlignOutput(n) - batchOffset) % Alignment = 0
<1>1. n - batchOffset \in Nat /\ batchOffset \in Nat
  BY DEF TypeOK
<1>2. /\ RoundUp(n - batchOffset) \in Nat /\ Follows(n - batchOffset, RoundUp(n - batchOffset))
      /\ RoundUp(n - batchOffset) % Alignment = 0
  BY <1>1, RoundUpFacts
<1> QED BY <1>1, <1>2 DEF AlignOutput, Follows, Alignment

-----------------------------------------------------------------------------
(* The inductive invariant.                                                *)

\* Where the next column goes, and that every column is where it can be read.
EndsAtSize ==
    started => size = IF layout = <<>> THEN batchOffset + HeaderSize
                      ELSE layout[Len(layout)].end

PartsAligned ==
    \A k \in DOMAIN layout :
        LET c == layout[k]
        IN  \A offset \in {c.nulls, c.body, c.data} :
               batchOffset <= offset /\ (offset - batchOffset) % Alignment = 0

\* A request's batch begins behind its aligned fields.
EnvelopeAligned ==
    aligned => IF started \/ finished THEN batchOffset % Alignment = 0
               ELSE size % Alignment = 0

IInv == EndsAtSize /\ PartsAligned /\ EnvelopeAligned /\ ColumnsInOrder

\* The column AppendFixedColumn and AppendVariableColumn put behind what there is.
Behind(c) ==
    /\ Follows(size, c.nulls) /\ Follows(c.nulls + rowCount, c.body)
    /\ c.width = 0 => Follows(c.body + SizeWidth * rowCount + LengthWord, c.data)
    /\ c.width # 0 => c.data = c.body
    /\ c.end = c.data + c.bytes
    /\ \A offset \in {c.nulls, c.body, c.data} :
          batchOffset <= offset /\ (offset - batchOffset) % Alignment = 0

LEMMA FixedColumnBehind ==
    ASSUME TypeOK, NEW width \in Widths, NEW nulls, NEW valid, NEW bytes \in DataSizes,
           AppendFixedColumn(width, nulls, valid, bytes)
    PROVE  \E c \in Column : AppendColumn(c) /\ Behind(c) /\ started
                             /\ appendedColumns < columnCount
<1> DEFINE a == AlignOutput(size)
           d == AlignOutput(a + nulls)
           c == [nulls |-> a, body |-> d, data |-> d,
                 end |-> d + bytes, width |-> width, bytes |-> bytes]
<1>1. AcceptsColumn(nulls, valid) /\ AppendColumn(c)
  BY DEF AppendFixedColumn
<1>2. nulls = rowCount /\ nulls \in Nat /\ started /\ appendedColumns < columnCount
  BY <1>1, NativeWriteBatchAssumption DEF AcceptsColumn, TypeOK, NativeWriteBatchAssumption
<1>3. width \in Nat /\ width # 0 /\ bytes \in Nat
  BY NativeWriteBatchAssumption DEF NativeWriteBatchAssumption
<1>4. /\ a \in Nat /\ Follows(size, a) /\ batchOffset <= a
      /\ (a - batchOffset) % Alignment = 0
  BY AlignOutputFacts DEF TypeOK
<1>5. a + nulls \in Nat /\ batchOffset <= a + nulls
  BY <1>2, <1>4 DEF TypeOK
<1>6. /\ d \in Nat /\ Follows(a + nulls, d) /\ batchOffset <= d
      /\ (d - batchOffset) % Alignment = 0
  BY <1>5, AlignOutputFacts
<1> HIDE DEF a, d
<1>7. c \in Column
  BY <1>3, <1>4, <1>6 DEF Column
<1>8. Behind(c)
  BY <1>2, <1>3, <1>4, <1>6 DEF Behind
<1> QED BY <1>1, <1>2, <1>7, <1>8

LEMMA VariableColumnBehind ==
    ASSUME TypeOK, NEW nulls, NEW valid, NEW sizes, NEW bytes \in DataSizes,
           AppendVariableColumn(nulls, valid, sizes, bytes)
    PROVE  \E c \in Column : AppendColumn(c) /\ Behind(c) /\ started
                             /\ appendedColumns < columnCount
<1> DEFINE a == AlignOutput(size)
           s == AlignOutput(a + nulls)
           d == AlignOutput(s + SizeWidth * Len(sizes) + LengthWord)
           c == [nulls |-> a, body |-> s, data |-> d,
                 end |-> d + bytes, width |-> 0, bytes |-> bytes]
<1>1. AcceptsColumn(nulls, valid) /\ AppendColumn(c) /\ Len(sizes) = rowCount
  BY DEF AppendVariableColumn, SizesCover
<1>2. nulls = rowCount /\ nulls \in Nat /\ started /\ appendedColumns < columnCount
  BY <1>1, NativeWriteBatchAssumption DEF AcceptsColumn, TypeOK, NativeWriteBatchAssumption
<1>3. bytes \in Nat
  BY NativeWriteBatchAssumption DEF NativeWriteBatchAssumption
<1>4. /\ a \in Nat /\ Follows(size, a) /\ batchOffset <= a
      /\ (a - batchOffset) % Alignment = 0
  BY AlignOutputFacts DEF TypeOK
<1>5. a + nulls \in Nat /\ batchOffset <= a + nulls
  BY <1>2, <1>4 DEF TypeOK
<1>6. /\ s \in Nat /\ Follows(a + nulls, s) /\ batchOffset <= s
      /\ (s - batchOffset) % Alignment = 0
  BY <1>5, AlignOutputFacts
<1> HIDE DEF a, s
<1>7. /\ s + SizeWidth * Len(sizes) + LengthWord \in Nat
      /\ batchOffset <= s + SizeWidth * Len(sizes) + LengthWord
  BY <1>1, <1>2, <1>6 DEF SizeWidth, LengthWord, TypeOK
<1>8. /\ d \in Nat /\ Follows(s + SizeWidth * Len(sizes) + LengthWord, d) /\ batchOffset <= d
      /\ (d - batchOffset) % Alignment = 0
  BY <1>7, AlignOutputFacts
<1> HIDE DEF d
<1>9. c \in Column
  BY <1>3, <1>4, <1>6, <1>8 DEF Column
<1>10. Behind(c)
  BY <1>1, <1>2, <1>3, <1>4, <1>6, <1>8 DEF Behind
<1> QED BY <1>1, <1>2, <1>9, <1>10

\* A column put behind the ones there are keeps the invariant.
LEMMA AppendInv ==
    ASSUME TypeOK, IInv, NEW c \in Column, AppendColumn(c), Behind(c), started,
           appendedColumns < columnCount
    PROVE  TypeOK' /\ IInv'
<1> DEFINE n == Len(layout)
<1>1. /\ layout' = Append(layout, c) /\ size' = c.end /\ appendedColumns' = appendedColumns + 1
      /\ aligned' = aligned /\ batchOffset' = batchOffset /\ rowCount' = rowCount
      /\ columnCount' = columnCount /\ started' = started /\ finished' = finished
  BY DEF AppendColumn
<1>2. /\ c.nulls \in Nat /\ c.body \in Nat /\ c.data \in Nat /\ c.end \in Nat
      /\ c.width \in Nat /\ c.bytes \in Nat
  BY DEF Column
<1>3. /\ size \in Nat /\ batchOffset \in Nat /\ batchOffset <= size /\ rowCount \in Nat
      /\ n = appendedColumns /\ n \in Nat /\ columnCount \in Nat
  BY NativeWriteBatchAssumption DEF TypeOK, NativeWriteBatchAssumption
<1>4. /\ DOMAIN layout = 1 .. n /\ DOMAIN layout' = 1 .. n + 1 /\ Len(layout') = n + 1
      /\ layout'[n + 1] = c /\ \A k \in 1 .. n : layout'[k] = layout[k]
      /\ layout' \in Seq(Column) /\ layout' # <<>>
  <2> HIDE DEF Column
  <2> QED BY <1>1 DEF TypeOK
<1>5. \A k \in 1 .. n : layout[k] \in Column
  BY <1>4 DEF TypeOK
<1>6. layout = <<>> <=> n = 0
  BY DEF TypeOK
<1>7. size <= c.end
  <2>1. size <= c.nulls /\ c.nulls <= c.body
    BY SMTT(30), <1>2, <1>3 DEF Behind, Follows
  <2>2. c.body <= c.data
    <3>1. CASE c.width = 0
      <4>1. c.body + SizeWidth * rowCount + LengthWord <= c.data
        BY <3>1 DEF Behind, Follows
      <4>2. \A b, r, d \in Nat : b + SizeWidth * r + LengthWord <= d => b <= d
        BY DEF SizeWidth, LengthWord
      <4> QED BY <1>2, <1>3, <4>1, <4>2
    <3>2. CASE c.width # 0
      BY <1>2, <3>2 DEF Behind
    <3> QED BY <3>1, <3>2
  <2>3. c.data <= c.end
    BY <1>2 DEF Behind
  <2> QED BY <1>2, <1>3, <2>1, <2>2, <2>3
<1>8. TypeOK'
  BY <1>1, <1>2, <1>3, <1>4, <1>7 DEF TypeOK
<1>9. EndsAtSize'
  BY <1>1, <1>4 DEF EndsAtSize
<1>10. PartsAligned'
  <2>1. \A k \in 1 .. n + 1 : k = n + 1 \/ k \in 1 .. n
    BY <1>3
  <2> HIDE DEF n
  <2> QED BY <1>1, <1>4, <2>1 DEF IInv, PartsAligned, Behind
<1>11. EnvelopeAligned'
  BY <1>1 DEF IInv, EnvelopeAligned
<1>12. ColumnsInOrder'
  <2>1. Follows(batchOffset + HeaderSize, layout'[1].nulls)
    <3>1. CASE n = 0
      BY <1>4, <1>6, <3>1 DEF IInv, EndsAtSize, Behind
    <3>2. CASE n # 0
      BY <1>3, <1>4, <1>6, <3>2 DEF IInv, ColumnsInOrder
    <3> QED BY <3>1, <3>2
  <2>2. ASSUME NEW k \in 1 .. n
        PROVE  /\ Follows(layout'[k].nulls + rowCount, layout'[k].body)
               /\ layout'[k].width = 0 =>
                     Follows(layout'[k].body + SizeWidth * rowCount + LengthWord, layout'[k].data)
               /\ layout'[k].width # 0 => layout'[k].data = layout'[k].body
               /\ layout'[k].end = layout'[k].data + layout'[k].bytes /\ layout'[k].end <= size'
               /\ Follows(layout'[k].end, layout'[k + 1].nulls)
    <3>1. layout'[k] = layout[k] /\ k \in DOMAIN layout
      BY <1>4
    <3>2. Follows(layout[k].end, layout'[k + 1].nulls)
      <4>1. CASE k = n
        BY <1>3, <1>4, <1>6, <4>1 DEF IInv, EndsAtSize, Behind
      <4>2. CASE k # n
        <5>1. k < n /\ k + 1 \in 1 .. n
          BY <1>3, <4>2
        <5> QED BY <1>4, <3>1, <5>1 DEF IInv, ColumnsInOrder
      <4> QED BY <4>1, <4>2
    <3>3. layout[k].end <= size'
      <4>1. layout[k].end <= size /\ layout[k].end \in Nat
        BY <1>5, <3>1 DEF IInv, ColumnsInOrder, Column
      <4> QED BY <1>1, <1>2, <1>3, <1>7, <4>1
    <3> HIDE DEF n
    <3> QED BY <3>1, <3>2, <3>3 DEF IInv, ColumnsInOrder
  <2>3. \A k \in 1 .. n + 1 : k = n + 1 \/ (k \in 1 .. n /\ k < n + 1)
    BY <1>3
  <2>4. c.end <= size' /\ n + 1 >= n + 1
    BY <1>1, <1>2, <1>3
  <2> HIDE DEF n
  <2> QED BY <1>1, <1>3, <1>4, <2>1, <2>2, <2>3, <2>4 DEF ColumnsInOrder, Behind
<1> QED BY <1>8, <1>9, <1>10, <1>11, <1>12 DEF IInv

LEMMA BeginInv ==
    ASSUME TypeOK, IInv, NEW rows \in RowCounts, NEW columns \in ColumnCounts,
           NEW clear \in BOOLEAN, Begin(rows, columns, clear)
    PROVE  TypeOK' /\ IInv'
<1>1. /\ batchOffset' \in Nat /\ size' = batchOffset' + HeaderSize /\ size' \in Nat
      /\ rowCount' = rows /\ columnCount' = columns /\ columns \in Nat /\ appendedColumns' = 0
      /\ started' = TRUE /\ finished' = FALSE /\ layout' = <<>>
      /\ aligned' = (aligned /\ ~clear /\ ~started /\ ~finished)
  BY NativeWriteBatchAssumption
  DEF Begin, TypeOK, HeaderSize, NativeWriteBatchAssumption
<1>2. TypeOK'
  <2>1. layout' \in Seq(Column) /\ Len(layout') = 0
    BY <1>1
  <2>2. batchOffset' <= size' /\ appendedColumns' \in 0 .. columnCount'
    <3>1. \A m \in Nat : m <= m + HeaderSize
      BY DEF HeaderSize
    <3> QED BY <1>1, <3>1
  <2>3. aligned' \in BOOLEAN
    BY <1>1 DEF TypeOK
  <2> QED BY <1>1, <2>1, <2>2, <2>3 DEF TypeOK
<1>3. aligned' => batchOffset' % Alignment = 0
  BY <1>1 DEF Begin, IInv, EnvelopeAligned
<1> QED BY <1>1, <1>2, <1>3
        DEF IInv, EndsAtSize, PartsAligned, EnvelopeAligned, ColumnsInOrder

LEMMA FinishInv ==
    ASSUME TypeOK, IInv, Finish
    PROVE  TypeOK' /\ IInv'
<1>1. /\ size' = AlignOutput(size) /\ started /\ started' = FALSE /\ finished' = TRUE
      /\ aligned' = aligned /\ batchOffset' = batchOffset /\ rowCount' = rowCount
      /\ columnCount' = columnCount /\ appendedColumns' = appendedColumns /\ layout' = layout
  BY DEF Finish
<1>2. size' \in Nat /\ size <= size' /\ batchOffset <= size'
  BY <1>1, AlignOutputFacts DEF TypeOK, Follows
<1>3. TypeOK'
  BY <1>1, <1>2 DEF TypeOK
<1>4. EndsAtSize' /\ PartsAligned' /\ EnvelopeAligned'
  BY <1>1 DEF IInv, EndsAtSize, PartsAligned, EnvelopeAligned
<1>5. ColumnsInOrder'
  <2>1. \A k \in DOMAIN layout : layout[k].end <= size'
    <3>1. \A k \in DOMAIN layout : layout[k] \in Column
      BY DEF TypeOK
    <3>2. \A k \in DOMAIN layout : layout[k].end \in Nat
      BY <3>1 DEF Column
    <3>3. \A k \in DOMAIN layout : layout[k].end <= size
      BY DEF IInv, ColumnsInOrder
    <3> QED BY <1>2, <3>2, <3>3 DEF TypeOK
  <2> QED BY <1>1, <2>1 DEF IInv, ColumnsInOrder
<1> QED BY <1>3, <1>4, <1>5 DEF IInv

LEMMA StartPayloadInv ==
    ASSUME TypeOK, IInv, StartPayload
    PROVE  TypeOK' /\ IInv'
<1>1. PICK fields \in Envelopes : size' = AlignPayload(fields)
  BY DEF StartPayload
<1>2. fields \in Nat
  BY NativeWriteBatchAssumption DEF Envelopes, NativeWriteBatchAssumption
<1>3. size' \in Nat /\ size' % Alignment = 0
  BY <1>1, <1>2, RoundUpFacts DEF AlignPayload
<1>4. /\ started' = FALSE /\ finished' = FALSE /\ layout' = <<>> /\ aligned' = TRUE
      /\ batchOffset' = 0 /\ rowCount' = 0 /\ columnCount' = 0 /\ appendedColumns' = 0
  BY DEF StartPayload
<1>5. layout' \in Seq(Column) /\ Len(layout') = 0 /\ DOMAIN layout' = {}
  BY <1>4
<1>6. TypeOK'
  <2>1. 0 \in RowCounts \cup {0} /\ 0 \in ColumnCounts \cup {0} /\ 0 \in 0 .. 0
    OBVIOUS
  <2>2. batchOffset' \in Nat /\ batchOffset' <= size'
    BY <1>3, <1>4
  <2>3. appendedColumns' \in 0 .. columnCount' /\ Len(layout') = appendedColumns'
    BY <1>4, <1>5, <2>1
  <2> QED BY <1>3, <1>4, <1>5, <2>1, <2>2, <2>3, Zenon DEF TypeOK
<1>7. EndsAtSize' /\ PartsAligned' /\ EnvelopeAligned' /\ ColumnsInOrder'
  BY <1>3, <1>4, <1>5 DEF EndsAtSize, PartsAligned, EnvelopeAligned, ColumnsInOrder
<1> QED BY <1>6, <1>7 DEF IInv

LEMMA NextInv == TypeOK /\ IInv /\ [Next]_vars => TypeOK' /\ IInv'
<1> SUFFICES ASSUME TypeOK, IInv, [Next]_vars PROVE TypeOK' /\ IInv'
  OBVIOUS
<1>1. ASSUME NEW rows \in RowCounts, NEW columns \in ColumnCounts, NEW clear \in BOOLEAN,
             Begin(rows, columns, clear)
      PROVE  TypeOK' /\ IInv'
  BY <1>1, BeginInv
<1>2. ASSUME NEW nulls \in NullCounts, NEW valid \in BOOLEAN, NEW width \in Widths,
             NEW bytes \in DataSizes, AppendFixedColumn(width, nulls, valid, bytes)
      PROVE  TypeOK' /\ IInv'
  BY <1>2, FixedColumnBehind, AppendInv
<1>3. ASSUME NEW nulls \in NullCounts, NEW valid \in BOOLEAN, NEW bytes \in DataSizes,
             NEW sizes \in BoundedSeq(Lengths, MaxValues),
             AppendVariableColumn(nulls, valid, sizes, bytes)
      PROVE  TypeOK' /\ IInv'
  BY <1>3, VariableColumnBehind, AppendInv
<1>4. CASE Finish \/ StartPayload
  BY <1>4, FinishInv, StartPayloadInv
<1>5. CASE UNCHANGED vars
  BY <1>5 DEF vars, TypeOK, IInv, EndsAtSize, PartsAligned, EnvelopeAligned, ColumnsInOrder
<1> QED BY <1>1, <1>2, <1>3, <1>4, <1>5 DEF Next

LEMMA InitInv == Init => TypeOK /\ IInv
<1> SUFFICES ASSUME Init PROVE TypeOK /\ IInv
  OBVIOUS
<1>1. layout \in Seq(Column) /\ Len(layout) = 0 /\ DOMAIN layout = {}
  BY DEF Init
<1>2. size \in Nat
  BY NativeWriteBatchAssumption DEF Init, NativeWriteBatchAssumption
<1>3. TypeOK
  <2>1. 0 \in RowCounts \cup {0} /\ 0 \in ColumnCounts \cup {0} /\ 0 \in 0 .. 0
    OBVIOUS
  <2>2. batchOffset \in Nat /\ batchOffset <= size
    BY <1>2 DEF Init
  <2>3. appendedColumns \in 0 .. columnCount /\ Len(layout) = appendedColumns
    BY <1>1, <2>1 DEF Init
  <2> QED BY <1>1, <1>2, <2>1, <2>2, <2>3, Zenon DEF Init, TypeOK
<1>4. EndsAtSize /\ PartsAligned /\ EnvelopeAligned /\ ColumnsInOrder
  BY <1>1 DEF Init, EndsAtSize, PartsAligned, EnvelopeAligned, ColumnsInOrder
<1> QED BY <1>3, <1>4 DEF IInv

\* TypeOK and the inductive invariant hold of every reachable state.
THEOREM TypeAndInvariant == Spec => [](TypeOK /\ IInv)
<1> QED BY InitInv, NextInv, PTL DEF Spec

-----------------------------------------------------------------------------
(* What follows.                                                           *)

\* Batches of every shape lie in their buffer column behind column, with padding of
\* fewer than 16 bytes between the parts and nothing overlapping.
THEOREM ColumnsAreInOrder == Spec => []ColumnsInOrder
<1>1. IInv => ColumnsInOrder
  BY DEF IInv
<1> QED BY <1>1, TypeAndInvariant, PTL

\* In the payload of a request every part of every column of a finished batch is
\* aligned to 16, although the builder knows only where the batch begins.
THEOREM RequestsAreAligned == Spec => []WireAligned
<1>1. TypeOK /\ IInv => WireAligned
  <2> SUFFICES ASSUME TypeOK, IInv, finished, NEW at \in RequestOffsets,
                      NEW k \in DOMAIN layout,
                      NEW offset \in {layout[k].nulls, layout[k].body, layout[k].data}
               PROVE  (at + (offset - batchOffset)) % Alignment = 0
    BY DEF WireAligned
  <2>1. at \in Nat /\ at % Alignment = 0
    <3>1. CASE at \in {AlignPayload(fields) : fields \in Envelopes}
      <4>1. PICK fields \in Envelopes : at = AlignPayload(fields)
        BY <3>1
      <4>2. fields \in Nat
        BY NativeWriteBatchAssumption DEF Envelopes, NativeWriteBatchAssumption
      <4> QED BY <4>1, <4>2, RoundUpFacts DEF AlignPayload
    <3>2. CASE aligned /\ at = batchOffset
      BY <3>2 DEF IInv, EnvelopeAligned, TypeOK
    <3> QED BY <3>1, <3>2 DEF RequestOffsets
  <2>2. offset \in Nat
    <3>1. layout[k] \in Column
      BY DEF TypeOK
    <3> QED BY <3>1 DEF Column
  <2>3. batchOffset <= offset /\ (offset - batchOffset) % Alignment = 0
    BY DEF IInv, PartsAligned
  <2>4. offset - batchOffset \in Nat
    BY <2>2, <2>3 DEF TypeOK
  <2> QED BY <2>1, <2>3, <2>4 DEF Alignment
<1> QED BY <1>1, TypeAndInvariant, PTL

-----------------------------------------------------------------------------
(* Batches that are finished.                                              *)

\* finish() leaves a batch of as many columns as its header says, padded behind the last.
LastEnd == IF layout = <<>> THEN batchOffset + HeaderSize ELSE layout[Len(layout)].end

FinishedInv ==
    /\ ~(started /\ finished)
    /\ finished => Len(layout) = columnCount /\ size = AlignOutput(LastEnd)

LEMMA FinishedInit == Init => FinishedInv
BY DEF Init, FinishedInv

LEMMA FinishedNext == TypeOK /\ IInv /\ FinishedInv /\ [Next]_vars => FinishedInv'
<1> SUFFICES ASSUME TypeOK, IInv, FinishedInv, [Next]_vars PROVE FinishedInv'
  OBVIOUS
<1>1. ASSUME NEW rows, NEW columns, NEW clear, Begin(rows, columns, clear) PROVE FinishedInv'
  BY <1>1 DEF Begin, FinishedInv
<1>2. ASSUME NEW nulls, NEW valid, NEW c, AcceptsColumn(nulls, valid), AppendColumn(c)
      PROVE  FinishedInv'
  <2>1. ~finished'
    BY <1>2 DEF AcceptsColumn, AppendColumn, FinishedInv
  <2> QED BY <2>1 DEF FinishedInv
<1>3. ASSUME NEW width, NEW nulls, NEW valid, NEW bytes, AppendFixedColumn(width, nulls, valid, bytes)
      PROVE  FinishedInv'
  BY <1>2, <1>3 DEF AppendFixedColumn
<1>4. ASSUME NEW nulls, NEW valid, NEW sizes, NEW bytes,
             AppendVariableColumn(nulls, valid, sizes, bytes)
      PROVE  FinishedInv'
  BY <1>2, <1>4 DEF AppendVariableColumn
<1>5. CASE Finish
  <2>1. size = LastEnd /\ Len(layout) = columnCount
    BY <1>5 DEF Finish, IInv, EndsAtSize, LastEnd, TypeOK
  <2>2. size' = AlignOutput(size) /\ UNCHANGED <<batchOffset, layout, columnCount>> /\ ~started'
    BY <1>5 DEF Finish
  <2>3. \A n : AlignOutput(n)' = AlignOutput(n)
    BY <2>2 DEF AlignOutput
  <2>4. PICK n : n = LastEnd
    OBVIOUS
  <2>5. LastEnd' = n
    BY <2>2, <2>4 DEF LastEnd
  <2>6. size' = AlignOutput(LastEnd)'
    BY <2>1, <2>2, <2>4, <2>5 DEF AlignOutput
  <2> QED BY <2>1, <2>2, <2>6 DEF FinishedInv
<1>6. CASE StartPayload
  BY <1>6 DEF StartPayload, FinishedInv
<1>7. CASE UNCHANGED vars
  BY <1>7 DEF vars, FinishedInv, LastEnd, AlignOutput
<1> QED BY <1>1, <1>3, <1>4, <1>5, <1>6, <1>7 DEF Next

-----------------------------------------------------------------------------
(* The server's reader.                                                    *)

\* The next multiple of 16 is the only one that follows.
LEMMA RoundUpUnique ==
    ASSUME NEW n \in Nat, NEW m \in Nat, m % Alignment = 0, Follows(n, m)
    PROVE  m = RoundUp(n)
<1>1. PICK r \in Nat : r = RoundUp(n)
  BY RoundUpFacts
<1>2. Follows(n, r) /\ r % Alignment = 0
  BY <1>1, RoundUpFacts
<1> QED BY <1>1, <1>2 DEF Follows, Alignment

\* Where a column of so many rows ends that is read from an offset on.
ReaderStep(c, rows, from) ==
    LET body == RoundUp(RoundUp(from) + rows)
    IN  IF c.width # 0 THEN body + c.width * rows
        ELSE RoundUp(body + SizeWidth * rows + LengthWord) + c.bytes

\* An honest column is read as it was put there.
LEMMA ColumnIsRead ==
    ASSUME TypeOK, IInv, Honest, NEW k \in DOMAIN layout, NEW from \in Nat,
           from = (IF k = 1 THEN HeaderSize ELSE layout[k - 1].end - batchOffset)
    PROVE  ReaderStep(layout[k], rowCount, from) = layout[k].end - batchOffset
<1> DEFINE c == layout[k]
<1>1. DOMAIN layout = 1 .. Len(layout) /\ Len(layout) \in Nat /\ layout \in Seq(Column)
  BY DEF TypeOK
<1>2. c \in Column
  BY <1>1
<1>3. /\ c.nulls \in Nat /\ c.body \in Nat /\ c.data \in Nat /\ c.end \in Nat
      /\ c.width \in Nat /\ c.bytes \in Nat /\ batchOffset \in Nat
  BY <1>2 DEF Column, TypeOK
<1>4. rowCount \in Nat
  BY NativeWriteBatchAssumption DEF NativeWriteBatchAssumption, TypeOK
<1>5. /\ batchOffset <= c.nulls /\ (c.nulls - batchOffset) % Alignment = 0
      /\ batchOffset <= c.body /\ (c.body - batchOffset) % Alignment = 0
      /\ batchOffset <= c.data /\ (c.data - batchOffset) % Alignment = 0
  BY DEF IInv, PartsAligned
<1>6. /\ Follows(c.nulls + rowCount, c.body)
      /\ c.width = 0 => Follows(c.body + SizeWidth * rowCount + LengthWord, c.data)
      /\ c.width # 0 => c.data = c.body
      /\ c.end = c.data + c.bytes
  BY DEF IInv, ColumnsInOrder
<1>7. Follows(batchOffset + from, c.nulls)
  <2>1. CASE k = 1
    BY <1>1, <2>1 DEF IInv, ColumnsInOrder
  <2>2. CASE k # 1
    <3>1. k - 1 \in 1 .. Len(layout) /\ k - 1 < Len(layout) /\ (k - 1) + 1 = k
      BY <1>1, <2>2
    <3>2. layout[k - 1] \in Column
      BY <1>1, <3>1
    <3>3. layout[k - 1].end \in Nat
      BY <3>2 DEF Column
    <3>4. Follows(layout[k - 1].end, layout[k].nulls)
      BY <1>1, <3>1 DEF IInv, ColumnsInOrder
    <3>5. batchOffset + from = layout[k - 1].end
      BY <1>3, <2>2, <3>3
    <3> QED BY <3>4, <3>5
  <2> QED BY <2>1, <2>2
<1>8. c.width # 0 => c.bytes = rowCount * c.width
  BY DEF Honest
<1> HIDE DEF c
<1>9. c.nulls - batchOffset = RoundUp(from)
  <2>1. c.nulls - batchOffset \in Nat /\ Follows(from, c.nulls - batchOffset)
    BY <1>3, <1>5, <1>7 DEF Follows, Alignment
  <2> QED BY <1>5, <2>1, RoundUpUnique
<1>10. c.body - batchOffset = RoundUp(RoundUp(from) + rowCount)
  <2>1. /\ c.body - batchOffset \in Nat /\ (c.nulls - batchOffset) + rowCount \in Nat
        /\ Follows((c.nulls - batchOffset) + rowCount, c.body - batchOffset)
    BY <1>3, <1>4, <1>5, <1>6 DEF Follows, Alignment
  <2>2. c.body - batchOffset = RoundUp((c.nulls - batchOffset) + rowCount)
    BY <1>5, <2>1, RoundUpUnique
  <2> QED BY <1>9, <2>2
<1>11. CASE c.width # 0
  <2>1. ReaderStep(c, rowCount, from) = (c.body - batchOffset) + c.width * rowCount
    BY <1>10, <1>11 DEF ReaderStep
  <2>2. PICK b \in Nat : b = c.bytes
    BY <1>3
  <2>3. b = rowCount * c.width /\ rowCount * c.width = c.width * rowCount
    BY <1>3, <1>4, <1>8, <1>11, <2>2
  <2>4. ReaderStep(c, rowCount, from) = (c.body - batchOffset) + b
    BY <2>1, <2>3
  <2>5. c.end = c.body + b
    BY <1>6, <1>11, <2>2
  <2> QED BY <1>3, <2>4, <2>5 DEF c
<1>12. CASE c.width = 0
  <2> DEFINE words == SizeWidth * rowCount
  <2>1. words \in Nat /\ LengthWord \in Nat
    BY <1>4 DEF SizeWidth, LengthWord
  <2>2. Follows(c.body + words + LengthWord, c.data)
    BY <1>6, <1>12
  <2> HIDE DEF words
  <2>3. /\ c.data - batchOffset \in Nat /\ (c.body - batchOffset) + words + LengthWord \in Nat
        /\ Follows((c.body - batchOffset) + words + LengthWord, c.data - batchOffset)
    <3>1. PICK body \in Nat, data \in Nat : body = c.body /\ data = c.data
      BY <1>3
    <3>2. PICK sizes \in Nat : sizes = words + LengthWord
      BY <2>1
    <3>3. body + sizes <= data /\ data < body + sizes + 16
      BY <2>1, <2>2, <3>1, <3>2 DEF Follows, Alignment
    <3>4. batchOffset <= body /\ batchOffset <= data
      BY <1>5, <3>1
    <3>5. /\ data - batchOffset \in Nat /\ (body - batchOffset) + sizes \in Nat
          /\ (body - batchOffset) + sizes <= data - batchOffset
          /\ data - batchOffset < (body - batchOffset) + sizes + 16
      BY <1>3, <3>3, <3>4
    <3>6. (body - batchOffset) + words + LengthWord = (body - batchOffset) + sizes
      BY <1>3, <2>1, <3>2
    <3> QED BY <3>1, <3>5, <3>6 DEF Follows, Alignment
  <2>4. c.data - batchOffset = RoundUp((c.body - batchOffset) + words + LengthWord)
    BY <1>5, <2>3, RoundUpUnique
  <2>5. ReaderStep(c, rowCount, from) = (c.data - batchOffset) + c.bytes
    BY <1>10, <1>12, <2>4 DEF ReaderStep, words
  <2> QED BY <1>3, <1>6, <2>5 DEF c
<1> QED BY <1>11, <1>12

\* Induction over the columns is by the least counterexample.
LEMMA LessThanIsWellFounded == IsWellFoundedOn({ss \in Nat \X Nat : ss[1] < ss[2]}, Nat)
BY NatLessThanWellFounded, Zenon DEF OpToRel

LEMMA Least ==
    ASSUME NEW T \in SUBSET Nat, T # {}
    PROVE  \E x \in T : \A y \in T : x <= y
<1> DEFINE R == {ss \in Nat \X Nat : ss[1] < ss[2]}
<1>1. IsWellFoundedOn(R, Nat)
  BY LessThanIsWellFounded
<1>2. \A y \in Nat, x \in Nat : <<y, x>> \in R <=> y < x
  OBVIOUS
<1> HIDE DEF R
<1>3. PICK x \in T : \A y \in T : ~(<<y, x>> \in R)
  BY <1>1, WFMin
<1>4. \A y \in T : ~(y < x) /\ y \in Nat /\ x \in Nat
  BY <1>2, <1>3
<1> QED BY <1>4

\* end holds where each of the first n columns ends for the reader.
Ends(end, columns, rows, n) ==
    end = [k \in 0 .. n |-> IF k = 0 THEN HeaderSize ELSE ReaderStep(columns[k], rows, end[k - 1])]

LEMMA EndsExist ==
    ASSUME NEW n \in Nat, NEW columns, NEW rows
    PROVE  \E end : Ends(end, columns, rows, n)
<1> DEFINE T == {m \in 0 .. n : \A g : ~Ends(g, columns, rows, m)}
<1> SUFFICES ASSUME T # {} PROVE FALSE
  OBVIOUS
<1>1. PICK m \in T : \A y \in T : m <= y
  <2>1. T \in SUBSET Nat
    OBVIOUS
  <2> QED BY <2>1, Least
<1>2. CASE m = 0
  <2>1. Ends([k \in 0 .. 0 |-> HeaderSize], columns, rows, 0)
    BY DEF Ends
  <2> QED BY <1>1, <1>2, <2>1
<1>3. CASE m # 0
  <2>1. m - 1 \in 0 .. n /\ m - 1 \notin T
    BY <1>1, <1>3
  <2>2. PICK g : Ends(g, columns, rows, m - 1)
    BY <2>1
  <2> DEFINE h == [k \in 0 .. m |-> IF k = m THEN ReaderStep(columns[m], rows, g[m - 1]) ELSE g[k]]
  <2>3. \A k \in 0 .. m : h[k] = IF k = 0 THEN HeaderSize ELSE ReaderStep(columns[k], rows, h[k - 1])
    BY <1>1, <1>3, <2>2 DEF Ends
  <2>4. h = [k \in 0 .. m |-> IF k = 0 THEN HeaderSize ELSE ReaderStep(columns[k], rows, h[k - 1])]
    <3>1. h = [k \in 0 .. m |-> h[k]]
      OBVIOUS
    <3> HIDE DEF h
    <3> QED BY <2>3, <3>1
  <2>5. Ends(h, columns, rows, m)
    BY <2>4 DEF Ends
  <2> QED BY <1>1, <2>5
<1> QED BY <1>2, <1>3

LEMMA ReaderEndIs ==
    ASSUME TypeOK
    PROVE  \A k \in 0 .. Len(layout) :
              ReaderEnd[k] = IF k = 0 THEN HeaderSize
                             ELSE ReaderStep(layout[k], rowCount, ReaderEnd[k - 1])
<1> DEFINE n == Len(layout)
           end == CHOOSE e : Ends(e, layout, rowCount, n)
<1>1. n \in Nat
  BY DEF TypeOK
<1>2. Ends(end, layout, rowCount, n)
  BY <1>1, EndsExist
<1>3. ReaderEnd = end
  BY DEF ReaderEnd, Ends, ReaderStep
<1> HIDE DEF end, n
<1>4. \A k \in 0 .. n : end[k] = IF k = 0 THEN HeaderSize ELSE ReaderStep(layout[k], rowCount, end[k - 1])
  BY <1>1, <1>2 DEF Ends
<1> QED BY <1>3, <1>4 DEF n

LEMMA ReaderFollows ==
    ASSUME TypeOK, IInv, Honest
    PROVE  \A k \in DOMAIN layout : ReaderEnd[k] = layout[k].end - batchOffset
<1>1. /\ DOMAIN layout = 1 .. Len(layout) /\ Len(layout) \in Nat
      /\ \A k \in 1 .. Len(layout) : layout[k] \in Column
  BY DEF TypeOK
<1> DEFINE T == {k \in 1 .. Len(layout) : ReaderEnd[k] # layout[k].end - batchOffset}
<1> SUFFICES ASSUME T # {} PROVE FALSE
  BY <1>1
<1>2. PICK k \in T : \A y \in T : k <= y
  <2>1. T \in SUBSET Nat
    BY <1>1
  <2> QED BY <2>1, Least
<1>3. k \in DOMAIN layout /\ k \in 0 .. Len(layout) /\ k # 0
  BY <1>1, <1>2
<1>4. ReaderEnd[k] = ReaderStep(layout[k], rowCount, ReaderEnd[k - 1])
  BY <1>3, ReaderEndIs
<1>5. /\ ReaderEnd[k - 1] \in Nat
      /\ ReaderEnd[k - 1] = IF k = 1 THEN HeaderSize ELSE layout[k - 1].end - batchOffset
  <2>1. CASE k = 1
    <3>1. ReaderEnd[0] = HeaderSize
      BY <1>1, ReaderEndIs
    <3> QED BY <2>1, <3>1 DEF HeaderSize
  <2>2. CASE k # 1
    <3>1. k - 1 \in 1 .. Len(layout) /\ k - 1 \notin T
      BY <1>1, <1>2, <1>3, <2>2
    <3>2. ReaderEnd[k - 1] = layout[k - 1].end - batchOffset
      BY <3>1
    <3>3. /\ layout[k - 1].data \in Nat /\ layout[k - 1].bytes \in Nat /\ batchOffset \in Nat
          /\ layout[k - 1].end = layout[k - 1].data + layout[k - 1].bytes
          /\ batchOffset <= layout[k - 1].data
      BY <1>1, <3>1 DEF IInv, ColumnsInOrder, PartsAligned, Column, TypeOK
    <3> QED BY <2>2, <3>2, <3>3
  <2> QED BY <2>1, <2>2
<1>6. ReaderStep(layout[k], rowCount, ReaderEnd[k - 1]) = layout[k].end - batchOffset
  <2>1. PICK from \in Nat : from = ReaderEnd[k - 1]
    BY <1>5
  <2>2. from = IF k = 1 THEN HeaderSize ELSE layout[k - 1].end - batchOffset
    BY <1>5, <2>1
  <2> QED BY <1>3, <2>1, <2>2, ColumnIsRead
<1> QED BY <1>2, <1>4, <1>6

\* The server's reader finds in every finished batch as many columns as its header says,
\* each where the builder put it, and ends where the batch ends.
THEOREM FinishedBatchesAreReadable == Spec => []ReadableBatch
<1>1. Spec => []FinishedInv
  BY FinishedInit, FinishedNext, TypeAndInvariant, PTL DEF Spec
<1>2. TypeOK /\ IInv /\ FinishedInv => ReadableBatch
  <2> SUFFICES ASSUME TypeOK, IInv, FinishedInv, finished, Honest
               PROVE  /\ Len(layout) = columnCount
                      /\ \A k \in DOMAIN layout : layout[k].end - batchOffset = ReaderEnd[k]
                      /\ RoundUp(ReaderEnd[Len(layout)]) = size - batchOffset
    BY DEF ReadableBatch
  <2>1. Len(layout) = columnCount /\ size = AlignOutput(LastEnd)
    BY DEF FinishedInv
  <2>2. \A k \in DOMAIN layout : layout[k].end - batchOffset = ReaderEnd[k]
    BY ReaderFollows
  <2>3. ReaderEnd[Len(layout)] = LastEnd - batchOffset
    <3>1. DOMAIN layout = 1 .. Len(layout) /\ Len(layout) \in Nat /\ batchOffset \in Nat
      BY DEF TypeOK
    <3>2. CASE layout = <<>>
      <4>1. Len(layout) = 0 /\ ReaderEnd[0] = HeaderSize
        BY <3>1, <3>2, ReaderEndIs
      <4> QED BY <3>1, <3>2, <4>1 DEF LastEnd, HeaderSize
    <3>3. CASE layout # <<>>
      <4>1. Len(layout) \in DOMAIN layout
        BY <3>1, <3>3 DEF TypeOK
      <4> QED BY <2>2, <3>3, <4>1 DEF LastEnd
    <3> QED BY <3>2, <3>3
  <2>4. size \in Nat /\ batchOffset \in Nat
    BY DEF TypeOK
  <2>5. size = batchOffset + RoundUp(ReaderEnd[Len(layout)])
    BY <2>1, <2>3 DEF AlignOutput
  <2>6. RoundUp(ReaderEnd[Len(layout)]) \in Int
    <3>1. LastEnd - batchOffset \in Nat
      <4>1. CASE layout = <<>>
        BY <2>4, <4>1 DEF LastEnd, HeaderSize
      <4>2. CASE layout # <<>>
        <5>1. layout[Len(layout)] \in Column /\ Len(layout) \in DOMAIN layout
          BY <4>2 DEF TypeOK
        <5> DEFINE c == layout[Len(layout)]
        <5>2. /\ c.data \in Nat /\ c.bytes \in Nat /\ c.end = c.data + c.bytes
              /\ batchOffset <= c.data
          BY <5>1 DEF IInv, ColumnsInOrder, PartsAligned, Column
        <5> QED BY <2>4, <4>2, <5>2 DEF LastEnd
      <4> QED BY <4>1, <4>2
    <3> QED BY <2>3, <3>1, RoundUpFacts
  <2> QED BY <2>1, <2>2, <2>4, <2>5, <2>6
<1> QED BY <1>1, <1>2, TypeAndInvariant, PTL
=============================================================================
