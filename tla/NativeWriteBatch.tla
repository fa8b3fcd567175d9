-------------------------- MODULE NativeWriteBatch --------------------------
(***************************************************************************)
(* NativeWriteBatchBuilder and the requests its batches travel in.  The    *)
(* builder appends a header and columns to a buffer the caller owns; the   *)
(* model keeps the length of the buffer and where each part of a column    *)
(* was put, the server's reader (not under src/) is the layout it expects. *)
(*                                                                         *)
(* A call that is refused throws before it changes anything: appendNull-   *)
(* Vector checks before it writes, and appendVariableColumn checks its     *)
(* sizes before it calls appendNullVector.  Such calls are stutters.       *)
(***************************************************************************)
EXTENDS Integers, Sequences, SequencesExt

CONSTANTS
    RowCounts, ColumnCounts,  \* what begin() is given
    NullCounts,               \* lengths of the null vectors callers supply
    Widths,                   \* widths of the fixed-size column types
    DataSizes,                \* lengths of the fixed data callers supply
    Lengths,                  \* lengths of single variable-size values
    MaxValues,                \* most values of a variable-size column
    MaxData,                  \* bytes of a variable-size column: a 32-bit length
    MaxOffset,                \* bound on where a batch begins in its buffer
    Occupied,                 \* bytes a caller's own buffer holds before a batch
    LocationCounts            \* row locations in front of an update's batch

ASSUME NativeWriteBatchAssumption ==
    /\ RowCounts \subseteq Nat /\ ColumnCounts \subseteq Nat /\ NullCounts \subseteq Nat
    /\ Widths \subseteq Nat \ {0} /\ DataSizes \subseteq Nat /\ Lengths \subseteq Nat
    /\ MaxValues \in Nat /\ MaxData \in Nat /\ MaxOffset \in Nat
    /\ Occupied \subseteq Nat /\ LocationCounts \subseteq Nat

Alignment == 16      \* native_write_batch_alignment
HeaderSize == 8 * 4  \* eight 32-bit words
SizeWidth == 8       \* native_write_batch_size_width
LengthWord == 4

VARIABLES
    size,         \* output_.size()
    aligned,      \* the buffer holds a request's aligned fields and, once begun, one batch
    batchOffset, rowCount, columnCount, appendedColumns, started,
    finished,     \* finish() was the last call that changed the buffer
    layout        \* where each column of the current batch lies in the buffer

vars == <<size, aligned, batchOffset, rowCount, columnCount, appendedColumns,
          started, finished, layout>>

\* A column: `nulls` and `body` are the offsets of its null vector and of its fixed
\* data or size words, `data` that of its values, `end` the first byte after it.
\* `width` is that of its type, 0 for a variable-size one, `bytes` the length of its values.
Column == [nulls : Nat, body : Nat, data : Nat, end : Nat, width : Nat, bytes : Nat]

TypeOK ==
    /\ size \in Nat /\ aligned \in BOOLEAN
    /\ batchOffset \in Nat /\ batchOffset <= size
    /\ rowCount \in RowCounts \cup {0} /\ columnCount \in ColumnCounts \cup {0}
    /\ appendedColumns \in 0 .. columnCount
    /\ started \in BOOLEAN /\ finished \in BOOLEAN
    /\ layout \in Seq(Column) /\ Len(layout) = appendedColumns

Init ==
    /\ size \in Occupied /\ aligned = FALSE
    /\ batchOffset = 0 /\ rowCount = 0 /\ columnCount = 0 /\ appendedColumns = 0
    /\ started = FALSE /\ finished = FALSE /\ layout = <<>>

-----------------------------------------------------------------------------
\* (n + 15) & ~15, as a mask of a power of two does it.
RoundUp(n) == ((n + Alignment - 1) \div Alignment) * Alignment

\* alignNativeWriteBatch: a multiple of 16 from the start of the buffer.
AlignPayload(n) == RoundUp(n)

\* Mutant: the whole buffer is aligned, not the batch in it.
AlignWholeBuffer(n) == RoundUp(n)

\* alignOutput: a multiple of 16 from the start of the batch.
AlignOutput(n) == batchOffset + RoundUp(n - batchOffset)

\* Mutant: the columns of the batch before are counted on.
BeginKeepsCount(rows, columns, clear) ==
    /\ batchOffset' = IF clear THEN 0 ELSE size
    /\ size' = batchOffset' + HeaderSize
    /\ rowCount' = rows /\ columnCount' = columns
    /\ started' = TRUE /\ finished' = FALSE /\ layout' = <<>>
    /\ aligned' = (aligned /\ ~clear /\ ~started /\ ~finished)
    /\ UNCHANGED appendedColumns

\* begin: it abandons whatever batch was being built.
Begin(rows, columns, clear) ==
    /\ batchOffset' = IF clear THEN 0 ELSE size
    /\ size' = batchOffset' + HeaderSize
    /\ rowCount' = rows /\ columnCount' = columns /\ appendedColumns' = 0
    /\ started' = TRUE /\ finished' = FALSE /\ layout' = <<>>
    /\ aligned' = (aligned /\ ~clear /\ ~started /\ ~finished)

\* ensureStarted and appendNullVector: `valid` says that the null vector holds nothing
\* but 0x00 and 0xff.
AcceptsColumn(nulls, valid) ==
    started /\ appendedColumns < columnCount /\ nulls = rowCount /\ valid

AppendColumn(column) ==
    /\ layout' = Append(layout, column)
    /\ size' = column.end
    /\ appendedColumns' = appendedColumns + 1
    /\ UNCHANGED <<aligned, batchOffset, rowCount, columnCount, started, finished>>

\* appendFixedColumn, which the helpers for the fixed-size types call: the length of
\* the data is not checked.
AppendFixedColumn(width, nulls, valid, bytes) ==
    /\ AcceptsColumn(nulls, valid)
    /\ LET atNulls == AlignOutput(size)
           atData == AlignOutput(atNulls + nulls)
       IN  AppendColumn([nulls |-> atNulls, body |-> atData, data |-> atData,
                         end |-> atData + bytes, width |-> width, bytes |-> bytes])

\* The values' sizes are as many as the rows, and cover the data exactly.
SizesCover(sizes, bytes) == Len(sizes) = rowCount /\ FoldLeft(+, 0, sizes) = bytes

\* Mutant: the length word is left out of the sum.
AppendVariableNoLength(nulls, valid, sizes, bytes) ==
    /\ SizesCover(sizes, bytes) /\ bytes <= MaxData
    /\ AcceptsColumn(nulls, valid)
    /\ LET atNulls == AlignOutput(size)
           atSizes == AlignOutput(atNulls + nulls)
           atData == AlignOutput(atSizes + SizeWidth * Len(sizes))
       IN  AppendColumn([nulls |-> atNulls, body |-> atSizes, data |-> atData,
                         end |-> atData + bytes, width |-> 0, bytes |-> bytes])

\* appendVariableColumn, which appendStringColumn calls.
AppendVariableColumn(nulls, valid, sizes, bytes) ==
    /\ SizesCover(sizes, bytes) /\ bytes <= MaxData
    /\ AcceptsColumn(nulls, valid)
    /\ LET atNulls == AlignOutput(size)
           atSizes == AlignOutput(atNulls + nulls)
           atData == AlignOutput(atSizes + SizeWidth * Len(sizes) + LengthWord)
       IN  AppendColumn([nulls |-> atNulls, body |-> atSizes, data |-> atData,
                         end |-> atData + bytes, width |-> 0, bytes |-> bytes])

Finish ==
    /\ started /\ appendedColumns = columnCount
    /\ size' = AlignOutput(size)
    /\ started' = FALSE /\ finished' = TRUE
    /\ UNCHANGED <<aligned, batchOffset, rowCount, columnCount, appendedColumns, layout>>

-----------------------------------------------------------------------------
(* The requests.                                                           *)

\* The fields of a request in front of its batch: operation id and batch length, and
\* the row locations of an update, of which there must be some, with their count.
Envelopes == {8 + 4} \cup {8 + (4 + 8 * n) + 4 : n \in LocationCounts \ {0}}

\* Mutant: the batch follows the fields as they come.
RequestOffsetsUnaligned == Envelopes \cup (IF aligned /\ finished THEN {batchOffset} ELSE {})

\* Where a finished batch, bytes(), may start in the payload of a request: insertRows
\* and updateRows copy it behind the aligned fields, sessiongw_sim_client has it there.
RequestOffsets ==
    {AlignPayload(fields) : fields \in Envelopes}
    \cup (IF aligned /\ finished THEN {batchOffset} ELSE {})

\* sessiongw_sim_client builds the batch in the payload: it clears its buffer, writes
\* the fields, aligns, and makes a builder that begins without clearing.
StartPayload ==
    /\ \E fields \in Envelopes : size' = AlignPayload(fields)
    /\ aligned' = TRUE /\ finished' = FALSE
    /\ batchOffset' = 0 /\ rowCount' = 0 /\ columnCount' = 0 /\ appendedColumns' = 0
    /\ started' = FALSE /\ layout' = <<>>

Next ==
    \/ \E rows \in RowCounts, columns \in ColumnCounts, clear \in BOOLEAN :
          (clear \/ size <= MaxOffset) /\ Begin(rows, columns, clear)
    \/ \E nulls \in NullCounts, valid \in BOOLEAN :
          \/ \E width \in Widths, bytes \in DataSizes :
                AppendFixedColumn(width, nulls, valid, bytes)
          \/ \E sizes \in BoundedSeq(Lengths, MaxValues), bytes \in DataSizes :
                AppendVariableColumn(nulls, valid, sizes, bytes)
    \/ Finish \/ StartPayload

Spec == Init /\ [][Next]_vars

-----------------------------------------------------------------------------
(* Properties.                                                             *)

\* Where the columns of the batch in the buffer lie: each behind the one before, its
\* parts in order, with nothing between them but the padding to the next multiple of 16.
Follows(from, to) == from <= to /\ to < from + Alignment
ColumnsInOrder ==
    /\ layout # <<>> => Follows(batchOffset + HeaderSize, layout[1].nulls)
    /\ \A k \in DOMAIN layout :
          LET c == layout[k]
          IN  /\ Follows(c.nulls + rowCount, c.body)
              /\ c.width = 0 => Follows(c.body + SizeWidth * rowCount + LengthWord, c.data)
              /\ c.width # 0 => c.data = c.body
              /\ c.end = c.data + c.bytes /\ c.end <= size
              /\ k < Len(layout) => Follows(c.end, layout[k + 1].nulls)

\* What the server's reader, which knows the types of the columns, makes of a batch:
\* the offsets behind each column, counted from the start of the batch.
ReaderEnd ==
    LET end[k \in 0 .. Len(layout)] ==
            IF k = 0 THEN HeaderSize
            ELSE LET c == layout[k]
                     body == RoundUp(RoundUp(end[k - 1]) + rowCount)
                 IN  IF c.width # 0 THEN body + c.width * rowCount
                     ELSE RoundUp(body + SizeWidth * rowCount + LengthWord) + c.bytes
    IN  end

\* The caller supplied fixed data of the width of its type: the code checks no such thing.
Honest == \A k \in DOMAIN layout :
    layout[k].width # 0 => layout[k].bytes = rowCount * layout[k].width

\* A finished batch is read as it was written: the reader finds as many columns as the
\* header says, each where the builder put it, and ends where the batch ends.
ReadableBatch ==
    finished /\ Honest =>
        /\ Len(layout) = columnCount
        /\ \A k \in DOMAIN layout : layout[k].end - batchOffset = ReaderEnd[k]
        /\ RoundUp(ReaderEnd[Len(layout)]) = size - batchOffset

\* docs/protocol_v1.md, payload encoding: the batch in a request is aligned for the
\* server.  Every part of every column lies on a multiple of 16 of the payload, wherever
\* in its buffer the batch was built and whatever stands in front of it.
WireAligned ==
    finished => \A at \in RequestOffsets, k \in DOMAIN layout :
        LET c == layout[k]
        IN  \A offset \in {c.nulls, c.body, c.data} :
               (at + (offset - batchOffset)) % Alignment = 0
=============================================================================
