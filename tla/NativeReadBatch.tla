--------------------------- MODULE NativeReadBatch ---------------------------
(***************************************************************************)
(* One native fetch reply, read twice.  session.cpp validates the bytes    *)
(* of the batch against the cursor's schema (validateNativeBatch) and      *)
(* hands them over; c_api.cpp walks the same bytes again without a schema  *)
(* (indexNativeBatch) and records where each column's vectors lie, which   *)
(* is all a C consumer has to go by.  The two walks take their layout from *)
(* different places: the first from the schema's types, the second from    *)
(* the kind bytes.                                                         *)
(*                                                                         *)
(* The bytes are chosen as they are first read: "tape" holds the fields    *)
(* read so far at their offsets.  The second walk reads what the tape      *)
(* holds at its own offset, and an arbitrary value where the first walk    *)
(* read no such field.                                                     *)
(***************************************************************************)
EXTENDS Integers, Sequences

CONSTANTS
    Schemas,    \* the cursor schemas: sequences of column types
    Scale,      \* the scale of every DECIMAL128 column of a schema
    MaxRows,    \* bound: rows of a batch
    MaxLength,  \* bound: bytes of a batch
    Wrap,       \* 2^64: string sizes and their sum are kept modulo Wrap
    Sizes       \* the string sizes tried

Types == {"BOOL", "INT64", "DOUBLE", "DECIMAL128", "DATE32", "TIMESTAMP", "STRING"}

ASSUME SchemasAssumption == Schemas \subseteq Seq(Types)
ASSUME BoundsAssumption ==
    /\ Scale \in Nat /\ MaxRows \in Nat /\ MaxLength \in Nat
    /\ Wrap \in Nat \ {0} /\ Sizes \subseteq 0..(Wrap - 1)

VARIABLES
    schema,   \* cursor.schema
    length,   \* bytes.size()
    rows,     \* the row count in the header
    tape,     \* offset -> the field the first walk read there
    stage,    \* where the walk is
    column,   \* the column being read, from 1
    offset,   \* the reader's offset
    row,      \* what validateNativeBatch knows of the column it is reading
    values,   \* what it knew of each column it accepted, for the properties
    views     \* fetch.columns

vars == <<schema, length, rows, tape, stage, column, offset, row, values, views>>

expectedNativeKind(type) ==
    CASE type = "BOOL"       -> 1
      [] type = "INT64"      -> 2
      [] type = "DOUBLE"     -> 3
      [] type = "DECIMAL128" -> 4
      [] type = "DATE32"     -> 5
      [] type = "TIMESTAMP"  -> 6
      [] type = "STRING"     -> 7

\* The kinds a column of the type may announce: a decimal may be narrowed.
AcceptedKinds(type) ==
    {expectedNativeKind(type)} \cup (IF type = "DECIMAL128" THEN {4, 8, 9} ELSE {})

\* Mutant: a narrowed decimal still counts sixteen bytes a value.
ValueWidthOfType(type, kind) ==
    CASE type = "BOOL" -> 1 [] type = "DATE32" -> 4 [] type = "DECIMAL128" -> 16 [] OTHER -> 8

\* The bytes of one fixed-width value, as validateNativeBatch computes them.
ValueWidth(type, kind) ==
    CASE type = "BOOL"       -> 1
      [] type = "DATE32"     -> 4
      [] type = "DECIMAL128" -> (IF kind = 8 THEN 4 ELSE IF kind = 9 THEN 8 ELSE 16)
      [] OTHER               -> 8

\* Mutant: the size is compared with the whole length.
FitsAnywhere(at, size) == at <= length /\ size <= length

\* require(offset <= bytes.size() && size <= bytes.size() - offset)
Fits(at, size) == at <= length /\ size <= length - at

\* Mutant: the sum wraps.
StringTotalWraps(sizes) ==
    LET total[r \in 0..Len(sizes)] == IF r = 0 THEN 0 ELSE (total[r - 1] + sizes[r]) % Wrap
    IN  total[Len(sizes)]

\* The sum of a column's string sizes, or -1 where the overflow check refuses.
StringTotal(sizes) ==
    LET total[r \in 0..Len(sizes)] ==
            IF r = 0 THEN 0
            ELSE IF total[r - 1] < 0 \/ sizes[r] > Wrap - 1 - total[r - 1] THEN -1
            ELSE total[r - 1] + sizes[r]
    IN  total[Len(sizes)]

Type == schema[column]

\* The tape with one more field.
Noted(fields, at, value) ==
    [p \in DOMAIN fields \cup {at} |-> IF p = at THEN value ELSE fields[p]]

\* kind and scale, the NULL bytes and string sizes, and where the vectors lie.
NoRow == [kind |-> 0, scale |-> 0, nulls |-> <<>>, sizes |-> <<>>,
          nullsAt |-> 0, sizesAt |-> 0, dataAt |-> 0, dataSize |-> 0]

Init ==
    /\ schema \in Schemas
    /\ length \in 0..MaxLength
    /\ rows = 0
    /\ tape = <<>>
    /\ stage = "header"
    /\ column = 1
    /\ offset = 0
    /\ row = NoRow
    /\ values = <<>>
    /\ views = <<>>

-----------------------------------------------------------------------------
(* The first walk: validateNativeBatch.                                    *)

\* A failed require: the fetch throws and the caller gets no batch.
Refuse ==
    /\ stage' = "refused"
    /\ UNCHANGED <<schema, length, rows, tape, column, offset, row, values, views>>

\* decodeNativeFetchResult validates only a batch that has bytes.
SkipEmpty ==
    /\ stage = "header" /\ length = 0
    /\ stage' = "accepted"
    /\ UNCHANGED <<schema, length, rows, tape, column, offset, row, values, views>>

\* The six header words.  "fixed" stands for magic, version, encoding and ABI.
ValidateHeader ==
    /\ stage = "header" /\ length > 0
    /\ \E count \in 0..MaxRows, columns \in 0..3, fixed \in BOOLEAN :
          IF Fits(0, 24) /\ fixed /\ columns = Len(schema)
          THEN /\ rows' = count
               /\ tape' = Noted(Noted(tape, 8, count), 12, columns)
               /\ offset' = 24
               /\ stage' = "column"
               /\ UNCHANGED <<schema, length, column, row, values, views>>
          ELSE Refuse

\* The kind byte, the reserved bytes, the scale and the buffer count.
ValidateColumnHeader ==
    /\ stage = "column" /\ column <= Len(schema)
    /\ \E kind \in 0..9, reserved \in 0..1, scale \in {0, Scale}, buffers \in 2..3 :
          IF /\ Fits(offset, 12)
             /\ kind \in AcceptedKinds(Type)
             /\ reserved = 0
             /\ buffers = (IF Type = "STRING" THEN 3 ELSE 2)
             /\ scale = (IF Type = "DECIMAL128" THEN Scale ELSE 0)
          THEN /\ tape' = Noted(Noted(Noted(tape, offset, kind), offset + 4, scale), offset + 8, buffers)
               /\ row' = [NoRow EXCEPT !.kind = kind, !.scale = scale]
               /\ offset' = offset + 12
               /\ stage' = "nulls"
               /\ UNCHANGED <<schema, length, rows, column, values, views>>
          ELSE Refuse

\* The NULL vector: one byte a row, 0x00 or 0xff.
ValidateNulls ==
    /\ stage = "nulls"
    /\ \E nullSize \in 0..(MaxRows + 1), nulls \in [1..rows -> {0, 1, 255}] :
          IF /\ Fits(offset, 4)
             /\ nullSize = rows /\ Fits(offset + 4, nullSize)
             /\ \A r \in 1..rows : nulls[r] \in {0, 255}
          THEN /\ tape' = Noted(tape, offset, nullSize)
               /\ row' = [row EXCEPT !.nulls = nulls, !.nullsAt = offset + 4]
               /\ offset' = offset + 4 + nullSize
               /\ stage' = IF Type = "STRING" THEN "sizes" ELSE "data"
               /\ UNCHANGED <<schema, length, rows, column, values, views>>
          ELSE Refuse

\* The size vector of a STRING column: eight bytes a row, zero for a NULL.
ValidateSizes ==
    /\ stage = "sizes"
    /\ \E sizesSize \in {8 * r : r \in 0..(MaxRows + 1)}, sizes \in [1..rows -> Sizes] :
          IF /\ Fits(offset, 4)
             /\ sizesSize = 8 * rows /\ Fits(offset + 4, sizesSize)
             /\ \A r \in 1..rows : row.nulls[r] = 255 => sizes[r] = 0
             /\ StringTotal(sizes) >= 0
          THEN /\ tape' = Noted(tape, offset, sizesSize)
               /\ row' = [row EXCEPT !.sizes = sizes, !.sizesAt = offset + 4]
               /\ offset' = offset + 4 + sizesSize
               /\ stage' = "data"
               /\ UNCHANGED <<schema, length, rows, column, values, views>>
          ELSE Refuse

\* The values: their extent, and for BOOL that each is 0 or 1 ("binary").
ValidateData ==
    /\ stage = "data"
    /\ \E dataSize \in 0..MaxLength, binary \in BOOLEAN :
          IF /\ Fits(offset, 4)
             /\ dataSize = (IF Type = "STRING" THEN StringTotal(row.sizes)
                                               ELSE rows * ValueWidth(Type, row.kind))
             /\ Fits(offset + 4, dataSize)
             /\ Type = "BOOL" => binary
          THEN /\ tape' = Noted(tape, offset, dataSize)
               /\ values' = Append(values, [row EXCEPT !.dataAt = offset + 4, !.dataSize = dataSize])
               /\ row' = NoRow
               /\ column' = column + 1
               /\ offset' = offset + 4 + dataSize
               /\ stage' = "column"
               /\ UNCHANGED <<schema, length, rows, views>>
          ELSE Refuse

\* ensureConsumed, and the rest of decodeNativeFetchResult: the row locations
\* and the cursor's id, which say nothing of the batch ("tail" is whether they decode).
ValidateEnd ==
    /\ stage = "column" /\ column > Len(schema)
    /\ \E tail \in BOOLEAN :
          IF offset = length /\ tail
          THEN /\ stage' = "accepted"
               /\ UNCHANGED <<schema, length, rows, tape, column, offset, row, values, views>>
          ELSE Refuse

-----------------------------------------------------------------------------
(* The second walk: indexNativeBatch.                                      *)

\* nativeU32: what may be read at an offset.
FieldAt(at) == IF at \in DOMAIN tape THEN {tape[at]} ELSE 0..MaxLength

IndexFails ==
    /\ stage' = "unindexed"
    /\ UNCHANGED <<schema, length, rows, tape, column, offset, row, values, views>>

\* A batch without bytes has no rows and no columns.
IndexHeader ==
    /\ stage = "accepted"
    /\ IF length = 0
       THEN /\ stage' = "indexed"
            /\ UNCHANGED <<column, offset>>
       ELSE /\ stage' = "index"
            /\ column' = 1
            /\ offset' = 24
    /\ UNCHANGED <<schema, length, rows, tape, row, values, views>>

\* Mutant: the length word of the data vector is forgotten behind the sizes.
DataAtNoWord(nullEnd, text, sizesSize) == nullEnd + 4 + sizesSize

\* Where a column's data vector starts: behind its length word and, for a string
\* column, the size vector and that one's length word.
DataAt(nullEnd, text, sizesSize) ==
    IF text THEN nullEnd + 4 + sizesSize + 4 ELSE nullEnd + 4

\* One column: kind and scale, the buffer count, then the NULL, size and data vectors.
IndexColumn ==
    /\ stage = "index" /\ column <= tape[12]
    /\ IF ~Fits(offset, 12) THEN IndexFails ELSE
       \E kind \in FieldAt(offset), scale \in FieldAt(offset + 4),
          buffers \in FieldAt(offset + 8), nullSize \in FieldAt(offset + 12) :
          LET text    == kind = 7
              nullAt  == offset + 16
              sizesAt == nullAt + nullSize + 4
          IN \E sizesSize \in (IF text THEN FieldAt(sizesAt - 4) ELSE {0}) :
             LET dataAt == DataAt(nullAt + nullSize, text, sizesSize)
             IN \E dataSize \in FieldAt(dataAt - 4) :
                IF /\ buffers = (IF text THEN 3 ELSE 2)
                   /\ Fits(nullAt, nullSize)
                   /\ text => Fits(sizesAt, sizesSize)
                   /\ Fits(dataAt, dataSize)
                THEN /\ views' = Append(views,
                            [kind |-> kind, scale |-> scale,
                             nulls |-> [at |-> nullAt, size |-> nullSize],
                             sizes |-> [at |-> IF text THEN sizesAt ELSE 0, size |-> sizesSize],
                             data |-> [at |-> dataAt, size |-> dataSize]])
                     /\ column' = column + 1
                     /\ offset' = dataAt + dataSize
                     /\ UNCHANGED <<schema, length, rows, tape, stage, row, values>>
                ELSE IndexFails

\* require(offset == bytes.size(), "native read batch has trailing bytes")
IndexEnd ==
    /\ stage = "index" /\ column > tape[12]
    /\ IF offset = length
       THEN /\ stage' = "indexed"
            /\ UNCHANGED <<schema, length, rows, tape, column, offset, row, values, views>>
       ELSE IndexFails

-----------------------------------------------------------------------------
(* What the accessors hand to a C consumer, which knows rows and kinds only. *)

NoBytes == [at |-> 0, size |-> 0]
FixedData(view)     == IF view.kind = 7 THEN NoBytes ELSE view.data
VariableSizes(view) == IF view.kind = 7 THEN view.sizes ELSE NoBytes
VariableData(view)  == IF view.kind = 7 THEN view.data ELSE NoBytes

Next ==
    \/ SkipEmpty \/ ValidateHeader
    \/ ValidateColumnHeader \/ ValidateNulls \/ ValidateSizes \/ ValidateData
    \/ ValidateEnd
    \/ IndexHeader \/ IndexColumn \/ IndexEnd

Spec == Init /\ [][Next]_vars

-----------------------------------------------------------------------------
Extent == [at : 0..(MaxLength), size : 0..MaxLength]

\* Every variable holds a value of its kind.
TypeOK ==
    /\ schema \in Schemas
    /\ length \in 0..MaxLength
    /\ rows \in 0..MaxRows
    /\ stage \in {"header", "column", "nulls", "sizes", "data", "accepted", "refused",
                  "index", "indexed", "unindexed"}
    /\ column \in 1..(Len(schema) + 1)
    /\ offset \in 0..length
    /\ row.kind \in 0..9
    /\ \A at \in DOMAIN tape : at \in 0..(length - 1) /\ tape[at] \in Nat
    /\ \A c \in DOMAIN views : views[c].nulls \in Extent /\ views[c].sizes \in Extent
                               /\ views[c].data \in Extent

\* The bytes one value of a kind takes, by docs/protocol_v1.md's table of
\* kinds and nothing else: the stride a C consumer uses.
Stride(kind) == <<1, 8, 8, 16, 4, 8, 0, 4, 8>>[kind]

\* What a consumer of the C accessors computes stays inside the vectors it is
\* given: one NULL byte a row, a value a row at the kind's stride, and for a
\* string column one size a row, the scale being the schema's for a decimal.
ViewsMatchRows ==
    stage = "indexed" /\ length > 0 =>
        /\ Len(views) = Len(schema)
        /\ \A c \in DOMAIN views :
              LET v == views[c] IN
              /\ v.nulls.size = rows
              /\ VariableSizes(v).size = (IF schema[c] = "STRING" THEN 8 * rows ELSE 0)
              /\ FixedData(v).size = (IF schema[c] = "STRING" THEN 0
                                                              ELSE rows * Stride(v.kind))
              /\ v.scale = IF schema[c] = "DECIMAL128" THEN Scale ELSE 0

\* The column the index should make of what was validated.
View(v) ==
    [kind |-> v.kind, scale |-> v.scale,
     nulls |-> [at |-> v.nullsAt, size |-> rows],
     sizes |-> [at |-> v.sizesAt, size |-> IF v.kind = 7 THEN 8 * rows ELSE 0],
     data |-> [at |-> v.dataAt, size |-> v.dataSize]]

\* A batch session.cpp accepts is never refused by c_api.cpp, which would lose
\* what the server has moved its cursor past; and the vectors the C accessors
\* hand out are those that were validated, byte for byte: no NULL byte, size or
\* Boolean reaches a consumer without its check.
IndexIsWhatWasValidated ==
    /\ stage # "unindexed"
    /\ \A c \in DOMAIN views : c \in DOMAIN values /\ views[c] = View(values[c])

\* Where the strings end that lie one after the other by their sizes.
TextEnd(sizes) ==
    LET end[r \in 0..Len(sizes)] == IF r = 0 THEN 0 ELSE end[r - 1] + sizes[r]
    IN  end[Len(sizes)]

\* Strings laid one after the other by their sizes end exactly where the data
\* vector ends, in true arithmetic and not only modulo 2^64.
StringsFillTheirData ==
    stage = "indexed" =>
        \A c \in DOMAIN views :
            views[c].kind = 7 => TextEnd(values[c].sizes) = VariableData(views[c]).size

=============================================================================
