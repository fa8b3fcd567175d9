------------------------ MODULE NativeReadBatchProof ------------------------
(***************************************************************************)
(* NativeReadBatch's properties, proved for every cursor schema, every     *)
(* batch of any number of rows and bytes, and every value of its fields.   *)
(* The first walk leaves on the tape every field the second one reads, at  *)
(* the offset where it reads it: each column the first walk accepted       *)
(* starts where the one before it ended, and so does each the second       *)
(* indexes.                                                                *)
(***************************************************************************)
EXTENDS NativeReadBatch, SequenceTheorems, WellFoundedInduction, TLAPS

(***************************************************************************)
(* The inductive invariant.                                                *)
(***************************************************************************)
\* What validateNativeBatch knows of a column.
Column == [kind : 0..9, scale : Nat, nulls : Seq({0, 255}), sizes : Seq(Sizes),
           nullsAt : Nat, sizesAt : Nat, dataAt : Nat, dataSize : Nat]

Vector == [at : Nat, size : Nat]
Shown == [kind : 0..9, scale : Nat, nulls : Vector, sizes : Vector, data : Vector]

\* The field is on the tape.
Field(at, value) == at \in DOMAIN tape /\ tape[at] = value

\* What was read of a column v of a type that starts at an offset, part by part.
HeadOk(v, type, at) ==
    /\ v.kind \in AcceptedKinds(type)
    /\ v.scale = IF type = "DECIMAL128" THEN Scale ELSE 0
    /\ Field(at, v.kind) /\ Field(at + 4, v.scale)
    /\ Field(at + 8, IF type = "STRING" THEN 3 ELSE 2)

NullsOk(v, at) ==
    /\ v.nullsAt = at + 16
    /\ Field(at + 12, rows)
    /\ v.nullsAt + rows <= length

SizesOk(v, type) ==
    IF type = "STRING"
    THEN /\ v.sizesAt = v.nullsAt + rows + 4
         /\ Field(v.nullsAt + rows, 8 * rows)
         /\ v.sizesAt + 8 * rows <= length
         /\ v.sizes \in [1..rows -> Sizes]
    ELSE v.sizesAt = 0

\* Where the length word of its values is, and where they are.
ValuesWordAt(v, type) == IF type = "STRING" THEN v.sizesAt + 8 * rows ELSE v.nullsAt + rows

DataOk(v, type) ==
    /\ v.dataAt = ValuesWordAt(v, type) + 4
    /\ Field(ValuesWordAt(v, type), v.dataSize)
    /\ v.dataSize = (IF type = "STRING" THEN StringTotal(v.sizes)
                                        ELSE rows * ValueWidth(type, v.kind))
    /\ v.dataAt + v.dataSize <= length

\* A column starts behind the header or behind the column before it.
Start(c) == IF c = 1 THEN 24 ELSE values[c - 1].dataAt + values[c - 1].dataSize

ColumnOk(c) ==
    /\ HeadOk(values[c], schema[c], Start(c))
    /\ NullsOk(values[c], Start(c))
    /\ SizesOk(values[c], schema[c])
    /\ DataOk(values[c], schema[c])

\* The columns accepted so far.
ValuesInv ==
    /\ row \in Column /\ values \in Seq(Column) /\ Len(values) <= Len(schema)
    /\ \A c \in 1..Len(values) : ColumnOk(c)

\* The first walk: what it has read of the column it is in, all of it behind its offset.
WalkInv ==
    /\ stage = "header" => tape = <<>> /\ values = <<>> /\ column = 1
    /\ stage \in {"column", "nulls", "sizes", "data"} =>
          /\ 24 <= length /\ Field(12, Len(schema)) /\ column = Len(values) + 1
          /\ \A p \in DOMAIN tape : p < offset
    /\ stage = "column" => offset = Start(column)
    /\ stage \in {"nulls", "sizes", "data"} =>
          /\ column <= Len(schema)
          /\ HeadOk(row, Type, Start(column))
    /\ stage = "nulls" => row.sizesAt = 0 /\ offset = Start(column) + 12
    /\ stage \in {"sizes", "data"} => NullsOk(row, Start(column))
    /\ stage = "sizes" => Type = "STRING" /\ row.sizesAt = 0 /\ offset = row.nullsAt + rows
    /\ stage = "data" => SizesOk(row, Type) /\ offset = ValuesWordAt(row, Type)

\* An accepted batch, indexed or not, is its columns and nothing behind them.
AcceptedInv ==
    stage \in {"accepted", "index", "indexed"} =>
        IF length = 0
        THEN values = <<>> /\ stage # "index"
        ELSE /\ 24 <= length /\ Len(values) = Len(schema) /\ Field(12, Len(schema))
             /\ Start(Len(schema) + 1) = length

\* The second walk: each column it has indexed is the one that was accepted, and it
\* is where that one ended.
IndexInv ==
    /\ stage \notin {"index", "indexed"} => views = <<>>
    /\ stage # "unindexed"
    /\ views \in Seq(Shown) /\ Len(views) <= Len(values)
    /\ \A c \in 1..Len(views) : views[c] = View(values[c])
    /\ stage = "index" => column = Len(views) + 1 /\ offset = Start(column)
    /\ stage = "indexed" => Len(views) = Len(values)

BatchInv ==
    /\ TypeOK
    /\ ValuesInv
    /\ WalkInv
    /\ AcceptedInv
    /\ IndexInv
-----------------------------------------------------------------------------
(* What the parts of the invariant say of the values they speak of.        *)

LEMMA ColumnType ==
    ASSUME NEW v \in Column
    PROVE  /\ v.kind \in Nat /\ v.scale \in Nat /\ v.nullsAt \in Nat /\ v.sizesAt \in Nat
           /\ v.dataAt \in Nat /\ v.dataSize \in Nat
BY DEF Column

LEMMA Facts ==
    ASSUME TypeOK, ValuesInv
    PROVE  /\ Len(schema) \in Nat /\ \A c \in 1..Len(schema) : schema[c] \in Types
           /\ length \in Nat /\ rows \in Nat /\ column \in Nat /\ 1 <= column
           /\ column <= Len(schema) + 1
           /\ offset \in Nat /\ offset <= length
           /\ values \in Seq(Column) /\ Len(values) \in Nat
           /\ \A c \in 1..Len(values) : values[c] \in Column
           /\ \A c \in 1..Len(values) + 1 : Start(c) \in Nat
<1>1. schema \in Seq(Types)
  BY SchemasAssumption DEF TypeOK
<1>2. Len(schema) \in Nat /\ \A c \in 1..Len(schema) : schema[c] \in Types
  BY <1>1, LenProperties, ElementOfSeq
<1>3. values \in Seq(Column)
  BY DEF ValuesInv
<1>4. Len(values) \in Nat /\ \A c \in 1..Len(values) : values[c] \in Column
  BY <1>3, LenProperties, ElementOfSeq
<1>5. ASSUME NEW c \in 1..Len(values) + 1 PROVE Start(c) \in Nat
  <2>1. CASE c = 1
    BY <2>1 DEF Start
  <2>2. CASE c # 1
    <3>1. values[c - 1] \in Column
      BY <1>4, <1>5, <2>2
    <3> QED BY <2>2, <3>1, ColumnType DEF Start
  <2> QED BY <2>1, <2>2
<1>6. /\ length \in Nat /\ rows \in Nat /\ column \in Nat /\ 1 <= column
      /\ column <= Len(schema) + 1 /\ offset \in Nat /\ offset <= length
  BY <1>2, BoundsAssumption DEF TypeOK
<1> QED BY <1>2, <1>3, <1>4, <1>5, <1>6

\* Seven is the kind of strings, and no other column announces it.
LEMMA SevenIsText ==
    ASSUME NEW type \in Types, NEW kind \in AcceptedKinds(type)
    PROVE  kind = 7 <=> type = "STRING"
BY DEF Types, AcceptedKinds, expectedNativeKind

\* The width the validation computes from the type is the stride of the kind.
LEMMA WidthIsStride ==
    ASSUME NEW type \in Types, type # "STRING", NEW kind \in AcceptedKinds(type)
    PROVE  ValueWidth(type, kind) = Stride(kind)
BY DEF Types, AcceptedKinds, expectedNativeKind, ValueWidth, Stride

LEMMA NoRowIsColumn == NoRow \in Column
<1>1. <<>> \in Seq({0, 255}) /\ <<>> \in Seq(Sizes)
  BY EmptySeq
<1> QED BY <1>1 DEF NoRow, Column

-----------------------------------------------------------------------------
(* What was read stays read.                                               *)

TapeKept == \A p \in DOMAIN tape : p \in DOMAIN tape' /\ tape'[p] = tape[p]
SameBatch == schema' = schema /\ length' = length /\ rows' = rows

LEMMA PartsKept ==
    ASSUME TapeKept, SameBatch
    PROVE  /\ \A v, type, at : HeadOk(v, type, at) => HeadOk(v, type, at)'
           /\ \A v, at : NullsOk(v, at) => NullsOk(v, at)'
           /\ \A v, type : SizesOk(v, type) => SizesOk(v, type)'
           /\ \A v, type : DataOk(v, type) => DataOk(v, type)'
<1>1. \A at, value : Field(at, value) => Field(at, value)'
  BY DEF TapeKept, Field
<1>2. \A v, type, at : HeadOk(v, type, at) => HeadOk(v, type, at)'
  BY <1>1 DEF HeadOk
<1>3. \A v, at : NullsOk(v, at) => NullsOk(v, at)'
  BY <1>1 DEF NullsOk, SameBatch
<1>4. \A v, type : SizesOk(v, type) => SizesOk(v, type)'
  BY <1>1 DEF SizesOk, SameBatch
<1>5. \A v, type : DataOk(v, type) => DataOk(v, type)'
  BY <1>1 DEF DataOk, SameBatch, ValuesWordAt
<1> QED BY <1>2, <1>3, <1>4, <1>5

\* The columns accepted so far stay as they are.
Extends == Len(values') \in Nat /\ Len(values) <= Len(values')
               /\ \A c \in 1..Len(values) : values'[c] = values[c]

LEMMA StartKept ==
    ASSUME TypeOK, ValuesInv, Extends, NEW c \in 1..Len(values) + 1
    PROVE  Start(c)' = Start(c)
BY Facts DEF Start, Extends

LEMMA ColumnsKept ==
    ASSUME TypeOK, ValuesInv, TapeKept, SameBatch, Extends
    PROVE  \A c \in 1..Len(values) : ColumnOk(c)'
<1> SUFFICES ASSUME NEW c \in 1..Len(values) PROVE ColumnOk(c)'
  OBVIOUS
<1>1. ColumnOk(c)
  BY DEF ValuesInv
<1>2. values'[c] = values[c] /\ schema'[c] = schema[c]
  BY DEF Extends, SameBatch
<1>3. Start(c)' = Start(c)
  BY StartKept, Facts
<1>4. PICK v, type, at : v = values[c] /\ type = schema[c] /\ at = Start(c)
  OBVIOUS
<1>5. HeadOk(v, type, at) /\ NullsOk(v, at) /\ SizesOk(v, type) /\ DataOk(v, type)
  BY <1>1, <1>4 DEF ColumnOk
<1>6. HeadOk(v, type, at)' /\ NullsOk(v, at)' /\ SizesOk(v, type)' /\ DataOk(v, type)'
  BY <1>5, PartsKept
<1> QED BY <1>2, <1>3, <1>4, <1>6 DEF ColumnOk

\* The fields a step reads, behind all that was read before.
LEMMA NotingKeeps ==
    ASSUME NEW at, NEW value, at \notin DOMAIN tape, tape' = Noted(tape, at, value)
    PROVE  /\ TapeKept
           /\ at \in DOMAIN tape' /\ tape'[at] = value
           /\ DOMAIN tape' = DOMAIN tape \cup {at}
<1>1. /\ DOMAIN tape' = DOMAIN tape \cup {at} /\ tape'[at] = value
      /\ \A p \in DOMAIN tape : p # at => tape'[p] = tape[p]
  BY DEF Noted
<1> QED BY <1>1 DEF TapeKept

\* Nothing is on the tape at the reader's offset or behind it.
LEMMA Ahead ==
    ASSUME TypeOK, ValuesInv, WalkInv, stage \in {"column", "nulls", "sizes", "data"}
    PROVE  \A k \in Nat : offset + k \notin DOMAIN tape
<1>1. \A p \in DOMAIN tape : p < offset /\ p \in Nat
  BY Facts DEF WalkInv, TypeOK
<1> QED BY <1>1, Facts

\* Where a step leaves the columns accepted alone.
LEMMA SameColumns ==
    ASSUME TypeOK, ValuesInv, TapeKept, SameBatch, values' = values, row' \in Column
    PROVE  ValuesInv'
<1>1. Extends
  BY Facts DEF Extends
<1>2. \A c \in 1..Len(values) : ColumnOk(c)'
  BY <1>1, ColumnsKept
<1> QED BY <1>2 DEF ValuesInv, SameBatch

-----------------------------------------------------------------------------
(* Every step preserves it.                                                *)

LEMMA InitHolds == Init => BatchInv
<1> SUFFICES ASSUME Init PROVE BatchInv
  OBVIOUS
<1>1. schema \in Seq(Types) /\ Len(schema) \in Nat
  BY SchemasAssumption, LenProperties DEF Init
<1>2. TypeOK
  BY <1>1, BoundsAssumption DEF Init, TypeOK, NoRow
<1>3. ValuesInv
  BY <1>1, NoRowIsColumn, EmptySeq DEF Init, ValuesInv
<1>4. WalkInv /\ AcceptedInv /\ IndexInv
  BY EmptySeq DEF Init, WalkInv, AcceptedInv, IndexInv
<1> QED BY <1>2, <1>3, <1>4 DEF BatchInv

LEMMA RefuseKeeps ==
    ASSUME BatchInv, Refuse, stage \notin {"index", "indexed"}
    PROVE  BatchInv'
<1> USE DEF BatchInv
<1>1. TypeOK'
  BY DEF Refuse, TypeOK
<1>2. ValuesInv'
  <2>1. TapeKept /\ SameBatch /\ values' = values /\ row' \in Column
    BY DEF Refuse, TapeKept, SameBatch, ValuesInv
  <2> QED BY <2>1, SameColumns
<1>3. WalkInv' /\ AcceptedInv'
  BY DEF Refuse, WalkInv, AcceptedInv
<1>4. IndexInv'
  BY DEF Refuse, IndexInv
<1> QED BY <1>1, <1>2, <1>3, <1>4

LEMMA SkipEmptyKeeps ==
    ASSUME BatchInv, SkipEmpty
    PROVE  BatchInv'
<1> USE DEF BatchInv
<1>1. TypeOK'
  BY DEF SkipEmpty, TypeOK
<1>2. ValuesInv'
  <2>1. TapeKept /\ SameBatch /\ values' = values /\ row' \in Column
    BY DEF SkipEmpty, TapeKept, SameBatch, ValuesInv
  <2> QED BY <2>1, SameColumns
<1>3. WalkInv' /\ AcceptedInv'
  BY DEF SkipEmpty, WalkInv, AcceptedInv
<1>4. IndexInv'
  BY DEF SkipEmpty, IndexInv
<1> QED BY <1>1, <1>2, <1>3, <1>4

LEMMA ValidateHeaderKeeps ==
    ASSUME BatchInv, ValidateHeader
    PROVE  BatchInv'
<1> USE DEF BatchInv
<1>1. PICK count \in 0..MaxRows, columns \in 0..3, fixed \in BOOLEAN :
          IF Fits(0, 24) /\ fixed /\ columns = Len(schema)
          THEN /\ rows' = count
               /\ tape' = Noted(Noted(tape, 8, count), 12, columns)
               /\ offset' = 24
               /\ stage' = "column"
               /\ UNCHANGED <<schema, length, column, row, values, views>>
          ELSE Refuse
  BY DEF ValidateHeader
<1>2. CASE ~(Fits(0, 24) /\ fixed /\ columns = Len(schema))
  BY <1>1, <1>2, RefuseKeeps DEF ValidateHeader
<1>3. CASE Fits(0, 24) /\ fixed /\ columns = Len(schema)
  <2>1. /\ rows' = count /\ tape' = Noted(Noted(tape, 8, count), 12, columns)
        /\ offset' = 24 /\ stage' = "column" /\ schema' = schema /\ length' = length
        /\ column' = column /\ row' = row /\ values' = values /\ views' = views
    BY <1>1, <1>3
  <2>2. length \in Nat /\ 24 <= length
    BY <1>3, Facts DEF Fits
  <2>3. /\ stage = "header" /\ values = <<>> /\ column = 1 /\ views = <<>>
    BY DEF ValidateHeader, WalkInv, IndexInv
  <2>4. /\ DOMAIN tape' = DOMAIN tape \cup {8, 12} /\ tape'[8] = count /\ tape'[12] = Len(schema)
        /\ \A p \in DOMAIN tape : p \notin {8, 12} => tape'[p] = tape[p]
    <3>1. PICK once : once = Noted(tape, 8, count)
      OBVIOUS
    <3>2. /\ DOMAIN once = DOMAIN tape \cup {8} /\ once[8] = count
          /\ \A p \in DOMAIN tape : p # 8 => once[p] = tape[p]
      BY <3>1 DEF Noted
    <3>3. /\ DOMAIN tape' = DOMAIN once \cup {12} /\ tape'[12] = columns
          /\ \A p \in DOMAIN once : p # 12 => tape'[p] = once[p]
      BY <2>1, <3>1 DEF Noted
    <3> QED BY <1>3, <3>2, <3>3
  <2>5. DOMAIN tape = {}
    BY <2>3 DEF WalkInv
  <2>6. TypeOK'
    BY <2>1, <2>2, <2>3, <2>4, <2>5, Facts DEF TypeOK
  <2>7. ValuesInv'
    BY <2>1, <2>3, Facts DEF ValuesInv
  <2>8. WalkInv'
    BY <2>1, <2>2, <2>3, <2>4, <2>5 DEF WalkInv, Field, Start
  <2>9. AcceptedInv' /\ IndexInv'
    BY <2>1, <2>3 DEF AcceptedInv, IndexInv
  <2> QED BY <2>6, <2>7, <2>8, <2>9
<1> QED BY <1>2, <1>3

LEMMA ValidateColumnHeaderKeeps ==
    ASSUME BatchInv, ValidateColumnHeader
    PROVE  BatchInv'
<1> USE DEF BatchInv
<1>1. PICK kind \in 0..9, reserved \in 0..1, scale \in {0, Scale}, buffers \in 2..3 :
          IF /\ Fits(offset, 12)
             /\ kind \in AcceptedKinds(Type)
             /\ reserved = 0
             /\ buffers = (IF Type = "STRING" THEN 3 ELSE 2)
             /\ scale = (IF Type = "DECIMAL128" THEN Scale ELSE 0)
          THEN /\ tape' = Noted(Noted(Noted(tape, offset, kind), offset + 4, scale), offset + 8, buffers)
               /\ row' = [NoRow EXCEPT !.kind = kind, !.scale = scale]
               /\ offset' = offset + 12
               /\ stage' = "nulls"
               /\ UNCHANGED <<schema, length, rows, column, values, views>>
          ELSE Refuse
  BY DEF ValidateColumnHeader
<1> DEFINE Taken == /\ Fits(offset, 12)
                    /\ kind \in AcceptedKinds(Type)
                    /\ reserved = 0
                    /\ buffers = (IF Type = "STRING" THEN 3 ELSE 2)
                    /\ scale = (IF Type = "DECIMAL128" THEN Scale ELSE 0)
<1>2. CASE ~Taken
  BY <1>1, <1>2, RefuseKeeps DEF ValidateColumnHeader
<1>3. CASE Taken
  <2>1. /\ tape' = Noted(Noted(Noted(tape, offset, kind), offset + 4, scale), offset + 8, buffers)
        /\ row' = [NoRow EXCEPT !.kind = kind, !.scale = scale]
        /\ offset' = offset + 12 /\ stage' = "nulls" /\ schema' = schema /\ length' = length
        /\ rows' = rows /\ column' = column /\ values' = values /\ views' = views
    BY <1>1, <1>3
  <2>2. /\ stage = "column" /\ column <= Len(schema) /\ offset + 12 <= length
        /\ kind \in AcceptedKinds(Type) /\ buffers = (IF Type = "STRING" THEN 3 ELSE 2)
        /\ scale = (IF Type = "DECIMAL128" THEN Scale ELSE 0) /\ scale \in Nat
    BY <1>3, Facts, BoundsAssumption DEF ValidateColumnHeader, Fits
  <2>3. /\ 24 <= length /\ Field(12, Len(schema)) /\ column = Len(values) + 1
        /\ \A p \in DOMAIN tape : p < offset /\ p \in Nat
        /\ offset = Start(column) /\ views = <<>>
    BY <2>2, Facts DEF WalkInv, IndexInv, TypeOK
  <2>4. /\ DOMAIN tape' = DOMAIN tape \cup {offset, offset + 4, offset + 8}
        /\ tape'[offset] = kind /\ tape'[offset + 4] = scale /\ tape'[offset + 8] = buffers
        /\ TapeKept
    <3>1. offset + 4 \notin DOMAIN tape /\ offset + 8 \notin DOMAIN tape /\ offset \notin DOMAIN tape
      BY <2>3, Facts
    <3>2. offset # offset + 4 /\ offset # offset + 8 /\ offset + 4 # offset + 8
      BY Facts
    <3> DEFINE p4 == offset + 4
               p8 == offset + 8
    <3>3. PICK once : once = Noted(tape, offset, kind)
      OBVIOUS
    <3>4. PICK twice : twice = Noted(once, p4, scale)
      OBVIOUS
    <3>5. tape' = Noted(twice, p8, buffers)
      BY <2>1, <3>3, <3>4
    <3> HIDE DEF p4, p8
    <3>6. /\ DOMAIN once = DOMAIN tape \cup {offset} /\ once[offset] = kind
          /\ \A p \in DOMAIN tape : p # offset => once[p] = tape[p]
      BY <3>3 DEF Noted
    <3>7. /\ DOMAIN twice = DOMAIN once \cup {p4} /\ twice[p4] = scale
          /\ \A p \in DOMAIN once : p # p4 => twice[p] = once[p]
      BY <3>4 DEF Noted
    <3>8. /\ DOMAIN tape' = DOMAIN twice \cup {p8} /\ tape'[p8] = buffers
          /\ \A p \in DOMAIN twice : p # p8 => tape'[p] = twice[p]
      BY <3>5 DEF Noted
    <3>9. /\ p4 \notin DOMAIN tape /\ p8 \notin DOMAIN tape /\ offset \notin DOMAIN tape
          /\ offset # p4 /\ offset # p8 /\ p4 # p8
      BY <3>1, <3>2 DEF p4, p8
    <3>10. /\ DOMAIN tape' = DOMAIN tape \cup {offset, p4, p8}
           /\ tape'[offset] = kind /\ tape'[p4] = scale /\ tape'[p8] = buffers
      BY <3>6, <3>7, <3>8, <3>9
    <3>11. TapeKept
      BY <3>6, <3>7, <3>8, <3>9 DEF TapeKept
    <3> QED BY <3>10, <3>11 DEF p4, p8
  <2>5. row' \in Column /\ row'.kind = kind /\ row'.scale = scale /\ row'.sizesAt = 0
    BY ZenonT(60), <2>1, <2>2, NoRowIsColumn DEF NoRow, Column
  <2>6. TypeOK'
    <3>1. \A at \in DOMAIN tape' : at \in 0..(length - 1) /\ tape'[at] \in Nat
      <4>1. ASSUME NEW at \in DOMAIN tape PROVE at \in 0..(length - 1) /\ tape'[at] \in Nat
        BY <2>4, <4>1 DEF TypeOK, TapeKept
      <4>2. offset \in 0..(length - 1) /\ offset + 4 \in 0..(length - 1) /\ offset + 8 \in 0..(length - 1)
        BY SMTT(30), <2>2, Facts
      <4>3. tape'[offset] \in Nat /\ tape'[offset + 4] \in Nat /\ tape'[offset + 8] \in Nat
        BY <2>2, <2>4
      <4> QED BY <2>4, <4>1, <4>2, <4>3
    <3>2. offset' \in 0..length
      BY <2>1, <2>2, Facts
    <3> QED BY <2>1, <2>3, <2>5, <3>1, <3>2 DEF TypeOK
  <2>7. SameBatch
    BY <2>1 DEF SameBatch
  <2>8. ValuesInv'
    BY <2>1, <2>4, <2>5, <2>7, SameColumns
  <2>9. WalkInv'
    <3>1. Start(column)' = Start(column)
      BY <2>1 DEF Start
    <3>2. Field(12, Len(schema))'
      BY <2>1, <2>3, <2>4 DEF Field, TapeKept
    <3>3. \A p \in DOMAIN tape' : p < offset'
      <4>1. ASSUME NEW p \in DOMAIN tape PROVE p < offset + 12
        BY <2>3, Facts
      <4>2. offset < offset + 12 /\ offset + 4 < offset + 12 /\ offset + 8 < offset + 12
        BY Facts
      <4> QED BY <2>1, <2>4, <4>1, <4>2
    <3>4. HeadOk(row, Type, Start(column))'
      BY <2>1, <2>2, <2>3, <2>4, <2>5, <3>1 DEF HeadOk, Field, Type
    <3> QED BY <2>1, <2>2, <2>3, <2>5, <3>1, <3>2, <3>3, <3>4 DEF WalkInv
  <2>10. AcceptedInv' /\ IndexInv'
    BY <2>1, <2>3, Facts DEF AcceptedInv, IndexInv
  <2> QED BY <2>6, <2>8, <2>9, <2>10
<1> QED BY <1>2, <1>3

\* One more word behind what was read: what the tape is then.
LEMMA WordRead ==
    ASSUME BatchInv, stage \in {"nulls", "sizes", "data"}, SameBatch, column' = column,
           NEW value \in Nat, tape' = Noted(tape, offset, value),
           offset + 4 <= length, offset + 4 <= offset'
    PROVE  /\ TapeKept
           /\ offset \in DOMAIN tape' /\ tape'[offset] = value
           /\ Field(12, Len(schema))'
           /\ offset' \in Nat => \A p \in DOMAIN tape' : p < offset'
           /\ \A at \in DOMAIN tape' : at \in 0..(length - 1) /\ tape'[at] \in Nat
<1> USE DEF BatchInv
<1>1. /\ \A p \in DOMAIN tape : p < offset /\ p \in Nat
      /\ Field(12, Len(schema))
  BY DEF WalkInv, TypeOK
<1>2. offset \notin DOMAIN tape
  BY <1>1, Facts
<1>3. /\ TapeKept /\ offset \in DOMAIN tape' /\ tape'[offset] = value
      /\ DOMAIN tape' = DOMAIN tape \cup {offset}
  BY <1>2, NotingKeeps
<1>4. Field(12, Len(schema))'
  BY <1>1, <1>3 DEF Field, TapeKept, SameBatch
<1>5. offset' \in Nat => \A p \in DOMAIN tape' : p < offset'
  BY <1>1, <1>3, Facts
<1>6. \A at \in DOMAIN tape' : at \in 0..(length - 1) /\ tape'[at] \in Nat
  <2>1. ASSUME NEW at \in DOMAIN tape PROVE at \in 0..(length - 1) /\ tape'[at] \in Nat
    BY <1>3, <2>1 DEF TypeOK, TapeKept
  <2>2. offset \in 0..(length - 1)
    BY Facts
  <2> QED BY <1>3, <2>1, <2>2
<1> QED BY <1>3, <1>4, <1>5, <1>6

LEMMA ValidateNullsKeeps ==
    ASSUME BatchInv, ValidateNulls
    PROVE  BatchInv'
<1> USE DEF BatchInv
<1>1. PICK nullSize \in 0..(MaxRows + 1), nulls \in [1..rows -> {0, 1, 255}] :
          IF /\ Fits(offset, 4)
             /\ nullSize = rows /\ Fits(offset + 4, nullSize)
             /\ \A r \in 1..rows : nulls[r] \in {0, 255}
          THEN /\ tape' = Noted(tape, offset, nullSize)
               /\ row' = [row EXCEPT !.nulls = nulls, !.nullsAt = offset + 4]
               /\ offset' = offset + 4 + nullSize
               /\ stage' = IF Type = "STRING" THEN "sizes" ELSE "data"
               /\ UNCHANGED <<schema, length, rows, column, values, views>>
          ELSE Refuse
  BY DEF ValidateNulls
<1> DEFINE Taken == /\ Fits(offset, 4)
                    /\ nullSize = rows /\ Fits(offset + 4, nullSize)
                    /\ \A r \in 1..rows : nulls[r] \in {0, 255}
<1>2. CASE ~Taken
  BY <1>1, <1>2, RefuseKeeps DEF ValidateNulls
<1>3. CASE Taken
  <2>1. /\ tape' = Noted(tape, offset, rows)
        /\ row' = [row EXCEPT !.nulls = nulls, !.nullsAt = offset + 4]
        /\ offset' = offset + 4 + rows /\ stage' = IF Type = "STRING" THEN "sizes" ELSE "data"
        /\ schema' = schema /\ length' = length
        /\ rows' = rows /\ column' = column /\ values' = values /\ views' = views
    BY <1>1, <1>3
  <2>2. /\ stage = "nulls" /\ offset + 4 + rows <= length
        /\ \A r \in 1..rows : nulls[r] \in {0, 255}
    BY <1>3, Facts DEF ValidateNulls, Fits
  <2>3. /\ 24 <= length /\ column = Len(values) + 1 /\ column <= Len(schema)
        /\ HeadOk(row, Type, Start(column)) /\ row.sizesAt = 0
        /\ offset = Start(column) + 12 /\ views = <<>>
    BY <2>2 DEF WalkInv, IndexInv
  <2>4. SameBatch
    BY <2>1 DEF SameBatch
  <2>5. /\ TapeKept /\ offset \in DOMAIN tape' /\ tape'[offset] = rows
        /\ Field(12, Len(schema))' /\ \A p \in DOMAIN tape' : p < offset'
        /\ \A at \in DOMAIN tape' : at \in 0..(length - 1) /\ tape'[at] \in Nat
    <3>1. offset + 4 <= length /\ offset + 4 <= offset' /\ offset' \in Nat /\ rows \in Nat
      BY <2>1, <2>2, Facts
    <3> QED BY <2>1, <2>2, <2>4, <3>1, WordRead
  <2>6. /\ row' \in Column /\ row'.kind = row.kind /\ row'.scale = row.scale
        /\ row'.sizesAt = 0 /\ row'.nullsAt = offset + 4
    <3>1. nulls \in Seq({0, 255})
      <4>1. nulls = [r \in 1..rows |-> nulls[r]]
        OBVIOUS
      <4> QED BY <2>2, <4>1, Facts
    <3>2. row \in Column
      BY DEF ValuesInv
    <3>3. PICK at \in Nat : at = offset + 4
      BY Facts
    <3>4. row' = [row EXCEPT !.nulls = nulls, !.nullsAt = at]
      BY <2>1, <3>3
    <3>5. /\ row' \in Column /\ row'.kind = row.kind /\ row'.scale = row.scale
          /\ row'.sizesAt = row.sizesAt /\ row'.nullsAt = at
      BY ZenonT(60), <3>1, <3>2, <3>4 DEF Column
    <3> QED BY <2>3, <3>3, <3>5
  <2>7. TypeOK'
    <3>1. offset' \in 0..length
      BY <2>1, <2>2, Facts
    <3> QED BY <2>1, <2>3, <2>5, <2>6, <3>1 DEF TypeOK
  <2>8. ValuesInv'
    BY <2>1, <2>4, <2>5, <2>6, SameColumns
  <2>9. Start(column)' = Start(column) /\ Type' = Type
    BY <2>1 DEF Start, Type
  <2>10. HeadOk(row, Type, Start(column))'
    <3>1. PICK type, at : type = Type /\ at = Start(column)
      OBVIOUS
    <3>2. PICK v : v = row
      OBVIOUS
    <3>3. HeadOk(v, type, at)'
      BY <2>3, <2>4, <2>5, <3>1, <3>2, PartsKept
    <3>4. v.kind = row'.kind /\ v.scale = row'.scale
      BY <2>6, <3>2
    <3> QED BY <2>9, <3>1, <3>3, <3>4 DEF HeadOk, Field
  <2>11. NullsOk(row, Start(column))'
    BY SMTT(30), <2>1, <2>2, <2>3, <2>5, <2>6, <2>9, Facts DEF NullsOk, Field
  <2>12. WalkInv'
    <3>1. column' = Len(values') + 1 /\ 24 <= length' /\ column' <= Len(schema')
      BY <2>1, <2>3
    <3>2. CASE Type = "STRING"
      <4>1. offset' = row'.nullsAt + rows'
        BY <2>1, <2>6
      <4> QED BY <2>1, <2>5, <2>6, <2>9, <2>10, <2>11, <3>1, <3>2, <4>1 DEF WalkInv
    <3>3. CASE Type # "STRING"
      <4>1. SizesOk(row, Type)' /\ offset' = ValuesWordAt(row, Type)'
        BY <2>1, <2>6, <2>9, <3>3 DEF SizesOk, ValuesWordAt
      <4> QED BY <2>1, <2>5, <2>9, <2>10, <2>11, <3>1, <3>3, <4>1 DEF WalkInv
    <3> QED BY <3>2, <3>3
  <2>13. AcceptedInv' /\ IndexInv'
    BY <2>1, <2>3, Facts DEF AcceptedInv, IndexInv
  <2> QED BY <2>7, <2>8, <2>12, <2>13
<1> QED BY <1>2, <1>3

LEMMA ValidateSizesKeeps ==
    ASSUME BatchInv, ValidateSizes
    PROVE  BatchInv'
<1> USE DEF BatchInv
<1>1. PICK sizesSize \in {8 * r : r \in 0..(MaxRows + 1)}, sizes \in [1..rows -> Sizes] :
          IF /\ Fits(offset, 4)
             /\ sizesSize = 8 * rows /\ Fits(offset + 4, sizesSize)
             /\ \A r \in 1..rows : row.nulls[r] = 255 => sizes[r] = 0
             /\ StringTotal(sizes) >= 0
          THEN /\ tape' = Noted(tape, offset, sizesSize)
               /\ row' = [row EXCEPT !.sizes = sizes, !.sizesAt = offset + 4]
               /\ offset' = offset + 4 + sizesSize
               /\ stage' = "data"
               /\ UNCHANGED <<schema, length, rows, column, values, views>>
          ELSE Refuse
  BY DEF ValidateSizes
<1> DEFINE Taken == /\ Fits(offset, 4)
                    /\ sizesSize = 8 * rows /\ Fits(offset + 4, sizesSize)
                    /\ \A r \in 1..rows : row.nulls[r] = 255 => sizes[r] = 0
                    /\ StringTotal(sizes) >= 0
<1>2. CASE ~Taken
  BY <1>1, <1>2, RefuseKeeps DEF ValidateSizes
<1>3. CASE Taken
  <2>1. /\ tape' = Noted(tape, offset, 8 * rows)
        /\ row' = [row EXCEPT !.sizes = sizes, !.sizesAt = offset + 4]
        /\ offset' = offset + 4 + 8 * rows /\ stage' = "data"
        /\ schema' = schema /\ length' = length
        /\ rows' = rows /\ column' = column /\ values' = values /\ views' = views
    BY <1>1, <1>3
  <2>2. stage = "sizes" /\ offset + 4 + 8 * rows <= length
    BY SMTT(30), <1>3, Facts DEF ValidateSizes, Fits
  <2>3. /\ 24 <= length /\ column = Len(values) + 1 /\ column <= Len(schema)
        /\ HeadOk(row, Type, Start(column)) /\ NullsOk(row, Start(column))
        /\ Type = "STRING" /\ offset = row.nullsAt + rows /\ views = <<>>
    BY <2>2 DEF WalkInv, IndexInv
  <2>4. SameBatch
    BY <2>1 DEF SameBatch
  <2>5. /\ TapeKept /\ offset \in DOMAIN tape' /\ tape'[offset] = 8 * rows
        /\ Field(12, Len(schema))' /\ \A p \in DOMAIN tape' : p < offset'
        /\ \A at \in DOMAIN tape' : at \in 0..(length - 1) /\ tape'[at] \in Nat
    <3>1. offset + 4 <= length /\ offset + 4 <= offset' /\ offset' \in Nat /\ 8 * rows \in Nat
      BY <2>1, <2>2, Facts
    <3> QED BY <2>1, <2>2, <2>4, <3>1, WordRead
  <2>6. /\ row' \in Column /\ row'.kind = row.kind /\ row'.scale = row.scale
        /\ row'.nullsAt = row.nullsAt /\ row'.sizesAt = offset + 4 /\ row'.sizes = sizes
    <3>1. sizes \in Seq(Sizes)
      <4>1. sizes = [r \in 1..rows |-> sizes[r]]
        OBVIOUS
      <4> QED BY SMTT(30), <4>1, Facts
    <3>2. row \in Column
      BY DEF ValuesInv
    <3>3. PICK at \in Nat : at = offset + 4
      BY Facts
    <3>4. row' = [row EXCEPT !.sizes = sizes, !.sizesAt = at]
      BY <2>1, <3>3
    <3>5. /\ row' \in Column /\ row'.kind = row.kind /\ row'.scale = row.scale
          /\ row'.nullsAt = row.nullsAt /\ row'.sizesAt = at /\ row'.sizes = sizes
      BY <3>1, <3>2, <3>4 DEF Column
    <3> QED BY <3>3, <3>5
  <2>7. TypeOK'
    <3>1. offset' \in 0..length
      BY <2>1, <2>2, Facts
    <3> QED BY <2>1, <2>3, <2>5, <2>6, <3>1 DEF TypeOK
  <2>8. ValuesInv'
    BY <2>1, <2>4, <2>5, <2>6, SameColumns
  <2>9. Start(column)' = Start(column) /\ Type' = Type
    BY <2>1 DEF Start, Type
  <2>10. HeadOk(row, Type, Start(column))' /\ NullsOk(row, Start(column))'
    <3>1. PICK type, at : type = Type /\ at = Start(column)
      OBVIOUS
    <3>2. PICK v : v = row
      OBVIOUS
    <3>3. HeadOk(v, type, at)' /\ NullsOk(v, at)'
      BY <2>3, <2>4, <2>5, <3>1, <3>2, PartsKept
    <3>4. v.kind = row'.kind /\ v.scale = row'.scale /\ v.nullsAt = row'.nullsAt
      BY <2>6, <3>2
    <3> QED BY <2>9, <3>1, <3>3, <3>4 DEF HeadOk, NullsOk, Field
  <2>11. SizesOk(row, Type)'
    BY <2>1, <2>2, <2>3, <2>5, <2>6, <2>9, Facts DEF SizesOk, Field
  <2>12. WalkInv'
    <3>1. column' = Len(values') + 1 /\ 24 <= length' /\ column' <= Len(schema')
      BY <2>1, <2>3
    <3>2. offset' = ValuesWordAt(row, Type)'
      BY <2>1, <2>3, <2>6, <2>9 DEF ValuesWordAt
    <3> QED BY <2>1, <2>5, <2>9, <2>10, <2>11, <3>1, <3>2 DEF WalkInv
  <2>13. AcceptedInv' /\ IndexInv'
    BY <2>1, <2>3, Facts DEF AcceptedInv, IndexInv
  <2> QED BY <2>7, <2>8, <2>12, <2>13
<1> QED BY <1>2, <1>3

LEMMA ValidateDataKeeps ==
    ASSUME BatchInv, ValidateData
    PROVE  BatchInv'
<1> USE DEF BatchInv
<1>1. PICK dataSize \in 0..MaxLength, binary \in BOOLEAN :
          IF /\ Fits(offset, 4)
             /\ dataSize = (IF Type = "STRING" THEN StringTotal(row.sizes)
                                               ELSE rows * ValueWidth(Type, row.kind))
             /\ Fits(offset + 4, dataSize)
             /\ Type = "BOOL" => binary
          THEN /\ tape' = Noted(tape, offset, dataSize)
               /\ values' = Append(values, [row EXCEPT !.dataAt = offset + 4, !.dataSize = dataSize])
               /\ row' = NoRow
               /\ column' = column + 1
               /\ offset' = offset + 4 + dataSize
               /\ stage' = "column"
               /\ UNCHANGED <<schema, length, rows, views>>
          ELSE Refuse
  BY DEF ValidateData
<1> DEFINE Taken == /\ Fits(offset, 4)
                    /\ dataSize = (IF Type = "STRING" THEN StringTotal(row.sizes)
                                                      ELSE rows * ValueWidth(Type, row.kind))
                    /\ Fits(offset + 4, dataSize)
                    /\ Type = "BOOL" => binary
<1>2. CASE ~Taken
  BY <1>1, <1>2, RefuseKeeps DEF ValidateData
<1>3. CASE Taken
  <2>1. PICK v : v = [row EXCEPT !.dataAt = offset + 4, !.dataSize = dataSize]
    OBVIOUS
  <2>2. /\ tape' = Noted(tape, offset, dataSize) /\ values' = Append(values, v)
        /\ row' = NoRow /\ column' = column + 1
        /\ offset' = offset + 4 + dataSize /\ stage' = "column"
        /\ schema' = schema /\ length' = length /\ rows' = rows /\ views' = views
    BY <1>1, <1>3, <2>1
  <2>3. /\ stage = "data" /\ offset + 4 + dataSize <= length /\ dataSize \in Nat
        /\ dataSize = (IF Type = "STRING" THEN StringTotal(row.sizes)
                                          ELSE rows * ValueWidth(Type, row.kind))
    BY <1>3, Facts, BoundsAssumption DEF ValidateData, Fits
  <2>4. /\ 24 <= length /\ column = Len(values) + 1 /\ column <= Len(schema)
        /\ HeadOk(row, Type, Start(column)) /\ NullsOk(row, Start(column))
        /\ SizesOk(row, Type) /\ offset = ValuesWordAt(row, Type) /\ views = <<>>
    BY <2>3 DEF WalkInv, IndexInv
  <2>5. /\ v \in Column /\ v.kind = row.kind /\ v.scale = row.scale
        /\ v.nullsAt = row.nullsAt /\ v.sizesAt = row.sizesAt /\ v.sizes = row.sizes
        /\ v.dataAt = offset + 4 /\ v.dataSize = dataSize
    <3>1. row \in Column
      BY DEF ValuesInv
    <3>2. PICK at \in Nat : at = offset + 4
      BY Facts
    <3>3. v = [row EXCEPT !.dataAt = at, !.dataSize = dataSize]
      BY <2>1, <3>2
    <3>4. /\ v \in Column /\ v.kind = row.kind /\ v.scale = row.scale
          /\ v.nullsAt = row.nullsAt /\ v.sizesAt = row.sizesAt /\ v.sizes = row.sizes
          /\ v.dataAt = at /\ v.dataSize = dataSize
      BY <2>3, <3>1, <3>3 DEF Column
    <3> QED BY <3>2, <3>4
  <2>6. /\ \A p \in DOMAIN tape : p < offset /\ p \in Nat
        /\ Field(12, Len(schema))
    BY <2>3 DEF WalkInv, TypeOK
  <2>7. /\ TapeKept /\ offset \in DOMAIN tape' /\ tape'[offset] = dataSize
        /\ DOMAIN tape' = DOMAIN tape \cup {offset}
    <3>1. offset \notin DOMAIN tape
      BY <2>6, Facts
    <3> QED BY <2>2, <3>1, NotingKeeps
  <2>8. SameBatch
    BY <2>2 DEF SameBatch
  <2>9. /\ values' \in Seq(Column) /\ Len(values') = Len(values) + 1
        /\ values'[column] = v /\ Extends
    <3> DEFINE C == Column
    <3>1. values \in Seq(C) /\ v \in C /\ Len(values) \in Nat
      BY <2>5, Facts
    <3> HIDE DEF C
    <3>2. /\ values' \in Seq(C) /\ Len(values') = Len(values) + 1
          /\ values'[Len(values) + 1] = v
          /\ \A c \in 1..Len(values) : values'[c] = values[c]
      BY <2>2, <3>1, AppendProperties
    <3>3. Extends
      BY <3>1, <3>2 DEF Extends
    <3> QED BY <2>4, <3>2, <3>3 DEF C
  <2>10. TypeOK'
    <3>1. \A at \in DOMAIN tape' : at \in 0..(length - 1) /\ tape'[at] \in Nat
      <4>1. ASSUME NEW at \in DOMAIN tape PROVE at \in 0..(length - 1) /\ tape'[at] \in Nat
        BY <2>7, <4>1 DEF TypeOK, TapeKept
      <4>2. offset \in 0..(length - 1)
        BY <2>3, Facts
      <4> QED BY <2>3, <2>7, <4>1, <4>2
    <3>2. offset' \in 0..length /\ column' \in 1..(Len(schema) + 1)
      BY SMTT(30), <2>2, <2>3, <2>4, Facts
    <3>3. NoRow.kind \in 0..9
      BY DEF NoRow
    <3> QED BY <2>2, <2>4, <3>1, <3>2, <3>3 DEF TypeOK
  <2>11. PICK type, at : type = Type /\ at = Start(column)
    OBVIOUS
  <2>12. HeadOk(v, type, at)' /\ NullsOk(v, at)' /\ SizesOk(v, type)'
    <3>1. HeadOk(v, type, at) /\ NullsOk(v, at) /\ SizesOk(v, type)
      BY <2>4, <2>5, <2>11 DEF HeadOk, NullsOk, SizesOk
    <3> QED BY <2>7, <2>8, <3>1, PartsKept
  <2>13. DataOk(v, type)'
    <3>1. ValuesWordAt(v, type)' = offset
      BY <2>2, <2>4, <2>5, <2>11 DEF ValuesWordAt
    <3> QED BY <2>2, <2>3, <2>5, <2>7, <2>11, <3>1, Facts DEF DataOk, Field
  <2>14. PICK n \in Nat : n = column
    BY Facts
  <2>15. n \in 1..Len(values) + 1
    BY <2>4, <2>14, Facts
  <2>16. Start(n)' = at
    BY <2>9, <2>11, <2>14, <2>15, StartKept
  <2>17. ColumnOk(n)'
    <3>1. values'[n] = v /\ schema'[n] = type
      BY <2>2, <2>9, <2>11, <2>14 DEF Type
    <3> QED BY <2>12, <2>13, <2>16, <3>1 DEF ColumnOk
  <2>18. ValuesInv'
    <3>1. \A c \in 1..Len(values) : ColumnOk(c)'
      BY <2>7, <2>8, <2>9, ColumnsKept
    <3>2. \A c \in 1..Len(values) + 1 : ColumnOk(c)'
      BY <2>4, <2>14, <2>17, <3>1, Facts
    <3>3. row' \in Column
      BY <2>2, NoRowIsColumn
    <3>4. Len(values') <= Len(schema')
      BY <2>2, <2>4, <2>9, Facts
    <3> QED BY <2>9, <3>2, <3>3, <3>4 DEF ValuesInv
  <2>19. WalkInv'
    <3>1. offset' = Start(column)'
      <4>1. column' # 1 /\ column' - 1 = n
        BY <2>2, <2>14, Facts
      <4>2. Start(column)' = values'[n].dataAt + values'[n].dataSize
        BY <4>1 DEF Start
      <4>3. values'[n] = v
        BY <2>9, <2>14
      <4> QED BY <2>2, <2>3, <2>5, <4>2, <4>3, Facts
    <3>2. \A p \in DOMAIN tape' : p < offset'
      <4>1. ASSUME NEW p \in DOMAIN tape PROVE p < offset + 4 + dataSize
        BY <2>3, <2>6, Facts
      <4>2. offset < offset + 4 + dataSize
        BY <2>3, Facts
      <4> QED BY <2>2, <2>7, <4>1, <4>2
    <3>3. Field(12, Len(schema))'
      BY <2>2, <2>6, <2>7 DEF Field, TapeKept
    <3>4. column' = Len(values') + 1 /\ 24 <= length'
      BY <2>2, <2>4, <2>9
    <3> QED BY <2>2, <3>1, <3>2, <3>3, <3>4 DEF WalkInv
  <2>20. AcceptedInv' /\ IndexInv'
    <3>1. Len(values') \in Nat
      BY <2>9 DEF Extends
    <3> QED BY <2>2, <2>4, <3>1, EmptySeq DEF AcceptedInv, IndexInv
  <2> QED BY <2>10, <2>18, <2>19, <2>20
<1> QED BY <1>2, <1>3

LEMMA ValidateEndKeeps ==
    ASSUME BatchInv, ValidateEnd
    PROVE  BatchInv'
<1> USE DEF BatchInv
<1>1. CASE Refuse
  BY <1>1, RefuseKeeps DEF ValidateEnd
<1>2. ASSUME offset = length, stage' = "accepted",
             UNCHANGED <<schema, length, rows, tape, column, offset, row, values, views>>
      PROVE  BatchInv'
  <2>1. /\ stage = "column" /\ column > Len(schema)
        /\ schema' = schema /\ length' = length /\ rows' = rows /\ tape' = tape
        /\ column' = column /\ offset' = offset /\ row' = row /\ values' = values
        /\ views' = views
    BY <1>2 DEF ValidateEnd
  <2>2. TypeOK'
    BY <1>2, <2>1 DEF TypeOK
  <2>3. ValuesInv'
    <3>1. TapeKept /\ SameBatch /\ row' \in Column
      BY <2>1 DEF TapeKept, SameBatch, ValuesInv
    <3> QED BY <2>1, <3>1, SameColumns
  <2>4. WalkInv'
    BY <1>2, <2>1 DEF WalkInv
  <2>5. /\ 24 <= length /\ Field(12, Len(schema)) /\ column = Len(values) + 1
        /\ offset = Start(column) /\ views = <<>> /\ Len(values) <= Len(schema)
    BY <2>1 DEF WalkInv, IndexInv, ValuesInv
  <2>6. Len(values) = Len(schema)
    BY <2>1, <2>5, Facts
  <2>7. AcceptedInv'
    <3>1. Start(Len(schema) + 1)' = length'
      BY <1>2, <2>1, <2>5, <2>6 DEF Start
    <3>2. Field(12, Len(schema))' /\ length' # 0
      BY <2>1, <2>5, Facts DEF Field
    <3> QED BY <1>2, <2>1, <2>5, <2>6, <3>1, <3>2 DEF AcceptedInv
  <2>8. IndexInv'
    BY <1>2, <2>1, <2>5, Facts, EmptySeq DEF IndexInv
  <2> QED BY <2>2, <2>3, <2>4, <2>7, <2>8
<1> QED BY <1>1, <1>2 DEF ValidateEnd

LEMMA IndexHeaderKeeps ==
    ASSUME BatchInv, IndexHeader
    PROVE  BatchInv'
<1> USE DEF BatchInv
<1>1. /\ stage = "accepted"
      /\ schema' = schema /\ length' = length /\ rows' = rows /\ tape' = tape
      /\ row' = row /\ values' = values /\ views' = views /\ views = <<>>
  BY DEF IndexHeader, IndexInv
<1>2. ValuesInv'
  <2>1. TapeKept /\ SameBatch /\ row' \in Column
    BY <1>1 DEF TapeKept, SameBatch, ValuesInv
  <2> QED BY <1>1, <2>1, SameColumns
<1>3. CASE length = 0
  <2>1. stage' = "indexed" /\ column' = column /\ offset' = offset /\ values = <<>>
    BY <1>1, <1>3 DEF IndexHeader, AcceptedInv
  <2>2. TypeOK'
    BY <1>1, <2>1 DEF TypeOK
  <2>3. WalkInv' /\ AcceptedInv'
    BY <1>1, <1>3, <2>1 DEF WalkInv, AcceptedInv
  <2>4. IndexInv'
    BY <1>1, <2>1, Facts, EmptySeq DEF IndexInv
  <2> QED BY <1>2, <2>2, <2>3, <2>4
<1>4. CASE length # 0
  <2>1. stage' = "index" /\ column' = 1 /\ offset' = 24
    BY <1>1, <1>4 DEF IndexHeader
  <2>2. /\ 24 <= length /\ Len(values) = Len(schema) /\ Field(12, Len(schema))
        /\ Start(Len(schema) + 1) = length
    BY <1>1, <1>4 DEF AcceptedInv
  <2>3. TypeOK'
    <3>1. offset' \in 0..length /\ column' \in 1..(Len(schema) + 1)
      BY <2>1, <2>2, Facts
    <3> QED BY <1>1, <2>1, <3>1 DEF TypeOK
  <2>4. WalkInv'
    BY <2>1 DEF WalkInv
  <2>5. AcceptedInv'
    <3>1. Start(Len(schema) + 1)' = length'
      BY <1>1, <2>2 DEF Start
    <3>2. Field(12, Len(schema))'
      BY <1>1, <2>2 DEF Field
    <3> QED BY <1>1, <1>4, <2>1, <2>2, <3>1, <3>2 DEF AcceptedInv
  <2>6. IndexInv'
    <3>1. Start(column)' = 24
      BY <2>1 DEF Start
    <3> QED BY <1>1, <2>1, <3>1, Facts, EmptySeq DEF IndexInv
  <2> QED BY <1>2, <2>3, <2>4, <2>5, <2>6
<1> QED BY <1>3, <1>4

LEMMA IndexEndKeeps ==
    ASSUME BatchInv, IndexEnd
    PROVE  BatchInv'
<1> USE DEF BatchInv
<1>1. stage = "index" /\ column > tape[12]
  BY DEF IndexEnd
<1>2. /\ 24 <= length /\ length # 0 /\ Len(values) = Len(schema) /\ Field(12, Len(schema))
      /\ Start(Len(schema) + 1) = length
  BY <1>1, Facts DEF AcceptedInv
<1>3. /\ column = Len(views) + 1 /\ offset = Start(column) /\ Len(views) <= Len(values)
      /\ views \in Seq(Shown) /\ Len(views) \in Nat
      /\ \A c \in 1..Len(views) : views[c] = View(values[c])
  BY <1>1, LenProperties DEF IndexInv
<1>4. Len(views) = Len(values) /\ column = Len(schema) + 1
  BY <1>1, <1>2, <1>3, Facts DEF Field
<1>5. /\ stage' = "indexed"
      /\ schema' = schema /\ length' = length /\ rows' = rows /\ tape' = tape
      /\ column' = column /\ offset' = offset /\ row' = row /\ values' = values
      /\ views' = views
  BY <1>2, <1>3, <1>4 DEF IndexEnd
<1>6. TypeOK'
  BY <1>5 DEF TypeOK
<1>7. ValuesInv'
  <2>1. TapeKept /\ SameBatch /\ row' \in Column
    BY <1>5 DEF TapeKept, SameBatch, ValuesInv
  <2> QED BY <1>5, <2>1, SameColumns
<1>8. WalkInv'
  BY <1>5 DEF WalkInv
<1>9. AcceptedInv'
  <2>1. Start(Len(schema) + 1)' = length'
    BY <1>2, <1>5 DEF Start
  <2>2. Field(12, Len(schema))'
    BY <1>2, <1>5 DEF Field
  <2> QED BY <1>2, <1>5, <2>1, <2>2 DEF AcceptedInv
<1>10. IndexInv'
  <2>1. \A v : View(v)' = View(v)
    BY <1>5 DEF View
  <2> QED BY <1>3, <1>4, <1>5, <2>1 DEF IndexInv
<1> QED BY <1>6, <1>7, <1>8, <1>9, <1>10

\* What a column accepted left on the tape, and how it is laid out.
LEMMA Layout ==
    ASSUME TypeOK, ValuesInv, NEW n \in 1..Len(values), NEW v, v = values[n],
           NEW text, text = (v.kind = 7)
    PROVE  /\ v \in Column
           /\ text <=> schema[n] = "STRING"
           /\ Field(Start(n), v.kind) /\ Field(Start(n) + 4, v.scale)
           /\ Field(Start(n) + 8, IF text THEN 3 ELSE 2)
           /\ Field(Start(n) + 12, rows) /\ v.nullsAt = Start(n) + 16
           /\ v.nullsAt + rows <= length
           /\ text => /\ v.sizesAt = v.nullsAt + rows + 4
                      /\ Field(v.nullsAt + rows, 8 * rows)
                      /\ v.sizesAt + 8 * rows <= length
           /\ ~text => v.sizesAt = 0
           /\ v.dataAt = (IF text THEN v.sizesAt + 8 * rows ELSE v.nullsAt + rows) + 4
           /\ Field(IF text THEN v.sizesAt + 8 * rows ELSE v.nullsAt + rows, v.dataSize)
           /\ v.dataAt + v.dataSize <= length
<1>1. ColumnOk(n) /\ Len(values) <= Len(schema)
  BY DEF ValuesInv
<1>2. v \in Column /\ schema[n] \in Types
  BY <1>1, Facts
<1>3. /\ HeadOk(v, schema[n], Start(n)) /\ NullsOk(v, Start(n)) /\ SizesOk(v, schema[n])
      /\ DataOk(v, schema[n])
  BY <1>1 DEF ColumnOk
<1>4. text <=> schema[n] = "STRING"
  BY <1>2, <1>3, SevenIsText DEF HeadOk
<1> QED BY <1>2, <1>3, <1>4 DEF HeadOk, NullsOk, SizesOk, DataOk, ValuesWordAt

LEMMA IndexColumnKeeps ==
    ASSUME BatchInv, IndexColumn
    PROVE  BatchInv'
<1> USE DEF BatchInv
<1>1. stage = "index" /\ column <= tape[12]
  BY DEF IndexColumn
<1>2. /\ 24 <= length /\ length # 0 /\ Len(values) = Len(schema) /\ Field(12, Len(schema))
      /\ Start(Len(schema) + 1) = length
  BY <1>1, Facts DEF AcceptedInv
<1>3. /\ column = Len(views) + 1 /\ offset = Start(column) /\ Len(views) <= Len(values)
      /\ views \in Seq(Shown) /\ Len(views) \in Nat
      /\ \A c \in 1..Len(views) : views[c] = View(values[c])
  BY <1>1, LenProperties DEF IndexInv
<1>4. PICK n \in 1..Len(values) : n = column
  BY <1>1, <1>2, <1>3, Facts DEF Field
<1>5. PICK v, strings : v = values[n] /\ strings = (v.kind = 7)
  OBVIOUS
<1>6. /\ v \in Column /\ v.nullsAt = offset + 16
      /\ Field(offset, v.kind) /\ Field(offset + 4, v.scale)
      /\ Field(offset + 8, IF strings THEN 3 ELSE 2) /\ Field(offset + 12, rows)
      /\ v.nullsAt + rows <= length
      /\ strings => /\ v.sizesAt = v.nullsAt + rows + 4
                 /\ Field(v.nullsAt + rows, 8 * rows)
                 /\ v.sizesAt + 8 * rows <= length
      /\ ~strings => v.sizesAt = 0
      /\ v.dataAt = (IF strings THEN v.sizesAt + 8 * rows ELSE v.nullsAt + rows) + 4
      /\ Field(IF strings THEN v.sizesAt + 8 * rows ELSE v.nullsAt + rows, v.dataSize)
      /\ v.dataAt + v.dataSize <= length
  BY <1>3, <1>4, <1>5, Layout
<1>7. /\ v.kind \in 0..9 /\ v.scale \in Nat /\ v.nullsAt \in Nat /\ v.sizesAt \in Nat
      /\ v.dataAt \in Nat /\ v.dataSize \in Nat /\ offset \in Nat /\ rows \in Nat /\ length \in Nat
  BY <1>6, Facts DEF Column
<1>8. Fits(offset, 12)
  BY <1>6, <1>7 DEF Fits
<1> DEFINE Read(kind, scale, buffers, nullSize, sizesSize, dataSize) ==
        LET dataAt == DataAt(offset + 16 + nullSize, kind = 7, sizesSize)
        IN  IF /\ buffers = (IF kind = 7 THEN 3 ELSE 2)
               /\ Fits(offset + 16, nullSize)
               /\ kind = 7 => Fits(offset + 16 + nullSize + 4, sizesSize)
               /\ Fits(dataAt, dataSize)
            THEN /\ views' = Append(views,
                        [kind |-> kind, scale |-> scale,
                         nulls |-> [at |-> offset + 16, size |-> nullSize],
                         sizes |-> [at |-> IF kind = 7 THEN offset + 16 + nullSize + 4 ELSE 0,
                                    size |-> sizesSize],
                         data |-> [at |-> dataAt, size |-> dataSize]])
                 /\ column' = column + 1
                 /\ offset' = dataAt + dataSize
                 /\ UNCHANGED <<schema, length, rows, tape, stage, row, values>>
            ELSE IndexFails
<1>9. PICK kind \in FieldAt(offset), scale \in FieldAt(offset + 4),
            buffers \in FieldAt(offset + 8), nullSize \in FieldAt(offset + 12) :
          \E sizesSize \in (IF kind = 7 THEN FieldAt((offset + 16 + nullSize + 4) - 4) ELSE {0}) :
             \E dataSize \in FieldAt(DataAt(offset + 16 + nullSize, kind = 7, sizesSize) - 4) :
                Read(kind, scale, buffers, nullSize, sizesSize, dataSize)
  BY <1>8, Zenon DEF IndexColumn
<1>10. PICK sizesSize \in (IF kind = 7 THEN FieldAt((offset + 16 + nullSize + 4) - 4) ELSE {0}) :
          \E dataSize \in FieldAt(DataAt(offset + 16 + nullSize, kind = 7, sizesSize) - 4) :
             Read(kind, scale, buffers, nullSize, sizesSize, dataSize)
  BY <1>9
<1>11. PICK dataSize \in FieldAt(DataAt(offset + 16 + nullSize, kind = 7, sizesSize) - 4) :
          Read(kind, scale, buffers, nullSize, sizesSize, dataSize)
  BY <1>10
<1>12. \A at, value : Field(at, value) => FieldAt(at) = {value}
  BY DEF Field, FieldAt
<1>13. /\ kind = v.kind /\ scale = v.scale /\ buffers = (IF strings THEN 3 ELSE 2) /\ nullSize = rows
       /\ (kind = 7) = strings
  BY <1>5, <1>6, <1>9, <1>12
<1>14. sizesSize = IF strings THEN 8 * rows ELSE 0
  <2>1. CASE strings
    <3>1. (offset + 16 + nullSize + 4) - 4 = v.nullsAt + rows
      BY <1>6, <1>7, <1>13
    <3>2. sizesSize \in FieldAt(v.nullsAt + rows)
      BY <1>10, <1>13, <2>1, <3>1
    <3> QED BY <1>6, <1>12, <2>1, <3>2
  <2>2. CASE ~strings
    BY <1>10, <1>13, <2>2
  <2> QED BY <2>1, <2>2
<1>15. DataAt(offset + 16 + nullSize, kind = 7, sizesSize) = v.dataAt
  <2>1. CASE strings
    BY <1>6, <1>7, <1>13, <1>14, <2>1 DEF DataAt
  <2>2. CASE ~strings
    BY <1>6, <1>7, <1>13, <1>14, <2>2 DEF DataAt
  <2> QED BY <1>5, <2>1, <2>2
<1>16. dataSize = v.dataSize
  <2>1. v.dataAt - 4 = IF strings THEN v.sizesAt + 8 * rows ELSE v.nullsAt + rows
    BY <1>6, <1>7
  <2>2. dataSize \in FieldAt(IF strings THEN v.sizesAt + 8 * rows ELSE v.nullsAt + rows)
    BY <1>11, <1>15, <2>1
  <2> QED BY <1>6, <1>12, <2>2
<1>17. /\ views' = Append(views, View(v)) /\ column' = column + 1
       /\ offset' = v.dataAt + v.dataSize
       /\ schema' = schema /\ length' = length /\ rows' = rows /\ tape' = tape
       /\ stage' = stage /\ row' = row /\ values' = values
  <2>1. /\ buffers = (IF kind = 7 THEN 3 ELSE 2)
        /\ Fits(offset + 16, nullSize) /\ Fits(v.dataAt, dataSize)
    <3>1. buffers = (IF kind = 7 THEN 3 ELSE 2)
      BY <1>13
    <3>2. Fits(offset + 16, nullSize)
      <4>1. offset + 16 + rows <= length /\ nullSize = rows
        BY <1>6, <1>13
      <4> QED BY <1>7, <4>1 DEF Fits
    <3>3. Fits(v.dataAt, dataSize)
      <4>1. v.dataAt + v.dataSize <= length
        BY <1>6
      <4>2. v.dataAt <= length /\ v.dataSize <= length - v.dataAt
        BY <1>7, <4>1
      <4> QED BY <1>16, <4>2 DEF Fits
    <3> QED BY <3>1, <3>2, <3>3
  <2>2. kind = 7 => Fits(offset + 16 + nullSize + 4, sizesSize)
    BY SMTT(30), <1>6, <1>7, <1>13, <1>14 DEF Fits
  <2>3. /\ v.nullsAt = offset + 16
        /\ v.sizesAt = IF kind = 7 THEN offset + 16 + nullSize + 4 ELSE 0
    BY <1>6, <1>7, <1>13
  <2>4. View(v) = [kind |-> kind, scale |-> scale,
                   nulls |-> [at |-> offset + 16, size |-> nullSize],
                   sizes |-> [at |-> IF kind = 7 THEN offset + 16 + nullSize + 4 ELSE 0,
                              size |-> sizesSize],
                   data |-> [at |-> v.dataAt, size |-> dataSize]]
    BY <1>5, <1>13, <1>14, <1>16, <2>3 DEF View
  <2> QED BY <1>11, <1>15, <1>16, <2>1, <2>2, <2>4
<1>18. View(v) \in Shown
  BY <1>5, <1>7 DEF View, Shown, Vector
<1>19. /\ views' \in Seq(Shown) /\ Len(views') = Len(views) + 1
       /\ views'[Len(views) + 1] = View(v)
       /\ \A c \in 1..Len(views) : views'[c] = views[c]
  <2> DEFINE S == Shown
             w == View(v)
  <2>1. views \in Seq(S) /\ w \in S /\ views' = Append(views, w)
    BY <1>3, <1>17, <1>18
  <2> HIDE DEF S, w
  <2>2. /\ views' \in Seq(S) /\ Len(views') = Len(views) + 1
        /\ views'[Len(views) + 1] = w
        /\ \A c \in 1..Len(views) : views'[c] = views[c]
    BY <2>1, AppendProperties
  <2> QED BY <2>2 DEF S, w
<1>20. ValuesInv'
  <2>1. TapeKept /\ SameBatch /\ row' \in Column
    BY <1>17 DEF TapeKept, SameBatch, ValuesInv
  <2> QED BY <1>17, <2>1, SameColumns
<1>21. WalkInv'
  BY <1>1, <1>17 DEF WalkInv
<1>22. AcceptedInv'
  <2>1. Start(Len(schema) + 1)' = length'
    BY <1>2, <1>17 DEF Start
  <2>2. Field(12, Len(schema))'
    BY <1>2, <1>17 DEF Field
  <2> QED BY <1>1, <1>2, <1>17, <2>1, <2>2 DEF AcceptedInv
<1>23. IndexInv'
  <2>1. \A u : View(u)' = View(u)
    BY <1>17 DEF View
  <2>2. \A c \in 1..Len(views') : views'[c] = View(values[c])'
    <3>1. ASSUME NEW c \in 1..Len(views) + 1 PROVE views'[c] = View(values[c])
      <4>1. CASE c = Len(views) + 1
        BY <1>3, <1>4, <1>5, <1>19, <4>1
      <4>2. CASE c # Len(views) + 1
        BY <1>3, <1>19, <3>1, <4>2
      <4> QED BY <4>1, <4>2
    <3> QED BY <1>17, <1>19, <2>1, <3>1
  <2>3. offset' = Start(column)'
    <3>1. column' # 1 /\ column' - 1 = n
      BY <1>4, <1>17, Facts
    <3> QED BY <1>5, <1>17, <3>1 DEF Start
  <2>4. Len(views') <= Len(values')
    BY <1>3, <1>4, <1>17, <1>19, Facts
  <2> QED BY <1>1, <1>3, <1>17, <1>19, <2>2, <2>3, <2>4 DEF IndexInv
<1>24. TypeOK'
  <2>1. /\ v.dataAt + v.dataSize <= length /\ v.nullsAt + rows <= length
    BY <1>6
  <2>5. /\ v.kind = 7 => v.sizesAt + 8 * rows <= length
        /\ v.kind # 7 => v.sizesAt = 0
    BY <1>5, <1>6
  <2>3. offset' \in 0..length
    <3>1. v.dataAt + v.dataSize \in Nat
      BY <1>7
    <3>2. v.dataAt + v.dataSize \in 0..length
      BY <1>7, <2>1, <3>1
    <3> QED BY <1>17, <3>2
  <2>4. column' \in 1..(Len(schema) + 1)
    BY <1>2, <1>4, <1>17, Facts
  <2>2. \A c \in DOMAIN views' : /\ views'[c].nulls \in Extent /\ views'[c].sizes \in Extent
                                  /\ views'[c].data \in Extent
    <3>1. length <= MaxLength /\ MaxLength \in Nat
      BY BoundsAssumption DEF TypeOK
    <3>2. v.nullsAt \in 0..MaxLength /\ rows \in 0..MaxLength
      BY SMTT(30), <1>7, <2>1, <3>1
    <3>3. v.dataAt \in 0..MaxLength /\ v.dataSize \in 0..MaxLength
      <4>1. v.dataAt + v.dataSize <= MaxLength
        BY SMTT(30), <1>7, <2>1, <3>1
      <4>2. v.dataAt \in Nat /\ v.dataSize \in Nat
        BY <1>7
      <4> QED BY <3>1, <4>1, <4>2
    <3>4. v.sizesAt \in 0..MaxLength /\ (v.kind = 7 => 8 * rows \in 0..MaxLength)
      BY SMTT(30), <1>7, <2>5, <3>1
    <3>5. /\ View(v).nulls \in Extent /\ View(v).sizes \in Extent /\ View(v).data \in Extent
      BY <3>1, <3>2, <3>3, <3>4 DEF View, Extent
    <3>6. DOMAIN views = 1..Len(views) /\ DOMAIN views' = 1..Len(views) + 1
      BY <1>3, <1>19, LenProperties
    <3>7. ASSUME NEW c \in DOMAIN views'
          PROVE  /\ views'[c].nulls \in Extent /\ views'[c].sizes \in Extent
                 /\ views'[c].data \in Extent
      <4>1. CASE c = Len(views) + 1
        BY <1>19, <3>5, <4>1
      <4>2. CASE c # Len(views) + 1
        <5>1. c \in DOMAIN views /\ views'[c] = views[c]
          BY <1>3, <1>19, <3>6, <3>7, <4>2
        <5> QED BY <5>1 DEF TypeOK
      <4> QED BY <4>1, <4>2
    <3> QED BY <3>7
  <2> QED BY <1>17, <2>2, <2>3, <2>4 DEF TypeOK, Extent
<1> QED BY <1>20, <1>21, <1>22, <1>23, <1>24

LEMMA StepKeeps == BatchInv /\ [Next]_vars => BatchInv'
<1> SUFFICES ASSUME BatchInv, [Next]_vars PROVE BatchInv'
  OBVIOUS
<1>1. CASE SkipEmpty
  BY <1>1, SkipEmptyKeeps
<1>2. CASE ValidateHeader
  BY <1>2, ValidateHeaderKeeps
<1>3. CASE ValidateColumnHeader
  BY <1>3, ValidateColumnHeaderKeeps
<1>4. CASE ValidateNulls
  BY <1>4, ValidateNullsKeeps
<1>5. CASE ValidateSizes
  BY <1>5, ValidateSizesKeeps
<1>6. CASE ValidateData
  BY <1>6, ValidateDataKeeps
<1>7. CASE ValidateEnd
  BY <1>7, ValidateEndKeeps
<1>8. CASE IndexHeader
  BY <1>8, IndexHeaderKeeps
<1>9. CASE IndexColumn
  BY <1>9, IndexColumnKeeps
<1>10. CASE IndexEnd
  BY <1>10, IndexEndKeeps
<1>11. CASE UNCHANGED vars
  <2> USE <1>11 DEF BatchInv, vars
  <2>1. ValuesInv'
    <3>1. TapeKept /\ SameBatch /\ values' = values /\ row' \in Column
      BY DEF TapeKept, SameBatch, ValuesInv
    <3> QED BY <3>1, SameColumns
  <2>2. TypeOK'
    BY DEF TypeOK
  <2>3. WalkInv'
    BY DEF WalkInv, HeadOk, NullsOk, SizesOk, ValuesWordAt, Field, Start, Type
  <2>4. AcceptedInv'
    BY DEF AcceptedInv, Field, Start
  <2>5. IndexInv'
    BY DEF IndexInv, View, Start
  <2> QED BY <2>1, <2>2, <2>3, <2>4, <2>5
<1> QED BY <1>1, <1>2, <1>3, <1>4, <1>5, <1>6, <1>7, <1>8, <1>9, <1>10, <1>11 DEF Next

\* Both walks agree about every column, at every moment.
THEOREM BatchHolds == Spec => []BatchInv
<1> QED BY InitHolds, StepKeeps, PTL DEF Spec

\* Every variable holds a value of its kind: neither walk has read past the end.
THEOREM TypeCorrect == Spec => []TypeOK
<1>1. BatchInv => TypeOK
  BY DEF BatchInv
<1> QED BY <1>1, BatchHolds, PTL

\* indexNativeBatch refuses no batch validateNativeBatch accepted, and makes of each
\* column exactly what was validated.
THEOREM IndexReadsWhatWasValidated == Spec => []IndexIsWhatWasValidated
<1>1. BatchInv => IndexIsWhatWasValidated
  <2> SUFFICES ASSUME BatchInv PROVE IndexIsWhatWasValidated
    OBVIOUS
  <2> USE DEF BatchInv
  <2>1. DOMAIN views = 1..Len(views) /\ DOMAIN values = 1..Len(values)
    BY Facts, LenProperties DEF IndexInv
  <2>2. Len(views) \in Nat /\ Len(values) \in Nat /\ Len(views) <= Len(values)
    BY Facts, LenProperties DEF IndexInv
  <2>3. stage # "unindexed" /\ \A c \in 1..Len(views) : views[c] = View(values[c])
    BY DEF IndexInv
  <2>4. \A c \in 1..Len(views) : c \in 1..Len(values)
    BY <2>2
  <2> QED BY <2>1, <2>3, <2>4 DEF IndexIsWhatWasValidated
<1> QED BY <1>1, BatchHolds, PTL

\* The vectors the C accessors hand out are as long as the rows and the kind, by which
\* alone a consumer reads them, make it expect.
THEOREM VectorsMatchRows == Spec => []ViewsMatchRows
<1>1. BatchInv => ViewsMatchRows
  <2> SUFFICES ASSUME BatchInv, stage = "indexed", length > 0
               PROVE  /\ Len(views) = Len(schema)
                      /\ \A c \in DOMAIN views :
                            LET v == views[c] IN
                            /\ v.nulls.size = rows
                            /\ VariableSizes(v).size = (IF schema[c] = "STRING" THEN 8 * rows ELSE 0)
                            /\ FixedData(v).size = (IF schema[c] = "STRING" THEN 0
                                                     ELSE rows * Stride(v.kind))
                            /\ v.scale = IF schema[c] = "DECIMAL128" THEN Scale ELSE 0
    BY DEF ViewsMatchRows
  <2> USE DEF BatchInv
  <2>1. Len(views) = Len(values) /\ Len(values) = Len(schema) /\ DOMAIN views = 1..Len(values)
    BY Facts, LenProperties DEF IndexInv, AcceptedInv
  <2>2. ASSUME NEW c \in 1..Len(values)
        PROVE  LET v == views[c] IN
               /\ v.nulls.size = rows
               /\ VariableSizes(v).size = (IF schema[c] = "STRING" THEN 8 * rows ELSE 0)
               /\ FixedData(v).size = (IF schema[c] = "STRING" THEN 0 ELSE rows * Stride(v.kind))
               /\ v.scale = IF schema[c] = "DECIMAL128" THEN Scale ELSE 0
    <3>1. PICK u : u = values[c]
      OBVIOUS
    <3>2. schema[c] \in Types /\ ColumnOk(c) /\ views[c] = View(u)
      BY <2>1, <3>1, Facts DEF ValuesInv, IndexInv
    <3>3. /\ u.kind \in AcceptedKinds(schema[c])
          /\ u.scale = IF schema[c] = "DECIMAL128" THEN Scale ELSE 0
          /\ schema[c] # "STRING" => u.dataSize = rows * ValueWidth(schema[c], u.kind)
      BY <3>1, <3>2 DEF ColumnOk, HeadOk, DataOk
    <3>4. u.kind = 7 <=> schema[c] = "STRING"
      BY <3>2, <3>3, SevenIsText
    <3>5. schema[c] # "STRING" => u.dataSize = rows * Stride(u.kind)
      BY <3>2, <3>3, WidthIsStride
    <3> QED BY <3>2, <3>3, <3>4, <3>5 DEF View, VariableSizes, FixedData, NoBytes
  <2> QED BY <2>1, <2>2
<1> QED BY <1>1, BatchHolds, PTL

-----------------------------------------------------------------------------
(* The sum validateNativeBatch makes of a column's string sizes, with its  *)
(* overflow check, is their sum.  Induction over the rows is by the least  *)
(* counterexample.                                                         *)

LEMMA LessThanIsWellFounded == IsWellFoundedOn({ss \in Nat \X Nat : ss[1] < ss[2]}, Nat)
BY NatLessThanWellFounded, Zenon DEF OpToRel

LEMMA Least ==
    ASSUME NEW T \in SUBSET Nat, T # {}
    PROVE  \E x \in T : \A y \in T : x <= y
<1> DEFINE R == {ss \in Nat \X Nat : ss[1] < ss[2]}
<1>1. IsWellFoundedOn(R, Nat)
  BY LessThanIsWellFounded
<1>2. \A y \in Nat, x \in Nat : <<y, x>> \in R <=> y < x
  OBVIOUS
<1> HIDE DEF R
<1>3. PICK x \in T : \A y \in T : ~(<<y, x>> \in R)
  BY <1>1, WFMin
<1>4. \A y \in T : ~(y < x) /\ y \in Nat /\ x \in Nat
  BY <1>2, <1>3
<1> QED BY <1>4

\* The functions by which the checked sum and the plain one are defined.
Checked(total, sizes, n) ==
    total = [r \in 0..n |->
                IF r = 0 THEN 0
                ELSE IF total[r - 1] < 0 \/ sizes[r] > Wrap - 1 - total[r - 1] THEN -1
                ELSE total[r - 1] + sizes[r]]

Plain(end, sizes, n) == end = [r \in 0..n |-> IF r = 0 THEN 0 ELSE end[r - 1] + sizes[r]]

LEMMA CheckedExists ==
    ASSUME NEW n \in Nat, NEW sizes
    PROVE  \E total : Checked(total, sizes, n)
<1> DEFINE T == {m \in 0..n : \A g : ~Checked(g, sizes, m)}
<1> SUFFICES ASSUME T # {} PROVE FALSE
  OBVIOUS
<1>1. PICK m \in T : \A y \in T : m <= y
  <2>1. T \in SUBSET Nat
    OBVIOUS
  <2> QED BY <2>1, Least
<1>2. CASE m = 0
  <2>1. Checked([r \in 0..0 |-> 0], sizes, 0)
    BY DEF Checked
  <2> QED BY <1>1, <1>2, <2>1
<1>3. CASE m # 0
  <2>1. m - 1 \in 0..n /\ m - 1 \notin T
    BY <1>1, <1>3
  <2>2. PICK g : Checked(g, sizes, m - 1)
    BY <2>1
  <2> DEFINE AddedTo(before, size) == IF before < 0 \/ size > Wrap - 1 - before THEN -1 ELSE before + size
             h == [r \in 0..m |-> IF r = m THEN AddedTo(g[m - 1], sizes[m]) ELSE g[r]]
  <2>3. \A r \in 0..m : h[r] = IF r = 0 THEN 0 ELSE AddedTo(h[r - 1], sizes[r])
    <3>1. \A r \in 0..(m - 1) : g[r] = IF r = 0 THEN 0 ELSE AddedTo(g[r - 1], sizes[r])
      BY <2>2 DEF Checked
    <3> HIDE DEF AddedTo
    <3> QED BY <1>1, <1>3, <3>1
  <2>4. h = [r \in 0..m |-> IF r = 0 THEN 0 ELSE AddedTo(h[r - 1], sizes[r])]
    <3>1. h = [r \in 0..m |-> h[r]]
      OBVIOUS
    <3> HIDE DEF h, AddedTo
    <3> QED BY <2>3, <3>1
  <2>5. Checked(h, sizes, m)
    <3> HIDE DEF h
    <3> QED BY <2>4 DEF Checked
  <2> QED BY <1>1, <2>5
<1> QED BY <1>2, <1>3

LEMMA PlainExists ==
    ASSUME NEW n \in Nat, NEW sizes
    PROVE  \E end : Plain(end, sizes, n)
<1> DEFINE T == {m \in 0..n : \A g : ~Plain(g, sizes, m)}
<1> SUFFICES ASSUME T # {} PROVE FALSE
  OBVIOUS
<1>1. PICK m \in T : \A y \in T : m <= y
  <2>1. T \in SUBSET Nat
    OBVIOUS
  <2> QED BY <2>1, Least
<1>2. CASE m = 0
  <2>1. Plain([r \in 0..0 |-> 0], sizes, 0)
    BY DEF Plain
  <2> QED BY <1>1, <1>2, <2>1
<1>3. CASE m # 0
  <2>1. m - 1 \in 0..n /\ m - 1 \notin T
    BY <1>1, <1>3
  <2>2. PICK g : Plain(g, sizes, m - 1)
    BY <2>1
  <2> DEFINE h == [r \in 0..m |-> IF r = m THEN g[m - 1] + sizes[m] ELSE g[r]]
  <2>3. \A r \in 0..m : h[r] = IF r = 0 THEN 0 ELSE h[r - 1] + sizes[r]
    BY <1>1, <1>3, <2>2 DEF Plain
  <2>4. h = [r \in 0..m |-> IF r = 0 THEN 0 ELSE h[r - 1] + sizes[r]]
    <3>1. h = [r \in 0..m |-> h[r]]
      OBVIOUS
    <3> HIDE DEF h
    <3> QED BY <2>3, <3>1
  <2>5. Plain(h, sizes, m)
    BY <2>4 DEF Plain
  <2> QED BY <1>1, <2>5
<1> QED BY <1>2, <1>3

\* Where no check refuses, nothing was lost to a wrap.
LEMMA CheckedIsPlain ==
    ASSUME NEW n \in Nat, NEW sizes, \A r \in 1..n : sizes[r] \in Nat, NEW total, NEW end,
           Checked(total, sizes, n), Plain(end, sizes, n)
    PROVE  \A r \in 0..n : total[r] >= 0 => total[r] = end[r]
<1>1. \A r \in 0..n : total[r] = IF r = 0 THEN 0
                                  ELSE IF total[r - 1] < 0 \/ sizes[r] > Wrap - 1 - total[r - 1] THEN -1
                                  ELSE total[r - 1] + sizes[r]
  BY DEF Checked
<1>2. \A r \in 0..n : end[r] = IF r = 0 THEN 0 ELSE end[r - 1] + sizes[r]
  BY DEF Plain
<1> DEFINE T == {m \in 0..n : ~(total[m] \in Int /\ (total[m] >= 0 => total[m] = end[m]))}
<1> SUFFICES ASSUME T # {} PROVE FALSE
  OBVIOUS
<1>3. PICK m \in T : \A y \in T : m <= y
  <2>1. T \in SUBSET Nat
    OBVIOUS
  <2> QED BY <2>1, Least
<1>4. m # 0
  BY <1>1, <1>2, <1>3
<1>5. m - 1 \in 0..n /\ m - 1 \notin T /\ m \in 1..n
  BY <1>3, <1>4
<1>6. total[m - 1] \in Int /\ (total[m - 1] >= 0 => total[m - 1] = end[m - 1])
  BY <1>5
<1>7. \/ total[m] = -1
      \/ total[m - 1] >= 0 /\ total[m] = total[m - 1] + sizes[m]
  BY <1>1, <1>3, <1>4, <1>6
<1>8. end[m] = end[m - 1] + sizes[m] /\ sizes[m] \in Nat
  BY <1>2, <1>4, <1>5
<1> QED BY <1>3, <1>6, <1>7, <1>8

LEMMA StringTotalIsTextEnd ==
    ASSUME NEW sizes \in Seq(Sizes), StringTotal(sizes) >= 0
    PROVE  TextEnd(sizes) = StringTotal(sizes)
<1> DEFINE n == Len(sizes)
           total == CHOOSE t : Checked(t, sizes, n)
           end == CHOOSE e : Plain(e, sizes, n)
<1>1. n \in Nat /\ \A r \in 1..n : sizes[r] \in Nat
  <2>1. \A s \in Sizes : s \in Nat
    BY BoundsAssumption
  <2> QED BY <2>1, LenProperties, ElementOfSeq
<1>2. Checked(total, sizes, n)
  BY <1>1, CheckedExists
<1>3. Plain(end, sizes, n)
  BY <1>1, PlainExists
<1>4. StringTotal(sizes) = total[n]
  BY DEF StringTotal, Checked
<1>5. TextEnd(sizes) = end[n]
  BY DEF TextEnd, Plain
<1> HIDE DEF n, total, end
<1>6. n \in 0..n
  BY <1>1
<1> QED BY <1>1, <1>2, <1>3, <1>4, <1>5, <1>6, CheckedIsPlain

\* The strings of every column end exactly where its data vector ends.
THEOREM TextFillsItsVector == Spec => []StringsFillTheirData
<1>1. BatchInv => StringsFillTheirData
  <2> SUFFICES ASSUME BatchInv, stage = "indexed", NEW c \in DOMAIN views, views[c].kind = 7
               PROVE  TextEnd(values[c].sizes) = VariableData(views[c]).size
    BY DEF StringsFillTheirData
  <2> USE DEF BatchInv
  <2>1. c \in 1..Len(values) /\ c \in 1..Len(views)
    BY Facts, LenProperties DEF IndexInv
  <2>2. PICK u : u = values[c]
    OBVIOUS
  <2>3. /\ schema[c] \in Types /\ ColumnOk(c) /\ views[c] = View(u) /\ u \in Column
    BY <2>1, <2>2, Facts DEF ValuesInv, IndexInv
  <2>4. u.kind = 7 /\ VariableData(views[c]).size = u.dataSize
    BY <2>3 DEF View, VariableData
  <2>5. schema[c] = "STRING"
    BY <2>2, <2>3, <2>4, SevenIsText DEF ColumnOk, HeadOk
  <2>6. u.dataSize = StringTotal(u.sizes) /\ u.dataSize \in Nat /\ u.sizes \in Seq(Sizes)
    BY <2>2, <2>3, <2>5 DEF ColumnOk, DataOk, Column
  <2>7. TextEnd(u.sizes) = StringTotal(u.sizes)
    BY <2>6, StringTotalIsTextEnd
  <2> QED BY <2>2, <2>4, <2>6, <2>7
<1> QED BY <1>1, BatchHolds, PTL
=============================================================================
