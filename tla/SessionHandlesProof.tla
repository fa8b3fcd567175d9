------------------------ MODULE SessionHandlesProof ------------------------
(***************************************************************************)
(* Proofs about SessionHandles for every set of handles, every number of   *)
(* opens and every number of rows.  Its type invariant and its three       *)
(* safety properties are inductive together: a new id is nobody's because  *)
(* every id is at most `opened`, two handles never share an id, and so     *)
(* closing one handle takes nothing from another.                          *)
(***************************************************************************)
EXTENDS SessionHandles, SequenceTheorems, TLAPS

-----------------------------------------------------------------------------
(* Batches of rows.                                                        *)

\* The elements of a sequence that was extended.
LEMMA ToSetConcat ==
    ASSUME NEW S, NEW s \in Seq(S), NEW t \in Seq(S)
    PROVE  ToSet(s \o t) = ToSet(s) \cup ToSet(t)
<1>1. /\ Len(s) \in Nat /\ DOMAIN s = 1 .. Len(s) /\ Len(t) \in Nat /\ DOMAIN t = 1 .. Len(t)
      /\ DOMAIN (s \o t) = 1 .. Len(s) + Len(t)
      /\ \A j \in 1 .. Len(s) + Len(t) :
            (s \o t)[j] = IF j <= Len(s) THEN s[j] ELSE t[j - Len(s)]
  OBVIOUS
<1>2. ASSUME NEW x \in ToSet(s \o t) PROVE x \in ToSet(s) \cup ToSet(t)
  BY <1>1, <1>2 DEF ToSet
<1>3. ASSUME NEW x \in ToSet(s) PROVE x \in ToSet(s \o t)
  BY <1>1, <1>3 DEF ToSet
<1>4. ASSUME NEW x \in ToSet(t) PROVE x \in ToSet(s \o t)
  <2>1. PICK j \in 1 .. Len(t) : x = t[j]
    BY <1>1, <1>4 DEF ToSet
  <2>2. Len(s) + j \in 1 .. Len(s) + Len(t) /\ (s \o t)[Len(s) + j] = t[j]
    BY <1>1
  <2> QED BY <1>1, <2>1, <2>2 DEF ToSet
<1> QED BY <1>2, <1>3, <1>4

\* A batch is the rows behind the position, at most n of them.
LEMMA BatchFacts ==
    ASSUME TypeOK, NEW i \in Ids, NEW n \in 1 .. Rows
    PROVE  /\ Batch(i, n) \in Seq(1 .. Rows) /\ Len(Batch(i, n)) \in Nat
           /\ position[i] \in Nat /\ position[i] + Len(Batch(i, n)) \in 0 .. Rows
           /\ DOMAIN Batch(i, n) = 1 .. Len(Batch(i, n))
           /\ \A j \in 1 .. Len(Batch(i, n)) : Batch(i, n)[j] = position[i] + j
           /\ ToSet(Batch(i, n)) = position[i] + 1 .. position[i] + Len(Batch(i, n))
<1> DEFINE p == position[i]
           m == IF n < Rows - p THEN n ELSE Rows - p
           b == [j \in 1 .. m |-> p + j]
<1>1. Batch(i, n) = b
  BY DEF Batch
<1>2. p \in 0 .. Rows /\ Rows \in Nat
  BY SessionHandlesAssumption DEF TypeOK, SessionHandlesAssumption
<1>3. m \in Nat /\ p + m \in 0 .. Rows
  BY <1>2
<1> HIDE DEF m, p
<1>4. \A j \in 1 .. m : p + j \in 1 .. Rows
  BY <1>2, <1>3
<1>5. b \in Seq(1 .. Rows) /\ Len(b) = m /\ DOMAIN b = 1 .. m
  BY <1>3, <1>4
<1>6. ToSet(b) = p + 1 .. p + m
  <2>1. ASSUME NEW x \in p + 1 .. p + m PROVE x \in ToSet(b)
    <3>1. x - p \in 1 .. m /\ x = p + (x - p)
      BY <1>2, <1>3
    <3> QED BY <3>1 DEF ToSet
  <2>2. ASSUME NEW x \in ToSet(b) PROVE x \in p + 1 .. p + m
    BY <1>2, <1>3, <1>5 DEF ToSet
  <2> QED BY <2>1, <2>2
<1> QED BY <1>1, <1>2, <1>3, <1>5, <1>6 DEF p

-----------------------------------------------------------------------------
(* Type correctness.                                                       *)

LEMMA OpensFacts == MaxOpens \in Nat /\ Rows \in Nat /\ Ids = 1 .. MaxOpens
BY SessionHandlesAssumption DEF SessionHandlesAssumption, Ids

LEMMA InitType == Init => TypeOK
<1> SUFFICES ASSUME Init PROVE TypeOK
  OBVIOUS
<1>1. <<>> \in Seq(1 .. Rows) /\ 0 \in 0 .. Rows /\ 0 \in 0 .. MaxOpens
  BY OpensFacts
<1>2. id \in [Handles -> 0 .. opened] /\ position \in [Ids -> 0 .. Rows]
  BY <1>1 DEF Init, None
<1>3. got \in [Ids -> Seq(1 .. Rows)] /\ reported \in [Ids -> SUBSET (1 .. Rows)]
  BY <1>1 DEF Init
<1> QED BY <1>1, <1>2, <1>3 DEF Init, TypeOK

\* The shape of a note of failure, and of what is asked.
LEMMA AskType ==
    ASSUME TypeOK, NEW e, NEW valid, Ask(e, valid)
    PROVE  connected' \in BOOLEAN /\ (connected' => connected) /\ (Executed(e) => valid)
           /\ (connected' => e \notin {"lost", "lostReply"})
BY DEF Ask, MayEnd, TypeOK

LEMMA NoteType ==
    ASSUME TypeOK, NEW i, NEW e, i # None => i \in Ids, Note(i, e)
    PROVE  failed' \subseteq Ids
BY DEF Note, TypeOK

\* A handle's id is one the server has given out, or None.
LEMMA HandleId ==
    ASSUME TypeOK, NEW h \in Handles
    PROVE  /\ id[h] \in 0 .. opened /\ opened \in Nat /\ opened <= MaxOpens
           /\ id[h] # None => id[h] \in Ids /\ id[h] \in 1 .. opened
           /\ None \notin cursors /\ None \notin operations
           /\ Held \subseteq Ids
<1>1. id[h] \in 0 .. opened /\ opened \in 0 .. MaxOpens
  BY DEF TypeOK
<1> QED BY <1>1, OpensFacts DEF TypeOK, None, Held

LEMMA OpenType ==
    ASSUME TypeOK, NEW h \in Handles, NEW e, Open(h, e)
    PROVE  TypeOK'
<1>1. connected' \in BOOLEAN /\ opened < MaxOpens /\ opened \in Nat /\ MaxOpens \in Nat
  BY AskType, OpensFacts, HandleId DEF Open
<1>2. CASE Executed(e)
  <2>1. /\ opened' = opened + 1
        /\ cursors' \subseteq cursors \cup {opened + 1}
        /\ operations' \subseteq operations \cup {opened + 1}
        /\ unknown' \subseteq unknown \cup {opened + 1}
    BY <1>2 DEF Open, Begins
  <2>2. opened + 1 \in 1 .. MaxOpens /\ opened + 1 \in 1 .. opened + 1
        /\ \A i \in 1 .. opened : i \in 1 .. opened + 1
        /\ \A j \in 0 .. opened : j \in 0 .. opened + 1
    BY <1>1
  <2>3. id' \in [Handles -> 0 .. opened']
    <3>1. id' \in {id, [id EXCEPT ![h] = opened + 1]}
      BY DEF Open
    <3>2. id \in [Handles -> 0 .. opened + 1]
      BY <2>2 DEF TypeOK
    <3> QED BY <2>1, <2>2, <3>1, <3>2
  <2>4. cursors' \subseteq 1 .. opened' /\ operations' \subseteq 1 .. opened'
    BY <2>1, <2>2 DEF TypeOK
  <2>5. opened' \in 0 .. MaxOpens /\ unknown' \subseteq Ids
    BY <1>1, <2>1, <2>2, OpensFacts DEF TypeOK
  <2> QED BY <1>1, <2>3, <2>4, <2>5 DEF Open, TypeOK
<1>3. CASE ~Executed(e)
  <2>1. UNCHANGED <<opened, cursors, operations, unknown, id>>
    BY <1>3 DEF Open, Begins, Executed
  <2> QED BY <1>1, <2>1 DEF Open, TypeOK
<1> QED BY <1>2, <1>3

LEMMA FetchType ==
    ASSUME TypeOK, NEW h \in CursorHandles, NEW n \in 1 .. Rows, NEW e, Fetch(h, n, e)
    PROVE  TypeOK'
<1>1. connected' \in BOOLEAN /\ (Executed(e) => id[h] \in cursors) /\ h \in Handles
  BY DEF Fetch, Ask, MayEnd, TypeOK, Handles
<1>2. failed' \subseteq Ids
  BY <1>1, HandleId, NoteType DEF Fetch
<1>3. /\ position' \in [Ids -> 0 .. Rows] /\ got' \in [Ids -> Seq(1 .. Rows)]
      /\ reported' \in [Ids -> SUBSET (1 .. Rows)]
  <2>1. CASE Executed(e)
    <3> DEFINE i == id[h]
               b == Batch(i, n)
    <3>1. i \in Ids
      BY <1>1, <2>1, HandleId DEF Held
    <3>2. b \in Seq(1 .. Rows) /\ position[i] + Len(b) \in 0 .. Rows /\ ToSet(b) \subseteq 1 .. Rows
      <4>1. /\ b \in Seq(1 .. Rows) /\ position[i] \in Nat /\ Len(b) \in Nat
            /\ position[i] + Len(b) \in 0 .. Rows
            /\ ToSet(b) = position[i] + 1 .. position[i] + Len(b)
        BY <3>1, BatchFacts
      <4> QED BY <4>1, OpensFacts
    <3>3. /\ position' = [position EXCEPT ![i] = @ + Len(b)]
          /\ got' = [got EXCEPT ![i] = @ \o IF e = "ok" THEN b ELSE <<>>]
          /\ reported' = [reported EXCEPT ![i] = @ \cup IF e = "ok" THEN {} ELSE ToSet(b)]
      BY <2>1 DEF Fetch
    <3> HIDE DEF b, i
    <3>4. got[i] \in Seq(1 .. Rows) /\ <<>> \in Seq(1 .. Rows)
      BY <3>1 DEF TypeOK
    <3>5. (got[i] \o IF e = "ok" THEN b ELSE <<>>) \in Seq(1 .. Rows)
      <4>1. got[i] \o b \in Seq(1 .. Rows) /\ got[i] \o <<>> \in Seq(1 .. Rows)
        BY <3>2, <3>4, ConcatProperties
      <4> QED BY <4>1
    <3> QED BY <3>1, <3>2, <3>3, <3>5 DEF TypeOK
  <2>2. CASE ~Executed(e)
    BY <2>2 DEF Fetch, TypeOK
  <2> QED BY <2>1, <2>2
<1> QED BY <1>1, <1>2, <1>3 DEF Fetch, TypeOK

LEMMA CloseHandleType ==
    ASSUME TypeOK, NEW h \in Handles, NEW e, CloseHandle(h, e)
    PROVE  TypeOK'
<1>1. connected' \in BOOLEAN
  BY AskType DEF CloseHandle
<1>2. failed' \subseteq Ids
  <2>1. failed' \subseteq failed \cup {id[h]} \cup cursors /\ id[h] # None
    BY DEF CloseHandle, NoteClose
  <2>2. id[h] \in Ids /\ cursors \subseteq Ids /\ failed \subseteq Ids
    BY <2>1, HandleId DEF Held, TypeOK
  <2> QED BY <2>1, <2>2
<1>3. cursors' \subseteq cursors /\ operations' \subseteq operations
  BY DEF CloseHandle, EndsAtServer
<1>4. id' \in [Handles -> 0 .. opened']
  <2>1. None \in 0 .. opened
    BY HandleId DEF None
  <2> QED BY <2>1 DEF CloseHandle, TypeOK
<1> QED BY <1>1, <1>2, <1>3, <1>4 DEF CloseHandle, TypeOK

LEMMA NextType == TypeOK /\ [Next]_vars => TypeOK'
<1> SUFFICES ASSUME TypeOK, [Next]_vars PROVE TypeOK'
  OBVIOUS
<1>1. ASSUME NEW h \in Handles, NEW e \in Ends, Open(h, e) \/ CloseHandle(h, e) PROVE TypeOK'
  BY <1>1, OpenType, CloseHandleType
<1>2. ASSUME NEW h \in CursorHandles, NEW e \in Ends, NEW n \in 1 .. Rows, Fetch(h, n, e)
      PROVE  TypeOK'
  BY <1>2, FetchType
<1>3. ASSUME NEW h \in CursorHandles, NEW e \in Ends, FetchPositioned(h, e) PROVE TypeOK'
  <2>1. connected' \in BOOLEAN /\ failed' \subseteq Ids
    BY <1>3, AskType, NoteType, HandleId DEF FetchPositioned, Handles
  <2> QED BY <1>3, <2>1 DEF FetchPositioned, TypeOK, server
<1>4. ASSUME NEW h \in OperationHandles, NEW e \in Ends, Write(h, e) PROVE TypeOK'
  <2>1. connected' \in BOOLEAN /\ failed' \subseteq Ids
    BY <1>4, AskType, NoteType, HandleId DEF Write, Handles
  <2> QED BY <1>4, <2>1 DEF Write, TypeOK
<1>5. ASSUME NEW e \in Ends, AskOnly(e) PROVE TypeOK'
  <2>1. connected' \in BOOLEAN
    BY <1>5, AskType DEF AskOnly
  <2> QED BY <1>5, <2>1 DEF AskOnly, TypeOK, server, history
<1>6. ASSUME NEW e \in Ends, NEW kind, Boundary(kind, e) PROVE TypeOK'
  <2>1. connected' \in BOOLEAN /\ failed' \subseteq Ids
    BY SMTT(30), <1>6, AskType, OpensFacts DEF Boundary, TypeOK, Held
  <2>2. cursors' \subseteq cursors /\ operations' \subseteq operations
    BY <1>6 DEF Boundary
  <2> QED BY <1>6, <2>1, <2>2 DEF Boundary, TypeOK
<1>7. ASSUME NEW e \in Ends, Close(e) \/ Destroy(e) PROVE TypeOK'
  <2>1. cursors' \subseteq cursors /\ operations' \subseteq operations /\ serverUp' \in BOOLEAN
    BY <1>7 DEF Close, Destroy, ServerForgets, TypeOK
  <2>2. connected' \in BOOLEAN /\ closed' \in BOOLEAN /\ alive' \in BOOLEAN
    BY <1>7 DEF Close, Destroy, TypeOK
  <2> QED BY <1>7, <2>1, <2>2 DEF Close, Destroy, TypeOK, history
<1>8. ASSUME NEW h \in Handles, DestroyHandle(h) PROVE TypeOK'
  <2>1. id' \in [Handles -> 0 .. opened] /\ unknown' \subseteq Ids
    BY <1>8, HandleId DEF DestroyHandle, TypeOK, None
  <2> QED BY <1>8, <2>1 DEF DestroyHandle, TypeOK, server
<1>9. CASE ServerLeaves
  BY <1>9 DEF ServerLeaves, ServerForgets, TypeOK, client, history
<1>10. CASE UNCHANGED vars
  BY <1>10 DEF TypeOK, vars, client, server, history
<1> QED BY <1>1, <1>2, <1>3, <1>4, <1>5, <1>6, <1>7, <1>8, <1>9, <1>10
        DEF Next, OpenCursor, OpenOperation, CloseCursor, CloseOperation, FetchNative, Handles

\* TypeOK holds of every reachable state.
THEOREM TypeCorrect == Spec => []TypeOK
<1>1. TypeOK /\ [Next]_vars => TypeOK'
  BY NextType
<1> QED BY <1>1, InitType, PTL DEF Spec

-----------------------------------------------------------------------------
(* What the handles say against what the server holds.                     *)

HandlesInv == NothingLeftBehind /\ StaleOnlyAfterFailure

\* A step that leaves the handles alone may end what it notes as failed.
LEMMA SameHandles ==
    ASSUME TypeOK, HandlesInv, UNCHANGED <<id, unknown>>,
           connected' => connected, serverUp' => serverUp, failed \subseteq failed',
           cursors' \subseteq cursors, operations' \subseteq operations,
           connected' /\ serverUp' =>
               cursors \ cursors' \subseteq failed' /\ operations \ operations' \subseteq failed'
    PROVE  HandlesInv'
<1>1. NothingLeftBehind'
  BY DEF HandlesInv, NothingLeftBehind, Held
<1>2. StaleOnlyAfterFailure'
  BY DEF HandlesInv, StaleOnlyAfterFailure
<1> QED BY <1>1, <1>2 DEF HandlesInv

\* A new id is nobody's.
LEMMA OpenHandles ==
    ASSUME TypeOK, HandlesInv, NEW h \in Handles, NEW e, Open(h, e)
    PROVE  HandlesInv'
<1> DEFINE new == opened + 1
<1>1. /\ id[h] = None /\ (connected' => connected) /\ serverUp' = serverUp /\ failed' = failed
      /\ e = "ok" \/ id' = id
      /\ e = "ok" => id' = [id EXCEPT ![h] = new]
  BY DEF Open, Ask
<1>2. /\ new # None /\ \A g \in Handles : id[g] # new
  BY HandleId DEF None
<1>3. e = "ok" => Executed(e)
  BY DEF Executed
<1>4. CASE Executed(e)
  <2>1. /\ cursors \subseteq cursors' /\ cursors' \subseteq cursors \cup {new}
        /\ operations \subseteq operations' /\ operations' \subseteq operations \cup {new}
        /\ h \in CursorHandles => new \in cursors'
        /\ h \in OperationHandles => new \in operations'
        /\ unknown \subseteq unknown' /\ (e # "ok" => new \in unknown')
    BY <1>4 DEF Open, Begins
  <2>2. \A g \in Handles : id'[g] = IF g = h /\ e = "ok" THEN new ELSE id[g]
    BY <1>1 DEF TypeOK
  <2> HIDE DEF new
  <2>3. NothingLeftBehind'
    <3>1. \A g, f \in Handles : id'[g] # None /\ id'[g] = id'[f] => g = f
      BY <1>2, <2>2 DEF HandlesInv, NothingLeftBehind
    <3>2. ASSUME connected', serverUp', NEW i \in Held'
          PROVE  i \in {id'[g] : g \in Handles} \cup unknown'
      <4>1. CASE i = new
        BY <2>1, <2>2, <4>1
      <4>2. CASE i \in Held
        <5>1. i \in {id[g] : g \in Handles} \cup unknown
          BY <1>1, <3>2, <4>2 DEF HandlesInv, NothingLeftBehind
        <5>2. i # None
          BY <4>2, HandleId DEF Held
        <5> QED BY <1>1, <2>1, <2>2, <5>1, <5>2
      <4> QED BY <2>1, <3>2, <4>1, <4>2 DEF Held
    <3> QED BY <3>1, <3>2 DEF NothingLeftBehind
  <2>4. StaleOnlyAfterFailure'
    BY <1>1, <2>1, <2>2 DEF HandlesInv, StaleOnlyAfterFailure, Handles
  <2> QED BY <2>3, <2>4 DEF HandlesInv
<1>5. CASE ~Executed(e)
  <2>1. UNCHANGED <<id, unknown, cursors, operations>>
    BY <1>1, <1>3, <1>5 DEF Open, Begins
  <2> QED BY <1>1, <2>1, SameHandles
<1> QED BY <1>4, <1>5

\* Closing a handle takes nothing from another.
LEMMA CloseHandles ==
    ASSUME TypeOK, HandlesInv, NEW h \in Handles, NEW e, CloseHandle(h, e)
    PROVE  HandlesInv'
<1>1. /\ id[h] # None /\ (connected' => connected) /\ serverUp' = serverUp
      /\ unknown' = unknown /\ failed \subseteq failed'
      /\ e # "ok" => id' = id /\ id[h] \in failed'
      /\ e = "ok" => id' = [id EXCEPT ![h] = None]
  BY DEF CloseHandle, Ask, NoteClose
<1>2. /\ cursors' \subseteq cursors /\ operations' \subseteq operations
      /\ operations \subseteq operations' \cup {id[h]}
      /\ cursors \subseteq cursors' \cup {id[h]} \cup failed'
      /\ Executed(e) => id[h] \notin cursors' /\ id[h] \notin operations'
  <2>1. EndsAtServer(h, e) /\ NoteClose(h, e)
    BY DEF CloseHandle
  <2>2. h \in OperationHandles => cursors \subseteq failed'
    BY <2>1 DEF NoteClose
  <2>3. CASE Executed(e)
    <3>1. operations' = operations \ {id[h]}
      BY <2>1, <2>3 DEF EndsAtServer, Executed
    <3>2. cursors' = cursors \ {id[h]} \/ (h \in OperationHandles /\ cursors' = {})
      BY <2>1, <2>3 DEF EndsAtServer, Executed
    <3> QED BY <2>2, <3>1, <3>2
  <2>4. CASE e = "refused" /\ h \in OperationHandles /\ ~Executed(e)
    BY <2>1, <2>2, <2>4 DEF EndsAtServer, Executed
  <2>5. CASE ~(e = "refused" /\ h \in OperationHandles) /\ ~Executed(e)
    BY <2>1, <2>5 DEF EndsAtServer
  <2> QED BY <2>3, <2>4, <2>5
<1>3. CASE e = "ok"
  <2>1. id[h] \notin Held' /\ Held' \subseteq Held
    BY <1>2, <1>3 DEF Executed, Held
  <2>2. \A g \in Handles : id'[g] = IF g = h THEN None ELSE id[g]
    BY <1>1, <1>3 DEF TypeOK
  <2>3. NothingLeftBehind'
    <3>1. \A g, f \in Handles : id'[g] # None /\ id'[g] = id'[f] => g = f
      BY <2>2 DEF HandlesInv, NothingLeftBehind
    <3>2. ASSUME connected', serverUp', NEW i \in Held'
          PROVE  i \in {id'[g] : g \in Handles} \cup unknown'
      <4>1. i \in {id[g] : g \in Handles} \cup unknown
        BY <1>1, <2>1, <3>2 DEF HandlesInv, NothingLeftBehind
      <4> QED BY <1>1, <2>1, <2>2, <4>1
    <3> QED BY <3>1, <3>2 DEF NothingLeftBehind
  <2>4. StaleOnlyAfterFailure'
    <3>1. \A g \in Handles : g # h /\ id[g] # None => id[g] # id[h]
      BY DEF HandlesInv, NothingLeftBehind
    <3> QED BY <1>1, <1>2, <2>2, <3>1 DEF HandlesInv, StaleOnlyAfterFailure
  <2> QED BY <2>3, <2>4 DEF HandlesInv
<1>4. CASE e # "ok"
  BY <1>1, <1>2, <1>4, SameHandles
<1> QED BY <1>3, <1>4

\* What a destroyed handle stood for is left to the server, and known to be.
LEMMA DestroyHandles ==
    ASSUME TypeOK, HandlesInv, NEW h \in Handles, DestroyHandle(h)
    PROVE  HandlesInv'
<1>1. /\ unknown' = unknown \cup {id[h]}
      /\ UNCHANGED <<connected, serverUp, cursors, operations, failed>>
      /\ \A g \in Handles : id'[g] = IF g = h THEN None ELSE id[g]
  BY DEF DestroyHandle, TypeOK, server
<1>2. NothingLeftBehind'
  <2>1. \A g, f \in Handles : id'[g] # None /\ id'[g] = id'[f] => g = f
    BY <1>1 DEF HandlesInv, NothingLeftBehind
  <2>2. ASSUME connected, serverUp, NEW i \in Held
        PROVE  i \in {id'[g] : g \in Handles} \cup unknown'
    <3>1. i \in {id[g] : g \in Handles} \cup unknown
      BY <2>2 DEF HandlesInv, NothingLeftBehind
    <3> QED BY <1>1, <3>1
  <2> QED BY <1>1, <2>1, <2>2 DEF NothingLeftBehind, Held
<1>3. StaleOnlyAfterFailure'
  BY <1>1 DEF HandlesInv, StaleOnlyAfterFailure
<1> QED BY <1>2, <1>3 DEF HandlesInv

LEMMA HandlesStep == TypeOK /\ HandlesInv /\ [Next]_vars => HandlesInv'
<1> SUFFICES ASSUME TypeOK, HandlesInv, [Next]_vars PROVE HandlesInv'
  OBVIOUS
<1>1. ASSUME NEW h \in Handles, NEW e \in Ends, Open(h, e) \/ CloseHandle(h, e) PROVE HandlesInv'
  BY <1>1, OpenHandles, CloseHandles
<1>2. ASSUME NEW h \in CursorHandles, NEW e \in Ends,
             FetchPositioned(h, e) \/ \E n \in 1 .. Rows : Fetch(h, n, e)
      PROVE  HandlesInv'
  <2>1. /\ UNCHANGED <<id, unknown, serverUp, cursors, operations>>
        /\ failed \subseteq failed' /\ (connected' => connected)
    BY <1>2 DEF FetchPositioned, Fetch, Ask, Note, server
  <2> QED BY <2>1, SameHandles
<1>3. ASSUME NEW h \in OperationHandles, NEW e \in Ends, Write(h, e) PROVE HandlesInv'
  <2>1. /\ UNCHANGED <<id, unknown, serverUp, cursors>>
        /\ failed \subseteq failed' /\ (connected' => connected)
    BY <1>3 DEF Write, Ask, Note
  <2>2. operations' \subseteq operations /\ operations \ operations' \subseteq failed'
    <3>1. None \notin operations
      BY DEF TypeOK, None
    <3> QED BY <1>3, <3>1 DEF Write, Note
  <2> QED BY <2>1, <2>2, SameHandles
<1>4. ASSUME NEW e \in Ends, AskOnly(e) PROVE HandlesInv'
  <2>1. /\ UNCHANGED <<id, unknown, serverUp, cursors, operations, failed>>
        /\ connected' => connected
    BY <1>4 DEF AskOnly, Ask, server, history
  <2> QED BY <2>1, SameHandles
<1>5. ASSUME NEW e \in Ends, NEW kind, Boundary(kind, e) PROVE HandlesInv'
  <2>1. /\ UNCHANGED <<id, unknown, serverUp>> /\ (connected' => connected)
        /\ cursors' \subseteq cursors /\ operations' \subseteq operations
        /\ failed' = failed \cup cursors \cup operations
    BY <1>5 DEF Boundary, Ask, Held
  <2> QED BY <2>1, SameHandles
<1>6. ASSUME NEW e \in Ends, Close(e) \/ Destroy(e) PROVE HandlesInv'
  <2>1. /\ UNCHANGED <<id, unknown, failed>> /\ (connected' => connected)
        /\ \/ serverUp' = FALSE /\ cursors' = {} /\ operations' = {}
           \/ UNCHANGED <<serverUp, cursors, operations>>
    BY <1>6 DEF Close, Destroy, ServerForgets, history
  <2> QED BY <2>1, SameHandles
<1>7. ASSUME NEW h \in Handles, DestroyHandle(h) PROVE HandlesInv'
  BY <1>7, DestroyHandles
<1>8. CASE ServerLeaves
  <2>1. /\ UNCHANGED <<id, unknown, failed, connected>>
        /\ serverUp' = FALSE /\ cursors' = {} /\ operations' = {}
    BY <1>8 DEF ServerLeaves, ServerForgets, client, history
  <2> QED BY <2>1, SameHandles
<1>9. CASE UNCHANGED vars
  BY <1>9 DEF vars, client, server, history, HandlesInv, NothingLeftBehind,
              StaleOnlyAfterFailure, Held
<1> QED BY <1>1, <1>2, <1>3, <1>4, <1>5, <1>6, <1>7, <1>8, <1>9
        DEF Next, OpenCursor, OpenOperation, CloseCursor, CloseOperation, FetchNative, Handles

\* The two invariants of the handles hold of every reachable state; neither is inductive
\* without the other.
THEOREM HandlesHold == Spec => []HandlesInv
<1>1. Init => HandlesInv
  BY DEF Init, HandlesInv, NothingLeftBehind, StaleOnlyAfterFailure, Held
<1>2. TypeOK /\ HandlesInv /\ [Next]_vars => HandlesInv'
  BY HandlesStep
<1> QED BY <1>1, <1>2, TypeCorrect, PTL DEF Spec

\* Two handles never stand for the same thing, and what a connected session has open at the
\* server is in some handle, so that it can be closed, unless the handle was destroyed or
\* the reply that carried its id was refused.
THEOREM NothingIsLeftBehind == Spec => []NothingLeftBehind
<1>1. HandlesInv => NothingLeftBehind
  BY DEF HandlesInv
<1> QED BY <1>1, HandlesHold, PTL

\* A handle goes stale only by a call on it that failed or by the end of a transaction: a
\* commit, a rollback or, for a cursor, the closing of an operation.
THEOREM HandlesAreGood == Spec => []StaleOnlyAfterFailure
<1>1. HandlesInv => StaleOnlyAfterFailure
  BY DEF HandlesInv
<1> QED BY <1>1, HandlesHold, PTL

-----------------------------------------------------------------------------
(* The rows of a cursor.                                                   *)

\* Rows that are in order stay so when later rows follow.
LEMMA OrderedConcat ==
    ASSUME NEW s \in Seq(1 .. Rows), NEW t \in Seq(1 .. Rows), NEW p \in Nat,
           \A j, k \in DOMAIN s : j < k => s[j] < s[k],
           ToSet(s) \subseteq 1 .. p,
           \A j \in 1 .. Len(t) : t[j] = p + j
    PROVE  \A j, k \in DOMAIN (s \o t) : j < k => (s \o t)[j] < (s \o t)[k]
<1>1. /\ Len(s) \in Nat /\ DOMAIN s = 1 .. Len(s) /\ Len(t) \in Nat
      /\ DOMAIN (s \o t) = 1 .. Len(s) + Len(t)
      /\ \A j \in 1 .. Len(s) + Len(t) :
            (s \o t)[j] = IF j <= Len(s) THEN s[j] ELSE t[j - Len(s)]
  OBVIOUS
<1>2. \A j \in 1 .. Len(s) : s[j] \in 1 .. p
  BY <1>1 DEF ToSet
<1> SUFFICES ASSUME NEW j \in 1 .. Len(s) + Len(t), NEW k \in 1 .. Len(s) + Len(t), j < k
             PROVE  (s \o t)[j] < (s \o t)[k]
  BY <1>1
<1>3. CASE k <= Len(s)
  BY SMTT(30), <1>1, <1>3
<1>4. CASE j <= Len(s) /\ ~(k <= Len(s))
  <2>1. k - Len(s) \in 1 .. Len(t) /\ j \in 1 .. Len(s)
    BY <1>1, <1>4
  <2>2. (s \o t)[j] = s[j] /\ (s \o t)[k] = p + (k - Len(s)) /\ s[j] \in 1 .. p
    BY <1>1, <1>2, <1>4, <2>1
  <2> QED BY <2>1, <2>2
<1>5. CASE ~(j <= Len(s))
  <2>1. j - Len(s) \in 1 .. Len(t) /\ k - Len(s) \in 1 .. Len(t) /\ ~(k <= Len(s))
    BY <1>1, <1>5
  <2>2. (s \o t)[j] = p + (j - Len(s)) /\ (s \o t)[k] = p + (k - Len(s))
    BY <1>1, <1>5, <2>1
  <2> QED BY <1>1, <2>1, <2>2
<1> QED BY <1>1, <1>3, <1>4, <1>5

LEMMA FetchRows ==
    ASSUME TypeOK, RowsInOrder, NEW h \in CursorHandles, NEW n \in 1 .. Rows, NEW e,
           Fetch(h, n, e)
    PROVE  RowsInOrder'
<1> DEFINE c == id[h]
           b == Batch(c, n)
<1>1. failed \subseteq failed' /\ (e # "ok" /\ c # None => c \in failed')
  BY DEF Fetch, Note
<1>2. CASE ~Executed(e)
  BY <1>1, <1>2 DEF Fetch, RowsInOrder
<1>3. CASE Executed(e)
  <2>1. c \in Ids /\ c # None
    <3>1. c \in cursors /\ h \in Handles
      BY <1>3 DEF Fetch, Ask, MayEnd, Handles
    <3> QED BY <3>1, HandleId DEF Held
  <2>2. /\ position' = [position EXCEPT ![c] = @ + Len(b)]
        /\ got' = [got EXCEPT ![c] = @ \o IF e = "ok" THEN b ELSE <<>>]
        /\ reported' = [reported EXCEPT ![c] = @ \cup IF e = "ok" THEN {} ELSE ToSet(b)]
    BY <1>3 DEF Fetch
  <2>3. /\ b \in Seq(1 .. Rows) /\ Len(b) \in Nat /\ position[c] \in Nat
        /\ \A j \in 1 .. Len(b) : b[j] = position[c] + j
        /\ ToSet(b) = position[c] + 1 .. position[c] + Len(b)
    BY <2>1, BatchFacts
  <2>4. /\ got[c] \in Seq(1 .. Rows)
        /\ \A j, k \in DOMAIN got[c] : j < k => got[c][j] < got[c][k]
        /\ ToSet(got[c]) \cup reported[c] = 1 .. position[c]
        /\ ToSet(got[c]) \cap reported[c] = {}
        /\ reported[c] # {} => c \in failed
    BY <2>1 DEF TypeOK, RowsInOrder
  <2> HIDE DEF b, c
  <2>5. \A i \in Ids : i # c => /\ got'[i] = got[i] /\ reported'[i] = reported[i]
                                /\ position'[i] = position[i]
    BY <2>2 DEF TypeOK
  <2>6. position'[c] = position[c] + Len(b)
    BY <2>1, <2>2 DEF TypeOK
  <2>7. 1 .. position'[c] = (1 .. position[c]) \cup (position[c] + 1 .. position[c] + Len(b))
    BY <2>3, <2>6
  <2>8. (1 .. position[c]) \cap (position[c] + 1 .. position[c] + Len(b)) = {}
    BY <2>3
  <2>9. CASE e = "ok"
    <3>1. got'[c] = got[c] \o b /\ reported'[c] = reported[c]
      BY <2>1, <2>2, <2>9 DEF TypeOK
    <3>2. \A j, k \in DOMAIN got'[c] : j < k => got'[c][j] < got'[c][k]
      BY <2>3, <2>4, <3>1, OrderedConcat
    <3>3. ToSet(got'[c]) = ToSet(got[c]) \cup ToSet(b)
      BY <2>3, <2>4, <3>1, ToSetConcat
    <3>4. /\ ToSet(got'[c]) \cup reported'[c] = 1 .. position'[c]
          /\ ToSet(got'[c]) \cap reported'[c] = {}
      BY <2>3, <2>4, <2>7, <2>8, <3>1, <3>3
    <3> QED BY <1>1, <2>4, <2>5, <3>1, <3>2, <3>4 DEF RowsInOrder
  <2>10. CASE e # "ok"
    <3>1. got'[c] = got[c] /\ reported'[c] = reported[c] \cup ToSet(b)
      <4>1. got[c] \o <<>> = got[c]
        BY <2>4
      <4> QED BY <2>1, <2>2, <2>10, <4>1 DEF TypeOK
    <3>2. /\ ToSet(got'[c]) \cup reported'[c] = 1 .. position'[c]
          /\ ToSet(got'[c]) \cap reported'[c] = {}
      BY <2>3, <2>4, <2>7, <2>8, <3>1
    <3>3. c \in failed'
      BY <1>1, <2>1, <2>10
    <3> QED BY <1>1, <2>4, <2>5, <3>1, <3>2, <3>3 DEF RowsInOrder
  <2> QED BY <2>9, <2>10
<1> QED BY <1>2, <1>3

LEMMA RowsStep == TypeOK /\ RowsInOrder /\ [Next]_vars => RowsInOrder'
<1> SUFFICES ASSUME TypeOK, RowsInOrder, [Next]_vars PROVE RowsInOrder'
  OBVIOUS
<1>1. ASSUME NEW h \in CursorHandles, NEW e \in Ends, NEW n \in 1 .. Rows, Fetch(h, n, e)
      PROVE  RowsInOrder'
  BY <1>1, FetchRows
<1>2. CASE UNCHANGED <<position, got, reported>> /\ failed \subseteq failed'
  BY <1>2 DEF RowsInOrder
<1>3. ASSUME NEW e \in Ends, NEW h, Open(h, e) \/ CloseHandle(h, e) \/ FetchPositioned(h, e) \/ Write(h, e)
      PROVE  RowsInOrder'
  BY <1>2, <1>3 DEF Open, CloseHandle, FetchPositioned, Write, Note, NoteClose, server
<1>4. ASSUME NEW e \in Ends, NEW kind, AskOnly(e) \/ Boundary(kind, e) \/ Close(e) \/ Destroy(e)
      PROVE  RowsInOrder'
  BY <1>2, <1>4 DEF AskOnly, Boundary, Close, Destroy, server, history
<1>5. ASSUME NEW h, DestroyHandle(h) PROVE RowsInOrder'
  BY <1>2, <1>5 DEF DestroyHandle, server
<1>6. CASE ServerLeaves \/ UNCHANGED vars
  BY <1>2, <1>6 DEF ServerLeaves, vars, server, history
<1> QED BY <1>1, <1>3, <1>4, <1>5, <1>6
        DEF Next, OpenCursor, OpenOperation, CloseCursor, CloseOperation, FetchNative

\* The rows fetch() returns come in order and once; a row the server gave out and the
\* application did not get was in a reply the application saw fail.
THEOREM RowsComeInOrder == Spec => []RowsInOrder
<1>1. Init => RowsInOrder
  BY DEF Init, RowsInOrder, ToSet
<1>2. TypeOK /\ RowsInOrder /\ [Next]_vars => RowsInOrder'
  BY RowsStep
<1> QED BY <1>1, <1>2, TypeCorrect, PTL DEF Spec
=============================================================================
