--------------------------- MODULE SimClientProof ---------------------------
(***************************************************************************)
(* SimClient's safety properties, proved for any number of rows and any    *)
(* batch size.  What the server holds follows from how far the script is;  *)
(* that the rows are complete when the operation is closed follows from    *)
(* the order of the requests in a script, which Rank expresses.            *)
(***************************************************************************)
EXTENDS SimClient, SequenceTheorems, TLAPS

(***************************************************************************)
(* The inductive invariant.                                                *)
(***************************************************************************)
Steps == {"enter", "hello", "ping", "describeTable", "getTableVersion", "openCursor", "fetch",
          "closeCursor", "setAutocommit", "openOperation", "insertRows", "writeRows",
          "closeOperation", "commit", "rollback", "close"}

\* The place of a request in a script: each comes once, and in this order.
Rank(x) ==
    CASE x = "enter" -> 0
      [] x = "hello" -> 1
      [] x \in {"ping", "describeTable", "setAutocommit"} -> 2
      [] x \in {"getTableVersion", "openCursor", "openOperation"} -> 3
      [] x \in {"fetch", "insertRows", "writeRows"} -> 4
      [] x \in {"closeCursor", "closeOperation"} -> 5
      [] x \in {"commit", "rollback"} -> 6
      [] OTHER -> 7

StepsIn(s) == {s[i] : i \in 1 .. Len(s)}
Ordered(s) == \A i, j \in 1 .. Len(s) : i < j => Rank(s[i]) < Rank(s[j])

Options ==
    [command : Commands, autocommit : Settings, end : {"none", "commit", "rollback"},
     rows : 0 .. MaxRows, batch : 0 .. Wrap - 1, skip : BOOLEAN]
Sessions ==
    [live : BOOLEAN, autocommit : BOOLEAN, open : 0 .. 1,
     pending : Seq(1 .. MaxRows), durable : Seq(1 .. MaxRows)]

\* The options of a command that may run: a write has rows, another command none.
OptionsInv ==
    \/ options = NoOptions
    \/ options \in Options /\ (options.command \in Writes <=> options.rows > 0)

\* Who waits for what: one request at a time, and what is on its way belongs to it.
ExchangeInv ==
    /\ status \in Statuses /\ link \in {"none", "up", "down"}
    /\ waiting \in BOOLEAN /\ odd \in BOOLEAN /\ beginRow \in 0 .. Wrap - 1
    /\ server \in Sessions
    /\ request # None => /\ waiting /\ link = "up" /\ reply = None
                         /\ request.step = Head(script) /\ request.rows = RowsSent
    /\ reply # None => /\ waiting /\ link = "up" /\ request = None
                       /\ reply.step = Head(script)
    /\ reply.type = "odd" => odd
    /\ waiting => script # <<>> /\ link # "none"
    /\ script # <<>> => status = "none" /\ options # NoOptions
    /\ link = "none" => server = NoSession
    /\ options = NoOptions => link = "none" /\ ~odd /\ beginRow = 0
    /\ status = "zero" => script = <<>> /\ options # NoOptions

\* What is left of the script, and how far the loop over the batches is.
ScriptInv ==
    LET left == StepsIn(script)
    IN  /\ script \in Seq(Steps) /\ Ordered(script)
        /\ "insertRows" \in left =>
              /\ options.command = "insert" /\ beginRow < options.rows
              /\ beginRow = 0 \/ options.batch <= beginRow
        /\ "writeRows" \in left => options.command \in {"delete", "update"}
        /\ "insertRows" \in left \/ "writeRows" \in left => "closeOperation" \in left
        /\ "closeOperation" \in left =>
              /\ options.command \in Writes
              /\ options.end = "commit" /\ options.command # "update" => "commit" \in left
        /\ "setAutocommit" \in left => options.command # "update" /\ options.autocommit # "unset"
        /\ "commit" \in left => options.command \in {"insert", "delete"} /\ options.end = "commit"
        /\ "rollback" \in left => options.end = "rollback"

\* The server has executed the request the client is at.
Served(x) == script # <<>> /\ Head(script) = x /\ reply.type = "expected"
Ahead(x) == x \in StepsIn(script) /\ ~Served(x)

\* The rows the server has taken.
Written ==
    IF "insertRows" \in StepsIn(script)
    THEN IF Served("insertRows") THEN EndRow ELSE beginRow
    ELSE IF Ahead("writeRows") THEN 0 ELSE options.rows

Running == options # NoOptions /\ status = "none" /\ link # "down"

\* Until the operation is closed the rows written so far are pending; then all of them
\* are pending, or kept, or gone.
PendingInv ==
    Running =>
        /\ Ahead("closeOperation") => server.durable = <<>> /\ server.pending = Rows(Written)
        /\ ~Ahead("closeOperation") =>
              \/ server.durable = <<>> /\ server.pending \in {<<>>, Rows(options.rows)}
              \/ server.durable = Rows(options.rows) /\ server.pending = <<>>

\* The transaction is to end with the operation.
EndsWithOperation == options.command = "update" \/ options.autocommit # "off"

\* The server's session, where the answers say what was done.
AskedInv ==
    Running /\ WellAnswered /\ options.command \in Writes =>
        /\ ~Ahead("setAutocommit") => (server.autocommit <=> EndsWithOperation)
        /\ ~Ahead("closeOperation") =>
              IF EndsWithOperation \/ (options.end = "commit" /\ ~Ahead("commit"))
              THEN server.durable = Rows(options.rows)
              ELSE /\ server.durable = <<>>
                   /\ options.end = "commit" => server.pending = Rows(options.rows)

\* The rows a command that comes to its end has kept: an update keeps its own whatever
\* was asked.
Kept ==
    IF \/ options.command = "update"
       \/ options.command \in {"insert", "delete"} /\ (options.autocommit # "off" \/ options.end = "commit")
    THEN Rows(options.rows) ELSE <<>>

\* What stays true when the connection is gone.
KeptInv ==
    /\ server.durable \in {<<>>, Rows(options.rows)}
    /\ WellAnswered /\ Kept = <<>> => server.durable = <<>>
    /\ WellAnswered /\ options # NoOptions /\ script = <<>> /\ status # "three" =>
          server.durable = Kept

SimInv == OptionsInv /\ ExchangeInv /\ ScriptInv /\ PendingInv /\ AskedInv /\ KeptInv

-----------------------------------------------------------------------------
(* Scripts.                                                                *)

LEMMA RankRange == \A x : Rank(x) \in 0 .. 7
BY DEF Rank

LEMMA TailOfScript ==
    ASSUME NEW s \in Seq(Steps), s # <<>>, Ordered(s)
    PROVE  /\ Tail(s) \in Seq(Steps)
           /\ Ordered(Tail(s))
           /\ Head(s) \in StepsIn(s)
           /\ StepsIn(Tail(s)) = StepsIn(s) \ {Head(s)}
           /\ \A x \in StepsIn(s) : x = Head(s) \/ Rank(Head(s)) < Rank(x)
<1>1. Len(s) \in Nat \ {0} /\ Head(s) = s[1]
  BY EmptySeq, LenProperties
<1>2. /\ Tail(s) \in Seq(Steps) /\ Len(Tail(s)) = Len(s) - 1
      /\ \A i \in 1 .. Len(Tail(s)) : Tail(s)[i] = s[i + 1]
  BY HeadTailProperties
<1>3. Ordered(Tail(s))
  BY <1>1, <1>2 DEF Ordered
<1>4. Head(s) \in StepsIn(s)
  BY <1>1 DEF StepsIn
<1>5. \A i \in 2 .. Len(s) : Rank(s[1]) < Rank(s[i])
  BY <1>1 DEF Ordered
<1>6. \A i \in 2 .. Len(s) : s[i] # Head(s)
  BY <1>1, <1>5, RankRange
<1>7. StepsIn(Tail(s)) \subseteq StepsIn(s) \ {Head(s)}
  BY <1>1, <1>2, <1>6 DEF StepsIn
<1>8. ASSUME NEW i \in 1 .. Len(s), s[i] # Head(s)
      PROVE  s[i] \in StepsIn(Tail(s))
  <2>1. i - 1 \in 1 .. Len(Tail(s)) /\ Tail(s)[i - 1] = s[i]
    BY <1>1, <1>2, <1>8
  <2> QED BY <2>1 DEF StepsIn
<1>9. StepsIn(s) \ {Head(s)} \subseteq StepsIn(Tail(s))
  BY <1>8 DEF StepsIn
<1>10. \A x \in StepsIn(s) : x = Head(s) \/ Rank(Head(s)) < Rank(x)
  BY <1>1, <1>5 DEF StepsIn
<1> QED BY <1>2, <1>3, <1>4, <1>7, <1>9, <1>10

LEMMA EmptyScript == StepsIn(<<>>) = {} /\ Ordered(<<>>) /\ <<>> \in Seq(Steps)
BY EmptySeq DEF StepsIn, Ordered

\* A script between two ranks: the parts a script is put together from.
Part(s, from, to) ==
    /\ s \in Seq(Steps) /\ Ordered(s)
    /\ \A x \in StepsIn(s) : Rank(x) >= from /\ Rank(x) <= to

LEMMA Joined ==
    ASSUME NEW a, NEW b \in Int, NEW c \in Int, NEW d, NEW s, NEW t,
           Part(s, a, b), Part(t, c, d), b < c
    PROVE  /\ s \o t \in Seq(Steps) /\ Ordered(s \o t)
           /\ StepsIn(s \o t) = StepsIn(s) \cup StepsIn(t)
<1>1. s \in Seq(Steps) /\ t \in Seq(Steps) /\ Ordered(s) /\ Ordered(t)
  BY DEF Part
<1>2. /\ s \o t \in Seq(Steps) /\ Len(s \o t) = Len(s) + Len(t)
      /\ \A i \in 1 .. Len(s) + Len(t) : (s \o t)[i] = IF i <= Len(s) THEN s[i] ELSE t[i - Len(s)]
  BY <1>1, ConcatProperties
<1>3. Len(s) \in Nat /\ Len(t) \in Nat
  BY <1>1
<1>4. \A i \in 1 .. Len(s) : s[i] \in StepsIn(s)
  BY DEF StepsIn
<1>5. \A i \in 1 .. Len(t) : t[i] \in StepsIn(t)
  BY DEF StepsIn
<1>6. \A i \in 1 .. Len(s), j \in 1 .. Len(t) : Rank(s[i]) < Rank(t[j])
  BY SMTT(30), <1>4, <1>5, RankRange DEF Part
<1>7. ASSUME NEW i \in 1 .. Len(s \o t), NEW j \in 1 .. Len(s \o t), i < j
      PROVE  Rank((s \o t)[i]) < Rank((s \o t)[j])
  <2>1. CASE j <= Len(s)
    BY <1>1, <1>2, <1>3, <1>7, <2>1 DEF Ordered
  <2>2. CASE i > Len(s)
    <3>1. /\ i - Len(s) \in 1 .. Len(t) /\ j - Len(s) \in 1 .. Len(t) /\ i - Len(s) < j - Len(s)
          /\ (s \o t)[i] = t[i - Len(s)] /\ (s \o t)[j] = t[j - Len(s)]
      BY <1>2, <1>3, <1>7, <2>2
    <3> QED BY <1>1, <3>1 DEF Ordered
  <2>3. CASE i <= Len(s) /\ j > Len(s)
    <3>1. /\ i \in 1 .. Len(s) /\ j - Len(s) \in 1 .. Len(t)
          /\ (s \o t)[i] = s[i] /\ (s \o t)[j] = t[j - Len(s)]
      BY <1>2, <1>3, <1>7, <2>3
    <3> QED BY <1>6, <3>1
  <2> QED BY <1>3, <2>1, <2>2, <2>3
<1>8. StepsIn(s \o t) \subseteq StepsIn(s) \cup StepsIn(t)
  <2> SUFFICES ASSUME NEW i \in 1 .. Len(s \o t)
               PROVE  (s \o t)[i] \in StepsIn(s) \cup StepsIn(t)
    BY DEF StepsIn
  <2>1. CASE i <= Len(s)
    BY <1>2, <1>3, <1>4, <2>1
  <2>2. CASE i > Len(s)
    <3>1. i - Len(s) \in 1 .. Len(t) /\ (s \o t)[i] = t[i - Len(s)]
      BY <1>2, <1>3, <2>2
    <3> QED BY <1>5, <3>1
  <2> QED BY <1>3, <2>1, <2>2
<1>9. ASSUME NEW i \in 1 .. Len(s) PROVE s[i] \in StepsIn(s \o t)
  <2>1. i \in 1 .. Len(s \o t) /\ (s \o t)[i] = s[i]
    BY <1>2, <1>3
  <2> QED BY <2>1 DEF StepsIn
<1>10. ASSUME NEW i \in 1 .. Len(t) PROVE t[i] \in StepsIn(s \o t)
  <2>1. i + Len(s) \in 1 .. Len(s \o t) /\ (s \o t)[i + Len(s)] = t[i]
    BY <1>2, <1>3
  <2> QED BY <2>1 DEF StepsIn
<1>11. StepsIn(s) \cup StepsIn(t) \subseteq StepsIn(s \o t)
  BY <1>9, <1>10 DEF StepsIn
<1>12. Ordered(s \o t)
  BY <1>7 DEF Ordered
<1> QED BY <1>2, <1>8, <1>11, <1>12

Follows(s, a, b, t, c, d) ==
    /\ {a, b, c, d} \subseteq Int /\ a <= c /\ b < c /\ b <= d
    /\ Part(s, a, b) /\ Part(t, c, d)

LEMMA JoinedPart ==
    ASSUME NEW a, NEW b, NEW c, NEW d, NEW s, NEW t, Follows(s, a, b, t, c, d)
    PROVE  Part(s \o t, a, d) /\ StepsIn(s \o t) = StepsIn(s) \cup StepsIn(t)
<1>1. /\ Part(s, a, b) /\ Part(t, c, d)
      /\ {a, b, c, d} \subseteq Int /\ a <= c /\ b < c /\ b <= d
  BY DEF Follows
<1>2. /\ s \o t \in Seq(Steps) /\ Ordered(s \o t)
      /\ StepsIn(s \o t) = StepsIn(s) \cup StepsIn(t)
  BY <1>1, Joined
<1>3. ASSUME NEW x \in StepsIn(s \o t) PROVE Rank(x) >= a /\ Rank(x) <= d
  <2>1. CASE x \in StepsIn(s)
    BY <1>1, <2>1, RankRange DEF Part
  <2>2. CASE x \in StepsIn(t)
    BY <1>1, <2>2, RankRange DEF Part
  <2> QED BY <1>2, <1>3, <2>1, <2>2
<1> QED BY <1>2, <1>3 DEF Part

LEMMA NoStep == Part(<<>>, 6, 6) /\ Part(<<>>, 2, 2) /\ Part(<<>>, 5, 5) /\ StepsIn(<<>>) = {}
BY EmptyScript DEF Part

LEMMA OneStep ==
    ASSUME NEW x \in Steps, NEW a \in Int, Rank(x) = a
    PROVE  Part(<<x>>, a, a) /\ StepsIn(<<x>>) = {x}
BY DEF Part, Ordered, StepsIn

LEMMA TwoSteps ==
    ASSUME NEW x \in Steps, NEW y \in Steps, NEW a \in Int, NEW b \in Int,
           Rank(x) = a, Rank(y) = b, a < b
    PROVE  Part(<<x, y>>, a, b) /\ StepsIn(<<x, y>>) = {x, y}
<1>1. <<x, y>> \in Seq(Steps) /\ Len(<<x, y>>) = 2
  OBVIOUS
<1>2. \A i \in 1 .. 2 : <<x, y>>[i] = IF i = 1 THEN x ELSE y
  OBVIOUS
<1>3. StepsIn(<<x, y>>) = {x, y}
  BY <1>1, <1>2 DEF StepsIn
<1> QED BY <1>1, <1>2, <1>3 DEF Part, Ordered

LEMMA ThreeSteps ==
    ASSUME NEW x \in Steps, NEW y \in Steps, NEW z \in Steps,
           NEW a \in Int, NEW b \in Int, NEW c \in Int,
           Rank(x) = a, Rank(y) = b, Rank(z) = c, a < b, b < c
    PROVE  Part(<<x, y, z>>, a, c) /\ StepsIn(<<x, y, z>>) = {x, y, z}
<1>1. <<x, y, z>> \in Seq(Steps) /\ Len(<<x, y, z>>) = 3
  OBVIOUS
<1>2. \A i \in 1 .. 3 : <<x, y, z>>[i] = IF i = 1 THEN x ELSE IF i = 2 THEN y ELSE z
  OBVIOUS
<1>3. StepsIn(<<x, y, z>>) = {x, y, z}
  BY <1>1, <1>2 DEF StepsIn
<1> QED BY <1>1, <1>2, <1>3 DEF Part, Ordered

LEMMA RanksOf ==
    /\ Rank("enter") = 0 /\ Rank("hello") = 1 /\ Rank("close") = 7
    /\ Rank("ping") = 2 /\ Rank("describeTable") = 2 /\ Rank("setAutocommit") = 2
    /\ Rank("getTableVersion") = 3 /\ Rank("openCursor") = 3 /\ Rank("openOperation") = 3
    /\ Rank("fetch") = 4 /\ Rank("insertRows") = 4 /\ Rank("writeRows") = 4
    /\ Rank("closeCursor") = 5 /\ Rank("closeOperation") = 5
    /\ Rank("commit") = 6 /\ Rank("rollback") = 6
BY DEF Rank

LEMMA AutocommitPart ==
    ASSUME NEW o \in Options
    PROVE  /\ Part(SetAutocommit(o), 2, 2)
           /\ StepsIn(SetAutocommit(o)) = IF o.autocommit = "unset" THEN {} ELSE {"setAutocommit"}
<1>1. "setAutocommit" \in Steps
  BY DEF Steps
<1>2. CASE o.autocommit = "unset"
  BY <1>2, NoStep DEF SetAutocommit
<1>3. CASE o.autocommit # "unset"
  <2>1. SetAutocommit(o) = <<"setAutocommit">>
    BY <1>3 DEF SetAutocommit
  <2>2. Part(<<"setAutocommit">>, 2, 2) /\ StepsIn(<<"setAutocommit">>) = {"setAutocommit"}
    BY <1>1, OneStep, RanksOf
  <2> QED BY <1>3, <2>1, <2>2
<1> QED BY <1>2, <1>3

LEMMA TransactionPart ==
    ASSUME NEW o \in Options
    PROVE  /\ Part(Transaction(o), 6, 6)
           /\ StepsIn(Transaction(o)) = IF o.end = "none" THEN {} ELSE {o.end}
<1>1. "commit" \in Steps /\ "rollback" \in Steps /\ o.end \in {"none", "commit", "rollback"}
  BY DEF Steps, Options
<1>2. CASE o.end = "none"
  BY <1>2, NoStep DEF Transaction
<1>3. CASE o.end # "none"
  <2>1. Transaction(o) = <<o.end>> /\ o.end \in Steps /\ Rank(o.end) = 6
    BY <1>1, <1>3, RanksOf DEF Transaction
  <2>2. Part(<<o.end>>, 6, 6) /\ StepsIn(<<o.end>>) = {o.end}
    BY <2>1, OneStep
  <2> QED BY <1>3, <2>1, <2>2
<1> QED BY <1>2, <1>3

\* The scripts of the writes have the same form; the step in the middle differs.
LEMMA WritePart ==
    ASSUME NEW o \in Options, NEW w \in {"insertRows", "writeRows"}
    PROVE  LET s == SetAutocommit(o) \o <<"openOperation", w, "closeOperation">> \o Transaction(o)
           IN  /\ Part(s, 2, 6)
               /\ StepsIn(s) = (IF o.autocommit = "unset" THEN {} ELSE {"setAutocommit"})
                               \cup {"openOperation", w, "closeOperation"}
                               \cup (IF o.end = "none" THEN {} ELSE {o.end})
<1> DEFINE a == SetAutocommit(o)
           m == <<"openOperation", w, "closeOperation">>
           e == Transaction(o)
<1>1. Part(a, 2, 2) /\ StepsIn(a) = IF o.autocommit = "unset" THEN {} ELSE {"setAutocommit"}
  BY AutocommitPart
<1>2. Part(e, 6, 6) /\ StepsIn(e) = IF o.end = "none" THEN {} ELSE {o.end}
  BY TransactionPart
<1>3. "openOperation" \in Steps /\ w \in Steps /\ "closeOperation" \in Steps /\ Rank(w) = 4
  BY RanksOf DEF Steps
<1>4. Part(m, 3, 5) /\ StepsIn(m) = {"openOperation", w, "closeOperation"}
  BY <1>3, ThreeSteps, RanksOf
<1> HIDE DEF a, m, e
<1>41. Follows(a, 2, 2, m, 3, 5)
  BY <1>1, <1>4 DEF Follows
<1>5. Part(a \o m, 2, 5) /\ StepsIn(a \o m) = StepsIn(a) \cup StepsIn(m)
  BY <1>41, JoinedPart
<1>51. Follows(a \o m, 2, 5, e, 6, 6)
  BY <1>2, <1>5 DEF Follows
<1>6. Part((a \o m) \o e, 2, 6) /\ StepsIn((a \o m) \o e) = StepsIn(a \o m) \cup StepsIn(e)
  BY <1>51, JoinedPart
<1>7. StepsIn((a \o m) \o e) = (IF o.autocommit = "unset" THEN {} ELSE {"setAutocommit"})
                               \cup {"openOperation", w, "closeOperation"}
                               \cup (IF o.end = "none" THEN {} ELSE {o.end})
  BY <1>1, <1>2, <1>4, <1>5, <1>6
<1> QED BY <1>6, <1>7 DEF a, m, e

\* Between Hello and the end of the session.
Own(o) ==
    CASE o.command = "ping"     -> <<"ping">>
      [] o.command = "describe" -> <<"describeTable", "getTableVersion">>
      [] o.command = "query"    -> QueryScript(o)
      [] o.command = "scan"     -> ScanScript
      [] o.command = "insert"   -> InsertScript(o)
      [] o.command = "delete"   -> DeleteScript(o)
      [] o.command = "update"   -> UpdateScript

\* What the proofs need to know of the requests of a command.
Fits(o, s) ==
    /\ "insertRows" \in StepsIn(s) <=> o.command = "insert"
    /\ "writeRows" \in StepsIn(s) <=> o.command \in {"delete", "update"}
    /\ "closeOperation" \in StepsIn(s) <=> o.command \in Writes
    /\ "setAutocommit" \in StepsIn(s) <=> o.command \in {"insert", "delete"} /\ o.autocommit # "unset"
    /\ "commit" \in StepsIn(s) <=> o.command \in {"insert", "delete"} /\ o.end = "commit"
    /\ "rollback" \in StepsIn(s) <=> o.command \in {"insert", "delete"} /\ o.end = "rollback"

LEMMA OwnPart ==
    ASSUME NEW o \in Options
    PROVE  Part(Own(o), 2, 6) /\ Fits(o, Own(o))
<1>0. o.command \in Commands /\ o.end \in {"none", "commit", "rollback"}
  BY DEF Options
<1>1. CASE o.command = "ping"
  <2>1. Part(<<"ping">>, 2, 2) /\ StepsIn(<<"ping">>) = {"ping"}
    BY OneStep, RanksOf DEF Steps
  <2>2. Own(o) = <<"ping">>
    BY <1>1 DEF Own
  <2>3. Part(Own(o), 2, 6)
    BY <2>1, <2>2, RankRange DEF Part
  <2> QED BY <1>1, <2>1, <2>2, <2>3 DEF Fits, Writes
<1>2. CASE o.command = "describe"
  <2>1. "describeTable" \in Steps /\ "getTableVersion" \in Steps
    BY DEF Steps
  <2>2. /\ Part(<<"describeTable", "getTableVersion">>, 2, 3)
        /\ StepsIn(<<"describeTable", "getTableVersion">>) = {"describeTable", "getTableVersion"}
    BY <2>1, TwoSteps, RanksOf
  <2>3. Own(o) = <<"describeTable", "getTableVersion">>
    BY <1>2 DEF Own
  <2>4. Part(Own(o), 2, 6)
    BY <2>2, <2>3, RankRange DEF Part
  <2> QED BY <1>2, <2>2, <2>3, <2>4 DEF Fits, Writes
<1>3. CASE o.command \in {"query", "scan"}
  <2>1. "openCursor" \in Steps /\ "fetch" \in Steps /\ "closeCursor" \in Steps
    BY DEF Steps
  <2>2. /\ Part(<<"openCursor", "fetch">>, 3, 4)
        /\ StepsIn(<<"openCursor", "fetch">>) = {"openCursor", "fetch"}
    BY <2>1, TwoSteps, RanksOf
  <2>3. Part(<<"closeCursor">>, 5, 5) /\ StepsIn(<<"closeCursor">>) = {"closeCursor"}
    BY <2>1, OneStep, RanksOf
  <2>4. Part(<<"openCursor", "fetch", "closeCursor">>, 3, 5)
        /\ StepsIn(<<"openCursor", "fetch", "closeCursor">>) = {"openCursor", "fetch", "closeCursor"}
    BY <2>1, ThreeSteps, RanksOf
  <2> DEFINE z == IF o.skip THEN <<>> ELSE <<"closeCursor">>
  <2>5. Part(z, 5, 5) /\ StepsIn(z) \subseteq {"closeCursor"}
    BY <2>3, NoStep
  <2> HIDE DEF z
  <2> DEFINE q == <<"openCursor", "fetch">>
  <2>61. Part(q, 3, 4) /\ StepsIn(q) = {"openCursor", "fetch"}
    BY <2>2
  <2> HIDE DEF q
  <2>63. Follows(q, 3, 4, z, 5, 5)
    BY <2>5, <2>61 DEF Follows
  <2>62. Part(q \o z, 3, 5) /\ StepsIn(q \o z) = StepsIn(q) \cup StepsIn(z)
    BY <2>63, JoinedPart
  <2>6. Part(q \o z, 3, 5) /\ StepsIn(q \o z) \subseteq {"openCursor", "fetch", "closeCursor"}
    BY <2>5, <2>61, <2>62
  <2>7. Own(o) = q \o z \/ Own(o) = <<"openCursor", "fetch", "closeCursor">>
    BY <1>3 DEF Own, QueryScript, ScanScript, z, q
  <2>8. Part(Own(o), 3, 5) /\ StepsIn(Own(o)) \subseteq {"openCursor", "fetch", "closeCursor"}
    BY <2>4, <2>6, <2>7
  <2>9. Part(Own(o), 2, 6)
    BY <2>8, RankRange DEF Part
  <2> QED BY <1>3, <2>8, <2>9 DEF Fits, Writes
<1>4. CASE o.command = "insert"
  <2>1. Own(o) = SetAutocommit(o) \o <<"openOperation", "insertRows", "closeOperation">> \o Transaction(o)
    BY <1>4 DEF Own, InsertScript
  <2>2. /\ Part(Own(o), 2, 6)
        /\ StepsIn(Own(o)) = (IF o.autocommit = "unset" THEN {} ELSE {"setAutocommit"})
                             \cup {"openOperation", "insertRows", "closeOperation"}
                             \cup (IF o.end = "none" THEN {} ELSE {o.end})
    BY <2>1, WritePart
  <2> QED BY <1>0, <1>4, <2>2 DEF Fits, Writes
<1>5. CASE o.command = "delete"
  <2>1. Own(o) = SetAutocommit(o) \o <<"openOperation", "writeRows", "closeOperation">> \o Transaction(o)
    BY <1>5 DEF Own, DeleteScript
  <2>2. /\ Part(Own(o), 2, 6)
        /\ StepsIn(Own(o)) = (IF o.autocommit = "unset" THEN {} ELSE {"setAutocommit"})
                             \cup {"openOperation", "writeRows", "closeOperation"}
                             \cup (IF o.end = "none" THEN {} ELSE {o.end})
    BY <2>1, WritePart
  <2> QED BY <1>0, <1>5, <2>2 DEF Fits, Writes
<1>6. CASE o.command = "update"
  <2>1. "openOperation" \in Steps /\ "writeRows" \in Steps /\ "closeOperation" \in Steps
    BY DEF Steps
  <2>2. /\ Part(<<"openOperation", "writeRows", "closeOperation">>, 3, 5)
        /\ StepsIn(<<"openOperation", "writeRows", "closeOperation">>)
               = {"openOperation", "writeRows", "closeOperation"}
    BY <2>1, ThreeSteps, RanksOf
  <2>3. Own(o) = <<"openOperation", "writeRows", "closeOperation">>
    BY <1>6 DEF Own, UpdateScript
  <2>4. Part(Own(o), 2, 6)
    BY <2>2, <2>3, RankRange DEF Part
  <2> QED BY <1>6, <2>2, <2>3, <2>4 DEF Fits, Writes
<1> QED BY <1>0, <1>1, <1>2, <1>3, <1>4, <1>5, <1>6 DEF Commands

LEMMA ScriptFits ==
    ASSUME NEW o \in Options
    PROVE  /\ Script(o) \in Seq(Steps) /\ Ordered(Script(o)) /\ Script(o) # <<>>
           /\ Fits(o, Script(o))
<1>1. "enter" \in Steps /\ "hello" \in Steps /\ "close" \in Steps
  BY DEF Steps
<1>2. Part(<<"enter", "hello">>, 0, 1) /\ StepsIn(<<"enter", "hello">>) = {"enter", "hello"}
  BY <1>1, TwoSteps, RanksOf
<1>3. Part(<<"close">>, 7, 7) /\ StepsIn(<<"close">>) = {"close"}
  BY <1>1, OneStep, RanksOf
<1>4. Part(Own(o), 2, 6) /\ Fits(o, Own(o))
  BY OwnPart
<1> DEFINE a == <<"enter", "hello">>
           e == <<"close">>
           m == Own(o)
           am == a \o m
           s == am \o e
<1>7. Script(o) = s
  BY DEF Script, Own
<1>5. Part(a, 0, 1) /\ StepsIn(a) = {"enter", "hello"} /\ Part(e, 7, 7) /\ StepsIn(e) = {"close"}
      /\ Part(m, 2, 6)
  BY <1>2, <1>3, <1>4
<1> HIDE DEF a, e, m
<1>53. Follows(a, 0, 1, m, 2, 6)
  BY <1>5 DEF Follows
<1>51. Part(am, 0, 6) /\ StepsIn(am) = StepsIn(a) \cup StepsIn(m)
  BY <1>53, JoinedPart
<1> HIDE DEF am
<1>54. Follows(am, 0, 6, e, 7, 7)
  BY <1>5, <1>51 DEF Follows
<1>52. Part(s, 0, 7) /\ StepsIn(s) = StepsIn(am) \cup StepsIn(e)
  BY <1>54, JoinedPart
<1> HIDE DEF s
<1>6. Part(s, 0, 7) /\ StepsIn(s) = {"enter", "hello"} \cup StepsIn(Own(o)) \cup {"close"}
  BY <1>5, <1>51, <1>52 DEF m
<1>8. s # <<>>
  BY <1>6, EmptyScript
<1>9. Fits(o, s)
  BY <1>4, <1>6 DEF Fits
<1> QED BY <1>6, <1>7, <1>8, <1>9 DEF Part

-----------------------------------------------------------------------------
(* Rows, and what executing a request does to a session.                   *)

LEMMA RowsAreRows ==
    ASSUME NEW n \in 0 .. MaxRows
    PROVE  Rows(n) \in Seq(1 .. MaxRows) /\ Len(Rows(n)) = n
BY SimClientAssumption DEF Rows

LEMMA NoRows == Rows(0) = <<>>
BY EmptySeq DEF Rows

\* The rows of a batch continue those before it.
LEMMA RowsContinue ==
    ASSUME NEW m \in Nat, NEW n \in Nat, m <= n
    PROVE  Rows(m) \o [r \in 1 .. n - m |-> m + r] = Rows(n)
<1> DEFINE a == Rows(m)
           b == [r \in 1 .. n - m |-> m + r]
<1>1. a \in Seq(Nat) /\ Len(a) = m /\ \A i \in 1 .. m : a[i] = i
  BY DEF Rows
<1>2. b \in Seq(Nat) /\ Len(b) = n - m /\ \A i \in 1 .. n - m : b[i] = m + i
  OBVIOUS
<1>3. Rows(n) \in Seq(Nat) /\ Len(Rows(n)) = n /\ \A i \in 1 .. n : Rows(n)[i] = i
  BY DEF Rows
<1> HIDE DEF a, b
<1>40. /\ a \o b \in Seq(Nat) /\ Len(a \o b) = Len(a) + Len(b)
       /\ \A i \in 1 .. Len(a) + Len(b) : (a \o b)[i] = IF i <= Len(a) THEN a[i] ELSE b[i - Len(a)]
  BY <1>1, <1>2, ConcatProperties
<1>41. Len(a) + Len(b) = n
  BY <1>1, <1>2
<1>4. /\ a \o b \in Seq(Nat) /\ Len(a \o b) = n
      /\ \A i \in 1 .. n : (a \o b)[i] = IF i <= m THEN a[i] ELSE b[i - m]
  BY <1>1, <1>40, <1>41
<1>5. ASSUME NEW i \in 1 .. n PROVE (a \o b)[i] = Rows(n)[i]
  <2>1. CASE i <= m
    <3>1. i \in 1 .. m /\ (a \o b)[i] = a[i]
      BY SMTT(30), <1>4, <2>1
    <3> QED BY <1>1, <1>3, <3>1
  <2>2. CASE i > m
    <3>1. i - m \in 1 .. n - m /\ m + (i - m) = i
      BY <2>2
    <3> DEFINE j == i - m
    <3>4. j \in 1 .. n - m /\ m + j = i
      BY <3>1
    <3>2. b[j] = i
      BY <1>2, <3>4
    <3>3. (a \o b)[i] = b[i - m]
      BY <1>4, <2>2
    <3> QED BY <1>3, <3>2, <3>3
  <2>3. i <= m \/ i > m
    OBVIOUS
  <2> QED BY <2>1, <2>2, <2>3
<1>6. a \o b = Rows(n)
  BY <1>3, <1>4, <1>5, SeqEqual
<1> QED BY <1>6 DEF a, b

LEMMA NothingAdded ==
    ASSUME NEW s \in Seq(1 .. MaxRows)
    PROVE  s \o <<>> = s /\ <<>> \o s = s
BY ConcatEmptySeq

LEMMA CommittedSession ==
    ASSUME NEW s \in Sessions
    PROVE  /\ Committed(s) \in Sessions
           /\ Committed(s).durable = s.durable \o s.pending /\ Committed(s).pending = <<>>
           /\ Committed(s).autocommit = s.autocommit
<1>1. s.durable \o s.pending \in Seq(1 .. MaxRows) /\ <<>> \in Seq(1 .. MaxRows)
  BY ConcatProperties, EmptySeq DEF Sessions
<1> QED BY <1>1 DEF Committed, Sessions

LEMMA EndedSession ==
    ASSUME NEW s \in Sessions
    PROVE  /\ Ended(s) \in Sessions
           /\ Ended(s).durable = s.durable /\ Ended(s).pending = <<>>
           /\ Ended(s).autocommit = s.autocommit
<1> DEFINE u == [s EXCEPT !.live = FALSE]
           v == [u EXCEPT !.open = 0]
           w == [v EXCEPT !.pending = <<>>]
<1>1. <<>> \in Seq(1 .. MaxRows) /\ 0 \in 0 .. 1
  BY EmptySeq
<1>2. Ended(s) = w
  BY DEF Ended
<1>3. u \in Sessions /\ u.durable = s.durable /\ u.autocommit = s.autocommit
  BY DEF Sessions
<1> HIDE DEF u
<1>4. v \in Sessions /\ v.durable = u.durable /\ v.autocommit = u.autocommit
  BY <1>1, <1>3 DEF Sessions
<1> HIDE DEF v
<1>5. w \in Sessions /\ w.durable = v.durable /\ w.autocommit = v.autocommit /\ w.pending = <<>>
  BY <1>1, <1>4 DEF Sessions
<1> HIDE DEF w
<1> QED BY <1>2, <1>3, <1>4, <1>5

Opened(s) == [s EXCEPT !.open = 1]
Released(s) == [s EXCEPT !.open = 0]
LEMMA ReleasedSession ==
    ASSUME NEW s \in Sessions
    PROVE  \A t \in {Opened(s), Released(s)} :
              /\ t \in Sessions
              /\ t.durable = s.durable /\ t.pending = s.pending /\ t.autocommit = s.autocommit
<1>1. 0 \in 0 .. 1 /\ 1 \in 0 .. 1
  OBVIOUS
<1>2. Opened(s) \in Sessions /\ Released(s) \in Sessions
  BY <1>1 DEF Sessions, Opened, Released
<1> QED BY <1>2 DEF Sessions, Opened, Released

LEMMA ExecutedSession ==
    ASSUME NEW s \in Sessions, NEW r
    PROVE  LET commits == r.step = "commit" \/ (r.step = "closeOperation" /\ s.autocommit)
               e == Executed(s, r)
           IN  /\ e.durable = IF commits THEN s.durable \o s.pending ELSE s.durable
               /\ e.pending = IF r.step \in {"insertRows", "writeRows"} THEN s.pending \o r.rows
                              ELSE IF commits \/ r.step \in {"rollback", "close"} THEN <<>>
                              ELSE s.pending
               /\ r.step # "setAutocommit" => e.autocommit = s.autocommit
               /\ r.step = "setAutocommit" => (e.autocommit <=> options.autocommit = "on")
               /\ (r.step \in {"insertRows", "writeRows"} => s.pending \o r.rows \in Seq(1 .. MaxRows))
                     => e \in Sessions
<1>0. s.durable \o s.pending \in Seq(1 .. MaxRows) /\ <<>> \in Seq(1 .. MaxRows)
  BY ConcatProperties, EmptySeq DEF Sessions
<1>1. CASE r.step = "setAutocommit"
  <2>1. Executed(s, r) = [s EXCEPT !.autocommit = (options.autocommit = "on")]
    BY <1>1 DEF Executed
  <2> QED BY <1>1, <2>1 DEF Sessions
<1>2. CASE r.step \in {"openCursor", "openOperation"}
  <2>1. Executed(s, r) = Opened(s)
    BY <1>2 DEF Executed, Opened
  <2> QED BY <1>2, <2>1, ReleasedSession
<1>3. CASE r.step \in {"insertRows", "writeRows"}
  <2>1. Executed(s, r) = [s EXCEPT !.pending = s.pending \o r.rows]
    BY <1>3 DEF Executed
  <2> QED BY <1>3, <2>1 DEF Sessions
<1>4. CASE r.step = "closeCursor"
  <2>1. Executed(s, r) = Released(s)
    BY <1>4 DEF Executed, Released
  <2> QED BY <1>4, <2>1, ReleasedSession
<1>5. CASE r.step = "closeOperation"
  <2>1. CASE s.autocommit
    <3> DEFINE t == Released(s)
    <3>1. Executed(s, r) = Committed(t)
      BY <1>5, <2>1 DEF Executed, Released
    <3>2. t \in Sessions /\ t.durable = s.durable /\ t.pending = s.pending /\ t.autocommit = s.autocommit
      BY ReleasedSession
    <3> HIDE DEF t
    <3> QED BY <1>5, <2>1, <3>1, <3>2, CommittedSession
  <2>2. CASE ~s.autocommit
    <3>1. Executed(s, r) = Released(s)
      BY <1>5, <2>2 DEF Executed, Released
    <3> QED BY <1>5, <2>2, <3>1, ReleasedSession
  <2> QED BY <2>1, <2>2
<1>6. CASE r.step = "commit"
  <2>1. Executed(s, r) = Committed(s)
    BY <1>6 DEF Executed
  <2> QED BY <1>6, <2>1, CommittedSession
<1>7. CASE r.step = "rollback"
  <2>1. Executed(s, r) = [s EXCEPT !.pending = <<>>]
    BY <1>7 DEF Executed
  <2> QED BY <1>0, <1>7, <2>1 DEF Sessions
<1>8. CASE r.step = "close"
  <2>1. Executed(s, r) = Ended(s)
    BY <1>8 DEF Executed
  <2> QED BY <1>8, <2>1, EndedSession
<1>9. CASE r.step \notin {"setAutocommit", "openCursor", "openOperation", "insertRows", "writeRows",
                         "closeCursor", "closeOperation", "commit", "rollback", "close"}
  <2>1. Executed(s, r) = s
    BY <1>9 DEF Executed
  <2> QED BY <1>9, <2>1 DEF Sessions
<1> QED BY <1>1, <1>2, <1>3, <1>4, <1>5, <1>6, <1>7, <1>8, <1>9

\* The word does not overflow while rows are left.
LEMMA NoWrap ==
    ASSUME OptionsInv, options # NoOptions, beginRow \in Nat, beginRow < options.rows,
           beginRow = 0 \/ options.batch <= beginRow
    PROVE  /\ options.rows \in Nat /\ options.batch \in Nat
           /\ NextRow = beginRow + options.batch
           /\ EndRow \in beginRow .. options.rows
           /\ EndRow = IF options.rows < NextRow THEN options.rows ELSE NextRow
<1>1. options.rows \in 0 .. MaxRows /\ options.batch \in 0 .. Wrap - 1
  BY DEF OptionsInv, Options
<1>2. beginRow + options.batch \in Nat /\ beginRow + options.batch < Wrap
  BY <1>1, SimClientAssumption
<1>3. (beginRow + options.batch) % Wrap = beginRow + options.batch
  BY <1>2, SimClientAssumption
<1> QED BY <1>1, <1>3, SimClientAssumption DEF NextRow, EndRow

-----------------------------------------------------------------------------
(* The invariant holds at the start and in every step.                     *)

LEMMA EmptySession ==
    /\ NoSession \in Sessions
    /\ NoSession.durable = <<>> /\ NoSession.pending = <<>> /\ NoSession.autocommit
<1>1. <<>> \in Seq(1 .. MaxRows)
  BY EmptySeq
<1> QED BY <1>1 DEF NoSession, Sessions

LEMMA OptionsDiffer == NoOptions \notin Options /\ \A o \in Options : o # NoOptions
BY DEF NoOptions, Options, Commands

LEMMA SimInit == Init => SimInv
<1> SUFFICES ASSUME Init PROVE SimInv
  OBVIOUS
<1>1. OptionsInv
  BY DEF Init, OptionsInv
<1>2. ExchangeInv
  <2>1. None.type # "odd"
    BY DEF None
  <2>2. 0 \in 0 .. Wrap - 1
    BY SimClientAssumption
  <2> QED BY <2>1, <2>2, EmptySession DEF Init, ExchangeInv, Statuses
<1>3. ScriptInv
  BY EmptyScript DEF Init, ScriptInv
<1>4. PendingInv /\ AskedInv
  BY DEF Init, PendingInv, AskedInv, Running
<1>5. KeptInv
  BY EmptySession DEF Init, KeptInv
<1> QED BY <1>1, <1>2, <1>3, <1>4, <1>5 DEF SimInv

LEMMA FailStep ==
    ASSUME SimInv, Fail, options # NoOptions
    PROVE  SimInv'
<1> USE DEF SimInv, Fail
<1>1. OptionsInv'
  BY DEF OptionsInv
<1>2. ExchangeInv'
  BY DEF ExchangeInv, Statuses, None
<1>3. ScriptInv'
  BY EmptyScript DEF ScriptInv
<1>4. PendingInv' /\ AskedInv'
  BY DEF PendingInv, AskedInv, Running
<1>5. KeptInv'
  BY DEF KeptInv, Kept, WellAnswered
<1> QED BY <1>1, <1>2, <1>3, <1>4, <1>5

LEMMA ParseStep ==
    ASSUME SimInv, Parse
    PROVE  SimInv'
<1>1. /\ status = "none" /\ options = NoOptions /\ link = "none" /\ ~odd /\ beginRow = 0
      /\ script = <<>> /\ ~waiting /\ request = None /\ reply = None /\ server = NoSession
  BY DEF SimInv, ExchangeInv, Parse
<1>2. /\ beginRow' = beginRow /\ request' = request /\ reply' = reply /\ waiting' = waiting
      /\ link' = link /\ server' = server /\ odd' = odd
  BY DEF Parse
<1>3. CASE status' = "three" /\ UNCHANGED <<options, script>>
  <2>1. OptionsInv'
    BY <1>3 DEF SimInv, OptionsInv
  <2>2. ExchangeInv'
    BY <1>1, <1>2, <1>3 DEF SimInv, ExchangeInv, Statuses
  <2>3. ScriptInv'
    BY <1>1, <1>2, <1>3, EmptyScript DEF ScriptInv
  <2>4. PendingInv' /\ AskedInv'
    BY <1>1, <1>3 DEF PendingInv, AskedInv, Running
  <2>5. KeptInv'
    BY <1>1, <1>2, <1>3, EmptySession DEF KeptInv
  <2> QED BY <2>1, <2>2, <2>3, <2>4, <2>5 DEF SimInv
<1>4. ASSUME NEW o \in Options, o.command \in Writes <=> o.rows > 0,
             options' = o, script' = Script(o), UNCHANGED status
      PROVE  SimInv'
  <2>1. OptionsInv'
    BY <1>4 DEF OptionsInv
  <2>2. script' \in Seq(Steps) /\ Ordered(script') /\ script' # <<>> /\ Fits(o, script')
    BY <1>4, ScriptFits
  <2>3. o # NoOptions
    BY OptionsDiffer
  <2>4. ExchangeInv'
    BY <1>1, <1>2, <1>4, <2>2, <2>3 DEF SimInv, ExchangeInv
  <2>5. /\ o.command \in Commands /\ o.rows \in 0 .. MaxRows
        /\ o.end \in {"none", "commit", "rollback"} /\ o.autocommit \in Settings
    BY DEF Options
  <2>6. ScriptInv'
    BY <1>1, <1>2, <1>4, <2>2, <2>5 DEF ScriptInv, Fits, Writes
  <2>7. ~Served("insertRows")' /\ \A x : ~Served(x)'
    BY <1>1, <1>2 DEF Served, None
  <2>8. server'.durable = <<>> /\ server'.pending = <<>> /\ server'.autocommit
    BY <1>1, <1>2, EmptySession
  <2>9. Written' = 0
    BY <1>1, <1>2, <1>4, <2>2, <2>5, <2>7 DEF Written, Ahead, Fits, Writes
  <2>10. ~Ahead("closeOperation")' => options'.rows = 0
    BY <1>4, <2>2, <2>5, <2>7 DEF Ahead, Fits
  <2>11. PendingInv'
    BY <2>8, <2>9, <2>10, NoRows DEF PendingInv
  <2>12. AskedInv'
    BY <1>4, <2>2, <2>5, <2>7, <2>8 DEF AskedInv, Ahead, Fits, EndsWithOperation, Writes
  <2>13. KeptInv'
    BY <2>2, <2>8 DEF KeptInv
  <2> QED BY <2>1, <2>4, <2>6, <2>11, <2>12, <2>13 DEF SimInv
<1> QED
  <2>1. PICK line \in CommandLines :
          /\ line.command \notin Writes => line.rows = 0
          /\ line.command \in {"delete", "update"} \/ line.handles = 0
          /\ LET o == [command |-> line.command, autocommit |-> line.autocommit,
                       end |-> EndOf(line),
                       rows |-> IF line.command = "delete" THEN line.handles ELSE line.rows,
                       batch |-> BatchOf(line), skip |-> line.skip]
             IN IF Refused(line)
                THEN status' = "three" /\ UNCHANGED <<options, script>>
                ELSE options' = o /\ script' = Script(o) /\ UNCHANGED status
    BY DEF Parse
  <2> DEFINE o == [command |-> line.command, autocommit |-> line.autocommit,
                   end |-> EndOf(line),
                   rows |-> IF line.command = "delete" THEN line.handles ELSE line.rows,
                   batch |-> BatchOf(line), skip |-> line.skip]
  <2>2. CASE Refused(line)
    BY <1>3, <2>1, <2>2
  <2>3. CASE ~Refused(line)
    <3>1. /\ line.command \in Commands /\ line.autocommit \in Settings /\ line.skip \in BOOLEAN
          /\ line.rows \in 0 .. MaxRows /\ line.handles \in 0 .. MaxRows
          /\ line.batch \in 0 .. Wrap - 1
      BY DEF CommandLines
    <3>2. EndOf(line) \in {"none", "commit", "rollback"}
      BY DEF EndOf
    <3>3. BatchOf(line) \in 0 .. Wrap - 1
      BY <3>1, SimClientAssumption DEF BatchOf
    <3>4. o \in Options
      BY <3>1, <3>2, <3>3 DEF Options
    <3>5. o.command \in Writes <=> o.rows > 0
      BY <2>1, <2>3, <3>1 DEF Refused, Writes
    <3>6. options' = o /\ script' = Script(o) /\ UNCHANGED status
      BY <2>1, <2>3
    <3> HIDE DEF o
    <3> QED BY <1>4, <3>4, <3>5, <3>6
  <2> QED BY <2>2, <2>3

\* Nothing the invariant speaks of as the server's state depends on the link alone.
LEMMA ConnectStep ==
    ASSUME SimInv, Connect
    PROVE  SimInv'
<1>1. status = "none" /\ script # <<>> /\ link = "none" /\ options # NoOptions /\ server = NoSession
  BY DEF SimInv, ExchangeInv, Connect
<1>2. CASE Fail
  BY <1>1, <1>2, FailStep
<1>3. ASSUME link' = "up", server' = [server EXCEPT !.live = TRUE],
             UNCHANGED <<options, script, beginRow, request, reply, waiting, status, odd>>
      PROVE  SimInv'
  <2>1. /\ server' \in Sessions /\ server'.durable = server.durable
        /\ server'.pending = server.pending /\ server'.autocommit = server.autocommit
    BY <1>1, <1>3, EmptySession DEF Sessions
  <2>2. OptionsInv'
    BY <1>3 DEF SimInv, OptionsInv
  <2>3. RowsSent' = RowsSent
    BY <1>3 DEF RowsSent, EndRow
  <2>4. ExchangeInv'
    BY <1>1, <1>3, <2>1, <2>3 DEF SimInv, ExchangeInv
  <2>5. ScriptInv'
    BY <1>3 DEF SimInv, ScriptInv
  <2>6. Written' = Written /\ \A x : Ahead(x)' <=> Ahead(x)
    BY <1>3 DEF Written, Ahead, Served, EndRow
  <2>7. Running
    BY <1>1 DEF Running
  <2>8. PendingInv'
    BY <1>3, <2>1, <2>6, <2>7 DEF SimInv, PendingInv
  <2>9. AskedInv'
    BY <1>3, <2>1, <2>6, <2>7 DEF SimInv, AskedInv, WellAnswered, EndsWithOperation
  <2>10. KeptInv'
    BY <1>3, <2>1 DEF SimInv, KeptInv, WellAnswered, Kept
  <2> QED BY <2>2, <2>4, <2>5, <2>8, <2>9, <2>10 DEF SimInv
<1> QED BY <1>2, <1>3 DEF Connect

LEMMA SendStep ==
    ASSUME SimInv, Send
    PROVE  SimInv'
<1>1. status = "none" /\ script # <<>> /\ ~waiting /\ options # NoOptions /\ link # "none" /\ reply = None
  BY DEF SimInv, ExchangeInv, Send
<1>2. CASE Fail
  BY <1>1, <1>2, FailStep
<1>3. ASSUME link = "up", request' = [step |-> Head(script), rows |-> RowsSent, type |-> "request"],
             waiting' = TRUE,
             UNCHANGED <<options, script, beginRow, reply, status, link, server, odd>>
      PROVE  SimInv'
  <2>1. request'.step = Head(script) /\ request'.rows = RowsSent
    BY <1>3
  <2>2. OptionsInv'
    BY <1>3 DEF SimInv, OptionsInv
  <2>3. RowsSent' = RowsSent
    BY <1>3 DEF RowsSent, EndRow
  <2>4. ExchangeInv'
    BY <1>1, <1>3, <2>1, <2>3 DEF SimInv, ExchangeInv
  <2>5. ScriptInv'
    BY <1>3 DEF SimInv, ScriptInv
  <2>6. Written' = Written /\ \A x : Ahead(x)' <=> Ahead(x)
    BY <1>3 DEF Written, Ahead, Served, EndRow
  <2>8. PendingInv'
    BY <1>3, <2>6 DEF SimInv, PendingInv, Running
  <2>9. AskedInv'
    BY <1>3, <2>6 DEF SimInv, AskedInv, WellAnswered, EndsWithOperation, Running
  <2>10. KeptInv'
    BY <1>3 DEF SimInv, KeptInv, WellAnswered, Kept
  <2> QED BY <2>2, <2>4, <2>5, <2>8, <2>9, <2>10 DEF SimInv
<1> QED BY <1>2, <1>3 DEF Send

\* The invariant of what is kept does not look at what is under way or at what is pending.
LEMMA LinkGoesDown ==
    ASSUME SimInv, link' = "down", request' = None, reply' = None,
           UNCHANGED <<options, script, beginRow, odd>>,
           waiting' \in BOOLEAN, waiting' => script # <<>>,
           status' \in Statuses, script # <<>> => status' = "none", options # NoOptions,
           status = "three" => status' = "three",
           server' \in Sessions, server'.durable = server.durable
    PROVE  SimInv'
<1>0. None.type # "odd"
  BY DEF None
<1>2. OptionsInv'
  BY DEF SimInv, OptionsInv
<1>4. ExchangeInv'
  BY <1>0 DEF SimInv, ExchangeInv
<1>5. ScriptInv'
  BY DEF SimInv, ScriptInv
<1>8. PendingInv' /\ AskedInv'
  BY DEF PendingInv, AskedInv, Running
<1>10. KeptInv'
  BY DEF SimInv, KeptInv, WellAnswered, Kept
<1> QED BY <1>2, <1>4, <1>5, <1>8, <1>10 DEF SimInv

LEMMA LoseStep ==
    ASSUME SimInv, Lose
    PROVE  SimInv'
<1>1. options # NoOptions /\ waiting \in BOOLEAN /\ server \in Sessions /\ status = "none"
      /\ (waiting => script # <<>>)
  BY DEF SimInv, ExchangeInv, Lose
<1> QED BY <1>1, LinkGoesDown DEF Lose, Statuses

LEMMA DisconnectedStep ==
    ASSUME SimInv, Disconnected
    PROVE  SimInv'
<1>1. /\ link = "down" /\ server \in Sessions /\ waiting \in BOOLEAN /\ status \in Statuses
      /\ options # NoOptions /\ (waiting => script # <<>>) /\ (script # <<>> => status = "none")
      /\ request = None /\ reply = None
  BY DEF SimInv, ExchangeInv, Disconnected
<1>2. server' \in Sessions /\ server'.durable = server.durable
  BY <1>1, EndedSession DEF Disconnected
<1>3. /\ link' = link /\ request' = request /\ reply' = reply /\ waiting' = waiting
      /\ status' = status /\ UNCHANGED <<options, script, beginRow, odd>>
  BY DEF Disconnected
<1> QED BY <1>1, <1>2, <1>3, LinkGoesDown

LEMMA FinishStep ==
    ASSUME SimInv, Finish
    PROVE  SimInv'
<1>1. /\ options # NoOptions /\ script = <<>> /\ ~waiting /\ server \in Sessions /\ status = "none"
      /\ request = None /\ reply = None
  BY DEF SimInv, ExchangeInv, Finish
<1>2. /\ request' = None /\ reply' = None /\ waiting' = FALSE /\ server' = server
      /\ status' = "zero" /\ link' = "down"
      /\ UNCHANGED <<options, script, beginRow, odd>>
  BY <1>1 DEF Finish, SimInv, ExchangeInv
<1>3. status' \in Statuses
  BY <1>2 DEF Statuses
<1> QED BY <1>1, <1>2, <1>3, LinkGoesDown

\* What an accepted answer tells: the request was executed, or nothing looked at the answer.
LEMMA Accepted ==
    ASSUME SimInv, reply # None, Accepts
    PROVE  \/ reply.type = "expected"
           \/ /\ ~WellAnswered /\ options.command \in {"delete", "update"}
              /\ Head(script) \in {"setAutocommit", "closeOperation", "commit", "rollback"}
BY DEF SimInv, ExchangeInv, Accepts, Unchecked, WellAnswered

\* At the end of the script what is kept is what was asked for.
LEMMA EndOfScript ==
    OptionsInv /\ PendingInv /\ AskedInv /\ Running /\ script = <<>> /\ WellAnswered
        => server.durable = Kept
<1> SUFFICES ASSUME OptionsInv, PendingInv, AskedInv, Running, script = <<>>, WellAnswered
             PROVE  server.durable = Kept
  OBVIOUS
<1>1. ~Ahead("closeOperation") /\ ~Ahead("commit")
  BY EmptyScript DEF Ahead
<1>2. options \in Options /\ (options.command \in Writes <=> options.rows > 0)
  BY DEF OptionsInv, Running
<1>3. options.rows \in 0 .. MaxRows
  BY <1>2 DEF Options
<1>4. CASE options.command \in Writes
  BY <1>1, <1>4 DEF AskedInv, Kept, EndsWithOperation, Writes
<1>5. CASE options.command \notin Writes
  <2>1. options.rows = 0
    BY <1>2, <1>3, <1>5
  <2>2. server.durable = <<>>
    BY <1>1, <2>1, NoRows DEF PendingInv
  <2> QED BY <1>5, <2>2 DEF Kept, Writes
<1> QED BY <1>4, <1>5

LEMMA ReceiveStep ==
    ASSUME SimInv, Receive
    PROVE  SimInv'
<1>1. /\ script # <<>> /\ options # NoOptions /\ status = "none" /\ link = "up"
      /\ waiting /\ reply # None /\ request = None
  BY DEF SimInv, ExchangeInv, Receive
<1>2. CASE Fail
  BY <1>1, <1>2, FailStep
<1>3. ASSUME Accepts,
             beginRow' = IF Head(script) = "insertRows" THEN NextRow ELSE beginRow,
             script' = IF Head(script) = "insertRows" /\ NextRow < options.rows
                       THEN script ELSE Tail(script),
             reply' = None, waiting' = FALSE,
             UNCHANGED <<options, request, status, link, server, odd>>
      PROVE  SimInv'
  <2> DEFINE h == Head(script)
  <2>1. /\ script \in Seq(Steps) /\ Ordered(script)
        /\ Tail(script) \in Seq(Steps) /\ Ordered(Tail(script)) /\ h \in StepsIn(script)
        /\ StepsIn(Tail(script)) = StepsIn(script) \ {h}
        /\ \A x \in StepsIn(script) : x = h \/ Rank(h) < Rank(x)
    BY <1>1, TailOfScript DEF SimInv, ScriptInv
  <2>2. None.type # "odd" /\ None.type # "expected"
    BY DEF None
  <2>3. \A x : ~Served(x)'
    BY <1>3, <2>2 DEF Served
  <2>4. OptionsInv'
    BY <1>3 DEF SimInv, OptionsInv
  <2>5. options.rows \in Nat /\ beginRow \in 0 .. Wrap - 1
    BY <1>1 DEF SimInv, OptionsInv, Options, ExchangeInv
  <2>6. h = "insertRows" =>
           /\ NextRow = beginRow + options.batch /\ options.batch \in Nat
           /\ EndRow = IF options.rows < NextRow THEN options.rows ELSE NextRow
    BY <1>1, <2>1, <2>5, NoWrap DEF SimInv, ScriptInv
  <2>7. beginRow' \in 0 .. Wrap - 1
    <3>1. NextRow \in 0 .. Wrap - 1 \/ h # "insertRows"
      BY <2>5, <2>6, SimClientAssumption DEF NextRow
    <3> QED BY <1>3, <2>5, <3>1
  <2>8. ExchangeInv'
    BY <1>1, <1>3, <2>2, <2>7 DEF SimInv, ExchangeInv
  <2>9. ASSUME NEW x PROVE x \in StepsIn(script)' <=>
           x \in StepsIn(script) /\ (x = h => h = "insertRows" /\ NextRow < options.rows)
    BY <1>3, <2>1
  <2>10. StepsIn(script)' \subseteq StepsIn(script)
    BY <2>9
  <2>11. ScriptInv'
    <3>1. "insertRows" \in StepsIn(script)' =>
             /\ options'.command = "insert" /\ beginRow' < options'.rows
             /\ beginRow' = 0 \/ options'.batch <= beginRow'
      BY <1>3, <2>5, <2>6, <2>9 DEF SimInv, ScriptInv
    <3>2. "insertRows" \in StepsIn(script)' \/ "writeRows" \in StepsIn(script)'
             => "closeOperation" \in StepsIn(script)'
      <4>1. "insertRows" \in StepsIn(script) \/ "writeRows" \in StepsIn(script)
               => h # "closeOperation" /\ "closeOperation" \in StepsIn(script)
        BY <2>1, RanksOf DEF SimInv, ScriptInv
      <4> QED BY <2>9, <2>10, <4>1
    <3>3. "closeOperation" \in StepsIn(script)' =>
             /\ options'.command \in Writes
             /\ options'.end = "commit" /\ options'.command # "update" => "commit" \in StepsIn(script)'
      <4>1. "closeOperation" \in StepsIn(script) => h # "commit"
        BY <2>1, RanksOf
      <4> QED BY <1>3, <2>9, <4>1 DEF SimInv, ScriptInv
    <3>4. script' \in Seq(Steps) /\ Ordered(script')
      BY <1>3, <2>1
    <3> QED BY <1>3, <2>10, <3>1, <3>2, <3>3, <3>4 DEF SimInv, ScriptInv
  <2>12. ASSUME reply.type = "expected" PROVE PendingInv' /\ AskedInv'
    <3>1. \A x : Served(x) <=> x = h
      BY <1>1, <2>12 DEF Served
    <3>2. \A x : (x # "insertRows" => (Ahead(x)' <=> Ahead(x)))
      BY <2>3, <2>9, <3>1 DEF Ahead
    <3>3. Written' = Written
      <4>1. CASE h = "insertRows" /\ NextRow < options.rows
        <5>1. "insertRows" \in StepsIn(script) /\ "insertRows" \in StepsIn(script)'
          BY <2>1, <2>9, <4>1
        <5>2. Written = EndRow /\ EndRow = NextRow
          BY <2>5, <2>6, <3>1, <4>1, <5>1 DEF Written
        <5>3. Written' = beginRow' /\ beginRow' = NextRow
          BY <1>3, <2>3, <4>1, <5>1 DEF Written
        <5> QED BY <5>2, <5>3
      <4>2. CASE h = "insertRows" /\ ~(NextRow < options.rows)
        <5>1. "insertRows" \in StepsIn(script) /\ "insertRows" \notin StepsIn(script)'
          BY <2>1, <2>9, <4>2
        <5>2. "writeRows" \notin StepsIn(script)
          BY <5>1 DEF SimInv, ScriptInv
        <5>3. Written = EndRow /\ EndRow = options.rows
          BY <2>5, <2>6, <3>1, <4>2, <5>1 DEF Written
        <5>4. Written' = options'.rows
          BY <2>10, <5>1, <5>2 DEF Written, Ahead
        <5> QED BY <1>3, <5>3, <5>4
      <4>3. CASE h # "insertRows"
        <5>1. "insertRows" \in StepsIn(script)' <=> "insertRows" \in StepsIn(script)
          BY <2>9, <4>3
        <5> QED BY <1>3, <2>3, <3>1, <3>2, <4>3, <5>1 DEF Written
      <4> QED BY <4>1, <4>2, <4>3
    <3>4. PendingInv'
      BY <1>3, <3>2, <3>3 DEF SimInv, PendingInv, Running
    <3>5. AskedInv'
      BY <1>3, <3>2 DEF SimInv, AskedInv, Running, WellAnswered, EndsWithOperation
    <3> QED BY <3>4, <3>5
  <2>13. ASSUME reply.type # "expected" PROVE PendingInv' /\ AskedInv'
    <3>1. /\ ~WellAnswered /\ options.command \in {"delete", "update"}
          /\ h \in {"setAutocommit", "closeOperation", "commit", "rollback"}
      BY <1>1, <1>3, <2>13, Accepted
    <3>2. AskedInv'
      BY <1>3, <3>1 DEF AskedInv, WellAnswered
    <3>3. \A x : ~Served(x)
      BY <2>13 DEF Served
    <3>4. \A x : Ahead(x) <=> x \in StepsIn(script)
      BY <3>3 DEF Ahead
    <3>5. \A x : Ahead(x)' <=> x \in StepsIn(script) /\ x # h
      BY <2>3, <2>9, <3>1 DEF Ahead
    <3>6. "insertRows" \notin StepsIn(script) /\ "insertRows" \notin StepsIn(script)'
      BY <2>10, <3>1 DEF SimInv, ScriptInv
    <3>7. Written' = Written
      BY <1>3, <3>1, <3>4, <3>5, <3>6 DEF Written
    <3>8. h = "closeOperation" => Written = options.rows
      BY <2>1, <3>4, <3>6, RanksOf DEF Written
    <3>9. Running
      BY <1>1 DEF Running
    <3>10. PendingInv'
      BY <1>3, <2>1, <3>4, <3>5, <3>7, <3>8, <3>9 DEF SimInv, PendingInv, Running
    <3> QED BY <3>2, <3>10
  <2>14. PendingInv' /\ AskedInv' /\ Running'
    <3>1. Running'
      BY <1>1, <1>3 DEF Running
    <3> QED BY <2>12, <2>13, <3>1
  <2>15. KeptInv'
    <3>1. (OptionsInv /\ PendingInv /\ AskedInv /\ Running /\ script = <<>> /\ WellAnswered
              => server.durable = Kept)'
      BY EndOfScript, PTL
    <3>2. WellAnswered' /\ script' = <<>> => server'.durable = Kept'
      BY <2>4, <2>14, <3>1
    <3> QED BY <1>3, <3>2 DEF SimInv, KeptInv, WellAnswered, Kept
  <2> QED BY <2>4, <2>8, <2>11, <2>14, <2>15 DEF SimInv
<1> QED BY <1>2, <1>3 DEF Receive

\* The server executes the request the client is at; the order of the script says what
\* it has executed before.
LEMMA ServeStep ==
    ASSUME SimInv, Serve
    PROVE  SimInv'
<1>1. /\ request # None /\ waiting /\ link = "up" /\ reply = None /\ script # <<>> /\ status = "none"
      /\ options # NoOptions /\ request.step = Head(script) /\ request.rows = RowsSent
      /\ server \in Sessions
  BY DEF SimInv, ExchangeInv, Serve
<1>2. PICK type \in {"expected", "error", "odd"} :
          /\ reply' = [step |-> request.step, rows |-> <<>>, type |-> type]
          /\ server' = IF type = "expected" THEN Executed(server, request) ELSE server
          /\ odd' = (odd \/ type = "odd")
  BY DEF Serve
<1>3. /\ request' = None /\ UNCHANGED <<options, script, beginRow, waiting, status, link>>
  BY DEF Serve
<1> DEFINE h == Head(script)
<1>4. /\ script \in Seq(Steps) /\ h \in StepsIn(script)
      /\ \A x \in StepsIn(script) : x = h \/ Rank(h) < Rank(x)
  BY <1>1, TailOfScript DEF SimInv, ScriptInv
<1>5. /\ options \in Options /\ options.rows \in 0 .. MaxRows /\ beginRow \in Nat
      /\ (options.command \in Writes <=> options.rows > 0)
  BY <1>1 DEF SimInv, OptionsInv, Options, ExchangeInv
<1>6. reply'.type = type /\ reply'.step = h /\ odd' \in BOOLEAN /\ (type = "odd" => odd')
  BY <1>1, <1>2 DEF SimInv, ExchangeInv
<1>7. \A x : ~Served(x)
  <2>1. None.type # "expected"
    BY DEF None
  <2> QED BY <1>1, <2>1 DEF Served
<1>8. \A x : Ahead(x) <=> x \in StepsIn(script)
  BY <1>7 DEF Ahead
<1>9. \A x : Served(x)' <=> x = h /\ type = "expected"
  BY <1>1, <1>3, <1>6 DEF Served
<1>10. \A x : Ahead(x)' <=> x \in StepsIn(script) /\ ~(x = h /\ type = "expected")
  BY <1>3, <1>9 DEF Ahead
<1>11. WellAnswered' => WellAnswered
  BY <1>2, <1>3 DEF WellAnswered
<1>12. OptionsInv' /\ ScriptInv'
  BY <1>3 DEF SimInv, OptionsInv, ScriptInv
<1>13. Running /\ Running'
  BY <1>1, <1>3 DEF Running
<1>14. EndRow' = EndRow
  BY <1>3 DEF EndRow
<1>15. "insertRows" \in StepsIn(script) \/ "writeRows" \in StepsIn(script)
          => "closeOperation" \in StepsIn(script)
  BY DEF SimInv, ScriptInv
<1>16. "insertRows" \in StepsIn(script) => "writeRows" \notin StepsIn(script)
  BY DEF SimInv, ScriptInv
<1> DEFINE goal == /\ server' \in Sessions /\ PendingInv' /\ AskedInv'
                   /\ server'.durable \in {<<>>, Rows(options.rows)}
                   /\ WellAnswered' /\ Kept = <<>> => server'.durable = <<>>
<1>17. goal => SimInv'
  <2>1. ASSUME goal PROVE ExchangeInv'
    <3>1. server' \in Sessions
      BY <2>1
    <3> HIDE DEF goal
    <3> QED BY <1>1, <1>3, <1>6, <3>1 DEF SimInv, ExchangeInv
  <2>2. ASSUME goal PROVE KeptInv'
    BY <1>1, <1>3, <2>2 DEF KeptInv, Kept
  <2> QED BY <1>12, <2>1, <2>2 DEF SimInv
<1>18. ASSUME type # "expected" PROVE goal
  <2>1. server' = server
    BY <1>2, <1>18
  <2>2. Written' = Written
    BY <1>3, <1>7, <1>8, <1>9, <1>10, <1>14, <1>18 DEF Written
  <2>3. PendingInv'
    BY <1>3, <1>8, <1>10, <1>13, <1>18, <2>1, <2>2 DEF SimInv, PendingInv
  <2>4. AskedInv'
    BY <1>3, <1>8, <1>10, <1>11, <1>13, <1>18, <2>1 DEF SimInv, AskedInv, EndsWithOperation
  <2> QED BY <1>1, <1>11, <2>1, <2>3, <2>4 DEF SimInv, KeptInv
<1>19. ASSUME type = "expected" PROVE goal
  <2> DEFINE commits == h = "commit" \/ (h = "closeOperation" /\ server.autocommit)
             rows == Rows(options.rows)
  <2>1. /\ server'.durable = IF commits THEN server.durable \o server.pending ELSE server.durable
        /\ server'.pending = IF h \in {"insertRows", "writeRows"} THEN server.pending \o RowsSent
                             ELSE IF commits \/ h \in {"rollback", "close"} THEN <<>>
                             ELSE server.pending
        /\ h # "setAutocommit" => server'.autocommit = server.autocommit
        /\ h = "setAutocommit" => (server'.autocommit <=> options.autocommit = "on")
        /\ (h \in {"insertRows", "writeRows"} => server.pending \o RowsSent \in Seq(1 .. MaxRows))
              => server' \in Sessions
    <3>1. server' = Executed(server, request)
      BY <1>2, <1>19
    <3>2. LET c == request.step = "commit" \/ (request.step = "closeOperation" /\ server.autocommit)
          IN  /\ server'.durable = IF c THEN server.durable \o server.pending ELSE server.durable
              /\ server'.pending = IF request.step \in {"insertRows", "writeRows"}
                                   THEN server.pending \o request.rows
                                   ELSE IF c \/ request.step \in {"rollback", "close"} THEN <<>>
                                   ELSE server.pending
              /\ request.step # "setAutocommit" => server'.autocommit = server.autocommit
              /\ request.step = "setAutocommit" => (server'.autocommit <=> options.autocommit = "on")
              /\ (request.step \in {"insertRows", "writeRows"}
                     => server.pending \o request.rows \in Seq(1 .. MaxRows)) => server' \in Sessions
      BY <1>1, <3>1, ExecutedSession, Zenon
    <3> QED BY <1>1, <3>2
  <2>2. rows \in Seq(1 .. MaxRows) /\ server.durable \in Seq(1 .. MaxRows)
        /\ server.pending \in Seq(1 .. MaxRows)
    BY <1>1, <1>5, RowsAreRows DEF Sessions
  <2>3. server.pending \o <<>> = server.pending /\ <<>> \o server.pending = server.pending
        /\ rows \o <<>> = rows /\ <<>> \o rows = rows
    BY <2>2, NothingAdded
  <2>4. h = "insertRows" =>
           /\ EndRow \in beginRow .. options.rows
           /\ server.durable = <<>> /\ server.pending = Rows(beginRow)
    BY <1>1, <1>4, <1>5, <1>7, <1>8, <1>13, <1>15, NoWrap
       DEF SimInv, ScriptInv, PendingInv, Written
  <2>5. \A x : Ahead(x)' <=> x \in StepsIn(script) /\ x # h
    BY <1>10, <1>19
  <2>6. rows \in {<<>>, rows} /\ <<>> \in {<<>>, rows}
    OBVIOUS
  <2> HIDE DEF rows
  <2>7. ASSUME h = "insertRows" PROVE goal
    <3>1. RowsSent = [r \in 1 .. EndRow - beginRow |-> beginRow + r]
      BY <2>7 DEF RowsSent
    <3>11. EndRow \in beginRow .. options.rows /\ server.pending = Rows(beginRow)
      BY <2>4, <2>7
    <3>3. EndRow \in 0 .. MaxRows /\ EndRow \in Nat /\ beginRow <= EndRow
      BY <1>5, <3>11, SimClientAssumption
    <3>2. server.pending \o RowsSent = Rows(EndRow)
      BY <1>5, <3>1, <3>3, <3>11, RowsContinue
    <3>4. Rows(EndRow) \in Seq(1 .. MaxRows)
      BY <3>3, RowsAreRows
    <3>5. server' \in Sessions /\ server'.durable = <<>> /\ server'.pending = Rows(EndRow)
          /\ server'.autocommit = server.autocommit
      BY <2>1, <2>4, <2>7, <3>2, <3>4
    <3>6. Written' = EndRow
      BY <1>3, <1>4, <1>9, <1>14, <1>19, <2>7 DEF Written
    <3>7. Ahead("closeOperation")'
      BY <1>4, <1>15, <2>5, <2>7
    <3>8. PendingInv'
      BY <3>5, <3>6, <3>7 DEF PendingInv
    <3>9. Ahead("setAutocommit")' <=> Ahead("setAutocommit")
      BY <1>8, <2>5, <2>7
    <3>10. AskedInv'
      BY <1>3, <1>11, <1>13, <3>5, <3>7, <3>9 DEF SimInv, AskedInv, EndsWithOperation
    <3> QED BY <3>5, <3>8, <3>10
  <2>8. ASSUME h = "writeRows" PROVE goal
    <3>1. RowsSent = rows /\ "insertRows" \notin StepsIn(script)
      BY <1>4, <1>16, <2>8 DEF RowsSent, rows, Rows
    <3>2. Written = 0 /\ Written' = options.rows
      BY <1>3, <1>4, <1>8, <2>5, <2>8, <3>1 DEF Written
    <3>3. server.durable = <<>> /\ server.pending = <<>>
      BY <1>4, <1>8, <1>13, <1>15, <2>8, <3>2, NoRows DEF SimInv, PendingInv
    <3>5. server' \in Sessions /\ server'.durable = <<>> /\ server'.pending = rows
          /\ server'.autocommit = server.autocommit
      BY <2>1, <2>2, <2>3, <2>8, <3>1, <3>3
    <3>7. Ahead("closeOperation")'
      BY <1>4, <1>15, <2>5, <2>8
    <3>8. PendingInv'
      BY <3>2, <3>5, <3>7 DEF PendingInv, rows
    <3>9. Ahead("setAutocommit")' <=> Ahead("setAutocommit")
      BY <1>8, <2>5, <2>8
    <3>10. AskedInv'
      BY <1>3, <1>11, <1>13, <3>5, <3>7, <3>9 DEF SimInv, AskedInv, EndsWithOperation
    <3> QED BY <3>5, <3>8, <3>10
  <2>9. \A x \in StepsIn(script) : Rank(x) < Rank(h) => FALSE
    BY <1>4, RankRange
  <2>10. ASSUME h = "closeOperation" PROVE goal
    <3>1. /\ "insertRows" \notin StepsIn(script) /\ "writeRows" \notin StepsIn(script)
          /\ "setAutocommit" \notin StepsIn(script)
      BY <2>9, <2>10, RanksOf
    <3>2. Ahead("closeOperation") /\ ~Ahead("closeOperation")' /\ Written = options.rows
      BY <1>4, <1>8, <2>5, <2>10, <3>1 DEF Written
    <3>3. server.durable = <<>> /\ server.pending = rows
      BY <1>13, <3>2 DEF SimInv, PendingInv, rows
    <3>4. options.command \in Writes
          /\ (options.end = "commit" /\ options.command # "update" => "commit" \in StepsIn(script))
      BY <1>4, <2>10 DEF SimInv, ScriptInv
    <3>5. WellAnswered' => (server.autocommit <=> EndsWithOperation)
      BY <1>8, <1>11, <1>13, <3>1, <3>4 DEF SimInv, AskedInv
    <3>6. server' \in Sessions /\ server'.autocommit = server.autocommit
          /\ IF server.autocommit THEN server'.durable = rows /\ server'.pending = <<>>
             ELSE server'.durable = <<>> /\ server'.pending = rows
      BY <2>1, <2>2, <2>3, <2>10, <3>3
    <3>7. PendingInv'
      BY <1>3, <3>2, <3>6 DEF PendingInv, rows
    <3>8. EndsWithOperation' <=> EndsWithOperation
      BY <1>3 DEF EndsWithOperation
    <3>9. options.end = "commit" /\ ~Ahead("commit")' => EndsWithOperation
      BY <2>5, <2>10, <3>4 DEF EndsWithOperation
    <3>10. AskedInv'
      BY <1>3, <3>5, <3>6, <3>8, <3>9 DEF AskedInv, rows
    <3>11. WellAnswered' /\ Kept = <<>> => server'.durable = <<>>
      BY <3>4, <3>5, <3>6 DEF Kept, EndsWithOperation, Writes, rows
    <3> QED BY <3>6, <3>7, <3>10, <3>11 DEF rows
  <2>11. \A x : Rank(x) < Rank(h) => ~Ahead(x) /\ ~Ahead(x)'
    BY <1>8, <2>5, <2>9
  <2>12. ASSUME h = "commit" PROVE goal
    <3>1. /\ ~Ahead("closeOperation") /\ ~Ahead("closeOperation")'
          /\ ~Ahead("setAutocommit") /\ ~Ahead("setAutocommit")' /\ Ahead("commit") /\ ~Ahead("commit")'
      BY <1>4, <1>8, <2>5, <2>11, <2>12, RanksOf
    <3>2. options.command \in {"insert", "delete"} /\ options.end = "commit"
      BY <1>4, <2>12 DEF SimInv, ScriptInv
    <3>3. \/ server.durable = <<>> /\ server.pending \in {<<>>, rows}
          \/ server.durable = rows /\ server.pending = <<>>
      BY <1>13, <3>1 DEF SimInv, PendingInv, rows
    <3>4. WellAnswered' => /\ server.autocommit <=> EndsWithOperation
                          /\ IF EndsWithOperation THEN server.durable = rows
                             ELSE server.durable = <<>> /\ server.pending = rows
      BY <1>11, <1>13, <3>1, <3>2 DEF SimInv, AskedInv, Writes, rows
    <3>5. server' \in Sessions /\ server'.autocommit = server.autocommit
          /\ server'.durable \in {<<>>, rows} /\ server'.pending = <<>>
          /\ (WellAnswered' => server'.durable = rows)
      BY <2>1, <2>2, <2>3, <2>12, <3>3, <3>4, NothingAdded
    <3>6. PendingInv'
      BY <1>3, <3>1, <3>5 DEF PendingInv, rows
    <3>7. AskedInv'
      BY <1>3, <3>1, <3>2, <3>4, <3>5 DEF AskedInv, EndsWithOperation, rows
    <3>8. WellAnswered' /\ Kept = <<>> => server'.durable = <<>>
      BY <3>2, <3>5 DEF Kept, rows
    <3> QED BY <3>5, <3>6, <3>7, <3>8 DEF rows
  <2>13. ASSUME h \in {"rollback", "close"} PROVE goal
    <3>1. /\ ~Ahead("closeOperation") /\ ~Ahead("closeOperation")'
          /\ ~Ahead("setAutocommit") /\ ~Ahead("setAutocommit")'
      BY <2>11, <2>13, RanksOf
    <3>2. Ahead("commit")' => h = "rollback"
      BY <2>11, <2>13, RanksOf
    <3>3. h = "rollback" => options.end # "commit"
      BY <1>4, <2>13 DEF SimInv, ScriptInv
    <3>4. options.end = "commit" => ~Ahead("commit")' /\ ~Ahead("commit")
      BY <2>11, <2>13, <3>2, <3>3, RanksOf
    <3>5. server' \in Sessions /\ server'.autocommit = server.autocommit
          /\ server'.durable = server.durable /\ server'.pending = <<>>
      BY <2>1, <2>13
    <3>6. PendingInv'
      BY <1>3, <1>13, <3>1, <3>5 DEF SimInv, PendingInv
    <3>7. AskedInv'
      BY <1>3, <1>11, <1>13, <3>1, <3>4, <3>5 DEF SimInv, AskedInv, EndsWithOperation
    <3> QED BY <1>11, <3>5, <3>6, <3>7 DEF SimInv, KeptInv
  <2>14. ASSUME h \notin {"insertRows", "writeRows", "closeOperation", "commit", "rollback", "close"}
         PROVE goal
    <3>1. server' \in Sessions /\ server'.durable = server.durable /\ server'.pending = server.pending
          /\ (h # "setAutocommit" => server'.autocommit = server.autocommit)
          /\ (h = "setAutocommit" => (server'.autocommit <=> options.autocommit = "on"))
      BY <2>1, <2>14
    <3>2. \A x : x # "setAutocommit" /\ x \in {"insertRows", "writeRows", "closeOperation", "commit"}
              => (Ahead(x)' <=> Ahead(x))
      BY <1>8, <2>5, <2>14
    <3>3. ~Served("insertRows")' /\ ~Served("insertRows")
      BY <1>7, <1>9, <2>14
    <3>4. Written' = Written
      BY <1>3, <3>2, <3>3 DEF Written
    <3>5. PendingInv'
      BY <1>3, <1>13, <3>1, <3>2, <3>4 DEF SimInv, PendingInv
    <3>6. ~Ahead("setAutocommit")' /\ options.command \in Writes /\ WellAnswered'
             => (server'.autocommit <=> EndsWithOperation)
      <4>1. CASE h = "setAutocommit"
        <5>1. options.command # "update" /\ options.autocommit \in {"on", "off"}
          BY <1>4, <1>5, <4>1 DEF SimInv, ScriptInv, Options, Settings
        <5> QED BY <3>1, <4>1, <5>1 DEF EndsWithOperation
      <4>2. CASE h # "setAutocommit"
        <5>1. ~Ahead("setAutocommit")' => ~Ahead("setAutocommit")
          BY <1>8, <2>5, <4>2
        <5> QED BY <1>11, <1>13, <3>1, <4>2, <5>1 DEF SimInv, AskedInv
      <4> QED BY <4>1, <4>2
    <3>7. EndsWithOperation' <=> EndsWithOperation
      BY <1>3 DEF EndsWithOperation
    <3>8. AskedInv'
      BY <1>3, <1>11, <1>13, <3>1, <3>2, <3>6, <3>7 DEF SimInv, AskedInv
    <3> QED BY <1>11, <3>1, <3>5, <3>8 DEF SimInv, KeptInv
  <2> QED BY <2>7, <2>8, <2>10, <2>12, <2>13, <2>14
<1> HIDE DEF goal
<1> QED BY <1>17, <1>18, <1>19

LEMMA StutterStep ==
    ASSUME SimInv, UNCHANGED vars
    PROVE  SimInv'
BY DEF SimInv, vars, OptionsInv, ExchangeInv, ScriptInv, PendingInv, AskedInv, KeptInv, Running,
       Written, Ahead, Served, EndRow, RowsSent, WellAnswered, Kept, EndsWithOperation

LEMMA SimNext == SimInv /\ [Next]_vars => SimInv'
<1> SUFFICES ASSUME SimInv, [Next]_vars PROVE SimInv'
  OBVIOUS
<1>1. CASE Parse
  BY <1>1, ParseStep
<1>2. CASE Connect
  BY <1>2, ConnectStep
<1>3. CASE Send
  BY <1>3, SendStep
<1>4. CASE Receive
  BY <1>4, ReceiveStep
<1>5. CASE ReceiveNothing
  <2>1. options # NoOptions /\ Fail
    BY <1>5 DEF ReceiveNothing, SimInv, ExchangeInv
  <2> QED BY <2>1, FailStep
<1>6. CASE Finish
  BY <1>6, FinishStep
<1>7. CASE Serve
  BY <1>7, ServeStep
<1>8. CASE Lose
  BY <1>8, LoseStep
<1>9. CASE Disconnected
  BY <1>9, DisconnectedStep
<1>10. CASE UNCHANGED vars \/ Over
  BY <1>10, StutterStep DEF Over
<1> QED BY <1>1, <1>2, <1>3, <1>4, <1>5, <1>6, <1>7, <1>8, <1>9, <1>10 DEF Next, Client

\* What the client knows, what is under way and what the server holds belong together in
\* every reachable state.
THEOREM SimHolds == Spec => []SimInv
<1>1. Init => SimInv
  BY SimInit
<1>2. SimInv /\ [Next]_vars => SimInv'
  BY SimNext
<1> QED BY <1>1, <1>2, PTL DEF Spec

\* Type correctness: the variables are within their ranges, an answer under way is the one
\* the client waits for, and adding a batch to the position in the insert loop never wraps
\* around.
THEOREM TypeCorrect == Spec => []TypeOK
<1>1. SimInv => TypeOK
  <2> SUFFICES ASSUME SimInv PROVE TypeOK
    OBVIOUS
  <2>1. options.rows \in 0 .. MaxRows /\ options.batch \in 0 .. Wrap - 1
    BY SimClientAssumption DEF SimInv, OptionsInv, Options, NoOptions
  <2>2. ASSUME script # <<>>, Head(script) = "insertRows"
        PROVE  beginRow < options.rows /\ beginRow + options.batch < Wrap
    <3>1. "insertRows" \in StepsIn(script)
      BY <2>2, TailOfScript DEF SimInv, ScriptInv
    <3>2. /\ beginRow < options.rows /\ beginRow \in Nat
          /\ beginRow = 0 \/ options.batch <= beginRow
      BY <3>1 DEF SimInv, ScriptInv, ExchangeInv
    <3> QED BY <2>1, <3>2, SimClientAssumption
  <2> QED BY <2>1, <2>2 DEF SimInv, ExchangeInv, Sessions, TypeOK
<1> QED BY <1>1, SimHolds, PTL

\* Whatever breaks, and whichever batch it breaks in, a command's rows are kept all of
\* them, each once and in order, or none of them.
THEOREM RowsAreKeptTogether == Spec => []AllOrNothing
<1>1. SimInv => AllOrNothing
  BY DEF SimInv, KeptInv, AllOrNothing
<1> QED BY <1>1, SimHolds, PTL

\* A command that ends with status 0 has kept the rows its options ask for, and rows they
\* do not ask for are never kept - but an update that is not to keep its rows has kept all
\* of them - unless a delete or an update was answered with a message of a type it does not
\* look at.
THEOREM RowsAreKeptAsAsked == Spec => []KeptAsAsked
<1>1. SimInv => KeptAsAsked
  <2> SUFFICES ASSUME SimInv, WellAnswered PROVE KeptAsAsked
    BY DEF KeptAsAsked
  <2>1. status = "zero" => server.durable = Kept
    BY DEF SimInv, ExchangeInv, KeptInv
  <2>2. Kept = <<>> => server.durable = <<>>
    BY DEF SimInv, KeptInv
  <2>3. CASE options.command = "update"
    <3>1. Kept = Rows(options.rows)
      BY <2>3 DEF Kept
    <3>2. Heeded => Asked = Kept
      BY <2>3, <3>1 DEF Heeded
    <3> QED BY <2>1, <2>2, <3>1, <3>2 DEF KeptAsAsked
  <2>4. CASE options.command # "update"
    <3>1. Asked = Kept
      BY <2>4 DEF Asked, Kept, Writes
    <3> QED BY <2>1, <2>2, <2>4, <3>1 DEF KeptAsAsked, Heeded
  <2> QED BY <2>3, <2>4
<1> QED BY <1>1, SimHolds, PTL

=============================================================================
