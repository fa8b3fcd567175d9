-------------------------- MODULE SessionRpcProof --------------------------
(***************************************************************************)
(* Proofs about SessionRpc for every number of calls, every set of calls   *)
(* and every category: its type invariant, its inductive invariant, the    *)
(* safety properties that follow, and that it implements SessionContract.  *)
(*                                                                         *)
(* Beyond the inductive invariant IInv the refinement rests on what the    *)
(* server's transaction holds of the writes the caller counts on           *)
(* (TransactionInv) and on which categories arise (CategoryInv); both are  *)
(* preserved by every step that keeps IInv.                                *)
(***************************************************************************)
EXTENDS SessionRpcInvariant, SessionRpcRefinement, SequenceTheorems, TLAPS

-----------------------------------------------------------------------------
(* The helpers.                                                            *)

\* A failure and a decoded category are categories, never a success.
LEMMA FailureType ==
    ASSUME NEW k, NEW c \in Categories
    PROVE  Failure(k, c) \in Categories
BY DEF Failure, Categories, ServerCategories

LEMMA DecodedType ==
    ASSUME NEW c
    PROVE  decodeErrorCategory(c) \in ServerCategories
BY DEF decodeErrorCategory, ServerCategories

\* A verdict is a category or "ok", and "ok" only for an undamaged-looking reply of
\* the expected type with the request's id.
LEMMA VerdictType ==
    ASSUME NEW m \in Reply, NEW id \in Nat, NEW k
    PROVE  Verdict(m, id, k) \in Categories \cup {"ok"}
<1>1. CASE m.type = "bad" /\ m.category = "ok"
  BY <1>1 DEF Verdict, Failure
<1>2. CASE m.type = "bad" /\ m.category # "ok"
  BY <1>2, FailureType DEF Verdict, Reply
<1>3. CASE m.type # "bad" /\ m.id # id
  BY <1>3 DEF Verdict, Categories, ServerCategories
<1>4. CASE m.type = "error" /\ m.id = id
  <2>1. decodeErrorCategory(m.category) \in Categories
    BY DecodedType DEF Categories
  <2>2. Verdict(m, id, k) = Failure(k, decodeErrorCategory(m.category))
    BY <1>4 DEF Verdict
  <2> QED BY <2>1, <2>2, FailureType
<1>5. CASE m.type = "other" /\ m.id = id
  BY <1>5 DEF Verdict, Categories, ServerCategories
<1>6. CASE m.type = "result" /\ m.id = id
  BY <1>6 DEF Verdict, Reply
<1> QED BY <1>1, <1>2, <1>3, <1>4, <1>5, <1>6 DEF Reply

\* What the channels hold after a message was added or taken.
LEMMA PostType ==
    ASSUME toClient \in Seq(Reply), NEW m \in Reply
    PROVE  Post(m) \in Seq(Reply)
BY DEF Post

LEMMA NothingOnTheWire == <<>> \in Seq(Request) /\ <<>> \in Seq(Reply)
OBVIOUS

\* What a write, or a part of one, adds to the bytes on their way: nothing, the request
\* that was written, or the one that was unfinished.
LEMMA WriteFacts ==
    ASSUME NEW r \in Request, Written(r) \/ WrittenInPart(r)
    PROVE  \/ toServer' = toServer /\ rest' \in {rest, r, Beheaded, Junk}
           \/ toServer' = Append(toServer, r) /\ rest' = Nothing
           \/ /\ rest \in Request /\ toServer' = Append(toServer, rest)
              /\ rest' \in {Nothing, Junk}
BY DEF Written, WrittenInPart, Follow

LEMMA WriteType ==
    ASSUME TypeOK, NEW r \in Request, Written(r) \/ WrittenInPart(r)
    PROVE  toServer' \in Seq(Request) /\ rest' \in Rests
<1>1. toServer' \in Seq(Request)
  <2>1. PICK e \in Request : toServer' = toServer \/ toServer' = Append(toServer, e)
    BY WriteFacts
  <2>2. toServer \in Seq(Request)
    BY DEF TypeOK
  <2>3. Append(toServer, e) \in Seq(Request)
    BY <2>2
  <2> QED BY <2>1, <2>2, <2>3
<1>2. rest' \in Rests
  BY WriteFacts DEF TypeOK, Rests
<1> QED BY <1>1, <1>2

LEMMA DamagedType ==
    ASSUME NEW m \in Reply, NEW d \in Damaged(m)
    PROVE  d \in Reply
<1> USE SessionRpcAssumption DEF SessionRpcAssumption, Reply, Categories, ServerCategories
<1>1. CASE \E c \in CarrierErrors :
              d = [m EXCEPT !.type = "bad", !.category = c, !.genuine = FALSE]
  BY <1>1
<1>2. CASE \E t \in {"other", "error"} :
              d = [m EXCEPT !.type = t, !.category = "protocol_error", !.genuine = FALSE]
  BY <1>2
<1>3. CASE d = [m EXCEPT !.id = 0, !.genuine = FALSE]
  BY <1>3
<1>4. CASE d = [m EXCEPT !.category = "protocol_error", !.genuine = FALSE]
  BY <1>4
<1> QED BY <1>1, <1>2, <1>3, <1>4 DEF Damaged

-----------------------------------------------------------------------------
(* Type correctness.                                                       *)

LEMMA InitType == Init => TypeOK
<1> SUFFICES ASSUME Init PROVE TypeOK
  OBVIOUS
<1>1. /\ kind \in [Ids -> Kinds \cup {"none"}]
      /\ outcome \in [Ids -> Outcomes]
      /\ heard \in [Ids -> {"nothing", "own", "stray", "damaged"}]
  BY DEF Init, Outcomes
<1>2. nextId \in 1 .. MaxCalls + 1 /\ waiting \in 0 .. MaxCalls
  BY SessionRpcAssumption DEF Init, SessionRpcAssumption
<1> QED BY <1>1, <1>2, NothingOnTheWire DEF Init, TypeOK, Rests

LEMMA ReturnType ==
    ASSUME TypeOK, NEW id \in Ids, NEW k, NEW v \in Categories \cup {"ok"},
           NEW breaks \in BOOLEAN, NEW unread \in Seq(Reply),
           Return(id, k, v, breaks, unread)
    PROVE  /\ outcome' \in [Ids -> Outcomes] /\ waiting' \in 0 .. MaxCalls
           /\ closed' \in BOOLEAN /\ life' \in {"alive", "dying", "dead"}
           /\ open' \in BOOLEAN /\ toClient' \in Seq(Reply)
<1>1. <<>> \in Seq(Reply)
  OBVIOUS
<1>2. waiting' = 0 /\ 0 \in 0 .. MaxCalls
  BY SessionRpcAssumption DEF Return, SessionRpcAssumption
<1> QED BY <1>1, <1>2 DEF Return, TypeOK, Outcomes

LEMMA NextType == TypeOK /\ [Next]_vars => TypeOK'
<1> SUFFICES ASSUME TypeOK, [Next]_vars PROVE TypeOK'
  OBVIOUS
<1> USE SessionRpcAssumption
<1>0. ASSUME NEW k \in Kinds, MayCall(k)
      PROVE  nextId \in Ids /\ nextId + 1 \in 1 .. MaxCalls + 1
  BY <1>0 DEF MayCall, TypeOK, Ids, SessionRpcAssumption
<1>1. ASSUME NEW k \in Kinds, Send(k) PROVE TypeOK'
  <2>1. [id |-> nextId, kind |-> k] \in Request
    BY <1>0, <1>1 DEF Request, Send
  <2>2. toServer' \in Seq(Request) /\ rest' \in Rests
    BY <1>1, <2>1, WriteType DEF Send
  <2>3. outcome' \in [Ids -> Outcomes] /\ waiting' \in 0 .. MaxCalls
    BY <1>0, <1>1 DEF Send, TypeOK, Outcomes, Ids
  <2>4. kind' \in [Ids -> Kinds \cup {"none"}] /\ nextId' \in 1 .. MaxCalls + 1
    BY <1>0, <1>1 DEF Send, Number, TypeOK
  <2> QED BY <1>1, <2>2, <2>3, <2>4 DEF Send, TypeOK, server
<1>2. ASSUME NEW k \in Kinds, SendFails(k) \/ SendIsCutShort(k) PROVE TypeOK'
  <2>1. MayCall(k) /\ Number(k)
        /\ Return(nextId, k, Failure(k, "transport_error"), FALSE, toClient)
    BY <1>2 DEF SendFails, SendIsCutShort
  <2>2. Failure(k, "transport_error") \in Categories
    BY FailureType DEF Categories, ServerCategories
  <2>3. toClient \in Seq(Reply) /\ nextId \in Ids
    BY <1>0, <2>1 DEF TypeOK
  <2>4. /\ outcome' \in [Ids -> Outcomes] /\ waiting' \in 0 .. MaxCalls
        /\ closed' \in BOOLEAN /\ life' \in {"alive", "dying", "dead"}
        /\ open' \in BOOLEAN /\ toClient' \in Seq(Reply)
    BY <2>1, <2>2, <2>3, ReturnType
  <2>5. kind' \in [Ids -> Kinds \cup {"none"}] /\ nextId' \in 1 .. MaxCalls + 1
    BY <1>0, <2>1 DEF Number, TypeOK
  <2>6. toServer' \in Seq(Request) /\ rest' \in Rests /\ cut' \subseteq Ids
    <3>1. [id |-> nextId, kind |-> k] \in Request
      BY <2>3 DEF Request
    <3> QED BY <1>2, <2>3, <3>1, WriteType DEF SendFails, SendIsCutShort, TypeOK
  <2> QED BY <1>2, <2>4, <2>5, <2>6 DEF SendFails, SendIsCutShort, TypeOK, server
<1>3. CASE Receive
  <2> DEFINE m == Head(toClient)
             v == Verdict(m, waiting, kind[waiting])
  <2>1. m \in Reply /\ Tail(toClient) \in Seq(Reply) /\ waiting \in Ids
    BY <1>3 DEF Receive, TypeOK, Ids
  <2>2. v \in Categories \cup {"ok"}
    BY <2>1, VerdictType DEF Ids
  <2>3. BreaksConnection(m, waiting) \in BOOLEAN
    BY DEF BreaksConnection
  <2>4. Return(waiting, kind[waiting], v, BreaksConnection(m, waiting), Tail(toClient))
    BY <1>3 DEF Receive
  <2> HIDE DEF v, m
  <2>5. /\ outcome' \in [Ids -> Outcomes] /\ waiting' \in 0 .. MaxCalls
        /\ closed' \in BOOLEAN /\ life' \in {"alive", "dying", "dead"}
        /\ open' \in BOOLEAN /\ toClient' \in Seq(Reply)
    BY <2>1, <2>2, <2>3, <2>4, ReturnType
  <2>6. heard' \in [Ids -> {"nothing", "own", "stray", "damaged"}]
    BY <1>3, <2>1 DEF Receive, TypeOK
  <2> QED BY <1>3, <2>5, <2>6 DEF Receive, TypeOK, server
<1>4. CASE ReceiveFails
  <2>1. waiting \in Ids /\ <<>> \in Seq(Reply)
    BY <1>4 DEF ReceiveFails, TypeOK, Ids
  <2>2. Failure(kind[waiting], "transport_error") \in Categories
    BY FailureType DEF Categories, ServerCategories
  <2>3. /\ outcome' \in [Ids -> Outcomes] /\ waiting' \in 0 .. MaxCalls
        /\ closed' \in BOOLEAN /\ life' \in {"alive", "dying", "dead"}
        /\ open' \in BOOLEAN /\ toClient' \in Seq(Reply)
    BY <1>4, <2>1, <2>2, ReturnType DEF ReceiveFails
  <2> QED BY <1>4, <2>3 DEF ReceiveFails, TypeOK, server
<1>5. CASE Destroy
  BY <1>5 DEF Destroy, TypeOK, network, server, history
<1>6. CASE Serve
  <2> DEFINE r == Head(toServer)
             m == [id |-> r.id, type |-> "result", category |-> "ok", genuine |-> TRUE]
  <2>1. r \in Request /\ Tail(toServer) \in Seq(Request)
    BY <1>6 DEF Serve, TypeOK
  <2>2. r.id \in Ids
    BY <2>1 DEF Request
  <2>3. m \in Reply
    BY <2>2 DEF Reply, Ids
  <2>4. Execute(r) /\ toClient' = Post(m) /\ toServer' = Tail(toServer)
        /\ UNCHANGED <<client, history, rest>>
    BY <1>6 DEF Serve
  <2> HIDE DEF r, m
  <2>5. toClient' \in Seq(Reply)
    BY <2>3, <2>4, PostType DEF TypeOK
  <2>6. staged' \subseteq Ids /\ durable' \subseteq Ids /\ served' \subseteq Ids
    BY <2>2, <2>4 DEF Execute, TypeOK
  <2>7. serverUp' \in BOOLEAN /\ autocommit' \in BOOLEAN
    BY <2>4 DEF Execute, TypeOK
  <2> QED BY <2>1, <2>4, <2>5, <2>6, <2>7 DEF TypeOK, client, history
<1>7. CASE Refuse
  <2> DEFINE r == Head(toServer)
  <2>0. r \in Request /\ Tail(toServer) \in Seq(Request)
    BY <1>7 DEF Refuse, TypeOK
  <2>1. r \in Request /\ Tail(toServer) \in Seq(Request) /\ r.id \in Ids
    BY <2>0 DEF Request
  <2>2. PICK c \in WireCategories :
           toClient' = Post([id |-> r.id, type |-> "error", category |-> c, genuine |-> TRUE])
    BY <1>7 DEF Refuse
  <2>3. [id |-> r.id, type |-> "error", category |-> c, genuine |-> TRUE] \in Reply
    BY <2>1 DEF Reply, Ids, SessionRpcAssumption
  <2>4. toClient' \in Seq(Reply)
    BY <2>2, <2>3, PostType DEF TypeOK
  <2> QED BY <1>7, <2>1, <2>4 DEF Refuse, TypeOK, client, history
<1>8. CASE RefuseJunk
  <2>1. [id |-> 0, type |-> "error", category |-> "protocol_error", genuine |-> TRUE] \in Reply
    BY DEF Reply, Categories, ServerCategories
  <2>2. toClient' \in Seq(Reply)
    BY <1>8, <2>1, PostType DEF RefuseJunk, TypeOK
  <2> QED BY <1>8, <2>2, NothingOnTheWire DEF RefuseJunk, Leave, TypeOK, Rests, client, history
<1>9. CASE NoticeClose
  BY <1>9, NothingOnTheWire DEF NoticeClose, Leave, TypeOK, Rests, client, history
<1>10. CASE Disconnect
  <2>1. toClient' \in Seq(Reply)
    BY <1>10, NothingOnTheWire DEF Disconnect, TypeOK
  <2> QED BY <1>10, <2>1, NothingOnTheWire DEF Disconnect, Leave, TypeOK, Rests, client, history
<1>11. CASE Damage
  <2>1. PICK m \in Damaged(Head(toClient)) : toClient' = <<m>> \o Tail(toClient)
    BY <1>11 DEF Damage
  <2>2. Head(toClient) \in Reply /\ Tail(toClient) \in Seq(Reply)
    BY <1>11 DEF Damage, TypeOK
  <2>3. m \in Reply
    BY <2>2, DamagedType
  <2>4. toClient' \in Seq(Reply)
    BY <2>1, <2>2, <2>3
  <2> QED BY <1>11, <2>4 DEF Damage, TypeOK, client, server, history
<1>12. CASE Duplicate
  <2>0. Head(toClient) \in Reply
    BY <1>12 DEF Duplicate, TypeOK
  <2>1. [Head(toClient) EXCEPT !.genuine = FALSE] \in Reply
    BY <2>0 DEF Reply
  <2>2. toClient' \in Seq(Reply)
    BY <1>12, <2>1 DEF Duplicate, TypeOK
  <2> QED BY <1>12, <2>2 DEF Duplicate, TypeOK, client, server, history
<1>13. CASE UNCHANGED vars
  BY <1>13 DEF TypeOK, vars, client, network, server, history
<1> QED
  BY <1>1, <1>2, <1>3, <1>4, <1>5, <1>6, <1>7, <1>8, <1>9, <1>10, <1>11, <1>12, <1>13
  DEF Next

\* TypeOK holds of every reachable state.
THEOREM TypeCorrect == Spec => []TypeOK
<1>1. Init => TypeOK
  BY InitType
<1>2. TypeOK /\ [Next]_vars => TypeOK'
  BY NextType
<1> QED BY <1>1, <1>2, PTL DEF Spec

-----------------------------------------------------------------------------
(* The inductive invariant: one lemma per action, and one for the three    *)
(* ways a call can begin.                                                  *)

LEMMA InitIInv == Init => IInv
BY DEF Init, IInv, NumberingInv, RequestInv, ReplyInv, InStepInv, OutOfStepInv, CutOnceInv,
       SuccessIsServed, OutcomeInv, CompletionInv, WriteInv, DefiniteFailure,
       ServerCategories, Completions, Ids, Request, Nothing

\* What is in the channels.
LEMMA ChannelFacts ==
    ASSUME TypeOK
    PROVE  /\ \A j \in DOMAIN toClient : toClient[j] \in Reply /\ toClient[j].id \in Nat
           /\ DOMAIN toClient = 1 .. Len(toClient) /\ Len(toClient) \in Nat
           /\ toClient # <<>> => Head(toClient) = toClient[1] /\ 1 \in DOMAIN toClient
           /\ \A j \in DOMAIN toServer : toServer[j] \in Request /\ toServer[j].id \in Ids
           /\ DOMAIN toServer = 1 .. Len(toServer) /\ Len(toServer) \in Nat
           /\ toServer # <<>> <=> 1 \in DOMAIN toServer
           /\ toServer # <<>> => Head(toServer) = toServer[1] /\ toServer[1].id \in Ids
           /\ rest \in Request => rest.id \in Ids
<1>1. \A j \in DOMAIN toClient : toClient[j] \in Reply
  BY DEF TypeOK
<1>2. \A j \in DOMAIN toServer : toServer[j] \in Request
  BY DEF TypeOK
<1>3. DOMAIN toClient = 1 .. Len(toClient) /\ Len(toClient) \in Nat
  BY DEF TypeOK
<1>4. DOMAIN toServer = 1 .. Len(toServer) /\ Len(toServer) \in Nat
  BY DEF TypeOK
<1>5. toClient # <<>> => Head(toClient) = toClient[1] /\ 1 \in DOMAIN toClient
  BY DEF TypeOK
<1>6. toServer # <<>> <=> 1 \in DOMAIN toServer
  BY DEF TypeOK
<1>7. toServer # <<>> => Head(toServer) = toServer[1]
  BY DEF TypeOK
<1>8. \A r \in Request : r.id \in Ids
  BY DEF Request
<1>9. \A m \in Reply : m.id \in Nat
  BY DEF Reply
<1> QED BY <1>1, <1>2, <1>3, <1>4, <1>5, <1>6, <1>7, <1>8, <1>9

\* What the invariant says of an open connection when a call begins.
LEMMA IdleFacts ==
    ASSUME TypeOK, IInv, NEW k \in Kinds, MayCall(k)
    PROVE  /\ nextId \in Ids /\ waiting = 0 /\ nextId \in Nat
           /\ open => \A j \in DOMAIN toServer : toServer[j].id \in cut
           /\ open /\ cut = {} => toServer = <<>>
           /\ cut = {} => \A j \in DOMAIN toClient : ~toClient[j].genuine
           /\ nextId \notin served /\ nextId \notin staged /\ nextId \notin durable
           /\ nextId \notin cut
           /\ kind[nextId] = "none" /\ outcome[nextId] = "none" /\ heard[nextId] = "nothing"
<1>1. nextId \in Ids /\ waiting = 0 /\ nextId \in Nat
  BY SessionRpcAssumption DEF MayCall, TypeOK, Ids, SessionRpcAssumption
<1>2. open => \A j \in DOMAIN toServer : toServer[j].id \in cut
  BY <1>1, ChannelFacts DEF IInv, RequestInv, Ids
<1>3. open /\ cut = {} => toServer = <<>>
  BY <1>1 DEF IInv, RequestInv
<1>4. cut = {} => \A j \in DOMAIN toClient : ~toClient[j].genuine
  BY <1>1 DEF IInv, InStepInv
<1>5. nextId \notin served /\ nextId \notin staged /\ nextId \notin durable /\ nextId \notin cut
  BY <1>1 DEF IInv, NumberingInv, OutcomeInv, WriteInv
<1>6. kind[nextId] = "none" /\ outcome[nextId] = "none" /\ heard[nextId] = "nothing"
  BY <1>1 DEF IInv, NumberingInv, Ids
<1> QED BY <1>1, <1>2, <1>3, <1>4, <1>5, <1>6

\* What a return leaves of the connection.
LEMMA ReturnFacts ==
    ASSUME NEW id, NEW k, NEW v, NEW breaks \in BOOLEAN, NEW unread, TypeOK,
           Return(id, k, v, breaks, unread)
    PROVE  /\ outcome' = [outcome EXCEPT ![id] = v] /\ waiting' = 0
           /\ \/ open' = open /\ toClient' = unread /\ ~breaks
              \/ open' = FALSE /\ toClient' = <<>>
BY DEF Return, TypeOK

\* A failure of the transport is a definite failure of no completion.
LEMMA TransportFailure ==
    ASSUME NEW k
    PROVE  /\ Failure(k, "transport_error") \notin {"none", "pending", "ok"}
           /\ k \in Completions => ~DefiniteFailure(Failure(k, "transport_error"))
BY DEF Failure, DefiniteFailure, ServerCategories

\* The five things that can happen to the bytes on their way when a call begins: they
\* stay as they are, a whole request or the first part of one is added, the unfinished
\* request is completed, or the unfinished header is and does not decode.
Kept == /\ toServer' = toServer /\ rest' = rest
        /\ serverUp /\ nextId \in cut' => rest # Nothing
Sent(k) == /\ open /\ serverUp /\ rest = Nothing /\ rest' = Nothing /\ waiting' = nextId
           /\ toServer' = Append(toServer, [id |-> nextId, kind |-> k])
Started(k) == /\ open /\ serverUp /\ rest = Nothing /\ nextId \in cut'
              /\ rest' \in {[id |-> nextId, kind |-> k], Beheaded}
              /\ toServer' = toServer
Finished == /\ open /\ serverUp /\ rest \in Request
            /\ toServer' = Append(toServer, rest) /\ rest' \in {Nothing, Junk}
Lost == /\ open /\ serverUp /\ rest = Beheaded /\ rest' = Junk /\ toServer' = toServer

\* The call waits for its reply, or it failed at once with o.
Waits(o) == /\ o = "pending" /\ waiting' = nextId /\ open /\ open' = open
            /\ toClient' = toClient /\ cut' = cut
Failed(k, o) ==
    /\ o \notin {"none", "pending", "ok"} /\ (k \in Completions => ~DefiniteFailure(o))
    /\ waiting' = 0
    /\ (open' = open /\ toClient' = toClient) \/ (open' = FALSE /\ toClient' = <<>>)
    /\ \/ cut' = cut /\ toServer' = toServer /\ rest' = rest
       \/ open /\ cut' = cut \cup {nextId}

Begins(k, o) ==
    /\ kind' = [kind EXCEPT ![nextId] = k] /\ nextId' = nextId + 1
    /\ outcome' = [outcome EXCEPT ![nextId] = o] /\ heard' = heard
    /\ serverUp' = serverUp /\ staged' = staged /\ durable' = durable /\ served' = served
    /\ Waits(o) \/ Failed(k, o)
    /\ Kept \/ Sent(k) \/ Started(k) \/ Finished \/ Lost

LEMMA CallBegins ==
    ASSUME TypeOK, IInv, NEW k \in Kinds, Send(k) \/ SendFails(k) \/ SendIsCutShort(k)
    PROVE  MayCall(k) /\ \E o : Begins(k, o)
<1> DEFINE r == [id |-> nextId, kind |-> k]
           v == Failure(k, "transport_error")
<1>1. MayCall(k) /\ Number(k) /\ server' = server /\ heard' = heard
  BY DEF Send, SendFails, SendIsCutShort
<1>2. nextId \in Ids /\ nextId \notin cut /\ waiting = 0
  BY <1>1, IdleFacts
<1>3. r \in Request
  BY <1>2 DEF Request
<1>4. v \notin {"none", "pending", "ok"} /\ (k \in Completions => ~DefiniteFailure(v))
  BY TransportFailure
<1>5. CASE Send(k)
  <2>1. Waits("pending")
    BY <1>5 DEF Send, Waits
  <2>2. nextId \notin cut'
    BY <1>2, <1>5 DEF Send
  <2>3. Kept \/ Sent(k) \/ Finished \/ Lost
    BY <1>5, <2>2 DEF Send, Written, Follow, Kept, Sent, Finished, Lost
  <2>4. Begins(k, "pending")
    BY <1>1, <1>5, <2>1, <2>3 DEF Begins, Number, Send, server
  <2> QED BY <1>1, <2>4
<1>6. CASE SendFails(k)
  <2>0. Return(nextId, k, v, FALSE, toClient) /\ cut' = cut /\ toServer' = toServer /\ rest' = rest
    BY <1>6 DEF SendFails
  <2>1. Failed(k, v) /\ outcome' = [outcome EXCEPT ![nextId] = v]
    <3> HIDE DEF v
    <3> QED BY <1>4, <2>0, ReturnFacts DEF Failed
  <2>2. Kept
    BY <1>2, <1>6 DEF SendFails, Kept
  <2> HIDE DEF v
  <2>3. Begins(k, v)
    BY <1>1, <2>1, <2>2 DEF Begins, Number, server
  <2> QED BY <1>1, <2>3
<1>7. CASE SendIsCutShort(k)
  <2>0. Return(nextId, k, v, FALSE, toClient) /\ open /\ cut' = cut \cup {nextId}
    BY <1>7 DEF SendIsCutShort
  <2>1. Failed(k, v) /\ outcome' = [outcome EXCEPT ![nextId] = v]
    <3> HIDE DEF v
    <3> QED BY <1>4, <2>0, ReturnFacts DEF Failed
  <2>2. Kept \/ Started(k) \/ Finished \/ Lost
    BY <1>7 DEF SendIsCutShort, WrittenInPart, Follow, Kept, Started, Finished, Lost
  <2> HIDE DEF v
  <2>3. Begins(k, v)
    BY <1>1, <2>1, <2>2 DEF Begins, Number, server
  <2> QED BY <1>1, <2>3
<1> QED BY <1>5, <1>6, <1>7

\* What a beginning call leaves alone.
LEMMA BeginFacts ==
    ASSUME TypeOK, IInv, NEW k \in Kinds, MayCall(k), NEW o, Begins(k, o)
    PROVE  /\ \A i \in Ids : i # nextId => kind'[i] = kind[i] /\ outcome'[i] = outcome[i]
           /\ kind'[nextId] = k /\ outcome'[nextId] = o /\ o # "ok" /\ o # "none"
           /\ k # "none" /\ (k \in Completions => ~DefiniteFailure(o))
           /\ open' => open
           /\ cut \subseteq cut' /\ cut' \subseteq cut \cup {nextId}
           /\ waiting' \in {0, nextId} /\ waiting' \notin cut'
<1>1. nextId \in Ids /\ nextId \notin cut /\ waiting = 0
  BY IdleFacts
<1>2. \A i \in Ids : i # nextId => kind'[i] = kind[i] /\ outcome'[i] = outcome[i]
  BY <1>1 DEF TypeOK, Begins
<1>3. kind'[nextId] = k /\ outcome'[nextId] = o
  BY <1>1 DEF TypeOK, Begins
<1>4. o # "ok" /\ o # "none" /\ (open' => open) /\ waiting' \in {0, nextId}
      /\ cut \subseteq cut' /\ cut' \subseteq cut \cup {nextId}
  BY DEF Begins, Waits, Failed
<1>5. k \in Completions => ~DefiniteFailure(o)
  BY DEF Begins, Waits, Failed, DefiniteFailure, ServerCategories
<1>6. waiting' \notin cut'
  BY <1>1 DEF Begins, Waits, Failed, TypeOK, Ids
<1>7. k # "none"
  BY DEF Kinds
<1> QED BY <1>2, <1>3, <1>4, <1>5, <1>6, <1>7

LEMMA BeginNumbering ==
    ASSUME TypeOK, IInv, NEW k \in Kinds, MayCall(k), NEW o, Begins(k, o)
    PROVE  NumberingInv'
<1>1. nextId \in Ids /\ waiting = 0 /\ nextId \in Nat
      /\ kind[nextId] = "none" /\ outcome[nextId] = "none" /\ heard[nextId] = "nothing"
  BY IdleFacts
<1>2. /\ \A i \in Ids : i # nextId => kind'[i] = kind[i] /\ outcome'[i] = outcome[i]
      /\ kind'[nextId] = k /\ outcome'[nextId] = o /\ o # "none" /\ k # "none"
      /\ cut' \subseteq cut \cup {nextId} /\ waiting' \notin cut'
  BY BeginFacts
<1>3. nextId' = nextId + 1 /\ heard' = heard /\ served' = served
  BY DEF Begins
<1>4. /\ \A i \in Ids : i >= nextId' => i # nextId /\ i >= nextId
      /\ \A i \in Ids : i < nextId' => i = nextId \/ i < nextId
      /\ \A i \in Nat : i < nextId => i < nextId'
      /\ nextId < nextId' /\ nextId = nextId' - 1
  BY <1>1, <1>3 DEF Ids
<1>5. waiting' # 0 => o = "pending" /\ open' /\ waiting' = nextId
  BY DEF Begins, Waits, Failed
<1>6. o = "pending" => waiting' = nextId
  BY DEF Begins, Waits, Failed
<1>7. \A i \in Ids : i # nextId => outcome'[i] # "pending"
  BY <1>1, <1>2 DEF IInv, NumberingInv, Ids
<1>8. \A i \in served' : i < nextId'
  BY <1>1, <1>3, <1>4 DEF IInv, NumberingInv, TypeOK, Ids
<1>9. \A i \in cut' : i < nextId' /\ i # waiting' /\ heard'[i] = "nothing"
  BY <1>1, <1>2, <1>3, <1>4 DEF IInv, NumberingInv, TypeOK, Ids
<1>10. \A i \in Ids : i >= nextId' => /\ outcome'[i] = "none" /\ kind'[i] = "none"
                                      /\ heard'[i] = "nothing"
  BY <1>2, <1>3, <1>4 DEF IInv, NumberingInv
<1>11. \A i \in Ids : i < nextId' => kind'[i] # "none" /\ outcome'[i] # "none"
  BY <1>2, <1>4 DEF IInv, NumberingInv
<1> QED BY <1>1, <1>2, <1>3, <1>4, <1>5, <1>6, <1>7, <1>8, <1>9, <1>10, <1>11 DEF NumberingInv

\* After the step r is on its way and not executed.
Still(r) == /\ r.id < nextId' /\ r.id \notin served'
            /\ kind'[r.id] = r.kind /\ outcome'[r.id] # "ok"

\* A request is added behind the others.
LEMMA AppendedRequest ==
    ASSUME TypeOK, NEW e \in Request, Still(e), toServer' = Append(toServer, e),
           \A j \in DOMAIN toServer : /\ Still(toServer[j])
                                      /\ toServer[j].id \in cut' /\ toServer[j].id < e.id,
           \A j, l \in DOMAIN toServer : j < l => toServer[j].id < toServer[l].id,
           e.id \in cut' \/ (open' => e.id = waiting'),
           rest' \notin Request, waiting' \notin served',
           cut' = {} => toServer = <<>> /\ rest' = Nothing /\ (open' => waiting' # 0)
    PROVE  RequestInv'
<1> DEFINE n == Len(toServer)
<1>1. /\ n \in Nat /\ DOMAIN toServer = 1 .. n /\ DOMAIN toServer' = 1 .. n + 1
      /\ Len(toServer') = n + 1 /\ toServer'[n + 1] = e
      /\ \A j \in 1 .. n : toServer'[j] = toServer[j]
  BY DEF TypeOK
<1>2. cut' = {} => n = 0
  BY DEF TypeOK
<1> HIDE DEF n
<1>3. \A j \in 1 .. n + 1 : j = n + 1 \/ j \in 1 .. n
  BY <1>1
<1>4. \A j \in DOMAIN toServer' :
         /\ Still(toServer'[j])
         /\ toServer'[j].id \notin cut' => j = Len(toServer') /\ (open' => toServer'[j].id = waiting')
  BY <1>1, <1>3
<1>5. \A j, l \in DOMAIN toServer' : j < l => toServer'[j].id < toServer'[l].id
  <2> SUFFICES ASSUME NEW j \in 1 .. n + 1, NEW l \in 1 .. n + 1, j < l
               PROVE  toServer'[j].id < toServer'[l].id
    BY <1>1
  <2>1. j \in 1 .. n
    BY <1>1
  <2>2. CASE l = n + 1
    BY <1>1, <2>1, <2>2
  <2>3. CASE l \in 1 .. n
    BY <1>1, <2>1, <2>3
  <2> QED BY <1>3, <2>2, <2>3
<1> QED BY <1>1, <1>2, <1>4, <1>5 DEF RequestInv, Outstanding, Still

LEMMA BeginRequest ==
    ASSUME TypeOK, IInv, NEW k \in Kinds, MayCall(k), NEW o, Begins(k, o)
    PROVE  RequestInv'
<1> DEFINE r == [id |-> nextId, kind |-> k]
<1>1. /\ nextId \in Ids /\ waiting = 0 /\ nextId \in Nat /\ nextId \notin served
      /\ open => \A j \in DOMAIN toServer : toServer[j].id \in cut
      /\ open /\ cut = {} => toServer = <<>>
  BY IdleFacts
<1>2. /\ \A i \in Ids : i # nextId => kind'[i] = kind[i] /\ outcome'[i] = outcome[i]
      /\ kind'[nextId] = k /\ outcome'[nextId] = o /\ o # "ok" /\ (open' => open)
      /\ cut \subseteq cut' /\ cut' \subseteq cut \cup {nextId}
      /\ waiting' \in {0, nextId}
  BY BeginFacts
<1>3. nextId' = nextId + 1 /\ served' = served
  BY DEF Begins
<1>4. waiting' \notin served'
  BY <1>1, <1>2, <1>3 DEF TypeOK, Ids
<1>5. \A e \in Request : Outstanding(e) => Still(e)
  <2> SUFFICES ASSUME NEW e \in Request, Outstanding(e) PROVE Still(e)
    OBVIOUS
  <2>1. e.id \in Ids /\ e.id < nextId
    BY DEF Request, Outstanding
  <2>2. e.id # nextId /\ e.id < nextId'
    BY <1>1, <1>3, <2>1 DEF Ids
  <2> QED BY <1>2, <1>3, <2>1, <2>2 DEF Outstanding, Still
<1>6. /\ \A j \in DOMAIN toServer : Still(toServer[j]) /\ toServer[j].id < nextId
      /\ \A j, l \in DOMAIN toServer : j < l => toServer[j].id < toServer[l].id
  BY <1>5, ChannelFacts DEF IInv, RequestInv, Outstanding
<1>7. rest \in Request => /\ Still(rest) /\ rest.id \in cut /\ rest.id \in cut' /\ rest.id < nextId
                          /\ \A j \in DOMAIN toServer : toServer[j].id < rest.id
  BY <1>2, <1>5 DEF IInv, RequestInv, Outstanding
<1>8. r \in Request /\ r.id = nextId /\ r.kind = k /\ Still(r)
  BY <1>1, <1>2, <1>3 DEF Request, Still
<1>9. /\ Nothing \notin Request /\ Junk \notin Request /\ Beheaded \notin Request
  BY DEF Request, Nothing, Junk, Beheaded, Ids
<1>10. /\ cut = {} => rest = Nothing /\ Len(toServer) <= 1
       /\ cut' = {} => cut = {}
  BY <1>2 DEF IInv, RequestInv
<1> HIDE DEF r
<1>11. ASSUME toServer' = toServer, rest' = rest \/ rest' \notin Request \/ (rest' = r /\ r.id \in cut'),
              cut' = {} => rest' = Nothing
       PROVE  RequestInv'
  <2>1. \A j \in DOMAIN toServer : toServer[j].id \notin cut' => j = Len(toServer) /\ ~open'
    BY <1>2, <1>1 DEF IInv, RequestInv
  <2>2. rest' \in Request => /\ Still(rest') /\ rest'.id \in cut'
                             /\ \A j \in DOMAIN toServer : toServer[j].id < rest'.id
    BY <1>6, <1>7, <1>8, <1>11
  <2>3. cut' = {} => Len(toServer) <= 1 /\ (toServer # <<>> /\ open' => waiting' # 0)
    BY <1>1, <1>2, <1>10
  <2> QED BY <1>4, <1>6, <1>11, <2>1, <2>2, <2>3 DEF RequestInv, Outstanding, Still
<1>12. CASE Kept
  BY <1>10, <1>11, <1>12 DEF Kept
<1>13. CASE Started(k)
  BY <1>8, <1>9, <1>11, <1>13 DEF Started, r
<1>14. CASE Lost
  <2>1. cut' # {}
    BY <1>10, <1>14 DEF Lost, Nothing, Beheaded
  <2> QED BY <1>9, <1>11, <1>14, <2>1 DEF Lost
<1>15. CASE Sent(k)
  <2>1. toServer' = Append(toServer, r) /\ open /\ rest' = Nothing /\ waiting' = r.id
    BY <1>8, <1>15 DEF Sent, r
  <2>2. \A j \in DOMAIN toServer : toServer[j].id \in cut' /\ toServer[j].id < r.id
    BY <1>1, <1>2, <1>6, <1>8, <2>1
  <2>3. cut' = {} => toServer = <<>> /\ rest' = Nothing /\ (open' => waiting' # 0)
    BY <1>1, <1>8, <1>10, <2>1 DEF Ids
  <2> QED BY <1>4, <1>6, <1>8, <1>9, <2>1, <2>2, <2>3, AppendedRequest
<1>16. CASE Finished
  <2>1. toServer' = Append(toServer, rest) /\ open /\ rest \in Request /\ rest' \notin Request
    BY <1>9, <1>16 DEF Finished
  <2>2. \A j \in DOMAIN toServer : toServer[j].id \in cut' /\ toServer[j].id < rest.id
    BY <1>1, <1>2, <1>7, <2>1
  <2>3. cut' # {}
    BY <1>7, <2>1
  <2> QED BY <1>4, <1>6, <1>7, <2>1, <2>2, <2>3, AppendedRequest
<1> QED BY <1>12, <1>13, <1>14, <1>15, <1>16 DEF Begins

\* The requests on their way when a call began were on their way before, or are its own.
LEMMA BeginStream ==
    ASSUME TypeOK, IInv, NEW k \in Kinds, MayCall(k), NEW o, Begins(k, o)
    PROVE  /\ \A j \in DOMAIN toServer' :
                 \/ j \in DOMAIN toServer /\ toServer'[j] = toServer[j]
                 \/ Sent(k) /\ toServer'[j].id = nextId
                 \/ Finished /\ toServer'[j] = rest /\ j = Len(toServer')
           /\ rest' \in Request => rest' = rest \/ rest'.id = nextId
           /\ toServer' # <<>> => 1 \in DOMAIN toServer'
<1>0. toServer' # <<>> => 1 \in DOMAIN toServer'
  <2>1. PICK e : toServer' = toServer \/ toServer' = Append(toServer, e)
    BY DEF Begins, Kept, Sent, Started, Finished, Lost
  <2>2. CASE toServer' = toServer
    BY <2>2, ChannelFacts
  <2>3. CASE toServer' = Append(toServer, e)
    BY <2>3 DEF TypeOK
  <2> QED BY <2>1, <2>2, <2>3
<1>1. ASSUME NEW e \in Request, toServer' = Append(toServer, e)
      PROVE  \A j \in DOMAIN toServer' :
                \/ j \in DOMAIN toServer /\ toServer'[j] = toServer[j]
                \/ toServer'[j] = e /\ j = Len(toServer')
  BY <1>1 DEF TypeOK
<1>2. CASE Kept
  BY <1>0, <1>2 DEF Kept
<1>3. CASE Started(k)
  <2>1. toServer' = toServer /\ (rest' = [id |-> nextId, kind |-> k] \/ rest' = Beheaded)
    BY <1>3 DEF Started
  <2>2. Beheaded \notin Request
    BY DEF Beheaded, Request, Ids
  <2>3. rest' \in Request => rest'.id = nextId
    BY <2>1, <2>2
  <2> QED BY <1>0, <2>1, <2>3
<1>4. CASE Lost
  BY <1>0, <1>4 DEF Lost, Request, Junk, Ids
<1>5. CASE Sent(k)
  <2> DEFINE e == [id |-> nextId, kind |-> k]
  <2>1. e \in Request /\ e.id = nextId /\ toServer' = Append(toServer, e)
    BY <1>5, IdleFacts DEF Sent, Request
  <2>2. rest' = rest
    BY <1>5 DEF Sent
  <2> HIDE DEF e
  <2> QED BY <1>0, <1>1, <1>5, <2>1, <2>2
<1>6. CASE Finished
  <2>1. rest' \notin Request
    BY <1>6 DEF Finished, Request, Nothing, Junk, Ids
  <2> QED BY <1>0, <1>1, <1>6, <2>1 DEF Finished
<1> QED BY <1>2, <1>3, <1>4, <1>5, <1>6 DEF Begins

LEMMA BeginReplies ==
    ASSUME TypeOK, IInv, NEW k \in Kinds, MayCall(k), NEW o, Begins(k, o)
    PROVE  ReplyInv' /\ InStepInv'
<1>1. /\ nextId \in Ids /\ nextId \in Nat /\ (open /\ cut = {} => toServer = <<>>)
      /\ cut = {} => \A j \in DOMAIN toClient : ~toClient[j].genuine
  BY IdleFacts
<1>2. /\ nextId' = nextId + 1 /\ served' = served
      /\ waiting' \in {0, nextId} /\ (cut' = {} => cut = {})
  BY BeginFacts DEF Begins
<1>3. (toClient' = toClient /\ open' = open) \/ (toClient' = <<>> /\ open' = FALSE)
  BY DEF Begins, Waits, Failed
<1>4. CASE toClient' = <<>>
  BY <1>4 DEF ReplyInv, InStepInv
<1>5. CASE toClient' = toClient /\ open' = open /\ toClient # <<>>
  <2>1. open
    BY <1>5 DEF IInv, ReplyInv
  <2>2. \A j \in DOMAIN toClient : toClient[j].id < nextId /\ toClient[j].id # nextId
                                   /\ toClient[j].id < nextId + 1
    BY <1>1, ChannelFacts DEF IInv, ReplyInv
  <2>3. ReplyInv'
    BY <1>2, <1>5, <2>1, <2>2 DEF IInv, ReplyInv
  <2>4. cut' = {} /\ toServer' # <<>> => waiting' = nextId
    <3> SUFFICES ASSUME cut' = {}, toServer' # <<>>, waiting' # nextId PROVE FALSE
      OBVIOUS
    <3>1. toServer' = toServer
      BY DEF Begins, Waits, Failed
    <3> QED BY <1>1, <1>2, <2>1, <3>1
  <2>5. InStepInv'
    BY <1>1, <1>2, <1>5, <2>2, <2>4 DEF InStepInv
  <2> QED BY <2>3, <2>5
<1> QED BY <1>3, <1>4, <1>5

LEMMA BeginOutOfStep ==
    ASSUME TypeOK, IInv, NEW k \in Kinds, MayCall(k), NEW o, Begins(k, o)
    PROVE  OutOfStepInv'
<1>1. nextId \in Ids /\ nextId \in Nat /\ waiting = 0
  BY IdleFacts
<1>2. \A j \in DOMAIN toClient : toClient[j].id # nextId
  BY <1>1, ChannelFacts DEF IInv, ReplyInv
<1>3. \A j \in DOMAIN toServer : toServer[j].id # nextId
  BY <1>1, ChannelFacts DEF IInv, RequestInv, Outstanding, Ids
<1>4. rest \in Request => rest.id # nextId
  BY <1>1, ChannelFacts DEF IInv, RequestInv, Outstanding, Ids
<1>5. cut # {} /\ open /\ serverUp => toServer # <<>> \/ rest # Nothing \/ toClient # <<>>
  BY <1>1 DEF IInv, OutOfStepInv
<1>6. ASSUME cut' # {}, waiting' # 0
      PROVE  /\ \A j \in DOMAIN toClient' : toClient'[j].id # waiting'
             /\ toServer' # <<>> /\ toServer'[1].id = waiting' =>
                   \E l \in DOMAIN toClient' : toClient'[l].id # waiting'
  <2>1. waiting' = nextId /\ toClient' = toClient /\ cut' = cut /\ open
    BY <1>6 DEF Begins, Waits, Failed
  <2>2. ASSUME toServer' # <<>>, toServer'[1].id = nextId
        PROVE  \E l \in DOMAIN toClient : toClient[l].id # nextId
    <3>1. 1 \in DOMAIN toServer'
      BY <2>2, BeginStream
    <3>2. Sent(k)
      BY <1>3, <1>4, <2>2, <3>1, BeginStream DEF Finished
    <3>3. toServer = <<>>
      BY <1>3, <2>2, <3>2, ChannelFacts DEF Sent, TypeOK
    <3>4. toClient # <<>>
      BY <1>5, <1>6, <2>1, <3>2, <3>3 DEF Sent
    <3> QED BY <1>2, <3>4, ChannelFacts
  <2> QED BY <1>2, <2>1, <2>2
<1>7. ASSUME cut' # {}, waiting' = 0, open', serverUp'
      PROVE  toServer' # <<>> \/ rest' # Nothing \/ toClient' # <<>>
  <2>1. nextId # 0
    BY <1>1 DEF Ids
  <2>2. ~Waits(o)
    BY <1>7, <2>1 DEF Waits
  <2>3. Failed(k, o) /\ serverUp' = serverUp
    BY <2>2 DEF Begins
  <2>4. toClient' = toClient /\ open /\ serverUp /\ Failed(k, o)
    BY <1>7, <2>3 DEF Failed
  <2>5. CASE Kept
    <3>1. nextId \in cut' => rest' # Nothing
      BY <2>4, <2>5 DEF Kept
    <3>2. nextId \notin cut' => cut' = cut
      BY <2>4 DEF Failed
    <3> QED BY <1>5, <1>7, <2>4, <2>5, <3>1, <3>2 DEF Kept
  <2>6. CASE Started(k)
    <3>1. rest'.kind # "nothing"
      BY <2>6 DEF Started, Beheaded, Kinds
    <3> QED BY <3>1 DEF Nothing
  <2>7. CASE Lost
    BY <2>7 DEF Lost, Junk, Nothing
  <2>8. CASE Finished
    <3>1. toServer' # <<>>
      BY <2>8 DEF Finished, TypeOK
    <3> QED BY <3>1
  <2>9. CASE Sent(k)
    BY <1>1, <1>7, <2>9 DEF Sent, Ids
  <2> QED BY <2>5, <2>6, <2>7, <2>8, <2>9 DEF Begins
<1> QED BY <1>6, <1>7 DEF OutOfStepInv

LEMMA BeginCutOnce ==
    ASSUME TypeOK, IInv, NEW k \in Kinds, MayCall(k), NEW o, Begins(k, o)
    PROVE  CutOnceInv'
<1>1. /\ nextId \in Ids /\ nextId # 0 /\ waiting = 0 /\ nextId \notin served /\ nextId \notin cut
      /\ open /\ cut = {} => toServer = <<>>
      /\ cut = {} => \A j \in DOMAIN toClient : ~toClient[j].genuine
  BY IdleFacts DEF Ids
<1>2. rest \in Request => rest.id # nextId
  BY <1>1, ChannelFacts DEF IInv, RequestInv, Outstanding, Ids
<1>3. served' = served /\ serverUp' = serverUp
  BY DEF Begins
<1>4. Nothing # Beheaded /\ Nothing \notin Request /\ Beheaded \notin Request
  BY DEF Nothing, Beheaded, Request, Ids
<1> SUFFICES ASSUME NEW i \in cut', cut' = {i}
             PROVE  /\ waiting' # 0 =>
                          /\ waiting' \notin served'
                          /\ \A j \in DOMAIN toServer' : toServer'[j].id # waiting'
                    /\ waiting' = 0 /\ open' =>
                          /\ toServer' = <<>>
                          /\ serverUp' => rest' \in Request \cup {Beheaded}
                          /\ \A j \in DOMAIN toClient' : ~toClient'[j].genuine
  BY DEF CutOnceInv
<1>5. ASSUME cut' = cut, open
      PROVE  /\ toServer = <<>> /\ (serverUp => rest \in Request \cup {Beheaded})
             /\ \A j \in DOMAIN toClient : ~toClient[j].genuine
  BY <1>1, <1>5 DEF IInv, CutOnceInv
<1>6. CASE waiting' # 0
  <2>1. cut' = cut /\ open /\ waiting' = nextId
    BY <1>6 DEF Begins, Waits, Failed
  <2>2. toServer = <<>> /\ ~Sent(k)
    BY <1>4, <1>5, <2>1 DEF Sent
  <2>3. \A j \in DOMAIN toServer' : toServer'[j].id # nextId
    BY <1>2, <2>2, BeginStream DEF Finished
  <2> QED BY <1>1, <1>3, <1>6, <2>1, <2>3
<1>7. CASE waiting' = 0 /\ open'
  <2>1. toClient' = toClient /\ open /\ Failed(k, o)
    BY <1>1, <1>7 DEF Begins, Waits, Failed
  <2>2. CASE cut' = cut
    <3>1. toServer' = toServer /\ rest' = rest
      BY <1>1, <2>1, <2>2 DEF Failed
    <3> QED BY <1>3, <1>5, <1>7, <2>1, <2>2, <3>1
  <2>3. CASE cut' # cut
    <3>1. cut = {} /\ nextId \in cut'
      BY <1>1, <2>1, <2>3 DEF Failed
    <3>2. rest = Nothing /\ toServer = <<>>
      BY <1>1, <2>1, <3>1 DEF IInv, RequestInv
    <3>3. toServer' = <<>> /\ (serverUp => rest' \in Request \cup {Beheaded})
      <4>1. Started(k) \/ (Kept /\ ~serverUp)
        BY <1>1, <1>4, <1>7, <3>1, <3>2 DEF Begins, Kept, Sent, Finished, Lost
      <4>2. [id |-> nextId, kind |-> k] \in Request
        BY <1>1 DEF Request
      <4> QED BY <3>2, <4>1, <4>2 DEF Kept, Started
    <3> QED BY <1>1, <1>3, <1>7, <2>1, <3>1, <3>3
  <2> QED BY <2>2, <2>3
<1> QED BY <1>6, <1>7

LEMMA BeginSuccess ==
    ASSUME TypeOK, IInv, NEW k \in Kinds, MayCall(k), NEW o, Begins(k, o)
    PROVE  SuccessIsServed'
<1>1. nextId \in Ids /\ nextId \in Nat
  BY IdleFacts
<1>2. /\ \A i \in Ids : i # nextId => outcome'[i] = outcome[i]
      /\ outcome'[nextId] = o /\ o # "ok" /\ cut' \subseteq cut \cup {nextId}
      /\ served' = served
  BY BeginFacts DEF Begins
<1>3. \A i \in Ids : outcome'[i] = "ok" => i \in served'
  BY <1>2 DEF IInv, SuccessIsServed
<1>4. \A j \in Ids : j >= nextId => outcome'[j] # "ok"
  BY <1>1, <1>2 DEF IInv, NumberingInv
<1>5. \A i \in cut, j \in Ids : j >= i => outcome'[j] # "ok"
  BY <1>2 DEF IInv, SuccessIsServed
<1> QED BY <1>2, <1>3, <1>4, <1>5 DEF SuccessIsServed

LEMMA BeginOutcome ==
    ASSUME TypeOK, IInv, NEW k \in Kinds, MayCall(k), NEW o, Begins(k, o)
    PROVE  OutcomeInv'
<1>1. /\ nextId \in Ids /\ nextId \in Nat /\ nextId # 0 /\ waiting = 0
      /\ nextId \notin served /\ nextId \notin staged /\ nextId \notin durable
  BY IdleFacts DEF Ids
<1>2. /\ \A i \in Ids : i # nextId => kind'[i] = kind[i] /\ outcome'[i] = outcome[i]
      /\ kind'[nextId] = k /\ outcome'[nextId] = o
      /\ k \in Completions => ~DefiniteFailure(o)
      /\ open' => open
      /\ cut \subseteq cut' /\ cut' \subseteq cut \cup {nextId}
  BY BeginFacts
<1>3. /\ served' = served /\ staged' = staged /\ durable' = durable /\ heard' = heard
  BY DEF Begins
<1>4. CompletionInv'
  <2> SUFFICES ASSUME NEW i \in Ids, kind'[i] \in Completions, DefiniteFailure(outcome'[i]),
                      ~Misled(i)'
               PROVE  /\ i \notin served'
                      /\ \A j \in DOMAIN toServer' : toServer'[j].id # i
                      /\ rest' \in Request => rest'.id # i
    BY DEF CompletionInv, DefiniteFailure
  <2>1. i # nextId
    BY <1>2
  <2>2. ~Misled(i)
    BY <1>2, <1>3 DEF Misled
  <2>3. /\ i \notin served
        /\ \A j \in DOMAIN toServer : toServer[j].id # i
        /\ rest \in Request => rest.id # i
    BY <1>2, <2>1, <2>2 DEF IInv, OutcomeInv, CompletionInv
  <2> QED BY <1>3, <2>1, <2>3, BeginStream DEF Finished
<1>5. \A i \in Ids : kind'[i] = "write" /\ outcome'[i] = "pending" => i \notin durable'
  BY <1>1, <1>2, <1>3 DEF IInv, OutcomeInv, WriteInv
<1>6. ASSUME NEW i \in Ids, kind'[i] = "write", DefiniteFailure(outcome'[i]),
             heard'[i] # "damaged", ~(i \in cut' /\ \E j \in cut' : j > i)
      PROVE  /\ i \notin durable'
             /\ i \in staged' => toServer' = <<>> /\ (open' => waiting' # 0 /\ cut' # {})
             /\ \A j \in DOMAIN toServer' : toServer'[j].id = i =>
                   j = Len(toServer') /\ (open' => waiting' # 0 /\ cut' # {})
  <2>1. CASE i = nextId
    <3>1. waiting' = 0
      <4>1. ~DefiniteFailure("pending")
        BY DEF DefiniteFailure, ServerCategories
      <4> QED BY <1>2, <1>6, <2>1, <4>1 DEF Begins, Waits, Failed
    <3>2. \A j \in DOMAIN toServer : toServer[j].id # nextId
      BY <1>1, ChannelFacts DEF IInv, RequestInv, Outstanding, Ids
    <3>3. rest \in Request => rest.id # nextId
      BY <1>1, ChannelFacts DEF IInv, RequestInv, Outstanding, Ids
    <3>4. \A j \in DOMAIN toServer' : toServer'[j].id # nextId
      BY <1>1, <3>1, <3>2, <3>3, BeginStream DEF Finished, Sent
    <3> QED BY <1>1, <1>3, <2>1, <3>4
  <2>2. CASE i # nextId
    <3>1. /\ i \notin durable
          /\ i \in staged => toServer = <<>> /\ ~open
          /\ \A j \in DOMAIN toServer : toServer[j].id = i => j = Len(toServer) /\ ~open
      BY <1>1, <1>2, <1>3, <1>6, <2>2 DEF IInv, OutcomeInv, WriteInv, DefiniteFailure
    <3>2. CASE ~open
      <4>1. toServer' = toServer /\ ~open'
        BY <1>2, <3>2 DEF Begins, Waits, Failed, Kept, Sent, Started, Finished, Lost
      <4> QED BY <1>3, <3>1, <4>1
    <3>3. CASE open
      <4>1. i \notin staged' /\ \A j \in DOMAIN toServer : toServer[j].id # i
        BY <1>3, <3>1, <3>3
      <4> SUFFICES ASSUME NEW j \in DOMAIN toServer', toServer'[j].id = i
                   PROVE  j = Len(toServer') /\ waiting' # 0 /\ cut' # {}
        BY <1>3, <3>1, <4>1
      <4>2. Finished /\ rest.id = i /\ j = Len(toServer')
        BY <2>2, <4>1, BeginStream
      <4>3. i \in cut /\ i < nextId
        BY <4>2 DEF Finished, IInv, RequestInv, Outstanding
      <4>4. toServer' # toServer
        BY <4>2 DEF Finished, TypeOK
      <4>5. ~Failed(k, o)
        BY <1>2, <1>6, <4>3, <4>4 DEF Failed, Ids
      <4> QED BY <1>1, <1>2, <4>2, <4>3, <4>5 DEF Begins, Waits
    <3> QED BY <3>2, <3>3
  <2> QED BY <2>1, <2>2
<1>7. staged' \subseteq served' /\ durable' \subseteq served'
  BY <1>3 DEF IInv, OutcomeInv, WriteInv
<1>8. WriteInv'
  BY <1>5, <1>6, <1>7 DEF WriteInv, DefiniteFailure
<1> QED BY <1>4, <1>8 DEF OutcomeInv

LEMMA BeginInv ==
    ASSUME TypeOK, IInv, NEW k \in Kinds, Send(k) \/ SendFails(k) \/ SendIsCutShort(k)
    PROVE  IInv'
<1>1. MayCall(k)
  BY CallBegins
<1>2. PICK o : Begins(k, o)
  BY CallBegins
<1> QED BY <1>1, <1>2, BeginNumbering, BeginRequest, BeginReplies, BeginOutOfStep, BeginCutOnce,
           BeginSuccess, BeginOutcome DEF IInv

\* Facts about the call that waits.
LEMMA WaitingFacts ==
    ASSUME TypeOK, IInv, waiting # 0
    PROVE  /\ waiting \in Ids /\ open /\ waiting = nextId - 1 /\ waiting < nextId
           /\ outcome[waiting] = "pending" /\ heard[waiting] = "nothing"
           /\ kind[waiting] # "none"
           /\ \A i \in Ids : i # waiting => outcome[i] # "pending"
           /\ waiting \in served => toServer = <<>>
           /\ waiting \in staged => waiting \in served
           /\ kind[waiting] = "write" => waiting \notin durable
           /\ waiting \notin cut /\ \A i \in cut : i < waiting
<1>1. /\ waiting \in Ids /\ open /\ waiting = nextId - 1 /\ waiting < nextId
      /\ outcome[waiting] = "pending" /\ heard[waiting] = "nothing"
  BY DEF IInv, NumberingInv, TypeOK, Ids
<1>2. \A i \in Ids : i # waiting => outcome[i] # "pending"
  BY DEF IInv, NumberingInv
<1>3. kind[waiting] # "none"
  BY <1>1 DEF IInv, NumberingInv, TypeOK
<1>4. waiting \in served => toServer = <<>>
  BY DEF IInv, RequestInv
<1>5. /\ kind[waiting] = "write" => waiting \notin durable
      /\ waiting \in staged => waiting \in served
  BY <1>1 DEF IInv, OutcomeInv, WriteInv
<1>6. waiting \notin cut /\ \A i \in cut : i < waiting
  BY <1>1 DEF IInv, NumberingInv, TypeOK, Ids
<1> QED BY <1>1, <1>2, <1>3, <1>4, <1>5, <1>6

\* What the end of the call in progress leaves of the invariant whatever it returned:
\* a success was served while nothing was cut, and only then the connection stays open.
LEMMA ReturnInv ==
    ASSUME TypeOK, IInv, waiting # 0, NEW v, v \notin {"none", "pending"}, NEW h,
           v = "ok" => waiting \in served /\ cut = {},
           outcome' = [outcome EXCEPT ![waiting] = v], waiting' = 0,
           heard' = [heard EXCEPT ![waiting] = h],
           UNCHANGED <<nextId, kind, cut, toServer, rest, server>>,
           open' => open /\ cut = {} /\ toServer = <<>>
    PROVE  /\ NumberingInv' /\ RequestInv' /\ OutOfStepInv' /\ CutOnceInv' /\ SuccessIsServed'
           /\ \A i \in Ids : i # waiting => outcome'[i] = outcome[i] /\ heard'[i] = heard[i]
           /\ outcome'[waiting] = v /\ heard'[waiting] = h
<1>1. /\ waiting \in Ids /\ open /\ waiting = nextId - 1 /\ waiting < nextId
      /\ \A i \in Ids : i # waiting => outcome[i] # "pending"
      /\ waiting \in served => toServer = <<>>
      /\ waiting \notin cut /\ kind[waiting] # "none"
  BY WaitingFacts
<1>2. /\ nextId' = nextId /\ kind' = kind /\ cut' = cut /\ toServer' = toServer /\ rest' = rest
      /\ serverUp' = serverUp /\ served' = served
  BY DEF server
<1>3. /\ \A i \in Ids : i # waiting => outcome'[i] = outcome[i] /\ heard'[i] = heard[i]
      /\ outcome'[waiting] = v /\ heard'[waiting] = h
  BY <1>1 DEF TypeOK
<1>4. NumberingInv'
  <2>1. \A i \in Ids : outcome'[i] # "pending"
    BY <1>1, <1>3
  <2>2. \A i \in Ids : i >= nextId => i # waiting
    BY <1>1 DEF Ids, TypeOK
  <2>3. 0 \notin cut /\ cut \subseteq Ids
    BY DEF TypeOK, Ids
  <2>4. \A i \in cut : i < nextId /\ heard'[i] = "nothing"
    BY <1>1, <1>3, <2>3 DEF IInv, NumberingInv
  <2>5. \A i \in Ids : i >= nextId => /\ outcome'[i] = "none" /\ kind[i] = "none"
                                      /\ heard'[i] = "nothing"
    BY <1>3, <2>2 DEF IInv, NumberingInv
  <2>6. \A i \in Ids : i < nextId => kind[i] # "none" /\ outcome'[i] # "none"
    BY <1>3 DEF IInv, NumberingInv
  <2>7. \A i \in served : i < nextId
    BY DEF IInv, NumberingInv
  <2> QED BY <1>2, <2>1, <2>3, <2>4, <2>5, <2>6, <2>7 DEF NumberingInv
<1>5. \A r \in Request : Outstanding(r) => Outstanding(r)'
  <2> SUFFICES ASSUME NEW r \in Request, Outstanding(r) PROVE outcome'[r.id] # "ok"
    BY <1>2 DEF Outstanding
  <2>1. r.id \in Ids /\ r.id \notin served /\ outcome[r.id] # "ok"
    BY DEF Request, Outstanding
  <2> QED BY <1>3, <2>1
<1>6. RequestInv'
  <2>1. 0 \notin served
    BY DEF TypeOK, Ids
  <2>2. \A j \in DOMAIN toServer : Outstanding(toServer[j])'
    BY <1>5, ChannelFacts DEF IInv, RequestInv
  <2>3. rest \in Request => Outstanding(rest)'
    BY <1>5 DEF IInv, RequestInv
  <2>4. open' => DOMAIN toServer = {}
    OBVIOUS
  <2> QED BY <1>2, <2>1, <2>2, <2>3, <2>4 DEF IInv, RequestInv
<1>7. OutOfStepInv' /\ CutOnceInv'
  BY <1>2 DEF OutOfStepInv, CutOnceInv
<1>8. SuccessIsServed'
  BY <1>2, <1>3 DEF IInv, SuccessIsServed
<1> QED BY <1>3, <1>4, <1>6, <1>7, <1>8

LEMMA ReceiveFailsInv ==
    ASSUME TypeOK, IInv, ReceiveFails
    PROVE  IInv'
<1> DEFINE k == kind[waiting]
           v == Failure(k, "transport_error")
           h == heard[waiting]
<1>1. /\ waiting # 0 /\ UNCHANGED <<nextId, kind, cut, toServer, rest, server>>
      /\ outcome' = [outcome EXCEPT ![waiting] = v] /\ waiting' = 0
      /\ open' = FALSE /\ toClient' = <<>>
  BY ReturnFacts DEF ReceiveFails
<1>2. /\ waiting \in Ids /\ outcome[waiting] = "pending"
      /\ waiting \in served => toServer = <<>>
      /\ waiting \in staged => waiting \in served
      /\ kind[waiting] = "write" => waiting \notin durable
      /\ waiting \notin cut
  BY <1>1, WaitingFacts
<1>3. heard' = heard /\ heard' = [heard EXCEPT ![waiting] = h]
  BY <1>2 DEF ReceiveFails, TypeOK
<1>4. v \notin {"none", "pending", "ok"} /\ (k \in Completions => ~DefiniteFailure(v))
  BY TransportFailure
<1> HIDE DEF v, h
<1>5. /\ NumberingInv' /\ RequestInv' /\ OutOfStepInv' /\ CutOnceInv' /\ SuccessIsServed'
      /\ \A i \in Ids : i # waiting => outcome'[i] = outcome[i]
      /\ outcome'[waiting] = v
  BY <1>1, <1>3, <1>4, ReturnInv
<1>6. ReplyInv' /\ InStepInv'
  BY <1>1 DEF ReplyInv, InStepInv
<1>7. CompletionInv'
  BY <1>1, <1>3, <1>4, <1>5 DEF IInv, OutcomeInv, CompletionInv, Misled, DefiniteFailure, server
<1>8. WriteInv'
  <2>1. \A i \in Ids : kind[i] = "write" => outcome'[i] # "pending"
    BY <1>2, <1>4, <1>5 DEF IInv, NumberingInv
  <2>2. ASSUME NEW i \in Ids, kind[i] = "write", DefiniteFailure(outcome'[i]),
               heard[i] # "damaged", ~(i \in cut /\ \E j \in cut : j > i)
        PROVE  /\ i \notin durable /\ (i \in staged => toServer = <<>>)
               /\ \A j \in DOMAIN toServer : toServer[j].id = i => j = Len(toServer)
    <3>1. CASE i = waiting
      BY <1>2, <2>2, <3>1 DEF IInv, RequestInv
    <3>2. CASE i # waiting
      BY <1>5, <2>2, <3>2 DEF IInv, OutcomeInv, WriteInv
    <3> QED BY <3>1, <3>2
  <2>3. staged \subseteq served /\ durable \subseteq served
    BY DEF IInv, OutcomeInv, WriteInv
  <2> QED BY <1>1, <1>3, <2>1, <2>2, <2>3 DEF WriteInv, DefiniteFailure, server
<1> QED BY <1>5, <1>6, <1>7, <1>8 DEF IInv, OutcomeInv

\* A verdict is no state of a call in progress, and "ok" only on the expected type
\* with the request's id; the server's own result is never refused.
LEMMA VerdictFacts ==
    ASSUME NEW m \in Reply, NEW id \in Nat, NEW k,
           m.type = "bad" => m.category # "ok"
    PROVE  /\ Verdict(m, id, k) \notin {"none", "pending"}
           /\ Verdict(m, id, k) \in Categories \cup {"ok"}
           /\ Verdict(m, id, k) = "ok" => m.type = "result" /\ m.id = id
           /\ m.type = "result" /\ m.id = id /\ m.category = "ok" => Verdict(m, id, k) = "ok"
<1>1. /\ Verdict(m, id, k) \notin {"none", "pending"}
      /\ Verdict(m, id, k) \in Categories \cup {"ok"}
  BY VerdictType DEF Categories, ServerCategories
<1>2. ASSUME ~(m.type = "result" /\ m.id = id)
      PROVE  Verdict(m, id, k) # "ok"
  <2>1. CASE m.type = "bad"
    BY <2>1 DEF Verdict, Failure
  <2>2. CASE m.type # "bad" /\ m.id # id
    BY <2>2 DEF Verdict
  <2>3. CASE m.type = "error" /\ m.id = id
    <3>1. decodeErrorCategory(m.category) # "ok"
      BY DecodedType DEF ServerCategories
    <3>2. Verdict(m, id, k) = Failure(k, decodeErrorCategory(m.category))
      BY <2>3 DEF Verdict
    <3> QED BY <3>1, <3>2 DEF Failure
  <2>4. CASE m.type = "other" /\ m.id = id
    BY <2>4 DEF Verdict
  <2> QED BY <1>2, <2>1, <2>2, <2>3, <2>4 DEF Reply
<1>3. m.type = "result" /\ m.id = id /\ m.category = "ok" => Verdict(m, id, k) = "ok"
  BY DEF Verdict
<1> QED BY <1>1, <1>2, <1>3

\* The reply the client reads: behind a write that was cut short it is another call's.
LEMMA HeadReply ==
    ASSUME TypeOK, IInv, waiting # 0, toClient # <<>>
    PROVE  /\ toClient[1] \in Reply /\ Head(toClient) = toClient[1]
           /\ toClient[1].type = "bad" => toClient[1].category # "ok"
           /\ toClient[1].type = "result" /\ toClient[1].id = waiting => waiting \in served
           /\ cut # {} => toClient[1].id # waiting
           /\ cut = {} /\ toServer # <<>> => toClient[1].id # waiting
           /\ cut = {} /\ toClient[1].genuine =>
                 /\ toClient[1].id = waiting /\ toServer = <<>>
                 /\ \/ toClient[1].type = "result" /\ toClient[1].category = "ok"
                    \/ waiting \notin served
           /\ cut = {} /\ toClient[1].id = waiting =>
                 \A j \in DOMAIN toClient : j # 1 => ~toClient[j].genuine
<1>1. toClient[1] \in Reply /\ Head(toClient) = toClient[1] /\ 1 \in DOMAIN toClient
  BY ChannelFacts
<1>2. /\ toClient[1].type = "bad" => toClient[1].category # "ok"
      /\ toClient[1].type = "result" /\ toClient[1].id = waiting => waiting \in served
  BY <1>1 DEF IInv, ReplyInv
<1>3. cut # {} => toClient[1].id # waiting
  <2>1. ~\E l \in 1 .. 1 - 1 : TRUE
    OBVIOUS
  <2> QED BY <1>1, <2>1 DEF IInv, OutOfStepInv
<1>4. cut = {} /\ toServer # <<>> => toClient[1].id # waiting /\ ~toClient[1].genuine
  BY <1>1 DEF IInv, InStepInv
<1>5. cut = {} /\ toClient[1].genuine =>
         /\ toClient[1].id = waiting
         /\ \/ toClient[1].type = "result" /\ toClient[1].category = "ok"
            \/ waiting \notin served
  BY <1>1 DEF IInv, InStepInv
<1>6. ASSUME cut = {}, toClient[1].id = waiting, NEW j \in DOMAIN toClient, j # 1,
             toClient[j].genuine
      PROVE  FALSE
  <2>1. 1 \in 1 .. j - 1
    BY <1>6, ChannelFacts
  <2> QED BY <1>6, <2>1 DEF IInv, InStepInv
<1> QED BY <1>1, <1>2, <1>3, <1>4, <1>5, <1>6

LEMMA ReceiveInv ==
    ASSUME TypeOK, IInv, Receive
    PROVE  IInv'
<1> DEFINE m == toClient[1]
           k == kind[waiting]
           v == Verdict(m, waiting, k)
           b == BreaksConnection(m, waiting)
           h == CASE m.genuine /\ m.id = waiting -> "own"
                  [] m.genuine /\ m.id # waiting -> "stray"
                  [] ~m.genuine -> "damaged"
<1>1. /\ waiting # 0 /\ toClient # <<>>
      /\ UNCHANGED <<nextId, kind, cut, toServer, rest, server>>
  BY DEF Receive
<1>2. /\ m \in Reply /\ Head(toClient) = m
      /\ m.type = "bad" => m.category # "ok"
      /\ m.type = "result" /\ m.id = waiting => waiting \in served
      /\ cut # {} => m.id # waiting
      /\ cut = {} /\ toServer # <<>> => m.id # waiting
      /\ cut = {} /\ m.genuine =>
            /\ m.id = waiting /\ toServer = <<>>
            /\ \/ m.type = "result" /\ m.category = "ok"
               \/ waiting \notin served
      /\ cut = {} /\ m.id = waiting => \A j \in DOMAIN toClient : j # 1 => ~toClient[j].genuine
  BY <1>1, HeadReply
<1>3. /\ waiting \in Ids /\ waiting \in Nat /\ open /\ outcome[waiting] = "pending"
      /\ waiting \in served => toServer = <<>>
      /\ waiting \in staged => waiting \in served
      /\ kind[waiting] = "write" => waiting \notin durable
      /\ waiting \notin cut /\ \A i \in cut : i < waiting
  BY <1>1, WaitingFacts DEF Ids
<1>4. /\ v \notin {"none", "pending"}
      /\ v = "ok" => m.type = "result" /\ m.id = waiting
      /\ m.type = "result" /\ m.id = waiting /\ m.category = "ok" => v = "ok"
  BY <1>2, <1>3, VerdictFacts
<1>5. b \in BOOLEAN /\ (~b => m.id = waiting)
  BY DEF BreaksConnection
<1>6. heard' = [heard EXCEPT ![waiting] = h]
  BY <1>2 DEF Receive
<1>7. /\ outcome' = [outcome EXCEPT ![waiting] = v] /\ waiting' = 0
      /\ \/ open' = open /\ toClient' = Tail(toClient) /\ ~b
         \/ open' = FALSE /\ toClient' = <<>>
  <2>1. Return(waiting, k, v, b, Tail(toClient))
    BY <1>2 DEF Receive
  <2> HIDE DEF k, v, b
  <2> QED BY <1>5, <2>1, ReturnFacts
<1>8. v = "ok" => waiting \in served /\ cut = {}
  BY <1>2, <1>4
<1>9. open' => open /\ cut = {} /\ toServer = <<>> /\ m.id = waiting
  BY <1>2, <1>3, <1>5, <1>7
<1>10. /\ h = "damaged" <=> ~m.genuine
       /\ h = "stray" <=> m.genuine /\ m.id # waiting
  <2>1. m.genuine \in BOOLEAN
    BY <1>2 DEF Reply
  <2> QED BY <2>1
<1> HIDE DEF v, b, h, m
<1>11. /\ NumberingInv' /\ RequestInv' /\ OutOfStepInv' /\ CutOnceInv' /\ SuccessIsServed'
       /\ \A i \in Ids : i # waiting => outcome'[i] = outcome[i] /\ heard'[i] = heard[i]
       /\ outcome'[waiting] = v /\ heard'[waiting] = h
  BY <1>1, <1>4, <1>6, <1>7, <1>8, <1>9, ReturnInv
<1>12. ReplyInv' /\ InStepInv'
  <2>1. CASE toClient' = <<>>
    BY <2>1 DEF ReplyInv, InStepInv
  <2>2. CASE open' = open /\ toClient' = Tail(toClient) /\ ~b
    <3>1. /\ DOMAIN Tail(toClient) = 1 .. Len(toClient) - 1
          /\ \A j \in 1 .. Len(toClient) - 1 :
                Tail(toClient)[j] = toClient[j + 1] /\ j + 1 \in DOMAIN toClient /\ j + 1 # 1
      BY <1>1 DEF TypeOK
    <3>2. \A j \in DOMAIN toClient' : ~toClient'[j].genuine
      BY <1>2, <1>3, <1>9, <2>2, <3>1
    <3>3. toServer' = <<>> /\ open'
      BY <1>1, <1>3, <1>9, <2>2
    <3>4. \A j \in DOMAIN toClient' :
             /\ toClient'[j].id < nextId
             /\ toClient'[j].type = "result" /\ toClient'[j].id # 0
                   => toClient'[j].id \in served
             /\ toClient'[j].type = "bad" => toClient'[j].category # "ok"
      BY <2>2, <3>1 DEF IInv, ReplyInv
    <3>5. ReplyInv'
      BY <1>1, <3>3, <3>4 DEF ReplyInv, server
    <3>6. InStepInv'
      BY <3>2, <3>3 DEF InStepInv
    <3> QED BY <3>5, <3>6
  <2> QED BY <1>7, <2>1, <2>2
<1>13. CompletionInv'
  <2>1. ASSUME NEW i \in Ids, i = waiting, kind[i] \in Completions, DefiniteFailure(outcome'[i]),
               ~Misled(i)'
        PROVE  /\ i \notin served
               /\ \A j \in DOMAIN toServer : toServer[j].id # i
               /\ rest \in Request => rest.id # i
    <3>1. v # "ok" /\ m.genuine
      BY <1>10, <1>11, <2>1 DEF DefiniteFailure, ServerCategories, Misled
    <3>2. CASE cut = {}
      <4>1. waiting \notin served /\ toServer = <<>>
        BY <1>2, <1>4, <3>1, <3>2
      <4>2. rest \notin Request
        BY <3>2 DEF IInv, RequestInv
      <4> QED BY <2>1, <4>1, <4>2
    <3>3. CASE cut # {}
      <4>1. h = "stray"
        BY <1>2, <1>10, <3>1, <3>3
      <4>2. \A j, l \in cut : ~(j < l)
        BY <1>1, <1>3, <1>11, <2>1, <4>1 DEF Misled
      <4>3. PICK c \in cut : cut = {c}
        <5>1. PICK c \in cut : TRUE
          BY <3>3
        <5>2. \A j \in cut : j \in Nat
          BY DEF TypeOK, Ids
        <5>3. \A j \in cut : j = c
          BY <4>2, <5>1, <5>2
        <5> QED BY <5>1, <5>3
      <4>4. /\ waiting \notin served
            /\ \A j \in DOMAIN toServer : toServer[j].id # waiting
        BY <1>1, <4>3 DEF IInv, CutOnceInv
      <4>5. rest \in Request => rest.id # waiting
        BY <1>3 DEF IInv, RequestInv
      <4> QED BY <2>1, <4>4, <4>5
    <3> QED BY <3>2, <3>3
  <2>2. ASSUME NEW i \in Ids, i # waiting, kind[i] \in Completions, DefiniteFailure(outcome'[i]),
               ~Misled(i)'
        PROVE  /\ i \notin served
               /\ \A j \in DOMAIN toServer : toServer[j].id # i
               /\ rest \in Request => rest.id # i
    <3>1. DefiniteFailure(outcome[i]) /\ ~Misled(i)
      BY <1>1, <1>11, <2>2 DEF Misled
    <3> QED BY <2>2, <3>1 DEF IInv, OutcomeInv, CompletionInv
  <2> QED BY <1>1, <1>11, <2>1, <2>2 DEF CompletionInv, DefiniteFailure, server
<1>14. WriteInv'
  <2>1. \A i \in Ids : outcome'[i] # "pending"
    BY <1>3, <1>4, <1>11 DEF IInv, NumberingInv
  <2>2. ASSUME NEW i \in Ids, kind[i] = "write", DefiniteFailure(outcome'[i]),
               heard'[i] # "damaged", ~(i \in cut /\ \E j \in cut : j > i)
        PROVE  /\ i \notin durable
               /\ i \in staged => toServer = <<>> /\ ~open'
               /\ \A j \in DOMAIN toServer : toServer[j].id = i => j = Len(toServer) /\ ~open'
    <3>1. CASE i = waiting
      <4>1. m.genuine /\ v # "ok"
        BY <1>10, <1>11, <2>2, <3>1 DEF DefiniteFailure, ServerCategories
      <4>2. open' => waiting \notin served
        BY <1>2, <1>4, <1>9, <4>1
      <4>3. \A j \in DOMAIN toServer : toServer[j].id = waiting => j = Len(toServer)
        BY <1>3 DEF IInv, RequestInv
      <4>4. open' => DOMAIN toServer = {}
        BY <1>9
      <4> QED BY <1>3, <2>2, <3>1, <4>2, <4>3, <4>4
    <3>2. CASE i # waiting
      <4>1. /\ i \notin durable
            /\ i \in staged => toServer = <<>> /\ cut # {}
            /\ \A j \in DOMAIN toServer : toServer[j].id = i => j = Len(toServer) /\ cut # {}
        BY <1>3, <1>11, <2>2, <3>2 DEF IInv, OutcomeInv, WriteInv
      <4> QED BY <1>9, <4>1
    <3> QED BY <3>1, <3>2
  <2>3. staged \subseteq served /\ durable \subseteq served
    BY DEF IInv, OutcomeInv, WriteInv
  <2> QED BY <1>1, <2>1, <2>2, <2>3 DEF WriteInv, DefiniteFailure, server
<1> QED BY <1>11, <1>12, <1>13, <1>14 DEF IInv, OutcomeInv

LEMMA DestroyInv ==
    ASSUME TypeOK, IInv, Destroy
    PROVE  IInv'
<1>1. /\ open' = open /\ waiting' = waiting /\ nextId' = nextId
      /\ toServer' = toServer /\ rest' = rest /\ toClient' = toClient
      /\ serverUp' = serverUp /\ staged' = staged /\ durable' = durable /\ served' = served
      /\ kind' = kind /\ outcome' = outcome /\ heard' = heard /\ cut' = cut
  BY DEF Destroy, network, server, history
<1>2. NumberingInv' /\ RequestInv' /\ ReplyInv' /\ InStepInv'
  BY <1>1 DEF IInv, NumberingInv, RequestInv, Outstanding, ReplyInv, InStepInv
<1>3. OutOfStepInv' /\ CutOnceInv' /\ SuccessIsServed'
  BY <1>1 DEF IInv, OutOfStepInv, CutOnceInv, SuccessIsServed
<1>4. OutcomeInv'
  BY <1>1 DEF IInv, OutcomeInv, CompletionInv, WriteInv, Misled, DefiniteFailure
<1> QED BY <1>2, <1>3, <1>4 DEF IInv

\* The server reads the first request on its way.
LEMMA HeadRequest ==
    ASSUME TypeOK, IInv, toServer # <<>>
    PROVE  /\ Head(toServer) = toServer[1] /\ 1 \in DOMAIN toServer
           /\ toServer[1] \in Request /\ toServer[1].id \in Ids /\ Outstanding(toServer[1])
           /\ DOMAIN Tail(toServer) = 1 .. Len(toServer) - 1
           /\ Len(Tail(toServer)) = Len(toServer) - 1
           /\ \A j \in 1 .. Len(toServer) - 1 :
                 /\ j + 1 \in DOMAIN toServer /\ Tail(toServer)[j] = toServer[j + 1]
                 /\ toServer[1].id < toServer[j + 1].id
           /\ rest \in Request => toServer[1].id < rest.id
           /\ toServer[1].id \notin cut => Tail(toServer) = <<>> /\ (open => toServer[1].id = waiting)
           /\ waiting \notin served
           /\ cut = {} => Tail(toServer) = <<>> /\ (open => toServer[1].id = waiting)
<1>1. /\ Head(toServer) = toServer[1] /\ 1 \in DOMAIN toServer
      /\ toServer[1] \in Request /\ toServer[1].id \in Ids
  BY ChannelFacts
<1>2. /\ Len(toServer) \in Nat /\ DOMAIN toServer = 1 .. Len(toServer)
      /\ DOMAIN Tail(toServer) = 1 .. Len(toServer) - 1
      /\ Len(Tail(toServer)) = Len(toServer) - 1
      /\ Len(toServer) = 1 => Tail(toServer) = <<>>
      /\ \A j \in 1 .. Len(toServer) - 1 :
            j + 1 \in DOMAIN toServer /\ Tail(toServer)[j] = toServer[j + 1]
  <2>1. Len(toServer) \in Nat /\ DOMAIN toServer = 1 .. Len(toServer) /\ Len(toServer) >= 1
    BY ChannelFacts, <1>1
  <2>2. /\ Tail(toServer) \in Seq(Request) /\ Len(Tail(toServer)) = Len(toServer) - 1
        /\ \A j \in 1 .. Len(toServer) - 1 : Tail(toServer)[j] = toServer[j + 1]
    BY DEF TypeOK
  <2>3. DOMAIN Tail(toServer) = 1 .. Len(toServer) - 1
    BY <2>2
  <2>4. Len(toServer) = 1 => Tail(toServer) = <<>>
    <3>1. Len(toServer) = 1 => Len(Tail(toServer)) = 0
      BY <2>2
    <3> QED BY <2>2, <3>1, EmptySeq
  <2>5. \A j \in 1 .. Len(toServer) - 1 : j + 1 \in DOMAIN toServer
    BY <2>1
  <2> QED BY <2>1, <2>2, <2>3, <2>4, <2>5
<1>3. Outstanding(toServer[1])
  BY <1>1 DEF IInv, RequestInv
<1>4. \A j \in 1 .. Len(toServer) - 1 : toServer[1].id < toServer[j + 1].id
  BY <1>1, <1>2 DEF IInv, RequestInv
<1>5. rest \in Request => toServer[1].id < rest.id
  BY <1>1 DEF IInv, RequestInv
<1>6. toServer[1].id \notin cut => Len(toServer) = 1 /\ (open => toServer[1].id = waiting)
  BY <1>1 DEF IInv, RequestInv
<1>7. waiting \notin served
  BY DEF IInv, RequestInv
<1> QED BY <1>1, <1>2, <1>3, <1>4, <1>5, <1>6, <1>7

\* The request is read: the ones behind it keep their order.
LEMMA RequestRead ==
    ASSUME TypeOK, IInv, toServer # <<>>, toServer' = Tail(toServer),
           served' \in {served, served \cup {toServer[1].id}},
           UNCHANGED <<open, waiting, nextId, rest, history>>
    PROVE  NumberingInv' /\ RequestInv' /\ SuccessIsServed'
<1> DEFINE r == toServer[1]
           n == Len(toServer)
<1>1. /\ r.id \in Ids /\ r.id < nextId
      /\ DOMAIN toServer' = 1 .. n - 1 /\ Len(toServer') = n - 1 /\ n \in Nat
      /\ \A j \in 1 .. n - 1 : /\ j + 1 \in DOMAIN toServer /\ toServer'[j] = toServer[j + 1]
                               /\ r.id < toServer[j + 1].id
      /\ rest \in Request => r.id < rest.id
      /\ r.id \notin cut => toServer' = <<>>
      /\ cut = {} => toServer' = <<>>
      /\ waiting \notin served
  BY HeadRequest, ChannelFacts DEF Outstanding
<1>2. /\ open' = open /\ waiting' = waiting /\ nextId' = nextId /\ rest' = rest
      /\ kind' = kind /\ outcome' = outcome /\ heard' = heard /\ cut' = cut
      /\ served \subseteq served' /\ served' \subseteq served \cup {r.id}
  BY DEF history
<1> HIDE DEF r, n
<1>3. NumberingInv'
  BY <1>1, <1>2 DEF IInv, NumberingInv
<1>4. SuccessIsServed'
  BY <1>2 DEF IInv, SuccessIsServed
<1>5. \A e \in Request : Outstanding(e) /\ r.id < e.id => Still(e)
  BY <1>1, <1>2 DEF Outstanding, Still, Request, Ids
<1>6. \A j \in DOMAIN toServer' : Still(toServer'[j])
  <2>1. \A j \in 1 .. n - 1 : toServer[j + 1] \in Request /\ Outstanding(toServer[j + 1])
    BY <1>1, ChannelFacts DEF IInv, RequestInv
  <2> QED BY <1>1, <1>5, <2>1
<1>7. \A j, l \in DOMAIN toServer' : j < l => toServer'[j].id < toServer'[l].id
  BY <1>1 DEF IInv, RequestInv
<1>8. \A j \in DOMAIN toServer' : toServer'[j].id \notin cut =>
         j = Len(toServer') /\ (open => toServer'[j].id = waiting)
  <2> SUFFICES ASSUME NEW j \in 1 .. n - 1, toServer[j + 1].id \notin cut
               PROVE  j = n - 1 /\ (open => toServer[j + 1].id = waiting)
    BY <1>1
  <2>1. j + 1 \in DOMAIN toServer
    BY <1>1
  <2>2. j + 1 = n /\ (open => toServer[j + 1].id = waiting)
    BY <2>1 DEF IInv, RequestInv, n
  <2> QED BY <1>1, <2>2
<1>9. rest' \in Request => /\ Still(rest) /\ rest.id \in cut
                           /\ \A j \in DOMAIN toServer' : toServer'[j].id < rest.id
  BY <1>1, <1>2, <1>5 DEF IInv, RequestInv
<1>10. waiting \in served' => toServer' = <<>>
  <2>1. waiting \in served' => waiting = r.id
    BY <1>1, <1>2
  <2>2. waiting \notin cut
    BY DEF IInv, NumberingInv
  <2> QED BY <1>1, <2>1, <2>2
<1>11. cut = {} => rest' = Nothing /\ toServer' = <<>> /\ n <= 1
  BY <1>1, <1>2 DEF IInv, RequestInv, n
<1>12. n <= 1 => Len(toServer') <= 1
  BY <1>1
<1>13. RequestInv'
  BY <1>2, <1>6, <1>7, <1>8, <1>9, <1>10, <1>11, <1>12 DEF RequestInv, Outstanding, Still
<1> QED BY <1>3, <1>4, <1>13

\* The server's reply to the request it read keeps what the invariant says of replies.
LEMMA PostedReply ==
    ASSUME TypeOK, IInv, toServer # <<>>, NEW m \in Reply, m.genuine, m.id = toServer[1].id,
           toClient' = Post(m), toServer' = Tail(toServer),
           served \subseteq served', served' \subseteq served \cup {m.id},
           UNCHANGED <<open, waiting, nextId, rest, cut>>,
           \/ m.type = "result" /\ m.category = "ok" /\ m.id \in served'
           \/ m.type = "error" /\ m.id \notin served'
    PROVE  ReplyInv' /\ InStepInv' /\ OutOfStepInv' /\ CutOnceInv'
<1>0. /\ m.id \in Ids /\ m.id \in Nat /\ m.id < nextId
      /\ cut = {} => toServer' = <<>> /\ (open => m.id = waiting)
      /\ waiting \notin served /\ 1 \in DOMAIN toServer
      /\ \A j \in DOMAIN toServer' :
            j + 1 \in DOMAIN toServer /\ toServer'[j] = toServer[j + 1] /\ m.id < toServer[j + 1].id
  BY HeadRequest DEF Outstanding, Ids
<1>1. toServer' # <<>> => 1 \in DOMAIN toServer'
  BY HeadRequest DEF TypeOK
<1>2. waiting # 0 => open
  BY DEF IInv, NumberingInv
<1>3. CutOnceInv'
  <2> SUFFICES ASSUME NEW i \in cut, cut = {i}
               PROVE  /\ waiting # 0 =>
                            /\ waiting \notin served'
                            /\ \A j \in DOMAIN toServer' : toServer'[j].id # waiting
                      /\ ~(waiting = 0 /\ open)
    BY DEF CutOnceInv
  <2>1. waiting # 0 => \A j \in DOMAIN toServer : toServer[j].id # waiting
    BY DEF IInv, CutOnceInv
  <2>2. ~(waiting = 0 /\ open)
    BY DEF IInv, CutOnceInv
  <2> QED BY <1>0, <2>1, <2>2
<1>4. CASE ~open
  <2>1. toClient' = <<>>
    BY <1>4 DEF Post, IInv, ReplyInv
  <2> QED BY <1>2, <1>3, <1>4, <2>1 DEF ReplyInv, InStepInv, OutOfStepInv
<1>5. CASE open
  <2> DEFINE n == Len(toClient)
  <2>1. /\ n \in Nat /\ DOMAIN toClient = 1 .. n /\ DOMAIN toClient' = 1 .. n + 1
        /\ toClient'[n + 1] = m /\ \A j \in 1 .. n : toClient'[j] = toClient[j]
    BY <1>5 DEF Post, TypeOK
  <2> HIDE DEF n
  <2>2. \A j \in 1 .. n + 1 : j = n + 1 \/ j \in 1 .. n
    BY <2>1
  <2>3. ReplyInv'
    <3>1. /\ \A j \in 1 .. n : toClient[j].id < nextId
          /\ \A j \in 1 .. n : toClient[j].type = "result" /\ toClient[j].id # 0
                                  => toClient[j].id \in served
          /\ \A j \in 1 .. n : toClient[j].type = "bad" => toClient[j].category # "ok"
      BY <2>1 DEF IInv, ReplyInv
    <3>2. (m.type = "result" => m.id \in served') /\ m.type # "bad"
      OBVIOUS
    <3> QED BY <1>0, <1>5, <2>1, <2>2, <3>1, <3>2 DEF ReplyInv
  <2>4. ASSUME cut = {} PROVE InStepInv'
    <3>1. \A j \in 1 .. n : toClient[j].id # waiting /\ ~toClient[j].genuine
      BY <2>1, <2>4 DEF IInv, InStepInv
    <3>2. m.id = waiting /\ waiting # 0
      BY <1>0, <1>5, <2>4 DEF Ids
    <3>3. \A j \in DOMAIN toClient' : toClient'[j].genuine => j = n + 1
      BY <2>1, <2>2, <3>1
    <3>4. \A l \in 1 .. (n + 1) - 1 : toClient'[l].id # waiting
      BY <2>1, <3>1
    <3>5. \A j \in DOMAIN toClient' : toClient'[j].genuine =>
            /\ waiting' # 0 /\ toClient'[j].id = waiting'
            /\ \/ toClient'[j].type = "result" /\ toClient'[j].category = "ok"
               \/ toClient'[j].type = "error" /\ waiting' \notin served'
            /\ \A l \in DOMAIN toClient' : l # j => ~toClient'[l].genuine
            /\ \A l \in 1 .. j - 1 : toClient'[l].id # waiting'
      BY <2>1, <3>2, <3>3, <3>4
    <3> QED BY <1>0, <2>4, <3>5 DEF InStepInv
  <2>5. ASSUME cut # {} PROVE OutOfStepInv'
    <3>1. ASSUME waiting # 0, NEW j \in 1 .. n + 1, toClient'[j].id = waiting
          PROVE  \E l \in 1 .. j - 1 : toClient'[l].id # waiting
      <4>1. CASE j = n + 1
        <5>1. PICK l \in DOMAIN toClient : toClient[l].id # waiting
          BY <1>0, <2>1, <2>5, <3>1, <4>1 DEF IInv, OutOfStepInv
        <5>2. l \in 1 .. j - 1 /\ toClient'[l] = toClient[l]
          BY <2>1, <4>1, <5>1
        <5> QED BY <5>1, <5>2
      <4>2. CASE j \in 1 .. n
        <5>1. PICK l \in 1 .. j - 1 : toClient[l].id # waiting
          BY <2>1, <2>5, <3>1, <4>2 DEF IInv, OutOfStepInv
        <5>2. toClient'[l] = toClient[l]
          BY <2>1, <4>2, <5>1
        <5> QED BY <5>1, <5>2
      <4> QED BY <2>2, <4>1, <4>2
    <3>2. ASSUME toServer' # <<>>, toServer'[1].id = waiting
          PROVE  \E l \in DOMAIN toClient' : toClient'[l].id # waiting
      <4>1. 1 \in DOMAIN toServer' /\ m.id < waiting
        BY <1>0, <1>1, <3>2
      <4>2. m.id # waiting
        BY <1>0, <4>1 DEF TypeOK
      <4> QED BY <2>1, <4>2
    <3>3. toClient' # <<>>
      BY <2>1
    <3> QED BY <2>1, <3>1, <3>2, <3>3 DEF OutOfStepInv
  <2>6. cut # {} => InStepInv'
    BY DEF InStepInv
  <2>7. cut = {} => OutOfStepInv'
    BY DEF OutOfStepInv
  <2> QED BY <1>3, <2>3, <2>4, <2>5, <2>6, <2>7
<1> QED BY <1>4, <1>5 DEF TypeOK

\* What is true of a call that failed stays true when the server reads a request.
LEMMA ReadOutcome ==
    ASSUME TypeOK, IInv, toServer # <<>>, toServer' = Tail(toServer),
           UNCHANGED <<open, waiting, nextId, rest, history>>,
           \/ /\ served' = served \cup {toServer[1].id}
              /\ staged' \subseteq staged \cup {toServer[1].id}
              /\ durable' \subseteq durable \cup staged
           \/ served' = served /\ staged' \subseteq staged /\ durable' = durable
    PROVE  OutcomeInv'
<1> DEFINE r == toServer[1]
<1>1. /\ r.id \in Ids /\ 1 \in DOMAIN toServer /\ waiting \notin served
      /\ Len(toServer') = Len(toServer) - 1
      /\ Len(toServer) = 1 => toServer' = <<>>
      /\ Len(toServer) \in Nat
      /\ \A j \in DOMAIN toServer' : j \in 1 .. Len(toServer) - 1 /\ j + 1 \in DOMAIN toServer
                                     /\ toServer'[j] = toServer[j + 1]
  BY HeadRequest DEF TypeOK
<1>2. /\ open' = open /\ waiting' = waiting /\ rest' = rest
      /\ kind' = kind /\ outcome' = outcome /\ heard' = heard /\ cut' = cut
      /\ served' \subseteq served \cup {r.id} /\ staged' \subseteq staged \cup {r.id}
      /\ durable' \subseteq durable \cup staged
      /\ staged \subseteq served /\ durable \subseteq served
      /\ staged' \subseteq served' /\ durable' \subseteq served'
  BY DEF history, IInv, OutcomeInv, WriteInv
<1> HIDE DEF r
<1>3. CompletionInv'
  <2> SUFFICES ASSUME NEW i \in Ids, kind[i] \in Completions, DefiniteFailure(outcome[i]),
                      ~Misled(i)
               PROVE  /\ i \notin served'
                      /\ \A j \in DOMAIN toServer' : toServer'[j].id # i
                      /\ rest' \in Request => rest'.id # i
    BY <1>2 DEF CompletionInv, Misled, DefiniteFailure
  <2>1. /\ i \notin served
        /\ \A j \in DOMAIN toServer : toServer[j].id # i
        /\ rest \in Request => rest.id # i
    BY DEF IInv, OutcomeInv, CompletionInv
  <2> QED BY <1>1, <1>2, <2>1 DEF r
<1>4. \A i \in Ids : kind[i] = "write" /\ outcome[i] = "pending" => i \notin durable'
  <2> SUFFICES ASSUME NEW i \in Ids, kind[i] = "write", outcome[i] = "pending"
               PROVE  i \notin durable'
    OBVIOUS
  <2>1. i = waiting /\ i \notin durable
    BY DEF IInv, OutcomeInv, WriteInv, NumberingInv
  <2> QED BY <1>1, <1>2, <2>1
<1>5. ASSUME NEW i \in Ids, kind[i] = "write", DefiniteFailure(outcome[i]),
             heard[i] # "damaged", ~(i \in cut /\ \E j \in cut : j > i)
      PROVE  /\ i \notin durable'
             /\ i \in staged' => toServer' = <<>> /\ (open => waiting # 0 /\ cut # {})
             /\ \A j \in DOMAIN toServer' : toServer'[j].id = i =>
                   j = Len(toServer') /\ (open => waiting # 0 /\ cut # {})
  <2>1. /\ i \notin durable /\ i \notin staged
        /\ \A j \in DOMAIN toServer : toServer[j].id = i =>
              j = Len(toServer) /\ (open => waiting # 0 /\ cut # {})
    BY <1>5 DEF IInv, OutcomeInv, WriteInv
  <2>2. i \notin durable'
    BY <1>2, <2>1
  <2>3. i \in staged' => toServer' = <<>> /\ (open => waiting # 0 /\ cut # {})
    <3> SUFFICES ASSUME i \in staged'
                 PROVE  toServer' = <<>> /\ (open => waiting # 0 /\ cut # {})
      OBVIOUS
    <3>1. i = toServer[1].id
      BY <1>2, <2>1 DEF r
    <3>2. 1 = Len(toServer) /\ (open => waiting # 0 /\ cut # {})
      BY <1>1, <2>1, <3>1
    <3> QED BY <1>1, <3>2
  <2>4. ASSUME NEW j \in DOMAIN toServer', toServer'[j].id = i
        PROVE  j = Len(toServer') /\ (open => waiting # 0 /\ cut # {})
    <3>1. j + 1 = Len(toServer) /\ (open => waiting # 0 /\ cut # {})
      BY <1>1, <2>1, <2>4
    <3> QED BY <1>1, <3>1
  <2> QED BY <2>2, <2>3, <2>4
<1>6. WriteInv'
  BY <1>2, <1>4, <1>5 DEF WriteInv, DefiniteFailure
<1> QED BY <1>3, <1>6 DEF OutcomeInv

LEMMA ServeInv ==
    ASSUME TypeOK, IInv, Serve
    PROVE  IInv'
<1> DEFINE r == toServer[1]
           m == [id |-> r.id, type |-> "result", category |-> "ok", genuine |-> TRUE]
<1>1. toServer # <<>> /\ Head(toServer) = r /\ r.id \in Ids
  BY HeadRequest DEF Serve
<1>2. /\ toClient' = Post(m) /\ toServer' = Tail(toServer) /\ Execute(r)
      /\ UNCHANGED <<client, history, rest>>
  BY <1>1 DEF Serve
<1>3. UNCHANGED <<open, waiting, nextId, rest, history>>
  BY <1>2 DEF client
<1>4. /\ served' = served \cup {r.id}
      /\ staged' \subseteq staged \cup {r.id}
      /\ durable' \subseteq durable \cup staged
  BY <1>2 DEF Execute
<1>5. m \in Reply /\ m.genuine /\ m.id = r.id /\ m.type = "result" /\ m.category = "ok"
  BY <1>1 DEF Reply, Ids
<1> HIDE DEF m
<1>6. ReplyInv' /\ InStepInv' /\ OutOfStepInv' /\ CutOnceInv'
  BY <1>1, <1>2, <1>3, <1>4, <1>5, PostedReply DEF history
<1>7. NumberingInv' /\ RequestInv' /\ SuccessIsServed'
  BY <1>1, <1>2, <1>3, <1>4, RequestRead
<1>8. OutcomeInv'
  BY <1>1, <1>2, <1>3, <1>4, ReadOutcome
<1> QED BY <1>6, <1>7, <1>8 DEF IInv

LEMMA RefuseInv ==
    ASSUME TypeOK, IInv, Refuse
    PROVE  IInv'
<1> DEFINE r == toServer[1]
<1>1. toServer # <<>> /\ Head(toServer) = r /\ r.id \in Ids /\ r.id \notin served
  BY HeadRequest DEF Refuse, Outstanding
<1>2. PICK c \in WireCategories :
         toClient' = Post([id |-> r.id, type |-> "error", category |-> c, genuine |-> TRUE])
  BY <1>1 DEF Refuse
<1> DEFINE m == [id |-> r.id, type |-> "error", category |-> c, genuine |-> TRUE]
<1>3. /\ toServer' = Tail(toServer) /\ staged' \subseteq staged
      /\ durable' = durable /\ served' = served
      /\ UNCHANGED <<open, waiting, nextId, rest, history>>
  BY <1>1 DEF Refuse, client
<1>4. m \in Reply /\ m.genuine /\ m.id = r.id /\ m.type = "error"
  BY <1>1, SessionRpcAssumption DEF Reply, Ids, SessionRpcAssumption
<1>5. toClient' = Post(m)
  BY <1>2
<1> HIDE DEF m
<1>6. ReplyInv' /\ InStepInv' /\ OutOfStepInv' /\ CutOnceInv'
  BY <1>1, <1>3, <1>4, <1>5, PostedReply DEF history
<1>7. NumberingInv' /\ RequestInv' /\ SuccessIsServed'
  BY <1>1, <1>3, RequestRead
<1>8. OutcomeInv'
  BY <1>1, <1>3, ReadOutcome
<1> QED BY <1>6, <1>7, <1>8 DEF IInv

\* The server leaves: nothing is on its way and nothing is staged.
LEMMA LeaveInv ==
    ASSUME TypeOK, IInv, Leave, UNCHANGED <<client, history>>
    PROVE  NumberingInv' /\ RequestInv' /\ SuccessIsServed' /\ OutcomeInv'
<1>1. /\ toServer' = <<>> /\ rest' = Nothing /\ staged' = {}
      /\ open' = open /\ waiting' = waiting /\ nextId' = nextId
      /\ kind' = kind /\ outcome' = outcome /\ heard' = heard /\ cut' = cut
      /\ durable' = durable /\ served' = served
  BY DEF Leave, client, history
<1>2. Nothing \notin Request
  BY DEF Nothing, Request, Ids
<1>3. NumberingInv' /\ RequestInv' /\ SuccessIsServed'
  BY <1>1, <1>2 DEF IInv, NumberingInv, RequestInv, SuccessIsServed
<1>4. CompletionInv' /\ WriteInv'
  BY <1>1, <1>2 DEF IInv, OutcomeInv, CompletionInv, WriteInv, Misled, DefiniteFailure
<1> QED BY <1>3, <1>4 DEF OutcomeInv

LEMMA RefuseJunkInv ==
    ASSUME TypeOK, IInv, RefuseJunk
    PROVE  IInv'
<1> DEFINE m == [id |-> 0, type |-> "error", category |-> "protocol_error", genuine |-> TRUE]
           n == Len(toClient)
<1>1. /\ serverUp /\ toServer = <<>> /\ rest = Junk /\ toClient' = Post(m)
      /\ Leave /\ UNCHANGED <<client, history>>
  BY DEF RefuseJunk
<1>2. /\ toServer' = <<>> /\ ~serverUp' /\ open' = open /\ waiting' = waiting /\ nextId' = nextId
      /\ served' = served /\ cut' = cut
  BY <1>1 DEF Leave, client, history
<1>3. /\ cut # {} /\ 0 < nextId
      /\ Junk \notin Request \cup {Beheaded}
  BY <1>1 DEF IInv, RequestInv, Nothing, Junk, Beheaded, Request, Ids, TypeOK
<1>4. /\ \A i \in cut : cut = {i} => ~(waiting = 0 /\ open)
      /\ \A i \in cut : cut = {i} /\ waiting # 0 => waiting \notin served
  BY <1>1, <1>3 DEF IInv, CutOnceInv
<1>5. InStepInv' /\ CutOnceInv'
  BY <1>2, <1>3, <1>4 DEF InStepInv, CutOnceInv
<1>6. CASE ~open
  <2>1. toClient' = <<>>
    BY <1>1, <1>6 DEF Post, IInv, ReplyInv
  <2> QED BY <1>1, <1>2, <1>5, <2>1, LeaveInv DEF IInv, ReplyInv, OutOfStepInv
<1>7. CASE open
  <2>1. /\ n \in Nat /\ DOMAIN toClient = 1 .. n /\ DOMAIN toClient' = 1 .. n + 1
        /\ toClient'[n + 1] = m /\ \A j \in 1 .. n : toClient'[j] = toClient[j]
    <3>1. toClient' = Append(toClient, m)
      BY <1>1, <1>7 DEF Post
    <3> HIDE DEF m
    <3> QED BY <3>1 DEF TypeOK
  <2>2. m.id = 0 /\ m.type = "error"
    OBVIOUS
  <2> HIDE DEF m, n
  <2>3. \A j \in 1 .. n + 1 : j = n + 1 \/ j \in 1 .. n
    BY <2>1
  <2>4. ReplyInv'
    <3>1. /\ \A j \in 1 .. n : toClient[j].id < nextId
          /\ \A j \in 1 .. n : toClient[j].type = "result" /\ toClient[j].id # 0
                                  => toClient[j].id \in served
          /\ \A j \in 1 .. n : toClient[j].type = "bad" => toClient[j].category # "ok"
      BY <2>1 DEF IInv, ReplyInv
    <3> QED BY <1>2, <1>3, <1>7, <2>1, <2>2, <2>3, <3>1 DEF ReplyInv
  <2>5. OutOfStepInv'
    <3>1. ASSUME waiting # 0, NEW j \in 1 .. n + 1, toClient'[j].id = waiting
          PROVE  \E l \in 1 .. j - 1 : toClient'[l].id # waiting
      <4>1. j \in 1 .. n
        BY <2>1, <2>2, <2>3, <3>1
      <4>2. PICK l \in 1 .. j - 1 : toClient[l].id # waiting
        BY <1>3, <2>1, <3>1, <4>1 DEF IInv, OutOfStepInv
      <4>3. toClient'[l] = toClient[l]
        BY <2>1, <4>1, <4>2
      <4> QED BY <4>2, <4>3
    <3> QED BY <1>2, <2>1, <3>1 DEF OutOfStepInv
  <2> QED BY <1>1, <1>5, <2>4, <2>5, LeaveInv DEF IInv
<1> QED BY <1>6, <1>7 DEF TypeOK

\* The server leaves, and the replies on their way may be lost.
LEMMA LeaveSilentlyInv ==
    ASSUME TypeOK, IInv, Leave, UNCHANGED <<client, history>>, toClient' \in {toClient, <<>>}
    PROVE  IInv'
<1>1. /\ toServer' = <<>> /\ ~serverUp' /\ open' = open /\ waiting' = waiting /\ nextId' = nextId
      /\ served' = served /\ cut' = cut
  BY DEF Leave, client, history
<1>2. CASE toClient' = <<>>
  <2>1. ReplyInv' /\ InStepInv' /\ OutOfStepInv'
    BY <1>1, <1>2 DEF ReplyInv, InStepInv, OutOfStepInv
  <2>2. CutOnceInv'
    BY <1>1, <1>2 DEF IInv, CutOnceInv
  <2> QED BY <2>1, <2>2, LeaveInv DEF IInv
<1>3. CASE toClient' = toClient
  <2>1. ReplyInv' /\ InStepInv'
    BY <1>1, <1>3 DEF IInv, ReplyInv, InStepInv
  <2>2. OutOfStepInv'
    BY <1>1, <1>3 DEF IInv, OutOfStepInv
  <2>3. CutOnceInv'
    BY <1>1, <1>3 DEF IInv, CutOnceInv
  <2> QED BY <2>1, <2>2, <2>3, LeaveInv DEF IInv
<1> QED BY <1>2, <1>3

LEMMA NoticeCloseInv ==
    ASSUME TypeOK, IInv, NoticeClose
    PROVE  IInv'
BY LeaveSilentlyInv DEF NoticeClose

LEMMA DisconnectInv ==
    ASSUME TypeOK, IInv, Disconnect
    PROVE  IInv'
BY LeaveSilentlyInv DEF Disconnect

\* A damaged reply is no longer the server's, keeps its id or gets 0, and is a result
\* only if it was one.
LEMMA DamagedFacts ==
    ASSUME NEW m \in Reply, NEW d \in Damaged(m)
    PROVE  /\ ~d.genuine /\ d.id \in {0, m.id}
           /\ d.type = "result" /\ d.id # 0 => m.type = "result"
           /\ d.type = "bad" => d.category # "ok" \/ (m.type = "bad" /\ m.category = "ok")
<1> USE DEF Reply
<1>1. CASE \E c \in CarrierErrors :
              d = [m EXCEPT !.type = "bad", !.category = c, !.genuine = FALSE]
  BY <1>1, SessionRpcAssumption DEF SessionRpcAssumption
<1>2. CASE \E t \in {"other", "error"} :
              d = [m EXCEPT !.type = t, !.category = "protocol_error", !.genuine = FALSE]
  BY <1>2
<1>3. CASE d = [m EXCEPT !.id = 0, !.genuine = FALSE]
  BY <1>3
<1>4. CASE m.type = "result" /\ d = [m EXCEPT !.category = "protocol_error", !.genuine = FALSE]
  BY <1>4
<1> QED BY <1>1, <1>2, <1>3, <1>4 DEF Damaged

\* The oldest reply, when it is the server's own.
LEMMA GenuineHead ==
    ASSUME TypeOK, IInv, toClient # <<>>, Head(toClient).genuine
    PROVE  /\ Head(toClient) = toClient[1] /\ 1 \in DOMAIN toClient
           /\ toClient[1] \in Reply /\ toClient[1].genuine
           /\ open /\ (cut = {} => toServer = <<>>)
           /\ cut = {} => \A j \in DOMAIN toClient : j # 1 => ~toClient[j].genuine
           /\ cut # {} /\ waiting # 0 => toClient[1].id # waiting
           /\ toClient[1].type = "bad" => toClient[1].category # "ok"
           /\ toClient[1].id < nextId /\ toClient[1].id \in Nat
           /\ toClient[1].type = "result" /\ toClient[1].id # 0 => toClient[1].id \in served
<1>1. Head(toClient) = toClient[1] /\ 1 \in DOMAIN toClient
  BY ChannelFacts
<1>2. toClient[1] \in Reply /\ toClient[1].id \in Nat
  BY <1>1, ChannelFacts
<1>3. open
  BY DEF IInv, ReplyInv, TypeOK
<1>4. cut = {} => toServer = <<>> /\ \A j \in DOMAIN toClient : j # 1 => ~toClient[j].genuine
  BY <1>1 DEF IInv, InStepInv
<1>5. cut # {} /\ waiting # 0 => toClient[1].id # waiting
  BY HeadReply
<1> QED BY <1>1, <1>2, <1>3, <1>4, <1>5 DEF IInv, ReplyInv

\* The invariant but for the replies, when nothing but the replies changes.
LEMMA OnlyRepliesChange ==
    ASSUME IInv, UNCHANGED <<client, server, history, toServer, rest>>
    PROVE  NumberingInv' /\ RequestInv' /\ SuccessIsServed' /\ OutcomeInv'
<1>1. /\ open' = open /\ waiting' = waiting /\ nextId' = nextId
      /\ toServer' = toServer /\ rest' = rest /\ cut' = cut
      /\ staged' = staged /\ durable' = durable /\ served' = served
      /\ kind' = kind /\ outcome' = outcome /\ heard' = heard
  BY DEF client, server, history
<1>2. NumberingInv' /\ RequestInv' /\ SuccessIsServed'
  BY <1>1 DEF IInv, NumberingInv, RequestInv, Outstanding, SuccessIsServed
<1>3. CompletionInv' /\ WriteInv'
  BY <1>1 DEF IInv, OutcomeInv, CompletionInv, WriteInv, Misled, DefiniteFailure
<1> QED BY <1>2, <1>3 DEF OutcomeInv

LEMMA DamageInv ==
    ASSUME TypeOK, IInv, Damage
    PROVE  IInv'
<1>1. PICK d \in Damaged(Head(toClient)) : toClient' = <<d>> \o Tail(toClient)
  BY DEF Damage
<1> DEFINE m == toClient[1]
<1>2. /\ Head(toClient) = m /\ 1 \in DOMAIN toClient /\ m \in Reply /\ m.genuine
      /\ open /\ (cut = {} => toServer = <<>>)
      /\ cut = {} => \A j \in DOMAIN toClient : j # 1 => ~toClient[j].genuine
      /\ cut # {} /\ waiting # 0 => m.id # waiting
      /\ m.type = "bad" => m.category # "ok"
      /\ m.id < nextId /\ m.id \in Nat
      /\ m.type = "result" /\ m.id # 0 => m.id \in served
  BY GenuineHead DEF Damage
<1>3. d \in Reply /\ ~d.genuine /\ d.id \in {0, m.id}
      /\ (d.type = "result" /\ d.id # 0 => m.type = "result")
      /\ (d.type = "bad" => d.category # "ok")
  BY <1>2, DamagedFacts, DamagedType
<1>4. /\ DOMAIN toClient' = DOMAIN toClient /\ toClient'[1] = d
      /\ \A j \in DOMAIN toClient : j # 1 => toClient'[j] = toClient[j]
  <2>1. Tail(toClient) \in Seq(Reply) /\ Len(Tail(toClient)) = Len(toClient) - 1
        /\ \A j \in 1 .. Len(toClient) - 1 : Tail(toClient)[j] = toClient[j + 1]
    BY <1>2 DEF TypeOK
  <2>2. /\ Len(toClient') = 1 + Len(Tail(toClient)) /\ toClient'[1] = d
        /\ \A j \in 2 .. Len(toClient') : toClient'[j] = Tail(toClient)[j - 1]
        /\ DOMAIN toClient' = 1 .. Len(toClient')
    <3> HIDE DEF m
    <3>1. <<d>> \in Seq(Reply) /\ Len(<<d>>) = 1 /\ <<d>>[1] = d
      BY <1>3
    <3> QED BY <1>1, <2>1, <3>1, ConcatProperties
  <2>3. \A j \in DOMAIN toClient : j # 1 =>
           j \in 2 .. Len(toClient) /\ j - 1 \in 1 .. Len(toClient) - 1
    BY DEF TypeOK
  <2> QED BY <2>1, <2>2, <2>3, ChannelFacts
<1>5. UNCHANGED <<client, server, history, toServer, rest>>
  BY DEF Damage
<1>6. /\ open' = open /\ waiting' = waiting /\ nextId' = nextId /\ cut' = cut /\ rest' = rest
      /\ served' = served /\ toServer' = toServer /\ serverUp' = serverUp
  BY <1>5 DEF client, server, history
<1>7. 0 < nextId
  BY DEF TypeOK
<1> HIDE DEF m
<1>8. \A j \in DOMAIN toClient' :
        /\ toClient'[j].id < nextId
        /\ toClient'[j].type = "result" /\ toClient'[j].id # 0 => toClient'[j].id \in served
        /\ toClient'[j].type = "bad" => toClient'[j].category # "ok"
  BY <1>2, <1>3, <1>4, <1>7 DEF IInv, ReplyInv
<1>9. ReplyInv'
  BY <1>2, <1>6, <1>8 DEF ReplyInv
<1>10. InStepInv'
  BY <1>2, <1>3, <1>4, <1>6 DEF InStepInv
<1>11. ASSUME cut # {}, waiting # 0
       PROVE  d.id # waiting /\ \A l \in DOMAIN toClient : toClient[l].id # waiting
                                   => toClient'[l].id # waiting
  BY <1>2, <1>3, <1>4, <1>11
<1>12. OutOfStepInv'
  <2>1. ASSUME cut # {}, waiting # 0, NEW j \in DOMAIN toClient, toClient'[j].id = waiting
        PROVE  \E l \in 1 .. j - 1 : toClient'[l].id # waiting
    <3>1. j # 1 /\ toClient[j].id = waiting
      BY <1>4, <1>11, <2>1
    <3>2. PICK l \in 1 .. j - 1 : toClient[l].id # waiting
      BY <2>1, <3>1 DEF IInv, OutOfStepInv
    <3>3. l \in DOMAIN toClient
      BY <3>2, ChannelFacts
    <3> QED BY <1>11, <2>1, <3>2, <3>3
  <2>2. ASSUME cut # {}, waiting # 0, toServer # <<>>, toServer[1].id = waiting
        PROVE  \E l \in DOMAIN toClient : toClient'[l].id # waiting
    BY <1>11, <2>2 DEF IInv, OutOfStepInv
  <2>3. toClient' # <<>>
    BY <1>2, <1>4
  <2> QED BY <1>4, <1>6, <2>1, <2>2, <2>3 DEF OutOfStepInv
<1>13. CutOnceInv'
  BY <1>2, <1>3, <1>4, <1>6 DEF IInv, CutOnceInv
<1> QED BY <1>5, <1>9, <1>10, <1>12, <1>13, OnlyRepliesChange DEF IInv

LEMMA DuplicateInv ==
    ASSUME TypeOK, IInv, Duplicate
    PROVE  IInv'
<1> DEFINE m == toClient[1]
           d == [m EXCEPT !.genuine = FALSE]
           n == Len(toClient)
<1>1. /\ Head(toClient) = m /\ m \in Reply
      /\ open /\ (cut = {} => toServer = <<>>) /\ m.id < nextId
      /\ cut # {} /\ waiting # 0 => m.id # waiting
      /\ m.type = "result" /\ m.id # 0 => m.id \in served
      /\ m.type = "bad" => m.category # "ok"
  BY GenuineHead DEF Duplicate
<1>2. ~d.genuine /\ d.id = m.id /\ d.type = m.type /\ d.category = m.category
  BY <1>1 DEF Reply
<1>3. toClient' = Append(toClient, d)
  BY <1>1 DEF Duplicate
<1>4. /\ n \in Nat /\ DOMAIN toClient = 1 .. n /\ DOMAIN toClient' = 1 .. n + 1
      /\ toClient'[n + 1] = d /\ \A j \in 1 .. n : toClient'[j] = toClient[j]
  <2> HIDE DEF d
  <2> QED BY <1>3 DEF TypeOK
<1>5. UNCHANGED <<client, server, history, toServer, rest>>
  BY DEF Duplicate
<1>6. /\ open' = open /\ waiting' = waiting /\ nextId' = nextId /\ cut' = cut /\ rest' = rest
      /\ served' = served /\ toServer' = toServer /\ serverUp' = serverUp
  BY <1>5 DEF client, server, history
<1> HIDE DEF n, d, m
<1>7. \A j \in 1 .. n + 1 : j = n + 1 \/ j \in 1 .. n
  BY <1>4
<1>8. \A j \in DOMAIN toClient' :
        /\ toClient'[j].id < nextId
        /\ toClient'[j].type = "result" /\ toClient'[j].id # 0 => toClient'[j].id \in served
        /\ toClient'[j].type = "bad" => toClient'[j].category # "ok"
  BY <1>1, <1>2, <1>4, <1>7 DEF IInv, ReplyInv
<1>9. ReplyInv'
  BY <1>1, <1>6, <1>8 DEF ReplyInv
<1>10. \A j \in DOMAIN toClient' : toClient'[j].genuine => j \in 1 .. n /\ toClient[j].genuine
  BY <1>2, <1>4, <1>7
<1>11. ASSUME cut = {} PROVE InStepInv'
  <2> SUFFICES ASSUME NEW j \in DOMAIN toClient', toClient'[j].genuine
               PROVE  /\ waiting # 0 /\ toClient'[j].id = waiting
                      /\ \/ toClient'[j].type = "result" /\ toClient'[j].category = "ok"
                         \/ toClient'[j].type = "error" /\ waiting \notin served
                      /\ \A l \in DOMAIN toClient' : l # j => ~toClient'[l].genuine
                      /\ \A l \in 1 .. j - 1 : toClient'[l].id # waiting
    BY <1>1, <1>6, <1>11 DEF InStepInv
  <2>1. j \in 1 .. n /\ toClient[j].genuine
    BY <1>10
  <2>2. \A l \in 1 .. j - 1 : l \in 1 .. n
    BY <1>4, <2>1
  <2> QED BY <1>2, <1>4, <1>7, <1>11, <2>1, <2>2 DEF IInv, InStepInv
<1>12. ASSUME cut # {} PROVE OutOfStepInv'
  <2>1. ASSUME waiting # 0, NEW j \in 1 .. n + 1, toClient'[j].id = waiting
        PROVE  \E l \in 1 .. j - 1 : toClient'[l].id # waiting
    <3>1. j \in 1 .. n
      BY <1>1, <1>2, <1>4, <1>7, <1>12, <2>1
    <3>2. PICK l \in 1 .. j - 1 : toClient[l].id # waiting
      BY <1>4, <1>12, <2>1, <3>1 DEF IInv, OutOfStepInv
    <3>3. toClient'[l] = toClient[l]
      BY <1>4, <3>1, <3>2
    <3> QED BY <3>2, <3>3
  <2>2. ASSUME waiting # 0, toServer # <<>>, toServer[1].id = waiting
        PROVE  \E l \in 1 .. n + 1 : toClient'[l].id # waiting
    <3>1. PICK l \in 1 .. n : toClient[l].id # waiting
      BY <1>4, <1>12, <2>2 DEF IInv, OutOfStepInv
    <3> QED BY <1>4, <3>1
  <2>3. toClient' # <<>>
    BY <1>4
  <2> QED BY <1>4, <1>6, <2>1, <2>2, <2>3 DEF OutOfStepInv
<1>13. CutOnceInv'
  BY <1>4, <1>6, <1>10 DEF IInv, CutOnceInv
<1>14. InStepInv'
  <2>1. cut # {} => InStepInv'
    BY <1>6 DEF InStepInv
  <2> QED BY <1>11, <2>1
<1>15. OutOfStepInv'
  <2>1. cut = {} => OutOfStepInv'
    BY <1>6 DEF OutOfStepInv
  <2> QED BY <1>12, <2>1
<1> QED BY <1>5, <1>9, <1>13, <1>14, <1>15, OnlyRepliesChange DEF IInv

LEMMA NextIInv == TypeOK /\ IInv /\ [Next]_vars => IInv'
<1> SUFFICES ASSUME TypeOK, IInv, [Next]_vars PROVE IInv'
  OBVIOUS
<1>1. ASSUME NEW k \in Kinds, Send(k) \/ SendFails(k) \/ SendIsCutShort(k) PROVE IInv'
  BY <1>1, BeginInv
<1>2. CASE Receive \/ ReceiveFails \/ Destroy
  BY <1>2, ReceiveInv, ReceiveFailsInv, DestroyInv
<1>3. CASE Serve \/ Refuse \/ RefuseJunk \/ NoticeClose
  BY <1>3, ServeInv, RefuseInv, RefuseJunkInv, NoticeCloseInv
<1>4. CASE Disconnect \/ Damage \/ Duplicate
  BY <1>4, DisconnectInv, DamageInv, DuplicateInv
<1>5. CASE UNCHANGED vars
  <2>1. UNCHANGED <<client, server, history, toServer, rest>> /\ toClient' = toClient
    BY <1>5 DEF vars, network
  <2>2. ReplyInv' /\ InStepInv' /\ OutOfStepInv' /\ CutOnceInv'
    BY <2>1 DEF client, server, history, IInv, ReplyInv, InStepInv, OutOfStepInv, CutOnceInv
  <2> QED BY <2>1, <2>2, OnlyRepliesChange DEF IInv
<1> QED BY <1>1, <1>2, <1>3, <1>4, <1>5 DEF Next

\* IInv holds of every reachable state: while the connection is open and no write was cut
\* short, the only request on its way or answered is the one the client waits for; behind
\* a write that was cut short the next reply is another call's, and nothing succeeds.
THEOREM InvariantHolds == Spec => []IInv
<1>1. Init => IInv
  BY InitIInv
<1>2. TypeOK /\ IInv /\ [Next]_vars => IInv'
  BY NextIInv
<1> QED BY <1>1, <1>2, TypeCorrect, PTL DEF Spec

-----------------------------------------------------------------------------
(* What follows.                                                           *)

\* No call succeeds on a reply that is not its own: whatever reply is left over,
\* repeated or damaged, a call that returned normally was executed by the server; and
\* none succeeds any more once a write was cut short.
THEOREM SuccessImpliesServed == Spec => []SuccessIsServed
<1>1. IInv => SuccessIsServed
  BY DEF IInv
<1> QED BY <1>1, InvariantHolds, PTL

\* A completion that failed with a category other than OUTCOME_UNKNOWN, and whose reply
\* did not mislead the client, was not executed by the server and never will be.
THEOREM DefiniteFailureIsFinal == Spec => []DefiniteFailureNotApplied
<1>1. IInv => DefiniteFailureNotApplied
  BY DEF IInv, OutcomeInv, CompletionInv, DefiniteFailureNotApplied
<1> QED BY <1>1, InvariantHolds, PTL

\* A write the application saw fail is never committed by a later completion, but for a
\* damaged reply and for two writes that were cut short.
THEOREM FailedWriteIsNotCommitted == Spec => []FailedWriteNeverDurable
<1>1. IInv => FailedWriteNeverDurable
  BY DEF IInv, OutcomeInv, WriteInv, FailedWriteNeverDurable
<1> QED BY <1>1, InvariantHolds, PTL

\* Between calls no reply of the server waits on an open connection, as long as at most
\* one write was cut short.
THEOREM ConnectionIsInStep == Spec => []NoReplyLeftBetweenCalls
<1>1. IInv => NoReplyLeftBetweenCalls
  <2> SUFFICES ASSUME IInv, waiting = 0, open, \A i, j \in cut : i = j,
                      NEW l \in DOMAIN toClient
               PROVE  ~toClient[l].genuine
    BY DEF NoReplyLeftBetweenCalls
  <2>1. CASE cut = {}
    BY <2>1 DEF IInv, InStepInv
  <2>2. CASE cut # {}
    <3>1. PICK i \in cut : cut = {i}
      BY <2>2
    <3> QED BY <3>1 DEF IInv, CutOnceInv
  <2> QED BY <2>1, <2>2
<1> QED BY <1>1, InvariantHolds, PTL

\* Steps other than Serve execute nothing.
LEMMA OnlyServeServes ==
    ASSUME [Next]_vars, served' # served
    PROVE  Serve
BY DEF Next, Send, SendFails, SendIsCutShort, Receive, ReceiveFails, Destroy, Refuse,
       RefuseJunk, Leave, NoticeClose, Disconnect, Damage, Duplicate, server, vars

\* The server executes the request the client waits for, or one that failed for the client
\* and whose connection it closed or of which it had written only a part.
THEOREM ServedInStep == Spec => OnlyTheWaitingCallIsServed
<1> DEFINE InStep == \A i \in served' \ served :
                        \/ i = waiting
                        \/ Told(outcome[i]) /\ outcome[i] # "ok" /\ (~open \/ i \in cut)
<1>1. TypeOK /\ IInv /\ [Next]_vars => [InStep]_vars
  <2> SUFFICES ASSUME TypeOK, IInv, [Next]_vars, NEW i \in served' \ served,
                      i # waiting
               PROVE  Told(outcome[i]) /\ outcome[i] # "ok" /\ (~open \/ i \in cut)
    OBVIOUS
  <2>1. Serve
    BY OnlyServeServes
  <2> DEFINE r == toServer[1]
  <2>2. /\ Head(toServer) = r /\ r.id \in Ids /\ r.id < nextId /\ outcome[r.id] # "ok"
        /\ r.id \notin cut => (open => r.id = waiting)
    BY <2>1, HeadRequest DEF Serve, Outstanding
  <2>3. i = r.id
    BY <2>1, <2>2 DEF Serve, Execute
  <2>4. outcome[i] # "none" /\ outcome[i] # "pending"
    BY <2>2, <2>3 DEF IInv, NumberingInv
  <2> QED BY <2>2, <2>3, <2>4 DEF Told, TypeOK
<1>2. Spec => [][InStep]_vars
  BY <1>1, TypeCorrect, InvariantHolds, PTL DEF Spec
<1> QED BY <1>2 DEF OnlyTheWaitingCallIsServed

-----------------------------------------------------------------------------
(* The writes a caller counts on.                                          *)

\* The calls before a call.
LEMMA CallsBefore ==
    ASSUME NEW n \in Ids
    PROVE  /\ n \in Nat \ {0} /\ n \in 1 .. n
           /\ \A c \in 1 .. n : c \in Nat /\ \A i \in 1 .. c - 1 : i \in Ids /\ i # n
BY SessionRpcAssumption DEF Ids, SessionRpcAssumption

\* They depend on the calls before c only.
LEMMA CountedSame ==
    ASSUME NEW c \in Nat, NEW k1, NEW k2, NEW o1, NEW o2,
           \A i \in 1 .. c - 1 : k1[i] = k2[i] /\ o1[i] = o2[i]
    PROVE  Counted(c, k1, o1) = Counted(c, k2, o2)
<1>1. \A w \in 1 .. c - 1 : \A i \in w + 1 .. c - 1 : i \in 1 .. c - 1
  OBVIOUS
<1> QED BY <1>1 DEF Counted

\* A step that touches no call before n leaves what is counted on up to n.
LEMMA CountedBefore ==
    ASSUME NEW n \in Ids,
           \A i \in Ids : i # n => kind'[i] = kind[i] /\ outcome'[i] = outcome[i]
    PROVE  \A c \in 1 .. n : Counted(c, kind', outcome') = Counted(c, kind, outcome)
<1> SUFFICES ASSUME NEW c \in 1 .. n
             PROVE  Counted(c, kind', outcome') = Counted(c, kind, outcome)
  OBVIOUS
<1>1. c \in Nat /\ \A i \in 1 .. c - 1 : i \in Ids /\ i # n
  BY CallsBefore
<1> QED BY <1>1, CountedSame

\* One more call: nothing counts behind a call that failed or rolled back.
LEMMA CountedNext ==
    ASSUME NEW c \in Nat \ {0}, NEW k, NEW o, NEW w \in Counted(c + 1, k, o)
    PROVE  /\ o[c] = "ok"
           /\ \/ w = c /\ k[c] = "write"
              \/ k[c] # "rollback" /\ w \in Counted(c, k, o)
<1>1. w \in 1 .. c /\ k[w] = "write" /\ o[w] = "ok"
      /\ \A i \in w + 1 .. c : o[i] = "ok" /\ k[i] # "rollback"
  BY DEF Counted
<1>2. CASE w = c
  BY <1>1, <1>2
<1>3. CASE w # c
  <2>1. w \in 1 .. c - 1 /\ c \in w + 1 .. c
    BY <1>1, <1>3
  <2>2. \A i \in w + 1 .. c - 1 : i \in w + 1 .. c
    OBVIOUS
  <2> QED BY <1>1, <2>1, <2>2 DEF Counted
<1> QED BY <1>2, <1>3

\* Nothing counts when no call from r on succeeded.
LEMMA NothingCounted ==
    ASSUME NEW c \in Nat, NEW k, NEW o, NEW r \in 1 .. c - 1,
           \A i \in 1 .. c - 1 : i >= r => o[i] # "ok"
    PROVE  Counted(c, k, o) = {}
<1> SUFFICES ASSUME NEW w \in Counted(c, k, o) PROVE FALSE
  OBVIOUS
<1>1. w \in 1 .. c - 1 /\ o[w] = "ok" /\ \A i \in w + 1 .. c - 1 : o[i] = "ok"
  BY DEF Counted
<1>2. CASE w >= r
  BY <1>1, <1>2
<1>3. CASE w < r
  BY <1>1, <1>3
<1> QED BY <1>1, <1>2, <1>3

-----------------------------------------------------------------------------
(* The categories that arise.                                              *)

\* A reply says what a server or a decoder can say.
Said(m) == /\ m.type = "result" => m.category \in {"ok", "protocol_error"}
           /\ m.type = "bad" => m.category \in ServerCategories

\* Only a completion's failure is of unknown outcome.
LEMMA UnknownFailure ==
    ASSUME NEW k, NEW c \in ServerCategories, Failure(k, c) = "outcome_unknown"
    PROVE  k \in Completions
BY DEF Failure, ServerCategories

LEMMA UnknownVerdict ==
    ASSUME NEW m \in Reply, Said(m), NEW id \in Nat, NEW k,
           Verdict(m, id, k) = "outcome_unknown"
    PROVE  k \in Completions
<1>1. CASE m.type = "bad"
  BY <1>1, UnknownFailure DEF Verdict, Said
<1>2. CASE m.type # "bad" /\ m.id # id
  BY <1>2 DEF Verdict
<1>3. CASE m.type = "error" /\ m.id = id
  <2>1. Verdict(m, id, k) = Failure(k, decodeErrorCategory(m.category))
    BY <1>3 DEF Verdict
  <2> QED BY <2>1, DecodedType, UnknownFailure
<1>4. CASE m.type = "other" /\ m.id = id
  BY <1>4 DEF Verdict
<1>5. CASE m.type = "result" /\ m.id = id
  BY <1>5 DEF Verdict, Said
<1> QED BY <1>1, <1>2, <1>3, <1>4, <1>5 DEF Reply

\* Damage keeps replies within what is said.
LEMMA DamagedSaid ==
    ASSUME NEW m \in Reply, Said(m), NEW d \in Damaged(m)
    PROVE  Said(d)
<1> USE DEF Reply, Said
<1>1. CASE \E c \in CarrierErrors :
              d = [m EXCEPT !.type = "bad", !.category = c, !.genuine = FALSE]
  BY <1>1, SessionRpcAssumption DEF SessionRpcAssumption, ServerCategories
<1>2. CASE \E t \in {"other", "error"} :
              d = [m EXCEPT !.type = t, !.category = "protocol_error", !.genuine = FALSE]
  BY <1>2
<1>3. CASE d = [m EXCEPT !.id = 0, !.genuine = FALSE]
  BY <1>3
<1>4. CASE m.type = "result" /\ d = [m EXCEPT !.category = "protocol_error", !.genuine = FALSE]
  BY <1>4
<1> QED BY <1>1, <1>2, <1>3, <1>4 DEF Damaged

\* The replies on their way after one step.
LEMMA RepliesSaid ==
    ASSUME TypeOK, IInv, \A j \in DOMAIN toClient : Said(toClient[j]), [Next]_vars
    PROVE  \A j \in DOMAIN toClient' : Said(toClient'[j])
<1>1. CASE toClient' = toClient \/ toClient' = <<>>
  BY <1>1
<1>2. ASSUME NEW m \in Reply, Said(m), toClient' = Post(m)
      PROVE  \A j \in DOMAIN toClient' : Said(toClient'[j])
  <2>1. CASE toClient' = toClient
    BY <2>1
  <2>2. CASE toClient' = Append(toClient, m)
    BY <1>2, <2>2 DEF TypeOK
  <2> QED BY <1>2, <2>1, <2>2 DEF Post
<1>3. CASE Receive
  <2>1. toClient' = Tail(toClient) \/ toClient' = <<>>
    BY <1>3 DEF Receive, Return
  <2>2. CASE toClient' = Tail(toClient)
    <3>1. \A j \in DOMAIN Tail(toClient) :
             Tail(toClient)[j] = toClient[j + 1] /\ j + 1 \in DOMAIN toClient
      BY <1>3 DEF Receive, TypeOK
    <3> QED BY <2>2, <3>1
  <2> QED BY <1>1, <2>1, <2>2
<1>4. CASE Serve
  <2> DEFINE m == [id |-> Head(toServer).id, type |-> "result", category |-> "ok", genuine |-> TRUE]
  <2>1. Head(toServer).id \in Nat
    BY <1>4, HeadRequest DEF Serve, Ids
  <2>2. m \in Reply /\ Said(m)
    BY <2>1 DEF Reply, Said
  <2> QED BY <1>2, <1>4, <2>2 DEF Serve
<1>5. CASE Refuse
  <2>1. Head(toServer).id \in Nat
    BY <1>5, HeadRequest DEF Refuse, Ids
  <2>2. PICK c \in WireCategories :
           toClient' = Post([id |-> Head(toServer).id, type |-> "error",
                             category |-> c, genuine |-> TRUE])
    BY <1>5 DEF Refuse
  <2> DEFINE m == [id |-> Head(toServer).id, type |-> "error", category |-> c, genuine |-> TRUE]
  <2>3. m \in Reply /\ Said(m)
    BY <2>1, SessionRpcAssumption DEF Reply, Said, SessionRpcAssumption
  <2> QED BY <1>2, <2>2, <2>3
<1>6. CASE RefuseJunk
  <2> DEFINE m == [id |-> 0, type |-> "error", category |-> "protocol_error", genuine |-> TRUE]
  <2>1. m \in Reply /\ Said(m)
    BY DEF Reply, Said, Categories, ServerCategories
  <2> QED BY <1>2, <1>6, <2>1 DEF RefuseJunk
<1>7. CASE Damage
  <2>1. PICK d \in Damaged(Head(toClient)) : toClient' = <<d>> \o Tail(toClient)
    BY <1>7 DEF Damage
  <2>2. Head(toClient) = toClient[1] /\ 1 \in DOMAIN toClient /\ toClient[1] \in Reply
    BY <1>7, GenuineHead DEF Damage
  <2>3. Said(d) /\ d \in Reply
    BY <2>2, DamagedSaid, DamagedType
  <2>4. Tail(toClient) \in Seq(Reply) /\ <<d>> \in Seq(Reply)
        /\ \A j \in DOMAIN Tail(toClient) :
              Tail(toClient)[j] = toClient[j + 1] /\ j + 1 \in DOMAIN toClient
    BY <1>7, <2>3 DEF Damage, TypeOK
  <2>5. \A j \in DOMAIN toClient' :
           \/ toClient'[j] = d
           \/ j - 1 \in DOMAIN Tail(toClient) /\ toClient'[j] = Tail(toClient)[j - 1]
    <3>1. /\ \A j \in 1 .. Len(<<d>>) + Len(Tail(toClient)) :
                toClient'[j] = IF j <= Len(<<d>>) THEN <<d>>[j] ELSE Tail(toClient)[j - Len(<<d>>)]
          /\ DOMAIN toClient' = 1 .. Len(<<d>>) + Len(Tail(toClient))
      BY <2>1, <2>4
    <3> QED BY <2>4, <3>1
  <2> QED BY <2>3, <2>4, <2>5
<1>8. CASE Duplicate
  <2>1. Head(toClient) = toClient[1] /\ 1 \in DOMAIN toClient /\ toClient[1] \in Reply
    BY <1>8, GenuineHead DEF Duplicate
  <2> DEFINE d == [toClient[1] EXCEPT !.genuine = FALSE]
  <2>2. Said(d) /\ d \in Reply
    BY <2>1 DEF Said, Reply
  <2>3. toClient' = Append(toClient, d)
    BY <1>8, <2>1 DEF Duplicate
  <2> HIDE DEF d
  <2> QED BY <2>2, <2>3 DEF TypeOK
<1>9. CASE ReceiveFails \/ \E k \in Kinds : SendFails(k) \/ SendIsCutShort(k)
  BY <1>1, <1>9 DEF ReceiveFails, SendFails, SendIsCutShort, Return
<1>10. CASE Destroy \/ NoticeClose \/ Disconnect \/ UNCHANGED vars \/ \E k \in Kinds : Send(k)
  BY <1>1, <1>10 DEF Destroy, NoticeClose, Disconnect, Send, vars, network
<1> QED BY <1>3, <1>4, <1>5, <1>6, <1>7, <1>8, <1>9, <1>10 DEF Next

LEMMA CategoryStep ==
    ASSUME TypeOK, IInv, CategoryInv, [Next]_vars
    PROVE  CategoryInv'
<1>1. \A j \in DOMAIN toClient' : Said(toClient'[j])
  BY RepliesSaid DEF CategoryInv, Said
<1> DEFINE Unknown == \A i \in Ids : outcome[i] = "outcome_unknown" => kind[i] \in Completions
<1>2. Unknown'
  <2>1. CASE kind' = kind /\ outcome' = outcome
    BY <2>1 DEF CategoryInv
  <2>2. ASSUME NEW k \in Kinds, Send(k) PROVE Unknown'
    <3>1. nextId \in Ids
      BY <2>2, IdleFacts DEF Send
    <3> QED BY <2>2, <3>1 DEF Send, Number, CategoryInv, TypeOK
  <2>3. ASSUME NEW k \in Kinds, SendFails(k) \/ SendIsCutShort(k) PROVE Unknown'
    <3>1. nextId \in Ids /\ Number(k)
          /\ outcome' = [outcome EXCEPT ![nextId] = Failure(k, "transport_error")]
      BY <2>3, IdleFacts DEF SendFails, SendIsCutShort, Return
    <3>2. Failure(k, "transport_error") = "outcome_unknown" => k \in Completions
      BY UnknownFailure DEF ServerCategories
    <3> HIDE DEF Failure
    <3> QED BY <3>1, <3>2 DEF Number, CategoryInv, TypeOK
  <2>4. CASE Receive
    <3> DEFINE m == Head(toClient)
    <3>1. /\ waiting # 0 /\ m = toClient[1] /\ 1 \in DOMAIN toClient /\ kind' = kind
          /\ outcome' = [outcome EXCEPT ![waiting] = Verdict(m, waiting, kind[waiting])]
      BY <2>4 DEF Receive, Return, TypeOK
    <3>2. m \in Reply /\ Said(m)
      BY <3>1, ChannelFacts DEF CategoryInv, Said
    <3>3. waiting \in Ids
      BY <3>1, WaitingFacts
    <3>4. waiting \in Nat
      BY <3>3 DEF Ids
    <3> DEFINE v == Verdict(m, waiting, kind[waiting])
    <3>5. v = "outcome_unknown" => kind[waiting] \in Completions
      BY <3>2, <3>4, UnknownVerdict
    <3> HIDE DEF v, m
    <3>6. \A i \in Ids : outcome'[i] = IF i = waiting THEN v ELSE outcome[i]
      BY <3>1, <3>3 DEF TypeOK, v
    <3> QED BY <3>1, <3>5, <3>6 DEF CategoryInv
  <2>5. CASE ReceiveFails
    <3>1. /\ waiting # 0 /\ kind' = kind
          /\ outcome' = [outcome EXCEPT ![waiting] = Failure(kind[waiting], "transport_error")]
      BY <2>5 DEF ReceiveFails, Return
    <3>2. waiting \in Ids
      BY <3>1, WaitingFacts
    <3> DEFINE v == Failure(kind[waiting], "transport_error")
    <3>3. v = "outcome_unknown" => kind[waiting] \in Completions
      BY UnknownFailure DEF ServerCategories
    <3> HIDE DEF v
    <3>4. \A i \in Ids : outcome'[i] = IF i = waiting THEN v ELSE outcome[i]
      BY <3>1, <3>2 DEF TypeOK, v
    <3> QED BY <3>1, <3>3, <3>4 DEF CategoryInv
  <2>6. CASE Destroy \/ Serve \/ Refuse \/ RefuseJunk \/ NoticeClose \/ Disconnect
             \/ Damage \/ Duplicate \/ UNCHANGED vars
    BY <2>1, <2>6 DEF Destroy, Serve, Refuse, RefuseJunk, NoticeClose, Disconnect, Damage,
                      Duplicate, vars, history
  <2> QED BY <2>2, <2>3, <2>4, <2>5, <2>6 DEF Next
<1> QED BY <1>1, <1>2 DEF CategoryInv, Said

-----------------------------------------------------------------------------
(* The transaction: one lemma per way a step can touch it.                 *)

\* What the server executed and stored are calls made before the next one.
LEMMA ServedFacts ==
    ASSUME TypeOK, IInv
    PROVE  /\ \A i \in served : i \in Ids /\ i \in Nat /\ i < nextId
           /\ \A i \in staged \cup durable : i \in served
           /\ nextId \in Nat \ {0} /\ 0 \notin served
<1>1. nextId \in Nat \ {0} /\ served \subseteq Ids
  BY SessionRpcAssumption DEF TypeOK, SessionRpcAssumption
<1>2. \A i \in served : i \in Ids /\ i \in Nat /\ i # 0
  BY <1>1 DEF Ids
<1>3. /\ \A i \in served : i < nextId
      /\ \A i \in staged \cup durable : i \in served
  BY DEF IInv, NumberingInv, OutcomeInv, WriteInv
<1> QED BY <1>1, <1>2, <1>3

\* The requests on their way are calls made before the next one.
LEMMA OnTheirWay ==
    ASSUME TypeOK, IInv
    PROVE  /\ \A j \in DOMAIN toServer : /\ toServer[j].id \in Ids /\ toServer[j].id < nextId
                                         /\ toServer[j].id \in 1 .. nextId - 1
           /\ rest \in Request => /\ rest.id \in Ids /\ rest.id < nextId
                                  /\ rest.id \in 1 .. nextId - 1
<1>1. nextId \in Nat /\ \A i \in Ids : i < nextId => i \in 1 .. nextId - 1
  BY DEF TypeOK, Ids
<1> QED BY <1>1, ChannelFacts DEF IInv, RequestInv, Outstanding

LEMMA BeginTransaction ==
    ASSUME TypeOK, IInv, TransactionInv, NEW k \in Kinds, MayCall(k), NEW o, Begins(k, o)
    PROVE  TransactionInv'
<1>1. /\ nextId \in Ids /\ nextId \in Nat \ {0} /\ waiting = 0 /\ nextId \notin served
  BY IdleFacts DEF Ids
<1>2. /\ \A i \in Ids : i # nextId => kind'[i] = kind[i] /\ outcome'[i] = outcome[i]
      /\ outcome'[nextId] = o /\ o # "ok" /\ waiting' \in {0, nextId}
  BY BeginFacts
<1>3. /\ nextId' = nextId + 1
      /\ serverUp' = serverUp /\ staged' = staged /\ durable' = durable /\ served' = served
  BY DEF Begins
<1>4. \A c \in 1 .. nextId : Counted(c, kind', outcome') = Counted(c, kind, outcome)
  BY <1>1, <1>2, CountedBefore
<1>5. Counted(nextId', kind', outcome') = {}
  BY <1>1, <1>2, <1>3, CountedNext
<1>6. /\ \A j \in DOMAIN toServer' :
            \/ j \in DOMAIN toServer /\ toServer'[j] = toServer[j]
            \/ toServer'[j].id = nextId
            \/ rest \in Request /\ toServer'[j] = rest
      /\ rest' \in Request => rest' = rest \/ rest'.id = nextId
  BY BeginStream DEF Finished
<1>7. StoreInv'
  BY <1>1, <1>2, <1>3, ServedFacts DEF TransactionInv, StoreInv
<1>8. BehindInv'
  <2>1. \A i \in Ids : i >= nextId => outcome'[i] # "ok"
    BY <1>2 DEF IInv, NumberingInv
  <2>2. \A j \in DOMAIN toServer, i \in Ids : i >= toServer[j].id => outcome'[i] # "ok"
    BY <1>2 DEF TransactionInv, BehindInv
  <2>3. rest \in Request => \A i \in Ids : i >= rest.id => outcome'[i] # "ok"
    BY <1>2 DEF IInv, RequestInv, SuccessIsServed
  <2> QED BY <1>6, <2>1, <2>2, <2>3 DEF BehindInv
<1>9. CountedInv'
  <2>1. nextId \in 1 .. nextId /\ waiting' \notin served'
    BY <1>1, <1>2, <1>3, ServedFacts
  <2>2. \A c \in served : c \in 1 .. nextId /\ kind'[c] = kind[c]
    BY <1>1, <1>2, ServedFacts DEF Ids
  <2>3. /\ \A j \in DOMAIN toServer : toServer[j].id \in 1 .. nextId
        /\ rest \in Request => rest.id \in 1 .. nextId
    BY <1>1, OnTheirWay
  <2>4. serverUp => /\ \A j \in DOMAIN toServer :
                          Counted(toServer[j].id, kind', outcome') \subseteq staged \cup durable
                    /\ rest \in Request => Counted(rest.id, kind', outcome') \subseteq staged \cup durable
                    /\ Counted(nextId, kind', outcome') \subseteq staged \cup durable
    BY <1>1, <1>4, <2>1, <2>3 DEF TransactionInv, CountedInv, CountedOn
  <2>5. \A c \in served : kind'[c] = "commit" => Counted(c, kind', outcome') \subseteq durable
    BY <1>4, <2>2 DEF TransactionInv, CountedInv, CountedOn
  <2>6. serverUp => /\ \A j \in DOMAIN toServer' :
                          Counted(toServer'[j].id, kind', outcome') \subseteq staged \cup durable
                    /\ rest' \in Request => Counted(rest'.id, kind', outcome') \subseteq staged \cup durable
    BY <1>6, <2>4
  <2> QED BY <1>3, <1>5, <2>1, <2>5, <2>6 DEF CountedInv, CountedOn
<1> QED BY <1>7, <1>8, <1>9 DEF TransactionInv

\* The call in progress ends with v: a success only if the server executed it.
LEMMA ReturnTransaction ==
    ASSUME TypeOK, IInv, TransactionInv, waiting # 0, NEW v,
           v = "ok" => waiting \in served /\ cut = {},
           outcome' = [outcome EXCEPT ![waiting] = v], waiting' = 0,
           UNCHANGED <<nextId, kind, cut, toServer, rest, server>>
    PROVE  TransactionInv'
<1>1. waiting \in Ids /\ waiting = nextId - 1 /\ waiting \in Nat \ {0}
      /\ (waiting \in served => toServer = <<>>)
  BY WaitingFacts DEF Ids
<1>2. /\ nextId' = waiting + 1 /\ nextId' = nextId /\ kind' = kind
      /\ toServer' = toServer /\ rest' = rest
      /\ serverUp' = serverUp /\ staged' = staged /\ durable' = durable /\ served' = served
  BY <1>1, ServedFacts DEF server
<1>3. \A i \in Ids : i # waiting => outcome'[i] = outcome[i]
  BY <1>1 DEF TypeOK
<1>4. outcome'[waiting] = v
  BY <1>1 DEF TypeOK
<1>5. \A c \in 1 .. waiting : Counted(c, kind', outcome') = Counted(c, kind, outcome)
  BY <1>1, <1>2, <1>3, CountedBefore
<1>6. /\ \A j \in DOMAIN toServer : toServer[j].id \in 1 .. waiting
      /\ rest \in Request => rest.id \in 1 .. waiting
      /\ toServer # <<>> => v # "ok"
  BY <1>1, OnTheirWay
<1>7. StoreInv'
  BY <1>2 DEF TransactionInv, StoreInv
<1>8. BehindInv'
  <2>1. \A j \in DOMAIN toServer : toServer # <<>>
    OBVIOUS
  <2> QED BY <1>1, <1>2, <1>3, <1>4, <1>6, <2>1 DEF TransactionInv, BehindInv
<1>9. serverUp => Counted(nextId', kind', outcome') \subseteq staged \cup durable
  <2> SUFFICES ASSUME serverUp, NEW w \in Counted(nextId', kind', outcome')
               PROVE  w \in staged \cup durable
    OBVIOUS
  <2>1. /\ v = "ok"
        /\ \/ w = waiting /\ kind[waiting] = "write"
           \/ kind[waiting] # "rollback" /\ w \in Counted(waiting, kind', outcome')
    BY <1>1, <1>2, <1>4, CountedNext
  <2>2. waiting \in served /\ cut = {} /\ waiting \in 1 .. waiting
    BY <1>1, <2>1, CallsBefore
  <2> QED BY <1>5, <2>1, <2>2 DEF TransactionInv, CountedInv, CountedOn
<1>10. CountedInv'
  <2>1. waiting' \notin served'
    BY <1>2, ServedFacts
  <2>2. \A c \in served : c \in 1 .. waiting
    BY <1>1, ServedFacts
  <2> QED BY <1>2, <1>5, <1>6, <1>9, <2>1, <2>2 DEF TransactionInv, CountedInv, CountedOn
<1> QED BY <1>7, <1>8, <1>10 DEF TransactionInv

\* Behind a request that is still on its way nothing is counted on.
LEMMA NothingOwedBehind ==
    ASSUME TypeOK, IInv, BehindInv, toServer # <<>>,
           NEW c \in 1 .. nextId, toServer[1].id < c
    PROVE  Counted(c, kind, outcome) = {}
<1> DEFINE r == toServer[1].id
<1>1. nextId \in Nat /\ c \in Nat /\ r \in 1 .. c - 1
  BY HeadRequest, ServedFacts DEF Ids
<1>2. \A i \in 1 .. c - 1 : i \in Ids
  BY <1>1, SessionRpcAssumption DEF TypeOK, Ids, SessionRpcAssumption
<1>3. \A i \in 1 .. c - 1 : i >= r => outcome[i] # "ok"
  BY <1>2, HeadRequest DEF BehindInv
<1> HIDE DEF r
<1> QED BY <1>1, <1>3, NothingCounted

\* So when the first request is read nothing is counted on for the ones behind it.
LEMMA ReadCounts ==
    ASSUME TypeOK, IInv, TransactionInv, toServer # <<>>, toServer' = Tail(toServer),
           UNCHANGED <<nextId, kind, outcome, rest>>
    PROVE  /\ BehindInv'
           /\ \A j \in DOMAIN toServer' : Counted(toServer'[j].id, kind', outcome') = {}
           /\ rest' \in Request => Counted(rest'.id, kind', outcome') = {}
           /\ Counted(nextId', kind', outcome') = {}
<1>1. /\ \A j \in DOMAIN toServer' : /\ j + 1 \in DOMAIN toServer /\ toServer'[j] = toServer[j + 1]
                                     /\ toServer[1].id < toServer[j + 1].id
      /\ rest \in Request => toServer[1].id < rest.id
      /\ toServer[1].id < nextId
  BY HeadRequest DEF Outstanding
<1>2. /\ \A j \in DOMAIN toServer : toServer[j].id \in 1 .. nextId
      /\ rest \in Request => rest.id \in 1 .. nextId
      /\ nextId \in 1 .. nextId
  BY OnTheirWay, ServedFacts
<1>3. BehindInv'
  BY <1>1 DEF TransactionInv, BehindInv
<1> QED BY <1>1, <1>2, <1>3, NothingOwedBehind DEF TransactionInv

LEMMA ServeTransaction ==
    ASSUME TypeOK, IInv, TransactionInv, Serve
    PROVE  TransactionInv'
<1> DEFINE r == toServer[1]
<1>1. toServer # <<>> /\ Head(toServer) = r /\ 1 \in DOMAIN toServer
      /\ r.id \in Ids /\ r.id \notin served /\ kind[r.id] = r.kind /\ waiting \notin served
  BY HeadRequest DEF Serve, Outstanding
<1>2. /\ Execute(r) /\ toServer' = Tail(toServer) /\ serverUp
      /\ UNCHANGED <<nextId, waiting, kind, outcome, rest, cut>>
  BY <1>1 DEF Serve, client, history
<1>3. /\ BehindInv'
      /\ \A j \in DOMAIN toServer' : Counted(toServer'[j].id, kind', outcome') = {}
      /\ rest' \in Request => Counted(rest'.id, kind', outcome') = {}
      /\ Counted(nextId', kind', outcome') = {}
  BY <1>1, <1>2, ReadCounts
<1>4. Counted(r.id, kind, outcome) \subseteq staged \cup durable
  BY <1>1, <1>2 DEF TransactionInv, CountedInv, CountedOn
<1> HIDE DEF r
<1>5. /\ served' = served \cup {r.id} /\ durable \subseteq durable'
      /\ durable' \subseteq durable \cup staged
      /\ staged' \subseteq staged \cup (IF r.kind = "write" THEN {r.id} ELSE {})
      /\ r.kind = "write" => r.id \in staged'
      /\ r.kind \notin {"rollback", "close"} => staged \cup durable \subseteq staged' \cup durable'
      /\ r.kind = "commit" => staged \cup durable \subseteq durable'
      /\ serverUp' => r.kind # "close"
  BY <1>2 DEF Execute, Completes
<1>6. StoreInv'
  BY <1>1, <1>2, <1>5 DEF TransactionInv, StoreInv
<1>7. waiting \in served' => waiting = r.id
  BY <1>1, <1>5
<1>8. CountedInv'
  <2>1. \A c \in served' : kind'[c] = "commit" => Counted(c, kind', outcome') \subseteq durable'
    BY <1>1, <1>2, <1>4, <1>5 DEF TransactionInv, CountedInv, CountedOn
  <2>2. serverUp' /\ waiting' \in served' =>
          /\ kind'[waiting'] # "rollback" =>
                Counted(waiting', kind', outcome') \subseteq staged' \cup durable'
          /\ kind'[waiting'] = "write" => waiting' \in staged' \cup durable'
    BY <1>1, <1>2, <1>4, <1>5, <1>7
  <2> QED BY <1>3, <2>1, <2>2 DEF CountedInv, CountedOn
<1> QED BY <1>3, <1>6, <1>8 DEF TransactionInv

LEMMA RefuseTransaction ==
    ASSUME TypeOK, IInv, TransactionInv, Refuse
    PROVE  TransactionInv'
<1>1. /\ toServer # <<>> /\ waiting \notin served
  BY HeadRequest DEF Refuse
<1>2. /\ toServer' = Tail(toServer) /\ staged' \subseteq staged
      /\ durable' = durable /\ served' = served /\ serverUp' = serverUp
      /\ UNCHANGED <<nextId, waiting, kind, outcome, rest, cut>>
  BY <1>1 DEF Refuse, client, history
<1>3. /\ BehindInv'
      /\ \A j \in DOMAIN toServer' : Counted(toServer'[j].id, kind', outcome') = {}
      /\ rest' \in Request => Counted(rest'.id, kind', outcome') = {}
      /\ Counted(nextId', kind', outcome') = {}
  BY <1>1, <1>2, ReadCounts
<1>4. StoreInv'
  BY <1>2 DEF TransactionInv, StoreInv
<1>5. CountedInv'
  <2>1. \A c \in served : kind[c] = "commit" => CountedOn(c) \subseteq durable
    BY DEF TransactionInv, CountedInv
  <2> QED BY <1>1, <1>2, <1>3, <2>1 DEF CountedInv, CountedOn
<1> QED BY <1>3, <1>4, <1>5 DEF TransactionInv

\* The server leaves: what was staged is gone, and no request will be read.
LEMMA LeaveTransaction ==
    ASSUME TransactionInv, Leave, UNCHANGED <<client, history>>
    PROVE  TransactionInv'
BY DEF Leave, client, history, TransactionInv, StoreInv, BehindInv, CountedInv, CountedOn

LEMMA TransactionStep ==
    ASSUME TypeOK, IInv, TransactionInv, [Next]_vars
    PROVE  TransactionInv'
<1>1. ASSUME NEW k \in Kinds, Send(k) \/ SendFails(k) \/ SendIsCutShort(k)
      PROVE  TransactionInv'
  BY <1>1, CallBegins, BeginTransaction
<1>2. CASE Receive
  <2> DEFINE v == Verdict(Head(toClient), waiting, kind[waiting])
  <2>1. /\ waiting # 0 /\ waiting' = 0 /\ outcome' = [outcome EXCEPT ![waiting] = v]
        /\ UNCHANGED <<nextId, kind, cut, toServer, rest, server>>
    BY <1>2 DEF Receive, Return
  <2>2. v = "ok" => waiting \in served /\ cut = {}
    <3>1. waiting \in Ids /\ outcome'[waiting] = v /\ served' = served /\ cut' = cut
          /\ \A i \in cut : waiting >= i
      BY <2>1, WaitingFacts DEF TypeOK, server, Ids
    <3>2. SuccessIsServed'
      BY NextIInv DEF IInv
    <3> HIDE DEF v
    <3> QED BY <3>1, <3>2 DEF SuccessIsServed
  <2> HIDE DEF v
  <2> QED BY <2>1, <2>2, ReturnTransaction
<1>3. CASE ReceiveFails
  <2> DEFINE v == Failure(kind[waiting], "transport_error")
  <2>1. /\ waiting # 0 /\ waiting' = 0 /\ outcome' = [outcome EXCEPT ![waiting] = v]
        /\ UNCHANGED <<nextId, kind, cut, toServer, rest, server>>
    BY <1>3 DEF ReceiveFails, Return
  <2>2. v # "ok"
    BY TransportFailure
  <2> HIDE DEF v
  <2> QED BY <2>1, <2>2, ReturnTransaction
<1>4. CASE Serve \/ Refuse
  BY <1>4, ServeTransaction, RefuseTransaction
<1>5. CASE RefuseJunk \/ NoticeClose \/ Disconnect
  BY <1>5, LeaveTransaction DEF RefuseJunk, NoticeClose, Disconnect
<1>6. CASE Destroy \/ Damage \/ Duplicate \/ UNCHANGED vars
  <2>1. UNCHANGED <<waiting, nextId, kind, outcome, cut, toServer, rest, server>>
    BY <1>6 DEF Destroy, Damage, Duplicate, vars, client, network, history
  <2> QED BY <2>1 DEF server, TransactionInv, StoreInv, BehindInv, CountedInv, CountedOn
<1> QED BY <1>1, <1>2, <1>3, <1>4, <1>5, <1>6 DEF Next

\* ContractInv holds of every reachable state: in particular a server that still has the
\* session always holds the writes the caller counts on.
THEOREM TransactionHolds == Spec => []ContractInv
<1>1. Init => ContractInv
  <2>1. Init => Counted(nextId, kind, outcome) = {}
    BY DEF Init, Counted
  <2>2. Nothing \notin Request
    BY DEF Nothing, Request, Ids
  <2> QED BY <2>1, <2>2 DEF Init, ContractInv, CategoryInv, TransactionInv, StoreInv, BehindInv,
                            CountedInv, CountedOn
<1>2. TypeOK /\ IInv /\ ContractInv /\ [Next]_vars => ContractInv'
  BY CategoryStep, TransactionStep DEF ContractInv
<1> QED BY <1>1, <1>2, TypeCorrect, InvariantHolds, PTL DEF Spec

\* A write the server acknowledged is durable once a later commit succeeded, when every
\* call between the two succeeded and none was a rollback.
THEOREM AcknowledgedWritesAreCommitted == Spec => []AcknowledgedWritesCommitted
<1>1. TypeOK /\ IInv /\ ContractInv => AcknowledgedWritesCommitted
  BY DEF IInv, SuccessIsServed, ContractInv, TransactionInv, CountedInv, CountedOn, Counted,
         AcknowledgedWritesCommitted
<1> QED BY <1>1, TypeCorrect, InvariantHolds, TransactionHolds, PTL

-----------------------------------------------------------------------------
(* The contract: one lemma per way a step can look to it.                  *)

\* The requests on their way, the unfinished one included.
LEMMA InFlightFacts ==
    ASSUME TypeOK, IInv
    PROVE  /\ \A j \in DOMAIN toServer : toServer[j].id \in InFlight
           /\ \A i : i \in InFlight <=> \/ \E j \in DOMAIN toServer : toServer[j].id = i
                                        \/ rest \in Request /\ rest.id = i
           /\ \A i \in InFlight : i \in Ids /\ i < nextId /\ ~(i >= nextId) /\ i \notin served
<1>1. \A i : i \in InFlight <=> \/ \E j \in DOMAIN toServer : toServer[j].id = i
                                \/ rest \in Request /\ rest.id = i
  BY DEF InFlight
<1>2. \A i \in Ids : i < nextId => ~(i >= nextId)
  BY DEF Ids, TypeOK
<1> QED BY <1>1, <1>2, ChannelFacts DEF IInv, RequestInv, Outstanding

\* The fate of a call, and what its caller was told.
LEMMA FateFacts ==
    ASSUME TypeOK, IInv, NEW i \in Ids
    PROVE  /\ FateOf[i] = "none" <=> i >= nextId
           /\ FateOf[i] = "executed" <=> i \in served
           /\ FateOf[i] = "undecided" <=> i \in InFlight
<1>1. /\ i \in served => i < nextId /\ ~(i >= nextId)
      /\ i \in InFlight => i < nextId /\ ~(i >= nextId) /\ i \notin served
  BY InFlightFacts, ServedFacts DEF Ids
<1> QED BY <1>1 DEF FateOf

LEMMA ToldFacts ==
    ASSUME TypeOK, NEW i \in Ids
    PROVE  /\ ToldOf[i] = "ok" <=> outcome[i] = "ok"
           /\ ToldOf[i] = "nothing" <=> ~Told(outcome[i])
           /\ ToldOf[i] = "unknown" <=> outcome[i] = "outcome_unknown"
           /\ ToldOf[i] = "cut" <=> DefiniteFailure(outcome[i]) /\ i \in cut
           /\ ToldOf[i] = "failed" <=> DefiniteFailure(outcome[i]) /\ i \notin cut /\ ~Misled(i)
<1>1. outcome[i] \in Outcomes
  BY DEF TypeOK
<1> QED BY <1>1 DEF ToldOf, Told, DefiniteFailure, Outcomes, Categories, ServerCategories

\* What the contract owes the caller of a commit is what the calls' outcomes count.
LEMMA OwedIsCounted ==
    ASSUME TypeOK, NEW c \in Ids
    PROVE  Contract!Owed(c) = CountedOn(c)
<1>1. \A i \in 1 .. c - 1 : i \in Ids
  BY CallsBefore
<1>2. \A i \in 1 .. c - 1 : ToldOf[i] = "ok" <=> outcome[i] = "ok"
  BY <1>1, ToldFacts
<1>3. \A w \in 1 .. c - 1 : \A i \in w + 1 .. c - 1 : i \in 1 .. c - 1
  BY CallsBefore
<1> QED BY <1>2, <1>3 DEF Contract!Owed, CountedOn, Counted

LEMMA IssuesInOrder ==
    ASSUME TypeOK, IInv, nextId \in Ids
    PROVE  /\ FateOf[nextId] = "none"
           /\ \A j \in 1 .. nextId - 1 : FateOf[j] # "none"
<1>1. \A j \in 1 .. nextId - 1 : j \in Ids /\ ~(j >= nextId)
  BY CallsBefore DEF Ids
<1>2. nextId >= nextId
  BY DEF Ids
<1> QED BY <1>1, <1>2, FateFacts

\* A call that begins adds itself to the requests on their way, or nothing does.
LEMMA BeginInFlight ==
    ASSUME TypeOK, IInv, NEW k \in Kinds, MayCall(k), NEW o, Begins(k, o)
    PROVE  /\ InFlight' = InFlight \/ InFlight' = InFlight \cup {nextId}
           /\ nextId \notin InFlight
<1>1. nextId \in Ids /\ nextId \in Nat
  BY IdleFacts
<1>2. nextId \notin InFlight
  BY <1>1, InFlightFacts
<1>3. /\ Nothing \notin Request /\ Junk \notin Request /\ Beheaded \notin Request
  BY DEF Request, Nothing, Junk, Beheaded, Ids
<1>4. ASSUME NEW e \in Request, toServer' = Append(toServer, e)
      PROVE  {toServer'[j].id : j \in DOMAIN toServer'}
                = {toServer[j].id : j \in DOMAIN toServer} \cup {e.id}
  <2> DEFINE n == Len(toServer)
  <2>1. /\ n \in Nat /\ DOMAIN toServer = 1 .. n /\ DOMAIN toServer' = 1 .. n + 1
        /\ toServer'[n + 1] = e /\ \A j \in 1 .. n : toServer'[j] = toServer[j]
    BY <1>4 DEF TypeOK
  <2> HIDE DEF n
  <2>2. \A j \in 1 .. n + 1 : j = n + 1 \/ j \in 1 .. n
    BY <2>1
  <2>3. n + 1 \in 1 .. n + 1 /\ \A j \in 1 .. n : j \in 1 .. n + 1
    BY <2>1
  <2> QED BY <2>1, <2>2, <2>3
<1>5. CASE Kept
  BY <1>2, <1>5 DEF Kept, InFlight
<1>6. CASE Sent(k)
  <2> DEFINE r == [id |-> nextId, kind |-> k]
  <2>1. r \in Request /\ r.id = nextId /\ toServer' = Append(toServer, r)
    BY <1>1, <1>6 DEF Sent, Request
  <2>2. rest \notin Request /\ rest' \notin Request
    BY <1>3, <1>6 DEF Sent
  <2> HIDE DEF r
  <2> QED BY <1>2, <1>4, <2>1, <2>2 DEF InFlight
<1>7. CASE Started(k)
  <2>1. rest \notin Request /\ toServer' = toServer
    BY <1>3, <1>7 DEF Started
  <2>2. rest' \notin Request \/ rest'.id = nextId
    BY <1>7, BeginStream, <2>1
  <2> QED BY <1>2, <2>1, <2>2 DEF InFlight
<1>8. CASE Finished
  <2>1. rest \in Request /\ rest' \notin Request /\ toServer' = Append(toServer, rest)
    BY <1>3, <1>8 DEF Finished
  <2> QED BY <1>2, <1>4, <2>1 DEF InFlight
<1>9. CASE Lost
  BY <1>2, <1>3, <1>9 DEF Lost, InFlight
<1> QED BY <1>5, <1>6, <1>7, <1>8, <1>9 DEF Begins

\* A call begins: the contract sees it issued, or issued and failed at once.
LEMMA BeginRefines ==
    ASSUME TypeOK, IInv, TypeOK', CategoryInv', NEW k \in Kinds, MayCall(k), NEW o, Begins(k, o)
    PROVE  Contract!Issue(nextId, k) \/ Contract!IssueInVain(nextId, k)
<1>1. /\ nextId \in Ids /\ nextId \in Nat \ {0} /\ waiting = 0 /\ nextId \notin cut
      /\ nextId \notin served /\ outcome[nextId] = "none" /\ heard[nextId] = "nothing"
  BY IdleFacts DEF Ids
<1>2. /\ kind' = [kind EXCEPT ![nextId] = k] /\ heard' = heard
      /\ nextId' = nextId + 1 /\ durable' = durable /\ served' = served
  BY DEF Begins
<1>3. /\ \A i \in Ids : i # nextId => outcome'[i] = outcome[i]
      /\ kind'[nextId] = k /\ outcome'[nextId] = o
      /\ cut \subseteq cut' /\ cut' \subseteq cut \cup {nextId}
  BY BeginFacts
<1>4. InFlight' \in {InFlight, InFlight \cup {nextId}} /\ nextId \notin InFlight
  BY BeginInFlight
<1>5. \A i \in Ids : i >= nextId + 1 <=> i >= nextId /\ i # nextId
  BY <1>1 DEF Ids
<1>6. FateOf' = [FateOf EXCEPT ![nextId] = IF nextId \in InFlight' THEN "undecided" ELSE "void"]
  <2>1. \A i \in Ids : FateOf'[i] = IF i = nextId
                                    THEN (IF nextId \in InFlight' THEN "undecided" ELSE "void")
                                    ELSE FateOf[i]
    BY <1>1, <1>2, <1>4, <1>5 DEF FateOf
  <2> QED BY <2>1 DEF FateOf
\* What earlier callers were told does not change.
<1>7. \A i \in Ids : i # nextId => ToldOf'[i] = ToldOf[i]
  <2> SUFFICES ASSUME NEW i \in Ids, i # nextId PROVE ToldOf'[i] = ToldOf[i]
    OBVIOUS
  <2>1. CASE i >= nextId
    <3>1. outcome[i] = "none" /\ outcome'[i] = "none"
      BY <1>3, <2>1 DEF IInv, NumberingInv
    <3> QED BY <3>1 DEF ToldOf, Told
  <2>2. CASE ~(i >= nextId)
    <3>1. i < nextId
      BY <1>1, <2>2 DEF Ids
    <3>2. (\E j, l \in cut' : j < l /\ l < i) <=> (\E j, l \in cut : j < l /\ l < i)
      <4>1. ~(nextId < i)
        BY <1>1, <3>1 DEF Ids
      <4>2. \A j, l \in cut' : j < l /\ l < i => j \in cut /\ l \in cut
        <5> SUFFICES ASSUME NEW j \in cut', NEW l \in cut', j < l, l < i
                     PROVE  j \in cut /\ l \in cut
          OBVIOUS
        <5>1. j \in Ids /\ l \in Ids
          BY DEF TypeOK
        <5>2. j # nextId /\ l # nextId
          BY <1>1, <3>1, <5>1 DEF Ids
        <5> QED BY <1>3, <5>2
      <4> QED BY <1>3, <4>2
    <3>3. Misled(i)' <=> Misled(i)
      BY <1>2, <3>2 DEF Misled
    <3>4. i \in cut' <=> i \in cut
      BY <1>3, <2>2
    <3> QED BY <1>3, <3>3, <3>4 DEF ToldOf, Told
  <2> QED BY <2>1, <2>2
<1>8. CASE Waits(o)
  <2>1. ToldOf' = ToldOf
    <3>1. ToldOf'[nextId] = "nothing" /\ ToldOf[nextId] = "nothing"
      BY <1>1, <1>3, <1>8 DEF ToldOf, Told, Waits
    <3> QED BY <1>7, <3>1 DEF ToldOf
  <2>2. FateOf' \in {[FateOf EXCEPT ![nextId] = f] : f \in {"undecided", "void"}}
    BY <1>6
  <2> QED BY <1>1, <1>2, <2>1, <2>2, IssuesInOrder DEF Contract!Issue
<1>9. CASE Failed(k, o)
  <2>1. o \in ServerCategories \cup {"outcome_unknown"}
    BY <1>1, <1>3, <1>9 DEF Failed, TypeOK, Outcomes, Categories
  <2>2. o = "outcome_unknown" <=> k \in Completions
    <3>1. k \in Completions => ~DefiniteFailure(o)
      BY <1>9 DEF Failed
    <3>2. outcome'[nextId] = "outcome_unknown" => kind'[nextId] \in Completions
      BY <1>1 DEF CategoryInv
    <3> QED BY <1>3, <2>1, <3>1, <3>2 DEF DefiniteFailure
  <2> DEFINE u == IF o = "outcome_unknown" THEN "unknown"
                  ELSE IF nextId \in cut' THEN "cut" ELSE "failed"
             f == IF nextId \in InFlight' THEN "undecided" ELSE "void"
  <2>3. ToldOf'[nextId] = u
    <3>1. ~Misled(nextId)
      BY <1>1, <1>3 DEF Misled
    <3>2. heard'[nextId] # "damaged" /\ heard'[nextId] # "stray"
      BY <1>1, <1>2
    <3>3. o \notin {"none", "pending", "ok"}
      BY <1>9 DEF Failed
    <3> QED BY <1>1, <1>3, <3>2, <3>3 DEF ToldOf, Told, Misled
  <2>4. ToldOf' = [ToldOf EXCEPT ![nextId] = u]
    BY <1>1, <1>7, <2>3 DEF ToldOf
  <2>5. u = "failed" => f = "void"
    <3>1. nextId \notin cut' => InFlight' = InFlight
      BY <1>9, <1>1 DEF Failed, InFlight
    <3> QED BY <1>4, <3>1
  <2>6. /\ u \in {"failed", "unknown", "cut"} /\ f \in {"void", "undecided"}
        /\ u = "unknown" <=> k \in Completions
    BY <2>2
  <2>7. FateOf' = [FateOf EXCEPT ![nextId] = f]
    BY <1>6
  <2> HIDE DEF u, f
  <2> QED BY <1>1, <1>2, <2>4, <2>5, <2>6, <2>7, IssuesInOrder DEF Contract!IssueInVain
<1> QED BY <1>8, <1>9 DEF Begins

\* Receive and ReceiveFails: the caller is told what the invariants allow.
LEMMA ReturnRefines ==
    ASSUME TypeOK, IInv, StoreInv, TypeOK', IInv', CategoryInv', NEW w, w = waiting, w # 0,
           NEW v, NEW h, v \notin {"none", "pending"},
           outcome' = [outcome EXCEPT ![w] = v], heard' = [heard EXCEPT ![w] = h],
           UNCHANGED <<nextId, kind, cut, toServer, rest, server>>
    PROVE  \E u \in {"ok", "failed", "unknown", "garbled"} : Contract!Tell(w, u)
<1> DEFINE u == ToldOf'[w]
<1>1. w \in Ids /\ w < nextId /\ ~(w >= nextId) /\ outcome[w] = "pending" /\ w \notin cut
  BY WaitingFacts, ServedFacts DEF Ids
<1>2. /\ nextId' = nextId /\ kind' = kind /\ toServer' = toServer /\ rest' = rest /\ cut' = cut
      /\ served' = served /\ durable' = durable /\ staged' = staged
  BY DEF server
<1>3. /\ outcome'[w] = v /\ heard'[w] = h /\ v \in Outcomes
      /\ \A i \in Ids : i # w => outcome'[i] = outcome[i] /\ heard'[i] = heard[i]
  <2>1. /\ outcome'[w] = v /\ heard'[w] = h
        /\ \A i \in Ids : i # w => outcome'[i] = outcome[i] /\ heard'[i] = heard[i]
    BY <1>1 DEF TypeOK
  <2>2. outcome'[w] \in Outcomes
    BY <1>1 DEF TypeOK
  <2> QED BY <2>1, <2>2
<1>4. u \in {"ok", "failed", "unknown", "garbled"}
  BY <1>1, <1>2, <1>3 DEF ToldOf, Told
<1>5. FateOf' = FateOf
  BY <1>2 DEF FateOf, InFlight
<1>6. ToldOf' = [ToldOf EXCEPT ![w] = u]
  <2>1. \A i \in Ids : i # w => ToldOf'[i] = ToldOf[i]
    BY <1>2, <1>3 DEF ToldOf, Told, Misled
  <2>2. DOMAIN ToldOf' = Ids /\ DOMAIN ToldOf = Ids
    BY DEF ToldOf
  <2>3. ToldOf = [i \in Ids |-> ToldOf[i]] /\ ToldOf' = [i \in Ids |-> ToldOf'[i]]
    BY ZenonT(60) DEF ToldOf
  <2>4. [ToldOf EXCEPT ![w] = u] = [i \in Ids |-> IF i = w THEN u ELSE ToldOf[i]]
    BY <2>2
  <2>5. \A i \in Ids : ToldOf'[i] = IF i = w THEN u ELSE ToldOf[i]
    BY <2>1
  <2>6. [i \in Ids |-> ToldOf'[i]] = [i \in Ids |-> IF i = w THEN u ELSE ToldOf[i]]
    BY <2>5
  <2> QED BY <2>3, <2>4, <2>6, Zenon
<1>7. FateOf[w] # "none" /\ ToldOf[w] = "nothing"
  BY <1>1, FateFacts, ToldFacts DEF Told
<1>8. Contract!MayTell(w, u)
  <2>1. CASE u = "ok"
    <3>1. v = "ok"
      BY <1>1, <1>3, <2>1 DEF ToldOf, Told
    <3>2. w \in served
      BY <1>1, <1>2, <1>3, <3>1 DEF IInv, SuccessIsServed
    <3> QED BY <1>1, <2>1, <3>2, FateFacts DEF Contract!MayTell
  <2>2. CASE u = "unknown"
    <3>1. v = "outcome_unknown"
      BY <1>1, <1>3, <2>2 DEF ToldOf, Told
    <3>2. kind[w] \in Completions
      BY <1>1, <1>2, <1>3, <3>1 DEF CategoryInv
    <3> QED BY <2>2, <3>2 DEF Contract!MayTell
  <2>3. CASE u = "garbled"
    BY <2>3 DEF Contract!MayTell
  <2>4. CASE u = "failed"
    <3>1. v \notin {"none", "pending", "ok", "outcome_unknown"} /\ ~Misled(w)'
      BY <1>1, <1>3, <2>4 DEF ToldOf, Told
    <3>2. DefiniteFailure(outcome'[w]) /\ heard'[w] # "damaged"
      BY <1>3, <3>1 DEF DefiniteFailure, Outcomes, Categories, Misled
    <3>3. kind[w] \in Completions => w \notin served /\ w \notin InFlight
      <4>1. CompletionInv'
        BY DEF IInv, OutcomeInv
      <4>2. kind'[w] \in Completions =>
               /\ w \notin served' /\ \A j \in DOMAIN toServer' : toServer'[j].id # w
               /\ rest' \in Request => rest'.id # w
        BY <1>1, <3>1, <3>2, <4>1 DEF CompletionInv, DefiniteFailure
      <4> QED BY <1>2, <4>2, InFlightFacts
    <3>4. kind[w] = "write" => w \notin durable
      <4>1. WriteInv'
        BY DEF IInv, OutcomeInv
      <4> QED BY <1>1, <1>2, <3>2, <4>1 DEF WriteInv, DefiniteFailure
    <3>5. w \notin durable
      BY <3>4 DEF StoreInv
    <3>6. kind[w] \in Completions => FateOf[w] = "void"
      BY <1>1, <3>3 DEF FateOf
    <3> QED BY <2>4, <3>5, <3>6 DEF Contract!MayTell
  <2> QED BY <1>4, <2>1, <2>2, <2>3, <2>4
<1> HIDE DEF u
<1> QED BY <1>2, <1>4, <1>5, <1>6, <1>7, <1>8 DEF Contract!Tell

\* The request that was read is no longer on its way, the others still are.
LEMMA ReadInFlight ==
    ASSUME TypeOK, IInv, toServer # <<>>, toServer' = Tail(toServer), rest' = rest
    PROVE  InFlight' = InFlight \ {toServer[1].id}
<1> DEFINE n == Len(toServer)
           r == toServer[1].id
<1>1. /\ n \in Nat /\ DOMAIN toServer = 1 .. n /\ DOMAIN toServer' = 1 .. n - 1
      /\ \A j \in 1 .. n - 1 : /\ j + 1 \in DOMAIN toServer /\ toServer'[j] = toServer[j + 1]
                               /\ r < toServer[j + 1].id
      /\ rest \in Request => r < rest.id
      /\ r \in Ids
  BY HeadRequest, ChannelFacts
<1>2. \A i \in Ids : ~(i < i)
  BY DEF Ids
<1>3. \A i : i \in InFlight <=> \/ \E j \in 1 .. n : toServer[j].id = i
                                \/ rest \in Request /\ rest.id = i
  BY <1>1, InFlightFacts
<1>4. \A i : i \in InFlight' <=> \/ \E j \in 1 .. n - 1 : toServer[j + 1].id = i
                                 \/ rest \in Request /\ rest.id = i
  BY <1>1 DEF InFlight
<1> HIDE DEF n
<1>5. \A j \in 1 .. n : j = 1 \/ (j - 1 \in 1 .. n - 1 /\ (j - 1) + 1 = j)
  BY <1>1
<1>6. ASSUME NEW i \in InFlight' PROVE i \in InFlight /\ i # r
  <2>1. CASE rest \in Request /\ rest.id = i
    BY <1>1, <1>2, <1>3, <2>1
  <2>2. CASE \E j \in 1 .. n - 1 : toServer[j + 1].id = i
    BY <1>1, <1>2, <1>3, <2>2
  <2> QED BY <1>4, <1>6, <2>1, <2>2
<1>7. ASSUME NEW i \in InFlight, i # r PROVE i \in InFlight'
  <2>1. CASE rest \in Request /\ rest.id = i
    BY <1>4, <2>1
  <2>2. CASE \E j \in 1 .. n : toServer[j].id = i
    <3>1. PICK j \in 1 .. n : toServer[j].id = i
      BY <2>2
    <3>2. j - 1 \in 1 .. n - 1 /\ toServer[(j - 1) + 1].id = i
      BY <1>5, <1>7, <3>1
    <3> QED BY <1>4, <3>2
  <2> QED BY <1>3, <1>7, <2>1, <2>2
<1> QED BY <1>6, <1>7

\* Serve: a completion makes durable what the caller counts on, and nothing that failed,
\* but for a write that was sent in part and that a later one completed.
LEMMA ServeRefines ==
    ASSUME TypeOK, IInv, TransactionInv, Serve
    PROVE  toServer[1].id \in Ids /\ Contract!Execute(toServer[1].id)
<1> DEFINE r == toServer[1]
<1>1. /\ toServer # <<>> /\ Head(toServer) = r /\ 1 \in DOMAIN toServer
      /\ r.id \in Ids /\ kind[r.id] = r.kind /\ r.id < nextId /\ r.id \notin served
  BY HeadRequest DEF Serve, Outstanding
<1>2. /\ Execute(r) /\ toServer' = Tail(toServer) /\ serverUp
      /\ UNCHANGED <<nextId, kind, outcome, heard, cut, rest>>
  BY <1>1 DEF Serve, client, history
<1>3. InFlight' = InFlight \ {r.id} /\ r.id \in InFlight /\ ~(r.id >= nextId)
  BY <1>1, <1>2, ReadInFlight, InFlightFacts
<1>4. kind[r.id] \in Completions =>
         ~(DefiniteFailure(outcome[r.id]) /\ r.id \notin cut /\ ~Misled(r.id))
  BY <1>1 DEF IInv, OutcomeInv, CompletionInv
<1>5. r.kind = "commit" => CountedOn(r.id) \subseteq staged \cup durable
  BY <1>1, <1>2 DEF TransactionInv, CountedInv
<1> HIDE DEF r
<1>6. FateOf[r.id] = "undecided"
  BY <1>1, <1>3, FateFacts
<1>7. kind[r.id] \in Completions => ToldOf[r.id] # "failed"
  BY <1>1, <1>4, ToldFacts
<1>8. /\ served' = served \cup {r.id} /\ durable \subseteq durable'
      /\ durable' # durable => Completes(r) /\ durable' = durable \cup staged
      /\ r.kind = "commit" => staged \cup durable \subseteq durable'
  BY <1>2 DEF Execute, Completes
<1>9. FateOf' = [FateOf EXCEPT ![r.id] = "executed"]
  <2>1. \A i \in Ids : FateOf'[i] = IF i = r.id THEN "executed" ELSE FateOf[i]
    BY <1>1, <1>2, <1>3, <1>8 DEF FateOf
  <2> QED BY <2>1 DEF FateOf
<1>10. ASSUME NEW w \in durable' \ durable
       PROVE  /\ kind[r.id] \in Completions
              /\ w \in Ids /\ kind[w] = "write" /\ FateOf[w] = "executed" /\ ToldOf[w] # "failed"
              /\ ToldOf[w] = "cut" => \E j \in Ids : j > w /\ ToldOf[j] \in {"cut", "unknown"}
  <2>1. Completes(r) /\ w \in staged
    BY <1>8
  <2>2. r.kind \in Completions
    BY <2>1 DEF Completes, Completions
  <2>3. w \in Ids /\ w \in served /\ kind[w] = "write"
    BY <2>1, ServedFacts DEF TransactionInv, StoreInv
  <2>4. DefiniteFailure(outcome[w]) /\ heard[w] # "damaged" => w \in cut /\ \E j \in cut : j > w
    BY <1>1, <2>1, <2>3 DEF IInv, OutcomeInv, WriteInv
  <2>5. ToldOf[w] # "failed"
    BY <2>3, <2>4, ToldFacts DEF Misled
  <2>6. ASSUME ToldOf[w] = "cut"
        PROVE  \E j \in Ids : j > w /\ ToldOf[j] \in {"cut", "unknown"}
    <3>1. DefiniteFailure(outcome[w]) /\ w \in cut
      BY <2>3, <2>6, ToldFacts
    <3>2. heard[w] = "nothing"
      BY <3>1 DEF IInv, NumberingInv
    <3>3. PICK j \in cut : j > w
      BY <2>4, <3>1, <3>2
    <3>4. j \in Ids /\ j < nextId /\ j # waiting /\ j >= j
      BY DEF IInv, NumberingInv, TypeOK, Ids
    <3>5. outcome[j] \notin {"none", "pending", "ok"} /\ outcome[j] \in Outcomes
      BY <3>4 DEF IInv, NumberingInv, SuccessIsServed, TypeOK
    <3>6. DefiniteFailure(outcome[j]) \/ outcome[j] = "outcome_unknown"
      BY <3>5 DEF DefiniteFailure, Outcomes, Categories
    <3> QED BY <3>3, <3>4, <3>6, ToldFacts
  <2> QED BY <1>1, <2>2, <2>3, <2>5, <2>6, FateFacts
<1>11. kind[r.id] = "commit" => Contract!Owed(r.id) \subseteq durable'
  <2>1. Contract!Owed(r.id) = CountedOn(r.id)
    BY <1>1, OwedIsCounted
  <2> QED BY <1>1, <1>5, <1>8, <2>1
<1>12. ToldOf' = ToldOf
  BY <1>2 DEF ToldOf, Misled
<1>13. Contract!Execute(r.id)
  BY <1>2, <1>6, <1>7, <1>8, <1>9, <1>10, <1>11, <1>12 DEF Contract!Execute
<1> QED BY <1>1, <1>13 DEF r

\* Requests that are no longer on their way will not be executed: the server refused them,
\* or it is gone.
LEMMA VoidRefines ==
    ASSUME TypeOK, IInv, InFlight' \subseteq InFlight,
           UNCHANGED <<nextId, served, durable, kind, outcome, heard, cut>>
    PROVE  [Contract!Next]_(Contract!vars)
<1> DEFINE S == InFlight \ InFlight'
<1>1. ToldOf' = ToldOf
  BY DEF ToldOf, Misled
<1>2. \A i \in S : i \in Ids /\ FateOf[i] = "undecided" /\ i \notin served /\ ~(i >= nextId)
                   /\ i \notin InFlight'
  BY InFlightFacts, FateFacts
<1>3. FateOf' = [i \in Ids |-> IF i \in S THEN "void" ELSE FateOf[i]]
  <2>1. \A i \in Ids : i \notin S => (i \in InFlight <=> i \in InFlight')
    OBVIOUS
  <2> HIDE DEF S
  <2> QED BY <1>2, <2>1 DEF FateOf
<1>4. CASE S = {}
  <2>1. FateOf' = FateOf
    BY <1>3, <1>4 DEF FateOf
  <2> QED BY <1>1, <2>1 DEF Contract!vars
<1>5. CASE S # {}
  <2>1. Contract!Void(S)
    BY <1>1, <1>2, <1>3, <1>5 DEF Contract!Void
  <2>2. S \in SUBSET Ids
    BY <1>2
  <2> HIDE DEF S
  <2> QED BY <2>1, <2>2 DEF Contract!Next
<1> QED BY <1>4, <1>5

LEMMA StepRefines ==
    ASSUME TypeOK, IInv, ContractInv, [Next]_vars
    PROVE  [Contract!Next]_(Contract!vars)
<1>0. TypeOK' /\ IInv' /\ CategoryInv' /\ StoreInv /\ TransactionInv
  BY NextType, NextIInv, CategoryStep DEF ContractInv, TransactionInv
<1>1. ASSUME NEW k \in Kinds, Send(k) \/ SendFails(k) \/ SendIsCutShort(k) PROVE Contract!Next
  <2>1. MayCall(k)
    BY <1>1, CallBegins
  <2>2. PICK o : Begins(k, o)
    BY <1>1, CallBegins
  <2>3. nextId \in Ids
    BY <2>1, IdleFacts
  <2> QED BY <1>0, <2>1, <2>2, <2>3, BeginRefines DEF Contract!Next
<1>2. CASE Receive
  <2> DEFINE m == Head(toClient)
             v == Verdict(m, waiting, kind[waiting])
             h == CASE m.genuine /\ m.id = waiting -> "own"
                    [] m.genuine /\ m.id # waiting -> "stray"
                    [] ~m.genuine -> "damaged"
  <2>1. /\ waiting # 0 /\ outcome' = [outcome EXCEPT ![waiting] = v]
        /\ heard' = [heard EXCEPT ![waiting] = h]
        /\ UNCHANGED <<nextId, kind, cut, toServer, rest, server>>
    BY <1>2 DEF Receive, Return
  <2>2. v \notin {"none", "pending"}
    <3>1. m \in Reply /\ waiting \in Nat
      BY <1>2 DEF Receive, TypeOK
    <3>2. v \in Categories \cup {"ok"}
      BY <3>1, VerdictType
    <3> QED BY <3>2 DEF Categories, ServerCategories
  <2> HIDE DEF v, h
  <2>3. waiting \in Ids
    BY <2>1, WaitingFacts
  <2> QED BY <1>0, <2>1, <2>2, <2>3, ReturnRefines DEF Contract!Next
<1>3. CASE ReceiveFails
  <2> DEFINE v == Failure(kind[waiting], "transport_error")
             h == heard[waiting]
  <2>1. /\ waiting # 0 /\ outcome' = [outcome EXCEPT ![waiting] = v]
        /\ UNCHANGED <<nextId, kind, heard, cut, toServer, rest, server>>
    BY <1>3 DEF ReceiveFails, Return
  <2>2. v \notin {"none", "pending"}
    BY TransportFailure
  <2>3. waiting \in Ids /\ heard' = [heard EXCEPT ![waiting] = h]
    BY <2>1, WaitingFacts DEF TypeOK
  <2> HIDE DEF v, h
  <2> QED BY <1>0, <2>1, <2>2, <2>3, ReturnRefines DEF Contract!Next
<1>4. CASE Serve
  BY <1>0, <1>4, ServeRefines DEF Contract!Next
<1>5. CASE Refuse
  <2>1. UNCHANGED <<nextId, served, durable, kind, outcome, heard, cut, rest>>
        /\ toServer # <<>> /\ toServer' = Tail(toServer)
    BY <1>5 DEF Refuse, client, history
  <2>2. InFlight' \subseteq InFlight
    BY <2>1, ReadInFlight
  <2> QED BY <2>1, <2>2, VoidRefines
<1>6. CASE RefuseJunk \/ NoticeClose \/ Disconnect
  <2>1. UNCHANGED <<nextId, served, durable, kind, outcome, heard, cut>>
        /\ toServer' = <<>> /\ rest' = Nothing
    BY <1>6 DEF RefuseJunk, NoticeClose, Disconnect, Leave, client, history
  <2>2. Nothing \notin Request
    BY DEF Nothing, Request, Ids
  <2>3. InFlight' = {}
    BY <2>1, <2>2 DEF InFlight
  <2> QED BY <2>1, <2>3, VoidRefines
<1>7. CASE Destroy \/ Damage \/ Duplicate \/ UNCHANGED vars
  <2>1. UNCHANGED <<nextId, served, durable, kind, outcome, heard, cut, toServer, rest>>
    BY <1>7 DEF Destroy, Damage, Duplicate, vars, client, network, history, server
  <2>2. FateOf' = FateOf /\ ToldOf' = ToldOf
    BY <2>1 DEF FateOf, InFlight, ToldOf, Misled
  <2> QED BY <2>1, <2>2 DEF Contract!vars
<1> QED BY <1>1, <1>2, <1>3, <1>4, <1>5, <1>6, <1>7 DEF Next

\* Every behaviour of the session, the server and the network is one the contract allows:
\* each call is executed at most once or never, what its caller is told is true of that and
\* stays true, and a commit that is executed keeps what the caller counted on.
THEOREM SessionKeepsContract == Spec => KeepsContract
<1>1. Init => Contract!Init
  <2> SUFFICES ASSUME Init PROVE Contract!Init
    OBVIOUS
  <2>1. \A i \in Ids : i >= 1
    BY DEF Ids
  <2>2. FateOf = [i \in Ids |-> "none"]
    BY <2>1 DEF Init, FateOf
  <2>3. ToldOf = [i \in Ids |-> "nothing"]
    BY DEF Init, ToldOf, Told
  <2> QED BY <2>2, <2>3 DEF Init, Contract!Init
<1>2. TypeOK /\ IInv /\ ContractInv /\ [Next]_vars => [Contract!Next]_(Contract!vars)
  BY StepRefines
<1>3. Spec => Contract!Spec
  BY <1>1, <1>2, TypeCorrect, InvariantHolds, TransactionHolds, PTL DEF Spec, Contract!Spec
<1> QED BY <1>3 DEF KeepsContract
=============================================================================
