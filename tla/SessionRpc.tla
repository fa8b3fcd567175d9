----------------------------- MODULE SessionRpc -----------------------------
(***************************************************************************)
(* The request/response core of the SDK: Session::Impl::request over the   *)
(* upgraded WebSocketConnection, and the server's transaction as the SDK   *)
(* uses it.  One thread drives a Session; every call writes one SGW1       *)
(* frame and blocks until one frame came back or the transport failed.     *)
(*                                                                         *)
(* The client's variables are the fields of Session::Impl and of           *)
(* WebSocketConnection.  The server and the network are not under src/:    *)
(* they do what the client code and its integration tests rely on - the    *)
(* server answers requests one at a time and in order, stages writes until *)
(* a completion makes them durable, and rolls back what is staged when a   *)
(* connection ends - and they fail as a network can: a write is cut short, *)
(* the connection drops at any point, a reply arrives damaged or twice.    *)
(*                                                                         *)
(* A write that was cut short leaves an unfinished frame on an open        *)
(* connection.  Its header announced its length, so the server takes what  *)
(* is written next for the rest of it: a later call completes the earlier  *)
(* one instead of being read itself.                                       *)
(***************************************************************************)
EXTENDS Naturals, Sequences

CONSTANTS
    MaxCalls,        \* requests that may be numbered: nextRequestId_ is 64 bits wide
    MaxUnread,       \* replies the network may hold at once (bounds duplication)
    CallKinds,       \* the kinds of call the application makes
    WireCategories,  \* the category values a server Error frame may carry
    CarrierErrors    \* what receiveBinary and decodeFrame throw on bytes they refuse

Kinds == {"read", "write", "closeOperation", "commit", "rollback",
          "autocommitOn", "autocommitOff", "close"}

ServerCategories ==
    {"protocol_error", "authentication_failed", "not_authorized",
     "object_not_found", "unsupported_type", "unsupported_operation",
     "transaction_conflict", "constraint_violation", "resource_limit",
     "cursor_not_found", "internal_error", "transport_error"}
Categories == ServerCategories \cup {"outcome_unknown"}

ASSUME SessionRpcAssumption ==
    /\ MaxCalls \in Nat
    /\ MaxUnread \in Nat
    /\ CallKinds \subseteq Kinds
    /\ WireCategories \subseteq Categories
    /\ CarrierErrors \subseteq {"protocol_error", "resource_limit", "transport_error"}

Ids == 1 .. MaxCalls

\* The calls made with uncertain_on_transport = true.
Completions == {"closeOperation", "commit"}
\* The calls whose reply body is decoded after request() returned it.
DecodedKinds == {"read", "write"}

VARIABLES
    open,        \* WebSocketConnection: fd_ >= 0
    closed,      \* Session::Impl::closed_
    life,        \* the Session object: alive, in its destructor, or dead
    nextId,      \* Session::Impl::nextRequestId_
    waiting,     \* the request id receiveFrame waits for, 0 outside a call
    toServer,    \* whole frames on their way to the server
    rest,        \* the unfinished frame behind them
    toClient,    \* bytes on their way to the client, as frames
    serverUp,    \* the server still holds its end of the connection
    autocommit,  \* the server session's autocommit attribute
    staged,      \* writes applied to the open server transaction
    durable,     \* writes committed
    served,      \* requests the server executed successfully
    kind,        \* the kind of each numbered request
    outcome,     \* what each call returned or threw
    heard,       \* what the client took for the reply to each request
    cut          \* the requests whose write was cut short

client  == <<open, closed, life, nextId, waiting>>
network == <<toServer, rest, toClient>>
server  == <<serverUp, autocommit, staged, durable, served>>
history == <<kind, outcome, heard, cut>>
vars    == <<client, network, server, history>>

Outcomes == Categories \cup {"none", "pending", "ok"}

Request == [id : Ids, kind : Kinds]
\* The unfinished frame: none; a request of which the SGW1 header is there; one cut
\* within that header, which foreign bytes cannot complete to a header that decodes
\* (the payload size is behind the request id); or bytes the server reads from the
\* middle of a frame.
Nothing  == [id |-> 0, kind |-> "nothing"]
Beheaded == [id |-> 0, kind |-> "beheaded"]
Junk     == [id |-> 0, kind |-> "junk"]
Rests == Request \cup {Nothing, Beheaded, Junk}
\* "result" is the response type the call expects, "other" any type it does not,
\* "error" an Error frame, "bad" bytes that receiveBinary or decodeFrame refuses.
\* category is the Error's category, what the decoder throws, or "ok".
Reply == [id : Nat, type : {"result", "other", "error", "bad"},
          category : Categories \cup {"ok"}, genuine : BOOLEAN]

TypeOK ==
    /\ open \in BOOLEAN /\ closed \in BOOLEAN
    /\ life \in {"alive", "dying", "dead"}
    /\ nextId \in 1 .. MaxCalls + 1
    /\ waiting \in 0 .. MaxCalls
    /\ toServer \in Seq(Request) /\ rest \in Rests
    /\ toClient \in Seq(Reply)
    /\ serverUp \in BOOLEAN /\ autocommit \in BOOLEAN
    /\ staged \subseteq Ids /\ durable \subseteq Ids /\ served \subseteq Ids
    /\ kind \in [Ids -> Kinds \cup {"none"}]
    /\ outcome \in [Ids -> Outcomes]
    /\ heard \in [Ids -> {"nothing", "own", "stray", "damaged"}]
    /\ cut \subseteq Ids

Init ==
    /\ open = TRUE /\ closed = FALSE
    /\ life = "alive" /\ nextId = 1 /\ waiting = 0
    /\ toServer = <<>> /\ rest = Nothing /\ toClient = <<>>
    /\ serverUp = TRUE /\ autocommit = TRUE
    /\ staged = {} /\ durable = {} /\ served = {}
    /\ kind = [i \in Ids |-> "none"]
    /\ outcome = [i \in Ids |-> "none"]
    /\ heard = [i \in Ids |-> "nothing"]
    /\ cut = {}

-----------------------------------------------------------------------------
(* What the client makes of a failure and of a reply.                      *)

\* Mutant: the category is passed on for completions too.
FailureIsPassedOn(k, category) == category

\* The catch of request(): a completion that failed on the transport has an
\* unknown outcome, any other failure keeps its category.
Failure(k, category) ==
    IF k \in Completions /\ category = "transport_error"
    THEN "outcome_unknown" ELSE category

decodeErrorCategory(category) ==
    IF category \in ServerCategories THEN category ELSE "protocol_error"

\* Mutant: another request's reply is refused, and the connection kept.
BreaksOnlyOnBadBytes(m, id) == m.type = "bad"

\* receiveFrame(id) closes the connection when the bytes do not decode and when
\* the frame that did carries another request's id.
BreaksConnection(m, id) == m.type = "bad" \/ m.id # id

\* Mutants: the request id is not compared; an Error frame is not told from the rest.
VerdictOfAnyReply(m, id, k) ==
    CASE m.type = "bad" -> Failure(k, m.category)
      [] m.type = "error" -> Failure(k, decodeErrorCategory(m.category))
      [] m.type = "other" -> "protocol_error"
      [] m.type = "result" -> "ok"
VerdictWithoutErrors(m, id, k) ==
    IF m.type = "bad" THEN Failure(k, m.category)
    ELSE IF m.id # id THEN "protocol_error" ELSE "ok"

\* What a call of kind k that waits for request id returns or throws on m.
Verdict(m, id, k) ==
    CASE m.type = "bad" -> Failure(k, m.category)
      [] m.type # "bad" /\ m.id # id -> "protocol_error"
      [] m.type = "error" /\ m.id = id -> Failure(k, decodeErrorCategory(m.category))
      [] m.type = "other" /\ m.id = id -> "protocol_error"
      [] m.type = "result" /\ m.id = id ->
            IF k \in DecodedKinds THEN m.category ELSE "ok"

-----------------------------------------------------------------------------
(* The client.                                                             *)

\* Mutant: the destructor ends when its Close failed, and leaves the connection.
ReturnAndLeak(id, k, v, breaks, unread) ==
    LET ends == breaks \/ (k = "close" /\ v = "ok")
    IN  /\ outcome' = [outcome EXCEPT ![id] = v]
        /\ waiting' = 0
        /\ closed' = (closed \/ (k = "close" /\ v = "ok"))
        /\ life' = IF life = "dying" THEN "dead" ELSE life
        /\ open' = (open /\ ~ends)
        /\ toClient' = IF ends THEN <<>> ELSE unread

\* The call of kind k that was given number id returns v, leaving `unread` on the
\* connection.  close() marks the session closed and closes the connection once
\* the server said Ok; the destructor closes it whatever became of its Close.
Return(id, k, v, breaks, unread) ==
    LET ends == breaks \/ (k = "close" /\ v = "ok") \/ life = "dying"
    IN  /\ outcome' = [outcome EXCEPT ![id] = v]
        /\ waiting' = 0
        /\ closed' = (closed \/ (k = "close" /\ v = "ok"))
        /\ life' = IF life = "dying" THEN "dead" ELSE life
        /\ open' = (open /\ ~ends)
        /\ toClient' = IF ends THEN <<>> ELSE unread

\* The application calls while no call is in progress; the destructor calls
\* close().  The last number is kept for the destructor.  On a session whose
\* close() succeeded request() throws before anything changes, so no step models it.
MayCall(k) ==
    /\ waiting = 0 /\ ~closed
    /\ \/ life = "alive" /\ k \in CallKinds /\ nextId < MaxCalls
       \/ life = "dying" /\ k = "close" /\ nextId <= MaxCalls

\* request() numbers the call whatever happens next.
Number(k) ==
    /\ nextId' = nextId + 1
    /\ kind' = [kind EXCEPT ![nextId] = k]

\* What becomes of the bytes that are written behind an unfinished frame: they are too
\* few to complete it; they complete it, to the last byte or with bytes left over; or
\* they complete a header that does not decode.
Follow ==
    \/ UNCHANGED <<toServer, rest>>
    \/ /\ rest \in Request
       /\ toServer' = Append(toServer, rest)
       /\ rest' \in {Nothing, Junk}
    \/ /\ rest = Beheaded
       /\ rest' = Junk
       /\ UNCHANGED toServer

\* The frame of r was written, or a part of it.  A server that is gone reads neither.
Written(r) ==
    \/ ~serverUp /\ UNCHANGED <<toServer, rest>>
    \/ serverUp /\ rest = Nothing /\ toServer' = Append(toServer, r) /\ UNCHANGED rest
    \/ serverUp /\ rest # Nothing /\ Follow
WrittenInPart(r) ==
    \/ ~serverUp /\ UNCHANGED <<toServer, rest>>
    \/ serverUp /\ rest = Nothing /\ rest' \in {r, Beheaded} /\ UNCHANGED toServer
    \/ serverUp /\ rest # Nothing /\ Follow

\* Mutant: the reply is awaited under the number of the next request.
SendAwaitsNext(k) ==
    /\ MayCall(k) /\ open
    /\ Number(k)
    /\ outcome' = [outcome EXCEPT ![nextId] = "pending"]
    /\ waiting' = nextId + 1
    /\ Written([id |-> nextId, kind |-> k])
    /\ UNCHANGED <<open, closed, life, toClient, server, heard, cut>>

\* sendFrame wrote the whole frame.
Send(k) ==
    /\ MayCall(k) /\ open
    /\ Number(k)
    /\ outcome' = [outcome EXCEPT ![nextId] = "pending"]
    /\ waiting' = nextId
    /\ Written([id |-> nextId, kind |-> k])
    /\ UNCHANGED <<open, closed, life, toClient, server, heard, cut>>

\* sendFrame threw before a byte was written: the connection was closed earlier,
\* or the first send() failed.  Nothing closes the connection.
SendFails(k) ==
    /\ MayCall(k)
    /\ Number(k)
    /\ Return(nextId, k, Failure(k, "transport_error"), FALSE, toClient)
    /\ UNCHANGED <<toServer, rest, server, heard, cut>>

\* send() failed after part of the frame was written.  Nothing closes the connection.
SendIsCutShort(k) ==
    /\ MayCall(k) /\ open
    /\ Number(k)
    /\ Return(nextId, k, Failure(k, "transport_error"), FALSE, toClient)
    /\ WrittenInPart([id |-> nextId, kind |-> k])
    /\ cut' = cut \cup {nextId}
    /\ UNCHANGED <<server, heard>>

\* receiveFrame(waiting) read a frame, or bytes it could not decode.
Receive ==
    /\ waiting # 0 /\ toClient # <<>>
    /\ LET m == Head(toClient)
           k == kind[waiting]
       IN  /\ Return(waiting, k, Verdict(m, waiting, k),
                     BreaksConnection(m, waiting), Tail(toClient))
           /\ heard' = [heard EXCEPT ![waiting] =
                  CASE m.genuine /\ m.id = waiting -> "own"
                    [] m.genuine /\ m.id # waiting -> "stray"
                    [] ~m.genuine -> "damaged"]
    /\ UNCHANGED <<nextId, kind, cut, toServer, rest, server>>

\* Mutants: the connection survives a failed read; the read is tried again.
ReceiveFailsOpen ==
    /\ waiting # 0
    /\ Return(waiting, kind[waiting], Failure(kind[waiting], "transport_error"), FALSE, toClient)
    /\ UNCHANGED <<nextId, kind, heard, cut, toServer, rest, server>>
ReceiveRetries == waiting # 0 /\ UNCHANGED vars

\* recv() or SSL_read() failed: the server is gone, or the read was interrupted.
\* receiveFrame closes the connection.
ReceiveFails ==
    /\ waiting # 0
    /\ Return(waiting, kind[waiting], Failure(kind[waiting], "transport_error"), TRUE, <<>>)
    /\ UNCHANGED <<nextId, kind, heard, cut, toServer, rest, server>>

\* ~Session runs: it has nothing to do when close() succeeded.
Destroy ==
    /\ life = "alive" /\ waiting = 0
    /\ life' = IF closed THEN "dead" ELSE "dying"
    /\ UNCHANGED <<open, closed, nextId, waiting, network, server, history>>

-----------------------------------------------------------------------------
(* The server.                                                             *)

Post(m) == IF open THEN Append(toClient, m) ELSE toClient

\* The effect of a request on the server's transaction.
Completes(r) == r.kind = "commit" \/ (r.kind = "closeOperation" /\ autocommit)

Execute(r) ==
    /\ durable' = IF Completes(r) THEN durable \cup staged ELSE durable
    /\ staged' = CASE r.kind = "write" -> staged \cup {r.id}
                   [] Completes(r) \/ r.kind \in {"rollback", "close"} -> {}
                   [] OTHER -> staged
    /\ autocommit' = CASE r.kind = "autocommitOn" -> TRUE
                       [] r.kind = "autocommitOff" -> FALSE
                       [] OTHER -> autocommit
    /\ served' = served \cup {r.id}
    /\ serverUp' = (r.kind # "close")

\* The server executes the next request and says so.  After Close it leaves, and what
\* was written behind the Close stays unread.
Serve ==
    /\ serverUp /\ toServer # <<>>
    /\ LET r == Head(toServer)
       IN  /\ Execute(r)
           /\ toClient' = Post([id |-> r.id, type |-> "result",
                                category |-> "ok", genuine |-> TRUE])
    /\ toServer' = Tail(toServer)
    /\ UNCHANGED <<client, history, rest>>

\* The server refuses the next request with an Error frame.  A refused commit
\* rolls the transaction back, any other refusal may.
Refuse ==
    /\ serverUp /\ toServer # <<>>
    /\ LET r == Head(toServer)
       IN  /\ staged' \in IF r.kind = "commit" THEN {{}} ELSE {staged, {}}
           /\ \E c \in WireCategories :
                 toClient' = Post([id |-> r.id, type |-> "error",
                                   category |-> c, genuine |-> TRUE])
    /\ toServer' = Tail(toServer)
    /\ UNCHANGED <<client, history, rest, serverUp, autocommit, durable, served>>

\* The server leaves the connection: what is staged is rolled back.
Leave ==
    /\ serverUp' = FALSE
    /\ staged' = {}
    /\ toServer' = <<>> /\ rest' = Nothing
    /\ UNCHANGED <<autocommit, durable, served>>

\* Bytes that are no frame get an Error with request id 0 and end the connection - once
\* they are enough for the server to see it.
RefuseJunk ==
    /\ serverUp /\ toServer = <<>> /\ rest = Junk
    /\ toClient' = Post([id |-> 0, type |-> "error",
                         category |-> "protocol_error", genuine |-> TRUE])
    /\ Leave
    /\ UNCHANGED <<client, history>>

\* The server reads the end of the stream behind the last whole frame.
NoticeClose ==
    /\ serverUp /\ ~open /\ toServer = <<>>
    /\ Leave
    /\ UNCHANGED <<client, history, toClient>>

-----------------------------------------------------------------------------
(* The network.                                                            *)

\* The connection drops: no request in flight arrives, replies in flight may.
Disconnect ==
    /\ serverUp
    /\ toClient' \in {toClient, <<>>}
    /\ Leave
    /\ UNCHANGED <<client, history>>

\* Ways the reply m can reach the client other than as it was sent.
Damaged(m) ==
    {[m EXCEPT !.type = "bad", !.category = c, !.genuine = FALSE] : c \in CarrierErrors}
    \cup {[m EXCEPT !.type = t, !.category = "protocol_error", !.genuine = FALSE] :
              t \in {"other", "error"}}
    \cup {[m EXCEPT !.id = 0, !.genuine = FALSE]}
    \cup (IF m.type = "result"
          THEN {[m EXCEPT !.category = "protocol_error", !.genuine = FALSE]} ELSE {})

Damage ==
    /\ toClient # <<>> /\ Head(toClient).genuine
    /\ \E m \in Damaged(Head(toClient)) : toClient' = <<m>> \o Tail(toClient)
    /\ UNCHANGED <<client, server, history, toServer, rest>>

\* The reply arrives a second time.
Duplicate ==
    /\ toClient # <<>> /\ Head(toClient).genuine /\ Len(toClient) < MaxUnread
    /\ toClient' = Append(toClient, [Head(toClient) EXCEPT !.genuine = FALSE])
    /\ UNCHANGED <<client, server, history, toServer, rest>>

-----------------------------------------------------------------------------
Next ==
    \/ \E k \in Kinds : Send(k) \/ SendFails(k) \/ SendIsCutShort(k)
    \/ Receive \/ ReceiveFails \/ Destroy
    \/ Serve \/ Refuse \/ RefuseJunk \/ NoticeClose
    \/ Disconnect \/ Damage \/ Duplicate

Spec == Init /\ [][Next]_vars

\* The calling thread runs, and a server that is up answers every whole frame and
\* notices that the client closed.  Nothing bounds a read in the code, so without
\* the second part a call may wait for ever; and a server that waits for the rest of a
\* frame owes nobody anything.  The destructor calls close() at once.
Fairness ==
    /\ WF_vars(Receive \/ (~serverUp /\ ReceiveFails))
    /\ WF_vars(Serve \/ Refuse \/ NoticeClose)
    /\ WF_vars(life = "dying" /\ \E k \in Kinds : Send(k) \/ SendFails(k))

FairSpec == Spec /\ Fairness

-----------------------------------------------------------------------------
(* Properties.                                                             *)

Told(v) == v \notin {"none", "pending"}
DefiniteFailure(v) == v \in ServerCategories

\* A call succeeds only if the server executed that very request: a reply left over
\* from an earlier call never answers a later one (receiveFrame compares the
\* request id, and leaves no connection to misread).  And once a write was cut short no
\* call succeeds any more, whatever the server makes of the bytes that follow.
SuccessIsServed ==
    /\ \A i \in Ids : outcome[i] = "ok" => i \in served
    /\ \A i \in cut, j \in Ids : j >= i => outcome[j] # "ok"

\* The reply to call i says nothing about it: it was damaged on the way, or it is another
\* call's, and two writes before i were cut short: the second may have completed the
\* frame of the first to its last byte, and i was read behind them.
Misled(i) ==
    \/ heard[i] = "damaged"
    \/ heard[i] = "stray" /\ \E j, l \in cut : j < l /\ l < i

\* A completion whose failure the caller may act on - any category but
\* OUTCOME_UNKNOWN - was not executed, unless the reply misled the client.  A single
\* write that was cut short before does no harm: the completion's bytes complete that
\* one, and are never read themselves.
DefiniteFailureNotApplied ==
    \A i \in Ids : kind[i] \in Completions /\ DefiniteFailure(outcome[i])
                      /\ ~Misled(i) => i \notin served

\* A write the caller saw fail never becomes durable, whatever is called later: the
\* server refused it, or the connection that staged it cannot commit any more.  Two
\* ways out remain: a damaged reply that still decodes leaves the connection usable, and
\* a write that was cut short may be completed by another one that is.
FailedWriteNeverDurable ==
    \A i \in Ids : kind[i] = "write" /\ DefiniteFailure(outcome[i])
                      /\ heard[i] # "damaged"
                      /\ ~(i \in cut /\ \E j \in cut : j > i) => i \notin durable

\* A write that was acknowledged is durable once a commit succeeds and every call
\* between the two succeeded and rolled nothing back.
AcknowledgedWritesCommitted ==
    \A c \in Ids : kind[c] = "commit" /\ outcome[c] = "ok" =>
        \A w \in 1 .. c - 1 :
            /\ kind[w] = "write" /\ outcome[w] = "ok"
            /\ \A i \in w + 1 .. c - 1 : outcome[i] = "ok" /\ kind[i] # "rollback"
            => w \in durable

\* Between calls an open connection holds no reply the server sent for a call that
\* ended: the next call cannot be answered by it (only a duplicate may be there).  One
\* write that was cut short does not change that, a second one may have completed it.
NoReplyLeftBetweenCalls ==
    waiting = 0 /\ open /\ (\A i, j \in cut : i = j) =>
        \A j \in DOMAIN toClient : ~toClient[j].genuine

\* The server executes the request the client waits for; only when the client gave up on
\* a request and closed the connection, or wrote it in part, may it be executed behind
\* its back.
OnlyTheWaitingCallIsServed ==
    [][\A i \in served' \ served :
          \/ i = waiting
          \/ Told(outcome[i]) /\ outcome[i] # "ok" /\ (~open \/ i \in cut)]_vars

\* Every call returns, given a server that answers or leaves, as long as no write was cut
\* short.  Behind an unfinished frame the server may wait for the client while the client
\* waits for it: receiveFrame has no deadline.
CallsReturn == waiting # 0 /\ cut = {} ~> waiting = 0

\* A session that was destroyed holds no connection and leaves nothing staged, again as
\* long as no write was cut short: ~Session waits for the reply to its Close.
DestroyedSessionReleases ==
    life = "dying" /\ cut = {} ~> (~open /\ ~serverUp /\ staged = {})

\* docs/protocol_v1.md, "Completion outcomes after transport loss": if the client
\* attempted CloseOperation or Commit but did not receive and validate its
\* correlated response, the outcome is OUTCOME_UNKNOWN.
UnvalidatedCompletionIsUnknown ==
    \A i \in Ids : kind[i] \in Completions /\ heard[i] # "own"
                      => ~DefiniteFailure(outcome[i])

\* docs/sdk.md: the SDK that reports OUTCOME_UNKNOWN closes the connection.
UnknownOutcomeClosesConnection ==
    \A i \in Ids : outcome[i] = "outcome_unknown" => ~open
=============================================================================
