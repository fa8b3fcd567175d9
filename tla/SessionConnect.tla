--------------------------- MODULE SessionConnect ---------------------------
(***************************************************************************)
(* How a connection comes to be and goes away: sessiongw_c_connect and     *)
(* sessiongw_c_execute_sql, called by the threads of one process, with     *)
(* every step that can fail on the way - addresses, TLS, the HTTP upgrade, *)
(* the login, entering the gateway, Hello - and what each failure gives    *)
(* back.  Descriptor numbers belong to the process and are used again at   *)
(* once; OpenSSL's objects are counted; the error slot is thread-local.    *)
(*                                                                         *)
(* The peer (not under src/) sends header bytes, then messages, early or   *)
(* late, and may leave at any time; of a message only its place in the     *)
(* stream matters.  What may stand between messages - pings, fragments -   *)
(* is WebSocketReceive's.  A thread has at most one session at a time.     *)
(***************************************************************************)
EXTENDS Naturals, Sequences, FiniteSets

CONSTANTS
    Threads,       \* the application's threads
    TlsThreads,    \* those whose options ask for TLS
    SqlThreads,    \* those that also call sessiongw_c_execute_sql
    Fds,           \* descriptor numbers of the process
    MaxAddresses,  \* addresses a host name can have
    HeaderLimit,   \* the longest upgrade response: 16 * 1024 bytes
    MaxSent,       \* bound on the messages a peer sends
    MaxUnread,     \* bound on what lies unread in a connection
    MaxCalls       \* bound on the connections the process attempts

None == 0

ASSUME SessionConnectAssumption ==
    /\ Fds \subseteq Nat \ {0} /\ TlsThreads \subseteq Threads /\ SqlThreads \subseteq Threads
    /\ {MaxAddresses, HeaderLimit, MaxSent, MaxUnread, MaxCalls} \subseteq Nat
    /\ None \notin Threads
Errors == {"authentication_failed", "transport_error", "protocol_error", "internal_error"}

\* A WebSocketConnection: fd_, sslContext_ and ssl_; a closed or moved-from one has none.
Closed == [fd |-> None, context |-> FALSE, ssl |-> FALSE]
Connections == [fd : Fds \cup {None}, context : BOOLEAN, ssl : BOOLEAN]
\* The connection of a thread's call, and the one inside its Session::Impl.
Places == {"local", "kept"}

\* The answers a connection waits for: the public key, the login's status, and then, for
\* a session, the status of enterSessionGateway and HelloOk; for a command, its result.
Login == 2
Needed(purpose) == IF purpose = "session" THEN 4 ELSE 3

VARIABLES
    pc,        \* where each thread is in its call, "idle" between calls
    purpose,   \* "session" or "command"
    raw,       \* connectTcp's fd
    left,      \* addresses connectTcp has not tried
    header,    \* bytes of the upgrade response, while it is being read
    heard,     \* answers taken from this connection
    conn,      \* the thread's connection objects
    session,   \* its sessiongw_c_session: "none", "open", "closed"
    thrown,    \* the category of the exception in flight
    holder,    \* which thread each descriptor was given to, None for a free one
    contexts,  \* SSL_CTX objects each thread has allocated and not freed
    ssls,      \* the same for SSL objects
    keys,      \* the same for the public key and the encryption context
    peer,      \* the other end: "none", "header", "messages", "gone"
    stream,    \* what it sent that was not read
    sent,      \* messages it sent
    calls,     \* connections attempted
    slot,      \* lastCategory, and whether lastMessage has a text
    last,      \* how each thread's last protected call ended: "none", "ok" or a category
    tooLong    \* encryptions of each thread that failed

call == <<pc, purpose, raw, left, header, heard, thrown>>
objects == <<conn, holder, contexts, ssls>>
link == <<peer, stream, sent>>
report == <<slot, last>>
vars == <<call, objects, session, keys, link, calls, report, tooLong>>

TypeOK ==
    /\ pc \in [Threads -> {"idle", "resolve", "socket", "connect", "nodelay", "context",
                           "ssl", "handshake", "request", "header", "ask", "answer",
                           "encrypt", "return", "moved", "sql", "result", "unwind", "dying"}]
    /\ purpose \in [Threads -> {"session", "command"}]
    /\ raw \in [Threads -> Fds \cup {None}] /\ left \in [Threads -> 0 .. MaxAddresses]
    /\ header \in [Threads -> 0 .. HeaderLimit] /\ heard \in [Threads -> 0 .. 4]
    /\ conn \in [Threads -> [Places -> Connections]]
    /\ session \in [Threads -> {"none", "open", "closed"}]
    /\ thrown \in [Threads -> Errors \cup {"none"}]
    /\ holder \in [Fds -> Threads \cup {None}]
    /\ contexts \in [Threads -> 0 .. 1] /\ ssls \in [Threads -> 0 .. 1]
    /\ keys \in [Threads -> 0 .. MaxCalls] /\ tooLong \in [Threads -> 0 .. MaxCalls]
    /\ peer \in [Threads -> {"none", "header", "messages", "gone"}]
    /\ stream \in [Threads -> Seq({"byte", "blank", "message"})]
    /\ sent \in [Threads -> 0 .. MaxSent] /\ calls \in 0 .. MaxCalls
    /\ slot \in [Threads -> [category : Errors, message : BOOLEAN]]
    /\ last \in [Threads -> Errors \cup {"none", "ok"}]

Init ==
    /\ pc = [t \in Threads |-> "idle"] /\ purpose = [t \in Threads |-> "session"]
    /\ raw = [t \in Threads |-> None] /\ left = [t \in Threads |-> 0]
    /\ header = [t \in Threads |-> 0] /\ heard = [t \in Threads |-> 0]
    /\ conn = [t \in Threads |-> [p \in Places |-> Closed]]
    /\ session = [t \in Threads |-> "none"] /\ thrown = [t \in Threads |-> "none"]
    /\ holder = [f \in Fds |-> None]
    /\ contexts = [t \in Threads |-> 0] /\ ssls = [t \in Threads |-> 0]
    /\ keys = [t \in Threads |-> 0] /\ tooLong = [t \in Threads |-> 0]
    /\ peer = [t \in Threads |-> "none"] /\ stream = [t \in Threads |-> <<>>]
    /\ sent = [t \in Threads |-> 0] /\ calls = 0
    /\ slot = [t \in Threads |-> [category |-> "transport_error", message |-> FALSE]]
    /\ last = [t \in Threads |-> "none"]

-----------------------------------------------------------------------------
(* The connection objects and the error slot.                              *)

At(t, from, to) == pc[t] = from /\ pc' = [pc EXCEPT ![t] = to]

\* An exception is on its way out of the call.
Throw(t, from, category) ==
    /\ At(t, from, "unwind")
    /\ thrown' = [thrown EXCEPT ![t] = category]

\* Mutant: close() forgets to reset sslContext_.
ClosingKeepsContext(t, places) ==
    /\ conn' = [conn EXCEPT ![t] = [p \in Places |->
          IF p \in places THEN [Closed EXCEPT !.context = conn[t][p].context] ELSE @[p]]]
    /\ holder' = [f \in Fds |-> IF \E p \in places : conn[t][p].fd = f THEN None ELSE holder[f]]
    /\ contexts' = [contexts EXCEPT ![t] = @ - Cardinality({p \in places : conn[t][p].context})]
    /\ ssls' = [ssls EXCEPT ![t] = @ - Cardinality({p \in places : conn[t][p].ssl})]

\* close() of the connections at these places; of a closed one it does nothing.  The
\* kernel closes the descriptor it is given, whoever that belongs to by now.
Closing(t, places) ==
    /\ conn' = [conn EXCEPT ![t] = [p \in Places |-> IF p \in places THEN Closed ELSE @[p]]]
    /\ holder' = [f \in Fds |-> IF \E p \in places : conn[t][p].fd = f THEN None ELSE holder[f]]
    /\ contexts' = [contexts EXCEPT ![t] = @ - Cardinality({p \in places : conn[t][p].context})]
    /\ ssls' = [ssls EXCEPT ![t] = @ - Cardinality({p \in places : conn[t][p].ssl})]

\* Mutant: one slot serves all threads.
ReportToAll(t, result) ==
    /\ last' = [last EXCEPT ![t] = result]
    /\ slot' = IF result = "ok" THEN [slot EXCEPT ![t].message = FALSE]
               ELSE [u \in Threads |-> [category |-> result, message |-> TRUE]]

\* protect(): the message is cleared first and a failure sets category and message; the
\* category of an earlier failure survives a success.
Report(t, result) ==
    /\ last' = [last EXCEPT ![t] = result]
    /\ slot' = IF result = "ok" THEN [slot EXCEPT ![t].message = FALSE]
               ELSE [slot EXCEPT ![t] = [category |-> result, message |-> TRUE]]

-----------------------------------------------------------------------------
(* connectTcp and enableTls.                                               *)

\* The C API converts its options, connectAndLogin looks at user and password.
Connect(t, use) ==
    /\ session[t] = "none" /\ calls < MaxCalls
    /\ calls' = calls + 1
    /\ slot' = [slot EXCEPT ![t].message = FALSE]
    /\ purpose' = [purpose EXCEPT ![t] = use]
    /\ \/ At(t, "idle", "resolve") /\ UNCHANGED thrown
       \/ \E c \in {"protocol_error", "authentication_failed"} : Throw(t, "idle", c)
    /\ UNCHANGED <<raw, left, header, heard, objects, session, keys, link, last, tooLong>>

\* getaddrinfo.
Resolve(t) ==
    /\ \/ /\ At(t, "resolve", "socket")
          /\ \E n \in 1 .. MaxAddresses : left' = [left EXCEPT ![t] = n]
          /\ UNCHANGED thrown
       \/ Throw(t, "resolve", "transport_error") /\ UNCHANGED left
    /\ UNCHANGED <<purpose, raw, header, heard, objects, session, keys, link, calls, report, tooLong>>

\* The lowest free descriptor, as the kernel gives them out.
Free == {f \in Fds : holder[f] = None}
Lowest == CHOOSE f \in Free : \A g \in Free : f <= g

\* socket() for the next address: where there is none it fails and the loop goes on.
Socket(t) ==
    /\ \/ /\ left[t] > 0 /\ Free # {}
          /\ At(t, "socket", "connect")
          /\ raw' = [raw EXCEPT ![t] = Lowest]
          /\ holder' = [holder EXCEPT ![Lowest] = t]
          /\ UNCHANGED <<left, thrown>>
       \/ /\ left[t] > 0
          /\ At(t, "socket", "socket")
          /\ left' = [left EXCEPT ![t] = @ - 1]
          /\ UNCHANGED <<raw, holder, thrown>>
       \/ /\ left[t] = 0
          /\ Throw(t, "socket", "transport_error")
          /\ UNCHANGED <<left, raw, holder>>
    /\ UNCHANGED <<purpose, header, heard, conn, contexts, ssls, session, keys, link, calls,
                   report, tooLong>>

\* connect(): the connection takes the descriptor over, or the loop closes it.
ConnectSocket(t) ==
    /\ \/ /\ At(t, "connect", "nodelay")
          /\ conn' = [conn EXCEPT ![t]["local"].fd = raw[t]]
          /\ left' = [left EXCEPT ![t] = 0]
          /\ UNCHANGED holder
       \/ /\ At(t, "connect", "socket")
          /\ holder' = [holder EXCEPT ![raw[t]] = None]
          /\ left' = [left EXCEPT ![t] = @ - 1]
          /\ UNCHANGED conn
    /\ raw' = [raw EXCEPT ![t] = None]
    /\ UNCHANGED <<purpose, header, heard, thrown, contexts, ssls, session, keys, link,
                   calls, report, tooLong>>

\* setsockopt(TCP_NODELAY), and the choice of TLS.
NoDelay(t) ==
    /\ \/ /\ At(t, "nodelay", IF t \in TlsThreads THEN "context" ELSE "request")
          /\ UNCHANGED thrown
       \/ Throw(t, "nodelay", "transport_error")
    /\ UNCHANGED <<purpose, raw, left, header, heard, objects, session, keys, link, calls,
                   report, tooLong>>

\* SSL_CTX_new and the certificate paths: the context is a member before they are loaded.
NewContext(t) ==
    /\ \/ \E made \in BOOLEAN :
             /\ Throw(t, "context", "transport_error")
             /\ conn' = [conn EXCEPT ![t]["local"].context = made]
             /\ contexts' = [contexts EXCEPT ![t] = IF made THEN @ + 1 ELSE @]
       \/ /\ At(t, "context", "ssl") /\ UNCHANGED thrown
          /\ conn' = [conn EXCEPT ![t]["local"].context = TRUE]
          /\ contexts' = [contexts EXCEPT ![t] = @ + 1]
    /\ UNCHANGED <<purpose, raw, left, header, heard, holder, ssls, session, keys, link, calls,
                   report, tooLong>>

\* SSL_new.
NewSsl(t) ==
    /\ \/ Throw(t, "ssl", "transport_error") /\ UNCHANGED <<conn, ssls>>
       \/ /\ At(t, "ssl", "handshake") /\ UNCHANGED thrown
          /\ conn' = [conn EXCEPT ![t]["local"].ssl = TRUE]
          /\ ssls' = [ssls EXCEPT ![t] = @ + 1]
    /\ UNCHANGED <<purpose, raw, left, header, heard, holder, contexts, session, keys, link,
                   calls, report, tooLong>>

\* The BIO, the host name, SSL_connect and the certificate's verification.
Handshake(t) ==
    /\ \/ Throw(t, "handshake", "transport_error")
       \/ At(t, "handshake", "request") /\ UNCHANGED thrown
    /\ UNCHANGED <<purpose, raw, left, header, heard, objects, session, keys, link, calls,
                   report, tooLong>>

-----------------------------------------------------------------------------
(* The HTTP upgrade and the exchanges of the login.                        *)

\* transportWrite() of the upgrade request, which the peer then answers.
SendUpgrade(t) ==
    /\ \/ /\ At(t, "request", "header") /\ UNCHANGED thrown
          /\ peer' = [peer EXCEPT ![t] = "header"]
       \/ Throw(t, "request", "transport_error") /\ UNCHANGED peer
    /\ UNCHANGED <<purpose, raw, left, header, heard, objects, session, keys, stream, sent, calls,
                   report, tooLong>>

\* sendText() and sendFrame(): a write that fails leaves the connection open and the
\* exception closes it.  A write to a peer that has left may still succeed.
Ask(t) ==
    /\ \/ At(t, "ask", "answer") /\ UNCHANGED thrown
       \/ Throw(t, "ask", "transport_error")
    /\ UNCHANGED <<purpose, raw, left, header, heard, objects, session, keys, link, calls,
                   report, tooLong>>

\* Mutants: the response has no limit; it is read two bytes at a time.
ReadHeaderForever(t) ==
    /\ stream[t] # <<>>
    /\ stream' = [stream EXCEPT ![t] = Tail(@)]
    /\ header' = header
    /\ \/ Head(stream[t]) = "blank" /\ At(t, "header", "ask") /\ UNCHANGED thrown
       \/ Head(stream[t]) = "blank" /\ Throw(t, "header", "protocol_error")
       \/ Head(stream[t]) # "blank" /\ At(t, "header", "header") /\ UNCHANGED thrown
    /\ UNCHANGED <<purpose, raw, left, heard, objects, session, keys, peer, sent, calls,
                   report, tooLong>>
ReadHeaderAhead(t) ==
    /\ stream[t] # <<>>
    /\ LET ended == "blank" \in {stream[t][i] : i \in 1 .. IF Len(stream[t]) = 1 THEN 1 ELSE 2}
       IN  /\ stream' = [stream EXCEPT ![t] = IF Len(@) = 1 THEN <<>> ELSE Tail(Tail(@))]
           /\ IF header[t] = HeaderLimit
              THEN Throw(t, "header", "protocol_error") /\ UNCHANGED header
              ELSE /\ header' = [header EXCEPT ![t] = IF ended THEN 0 ELSE @ + 1]
                   /\ \/ ended /\ At(t, "header", "ask") /\ UNCHANGED thrown
                      \/ ended /\ Throw(t, "header", "protocol_error")
                      \/ ~ended /\ At(t, "header", "header") /\ UNCHANGED thrown
    /\ UNCHANGED <<purpose, raw, left, heard, objects, session, keys, peer, sent, calls,
                   report, tooLong>>

\* The response is read byte by byte up to its blank line, which is looked at for the
\* 101 and the accept value.  One byte more than the limit is too large, whatever it is.
ReadHeader(t) ==
    /\ stream[t] # <<>>
    /\ stream' = [stream EXCEPT ![t] = Tail(@)]
    /\ IF header[t] = HeaderLimit
       THEN Throw(t, "header", "protocol_error") /\ UNCHANGED header
       ELSE LET ended == Head(stream[t]) = "blank"
            IN  /\ header' = [header EXCEPT ![t] = IF ended THEN 0 ELSE @ + 1]
                /\ \/ ended /\ At(t, "header", "ask") /\ UNCHANGED thrown
                   \/ ended /\ Throw(t, "header", "protocol_error")
                   \/ ~ended /\ At(t, "header", "header") /\ UNCHANGED thrown
    /\ UNCHANGED <<purpose, raw, left, heard, objects, session, keys, peer, sent, calls,
                   report, tooLong>>

\* transportRead at the end of the stream, in the upgrade.
HeaderCutOff(t) ==
    /\ stream[t] = <<>> /\ peer[t] = "gone"
    /\ Throw(t, "header", "transport_error")
    /\ UNCHANGED <<purpose, raw, left, header, heard, objects, session, keys, link, calls,
                   report, tooLong>>

\* The connection the call reads from.
Current(t) == IF conn[t]["kept"] # Closed THEN "kept" ELSE "local"

\* What follows the answer that was just taken, if it is a good one.
After(t, n) ==
    CASE n = 1 -> "encrypt"
      [] n = Login -> IF purpose[t] = "session" THEN "return" ELSE "sql"
      [] n = Needed(purpose[t]) -> "result"
      [] OTHER -> "ask"

\* receiveText() and requireStatusOk(); for the last answer of a session, request(Hello)
\* and the decoding of HelloOk; for a command, receiveText() alone.
Answer(t) ==
    /\ stream[t] # <<>>
    /\ stream' = [stream EXCEPT ![t] = Tail(@)]
    /\ heard' = [heard EXCEPT ![t] = @ + 1]
    /\ \/ At(t, "answer", After(t, heard[t] + 1)) /\ UNCHANGED thrown
       \/ Throw(t, "answer", "protocol_error")
    /\ UNCHANGED <<purpose, raw, left, header, objects, session, keys, peer, sent, calls,
                   report, tooLong>>

\* No answer, or one that is no WebSocket message: receiveText() and receiveFrame()
\* close the connection before the exception leaves them.
NoAnswer(t) ==
    /\ \/ stream[t] = <<>> /\ peer[t] = "gone" /\ Throw(t, "answer", "transport_error")
       \/ stream[t] # <<>> /\ Throw(t, "answer", "protocol_error")
    /\ Closing(t, {Current(t)})
    /\ UNCHANGED <<purpose, raw, left, header, heard, session, keys, link, calls, report, tooLong>>

\* encryptPasswordForWebSocketLogin: what it allocates is freed on the way out, but not
\* when the encryption itself fails - a password too long for the key, a key that is
\* not RSA: then key and context stay behind.
Encrypt(t) ==
    /\ \/ /\ \E c \in {"transport_error", "protocol_error"} : Throw(t, "encrypt", c)
          /\ UNCHANGED <<keys, tooLong>>
       \/ /\ Throw(t, "encrypt", "transport_error")
          /\ keys' = [keys EXCEPT ![t] = @ + 1]
          /\ tooLong' = [tooLong EXCEPT ![t] = @ + 1]
       \/ At(t, "encrypt", "ask") /\ UNCHANGED <<thrown, keys, tooLong>>
    /\ UNCHANGED <<purpose, raw, left, header, heard, objects, session, link, calls, report>>

-----------------------------------------------------------------------------
(* What becomes of the connection.                                         *)

\* Mutant: the connection that was moved from keeps its members.
MoveCopies(t) ==
    /\ At(t, "return", "moved")
    /\ conn' = [conn EXCEPT ![t] = [p \in Places |-> @["local"]]]
    /\ UNCHANGED <<purpose, raw, left, header, heard, thrown, holder, contexts, ssls, session,
                   keys, link, calls, report, tooLong>>

\* connectAndLogin's result is moved into the Session::Impl.
Move(t) ==
    /\ At(t, "return", "moved")
    /\ conn' = [conn EXCEPT ![t] = [p \in Places |-> IF p = "kept" THEN @["local"] ELSE Closed]]
    /\ UNCHANGED <<purpose, raw, left, header, heard, thrown, holder, contexts, ssls, session,
                   keys, link, calls, report, tooLong>>

\* The connection it was moved from is destroyed, and the session goes on.
DropMoved(t) ==
    /\ At(t, "moved", "ask")
    /\ Closing(t, {"local"})
    /\ UNCHANGED <<purpose, raw, left, header, heard, thrown, session, keys, link, calls,
                   report, tooLong>>

\* sessiongw_c_execute_sql logs in before it looks at the command.
LookAtSql(t) ==
    /\ \/ At(t, "sql", "ask") /\ UNCHANGED thrown
       \/ Throw(t, "sql", "protocol_error")
    /\ UNCHANGED <<purpose, raw, left, header, heard, objects, session, keys, link, calls,
                   report, tooLong>>

\* The call's stream is not followed any longer.
Forget(t) ==
    /\ header' = [header EXCEPT ![t] = 0]
    /\ peer' = [peer EXCEPT ![t] = "none"] /\ stream' = [stream EXCEPT ![t] = <<>>]
    /\ sent' = [sent EXCEPT ![t] = 0]

\* *out = new sessiongw_c_session.
Established(t) ==
    /\ purpose[t] = "session"
    /\ At(t, "result", "idle")
    /\ session' = [session EXCEPT ![t] = "open"]
    /\ Report(t, "ok") /\ Forget(t)
    /\ UNCHANGED <<purpose, raw, left, heard, thrown, objects, keys, calls, tooLong>>

\* The command's connection is closed before its result is looked at.
CommandDone(t) ==
    /\ purpose[t] = "command"
    /\ Closing(t, {"local"})
    /\ \/ /\ At(t, "result", "idle") /\ UNCHANGED thrown
          /\ Report(t, "ok") /\ Forget(t) /\ heard' = [heard EXCEPT ![t] = 0]
       \/ Throw(t, "result", "internal_error") /\ UNCHANGED <<report, header, heard, link>>
    /\ UNCHANGED <<purpose, raw, left, session, keys, calls, tooLong>>

\* The exception destroys whatever connection there is and ends in protect().
Unwind(t) ==
    /\ At(t, "unwind", "idle")
    /\ Closing(t, Places)
    /\ Report(t, thrown[t])
    /\ thrown' = [thrown EXCEPT ![t] = "none"]
    /\ Forget(t) /\ heard' = [heard EXCEPT ![t] = 0]
    /\ UNCHANGED <<purpose, raw, left, session, keys, calls, tooLong>>

\* Any other protected call on the session, a request or a look at its statistics: it may
\* fail, and the connection be lost in it.
UseSession(t) ==
    /\ pc[t] = "idle" /\ session[t] # "none"
    /\ \/ Report(t, "ok") /\ UNCHANGED objects
       \/ \E c \in {"transport_error", "protocol_error"} : Report(t, c) /\ (Closing(t, {"kept"}) \/ UNCHANGED objects)
    /\ UNCHANGED <<call, session, keys, link, calls, tooLong>>

\* sessiongw_c_close, when the server answers it; a closed session's does nothing.
CloseSession(t) ==
    /\ pc[t] = "idle" /\ session[t] # "none"
    /\ session[t] = "open" => conn[t]["kept"].fd # None
    /\ session' = [session EXCEPT ![t] = "closed"]
    /\ Closing(t, {"kept"})
    /\ Report(t, "ok")
    /\ UNCHANGED <<call, keys, link, calls, tooLong>>

\* sessiongw_c_session_destroy, which reports nothing: ~Session closes the connection,
\* by close() or after it failed.
DestroySession(t) ==
    /\ session[t] # "none"
    /\ At(t, "idle", "dying")
    /\ IF session[t] = "open" THEN Closing(t, {"kept"}) ELSE UNCHANGED objects
    /\ UNCHANGED <<purpose, raw, left, header, heard, thrown, session, keys, link, calls,
                   report, tooLong>>

\* Then ~Impl destroys the connection.
DropImpl(t) ==
    /\ At(t, "dying", "idle")
    /\ Closing(t, {"kept"})
    /\ session' = [session EXCEPT ![t] = "none"] /\ heard' = [heard EXCEPT ![t] = 0]
    /\ UNCHANGED <<purpose, raw, left, header, thrown, keys, link, calls, report, tooLong>>

-----------------------------------------------------------------------------
(* The peer.                                                               *)

Sends(t, what) ==
    /\ Len(stream[t]) < MaxUnread
    /\ stream' = [stream EXCEPT ![t] = Append(@, what)]

\* Header bytes, for ever if it likes; the blank line; messages, asked for or not.
PeerSends(t) ==
    /\ pc[t] \notin {"idle", "unwind"}
    /\ \/ peer[t] = "header" /\ Sends(t, "byte") /\ UNCHANGED <<peer, sent>>
       \/ /\ peer[t] = "header" /\ Sends(t, "blank")
          /\ peer' = [peer EXCEPT ![t] = "messages"] /\ UNCHANGED sent
       \/ /\ peer[t] = "messages" /\ sent[t] < MaxSent /\ Sends(t, "message")
          /\ sent' = [sent EXCEPT ![t] = @ + 1] /\ UNCHANGED peer
    /\ UNCHANGED <<call, objects, session, keys, calls, report, tooLong>>

PeerLeaves(t) ==
    /\ pc[t] \notin {"idle", "unwind"} /\ peer[t] \in {"header", "messages"}
    /\ peer' = [peer EXCEPT ![t] = "gone"]
    /\ UNCHANGED <<call, objects, session, keys, stream, sent, calls, report, tooLong>>

\* What a call does on its way.
Step(t) ==
    \/ Resolve(t) \/ Socket(t) \/ ConnectSocket(t) \/ NoDelay(t)
    \/ NewContext(t) \/ NewSsl(t) \/ Handshake(t)
    \/ SendUpgrade(t) \/ ReadHeader(t) \/ HeaderCutOff(t)
    \/ Ask(t) \/ Answer(t) \/ NoAnswer(t) \/ Encrypt(t)
    \/ Move(t) \/ DropMoved(t) \/ LookAtSql(t)
    \/ Established(t) \/ CommandDone(t) \/ Unwind(t) \/ DropImpl(t)

\* What the application does.
Begin(t) ==
    \/ Connect(t, "session")
    \/ t \in SqlThreads /\ Connect(t, "command")
    \/ UseSession(t) \/ CloseSession(t) \/ DestroySession(t)

Next == \E t \in Threads : Begin(t) \/ Step(t) \/ PeerSends(t) \/ PeerLeaves(t)

\* A thread in a call is scheduled; a peer does not fall silent: it sends, or it leaves.
Fairness == \A t \in Threads :
    WF_vars(Step(t)) /\ WF_vars(PeerSends(t) \/ PeerLeaves(t))

Spec == Init /\ [][Next]_vars /\ Fairness

-----------------------------------------------------------------------------
(* Properties.                                                             *)

\* What a thread holds of the process's resources is what its connection objects point
\* to, at every step of every call and after every failure: no descriptor or TLS object
\* is lost, none is freed twice, and no connection closes a descriptor number that has
\* become another thread's (the comment in enableTls: the connection closes the socket
\* exactly once).  Between calls only a session holds any.  The exception is the key of
\* an encryption that failed.
HeldByItsConnection ==
    \A t \in Threads :
        LET used == {p \in Places : conn[t][p] # Closed}
        IN  /\ {f \in Fds : holder[f] = t} = ({raw[t]} \cup {conn[t][p].fd : p \in used}) \ {None}
            /\ contexts[t] = Cardinality({p \in used : conn[t][p].context})
            /\ ssls[t] = Cardinality({p \in used : conn[t][p].ssl})
            /\ keys[t] = tooLong[t]
            /\ pc[t] = "idle" => used = {} \/ (used = {"kept"} /\ session[t] = "open")

\* The upgrade and the exchanges share one stream, and what the peer sent behind the
\* blank line, however early, is taken message by message: nothing of it is read with
\* the header.  A session is made of the four answers that belong to it.
AnswersInOrder ==
    \A t \in Threads :
        /\ peer[t] # "none" =>
              heard[t] + Cardinality({i \in DOMAIN stream[t] : stream[t][i] = "message"}) = sent[t]
        /\ session[t] # "none" => heard[t] = Needed("session")

\* c_api.h, on the error slot: a thread that asks after a protected call finds the
\* failure of its own last call, whatever other threads do meanwhile, and no message if
\* that call succeeded.  The category then is an older failure's.
SlotIsTheThreadsOwn ==
    \A t \in Threads :
        pc[t] # "dying" =>
            /\ slot[t].message <=> pc[t] = "idle" /\ last[t] \in Errors
            /\ slot[t].message => slot[t].category = last[t]

\* Every call returns, though nothing in it has a timeout: also from a peer that sends
\* header bytes for ever.
ConnectReturns == \A t \in Threads : pc[t] # "idle" ~> pc[t] = "idle"
=============================================================================
