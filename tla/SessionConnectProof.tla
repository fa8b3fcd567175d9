------------------------ MODULE SessionConnectProof ------------------------
(***************************************************************************)
(* SessionConnect's safety properties, proved for any threads, any         *)
(* descriptors and any number of calls.  What a thread holds follows from  *)
(* which of its two connection objects is in use, and that from where the  *)
(* thread is in its call; what the answers are follows from the form of    *)
(* the unread stream.                                                      *)
(***************************************************************************)
EXTENDS SessionConnect, FiniteSetTheorems, SequenceTheorems, WellFoundedInduction, TLAPS

(***************************************************************************)
(* The inductive invariant, thread by thread.                              *)
(***************************************************************************)
Local(t) == conn[t]["local"]
Kept(t) == conn[t]["kept"]

\* Before the connection exists, and before the first answer.
Reaching == {"resolve", "socket", "connect"}
Opening == {"nodelay", "context", "ssl", "handshake", "request", "header"}
\* Before the upgrade was asked for, and between calls.
Silent == {"idle", "dying", "nodelay", "context", "ssl", "handshake", "request"} \cup Reaching
\* Where the call has a stream of messages.
Talking == {"ask", "answer", "encrypt", "return", "moved", "sql", "result"}

\* Which of the two connection objects is in use, at each place of the code.
PlaceInv(t) ==
    /\ Local(t) = Closed \/ Kept(t) = Closed
    /\ raw[t] # None => pc[t] = "connect"
    /\ pc[t] \in {"idle", "dying"} \cup Reaching => Local(t) = Closed
    /\ pc[t] \in Reaching \cup Opening \cup {"encrypt", "return", "sql"} => Kept(t) = Closed
    /\ pc[t] \in {"nodelay", "context"} => ~Local(t).context /\ ~Local(t).ssl
    /\ pc[t] = "ssl" => ~Local(t).ssl
    /\ pc[t] = "idle" /\ Kept(t) # Closed => session[t] = "open"
    /\ session[t] # "none" => pc[t] \in {"idle", "dying"}
    /\ pc[t] = "moved" => Local(t) = Closed
    /\ purpose[t] = "session" /\ heard[t] >= Login /\ pc[t] \in {"ask", "answer", "result"}
          => Local(t) = Closed
    /\ heard[t] < Login /\ pc[t] \in {"ask", "answer"} => Kept(t) = Closed
    /\ purpose[t] = "command" => Kept(t) = Closed

\* The answers the call has had, at each place of the code.
HeardInv(t) ==
    /\ session[t] # "none" => heard[t] = Needed("session")
    /\ pc[t] = "dying" => session[t] # "none"
    /\ pc[t] = "idle" /\ session[t] = "none" => heard[t] = 0
    /\ pc[t] \in Reaching \cup Opening => heard[t] = 0
    /\ pc[t] \in {"ask", "answer"} => heard[t] < Needed(purpose[t])
    /\ pc[t] = "encrypt" => heard[t] = 1
    /\ pc[t] \in {"return", "moved"} => heard[t] = Login /\ purpose[t] = "session"
    /\ pc[t] = "sql" => heard[t] = Login /\ purpose[t] = "command"
    /\ pc[t] = "result" => heard[t] = Needed(purpose[t])

\* The slot belongs to the last call, also while a session is destroyed.
SlotInv(t) ==
    /\ pc[t] = "unwind" => thrown[t] \in Errors
    /\ slot[t].message <=> pc[t] \in {"idle", "dying"} /\ last[t] \in Errors
    /\ slot[t].message => slot[t].category = last[t]

\* The loop closes a descriptor only while it is at an address.
LeftInv(t) == pc[t] = "connect" => left[t] > 0

\* The process's resources that a thread holds are those its objects point to.
HeldInv(t) ==
    /\ \A f \in Fds : holder[f] = t <=> f \in {raw[t], Local(t).fd, Kept(t).fd}
    /\ contexts[t] = IF Local(t).context \/ Kept(t).context THEN 1 ELSE 0
    /\ ssls[t] = IF Local(t).ssl \/ Kept(t).ssl THEN 1 ELSE 0

\* A call encrypts one password at most.
KeyInv(t) ==
    /\ keys[t] = tooLong[t] /\ keys[t] <= calls
    /\ \/ pc[t] \in Reaching \cup Opening \cup {"encrypt"}
       \/ pc[t] \in {"ask", "answer"} /\ heard[t] = 0
       => keys[t] < calls

MessagesIn(s) == {i \in DOMAIN s : s[i] = "message"}

\* The unread stream: bytes, the blank line, messages; behind the header only messages.
StreamInv(t) ==
    LET s == stream[t]
    IN  /\ \A i, j \in 1 .. Len(s) : i < j => s[i] = "byte" \/ s[j] = "message"
        /\ peer[t] = "none" => s = <<>> /\ sent[t] = 0
        /\ peer[t] = "header" => sent[t] = 0 /\ \A i \in 1 .. Len(s) : s[i] = "byte"
        /\ peer[t] # "none" => heard[t] + Cardinality(MessagesIn(s)) = sent[t]
        /\ pc[t] \in Silent => peer[t] = "none"
        /\ pc[t] = "header" =>
              /\ peer[t] # "none"
              /\ peer[t] = "messages" \/ MessagesIn(s) # {} => \E i \in 1 .. Len(s) : s[i] = "blank"
        /\ pc[t] \in Talking => peer[t] \in {"messages", "gone"} /\ \A i \in 1 .. Len(s) : s[i] = "message"

ConnectInv ==
    /\ TypeOK
    /\ \A t \in Threads :
          PlaceInv(t) /\ HeardInv(t) /\ SlotInv(t) /\ LeftInv(t) /\ HeldInv(t) /\ KeyInv(t) /\ StreamInv(t)

-----------------------------------------------------------------------------
(* One thread moves, and the others keep what is theirs.                   *)

\* A step of a thread, or of its peer.
Moves(t) == Begin(t) \/ Step(t) \/ PeerSends(t) \/ PeerLeaves(t)

Same(u) ==
    /\ pc'[u] = pc[u] /\ purpose'[u] = purpose[u] /\ raw'[u] = raw[u] /\ left'[u] = left[u]
    /\ header'[u] = header[u] /\ heard'[u] = heard[u] /\ thrown'[u] = thrown[u]
    /\ conn'[u] = conn[u] /\ contexts'[u] = contexts[u] /\ ssls'[u] = ssls[u]
    /\ session'[u] = session[u] /\ keys'[u] = keys[u] /\ tooLong'[u] = tooLong[u]
    /\ peer'[u] = peer[u] /\ stream'[u] = stream[u] /\ sent'[u] = sent[u]
    /\ slot'[u] = slot[u] /\ last'[u] = last[u]

LEMMA OthersKeep ==
    ASSUME TypeOK, NEW t \in Threads, NEW u \in Threads, u # t, Moves(t)
    PROVE  Same(u)
<1>1. ASSUME NEW use \in {"session", "command"}, Connect(t, use) PROVE Same(u)
  BY <1>1 DEF Connect, At, Throw, Closing, Report, Forget, Sends,
       call, objects, link, report, Same, TypeOK
<1>2. CASE Resolve(t)
  BY <1>2 DEF Resolve, At, Throw, Closing, Report, Forget, Sends,
       call, objects, link, report, Same, TypeOK
<1>3. CASE Socket(t)
  BY <1>3 DEF Socket, At, Throw, Closing, Report, Forget, Sends,
       call, objects, link, report, Same, TypeOK
<1>4. CASE ConnectSocket(t)
  BY <1>4 DEF ConnectSocket, At, Throw, Closing, Report, Forget, Sends,
       call, objects, link, report, Same, TypeOK
<1>5. CASE NoDelay(t)
  BY <1>5 DEF NoDelay, At, Throw, Closing, Report, Forget, Sends,
       call, objects, link, report, Same, TypeOK
<1>6. CASE NewContext(t)
  BY <1>6 DEF NewContext, At, Throw, Closing, Report, Forget, Sends,
       call, objects, link, report, Same, TypeOK
<1>7. CASE NewSsl(t)
  BY <1>7 DEF NewSsl, At, Throw, Closing, Report, Forget, Sends,
       call, objects, link, report, Same, TypeOK
<1>8. CASE Handshake(t)
  BY <1>8 DEF Handshake, At, Throw, Closing, Report, Forget, Sends,
       call, objects, link, report, Same, TypeOK
<1>9. CASE SendUpgrade(t)
  BY <1>9 DEF SendUpgrade, At, Throw, Closing, Report, Forget, Sends,
       call, objects, link, report, Same, TypeOK
<1>10. CASE ReadHeader(t)
  BY <1>10 DEF ReadHeader, At, Throw, Closing, Report, Forget, Sends,
       call, objects, link, report, Same, TypeOK
<1>11. CASE HeaderCutOff(t)
  BY <1>11 DEF HeaderCutOff, At, Throw, Closing, Report, Forget, Sends,
       call, objects, link, report, Same, TypeOK
<1>12. CASE Ask(t)
  BY <1>12 DEF Ask, At, Throw, Closing, Report, Forget, Sends,
       call, objects, link, report, Same, TypeOK
<1>13. CASE Answer(t)
  BY <1>13 DEF Answer, At, Throw, Closing, Report, Forget, Sends,
       call, objects, link, report, Same, TypeOK
<1>14. CASE NoAnswer(t)
  BY <1>14 DEF NoAnswer, At, Throw, Closing, Report, Forget, Sends,
       call, objects, link, report, Same, TypeOK
<1>15. CASE Encrypt(t)
  BY <1>15 DEF Encrypt, At, Throw, Closing, Report, Forget, Sends,
       call, objects, link, report, Same, TypeOK
<1>16. CASE Move(t)
  BY <1>16 DEF Move, At, Throw, Closing, Report, Forget, Sends,
       call, objects, link, report, Same, TypeOK
<1>17. CASE DropMoved(t)
  BY <1>17 DEF DropMoved, At, Throw, Closing, Report, Forget, Sends,
       call, objects, link, report, Same, TypeOK
<1>18. CASE LookAtSql(t)
  BY <1>18 DEF LookAtSql, At, Throw, Closing, Report, Forget, Sends,
       call, objects, link, report, Same, TypeOK
<1>19. CASE Established(t)
  BY <1>19 DEF Established, At, Throw, Closing, Report, Forget, Sends,
       call, objects, link, report, Same, TypeOK
<1>20. CASE CommandDone(t)
  BY <1>20 DEF CommandDone, At, Throw, Closing, Report, Forget, Sends,
       call, objects, link, report, Same, TypeOK
<1>21. CASE Unwind(t)
  BY <1>21 DEF Unwind, At, Throw, Closing, Report, Forget, Sends,
       call, objects, link, report, Same, TypeOK
<1>22. CASE DropImpl(t)
  BY <1>22 DEF DropImpl, At, Throw, Closing, Report, Forget, Sends,
       call, objects, link, report, Same, TypeOK
<1>23. CASE UseSession(t)
  BY <1>23 DEF UseSession, At, Throw, Closing, Report, Forget, Sends,
       call, objects, link, report, Same, TypeOK
<1>24. CASE CloseSession(t)
  BY <1>24 DEF CloseSession, At, Throw, Closing, Report, Forget, Sends,
       call, objects, link, report, Same, TypeOK
<1>25. CASE DestroySession(t)
  BY <1>25 DEF DestroySession, At, Throw, Closing, Report, Forget, Sends,
       call, objects, link, report, Same, TypeOK
<1>26. CASE PeerSends(t)
  BY <1>26 DEF PeerSends, At, Throw, Closing, Report, Forget, Sends,
       call, objects, link, report, Same, TypeOK
<1>27. CASE PeerLeaves(t)
  BY <1>27 DEF PeerLeaves, At, Throw, Closing, Report, Forget, Sends,
       call, objects, link, report, Same, TypeOK
<1> QED BY <1>1, <1>2, <1>3, <1>4, <1>5, <1>6, <1>7, <1>8, <1>9, <1>10, <1>11, <1>12,
          <1>13, <1>14, <1>15, <1>16, <1>17, <1>18, <1>19, <1>20, <1>21, <1>22, <1>23,
          <1>24, <1>25, <1>26, <1>27
       DEF Moves, Begin, Step

-----------------------------------------------------------------------------
(* What closing a connection does.                                         *)

LEMMA ClosedIs == Closed \in Connections /\ Closed.fd = None /\ ~Closed.context /\ ~Closed.ssl
BY DEF Closed, Connections

LEMMA PlacesOf ==
    ASSUME TypeOK, NEW t \in Threads
    PROVE  Local(t) \in Connections /\ Kept(t) \in Connections
BY DEF TypeOK, Local, Kept, Places

LEMMA ClosingPlaces ==
    ASSUME TypeOK, NEW t \in Threads, NEW places \in SUBSET Places, Closing(t, places)
    PROVE  /\ Local(t)' = IF "local" \in places THEN Closed ELSE Local(t)
           /\ Kept(t)' = IF "kept" \in places THEN Closed ELSE Kept(t)
BY DEF Closing, TypeOK, Local, Kept, Places

LEMMA CurrentPlace ==
    ASSUME NEW t \in Threads
    PROVE  /\ {Current(t)} \in SUBSET Places
           /\ Current(t) = IF Kept(t) # Closed THEN "kept" ELSE "local"
BY DEF Current, Kept, Places

-----------------------------------------------------------------------------
(* Where the thread is, and what it has heard.                             *)

\* Where the call goes with an answer that is a good one.
LEMMA AfterAnswer ==
    ASSUME TypeOK, NEW t \in Threads, HeardInv(t), pc[t] = "answer"
    PROVE  LET n == heard[t] + 1
               session4 == purpose[t] = "session"
           IN  /\ n \in 1 .. 4 /\ purpose[t] \in {"session", "command"} /\ n <= Needed(purpose[t])
               /\ n = 1 => After(t, n) = "encrypt"
               /\ n = 2 => After(t, n) = IF session4 THEN "return" ELSE "sql"
               /\ n = 3 => After(t, n) = IF session4 THEN "ask" ELSE "result"
               /\ n = 4 => session4 /\ After(t, n) = "result"
<1>1. /\ heard[t] \in 0 .. 4 /\ purpose[t] \in {"session", "command"}
      /\ heard[t] < IF purpose[t] = "session" THEN 4 ELSE 3
  BY DEF TypeOK, HeardInv, Needed
<1>2. CASE purpose[t] = "session"
  BY <1>1, <1>2 DEF After, Needed, Login
<1>3. CASE purpose[t] = "command"
  BY <1>1, <1>3 DEF After, Needed, Login
<1> QED BY <1>1, <1>2, <1>3

LEMMA Unmoved ==
    ASSUME UNCHANGED conn, NEW t \in Threads
    PROVE  Local(t)' = Local(t) /\ Kept(t)' = Kept(t)
BY DEF Local, Kept

LEMMA HeardStep ==
    ASSUME TypeOK, NEW t \in Threads, HeardInv(t), PlaceInv(t), Moves(t)
    PROVE  HeardInv(t)'
<1>1. ASSUME NEW use \in {"session", "command"}, Connect(t, use) PROVE HeardInv(t)'
  BY <1>1 DEF Connect, At, Throw, Report, Forget, Sends, Closing,
       call, objects, link, report, TypeOK, HeardInv, PlaceInv, Reaching, Opening, Needed, Login
<1>2. CASE Resolve(t)
  BY <1>2 DEF Resolve, At, Throw, Report, Forget, Sends, Closing,
       call, objects, link, report, TypeOK, HeardInv, PlaceInv, Reaching, Opening, Needed, Login
<1>3. CASE Socket(t)
  BY <1>3 DEF Socket, At, Throw, Report, Forget, Sends, Closing,
       call, objects, link, report, TypeOK, HeardInv, PlaceInv, Reaching, Opening, Needed, Login
<1>4. CASE ConnectSocket(t)
  BY SMTT(30), <1>4 DEF ConnectSocket, At, Throw, Report, Forget, Sends, Closing,
       call, objects, link, report, TypeOK, HeardInv, PlaceInv, Reaching, Opening, Needed, Login
<1>5. CASE NoDelay(t)
  BY <1>5 DEF NoDelay, At, Throw, Report, Forget, Sends, Closing,
       call, objects, link, report, TypeOK, HeardInv, PlaceInv, Reaching, Opening, Needed, Login
<1>6. CASE NewContext(t)
  BY <1>6 DEF NewContext, At, Throw, Report, Forget, Sends, Closing,
       call, objects, link, report, TypeOK, HeardInv, PlaceInv, Reaching, Opening, Needed, Login
<1>7. CASE NewSsl(t)
  BY <1>7 DEF NewSsl, At, Throw, Report, Forget, Sends, Closing,
       call, objects, link, report, TypeOK, HeardInv, PlaceInv, Reaching, Opening, Needed, Login
<1>8. CASE Handshake(t)
  BY <1>8 DEF Handshake, At, Throw, Report, Forget, Sends, Closing,
       call, objects, link, report, TypeOK, HeardInv, PlaceInv, Reaching, Opening, Needed, Login
<1>9. CASE SendUpgrade(t)
  BY <1>9 DEF SendUpgrade, At, Throw, Report, Forget, Sends, Closing,
       call, objects, link, report, TypeOK, HeardInv, PlaceInv, Reaching, Opening, Needed, Login
<1>10. CASE ReadHeader(t)
  BY <1>10 DEF ReadHeader, At, Throw, Report, Forget, Sends, Closing,
       call, objects, link, report, TypeOK, HeardInv, PlaceInv, Reaching, Opening, Needed, Login
<1>11. CASE HeaderCutOff(t)
  BY <1>11 DEF HeaderCutOff, At, Throw, Report, Forget, Sends, Closing,
       call, objects, link, report, TypeOK, HeardInv, PlaceInv, Reaching, Opening, Needed, Login
<1>12. CASE Ask(t)
  BY <1>12 DEF Ask, At, Throw, Report, Forget, Sends, Closing,
       call, objects, link, report, TypeOK, HeardInv, PlaceInv, Reaching, Opening, Needed, Login
<1>13. CASE Answer(t)
  BY SMTT(30), <1>13 DEF Answer, At, Throw, Report, Forget, Sends, Closing,
       call, objects, link, report, TypeOK, HeardInv, PlaceInv, Reaching, Opening, Needed, Login, After
<1>14. CASE NoAnswer(t)
  BY <1>14 DEF NoAnswer, At, Throw, Report, Forget, Sends, Closing,
       call, objects, link, report, TypeOK, HeardInv, PlaceInv, Reaching, Opening, Needed, Login
<1>15. CASE Encrypt(t)
  BY <1>15 DEF Encrypt, At, Throw, Report, Forget, Sends, Closing,
       call, objects, link, report, TypeOK, HeardInv, PlaceInv, Reaching, Opening, Needed, Login
<1>16. CASE Move(t)
  BY <1>16 DEF Move, At, Throw, Report, Forget, Sends, Closing,
       call, objects, link, report, TypeOK, HeardInv, PlaceInv, Reaching, Opening, Needed, Login
<1>17. CASE DropMoved(t)
  BY <1>17 DEF DropMoved, At, Throw, Report, Forget, Sends, Closing,
       call, objects, link, report, TypeOK, HeardInv, PlaceInv, Reaching, Opening, Needed, Login
<1>18. CASE LookAtSql(t)
  BY <1>18 DEF LookAtSql, At, Throw, Report, Forget, Sends, Closing,
       call, objects, link, report, TypeOK, HeardInv, PlaceInv, Reaching, Opening, Needed, Login
<1>19. CASE Established(t)
  BY <1>19 DEF Established, At, Throw, Report, Forget, Sends, Closing,
       call, objects, link, report, TypeOK, HeardInv, PlaceInv, Reaching, Opening, Needed, Login
<1>20. CASE CommandDone(t)
  BY <1>20 DEF CommandDone, At, Throw, Report, Forget, Sends, Closing,
       call, objects, link, report, TypeOK, HeardInv, PlaceInv, Reaching, Opening, Needed, Login
<1>21. CASE Unwind(t)
  BY <1>21 DEF Unwind, At, Throw, Report, Forget, Sends, Closing,
       call, objects, link, report, TypeOK, HeardInv, PlaceInv, Reaching, Opening, Needed, Login
<1>22. CASE DropImpl(t)
  BY <1>22 DEF DropImpl, At, Throw, Report, Forget, Sends, Closing,
       call, objects, link, report, TypeOK, HeardInv, PlaceInv, Reaching, Opening, Needed, Login
<1>23. CASE UseSession(t)
  BY <1>23 DEF UseSession, At, Throw, Report, Forget, Sends, Closing,
       call, objects, link, report, TypeOK, HeardInv, PlaceInv, Reaching, Opening, Needed, Login
<1>24. CASE CloseSession(t)
  BY <1>24 DEF CloseSession, At, Throw, Report, Forget, Sends, Closing,
       call, objects, link, report, TypeOK, HeardInv, PlaceInv, Reaching, Opening, Needed, Login
<1>25. CASE DestroySession(t)
  BY <1>25 DEF DestroySession, At, Throw, Report, Forget, Sends, Closing,
       call, objects, link, report, TypeOK, HeardInv, PlaceInv, Reaching, Opening, Needed, Login
<1>26. CASE PeerSends(t)
  BY <1>26 DEF PeerSends, At, Throw, Report, Forget, Sends, Closing,
       call, objects, link, report, TypeOK, HeardInv, PlaceInv, Reaching, Opening, Needed, Login
<1>27. CASE PeerLeaves(t)
  BY <1>27 DEF PeerLeaves, At, Throw, Report, Forget, Sends, Closing,
       call, objects, link, report, TypeOK, HeardInv, PlaceInv, Reaching, Opening, Needed, Login
<1> QED BY <1>1, <1>2, <1>3, <1>4, <1>5, <1>6, <1>7, <1>8, <1>9, <1>10, <1>11, <1>12,
          <1>13, <1>14, <1>15, <1>16, <1>17, <1>18, <1>19, <1>20, <1>21, <1>22, <1>23,
          <1>24, <1>25, <1>26, <1>27
       DEF Moves, Begin, Step

LEMMA PlaceStep ==
    ASSUME TypeOK, NEW t \in Threads, HeardInv(t), PlaceInv(t), Moves(t)
    PROVE  PlaceInv(t)'
<1> USE PlacesOf, ClosedIs
<1>1. ASSUME NEW use \in {"session", "command"}, Connect(t, use) PROVE PlaceInv(t)'
  BY <1>1 DEF Connect, At, Throw, Report, Forget, Sends,
       call, objects, link, report, TypeOK, Places, Connections, HeardInv, PlaceInv, Local, Kept, Reaching, Opening, Needed, Login
<1>2. CASE Resolve(t)
  <2>1. Local(t)' = Local(t) /\ Kept(t)' = Kept(t)
    BY <1>2, Unmoved DEF Resolve, objects
  <2> QED BY <1>2, <2>1 DEF Resolve, At, Throw, Report, Forget, Sends,
       call, link, report, TypeOK, HeardInv, PlaceInv, Reaching, Opening, Needed, Login
<1>3. CASE Socket(t)
  <2>1. Local(t)' = Local(t) /\ Kept(t)' = Kept(t)
    BY <1>3, Unmoved DEF Socket, objects
  <2> QED BY <1>3, <2>1 DEF Socket, At, Throw, Report, Forget, Sends,
       call, link, report, TypeOK, HeardInv, PlaceInv, Reaching, Opening, Needed, Login
<1>4. CASE ConnectSocket(t)
  <2>1. /\ Kept(t)' = Kept(t)
        /\ \/ pc'[t] = "socket" /\ Local(t)' = Local(t)
           \/ pc'[t] = "nodelay" /\ Local(t)'.context = Local(t).context /\ Local(t)'.ssl = Local(t).ssl
    BY SMTT(30), <1>4 DEF ConnectSocket, At, TypeOK, Local, Kept, Places, Connections
  <2> QED BY <1>4, <2>1 DEF ConnectSocket, At, Throw, Report, Forget, Sends,
       call, link, report, TypeOK, HeardInv, PlaceInv, Reaching, Opening, Needed, Login
<1>5. CASE NoDelay(t)
  <2>1. Local(t)' = Local(t) /\ Kept(t)' = Kept(t)
    BY <1>5, Unmoved DEF NoDelay, objects
  <2> QED BY SMTT(30), <1>5, <2>1 DEF NoDelay, At, Throw, Report, Forget, Sends,
       call, link, report, TypeOK, HeardInv, PlaceInv, Reaching, Opening, Needed, Login
<1>6. CASE NewContext(t)
  <2>1. ASSUME NEW made \in BOOLEAN, conn' = [conn EXCEPT ![t]["local"].context = made]
        PROVE  Kept(t)' = Kept(t) /\ Local(t)'.ssl = Local(t).ssl
    BY <2>1 DEF TypeOK, Local, Kept, Places, Connections
  <2>2. Kept(t)' = Kept(t) /\ Local(t)'.ssl = Local(t).ssl
    BY <1>6, <2>1 DEF NewContext
  <2> QED BY SMTT(30), <1>6, <2>2 DEF NewContext, At, Throw, Report, Forget, Sends,
       call, link, report, TypeOK, HeardInv, PlaceInv, Reaching, Opening, Needed, Login
<1>7. CASE NewSsl(t)
  <2>1. /\ Kept(t)' = Kept(t)
        /\ Local(t)'.fd = Local(t).fd \/ Local(t)' = Local(t)
    BY <1>7 DEF NewSsl, TypeOK, Local, Kept, Places, Connections
  <2> QED BY SMTT(30), <1>7, <2>1 DEF NewSsl, At, Throw, Report, Forget, Sends,
       call, link, report, TypeOK, HeardInv, PlaceInv, Reaching, Opening, Needed, Login
<1>8. CASE Handshake(t)
  <2>1. Local(t)' = Local(t) /\ Kept(t)' = Kept(t)
    BY <1>8, Unmoved DEF Handshake, objects
  <2> QED BY SMTT(30), <1>8, <2>1 DEF Handshake, At, Throw, Report, Forget, Sends,
       call, link, report, TypeOK, HeardInv, PlaceInv, Reaching, Opening, Needed, Login
<1>9. CASE SendUpgrade(t)
  <2>1. Local(t)' = Local(t) /\ Kept(t)' = Kept(t)
    BY <1>9, Unmoved DEF SendUpgrade, objects
  <2> QED BY SMTT(30), <1>9, <2>1 DEF SendUpgrade, At, Throw, Report, Forget, Sends,
       call, link, report, TypeOK, HeardInv, PlaceInv, Reaching, Opening, Needed, Login
<1>10. CASE ReadHeader(t)
  <2>1. Local(t)' = Local(t) /\ Kept(t)' = Kept(t)
    BY <1>10, Unmoved DEF ReadHeader, objects
  <2>2. /\ pc[t] = "header" /\ pc'[t] \in {"header", "ask", "unwind"} /\ raw'[t] = raw[t]
        /\ heard'[t] = heard[t] /\ purpose'[t] = purpose[t] /\ session'[t] = session[t]
    BY <1>10 DEF ReadHeader, At, Throw, TypeOK
  <2>3. heard[t] = 0
    BY <2>2 DEF HeardInv, Opening
  <2> QED BY <2>1, <2>2, <2>3 DEF PlaceInv, Reaching, Opening, Login
<1>11. CASE HeaderCutOff(t)
  <2>1. Local(t)' = Local(t) /\ Kept(t)' = Kept(t)
    BY <1>11, Unmoved DEF HeaderCutOff, objects
  <2> QED BY <1>11, <2>1 DEF HeaderCutOff, At, Throw, Report, Forget, Sends,
       call, link, report, TypeOK, HeardInv, PlaceInv, Reaching, Opening, Needed, Login
<1>12. CASE Ask(t)
  <2>1. Local(t)' = Local(t) /\ Kept(t)' = Kept(t)
    BY <1>12, Unmoved DEF Ask, objects
  <2> QED BY SMTT(30), <1>12, <2>1 DEF Ask, At, Throw, Report, Forget, Sends,
       call, link, report, TypeOK, HeardInv, PlaceInv, Reaching, Opening, Needed, Login
<1>13. CASE Answer(t)
  <2>1. Local(t)' = Local(t) /\ Kept(t)' = Kept(t)
    BY <1>13, Unmoved DEF Answer, objects
  <2>2. /\ pc[t] = "answer" /\ pc'[t] \in {After(t, heard[t] + 1), "unwind"} /\ raw'[t] = raw[t]
        /\ heard'[t] = heard[t] + 1 /\ purpose'[t] = purpose[t] /\ session'[t] = session[t]
    BY <1>13 DEF Answer, At, Throw, TypeOK
  <2>3. /\ heard[t] + 1 \in 1 .. 4 /\ heard[t] \in Nat /\ purpose[t] \in {"session", "command"}
        /\ heard[t] + 1 = 1 => After(t, heard[t] + 1) = "encrypt"
        /\ heard[t] + 1 = 2 => After(t, heard[t] + 1) \in {"return", "sql"}
        /\ heard[t] + 1 > 2 => After(t, heard[t] + 1) \in {"ask", "result"}
    <3>1. heard[t] \in 0 .. 4 /\ purpose[t] \in {"session", "command"}
      BY DEF TypeOK
    <3> QED BY <2>2, <3>1, AfterAnswer
  <2> QED BY <2>1, <2>2, <2>3 DEF PlaceInv, Reaching, Opening, Login
<1>14. CASE NoAnswer(t)
  <2>1. Local(t)' = (IF "local" \in {Current(t)} THEN Closed ELSE Local(t))
        /\ Kept(t)' = (IF "kept" \in {Current(t)} THEN Closed ELSE Kept(t))
    BY <1>14, ClosingPlaces, CurrentPlace DEF NoAnswer, Places
  <2> QED BY <1>14, <2>1 DEF NoAnswer, At, Throw, Report, Forget, call, objects, link, report,
       TypeOK, HeardInv, PlaceInv, Reaching, Opening, Needed, Login
<1>15. CASE Encrypt(t)
  <2>1. Local(t)' = Local(t) /\ Kept(t)' = Kept(t)
    BY <1>15, Unmoved DEF Encrypt, objects
  <2>2. /\ pc[t] = "encrypt" /\ pc'[t] \in {"unwind", "ask"} /\ raw'[t] = raw[t]
        /\ heard'[t] = heard[t] /\ purpose'[t] = purpose[t] /\ session'[t] = session[t]
    BY <1>15 DEF Encrypt, At, Throw, TypeOK
  <2> QED BY <2>1, <2>2 DEF HeardInv, PlaceInv, Reaching, Opening, Login
<1>16. CASE Move(t)
  BY <1>16 DEF Move, At, Throw, Report, Forget, Sends,
       call, objects, link, report, TypeOK, Places, Connections, HeardInv, PlaceInv, Local, Kept, Reaching, Opening, Needed, Login
<1>17. CASE DropMoved(t)
  <2>1. Local(t)' = (IF "local" \in {"local"} THEN Closed ELSE Local(t))
        /\ Kept(t)' = (IF "kept" \in {"local"} THEN Closed ELSE Kept(t))
    BY <1>17, ClosingPlaces DEF DropMoved, Places
  <2> QED BY <1>17, <2>1 DEF DropMoved, At, Throw, Report, Forget, call, objects, link, report,
       TypeOK, HeardInv, PlaceInv, Reaching, Opening, Needed, Login
<1>18. CASE LookAtSql(t)
  <2>1. Local(t)' = Local(t) /\ Kept(t)' = Kept(t)
    BY <1>18, Unmoved DEF LookAtSql, objects
  <2> QED BY SMTT(30), <1>18, <2>1 DEF LookAtSql, At, Throw, Report, Forget, Sends,
       call, link, report, TypeOK, HeardInv, PlaceInv, Reaching, Opening, Needed, Login
<1>19. CASE Established(t)
  <2>1. Local(t)' = Local(t) /\ Kept(t)' = Kept(t)
    BY <1>19, Unmoved DEF Established, objects
  <2> QED BY <1>19, <2>1 DEF Established, At, Throw, Report, Forget, Sends,
       call, link, report, TypeOK, HeardInv, PlaceInv, Reaching, Opening, Needed, Login
<1>20. CASE CommandDone(t)
  <2>1. Local(t)' = (IF "local" \in {"local"} THEN Closed ELSE Local(t))
        /\ Kept(t)' = (IF "kept" \in {"local"} THEN Closed ELSE Kept(t))
    BY <1>20, ClosingPlaces DEF CommandDone, Places
  <2> QED BY <1>20, <2>1 DEF CommandDone, At, Throw, Report, Forget, call, objects, link, report,
       TypeOK, HeardInv, PlaceInv, Reaching, Opening, Needed, Login
<1>21. CASE Unwind(t)
  <2>1. Local(t)' = Closed /\ Kept(t)' = Closed
    BY <1>21, ClosingPlaces DEF Unwind, Places
  <2>2. /\ pc[t] = "unwind" /\ pc'[t] = "idle" /\ raw'[t] = raw[t]
        /\ purpose'[t] = purpose[t] /\ session'[t] = session[t]
    BY <1>21 DEF Unwind, At, TypeOK
  <2> QED BY <2>1, <2>2 DEF PlaceInv, Reaching, Opening
<1>22. CASE DropImpl(t)
  <2>1. Local(t)' = (IF "local" \in {"kept"} THEN Closed ELSE Local(t))
        /\ Kept(t)' = (IF "kept" \in {"kept"} THEN Closed ELSE Kept(t))
    BY <1>22, ClosingPlaces DEF DropImpl, Places
  <2> QED BY <1>22, <2>1 DEF DropImpl, At, Throw, Report, Forget, call, objects, link, report,
       TypeOK, HeardInv, PlaceInv, Reaching, Opening, Needed, Login
<1>23. CASE UseSession(t)
  <2>1. \/ UNCHANGED objects
        \/ /\ Local(t)' = (IF "local" \in {"kept"} THEN Closed ELSE Local(t))
           /\ Kept(t)' = (IF "kept" \in {"kept"} THEN Closed ELSE Kept(t))
    BY <1>23, ClosingPlaces DEF UseSession, Places
  <2>2. UNCHANGED objects => Local(t)' = Local(t) /\ Kept(t)' = Kept(t)
    BY DEF objects, Local, Kept
  <2> QED BY <1>23, <2>1, <2>2 DEF UseSession, At, Throw, Report, Forget, call, link, report,
       TypeOK, HeardInv, PlaceInv, Reaching, Opening, Needed, Login
<1>24. CASE CloseSession(t)
  <2>1. Local(t)' = (IF "local" \in {"kept"} THEN Closed ELSE Local(t))
        /\ Kept(t)' = (IF "kept" \in {"kept"} THEN Closed ELSE Kept(t))
    BY <1>24, ClosingPlaces DEF CloseSession, Places
  <2> QED BY <1>24, <2>1 DEF CloseSession, At, Throw, Report, Forget, call, objects, link, report,
       TypeOK, HeardInv, PlaceInv, Reaching, Opening, Needed, Login
<1>25. CASE DestroySession(t)
  <2>1. \/ UNCHANGED objects
        \/ /\ Local(t)' = (IF "local" \in {"kept"} THEN Closed ELSE Local(t))
           /\ Kept(t)' = (IF "kept" \in {"kept"} THEN Closed ELSE Kept(t))
    BY <1>25, ClosingPlaces DEF DestroySession, Places
  <2>2. UNCHANGED objects => Local(t)' = Local(t) /\ Kept(t)' = Kept(t)
    BY DEF objects, Local, Kept
  <2> QED BY <1>25, <2>1, <2>2 DEF DestroySession, At, Throw, Report, Forget, call, link, report,
       TypeOK, HeardInv, PlaceInv, Reaching, Opening, Needed, Login
<1>26. CASE PeerSends(t)
  <2>1. Local(t)' = Local(t) /\ Kept(t)' = Kept(t)
    BY <1>26, Unmoved DEF PeerSends, objects
  <2> QED BY <1>26, <2>1 DEF PeerSends, At, Throw, Report, Forget, Sends,
       call, link, report, TypeOK, HeardInv, PlaceInv, Reaching, Opening, Needed, Login
<1>27. CASE PeerLeaves(t)
  <2>1. Local(t)' = Local(t) /\ Kept(t)' = Kept(t)
    BY <1>27, Unmoved DEF PeerLeaves, objects
  <2> QED BY <1>27, <2>1 DEF PeerLeaves, At, Throw, Report, Forget, Sends,
       call, link, report, TypeOK, HeardInv, PlaceInv, Reaching, Opening, Needed, Login
<1> QED BY <1>1, <1>2, <1>3, <1>4, <1>5, <1>6, <1>7, <1>8, <1>9, <1>10, <1>11, <1>12,
          <1>13, <1>14, <1>15, <1>16, <1>17, <1>18, <1>19, <1>20, <1>21, <1>22, <1>23,
          <1>24, <1>25, <1>26, <1>27
       DEF Moves, Begin, Step

LEMMA SlotStep ==
    ASSUME TypeOK, NEW t \in Threads, SlotInv(t), HeardInv(t), PlaceInv(t), Moves(t)
    PROVE  SlotInv(t)'
<1>1. ASSUME NEW use \in {"session", "command"}, Connect(t, use) PROVE SlotInv(t)'
  BY <1>1 DEF Connect, At, Throw, Report, Forget, Sends, Closing,
       call, objects, link, report, TypeOK, SlotInv, HeardInv, PlaceInv, Errors
<1>2. CASE Resolve(t)
  BY <1>2 DEF Resolve, At, Throw, Report, Forget, Sends, Closing,
       call, objects, link, report, TypeOK, SlotInv, HeardInv, PlaceInv, Errors
<1>3. CASE Socket(t)
  BY <1>3 DEF Socket, At, Throw, Report, Forget, Sends, Closing,
       call, objects, link, report, TypeOK, SlotInv, HeardInv, PlaceInv, Errors
<1>4. CASE ConnectSocket(t)
  BY <1>4 DEF ConnectSocket, At, Throw, Report, Forget, Sends, Closing,
       call, objects, link, report, TypeOK, SlotInv, HeardInv, PlaceInv, Errors
<1>5. CASE NoDelay(t)
  BY <1>5 DEF NoDelay, At, Throw, Report, Forget, Sends, Closing,
       call, objects, link, report, TypeOK, SlotInv, HeardInv, PlaceInv, Errors
<1>6. CASE NewContext(t)
  BY <1>6 DEF NewContext, At, Throw, Report, Forget, Sends, Closing,
       call, objects, link, report, TypeOK, SlotInv, HeardInv, PlaceInv, Errors
<1>7. CASE NewSsl(t)
  BY <1>7 DEF NewSsl, At, Throw, Report, Forget, Sends, Closing,
       call, objects, link, report, TypeOK, SlotInv, HeardInv, PlaceInv, Errors
<1>8. CASE Handshake(t)
  BY <1>8 DEF Handshake, At, Throw, Report, Forget, Sends, Closing,
       call, objects, link, report, TypeOK, SlotInv, HeardInv, PlaceInv, Errors
<1>9. CASE SendUpgrade(t)
  BY <1>9 DEF SendUpgrade, At, Throw, Report, Forget, Sends, Closing,
       call, objects, link, report, TypeOK, SlotInv, HeardInv, PlaceInv, Errors
<1>10. CASE ReadHeader(t)
  BY <1>10 DEF ReadHeader, At, Throw, Report, Forget, Sends, Closing,
       call, objects, link, report, TypeOK, SlotInv, HeardInv, PlaceInv, Errors
<1>11. CASE HeaderCutOff(t)
  BY <1>11 DEF HeaderCutOff, At, Throw, Report, Forget, Sends, Closing,
       call, objects, link, report, TypeOK, SlotInv, HeardInv, PlaceInv, Errors
<1>12. CASE Ask(t)
  BY <1>12 DEF Ask, At, Throw, Report, Forget, Sends, Closing,
       call, objects, link, report, TypeOK, SlotInv, HeardInv, PlaceInv, Errors
<1>13. CASE Answer(t)
  BY <1>13 DEF Answer, At, Throw, Report, Forget, Sends, Closing,
       call, objects, link, report, TypeOK, SlotInv, HeardInv, PlaceInv, Errors, After
<1>14. CASE NoAnswer(t)
  BY <1>14 DEF NoAnswer, At, Throw, Report, Forget, Sends, Closing,
       call, objects, link, report, TypeOK, SlotInv, HeardInv, PlaceInv, Errors
<1>15. CASE Encrypt(t)
  BY <1>15 DEF Encrypt, At, Throw, Report, Forget, Sends, Closing,
       call, objects, link, report, TypeOK, SlotInv, HeardInv, PlaceInv, Errors
<1>16. CASE Move(t)
  BY <1>16 DEF Move, At, Throw, Report, Forget, Sends, Closing,
       call, objects, link, report, TypeOK, SlotInv, HeardInv, PlaceInv, Errors
<1>17. CASE DropMoved(t)
  BY <1>17 DEF DropMoved, At, Throw, Report, Forget, Sends, Closing,
       call, objects, link, report, TypeOK, SlotInv, HeardInv, PlaceInv, Errors
<1>18. CASE LookAtSql(t)
  BY <1>18 DEF LookAtSql, At, Throw, Report, Forget, Sends, Closing,
       call, objects, link, report, TypeOK, SlotInv, HeardInv, PlaceInv, Errors
<1>19. CASE Established(t)
  BY <1>19 DEF Established, At, Throw, Report, Forget, Sends, Closing,
       call, objects, link, report, TypeOK, SlotInv, HeardInv, PlaceInv, Errors
<1>20. CASE CommandDone(t)
  BY <1>20 DEF CommandDone, At, Throw, Report, Forget, Sends, Closing,
       call, objects, link, report, TypeOK, SlotInv, HeardInv, PlaceInv, Errors
<1>21. CASE Unwind(t)
  BY <1>21 DEF Unwind, At, Throw, Report, Forget, Sends, Closing,
       call, objects, link, report, TypeOK, SlotInv, HeardInv, PlaceInv, Errors
<1>22. CASE DropImpl(t)
  BY <1>22 DEF DropImpl, At, Throw, Report, Forget, Sends, Closing,
       call, objects, link, report, TypeOK, SlotInv, HeardInv, PlaceInv, Errors
<1>23. CASE UseSession(t)
  BY <1>23 DEF UseSession, At, Throw, Report, Forget, Sends, Closing,
       call, objects, link, report, TypeOK, SlotInv, HeardInv, PlaceInv, Errors
<1>24. CASE CloseSession(t)
  BY <1>24 DEF CloseSession, At, Throw, Report, Forget, Sends, Closing,
       call, objects, link, report, TypeOK, SlotInv, HeardInv, PlaceInv, Errors
<1>25. CASE DestroySession(t)
  BY <1>25 DEF DestroySession, At, Throw, Report, Forget, Sends, Closing,
       call, objects, link, report, TypeOK, SlotInv, HeardInv, PlaceInv, Errors
<1>26. CASE PeerSends(t)
  BY <1>26 DEF PeerSends, At, Throw, Report, Forget, Sends, Closing,
       call, objects, link, report, TypeOK, SlotInv, HeardInv, PlaceInv, Errors
<1>27. CASE PeerLeaves(t)
  BY <1>27 DEF PeerLeaves, At, Throw, Report, Forget, Sends, Closing,
       call, objects, link, report, TypeOK, SlotInv, HeardInv, PlaceInv, Errors
<1> QED BY <1>1, <1>2, <1>3, <1>4, <1>5, <1>6, <1>7, <1>8, <1>9, <1>10, <1>11, <1>12,
          <1>13, <1>14, <1>15, <1>16, <1>17, <1>18, <1>19, <1>20, <1>21, <1>22, <1>23,
          <1>24, <1>25, <1>26, <1>27
       DEF Moves, Begin, Step

LEMMA KeyStep ==
    ASSUME TypeOK, NEW t \in Threads, KeyInv(t), HeardInv(t), PlaceInv(t), Moves(t)
    PROVE  KeyInv(t)'
<1>1. ASSUME NEW use \in {"session", "command"}, Connect(t, use) PROVE KeyInv(t)'
  BY <1>1 DEF Connect, At, Throw, Report, Forget, Sends, Closing,
       call, objects, link, report, TypeOK, KeyInv, HeardInv, PlaceInv, Reaching, Opening, Login
<1>2. CASE Resolve(t)
  BY <1>2 DEF Resolve, At, Throw, Report, Forget, Sends, Closing,
       call, objects, link, report, TypeOK, KeyInv, HeardInv, PlaceInv, Reaching, Opening, Login
<1>3. CASE Socket(t)
  BY <1>3 DEF Socket, At, Throw, Report, Forget, Sends, Closing,
       call, objects, link, report, TypeOK, KeyInv, HeardInv, PlaceInv, Reaching, Opening, Login
<1>4. CASE ConnectSocket(t)
  BY <1>4 DEF ConnectSocket, At, Throw, Report, Forget, Sends, Closing,
       call, objects, link, report, TypeOK, KeyInv, HeardInv, PlaceInv, Reaching, Opening, Login
<1>5. CASE NoDelay(t)
  BY <1>5 DEF NoDelay, At, Throw, Report, Forget, Sends, Closing,
       call, objects, link, report, TypeOK, KeyInv, HeardInv, PlaceInv, Reaching, Opening, Login
<1>6. CASE NewContext(t)
  BY <1>6 DEF NewContext, At, Throw, Report, Forget, Sends, Closing,
       call, objects, link, report, TypeOK, KeyInv, HeardInv, PlaceInv, Reaching, Opening, Login
<1>7. CASE NewSsl(t)
  BY <1>7 DEF NewSsl, At, Throw, Report, Forget, Sends, Closing,
       call, objects, link, report, TypeOK, KeyInv, HeardInv, PlaceInv, Reaching, Opening, Login
<1>8. CASE Handshake(t)
  BY <1>8 DEF Handshake, At, Throw, Report, Forget, Sends, Closing,
       call, objects, link, report, TypeOK, KeyInv, HeardInv, PlaceInv, Reaching, Opening, Login
<1>9. CASE SendUpgrade(t)
  BY <1>9 DEF SendUpgrade, At, Throw, Report, Forget, Sends, Closing,
       call, objects, link, report, TypeOK, KeyInv, HeardInv, PlaceInv, Reaching, Opening, Login
<1>10. CASE ReadHeader(t)
  BY <1>10 DEF ReadHeader, At, Throw, Report, Forget, Sends, Closing,
       call, objects, link, report, TypeOK, KeyInv, HeardInv, PlaceInv, Reaching, Opening, Login
<1>11. CASE HeaderCutOff(t)
  BY <1>11 DEF HeaderCutOff, At, Throw, Report, Forget, Sends, Closing,
       call, objects, link, report, TypeOK, KeyInv, HeardInv, PlaceInv, Reaching, Opening, Login
<1>12. CASE Ask(t)
  BY <1>12 DEF Ask, At, Throw, Report, Forget, Sends, Closing,
       call, objects, link, report, TypeOK, KeyInv, HeardInv, PlaceInv, Reaching, Opening, Login
<1>13. CASE Answer(t)
  <2>1. pc[t] = "answer" => After(t, heard[t] + 1) \in {"encrypt", "return", "sql", "ask", "result"}
                           /\ (heard[t] = 0 <=> After(t, heard[t] + 1) = "encrypt")
                           /\ heard[t] + 1 \in 1 .. 4
    <3> SUFFICES ASSUME pc[t] = "answer"
                 PROVE  /\ After(t, heard[t] + 1) \in {"encrypt", "return", "sql", "ask", "result"}
                        /\ (heard[t] = 0 <=> After(t, heard[t] + 1) = "encrypt")
                        /\ heard[t] + 1 \in 1 .. 4
      OBVIOUS
    <3>1. heard[t] \in 0 .. 4
      BY DEF TypeOK
    <3> QED BY <3>1, AfterAnswer
  <2> QED BY <1>13, <2>1 DEF Answer, At, Throw, Report, Forget, Sends, Closing,
       call, objects, link, report, TypeOK, KeyInv, HeardInv, PlaceInv, Reaching, Opening, Login
<1>14. CASE NoAnswer(t)
  BY <1>14 DEF NoAnswer, At, Throw, Report, Forget, Sends, Closing,
       call, objects, link, report, TypeOK, KeyInv, HeardInv, PlaceInv, Reaching, Opening, Login
<1>15. CASE Encrypt(t)
  BY <1>15 DEF Encrypt, At, Throw, Report, Forget, Sends, Closing,
       call, objects, link, report, TypeOK, KeyInv, HeardInv, PlaceInv, Reaching, Opening, Login
<1>16. CASE Move(t)
  BY <1>16 DEF Move, At, Throw, Report, Forget, Sends, Closing,
       call, objects, link, report, TypeOK, KeyInv, HeardInv, PlaceInv, Reaching, Opening, Login
<1>17. CASE DropMoved(t)
  BY <1>17 DEF DropMoved, At, Throw, Report, Forget, Sends, Closing,
       call, objects, link, report, TypeOK, KeyInv, HeardInv, PlaceInv, Reaching, Opening, Login
<1>18. CASE LookAtSql(t)
  BY <1>18 DEF LookAtSql, At, Throw, Report, Forget, Sends, Closing,
       call, objects, link, report, TypeOK, KeyInv, HeardInv, PlaceInv, Reaching, Opening, Login
<1>19. CASE Established(t)
  BY <1>19 DEF Established, At, Throw, Report, Forget, Sends, Closing,
       call, objects, link, report, TypeOK, KeyInv, HeardInv, PlaceInv, Reaching, Opening, Login
<1>20. CASE CommandDone(t)
  BY <1>20 DEF CommandDone, At, Throw, Report, Forget, Sends, Closing,
       call, objects, link, report, TypeOK, KeyInv, HeardInv, PlaceInv, Reaching, Opening, Login
<1>21. CASE Unwind(t)
  BY <1>21 DEF Unwind, At, Throw, Report, Forget, Sends, Closing,
       call, objects, link, report, TypeOK, KeyInv, HeardInv, PlaceInv, Reaching, Opening, Login
<1>22. CASE DropImpl(t)
  BY <1>22 DEF DropImpl, At, Throw, Report, Forget, Sends, Closing,
       call, objects, link, report, TypeOK, KeyInv, HeardInv, PlaceInv, Reaching, Opening, Login
<1>23. CASE UseSession(t)
  BY <1>23 DEF UseSession, At, Throw, Report, Forget, Sends, Closing,
       call, objects, link, report, TypeOK, KeyInv, HeardInv, PlaceInv, Reaching, Opening, Login
<1>24. CASE CloseSession(t)
  BY <1>24 DEF CloseSession, At, Throw, Report, Forget, Sends, Closing,
       call, objects, link, report, TypeOK, KeyInv, HeardInv, PlaceInv, Reaching, Opening, Login
<1>25. CASE DestroySession(t)
  BY <1>25 DEF DestroySession, At, Throw, Report, Forget, Sends, Closing,
       call, objects, link, report, TypeOK, KeyInv, HeardInv, PlaceInv, Reaching, Opening, Login
<1>26. CASE PeerSends(t)
  BY <1>26 DEF PeerSends, At, Throw, Report, Forget, Sends, Closing,
       call, objects, link, report, TypeOK, KeyInv, HeardInv, PlaceInv, Reaching, Opening, Login
<1>27. CASE PeerLeaves(t)
  BY <1>27 DEF PeerLeaves, At, Throw, Report, Forget, Sends, Closing,
       call, objects, link, report, TypeOK, KeyInv, HeardInv, PlaceInv, Reaching, Opening, Login
<1> QED BY <1>1, <1>2, <1>3, <1>4, <1>5, <1>6, <1>7, <1>8, <1>9, <1>10, <1>11, <1>12,
          <1>13, <1>14, <1>15, <1>16, <1>17, <1>18, <1>19, <1>20, <1>21, <1>22, <1>23,
          <1>24, <1>25, <1>26, <1>27
       DEF Moves, Begin, Step

-----------------------------------------------------------------------------
(* What the threads hold.                                                  *)

LEMMA LessThanIsWellFounded == IsWellFoundedOn({ss \in Nat \X Nat : ss[1] < ss[2]}, Nat)
BY NatLessThanWellFounded, Zenon DEF OpToRel

LEMMA Least ==
    ASSUME NEW T \in SUBSET Nat, T # {}
    PROVE  \E x \in T : \A y \in T : x <= y
<1> DEFINE R == {ss \in Nat \X Nat : ss[1] < ss[2]}
<1>1. IsWellFoundedOn(R, Nat)
  BY LessThanIsWellFounded
<1>2. \A y \in Nat, x \in Nat : <<y, x>> \in R <=> y < x
  OBVIOUS
<1> HIDE DEF R
<1>3. PICK x \in T : \A y \in T : ~(<<y, x>> \in R)
  BY <1>1, WFMin
<1>4. \A y \in T : ~(y < x) /\ y \in Nat /\ x \in Nat
  BY <1>2, <1>3
<1> QED BY <1>4

\* The kernel gives out a descriptor that nobody has.
LEMMA LowestIsFree ==
    ASSUME Free # {}
    PROVE  Lowest \in Fds /\ holder[Lowest] = None
<1>1. Free \in SUBSET Nat
  BY SessionConnectAssumption DEF Free
<1>2. \E f \in Free : \A g \in Free : f <= g
  BY <1>1, Least
<1>3. Lowest \in Free
  BY <1>2 DEF Lowest
<1> QED BY <1>3 DEF Free

LEMMA CountPlaces ==
    ASSUME NEW S \in SUBSET Places, ~("local" \in S /\ "kept" \in S)
    PROVE  Cardinality(S) = IF S = {} THEN 0 ELSE 1
<1>1. S = {} \/ S = {"local"} \/ S = {"kept"}
  BY DEF Places
<1> QED BY <1>1, FS_EmptySet, FS_Singleton

LEMMA ThreadsAreNotNone == \A t \in Threads : t # None
BY SessionConnectAssumption

LEMMA FdsAreNotNone == \A f \in Fds : f # None
BY SessionConnectAssumption DEF None

LEMMA HeldUnmoved ==
    ASSUME UNCHANGED <<objects, raw>>, NEW u \in Threads, HeldInv(u)
    PROVE  HeldInv(u)'
BY DEF objects, HeldInv, Local, Kept

\* Whoever else moves: what a thread holds stays if no descriptor of its own changes hands.
LEMMA HeldByOther ==
    ASSUME NEW u \in Threads, Same(u), HeldInv(u), \A f \in Fds : holder'[f] = u <=> holder[f] = u
    PROVE  HeldInv(u)'
BY DEF Same, HeldInv, Local, Kept

\* Closing gives back what the closed objects hold, and nothing else.
LEMMA ClosingHeld ==
    ASSUME TypeOK, NEW t \in Threads, NEW places \in SUBSET Places, Closing(t, places),
           HeldInv(t), PlaceInv(t), raw' = raw
    PROVE  /\ HeldInv(t)'
           /\ \A u \in Threads \ {t}, f \in Fds : holder'[f] = u <=> holder[f] = u
<1> DEFINE L == Local(t)
           K == Kept(t)
           cs == {p \in places : conn[t][p].context}
           ss == {p \in places : conn[t][p].ssl}
<1>1. L \in Connections /\ K \in Connections /\ (L = Closed \/ K = Closed)
  BY PlacesOf DEF PlaceInv
<1>2. /\ Local(t)' = IF "local" \in places THEN Closed ELSE L
      /\ Kept(t)' = IF "kept" \in places THEN Closed ELSE K
  BY ClosingPlaces
<1>3. \A f \in Fds : holder'[f] = IF \E p \in places : conn[t][p].fd = f THEN None ELSE holder[f]
  BY DEF Closing
<1>4. \A f \in Fds : (\E p \in places : conn[t][p].fd = f)
         <=> ("local" \in places /\ L.fd = f) \/ ("kept" \in places /\ K.fd = f)
  BY DEF Places, Local, Kept
<1>5. \A f \in Fds : holder[f] = t <=> f \in {raw[t], L.fd, K.fd}
  BY DEF HeldInv
<1>6. raw[t] # None => L = Closed /\ K = Closed
  BY DEF PlaceInv, Reaching
<1>7. Closed.fd = None /\ ~Closed.context /\ ~Closed.ssl
  BY ClosedIs
<1>8. raw'[t] = raw[t]
  OBVIOUS
<1>9. ASSUME NEW f \in Fds
      PROVE  holder'[f] = t <=> f \in {raw'[t], Local(t)'.fd, Kept(t)'.fd}
  <2> HIDE DEF L, K
  <2> QED BY <1>1, <1>2, <1>3, <1>4, <1>5, <1>6, <1>7, <1>8, ThreadsAreNotNone, FdsAreNotNone
<1>10. ASSUME NEW u \in Threads \ {t}, NEW f \in Fds
       PROVE  holder'[f] = u <=> holder[f] = u
  <2> HIDE DEF L, K
  <2> QED BY <1>3, <1>4, <1>5, ThreadsAreNotNone
<1>11. /\ cs \in SUBSET Places /\ ("local" \in cs <=> "local" \in places /\ L.context)
       /\ ("kept" \in cs <=> "kept" \in places /\ K.context) /\ (cs # {} <=> "local" \in cs \/ "kept" \in cs)
  BY DEF Places, Local, Kept
<1>12. /\ ss \in SUBSET Places /\ ("local" \in ss <=> "local" \in places /\ L.ssl)
       /\ ("kept" \in ss <=> "kept" \in places /\ K.ssl) /\ (ss # {} <=> "local" \in ss \/ "kept" \in ss)
  BY DEF Places, Local, Kept
<1>13. /\ contexts'[t] = contexts[t] - Cardinality(cs) /\ ssls'[t] = ssls[t] - Cardinality(ss)
  BY DEF Closing, TypeOK
<1>14. /\ contexts[t] = IF L.context \/ K.context THEN 1 ELSE 0
       /\ ssls[t] = IF L.ssl \/ K.ssl THEN 1 ELSE 0
  BY DEF HeldInv
<1> HIDE DEF L, K, cs, ss
<1>15. /\ Cardinality(cs) = IF cs = {} THEN 0 ELSE 1
       /\ Cardinality(ss) = IF ss = {} THEN 0 ELSE 1
  BY <1>1, <1>7, <1>11, <1>12, CountPlaces
<1>16. contexts'[t] = IF Local(t)'.context \/ Kept(t)'.context THEN 1 ELSE 0
  <2>1. cs = {} \/ cs # {}
    OBVIOUS
  <2> QED BY <1>1, <1>2, <1>7, <1>11, <1>13, <1>14, <1>15, <2>1
<1>17. ssls'[t] = IF Local(t)'.ssl \/ Kept(t)'.ssl THEN 1 ELSE 0
  BY <1>1, <1>2, <1>7, <1>12, <1>13, <1>14, <1>15
<1>18. HeldInv(t)'
  BY <1>9, <1>16, <1>17 DEF HeldInv
<1> QED BY <1>10, <1>18

\* What a step can do to the objects and to the process's resources.
Plain(t) == UNCHANGED <<objects, raw>>
Closes(t) == raw' = raw /\ \E places \in SUBSET Places : Closing(t, places)

LEMMA Effects ==
    ASSUME NEW t \in Threads, Moves(t)
    PROVE  \/ Plain(t) \/ Closes(t)
           \/ Socket(t) \/ ConnectSocket(t) \/ NewContext(t) \/ NewSsl(t) \/ Move(t)
<1> USE DEF Plain, Closes
<1>1. ASSUME NEW use \in {"session", "command"}, Connect(t, use) PROVE Plain(t)
  BY <1>1 DEF Connect
<1>2. CASE Resolve(t) \/ NoDelay(t) \/ Handshake(t) \/ SendUpgrade(t) \/ ReadHeader(t) \/ HeaderCutOff(t)
  BY <1>2 DEF Resolve, NoDelay, Handshake, SendUpgrade, ReadHeader, HeaderCutOff
<1>3. CASE Ask(t) \/ Answer(t) \/ Encrypt(t) \/ LookAtSql(t) \/ Established(t) \/ PeerSends(t) \/ PeerLeaves(t)
  BY <1>3 DEF Ask, Answer, Encrypt, LookAtSql, Established, PeerSends, PeerLeaves, call
<1>4. CASE NoAnswer(t)
  BY <1>4, CurrentPlace DEF NoAnswer
<1>5. CASE DropMoved(t) \/ CommandDone(t) \/ Unwind(t) \/ DropImpl(t)
  <2>1. {"local"} \in SUBSET Places /\ {"kept"} \in SUBSET Places /\ Places \in SUBSET Places
    BY DEF Places
  <2> QED BY <1>5, <2>1 DEF DropMoved, CommandDone, Unwind, DropImpl
<1>6. CASE UseSession(t) \/ CloseSession(t) \/ DestroySession(t)
  <2>1. {"kept"} \in SUBSET Places
    BY DEF Places
  <2> QED BY <1>6, <2>1 DEF UseSession, CloseSession, DestroySession, call
<1> QED BY <1>1, <1>2, <1>3, <1>4, <1>5, <1>6 DEF Moves, Begin, Step

LEMMA HeldStep ==
    ASSUME TypeOK, NEW t \in Threads, Moves(t), PlaceInv(t), \A u \in Threads : HeldInv(u)
    PROVE  \A u \in Threads : HeldInv(u)'
<1>1. SUFFICES /\ HeldInv(t)'
               /\ \A u \in Threads \ {t}, f \in Fds : holder'[f] = u <=> holder[f] = u
  BY OthersKeep, HeldByOther
<1> DEFINE L == Local(t)
           K == Kept(t)
<1>2. L \in Connections /\ K \in Connections /\ (L = Closed \/ K = Closed)
  BY PlacesOf DEF PlaceInv
<1>3. /\ \A f \in Fds : holder[f] = t <=> f \in {raw[t], L.fd, K.fd}
      /\ contexts[t] = IF L.context \/ K.context THEN 1 ELSE 0
      /\ ssls[t] = IF L.ssl \/ K.ssl THEN 1 ELSE 0
  BY DEF HeldInv
<1>4. /\ holder \in [Fds -> Threads \cup {None}] /\ raw \in [Threads -> Fds \cup {None}]
      /\ contexts \in [Threads -> 0 .. 1] /\ ssls \in [Threads -> 0 .. 1]
      /\ conn \in [Threads -> [Places -> Connections]]
  BY DEF TypeOK
<1>5. Closed.fd = None /\ ~Closed.context /\ ~Closed.ssl
  BY ClosedIs
<1>6. CASE Plain(t)
  <2>1. holder' = holder
    BY <1>6 DEF Plain, objects
  <2> QED BY <1>6, <2>1, HeldUnmoved DEF Plain
<1>7. CASE Closes(t)
  BY <1>7, ClosingHeld DEF Closes
<1>8. CASE Socket(t)
  <2>1. L = Closed /\ K = Closed /\ raw[t] = None
    BY <1>8 DEF Socket, At, Throw, PlaceInv, Reaching
  <2>2. Local(t)' = L /\ Kept(t)' = K /\ contexts' = contexts /\ ssls' = ssls
    BY <1>8, Unmoved DEF Socket
  <2>3. CASE UNCHANGED <<raw, holder>>
    BY <1>3, <2>2, <2>3 DEF HeldInv
  <2>4. ASSUME Free # {}, raw' = [raw EXCEPT ![t] = Lowest], holder' = [holder EXCEPT ![Lowest] = t]
        PROVE  /\ HeldInv(t)'
               /\ \A u \in Threads \ {t}, f \in Fds : holder'[f] = u <=> holder[f] = u
    <3>1. Lowest \in Fds /\ holder[Lowest] = None
      BY <2>4, LowestIsFree
    <3> DEFINE new == Lowest
    <3>2. /\ new \in Fds /\ holder[new] = None /\ raw'[t] = new
          /\ \A f \in Fds : holder'[f] = IF f = new THEN t ELSE holder[f]
      BY <1>4, <2>4, <3>1
    <3> HIDE DEF new, L, K
    <3>3. \A f \in Fds : holder'[f] = t <=> f \in {raw'[t], Local(t)'.fd, Kept(t)'.fd}
      BY <1>3, <1>5, <2>1, <2>2, <3>2, FdsAreNotNone
    <3>4. \A u \in Threads \ {t}, f \in Fds : holder'[f] = u <=> holder[f] = u
      BY <3>2, ThreadsAreNotNone
    <3>5. HeldInv(t)'
      BY <1>3, <2>2, <3>3 DEF HeldInv
    <3> QED BY <3>4, <3>5
  <2> QED BY <1>8, <2>3, <2>4 DEF Socket
<1>9. CASE ConnectSocket(t)
  <2>1. L = Closed /\ K = Closed /\ contexts' = contexts /\ ssls' = ssls /\ raw'[t] = None
    BY <1>4, <1>9 DEF ConnectSocket, At, PlaceInv, Reaching
  <2>2. ASSUME conn' = [conn EXCEPT ![t]["local"].fd = raw[t]], UNCHANGED holder
        PROVE  /\ HeldInv(t)'
               /\ \A u \in Threads \ {t}, f \in Fds : holder'[f] = u <=> holder[f] = u
    <3>1. /\ Local(t)'.fd = raw[t] /\ Local(t)'.context = L.context /\ Local(t)'.ssl = L.ssl
          /\ Kept(t)' = K
      BY <1>4, <2>2 DEF Local, Kept, Places, Connections
    <3> HIDE DEF L, K
    <3> QED BY <1>3, <1>5, <2>1, <2>2, <3>1, FdsAreNotNone DEF HeldInv
  <2>3. ASSUME UNCHANGED conn, holder' = [holder EXCEPT ![raw[t]] = None]
        PROVE  /\ HeldInv(t)'
               /\ \A u \in Threads \ {t}, f \in Fds : holder'[f] = u <=> holder[f] = u
    <3>1. Local(t)' = L /\ Kept(t)' = K
      BY <2>3, Unmoved
    <3>2. \A f \in Fds : holder'[f] = IF f = raw[t] THEN None ELSE holder[f]
      BY <1>4, <2>3
    <3> HIDE DEF L, K
    <3>3. HeldInv(t)'
      BY <1>3, <1>5, <2>1, <3>1, <3>2, FdsAreNotNone, ThreadsAreNotNone DEF HeldInv
    <3>4. \A f \in Fds : f = raw[t] => holder[f] = t
      BY <1>3
    <3> QED BY <3>2, <3>3, <3>4, ThreadsAreNotNone
  <2> QED BY <1>9, <2>2, <2>3 DEF ConnectSocket
<1>10. CASE NewContext(t)
  <2>1. K = Closed /\ ~L.context /\ holder' = holder /\ raw' = raw /\ ssls' = ssls
    BY <1>10 DEF NewContext, At, Throw, PlaceInv, Opening
  <2>2. PICK made \in BOOLEAN : /\ conn' = [conn EXCEPT ![t]["local"].context = made]
                               /\ contexts' = [contexts EXCEPT ![t] = IF made THEN @ + 1 ELSE @]
    BY <1>10 DEF NewContext
  <2>3. /\ Local(t)'.fd = L.fd /\ Local(t)'.ssl = L.ssl /\ (Local(t)'.context <=> made)
        /\ Kept(t)' = K
    BY <1>4, <2>2 DEF Local, Kept, Places, Connections
  <2>4. contexts'[t] = IF made THEN contexts[t] + 1 ELSE contexts[t]
    BY <1>4, <2>2
  <2> HIDE DEF L, K
  <2>5. contexts'[t] = IF Local(t)'.context \/ Kept(t)'.context THEN 1 ELSE 0
    BY <1>3, <1>5, <2>1, <2>3, <2>4
  <2>6. HeldInv(t)'
    BY <1>3, <2>1, <2>3, <2>5 DEF HeldInv
  <2> QED BY <2>1, <2>6
<1>11. CASE NewSsl(t)
  <2>1. K = Closed /\ ~L.ssl /\ holder' = holder /\ raw' = raw /\ contexts' = contexts
    BY <1>11 DEF NewSsl, At, Throw, PlaceInv, Opening
  <2>2. CASE UNCHANGED <<conn, ssls>>
    <3>1. Local(t)' = L /\ Kept(t)' = K
      BY <2>2, Unmoved
    <3> QED BY <1>3, <2>1, <2>2, <3>1 DEF HeldInv
  <2>3. ASSUME conn' = [conn EXCEPT ![t]["local"].ssl = TRUE], ssls' = [ssls EXCEPT ![t] = @ + 1]
        PROVE  HeldInv(t)'
    <3>1. /\ Local(t)'.fd = L.fd /\ Local(t)'.context = L.context /\ Local(t)'.ssl
          /\ Kept(t)' = K /\ ssls'[t] = ssls[t] + 1
      BY <1>4, <2>3 DEF Local, Kept, Places, Connections
    <3> HIDE DEF L, K
    <3> QED BY <1>3, <1>5, <2>1, <3>1 DEF HeldInv
  <2> QED BY <1>11, <2>1, <2>2, <2>3 DEF NewSsl
<1>12. CASE Move(t)
  <2>1. K = Closed /\ holder' = holder /\ raw' = raw /\ contexts' = contexts /\ ssls' = ssls
    BY <1>12 DEF Move, At, PlaceInv
  <2>2. Local(t)' = Closed /\ Kept(t)' = L
    BY <1>4, <1>12 DEF Move, Local, Kept, Places
  <2> HIDE DEF L, K
  <2> QED BY <1>3, <1>5, <2>1, <2>2, FdsAreNotNone DEF HeldInv
<1> QED BY <1>6, <1>7, <1>8, <1>9, <1>10, <1>11, <1>12, Effects

-----------------------------------------------------------------------------
(* The unread stream.                                                      *)

Kinds == {"byte", "blank", "message"}

LEMMA MessagesFinite ==
    ASSUME NEW s \in Seq(Kinds)
    PROVE  /\ MessagesIn(s) = {i \in 1 .. Len(s) : s[i] = "message"}
           /\ IsFiniteSet(MessagesIn(s)) /\ Cardinality(MessagesIn(s)) \in Nat
<1>1. DOMAIN s = 1 .. Len(s) /\ Len(s) \in Nat
  BY LenProperties
<1>2. IsFiniteSet(1 .. Len(s))
  BY <1>1, FS_Interval
<1>3. MessagesIn(s) \subseteq 1 .. Len(s)
  BY <1>1 DEF MessagesIn
<1>4. IsFiniteSet(MessagesIn(s))
  BY <1>2, <1>3, FS_Subset
<1> QED BY <1>1, <1>4, FS_CardinalityType DEF MessagesIn

LEMMA NoMessages == Cardinality(MessagesIn(<<>>)) = 0
<1>1. MessagesIn(<<>>) = {}
  BY DEF MessagesIn
<1> QED BY <1>1, FS_EmptySet

LEMMA MessagesAppended ==
    ASSUME NEW s \in Seq(Kinds), NEW x \in Kinds
    PROVE  /\ x = "message" => Cardinality(MessagesIn(Append(s, x))) = Cardinality(MessagesIn(s)) + 1
           /\ x # "message" => /\ MessagesIn(Append(s, x)) = MessagesIn(s)
                               /\ Cardinality(MessagesIn(Append(s, x))) = Cardinality(MessagesIn(s))
<1>1. /\ Append(s, x) \in Seq(Kinds) /\ Len(Append(s, x)) = Len(s) + 1 /\ Len(s) \in Nat
      /\ \A i \in 1 .. Len(s) : Append(s, x)[i] = s[i]
      /\ Append(s, x)[Len(s) + 1] = x
  BY AppendProperties
<1>2. /\ MessagesIn(s) = {i \in 1 .. Len(s) : s[i] = "message"} /\ IsFiniteSet(MessagesIn(s))
      /\ MessagesIn(Append(s, x)) = {i \in 1 .. Len(s) + 1 : Append(s, x)[i] = "message"}
  BY <1>1, MessagesFinite
<1>3. CASE x = "message"
  <2>1. MessagesIn(Append(s, x)) = MessagesIn(s) \cup {Len(s) + 1} /\ Len(s) + 1 \notin MessagesIn(s)
    BY <1>1, <1>2, <1>3
  <2> QED BY <1>2, <1>3, <2>1, FS_AddElement
<1>4. CASE x # "message"
  <2>1. MessagesIn(Append(s, x)) = MessagesIn(s)
    BY <1>1, <1>2, <1>4
  <2> QED BY <1>4, <2>1
<1> QED BY <1>3, <1>4

LEMMA MessagesTaken ==
    ASSUME NEW s \in Seq(Kinds), s # <<>>
    PROVE  Cardinality(MessagesIn(Tail(s))) =
              IF s[1] = "message" THEN Cardinality(MessagesIn(s)) - 1 ELSE Cardinality(MessagesIn(s))
<1>1. /\ Tail(s) \in Seq(Kinds) /\ Len(s) \in Nat \ {0} /\ Len(Tail(s)) = Len(s) - 1
      /\ \A i \in 1 .. Len(Tail(s)) : Tail(s)[i] = s[i + 1]
  BY HeadTailProperties, EmptySeq, LenProperties
<1>2. /\ MessagesIn(s) = {i \in 1 .. Len(s) : s[i] = "message"} /\ IsFiniteSet(MessagesIn(s))
      /\ MessagesIn(Tail(s)) = {i \in 1 .. Len(s) - 1 : Tail(s)[i] = "message"}
      /\ IsFiniteSet(MessagesIn(Tail(s)))
  BY <1>1, MessagesFinite
<1> DEFINE A == MessagesIn(Tail(s))
           B == MessagesIn(s) \ {1}
           f == [i \in A |-> i + 1]
<1>3. f \in [A -> B]
  BY <1>1, <1>2
<1>4. \A a, b \in A : f[a] = f[b] => a = b
  BY <1>2
<1>5. ASSUME NEW b \in B PROVE \E a \in A : f[a] = b
  <2>1. b - 1 \in 1 .. Len(s) - 1 /\ Tail(s)[b - 1] = s[b] /\ (b - 1) + 1 = b
    BY <1>1, <1>2
  <2>2. b - 1 \in A
    BY <1>2, <2>1
  <2> QED BY <2>1, <2>2
<1>6. ExistsBijection(A, B)
  BY <1>3, <1>4, <1>5 DEF ExistsBijection, Bijection, Injection, Surjection, IsInjective
<1>7. Cardinality(B) = Cardinality(A)
  BY <1>2, <1>6, FS_Bijection
<1>8. Cardinality(B) = IF 1 \in MessagesIn(s) THEN Cardinality(MessagesIn(s)) - 1
                       ELSE Cardinality(MessagesIn(s))
  BY <1>2, FS_RemoveElement
<1>9. 1 \in MessagesIn(s) <=> s[1] = "message"
  BY <1>1, <1>2
<1> QED BY <1>7, <1>8, <1>9

\* The peer sends nothing, nothing is read, and the call stays where it was: with no
\* stream yet, or with one of messages; or it fails.
Quiet(t) ==
    /\ UNCHANGED <<stream, peer, sent>> /\ heard'[t] = heard[t]
    /\ pc'[t] = "unwind" \/ (pc[t] \in Silent /\ pc'[t] \in Silent)
                         \/ (pc[t] \in Talking /\ pc'[t] \in Talking)
\* The call, or the session, is over.
Over(t) ==
    /\ stream'[t] = <<>> /\ peer'[t] = "none" /\ sent'[t] = 0 /\ pc'[t] = "idle"

LEMMA StreamEffects ==
    ASSUME TypeOK, NEW t \in Threads, Moves(t), StreamInv(t)
    PROVE  \/ Quiet(t) \/ Over(t)
           \/ SendUpgrade(t) \/ ReadHeader(t) \/ Answer(t) \/ PeerSends(t) \/ PeerLeaves(t)
<1> USE DEF Quiet, Over, At, Throw, Silent, Talking, Reaching, link, call, TypeOK
<1>1. ASSUME NEW use \in {"session", "command"}, Connect(t, use) PROVE Quiet(t)
  BY <1>1 DEF Connect
<1>2. CASE Resolve(t)
  BY <1>2 DEF Resolve
<1>3. CASE Socket(t)
  BY <1>3 DEF Socket
<1>4. CASE ConnectSocket(t)
  BY <1>4 DEF ConnectSocket
<1>5. CASE NoDelay(t)
  BY <1>5 DEF NoDelay
<1>6. CASE NewContext(t)
  BY <1>6 DEF NewContext
<1>7. CASE NewSsl(t)
  BY <1>7 DEF NewSsl
<1>8. CASE Handshake(t)
  BY <1>8 DEF Handshake
<1>9. CASE HeaderCutOff(t)
  BY <1>9 DEF HeaderCutOff
<1>10. CASE Ask(t)
  BY <1>10 DEF Ask
<1>11. CASE NoAnswer(t)
  BY <1>11 DEF NoAnswer
<1>12. CASE Encrypt(t)
  BY <1>12 DEF Encrypt
<1>13. CASE Move(t)
  BY <1>13 DEF Move
<1>14. CASE DropMoved(t)
  BY <1>14 DEF DropMoved
<1>15. CASE LookAtSql(t)
  BY <1>15 DEF LookAtSql
<1>16. CASE Established(t)
  BY <1>16 DEF Established, Forget
<1>17. CASE CommandDone(t)
  BY <1>17 DEF CommandDone, Forget
<1>18. CASE Unwind(t)
  BY <1>18 DEF Unwind, Forget
<1>19. CASE DropImpl(t)
  BY <1>19 DEF DropImpl, StreamInv
<1>20. CASE UseSession(t)
  BY <1>20 DEF UseSession
<1>21. CASE CloseSession(t)
  BY <1>21 DEF CloseSession
<1>22. CASE DestroySession(t)
  BY <1>22 DEF DestroySession
<1> QED BY <1>1, <1>2, <1>3, <1>4, <1>5, <1>6, <1>7, <1>8, <1>9, <1>10, <1>11, <1>12,
          <1>13, <1>14, <1>15, <1>16, <1>17, <1>18, <1>19, <1>20, <1>21, <1>22
       DEF Moves, Begin, Step

LEMMA StreamStep ==
    ASSUME TypeOK, NEW t \in Threads, Moves(t), StreamInv(t), HeardInv(t)
    PROVE  StreamInv(t)'
<1> DEFINE s == stream[t]
<1>1. s \in Seq(Kinds) /\ sent[t] \in Nat /\ heard[t] \in Nat /\ Len(s) \in Nat
  <2>1. s \in Seq(Kinds)
    BY DEF TypeOK, Kinds
  <2>2. MaxSent \in Nat /\ sent[t] \in 0 .. MaxSent /\ heard[t] \in 0 .. 4
    BY SessionConnectAssumption DEF TypeOK
  <2> HIDE DEF s
  <2> QED BY <2>1, <2>2, LenProperties
<1>2. Cardinality(MessagesIn(s)) \in Nat
  BY <1>1, MessagesFinite
<1>3. CASE Quiet(t)
  BY <1>3 DEF Quiet, StreamInv, Silent, Talking, Reaching
<1>4. CASE Over(t)
  <2>1. \A i \in 1 .. Len(stream'[t]) : FALSE
    BY <1>4 DEF Over
  <2> QED BY <1>4, <2>1 DEF Over, StreamInv, Silent, Talking, Reaching
<1>5. CASE SendUpgrade(t)
  <2>1. pc[t] = "request" /\ stream' = stream /\ sent' = sent /\ heard' = heard
    BY <1>5 DEF SendUpgrade, At, Throw
  <2>2. peer[t] = "none" /\ s = <<>> /\ sent[t] = 0 /\ heard[t] = 0
    BY <2>1 DEF StreamInv, HeardInv, Silent, Opening
  <2>3. \/ pc'[t] = "unwind" /\ peer'[t] = "none"
        \/ pc'[t] = "header" /\ peer'[t] = "header"
    BY <1>5, <2>2 DEF SendUpgrade, At, Throw, TypeOK
  <2>4. MessagesIn(s) = {} /\ Cardinality(MessagesIn(s)) = 0 /\ \A i \in 1 .. Len(s) : FALSE
    BY <2>2, NoMessages DEF MessagesIn
  <2> QED BY <2>1, <2>2, <2>3, <2>4 DEF StreamInv, Silent, Talking, Reaching
<1>6. ASSUME s # <<>>
      PROVE  /\ Len(s) > 0 /\ Head(s) = s[1] /\ Tail(s) \in Seq(Kinds) /\ Len(Tail(s)) = Len(s) - 1
             /\ \A i \in 1 .. Len(s) - 1 : Tail(s)[i] = s[i + 1]
             /\ MessagesIn(s) = {i \in 1 .. Len(s) : s[i] = "message"}
             /\ MessagesIn(Tail(s)) = {i \in 1 .. Len(s) - 1 : Tail(s)[i] = "message"}
  <2> HIDE DEF s
  <2>1. /\ Head(s) = s[1] /\ Tail(s) \in Seq(Kinds) /\ Len(Tail(s)) = Len(s) - 1
        /\ \A i \in 1 .. Len(Tail(s)) : Tail(s)[i] = s[i + 1]
    BY <1>1, <1>6, HeadTailProperties
  <2>2. Len(s) > 0
    BY <1>1, <1>6, EmptySeq
  <2>3. /\ MessagesIn(s) = {i \in 1 .. Len(s) : s[i] = "message"}
        /\ MessagesIn(Tail(s)) = {i \in 1 .. Len(Tail(s)) : Tail(s)[i] = "message"}
    BY <1>1, <2>1, MessagesFinite
  <2> QED BY <2>1, <2>2, <2>3
<1>7. CASE ReadHeader(t)
  <2>1. /\ s # <<>> /\ pc[t] = "header" /\ stream'[t] = Tail(s)
        /\ UNCHANGED <<peer, sent, heard>>
    BY <1>7 DEF ReadHeader, At, Throw, TypeOK
  <2>2. \/ pc'[t] = "unwind"
        \/ pc'[t] = "ask" /\ Head(s) = "blank"
        \/ pc'[t] = "header" /\ Head(s) # "blank"
    BY <1>7 DEF ReadHeader, At, Throw, TypeOK
  <2>3. /\ \A i, j \in 1 .. Len(s) : i < j => s[i] = "byte" \/ s[j] = "message"
        /\ peer[t] # "none"
        /\ peer[t] = "header" => sent[t] = 0 /\ \A i \in 1 .. Len(s) : s[i] = "byte"
        /\ heard[t] + Cardinality(MessagesIn(s)) = sent[t]
        /\ peer[t] = "messages" \/ MessagesIn(s) # {} => \E i \in 1 .. Len(s) : s[i] = "blank"
    BY <2>1 DEF StreamInv
  <2>4. s[1] # "message"
    BY <1>1, <1>6, <2>1, <2>3
  <2>5. Cardinality(MessagesIn(Tail(s))) = Cardinality(MessagesIn(s))
    BY <1>1, <2>1, <2>4, MessagesTaken
  <2>6. \A i, j \in 1 .. Len(s) - 1 : i < j => Tail(s)[i] = "byte" \/ Tail(s)[j] = "message"
    BY <1>1, <1>6, <2>1, <2>3
  <2>7. peer[t] = "header" => \A i \in 1 .. Len(s) - 1 : Tail(s)[i] = "byte"
    BY <1>1, <1>6, <2>1, <2>3
  <2>8. CASE pc'[t] = "unwind"
    BY <1>6, <2>1, <2>3, <2>5, <2>6, <2>7, <2>8 DEF StreamInv, Silent, Talking, Reaching
  <2>9. CASE pc'[t] = "ask" /\ Head(s) = "blank"
    <3>1. \A i \in 1 .. Len(s) - 1 : Tail(s)[i] = "message"
      BY <1>1, <1>6, <2>1, <2>3, <2>9
    <3>2. peer[t] \in {"messages", "gone"}
      <4>1. peer[t] \in {"none", "header", "messages", "gone"}
        BY DEF TypeOK
      <4>2. 1 \in 1 .. Len(s) /\ s[1] = "blank"
        BY <1>1, <1>6, <2>1, <2>9
      <4> QED BY <2>3, <4>1, <4>2
    <3> QED BY <1>6, <2>1, <2>3, <2>5, <2>6, <2>7, <2>9, <3>1, <3>2 DEF StreamInv, Silent, Talking, Reaching
  <2>10. CASE pc'[t] = "header" /\ Head(s) # "blank"
    <3>1. MessagesIn(Tail(s)) # {} => MessagesIn(s) # {}
      BY <1>1, <1>6, <2>1
    <3>2. ASSUME peer[t] = "messages" \/ MessagesIn(Tail(s)) # {}
          PROVE  \E i \in 1 .. Len(s) - 1 : Tail(s)[i] = "blank"
      <4>1. PICK i \in 1 .. Len(s) : s[i] = "blank"
        BY <2>3, <3>1, <3>2
      <4>2. i - 1 \in 1 .. Len(s) - 1 /\ (i - 1) + 1 = i
        BY <1>1, <1>6, <2>1, <2>10, <4>1
      <4> QED BY <1>6, <2>1, <4>1, <4>2
    <3> QED BY <1>6, <2>1, <2>3, <2>5, <2>6, <2>7, <2>10, <3>2 DEF StreamInv, Silent, Talking, Reaching
  <2> QED BY <2>2, <2>8, <2>9, <2>10
<1>8. CASE Answer(t)
  <2>1. /\ s # <<>> /\ pc[t] = "answer" /\ stream'[t] = Tail(s) /\ heard'[t] = heard[t] + 1
        /\ UNCHANGED <<peer, sent>>
        /\ pc'[t] = "unwind" \/ pc'[t] = After(t, heard[t] + 1)
    BY <1>8 DEF Answer, At, Throw, TypeOK
  <2>2. pc'[t] \in {"unwind"} \cup Talking
    BY <2>1, AfterAnswer DEF Talking
  <2>3. /\ peer[t] \in {"messages", "gone"} /\ \A i \in 1 .. Len(s) : s[i] = "message"
        /\ heard[t] + Cardinality(MessagesIn(s)) = sent[t]
    BY <2>1 DEF StreamInv, Talking
  <2>4. s[1] = "message" /\ \A i \in 1 .. Len(s) - 1 : Tail(s)[i] = "message"
    BY <1>1, <1>6, <2>1, <2>3
  <2>5. Cardinality(MessagesIn(Tail(s))) = Cardinality(MessagesIn(s)) - 1
    BY <1>1, <2>1, <2>4, MessagesTaken
  <2>6. heard'[t] + Cardinality(MessagesIn(Tail(s))) = sent[t]
    BY <1>1, <1>2, <2>1, <2>3, <2>5
  <2> QED BY <1>6, <2>1, <2>2, <2>3, <2>4, <2>6 DEF StreamInv, Silent, Talking, Reaching
<1>9. CASE PeerSends(t)
  <2>1. /\ pc'[t] = pc[t] /\ heard'[t] = heard[t] /\ peer[t] \in {"header", "messages"}
    BY <1>9 DEF PeerSends, call
  <2>2. PICK x \in Kinds :
          /\ stream'[t] = Append(s, x)
          /\ \/ x = "byte" /\ peer[t] = "header" /\ UNCHANGED <<peer, sent>>
             \/ x = "blank" /\ peer[t] = "header" /\ peer'[t] = "messages" /\ UNCHANGED sent
             \/ x = "message" /\ peer[t] = "messages" /\ sent'[t] = sent[t] + 1 /\ UNCHANGED peer
    BY <1>9 DEF PeerSends, Sends, Kinds, TypeOK
  <2>3. /\ Append(s, x) \in Seq(Kinds) /\ Len(Append(s, x)) = Len(s) + 1
        /\ \A i \in 1 .. Len(s) : Append(s, x)[i] = s[i]
        /\ Append(s, x)[Len(s) + 1] = x
    BY <1>1, AppendProperties
  <2>4. /\ \A i, j \in 1 .. Len(s) : i < j => s[i] = "byte" \/ s[j] = "message"
        /\ peer[t] = "header" => sent[t] = 0 /\ \A i \in 1 .. Len(s) : s[i] = "byte"
        /\ heard[t] + Cardinality(MessagesIn(s)) = sent[t]
        /\ pc[t] \notin Silent
        /\ pc[t] = "header" =>
              (peer[t] = "messages" \/ MessagesIn(s) # {} => \E i \in 1 .. Len(s) : s[i] = "blank")
        /\ pc[t] \in Talking => peer[t] = "messages" /\ \A i \in 1 .. Len(s) : s[i] = "message"
    BY <2>1 DEF StreamInv
  <2>5. heard'[t] + Cardinality(MessagesIn(Append(s, x))) = sent'[t]
    BY <1>1, <1>2, <2>1, <2>2, <2>4, MessagesAppended DEF Kinds
  <2>6. \A i, j \in 1 .. Len(s) + 1 : i < j => Append(s, x)[i] = "byte" \/ Append(s, x)[j] = "message"
    BY <1>1, <2>2, <2>3, <2>4
  <2>7. peer'[t] = "header" => sent'[t] = 0 /\ \A i \in 1 .. Len(s) + 1 : Append(s, x)[i] = "byte"
    BY <1>1, <2>2, <2>3, <2>4
  <2>8. pc[t] = "header" /\ peer'[t] = "messages" =>
          \E i \in 1 .. Len(s) + 1 : Append(s, x)[i] = "blank"
    BY <1>1, <2>2, <2>3, <2>4
  <2>9. peer'[t] # "messages" => MessagesIn(Append(s, x)) = {}
    <3>1. ASSUME peer'[t] # "messages" PROVE x = "byte" /\ peer[t] = "header"
      BY <2>2, <3>1
    <3>2. peer[t] = "header" => MessagesIn(s) = {}
      BY <1>1, <2>4, MessagesFinite
    <3> QED BY <1>1, <3>1, <3>2, MessagesAppended
  <2>10. pc[t] \in Talking => peer'[t] = "messages" /\ \A i \in 1 .. Len(s) + 1 : Append(s, x)[i] = "message"
    BY <1>1, <2>2, <2>3, <2>4
  <2>11. peer'[t] # "none"
    BY <2>1, <2>2
  <2> QED BY <2>1, <2>2, <2>3, <2>4, <2>5, <2>6, <2>7, <2>8, <2>9, <2>10, <2>11 DEF StreamInv
<1>10. CASE PeerLeaves(t)
  <2>1. /\ pc' = pc /\ heard' = heard /\ stream' = stream /\ sent' = sent
        /\ peer[t] \in {"header", "messages"} /\ peer'[t] = "gone"
    BY <1>10 DEF PeerLeaves, call, TypeOK
  <2> QED BY <2>1 DEF StreamInv
<1> QED BY <1>3, <1>4, <1>5, <1>7, <1>8, <1>9, <1>10, StreamEffects

-----------------------------------------------------------------------------
(* Types.  What counts things is bounded by the other invariants.          *)

CallType ==
    /\ pc \in [Threads -> {"idle", "resolve", "socket", "connect", "nodelay", "context",
                           "ssl", "handshake", "request", "header", "ask", "answer",
                           "encrypt", "return", "moved", "sql", "result", "unwind", "dying"}]
    /\ purpose \in [Threads -> {"session", "command"}]
    /\ raw \in [Threads -> Fds \cup {None}] /\ left \in [Threads -> 0 .. MaxAddresses]
    /\ header \in [Threads -> 0 .. HeaderLimit] /\ heard \in [Threads -> 0 .. 4]
    /\ thrown \in [Threads -> Errors \cup {"none"}]
ObjectType ==
    /\ conn \in [Threads -> [Places -> Connections]]
    /\ holder \in [Fds -> Threads \cup {None}]
    /\ contexts \in [Threads -> 0 .. 1] /\ ssls \in [Threads -> 0 .. 1]
LinkType ==
    /\ peer \in [Threads -> {"none", "header", "messages", "gone"}]
    /\ stream \in [Threads -> Seq({"byte", "blank", "message"})]
    /\ sent \in [Threads -> 0 .. MaxSent]
ReportType ==
    /\ session \in [Threads -> {"none", "open", "closed"}] /\ calls \in 0 .. MaxCalls
    /\ keys \in [Threads -> Nat] /\ tooLong \in [Threads -> Nat]
    /\ slot \in [Threads -> [category : Errors, message : BOOLEAN]]
    /\ last \in [Threads -> Errors \cup {"none", "ok"}]

KeysInv == \A t \in Threads : KeyInv(t)

LEMMA TypeParts ==
    ASSUME TypeOK
    PROVE  CallType /\ ObjectType /\ LinkType /\ ReportType
BY SessionConnectAssumption DEF TypeOK, CallType, ObjectType, LinkType, ReportType

LEMMA PartsType ==
    CallType /\ ObjectType /\ LinkType /\ ReportType /\ KeysInv => TypeOK
<1> SUFFICES ASSUME CallType, ObjectType, LinkType, ReportType, KeysInv
             PROVE  TypeOK
  OBVIOUS
<1>1. \A t \in Threads : keys[t] \in 0 .. MaxCalls /\ tooLong[t] \in 0 .. MaxCalls
  BY SessionConnectAssumption DEF ReportType, KeysInv, KeyInv
<1> QED BY <1>1 DEF TypeOK, CallType, ObjectType, LinkType, ReportType

LEMMA LeftStep ==
    ASSUME TypeOK, NEW t \in Threads, LeftInv(t), Moves(t)
    PROVE  LeftInv(t)'
<1> USE DEF LeftInv, At, Throw, call, TypeOK
<1>1. ASSUME NEW use \in {"session", "command"}, Connect(t, use) PROVE LeftInv(t)'
  BY <1>1 DEF Connect
<1>2. CASE Resolve(t)
  BY <1>2 DEF Resolve
<1>3. CASE Socket(t)
  BY <1>3 DEF Socket
<1>4. CASE ConnectSocket(t)
  BY <1>4 DEF ConnectSocket
<1>5. CASE NoDelay(t)
  BY <1>5 DEF NoDelay
<1>6. CASE NewContext(t)
  BY <1>6 DEF NewContext
<1>7. CASE NewSsl(t)
  BY <1>7 DEF NewSsl
<1>8. CASE Handshake(t)
  BY <1>8 DEF Handshake
<1>9. CASE SendUpgrade(t)
  BY <1>9 DEF SendUpgrade
<1>10. CASE ReadHeader(t)
  BY <1>10 DEF ReadHeader
<1>11. CASE HeaderCutOff(t)
  BY <1>11 DEF HeaderCutOff
<1>12. CASE Ask(t)
  BY <1>12 DEF Ask
<1>13. CASE Answer(t)
  <2>1. pc[t] = "answer" /\ heard[t] \in 0 .. 4
    BY <1>13 DEF Answer, TypeOK
  <2>2. After(t, heard[t] + 1) # "connect"
    BY DEF After
  <2> QED BY <1>13, <2>2 DEF Answer
<1>14. CASE NoAnswer(t)
  BY <1>14 DEF NoAnswer
<1>15. CASE Encrypt(t)
  BY <1>15 DEF Encrypt
<1>16. CASE Move(t)
  BY <1>16 DEF Move
<1>17. CASE DropMoved(t)
  BY <1>17 DEF DropMoved
<1>18. CASE LookAtSql(t)
  BY <1>18 DEF LookAtSql
<1>19. CASE Established(t)
  BY <1>19 DEF Established
<1>20. CASE CommandDone(t)
  BY <1>20 DEF CommandDone
<1>21. CASE Unwind(t)
  BY <1>21 DEF Unwind
<1>22. CASE DropImpl(t)
  BY <1>22 DEF DropImpl
<1>23. CASE UseSession(t)
  BY <1>23 DEF UseSession
<1>24. CASE CloseSession(t)
  BY <1>24 DEF CloseSession
<1>25. CASE DestroySession(t)
  BY <1>25 DEF DestroySession
<1>26. CASE PeerSends(t)
  BY <1>26 DEF PeerSends
<1>27. CASE PeerLeaves(t)
  BY <1>27 DEF PeerLeaves
<1> QED BY <1>1, <1>2, <1>3, <1>4, <1>5, <1>6, <1>7, <1>8, <1>9, <1>10, <1>11, <1>12, <1>13,
          <1>14, <1>15, <1>16, <1>17, <1>18, <1>19, <1>20, <1>21, <1>22, <1>23, <1>24, <1>25,
          <1>26, <1>27
       DEF Moves, Begin, Step

LEMMA CallTypeStep ==
    ASSUME TypeOK, NEW t \in Threads, HeardInv(t), LeftInv(t), Moves(t)
    PROVE  CallType'
<1>0. CallType /\ {MaxAddresses, HeaderLimit} \subseteq Nat
  BY TypeParts, SessionConnectAssumption
<1> USE DEF CallType, At, Throw, Forget, call, objects, link, report, Errors
<1>1. ASSUME NEW use \in {"session", "command"}, Connect(t, use) PROVE CallType'
  BY <1>0, <1>1 DEF Connect
<1>2. CASE Resolve(t)
  BY <1>0, <1>2 DEF Resolve
<1>3. CASE Socket(t)
  <2>1. Free # {} => Lowest \in Fds
    BY LowestIsFree
  <2> QED BY <1>0, <1>3, <2>1 DEF Socket
<1>4. CASE ConnectSocket(t)
  <2>1. pc[t] = "connect" /\ left[t] \in 0 .. MaxAddresses /\ left[t] > 0
    BY <1>0, <1>4 DEF ConnectSocket, LeftInv
  <2>2. left[t] - 1 \in 0 .. MaxAddresses
    BY <1>0, <2>1
  <2> QED BY <1>0, <1>4, <2>2 DEF ConnectSocket
<1>5. CASE NoDelay(t)
  BY <1>0, <1>5 DEF NoDelay
<1>6. CASE NewContext(t)
  BY <1>0, <1>6 DEF NewContext
<1>7. CASE NewSsl(t)
  BY <1>0, <1>7 DEF NewSsl
<1>8. CASE Handshake(t)
  BY <1>0, <1>8 DEF Handshake
<1>9. CASE SendUpgrade(t)
  BY <1>0, <1>9 DEF SendUpgrade
<1>10. CASE ReadHeader(t)
  <2>1. header' \in [Threads -> 0 .. HeaderLimit]
    <3>1. CASE header[t] = HeaderLimit
      BY <1>0, <1>10, <3>1 DEF ReadHeader
    <3>2. CASE header[t] # HeaderLimit
      <4>1. header' = [header EXCEPT ![t] = IF Head(stream[t]) = "blank" THEN 0 ELSE @ + 1]
        BY <1>0, <1>10, <3>2 DEF ReadHeader
      <4>2. header[t] + 1 \in 0 .. HeaderLimit
        BY <1>0, <3>2
      <4> QED BY <1>0, <4>1, <4>2
    <3> QED BY <3>1, <3>2
  <2> QED BY ZenonT(60), <1>0, <1>10, <2>1 DEF ReadHeader
<1>11. CASE HeaderCutOff(t)
  BY <1>0, <1>11 DEF HeaderCutOff
<1>12. CASE Ask(t)
  BY <1>0, <1>12 DEF Ask
<1>13. CASE Answer(t)
  <2>1. pc[t] = "answer" /\ heard[t] \in 0 .. 4
    BY <1>0, <1>13 DEF Answer
  <2>2. heard[t] + 1 \in 1 .. 4 /\ After(t, heard[t] + 1) \in {"encrypt", "return", "sql", "ask", "result"}
    BY <2>1, AfterAnswer
  <2>3. heard' \in [Threads -> 0 .. 4]
    BY <1>0, <1>13, <2>2 DEF Answer
  <2> QED BY ZenonT(60), <1>0, <1>13, <2>2, <2>3 DEF Answer
<1>14. CASE NoAnswer(t)
  BY <1>0, <1>14 DEF NoAnswer
<1>15. CASE Encrypt(t)
  BY <1>0, <1>15 DEF Encrypt
<1>16. CASE Move(t)
  BY <1>0, <1>16 DEF Move
<1>17. CASE DropMoved(t)
  BY <1>0, <1>17 DEF DropMoved
<1>18. CASE LookAtSql(t)
  BY <1>0, <1>18 DEF LookAtSql
<1>19. CASE Established(t)
  BY <1>0, <1>19 DEF Established
<1>20. CASE CommandDone(t)
  <2>1. ASSUME At(t, "result", "idle"), UNCHANGED thrown, Report(t, "ok"), Forget(t),
               heard' = [heard EXCEPT ![t] = 0]
        PROVE  CallType'
    BY <1>0, <1>20, <2>1 DEF CommandDone
  <2>2. ASSUME Throw(t, "result", "internal_error"), UNCHANGED <<report, header, heard, link>>
        PROVE  CallType'
    BY <1>0, <1>20, <2>2 DEF CommandDone
  <2> QED BY <1>20, <2>1, <2>2 DEF CommandDone
<1>21. CASE Unwind(t)
  BY <1>0, <1>21 DEF Unwind
<1>22. CASE DropImpl(t)
  BY <1>0, <1>22 DEF DropImpl
<1>23. CASE UseSession(t)
  BY <1>0, <1>23 DEF UseSession
<1>24. CASE CloseSession(t)
  BY <1>0, <1>24 DEF CloseSession
<1>25. CASE DestroySession(t)
  BY <1>0, <1>25 DEF DestroySession
<1>26. CASE PeerSends(t)
  BY <1>0, <1>26 DEF PeerSends
<1>27. CASE PeerLeaves(t)
  BY <1>0, <1>27 DEF PeerLeaves
<1> QED BY <1>1, <1>2, <1>3, <1>4, <1>5, <1>6, <1>7, <1>8, <1>9, <1>10, <1>11, <1>12, <1>13,
          <1>14, <1>15, <1>16, <1>17, <1>18, <1>19, <1>20, <1>21, <1>22, <1>23, <1>24, <1>25,
          <1>26, <1>27
       DEF Moves, Begin, Step

LEMMA ObjectTypeStep ==
    ASSUME TypeOK, NEW t \in Threads, Moves(t), HeldInv(t)', PlaceInv(t)
    PROVE  ObjectType'
<1>0. ObjectType /\ raw \in [Threads -> Fds \cup {None}]
  BY TypeParts DEF CallType
<1>1. contexts'[t] \in 0 .. 1 /\ ssls'[t] \in 0 .. 1
  BY DEF HeldInv
<1>2. CASE Plain(t)
  BY <1>0, <1>2 DEF Plain, objects, ObjectType
<1>3. CASE Closes(t)
  <2>1. PICK places \in SUBSET Places : Closing(t, places)
    BY <1>3 DEF Closes
  <2>2. conn' \in [Threads -> [Places -> Connections]]
    BY <1>0, <2>1, ClosedIs DEF Closing, ObjectType
  <2>3. holder' \in [Fds -> Threads \cup {None}]
    BY <1>0, <2>1 DEF Closing, ObjectType
  <2>4. contexts' \in [Threads -> 0 .. 1] /\ ssls' \in [Threads -> 0 .. 1]
    BY <1>0, <1>1, <2>1 DEF Closing, ObjectType
  <2> QED BY <2>2, <2>3, <2>4 DEF ObjectType
<1>4. CASE Socket(t)
  <2>1. Free # {} => Lowest \in Fds
    BY LowestIsFree
  <2> QED BY <1>0, <1>4, <2>1 DEF Socket, ObjectType
<1>5. CASE ConnectSocket(t)
  <2>1. [Local(t) EXCEPT !.fd = raw[t]] \in Connections
    BY <1>0, PlacesOf DEF Connections
  <2> QED BY SMTT(30), <1>0, <1>5, <2>1 DEF ConnectSocket, ObjectType, Local, Places
<1>6. CASE NewContext(t)
  <2>1. PICK made \in BOOLEAN : /\ conn' = [conn EXCEPT ![t]["local"].context = made]
                               /\ contexts' = [contexts EXCEPT ![t] = IF made THEN @ + 1 ELSE @]
    BY <1>6 DEF NewContext
  <2>2. [Local(t) EXCEPT !.context = made] \in Connections
    BY PlacesOf DEF Connections
  <2>3. conn' \in [Threads -> [Places -> Connections]]
    BY <1>0, <2>1, <2>2 DEF ObjectType, Local, Places
  <2>4. contexts' \in [Threads -> 0 .. 1]
    BY <1>0, <1>1, <2>1 DEF ObjectType
  <2> QED BY <1>0, <1>6, <2>3, <2>4 DEF NewContext, ObjectType
<1>7. CASE NewSsl(t)
  <2>1. \A made \in BOOLEAN : [Local(t) EXCEPT !.ssl = made] \in Connections
    BY PlacesOf DEF Connections
  <2>2. conn' \in [Threads -> [Places -> Connections]]
    <3>1. conn' = conn \/ conn' = [conn EXCEPT ![t]["local"].ssl = TRUE]
      BY <1>7 DEF NewSsl
    <3>2. ASSUME NEW made \in BOOLEAN, conn' = [conn EXCEPT ![t]["local"].ssl = made]
          PROVE  conn' \in [Threads -> [Places -> Connections]]
      BY <1>0, <2>1, <3>2 DEF ObjectType, Local, Places
    <3>3. TRUE \in BOOLEAN
      OBVIOUS
    <3>4. CASE conn' = conn
      BY <1>0, <3>4 DEF ObjectType
    <3> QED BY <3>1, <3>2, <3>3, <3>4
  <2>3. ssls' \in [Threads -> 0 .. 1]
    BY <1>0, <1>1, <1>7 DEF NewSsl, ObjectType
  <2> QED BY <1>0, <1>7, <2>2, <2>3 DEF NewSsl, ObjectType
<1>8. CASE Move(t)
  BY <1>0, <1>8, ClosedIs DEF Move, ObjectType, Places
<1> QED BY <1>2, <1>3, <1>4, <1>5, <1>6, <1>7, <1>8, Effects

LEMMA LinkTypeStep ==
    ASSUME TypeOK, NEW t \in Threads, Moves(t)
    PROVE  LinkType'
<1>0. LinkType /\ MaxSent \in Nat
  BY TypeParts, SessionConnectAssumption
<1> USE DEF LinkType, Forget, Sends, call, objects, link, report
<1>1. ASSUME NEW use \in {"session", "command"}, Connect(t, use) PROVE LinkType'
  BY <1>0, <1>1 DEF Connect
<1>2. CASE Resolve(t)
  BY <1>0, <1>2 DEF Resolve
<1>3. CASE Socket(t)
  BY <1>0, <1>3 DEF Socket
<1>4. CASE ConnectSocket(t)
  BY <1>0, <1>4 DEF ConnectSocket
<1>5. CASE NoDelay(t)
  BY <1>0, <1>5 DEF NoDelay
<1>6. CASE NewContext(t)
  BY <1>0, <1>6 DEF NewContext
<1>7. CASE NewSsl(t)
  BY <1>0, <1>7 DEF NewSsl
<1>8. CASE Handshake(t)
  BY <1>0, <1>8 DEF Handshake
<1>9. CASE SendUpgrade(t)
  BY <1>0, <1>9 DEF SendUpgrade
<1>10. CASE ReadHeader(t)
  <2>1. stream[t] \in Seq({"byte", "blank", "message"}) /\ stream[t] # <<>>
    BY <1>0, <1>10 DEF ReadHeader
  <2>2. Tail(stream[t]) \in Seq({"byte", "blank", "message"})
    BY <2>1, HeadTailProperties
  <2> QED BY <1>0, <1>10, <2>2 DEF ReadHeader
<1>11. CASE HeaderCutOff(t)
  BY <1>0, <1>11 DEF HeaderCutOff
<1>12. CASE Ask(t)
  BY <1>0, <1>12 DEF Ask
<1>13. CASE Answer(t)
  <2>1. stream[t] \in Seq({"byte", "blank", "message"}) /\ stream[t] # <<>>
    BY <1>0, <1>13 DEF Answer
  <2>2. Tail(stream[t]) \in Seq({"byte", "blank", "message"})
    BY <2>1, HeadTailProperties
  <2> QED BY <1>0, <1>13, <2>2 DEF Answer
<1>14. CASE NoAnswer(t)
  BY <1>0, <1>14 DEF NoAnswer
<1>15. CASE Encrypt(t)
  BY <1>0, <1>15 DEF Encrypt
<1>16. CASE Move(t)
  BY <1>0, <1>16 DEF Move
<1>17. CASE DropMoved(t)
  BY <1>0, <1>17 DEF DropMoved
<1>18. CASE LookAtSql(t)
  BY <1>0, <1>18 DEF LookAtSql
<1>19. CASE Established(t)
  BY <1>0, <1>19 DEF Established
<1>20. CASE CommandDone(t)
  <2>1. ASSUME At(t, "result", "idle"), UNCHANGED thrown, Report(t, "ok"), Forget(t),
               heard' = [heard EXCEPT ![t] = 0]
        PROVE  LinkType'
    BY <1>0, <1>20, <2>1 DEF CommandDone
  <2>2. ASSUME Throw(t, "result", "internal_error"), UNCHANGED <<report, header, heard, link>>
        PROVE  LinkType'
    BY <1>0, <1>20, <2>2 DEF CommandDone
  <2> QED BY <1>20, <2>1, <2>2 DEF CommandDone
<1>21. CASE Unwind(t)
  BY <1>0, <1>21 DEF Unwind
<1>22. CASE DropImpl(t)
  BY <1>0, <1>22 DEF DropImpl
<1>23. CASE UseSession(t)
  BY <1>0, <1>23 DEF UseSession
<1>24. CASE CloseSession(t)
  BY <1>0, <1>24 DEF CloseSession
<1>25. CASE DestroySession(t)
  BY <1>0, <1>25 DEF DestroySession
<1>26. CASE PeerSends(t)
  <2>1. \A x \in {"byte", "blank", "message"} :
           Append(stream[t], x) \in Seq({"byte", "blank", "message"})
    BY <1>0, AppendProperties
  <2>2. PICK x \in {"byte", "blank", "message"} : stream' = [stream EXCEPT ![t] = Append(@, x)]
    BY <1>0, <1>26 DEF PeerSends
  <2>3. stream' \in [Threads -> Seq({"byte", "blank", "message"})]
    BY <1>0, <2>1, <2>2
  <2>4. peer' \in [Threads -> {"none", "header", "messages", "gone"}]
    BY <1>0, <1>26 DEF PeerSends
  <2>5. sent' \in [Threads -> 0 .. MaxSent]
    BY <1>0, <1>26 DEF PeerSends
  <2> QED BY <2>3, <2>4, <2>5
<1>27. CASE PeerLeaves(t)
  BY <1>0, <1>27 DEF PeerLeaves
<1> QED BY <1>1, <1>2, <1>3, <1>4, <1>5, <1>6, <1>7, <1>8, <1>9, <1>10, <1>11, <1>12, <1>13,
          <1>14, <1>15, <1>16, <1>17, <1>18, <1>19, <1>20, <1>21, <1>22, <1>23, <1>24, <1>25,
          <1>26, <1>27
       DEF Moves, Begin, Step

LEMMA ReportTypeStep ==
    ASSUME TypeOK, NEW t \in Threads, Moves(t), SlotInv(t)
    PROVE  ReportType'
<1>0. ReportType /\ MaxCalls \in Nat
  BY TypeParts, SessionConnectAssumption
<1> USE DEF ReportType, Report, call, objects, report, link, Errors
<1>1. ASSUME NEW use \in {"session", "command"}, Connect(t, use) PROVE ReportType'
  <2>1. slot' \in [Threads -> [category : Errors, message : BOOLEAN]]
    BY <1>0, <1>1 DEF Connect
  <2>2. calls' \in 0 .. MaxCalls
    BY <1>0, <1>1 DEF Connect
  <2> QED BY <1>0, <1>1, <2>1, <2>2 DEF Connect
<1>2. CASE Resolve(t)
  BY <1>0, <1>2 DEF Resolve
<1>3. CASE Socket(t)
  BY <1>0, <1>3 DEF Socket
<1>4. CASE ConnectSocket(t)
  BY <1>0, <1>4 DEF ConnectSocket
<1>5. CASE NoDelay(t)
  BY <1>0, <1>5 DEF NoDelay
<1>6. CASE NewContext(t)
  BY <1>0, <1>6 DEF NewContext
<1>7. CASE NewSsl(t)
  BY <1>0, <1>7 DEF NewSsl
<1>8. CASE Handshake(t)
  BY <1>0, <1>8 DEF Handshake
<1>9. CASE SendUpgrade(t)
  BY <1>0, <1>9 DEF SendUpgrade
<1>10. CASE ReadHeader(t)
  BY <1>0, <1>10 DEF ReadHeader
<1>11. CASE HeaderCutOff(t)
  BY <1>0, <1>11 DEF HeaderCutOff
<1>12. CASE Ask(t)
  BY <1>0, <1>12 DEF Ask
<1>13. CASE Answer(t)
  BY <1>0, <1>13 DEF Answer
<1>14. CASE NoAnswer(t)
  BY <1>0, <1>14 DEF NoAnswer
<1>15. CASE Encrypt(t)
  BY SMTT(30), <1>0, <1>15 DEF Encrypt
<1>16. CASE Move(t)
  BY <1>0, <1>16 DEF Move
<1>17. CASE DropMoved(t)
  BY <1>0, <1>17 DEF DropMoved
<1>18. CASE LookAtSql(t)
  BY <1>0, <1>18 DEF LookAtSql
<1>19. CASE Established(t)
  BY <1>0, <1>19 DEF Established
<1>20. CASE CommandDone(t)
  <2>1. ASSUME At(t, "result", "idle"), UNCHANGED thrown, Report(t, "ok"), Forget(t),
               heard' = [heard EXCEPT ![t] = 0]
        PROVE  ReportType'
    BY <1>0, <1>20, <2>1 DEF CommandDone
  <2>2. ASSUME Throw(t, "result", "internal_error"), UNCHANGED <<report, header, heard, link>>
        PROVE  ReportType'
    BY <1>0, <1>20, <2>2 DEF CommandDone
  <2> QED BY <1>20, <2>1, <2>2 DEF CommandDone
<1>21. CASE Unwind(t)
  <2>1. thrown[t] \in Errors
    BY <1>0, <1>21 DEF Unwind, At, SlotInv
  <2> QED BY <1>0, <1>21, <2>1 DEF Unwind
<1>22. CASE DropImpl(t)
  BY <1>0, <1>22 DEF DropImpl
<1>23. CASE UseSession(t)
  <2>1. PICK c \in {"ok", "transport_error", "protocol_error"} : Report(t, c)
    BY <1>23 DEF UseSession
  <2>2. UNCHANGED <<session, keys, tooLong, calls>>
    BY <1>23 DEF UseSession
  <2> QED BY <1>0, <2>1, <2>2
<1>24. CASE CloseSession(t)
  BY <1>0, <1>24 DEF CloseSession
<1>25. CASE DestroySession(t)
  BY <1>0, <1>25 DEF DestroySession
<1>26. CASE PeerSends(t)
  BY <1>0, <1>26 DEF PeerSends
<1>27. CASE PeerLeaves(t)
  BY <1>0, <1>27 DEF PeerLeaves
<1> QED BY <1>1, <1>2, <1>3, <1>4, <1>5, <1>6, <1>7, <1>8, <1>9, <1>10, <1>11, <1>12, <1>13,
          <1>14, <1>15, <1>16, <1>17, <1>18, <1>19, <1>20, <1>21, <1>22, <1>23, <1>24, <1>25,
          <1>26, <1>27
       DEF Moves, Begin, Step

LEMMA TypeStep ==
    ASSUME ConnectInv, NEW t \in Threads, Moves(t),
           \A u \in Threads : HeldInv(u)' /\ KeyInv(u)'
    PROVE  TypeOK'
<1>1. TypeOK /\ HeardInv(t) /\ LeftInv(t) /\ PlaceInv(t) /\ SlotInv(t)
  BY DEF ConnectInv
<1>2. CallType' /\ ObjectType' /\ LinkType' /\ ReportType'
  BY <1>1, CallTypeStep, ObjectTypeStep, LinkTypeStep, ReportTypeStep
<1>3. (CallType /\ ObjectType /\ LinkType /\ ReportType /\ KeysInv => TypeOK)'
  BY PartsType, PTL
<1> QED BY <1>2, <1>3 DEF KeysInv

-----------------------------------------------------------------------------
(* The invariant.                                                          *)

\* What belongs to one thread stays with it while another one moves.
LEMMA SameKeeps ==
    ASSUME NEW u \in Threads, Same(u), calls' = calls \/ calls' = calls + 1, calls \in Nat,
           keys[u] \in Nat,
           PlaceInv(u), HeardInv(u), SlotInv(u), LeftInv(u), KeyInv(u), StreamInv(u)
    PROVE  (PlaceInv(u) /\ HeardInv(u) /\ SlotInv(u) /\ LeftInv(u) /\ KeyInv(u) /\ StreamInv(u))'
<1>1. PlaceInv(u)'
  BY DEF Same, PlaceInv, Local, Kept
<1>2. HeardInv(u)'
  BY DEF Same, HeardInv
<1>3. SlotInv(u)' /\ LeftInv(u)'
  BY DEF Same, SlotInv, LeftInv
<1>4. KeyInv(u)'
  BY DEF Same, KeyInv
<1>5. StreamInv(u)'
  BY DEF Same, StreamInv
<1> QED BY <1>1, <1>2, <1>3, <1>4, <1>5

LEMMA CallsGrow ==
    ASSUME NEW t \in Threads, Moves(t)
    PROVE  calls' = calls \/ calls' = calls + 1
<1>1. ASSUME NEW use \in {"session", "command"}, Connect(t, use) PROVE calls' = calls + 1
  BY <1>1 DEF Connect
<1>2. CASE Step(t)
  BY <1>2 DEF Step, Resolve, Socket, ConnectSocket, NoDelay, NewContext, NewSsl, Handshake,
       SendUpgrade, ReadHeader, HeaderCutOff, Ask, Answer, NoAnswer, Encrypt, Move, DropMoved,
       LookAtSql, Established, CommandDone, Unwind, DropImpl
<1>3. CASE UseSession(t) \/ CloseSession(t) \/ DestroySession(t) \/ PeerSends(t) \/ PeerLeaves(t)
  BY <1>3 DEF UseSession, CloseSession, DestroySession, PeerSends, PeerLeaves
<1> QED BY <1>1, <1>2, <1>3 DEF Moves, Begin

LEMMA ConnectInit == Init => ConnectInv
<1> SUFFICES ASSUME Init PROVE ConnectInv
  OBVIOUS
<1>1. TypeOK
  BY SessionConnectAssumption, ClosedIs DEF Init, TypeOK, Errors
<1>2. ASSUME NEW t \in Threads
      PROVE  PlaceInv(t) /\ HeardInv(t) /\ SlotInv(t) /\ LeftInv(t) /\ HeldInv(t) /\ KeyInv(t) /\ StreamInv(t)
  <2>1. Local(t) = Closed /\ Kept(t) = Closed
    BY DEF Init, Local, Kept, Places
  <2>2. PlaceInv(t)
    BY <2>1, ClosedIs DEF Init, PlaceInv, Reaching, Opening
  <2>3. HeardInv(t) /\ LeftInv(t)
    BY DEF Init, HeardInv, LeftInv, Reaching, Opening
  <2>4. SlotInv(t)
    BY DEF Init, SlotInv, Errors
  <2>5. HeldInv(t)
    BY <2>1, ClosedIs, ThreadsAreNotNone, FdsAreNotNone DEF Init, HeldInv
  <2>6. KeyInv(t)
    BY DEF Init, KeyInv, Reaching, Opening
  <2>7. StreamInv(t)
    <3>1. stream[t] = <<>> /\ peer[t] = "none" /\ sent[t] = 0 /\ heard[t] = 0 /\ pc[t] = "idle"
      BY DEF Init
    <3>2. \A i \in 1 .. Len(stream[t]) : FALSE
      BY <3>1
    <3> QED BY <3>1, <3>2, NoMessages DEF StreamInv, Talking
  <2> QED BY <2>2, <2>3, <2>4, <2>5, <2>6, <2>7
<1> QED BY <1>1, <1>2 DEF ConnectInv

LEMMA ConnectNext == ConnectInv /\ [Next]_vars => ConnectInv'
<1> SUFFICES ASSUME ConnectInv, [Next]_vars PROVE ConnectInv'
  OBVIOUS
<1>1. CASE UNCHANGED vars
  <2> USE DEF vars, call, objects, link, report
  <2>1. TypeOK'
    BY <1>1 DEF ConnectInv, TypeOK
  <2>2. ASSUME NEW u \in Threads
        PROVE  (PlaceInv(u) /\ HeardInv(u) /\ SlotInv(u) /\ LeftInv(u) /\ HeldInv(u) /\ KeyInv(u) /\ StreamInv(u))'
    <3>1. Same(u) /\ calls' = calls /\ holder' = holder
      BY <1>1 DEF Same
    <3>2. calls \in Nat /\ keys[u] \in Nat
      BY SessionConnectAssumption DEF ConnectInv, TypeOK
    <3>3. PlaceInv(u) /\ HeardInv(u) /\ SlotInv(u) /\ LeftInv(u) /\ HeldInv(u) /\ KeyInv(u) /\ StreamInv(u)
      BY DEF ConnectInv
    <3> QED BY <3>1, <3>2, <3>3, SameKeeps, HeldByOther
  <2> QED BY <2>1, <2>2 DEF ConnectInv
<1>2. ASSUME NEW t \in Threads, Moves(t) PROVE ConnectInv'
  <2>1. /\ TypeOK
        /\ \A u \in Threads : /\ PlaceInv(u) /\ HeardInv(u) /\ SlotInv(u) /\ LeftInv(u) /\ HeldInv(u)
                              /\ KeyInv(u) /\ StreamInv(u)
    BY DEF ConnectInv
  <2>2. \A u \in Threads : HeldInv(u)'
    BY <1>2, <2>1, HeldStep
  <2>3. (PlaceInv(t) /\ HeardInv(t) /\ SlotInv(t) /\ LeftInv(t) /\ KeyInv(t) /\ StreamInv(t))'
    BY <1>2, <2>1, PlaceStep, HeardStep, SlotStep, LeftStep, KeyStep, StreamStep
  <2>4. ASSUME NEW u \in Threads, u # t
        PROVE  (PlaceInv(u) /\ HeardInv(u) /\ SlotInv(u) /\ LeftInv(u) /\ KeyInv(u) /\ StreamInv(u))'
    <3>1. Same(u)
      BY <1>2, <2>1, <2>4, OthersKeep
    <3>2. calls \in Nat /\ keys[u] \in Nat
      BY <2>1, SessionConnectAssumption DEF TypeOK
    <3> QED BY <1>2, <2>1, <3>1, <3>2, SameKeeps, CallsGrow
  <2>5. \A u \in Threads : HeldInv(u)' /\ KeyInv(u)'
    BY <2>2, <2>3, <2>4
  <2>6. TypeOK'
    BY <1>2, <2>5, TypeStep
  <2> QED BY <2>2, <2>3, <2>4, <2>6 DEF ConnectInv
<1> QED BY <1>1, <1>2 DEF Next, Moves

\* The invariant holds in every reachable state, however many threads connect, use and
\* destroy sessions at once.
THEOREM ConnectHolds == Spec => []ConnectInv
<1>1. Init => ConnectInv
  BY ConnectInit
<1>2. ConnectInv /\ [Next]_vars => ConnectInv'
  BY ConnectNext
<1> QED BY <1>1, <1>2, PTL DEF Spec

\* Every variable keeps its type: in particular a thread has one SSL_CTX and one SSL at
\* most, and no more keys stay behind than connections were attempted.
THEOREM TypeCorrect == Spec => []TypeOK
<1>1. ConnectInv => TypeOK
  BY DEF ConnectInv
<1> QED BY <1>1, ConnectHolds, PTL

\* Descriptors, TLS objects and keys of a thread are exactly those its connection objects
\* point to: none is lost, freed twice, or closed after it became another thread's.
THEOREM ThreadsHoldWhatTheirObjectsDo == Spec => []HeldByItsConnection
<1>1. ASSUME ConnectInv, NEW t \in Threads
      PROVE  LET used == {p \in Places : conn[t][p] # Closed}
             IN  /\ {f \in Fds : holder[f] = t} = ({raw[t]} \cup {conn[t][p].fd : p \in used}) \ {None}
                 /\ contexts[t] = Cardinality({p \in used : conn[t][p].context})
                 /\ ssls[t] = Cardinality({p \in used : conn[t][p].ssl})
                 /\ keys[t] = tooLong[t]
                 /\ pc[t] = "idle" => used = {} \/ (used = {"kept"} /\ session[t] = "open")
  <2> DEFINE used == {p \in Places : conn[t][p] # Closed}
             cs == {p \in used : conn[t][p].context}
             ss == {p \in used : conn[t][p].ssl}
             L == Local(t)
             K == Kept(t)
  <2>1. /\ TypeOK /\ PlaceInv(t) /\ HeldInv(t) /\ KeyInv(t)
    BY <1>1 DEF ConnectInv
  <2>2. L \in Connections /\ K \in Connections /\ (L = Closed \/ K = Closed)
    BY <2>1, PlacesOf DEF PlaceInv
  <2>3. L.fd \in Fds \cup {None} /\ K.fd \in Fds \cup {None} /\ raw[t] \in Fds \cup {None}
    BY <2>1, <2>2 DEF Connections, TypeOK
  <2>4. used = {p \in {"local", "kept"} : IF p = "local" THEN L # Closed ELSE K # Closed}
    BY DEF Places, Local, Kept
  <2>5. \A f : f \in {conn[t][p].fd : p \in used} <=> (L # Closed /\ f = L.fd) \/ (K # Closed /\ f = K.fd)
    <3>1. conn[t]["local"].fd = L.fd /\ conn[t]["kept"].fd = K.fd
      BY DEF Local, Kept
    <3> HIDE DEF L, K
    <3> QED BY <2>4, <3>1
  <2>6. /\ cs \in SUBSET Places /\ ("local" \in cs <=> L # Closed /\ L.context)
        /\ ("kept" \in cs <=> K # Closed /\ K.context) /\ (cs # {} <=> "local" \in cs \/ "kept" \in cs)
    BY DEF Places, Local, Kept
  <2>7. /\ ss \in SUBSET Places /\ ("local" \in ss <=> L # Closed /\ L.ssl)
        /\ ("kept" \in ss <=> K # Closed /\ K.ssl) /\ (ss # {} <=> "local" \in ss \/ "kept" \in ss)
    BY DEF Places, Local, Kept
  <2>8. /\ \A f \in Fds : holder[f] = t <=> f \in {raw[t], L.fd, K.fd}
        /\ contexts[t] = IF L.context \/ K.context THEN 1 ELSE 0
        /\ ssls[t] = IF L.ssl \/ K.ssl THEN 1 ELSE 0
    BY <2>1 DEF HeldInv
  <2>9. /\ L = Closed => L.fd = None /\ ~L.context /\ ~L.ssl
        /\ K = Closed => K.fd = None /\ ~K.context /\ ~K.ssl
    BY ClosedIs
  <2>10. pc[t] = "idle" => used = {} \/ (used = {"kept"} /\ session[t] = "open")
    BY <2>1, <2>4 DEF PlaceInv
  <2> HIDE DEF used, cs, ss, L, K
  <2>11. {f \in Fds : holder[f] = t} = ({raw[t]} \cup {conn[t][p].fd : p \in used}) \ {None}
    <3>1. ASSUME NEW f
          PROVE  f \in {g \in Fds : holder[g] = t}
                    <=> f # None /\ (f = raw[t] \/ f \in {conn[t][p].fd : p \in used})
      <4>1. f \in {conn[t][p].fd : p \in used} <=> (L # Closed /\ f = L.fd) \/ (K # Closed /\ f = K.fd)
        BY <2>5
      <4>2. f \in Fds /\ holder[f] = t <=> f # None /\ f \in {raw[t], L.fd, K.fd}
        BY <2>3, <2>8, FdsAreNotNone
      <4> QED BY <2>9, <4>1, <4>2
    <3> QED BY <3>1
  <2>12. Cardinality(cs) = IF cs = {} THEN 0 ELSE 1
    BY <2>2, <2>6, CountPlaces
  <2>13. Cardinality(ss) = IF ss = {} THEN 0 ELSE 1
    BY <2>2, <2>7, CountPlaces
  <2>14. contexts[t] = Cardinality(cs) /\ ssls[t] = Cardinality(ss)
    BY <2>6, <2>7, <2>8, <2>9, <2>12, <2>13
  <2>15. keys[t] = tooLong[t]
    BY <2>1 DEF KeyInv
  <2> QED BY <2>10, <2>11, <2>14, <2>15 DEF used, cs, ss
<1>2. ConnectInv => HeldByItsConnection
  BY <1>1 DEF HeldByItsConnection
<1> QED BY <1>2, ConnectHolds, PTL

\* Messages are taken from the shared stream in the order the peer sent them and none is
\* lost between the upgrade and the exchanges; a session has its four answers.
THEOREM AnswersComeInOrder == Spec => []AnswersInOrder
<1>1. ConnectInv => AnswersInOrder
  BY DEF ConnectInv, HeardInv, StreamInv, MessagesIn, AnswersInOrder
<1> QED BY <1>1, ConnectHolds, PTL

\* The error slot a thread reads tells how its own last call ended.
THEOREM SlotIsOwn == Spec => []SlotIsTheThreadsOwn
<1>1. ConnectInv => SlotIsTheThreadsOwn
  BY DEF ConnectInv, SlotInv, SlotIsTheThreadsOwn
<1> QED BY <1>1, ConnectHolds, PTL

=============================================================================
