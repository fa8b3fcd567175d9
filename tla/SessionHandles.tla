--------------------------- MODULE SessionHandles ---------------------------
(***************************************************************************)
(* The cursors and table operations of a Session: what the handles in the  *)
(* application's hands say, against what the server holds for them.  A     *)
(* call is one step: SessionRpc shows that a call which is answered is     *)
(* answered by its own reply, so what is left of request() is how it ends. *)
(* A call refused before it is sent changes nothing and is a stutter.      *)
(*                                                                         *)
(* The C API wraps each Cursor and TableOperation in a heap object and     *)
(* forwards every call; its destroy functions free the object and tell the *)
(* server nothing.  The server (not under src/) keeps cursors and          *)
(* operations by id, gives rows out in order, and drops everything when    *)
(* the session ends, commits or rolls back; whether the commit that closes *)
(* an operation in autocommit mode ends the cursors is left open.          *)
(***************************************************************************)
EXTENDS Naturals, Sequences, SequencesExt

CONSTANTS
    CursorHandles,     \* the application's Cursor objects
    OperationHandles,  \* the application's TableOperation objects
    MaxOpens,          \* bound on what the session opens
    Rows               \* rows of a cursor's result

ASSUME SessionHandlesAssumption ==
    /\ CursorHandles \cap OperationHandles = {}
    /\ MaxOpens \in Nat /\ Rows \in Nat

Handles == CursorHandles \cup OperationHandles
Ids == 1 .. MaxOpens
None == 0

VARIABLES
    connected,   \* the session's connection is open: fd_ >= 0
    closed,      \* Session::Impl::closed_
    alive,       \* the Session object exists
    id,          \* Cursor::id and TableOperation::id, None for a closed handle
    serverUp,    \* the server still has the session
    opened,      \* ids the server has given out
    cursors,     \* cursors the server has open
    operations,  \* table operations the server has open
    position,    \* rows of each cursor that the server has given out
    got,         \* the rows fetch() returned to the application, by cursor
    reported,    \* the rows that were in replies the application saw fail, by cursor
    failed,      \* ids the application saw a call fail on, or that were open when it asked
                 \* for the end of a transaction
    unknown      \* ids no handle was ever given, or whose handle was destroyed

client == <<connected, closed, alive, id>>
server == <<serverUp, opened, cursors, operations, position>>
history == <<got, reported, failed, unknown>>
vars == <<client, server, history>>

\* What the server has open.
Held == cursors \cup operations

TypeOK ==
    /\ connected \in BOOLEAN /\ closed \in BOOLEAN /\ alive \in BOOLEAN
    /\ serverUp \in BOOLEAN
    /\ opened \in 0 .. MaxOpens
    /\ id \in [Handles -> 0 .. opened]
    /\ cursors \subseteq 1 .. opened /\ operations \subseteq 1 .. opened
    /\ position \in [Ids -> 0 .. Rows]
    /\ got \in [Ids -> Seq(1 .. Rows)]
    /\ reported \in [Ids -> SUBSET (1 .. Rows)]
    /\ failed \subseteq Ids /\ unknown \subseteq Ids

Init ==
    /\ connected = TRUE /\ closed = FALSE /\ alive = TRUE
    /\ id = [h \in Handles |-> None]
    /\ serverUp = TRUE /\ opened = 0 /\ cursors = {} /\ operations = {}
    /\ position = [i \in Ids |-> 0]
    /\ got = [i \in Ids |-> <<>>] /\ reported = [i \in Ids |-> {}]
    /\ failed = {} /\ unknown = {}

-----------------------------------------------------------------------------
(* How a request ends.                                                     *)

\* "ok"         the server executed it and the reply was decoded
\* "undecoded"  the server executed it; the reply's type, body or rows were refused
\* "refused"    the server answered with an Error frame
\* "unsent"     the frame could not be written
\* "lost"       the connection ended before the server executed the request
\* "lostReply"  the connection ended after it did
Ends == {"ok", "undecoded", "refused", "unsent", "lost", "lostReply"}
Executed(e) == e \in {"ok", "undecoded", "lostReply"}

\* The application makes a request that the server executes only if it is valid.
MayEnd(e, valid) ==
    /\ alive /\ ~closed
    /\ e # "unsent" => connected
    /\ e \notin {"unsent", "lost"} => serverUp
    /\ Executed(e) => valid

\* receiveFrame closes the connection when no reply comes; nothing else that fails does.
Ask(e, valid) ==
    /\ MayEnd(e, valid)
    /\ connected' = (connected /\ e \notin {"lost", "lostReply"})

\* The application saw a call on id i fail.
Note(i, e) == failed' = IF e = "ok" \/ i = None THEN failed ELSE failed \cup {i}

-----------------------------------------------------------------------------
(* Opening, using and closing handles.                                     *)

\* What the server does with a request to open one more of what handle h is for.
Begins(h, e) ==
    IF Executed(e)
    THEN /\ opened' = opened + 1
         /\ cursors' = IF h \in CursorHandles THEN cursors \cup {opened + 1} ELSE cursors
         /\ operations' = IF h \in OperationHandles THEN operations \cup {opened + 1}
                                                    ELSE operations
         /\ unknown' = IF e = "ok" THEN unknown ELSE unknown \cup {opened + 1}
    ELSE UNCHANGED <<opened, cursors, operations, unknown>>

\* Mutant: the reply is read whatever its type is.
OpenUnchecked(h, e) ==
    /\ id[h] = None /\ opened < MaxOpens
    /\ Ask(e, TRUE)
    /\ Begins(h, e)
    /\ id' = IF e \in {"ok", "refused"} THEN [id EXCEPT ![h] = opened + 1] ELSE id
    /\ UNCHANGED <<closed, alive, serverUp, position, got, reported, failed>>

\* The calls that open return a new handle, or throw: then no handle has the id the
\* server gave out.
Open(h, e) ==
    /\ id[h] = None /\ opened < MaxOpens
    /\ Ask(e, TRUE)
    /\ Begins(h, e)
    /\ id' = IF e = "ok" THEN [id EXCEPT ![h] = opened + 1] ELSE id
    /\ UNCHANGED <<closed, alive, serverUp, position, got, reported, failed>>

\* openPushedQuery and openTableScan; openTableInsert, openTableUpdate and openTableDelete.
OpenCursor(h, e) == h \in CursorHandles /\ Open(h, e)
OpenOperation(h, e) == h \in OperationHandles /\ Open(h, e)

\* The rows a fetch of at most n rows gives out.
Batch(i, n) ==
    LET left == Rows - position[i]
    IN  [j \in 1 .. IF n < left THEN n ELSE left |-> position[i] + j]

\* Mutant: a batch that is refused is returned as an empty one.
FetchHidesFailure(h, n, e) ==
    /\ Ask(e, id[h] \in cursors)
    /\ IF Executed(e)
       THEN LET batch == Batch(id[h], n)
            IN  /\ position' = [position EXCEPT ![id[h]] = @ + Len(batch)]
                /\ got' = [got EXCEPT ![id[h]] = @ \o IF e = "ok" THEN batch ELSE <<>>]
       ELSE UNCHANGED <<position, got>>
    /\ Note(id[h], IF e = "undecoded" THEN "ok" ELSE e)
    /\ UNCHANGED <<closed, alive, id, serverUp, opened, cursors, operations, reported, unknown>>

\* fetch and fetchIpc: the handle is not looked at, the server refuses an id it does not
\* know.  The rows of a reply that is refused after the server gave them out - a body or
\* a batch that does not decode - are gone: the next fetch goes on behind them.
Fetch(h, n, e) ==
    /\ Ask(e, id[h] \in cursors)
    /\ IF Executed(e)
       THEN LET batch == Batch(id[h], n)
            IN  /\ position' = [position EXCEPT ![id[h]] = @ + Len(batch)]
                /\ got' = [got EXCEPT ![id[h]] = @ \o IF e = "ok" THEN batch ELSE <<>>]
                /\ reported' = [reported EXCEPT ![id[h]] =
                                    @ \cup IF e = "ok" THEN {} ELSE ToSet(batch)]
       ELSE UNCHANGED <<position, got, reported>>
    /\ Note(id[h], e)
    /\ UNCHANGED <<closed, alive, id, serverUp, opened, cursors, operations, unknown>>

\* fetchNative: a batch that is not valid is refused in the same way.
FetchNative(h, n, e) == Fetch(h, n, e)

\* fetchPositioned, fetchPositionedIpc and fetchPositionedNative: the server looks rows
\* up and its position stays where it is.
FetchPositioned(h, e) ==
    /\ Ask(e, id[h] \in cursors)
    /\ Note(id[h], e)
    /\ UNCHANGED <<closed, alive, id, server, got, reported, unknown>>

\* insertRows, updateRows and deleteRows.  The server may end an operation it refuses a
\* write of.
Write(h, e) ==
    /\ Ask(e, id[h] \in operations)
    /\ operations' \in {operations, IF e = "refused" THEN operations \ {id[h]} ELSE operations}
    /\ Note(id[h], e)
    /\ UNCHANGED <<closed, alive, id, serverUp, opened, cursors, position, got, reported, unknown>>

\* What the server does with a request to close what handle h stands for.  Closing an
\* operation ends the transaction in autocommit mode, so the cursors may go with it, and
\* where that is refused the operation may.
EndsAtServer(h, e) ==
    CASE Executed(e) ->
            /\ operations' = operations \ {id[h]}
            /\ cursors' \in {cursors \ {id[h]}, IF h \in OperationHandles THEN {}
                                                ELSE cursors \ {id[h]}}
      [] e = "refused" /\ h \in OperationHandles ->
            operations' \in {operations, operations \ {id[h]}} /\ cursors' \in {cursors, {}}
      [] OTHER -> UNCHANGED <<cursors, operations>>

\* The application knows that it may have ended a transaction.
NoteClose(h, e) ==
    failed' = failed \cup (IF e = "ok" THEN {} ELSE {id[h]})
                     \cup (IF h \in OperationHandles THEN cursors ELSE {})

\* Mutants: the handle is reset whatever the reply; it is never reset.
CloseAnyway(h, e) ==
    /\ id[h] # None
    /\ Ask(e, id[h] \in Held)
    /\ EndsAtServer(h, e)
    /\ id' = [id EXCEPT ![h] = None]
    /\ NoteClose(h, e)
    /\ UNCHANGED <<closed, alive, serverUp, opened, position, got, reported, unknown>>
CloseKeepsId(h, e) ==
    /\ id[h] # None
    /\ Ask(e, id[h] \in Held)
    /\ EndsAtServer(h, e)
    /\ NoteClose(h, e)
    /\ UNCHANGED <<closed, alive, id, serverUp, opened, position, got, reported, unknown>>

\* The calls that close: the handle is reset when the server said Ok.
CloseHandle(h, e) ==
    /\ id[h] # None
    /\ Ask(e, id[h] \in Held)
    /\ EndsAtServer(h, e)
    /\ id' = IF e = "ok" THEN [id EXCEPT ![h] = None] ELSE id
    /\ NoteClose(h, e)
    /\ UNCHANGED <<closed, alive, serverUp, opened, position, got, reported, unknown>>

CloseCursor(h, e) == h \in CursorHandles /\ CloseHandle(h, e)
CloseOperation(h, e) == h \in OperationHandles /\ CloseHandle(h, e)

\* sessiongw_c_cursor_destroy, sessiongw_c_operation_destroy.
DestroyHandle(h) ==
    /\ id[h] # None
    /\ id' = [id EXCEPT ![h] = None]
    /\ unknown' = unknown \cup {id[h]}
    /\ UNCHANGED <<connected, closed, alive, server, got, reported, failed>>

-----------------------------------------------------------------------------
(* The session.                                                            *)

\* describeTable, getTableVersion and setAutocommit: nothing becomes of the handles.
AskOnly(e) ==
    /\ Ask(e, TRUE)
    /\ UNCHANGED <<closed, alive, id, server, history>>

\* commit and rollback leave every handle as it is.  At the server both end the cursors,
\* a rollback ends the operations too; a commit with an open operation is refused and
\* ends everything.
Boundary(kind, e) ==
    /\ Ask(e, kind = "commit" => operations = {})
    /\ IF Executed(e) \/ (kind = "commit" /\ e = "refused")
       THEN cursors' = {} /\ operations' = {}
       ELSE UNCHANGED <<cursors, operations>>
    /\ failed' = failed \cup Held
    /\ UNCHANGED <<closed, alive, id, serverUp, opened, position, got, reported, unknown>>

\* The session ends at the server.
ServerForgets == serverUp' = FALSE /\ cursors' = {} /\ operations' = {}

\* close(): it gives up the connection when the server said Ok.
Close(e) ==
    /\ MayEnd(e, TRUE)
    /\ closed' = (e = "ok")
    /\ connected' = (connected /\ e \in {"undecoded", "refused", "unsent"})
    /\ IF Executed(e) THEN ServerForgets ELSE UNCHANGED <<serverUp, cursors, operations>>
    /\ UNCHANGED <<alive, id, opened, position, history>>

\* Mutant: the connection is left to itself when the destructor's close() fails.
DestroyLeavesConnection(e) ==
    /\ alive /\ (closed \/ MayEnd(e, TRUE))
    /\ alive' = FALSE
    /\ connected' = (connected /\ ~closed /\ e \in {"undecoded", "refused", "unsent"})
    /\ IF ~closed /\ Executed(e) THEN ServerForgets ELSE UNCHANGED <<serverUp, cursors, operations>>
    /\ UNCHANGED <<closed, id, opened, position, history>>

\* ~Session: it closes the session if nobody did, and the connection however that ends.
\* A session that another one is moved to is dropped without a Close: "unsent".  A
\* destructor that waits for an answer for ever is this step not taken (SessionRpc).
Destroy(e) ==
    /\ alive /\ (closed \/ MayEnd(e, TRUE))
    /\ alive' = FALSE /\ connected' = FALSE
    /\ IF ~closed /\ Executed(e) THEN ServerForgets ELSE UNCHANGED <<serverUp, cursors, operations>>
    /\ UNCHANGED <<closed, id, opened, position, history>>

\* The server loses the connection, or reads the end of the stream.
ServerLeaves ==
    /\ serverUp
    /\ ServerForgets
    /\ UNCHANGED <<client, opened, position, history>>

Next ==
    \/ \E e \in Ends :
          \/ \E h \in CursorHandles :
                \/ OpenCursor(h, e) \/ CloseCursor(h, e) \/ FetchPositioned(h, e)
                \/ \E n \in 1 .. Rows : Fetch(h, n, e) \/ FetchNative(h, n, e)
          \/ \E h \in OperationHandles :
                OpenOperation(h, e) \/ Write(h, e) \/ CloseOperation(h, e)
          \/ AskOnly(e)
          \/ \E kind \in {"commit", "rollback"} : Boundary(kind, e)
          \/ Close(e) \/ Destroy(e)
    \/ \E h \in Handles : DestroyHandle(h)
    \/ ServerLeaves

Spec == Init /\ [][Next]_vars

\* The server notices that its client closed the connection.
FairSpec == Spec /\ WF_vars(~connected /\ ServerLeaves)

-----------------------------------------------------------------------------
(* Properties.                                                             *)

\* A handle stands for at most one thing, and what a connected session has open at the
\* server is in some handle - so that it can be closed - unless the handle was destroyed
\* or the reply that carried its id was refused.  closeCursor and closeOperation reset a
\* handle only when the server let go.
NothingLeftBehind ==
    /\ \A h, g \in Handles : id[h] # None /\ id[h] = id[g] => h = g
    /\ connected /\ serverUp =>
          Held \subseteq {id[h] : h \in Handles} \cup unknown

\* A handle the application still has is good: the server has it open, unless a call on
\* it failed or the end of a transaction was asked for while it was open - by commit or
\* rollback, or, for a cursor, by closing an operation, which may commit.
StaleOnlyAfterFailure ==
    connected /\ serverUp =>
        \A h \in Handles : id[h] # None /\ id[h] \notin failed =>
            id[h] \in IF h \in CursorHandles THEN cursors ELSE operations

\* The rows fetch() returns come in order and once, and a row the server gave out and
\* the application did not get was in a reply the application saw fail: going on after
\* a failed fetch skips rows, and nothing else does.
RowsInOrder ==
    \A i \in Ids :
        /\ \A j, k \in DOMAIN got[i] : j < k => got[i][j] < got[i][k]
        /\ ToSet(got[i]) \cup reported[i] = 1 .. position[i]
        /\ ToSet(got[i]) \cap reported[i] = {}
        /\ reported[i] # {} => i \in failed

\* Whatever is open when a session object is gone, by close() or not, the server drops: the
\* ids no handle has any more included.
DestroyedSessionIsForgotten == ~alive ~> (~serverUp /\ Held = {})
=============================================================================
