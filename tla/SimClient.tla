------------------------------ MODULE SimClient ------------------------------
(***************************************************************************)
(* sessiongw_sim_client: one command a process, against a SessionGW server *)
(* of its own.  A command is a script of requests, each sent when the one  *)
(* before was answered; whatever goes wrong ends the process with status 3 *)
(* and a dropped connection.  Replies are not matched to requests by id,   *)
(* and some of their types are not looked at.                              *)
(*                                                                         *)
(* Rows are numbered in the order of the --row (or --row-handle) options.  *)
(* The server is external: it answers in order, holds what a session has   *)
(* open, keeps writes pending until a transaction ends, and releases all   *)
(* of it when the session ends.                                            *)
(***************************************************************************)
EXTENDS Naturals, Sequences

CONSTANTS
    MaxRows,   \* bound on the rows given on the command line
    Wrap       \* 2^64: --rows-per-insert-batch and beginRow are size_t

\* Every row is an argument of the process: there are far fewer than 2^63 of them.
ASSUME SimClientAssumption == MaxRows \in Nat /\ Wrap \in Nat \ {0} /\ 2 * MaxRows <= Wrap

Commands == {"ping", "describe", "query", "scan", "insert", "delete", "update"}
Settings == {"unset", "on", "off"}
Writes == {"insert", "delete", "update"}
Statuses == {"none", "zero", "three"}

VARIABLES
    options,   \* what the parse functions return
    script,    \* the requests still to be sent, or <<>>
    beginRow,  \* insertRows' loop variable
    request,   \* the request on its way to the server, or None
    reply,     \* the answer on its way back, or None
    waiting,   \* the client is in receiveFrame()
    status,    \* how the process ended
    link,      \* "none" before connecting, "up", or "down"
    server,    \* the server's session
    odd        \* an answer of a type the request does not have was sent

vars == <<options, script, beginRow, request, reply, waiting, status, link, server, odd>>

None == [step |-> "none", rows |-> <<>>, type |-> "none"]
NoOptions == [command |-> "none", autocommit |-> "unset", end |-> "none",
              rows |-> 0, batch |-> 0, skip |-> FALSE]
NoSession == [live |-> FALSE, autocommit |-> TRUE, open |-> 0, pending |-> <<>>, durable |-> <<>>]

Init ==
    /\ options = NoOptions
    /\ script = <<>>
    /\ beginRow = 0
    /\ request = None /\ reply = None /\ waiting = FALSE
    /\ status = "none"
    /\ link = "none"
    /\ server = NoSession
    /\ odd = FALSE

-----------------------------------------------------------------------------
(* The command line.                                                       *)

SetAutocommit(o) == IF o.autocommit = "unset" THEN <<>> ELSE <<"setAutocommit">>

\* The request that ends the transaction, behind CloseOperation.
Transaction(o) == IF o.end = "none" THEN <<>> ELSE <<o.end>>

InsertScript(o) == SetAutocommit(o) \o <<"openOperation", "insertRows", "closeOperation">> \o Transaction(o)
DeleteScript(o) == SetAutocommit(o) \o <<"openOperation", "writeRows", "closeOperation">> \o Transaction(o)

\* updateRows() has the transaction options parsed and sends none of them.
UpdateScript == <<"openOperation", "writeRows", "closeOperation">>

QueryScript(o) == <<"openCursor", "fetch">> \o (IF o.skip THEN <<>> ELSE <<"closeCursor">>)
ScanScript == <<"openCursor", "fetch", "closeCursor">>

\* The requests of a command: enterAndHello() before it, closeSessionGateway() after.
Script(o) ==
    <<"enter", "hello">> \o
    (CASE o.command = "ping"     -> <<"ping">>
       [] o.command = "describe" -> <<"describeTable", "getTableVersion">>
       [] o.command = "query"    -> QueryScript(o)
       [] o.command = "scan"     -> ScanScript
       [] o.command = "insert"   -> InsertScript(o)
       [] o.command = "delete"   -> DeleteScript(o)
       [] o.command = "update"   -> UpdateScript)
    \o <<"close">>

\* The command lines the program is given: the transaction options may be given together.
CommandLines ==
    [command : Commands, autocommit : Settings, commit : BOOLEAN, rollback : BOOLEAN,
     rows : 0 .. MaxRows, handles : 0 .. MaxRows, batch : 0 .. Wrap - 1, skip : BOOLEAN]

\* What the parse function of the command refuses.
Refused(line) ==
    /\ line.command \in Writes
    /\ \/ line.commit /\ line.rollback
       \/ line.command \in {"insert", "update"} /\ line.rows = 0
       \/ line.command = "delete" /\ line.handles = 0
       \/ line.command = "update" /\ line.handles # line.rows

\* Mutant: no --rows-per-insert-batch stays zero.
BatchAsGiven(line) == line.batch

\* Without --rows-per-insert-batch one batch takes all the rows.
BatchOf(line) == IF line.batch = 0 THEN line.rows ELSE line.batch

\* How the command line has the transaction end.
EndOf(line) ==
    IF line.commit THEN "commit" ELSE IF line.rollback THEN "rollback" ELSE "none"

\* main() and the parse functions: options for a command, or status 3.
\* Options a command has no use for are left at one value, to no effect.
Parse ==
    /\ status = "none" /\ options = NoOptions
    /\ \E line \in CommandLines :
          /\ line.command \notin Writes => line.autocommit = "unset" /\ ~line.commit
                                           /\ ~line.rollback /\ line.rows = 0
          /\ line.command \in {"delete", "update"} \/ line.handles = 0
          /\ line.command = "insert" \/ line.batch = 0
          /\ line.command = "query" \/ ~line.skip
          /\ LET o == [command |-> line.command, autocommit |-> line.autocommit,
                       end |-> EndOf(line),
                       rows |-> IF line.command = "delete" THEN line.handles ELSE line.rows,
                       batch |-> BatchOf(line), skip |-> line.skip]
             IN IF Refused(line)
                THEN status' = "three" /\ UNCHANGED <<options, script>>
                ELSE options' = o /\ script' = Script(o) /\ UNCHANGED status
    /\ UNCHANGED <<beginRow, request, reply, waiting, link, server, odd>>

-----------------------------------------------------------------------------
(* The client.                                                             *)

\* Mutant: an exception leaves the socket open.
FailUndropped ==
    /\ status' = "three" /\ script' = <<>> /\ waiting' = FALSE
    /\ request' = request /\ reply' = reply /\ link' = link
    /\ UNCHANGED <<options, beginRow, server, odd>>

\* An exception reaches main(): the connection's destructor closes the socket.
Fail ==
    /\ status' = "three" /\ script' = <<>> /\ waiting' = FALSE
    /\ request' = None /\ reply' = None /\ link' = "down"
    /\ UNCHANGED <<options, beginRow, server, odd>>

\* connectAndLogin(): a session on the server, or an exception.
Connect ==
    /\ status = "none" /\ script # <<>> /\ link = "none"
    /\ \/ /\ link' = "up"
          /\ server' = [server EXCEPT !.live = TRUE]
          /\ UNCHANGED <<options, script, beginRow, request, reply, waiting, status, odd>>
       \/ Fail

\* The rows encodeInsertRowsPayloadInto() takes: beginRow to endRow.
EndRow == LET last == (beginRow + options.batch) % Wrap
          IN IF options.rows < last THEN options.rows ELSE last
RowsSent ==
    CASE Head(script) = "insertRows" -> [r \in 1 .. EndRow - beginRow |-> beginRow + r]
      [] Head(script) = "writeRows"  -> [r \in 1 .. options.rows |-> r]
      [] OTHER                       -> <<>>

\* Encoding a row's values may throw, and so may encoding the columns of an insert or
\* update.
Encodes(step) ==
    \/ step \in {"insertRows", "writeRows"}
    \/ step = "openOperation" /\ options.command \in {"insert", "update"}

\* sendFrame(): the request goes out.  A connection found down throws.
Send ==
    /\ status = "none" /\ script # <<>> /\ link # "none" /\ ~waiting
    /\ \/ /\ link = "up"
          /\ request' = [step |-> Head(script), rows |-> RowsSent, type |-> "request"]
          /\ waiting' = TRUE
          /\ UNCHANGED <<options, script, beginRow, reply, status, link, server, odd>>
       \/ /\ link = "down" \/ Encodes(Head(script))
          /\ Fail

\* The requests whose answer's type is not looked at unless it is an Error.
Unchecked(command, step) ==
    \/ command = "delete" /\ step \in {"setAutocommit", "closeOperation", "commit", "rollback"}
    \/ command = "update" /\ step = "closeOperation"

\* Mutant: only an Error is looked for.
AcceptsButErrors == reply.type # "error"

\* The check of an answer: its type, or no more than that it is no Error.
Accepts ==
    \/ reply.type = "expected"
    \/ reply.type = "odd" /\ Unchecked(options.command, Head(script))

\* Mutant: the next batch starts with the last row of this one.
NextRowRepeats == (beginRow + options.batch - 1) % Wrap

\* beginRow += options.rowsPerInsertBatch
NextRow == (beginRow + options.batch) % Wrap

\* The requests whose answer's payload is read: reading may throw, and so may
\* the --expect options of a fetch.
ReadsAnswer(step) ==
    step \in {"describeTable", "getTableVersion", "openCursor", "fetch",
              "openOperation", "insertRows", "writeRows"}

\* receiveFrame() returns: on to the next request.  insertRows() stays in its
\* loop while rows are left.
Receive ==
    /\ waiting /\ reply # None
    /\ \/ /\ Accepts
          /\ LET looping == Head(script) = "insertRows"
             IN /\ beginRow' = IF looping THEN NextRow ELSE beginRow
                /\ script' = IF looping /\ NextRow < options.rows THEN script ELSE Tail(script)
          /\ reply' = None /\ waiting' = FALSE
          /\ UNCHANGED <<options, request, status, link, server, odd>>
       \/ /\ ~Accepts \/ ReadsAnswer(Head(script))
          /\ Fail

\* receiveFrame() finds the connection closed.
ReceiveNothing == waiting /\ reply = None /\ link = "down" /\ Fail

\* The command returns 0 and its connection is destroyed.
Finish ==
    /\ status = "none" /\ options # NoOptions /\ script = <<>>
    /\ status' = "zero"
    /\ link' = "down"
    /\ UNCHANGED <<options, script, beginRow, request, reply, waiting, server, odd>>

-----------------------------------------------------------------------------
(* The server and the network.                                             *)

\* The session's end: cursors and operations are released, pending rows rolled back.
Ended(s) == [s EXCEPT !.live = FALSE, !.open = 0, !.pending = <<>>]
Committed(s) == [s EXCEPT !.durable = s.durable \o s.pending, !.pending = <<>>]

\* What executing a request does to the session.
Executed(s, r) ==
    CASE r.step = "setAutocommit"                  -> [s EXCEPT !.autocommit = (options.autocommit = "on")]
      [] r.step \in {"openCursor", "openOperation"} -> [s EXCEPT !.open = 1]
      [] r.step \in {"insertRows", "writeRows"}     -> [s EXCEPT !.pending = s.pending \o r.rows]
      [] r.step = "closeCursor"                    -> [s EXCEPT !.open = 0]
      [] r.step = "closeOperation"                 ->
            LET t == [s EXCEPT !.open = 0] IN IF s.autocommit THEN Committed(t) ELSE t
      [] r.step = "commit"                         -> Committed(s)
      [] r.step = "rollback"                       -> [s EXCEPT !.pending = <<>>]
      [] r.step = "close"                          -> Ended(s)
      [] OTHER                                     -> s

\* A request is executed and answered, refused with an Error, or answered with
\* a message of another type without being executed.
Serve ==
    /\ server.live /\ request # None
    /\ \E type \in {"expected", "error", "odd"} :
          /\ reply' = [step |-> request.step, rows |-> <<>>, type |-> type]
          /\ server' = IF type = "expected" THEN Executed(server, request) ELSE server
          /\ odd' = (odd \/ type = "odd")
    /\ request' = None
    /\ UNCHANGED <<options, script, beginRow, waiting, status, link>>

\* The connection breaks and what is on its way is lost.
Lose ==
    /\ link = "up" /\ status = "none"
    /\ link' = "down" /\ request' = None /\ reply' = None
    /\ UNCHANGED <<options, script, beginRow, waiting, status, server, odd>>

\* The server finds the connection gone.
Disconnected ==
    /\ server.live /\ link = "down"
    /\ server' = Ended(server)
    /\ UNCHANGED <<options, script, beginRow, request, reply, waiting, status, link, odd>>

\* The process has ended and so has its session.
Over == status # "none" /\ ~server.live /\ UNCHANGED vars

Client == Parse \/ Connect \/ Send \/ Receive \/ ReceiveNothing \/ Finish
Next == Client \/ Serve \/ Lose \/ Disconnected \/ Over

\* A process that can run does, the server answers, and the connection's end is
\* seen; breaking the connection is nobody's duty.
Fairness == WF_vars(Client) /\ WF_vars(Serve) /\ WF_vars(Disconnected)
Spec == Init /\ [][Next]_vars /\ Fairness

-----------------------------------------------------------------------------
Rows(n) == [r \in 1 .. n |-> r]

\* Every variable holds a value of its kind, nothing is on its way to a client that is
\* not waiting for it, and the loop over the batches stays within the rows: where it adds
\* the size of a batch to its position the sum does not wrap around.
TypeOK ==
    /\ options.rows \in 0 .. MaxRows /\ options.batch \in 0 .. Wrap - 1
    /\ beginRow \in 0 .. Wrap - 1
    /\ status \in Statuses /\ link \in {"none", "up", "down"}
    /\ server.pending \in Seq(1 .. MaxRows) /\ server.durable \in Seq(1 .. MaxRows)
    /\ server.open \in 0 .. 1
    /\ reply # None => waiting /\ request = None /\ reply.step = Head(script)
    /\ script # <<>> /\ Head(script) = "insertRows" =>
          beginRow < options.rows /\ beginRow + options.batch < Wrap

\* Whatever breaks, and whichever batch it breaks in, the rows of a command are
\* kept all of them, each once and in order, or none of them.
AllOrNothing == server.durable \in {<<>>, Rows(options.rows)}

\* What the options of a write command ask for: its rows are to be kept if the closing
\* of its operation commits them (the server's default) or its --commit does.
Asked ==
    IF options.command \in Writes /\ (options.autocommit # "off" \/ options.end = "commit")
    THEN Rows(options.rows) ELSE <<>>

\* Does the program do anything about them?  An update takes the transaction options and
\* leaves them at that, which makes a difference where they ask for no rows to be kept.
Heeded == options.command = "update" => Asked = Rows(options.rows)

\* deleteRows() and updateRows() are at the mercy of the types they do not look at.
WellAnswered == odd => options.command = "insert"

\* Status 0 means that the rows kept are those the options ask for, and rows nobody
\* asked to keep never are, however the process ends - except by an update that is given
\* --autocommit false and no --commit: its status 0 means that all its rows are kept.
KeptAsAsked ==
    WellAnswered =>
        /\ Heeded /\ (status = "zero" \/ Asked = <<>>) => server.durable = Asked
        /\ ~Heeded /\ status = "zero" => server.durable = Rows(options.rows)

\* Every command ends, and nothing of it stays behind on the server.
EndsAndReleases == <>[](status # "none" /\ ~server.live /\ server.open = 0 /\ server.pending = <<>>)

=============================================================================
