------------------------ MODULE SessionRpcInvariant ------------------------
(***************************************************************************)
(* An inductive invariant of SessionRpc.  What makes the calls' outcomes   *)
(* trustworthy is that request() keeps the two directions of the           *)
(* connection in step: as long as the connection is open and no write was  *)
(* cut short, at most one request is on its way or answered, and it is the *)
(* one the client waits for.  Behind a write that was cut short the two    *)
(* are out of step for good, and what saves the caller is that the next    *)
(* reply can only be another call's, which closes the connection.          *)
(***************************************************************************)
EXTENDS SessionRpc

\* Numbers are given in order, and only the call in progress is undecided.
NumberingInv ==
    /\ waiting # 0 => /\ open /\ waiting = nextId - 1
                      /\ outcome[waiting] = "pending" /\ heard[waiting] = "nothing"
    /\ \A i \in Ids : outcome[i] = "pending" => i = waiting
    /\ \A i \in Ids : i >= nextId => /\ outcome[i] = "none" /\ kind[i] = "none"
                                     /\ heard[i] = "nothing"
    /\ \A i \in Ids : i < nextId => kind[i] # "none" /\ outcome[i] # "none"
    /\ \A i \in served : i < nextId
    /\ \A i \in cut : i < nextId /\ i # waiting /\ heard[i] = "nothing"

\* A request that was written and not yet executed.
Outstanding(r) ==
    /\ r.id < nextId /\ r.id \notin served
    /\ kind[r.id] = r.kind /\ outcome[r.id] # "ok"

\* Requests are on their way in the order of their calls, not executed yet, and none but
\* the last was written whole: it is the one a client that is still connected waits for.
RequestInv ==
    /\ \A j \in DOMAIN toServer :
          /\ Outstanding(toServer[j])
          /\ toServer[j].id \notin cut =>
                /\ j = Len(toServer)
                /\ open => toServer[j].id = waiting
    /\ \A j, l \in DOMAIN toServer : j < l => toServer[j].id < toServer[l].id
    /\ rest \in Request =>
          /\ Outstanding(rest) /\ rest.id \in cut
          /\ \A j \in DOMAIN toServer : toServer[j].id < rest.id
    /\ waiting \in served => toServer = <<>>
    /\ cut = {} => /\ rest = Nothing /\ Len(toServer) <= 1
                   /\ toServer # <<>> /\ open => waiting # 0

\* What the client may read: nothing of a call that was not made, and success only of one
\* the server executed.
ReplyInv ==
    /\ ~open => toClient = <<>>
    /\ \A j \in DOMAIN toClient : toClient[j].id < nextId
    /\ \A j \in DOMAIN toClient : toClient[j].type = "result" /\ toClient[j].id # 0
                                     => toClient[j].id \in served
    /\ \A j \in DOMAIN toClient : toClient[j].type = "bad" => toClient[j].category # "ok"

\* In step: the server's own reply is on its way only to the call that waits for it, once,
\* behind nothing that this call could take for it, and it says what the server did.
InStepInv ==
    cut = {} =>
      /\ toServer # <<>> => \A j \in DOMAIN toClient :
                                toClient[j].id # waiting /\ ~toClient[j].genuine
      /\ \A j \in DOMAIN toClient : toClient[j].genuine =>
            /\ waiting # 0 /\ toClient[j].id = waiting
            /\ \/ toClient[j].type = "result" /\ toClient[j].category = "ok"
               \/ toClient[j].type = "error" /\ waiting \notin served
            /\ \A l \in DOMAIN toClient : l # j => ~toClient[l].genuine
            /\ \A l \in 1 .. j - 1 : toClient[l].id # waiting

\* Out of step: before the reply to the call in progress comes one to another call, and
\* between calls the server has something left that is not the next request.
OutOfStepInv ==
    /\ cut # {} /\ waiting # 0 =>
          /\ \A j \in DOMAIN toClient : toClient[j].id = waiting =>
                \E l \in 1 .. j - 1 : toClient[l].id # waiting
          /\ toServer # <<>> /\ toServer[1].id = waiting =>
                \E l \in DOMAIN toClient : toClient[l].id # waiting
    /\ cut # {} /\ waiting = 0 /\ open /\ serverUp =>
          toServer # <<>> \/ rest # Nothing \/ toClient # <<>>

\* One write was cut short: its frame is still unfinished when the next call begins, and
\* that call only completes it.
CutOnceInv ==
    \A i \in cut : cut = {i} =>
      /\ waiting # 0 =>
            /\ waiting \notin served
            /\ \A j \in DOMAIN toServer : toServer[j].id # waiting
      /\ waiting = 0 /\ open =>
            /\ toServer = <<>>
            /\ serverUp => rest \in Request \cup {Beheaded}
            /\ \A j \in DOMAIN toClient : ~toClient[j].genuine

\* A completion that failed is never executed.
CompletionInv ==
    \A i \in Ids : kind[i] \in Completions /\ DefiniteFailure(outcome[i]) /\ ~Misled(i) =>
        /\ i \notin served
        /\ \A j \in DOMAIN toServer : toServer[j].id # i
        /\ rest \in Request => rest.id # i

\* A write that failed is never made durable: nothing that could do it comes behind it.
WriteInv ==
    /\ staged \subseteq served /\ durable \subseteq served
    /\ \A i \in Ids : kind[i] = "write" /\ outcome[i] = "pending" => i \notin durable
    /\ \A i \in Ids : kind[i] = "write" /\ DefiniteFailure(outcome[i])
                         /\ heard[i] # "damaged" /\ ~(i \in cut /\ \E j \in cut : j > i) =>
          /\ i \notin durable
          /\ i \in staged => toServer = <<>> /\ (open => waiting # 0 /\ cut # {})
          /\ \A j \in DOMAIN toServer : toServer[j].id = i =>
                j = Len(toServer) /\ (open => waiting # 0 /\ cut # {})

OutcomeInv == CompletionInv /\ WriteInv

IInv == /\ NumberingInv /\ RequestInv /\ ReplyInv /\ InStepInv /\ OutOfStepInv
        /\ CutOnceInv /\ SuccessIsServed /\ OutcomeInv

\* Which categories arise, and that only a completion's outcome is unknown.
CategoryInv ==
    /\ \A j \in DOMAIN toClient : toClient[j].type = "result" =>
                                    toClient[j].category \in {"ok", "protocol_error"}
    /\ \A j \in DOMAIN toClient : toClient[j].type = "bad" => toClient[j].category \in ServerCategories
    /\ \A i \in Ids : outcome[i] = "outcome_unknown" => kind[i] \in Completions

\* The writes a commit numbered c has to make durable when calls of kinds k had the
\* outcomes o: acknowledged, and followed by nothing but calls that succeeded and were
\* no rollback.
Counted(c, k, o) ==
    {w \in 1 .. c - 1 :
        /\ k[w] = "write" /\ o[w] = "ok"
        /\ \A i \in w + 1 .. c - 1 : o[i] = "ok" /\ k[i] # "rollback"}
CountedOn(c) == Counted(c, kind, outcome)

\* The server stages and commits nothing but writes.
StoreInv == \A w \in staged \cup durable : kind[w] = "write"

\* Nothing succeeds behind a request that is still on its way.
BehindInv ==
    \A j \in DOMAIN toServer, i \in Ids : i >= toServer[j].id => outcome[i] # "ok"

\* A server that still has the session holds the writes counted on, staged or durable:
\* for a request on its way to it, for the next call, and for a call it has executed
\* and the client still waits for.  A commit it has executed made them durable.
CountedInv ==
    /\ serverUp => \A j \in DOMAIN toServer : CountedOn(toServer[j].id) \subseteq staged \cup durable
    /\ serverUp /\ rest \in Request => CountedOn(rest.id) \subseteq staged \cup durable
    /\ serverUp /\ waiting = 0 => CountedOn(nextId) \subseteq staged \cup durable
    /\ serverUp /\ waiting \in served /\ cut = {} =>
          /\ kind[waiting] # "rollback" => CountedOn(waiting) \subseteq staged \cup durable
          /\ kind[waiting] = "write" => waiting \in staged \cup durable
    /\ \A c \in served : kind[c] = "commit" => CountedOn(c) \subseteq durable

TransactionInv == StoreInv /\ BehindInv /\ CountedInv

\* What SessionContract relies on beyond IInv.
ContractInv == CategoryInv /\ TransactionInv
=============================================================================
