--------------------------- MODULE SessionContract ---------------------------
(***************************************************************************)
(* What a Session promises the application that calls it, whatever the     *)
(* connection does.  Every call is numbered; the server executes it, or    *)
(* never will; and the caller is told one of                               *)
(*   ok       the server executed it,                                      *)
(*   failed   an error with a category that says what happened,            *)
(*   unknown  OUTCOME_UNKNOWN: a completion the server may have executed,  *)
(*   cut      an error about a request that was sent in part,              *)
(*   garbled  an error about a reply that says nothing about the call.     *)
(* A completion that failed was not executed and never will be; a write    *)
(* that failed never becomes durable, and one that was sent in part only   *)
(* if a later request was, too; a commit that is executed makes durable    *)
(* every write the caller could count on.                                  *)
(***************************************************************************)
EXTENDS Naturals

CONSTANTS
    Calls,        \* the numbers of calls: 1 .. n
    Kinds,        \* kinds of call
    Completions   \* the kinds with an uncertain outcome

VARIABLES
    kind,      \* kind of each call, "none" before it is made
    fate,      \* "none", "undecided", "executed" or "void"
    told,      \* "nothing", "ok", "failed", "unknown", "cut" or "garbled"
    durable    \* writes that outlive the session

vars == <<kind, fate, told, durable>>

Init ==
    /\ kind = [i \in Calls |-> "none"]
    /\ fate = [i \in Calls |-> "none"]
    /\ told = [i \in Calls |-> "nothing"]
    /\ durable = {}

\* The writes a commit numbered c must make durable: acknowledged, and followed
\* by nothing but calls that succeeded and were no rollback.
Owed(c) ==
    {w \in 1 .. c - 1 :
        /\ kind[w] = "write" /\ told[w] = "ok"
        /\ \A i \in w + 1 .. c - 1 : told[i] = "ok" /\ kind[i] # "rollback"}

\* A call is made: it is under way, or it never reaches the server.
Issue(i, k) ==
    /\ fate[i] = "none" /\ \A j \in 1 .. i - 1 : fate[j] # "none"
    /\ kind' = [kind EXCEPT ![i] = k]
    /\ fate' \in {[fate EXCEPT ![i] = f] : f \in {"undecided", "void"}}
    /\ UNCHANGED <<told, durable>>

\* A call is made and fails at once; what was sent of it may reach the server yet.
IssueInVain(i, k) ==
    /\ fate[i] = "none" /\ \A j \in 1 .. i - 1 : fate[j] # "none"
    /\ kind' = [kind EXCEPT ![i] = k]
    /\ \E f \in {"void", "undecided"}, v \in {"failed", "unknown", "cut"} :
          /\ v = "unknown" <=> k \in Completions
          /\ v = "failed" => f = "void"
          /\ fate' = [fate EXCEPT ![i] = f]
          /\ told' = [told EXCEPT ![i] = v]
    /\ UNCHANGED durable

\* The server executes a call.  Only a completion makes writes durable, and none
\* that the caller was told had failed.
Execute(i) ==
    /\ fate[i] = "undecided"
    /\ kind[i] \in Completions => told[i] # "failed"
    /\ fate' = [fate EXCEPT ![i] = "executed"]
    /\ durable \subseteq durable'
    /\ \A w \in durable' \ durable :
          /\ kind[i] \in Completions
          /\ w \in Calls /\ kind[w] = "write" /\ fate[w] = "executed" /\ told[w] # "failed"
          /\ told[w] = "cut" => \E j \in Calls : j > w /\ told[j] \in {"cut", "unknown"}
    /\ kind[i] = "commit" => Owed(i) \subseteq durable'
    /\ UNCHANGED <<kind, told>>

\* Calls under way that the server will not execute.
Void(S) ==
    /\ S # {} /\ \A i \in S : fate[i] = "undecided"
    /\ fate' = [i \in Calls |-> IF i \in S THEN "void" ELSE fate[i]]
    /\ UNCHANGED <<kind, told, durable>>

\* The caller is told of the call.
MayTell(i, v) ==
    CASE v = "ok"      -> fate[i] = "executed"
      [] v = "failed"  -> /\ kind[i] \in Completions => fate[i] = "void"
                          /\ i \notin durable
      [] v = "unknown" -> kind[i] \in Completions
      [] v = "garbled" -> TRUE

Tell(i, v) ==
    /\ fate[i] # "none" /\ told[i] = "nothing"
    /\ MayTell(i, v)
    /\ told' = [told EXCEPT ![i] = v]
    /\ UNCHANGED <<kind, fate, durable>>

Next ==
    \/ \E i \in Calls, k \in Kinds : Issue(i, k) \/ IssueInVain(i, k)
    \/ \E i \in Calls : Execute(i)
    \/ \E S \in SUBSET Calls : Void(S)
    \/ \E i \in Calls, v \in {"ok", "failed", "unknown", "garbled"} : Tell(i, v)

Spec == Init /\ [][Next]_vars
=============================================================================
