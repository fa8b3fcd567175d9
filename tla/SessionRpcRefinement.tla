------------------------ MODULE SessionRpcRefinement ------------------------
(***************************************************************************)
(* SessionRpc implements SessionContract: the fate of a call is read off   *)
(* the server and the bytes on their way to it, the unfinished frame       *)
(* included, and what the caller was told off what the call returned or    *)
(* threw.                                                                  *)
(***************************************************************************)
EXTENDS SessionRpc

InFlight == {toServer[j].id : j \in DOMAIN toServer}
                \cup (IF rest \in Request THEN {rest.id} ELSE {})

FateOf == [i \in Ids |->
    IF i >= nextId THEN "none"
    ELSE IF i \in served THEN "executed"
    ELSE IF i \in InFlight THEN "undecided" ELSE "void"]

\* What the caller was told by the end of call i.
ToldOf == [i \in Ids |->
    IF ~Told(outcome[i]) THEN "nothing"
    ELSE IF outcome[i] = "ok" THEN "ok"
    ELSE IF outcome[i] = "outcome_unknown" THEN "unknown"
    ELSE IF i \in cut THEN "cut"
    ELSE IF Misled(i) THEN "garbled" ELSE "failed"]

Contract == INSTANCE SessionContract WITH
    Calls <- Ids, fate <- FateOf, told <- ToldOf

\* The session keeps its contract over every interleaving of calls, server and network.
KeepsContract == Contract!Spec
=============================================================================
