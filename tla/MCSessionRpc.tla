---------------------------- MODULE MCSessionRpc ----------------------------
(* SessionRpc on small instances. *)
EXTENDS SessionRpc

\* Every kind of call that ends a transaction, adds to it or ends the session; the
\* server stays in autocommit mode (MCSessionRpcRefinement takes every kind).
TransactionKinds == {"write", "closeOperation", "commit", "rollback", "close"}
\* A refusal, and the category the SDK itself treats specially.
Refusals == {"transaction_conflict", "transport_error"}
\* Bytes that do not decode; a read that fails on the transport is ReceiveFails.
SomeCarrier == {"protocol_error"}
=============================================================================
