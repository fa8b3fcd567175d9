----------------------- MODULE MCSessionRpcRefinement -----------------------
(* The refinement on a small instance. *)
EXTENDS SessionRpcRefinement

AllKinds == Kinds

\* The category the SDK itself treats specially, and one off the wire's range, which
\* the client reads as protocol_error.
BothWire == {"transport_error", "outcome_unknown"}
AllCarrier == {"protocol_error", "resource_limit", "transport_error"}
=============================================================================
