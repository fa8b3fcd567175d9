-------------------------- MODULE MCSessionHandles --------------------------
(* Two cursors and an operation, used in a session that opens two things.  *)
EXTENDS SessionHandles

CONSTANTS c1, c2, o1

Cursors == {c1, c2}
Operations == {o1}
=============================================================================
