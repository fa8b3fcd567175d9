-------------------------- MODULE MCFrameTransport --------------------------
(* FrameTransport with narrow bytes and ints. *)
EXTENDS FrameTransport

\* With Base 16, Short 9 and Wide 12: on both sides of the length forms' limits, for a
\* payload and for a SessionGW frame around it; of the largest frame; and of an int.
Boundaries == {0, 2, 3, 5, 6, 9, 10, 12, 13, 15, 16, 26, 30}
TwoMasks == {<<0, 15>>, <<15, 0>>}
=============================================================================
