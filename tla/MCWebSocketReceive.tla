------------------------- MODULE MCWebSocketReceive -------------------------
(* WebSocketReceive on a small instance: a message holds three bytes, a    *)
(* control frame one, and payloads lie at and around both limits.          *)
EXTENDS WebSocketReceive

FewSizes == {0, 1, 2, 4}
=============================================================================
