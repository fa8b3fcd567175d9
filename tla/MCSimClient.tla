----------------------------- MODULE MCSimClient -----------------------------
(* SimClient with up to three rows in batches of any size below a word of  *)
(* three bits.                                                             *)
EXTENDS SimClient
=============================================================================
