-------------------------- MODULE MCSessionConnect --------------------------
(* SessionConnect on a small instance: two threads and their descriptors. *)
EXTENDS SessionConnect

TwoFds == 3 .. 4
=============================================================================
