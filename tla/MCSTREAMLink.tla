---------------------------- MODULE MCSTREAMLink ----------------------------
(* A small STREAMLink for TLC: a sink of one payload, a timeout that ends   *)
(* and one that does not.                                                   *)
EXTENDS STREAMLink

MCTimeouts == {-1, 10}
=============================================================================
