----------------------------- MODULE MCZMQLink ------------------------------
(* A small ZMQLink for TLC.                                                 *)
EXTENDS ZMQLink

MCTimeouts == {-1, 10}
=============================================================================
