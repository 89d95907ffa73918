---------------------------- MODULE MCLinkInfo ------------------------------
(* LinkInfo with ints of four bits, which three payloads of three bytes     *)
(* overflow, and of ten bits, which nothing here does.                      *)
EXTENDS LinkInfo
=============================================================================
