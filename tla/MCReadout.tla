------------------------------ MODULE MCReadout ------------------------------
(* Files of two messages, with words of each kind and a packet that has no  *)
(* word, and one of three messages.                                          *)
EXTENDS Readout

MCFiles ==
  {<<"data", "trig", "data", "time", "data">>, <<"data", "data", "sync", "data">>, <<"data", "data", "data", "data">>}

MCArguments ==
  [program : {"RAW", "PUB"}, mode : {0}, n_messages_total : {1}, n_messages_group : {1},
   n_file_evals : {1}]
=============================================================================
