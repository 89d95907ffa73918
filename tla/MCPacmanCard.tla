---------------------------- MODULE MCPacmanCard ----------------------------
(* Every file of up to three data and trigger packets, every two packets    *)
(* between data packets, and files of data packets that make four, ten and  *)
(* eleven messages, one more than mode 3 sends.  Only mode 1 looks at the    *)
(* number of messages asked for, and the MPD card, which has no modes.       *)
EXTENDS PacmanCard

MCFiles ==
  BoundedSeq({"data", "trig"}, 3)
  \cup {<<"data", a, b, "data">> : a \in Kinds, b \in Kinds}
  \cup {[k \in 1..n |-> "data"] : n \in {5, 11, 12}}

MCArguments ==
  [program : {"RAW", "PUB"}, mode : {0, 2, 3, 4}, n_messages_total : {1},
   n_messages_group : {1}, n_file_evals : {1, 2}]
  \cup [program : {"RAW"}, mode : {1}, n_messages_total : {1, 2, 4},
         n_messages_group : {1, 2, 3}, n_file_evals : {1, 2}]
  \cup [program : {"MPD"}, mode : {0}, n_messages_total : {1, 2, 4},
         n_messages_group : {1}, n_file_evals : {1, 2, 3}]
=============================================================================
