--------------------------- MODULE MCApplication ---------------------------
(* One data producer or two, a card that PACMAN links are made for and one  *)
(* that no link is.                                                         *)
EXTENDS Application

MCDefaultConf == [card_id |-> 0, zmq_receiver_timeout |-> 0]
MCConfs == {[card_id |-> 1, zmq_receiver_timeout |-> 100]}
=============================================================================
