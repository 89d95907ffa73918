---------------------------- MODULE MCCardReader ----------------------------
(* Queue names of every kind the factories tell apart, one with both words, *)
(* and two configurations that differ in both fields.                       *)
EXTENDS CardReader

MCTargets       == {"pacman_link_0", "pacman_link_1", "mpd_link_0", "mpd_pacman", "wib_link_0"}
MCPacmanTargets == {"pacman_link_0", "pacman_link_1", "mpd_pacman"}
MCMpdTargets    == {"mpd_link_0", "mpd_pacman"}
MCConfs         == {[card_id |-> 1, zmq_receiver_timeout |-> 10],
                    [card_id |-> 2, zmq_receiver_timeout |-> -1]}
MCDefaultConf   == [card_id |-> 0, zmq_receiver_timeout |-> 0]
\* The queues of one frontend type, as the configuration generator names them.
MCGenerated     == {"pacman_link_0", "pacman_link_1"}
NoTargets       == {}
=============================================================================
