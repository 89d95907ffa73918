----------------------------- MODULE MCPackets ------------------------------
(* A packet and three calls on it, with a value that a timestamp of 31 bits  *)
(* holds and one of 16 bits does not; plain packets with and without what    *)
(* they may lack, and messages around the length that fits.                  *)
EXTENDS Packets

MCPlain ==
  {TimestampPacket(200)} \cup {MessagePacket(n, 200) : n \in {0, 63, 64, 65}}
  \cup {SyncPacket(83, 1, 200, g) : g \in {None, 0, 1}}
  \cup {TriggerPacket(1, 200, g) : g \in {None, 0, 1}}
=============================================================================
