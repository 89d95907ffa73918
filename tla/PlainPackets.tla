---------------------------- MODULE PlainPackets ----------------------------
(***************************************************************************)
(* The packets of larpixtools that are records of attributes: timestamps,  *)
(* messages, syncs and triggers.  A message's text is known by its length. *)
(***************************************************************************)
EXTENDS Bits

TimestampPacket(timestamp) == [kind |-> "timestamp", timestamp |-> timestamp]
MessagePacket(message, timestamp) ==
  [kind |-> "message", message |-> message, timestamp |-> timestamp]
SyncPacket(sync_type, clk_source, timestamp, io_group) ==
  [kind |-> "sync", io_group |-> io_group, sync_type |-> sync_type,
   timestamp |-> timestamp, clk_source |-> clk_source]
TriggerPacket(trigger_type, timestamp, io_group) ==
  [kind |-> "trigger", io_group |-> io_group, trigger_type |-> trigger_type,
   timestamp |-> timestamp]

\* What from_dict() is called on.
Blank(kind) ==
  CASE kind = "timestamp" -> TimestampPacket(None)
    [] kind = "message"   -> MessagePacket(0, 0)
    [] kind = "sync"      -> SyncPacket(None, None, None, None)
    [] kind = "trigger"   -> TriggerPacket(None, None, None)

packet_type(p) == [timestamp |-> 4, message |-> 5, sync |-> 6, trigger |-> 7][p.kind]

\* Places of a message's text in its bytes, which the time follows.
TEXT == 64

\* bits: a big-endian number, or the padded text and the time.
bits(p) ==
  IF p.kind = "timestamp" THEN fromuint_big(p.timestamp, 56)
  ELSE <<IF p.message < TEXT THEN TEXT ELSE p.message, p.message, p.timestamp>>

\* Assigning them.  The text ends before the first NUL: find() gives -1 when
\* there is none, and the last character goes.  A longer one moves the time.
SetBits(p, b) ==
  CASE p.kind = "timestamp"                 -> [p EXCEPT !.timestamp = touint_big(b)]
    [] p.kind = "message" /\ b[1] > TEXT    -> Error
    [] OTHER -> [p EXCEPT !.message = IF b[2] = TEXT THEN TEXT - 1 ELSE b[2], !.timestamp = b[3]]

\* Timestamps and messages have no key; the others have their group's.
chip_key(p) ==
  IF p.kind \in {"timestamp", "message"} \/ p.io_group \in {None, 0} THEN None
  ELSE Key(<<p.io_group, 0, 0>>)

SetChipKey(p, key) == [p EXCEPT !.io_group = key[1]]

\* export(), in its order.
export(p) ==
  LET names == CASE p.kind = "timestamp" -> <<"timestamp">>
                 [] p.kind = "message"   -> <<"message", "timestamp">>
                 [] p.kind = "sync"      -> <<"io_group", "sync_type", "timestamp", "clk_source">>
                 [] p.kind = "trigger"   -> <<"io_group", "trigger_type", "timestamp">>
      values == [i \in 1..Len(names) |-> <<names[i], p[names[i]]>>]
  IN <<<<"type", packet_type(p)>>>> \o values \o
     (IF p.kind \in {"timestamp", "message"} THEN <<<<"bits", bits(p)>>>> ELSE <<>>)

Set(p, name, value) ==
  CASE name = "type" -> p
    [] name = "bits" -> SetBits(p, value)
    [] OTHER         -> [p EXCEPT ![name] = value]

\* from_dict() of a dictionary of its own kind of packet.
from_dict(kind, d) ==
  LET after[i \in 0..Len(d)] == IF i = 0 THEN Blank(kind) ELSE Set(after[i - 1], d[i][1], d[i][2])
  IN after[Len(d)]
=============================================================================
