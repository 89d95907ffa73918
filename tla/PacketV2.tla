------------------------------ MODULE PacketV2 ------------------------------
(***************************************************************************)
(* Packet_v2 of larpixtools: a LArPix word of 64 bits with named fields,   *)
(* two values it keeps so as not to compute them again (the word as an     *)
(* integer and the chip key), and its dictionary.  The integer stands for  *)
(* the bits it was computed from, so the kept one is a bit sequence.       *)
(***************************************************************************)
EXTENDS Bits

size == 64
DATA_PACKET == 0
TEST_PACKET == 1

\* Mutant: a field that begins one bit early.
SliceOverlaps ==
  [packet_type |-> <<0, 2>>, chip_id |-> <<2, 10>>, channel_id |-> <<10, 16>>,
   timestamp |-> <<16, 47>>, first_packet |-> <<47, 48>>, dataword |-> <<47, 56>>,
   trigger_type |-> <<56, 58>>, local_fifo |-> <<58, 60>>, shared_fifo |-> <<60, 62>>,
   downstream_marker |-> <<62, 63>>, parity |-> <<63, 64>>,
   fifo_diagnostics_timestamp |-> <<16, 32>>, shared_fifo_events |-> <<32, 44>>,
   local_fifo_events |-> <<44, 46>>,
   register_address |-> <<10, 18>>, register_data |-> <<18, 26>>]

\* Where the fields are: the bit they start at and the one they stop before.
Slice ==
  [packet_type |-> <<0, 2>>, chip_id |-> <<2, 10>>, channel_id |-> <<10, 16>>,
   timestamp |-> <<16, 47>>, first_packet |-> <<47, 48>>, dataword |-> <<48, 56>>,
   trigger_type |-> <<56, 58>>, local_fifo |-> <<58, 60>>, shared_fifo |-> <<60, 62>>,
   downstream_marker |-> <<62, 63>>, parity |-> <<63, 64>>,
   fifo_diagnostics_timestamp |-> <<16, 32>>, shared_fifo_events |-> <<32, 44>>,
   local_fifo_events |-> <<44, 46>>,
   register_address |-> <<10, 18>>, register_data |-> <<18, 26>>]

FieldWidth(name) == Width(Slice[name])

\* Packet_v2(): no bit set, nothing kept, no io numbers.
NewPacket ==
  [kind |-> "v2", bits |-> Zeros(size), int |-> None, key |-> None, io_group |-> None,
   io_channel |-> None, direction |-> None, receipt_timestamp |-> None,
   diagnostics |-> FALSE]

-----------------------------------------------------------------------------
(* Getters.  as_int() keeps what it computes, and the plain fields are     *)
(* read from what it kept; chip_id, the timestamp and the event counts are *)
(* read from the bits.                                                     *)

Word(p) == IF p.int = None THEN p.bits ELSE p.int

as_int(p) == [p EXCEPT !.int = Word(p)]

TimestampField(p) == IF p.diagnostics THEN "fifo_diagnostics_timestamp" ELSE "timestamp"

Get(p, name) ==
  LET read(bits, field) == touint(Span(bits, Slice[field]))
  IN CASE name = "chip_id"   -> read(p.bits, name)
       [] name = "timestamp" -> read(p.bits, TimestampField(p))
       [] name \in {"local_fifo_events", "shared_fifo_events"} ->
            IF p.diagnostics THEN read(p.bits, name) ELSE None
       [] OTHER -> read(Word(p), name)

chip_key(p) ==
  CASE p.key # None -> p.key
    [] p.key = None /\ (p.io_group = None \/ p.io_channel = None) -> None
    [] OTHER -> Key(<<p.io_group, p.io_channel, Get(p, "chip_id")>>)

\* Reading the key keeps it.
ReadKey(p) == IF chip_key(p) = Error THEN p ELSE [p EXCEPT !.key = chip_key(p)]

compute_parity(p) ==
  1 - (Cardinality({i \in 1..Slice["parity"][1] : p.bits[i] = 1}) % 2)

has_valid_parity(p) == Number(Get(p, "parity") = compute_parity(p))

-----------------------------------------------------------------------------
(* Setters, each with the kept values its decorators clear.                *)

\* Mutant: the decorator is forgotten.
SetBitsKeepsInt(p, name, value) ==
  [p EXCEPT !.bits = Write(@, Slice[name], fromuint(value, FieldWidth(name)))]

SetBits(p, name, value) ==
  [p EXCEPT !.int = None, !.bits = Write(@, Slice[name], fromuint(value, FieldWidth(name)))]

SetChipId(p, value) == SetBits([p EXCEPT !.key = None], "chip_id", value)

SetIo(p, name, value) == [[p EXCEPT !.key = None] EXCEPT ![name] = value]

\* chip_key = (group, channel, id), or None
SetChipKey(p, key) ==
  LET cleared == [p EXCEPT !.int = None, !.key = None]
  IN IF key = None THEN [cleared EXCEPT !.io_group = None, !.io_channel = None]
     ELSE SetChipId([cleared EXCEPT !.io_group = key[1], !.io_channel = key[2]], key[3])

\* Without FIFO diagnostics there is no place for an event count.
SetEvents(p, name, value) ==
  IF p.diagnostics THEN SetBits(p, name, value) ELSE [p EXCEPT !.int = None]

\* One bit of a FIFO flag pair; the other is read back.
SetHalf(p, name, bit) == SetBits(p, name, (Get([p EXCEPT !.int = None], name) \div 2) * 2 + bit)
SetFull(p, name, bit) == SetBits(p, name, bit * 2 + (Get([p EXCEPT !.int = None], name) % 2))

\* setattr: the setter of that name.  The bits are a plain attribute.
Set(p, name, value) ==
  CASE name = "valid_parity"             -> p
    [] name = "chip_key"                 -> SetChipKey(p, value)
    [] name \in {"io_group", "io_channel"} -> SetIo(p, name, value)
    [] name \in {"bits", "direction", "receipt_timestamp"} -> [p EXCEPT ![name] = value]
    [] name = "chip_id"                  -> SetChipId(p, value)
    [] name = "timestamp"                -> SetBits(p, TimestampField(p), value)
    [] name \in {"local_fifo_events", "shared_fifo_events"} -> SetEvents(p, name, value)
    [] OTHER                             -> SetBits(p, name, value)

\* A run of assignments.
SetAll(p, d) ==
  LET after[i \in 0..Len(d)] == IF i = 0 THEN p ELSE Set(after[i - 1], d[i][1], d[i][2])
  IN after[Len(d)]

-----------------------------------------------------------------------------
(* The dictionary.                                                         *)

\* The fields that a packet of its type has, in the order of export().
Fields(p) ==
  LET type == Get(p, "packet_type")
  IN <<"packet_type", "chip_id", "downstream_marker", "parity">> \o
     (CASE type = TEST_PACKET -> <<>>
        [] type = DATA_PACKET ->
             <<"channel_id", "timestamp", "first_packet", "dataword", "trigger_type",
               "local_fifo", "shared_fifo">> \o
             (IF p.diagnostics THEN <<"local_fifo_events", "shared_fifo_events">> ELSE <<>>)
        [] OTHER -> <<"register_address", "register_data">>)

Values(p) == LET names == Fields(p) IN [i \in 1..Len(names) |-> <<names[i], Get(p, names[i])>>]

\* Attributes that an export has only when the packet has them.
Extra(name, value) == IF value = None THEN <<>> ELSE <<<<name, value>>>>
Extras(p) == Extra("direction", p.direction) \o Extra("receipt_timestamp", p.receipt_timestamp)

export(p) ==
  IF chip_key(p) = Error THEN Error
  ELSE <<<<"chip_key", chip_key(p)>>, <<"io_group", p.io_group>>,
         <<"io_channel", p.io_channel>>, <<"bits", p.bits>>,
         <<"valid_parity", has_valid_parity(p)>>>> \o Values(p) \o Extras(p)

\* Mutant: the event counts do not turn the diagnostics on.
from_dictWithoutDiagnostics(d) == SetAll(NewPacket, d)

\* from_dict(), of a new packet: event counts turn the diagnostics on, then
\* every entry is assigned in the dictionary's order.  The bits assigned are a
\* bitarray without the little-endian setting of the packet's own, which only
\* bytes() would show: a word is here its bits from the lowest on.
from_dict(d) ==
  SetAll([NewPacket EXCEPT !.diagnostics =
            get(d, "local_fifo_events", None) # None \/ get(d, "shared_fifo_events", None) # None],
         d)
=============================================================================
