------------------------------ MODULE PacketV1 ------------------------------
(***************************************************************************)
(* Packet_v1 of larpixtools: a big-endian word of 54 bits whose fields     *)
(* have the names export() gives them.  Only the chip key is kept.         *)
(***************************************************************************)
EXTENDS Bits

size == 54
DATA_PACKET == 0
TEST_PACKET == 1

Slice ==
  [type |-> <<52, 54>>, chipid |-> <<44, 52>>, channel |-> <<37, 44>>,
   timestamp |-> <<13, 37>>, adc_counts |-> <<3, 13>>, fifo_half |-> <<2, 3>>,
   fifo_full |-> <<1, 2>>, parity |-> <<0, 1>>, register |-> <<36, 44>>,
   value |-> <<28, 36>>, counter_15_12 |-> <<40, 44>>, counter_11_0 |-> <<1, 13>>]

FieldWidth(name) == IF name = "counter" THEN 16 ELSE Width(Slice[name])

\* Packet_v1()
NewPacket ==
  [kind |-> "v1", bits |-> Zeros(size), key |-> None, io_group |-> None,
   io_channel |-> None, direction |-> None]

\* The counter is in two places; the data word is rounded to an even number.
Get(p, name) ==
  CASE name = "counter"    -> touint_big(Span(p.bits, Slice["counter_15_12"]) \o
                                         Span(p.bits, Slice["counter_11_0"]))
    [] name = "adc_counts" -> 2 * (touint_big(Span(p.bits, Slice[name])) \div 2)
    [] OTHER               -> touint_big(Span(p.bits, Slice[name]))

\* io_group's getter asks whether there is an io_channel, and raises when
\* there is one but no io_group.
chip_key(p) ==
  CASE p.key # None                               -> p.key
    [] p.key = None /\ p.io_channel = None        -> None
    [] p.key = None /\ p.io_channel # None /\ p.io_group = None -> Error
    [] OTHER -> Key(<<p.io_group, p.io_channel, Get(p, "chipid")>>)

ReadKey(p) == IF chip_key(p) = Error THEN p ELSE [p EXCEPT !.key = chip_key(p)]

SetBits(p, name, value) ==
  LET bits == fromuint_big(value, FieldWidth(name))
  IN IF name = "counter"
       THEN [p EXCEPT !.bits = Write(Write(@, Slice["counter_15_12"], SubSeq(bits, 1, 4)),
                                     Slice["counter_11_0"], SubSeq(bits, 5, Len(bits)))]
       ELSE [p EXCEPT !.bits = Write(@, Slice[name], bits)]

SetIo(p, name, value) == [[p EXCEPT !.key = None] EXCEPT ![name] = value]

\* Mutant: the setter of the chip id leaves the key.
SetChipIdKeepsKey(p, value) == SetBits(p, "chipid", value)

SetChipId(p, value) == SetBits([p EXCEPT !.key = None], "chipid", value)

SetChipKey(p, key) ==
  LET cleared == [p EXCEPT !.key = None, !.io_group = None, !.io_channel = None]
  IN IF key = None THEN cleared
     ELSE SetChipId([cleared EXCEPT !.io_group = key[1], !.io_channel = key[2]], key[3])

Set(p, name, value) ==
  CASE name = "valid_parity"             -> p
    [] name = "chip_key"                 -> SetChipKey(p, value)
    [] name \in {"io_group", "io_channel"} -> SetIo(p, name, value)
    [] name \in {"bits", "direction"}    -> [p EXCEPT ![name] = value]
    [] name = "chipid"                   -> SetChipId(p, value)
    [] OTHER                             -> SetBits(p, name, value)

SetAll(p, d) ==
  LET after[i \in 0..Len(d)] == IF i = 0 THEN p ELSE Set(after[i - 1], d[i][1], d[i][2])
  IN after[Len(d)]

compute_parity(p) == 1 - (Cardinality({i \in 2..size : p.bits[i] = 1}) % 2)
has_valid_parity(p) == Number(Get(p, "parity") = compute_parity(p))

\* The fields a packet of its type has, in the order of export().
Fields(p) ==
  <<"type", "chipid", "parity">> \o
  (CASE Get(p, "type") = TEST_PACKET -> <<"counter">>
     [] Get(p, "type") = DATA_PACKET ->
          <<"channel", "timestamp", "adc_counts", "fifo_half", "fifo_full">>
     [] OTHER -> <<"register", "value">>)

Values(p) == LET names == Fields(p) IN [i \in 1..Len(names) |-> <<names[i], Get(p, names[i])>>]

export(p) ==
  IF chip_key(p) = Error THEN Error
  ELSE <<<<"chip_key", chip_key(p)>>, <<"bits", p.bits>>,
         <<"valid_parity", has_valid_parity(p)>>>> \o Values(p)

from_dict(d) == SetAll(NewPacket, d)
=============================================================================
