----------------------------- MODULE Hdf5Format -----------------------------
(***************************************************************************)
(* The HDF5 files of larpixtools: the columns of each version of the       *)
(* format, the row each version makes of a packet, the packet it makes of  *)
(* a row, and from_file() with its checks.  A version is its two numbers.  *)
(***************************************************************************)
EXTENDS PlainPackets, Functions

V1 == INSTANCE PacketV1
V2 == INSTANCE PacketV2

v0_0 == <<0, 0>>
v1_0 == <<1, 0>>
Versions == {v0_0, v1_0} \cup {<<2, n>> : n \in 0..4}

Before(v, w) == v[1] < w[1] \/ (v[1] = w[1] /\ v[2] < w[2])

\* The columns.  The copies dtypes['2.1'] to dtypes['2.4'] are shallow: the
\* versions share one list, and the columns appended for 2.1 and 2.3 are in
\* the older versions too.
dtypes(version) ==
  CASE version = v0_0 ->
         <<"chip_key", "type", "chipid", "parity", "valid_parity", "counter", "channel",
           "timestamp", "adc_counts", "fifo_half", "fifo_full", "register", "value">>
    [] version = v1_0 ->
         <<"chip_key", "type", "chipid", "parity", "valid_parity", "channel", "timestamp",
           "adc_counts", "fifo_half", "fifo_full", "register", "value", "counter", "direction">>
    [] OTHER ->
         <<"io_group", "io_channel", "chip_id", "packet_type", "downstream_marker", "parity",
           "valid_parity", "channel_id", "timestamp", "dataword", "trigger_type", "local_fifo",
           "shared_fifo", "register_address", "register_data", "direction",
           "local_fifo_events", "shared_fifo_events", "counter", "fifo_diagnostics_enabled",
           "first_packet", "receipt_timestamp">>

\* Where the writers put a column: numbers of their own, counted from 0.
dtype_property_index_lookup(version, name) ==
  IF version = v1_0 THEN [direction |-> 13][name]
  ELSE [packet_type |-> 3, dataword |-> 9, trigger_type |-> 10, direction |-> 15,
        fifo_diagnostics_enabled |-> 19][name]

\* What a column of so many bytes keeps of a number.
Cell(column, value) ==
  CASE column \in {"chip_key", "timestamp", "counter", "receipt_timestamp"} -> value
    [] column = "shared_fifo_events" -> value % 2^16
    [] OTHER -> value % 2^8

-----------------------------------------------------------------------------
(* Writing.                                                                *)

\* What each kind of packet exports, and its type.
exported(p) ==
  CASE p.kind = "v1" -> V1!export(p) [] p.kind = "v2" -> V2!export(p) [] OTHER -> export(p)

type_of(p) ==
  CASE p.kind = "v1" -> V1!Get(p, "type") [] p.kind = "v2" -> V2!Get(p, "packet_type")
    [] OTHER -> packet_type(p)

Put(row, version, name, value) ==
  [row EXCEPT ![dtype_property_index_lookup(version, name) + 1] = value]

\* _format_raw_packet_v0_0: what the packet exports under the column's name.
raw_packet_v0_0(p, version) ==
  LET dict_rep == exported(p)
  IN [k \in 1..Len(dtypes(version)) |-> get(dict_rep, dtypes(version)[k], 0)]

packet_v1_0(p, version) ==
  IF p.kind \in {"v1", "v2"} /\ p.direction # None
    THEN Put(raw_packet_v0_0(p, version), version, "direction", p.direction)
    ELSE raw_packet_v0_0(p, version)

packet_v2_0(p, version) ==
  LET row == Put(packet_v1_0(p, version), version, "packet_type", type_of(p))
  IN IF p.kind = "v2" /\ p.diagnostics
       THEN Put(row, version, "fifo_diagnostics_enabled", 1) ELSE row

\* Syncs and triggers have columns of others.
PutSync(row, version, p) ==
  CASE p.kind = "sync"    -> Put(Put(row, version, "trigger_type", p.sync_type),
                                 version, "dataword", p.clk_source)
    [] p.kind = "trigger" -> Put(row, version, "trigger_type", p.trigger_type)
    [] OTHER              -> row

packet_v2_2(p, version) == PutSync(packet_v2_0(p, version), version, p)

\* getattr(pkt, name, None).  The valid_parity that a parser puts on a
\* packet, and that hides a parity changed since, is not kept: it shows in the
\* column of that name only.
attribute(p, name) ==
  IF name = "packet_type" THEN type_of(p)
  ELSE IF name \in DOMAIN p THEN p[name]
  ELSE IF p.kind # "v2" \/ name = "counter" THEN None
  ELSE CASE name = "valid_parity"             -> V2!has_valid_parity(p)
         [] name = "fifo_diagnostics_enabled" -> Number(p.diagnostics)
         [] OTHER                             -> V2!Get(p, name)

packet_v2_3(p, version) ==
  PutSync([k \in 1..Len(dtypes(version)) |->
             LET value == attribute(p, dtypes(version)[k]) IN IF value = None THEN 0 ELSE value],
          version, p)

\* The row of each version's writer.
Format(version, p) ==
  CASE version = v0_0                   -> raw_packet_v0_0(p, version)
    [] version = v1_0                   -> packet_v1_0(p, version)
    [] version \in {<<2, 0>>, <<2, 1>>} -> packet_v2_0(p, version)
    [] version = <<2, 2>>               -> packet_v2_2(p, version)
    [] OTHER                            -> packet_v2_3(p, version)

\* The entries of a sequence at some places, in order.
Picked(s, places) ==
  [k \in 1..Cardinality(places) |->
     s[CHOOSE i \in places : Cardinality({j \in places : j <= i}) = k]]

\* A file of some packets, with their rows.  Numpy takes no None for a
\* number; a message goes to a dataset of its own, in 64 bytes, and its row
\* has counter 0.
Stored(version, packets, rows, configs) ==
  LET columns  == dtypes(version)
      messages == Picked(packets, {i \in 1..Len(packets) : packets[i].kind = "message"})
  IN IF \E i \in 1..Len(rows), k \in 1..Len(columns) : columns[k] # "chip_key" /\ rows[i][k] = None
       THEN Error
       ELSE [version |-> version, configs |-> configs,
             rows |-> [i \in 1..Len(rows) |->
                         [name \in Range(columns) |->
                            Cell(name, rows[i][CHOOSE k \in 1..Len(columns) : columns[k] = name])]],
             messages |-> [i \in 1..Len(messages) |->
                             IF messages[i].message < TEXT THEN messages[i].message ELSE TEXT]]

to_file(version, packets, configs) ==
  IF \E i \in 1..Len(packets) : exported(packets[i]) = Error THEN Error
  ELSE Stored(version, packets, [i \in 1..Len(packets) |-> Format(version, packets[i])], configs)

-----------------------------------------------------------------------------
(* Reading.                                                                *)

Columns(row, names) == [i \in 1..Len(names) |-> <<names[i], row[names[i]]>>]

Message(row, messages) == MessagePacket(messages[row.counter + 1], row.timestamp)

\* The fields of a v1 word, of its type.
ParseWord1(p, row) ==
  CASE row.type = V1!DATA_PACKET ->  \* channel is no field
         V1!SetAll(p, Columns(row, <<"timestamp", "adc_counts", "fifo_half", "fifo_full">>))
    [] row.type = V1!TEST_PACKET -> p  \* nor is counter
    [] OTHER -> V1!SetAll(p, Columns(row, <<"register", "value">>))

\* The string of a row's key is "None" for a packet without one.
parse_raw_packet_v0_0(row) ==
  CASE row.type = 4 -> TimestampPacket(row.timestamp)
    [] row.type > 4 -> None
    [] row.type < 4 /\ (row.chip_key = None \/ Key(row.chip_key) = Error) -> Error
    [] OTHER -> ParseWord1(V1!SetAll(V1!NewPacket, Columns(row, <<"chip_key", "type", "chipid", "parity">>)),
                           row)

Directed(p, direction) == IF p = Error THEN Error ELSE [p EXCEPT !.direction = direction]

parse_packets_v1_0(row, messages) ==
  CASE row.type = 5 -> Message(row, messages)
    [] row.type < 4 -> Directed(parse_raw_packet_v0_0(row), row.direction)
    [] OTHER        -> parse_raw_packet_v0_0(row)

\* The fields that follow on those all packets have.  With diagnostics the
\* event counts are put where the FIFO flags are.
ParseData(p, row) ==
  LET plain == V2!SetAll(p, Columns(row, <<"channel_id", "timestamp", "dataword",
                                           "trigger_type", "local_fifo", "shared_fifo">>))
  IN IF row.fifo_diagnostics_enabled = 0 THEN plain
     ELSE V2!SetAll([plain EXCEPT !.diagnostics = TRUE],
                    <<<<"local_fifo", row.local_fifo_events>>,
                      <<"shared_fifo", row.shared_fifo_events>>,
                      <<"timestamp", row.timestamp>>>>)

ParseWord(p, row) ==
  CASE row.packet_type = V2!DATA_PACKET -> ParseData(p, row)
    [] row.packet_type = V2!TEST_PACKET -> p
    [] OTHER -> V2!SetAll(p, Columns(row, <<"register_address", "register_data">>))

parse_packets_v2_0(row, messages) ==
  CASE row.packet_type = 4 -> TimestampPacket(row.timestamp)
    [] row.packet_type = 5 -> Message(row, messages)
    [] row.packet_type > 5 -> None
    [] OTHER -> ParseWord(V2!SetAll(V2!NewPacket,
                                    Columns(row, <<"io_group", "io_channel", "chip_id", "packet_type",
                                                   "downstream_marker", "parity", "direction">>)),
                          row)

IsV2(p) == p # None /\ p.kind = "v2"

\* Mutant: the column that 2.1 adds is not read.
parse_packets_v2_1ForgetsFirst(row, messages) == parse_packets_v2_0(row, messages)

\* An attribute that a later version's parser adds to a v2 packet.
With(p, name, value) == IF IsV2(p) THEN V2!Set(p, name, value) ELSE p

parse_packets_v2_1(row, messages) ==
  With(parse_packets_v2_0(row, messages), "first_packet", row.first_packet)

parse_packets_v2_2(row, messages) ==
  CASE row.packet_type = 6 ->
         SyncPacket(row.trigger_type, row.dataword, row.timestamp, row.io_group)
    [] row.packet_type = 7 -> TriggerPacket(row.trigger_type, row.timestamp, row.io_group)
    [] OTHER -> parse_packets_v2_1(row, messages)

parse_packets_v2_3(row, messages) ==
  With(parse_packets_v2_2(row, messages), "receipt_timestamp", row.receipt_timestamp)

_parse_method_lookup(version, row, messages) ==
  CASE version = v0_0    -> parse_raw_packet_v0_0(row)
    [] version = v1_0    -> parse_packets_v1_0(row, messages)
    [] version = <<2, 0>> -> parse_packets_v2_0(row, messages)
    [] version = <<2, 1>> -> parse_packets_v2_1(row, messages)
    [] version = <<2, 2>> -> parse_packets_v2_2(row, messages)
    [] OTHER              -> parse_packets_v2_3(row, messages)

\* The version a file is read as.  One asked for with a '~' is taken apart
\* into three, where the numbers of a version are two.
Opened(file_version, asked) ==
  IF asked # None /\ (asked.tilde \/ asked.version # file_version) THEN Error
  ELSE IF file_version \notin Versions THEN Error ELSE file_version

\* The rows' packets, unless one raised; rows that have none are left out.
Parsed(packets) ==
  IF \E i \in 1..Len(packets) : packets[i] = Error THEN Error
  ELSE Picked(packets, {i \in 1..Len(packets) : packets[i] # None})

\* The packets of a file, those without a parser left out.  Configurations
\* have no parser: asked for, they end the reading if there are any.
from_file(file, asked, load_configs) ==
  LET version == Opened(file.version, asked)
  IN IF version = Error \/ (load_configs /\ ~Before(version, <<2, 4>>) /\ file.configs > 0)
       THEN Error
       ELSE Parsed([i \in 1..Len(file.rows) |->
                      _parse_method_lookup(version, file.rows[i], file.messages)])
=============================================================================
