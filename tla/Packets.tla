------------------------------ MODULE Packets -------------------------------
(***************************************************************************)
(* A packet of any kind in use: its fields are set and read, and it is     *)
(* exported and imported again, as a dictionary or by a file of some       *)
(* version of the format.                                                  *)
(***************************************************************************)
EXTENDS Hdf5Format

CONSTANTS
  Samples,   \* values the setters are called with, where they fit
  IoNumbers, \* values of io_group and io_channel
  Plain,     \* packets of the plain kinds
  MaxCalls   \* bound on the calls of a behaviour

\* The widest field, a timestamp, has 31 bits.
ASSUME SamplesAssumption == Samples \subseteq 0..2147483647
ASSUME IoNumbersAssumption == IoNumbers \subseteq Nat
\* BitsOf counts no more than 31 digits either, so times are as small.
ASSUME PlainAssumption == \A p \in Plain :
  /\ p.kind \in {"timestamp", "message", "sync", "trigger"} /\ DOMAIN p = DOMAIN Blank(p.kind)
  /\ p.kind \in {"sync", "trigger"} => p.io_group \in Nat \cup {None}
  /\ p.kind = "timestamp" => p.timestamp \in Nat /\ p.timestamp <= 2147483647
  /\ p.kind = "message" => p.message \in Nat
ASSUME MaxCallsAssumption == MaxCalls \in Nat

VARIABLES
  packet,
  call,      \* history: the last call on it, a name and what it was with
  calls      \* and how many there were

vars == <<packet, call, calls>>

IsWord(p) == p.kind \in {"v1", "v2"}

\* A packet without bytes, one of bytes whose bits are all set, as a reader
\* of messages makes it, or a plain one.
Init ==
  /\ packet \in {V1!NewPacket, V2!NewPacket} \cup Plain
               \cup {[V1!NewPacket EXCEPT !.bits = [i \in 1..V1!size |-> 1]],
                     [V2!NewPacket EXCEPT !.bits = [i \in 1..V2!size |-> 1],
                                          !.receipt_timestamp = 200]}
  /\ call = <<"new", None>> /\ calls = 0

DoesWith(name, what, p) ==
  /\ calls < MaxCalls /\ calls' = calls + 1
  /\ IF p = Error THEN call' = <<"raised", None>> /\ UNCHANGED packet
     ELSE call' = <<name, what>> /\ packet' = p

Does(name, p) == DoesWith(name, None, p)

\* The setters, with values that fit the field as the packet has it.
Settable1 ==
  {"type", "chipid", "parity", "channel", "timestamp", "adc_counts", "fifo_half", "fifo_full",
   "register", "value", "counter"}
Settable2 ==
  {"packet_type", "chip_id", "channel_id", "timestamp", "first_packet", "dataword",
   "trigger_type", "local_fifo", "shared_fifo", "downstream_marker",
   "local_fifo_events", "shared_fifo_events", "register_address", "register_data"}

SetField1(name, value) ==
  /\ packet.kind = "v1" /\ BitsOf(value) <= V1!FieldWidth(name)
  /\ Does(name, V1!Set(packet, name, value))

SetField2(name, value) ==
  /\ packet.kind = "v2"
  /\ BitsOf(value) <= V2!FieldWidth(IF name = "timestamp" THEN V2!TimestampField(packet) ELSE name)
  /\ Does(name, V2!Set(packet, name, value))

SetFlag(name, bit) ==
  /\ packet.kind = "v2"
  /\ Does(name, V2!SetHalf(packet, name, bit)) \/ Does(name, V2!SetFull(packet, name, bit))

SetNumber(name, n) ==
  /\ IsWord(packet)
  /\ Does(name, IF packet.kind = "v1" THEN V1!SetIo(packet, name, n) ELSE V2!SetIo(packet, name, n))

\* chip_key = a key, a tuple or string that Key() takes, or None where there
\* are io numbers to delete.
AssignKey(parts) ==
  CASE parts = None /\ packet.kind \in {"sync", "trigger"} -> Error
    [] parts # None /\ Key(parts) = Error                 -> Error
    [] packet.kind = "v1" /\ (parts = None \/ Key(parts) # Error) -> V1!SetChipKey(packet, parts)
    [] packet.kind = "v2" /\ (parts = None \/ Key(parts) # Error) -> V2!SetChipKey(packet, parts)
    [] OTHER                                              -> SetChipKey(packet, parts)

SetKey(parts) == packet.kind \notin {"timestamp", "message"} /\ Does("chip_key", AssignKey(parts))

assign_parity ==
  \/ packet.kind = "v1" /\ Does("parity", V1!SetBits(packet, "parity", V1!compute_parity(packet)))
  \/ packet.kind = "v2" /\ Does("parity", V2!SetBits(packet, "parity", V2!compute_parity(packet)))

EnableDiagnostics == packet.kind = "v2" /\ Does("diagnostics", [packet EXCEPT !.diagnostics = TRUE])
ReadInt           == packet.kind = "v2" /\ Does("read", V2!as_int(packet))
ReadChipKey ==
  /\ IsWord(packet)
  /\ Does("read", IF packet.kind = "v1" THEN V1!ReadKey(packet) ELSE V2!ReadKey(packet))

\* The packet of a kind that from_dict() makes of what export() gave.
Imported(kind, d) ==
  CASE d = Error                 -> Error
    [] d # Error /\ kind = "v1"  -> V1!from_dict(d)
    [] d # Error /\ kind = "v2"  -> V2!from_dict(d)
    [] OTHER                     -> from_dict(kind, d)

ViaDict == Does("dict", Imported(packet.kind, exported(packet)))

\* What the comments on dtypes say a version is compatible with; all but the
\* first have messages.
Compatible(version, p) ==
  CASE p.kind = "v1"                 -> version \in {v0_0, v1_0}
    [] p.kind = "v2"                 -> ~Before(version, <<2, 0>>)
    [] p.kind = "timestamp"          -> TRUE
    [] p.kind = "message"            -> version # v0_0
    [] p.kind \in {"sync", "trigger"} -> ~Before(version, <<2, 2>>)

Loaded(file, asked) == IF file = Error THEN Error ELSE from_file(file, asked, TRUE)
Second(packets)     == IF packets = Error \/ Len(packets) # 2 THEN Error ELSE packets[2]

\* Behind a timestamp packet, into a file of a version and back, asking
\* for that version, for any, or for one like it.
ViaFile(version, asked, configs) ==
  /\ Compatible(version, packet)
  /\ DoesWith("file", version,
              Second(Loaded(to_file(version, <<TimestampPacket(1), packet>>, configs), asked)))

\* Versions, what is asked of the reader, and configurations in the file.
Openings ==
  {<<version, None, 0>> : version \in Versions}
  \cup {<<<<2, 3>>, [tilde |-> tilde, version |-> <<2, 3>>], 0>> : tilde \in BOOLEAN}
  \cup {<<<<2, 4>>, None, 1>>}

Keys == {None, <<None>>} \cup {<<g, c, 255>> : g \in IoNumbers, c \in IoNumbers}

Next ==
  \/ \E name \in Settable1, value \in Samples : SetField1(name, value)
  \/ \E name \in Settable2, value \in Samples : SetField2(name, value)
  \/ \E name \in {"local_fifo", "shared_fifo"}, bit \in 0..1 : SetFlag(name, bit)
  \/ \E name \in {"io_group", "io_channel"}, n \in IoNumbers \cup {None} : SetNumber(name, n)
  \/ \E parts \in Keys : SetKey(parts)
  \/ assign_parity \/ EnableDiagnostics \/ ReadInt \/ ReadChipKey \/ ViaDict
  \/ \E opening \in Openings : ViaFile(opening[1], opening[2], opening[3])

Spec == Init /\ [][Next]_vars

-----------------------------------------------------------------------------
Size(p)   == IF p.kind = "v1" THEN V1!size ELSE V2!size
Fields(p) == IF p.kind = "v1" THEN V1!Fields(p) ELSE V2!Fields(p)
Values(p) == IF p.kind = "v1" THEN V1!Values(p) ELSE V2!Values(p)
Get(p, name) == IF p.kind = "v1" THEN V1!Get(p, name) ELSE V2!Get(p, name)
ChipId(p) == IF p.kind = "v1" THEN V1!Get(p, "chipid") ELSE V2!Get(p, "chip_id")

\* A word is of bits, and never of fewer than it has.
TypeOK ==
  /\ IsWord(packet) =>
       /\ \A i \in 1..Len(packet.bits) : packet.bits[i] \in 0..1
       /\ Len(packet.bits) >= Size(packet)
       /\ {packet.io_group, packet.io_channel} \subseteq Nat \cup {None}
  /\ calls \in 0..MaxCalls

\* What is kept is what would be computed anew, whatever was assigned since.
KeptIsCurrent ==
  IsWord(packet) =>
    /\ packet.kind = "v2" /\ packet.int # None => packet.int = packet.bits
    /\ packet.key # None =>
         packet.key = <<packet.io_group, packet.io_channel, ChipId(packet)>>

\* A setter leaves every other field of a word of its type as it was, and
\* the chip key the fields it does not name.
FieldsAreIndependent ==
  [][IsWord(packet) =>
       LET fields == {Fields(packet)[k] : k \in 1..Len(Fields(packet))}
           chip   == IF packet.kind = "v1" THEN "chipid" ELSE "chip_id"
           named  == IF call'[1] = "chip_key" THEN chip ELSE call'[1]
       IN named \in fields =>
            \A other \in fields \ {named} : Get(packet', other) = Get(packet, other)]_vars

\* What the dictionary of a packet cannot bring back: of a v1 data word an
\* odd value has its last bit in the bits but not in adc_counts, which is
\* assigned after them.
Rounded(p) ==
  IF p.kind = "v1" /\ type_of(p) = V1!DATA_PACKET /\ p.bits[V1!Slice["adc_counts"][2]] = 1
    THEN {"bits", "valid_parity"} ELSE {}

Exported(p, but) == {entry \in Range(exported(p)) : entry[1] \notin but}

\* A packet exported to a dictionary and imported again exports the same; a
\* message that fills its place is left out, it loses its last character.
DictRestoresPacket ==
  [][call'[1] = "dict" /\ ~(packet.kind = "message" /\ packet.message = TEXT) =>
       Exported(packet', Rounded(packet)) = Exported(packet, Rounded(packet))]_vars

\* What a packet is known by when it comes back from a file: the fields of a
\* word, or the attributes, where a group nobody set is 0.
Identity(p) ==
  IF IsWord(p) THEN Values(p)
  ELSE [name \in DOMAIN p |-> IF p[name] = None THEN 0 ELSE p[name]]

\* What a version can hold of a packet: a text of at most 64 bytes, a v1 word
\* with configuration, a v2 word without FIFO diagnostics and, before 2.1,
\* without a first-packet bit.
Holds(version, p) ==
  CASE p.kind = "message" -> p.message <= TEXT
    [] p.kind = "v1"      -> type_of(p) \notin {V1!DATA_PACKET, V1!TEST_PACKET}
    [] p.kind = "v2"      ->
         /\ ~p.diagnostics
         /\ version = <<2, 0>> /\ type_of(p) = V2!DATA_PACKET => V2!Get(p, "first_packet") = 0
    [] OTHER              -> TRUE

\* A packet written to a file of a version that is compatible with it, and
\* read back, is the one it was.
FileRestoresPacket ==
  [][call'[1] = "file" /\ Holds(call'[2], packet) => Identity(packet') = Identity(packet)]_vars

\* The same of v2 packets with FIFO diagnostics, in the latest version.
FileRestoresDiagnostics ==
  [][call'[1] = "file" /\ packet.kind = "v2" /\ packet.diagnostics =>
       Identity(packet') = Identity(packet)]_vars
=============================================================================
