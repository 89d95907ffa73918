# A verification development for lbrulibs

lbrulibs is the DUNE DAQ plugin that takes the data of a PACMAN (ND-LAr) or MPD
card off a ZeroMQ socket and puts it on a queue of the readout, with the Python
tools that generate an application around it and stand in for a card. This
directory holds TLA+ models of its parts, the TLC configurations that check
them, and TLAPS proofs about the links, the monitoring, the plugin, the
application, the packets, the card emulator and the readout.

    tlc -config MCSTREAMLink.cfg MCSTREAMLink.tla      # one run
    tlapm STREAMLink_proofs.tla                        # one proof module

`PROJECT.json` lists every run, every mutant (a definition and the faulty form
of it that makes a property fail), the source lines of every definition, the
hazards and the theorems.

## 1. The system

| Part | Source | State it keeps | Operations |
|---|---|---|---|
| STREAM link | `src/src/STREAMLinkModel.hpp` | socket, run marker, configured/connected flags, timeout, packet counters, last size and timestamp, sink | `conf`, `start`, `stop`, `get_info`; the parser thread's `process_STREAMLink` |
| ZMQ link | `src/src/ZMQLinkModel.hpp` | the same, over a SUB socket | the same, `process_ZMQLink` |
| Card reader plugin | `src/plugins/PacmanCardReader.cpp` | its configuration, a map of links with one slot | `init`, `do_configure`, `do_start`, `do_stop`, `get_info` |
| Factories | `src/src/CreateSTREAMLink.hpp`, `CreateZMQLink.hpp` | none | a link for a queue name, by the words "pacman" and "mpd" in it |
| Application generator | `src/python/lbrulibs/app_confgen.py` | none; it writes modules, queues and commands | `generate` |
| LArPix packets | `src/scripts/larpixtools.py` | a word of 54 or 64 bits with two cached values, or plain attributes | setters, getters, `export`/`from_dict`, for six kinds of packet |
| HDF5 file format | `src/scripts/larpixtools.py` | none; columns, writers and parsers of seven versions | row formatting and parsing, `from_file` |
| PACMAN messages | `src/scripts/larpixtools.py`, `larpix.c` | none | `format`, `parse`, `format_msg`, `parse_msg` |
| Card emulators | `src/test/pacman-generator-RAW.py`, `pacman-generator.py`, `mpd-generator-RAW.py` with `mpd_helper.py` | connection, message count, sleep | `hdf5ToPackets`, `pacman`, `send_mpd` |
| Readout scripts | `src/scripts/python-readout-RAW.py`, `python-readout.py` | socket, count of messages | `readout` |
| Others | MPD decoder, schemas, tests, build | | not modelled, section 7 |

How they interact. The run control sends commands to the application; the
application hands each to its modules in the order of the command's list. The
plugin creates its link in `init` and passes `conf`, `start` and `stop` on to
it. `start` gives the loop to a reusable thread and `stop` waits for that
thread to be ready again; the two share the run marker (an atomic), the
connected flag (a plain bool) and the socket. A monitoring thread calls
`get_info` at any time. A card connects to the link's address, sends, goes away
and comes back. The sink is a bounded queue; a push waits 10 ms and then throws. A
readout script takes the link's place at the same address and prints what it parses.

What makes it hard:

* commands, the parser thread, the monitoring thread, the card and the reader of
  the sink are all independent of each other;
* the timeouts: `poll` with a configured one (negative: none), the sink with one
  of 10 ms, the card's `recv` with one of 100 ms;
* the bind in `conf` may fail, and every link binds the same address;
* order: a stop, a late frame and the next start; the steps of `conf` against a
  thread that may already run; the modules' turns within a command;
* a STREAM socket is a TCP connection: it delivers chunks, not messages, and tells of
  a connection with an empty one;
* versions: the formats of a file share columns, and each parser builds on the one of
  the version before.

What makes each part correct:

* link: every frame received is counted once and pushed once or dropped once, in
  order; nothing moves while it is stopped; `stop` returns; one thread on the
  socket at a time; a failed `conf` leaves nothing behind;
* monitoring: what is reported adds up to what was pushed;
* plugin: the link is configured and runs when the run control thinks so, with
  the configuration of the last `conf`, and serves a queue it was given with frames of
  the kind the queue's name asks for;
* application: the source never writes to a queue whose reader does not run, modules
  and run control agree after every command, queues are used by as many as their kind
  allows;
* packets and messages: caches are current, fields independent, round trips give
  back what went in;
* emulator: it sends the file in order, without a gap or a repetition, as many
  messages as it says, in groups, and connects to a readout that comes late;
* readout: it reads no word twice or out of order, and all that was sent where a
  chunk is a message.

## 2. The modules

    Relay              what a link promises
      ^ refined by
    LinkModel          the thread, the commands, the sink: common to both links
      ^ EXTENDS
    STREAMLink  ZMQLink      socket and peer of each
      ^ EXTENDS
    LinkModel_proofs -> STREAMLink_proofs, ZMQLink_proofs

    LinkInfo -> LinkInfo_proofs            the monitored sum, load by load
    CardReader -> CardReader_proofs        the plugin; instantiated by
    Application -> Application_proofs      the generated application and its commands

    Bits               bit words and keys; EXTENDed by
    PacketV1  PacketV2  PlainPackets       the kinds of packet, as functions; used by
    Hdf5Format         columns, rows, versions, from_file; EXTENDed by
    Packets -> Packets_proofs              a packet under calls

    PacmanMessage      the message format; EXTENDed by
    PacmanCard         the emulators; EXTENDed by
    Readout            emulator, network and readout script together
    Readout_proofs     the theorems on both
    MC*                small instances for TLC

### LinkModel, STREAMLink, ZMQLink

The command thread's `cmd` and the parser thread's `worker` are the places in
the code where the other thread's steps matter: between the test of the marker,
the test of the connected flag, `poll`, `recv`, `send`, the sums and the packet
counter, and in `conf` between the timeout, the bind (connect, subscribe) and
the flags. A frame is its position on `wire`; the fields that hold a size or a
timestamp hold the number of the frame it was taken from, so that "the size is of
that packet" can be said. `delivered` is everything pushed to the sink, of which
the consumer has `taken` a part; the rest fills the queue.

| Code | Action |
|---|---|
| `conf`, line by line | `Conf`, `Bind`/`BindFails` (`Subscribe`, `Connect`, `Resubscribe`), `SetConnected`, `ConfDone` |
| `start`: marker, `set_work` | `Start`, `SetWork` |
| `stop`: marker, wait for readiness | `Stop`, `StopReturns` |
| thread takes the work | `TakeWork` |
| `while (m_run_marker)` | `CheckMarker` |
| `if (m_subscriber_connected)` | `CheckConnected` |
| `poll` with and without an event | `PollIn`, `PollTimeout` |
| `recv`, empty or not | `RecvEmpty`, `RecvData` |
| `send` and its `TimeoutExpired` | `Send`, `SendTimeout` |
| sums, packet counter | `Account`, `Count` |

Points of the code the models keep and a reader might not expect:

* `set_work` may refuse, and `start` does not look. `MarkerTellsWorker` says it
  never does.
* `msg.data() == 0` after an empty message is a dead branch: an empty `recv` was
  taken for "nothing received" (`recvd == 0`) two lines before. The routing id is
  never empty. A connect or disconnect of a card is therefore counted in
  `m_rcvd_zero`, and only there.
* several cards may be attached to a STREAM socket at once, also because the
  emulator asks for one more connection at each retry; one of them going away may
  leave others.
* frames that arrive while the link is stopped wait in the socket and belong to
  the next run.
* `m_queue_timeout` is indeterminate before `conf` (`Unset`).
* ZMQ subscribes twice, the second time after the flag is set, so its exclusive
  use of the socket depends on `conf` coming before `start`. ZMQLink has that
  order (the run control's) as its guard; STREAMLink needs no order.
* `m_timestamp` is set before a push that may fail and `m_packetsize` after: after
  a timeout the two are of different packets (lines 232-235).
* the payload object allocated for each message is never freed.

### LinkInfo

`m_packetsizesum += size` is a load and a store, `get_info` a read, a while later
a reset, and each may come between the others. The sum is an `int` up to `INT_MAX`
and wraps, as the builds do (signed overflow is undefined in the language). `raced`
remembers that an addition overlapped a `get_info`; `reported` is the sum of all
reports. The other fields of a report are read, never reset, and not modelled.

### CardReader

`init` makes a link for every queue and puts each in slot 0 (a FIX ME in the
code, lines 79 and 87: queues before the last get no data); a queue name with neither
"pacman" nor "mpd" in it crashes the reader, and so does a conf without links (`rc = "CRASHED"`). `conf` sets ids at every call and
the rest at the first that succeeds; there is no `scrap`. `get_info` of a reader
without a link would go through a null pointer as well.

### Application

Modules, who reads and writes which queue, and the commands as lists of patterns,
from `generate`. The reader is an instance of CardReader, so that a step of the
application on `fake_source` is a step of that module. A command is issued in its
entry state, goes to the modules pattern by pattern, in any order within one, and
ends in its exit state, or in the entry state if the reader's conf threw; the
framework may or may not go on with the other modules in that case. With producers
of trigger primitives (`-t`), `generate` fails on a name it does not import (`sec`,
line 259): there is no such application. With a frontend type other than `pacman`
the reader crashes at `init`.

### Bits, PacketV1, PacketV2, PlainPackets, Packets

A word is a sequence of bits. Assigning a value with more bits than the slice makes
the word longer, as bitarray does. Packet_v1 is big-endian and keeps its chip key;
Packet_v2 is little-endian and keeps its key and its integer (`_int`, kept here as
the bits it was computed from). Each setter clears what its decorators clear. The
other kinds are records of attributes; a message is known by the length of its text.
`Packets` takes a packet of any kind through calls: setters, readers, parity, the
diagnostics flag, `ViaDict` (`export`, then `from_dict`), `ViaFile`.
`bits` is a plain attribute of Packet_v2; `from_dict` assigns it without clearing a
cache and the assignments that follow clear it. That these bits have lost their
little-endian setting (line 354) would show in `bytes()` only, and is left out.

### Hdf5Format

Columns, row writers and row parsers of the versions 0.0 to 2.4, and `from_file`
with its version checks. The repository has no `to_file`; `to_file` here is the one
of larpix-control, as far as the readers depend on it. Columns of 2.1 and 2.3 are in
the older 2.x versions too, since the copies of the lists are shallow (line 1246). A
column keeps as many bits as it has bytes. The `valid_parity` that a parser puts on a
packet (line 1450) and a writer of 2.3 on prefers to the computed one is left out.

### PacmanMessage, PacmanCard

`struct` formats are lists of field sizes and padding; a byte is the value it
belongs to and its place in it, so bytes taken from a wrong offset unpack to
`Garbage`. PacmanCard cuts a file (a sequence of kinds of packets) at data packets
and before the last one, connects with retries and sends in modes 0 to 4; as `PUB`
it has no connection and sends to whoever listens; as `MPD` it sends the events of a
file that `mpd_helper` has read in loops, all but the last. Receipt times are taken
to fit 32 bits and a message to have fewer than 65536 words; otherwise `struct.pack`
throws. A packet without a receipt time would get the message's; those of a file have
one. A send may be taken by ZeroMQ though the readout is gone, or fail at any time,
for want of a peer or of room for 100 ms (`SNDTIMEO`), which ends the program (`lost`);
a publisher's send never fails. Sleeping takes no time of its own.

### Readout

PacmanCard composed with a network and a readout script. `wire` is the TCP
connection in units of eight bytes (a header is one, a word two); `Deliver(n)` makes
any beginning of it a chunk. `frames` is what ZeroMQ has for the script; a STREAM
socket gives two parts a message and an empty body when a connection comes or goes,
a SUB socket gives what is published while it is subscribed. Ids are kept as their
kind: five bytes, too few for a header, so an id that is parsed raises. `parse` of a chunk takes
the first unit for a header and each two that follow for a word; which characters are
legal is known but for the payload of data words, where both outcomes are possible.
`RAW` is `python-readout-RAW.py`, `PUB` is `python-readout.py`. That a socket the card
closes is emptied first is taken for granted (`LINGER` gives it 100 ms); a publisher's
limit of a thousand waiting messages is beyond the runs and left out.

| Code | Action |
|---|---|
| `pacman`, a message sent, anything else | `CardSends`, `CardGoesOn` |
| `bind`, or `connect` and subscribe | `Bind`, or `Subscribe` and `Attach` |
| the key that starts the loop | `EnterPressed` |
| `recv` of the id | `ReaderRecvId` |
| `recv` of the body, empty or not | `RecvEmpty`, `RecvMessage`, `RecvPublished` |
| the exception of `parse` | `ParseTo`, which ends the script |
| the user's interrupt | `ReaderIsStopped` |

## 3. The runs

| Run | Question | Instance |
|---|---|---|
| `stream_link` | accounting, order, quiet, exclusive socket, all-or-nothing conf, stop and progress, refinement of Relay | sink of 1, 5 frames, timeouts -1 and 10 |
| `zmq_link` | exclusive socket despite the late subscription, all-or-nothing conf, refinement | sink of 1, 3 frames, the same timeouts |
| `link_info` | bytes reported are the bytes pushed, modulo the int, when nothing overlaps | ints up to 7, sizes 2 and 3, 4 payloads, 3 reports |
| `link_info_race` | the same with overlaps: violated | ints up to 511 |
| `card_reader` | link and run control agree, queues with known names get a link of their kind | 5 names, up to 3 queues, 2 configurations |
| `card_reader_scrap` | a conf after scrap takes effect: violated | one PACMAN queue, 2 configurations |
| `packets` | caches, independent fields, round trips by dictionary and file | 3 calls, values 1 and 200, io numbers 1 and 256, words of no bits and of all, 11 plain packets, 7 versions |
| `packet_rows` | a file's round trip with FIFO diagnostics: violated | the same |
| `pacman_card` | what is sent in a loop, formatting, totals, groups, connecting | 54 files, 43 argument lists, 2 connections |
| `pacman_card_totals` | each loop sends the total: violated | the same |
| `readout` | what is read is what was sent, and it is read | 3 files of 2 or 3 messages, both scripts, 2 connections |
| `application` | source and handlers, run control and modules, single readers | 1 or 2 producers, 2 frontend types |

Why the bounds are enough. In the link, a sink of one payload is full after one
push, and five frames allow one received before a stop, one during it, one waiting
and two in the next run; the models have no other counter, and the proofs cover all
sizes. The publish/subscribe run is for what is different in that link; the rest it
shares, by module and by proof, with the stream link. Ints up to 7 overflow within
three payloads. Three calls on a packet are a cache filled, a setter and a read or a
round trip; 200 needs eight bits, more than every flag and fewer than the times;
256 is the first number that no `Key` takes. Files of two packets between data
packets show every kind at every place; twelve data packets make one message more
than mode 3 sends. Three messages on a connection can be joined, cut, and joined
across a cut; two connections are a retry whose first attempt was answered late. Two
producers are the first for which "each handler its own link" can be wrong.

Deadlock is not checked (`CHECK_DEADLOCK FALSE`): a link may wait for a peer that
never sends, for ever if its timeout is negative; the reader and the application
may crash; the emulator ends, the readout is ended; and in all of them a bound on
frames, calls or reports is reached. What must happen is stated as liveness instead.

Fairness. `FairSpec` of a link has weak fairness of the parser thread's steps and of
the steps inside a command: both are threads the operating system runs, and none of
these steps can be disabled by another's. Nothing is assumed of the run control, the
card or the consumer of the sink. A `poll` with a negative timeout is not obliged to
end, so `StopFinishes` is stated for timeouts that end: with a negative one and a
silent card, `stop` hangs. `FairSpec` of the emulator has weak fairness of its own
steps, save the key a user must press, and of a connection being made to a readout
that listens. `ReadoutSpec` has it of the card's steps, the network's (TCP delivers
what was written while both ends live) and the script's; what a user does (keys,
ending the script) is not fair, and a subscription need not arrive.

## 4. What the code does that a document denies

* `link_info_race`: bytes vanish from the monitored bandwidth, or are counted twice
  (`STREAMLinkModel.hpp:190`).
* `card_reader_scrap`: after `scrap`, a `conf` does not reach the link.
* `packet_rows`: event counts are written over the FIFO flags
  (`larpixtools.py:1461`), and the word grows.
* `pacman_card_totals`: "for each loop" holds for the first loop only, when the file
  has fewer messages than the total.

Seen on the way, without a run:

* `pacman-generator-RAW.py:26-27`: the comment says messages begin at timestamp
  packets, the code cuts at data packets (type 0; the example in
  `larpixtools.py:1817` has type 4), drops what comes before the first and drops the
  last packet. Several cards run one after the other (line 228). A total that comes
  before the first group ends in an `UnboundLocalError` (line 188).
* Several queues in one reader: only the last gets data (`PacmanCardReader.cpp:79` and
  87, FIX ME). The generator gives its one reader a queue for every producer, each with
  a handler of its own (`app_confgen.py:113-153`): with two producers the first handler
  runs and gets nothing.
* `mpd-generator-RAW.py:56`: all events but the last are sent, where lines 52 and 75
  announce as many as were asked for; reaching the number of
  packets asked for (`mpd_helper.py`) ends one reading of the file, not the next.
* Application: the publishers' ports meet the card's at 557 producers and the time
  synchronisation's at 1001.
* v1 packets: the row parsers assign `channel` and `counter`, which are not fields,
  so both are lost (lines 1367 and 1373); `io_group`'s getter asks for `_io_channel`
  and raises where only that is set (line 920); `export` rounds odd data words down
  and `from_dict` assigns the rounded value after the bits.
* Files: a version asked for with `~` always raises, two numbers being split into
  three (line 1575); configurations of 2.4 have no parser (line 1625); the first-packet
  bit is lost in 2.0 files; a message of 64 characters loses the last (line 1128).
* Messages: a TX word parses with its bytes as receipt time (line 1793); a chunk cut
  between two words is a legal message to `parse`, with a part of the words or with a
  word for a header; `larpix.c` has header and word lengths exchanged.

## 5. The proofs

`LinkModel_proofs` shows that every step common to the links keeps `LinkInv`, one
lemma per action. `LinkInv` is the conjunction of the type invariant, the claims
(`CountersCoverFrames`, `SentOrDropped`, `SinkInOrder`, `LastSizeIsOfSink`) and what
they need to be inductive:

* `ControlInv`: `MarkerTellsWorker` and what the marker is inside
  `start` and `stop`;
* `HandsInv`: the thread in `recv` has a frame before it, in `send` one with data in
  its hands, in `account` the newest of the sink;
* `ReceivedFirst`: nothing is delivered or dropped that was not received, without
  which the newest frame could be in the sink already;
* `MarkInv`: past the marker's test and before `recv`, no frame was taken since the
  marker was cleared.

`STREAMLink_proofs` and `ZMQLink_proofs` add the links' own `ConfInv` (how far `conf`
has come shows in the flags and the socket), and derive:

| Theorem | Says |
|---|---|
| `Invariance`, `TypeCorrect`, `MarkerCorrect`, `CountersCorrect`, `FramesAccounted`, `SinkCorrect`, `StopIsPrompt`, `SocketCorrect`, `ConfCorrect`, `PollCorrect` | the invariants of `stream_link` |
| `StoppedIsQuiet` | the action property `QuietAfterStop` |
| `ImplementsRelay` | `Spec` implements `Relay!Spec`: every step is a relay's step or a stutter |
| `ZMQTypes`, `ZMQAccounting`, `ZMQSocketCorrect`, `ZMQConfCorrect`, `ZMQImplementsRelay` | the same for the publish/subscribe link |

`LinkInfo_proofs`: `BooksInv` says that, as long as no addition overlapped a report,
the thread that adds knows the sum it adds to, and that reports, sum and copies differ
from what was pushed by a multiple of the number of ints (`Balanced`). Every store
wraps, so the argument is one about remainders (`WrapIsInt`, `Multiple`).

`CardReader_proofs`: `ReaderInv` is the type invariant, `LinkFollowsRunControl`,
`LinkInv`, that there is a link in every state that commands it and that only a queue of
an unknown name, or none at all, is behind a crash, and `SinkInv`, that the link is of the last queue and of the kind
of its name; `KnownQueuesGetALink` follows from the latter two.

`Application_proofs`: a command's list is a sequence of disjoint sets of modules
(`Apart`), and a turn takes one module out of their union (`RestOfList`). `Progress`
says for each command which modules were given it, by those still pending; `Order`
that handlers are at the head of a start's list until they are started, and the
source alone at the head of a stop's. `SourceHasHandlers` follows from the two.
`ReaderIsUsedAsMeant` is the refinement between the two components: a step of the
application is a step of `CardReader` or leaves the reader alone, so the reader's
type invariant, proved there, holds of the reader inside the application.
`QueuesAreNotShared` is a matter of names: a queue made for one determines the one
module of `generate` that reads it and the one that writes it.

`Packets_proofs`: `PacketInv` is `GoodPacket(packet)` and the bound on calls. A good
packet is a v1 word of 54 bits with its key empty or current (`Word1`, `Kept1`), a
v2 word of 64 bits whose key and integer are each empty or current (`Word2`,
`Kept2`), or a plain packet with its attributes, a time that 31 bits hold and a text of
some length (`SoundPlain`). That is more than
`KeptIsCurrent` says and less than the states a run visits: it is what each setter
needs of the word to leave a word. The proof is by calls: every setter, with the
caches its decorators clear; `ReadKey` and `ReadInt`, which fill them; the parity;
`export` with `from_dict`, which assigns names one after the other and so needs that
each assignment keeps what the ones before have set (`Assigned`); and a file, where
what `from_file` returns is a good packet for every version. `FieldsCorrect` is an
action property: a setter changes the bits of its slice only.

`DictCorrect` compares a packet's dictionary with that of the packet made of it. The
digits of a value and the value of digits undo each other (`ToFrom`, `FromTo`), so
assigning to a slice the value that was read from it leaves a word as it was, and a
word whose first assignment is its bits stays that word through all the others
(`SetOwn2`, `Restored1`, `Restored2`). For the second generation the flag comes first:
event counts are in a data packet's dictionary just when the flag is set (`Diagnosed2`), so the
slices are the same on both sides. A v1 data word with an odd value is the exception,
and there all but the bits and the parity is shown to agree. The dictionaries are then
compared entry by entry (`SameEntries`). Plain packets are given back attribute by
attribute (`DictRestoresPlain`), which needs that a good packet stays sound through
files too.

`Readout_proofs` has the emulator's theorems and the readout's, as both need the same
facts of words and bytes. For the emulator:

* `CardInv` ties the count of messages, which the loops of a file share, to the
  loop's own: in a file with enough messages the loop's count is the remainder by the
  total, and what was sent since the last sleep is at most the remainder by the group.
  It needs that the next of a remainder is one more or zero (`NextOfMultiple`). It
  says nothing of `error`, where the program is over.
* `AllInv` says of the modes without a total that the count over all loops is that of
  the finished loops and of this one, and that a loop ends with the last message or, in
  mode 2, the first. The breaks of a file are its data packets in order (`InOrderIs`),
  so the first messages, put end to end, are the words from the first break to the one
  behind them (`HdfFlat`, by the least number of messages for which it fails): with the
  bounds on the loop's own count that is `FileCorrect` at every point of a loop.
* `MessageCorrect` follows a message down to bytes and back. A `struct` format is a
  sequence of sizes and paddings; each of the eight formats has the same layout when
  written and when read (the lemmas `...Shape`), what is packed has the format's size
  (`SizeIs`) and each value lies at its offset (`OffsetIs`), so unpacking gives the
  values back (`UnpackPack`). A message is cut at the header's length and then every
  word's length (`HeaderBack`, `WordBack`, `MessageBack`), and the words of a message,
  turned to packets, are those of the file that have words (`PacketBack`, `ParseBack`).

For the readout, `ReadoutInv` has six parts. `ReadoutTypes`; `OrderInv`, that
what is read, what is in the socket and what is in the connection is in the order in
which it was sent, one part before the next; `WireInv`, that what is in the connection is
complete to its end; `PairsInv`, that a STREAM socket holds pairs, so that the script
never takes a body for an id; `PublishedInv`, that a SUB socket holds bodies only, which
with `PairsInv` gives the claim of `ReadoutTypeOK` about what is received next; `WholeInv`, that as long as every chunk was one message,
what is read is just the messages sent, but for those sent before the readout was
there. Steps are sorted by what they do to socket, connection and script (`Steps`):
sending, delivering, telling of a connection, dropping, reading, nothing.

| Theorem | Says |
|---|---|
| `LinkInfo_proofs`: `TypeCorrect`, `BytesCorrect` | the invariants of `link_info` |
| `CardReader_proofs`: `TypeCorrect`, `LinkCorrect`, `KnownQueuesCorrect` | the invariants of `card_reader` |
| `Application_proofs`: `HandlersCorrect`, `AppCorrect`, `TypeCorrect`, `QueuesAreNotShared` | the invariants of `application` |
| `Application_proofs`: `ReaderIsUsedAsMeant` | the application's reader is a `CardReader` |
| `Packets_proofs`: `PacketTypeCorrect`, `KeptCorrect`, `FieldsCorrect`, `DictCorrect` | `TypeOK`, `KeptIsCurrent`, `FieldsAreIndependent`, `DictRestoresPacket` of `packets` |
| `Readout_proofs`: `CardTypeCorrect`, `GroupsCorrect`, `TotalsCorrect`, `FileCorrect`, `MessageCorrect` | the invariants of `pacman_card` |
| `Readout_proofs`: `ReadoutTypeCorrect`, `ReadoutCorrect` | the invariants of `readout` |

All hold for all values of the constants that satisfy the named assumptions:

* links: timeouts are integers and `Unset` is none of them (`TimeoutsAssumption`), the
  sink holds at least one payload (`CapacityAssumption`), frames are bounded by a
  natural number (`MaxFramesAssumption`);
* monitoring: sizes are positive (`SizesAssumption`), `INT_MAX` and the bounds are
  natural numbers (`IntMaxAssumption`, `BoundsAssumption`);
* plugin and application: a name that selects a link is a name
  (`TargetsAssumption`), configurations have two integers (`ConfsAssumption`), there is
  at least one producer (`MaxProducersAssumption`), queues are finitely many
  (`MaxRefsAssumption`);
* packets: values assigned are those that 31 bits hold (`SamplesAssumption`), io
  numbers natural ones (`IoNumbersAssumption`), plain packets have the attributes of
  their kind, with times of at most 31 bits (`PlainAssumption`), `None` is neither
  `Error` nor a number (`NoneAssumption`), calls are
  bounded (`MaxCallsAssumption`);
* emulator and readout: a file is a sequence of kinds of packets (`FilesAssumption`),
  totals, groups and loops are positive and an `MPD` card has one mode
  (`ArgumentsAssumption`), connections are bounded (`MaxConnectsAssumption`). A readout
  is not pointed at an MPD card: `ReadoutInit` says so.

Facts about sequences built one entry after another are proved without induction
over an operator, which no installed prover can instantiate: the least number at which
a statement fails is taken (`WellFoundedInduction`), and the number before it gives the
contradiction.

Only model-checked: liveness (`StopFinishes`, `FramesAreTaken`, the fairness of
`IsFairRelay`, `Connects`, `SentIsRead`), which the prover does not handle; and
`FileRestoresPacket`, which compares a packet's fields before and after a file. Of this the
proofs have that the packet that comes back is a good one of its kind.

## 6. Plan

Done, in this order: the two links with their promise and proofs; monitoring; the
plugin; packets of both generations and files of every version; messages; the
emulators; the application; the emulator and the readout scripts over a network that
cuts and joins; the theorems on monitoring, plugin, emulator and application; those on
packets, messages and readout, and the refinement of the reader by the application.

Next:

1. a theorem on the round trip by files (`FileRestoresPacket`), version by version, from
   what `Packets_proofs` has of the rows;
2. several readers in one application, which bind the same address;
3. the links' frames as chunks: `LinkModel` composed with the network of `Readout`.

## 7. Not modelled

| Part | Why |
|---|---|
| `test/mpd-hdf5decoder-RAW.py`, the random shortening of `mpd_helper.py` | sequential reading and printing of a DAQ file; sizes of events matter to nothing here |
| command and echo sockets of `pacman-generator.py` | opened and never used |
| `larpix.c`, `larpix.h` | accessors of words by pointer arithmetic that nothing in the repository calls |
| writing of configurations (`_format_configs_chip_v2_4`) | the chips it formats are of larpix-control; reading them raises, which is modelled |
| other fields of `get_info` | read by one thread while the other writes, one word each |
| schemas, issues, CMake, CI | declarations and build |
| unit and integration tests | read as statements of what the parts promise |
| readout, iomanager, ZeroMQ, run control | external; modelled as far as the code here uses them |
