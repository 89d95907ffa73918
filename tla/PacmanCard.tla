----------------------------- MODULE PacmanCard -----------------------------
(***************************************************************************)
(* The programs that stand in for a card.  pacman-generator-RAW.py cuts a  *)
(* file of packets into messages, connects to the readout, trying again    *)
(* each second until somebody answers, and sends the messages one by one   *)
(* or in groups, as often as the file is to be looped through;             *)
(* pacman-generator.py publishes them to whoever listens;                  *)
(* mpd-generator-RAW.py connects like the first and sends a file's events. *)
(***************************************************************************)
EXTENDS PacmanMessage

CONSTANTS
  Files,       \* files, as sequences of kinds of packets
  Arguments,   \* [program, mode, n_messages_total, n_messages_group, n_file_evals]
  MaxConnects  \* bound on the connections that are told apart

Kinds == {"data", "config", "time", "message", "sync", "trig"}
Unbound == "unbound"

ASSUME FilesAssumption == Files \subseteq Seq(Kinds)
ASSUME ArgumentsAssumption ==
  \A a \in Arguments : a.program \in {"RAW", "PUB", "MPD"} /\ (a.program = "MPD" => a.mode = 0)
                       /\ a.mode \in 0..4 /\ a.n_messages_total \in Nat \ {0}
                       /\ a.n_messages_group \in Nat \ {0} /\ a.n_file_evals \in Nat \ {0}
ASSUME MaxConnectsAssumption == MaxConnects \in Nat

VARIABLES
  file, args,      \* what the generator was called with
  word_lists,      \* the messages, as lists of words, or the events of an MPD file
  stage,           \* where pacman() is
  listening,       \* the readout has bound its socket, or its subscription is in
  connections,     \* calls of connect: each is a connection of its own
  notices,         \* connections made whose routing id nobody has read
  loop, i,         \* the loop of the file it is in, and the messages sent in it
  message_count,
  next_sleep,      \* whether the local variable of that name has a value
  since            \* history: messages sent since it slept

input == <<file, args, word_lists>>
link  == <<listening, connections, notices>>
count == <<loop, i, message_count, next_sleep, since>>
vars  == <<input, stage, link, count>>

-----------------------------------------------------------------------------
(* hdf5ToPackets.                                                          *)

\* The packet types that decide where a message begins.
packet_type(kind) ==
  [data |-> 0, config |-> 2, time |-> 4, message |-> 5, sync |-> 6, trig |-> 7][kind]

\* The packets of the file, each with values of its own, and the words that
\* format() writes of them, which parse_msg() reads (see MessageParsesBack).
packet(k) ==
  CASE file[k] \in {"data", "config"} ->
         [kind |-> "v2", io_channel |-> <<"io_channel", k>>,
          receipt_timestamp |-> <<"receipt", k>>, bytes |-> <<"packet", k>>]
    [] file[k] = "sync" ->
         [kind |-> "sync", sync_type |-> <<"type", k>>, clk_source |-> Number(k % 2),
          timestamp |-> <<"time", k>>]
    [] file[k] = "trig" ->
         [kind |-> "trigger", trigger_type |-> <<"type", k>>, timestamp |-> <<"time", k>>]
    [] OTHER -> [kind |-> "timestamp", timestamp |-> <<"time", k>>]

packets(from, to) == [k \in 1..(to - from + 1) |-> packet(from + k - 1)]

Words(from, to) == FlattenSeq([k \in 1..(to - from + 1) |-> packet_data_data(packet(from + k - 1))])

\* The places of data packets and of the last packet.
msg_breaks == InOrder({k \in 1..Len(file) : packet_type(file[k]) = 0 \/ k = Len(file)})

\* Mutant: the packet at a break belongs to both messages.
hdf5ToPacketsOverlap ==
  [m \in 1..(Len(msg_breaks) - 1) |-> Words(msg_breaks[m], msg_breaks[m + 1])]

\* From each break to the next.
hdf5ToPackets ==
  [m \in 1..(Len(msg_breaks) - 1) |-> Words(msg_breaks[m], msg_breaks[m + 1] - 1)]

-----------------------------------------------------------------------------
(* mpd_helper.py: the events of the file, once for each time it is looped  *)
(* through.  Reaching the number of packets asked for ends one reading of  *)
(* the file; the readings that follow are not ended.                       *)

decoded ==
  LET num_packets == args.n_messages_total
      after[n \in 0..args.n_file_evals] ==
        IF n = 0 THEN <<>>
        ELSE LET missing == num_packets - Len(after[n - 1])
             IN after[n - 1] \o
                [k \in 1..(IF missing \in 1..Len(file) THEN missing ELSE Len(file)) |-> k]
  IN after[args.n_file_evals]

\* All that is sent of them.
mpd_packets == SubSeq(decoded, 1, Len(decoded) - 1)

loops == IF args.program = "MPD" THEN 1 ELSE args.n_file_evals

-----------------------------------------------------------------------------
(* pacman().                                                               *)

this_n_messages_total ==
  CASE args.mode = 3 -> 10 [] args.mode = 4 -> 50 [] OTHER -> args.n_messages_total

this_n_messages_group ==
  CASE args.mode = 3 -> 1 [] args.mode = 4 -> 5 [] OTHER -> args.n_messages_group

Init ==
  /\ file \in Files /\ args \in Arguments
  /\ word_lists = (IF args.program = "MPD" THEN mpd_packets ELSE hdf5ToPackets)
  /\ stage = (IF args.program = "PUB" THEN "prompt" ELSE "connect") /\ listening = FALSE /\ connections = 0 /\ notices = 0
  /\ loop = 1 /\ i = 0 /\ message_count = 0 /\ next_sleep = Unbound /\ since = 0

Goto(from, to) == stage = from /\ stage' = to

\* connect() always succeeds, and asks for one more connection each time.
Connect ==
  /\ Goto("connect", "recv")
  /\ connections' = IF connections < MaxConnects THEN connections + 1 ELSE connections
  /\ UNCHANGED <<input, listening, notices, count>>

\* Mutant: an answer that is late is thrown away.
RecvTimeoutForgets ==
  /\ Goto("recv", "connect")
  /\ notices' = 0
  /\ UNCHANGED <<input, listening, connections, count>>

\* The routing id and the empty frame that comes with it,
RecvId ==
  /\ notices > 0 /\ Goto("recv", "prompt")
  /\ notices' = notices - 1
  /\ UNCHANGED <<input, listening, connections, count>>

\* or nothing for 100 ms, a second of sleep, and all over.
RecvTimeout ==
  /\ notices = 0 /\ Goto("recv", "connect")
  /\ UNCHANGED <<input, link, count>>

\* The user presses a key.
KeyPressed == Goto("prompt", "send") /\ UNCHANGED <<input, link, count>>

\* Mutant: the count starts again with the file.
SentCountsLoop ==
  /\ stage = "send" /\ i < Len(word_lists)
  /\ i' = i + 1 /\ message_count' = i + 1 /\ since' = since + 1
  /\ UNCHANGED <<input, link, loop>>

\* One message is sent and counted, though the peer may be gone: ZeroMQ takes
\* what it has room for,
Sent ==
  /\ stage = "send" /\ i < Len(word_lists)
  /\ i' = i + 1 /\ message_count' = message_count + 1 /\ since' = since + 1
  /\ UNCHANGED <<input, link, loop>>

AtTotal == args.mode \in {1, 3, 4} /\ message_count' % this_n_messages_total = 0
AtGroup == args.mode \in {1, 3, 4} /\ message_count' % this_n_messages_group = 0

To(next, sleep) == stage' = next /\ next_sleep' = sleep

\* Mutant: the group is tested first.
SendGroupFirst ==
  /\ Sent
  /\ CASE args.mode = 2 -> To("next", next_sleep)
       [] args.mode = 0 \/ AtGroup -> To("sleep", "set")
       [] AtTotal /\ ~AtGroup -> To("sleep_and_break", next_sleep)
       [] OTHER -> To("send", next_sleep)

\* and the mode makes of the count what comes next.  A total that comes
\* before the first group finds next_sleep without a value.
Send ==
  /\ Sent
  /\ CASE args.mode = 2 -> To("next", next_sleep)
       [] args.mode = 0 -> To("sleep", "set")
       [] AtTotal -> To(IF next_sleep = Unbound THEN "error" ELSE "sleep_and_break", next_sleep)
       [] AtGroup /\ ~AtTotal -> To("sleep", "set")
       [] OTHER -> To("send", next_sleep)

\* The connection is gone, or there was no room for 100 ms, which a publisher
\* does not wait for: the exception ends the program.
SendFails ==
  /\ args.program # "PUB" /\ i < Len(word_lists) /\ Goto("send", "lost")
  /\ UNCHANGED <<input, link, count>>

Sleep ==
  /\ Goto("sleep", "send") \/ Goto("sleep_and_break", "next")
  /\ since' = 0
  /\ UNCHANGED <<input, link, loop, i, message_count, next_sleep>>

EndOfList ==
  /\ i = Len(word_lists) /\ Goto("send", "next")
  /\ UNCHANGED <<input, link, count>>

\* Mutant: one loop too many.
NextLoopOneMore ==
  /\ Goto("next", IF loop > loops THEN "done" ELSE "send")
  /\ loop' = loop + 1 /\ i' = 0
  /\ UNCHANGED <<input, link, message_count, next_sleep, since>>

NextLoop ==
  /\ Goto("next", IF loop = loops THEN "done" ELSE "send")
  /\ loop' = loop + 1 /\ i' = 0
  /\ UNCHANGED <<input, link, message_count, next_sleep, since>>

-----------------------------------------------------------------------------
(* The readout, and the network between.                                   *)

Listen == ~listening /\ listening' = TRUE /\ UNCHANGED <<input, stage, connections, notices, count>>

\* Connections made: the card has read of one when it is past recv().
Told == notices + IF stage \in {"connect", "recv"} THEN 0 ELSE 1

\* A connection asked for is made, and both ends are told.
Handshake ==
  /\ listening /\ Told < connections
  /\ stage \notin {"done", "error", "lost"}
  /\ notices' = notices + 1
  /\ UNCHANGED <<input, stage, listening, connections, count>>

Vanish ==
  /\ listening /\ stage \notin {"done", "error", "lost"}
  /\ listening' = FALSE
  /\ UNCHANGED <<input, stage, connections, notices, count>>

Card ==
  \/ Connect \/ RecvId \/ RecvTimeout \/ Send \/ SendFails \/ Sleep \/ EndOfList \/ NextLoop

Next == Card \/ KeyPressed \/ Listen \/ Handshake \/ Vanish

Spec == Init /\ [][Next]_vars

\* The generator runs, and a connection that can be made is made.
FairSpec == Spec /\ WF_vars(Card) /\ WF_vars(Handshake)

-----------------------------------------------------------------------------
TypeOK ==
  /\ file \in Files /\ args \in Arguments
  /\ stage \in {"connect", "recv", "prompt", "send", "sleep", "sleep_and_break", "next",
                "done", "error", "lost"}
  /\ listening \in BOOLEAN /\ connections \in 0..MaxConnects /\ notices \in 0..MaxConnects
  /\ loop \in 1..loops + 1 /\ i \in 0..Len(word_lists)
  /\ message_count \in Nat /\ since \in Nat /\ next_sleep \in {Unbound, "set"}

\* The message sent last, as its bytes, at some time of day, and the packets
\* it is of.
Now     == Number(1)
Message == format_msg("DATA", Now, word_lists[i])
OfKind(ps, kinds) ==
  LET places == InOrder({k \in 1..Len(ps) : ps[k].kind \in kinds})
  IN [n \in 1..Len(places) |-> ps[places[n]]]
Source  == OfKind(packets(msg_breaks[i], msg_breaks[i + 1] - 1), {"v2", "sync", "trigger"})
Request == OfKind(Source, {"v2"})

\* What is sent parses back into the words and the packets it was made of,
\* and a request of the packets into their channels and bytes.
MessageParsesBack ==
  i > 0 /\ args.program # "MPD" =>
    /\ parse_msg(Message) = <<<<"DATA", Now, Number(Len(word_lists[i]))>>, word_lists[i]>>
    /\ Tail(parse(Message)) = Source
    /\ Tail(parse(format(Source, "REQ", Now))) =
         [n \in 1..Len(Request) |-> [Request[n] EXCEPT !.receipt_timestamp = Request[n].bytes]]

\* At every point of a loop, what it has sent is the file from the first data
\* packet up to the next message, no packet twice or left out; of an MPD file,
\* its events from the first of each reading on.  A loop of mode 0 ends when
\* every message is sent, one of mode 2 after the first, and the count says so
\* of all loops together.
FileIsSentInOrder ==
  /\ IF args.program = "MPD"
       THEN \A k \in 1..i :
              word_lists[k] = (IF k = 1 \/ word_lists[k - 1] = Len(file) \/ k - 1 = args.n_messages_total
                                 THEN 1 ELSE word_lists[k - 1] + 1)
       ELSE i > 0 => FlattenSeq(SubSeq(word_lists, 1, i)) =
                       Words(msg_breaks[1], msg_breaks[i + 1] - 1)
  /\ args.program # "MPD" /\ args.mode \in {0, 2} =>
       LET each == IF args.mode = 2 /\ Len(word_lists) > 0 THEN 1 ELSE Len(word_lists)
       IN message_count = (loop - 1) * each + i /\ (stage = "next" => i = each)

\* In the modes that have a total, a loop through a file with as many
\* messages sends just so many.
LoopSendsTotal ==
  stage = "next" /\ args.mode \in {1, 3, 4} /\ Len(word_lists) >= this_n_messages_total =>
    i = this_n_messages_total

\* The generator sleeps after each group, across the ends of loops too.
GroupsAreApart == args.mode \in {1, 3, 4} => since <= this_n_messages_group

\* A readout that listens, early or late, gets its card.
Connects ==
  (stage \in {"connect", "recv"} /\ listening) ~> (stage \notin {"connect", "recv"} \/ ~listening)

\* "For each loop of the input file you will send" the total, or all there
\* is of a file with fewer messages.
EachLoopSendsTotal ==
  stage = "next" /\ args.mode \in {1, 3, 4} =>
    i = IF Len(word_lists) < this_n_messages_total THEN Len(word_lists)
        ELSE this_n_messages_total
=============================================================================
