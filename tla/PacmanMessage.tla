--------------------------- MODULE PacmanMessage ---------------------------
(***************************************************************************)
(* The PACMAN message format: a header and words of sixteen bytes, as      *)
(* larpixtools.py writes and parses it.  A value is a pair of what it is   *)
(* and a number, and a byte is known by the value it belongs to and its    *)
(* place in it, so that bytes taken from the wrong place give no value.    *)
(***************************************************************************)
EXTENDS Integers, Sequences, FiniteSets, SequencesExt

Char(c)   == <<c, 0>>
Number(n) == <<"number", n>>

\* What unpacking bytes of different values, or out of order, gives.
Garbage == <<"garbage", 0>>

HEADER_LEN == 8
WORD_LEN == 16

msg_type_table == [REQ |-> "?", REP |-> "!", DATA |-> "D"]

word_type_table ==
  [REQ  |-> [PING |-> "P", WRITE |-> "W", READ |-> "R", TX |-> "D"],
   REP  |-> [WRITE |-> "W", READ |-> "R", TX |-> "D", PONG |-> "P", ERR |-> "E"],
   DATA |-> [DATA |-> "D", TRIG |-> "T", SYNC |-> "S"]]

\* The struct formats: a field of so many bytes, or, where negative, padding.
msg_header_fmt == <<1, 4, -1, 2>>

word_fmt_table ==
  [DATA  |-> <<1, 1, 4, -2, 8>>, TRIG  |-> <<1, 1, -2, 4, -8>>,
   SYNC  |-> <<1, 1, 1, -1, 4, -8>>, PING  |-> <<1, -15>>,
   WRITE |-> <<1, -3, 4, -4, 4>>, READ  |-> <<1, -3, 4, -4, 4>>,
   TX    |-> <<1, 1, -6, 8>>,     PONG  |-> <<1, -15>>,
   ERR   |-> <<1, 1, 14>>]

-----------------------------------------------------------------------------
(* struct.pack and struct.unpack.                                          *)

\* The numbers of a finite set, smallest first.
InOrder(S) == [m \in 1..Cardinality(S) |-> CHOOSE k \in S : Cardinality({j \in S : j <= k}) = m]

Size(item)    == IF item > 0 THEN item ELSE -item
FieldsOf(fmt) == InOrder({i \in 1..Len(fmt) : fmt[i] > 0})

\* How many bytes the items before the i-th take.
Offset(fmt, i) ==
  LET at[j \in 1..i] == IF j = 1 THEN 0 ELSE at[j - 1] + Size(fmt[j - 1])
  IN at[i]

BytesOf(value, n) == [k \in 1..n |-> <<value, k>>]

ValueOf(bytes) ==
  IF bytes = BytesOf(bytes[1][1], Len(bytes)) THEN bytes[1][1] ELSE Garbage

pack(fmt, data) ==
  LET number(i) == Cardinality({j \in 1..i : fmt[j] > 0})
  IN FlattenSeq([i \in 1..Len(fmt) |->
       BytesOf(IF fmt[i] > 0 THEN data[number(i)] ELSE Char("pad"), Size(fmt[i]))])

unpack(fmt, bytes) ==
  LET fields == FieldsOf(fmt)
  IN [n \in 1..Len(fields) |->
        ValueOf(SubSeq(bytes, Offset(fmt, fields[n]) + 1,
                              Offset(fmt, fields[n]) + fmt[fields[n]]))]

\* The name that a table has a character under.
NameOf(table, value) ==
  IF \E name \in DOMAIN table : Char(table[name]) = value
    THEN CHOOSE name \in DOMAIN table : Char(table[name]) = value ELSE "KeyError"

-----------------------------------------------------------------------------
(* larpixtools.py.  A word is its name followed by its data.               *)

format_word(msg_type, word) ==
  pack(word_fmt_table[word[1]], <<Char(word_type_table[msg_type][word[1]])>> \o Tail(word))

\* Mutant: the header has the number of bytes.
format_headerBytes(msg_type, time, words) ==
  pack(msg_header_fmt, <<Char(msg_type_table[msg_type]), time, Number(WORD_LEN * words)>>)

format_header(msg_type, time, words) ==
  pack(msg_header_fmt, <<Char(msg_type_table[msg_type]), time, Number(words)>>)

format_msg(msg_type, time, words) ==
  format_header(msg_type, time, Len(words)) \o
  FlattenSeq([i \in 1..Len(words) |-> format_word(msg_type, words[i])])

parse_header(msg) ==
  LET data == unpack(msg_header_fmt, SubSeq(msg, 1, HEADER_LEN))
  IN <<NameOf(msg_type_table, data[1])>> \o Tail(data)

\* A word is named by its first byte and by the type of the message.
parse_word(msg_type, word) ==
  LET name == NameOf(word_type_table[msg_type], word[1][1])
  IN IF name = "KeyError" THEN <<name>>
     ELSE <<name>> \o Tail(unpack(word_fmt_table[name], word))

\* The words follow one another to the end of the message, whatever number
\* of them the header has.
parse_msg(msg) ==
  LET header == parse_header(msg)
  IN <<header,
       [i \in 1..((Len(msg) - HEADER_LEN) \div WORD_LEN) |->
          parse_word(header[1], SubSeq(msg, HEADER_LEN + WORD_LEN * (i - 1) + 1,
                                            HEADER_LEN + WORD_LEN * i))]>>

-----------------------------------------------------------------------------
(* Packets and words.  A packet is a record of what a word has of it.      *)

packet_data_req(p) ==
  IF p.kind = "v2" THEN <<<<"TX", p.io_channel, p.bytes>>>> ELSE <<>>

\* A packet without a receipt time gets the message's; those here have one.
packet_data_data(p) ==
  CASE p.kind = "v2"      -> <<<<"DATA", p.io_channel, p.receipt_timestamp, p.bytes>>>>
    [] p.kind = "sync"    -> <<<<"SYNC", p.sync_type, p.clk_source, p.timestamp>>>>
    [] p.kind = "trigger" -> <<<<"TRIG", p.trigger_type, p.timestamp>>>>
    [] OTHER              -> <<>>

\* Packets without a word of the message's type are left out.
format(packets, msg_type, time) ==
  format_msg(msg_type, time,
             FlattenSeq([i \in 1..Len(packets) |-> IF msg_type = "DATA" THEN packet_data_data(packets[i])
                                                   ELSE packet_data_req(packets[i])]))

\* The packet of a word.  Of a request's word the third entry is the bytes
\* again, which are taken for its time; of a clock source one bit is kept.
PacketOf(word) ==
  CASE word[1] \in {"TX", "DATA"} ->
         <<[kind |-> "v2", io_channel |-> word[2], receipt_timestamp |-> word[3],
            bytes |-> word[Len(word)]]>>
    [] word[1] = "TRIG" ->
         <<[kind |-> "trigger", trigger_type |-> word[2], timestamp |-> word[3]]>>
    [] word[1] = "SYNC" ->
         <<[kind |-> "sync", sync_type |-> word[2],
            clk_source |-> Number(word[3][2] % 2), timestamp |-> word[4]]>>
    [] OTHER -> <<>>

\* A message's packets, behind one with the time of its header.
parse(msg) ==
  LET parsed == parse_msg(msg)
  IN <<[kind |-> "timestamp", timestamp |-> parsed[1][2]]>> \o
     FlattenSeq([i \in 1..Len(parsed[2]) |-> PacketOf(parsed[2][i])])
=============================================================================
