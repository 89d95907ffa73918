------------------------------ MODULE Readout -------------------------------
(***************************************************************************)
(* A card and the script that reads it: python-readout-RAW.py, which binds *)
(* a STREAM socket, or python-readout.py, which subscribes.  Between card  *)
(* and STREAM socket is a TCP connection, which has no messages: what was  *)
(* sent may arrive cut or joined anywhere, and each chunk is parsed as a   *)
(* message.  The connection is seen in units of eight bytes: a header is   *)
(* one, a word two.  A chunk that ends inside a unit fails like one that   *)
(* ends inside a word.                                                     *)
(***************************************************************************)
EXTENDS PacmanCard

VARIABLES
  reader,    \* where readout() is
  wire,      \* units that TCP has not delivered
  frames,    \* what ZeroMQ has for the readout: pairs of a kind and units
  messages,  \* the readout's count
  closed,    \* the card has closed its socket, and the readout was told
  sent,      \* history: the messages sent, as places in word_lists,
  read,      \* what parse() made of each message received,
  whole      \* and whether each chunk so far was one message

far   == <<reader, frames, messages, read>>
rvars == <<far, wire, closed, sent, whole>>
all   == <<vars, rvars>>

Raw     == args.program = "RAW"
Ended   == reader = "ended"

\* A word read from bytes of different words.
Broken  == <<0, 0>>

-----------------------------------------------------------------------------
(* Units: the n-th message's header is <<n, 0>>, the halves of its w-th    *)
(* word are <<n, 2 * w - 1>> and <<n, 2 * w>>.                             *)

Units(n, words) == [j \in 1..(1 + 2 * Len(words)) |-> <<n, j - 1>>]

IsHeader(u)   == u[2] = 0
BeginsWord(u) == u[2] % 2 = 1
WordType(u)   == word_lists[sent[u[1]]][(u[2] + 1) \div 2][1]

\* The character a unit begins with.  The second half of a data word is the
\* packet, which may begin with any; those of the others are padding.
Letters(u) ==
  CASE IsHeader(u)   -> {msg_type_table.DATA}
    [] BeginsWord(u) -> {word_type_table.DATA[WordType(u)]}
    [] OTHER         -> IF WordType(u) = "DATA" THEN {"D", "T", "S", "other"} ELSE {"other"}

\* parse() of a chunk: the first unit is taken for a header, each two that
\* follow for a word, and one that is left over, or a character that is in
\* no table, raises an exception.  A word is known by its first unit.
Parsed(chunk) ==
  LET places == {1} \cup {k \in 2..Len(chunk) : k % 2 = 0}
      known(k) == IF k = 1 THEN {msg_type_table.DATA} ELSE {"D", "T", "S"}
      word(k)  == IF BeginsWord(chunk[k]) /\ chunk[k + 1] = <<chunk[k][1], chunk[k][2] + 1>>
                    THEN chunk[k] ELSE Broken
      may   == Len(chunk) % 2 = 1 /\ \A k \in places : Letters(chunk[k]) \cap known(k) # {}
      must  == Len(chunk) % 2 = 1 /\ \A k \in places : Letters(chunk[k]) \subseteq known(k)
      words == [w \in 1..((Len(chunk) - 1) \div 2) |-> word(2 * w)]
  IN {outcome \in {[raised |-> TRUE], [raised |-> FALSE, words |-> words]} :
        IF outcome.raised THEN ~must ELSE may}

-----------------------------------------------------------------------------
\* The scripts parse PACMAN messages, which an MPD card does not send.
ReadoutInit ==
  /\ Init /\ args.program # "MPD"
  /\ reader = "start" /\ wire = <<>> /\ frames = <<>> /\ messages = 0 /\ closed = FALSE
  /\ sent = <<>> /\ read = <<>> /\ whole = TRUE

\* ZeroMQ tells of a connection that is made or lost by an empty message; all
\* messages of a STREAM socket come in two parts, the first of which is the
\* routing id, five bytes that are kept as their kind alone.
Notice == <<<<"id", <<>>>>, <<"body", <<>>>>>>

\* The card writes to the connection, or publishes, which reaches a
\* subscription that is there.  A publisher drops what is beyond a thousand
\* messages that wait; a run has fewer.
CardSends ==
  /\ Send
  /\ sent' = Append(sent, i')
  /\ LET units == Units(Len(sent'), word_lists[i'])
     IN /\ wire' = IF Raw THEN wire \o units ELSE wire
        /\ frames' = IF ~Raw /\ listening THEN Append(frames, <<"body", units>>) ELSE frames
  /\ UNCHANGED <<reader, messages, read, closed, whole>>

CardGoesOn ==
  /\ Connect \/ RecvId \/ RecvTimeout \/ SendFails \/ Sleep \/ EndOfList \/ NextLoop
  /\ UNCHANGED rvars

CardStep == CardSends \/ CardGoesOn

UserStarts == KeyPressed /\ UNCHANGED rvars

-----------------------------------------------------------------------------
(* The network.                                                            *)

ConnectionIsMade ==
  /\ Handshake
  /\ frames' = frames \o Notice
  /\ UNCHANGED <<reader, messages, read, wire, closed, sent, whole>>

\* Any beginning of what is under way arrives as a chunk.
Deliver(n) ==
  LET chunk == SubSeq(wire, 1, n)
  IN /\ ~Ended /\ n <= Len(wire)
     /\ wire' = SubSeq(wire, n + 1, Len(wire))
     /\ frames' = frames \o <<<<"id", <<>>>>, <<"body", chunk>>>>
     /\ whole' = (whole /\ IsHeader(chunk[1]) /\ (\A k \in 2..n : ~IsHeader(chunk[k]))
                        /\ (wire' = <<>> \/ IsHeader(wire'[1])))
     /\ UNCHANGED <<vars, reader, messages, read, closed, sent>>

\* The card closes its socket.  That what it has sent arrives before (LINGER
\* gives it 100 ms, the end of a run ten seconds) is taken for granted.
ConnectionIsClosed ==
  /\ Raw /\ ~Ended /\ ~closed /\ stage \in {"done", "error", "lost"} /\ wire = <<>>
  /\ closed' = TRUE
  /\ frames' = frames \o Notice
  /\ UNCHANGED <<vars, reader, messages, read, wire, sent, whole>>

\* The subscription reaches the publisher.
Attach ==
  /\ ~Raw /\ reader \notin {"start", "ended"} /\ Listen
  /\ UNCHANGED rvars

-----------------------------------------------------------------------------
(* readout().                                                              *)

\* python-readout-RAW.py binds, after which the card may connect;
Bind ==
  /\ Raw /\ reader = "start" /\ reader' = "prompt" /\ Listen
  /\ UNCHANGED <<frames, messages, read, wire, closed, sent, whole>>

\* python-readout.py connects and subscribes.
Subscribe ==
  /\ ~Raw /\ reader = "start" /\ reader' = "prompt"
  /\ UNCHANGED <<vars, frames, messages, read, wire, closed, sent, whole>>

\* What the loop receives first.
First == IF Raw THEN "id" ELSE "body"

EnterPressed ==
  /\ reader = "prompt" /\ reader' = First
  /\ UNCHANGED <<vars, frames, messages, read, wire, closed, sent, whole>>

ReaderRecvId ==
  /\ reader = "id" /\ frames # <<>>
  /\ frames' = Tail(frames) /\ reader' = "body"
  /\ UNCHANGED <<vars, messages, read, wire, closed, sent, whole>>

\* parse() of a part, whichever it is: an id is too short for a header.
Outcomes(frame) == IF frame[1] = "id" THEN {[raised |-> TRUE]} ELSE Parsed(frame[2])

\* Mutant: the readout goes on after an exception.
ParseToGoesOn(next) ==
  /\ frames' = Tail(frames) /\ messages' = messages + 1 /\ reader' = next
  /\ \E result \in Outcomes(Head(frames)) :
       read' = IF result.raised THEN read ELSE Append(read, result.words)
  /\ UNCHANGED <<vars, wire, closed, sent, whole>>

\* A message is counted and parsed; an exception closes the socket.
ParseTo(next) ==
  /\ frames' = Tail(frames) /\ messages' = messages + 1
  /\ \E result \in Outcomes(Head(frames)) :
       IF result.raised
         THEN /\ reader' = "ended" /\ listening' = FALSE
              /\ UNCHANGED <<input, stage, connections, notices, count, read>>
         ELSE read' = Append(read, result.words) /\ reader' = next /\ UNCHANGED vars
  /\ UNCHANGED <<wire, closed, sent, whole>>

\* Mutant: a part is received too few: the next id is taken for a message.
RecvEmptyShort ==
  /\ Raw /\ reader = "body" /\ frames # <<>> /\ Head(frames) = <<"body", <<>>>>
  /\ frames' = Tail(frames) /\ reader' = "body"
  /\ UNCHANGED <<vars, messages, read, wire, closed, sent, whole>>

\* An empty message of a STREAM socket is not counted.
RecvEmpty ==
  /\ Raw /\ reader = "body" /\ frames # <<>> /\ Head(frames) = <<"body", <<>>>>
  /\ frames' = Tail(frames) /\ reader' = "id"
  /\ UNCHANGED <<vars, messages, read, wire, closed, sent, whole>>

\* Mutant: the user is asked again.
RecvMessageAsks ==
  Raw /\ reader = "body" /\ frames # <<>> /\ Head(frames) # <<"body", <<>>>> /\ ParseTo("prompt")

RecvMessage ==
  Raw /\ reader = "body" /\ frames # <<>> /\ Head(frames) # <<"body", <<>>>> /\ ParseTo("id")

\* python-readout.py counts and parses whatever comes.
RecvPublished == ~Raw /\ reader = "body" /\ frames # <<>> /\ ParseTo("body")

\* The user ends it.
ReaderIsStopped ==
  /\ Vanish /\ reader' = "ended"
  /\ UNCHANGED <<frames, messages, read, wire, closed, sent, whole>>

Reader  == ReaderRecvId \/ RecvEmpty \/ RecvMessage \/ RecvPublished
Network == ConnectionIsMade \/ ConnectionIsClosed \/ \E n \in 1..Len(wire) : Deliver(n)

ReadoutNext ==
  CardStep \/ UserStarts \/ Network \/ Attach \/ Bind \/ Subscribe \/ EnterPressed \/ Reader \/ ReaderIsStopped

\* The programs run, and TCP delivers.
ReadoutSpec ==
  ReadoutInit /\ [][ReadoutNext]_all /\ WF_all(CardStep) /\ WF_all(Network) /\ WF_all(Reader)

-----------------------------------------------------------------------------
\* Types, and what is received next is what the script takes it for: an id
\* where it receives an id, a message where it counts and parses one.  It has
\* parsed all it has counted, but for the one that raised.
ReadoutTypeOK ==
  /\ TypeOK
  /\ reader \in {"start", "prompt", "id", "body", "ended"}
  /\ \A k \in 1..Len(frames) : frames[k][1] \in {"id", "body"}
  /\ ~Ended /\ frames # <<>> =>
       Head(frames)[1] = IF ~Raw \/ reader = "body" THEN "body" ELSE "id"
  /\ messages = Len(read) \/ (Ended /\ messages = Len(read) + 1)
  /\ Len(sent) = message_count /\ {closed, whole} \subseteq BOOLEAN

\* The words of the n-th message sent, as parse() gives them.
WordsOf(n) == [w \in 1..Len(word_lists[sent[n]]) |-> <<n, 2 * w - 1>>]

\* What the card writes of it.
UnitsOf(n) == Units(n, word_lists[sent[n]])

\* Units in the order they are sent.
Before(u, v) == u[1] < v[1] \/ (u[1] = v[1] /\ u[2] < v[2])

\* However TCP cuts the messages, the readout reads no word twice or before
\* an earlier one, but for broken ones.
ReadsInOrder ==
  \A r, s \in 1..Len(read) : \A v \in 1..Len(read[r]), w \in 1..Len(read[s]) :
    (r < s \/ (r = s /\ v < w)) /\ Broken \notin {read[r][v], read[s][w]} =>
      Before(read[r][v], read[s][w])

\* A message is under way: it waits in the socket, or has not come that far.
UnderWay(n) ==
  \/ \E k \in 1..Len(frames) : frames[k][2] = UnitsOf(n)
  \/ \E k \in 1..Len(wire) : wire[k] = <<n, 0>>

\* Moreover, when each chunk is a message, the readout never ends by itself,
\* and has read and counted the messages in order, from the first one sent
\* over a connection and from some one of those published, with none left
\* out: those it has not read are still under way.
ReadsWhatWasSent ==
  /\ ReadsInOrder
  /\ whole =>
       /\ messages = Len(read)
       /\ \E missed \in 0..(Len(sent) - Len(read)) :
            /\ Raw => missed = 0
            /\ \A k \in 1..Len(read) : read[k] = WordsOf(missed + k)
            /\ ~Ended /\ (Raw \/ read # <<>> \/ frames # <<>>) =>
                 \A n \in (missed + Len(read) + 1)..Len(sent) : UnderWay(n)

\* A readout that is listening reads what arrives, or an exception or its
\* user ends it: nothing is left for ever in the connection or the socket.
SentIsRead ==
  (reader \in {"id", "body"} /\ (wire # <<>> \/ frames # <<>>))
    ~> (Ended \/ (wire = <<>> /\ frames = <<>>))
=============================================================================
