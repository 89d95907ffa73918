----------------------------- MODULE LinkModel -----------------------------
(***************************************************************************)
(* What STREAMLinkModel and ZMQLinkModel share: one receiving thread (the  *)
(* "parser thread") that takes frames off a socket and hands them to a     *)
(* sink queue, and one thread that issues the commands of the run          *)
(* control.  The two classes differ in how they open the socket and in     *)
(* what a peer puts on it; those actions are in STREAMLink and ZMQLink.    *)
(*                                                                         *)
(* A frame is known by its position on the wire, so that wire[f] is what   *)
(* frame f carries, and a statistic that the code takes from a frame (its  *)
(* size, its timestamp) is the number of that frame, 0 before the first.   *)
(***************************************************************************)
EXTENDS Integers, Sequences

CONSTANTS
  Timeouts,     \* values zmq_receiver_timeout may be configured to (ms; negative: wait for ever)
  Unset,        \* what m_queue_timeout holds before conf: an indeterminate value
  Capacity,     \* how many payloads the sink queue holds
  MaxFrames     \* bound on the frames peers put on the wire

ASSUME TimeoutsAssumption == Timeouts \subseteq Int /\ Unset \notin Timeouts
ASSUME CapacityAssumption == Capacity \in Nat \ {0}
ASSUME MaxFramesAssumption == MaxFrames \in Nat

VARIABLES
  \* the link, as its fields
  m_run_marker, m_configured, m_queue_timeout, m_subscriber_connected,
  m_packetCounter, m_rcvd_zero, m_timestamp, m_packetsize,
  \* the control points of the two threads
  cmd,          \* where the command thread is: "idle", or inside conf, start or stop
  worker,       \* where the parser thread is: "ready", or inside process_*Link
  \* the socket
  socket,       \* "closed", or "open" once bound or connected
  peer,         \* a sender is attached to the socket
  wire,         \* every frame peers ever sent, in order, as what it carries
  received,     \* how many of them the parser thread has taken
  \* the sink queue
  delivered,    \* every frame pushed to the sink, in order
  taken,        \* how many of them the consumer has popped
  \* history
  dropped,      \* the frames whose push timed out
  mark          \* received, when the run marker was last cleared

config  == <<m_configured, m_queue_timeout, m_subscriber_connected, socket>>
control == <<m_run_marker, cmd, worker, mark>>
counts  == <<m_packetCounter, m_rcvd_zero, m_timestamp, m_packetsize>>
network == <<peer, wire, received>>
sink    == <<delivered, taken, dropped>>
vars    == <<config, control, counts, network, sink>>

Carries == {"data", "empty"}

\* The constructor, with the members' initialisers, and the sink that the
\* create*LinkModel factory sets before it returns the link.
Init ==
  /\ m_run_marker = FALSE /\ m_configured = FALSE
  /\ m_queue_timeout = Unset /\ m_subscriber_connected = FALSE
  /\ m_packetCounter = 0 /\ m_rcvd_zero = 0 /\ m_timestamp = 0 /\ m_packetsize = 0
  /\ cmd = "idle" /\ worker = "ready"
  /\ socket = "closed" /\ peer = FALSE /\ wire = <<>> /\ received = 0
  /\ delivered = <<>> /\ taken = 0 /\ dropped = {} /\ mark = 0

-----------------------------------------------------------------------------
(* The command thread.  The module registers its commands without a list   *)
(* of states they are legal in, so they may come in any order, one at a    *)
(* time.  A conf of a configured link, a start of a running one and a stop *)
(* of a stopped one return at once: they are stuttering steps.             *)

\* start(): the marker first, then the work.
Start ==
  /\ cmd = "idle" /\ ~m_run_marker
  /\ m_run_marker' = TRUE
  /\ cmd' = "set_work"
  /\ UNCHANGED <<worker, mark, config, counts, network, sink>>

\* ReusableThread::set_work refuses work unless the thread is ready, and
\* start() does not look at the answer.
SetWork ==
  /\ cmd = "set_work"
  /\ worker' = IF worker = "ready" THEN "assigned" ELSE worker
  /\ cmd' = "idle"
  /\ UNCHANGED <<m_run_marker, mark, config, counts, network, sink>>

\* stop(): clears the marker and then polls get_readiness() every 10 ms.
Stop ==
  /\ cmd = "idle" /\ m_run_marker
  /\ m_run_marker' = FALSE
  /\ mark' = received
  /\ cmd' = "wait_ready"
  /\ UNCHANGED <<worker, config, counts, network, sink>>

\* Mutant: stop() does not wait for the thread.
StopReturnsAtOnce ==
  /\ cmd = "wait_ready"
  /\ cmd' = "idle"
  /\ UNCHANGED <<m_run_marker, worker, mark, config, counts, network, sink>>

StopReturns ==
  /\ cmd = "wait_ready" /\ worker = "ready"
  /\ cmd' = "idle"
  /\ UNCHANGED <<m_run_marker, worker, mark, config, counts, network, sink>>

-----------------------------------------------------------------------------
(* The parser thread.  Only control changes until a frame is received.     *)

Goto(from, to) ==
  /\ worker = from
  /\ worker' = to
  /\ UNCHANGED <<m_run_marker, cmd, mark, config, counts, network, sink>>

\* Points where the thread holds the socket.
OnSocket == worker \in {"poll", "recv"}

\* The thread wakes up on the work it was given.
TakeWork == Goto("assigned", "check")

\* Mutant: the loop has no condition.
LoopForEver == Goto("check", "connected")

\* while (m_run_marker.load())
CheckMarker == Goto("check", IF m_run_marker THEN "connected" ELSE "ready")

\* if (m_subscriber_connected), or round the loop at once.
CheckConnected == Goto("connected", IF m_subscriber_connected THEN "poll" ELSE "check")

\* zmq::poll: an event, or the end of the timeout unless it is negative.
PollIn == received < Len(wire) /\ Goto("poll", "recv")

PollTimeout ==
  /\ received = Len(wire)
  /\ m_queue_timeout \in {t \in Timeouts : t >= 0}
  /\ Goto("poll", "check")

\* Mutant: a message of no bytes is handled like any other.
RecvEmptyIsSent ==
  /\ worker = "recv" /\ wire[received + 1] = "empty"
  /\ received' = received + 1
  /\ m_timestamp' = received + 1
  /\ worker' = "send"
  /\ UNCHANGED <<m_run_marker, cmd, mark, config, m_packetCounter, m_rcvd_zero,
                 m_packetsize, peer, wire, sink>>

\* A frame with nothing in it is counted and the loop continues.
RecvEmpty ==
  /\ worker = "recv" /\ wire[received + 1] = "empty"
  /\ received' = received + 1
  /\ m_rcvd_zero' = m_rcvd_zero + 1
  /\ worker' = "check"
  /\ UNCHANGED <<m_run_marker, cmd, mark, config, m_packetCounter, m_timestamp,
                 m_packetsize, peer, wire, sink>>

\* Mutant: the size is noted when the message is received.
RecvDataNotesSize ==
  /\ worker = "recv" /\ wire[received + 1] # "empty"
  /\ received' = received + 1
  /\ m_timestamp' = received + 1 /\ m_packetsize' = received + 1
  /\ worker' = "send"
  /\ UNCHANGED <<m_run_marker, cmd, mark, config, m_packetCounter, m_rcvd_zero, peer, wire, sink>>

\* Any other frame is loaded in a new payload, whose timestamp is noted.
RecvData ==
  /\ worker = "recv" /\ wire[received + 1] # "empty"
  /\ received' = received + 1
  /\ m_timestamp' = received + 1
  /\ worker' = "send"
  /\ UNCHANGED <<m_run_marker, cmd, mark, config, m_packetCounter, m_rcvd_zero,
                 m_packetsize, peer, wire, sink>>

SinkIsFull == Len(delivered) - taken >= Capacity

\* Mutant: the thread keeps what it has sent and sends it again.
SendAgain ==
  /\ worker = "send" /\ ~SinkIsFull
  /\ delivered' = Append(delivered, received)
  /\ worker' \in {"send", "account"}
  /\ UNCHANGED <<m_run_marker, cmd, mark, config, counts, network, taken, dropped>>

\* m_sink_queue->send(...) succeeds, the frame last received is in the sink;
Send ==
  /\ worker = "send" /\ ~SinkIsFull
  /\ delivered' = Append(delivered, received)
  /\ worker' = "account"
  /\ UNCHANGED <<m_run_marker, cmd, mark, config, counts, network, taken, dropped>>

\* Mutants: the loop continues from the handler of the exception; the sink's
\* timeout is for ever.
SendTimeoutContinues ==
  /\ worker = "send" /\ SinkIsFull
  /\ dropped' = dropped \cup {received}
  /\ worker' = "check"
  /\ UNCHANGED <<m_run_marker, cmd, mark, config, counts, network, delivered, taken>>

SendBlocks == FALSE

\* or it throws TimeoutExpired, of which only a warning is left.
SendTimeout ==
  /\ worker = "send" /\ SinkIsFull
  /\ dropped' = dropped \cup {received}
  /\ worker' = "count"
  /\ UNCHANGED <<m_run_marker, cmd, mark, config, counts, network, delivered, taken>>

\* The rest of the try block, which an exception skips.
Account ==
  /\ worker = "account"
  /\ m_packetsize' = received
  /\ worker' = "count"
  /\ UNCHANGED <<m_run_marker, cmd, mark, config, m_packetCounter, m_rcvd_zero,
                 m_timestamp, network, sink>>

\* Mutant: the loop drains the socket before it looks at the marker again.
CountAndDrain ==
  /\ worker = "count"
  /\ m_packetCounter' = m_packetCounter + 1
  /\ worker' = IF received < Len(wire) THEN "recv" ELSE "check"
  /\ UNCHANGED <<m_run_marker, cmd, mark, config, m_rcvd_zero, m_timestamp,
                 m_packetsize, network, sink>>

\* m_packetCounter++, which it does not.
Count ==
  /\ worker = "count"
  /\ m_packetCounter' = m_packetCounter + 1
  /\ worker' = "check"
  /\ UNCHANGED <<m_run_marker, cmd, mark, config, m_rcvd_zero, m_timestamp,
                 m_packetsize, network, sink>>

Worker ==
  \/ TakeWork \/ CheckMarker \/ CheckConnected \/ PollIn \/ PollTimeout
  \/ RecvEmpty \/ RecvData \/ Send \/ SendTimeout \/ Account \/ Count

-----------------------------------------------------------------------------
(* Outside the link.                                                       *)

\* A peer puts a frame on the wire.
Arrive(carries) ==
  /\ socket = "open" /\ Len(wire) < MaxFrames
  /\ wire' = Append(wire, carries)
  /\ UNCHANGED <<config, control, counts, received, sink>>

\* The readout handler at the other end of the sink queue.
Pop ==
  /\ taken < Len(delivered)
  /\ taken' = taken + 1
  /\ UNCHANGED <<config, control, counts, network, delivered, dropped>>

-----------------------------------------------------------------------------
(* Properties that both links have.                                        *)

ConfPoints   == {"conf_subscribe", "conf_open", "conf_flag", "conf_resubscribe", "conf_done"}
CmdPoints    == {"idle", "set_work", "wait_ready"} \cup ConfPoints
WorkerPoints == {"ready", "assigned", "check", "connected", "poll", "recv",
                 "send", "account", "count"}
Frames       == 1..Len(wire)

TypeOK ==
  /\ m_run_marker \in BOOLEAN /\ m_configured \in BOOLEAN
  /\ m_subscriber_connected \in BOOLEAN
  /\ m_queue_timeout \in Timeouts \cup {Unset}
  /\ m_packetCounter \in Nat /\ m_rcvd_zero \in Nat
  /\ m_timestamp \in Nat /\ m_packetsize \in Nat
  /\ cmd \in CmdPoints /\ worker \in WorkerPoints
  /\ socket \in {"closed", "open"} /\ peer \in BOOLEAN
  /\ wire \in Seq(Carries) /\ received \in 0..Len(wire)
  /\ delivered \in Seq(Nat) /\ taken \in 0..Len(delivered)
  /\ dropped \in SUBSET Nat /\ mark \in Nat

\* Whenever no start or stop is half done, the run marker says exactly
\* whether the parser thread is at work: set_work, whose refusal start()
\* ignores, is never refused, and stop() returns only when the thread is out
\* of its loop.
MarkerTellsWorker ==
  /\ cmd \in ConfPoints \cup {"idle"} => (m_run_marker <=> worker # "ready")
  /\ cmd = "set_work" => worker = "ready"

\* Every frame taken off the socket is in exactly one of the two counters
\* get_info reports, or is the one the thread is still busy with.
InHand == IF worker \in {"send", "account", "count"} THEN 1 ELSE 0
CountersCoverFrames == received = m_packetCounter + m_rcvd_zero + InHand

\* A frame with data that has left the thread's hands was either pushed to
\* the sink or given up after the sink's timeout, and never both; a frame
\* without data goes nowhere.
FramesInSink == {delivered[i] : i \in 1..Len(delivered)}
SentOrDropped ==
  /\ FramesInSink \cap dropped = {}
  /\ \A f \in Frames :
       f \in FramesInSink \cup dropped <=>
         /\ f <= received /\ wire[f] # "empty"
         /\ ~(worker = "send" /\ f = received)

\* The sink sees frames in the order they came, none of them twice.
SinkInOrder == \A i, j \in 1..Len(delivered) : i < j => delivered[i] < delivered[j]

\* The last packet size is that of the newest frame that reached the sink.
LastSizeIsOfSink ==
  worker # "account" =>
    m_packetsize = IF delivered = <<>> THEN 0 ELSE delivered[Len(delivered)]

\* After stop() cleared the marker the thread takes one more frame at most
\* before stop() returns: the loop tests the marker before each receive.
OneFrameAfterStop == cmd = "wait_ready" => received <= mark + 1

\* The thread polls only with the timeout conf read from the configuration.
PollHasTimeout == worker = "poll" => m_queue_timeout # Unset

\* From the return of stop() to the next start() nothing is taken off the
\* socket and nothing is pushed to the sink, whatever arrives.
QuietAfterStop ==
  [][~m_run_marker /\ cmd = "idle" =>
       UNCHANGED <<received, delivered, dropped, m_packetCounter, m_rcvd_zero>>]_vars

-----------------------------------------------------------------------------
(* The link as a relay: it is on from the marker's setting to the return of *)
(* the stop that clears it, and holds the frame it is about to push.        *)
Promise == INSTANCE Relay WITH
  on       <- m_run_marker \/ cmd = "wait_ready",
  offered  <- wire,
  position <- received,
  held     <- IF worker = "send" THEN received ELSE 0,
  passed   <- delivered,
  lost     <- dropped

\* Every step of the link is one of the relay's, or none.
IsRelay == Promise!Spec

\* The link is also as live as the relay: while it runs it goes on.
IsFairRelay == Promise!FairSpec

-----------------------------------------------------------------------------
(* What makes the invariants above inductive.                              *)

\* The marker and the two threads' control points.
ControlInv ==
  /\ cmd \in ConfPoints \cup {"idle"} => (m_run_marker <=> worker # "ready")
  /\ cmd = "set_work" => m_run_marker /\ worker = "ready"
  /\ cmd = "wait_ready" => ~m_run_marker

\* What the thread has before it and in its hands.
HandsInv ==
  /\ worker = "recv" => received < Len(wire)
  /\ worker = "send" => received > 0 /\ wire[received] # "empty"
  /\ worker = "account" => delivered # <<>> /\ delivered[Len(delivered)] = received

\* Nothing is in the sink, or lost, that was not received.
ReceivedFirst ==
  /\ \A i \in 1..Len(delivered) : delivered[i] \in 1..received
  /\ dropped \subseteq 1..received

\* A thread that is past the marker's test when stop() clears it has not
\* received its one frame yet.
MarkInv ==
  cmd = "wait_ready" =>
    /\ received <= mark + 1
    /\ worker \in {"connected", "poll", "recv"} => received <= mark

LinkInv ==
  /\ TypeOK /\ ControlInv /\ HandsInv /\ ReceivedFirst /\ MarkInv
  /\ CountersCoverFrames /\ SentOrDropped /\ SinkInOrder /\ LastSizeIsOfSink

-----------------------------------------------------------------------------
(* Liveness.  The operating system runs both threads.                      *)

\* stop() returns, provided the thread cannot be waiting for ever in poll.
StopFinishes ==
  (cmd = "wait_ready" /\ m_queue_timeout \in {t \in Timeouts : t >= 0})
    ~> (cmd = "idle")

\* A frame that arrives at a configured link that keeps running is received.
FramesAreTaken ==
  \A f \in 1..MaxFrames :
    (Len(wire) >= f) ~> (received >= f \/ ~m_run_marker \/ ~m_configured)
=============================================================================
