-------------------------- MODULE LinkModel_proofs --------------------------
(***************************************************************************)
(* LinkInv is kept by every action the two links share.  One lemma for     *)
(* each kind of action; STREAMLink_proofs and ZMQLink_proofs put them      *)
(* together with the actions of their own.                                 *)
(***************************************************************************)
EXTENDS LinkModel, TLAPS


USE TimeoutsAssumption, CapacityAssumption, MaxFramesAssumption

\* A link just made holds the invariant.
LEMMA InitLink == Init => LinkInv
<1> SUFFICES ASSUME Init PROVE LinkInv
  OBVIOUS
<1>1. TypeOK
  <2>1. wire \in Seq(Carries) /\ received \in 0..Len(wire)
    BY DEF Init
  <2>2. delivered \in Seq(Nat) /\ taken \in 0..Len(delivered)
    BY DEF Init
  <2> QED
    BY <2>1, <2>2 DEF Init, TypeOK, CmdPoints, WorkerPoints
<1>2. ControlInv /\ MarkInv
  BY DEF Init, ControlInv, ConfPoints, MarkInv
<1>3. HandsInv /\ ReceivedFirst /\ CountersCoverFrames /\ LastSizeIsOfSink
  BY DEF Init, HandsInv, ReceivedFirst, CountersCoverFrames, InHand, LastSizeIsOfSink
<1>4. SentOrDropped /\ SinkInOrder
  BY DEF Init, SentOrDropped, FramesInSink, Frames, SinkInOrder
<1> QED
  BY <1>1, <1>2, <1>3, <1>4 DEF LinkInv

\* A step that leaves the frames, the counters and the sink alone keeps what
\* is said about them, if it leaves the thread's hands as they are.
LEMMA DataFrame ==
  ASSUME LinkInv, UNCHANGED <<counts, wire, received, delivered, dropped>>,
         worker' \in WorkerPoints,
         worker' = worker \/ {worker, worker'} \cap {"recv", "send", "account", "count"} = {}
  PROVE  HandsInv' /\ ReceivedFirst' /\ CountersCoverFrames' /\ SentOrDropped'
         /\ SinkInOrder' /\ LastSizeIsOfSink'
<1>1. HandsInv' /\ ReceivedFirst'
  BY DEF LinkInv, WorkerPoints, HandsInv, ReceivedFirst
<1>2. CountersCoverFrames'
  BY DEF LinkInv, counts, WorkerPoints, CountersCoverFrames, InHand
<1>3. SentOrDropped'
  BY DEF LinkInv, SentOrDropped, FramesInSink, Frames, WorkerPoints
<1>4. SinkInOrder' /\ LastSizeIsOfSink'
  BY DEF LinkInv, counts, SinkInOrder, LastSizeIsOfSink, WorkerPoints
<1> QED
  BY <1>1, <1>2, <1>3, <1>4

-----------------------------------------------------------------------------
(* Steps of control.                                                       *)

LEMMA StartLink == LinkInv /\ Start => LinkInv'
<1> SUFFICES ASSUME LinkInv, Start PROVE LinkInv'
  OBVIOUS
<1> USE DEF Start
<1>1. TypeOK' /\ ControlInv' /\ MarkInv'
  BY DEF LinkInv, TypeOK, CmdPoints, ConfPoints, WorkerPoints, ControlInv, MarkInv,
     config, counts, network, sink
<1>2. UNCHANGED <<counts, wire, received, delivered, dropped>> /\ worker' \in WorkerPoints
  BY <1>1 DEF network, sink, TypeOK
<1> QED
  BY <1>1, <1>2, DataFrame DEF LinkInv

LEMMA SetWorkLink == LinkInv /\ SetWork => LinkInv'
<1> SUFFICES ASSUME LinkInv, SetWork PROVE LinkInv'
  OBVIOUS
<1> USE DEF SetWork
<1>1. TypeOK' /\ ControlInv' /\ MarkInv'
  BY DEF LinkInv, TypeOK, CmdPoints, ConfPoints, WorkerPoints, ControlInv, MarkInv,
     config, counts, network, sink
<1>2. UNCHANGED <<counts, wire, received, delivered, dropped>> /\ worker' \in WorkerPoints
  BY <1>1 DEF network, sink, TypeOK
<1> QED
  BY <1>1, <1>2, DataFrame DEF LinkInv

LEMMA StopLink == LinkInv /\ Stop => LinkInv'
<1> SUFFICES ASSUME LinkInv, Stop PROVE LinkInv'
  OBVIOUS
<1> USE DEF Stop
<1>1. TypeOK' /\ ControlInv' /\ MarkInv'
  <2>1. received \in Nat
    BY DEF LinkInv, TypeOK
  <2>2. TypeOK'
    BY <2>1 DEF LinkInv, TypeOK, CmdPoints, config, counts, network, sink
  <2>3. ControlInv'
    BY DEF LinkInv, ControlInv, ConfPoints
  <2>4. MarkInv'
    BY <2>1 DEF MarkInv, network
  <2> QED
    BY <2>2, <2>3, <2>4
<1>2. UNCHANGED <<counts, wire, received, delivered, dropped>> /\ worker' \in WorkerPoints
  BY <1>1 DEF network, sink, TypeOK
<1> QED
  BY <1>1, <1>2, DataFrame DEF LinkInv

LEMMA StopReturnsLink == LinkInv /\ StopReturns => LinkInv'
<1> SUFFICES ASSUME LinkInv, StopReturns PROVE LinkInv'
  OBVIOUS
<1> USE DEF StopReturns
<1>1. TypeOK' /\ ControlInv' /\ MarkInv'
  BY DEF LinkInv, TypeOK, CmdPoints, ConfPoints, WorkerPoints, ControlInv, MarkInv,
     config, counts, network, sink
<1>2. UNCHANGED <<counts, wire, received, delivered, dropped>> /\ worker' \in WorkerPoints
  BY <1>1 DEF network, sink, TypeOK
<1> QED
  BY <1>1, <1>2, DataFrame DEF LinkInv

LEMMA TakeWorkLink == LinkInv /\ TakeWork => LinkInv'
<1> SUFFICES ASSUME LinkInv, TakeWork PROVE LinkInv'
  OBVIOUS
<1> USE DEF TakeWork, Goto
<1>1. TypeOK' /\ ControlInv' /\ MarkInv'
  BY DEF LinkInv, TypeOK, CmdPoints, ConfPoints, WorkerPoints, ControlInv, MarkInv,
     config, counts, network, sink
<1>2. UNCHANGED <<counts, wire, received, delivered, dropped>> /\ worker' \in WorkerPoints
  BY <1>1 DEF network, sink, TypeOK
<1> QED
  BY <1>1, <1>2, DataFrame DEF LinkInv

LEMMA CheckMarkerLink == LinkInv /\ CheckMarker => LinkInv'
<1> SUFFICES ASSUME LinkInv, CheckMarker PROVE LinkInv'
  OBVIOUS
<1> USE DEF CheckMarker, Goto
<1>1. TypeOK' /\ ControlInv' /\ MarkInv'
  BY DEF LinkInv, TypeOK, CmdPoints, ConfPoints, WorkerPoints, ControlInv, MarkInv,
     config, counts, network, sink
<1>2. UNCHANGED <<counts, wire, received, delivered, dropped>> /\ worker' \in WorkerPoints
  BY <1>1 DEF network, sink, TypeOK
<1> QED
  BY <1>1, <1>2, DataFrame DEF LinkInv

LEMMA CheckConnectedLink == LinkInv /\ CheckConnected => LinkInv'
<1> SUFFICES ASSUME LinkInv, CheckConnected PROVE LinkInv'
  OBVIOUS
<1> USE DEF CheckConnected, Goto
<1>1. TypeOK' /\ ControlInv' /\ MarkInv'
  BY DEF LinkInv, TypeOK, CmdPoints, ConfPoints, WorkerPoints, ControlInv, MarkInv,
     config, counts, network, sink
<1>2. UNCHANGED <<counts, wire, received, delivered, dropped>> /\ worker' \in WorkerPoints
  BY <1>1 DEF network, sink, TypeOK
<1> QED
  BY <1>1, <1>2, DataFrame DEF LinkInv

LEMMA PollTimeoutLink == LinkInv /\ PollTimeout => LinkInv'
<1> SUFFICES ASSUME LinkInv, PollTimeout PROVE LinkInv'
  OBVIOUS
<1> USE DEF PollTimeout, Goto
<1>1. TypeOK' /\ ControlInv' /\ MarkInv'
  BY DEF LinkInv, TypeOK, CmdPoints, ConfPoints, WorkerPoints, ControlInv, MarkInv,
     config, counts, network, sink
<1>2. UNCHANGED <<counts, wire, received, delivered, dropped>> /\ worker' \in WorkerPoints
  BY <1>1 DEF network, sink, TypeOK
<1> QED
  BY <1>1, <1>2, DataFrame DEF LinkInv

\* conf(): steps that leave the thread and the data alone.
LEMMA ConfStepLink ==
  ASSUME LinkInv,
         UNCHANGED <<m_run_marker, worker, mark, counts, network, sink>>,
         cmd \in ConfPoints \cup {"idle"}, cmd' \in ConfPoints \cup {"idle"},
         m_queue_timeout' \in Timeouts \cup {Unset},
         m_configured' \in BOOLEAN, m_subscriber_connected' \in BOOLEAN,
         socket' \in {"closed", "open"}
  PROVE  LinkInv'
<1>1. TypeOK'
  BY DEF LinkInv, TypeOK, CmdPoints, counts, network, sink
<1>2. ControlInv' /\ MarkInv'
  BY DEF LinkInv, ControlInv, MarkInv, ConfPoints
<1>3. UNCHANGED <<counts, wire, received, delivered, dropped>> /\ worker' = worker
  BY DEF network, sink
<1> QED
  BY <1>1, <1>2, <1>3, DataFrame DEF LinkInv, TypeOK

-----------------------------------------------------------------------------
(* Steps that take a frame, pass it on, or account for it.                 *)

LEMMA PollInLink == LinkInv /\ PollIn => LinkInv'
<1> SUFFICES ASSUME LinkInv, PollIn PROVE LinkInv'
  OBVIOUS
<1> USE DEF PollIn, Goto
<1>1. TypeOK' /\ ControlInv' /\ MarkInv'
  BY DEF LinkInv, TypeOK, CmdPoints, ConfPoints, WorkerPoints, ControlInv, MarkInv,
     config, counts, network, sink
<1>2. HandsInv' /\ ReceivedFirst'
  BY DEF LinkInv, HandsInv, ReceivedFirst, network, sink
<1>3. CountersCoverFrames' /\ LastSizeIsOfSink'
  BY DEF LinkInv, CountersCoverFrames, InHand, LastSizeIsOfSink, counts, network, sink
<1>4. SentOrDropped' /\ SinkInOrder'
  BY DEF LinkInv, SentOrDropped, SinkInOrder, FramesInSink, Frames, network, sink
<1> QED
  BY <1>1, <1>2, <1>3, <1>4 DEF LinkInv

LEMMA RecvEmptyLink == LinkInv /\ RecvEmpty => LinkInv'
<1> SUFFICES ASSUME LinkInv, RecvEmpty PROVE LinkInv'
  OBVIOUS
<1> USE DEF RecvEmpty
<1>1. received < Len(wire) /\ received \in Nat /\ Len(wire) \in Nat
  BY DEF LinkInv, HandsInv, TypeOK
<1>2. TypeOK'
  BY <1>1 DEF LinkInv, TypeOK, WorkerPoints, config, sink
<1>3. ControlInv' /\ MarkInv'
  BY <1>1 DEF LinkInv, TypeOK, ControlInv, MarkInv
<1>4. HandsInv' /\ ReceivedFirst'
  BY <1>1 DEF LinkInv, HandsInv, ReceivedFirst, sink
<1>5. CountersCoverFrames' /\ LastSizeIsOfSink'
  BY <1>1 DEF LinkInv, TypeOK, CountersCoverFrames, InHand, LastSizeIsOfSink, sink
<1>6. SentOrDropped' /\ SinkInOrder'
  <2>1. Frames' = Frames /\ FramesInSink' = FramesInSink /\ dropped' = dropped
    BY DEF Frames, FramesInSink, sink
  <2>2. received + 1 \notin FramesInSink \cup dropped
    BY <1>1 DEF LinkInv, ReceivedFirst, FramesInSink
  <2>3. SentOrDropped'
    BY <1>1, <2>1, <2>2 DEF LinkInv, SentOrDropped, Frames
  <2>4. SinkInOrder'
    BY DEF LinkInv, SinkInOrder, sink
  <2> QED
    BY <2>3, <2>4
<1> QED
  BY <1>2, <1>3, <1>4, <1>5, <1>6 DEF LinkInv

LEMMA RecvDataLink == LinkInv /\ RecvData => LinkInv'
<1> SUFFICES ASSUME LinkInv, RecvData PROVE LinkInv'
  OBVIOUS
<1> USE DEF RecvData
<1>1. received < Len(wire) /\ received \in Nat /\ Len(wire) \in Nat
  BY DEF LinkInv, HandsInv, TypeOK
<1>2. TypeOK'
  BY <1>1 DEF LinkInv, TypeOK, WorkerPoints, config, sink
<1>3. ControlInv' /\ MarkInv'
  BY <1>1 DEF LinkInv, TypeOK, ControlInv, MarkInv
<1>4. HandsInv' /\ ReceivedFirst'
  BY <1>1 DEF LinkInv, HandsInv, ReceivedFirst, sink
<1>5. CountersCoverFrames' /\ LastSizeIsOfSink'
  BY <1>1 DEF LinkInv, TypeOK, CountersCoverFrames, InHand, LastSizeIsOfSink, sink
<1>6. SentOrDropped' /\ SinkInOrder'
  <2>1. Frames' = Frames /\ FramesInSink' = FramesInSink /\ dropped' = dropped
    BY DEF Frames, FramesInSink, sink
  <2>2. received + 1 \notin FramesInSink \cup dropped
    BY <1>1 DEF LinkInv, ReceivedFirst, FramesInSink
  <2>3. SentOrDropped'
    BY <1>1, <2>1, <2>2 DEF LinkInv, SentOrDropped, Frames
  <2>4. SinkInOrder'
    BY DEF LinkInv, SinkInOrder, sink
  <2> QED
    BY <2>3, <2>4
<1> QED
  BY <1>2, <1>3, <1>4, <1>5, <1>6 DEF LinkInv

LEMMA SendLink == LinkInv /\ Send => LinkInv'
<1> SUFFICES ASSUME LinkInv, Send PROVE LinkInv'
  OBVIOUS
<1> USE DEF Send
<1>1. received \in Nat /\ received > 0 /\ received <= Len(wire) /\ wire[received] # "empty"
  BY DEF LinkInv, HandsInv, TypeOK
<1>2. /\ delivered \in Seq(Nat) /\ delivered' \in Seq(Nat)
      /\ Len(delivered') = Len(delivered) + 1
      /\ delivered'[Len(delivered) + 1] = received
      /\ \A i \in 1..Len(delivered) : delivered'[i] = delivered[i]
  BY <1>1 DEF LinkInv, TypeOK
<1>3. TypeOK'
  BY <1>2 DEF LinkInv, TypeOK, WorkerPoints, config, counts, network
<1>4. ControlInv' /\ MarkInv'
  BY DEF LinkInv, ControlInv, MarkInv, network
<1>5. HandsInv' /\ ReceivedFirst'
  BY <1>1, <1>2 DEF LinkInv, HandsInv, ReceivedFirst, network
<1>6. CountersCoverFrames' /\ LastSizeIsOfSink'
  BY DEF LinkInv, CountersCoverFrames, InHand, LastSizeIsOfSink, counts, network
<1>7. SentOrDropped'
  <2>1. FramesInSink' = FramesInSink \cup {received}
    BY <1>2 DEF FramesInSink
  <2>2. received \in Frames /\ received \notin FramesInSink \cup dropped
    BY <1>1 DEF LinkInv, SentOrDropped, Frames, TypeOK
  <2> QED
    BY <1>1, <2>1, <2>2 DEF LinkInv, SentOrDropped, Frames, network
<1>8. SinkInOrder'
  <2>1. \A i \in 1..Len(delivered) : delivered[i] < received
    <3>1. received \notin FramesInSink
      BY <1>1 DEF LinkInv, SentOrDropped, Frames, TypeOK
    <3> QED
      BY <1>1, <1>2, <3>1 DEF LinkInv, ReceivedFirst, FramesInSink
  <2> SUFFICES ASSUME NEW i \in 1..Len(delivered'), NEW j \in 1..Len(delivered'), i < j
               PROVE  delivered'[i] < delivered'[j]
    BY DEF SinkInOrder
  <2>2. i \in 1..Len(delivered) /\ Len(delivered) \in Nat
    BY <1>2
  <2>3. CASE j = Len(delivered) + 1
    BY <1>2, <2>1, <2>2, <2>3
  <2>4. CASE j \in 1..Len(delivered)
    BY <1>2, <2>2, <2>4 DEF LinkInv, SinkInOrder
  <2> QED
    BY <1>2, <2>2, <2>3, <2>4
<1> QED
  BY <1>3, <1>4, <1>5, <1>6, <1>7, <1>8 DEF LinkInv

LEMMA SendTimeoutLink == LinkInv /\ SendTimeout => LinkInv'
<1> SUFFICES ASSUME LinkInv, SendTimeout PROVE LinkInv'
  OBVIOUS
<1> USE DEF SendTimeout
<1>1. received \in Nat /\ received > 0 /\ received <= Len(wire) /\ wire[received] # "empty"
  BY DEF LinkInv, HandsInv, TypeOK
<1>2. TypeOK'
  BY <1>1 DEF LinkInv, TypeOK, WorkerPoints, config, counts, network
<1>3. ControlInv' /\ MarkInv'
  BY DEF LinkInv, ControlInv, MarkInv, network
<1>4. HandsInv' /\ ReceivedFirst'
  BY <1>1 DEF LinkInv, HandsInv, ReceivedFirst, network
<1>5. CountersCoverFrames' /\ LastSizeIsOfSink'
  BY DEF LinkInv, CountersCoverFrames, InHand, LastSizeIsOfSink, counts, network
<1>6. SentOrDropped' /\ SinkInOrder'
  <2>1. received \in Frames /\ received \notin FramesInSink \cup dropped
    BY <1>1 DEF LinkInv, SentOrDropped, Frames, TypeOK
  <2>2. SentOrDropped'
    BY <1>1, <2>1 DEF LinkInv, SentOrDropped, FramesInSink, Frames, network
  <2>3. SinkInOrder'
    BY DEF LinkInv, SinkInOrder
  <2> QED
    BY <2>2, <2>3
<1> QED
  BY <1>2, <1>3, <1>4, <1>5, <1>6 DEF LinkInv

LEMMA AccountLink == LinkInv /\ Account => LinkInv'
<1> SUFFICES ASSUME LinkInv, Account PROVE LinkInv'
  OBVIOUS
<1> USE DEF Account
<1>1. TypeOK'
  BY DEF LinkInv, TypeOK, WorkerPoints, config, network, sink
<1>2. ControlInv' /\ MarkInv'
  BY DEF LinkInv, ControlInv, MarkInv, network
<1>3. HandsInv' /\ ReceivedFirst'
  BY DEF LinkInv, HandsInv, ReceivedFirst, network, sink
<1>4. CountersCoverFrames' /\ LastSizeIsOfSink'
  BY DEF LinkInv, HandsInv, CountersCoverFrames, InHand, LastSizeIsOfSink, network, sink
<1>5. SentOrDropped' /\ SinkInOrder'
  BY DEF LinkInv, SentOrDropped, SinkInOrder, FramesInSink, Frames, network, sink
<1> QED
  BY <1>1, <1>2, <1>3, <1>4, <1>5 DEF LinkInv

LEMMA CountLink == LinkInv /\ Count => LinkInv'
<1> SUFFICES ASSUME LinkInv, Count PROVE LinkInv'
  OBVIOUS
<1> USE DEF Count
<1>1. TypeOK'
  BY DEF LinkInv, TypeOK, WorkerPoints, config, network, sink
<1>2. ControlInv' /\ MarkInv'
  BY DEF LinkInv, ControlInv, MarkInv, network
<1>3. HandsInv' /\ ReceivedFirst'
  BY DEF LinkInv, HandsInv, ReceivedFirst, network, sink
<1>4. CountersCoverFrames' /\ LastSizeIsOfSink'
  BY DEF LinkInv, TypeOK, CountersCoverFrames, InHand, LastSizeIsOfSink, network, sink
<1>5. SentOrDropped' /\ SinkInOrder'
  BY DEF LinkInv, SentOrDropped, SinkInOrder, FramesInSink, Frames, network, sink
<1> QED
  BY <1>1, <1>2, <1>3, <1>4, <1>5 DEF LinkInv

\* Every step of the parser thread.
LEMMA WorkerLink == LinkInv /\ Worker => LinkInv'
  BY TakeWorkLink, CheckMarkerLink, CheckConnectedLink, PollInLink, PollTimeoutLink,
     RecvEmptyLink, RecvDataLink, SendLink, SendTimeoutLink, AccountLink, CountLink
     DEF Worker

\* The thread leaves conf's variables alone, and gets on the socket only past
\* the test of the flag.
LEMMA WorkerLeavesConf ==
  Worker => UNCHANGED <<cmd, m_run_marker, config>> /\ (OnSocket' => OnSocket \/ m_subscriber_connected)
<1> SUFFICES ASSUME Worker
             PROVE  /\ UNCHANGED <<cmd, m_run_marker, config>>
                    /\ OnSocket' => OnSocket \/ m_subscriber_connected
  OBVIOUS
<1> USE DEF Worker, TakeWork, CheckMarker, CheckConnected, PollIn, PollTimeout, Goto,
     RecvEmpty, RecvData, Send, SendTimeout, Account, Count
<1>1. UNCHANGED <<cmd, m_run_marker, config>>
  OBVIOUS
<1>2. OnSocket' => OnSocket \/ m_subscriber_connected
  BY DEF OnSocket
<1> QED
  BY <1>1, <1>2

-----------------------------------------------------------------------------
(* Steps of others.                                                        *)

LEMMA ArriveLink ==
  ASSUME LinkInv, NEW carries \in Carries, Arrive(carries), peer' \in BOOLEAN
  PROVE  LinkInv'
<1> USE DEF Arrive
<1>1. /\ wire \in Seq(Carries) /\ wire' \in Seq(Carries)
      /\ Len(wire') = Len(wire) + 1
      /\ \A f \in 1..Len(wire) : wire'[f] = wire[f]
  BY DEF LinkInv, TypeOK
<1>2. received \in Nat /\ received <= Len(wire) /\ Len(wire) \in Nat
  BY <1>1 DEF LinkInv, TypeOK
<1>3. TypeOK'
  BY <1>1, <1>2 DEF LinkInv, TypeOK, config, control, counts, sink
<1>4. ControlInv' /\ MarkInv'
  BY DEF LinkInv, ControlInv, MarkInv, control
<1>5. HandsInv' /\ ReceivedFirst'
  BY <1>1, <1>2 DEF LinkInv, HandsInv, ReceivedFirst, control, sink
<1>6. CountersCoverFrames' /\ LastSizeIsOfSink'
  BY DEF LinkInv, CountersCoverFrames, InHand, LastSizeIsOfSink, control, counts, sink
<1>7. SentOrDropped' /\ SinkInOrder'
  <2>1. Frames' = Frames \cup {Len(wire) + 1} /\ FramesInSink' = FramesInSink /\ dropped' = dropped
    BY <1>1, <1>2 DEF Frames, FramesInSink, sink
  <2>2. Len(wire) + 1 \notin FramesInSink \cup dropped
    BY <1>1, <1>2 DEF LinkInv, ReceivedFirst, FramesInSink
  <2>3. SentOrDropped'
    BY <1>1, <1>2, <2>1, <2>2 DEF LinkInv, SentOrDropped, Frames, control, TypeOK
  <2>4. SinkInOrder'
    BY DEF LinkInv, SinkInOrder, sink
  <2> QED
    BY <2>3, <2>4
<1> QED
  BY <1>3, <1>4, <1>5, <1>6, <1>7 DEF LinkInv

LEMMA PopLink == LinkInv /\ Pop => LinkInv'
<1> SUFFICES ASSUME LinkInv, Pop PROVE LinkInv'
  OBVIOUS
<1> USE DEF Pop
<1>1. TypeOK' /\ ControlInv' /\ MarkInv'
  BY DEF LinkInv, TypeOK, CmdPoints, ConfPoints, WorkerPoints, ControlInv, MarkInv,
     config, control, counts, network
<1>2. UNCHANGED <<counts, wire, received, delivered, dropped>> /\ worker' = worker
  BY DEF network, control
<1> QED
  BY <1>1, <1>2, DataFrame DEF LinkInv, TypeOK

LEMMA StutterLink == LinkInv /\ UNCHANGED vars => LinkInv'
<1> SUFFICES ASSUME LinkInv, UNCHANGED vars PROVE LinkInv'
  OBVIOUS
<1> USE DEF vars, config, control, counts, network, sink
<1>1. TypeOK' /\ ControlInv' /\ MarkInv'
  BY DEF LinkInv, TypeOK, ControlInv, MarkInv
<1>2. worker' = worker /\ worker' \in WorkerPoints /\ UNCHANGED <<counts, wire, received, delivered, dropped>>
  BY DEF LinkInv, TypeOK
<1> QED
  BY <1>1, <1>2, DataFrame DEF LinkInv

-----------------------------------------------------------------------------
(* The link is quiet when no run is on, and a relay.                       *)

\* With the marker cleared and no command under way the thread has no step.
LEMMA WorkerQuiet ==
  ASSUME LinkInv, ~m_run_marker, cmd = "idle"
  PROVE  ~Worker
<1>1. worker = "ready"
  BY DEF LinkInv, ControlInv
<1> QED
  BY <1>1 DEF Worker, TakeWork, CheckMarker, CheckConnected, PollIn, PollTimeout, Goto,
     RecvEmpty, RecvData, Send, SendTimeout, Account, Count

\* The thread's steps are the relay's.
LEMMA WorkerRelays == LinkInv /\ Worker => [Promise!Next]_(Promise!relayVars)
<1> SUFFICES ASSUME LinkInv, Worker PROVE [Promise!Next]_(Promise!relayVars)
  OBVIOUS
<1> DEFINE on == m_run_marker \/ cmd = "wait_ready"
<1>1. worker # "ready" => on
  <2>1. cmd # "set_work" \/ worker = "ready"
    BY DEF LinkInv, ControlInv
  <2> QED
    BY <2>1 DEF LinkInv, ControlInv, TypeOK, CmdPoints
<1>2. received \in Nat
  BY DEF LinkInv, TypeOK
<1>3. CASE TakeWork \/ CheckMarker \/ CheckConnected \/ PollIn \/ PollTimeout
  <2>1. worker # "send" /\ worker' # "send"
    BY <1>3 DEF TakeWork, CheckMarker, CheckConnected, PollIn, PollTimeout, Goto
  <2>2. UNCHANGED <<m_run_marker, cmd, wire, received, delivered, dropped>>
    BY <1>3 DEF TakeWork, CheckMarker, CheckConnected, PollIn, PollTimeout, Goto, network, sink
  <2> QED
    BY <2>1, <2>2 DEF Promise!relayVars
<1>4. CASE RecvEmpty \/ RecvData
  <2>1. worker = "recv" /\ on /\ received < Len(wire)
    BY <1>1, <1>4 DEF RecvEmpty, RecvData, LinkInv, HandsInv
  <2>2. /\ received' = received + 1 /\ wire' = wire
        /\ worker' = (IF wire[received + 1] = "empty" THEN "check" ELSE "send")
        /\ UNCHANGED <<m_run_marker, cmd, delivered, dropped>>
    BY <1>4 DEF RecvEmpty, RecvData, sink
  <2>3. Promise!Take
    BY <2>1, <2>2 DEF Promise!Take
  <2> QED
    BY <2>3 DEF Promise!Next
<1>5. CASE Send
  <2>1. worker = "send" /\ on /\ received # 0
    BY <1>1, <1>5 DEF Send, LinkInv, HandsInv
  <2>2. Promise!PassOn
    BY <1>5, <2>1 DEF Send, Promise!PassOn, network
  <2> QED
    BY <2>2 DEF Promise!Next
<1>6. CASE SendTimeout
  <2>1. worker = "send" /\ on /\ received # 0
    BY <1>1, <1>6 DEF SendTimeout, LinkInv, HandsInv
  <2>2. Promise!Lose
    BY <1>6, <2>1 DEF SendTimeout, Promise!Lose, network
  <2> QED
    BY <2>2 DEF Promise!Next
<1>7. CASE Account \/ Count
  BY <1>7 DEF Account, Count, Promise!relayVars, network, sink
<1> QED
  BY <1>3, <1>4, <1>5, <1>6, <1>7 DEF Worker

\* So are those of start() and stop().
LEMMA CommandRelays ==
  LinkInv /\ (Start \/ SetWork \/ Stop \/ StopReturns) => [Promise!Next]_(Promise!relayVars)
<1> SUFFICES ASSUME LinkInv, Start \/ SetWork \/ Stop \/ StopReturns
             PROVE  [Promise!Next]_(Promise!relayVars)
  OBVIOUS
<1>1. CASE Start
  BY <1>1 DEF Start, LinkInv, ControlInv, ConfPoints, Promise!Next, Promise!TurnOn, network, sink
<1>2. CASE SetWork
  BY <1>2 DEF SetWork, LinkInv, ControlInv, Promise!relayVars, network, sink
<1>3. CASE Stop
  BY <1>3 DEF Stop, Promise!relayVars, network, sink
<1>4. CASE StopReturns
  BY <1>4 DEF StopReturns, LinkInv, ControlInv, Promise!Next, Promise!TurnOff, network, sink
<1> QED
  BY <1>1, <1>2, <1>3, <1>4

\* What arrives is offered to the relay; a pop is none of its business.
LEMMA OthersRelay ==
  ASSUME LinkInv, Pop \/ \E carries \in Carries : Arrive(carries)
  PROVE  [Promise!Next]_(Promise!relayVars)
<1>1. CASE Pop
  BY <1>1 DEF Pop, Promise!relayVars, control, network
<1>2. CASE \E carries \in Carries : Arrive(carries)
  BY <1>2 DEF Arrive, Carries, Promise!Next, Promise!Offer, control, sink
<1> QED
  BY <1>1, <1>2
=============================================================================
