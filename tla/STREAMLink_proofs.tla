------------------------- MODULE STREAMLink_proofs --------------------------
(***************************************************************************)
(* What holds of the stream link for every set of timeouts, every capacity *)
(* of the sink and any number of frames.                                   *)
(***************************************************************************)
EXTENDS STREAMLink, LinkModel_proofs

StreamInv == LinkInv /\ ConfInv

-----------------------------------------------------------------------------
(* conf(): steps that leave the thread and the data alone.                 *)

LEMMA ConfKeeps ==
  ASSUME StreamInv, NEW timeout \in Timeouts, Conf(timeout)
  PROVE  StreamInv'
<1> USE DEF StreamInv, Conf
<1>1. LinkInv'
  BY ConfStepLink DEF LinkInv, TypeOK, ConfPoints
<1>2. ConfInv'
  BY TimeoutsAssumption DEF ConfInv, ConfPoints, OnSocket
<1> QED
  BY <1>1, <1>2

LEMMA BindKeeps == StreamInv /\ (Bind \/ BindFails) => StreamInv'
<1> SUFFICES ASSUME StreamInv, Bind \/ BindFails PROVE StreamInv'
  OBVIOUS
<1> USE DEF StreamInv, Bind, BindFails, config
<1>1. LinkInv'
  BY ConfStepLink DEF LinkInv, TypeOK, ConfPoints
<1>2. ConfInv'
  BY DEF ConfInv, ConfPoints, OnSocket
<1> QED
  BY <1>1, <1>2

LEMMA SetConnectedKeeps == StreamInv /\ SetConnected => StreamInv'
<1> SUFFICES ASSUME StreamInv, SetConnected PROVE StreamInv'
  OBVIOUS
<1> USE DEF StreamInv, SetConnected
<1>1. LinkInv'
  BY ConfStepLink DEF LinkInv, TypeOK, ConfPoints
<1>2. ConfInv'
  BY DEF ConfInv, ConfPoints, OnSocket
<1> QED
  BY <1>1, <1>2

LEMMA ConfDoneKeeps == StreamInv /\ ConfDone => StreamInv'
<1> SUFFICES ASSUME StreamInv, ConfDone PROVE StreamInv'
  OBVIOUS
<1> USE DEF StreamInv, ConfDone
<1>1. LinkInv'
  BY ConfStepLink DEF LinkInv, TypeOK, ConfPoints
<1>2. ConfInv'
  BY DEF ConfInv, ConfPoints, OnSocket
<1> QED
  BY <1>1, <1>2

-----------------------------------------------------------------------------
(* The other steps leave conf's variables alone.                           *)

LEMMA CommandKeepsConf ==
  ConfInv /\ (Start \/ SetWork \/ Stop \/ StopReturns) => ConfInv'
  BY DEF ConfInv, ConfPoints, OnSocket, Start, SetWork, Stop, StopReturns, config

LEMMA WorkerKeepsConf == ConfInv /\ Worker => ConfInv'
  BY WorkerLeavesConf DEF ConfInv, ConfPoints, config

\* One of the card's steps is a frame on the wire.
LEMMA PeerArrives ==
  ASSUME StreamInv, PeerConnects \/ PeerSends \/ PeerDisconnects
  PROVE  \E carries \in Carries : Arrive(carries) /\ peer' \in BOOLEAN
<1>1. peer \in BOOLEAN
  BY DEF StreamInv, LinkInv, TypeOK
<1> QED
  BY <1>1 DEF PeerConnects, PeerSends, PeerDisconnects, Carries

LEMMA OthersKeep ==
  ASSUME StreamInv, PeerConnects \/ PeerSends \/ PeerDisconnects \/ Pop
  PROVE  StreamInv'
<1>1. LinkInv'
  BY PeerArrives, ArriveLink, PopLink DEF StreamInv
<1>2. UNCHANGED <<cmd, worker, config>>
  BY PeerArrives DEF Arrive, Pop, control
<1>3. ConfInv'
  BY <1>2 DEF StreamInv, ConfInv, ConfPoints, OnSocket, config
<1> QED
  BY <1>1, <1>3 DEF StreamInv

-----------------------------------------------------------------------------
LEMMA InitStream == Init => StreamInv
<1>1. Init => ConfInv
  BY DEF Init, ConfInv, ConfPoints, OnSocket
<1> QED
  BY <1>1, InitLink DEF StreamInv

LEMMA StepStream == StreamInv /\ [Next]_vars => StreamInv'
<1> SUFFICES ASSUME StreamInv, [Next]_vars PROVE StreamInv'
  OBVIOUS
<1>1. CASE \E timeout \in Timeouts : Conf(timeout)
  BY <1>1, ConfKeeps
<1>2. CASE Bind \/ BindFails \/ SetConnected \/ ConfDone
  BY <1>2, BindKeeps, SetConnectedKeeps, ConfDoneKeeps
<1>3. CASE Start \/ SetWork \/ Stop \/ StopReturns
  BY <1>3, StartLink, SetWorkLink, StopLink, StopReturnsLink, CommandKeepsConf DEF StreamInv
<1>4. CASE Worker
  BY <1>4, WorkerLink, WorkerKeepsConf DEF StreamInv
<1>5. CASE PeerConnects \/ PeerSends \/ PeerDisconnects \/ Pop
  BY <1>5, OthersKeep
<1>6. CASE UNCHANGED vars
  BY <1>6, StutterLink DEF StreamInv, ConfInv, ConfPoints, OnSocket, vars, config, control
<1> QED
  BY <1>1, <1>2, <1>3, <1>4, <1>5, <1>6 DEF Next, Commands, CommandStep

\* The inductive invariant holds throughout.
THEOREM Invariance == Spec => []StreamInv
  BY InitStream, StepStream, PTL DEF Spec

\* Every variable keeps its type.
THEOREM TypeCorrect == Spec => []TypeOK
<1>1. StreamInv => TypeOK
  BY DEF StreamInv, LinkInv
<1> QED
  BY <1>1, Invariance, PTL

\* Outside start() and stop() the run marker tells whether the thread works.
THEOREM MarkerCorrect == Spec => []MarkerTellsWorker
<1>1. StreamInv => MarkerTellsWorker
  BY DEF StreamInv, LinkInv, ControlInv, MarkerTellsWorker
<1> QED
  BY <1>1, Invariance, PTL

\* No frame escapes the two counters get_info reports.
THEOREM CountersCorrect == Spec => []CountersCoverFrames
<1>1. StreamInv => CountersCoverFrames
  BY DEF StreamInv, LinkInv
<1> QED
  BY <1>1, Invariance, PTL

\* Each frame with data is sent once or dropped once.
THEOREM FramesAccounted == Spec => []SentOrDropped
<1>1. StreamInv => SentOrDropped
  BY DEF StreamInv, LinkInv
<1> QED
  BY <1>1, Invariance, PTL

\* The sink has them in the order they arrived in, and the last packet size
\* is that of the newest.
THEOREM SinkCorrect == Spec => [](SinkInOrder /\ LastSizeIsOfSink)
<1>1. StreamInv => SinkInOrder /\ LastSizeIsOfSink
  BY DEF StreamInv, LinkInv
<1> QED
  BY <1>1, Invariance, PTL

\* At most one more frame is taken once stop() has cleared the marker.
THEOREM StopIsPrompt == Spec => []OneFrameAfterStop
<1>1. StreamInv => OneFrameAfterStop
  BY DEF StreamInv, LinkInv, MarkInv, OneFrameAfterStop
<1> QED
  BY <1>1, Invariance, PTL

\* conf() and the thread are never on the socket together, whatever the
\* order of the commands.
THEOREM SocketCorrect == Spec => []SocketIsExclusive
<1>1. StreamInv => SocketIsExclusive
  BY DEF StreamInv, LinkInv, TypeOK, ConfInv, ConfPoints, SocketIsExclusive, OnSocket
<1> QED
  BY <1>1, Invariance, PTL

\* A conf that failed leaves nothing behind.
THEOREM ConfCorrect == Spec => []ConfIsAllOrNothing
<1>1. StreamInv => ConfIsAllOrNothing
  BY DEF StreamInv, LinkInv, TypeOK, ConfInv, ConfPoints, ConfIsAllOrNothing, OnSocket
<1> QED
  BY <1>1, Invariance, PTL

\* The thread polls with a timeout that was configured.
THEOREM PollCorrect == Spec => []PollHasTimeout
<1>1. StreamInv => PollHasTimeout
  BY DEF StreamInv, LinkInv, TypeOK, ConfInv, ConfPoints, PollHasTimeout, OnSocket
<1> QED
  BY <1>1, Invariance, PTL

\* Nothing is received or sent between a stop's return and the next start.
THEOREM StoppedIsQuiet == Spec => QuietAfterStop
<1> DEFINE Quiet == ~m_run_marker /\ cmd = "idle" =>
             UNCHANGED <<received, delivered, dropped, m_packetCounter, m_rcvd_zero>>
<1>1. StreamInv /\ [Next]_vars => [Quiet]_vars
  <2> SUFFICES ASSUME StreamInv, Next, ~m_run_marker, cmd = "idle"
               PROVE  UNCHANGED <<received, delivered, dropped, m_packetCounter, m_rcvd_zero>>
    OBVIOUS
  <2>1. ~Worker
    BY WorkerQuiet DEF StreamInv
  <2>2. CASE Commands
    BY <2>2 DEF Commands, CommandStep, Conf, Bind, BindFails, SetConnected, ConfDone,
       Start, SetWork, Stop, StopReturns, counts, network, sink
  <2>3. CASE PeerConnects \/ PeerSends \/ PeerDisconnects \/ Pop
    BY <2>3 DEF PeerConnects, PeerSends, PeerDisconnects, Pop, Arrive, counts, network, sink
  <2> QED
    BY <2>1, <2>2, <2>3 DEF Next
<1> QED
  BY <1>1, Invariance, PTL DEF Spec, QuietAfterStop

\* The stream link implements the relay.
THEOREM ImplementsRelay == Spec => IsRelay
<1>1. Init => Promise!Init
  BY DEF Init, Promise!Init
<1>2. StreamInv /\ [Next]_vars => [Promise!Next]_(Promise!relayVars)
  <2> SUFFICES ASSUME StreamInv, [Next]_vars PROVE [Promise!Next]_(Promise!relayVars)
    OBVIOUS
  <2>1. CASE (\E timeout \in Timeouts : Conf(timeout)) \/ Bind \/ BindFails \/ SetConnected \/ ConfDone
    BY <2>1 DEF Conf, Bind, BindFails, SetConnected, ConfDone, Promise!relayVars, network, sink
  <2>2. CASE Start \/ SetWork \/ Stop \/ StopReturns
    BY <2>2, CommandRelays DEF StreamInv
  <2>3. CASE Worker
    BY <2>3, WorkerRelays DEF StreamInv
  <2>4. CASE PeerConnects \/ PeerSends \/ PeerDisconnects \/ Pop
    BY <2>4, PeerArrives, OthersRelay DEF StreamInv
  <2>5. CASE UNCHANGED vars
    BY <2>5 DEF vars, control, network, sink, Promise!relayVars
  <2> QED
    BY <2>1, <2>2, <2>3, <2>4, <2>5 DEF Next, Commands, CommandStep
<1> QED
  BY <1>1, <1>2, Invariance, PTL DEF Spec, IsRelay, Promise!Spec
=============================================================================
