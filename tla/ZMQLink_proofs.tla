--------------------------- MODULE ZMQLink_proofs ---------------------------
(***************************************************************************)
(* What holds of the publish/subscribe link for every set of timeouts,     *)
(* every capacity of the sink and any number of frames, with its commands  *)
(* in the run control's order.                                             *)
(***************************************************************************)
EXTENDS ZMQLink, LinkModel_proofs

ZMQInv == LinkInv /\ ConfInv

-----------------------------------------------------------------------------
(* conf().                                                                 *)

LEMMA ConfKeeps ==
  ASSUME ZMQInv, NEW timeout \in Timeouts, Conf(timeout)
  PROVE  ZMQInv'
<1> USE DEF ZMQInv, Conf
<1>1. LinkInv'
  BY ConfStepLink DEF LinkInv, TypeOK, ConfPoints
<1>2. ConfInv'
  BY DEF ConfInv, ConfPoints
<1> QED
  BY <1>1, <1>2

LEMMA SubscribeKeeps == ZMQInv /\ Subscribe => ZMQInv'
<1> SUFFICES ASSUME ZMQInv, Subscribe PROVE ZMQInv'
  OBVIOUS
<1> USE DEF ZMQInv, Subscribe, SocketCall, config
<1>1. LinkInv'
  BY ConfStepLink DEF LinkInv, TypeOK, ConfPoints
<1>2. ConfInv'
  BY DEF ConfInv, ConfPoints
<1> QED
  BY <1>1, <1>2

LEMMA ConnectKeeps == ZMQInv /\ Connect => ZMQInv'
<1> SUFFICES ASSUME ZMQInv, Connect PROVE ZMQInv'
  OBVIOUS
<1> USE DEF ZMQInv, Connect
<1>1. LinkInv'
  BY ConfStepLink DEF LinkInv, TypeOK, ConfPoints
<1>2. ConfInv'
  BY DEF ConfInv, ConfPoints
<1> QED
  BY <1>1, <1>2

LEMMA SetConnectedKeeps == ZMQInv /\ SetConnected => ZMQInv'
<1> SUFFICES ASSUME ZMQInv, SetConnected PROVE ZMQInv'
  OBVIOUS
<1> USE DEF ZMQInv, SetConnected
<1>1. LinkInv'
  BY ConfStepLink DEF LinkInv, TypeOK, ConfPoints
<1>2. ConfInv'
  BY DEF ConfInv, ConfPoints
<1> QED
  BY <1>1, <1>2

LEMMA ResubscribeKeeps == ZMQInv /\ Resubscribe => ZMQInv'
<1> SUFFICES ASSUME ZMQInv, Resubscribe PROVE ZMQInv'
  OBVIOUS
<1> USE DEF ZMQInv, Resubscribe, SocketCall, config
<1>1. LinkInv'
  BY ConfStepLink DEF LinkInv, TypeOK, ConfPoints
<1>2. ConfInv'
  BY DEF ConfInv, ConfPoints
<1> QED
  BY <1>1, <1>2

LEMMA ConfDoneKeeps == ZMQInv /\ ConfDone => ZMQInv'
<1> SUFFICES ASSUME ZMQInv, ConfDone PROVE ZMQInv'
  OBVIOUS
<1> USE DEF ZMQInv, ConfDone
<1>1. LinkInv'
  BY ConfStepLink DEF LinkInv, TypeOK, ConfPoints
<1>2. ConfInv'
  BY DEF ConfInv, ConfPoints
<1> QED
  BY <1>1, <1>2

-----------------------------------------------------------------------------
(* The other steps.                                                        *)

LEMMA CommandKeepsConf ==
  ASSUME ConfInv, (m_configured /\ Start) \/ SetWork \/ Stop \/ StopReturns
  PROVE  ConfInv'
  BY DEF ConfInv, ConfPoints, Start, SetWork, Stop, StopReturns, config

LEMMA WorkerKeepsConf == ConfInv /\ Worker => ConfInv'
  BY WorkerLeavesConf DEF ConfInv, ConfPoints, config

\* The publisher's coming and going is not seen by the link.
LEMMA AttachKeeps == LinkInv /\ (Attach \/ Detach) => LinkInv'
<1> SUFFICES ASSUME LinkInv, Attach \/ Detach PROVE LinkInv'
  OBVIOUS
<1>1. peer' \in BOOLEAN /\ UNCHANGED <<config, control, counts, wire, received, sink>>
  BY DEF Attach, Detach
<1>2. TypeOK'
  BY <1>1 DEF LinkInv, TypeOK, config, control, counts, sink
<1>3. ControlInv' /\ MarkInv'
  BY <1>1 DEF LinkInv, ControlInv, MarkInv, control
<1>4. worker' = worker /\ UNCHANGED <<counts, wire, received, delivered, dropped>>
  BY <1>1 DEF control, sink
<1> QED
  BY <1>2, <1>3, <1>4, DataFrame DEF LinkInv, TypeOK

LEMMA PublishArrives ==
  ASSUME ZMQInv, NEW carries \in Carries, Publish(carries)
  PROVE  Arrive(carries) /\ peer' \in BOOLEAN
  BY DEF ZMQInv, LinkInv, TypeOK, Publish

LEMMA NetworkKeeps == ZMQInv /\ Network => ZMQInv'
<1> SUFFICES ASSUME ZMQInv, Network PROVE ZMQInv'
  OBVIOUS
<1>1. LinkInv'
  BY PublishArrives, ArriveLink, AttachKeeps, PopLink DEF ZMQInv, Network
<1>2. UNCHANGED <<cmd, m_run_marker, config>>
  BY DEF Network, Attach, Publish, Arrive, Detach, Pop, control
<1>3. ConfInv'
  BY <1>2 DEF ZMQInv, ConfInv, ConfPoints, config
<1> QED
  BY <1>1, <1>3 DEF ZMQInv

-----------------------------------------------------------------------------
LEMMA InitZMQ == Init => ZMQInv
<1>1. Init => ConfInv
  BY DEF Init, ConfInv, ConfPoints
<1> QED
  BY <1>1, InitLink DEF ZMQInv

LEMMA StepZMQ == ZMQInv /\ [Next]_vars => ZMQInv'
<1> SUFFICES ASSUME ZMQInv, [Next]_vars PROVE ZMQInv'
  OBVIOUS
<1>1. CASE \E timeout \in Timeouts : Conf(timeout)
  BY <1>1, ConfKeeps
<1>2. CASE Subscribe \/ Connect \/ SetConnected \/ Resubscribe \/ ConfDone
  BY <1>2, SubscribeKeeps, ConnectKeeps, SetConnectedKeeps, ResubscribeKeeps, ConfDoneKeeps
<1>3. CASE (m_configured /\ Start) \/ SetWork \/ Stop \/ StopReturns
  BY <1>3, StartLink, SetWorkLink, StopLink, StopReturnsLink, CommandKeepsConf DEF ZMQInv
<1>4. CASE Worker
  BY <1>4, WorkerLink, WorkerKeepsConf DEF ZMQInv
<1>5. CASE Network
  BY <1>5, NetworkKeeps
<1>6. CASE UNCHANGED vars
  BY <1>6, StutterLink DEF ZMQInv, ConfInv, ConfPoints, vars, config, control
<1> QED
  BY <1>1, <1>2, <1>3, <1>4, <1>5, <1>6 DEF Next, Commands, CommandStep

\* The inductive invariant holds throughout.
THEOREM ZMQInvariance == Spec => []ZMQInv
  BY InitZMQ, StepZMQ, PTL DEF Spec

\* Every variable keeps its type.
THEOREM ZMQTypes == Spec => []TypeOK
<1>1. ZMQInv => TypeOK
  BY DEF ZMQInv, LinkInv
<1> QED
  BY <1>1, ZMQInvariance, PTL

\* No frame escapes the two counters, and each is sent or dropped once.
THEOREM ZMQAccounting == Spec => [](CountersCoverFrames /\ SentOrDropped)
<1>1. ZMQInv => CountersCoverFrames /\ SentOrDropped
  BY DEF ZMQInv, LinkInv
<1> QED
  BY <1>1, ZMQInvariance, PTL

\* The second subscription never meets the thread on the socket, provided a
\* link is started only after it was configured.
THEOREM ZMQSocketCorrect == Spec => []SocketIsExclusive
<1>1. ZMQInv => SocketIsExclusive
  BY DEF ZMQInv, LinkInv, TypeOK, ControlInv, ConfInv, ConfPoints, SocketIsExclusive, OnSocket
<1> QED
  BY <1>1, ZMQInvariance, PTL

\* A conf that failed leaves nothing behind.
THEOREM ZMQConfCorrect == Spec => []ConfIsAllOrNothing
<1>1. ZMQInv => ConfIsAllOrNothing
  BY DEF ZMQInv, LinkInv, TypeOK, ControlInv, ConfInv, ConfPoints, ConfIsAllOrNothing, OnSocket
<1> QED
  BY <1>1, ZMQInvariance, PTL

\* The publish/subscribe link implements the relay.
THEOREM ZMQImplementsRelay == Spec => IsRelay
<1>1. Init => Promise!Init
  BY DEF Init, Promise!Init
<1>2. ZMQInv /\ [Next]_vars => [Promise!Next]_(Promise!relayVars)
  <2> SUFFICES ASSUME ZMQInv, [Next]_vars PROVE [Promise!Next]_(Promise!relayVars)
    OBVIOUS
  <2>1. CASE (\E timeout \in Timeouts : Conf(timeout)) \/ Subscribe \/ Connect \/ SetConnected
             \/ Resubscribe \/ ConfDone
    BY <2>1 DEF Conf, Subscribe, SocketCall, Connect, SetConnected, Resubscribe, ConfDone,
       Promise!relayVars, network, sink
  <2>2. CASE (m_configured /\ Start) \/ SetWork \/ Stop \/ StopReturns
    BY <2>2, CommandRelays DEF ZMQInv
  <2>3. CASE Worker
    BY <2>3, WorkerRelays DEF ZMQInv
  <2>4. CASE Attach \/ Detach
    BY <2>4 DEF Attach, Detach, Promise!relayVars, control, sink
  <2>5. CASE Pop \/ \E carries \in Carries : Publish(carries)
    BY <2>5, PublishArrives, OthersRelay DEF ZMQInv
  <2>6. CASE UNCHANGED vars
    BY <2>6 DEF vars, control, network, sink, Promise!relayVars
  <2> QED
    BY <2>1, <2>2, <2>3, <2>4, <2>5, <2>6 DEF Next, Commands, CommandStep, Network
<1> QED
  BY <1>1, <1>2, ZMQInvariance, PTL DEF Spec, IsRelay, Promise!Spec
=============================================================================
