-------------------------- MODULE CardReader_proofs -------------------------
(***************************************************************************)
(* The plugin, for all names of queues, all configurations and readers of  *)
(* any number of queues.                                                   *)
(***************************************************************************)
EXTENDS CardReader, TLAPS

USE TargetsAssumption, MaxRefsAssumption, ConfsAssumption

\* The queues a reader is given are a sequence of names.
LEMMA RefsType ==
  ASSUME NEW refs \in BoundedSeq(Targets, MaxRefs)
  PROVE  refs \in Seq(Targets) /\ Len(refs) \in Nat
  BY DEF BoundedSeq, SeqOf

\* A reader that has come through init has one link, unless it was given no
\* queue, and a crash is that of a queue of no known name or of no queue.
LinkInv ==
  /\ link = <<>> \/ (link = <<link[1]>> /\ link[1] \in Links)
  /\ rc \in {"CONFIGURED", "RUNNING"} => link # <<>>
  /\ rc = "NONE" => link = <<>>
  /\ rc = "CRASHED" => conn_refs = <<>> \/ \E k \in 1..Len(conn_refs) : Payload(conn_refs[k]) = "none"

\* The link is that of the last queue, the one the code leaves in the slot.
SinkInv ==
  rc \in {"INITIAL", "CONFIGURED", "RUNNING"} /\ conn_refs # <<>> =>
    /\ link # <<>>
    /\ link[1].sink = conn_refs[Len(conn_refs)]
    /\ link[1].payload = Payload(conn_refs[Len(conn_refs)])

ReaderInv == TypeOK /\ LinkInv /\ LinkFollowsRunControl /\ SinkInv

-----------------------------------------------------------------------------
LEMMA InitReaderKeeps ==
  ASSUME ReaderInv, NEW refs \in BoundedSeq(Targets, MaxRefs), InitReader(refs)
  PROVE  ReaderInv'
<1> USE DEF ReaderInv, TypeOK, LinkInv, LinkFollowsRunControl, SinkInv, InitReader
<1>1. refs \in Seq(Targets) /\ conn_refs' = refs
  BY RefsType
<1>2. CASE \E i \in 1..Len(refs) : Payload(refs[i]) = "none"
  BY <1>1, <1>2
<1>3. CASE ~(\E i \in 1..Len(refs) : Payload(refs[i]) = "none") /\ refs = <<>>
  BY <1>1, <1>3
<1>4. CASE ~(\E i \in 1..Len(refs) : Payload(refs[i]) = "none") /\ refs # <<>>
  <2> DEFINE l == CreateLink(Last(refs))
  <2>1. link' = <<l>> /\ rc' = "INITIAL" /\ m_cfg' = DefaultConf
    BY <1>4
  <2>2. Last(refs) \in Targets /\ Payload(Last(refs)) # "none"
    BY <1>1, <1>4 DEF Last
  <2>3. l \in Links /\ l.sink = Last(refs) /\ l.payload = Payload(Last(refs)) /\ ~l.running
    BY <2>2 DEF CreateLink, Links, Payload
  <2>4. Last(refs) = refs[Len(refs)]
    BY DEF Last
  <2> HIDE DEF l
  <2> QED
    BY ONLY <1>1, <1>4, <2>1, <2>3, <2>4, ConfsAssumption
       DEF ReaderInv, TypeOK, LinkInv, LinkFollowsRunControl, SinkInv
<1> QED
  BY <1>2, <1>3, <1>4

LEMMA ConfigureKeeps ==
  ASSUME ReaderInv, NEW cfg \in Confs, Configure(cfg) \/ ConfigureFails(cfg) \/ ConfigureNothing(cfg)
  PROVE  ReaderInv'
<1> USE DEF ReaderInv, TypeOK, LinkInv, LinkFollowsRunControl, SinkInv
<1>1. cfg.card_id \in Int /\ cfg.zmq_receiver_timeout \in Int
  OBVIOUS
<1>2. CASE Configure(cfg)
  <2> DEFINE l == Configured(link[1], cfg)
  <2>1. link' = <<l>> /\ rc' = "CONFIGURED" /\ m_cfg' = cfg /\ conn_refs' = conn_refs /\ link # <<>>
    BY <1>2 DEF Configure
  <2>2. /\ l \in Links /\ l.configured /\ l.card_id = cfg.card_id
        /\ l.sink = link[1].sink /\ l.payload = link[1].payload /\ l.running = link[1].running
    BY <1>1, <2>1 DEF Configured, Links
  <2> QED
    BY <1>2, <2>1, <2>2 DEF Configure
<1>3. CASE ConfigureFails(cfg)
  <2> DEFINE l == [link[1] EXCEPT !.card_id = cfg.card_id, !.timeout = cfg.zmq_receiver_timeout]
  <2>1. link' = <<l>> /\ rc = "INITIAL" /\ rc' = rc /\ m_cfg' = cfg /\ conn_refs' = conn_refs /\ link # <<>>
    BY <1>3 DEF ConfigureFails
  <2>2. /\ l \in Links /\ l.sink = link[1].sink /\ l.payload = link[1].payload
        /\ l.running = link[1].running
    BY <1>1, <2>1 DEF Links
  <2> QED
    BY <2>1, <2>2
<1>4. CASE ConfigureNothing(cfg)
  BY <1>4 DEF ConfigureNothing
<1> QED
  BY <1>2, <1>3, <1>4

LEMMA StartKeeps == ReaderInv /\ Start => ReaderInv'
<1> SUFFICES ASSUME ReaderInv, Start PROVE ReaderInv'
  OBVIOUS
<1> USE DEF ReaderInv, TypeOK, LinkInv, LinkFollowsRunControl, SinkInv
<1> DEFINE l == [link[1] EXCEPT !.running = TRUE]
<1>1. /\ rc = "CONFIGURED" /\ rc' = "RUNNING" /\ link # <<>> /\ link' = <<l>>
      /\ conn_refs' = conn_refs /\ m_cfg' = m_cfg
  BY DEF Start
<1>2. /\ l \in Links /\ l.sink = link[1].sink /\ l.payload = link[1].payload
      /\ l.running /\ l.configured = link[1].configured /\ l.card_id = link[1].card_id
  BY <1>1 DEF Links
<1> HIDE DEF l
<1>3. TypeOK'
  BY <1>1, <1>2
<1>4. LinkInv' /\ SinkInv'
  BY <1>1, <1>2
<1>5. LinkFollowsRunControl'
  BY <1>1, <1>2
<1> QED
  BY <1>3, <1>4, <1>5

LEMMA StopKeeps == ReaderInv /\ Stop => ReaderInv'
<1> SUFFICES ASSUME ReaderInv, Stop PROVE ReaderInv'
  OBVIOUS
<1> USE DEF ReaderInv, TypeOK, LinkInv, LinkFollowsRunControl, SinkInv
<1> DEFINE l == [link[1] EXCEPT !.running = FALSE]
<1>1. /\ rc = "RUNNING" /\ rc' = "CONFIGURED" /\ link # <<>> /\ link' = <<l>>
      /\ conn_refs' = conn_refs /\ m_cfg' = m_cfg
  BY DEF Stop
<1>2. /\ l \in Links /\ l.sink = link[1].sink /\ l.payload = link[1].payload
      /\ ~l.running /\ l.configured = link[1].configured /\ l.card_id = link[1].card_id
  BY <1>1 DEF Links
<1> HIDE DEF l
<1>3. TypeOK'
  BY <1>1, <1>2
<1>4. LinkInv' /\ SinkInv'
  BY <1>1, <1>2
<1>5. LinkFollowsRunControl'
  BY <1>1, <1>2
<1> QED
  BY <1>3, <1>4, <1>5

LEMMA ScrapKeeps == ReaderInv /\ Scrap => ReaderInv'
  BY DEF ReaderInv, TypeOK, LinkInv, LinkFollowsRunControl, SinkInv, Scrap

-----------------------------------------------------------------------------
LEMMA InitReaderInv == Init => ReaderInv
  BY DEF Init, ReaderInv, TypeOK, LinkInv, LinkFollowsRunControl, SinkInv

LEMMA StepReaderInv == ReaderInv /\ [Next]_vars => ReaderInv'
<1> SUFFICES ASSUME ReaderInv, [Next]_vars PROVE ReaderInv'
  OBVIOUS
<1>1. CASE \E refs \in BoundedSeq(Targets, MaxRefs) : InitReader(refs)
  BY <1>1, InitReaderKeeps
<1>2. CASE \E cfg \in Confs : Configure(cfg) \/ ConfigureFails(cfg) \/ ConfigureNothing(cfg)
  BY <1>2, ConfigureKeeps
<1>3. CASE Start \/ Stop \/ Scrap
  BY <1>3, StartKeeps, StopKeeps, ScrapKeeps
<1>4. CASE UNCHANGED vars
  BY <1>4 DEF vars, ReaderInv, TypeOK, LinkInv, LinkFollowsRunControl, SinkInv
<1> QED
  BY <1>1, <1>2, <1>3, <1>4 DEF Next

LEMMA Invariance == Spec => []ReaderInv
  BY InitReaderInv, StepReaderInv, PTL DEF Spec

\* Every variable of the plugin keeps its type.
THEOREM TypeCorrect == Spec => []TypeOK
<1>1. ReaderInv => TypeOK
  BY DEF ReaderInv
<1> QED
  BY <1>1, Invariance, PTL

\* Link and run control agree on what is configured and what runs.
THEOREM LinkCorrect == Spec => []LinkFollowsRunControl
<1>1. ReaderInv => LinkFollowsRunControl
  BY DEF ReaderInv
<1> QED
  BY <1>1, Invariance, PTL

\* A reader of queues with known names has a link to one of them, of the kind
\* its name asks for, whatever commands come.
THEOREM KnownQueuesCorrect == Spec => []KnownQueuesGetALink
<1>1. ReaderInv => KnownQueuesGetALink
  <2> SUFFICES ASSUME ReaderInv, rc # "NONE", conn_refs # <<>>,
                      \A k \in 1..Len(conn_refs) : conn_refs[k] \in PacmanTargets \cup MpdTargets
               PROVE  /\ rc # "CRASHED" /\ link # <<>>
                      /\ \E k \in 1..Len(conn_refs) : link[1].sink = conn_refs[k]
                      /\ link[1].payload = "mpd" <=> link[1].sink \notin PacmanTargets
    BY DEF KnownQueuesGetALink
  <2>1. \A k \in 1..Len(conn_refs) : Payload(conn_refs[k]) # "none"
    BY DEF Payload
  <2>2. rc \in {"INITIAL", "CONFIGURED", "RUNNING"}
    BY <2>1 DEF ReaderInv, LinkInv, TypeOK
  <2>3. Len(conn_refs) \in 1..Len(conn_refs)
    BY DEF ReaderInv, TypeOK
  <2>4. /\ link # <<>> /\ link[1].sink = conn_refs[Len(conn_refs)]
        /\ link[1].payload = Payload(link[1].sink)
    BY <2>2 DEF ReaderInv, SinkInv
  <2>5. link[1].sink \in PacmanTargets \cup MpdTargets
    BY <2>3, <2>4
  <2> QED
    BY <2>2, <2>3, <2>4, <2>5 DEF Payload
<1> QED
  BY <1>1, Invariance, PTL
=============================================================================
