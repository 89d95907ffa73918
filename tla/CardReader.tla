----------------------------- MODULE CardReader -----------------------------
(***************************************************************************)
(* PacmanCardReader, the plugin the run control talks to: it creates the   *)
(* links for the queues it is given, and passes conf, start and stop on to *)
(* the link in slot 0, the only slot there is.  The link is seen here as   *)
(* its commands leave it; STREAMLink says how they do it.                  *)
(***************************************************************************)
EXTENDS Integers, Sequences, SequencesExt, FiniteSetsExt

CONSTANTS
  Targets,       \* names of output queues
  PacmanTargets, \* those that have "pacman" in them
  MpdTargets,    \* those that have "mpd" in them
  Confs,         \* configurations, as [card_id, zmq_receiver_timeout]
  DefaultConf,   \* the one of a schema object nobody filled in
  MaxRefs        \* bound on the queues of a reader

ASSUME TargetsAssumption == PacmanTargets \cup MpdTargets \subseteq Targets
ASSUME MaxRefsAssumption == MaxRefs \in Nat
ASSUME ConfsAssumption ==
  Confs \cup {DefaultConf} \subseteq [card_id : Int, zmq_receiver_timeout : Int]

VARIABLES
  rc,        \* state of the run control: as the commands name it, or "CRASHED"
  conn_refs, \* the queues init was given
  m_cfg,     \* the configuration of the reader
  link       \* m_streamlink[0]: empty, or a sequence of one link

vars == <<rc, conn_refs, m_cfg, link>>

Init == rc = "NONE" /\ conn_refs = <<>> /\ m_cfg = DefaultConf /\ link = <<>>

\* Mutant: the factory for the other kind of frames is not there.
PayloadPacmanOnly(target) == IF target \in PacmanTargets THEN "pacman" ELSE "none"

\* createSTREAMLinkModel: the payload type from the name of the queue, with
\* "pacman" looked for first; no link for any other name.
Payload(target) ==
  IF target \in PacmanTargets THEN "pacman"
  ELSE IF target \in MpdTargets THEN "mpd" ELSE "none"

CreateLink(target) ==
  [sink |-> target, payload |-> Payload(target), card_id |-> 0,
   timeout |-> 0, configured |-> FALSE, running |-> FALSE]

\* Mutant: a link is made for any name.
InitReaderTrusts(refs) ==
  /\ rc = "NONE"
  /\ conn_refs' = refs
  /\ rc' = "INITIAL" /\ m_cfg' = DefaultConf
  /\ link' = IF refs = <<>> THEN <<>> ELSE <<CreateLink(Last(refs))>>

\* init(): a link for every queue, each put in slot 0 in place of the one
\* before.  A name no link is made for is reported and then dereferenced.
InitReader(refs) ==
  /\ rc = "NONE"
  /\ conn_refs' = refs
  /\ IF \E i \in 1..Len(refs) : Payload(refs[i]) = "none"
       THEN rc' = "CRASHED" /\ UNCHANGED <<m_cfg, link>>
       ELSE /\ rc' = "INITIAL" /\ m_cfg' = DefaultConf
            /\ link' = IF refs = <<>> THEN <<>> ELSE <<CreateLink(Last(refs))>>

\* Mutant: a configured link is left alone altogether.
ConfiguredOnce(l, cfg) ==
  IF l.configured THEN l
  ELSE [l EXCEPT !.card_id = cfg.card_id, !.configured = TRUE,
                 !.timeout = cfg.zmq_receiver_timeout]

\* do_configure(): the ids go to the link at every conf, the rest only at
\* the first that succeeds.
Configured(l, cfg) ==
  IF l.configured THEN [l EXCEPT !.card_id = cfg.card_id]
  ELSE [l EXCEPT !.card_id = cfg.card_id, !.configured = TRUE,
                 !.timeout = cfg.zmq_receiver_timeout]

Configure(cfg) ==
  /\ rc = "INITIAL" /\ link # <<>>
  /\ m_cfg' = cfg
  /\ link' = <<Configured(link[1], cfg)>>
  /\ rc' = "CONFIGURED"
  /\ UNCHANGED conn_refs

\* The bind of a first conf throws: the command fails, half done.
ConfigureFails(cfg) ==
  /\ rc = "INITIAL" /\ link # <<>> /\ ~link[1].configured
  /\ m_cfg' = cfg
  /\ link' = <<[link[1] EXCEPT !.card_id = cfg.card_id,
                               !.timeout = cfg.zmq_receiver_timeout]>>
  /\ UNCHANGED <<rc, conn_refs>>

\* A reader without queues has no link to configure.
ConfigureNothing(cfg) ==
  /\ rc = "INITIAL" /\ link = <<>>
  /\ m_cfg' = cfg
  /\ rc' = "CRASHED"
  /\ UNCHANGED <<conn_refs, link>>

Start ==
  /\ rc = "CONFIGURED"
  /\ rc' = "RUNNING"
  /\ link' = <<[link[1] EXCEPT !.running = TRUE]>>
  /\ UNCHANGED <<conn_refs, m_cfg>>

Stop ==
  /\ rc = "RUNNING"
  /\ rc' = "CONFIGURED"
  /\ link' = <<[link[1] EXCEPT !.running = FALSE]>>
  /\ UNCHANGED <<conn_refs, m_cfg>>

\* The plugin registers no scrap: the run control goes back to INITIAL and
\* the reader does not notice.
Scrap ==
  /\ rc = "CONFIGURED"
  /\ rc' = "INITIAL"
  /\ UNCHANGED <<conn_refs, m_cfg, link>>

Next ==
  \/ \E refs \in BoundedSeq(Targets, MaxRefs) : InitReader(refs)
  \/ \E cfg \in Confs : Configure(cfg) \/ ConfigureFails(cfg) \/ ConfigureNothing(cfg)
  \/ Start \/ Stop \/ Scrap

Spec == Init /\ [][Next]_vars

-----------------------------------------------------------------------------
Links == [sink : Targets, payload : {"pacman", "mpd"}, card_id : Int,
          timeout : Int, configured : BOOLEAN, running : BOOLEAN]

TypeOK ==
  /\ rc \in {"NONE", "INITIAL", "CONFIGURED", "RUNNING", "CRASHED"}
  /\ conn_refs \in Seq(Targets)
  /\ m_cfg \in Confs \cup {DefaultConf}
  /\ link = <<>> \/ (Len(link) = 1 /\ link[1] \in Links)

\* The run control's idea of the reader is the link's own: configured in
\* CONFIGURED and RUNNING, at work in RUNNING and only there, and with the
\* card id of the latest conf even when that was not the first.
LinkFollowsRunControl ==
  /\ rc \in {"CONFIGURED", "RUNNING"} =>
       link # <<>> /\ link[1].configured /\ link[1].card_id = m_cfg.card_id
  /\ link # <<>> => (link[1].running <=> rc = "RUNNING")

\* A reader whose queues all have a name some factory knows never brings the
\* process down: from init on, through every later command, its link writes to
\* one of them, frames of the kind that queue's name asks for.  To which one,
\* of several, is not said: the code keeps the last and marks that FIX ME.
KnownQueuesGetALink ==
  /\ rc # "NONE" /\ conn_refs # <<>>
  /\ \A k \in 1..Len(conn_refs) : conn_refs[k] \in PacmanTargets \cup MpdTargets
  => /\ rc # "CRASHED" /\ link # <<>>
     /\ \E k \in 1..Len(conn_refs) : link[1].sink = conn_refs[k]
     /\ link[1].payload = "mpd" <=> link[1].sink \notin PacmanTargets

\* A configured reader works with the configuration of the latest conf.
ConfTakesEffect ==
  rc \in {"CONFIGURED", "RUNNING"} => link[1].timeout = m_cfg.zmq_receiver_timeout
=============================================================================
