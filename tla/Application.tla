---------------------------- MODULE Application ----------------------------
(***************************************************************************)
(* The application that app_confgen.py generates: a PacmanCardReader, a    *)
(* handler and a software trigger handler for each data producer, the      *)
(* consumers of what they make, the queues between, and the commands, each *)
(* of which names the modules it goes to in the order they get it.  The    *)
(* reader is the one of CardReader; of the other modules, which are of     *)
(* other packages, only what commands they were given is known.            *)
(***************************************************************************)
EXTENDS Integers, Sequences, FiniteSets

CONSTANTS
  FrontendTypes, \* choices of --frontend-type
  MaxProducers,  \* bound on --number-of-data-producers
  Confs,         \* configurations of the reader
  DefaultConf

ASSUME MaxProducersAssumption == MaxProducers \in Nat \ {0}
ASSUME ConfsAssumption ==
  Confs \cup {DefaultConf} \subseteq [card_id : Int, zmq_receiver_timeout : Int]

VARIABLES
  FRONTEND_TYPE, NUMBER_OF_DATA_PRODUCERS,
  rcs,           \* state of the run control
  command, todo, \* the command being dispatched and the modules that are to get it
  failed,        \* a module has refused it
  configured, running,         \* modules that were given a conf, a start
  rc, conn_refs, m_cfg, link   \* the reader

app    == <<FRONTEND_TYPE, NUMBER_OF_DATA_PRODUCERS>>
reader == <<rc, conn_refs, m_cfg, link>>
vars   == <<app, rcs, command, todo, failed, configured, running, reader>>

MaxRefs == MaxProducers
Targets == FrontendTypes \X (0..MaxProducers - 1)
PacmanTargets == {t \in Targets : t[1] = "pacman"}
MpdTargets == {t \in Targets : t[1] = "mpd"}

Reader == INSTANCE CardReader

-----------------------------------------------------------------------------
(* generate(): modules and queues.  A queue is its name and an index, or    *)
(* its name alone.                                                         *)

Producers == 0..NUMBER_OF_DATA_PRODUCERS - 1
Each(name) == {<<name, idx>> : idx \in Producers}

fake_source == <<"fake_source">>
Consumers   == {<<"timesync_consumer">>, <<"fragment_consumer">>}
errored_frame_consumer == <<"errored_frame_consumer">>

Modules ==
  Each("datahandler") \cup Each("sw_tp_handler") \cup Each("tpset_publisher")
  \cup Consumers \cup {fake_source, errored_frame_consumer}

\* Mutant: every handler has the link of the first one.
ReadsFirstLink(m) ==
  CASE m[1] = "datahandler"            -> {<<"link", 0>>, <<"data_requests", m[2]>>}
    [] m[1] = "sw_tp_handler"          -> {<<"sw_tp_queue", m[2]>>, <<"tp_data_requests">>}
    [] m[1] = "tpset_publisher"        -> {<<"tpset_link", m[2]>>}
    [] m[1] = "timesync_consumer"      -> {<<"time_sync_q">>}
    [] m[1] = "fragment_consumer"      -> {<<"data_fragments_q">>}
    [] m[1] = "errored_frame_consumer" -> {<<"errored_frames_q">>}
    [] OTHER                           -> {}

Reads(m) ==
  CASE m[1] = "datahandler"            -> {<<"link", m[2]>>, <<"data_requests", m[2]>>}
    [] m[1] = "sw_tp_handler"          -> {<<"sw_tp_queue", m[2]>>, <<"tp_data_requests">>}
    [] m[1] = "tpset_publisher"        -> {<<"tpset_link", m[2]>>}
    [] m[1] = "timesync_consumer"      -> {<<"time_sync_q">>}
    [] m[1] = "fragment_consumer"      -> {<<"data_fragments_q">>}
    [] m[1] = "errored_frame_consumer" -> {<<"errored_frames_q">>}
    [] OTHER                           -> {}

Writes(m) ==
  CASE m[1] = "fake_source"   -> Each("link")
    [] m[1] = "datahandler"   -> {<<"sw_tp_queue", m[2]>>, <<"tpset_link", m[2]>>, <<"time_sync_q">>,
                                  <<"data_fragments_q">>, <<"errored_frames_q">>}
    [] m[1] = "sw_tp_handler" -> {<<"time_sync_q">>, <<"data_fragments_q">>}
    [] OTHER                  -> {}

\* The queues of one producer and one consumer; the three that the consumer
\* modules read are for many.
SPSCQueues ==
  (UNION {Each(name) : name \in {"data_requests", "link", "sw_tp_queue", "tpset_link"}})
  \cup {<<"tp_data_requests">>}

-----------------------------------------------------------------------------
(* generate(): commands.  A pattern of module names goes to all that match *)
(* before the next pattern's turn.                                         *)

Configurable == {fake_source} \cup Each("datahandler") \cup Each("sw_tp_handler")
                \cup Each("tpset_publisher")

\* Mutant: a consumer that takes no configuration is given one.
confcmdTimesync ==
  <<{fake_source}, Each("datahandler"), Each("sw_tp_handler"), Each("tpset_publisher"), Consumers>>

confcmd == <<{fake_source}, Each("datahandler"), Each("sw_tp_handler"), Each("tpset_publisher")>>

\* Mutants: the source is started before what it writes to; a pattern is
\* forgotten.
startcmdSourceFirst ==
  <<{fake_source}, Each("datahandler"), {<<"timesync_consumer">>}, {<<"fragment_consumer">>},
    Each("sw_tp_handler"), Each("tpset_publisher"), {errored_frame_consumer}>>

startcmdNoPublisher ==
  <<Each("datahandler"), {fake_source}, {<<"timesync_consumer">>}, {<<"fragment_consumer">>},
    Each("sw_tp_handler"), {errored_frame_consumer}>>

startcmd ==
  <<Each("datahandler"), {fake_source}, {<<"timesync_consumer">>}, {<<"fragment_consumer">>},
    Each("sw_tp_handler"), Each("tpset_publisher"), {errored_frame_consumer}>>

stopcmd ==
  <<{fake_source}, Each("datahandler"), {<<"timesync_consumer">>}, {<<"fragment_consumer">>},
    Each("sw_tp_handler"), Each("tpset_publisher"), {errored_frame_consumer}>>

\* entry_state, exit_state and the modules of each command.
Commands ==
  [init   |-> [entry |-> "NONE",       exit |-> "INITIAL",    modules |-> <<Modules>>],
   conf   |-> [entry |-> "INITIAL",    exit |-> "CONFIGURED", modules |-> confcmd],
   start  |-> [entry |-> "CONFIGURED", exit |-> "RUNNING",    modules |-> startcmd],
   stop   |-> [entry |-> "RUNNING",    exit |-> "CONFIGURED", modules |-> stopcmd],
   scrap  |-> [entry |-> "CONFIGURED", exit |-> "INITIAL",    modules |-> <<Modules>>],
   record |-> [entry |-> "RUNNING",    exit |-> "RUNNING",    modules |-> <<Each("datahandler")>>]]

-----------------------------------------------------------------------------
\* With producers of trigger primitives, generate() stops at a name nothing
\* imports, and there is no application.
Init ==
  /\ FRONTEND_TYPE \in FrontendTypes /\ NUMBER_OF_DATA_PRODUCERS \in 1..MaxProducers
  /\ \E NUMBER_OF_TP_PRODUCERS \in 0..1 :
       rcs = IF NUMBER_OF_TP_PRODUCERS = 0 THEN "NONE" ELSE "NameError"
  /\ command = "none" /\ todo = <<>> /\ failed = FALSE
  /\ configured = {} /\ running = {}
  /\ Reader!Init

Issue(c) ==
  /\ rcs = Commands[c].entry /\ command = "none" /\ rc # "CRASHED"
  /\ command' = c /\ todo' = Commands[c].modules /\ failed' = FALSE
  /\ UNCHANGED <<app, rcs, configured, running, reader>>

\* A module's turn: one of those of the pattern at the head of the list.
Turn(c, m) ==
  /\ command = c /\ todo # <<>> /\ m \in Head(todo) /\ rc # "CRASHED"
  /\ UNCHANGED <<app, rcs, command>>

Rest(m) ==
  IF Head(todo) = {m} THEN Tail(todo) ELSE [todo EXCEPT ![1] = @ \ {m}]

\* The source's queues, output_0 and on.
OutputQueues == [i \in 1..NUMBER_OF_DATA_PRODUCERS |-> <<FRONTEND_TYPE, i - 1>>]

ReaderInit  == Turn("init", fake_source) /\ Reader!InitReader(OutputQueues)
               /\ UNCHANGED <<failed, configured, running>>
ReaderConf  == Turn("conf", fake_source) /\ (\E cfg \in Confs : Reader!Configure(cfg))
               /\ configured' = configured \cup {fake_source} /\ UNCHANGED <<failed, running>>
ReaderStart == Turn("start", fake_source) /\ Reader!Start
               /\ running' = running \cup {fake_source} /\ UNCHANGED <<failed, configured>>
ReaderStop  == Turn("stop", fake_source) /\ Reader!Stop
               /\ running' = running \ {fake_source} /\ UNCHANGED <<failed, configured>>
ReaderScrap == Turn("scrap", fake_source) /\ Reader!Scrap
               /\ configured' = configured \ {fake_source} /\ UNCHANGED <<failed, running>>

ReaderTurn ==
  /\ ReaderInit \/ ReaderConf \/ ReaderStart \/ ReaderStop \/ ReaderScrap
  /\ todo' = Rest(fake_source)

\* The reader's conf throws.  The framework may go on with the others or
\* give up; the command has failed in either case.
ReaderConfFails ==
  /\ Turn("conf", fake_source)
  /\ \E cfg \in Confs : Reader!ConfigureFails(cfg)
  /\ failed' = TRUE
  /\ todo' \in {Rest(fake_source), <<>>}
  /\ UNCHANGED <<configured, running>>

\* Any other module does as it is told.
OtherTurn(m) ==
  /\ m # fake_source
  /\ Turn(command, m)
  /\ todo' = Rest(m)
  /\ configured' = CASE command = "conf"  -> configured \cup {m}
                     [] command = "scrap" -> configured \ {m}
                     [] OTHER             -> configured
  /\ running' = CASE command = "start" -> running \cup {m}
                  [] command = "stop"  -> running \ {m}
                  [] OTHER             -> running
  /\ UNCHANGED <<failed, reader>>

Finish ==
  /\ command # "none" /\ todo = <<>>
  /\ rcs' = IF failed THEN rcs ELSE Commands[command].exit
  /\ command' = "none"
  /\ UNCHANGED <<app, todo, failed, configured, running, reader>>

Next ==
  \/ \E c \in DOMAIN Commands : Issue(c)
  \/ ReaderTurn \/ ReaderConfFails
  \/ \E m \in Modules : OtherTurn(m)
  \/ Finish

Spec == Init /\ [][Next]_vars

-----------------------------------------------------------------------------
TypeOK ==
  /\ rcs \in {"NONE", "INITIAL", "CONFIGURED", "RUNNING", "NameError"}
  /\ command \in DOMAIN Commands \cup {"none"}
  /\ \A i \in 1..Len(todo) : todo[i] \subseteq Modules
  /\ failed \in BOOLEAN
  /\ configured \subseteq Configurable /\ running \subseteq Modules
  /\ Reader!TypeOK

\* While the source runs, so does the handler of each of its link queues,
\* also halfway through a start or a stop: no frame meets a queue that nobody
\* reads any more, or yet.
SourceHasHandlers ==
  rc = "RUNNING" => \A q \in Writes(fake_source) : \E m \in running : q \in Reads(m)

\* Between commands the modules are where the run control takes them to be,
\* after a conf that failed for the reader too; and an application made for
\* PACMAN cards does not crash.
AppFollowsRunControl ==
  /\ FRONTEND_TYPE = "pacman" => rc # "CRASHED"
  /\ command = "none" /\ rc # "CRASHED" /\ rcs # "NameError" =>
       /\ rc = rcs
       /\ running = IF rcs = "RUNNING" THEN Modules ELSE {}
       /\ rcs \in {"CONFIGURED", "RUNNING"} => configured = Configurable

\* A queue for one producer and one consumer has no more of either at work,
\* but for the requests that all software trigger handlers read.
OnlyTpRequestsAreShared ==
  \A q \in SPSCQueues \ {<<"tp_data_requests">>} :
    /\ Cardinality({m \in running : q \in Reads(m)}) <= 1
    /\ Cardinality({m \in running : q \in Writes(m)}) <= 1
=============================================================================
