------------------------- MODULE Application_proofs -------------------------
(***************************************************************************)
(* Commands and modules of the generated application, for any number of    *)
(* data producers, every frontend type and all configurations.             *)
(***************************************************************************)
EXTENDS Application, FiniteSetTheorems, TLAPS

\* What is proved of the reader.
ReaderProofs == INSTANCE CardReader_proofs

datahandlers == Each("datahandler")

\* The modules of a list, of which none is in two places.
All(list)   == UNION {list[k] : k \in 1..Len(list)}
Apart(list) == \A j, k \in 1..Len(list) : j # k => list[j] \cap list[k] = {}

\* The modules that the command under way has not reached.
Pending == All(todo)

Types ==
  /\ NUMBER_OF_DATA_PRODUCERS \in 1..MaxProducers /\ FRONTEND_TYPE \in FrontendTypes
  /\ rcs \in {"NONE", "INITIAL", "CONFIGURED", "RUNNING", "NameError"}
  /\ command \in {"init", "conf", "start", "stop", "scrap", "record", "none"}
  /\ failed \in BOOLEAN
  /\ todo \in Seq(SUBSET Modules) /\ Apart(todo) /\ (command = "none" => todo = <<>>)
  /\ configured \subseteq Configurable /\ running \subseteq Modules

ReaderAt(before, after) == rc = IF fake_source \in Pending THEN before ELSE after

\* Where modules and reader are, halfway through a command or between two.
Progress ==
  /\ command = "none" /\ rcs # "NameError" =>
       /\ rc = rcs
       /\ running = IF rcs = "RUNNING" THEN Modules ELSE {}
       /\ rcs \in {"CONFIGURED", "RUNNING"} => configured = Configurable
  /\ command = "none" /\ rcs = "NameError" => rc = "NONE"
  /\ command = "init" =>
       rcs = "NONE" /\ ~failed /\ running = {} /\ ReaderAt("NONE", "INITIAL")
  /\ command = "conf" =>
       /\ rcs = "INITIAL" /\ running = {} /\ Pending \subseteq Configurable
       /\ failed => rc = "INITIAL" /\ fake_source \notin Pending
       /\ ~failed => ReaderAt("INITIAL", "CONFIGURED") /\ Configurable \ Pending \subseteq configured
  /\ command = "start" =>
       /\ rcs = "CONFIGURED" /\ ~failed /\ configured = Configurable
       /\ running = Modules \ Pending /\ ReaderAt("CONFIGURED", "RUNNING")
  /\ command = "stop" =>
       /\ rcs = "RUNNING" /\ ~failed /\ configured = Configurable
       /\ running = Pending /\ ReaderAt("RUNNING", "CONFIGURED")
  /\ command = "scrap" =>
       rcs = "CONFIGURED" /\ ~failed /\ running = {} /\ ReaderAt("CONFIGURED", "INITIAL")
  /\ command = "record" =>
       /\ rcs = "RUNNING" /\ rc = "RUNNING" /\ ~failed /\ fake_source \notin Pending
       /\ configured = Configurable /\ running = Modules

\* The handlers are started before the source and stopped after it.
Order ==
  /\ command = "start" =>
       \/ datahandlers \cap Pending = {}
       \/ todo # <<>> /\ fake_source \in Pending /\ Head(todo) = datahandlers \cap Pending
  /\ command = "stop" /\ fake_source \in Pending =>
       todo # <<>> /\ Head(todo) = {fake_source} /\ datahandlers \subseteq Pending

AppInv ==
  /\ Types
  /\ FRONTEND_TYPE = "pacman" => rc # "CRASHED"
  /\ rc # "CRASHED" => Progress /\ Order

-----------------------------------------------------------------------------
(* Lists of modules.                                                       *)

LEMMA RestOfList ==
  ASSUME NEW S, NEW list \in Seq(SUBSET S), Apart(list), list # <<>>,
         NEW m \in Head(list),
         NEW rest, rest = IF Head(list) = {m} THEN Tail(list) ELSE [list EXCEPT ![1] = @ \ {m}]
  PROVE  rest \in Seq(SUBSET S) /\ Apart(rest) /\ All(rest) = All(list) \ {m}
<1>1. Len(list) \in Nat \ {0} /\ Head(list) = list[1] /\ m \in S
  OBVIOUS
<1>2. \A k \in 2..Len(list) : m \notin list[k]
  BY <1>1 DEF Apart
<1>3. CASE Head(list) = {m}
  <2>1. rest = Tail(list) /\ rest \in Seq(SUBSET S) /\ Len(rest) = Len(list) - 1
    BY <1>1, <1>3
  <2>2. \A k \in 1..Len(rest) : rest[k] = list[k + 1]
    BY <1>1, <2>1
  <2>3. Apart(rest)
    BY <1>1, <2>1, <2>2 DEF Apart
  <2>4. All(rest) \subseteq All(list) \ {m}
    BY <1>1, <1>2, <2>1, <2>2 DEF All
  <2>5. All(list) \ {m} \subseteq All(rest)
    <3> SUFFICES ASSUME NEW x \in All(list), x # m PROVE x \in All(rest)
      OBVIOUS
    <3>1. PICK k \in 1..Len(list) : x \in list[k]
      BY DEF All
    <3>2. k - 1 \in 1..Len(rest) /\ rest[k - 1] = list[k]
      BY <1>1, <1>3, <2>1, <2>2, <3>1
    <3> QED
      BY <3>1, <3>2 DEF All
  <2> QED
    BY <2>1, <2>3, <2>4, <2>5
<1>4. CASE Head(list) # {m}
  <2>1. /\ rest \in Seq(SUBSET S) /\ Len(rest) = Len(list)
        /\ rest[1] = list[1] \ {m} /\ \A k \in 2..Len(list) : rest[k] = list[k]
    BY <1>1, <1>4
  <2>2. \A k \in 1..Len(list) : rest[k] = list[k] \ {m}
    BY <1>1, <1>2, <2>1
  <2>3. Apart(rest)
    BY <2>1, <2>2 DEF Apart
  <2>4. All(rest) = All(list) \ {m}
    BY <2>1, <2>2 DEF All
  <2> QED
    BY <2>1, <2>3, <2>4
<1> QED
  BY <1>3, <1>4

LEMMA ListOfOne ==
  ASSUME NEW S
  PROVE  Apart(<<S>>) /\ All(<<S>>) = S
  BY DEF Apart, All

LEMMA EmptyList == Apart(<<>>) /\ All(<<>>) = {}
  BY DEF Apart, All

\* A module's name tells which pattern it matches.
LEMMA Names ==
  /\ \A name : \A m \in Each(name) : m[1] = name
  /\ fake_source[1] = "fake_source" /\ errored_frame_consumer[1] = "errored_frame_consumer"
  /\ fake_source \in Modules
  BY DEF Each, fake_source, errored_frame_consumer, Modules

LEMMA ConfList ==
  /\ confcmd \in Seq(SUBSET Modules) /\ Apart(confcmd) /\ All(confcmd) = Configurable
<1>1. confcmd \in Seq(SUBSET Modules)
  BY DEF confcmd, Modules
<1>2. Apart(confcmd)
  BY Names DEF confcmd, Apart
<1>3. All(confcmd) = Configurable
  BY DEF confcmd, All, Configurable
<1> QED
  BY <1>1, <1>2, <1>3

LEMMA StartList ==
  /\ startcmd \in Seq(SUBSET Modules) /\ Apart(startcmd) /\ All(startcmd) = Modules
  /\ startcmd # <<>> /\ Head(startcmd) = datahandlers
<1>1. startcmd \in Seq(SUBSET Modules)
  BY DEF startcmd, Modules, Consumers
<1>2. Apart(startcmd)
  BY Names DEF startcmd, Apart
<1>3. All(startcmd) = Modules
  BY DEF startcmd, All, Modules, Consumers
<1>4. startcmd # <<>> /\ Head(startcmd) = datahandlers
  BY DEF startcmd, datahandlers
<1> QED
  BY <1>1, <1>2, <1>3, <1>4

LEMMA StopList ==
  /\ stopcmd \in Seq(SUBSET Modules) /\ Apart(stopcmd) /\ All(stopcmd) = Modules
  /\ stopcmd # <<>> /\ Head(stopcmd) = {fake_source}
<1>1. stopcmd \in Seq(SUBSET Modules)
  BY DEF stopcmd, Modules, Consumers
<1>2. Apart(stopcmd)
  BY Names DEF stopcmd, Apart
<1>3. All(stopcmd) = Modules
  BY DEF stopcmd, All, Modules, Consumers
<1>4. stopcmd # <<>> /\ Head(stopcmd) = {fake_source}
  BY DEF stopcmd
<1> QED
  BY <1>1, <1>2, <1>3, <1>4

-----------------------------------------------------------------------------
LEMMA InitApp == Init => AppInv
<1> SUFFICES ASSUME Init PROVE AppInv
  OBVIOUS
<1>1. /\ NUMBER_OF_DATA_PRODUCERS \in 1..MaxProducers /\ FRONTEND_TYPE \in FrontendTypes
      /\ rcs \in {"NONE", "NameError"} /\ command = "none" /\ todo = <<>> /\ failed = FALSE
      /\ configured = {} /\ running = {} /\ rc = "NONE"
  BY DEF Init, Reader!Init
<1>2. Types
  <2>1. todo \in Seq(SUBSET Modules) /\ Apart(todo)
    BY <1>1, EmptyList
  <2> QED
    BY <1>1, <2>1 DEF Types
<1>3. Progress /\ Order
  BY <1>1 DEF Progress, Order
<1> QED
  BY <1>1, <1>2, <1>3 DEF AppInv

LEMMA CommandLists ==
  ASSUME NEW c \in DOMAIN Commands
  PROVE  /\ c \in {"init", "conf", "start", "stop", "scrap", "record"}
         /\ c = "init" => /\ Commands[c].entry = "NONE" /\ Commands[c].exit = "INITIAL"
                          /\ Commands[c].modules = <<Modules>>
         /\ c = "conf" => /\ Commands[c].entry = "INITIAL" /\ Commands[c].exit = "CONFIGURED"
                          /\ Commands[c].modules = confcmd
         /\ c = "start" => /\ Commands[c].entry = "CONFIGURED" /\ Commands[c].exit = "RUNNING"
                           /\ Commands[c].modules = startcmd
         /\ c = "stop" => /\ Commands[c].entry = "RUNNING" /\ Commands[c].exit = "CONFIGURED"
                          /\ Commands[c].modules = stopcmd
         /\ c = "scrap" => /\ Commands[c].entry = "CONFIGURED" /\ Commands[c].exit = "INITIAL"
                           /\ Commands[c].modules = <<Modules>>
         /\ c = "record" => /\ Commands[c].entry = "RUNNING" /\ Commands[c].exit = "RUNNING"
                            /\ Commands[c].modules = <<datahandlers>>
  BY DEF Commands, datahandlers

LEMMA HandlersAreModules ==
  datahandlers \subseteq Modules /\ fake_source \notin datahandlers
  BY Names DEF datahandlers, Modules

LEMMA IssueKeeps ==
  ASSUME AppInv, NEW c \in DOMAIN Commands, Issue(c)
  PROVE  AppInv'
<1>1. /\ rcs = Commands[c].entry /\ command = "none" /\ rc # "CRASHED"
      /\ command' = c /\ todo' = Commands[c].modules /\ failed' = FALSE
      /\ UNCHANGED <<NUMBER_OF_DATA_PRODUCERS, FRONTEND_TYPE, rcs, configured, running, rc>>
  BY DEF Issue, app, reader
<1>2. UNCHANGED <<Modules, Configurable, datahandlers, fake_source>>
  BY <1>1 DEF Modules, Configurable, datahandlers, fake_source, Each, Producers, Consumers,
              errored_frame_consumer
<1>3. /\ todo' \in Seq(SUBSET Modules) /\ Apart(todo')
      /\ Pending' = CASE c = "conf" -> Configurable [] c = "record" -> datahandlers [] OTHER -> Modules
  <2> DEFINE list == Commands[c].modules
             all == CASE c = "conf" -> Configurable [] c = "record" -> datahandlers [] OTHER -> Modules
  <2>1. CASE c \in {"init", "scrap"}
    <3>1. list = <<Modules>> /\ all = Modules
      BY <2>1, CommandLists
    <3> QED
      BY <1>1, <3>1, ListOfOne DEF Pending
  <2>2. CASE c = "conf"
    BY <1>1, <2>2, CommandLists, ConfList DEF Pending
  <2>3. CASE c \in {"start", "stop"}
    BY <1>1, <2>3, CommandLists, StartList, StopList DEF Pending
  <2>4. CASE c = "record"
    <3>1. list = <<datahandlers>> /\ all = datahandlers
      BY <2>4, CommandLists
    <3> QED
      BY <1>1, <3>1, ListOfOne, HandlersAreModules DEF Pending
  <2> QED
    BY <2>1, <2>2, <2>3, <2>4, CommandLists
<1>4. Types'
  BY <1>1, <1>2, <1>3, CommandLists DEF AppInv, Types
<1>5. fake_source \in Modules /\ fake_source \in Configurable /\ fake_source \notin datahandlers
  BY Names, HandlersAreModules DEF Configurable
<1>6. rc = rcs /\ running = (IF rcs = "RUNNING" THEN Modules ELSE {})
      /\ (rcs \in {"CONFIGURED", "RUNNING"} => configured = Configurable)
  BY <1>1, CommandLists DEF AppInv, Progress
<1>7. Progress'
  BY <1>1, <1>2, <1>3, <1>5, <1>6, CommandLists DEF Progress, ReaderAt
<1>8. Order'
  BY <1>1, <1>2, <1>3, CommandLists, StartList, StopList, HandlersAreModules DEF Order
<1> QED
  BY <1>1, <1>4, <1>7, <1>8 DEF AppInv

LEMMA FinishKeeps == AppInv /\ Finish => AppInv'
<1> SUFFICES ASSUME AppInv, Finish PROVE AppInv'
  OBVIOUS
<1>1. /\ command # "none" /\ todo = <<>> /\ command' = "none"
      /\ rcs' = IF failed THEN rcs ELSE Commands[command].exit
      /\ UNCHANGED <<NUMBER_OF_DATA_PRODUCERS, FRONTEND_TYPE, todo, failed, configured, running, rc>>
  BY DEF Finish, app, reader
<1>2. UNCHANGED <<Modules, Configurable>>
  BY <1>1 DEF Modules, Configurable, Each, Producers, Consumers, errored_frame_consumer, fake_source
<1>3. command \in DOMAIN Commands
  BY <1>1 DEF AppInv, Types, Commands
<1>4. Pending = {}
  BY <1>1, EmptyList DEF Pending
<1>5. rcs' \in {"NONE", "INITIAL", "CONFIGURED", "RUNNING"} \cup {rcs}
  BY <1>1, <1>3, CommandLists
<1>6. Types'
  BY <1>1, <1>2, <1>5 DEF AppInv, Types
<1>7. ASSUME rc # "CRASHED" PROVE Progress'
  <2>1. Progress
    BY <1>7 DEF AppInv
  <2>2. rc = rcs'
    BY <1>1, <1>3, <1>4, <2>1, CommandLists DEF Progress, ReaderAt
  <2>3. rcs' # "NameError" /\ running' = IF rcs' = "RUNNING" THEN Modules' ELSE {}
    BY <1>1, <1>2, <1>3, <1>4, <2>1, CommandLists DEF Progress
  <2>4. rcs' \in {"CONFIGURED", "RUNNING"} => configured' = Configurable'
    BY <1>1, <1>2, <1>3, <1>4, <2>1, CommandLists DEF Progress, AppInv, Types
  <2> QED
    BY <1>1, <2>2, <2>3, <2>4 DEF Progress
<1>8. Order'
  BY <1>1 DEF Order
<1> QED
  BY <1>1, <1>6, <1>7, <1>8 DEF AppInv

-----------------------------------------------------------------------------
(* A module's turn.                                                        *)

\* What every turn does to the list and leaves alone.
LEMMA TurnTakes ==
  ASSUME AppInv, NEW c, NEW m, Turn(c, m), todo' = Rest(m)
  PROVE  /\ c = command /\ m \in Pending /\ m \in Modules /\ rc # "CRASHED" /\ todo # <<>> /\ m \in Head(todo)
         /\ UNCHANGED <<NUMBER_OF_DATA_PRODUCERS, FRONTEND_TYPE, rcs, command>>
         /\ UNCHANGED <<Modules, Configurable, datahandlers, fake_source>>
         /\ todo' \in Seq(SUBSET Modules) /\ Apart(todo') /\ Pending' = Pending \ {m}
<1>1. /\ c = command /\ rc # "CRASHED" /\ todo # <<>> /\ m \in Head(todo)
      /\ UNCHANGED <<NUMBER_OF_DATA_PRODUCERS, FRONTEND_TYPE, rcs, command>>
  BY DEF Turn, app
<1>2. UNCHANGED <<Modules, Configurable, datahandlers, fake_source>>
  BY <1>1 DEF Modules, Configurable, datahandlers, fake_source, Each, Producers, Consumers,
              errored_frame_consumer
<1>3. todo \in Seq(SUBSET Modules) /\ Apart(todo)
  BY DEF AppInv, Types
<1>4. 1 \in 1..Len(todo) /\ Head(todo) = todo[1] /\ Head(todo) \in SUBSET Modules
  BY <1>1, <1>3
<1>5. m \in Pending /\ m \in Modules
  BY <1>1, <1>4 DEF Pending, All
<1>6. todo' \in Seq(SUBSET Modules) /\ Apart(todo') /\ All(todo') = All(todo) \ {m}
  BY <1>1, <1>3, RestOfList DEF Rest
<1> QED
  BY <1>1, <1>2, <1>5, <1>6 DEF Pending

\* The order survives a turn that the order allows.
LEMMA TurnKeepsOrder ==
  ASSUME AppInv, NEW c, NEW m, Turn(c, m), todo' = Rest(m)
  PROVE  Order'
<1>1. /\ m \in Pending /\ rc # "CRASHED" /\ todo # <<>> /\ m \in Head(todo)
      /\ UNCHANGED <<command, datahandlers, fake_source>> /\ Pending' = Pending \ {m}
      /\ todo \in Seq(SUBSET Modules) /\ Apart(todo)
  BY TurnTakes DEF AppInv, Types
<1>2. Order
  BY <1>1 DEF AppInv
<1>3. CASE command = "start"
  <2>1. CASE datahandlers \cap Pending = {}
    BY <1>1, <1>3, <2>1 DEF Order
  <2>2. CASE fake_source \in Pending /\ Head(todo) = datahandlers \cap Pending /\ Head(todo) # {m}
    <3>1. todo' # <<>> /\ Head(todo') = Head(todo) \ {m}
      BY <1>1, <2>2 DEF Rest
    <3> QED
      BY <1>1, <1>3, <2>2, <3>1, HandlersAreModules DEF Order
  <2>3. CASE fake_source \in Pending /\ Head(todo) = datahandlers \cap Pending /\ Head(todo) = {m}
    BY <1>1, <1>3, <2>3 DEF Order
  <2> QED
    BY <1>2, <1>3, <2>1, <2>2, <2>3 DEF Order
<1>4. CASE command = "stop"
  BY <1>1, <1>2, <1>4 DEF Order
<1> QED
  BY <1>1, <1>3, <1>4 DEF Order

LEMMA OtherTurnKeeps ==
  ASSUME AppInv, NEW m, OtherTurn(m)
  PROVE  AppInv'
<1>1. /\ m # fake_source /\ Turn(command, m) /\ todo' = Rest(m)
      /\ configured' = CASE command = "conf"  -> configured \cup {m}
                         [] command = "scrap" -> configured \ {m}
                         [] OTHER             -> configured
      /\ running' = CASE command = "start" -> running \cup {m}
                      [] command = "stop"  -> running \ {m}
                      [] OTHER             -> running
      /\ UNCHANGED <<failed, rc>>
  BY DEF OtherTurn, reader
<1>2. /\ m \in Pending /\ m \in Modules /\ rc # "CRASHED" /\ todo # <<>>
      /\ UNCHANGED <<NUMBER_OF_DATA_PRODUCERS, FRONTEND_TYPE, rcs, command>>
      /\ UNCHANGED <<Modules, Configurable, fake_source>>
      /\ todo' \in Seq(SUBSET Modules) /\ Apart(todo') /\ Pending' = Pending \ {m}
  BY <1>1, TurnTakes
<1>3. Progress
  BY <1>2 DEF AppInv
<1>4. command # "none"
  BY <1>2 DEF AppInv, Types
<1>5. Types'
  BY <1>1, <1>2, <1>3, <1>4 DEF AppInv, Types, Progress
<1>6. Progress'
  BY <1>1, <1>2, <1>3, <1>4 DEF Progress, ReaderAt
<1>7. Order'
  BY <1>1, TurnKeepsOrder
<1> QED
  BY <1>1, <1>2, <1>5, <1>6, <1>7 DEF AppInv

\* An application made for PACMAN cards names queues that links are made for.
LEMMA PacmanQueues ==
  ASSUME NUMBER_OF_DATA_PRODUCERS \in 1..MaxProducers, FRONTEND_TYPE \in FrontendTypes,
         FRONTEND_TYPE = "pacman", NEW k \in 1..Len(OutputQueues)
  PROVE  Reader!Payload(OutputQueues[k]) = "pacman"
<1>1. k \in 1..NUMBER_OF_DATA_PRODUCERS /\ OutputQueues[k] = <<"pacman", k - 1>>
  BY DEF OutputQueues
<1>2. k - 1 \in 0..MaxProducers - 1
  BY <1>1, MaxProducersAssumption
<1>3. OutputQueues[k] \in PacmanTargets
  BY <1>1, <1>2 DEF PacmanTargets, Targets
<1> QED
  BY <1>3 DEF Reader!Payload

\* What the reader does at its turn.
LEMMA ReaderDoes ==
  ASSUME AppInv, ReaderTurn
  PROVE  /\ Turn(command, fake_source) /\ todo' = Rest(fake_source) /\ failed' = failed
         /\ command = "init" => rc' \in {"INITIAL", "CRASHED"} /\ UNCHANGED <<configured, running>>
         /\ command = "conf" => /\ rc' = "CONFIGURED" /\ running' = running
                                /\ configured' = configured \cup {fake_source}
         /\ command = "start" => /\ rc' = "RUNNING" /\ configured' = configured
                                 /\ running' = running \cup {fake_source}
         /\ command = "stop" => /\ rc' = "CONFIGURED" /\ configured' = configured
                                /\ running' = running \ {fake_source}
         /\ command = "scrap" => /\ rc' = "INITIAL" /\ running' = running
                                 /\ configured' = configured \ {fake_source}
         /\ command \in {"init", "conf", "start", "stop", "scrap"}
         /\ FRONTEND_TYPE = "pacman" => rc' # "CRASHED"
<1>1. todo' = Rest(fake_source)
  BY DEF ReaderTurn
<1>2. CASE ReaderInit
  <2>1. command = "init" /\ Turn(command, fake_source) /\ UNCHANGED <<failed, configured, running>>
    BY <1>2 DEF ReaderInit, Turn
  <2>2. rc' \in {"INITIAL", "CRASHED"}
    BY <1>2 DEF ReaderInit, Reader!InitReader
  <2>3. FRONTEND_TYPE = "pacman" => rc' # "CRASHED"
    BY <1>2, PacmanQueues DEF ReaderInit, Reader!InitReader, AppInv, Types
  <2> QED
    BY <1>1, <2>1, <2>2, <2>3
<1>3. CASE ReaderConf
  BY <1>1, <1>3 DEF ReaderConf, Turn, Reader!Configure
<1>4. CASE ReaderStart
  BY <1>1, <1>4 DEF ReaderStart, Turn, Reader!Start
<1>5. CASE ReaderStop
  BY <1>1, <1>5 DEF ReaderStop, Turn, Reader!Stop
<1>6. CASE ReaderScrap
  BY <1>1, <1>6 DEF ReaderScrap, Turn, Reader!Scrap
<1> QED
  BY <1>2, <1>3, <1>4, <1>5, <1>6 DEF ReaderTurn

LEMMA ReaderTurnKeeps == AppInv /\ ReaderTurn => AppInv'
<1> SUFFICES ASSUME AppInv, ReaderTurn PROVE AppInv'
  OBVIOUS
<1>1. /\ fake_source \in Pending /\ fake_source \in Modules /\ rc # "CRASHED"
      /\ UNCHANGED <<NUMBER_OF_DATA_PRODUCERS, FRONTEND_TYPE, rcs, command>>
      /\ UNCHANGED <<Modules, Configurable, fake_source>>
      /\ todo' \in Seq(SUBSET Modules) /\ Apart(todo') /\ Pending' = Pending \ {fake_source}
  BY ReaderDoes, TurnTakes
<1>2. Progress
  BY <1>1 DEF AppInv
<1>3. Types'
  BY <1>1, <1>2, ReaderDoes DEF AppInv, Types, Progress
<1>4. ASSUME rc' # "CRASHED" PROVE Progress'
  BY <1>1, <1>2, <1>4, ReaderDoes DEF Progress, ReaderAt
<1>5. Order'
  BY ReaderDoes, TurnKeepsOrder
<1> QED
  BY <1>1, <1>3, <1>4, <1>5, ReaderDoes DEF AppInv

LEMMA ReaderConfFailsKeeps == AppInv /\ ReaderConfFails => AppInv'
<1> SUFFICES ASSUME AppInv, ReaderConfFails PROVE AppInv'
  OBVIOUS
<1>1. /\ command = "conf" /\ Turn("conf", fake_source) /\ failed' = TRUE
      /\ todo' = Rest(fake_source) \/ todo' = <<>>
      /\ UNCHANGED <<configured, running, rc>>
  BY DEF ReaderConfFails, Turn, Reader!ConfigureFails
<1>2. /\ rc # "CRASHED" /\ UNCHANGED <<NUMBER_OF_DATA_PRODUCERS, FRONTEND_TYPE, rcs, command>>
      /\ UNCHANGED <<Modules, Configurable, fake_source>>
  BY <1>1 DEF Turn, app, Modules, Configurable, fake_source, Each, Producers, Consumers,
              errored_frame_consumer
<1>3. /\ todo' \in Seq(SUBSET Modules) /\ Apart(todo')
      /\ Pending' \subseteq Pending /\ fake_source \notin Pending'
  <2>1. CASE todo' = Rest(fake_source)
    BY <1>1, <2>1, TurnTakes
  <2>2. CASE todo' = <<>>
    BY <2>2, EmptyList DEF Pending
  <2> QED
    BY <1>1, <2>1, <2>2
<1>4. Progress /\ rc = "INITIAL"
  BY <1>1, <1>2 DEF AppInv, Progress, Reader!ConfigureFails, ReaderConfFails
<1>5. Types'
  BY <1>1, <1>2, <1>3 DEF AppInv, Types
<1>6. Progress' /\ Order'
  BY <1>1, <1>2, <1>3, <1>4 DEF Progress, Order
<1> QED
  BY <1>1, <1>2, <1>5, <1>6 DEF AppInv

-----------------------------------------------------------------------------
LEMMA StepApp == AppInv /\ [Next]_vars => AppInv'
<1> SUFFICES ASSUME AppInv, [Next]_vars PROVE AppInv'
  OBVIOUS
<1>1. CASE \E c \in DOMAIN Commands : Issue(c)
  BY <1>1, IssueKeeps
<1>2. CASE ReaderTurn \/ ReaderConfFails \/ Finish
  BY <1>2, ReaderTurnKeeps, ReaderConfFailsKeeps, FinishKeeps
<1>3. CASE \E m \in Modules : OtherTurn(m)
  BY <1>3, OtherTurnKeeps
<1>4. CASE UNCHANGED vars
  <2>1. UNCHANGED <<NUMBER_OF_DATA_PRODUCERS, FRONTEND_TYPE, rcs, command, todo, failed,
                    configured, running, rc>>
    BY <1>4 DEF vars, app, reader
  <2>2. UNCHANGED <<Modules, Configurable, datahandlers, fake_source, Pending>>
    BY <2>1 DEF Modules, Configurable, datahandlers, fake_source, Each, Producers, Consumers,
                errored_frame_consumer, Pending
  <2>3. Types'
    BY <2>1, <2>2 DEF AppInv, Types
  <2>4. ASSUME rc # "CRASHED" PROVE Progress' /\ Order'
    BY <2>1, <2>2, <2>4 DEF AppInv, Progress, Order, ReaderAt
  <2> QED
    BY <2>1, <2>3, <2>4 DEF AppInv
<1> QED
  BY <1>1, <1>2, <1>3, <1>4 DEF Next

LEMMA Invariance == Spec => []AppInv
  BY InitApp, StepApp, PTL DEF Spec

\* While the source runs, so does the reader of each of its queues.
THEOREM HandlersCorrect == Spec => []SourceHasHandlers
<1>1. AppInv => SourceHasHandlers
  <2> SUFFICES ASSUME AppInv, rc = "RUNNING", NEW q \in Writes(fake_source)
               PROVE  \E m \in running : q \in Reads(m)
    BY DEF SourceHasHandlers
  <2>1. Progress /\ Order
    BY DEF AppInv
  <2>2. datahandlers \subseteq running
    <3>1. datahandlers \subseteq Modules /\ command \in {"init", "conf", "start", "stop", "scrap", "record", "none"}
      BY HandlersAreModules DEF AppInv, Types
    <3>2. command \notin {"init", "conf", "scrap"}
      BY <2>1 DEF Progress, ReaderAt
    <3>3. CASE command \in {"none", "record"}
      BY <2>1, <3>1, <3>3 DEF Progress
    <3>4. CASE command = "start"
      <4>1. fake_source \notin Pending /\ running = Modules \ Pending
        BY <2>1, <3>4 DEF Progress, ReaderAt
      <4>2. datahandlers \cap Pending = {}
        BY <2>1, <3>4, <4>1 DEF Order
      <4> QED
        BY <3>1, <4>1, <4>2
    <3>5. CASE command = "stop"
      BY <2>1, <3>1, <3>5 DEF Progress, ReaderAt, Order
    <3> QED
      BY <3>1, <3>2, <3>3, <3>4, <3>5
  <2>3. PICK idx \in Producers : q = <<"link", idx>>
    BY DEF Writes, fake_source, Each
  <2>4. <<"datahandler", idx>> \in datahandlers /\ q \in Reads(<<"datahandler", idx>>)
    BY <2>3 DEF datahandlers, Each, Reads
  <2> QED
    BY <2>2, <2>4
<1> QED
  BY <1>1, Invariance, PTL

\* Between commands the modules are where the run control takes them to be.
THEOREM AppCorrect == Spec => []AppFollowsRunControl
<1>1. AppInv => AppFollowsRunControl
  BY DEF AppInv, Progress, AppFollowsRunControl
<1> QED
  BY <1>1, Invariance, PTL

-----------------------------------------------------------------------------
(* The reader in the application is the one of CardReader.                 *)

\* What CardReader assumes holds of the application's queues.
LEMMA QueuesAreTargets ==
  /\ PacmanTargets \cup MpdTargets \subseteq Targets /\ MaxRefs \in Nat
  /\ Types => OutputQueues \in ReaderProofs!BoundedSeq(Targets, MaxRefs)
<1>1. PacmanTargets \cup MpdTargets \subseteq Targets
  BY DEF PacmanTargets, MpdTargets
<1>2. MaxRefs \in Nat
  BY MaxProducersAssumption DEF MaxRefs
<1>3. ASSUME Types PROVE OutputQueues \in ReaderProofs!BoundedSeq(Targets, MaxRefs)
  <2> DEFINE n == NUMBER_OF_DATA_PRODUCERS
  <2>1. n \in 0..MaxRefs /\ FRONTEND_TYPE \in FrontendTypes
    BY <1>3, MaxProducersAssumption DEF Types, MaxRefs
  <2>2. \A k \in 1..n : <<FRONTEND_TYPE, k - 1>> \in Targets
    BY <2>1, MaxProducersAssumption DEF Targets, MaxRefs
  <2>3. OutputQueues \in [1..n -> Targets]
    BY <2>2 DEF OutputQueues
  <2> QED
    BY <2>1, <2>3 DEF ReaderProofs!BoundedSeq, ReaderProofs!SeqOf
<1> QED
  BY <1>1, <1>2, <1>3

\* Whatever the application does, its reader does only what a reader may, in
\* the order in which the run control may ask for it.
THEOREM ReaderIsUsedAsMeant == Spec => ReaderProofs!Spec
<1>1. Init => ReaderProofs!Init
  BY DEF Init, Reader!Init, ReaderProofs!Init
<1>2. AppInv /\ [Next]_vars => [ReaderProofs!Next]_(ReaderProofs!vars)
  <2> SUFFICES ASSUME AppInv, [Next]_vars PROVE ReaderProofs!Next \/ UNCHANGED reader
    BY DEF ReaderProofs!vars, reader
  <2>1. CASE \E c \in DOMAIN Commands : Issue(c)
    BY <2>1 DEF Issue
  <2>2. CASE ReaderTurn
    <3>1. CASE ReaderInit
      <4>1. ReaderProofs!InitReader(OutputQueues)
        BY <3>1 DEF ReaderInit, Reader!InitReader, ReaderProofs!InitReader, Reader!Payload,
                    ReaderProofs!Payload, Reader!CreateLink, ReaderProofs!CreateLink,
                    Reader!Last, ReaderProofs!Last
      <4> QED
        BY <4>1, QueuesAreTargets DEF ReaderProofs!Next, AppInv
    <3>2. CASE ReaderConf
      BY <3>2 DEF ReaderConf, Reader!Configure, Reader!Configured, ReaderProofs!Next,
                  ReaderProofs!Configure, ReaderProofs!Configured
    <3>3. CASE ReaderStart \/ ReaderStop \/ ReaderScrap
      BY <3>3 DEF ReaderStart, ReaderStop, ReaderScrap, Reader!Start, Reader!Stop, Reader!Scrap,
                  ReaderProofs!Next, ReaderProofs!Start, ReaderProofs!Stop, ReaderProofs!Scrap
    <3> QED
      BY <2>2, <3>1, <3>2, <3>3 DEF ReaderTurn
  <2>3. CASE ReaderConfFails
    BY <2>3 DEF ReaderConfFails, Reader!ConfigureFails, ReaderProofs!ConfigureFails, ReaderProofs!Next
  <2>4. CASE \E m \in Modules : OtherTurn(m)
    BY <2>4 DEF OtherTurn
  <2>5. CASE Finish \/ UNCHANGED vars
    BY <2>5 DEF Finish, vars
  <2> QED
    BY <2>1, <2>2, <2>3, <2>4, <2>5 DEF Next
<1> QED
  BY <1>1, <1>2, Invariance, PTL DEF Spec, ReaderProofs!Spec

\* The commands name modules there are, only those that take a configuration
\* are given one, and the reader and its link keep their types.
THEOREM TypeCorrect == Spec => []TypeOK
<1>1. AppInv /\ ReaderProofs!TypeOK => TypeOK
  <2> SUFFICES ASSUME AppInv, ReaderProofs!TypeOK PROVE TypeOK
    OBVIOUS
  <2>1. Reader!TypeOK
    BY DEF ReaderProofs!TypeOK, ReaderProofs!Links, Reader!TypeOK, Reader!Links
  <2>2. command \in DOMAIN Commands \cup {"none"}
    BY DEF AppInv, Types, Commands
  <2>3. \A k \in 1..Len(todo) : todo[k] \subseteq Modules
    BY DEF AppInv, Types
  <2> QED
    BY <2>1, <2>2, <2>3 DEF AppInv, Types, TypeOK
<1>2. ReaderProofs!Spec => []ReaderProofs!TypeOK
  BY ReaderProofs!TypeCorrect, QueuesAreTargets, ConfsAssumption
<1> QED
  BY <1>1, <1>2, Invariance, ReaderIsUsedAsMeant, PTL

\* No two modules at work read from or write to a queue that is made for one,
\* however many producers there are, at any time of any command.
THEOREM QueuesAreNotShared == Spec => []OnlyTpRequestsAreShared
<1>1. ASSUME running \subseteq Modules, NEW q \in SPSCQueues \ {<<"tp_data_requests">>}
      PROVE  /\ \E m : {r \in running : q \in Reads(r)} \subseteq {m}
             /\ \E m : {w \in running : q \in Writes(w)} \subseteq {m}
  <2>1. PICK name \in {"data_requests", "link", "sw_tp_queue", "tpset_link"}, idx \in Producers :
          q = <<name, idx>>
    BY DEF SPSCQueues, Each
  <2>2. \A m \in Modules :
          \/ \E n \in {"datahandler", "sw_tp_handler", "tpset_publisher"}, k \in Producers : m = <<n, k>>
          \/ m \in {<<"timesync_consumer">>, <<"fragment_consumer">>, <<"fake_source">>,
                   <<"errored_frame_consumer">>}
    BY DEF Modules, Each, Consumers, fake_source, errored_frame_consumer
  <2>3. \A r \in running : q \in Reads(r) =>
          r = CASE name \in {"link", "data_requests"} -> <<"datahandler", idx>>
                [] name = "sw_tp_queue"               -> <<"sw_tp_handler", idx>>
                [] name = "tpset_link"                -> <<"tpset_publisher", idx>>
    BY <1>1, <2>1, <2>2 DEF Reads
  <2>4. \A w \in running : q \in Writes(w) =>
          w = IF name = "link" THEN fake_source ELSE <<"datahandler", idx>>
    BY <1>1, <2>1, <2>2 DEF Writes, fake_source, Each
  <2> QED
    BY <2>3, <2>4
<1>2. ASSUME NEW S, \E m : S \subseteq {m} PROVE Cardinality(S) <= 1
  <2>1. PICK m : S \subseteq {m}
    BY <1>2
  <2>2. CASE S = {}
    <3>1. Cardinality(S) = 0
      BY <2>2, FS_EmptySet
    <3> QED
      BY <3>1
  <2>3. CASE S = {m}
    <3>1. Cardinality(S) = 1
      BY <2>3, FS_Singleton
    <3> QED
      BY <3>1
  <2> QED
    BY <2>1, <2>2, <2>3
<1>3. AppInv => OnlyTpRequestsAreShared
  BY <1>1, <1>2 DEF AppInv, Types, OnlyTpRequestsAreShared
<1> QED
  BY <1>3, Invariance, PTL
=============================================================================
