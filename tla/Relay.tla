------------------------------- MODULE Relay -------------------------------
(***************************************************************************)
(* What a link promises, without its threads, its socket and its queue: a  *)
(* relay that, while it is on, takes what is offered to it one item at a   *)
(* time and in order, ignores items with nothing in them, and passes each  *)
(* of the others on once or loses it.  It may be switched off only with    *)
(* empty hands, and what is offered while it is off waits.                 *)
(***************************************************************************)
EXTENDS Naturals, Sequences

VARIABLES
  on,       \* the relay may take and pass on
  offered,  \* every item ever offered
  position, \* how many of them it has taken
  held,     \* the item in its hands, or 0
  passed,   \* the items it passed on, in order
  lost      \* the items it gave up

relayVars == <<on, offered, position, held, passed, lost>>

Init ==
  /\ on = FALSE /\ offered = <<>> /\ position = 0 /\ held = 0
  /\ passed = <<>> /\ lost = {}

TurnOn ==
  /\ ~on /\ on' = TRUE
  /\ UNCHANGED <<offered, position, held, passed, lost>>

TurnOff ==
  /\ on /\ held = 0 /\ on' = FALSE
  /\ UNCHANGED <<offered, position, held, passed, lost>>

Offer(item) ==
  /\ offered' = Append(offered, item)
  /\ UNCHANGED <<on, position, held, passed, lost>>

Take ==
  /\ on /\ held = 0 /\ position < Len(offered)
  /\ position' = position + 1
  /\ held' = IF offered[position + 1] = "empty" THEN 0 ELSE position + 1
  /\ UNCHANGED <<on, offered, passed, lost>>

PassOn ==
  /\ on /\ held # 0
  /\ passed' = Append(passed, held) /\ held' = 0
  /\ UNCHANGED <<on, offered, position, lost>>

Lose ==
  /\ on /\ held # 0
  /\ lost' = lost \cup {held} /\ held' = 0
  /\ UNCHANGED <<on, offered, position, passed>>

Next ==
  \/ TurnOn \/ TurnOff
  \/ \E item \in {"data", "empty"} : Offer(item)
  \/ Take \/ PassOn \/ Lose

Spec == Init /\ [][Next]_relayVars

\* A relay that stays on goes on taking and passing on.
FairSpec == Spec /\ WF_relayVars(Take \/ PassOn \/ Lose)
=============================================================================
