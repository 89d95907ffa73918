------------------------------ MODULE ZMQLink -------------------------------
(***************************************************************************)
(* ZMQLinkModel: the link over a ZMQ_SUB socket, which it connects to the  *)
(* card and subscribes to everything, once before and once after it lets   *)
(* the parser thread use the socket.  What is published while the          *)
(* subscription is not in place is lost before it reaches the link.        *)
(***************************************************************************)
EXTENDS LinkModel

\* Mutants of conf(): a timeout read as unsigned; the flag set before the socket is ready.
ConfOrder(timeout, flag) ==
  /\ cmd = "idle" /\ ~m_configured
  /\ m_queue_timeout' = timeout
  /\ m_subscriber_connected' = flag
  /\ cmd' = "conf_subscribe"
  /\ UNCHANGED <<m_configured, socket, m_run_marker, worker, mark, counts, network, sink>>

ConfUnsigned(timeout) == ConfOrder(timeout % 65536, FALSE)
ConfFlagFirst(timeout) == ConfOrder(timeout, TRUE)

\* Mutant: conf() of a configured link does all of it again.
ConfAgain(timeout) ==
  /\ cmd = "idle"
  /\ m_queue_timeout' = timeout
  /\ m_subscriber_connected' = FALSE
  /\ cmd' = "conf_subscribe"
  /\ UNCHANGED <<m_configured, socket, m_run_marker, worker, mark, counts, network, sink>>

\* conf(): the timeout and the cleared flag,
Conf(timeout) ==
  /\ cmd = "idle" /\ ~m_configured
  /\ m_queue_timeout' = timeout
  /\ m_subscriber_connected' = FALSE
  /\ cmd' = "conf_subscribe"
  /\ UNCHANGED <<m_configured, socket, m_run_marker, worker, mark, counts, network, sink>>

\* A call on the socket that leaves no trace in the link.
SocketCall(from, to) ==
  /\ cmd = from
  /\ cmd' = to
  /\ UNCHANGED <<m_run_marker, worker, mark, config, counts, network, sink>>

\* the subscription,
Subscribe == SocketCall("conf_subscribe", "conf_open")

\* the connection, which ZeroMQ makes in the background and so cannot fail,
Connect ==
  /\ cmd = "conf_open"
  /\ socket' = "open"
  /\ cmd' = "conf_flag"
  /\ UNCHANGED <<m_configured, m_queue_timeout, m_subscriber_connected,
                 m_run_marker, worker, mark, counts, network, sink>>

\* Mutant: the flag is forgotten.
SetConnectedForgotten == SocketCall("conf_flag", "conf_resubscribe")

\* the flag that lets the thread use the socket,
SetConnected ==
  /\ cmd = "conf_flag"
  /\ m_subscriber_connected' = TRUE
  /\ cmd' = "conf_resubscribe"
  /\ UNCHANGED <<m_configured, m_queue_timeout, socket,
                 m_run_marker, worker, mark, counts, network, sink>>

\* a second subscription, on a socket the thread may use by now,
Resubscribe == SocketCall("conf_resubscribe", "conf_done")

\* and the mark that conf must not run again.
ConfDone ==
  /\ cmd = "conf_done"
  /\ m_configured' = TRUE
  /\ cmd' = "idle"
  /\ UNCHANGED <<m_queue_timeout, m_subscriber_connected, socket,
                 m_run_marker, worker, mark, counts, network, sink>>

\* The publisher's side: the subscription reaches it, it publishes, it goes.
Attach ==
  /\ socket = "open" /\ ~peer
  /\ peer' = TRUE
  /\ UNCHANGED <<config, control, counts, wire, received, sink>>

Publish(carries) == peer /\ peer' = peer /\ Arrive(carries)

Detach ==
  /\ peer
  /\ peer' = FALSE
  /\ UNCHANGED <<config, control, counts, wire, received, sink>>

CommandStep ==
  \/ Subscribe \/ Connect \/ SetConnected \/ Resubscribe \/ ConfDone
  \/ SetWork \/ StopReturns

Network == Attach \/ (\E carries \in Carries : Publish(carries)) \/ Detach \/ Pop

\* Of the order the run control keeps among the commands, only this is used:
\* a start comes in the state that a conf command leads to.
Commands ==
  \/ \E timeout \in Timeouts : Conf(timeout)
  \/ m_configured /\ Start
  \/ Stop
  \/ CommandStep

Next == Commands \/ Worker \/ Network

Spec == Init /\ [][Next]_vars

\* The two threads run; nothing makes anybody else do anything.
FairSpec == Spec /\ WF_vars(Worker) /\ WF_vars(CommandStep)

\* Two threads are never on the socket at once.  Unlike that of the stream
\* link this conf() leans on the run control for it: its second
\* subscription comes after the flag.
SocketIsExclusive ==
  cmd \in {"conf_subscribe", "conf_open", "conf_resubscribe"} => ~OnSocket

\* A configured link is connected, and only conf() opens the socket.
ConfIsAllOrNothing ==
  /\ m_configured => socket = "open" /\ m_subscriber_connected
  /\ cmd \notin ConfPoints /\ ~m_configured =>
       socket = "closed" /\ ~m_subscriber_connected

\* What makes the two inductive: a link that is not configured was not
\* started, and how far conf() has come shows in the flag and the socket.
ConfInv ==
  /\ ~m_configured => ~m_run_marker /\ cmd \in ConfPoints \cup {"idle"}
  /\ cmd \in ConfPoints => ~m_configured
  /\ m_subscriber_connected <=> m_configured \/ cmd \in {"conf_resubscribe", "conf_done"}
  /\ socket = "open" <=> m_configured \/ cmd \in {"conf_flag", "conf_resubscribe", "conf_done"}
=============================================================================
