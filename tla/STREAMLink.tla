----------------------------- MODULE STREAMLink -----------------------------
(***************************************************************************)
(* STREAMLinkModel: the link over a raw TCP (ZMQ_STREAM) socket, which it  *)
(* binds.  The socket gives two messages for each chunk of data, the       *)
(* routing id of the peer and the chunk; the link receives them one after  *)
(* the other and drops the id.  A peer that connects or goes away shows as *)
(* an empty chunk.                                                         *)
(***************************************************************************)
EXTENDS LinkModel

\* Mutants of conf(): a timeout read as unsigned; the flag set before the socket is bound;
\* a timeout that is not stored.
ConfOrder(timeout, flag) ==
  /\ cmd = "idle" /\ ~m_configured
  /\ m_queue_timeout' = timeout
  /\ m_subscriber_connected' = flag
  /\ cmd' = "conf_open"
  /\ UNCHANGED <<m_configured, socket, m_run_marker, worker, mark, counts, network, sink>>

ConfUnsigned(timeout) == ConfOrder(timeout % 65536, FALSE)
ConfFlagFirst(timeout) == ConfOrder(timeout, TRUE)
ConfKeepsTimeout(timeout) == ConfOrder(m_queue_timeout, FALSE)

\* conf(): the timeout and the cleared flag,
Conf(timeout) ==
  /\ cmd = "idle" /\ ~m_configured
  /\ m_queue_timeout' = timeout
  /\ m_subscriber_connected' = FALSE
  /\ cmd' = "conf_open"
  /\ UNCHANGED <<m_configured, socket, m_run_marker, worker, mark, counts, network, sink>>

\* the socket bound to the one address every link has,
Bind ==
  /\ cmd = "conf_open"
  /\ socket' = "open"
  /\ cmd' = "conf_flag"
  /\ UNCHANGED <<m_configured, m_queue_timeout, m_subscriber_connected,
                 m_run_marker, worker, mark, counts, network, sink>>

\* Mutant: the exception is caught and conf goes on.
BindFailureIgnored ==
  /\ cmd = "conf_open"
  /\ cmd' = "conf_flag"
  /\ UNCHANGED <<m_run_marker, worker, mark, config, counts, network, sink>>

\* or an exception out of conf (the address is in use): nothing is undone,
BindFails ==
  /\ cmd = "conf_open"
  /\ cmd' = "idle"
  /\ UNCHANGED <<m_run_marker, worker, mark, config, counts, network, sink>>

\* the flag that lets the thread use the socket,
SetConnected ==
  /\ cmd = "conf_flag"
  /\ m_subscriber_connected' = TRUE
  /\ cmd' = "conf_done"
  /\ UNCHANGED <<m_configured, m_queue_timeout, socket,
                 m_run_marker, worker, mark, counts, network, sink>>

\* and, after the thread's name, the mark that conf must not run again.
ConfDone ==
  /\ cmd = "conf_done"
  /\ m_configured' = TRUE
  /\ cmd' = "idle"
  /\ UNCHANGED <<m_queue_timeout, m_subscriber_connected, socket,
                 m_run_marker, worker, mark, counts, network, sink>>

\* PACMAN cards connect, send, and go away, each of which may leave others.
PeerConnects    == peer' = TRUE /\ Arrive("empty")
PeerSends       == peer /\ peer' = peer /\ Arrive("data")
PeerDisconnects == peer /\ peer' \in BOOLEAN /\ Arrive("empty")

\* The steps a command thread that is inside a command takes next.
CommandStep == Bind \/ BindFails \/ SetConnected \/ ConfDone \/ SetWork \/ StopReturns

Commands == (\E timeout \in Timeouts : Conf(timeout)) \/ Start \/ Stop \/ CommandStep

Next ==
  \/ Commands \/ Worker
  \/ PeerConnects \/ PeerSends \/ PeerDisconnects \/ Pop

Spec == Init /\ [][Next]_vars

\* The two threads run; nothing makes a run control issue a command, a peer
\* send or the consumer pop.
FairSpec == Spec /\ WF_vars(Worker) /\ WF_vars(CommandStep)

\* conf() binds while the thread may already be in its loop, but the two are
\* never on the socket at once, whatever the order of the commands: the flag
\* follows the bind and the thread tests it first.
SocketIsExclusive == cmd = "conf_open" => ~OnSocket

\* A configured link has a bound socket and its flag set, and a conf that
\* failed leaves it as ready for another one as it was.
ConfIsAllOrNothing ==
  /\ m_configured => socket = "open" /\ m_subscriber_connected
  /\ cmd \notin ConfPoints /\ ~m_configured =>
       socket = "closed" /\ ~m_subscriber_connected

\* What makes the two inductive: how far conf() has come shows in the flag,
\* in the socket and in the timeout.
ConfInv ==
  /\ cmd \in ConfPoints => cmd \in {"conf_open", "conf_flag", "conf_done"} /\ ~m_configured
  /\ m_subscriber_connected <=> m_configured \/ cmd = "conf_done"
  /\ socket = "open" <=> m_configured \/ cmd \in {"conf_flag", "conf_done"}
  /\ m_configured \/ cmd \in ConfPoints => m_queue_timeout # Unset
  /\ OnSocket => m_subscriber_connected
=============================================================================
