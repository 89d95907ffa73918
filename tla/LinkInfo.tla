------------------------------ MODULE LinkInfo ------------------------------
(***************************************************************************)
(* The monitored amount of data.  The parser thread adds the size of every *)
(* payload it pushed to m_packetsizesum; get_info(), on the monitoring     *)
(* thread, reads it for the bandwidth, fills in the other fields and then  *)
(* sets it to 0.  Neither holds a lock and the variable is a plain int: an *)
(* addition is a load and a store, and each may fall on either side of     *)
(* get_info's read and of its reset.                                       *)
(***************************************************************************)
EXTENDS Integers

CONSTANTS
  Sizes,       \* sizes of payloads, in bytes
  INT_MAX,     \* the largest int
  MaxPackets,  \* bound on the payloads of a behaviour
  MaxReports   \* bound on its monitoring periods

ASSUME SizesAssumption == Sizes \subseteq Nat \ {0}
ASSUME IntMaxAssumption == INT_MAX \in Nat
ASSUME BoundsAssumption == MaxPackets \in Nat /\ MaxReports \in Nat

VARIABLES
  m_packetsizesum, m_packetCounter,
  worker,    \* the parser thread: "send", "load", "store" or "count"
  size,      \* msg.size() of the message in its hands
  loaded,    \* what it read of m_packetsizesum
  monitor,   \* the monitoring thread: "idle", or inside get_info before the "reset"
  bytes,     \* the sum get_info has read
  periods,   \* the reports it has made
  reported,  \* history: the sum of what they said
  pushed,    \* history: the bytes pushed to the sink so far
  raced      \* history: an addition has overlapped a get_info

report == <<periods, reported>>
vars   == <<m_packetsizesum, m_packetCounter, worker, size, loaded, monitor, bytes,
            report, pushed, raced>>

\* How many ints there are, and a size_t stored in one.
Ints    == 2 * INT_MAX + 2
Wrap(n) == ((n + INT_MAX + 1) % Ints) - INT_MAX - 1

Init ==
  /\ m_packetsizesum = 0 /\ m_packetCounter = 0
  /\ worker = "send" /\ size = 0 /\ loaded = 0
  /\ monitor = "idle" /\ bytes = 0 /\ periods = 0 /\ reported = 0
  /\ pushed = 0 /\ raced = FALSE

-----------------------------------------------------------------------------
\* The sink takes a payload of some size from the parser thread,
Push(n) ==
  /\ worker = "send" /\ m_packetCounter < MaxPackets
  /\ size' = n /\ pushed' = pushed + n
  /\ worker' = "load"
  /\ UNCHANGED <<m_packetsizesum, m_packetCounter, loaded, monitor, bytes, report, raced>>

\* or its timeout ends first, and the sum is left alone.
PushTimeout ==
  /\ worker = "send" /\ m_packetCounter < MaxPackets
  /\ worker' = "count"
  /\ UNCHANGED <<m_packetsizesum, m_packetCounter, size, loaded, monitor, bytes,
                 report, pushed, raced>>

\* m_packetsizesum += msg.size(), in two steps.
Load ==
  /\ worker = "load"
  /\ loaded' = m_packetsizesum
  /\ worker' = "store"
  /\ UNCHANGED <<m_packetsizesum, m_packetCounter, size, monitor, bytes, report, pushed, raced>>

\* Mutants: the size is left in the sum's place; the sum is as wide as it
\* need be.
StoreSize ==
  /\ worker = "store"
  /\ m_packetsizesum' = Wrap(size)
  /\ raced' = (raced \/ monitor = "reset")
  /\ worker' = "count"
  /\ UNCHANGED <<m_packetCounter, size, loaded, monitor, bytes, report, pushed>>

StoreWide ==
  /\ worker = "store"
  /\ m_packetsizesum' = loaded + size
  /\ raced' = (raced \/ monitor = "reset")
  /\ worker' = "count"
  /\ UNCHANGED <<m_packetCounter, size, loaded, monitor, bytes, report, pushed>>

Store ==
  /\ worker = "store"
  /\ m_packetsizesum' = Wrap(loaded + size)
  /\ raced' = (raced \/ monitor = "reset")
  /\ worker' = "count"
  /\ UNCHANGED <<m_packetCounter, size, loaded, monitor, bytes, report, pushed>>

Count ==
  /\ worker = "count"
  /\ m_packetCounter' = m_packetCounter + 1
  /\ worker' = "send"
  /\ UNCHANGED <<m_packetsizesum, size, loaded, monitor, bytes, report, pushed, raced>>

\* get_info(): the sum is read for the bandwidth,
ReadSum ==
  /\ monitor = "idle" /\ periods < MaxReports
  /\ bytes' = m_packetsizesum
  /\ monitor' = "reset"
  /\ UNCHANGED <<m_packetsizesum, m_packetCounter, worker, size, loaded, report, pushed, raced>>

\* and once the other fields are filled in it is reset and the report made.
Reset ==
  /\ monitor = "reset"
  /\ m_packetsizesum' = 0
  /\ raced' = (raced \/ worker = "store")
  /\ periods' = periods + 1 /\ reported' = reported + bytes
  /\ monitor' = "idle"
  /\ UNCHANGED <<m_packetCounter, worker, size, loaded, bytes, pushed>>

Next ==
  \/ (\E n \in Sizes : Push(n)) \/ PushTimeout \/ Load \/ Store \/ Count
  \/ ReadSum \/ Reset

Spec == Init /\ [][Next]_vars

-----------------------------------------------------------------------------
IntRange == -INT_MAX - 1 .. INT_MAX

TypeOK ==
  /\ m_packetsizesum \in IntRange /\ loaded \in IntRange /\ bytes \in IntRange
  /\ m_packetCounter \in 0..MaxPackets /\ (worker # "send" => m_packetCounter < MaxPackets)
  /\ worker \in {"send", "load", "store", "count"} /\ monitor \in {"idle", "reset"}
  /\ size \in Sizes \cup {0} /\ pushed \in Nat /\ raced \in BOOLEAN
  /\ periods \in 0..MaxReports /\ (monitor = "reset" => periods < MaxReports)
  /\ reported \in Int

\* The bytes of a payload that is in the sink but not yet in the sum, and
\* those in the sum that get_info is about to report and reset.
Unsaved    == IF worker \in {"load", "store"} THEN size ELSE 0
Reported   == reported + (IF monitor = "reset" THEN bytes ELSE 0)
Unreported == IF monitor = "reset" THEN 0 ELSE m_packetsizesum

\* What the books are out by.
Lost == Reported + Unreported + Unsaved - pushed

\* As long as no addition overlapped a get_info, every byte pushed to the
\* sink is in one report or waits for the next, up to the width of the int:
\* a multiple of the number of ints is all that is ever lost.
BytesConservedUnlessRaced ==
  ~raced => Lost % Ints = 0

\* "sum of data across monitoring period": the reports add up to the bytes
\* the link pushed, whichever way the two threads interleave.
BytesConserved ==
  Lost % Ints = 0
=============================================================================
