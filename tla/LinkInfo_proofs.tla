--------------------------- MODULE LinkInfo_proofs --------------------------
(***************************************************************************)
(* What get_info reports, for every width of int, all sizes of payloads    *)
(* and any number of them.                                                 *)
(***************************************************************************)
EXTENDS LinkInfo, TLAPS

USE SizesAssumption, IntMaxAssumption, BoundsAssumption

-----------------------------------------------------------------------------
(* Division.                                                               *)

\* The remainder is what is left of whole multiples.
LEMMA Division ==
  ASSUME NEW a \in Int, NEW m \in Nat \ {0}
  PROVE  a = m * (a \div m) + (a % m) /\ a \div m \in Int /\ a % m \in 0..m - 1
  OBVIOUS

\* A multiple leaves nothing.
LEMMA Multiple ==
  ASSUME NEW k \in Int, NEW m \in Nat \ {0}, NEW a \in Int, a = k * m
  PROVE  a % m = 0
<1> DEFINE d == a \div m
           r == a % m
<1>1. a = m * d + r /\ d \in Int /\ r \in 0..m - 1
  BY Division
<1> HIDE DEF d, r
<1>2. (k - d) * m = r
  BY <1>1
<1>3. \A e \in Int : e * m \in 0..m - 1 => e = 0
  <2> SUFFICES ASSUME NEW e \in Int, e # 0 PROVE ~(e * m \in 0..m - 1)
    OBVIOUS
  <2>1. CASE e >= 1
    <3>1. (e - 1) * m >= 0
      BY <2>1
    <3> QED
      BY <3>1
  <2>2. CASE e <= -1
    <3>1. (-1 - e) * m >= 0
      BY <2>2
    <3> QED
      BY <3>1
  <2> QED
    BY <2>1, <2>2
<1> QED
  BY <1>1, <1>2, <1>3 DEF r

LEMMA IntsType == Ints \in Nat \ {0}
  BY DEF Ints

\* What is stored in an int is an int, and out by a multiple of their number.
LEMMA WrapIsInt ==
  ASSUME NEW n \in Int
  PROVE  /\ Wrap(n) \in IntRange
         /\ \E k \in Int : Wrap(n) = n + k * Ints
<1> DEFINE a == n + INT_MAX + 1
<1>1. a \in Int
  OBVIOUS
<1>2. a = Ints * (a \div Ints) + (a % Ints) /\ a \div Ints \in Int /\ a % Ints \in 0..Ints - 1
  BY <1>1, IntsType, Division
<1>3. Wrap(n) \in IntRange
  BY <1>2 DEF Wrap, Ints, IntRange
<1>4. Wrap(n) = n + (-(a \div Ints)) * Ints
  BY <1>2, IntsType DEF Wrap
<1> QED
  BY <1>2, <1>3, <1>4

-----------------------------------------------------------------------------
(* Types.                                                                  *)

LEMMA InitTypes == Init => TypeOK
<1> SUFFICES ASSUME Init PROVE TypeOK
  OBVIOUS
<1>1. m_packetsizesum \in IntRange /\ loaded \in IntRange /\ bytes \in IntRange
  BY DEF Init, IntRange
<1>2. m_packetCounter \in 0..MaxPackets /\ periods \in 0..MaxReports /\ pushed \in Nat /\ reported \in Int
  BY DEF Init
<1>3. raced \in BOOLEAN
  BY DEF Init
<1> QED
  BY <1>1, <1>2, <1>3 DEF Init, TypeOK

LEMMA StoreTypes == TypeOK /\ Store => TypeOK'
<1> SUFFICES ASSUME TypeOK, Store PROVE TypeOK'
  OBVIOUS
<1>1. loaded + size \in Int
  BY DEF TypeOK, IntRange
<1>2. m_packetsizesum' \in IntRange
  BY <1>1, WrapIsInt DEF Store
<1> QED
  BY <1>2 DEF TypeOK, Store, report

LEMMA StepTypes == TypeOK /\ [Next]_vars => TypeOK'
<1> SUFFICES ASSUME TypeOK, [Next]_vars PROVE TypeOK'
  OBVIOUS
<1> USE DEF TypeOK, IntRange, report
<1>1. CASE \E n \in Sizes : Push(n)
  BY <1>1 DEF Push
<1>2. CASE PushTimeout
  BY <1>2 DEF PushTimeout
<1>3. CASE Load
  BY <1>3 DEF Load
<1>4. CASE Store
  BY <1>4, StoreTypes
<1>5. CASE Count
  BY <1>5 DEF Count
<1>6. CASE ReadSum
  BY <1>6 DEF ReadSum
<1>7. CASE Reset
  BY <1>7 DEF Reset
<1>8. CASE UNCHANGED vars
  BY <1>8 DEF vars
<1> QED
  BY <1>1, <1>2, <1>3, <1>4, <1>5, <1>6, <1>7, <1>8 DEF Next

\* Every variable keeps its type; the sum is always an int.
THEOREM TypeCorrect == Spec => []TypeOK
  BY InitTypes, StepTypes, PTL DEF Spec

-----------------------------------------------------------------------------
(* The books.  As long as nothing overlapped, the thread that adds knows   *)
(* the sum it adds to, and the books are out by whole wraps of the int.    *)

Balanced == \E k \in Int : Lost = k * Ints

BooksInv == ~raced => Balanced /\ (worker = "store" => loaded = m_packetsizesum)

\* A step that leaves the balance alone.
LEMMA SameBalance ==
  ASSUME Balanced, Lost' = Lost
  PROVE  Balanced'
  BY DEF Balanced, Ints

LEMMA StoreBooks == TypeOK /\ BooksInv /\ Store => BooksInv'
<1> SUFFICES ASSUME TypeOK, BooksInv, Store, ~raced' PROVE Balanced'
  BY DEF BooksInv, Store
<1>1. ~raced /\ monitor # "reset" /\ loaded = m_packetsizesum
  BY DEF BooksInv, Store, TypeOK
<1>2. PICK k \in Int : Lost = k * Ints
  BY <1>1 DEF BooksInv, Balanced
<1>3. PICK j \in Int : m_packetsizesum' = (loaded + size) + j * Ints
  <2>1. loaded + size \in Int
    BY DEF TypeOK, IntRange
  <2> QED
    BY <2>1, WrapIsInt DEF Store
<1>4. Lost' = Lost + j * Ints
  BY <1>1, <1>3, IntsType
     DEF Lost, Reported, Unreported, Unsaved, Store, TypeOK, IntRange, report
<1>5. Lost' = (k + j) * Ints
  BY <1>2, <1>4, IntsType
<1> QED
  BY <1>5 DEF Balanced, Ints

LEMMA StepBooks == TypeOK /\ BooksInv /\ [Next]_vars => BooksInv'
<1> SUFFICES ASSUME TypeOK, BooksInv, [Next]_vars PROVE BooksInv'
  OBVIOUS
<1> USE DEF Lost, Reported, Unreported, Unsaved, TypeOK, IntRange, report
<1>1. CASE \E n \in Sizes : Push(n)
  <2>1. Lost' = Lost
    BY <1>1 DEF Push
  <2> QED
    BY <1>1, <2>1, SameBalance DEF BooksInv, Push
<1>2. CASE PushTimeout
  <2>1. Lost' = Lost
    BY <1>2 DEF PushTimeout
  <2> QED
    BY <1>2, <2>1, SameBalance DEF BooksInv, PushTimeout
<1>3. CASE Load
  <2>1. Lost' = Lost
    BY <1>3 DEF Load
  <2> QED
    BY <1>3, <2>1, SameBalance DEF BooksInv, Load
<1>4. CASE Store
  BY <1>4, StoreBooks
<1>5. CASE Count
  <2>1. Lost' = Lost
    BY <1>5 DEF Count
  <2> QED
    BY <1>5, <2>1, SameBalance DEF BooksInv, Count
<1>6. CASE ReadSum
  <2>1. Lost' = Lost
    BY <1>6 DEF ReadSum
  <2> QED
    BY <1>6, <2>1, SameBalance DEF BooksInv, ReadSum
<1>7. CASE Reset
  <2>1. Lost' = Lost
    BY <1>7 DEF Reset
  <2> QED
    BY <1>7, <2>1, SameBalance DEF BooksInv, Reset
<1>8. CASE UNCHANGED vars
  <2>1. Lost' = Lost
    BY <1>8 DEF vars
  <2> QED
    BY <1>8, <2>1, SameBalance DEF BooksInv, vars
<1> QED
  BY <1>1, <1>2, <1>3, <1>4, <1>5, <1>6, <1>7, <1>8 DEF Next

LEMMA InitBooks == Init => BooksInv
<1>1. Init => Lost = 0 * Ints
  BY IntsType DEF Init, Lost, Reported, Unreported, Unsaved
<1> QED
  BY <1>1 DEF Init, BooksInv, Balanced

LEMMA BooksBalance == TypeOK /\ BooksInv => BytesConservedUnlessRaced
<1> SUFFICES ASSUME TypeOK, BooksInv, ~raced PROVE Lost % Ints = 0
  BY DEF BytesConservedUnlessRaced
<1>1. PICK k \in Int : Lost = k * Ints
  BY DEF BooksInv, Balanced
<1>2. Lost \in Int
  BY DEF Lost, Reported, Unreported, Unsaved, TypeOK, IntRange
<1> QED
  BY <1>1, <1>2, IntsType, Multiple

\* As long as no addition overlapped a get_info, the reports add up to the
\* bytes pushed to the sink, modulo the width of an int.
THEOREM BytesCorrect == Spec => []BytesConservedUnlessRaced
  BY InitTypes, InitBooks, StepTypes, StepBooks, BooksBalance, PTL DEF Spec
=============================================================================
