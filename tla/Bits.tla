-------------------------------- MODULE Bits --------------------------------
(***************************************************************************)
(* Words of bits as bitarray and the helpers of larpixtools.py use them,   *)
(* and the keys of chips, which every kind of packet has.                  *)
(***************************************************************************)
EXTENDS Integers, Sequences, FiniteSets

CONSTANTS
  None,  \* Python's None, or an attribute that is not there
  Error  \* what a call that raises an exception gives

ASSUME NoneAssumption == None # Error /\ None \notin Nat

Number(truth) == IF truth THEN 1 ELSE 0

\* touint(bits) and fromuint(value, nbits) for big-endian words.  A value
\* with more bits than asked for gives them all.
touint_big(bits) ==
  LET sum[i \in 0..Len(bits)] == IF i = 0 THEN 0 ELSE 2 * sum[i - 1] + bits[i]
  IN sum[Len(bits)]

\* The binary digits of a value of at most 31.
BitsOf(value) == Cardinality({n \in 0..30 : 2^n <= value})

fromuint_big(value, nbits) ==
  LET n == BitsOf(value)
  IN [i \in 1..(IF n > nbits THEN 0 ELSE nbits - n) |-> 0] \o
     [i \in 1..n |-> Number((value \div 2^(n - i)) % 2 = 1)]

\* The same for little-endian words.  (SequencesExt has this operator; every
\* instance of this module would bring along all the others it has.)
Backwards(bits) == [i \in 1..Len(bits) |-> bits[(Len(bits) - i) + 1]]
touint(bits) == touint_big(Backwards(bits))
fromuint(value, nbits) == Backwards(fromuint_big(value, nbits))

\* bits[slice], and bits[slice] = new, which moves the bits behind the slice
\* when new is longer.
Span(bits, slice) == SubSeq(bits, slice[1] + 1, slice[2])

\* Mutant: the bits behind the slice are lost.
WriteCuts(bits, slice, new) == SubSeq(bits, 1, slice[1]) \o new

Write(bits, slice, new) ==
  SubSeq(bits, 1, slice[1]) \o new \o SubSeq(bits, slice[2] + 1, Len(bits))

Width(slice) == slice[2] - slice[1]

Zeros(n) == [i \in 1..n |-> 0]

\* Key(...) of three numbers, or of a string by the parts between its dashes;
\* str(key) has the numbers for parts.
Key(parts) ==
  IF Len(parts) = 3 /\ \A i \in 1..Len(parts) : parts[i] \in 0..255 THEN parts ELSE Error

\* A dictionary is a sequence of pairs, since the order of entries counts.
get(d, name, default) ==
  IF \E i \in 1..Len(d) : d[i][1] = name
    THEN d[CHOOSE i \in 1..Len(d) : d[i][1] = name][2] ELSE default
=============================================================================
