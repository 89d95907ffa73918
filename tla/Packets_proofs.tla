--------------------------- MODULE Packets_proofs ---------------------------
(***************************************************************************)
(* A packet keeps its types and its kept bits through every call, for all  *)
(* values of the setters that a field can hold, and no field of the packet *)
(* shares a bit with another.  First what the operators on bits do, then   *)
(* the setters of each generation of chips, the dictionaries and the rows  *)
(* that they are written to, and what is read back from them.              *)
(***************************************************************************)
EXTENDS Packets, FiniteSetTheorems, SequenceTheorems, WellFoundedInduction, TLAPS

-----------------------------------------------------------------------------
(* Bits.                                                                   *)

Bit == {0, 1}

\* A value has from no digit to 31.
LEMMA BitsOfType == \A value : BitsOf(value) \in 0..31
<1> SUFFICES ASSUME NEW value PROVE BitsOf(value) \in 0..31
  OBVIOUS
<1> DEFINE S == {n \in 0..30 : 2^n <= value}
<1>1. IsFiniteSet(0..30) /\ Cardinality(0..30) = 31
  <2>1. IsFiniteSet(0..30) /\ Cardinality(0..30) = IF 0 > 30 THEN 0 ELSE 30 - 0 + 1
    <3> HIDE DEF S
    <3>1. 0 \in Int /\ 30 \in Int
      OBVIOUS
    <3> QED
      BY <3>1, FS_Interval
  <2> QED
    BY <2>1
<1>2. S \subseteq 0..30
  OBVIOUS
<1>3. IsFiniteSet(S) /\ Cardinality(S) <= 31
  BY <1>1, <1>2, FS_Subset
<1>4. Cardinality(S) \in Nat
  BY <1>3, FS_CardinalityType
<1> QED
  BY <1>3, <1>4 DEF BitsOf

LEMMA BitsOfNat == \A value : BitsOf(value) \in Nat
  BY BitsOfType

\* fromuint() gives bits, as many as asked for when the value fits.
LEMMA FromuintType ==
  ASSUME NEW value, NEW w \in Nat
  PROVE  /\ fromuint_big(value, w) \in Seq(Bit) /\ fromuint(value, w) \in Seq(Bit)
         /\ Len(fromuint_big(value, w)) = (IF BitsOf(value) > w THEN BitsOf(value) ELSE w)
         /\ Len(fromuint(value, w)) = (IF BitsOf(value) > w THEN BitsOf(value) ELSE w)
<1>1. PICK n \in 0..31 : n = BitsOf(value)
  BY BitsOfType
<1>2. PICK z \in Nat : z = IF n > w THEN 0 ELSE w - n
  OBVIOUS
<1> DEFINE a == [i \in 1..z |-> 0]
           b == [i \in 1..n |-> Number((value \div 2^(n - i)) % 2 = 1)]
<1>3. fromuint_big(value, w) = a \o b
  BY <1>1, <1>2 DEF fromuint_big
<1>4. a \in Seq(Bit) /\ Len(a) = z
  BY DEF Bit
<1>5. b \in Seq(Bit) /\ Len(b) = n
  BY DEF Bit, Number
<1> HIDE DEF a, b
<1>6. a \o b \in Seq(Bit) /\ Len(a \o b) = z + n
  BY <1>4, <1>5
<1>7. z + n = IF n > w THEN n ELSE w
  BY <1>2
<1>8. PICK c \in Seq(Bit) : c = fromuint_big(value, w)
  BY <1>3, <1>6
<1>9. Backwards(c) \in Seq(Bit) /\ Len(Backwards(c)) = Len(c)
  BY DEF Backwards
<1> QED
  BY <1>1, <1>3, <1>6, <1>7, <1>8, <1>9 DEF fromuint

\* A sequence without what is between two places.
Cut(s, a, b, x, y) ==
  /\ x = SubSeq(s, 1, a) /\ y = SubSeq(s, b + 1, Len(s))
  /\ Len(x) = a /\ Len(y) = Len(s) - b
  /\ \A k \in 1..a : x[k] = s[k]
  /\ \A k \in 1..(Len(s) - b) : y[k] = s[b + k]

LEMMA Parts ==
  ASSUME NEW s \in Seq(Bit), NEW a \in Nat, NEW b \in Nat, a <= b, b <= Len(s)
  PROVE  \E x \in Seq(Bit), y \in Seq(Bit) : Cut(s, a, b, x, y)
<1> DEFINE x == SubSeq(s, 1, a)
           y == SubSeq(s, b + 1, Len(s))
<1>1. x \in Seq(Bit) /\ Len(x) = a /\ \A k \in 1..a : x[k] = s[k]
  OBVIOUS
<1>2. y \in Seq(Bit) /\ Len(y) = Len(s) - b
  OBVIOUS
<1>3. \A k \in 1..(Len(s) - b) : y[k] = s[b + k]
  <2> SUFFICES ASSUME NEW k \in 1..(Len(s) - b) PROVE SubSeq(s, b + 1, Len(s))[k] = s[b + k]
    OBVIOUS
  <2>1. (b + 1) + k - 1 = b + k /\ k \in 1..(Len(s) - (b + 1) + 1)
    OBVIOUS
  <2> QED
    BY <2>1
<1>4. x = SubSeq(s, 1, a) /\ y = SubSeq(s, b + 1, Len(s))
  OBVIOUS
<1> HIDE DEF x, y
<1>5. Cut(s, a, b, x, y)
  BY <1>1, <1>2, <1>3, <1>4 DEF Cut
<1> QED
  BY <1>1, <1>2, <1>5

LEMMA Middle ==
  ASSUME NEW s \in Seq(Bit), NEW a \in Nat, NEW b \in Nat, a <= b, b <= Len(s)
  PROVE  /\ SubSeq(s, a + 1, b) \in Seq(Bit) /\ Len(SubSeq(s, a + 1, b)) = b - a
         /\ \A k \in 1..(b - a) : SubSeq(s, a + 1, b)[k] = s[a + k]
<1>1. SubSeq(s, a + 1, b) \in Seq(Bit) /\ Len(SubSeq(s, a + 1, b)) = b - a
  <2>1. \A i \in (a + 1)..b : i \in 1..Len(s)
    OBVIOUS
  <2> QED
    BY <2>1
<1>2. ASSUME NEW k \in 1..(b - a) PROVE SubSeq(s, a + 1, b)[k] = s[a + k]
  <2>1. (a + 1) + k - 1 = a + k /\ k \in 1..(b - (a + 1) + 1)
    OBVIOUS
  <2> QED
    BY <2>1
<1> QED
  BY <1>1, <1>2

\* Three sequences in a row.
LEMMA Joined ==
  ASSUME NEW x \in Seq(Bit), NEW y \in Seq(Bit), NEW z \in Seq(Bit)
  PROVE  /\ x \o y \o z \in Seq(Bit)
         /\ Len(x \o y \o z) = Len(x) + Len(y) + Len(z)
         /\ \A k \in 1..Len(x) : (x \o y \o z)[k] = x[k]
         /\ \A k \in 1..Len(z) : (x \o y \o z)[Len(x) + Len(y) + k] = z[k]
<1>0. x \o y \in Seq(Bit)
  OBVIOUS
<1>1. PICK u \in Seq(Bit) : u = x \o y
  BY <1>0
<1>2. Len(u) = Len(x) + Len(y) /\ \A k \in 1..Len(x) : u[k] = x[k]
  BY <1>1
<1>3. u \o z \in Seq(Bit) /\ Len(u \o z) = Len(u) + Len(z)
  OBVIOUS
<1>4. \A k \in 1..Len(x) : (u \o z)[k] = u[k]
  BY <1>2
<1>5. \A k \in 1..Len(z) : (u \o z)[Len(u) + k] = z[k]
  OBVIOUS
<1> QED
  BY <1>1, <1>2, <1>3, <1>4, <1>5

\* What a slice assignment gives is bits, and shorter by no bit when the new
\* ones fill the slice.
LEMMA WriteType ==
  ASSUME NEW s \in Seq(Bit), NEW slice, NEW new \in Seq(Bit), slice[1] \in Nat, slice[2] \in Nat,
         slice[1] <= slice[2], slice[2] <= Len(s)
  PROVE  /\ Write(s, slice, new) \in Seq(Bit)
         /\ Len(Write(s, slice, new)) = Len(s) - (slice[2] - slice[1]) + Len(new)
<1>1. PICK a \in Nat, b \in Nat : a = slice[1] /\ b = slice[2]
  OBVIOUS
<1>2. a <= b /\ b <= Len(s)
  BY <1>1
<1>3. PICK x \in Seq(Bit), y \in Seq(Bit) : Cut(s, a, b, x, y)
  BY <1>2, Parts
<1>4. Write(s, slice, new) = x \o new \o y
  BY <1>1, <1>3 DEF Write, Cut
<1>5. x \o new \o y \in Seq(Bit) /\ Len(x \o new \o y) = Len(x) + Len(new) + Len(y)
  BY Joined
<1>6. Len(x) + Len(new) + Len(y) = Len(s) - (b - a) + Len(new)
  <2>1. Len(x) = a /\ Len(y) = Len(s) - b /\ Len(s) \in Nat /\ Len(new) \in Nat
    BY <1>3 DEF Cut
  <2> QED
    BY <2>1
<1> QED
  BY <1>1, <1>4, <1>5, <1>6

\* A slice assignment that fills its slice leaves every other slice alone.
LEMMA WriteElsewhere ==
  ASSUME NEW s \in Seq(Bit), NEW slice, NEW new \in Seq(Bit), slice[1] \in Nat, slice[2] \in Nat,
         slice[1] <= slice[2], slice[2] <= Len(s), Len(new) = slice[2] - slice[1],
         NEW other, other[1] \in Nat, other[2] \in Nat, other[1] <= other[2], other[2] <= Len(s),
         other[2] <= slice[1] \/ slice[2] <= other[1]
  PROVE  Span(Write(s, slice, new), other) = Span(s, other)
<1>1. PICK a \in Nat, b \in Nat, c \in Nat, d \in Nat :
        a = slice[1] /\ b = slice[2] /\ c = other[1] /\ d = other[2]
  OBVIOUS
<1>2. a <= b /\ b <= Len(s) /\ Len(new) = b - a /\ c <= d /\ d <= Len(s) /\ (d <= a \/ b <= c)
  BY <1>1
<1>3. PICK x \in Seq(Bit), y \in Seq(Bit) : Cut(s, a, b, x, y)
  BY <1>2, Parts
<1>30. /\ Len(x) = a /\ Len(y) = Len(s) - b /\ Len(s) \in Nat
       /\ \A k \in 1..a : x[k] = s[k]
       /\ \A k \in 1..(Len(s) - b) : y[k] = s[b + k]
  BY <1>3 DEF Cut
<1> DEFINE t == x \o new \o y
<1>4. /\ t \in Seq(Bit) /\ Len(t) = Len(x) + Len(new) + Len(y)
      /\ \A k \in 1..Len(x) : t[k] = x[k]
      /\ \A k \in 1..Len(y) : t[Len(x) + Len(new) + k] = y[k]
  BY Joined
<1>8. Write(s, slice, new) = t
  BY <1>1, <1>3, ZenonT(40) DEF Write, Cut
<1> HIDE DEF t
<1>5. Len(t) = Len(s) /\ Len(x) + Len(new) = b
  <2>1. Len(x) + Len(new) = b
    <3>1. Len(x) = a /\ Len(new) = b - a
      BY <1>2, <1>30
    <3>2. a + (b - a) = b
      OBVIOUS
    <3> QED
      BY <3>1, <3>2
  <2>2. Len(t) = b + Len(y)
    BY <2>1, <1>4
  <2>3. b + (Len(s) - b) = Len(s)
    BY <1>30
  <2> QED
    BY <2>1, <2>2, <2>3, <1>30
<1>6. \A k \in (c + 1)..d : t[k] = s[k]
  <2> SUFFICES ASSUME NEW k \in (c + 1)..d PROVE t[k] = s[k]
    OBVIOUS
  <2>1. CASE d <= a
    <3>1. k \in 1..a
      BY <2>1
    <3> QED
      BY <3>1, <1>30, <1>4
  <2>2. CASE b <= c
    <3>1. PICK j \in 1..(Len(s) - b) : k = b + j
      <4>1. k - b \in 1..(Len(s) - b) /\ k = b + (k - b)
        BY <2>2, <1>2
      <4> QED
        BY <4>1
    <3>2. t[k] = y[j]
      BY <3>1, <1>30, <1>4, <1>5
    <3> QED
      BY <3>1, <3>2, <1>30
  <2> QED
    BY <1>2, <2>1, <2>2
<1>7. SubSeq(t, c + 1, d) = SubSeq(s, c + 1, d)
  <2>1. PICK u \in Seq(Bit), v \in Seq(Bit) :
          u = SubSeq(t, c + 1, d) /\ v = SubSeq(s, c + 1, d)
    BY <1>2, <1>4, <1>5, Middle
  <2>2. Len(u) = d - c /\ \A k \in 1..(d - c) : u[k] = t[c + k]
    <3>1. t \in Seq(Bit) /\ c <= d /\ d <= Len(t)
      BY <1>2, <1>4, <1>5
    <3> QED
      BY <2>1, <3>1, Middle
  <2>3. Len(v) = d - c /\ \A k \in 1..(d - c) : v[k] = s[c + k]
    BY <2>1, <1>2, Middle
  <2>4. \A k \in 1..(d - c) : c + k \in (c + 1)..d
    OBVIOUS
  <2>5. \A k \in 1..(d - c) : u[k] = v[k]
    BY <2>2, <2>3, <2>4, <1>6
  <2>6. DOMAIN u = 1..(d - c) /\ DOMAIN v = 1..(d - c)
    BY <2>2, <2>3
  <2>7. u = [k \in DOMAIN u |-> u[k]] /\ v = [k \in DOMAIN v |-> v[k]]
    OBVIOUS
  <2>8. u = v
    BY <2>5, <2>6, <2>7
  <2> QED
    BY <2>1, <2>8
<1> QED
  BY <1>1, <1>7, <1>8 DEF Span
-----------------------------------------------------------------------------
(* Induction, as a fact about sets of naturals: each has a least.          *)

Smaller == {p \in Nat \X Nat : p[1] < p[2]}

LEMMA Least ==
  ASSUME NEW T, T \subseteq Nat, T # {}
  PROVE  \E n \in T : \A m \in T : n <= m
<1>1. OpToRel(<, Nat) = Smaller
  BY DEF OpToRel, Smaller
<1>2. IsWellFoundedOn(Smaller, Nat)
  BY <1>1, NatLessThanWellFounded
<1>3. PICK n \in T : \A m \in T : <<m, n>> \notin Smaller
  BY <1>2, WFMin
<1>4. ASSUME NEW m \in T PROVE n <= m
  <2>1. <<m, n>> \in Nat \X Nat /\ <<m, n>>[1] = m /\ <<m, n>>[2] = n
    OBVIOUS
  <2> QED
    BY <1>3, <2>1 DEF Smaller
<1> QED
  BY <1>4

LEMMA Induction ==
  ASSUME NEW T, 0 \in T, \A n \in Nat : n \in T => n + 1 \in T
  PROVE  \A n \in Nat : n \in T
<1> SUFFICES ASSUME Nat \ T # {} PROVE FALSE
  OBVIOUS
<1>1. PICK n \in Nat \ T : \A m \in Nat \ T : n <= m
  BY Least
<1>2. n # 0 /\ n - 1 \in Nat /\ ~(n <= n - 1) /\ (n - 1) + 1 = n
  BY <1>1
<1> QED
  BY <1>1, <1>2

\* The value of bits is a number.
LEMMA TouintRuns ==
  ASSUME NEW s, Len(s) \in Nat
  PROVE  \E f : /\ f[0] = 0
                /\ \A i \in 1..Len(s) : f[i] = 2 * f[i - 1] + s[i]
                /\ touint_big(s) = f[Len(s)]
<1> DEFINE Run(f, n) == f = [i \in 0..n |-> IF i = 0 THEN 0 ELSE 2 * f[i - 1] + s[i]]
           T == {n \in Nat : \E f : Run(f, n)}
<1>1. 0 \in T
  <2>1. Run([i \in 0..0 |-> 0], 0)
    OBVIOUS
  <2> QED
    BY <2>1
<1>2. ASSUME NEW n \in Nat, n \in T PROVE n + 1 \in T
  <2>1. PICK f : Run(f, n)
    BY <1>2
  <2> DEFINE last == 2 * f[n] + s[n + 1]
             g == [i \in 0..n + 1 |-> IF i = n + 1 THEN last ELSE f[i]]
  <2>2. ASSUME NEW i \in 0..n + 1
        PROVE  g[i] = IF i = 0 THEN 0 ELSE 2 * g[i - 1] + s[i]
    <3>1. CASE i = n + 1
      <4>1. g[i] = last /\ i # 0 /\ i - 1 = n /\ g[n] = f[n]
        BY <3>1
      <4> QED
        BY <3>1, <4>1 DEF last
    <3>2. CASE i # n + 1
      <4>1. i \in 0..n /\ g[i] = f[i] /\ (i # 0 => g[i - 1] = f[i - 1])
        BY <3>2
      <4> QED
        BY <2>1, <4>1
    <3> QED
      BY <3>1, <3>2
  <2>3. Run(g, n + 1)
    <3>1. g = [i \in 0..n + 1 |-> g[i]]
      OBVIOUS
    <3> HIDE DEF g
    <3> QED
      BY <2>2, <3>1
  <2> HIDE DEF Run, g
  <2> QED
    BY <2>3
<1>3. PICK h : Run(h, Len(s))
  <2> HIDE DEF T
  <2>1. \A n \in Nat : n \in T
    BY <1>1, <1>2, Induction
  <2> QED
    BY <2>1 DEF T
<1> DEFINE f == CHOOSE g : Run(g, Len(s))
<1>4. Run(f, Len(s))
  BY <1>3
<1>5. touint_big(s) = f[Len(s)]
  BY DEF touint_big
<1> HIDE DEF f
<1>6. f[0] = 0 /\ \A i \in 1..Len(s) : f[i] = 2 * f[i - 1] + s[i]
  BY <1>4
<1> QED
  BY <1>5, <1>6

LEMMA TouintType ==
  ASSUME NEW s \in Seq(Bit) PROVE touint_big(s) \in Nat
<1>1. Len(s) \in Nat /\ \A i \in 1..Len(s) : s[i] \in Nat
  BY DEF Bit
<1>2. PICK f : /\ f[0] = 0
               /\ \A i \in 1..Len(s) : f[i] = 2 * f[i - 1] + s[i]
               /\ touint_big(s) = f[Len(s)]
  BY <1>1, TouintRuns
<1> DEFINE T == {n \in Nat : n <= Len(s) => f[n] \in Nat}
<1>3. 0 \in T
  BY <1>2
<1>4. ASSUME NEW n \in Nat, n \in T PROVE n + 1 \in T
  <2> SUFFICES ASSUME n + 1 <= Len(s) PROVE f[n + 1] \in Nat
    OBVIOUS
  <2>1. n + 1 \in 1..Len(s) /\ (n + 1) - 1 = n /\ f[n] \in Nat
    BY <1>1, <1>4
  <2>2. f[n + 1] = 2 * f[n] + s[n + 1]
    BY <1>2, <2>1
  <2> QED
    BY <1>1, <2>1, <2>2
<1> HIDE DEF T
<1>5. \A n \in Nat : n \in T
  BY <1>3, <1>4, Induction
<1> QED
  BY <1>1, <1>2, <1>5 DEF T

-----------------------------------------------------------------------------
(* Packet_v1.                                                              *)

\* The operators on bits are the same in the module of each kind of packet.
LEMMA SameBits1 ==
  /\ \A v, w : V1!fromuint_big(v, w) = fromuint_big(v, w)
  /\ \A s : V1!touint_big(s) = touint_big(s)
  /\ \A s, slice : V1!Span(s, slice) = Span(s, slice)
  /\ \A s, slice, new : V1!Write(s, slice, new) = Write(s, slice, new)
  /\ \A slice : V1!Width(slice) = Width(slice)
  /\ \A k : V1!Key(k) = Key(k)
<1>1. \A t : V1!Number(t) = Number(t)
  BY DEF V1!Number, Number
<1>2. \A v : V1!BitsOf(v) = BitsOf(v)
  BY DEF V1!BitsOf, BitsOf, V1!Cardinality, Cardinality
<1>3. \A v, w : V1!fromuint_big(v, w) = fromuint_big(v, w)
  BY <1>1, <1>2 DEF V1!fromuint_big, fromuint_big
<1>4. \A s : V1!touint_big(s) = touint_big(s)
  BY DEF V1!touint_big, touint_big
<1>5. \A s, slice : V1!Span(s, slice) = Span(s, slice)
  BY DEF V1!Span, Span
<1>6. \A s, slice, new : V1!Write(s, slice, new) = Write(s, slice, new)
  BY DEF V1!Write, Write
<1>7. \A slice : V1!Width(slice) = Width(slice)
  BY DEF V1!Width, Width
<1>8. \A k : V1!Key(k) = Key(k)
  BY DEF V1!Key, Key
<1> QED
  BY <1>3, <1>4, <1>5, <1>6, <1>7, <1>8

Io == Nat \cup {None}

Names1 == {"type", "chipid", "channel", "timestamp", "adc_counts", "fifo_half", "fifo_full",
           "parity", "register", "value"}
Halves1 == {"counter_15_12", "counter_11_0"}

\* A word of the first generation.
Word1(p) ==
  /\ DOMAIN p = {"kind", "bits", "key", "io_group", "io_channel", "direction"}
  /\ p.kind = "v1" /\ p.bits \in Seq(Bit) /\ Len(p.bits) >= 54
  /\ p.io_group \in Io /\ p.io_channel \in Io

\* A key that is kept is the one of now, and Key() took it.
IsKey(key, id, p) ==
  /\ p.io_group # None /\ p.io_channel # None
  /\ key = <<p.io_group, p.io_channel, id>> /\ Key(key) # Error

Kept1(p) == p.key # None => IsKey(p.key, V1!Get(p, "chipid"), p)

LEMMA Slices1 ==
  ASSUME NEW name \in Names1 \cup Halves1
  PROVE  /\ V1!Slice[name][1] \in Nat /\ V1!Slice[name][2] \in Nat
         /\ V1!Slice[name][1] < V1!Slice[name][2] /\ V1!Slice[name][2] <= 54
         /\ Width(V1!Slice[name]) \in Nat
         /\ Width(V1!Slice[name]) = V1!Slice[name][2] - V1!Slice[name][1]
  BY DEF Names1, Halves1, V1!Slice, Width

\* Where a field is.
Places1(name) ==
  IF name = "counter" THEN {V1!Slice[half] : half \in Halves1} ELSE {V1!Slice[name]}

Apart(a, b) == a[2] <= b[1] \/ b[2] <= a[1]

LEMMA PlacesType1 ==
  ASSUME NEW name \in Names1 \cup {"counter"}, NEW slice \in Places1(name)
  PROVE  slice[1] \in Nat /\ slice[2] \in Nat /\ slice[1] < slice[2] /\ slice[2] <= 54
  BY Slices1 DEF Places1, Names1, Halves1

\* Writing one slice, of any number of bits that is enough.
LEMMA WriteWord ==
  ASSUME NEW s \in Seq(Bit), NEW size \in Nat, Len(s) >= size,
         NEW slice, slice[1] \in Nat, slice[2] \in Nat, slice[1] < slice[2], slice[2] <= size,
         NEW new \in Seq(Bit), Len(new) >= slice[2] - slice[1]
  PROVE  Write(s, slice, new) \in Seq(Bit) /\ Len(Write(s, slice, new)) >= size
<1>1. /\ Write(s, slice, new) \in Seq(Bit)
      /\ Len(Write(s, slice, new)) = Len(s) - (slice[2] - slice[1]) + Len(new)
  BY WriteType
<1>2. Len(s) \in Nat /\ Len(new) \in Nat
  OBVIOUS
<1> QED
  BY <1>1, <1>2

LEMMA CounterBits ==
  ASSUME NEW value
  PROVE  LET all == fromuint_big(value, 16)
             high == SubSeq(all, 1, 4)
             low  == SubSeq(all, 5, Len(all))
         IN /\ high \in Seq(Bit) /\ Len(high) = 4
            /\ low \in Seq(Bit) /\ Len(low) >= 12
            /\ BitsOf(value) <= 16 => Len(low) = 12
<1>1. PICK all \in Seq(Bit) : all = fromuint_big(value, 16)
  BY FromuintType
<1>2. BitsOf(value) \in Nat
  BY BitsOfNat
<1>3. Len(all) \in Nat /\ Len(all) >= 16 /\ (BitsOf(value) <= 16 => Len(all) = 16)
  <2>1. Len(all) = (IF BitsOf(value) > 16 THEN BitsOf(value) ELSE 16)
    BY <1>1, FromuintType
  <2> QED
    BY <1>2, <2>1
<1>4. SubSeq(all, 1, 4) \in Seq(Bit) /\ Len(SubSeq(all, 1, 4)) = 4
  <2>1. SubSeq(all, 0 + 1, 4) \in Seq(Bit) /\ Len(SubSeq(all, 0 + 1, 4)) = 4 - 0
    BY <1>3, Middle
  <2> QED
    BY <2>1
<1>5. SubSeq(all, 5, Len(all)) \in Seq(Bit) /\ Len(SubSeq(all, 5, Len(all))) = Len(all) - 4
  <2>1. /\ SubSeq(all, 4 + 1, Len(all)) \in Seq(Bit)
        /\ Len(SubSeq(all, 4 + 1, Len(all))) = Len(all) - 4
    BY <1>3, Middle
  <2> QED
    BY <2>1
<1> QED
  BY <1>1, <1>3, <1>4, <1>5

\* Setting a field of a word gives a word.
LEMMA SetBits1 ==
  ASSUME NEW p, Word1(p), NEW name \in Names1 \cup {"counter"}, NEW value
  PROVE  LET q == V1!SetBits(p, name, value)
         IN Word1(q) /\ q.key = p.key /\ q.io_group = p.io_group /\ q.io_channel = p.io_channel
<1>1. ASSUME NEW b, b \in Seq(Bit), Len(b) >= 54, NEW q, q = [p EXCEPT !.bits = b]
      PROVE  Word1(q) /\ q.key = p.key /\ q.io_group = p.io_group /\ q.io_channel = p.io_channel
  BY <1>1 DEF Word1
<1>2. CASE name # "counter"
  <2> DEFINE slice == V1!Slice[name]
             new == fromuint_big(value, V1!FieldWidth(name))
  <2>1. slice[1] \in Nat /\ slice[2] \in Nat /\ slice[1] < slice[2] /\ slice[2] <= 54
    BY <1>2, Slices1
  <2>2. V1!FieldWidth(name) = slice[2] - slice[1] /\ V1!FieldWidth(name) \in Nat
    BY <1>2, Slices1, SameBits1 DEF V1!FieldWidth
  <2>3. new \in Seq(Bit) /\ Len(new) >= slice[2] - slice[1]
    <3>1. BitsOf(value) \in Nat
      BY BitsOfNat
    <3> QED
      BY <2>2, <3>1, FromuintType
  <2>4. V1!SetBits(p, name, value) = [p EXCEPT !.bits = Write(p.bits, slice, new)]
    BY <1>2, SameBits1 DEF V1!SetBits, Word1
  <2> HIDE DEF slice, new
  <2>5. Write(p.bits, slice, new) \in Seq(Bit) /\ Len(Write(p.bits, slice, new)) >= 54
    BY <2>1, <2>3, WriteWord DEF Word1
  <2> QED
    BY <1>1, <2>4, <2>5
<1>3. CASE name = "counter"
  <2> DEFINE all == fromuint_big(value, 16)
             high == SubSeq(all, 1, 4)
             low  == SubSeq(all, 5, Len(all))
             a == V1!Slice["counter_15_12"]
             b == V1!Slice["counter_11_0"]
             once == Write(p.bits, a, high)
             twice == Write(once, b, low)
  <2>1. high \in Seq(Bit) /\ Len(high) = 4 /\ low \in Seq(Bit) /\ Len(low) >= 12
    BY CounterBits
  <2>2. /\ a[1] = 40 /\ a[2] = 44 /\ b[1] = 1 /\ b[2] = 13
    BY DEF V1!Slice
  <2>20. 54 \in Nat /\ 40 \in Nat /\ 44 \in Nat /\ 1 \in Nat /\ 13 \in Nat
    OBVIOUS
  <2>21. Len(high) >= a[2] - a[1] /\ Len(low) >= b[2] - b[1]
    BY <2>1, <2>2
  <2>22. a[1] < a[2] /\ a[2] <= 54 /\ b[1] < b[2] /\ b[2] <= 54
    BY <2>2
  <2>23. a[1] \in Nat /\ a[2] \in Nat /\ b[1] \in Nat /\ b[2] \in Nat
    BY <2>2
  <2>3. V1!SetBits(p, name, value) = [p EXCEPT !.bits = twice]
    BY <1>3, SameBits1 DEF V1!SetBits, V1!FieldWidth, Word1
  <2> HIDE DEF high, low, a, b
  <2>4. once \in Seq(Bit) /\ Len(once) >= 54
    BY <2>1, <2>20, <2>21, <2>22, <2>23, WriteWord DEF Word1
  <2> HIDE DEF once
  <2>5. twice \in Seq(Bit) /\ Len(twice) >= 54
    BY <2>1, <2>20, <2>21, <2>22, <2>23, <2>4, WriteWord
  <2> QED
    BY <1>1, <2>3, <2>5
<1> QED
  BY <1>2, <1>3

\* Setting a field to a value that fits leaves every other place alone.
LEMMA SetBitsElsewhere1 ==
  ASSUME NEW p, Word1(p), NEW name \in Names1 \cup {"counter"}, NEW value,
         BitsOf(value) <= V1!FieldWidth(name),
         NEW other, other[1] \in Nat, other[2] \in Nat, other[1] < other[2], other[2] <= 54,
         \A slice \in Places1(name) : Apart(slice, other)
  PROVE  Span(V1!SetBits(p, name, value).bits, other) = Span(p.bits, other)
<1>0. p.bits \in Seq(Bit) /\ Len(p.bits) >= 54 /\ Len(p.bits) \in Nat
  BY DEF Word1
<1>1. ASSUME NEW b, NEW q, q = [p EXCEPT !.bits = b] PROVE q.bits = b
  BY <1>1 DEF Word1
<1>2. ASSUME NEW s \in Seq(Bit), Len(s) >= 54, NEW new \in Seq(Bit),
             NEW slice \in Places1(name), Len(new) = slice[2] - slice[1]
      PROVE  /\ Span(Write(s, slice, new), other) = Span(s, other)
             /\ Write(s, slice, new) \in Seq(Bit) /\ Len(Write(s, slice, new)) >= 54
  <2>1. slice[1] \in Nat /\ slice[2] \in Nat /\ slice[1] < slice[2] /\ slice[2] <= 54
    BY PlacesType1
  <2>2. other[2] <= slice[1] \/ slice[2] <= other[1]
    BY DEF Apart
  <2>3. slice[1] <= slice[2] /\ slice[2] <= Len(s) /\ other[1] <= other[2] /\ other[2] <= Len(s)
    <3>1. Len(s) \in Nat
      OBVIOUS
    <3> QED
      BY <1>2, <2>1, <3>1
  <2>4. Span(Write(s, slice, new), other) = Span(s, other)
    BY <1>2, <2>1, <2>2, <2>3, WriteElsewhere
  <2>5. Write(s, slice, new) \in Seq(Bit) /\ Len(Write(s, slice, new)) >= 54
    <3>1. Len(new) >= slice[2] - slice[1]
      BY <1>2, <2>1
    <3> QED
      BY <1>2, <2>1, <3>1, WriteWord
  <2> QED
    BY <2>4, <2>5
<1>3. CASE name # "counter"
  <2> DEFINE slice == V1!Slice[name]
             new == fromuint_big(value, V1!FieldWidth(name))
  <2>1. V1!FieldWidth(name) = slice[2] - slice[1] /\ V1!FieldWidth(name) \in Nat
    BY <1>3, Slices1, SameBits1 DEF V1!FieldWidth
  <2>2. new \in Seq(Bit) /\ Len(new) = slice[2] - slice[1]
    BY <2>1, BitsOfNat, FromuintType
  <2>3. V1!SetBits(p, name, value) = [p EXCEPT !.bits = Write(p.bits, slice, new)]
    BY <1>3, SameBits1 DEF V1!SetBits, Word1
  <2>4. slice \in Places1(name)
    BY <1>3 DEF Places1
  <2> HIDE DEF slice, new
  <2>5. Span(Write(p.bits, slice, new), other) = Span(p.bits, other)
    BY <1>0, <1>2, <2>2, <2>4
  <2> QED
    BY <1>1, <2>3, <2>5
<1>4. CASE name = "counter"
  <2> DEFINE all == fromuint_big(value, 16)
             high == SubSeq(all, 1, 4)
             low  == SubSeq(all, 5, Len(all))
             a == V1!Slice["counter_15_12"]
             b == V1!Slice["counter_11_0"]
             once == Write(p.bits, a, high)
             twice == Write(once, b, low)
  <2>1. high \in Seq(Bit) /\ Len(high) = 4 /\ low \in Seq(Bit) /\ Len(low) = 12
    BY <1>4, CounterBits DEF V1!FieldWidth
  <2>2. /\ a[1] = 40 /\ a[2] = 44 /\ b[1] = 1 /\ b[2] = 13
    BY DEF V1!Slice
  <2>3. V1!SetBits(p, name, value) = [p EXCEPT !.bits = twice]
    BY <1>4, SameBits1 DEF V1!SetBits, V1!FieldWidth, Word1
  <2>4. a \in Places1(name) /\ b \in Places1(name)
    BY <1>4 DEF Places1, Halves1
  <2> HIDE DEF high, low, a, b
  <2>5. Len(high) = a[2] - a[1] /\ Len(low) = b[2] - b[1]
    BY <2>1, <2>2
  <2>6. Span(once, other) = Span(p.bits, other) /\ once \in Seq(Bit) /\ Len(once) >= 54
    BY <1>0, <1>2, <2>1, <2>4, <2>5
  <2> HIDE DEF once
  <2>7. Span(twice, other) = Span(once, other)
    BY <1>2, <2>1, <2>4, <2>5, <2>6
  <2> QED
    BY <1>1, <2>3, <2>6, <2>7
<1> QED
  BY <1>3, <1>4

\* A field is read from its places.
LEMMA GetFrom1 ==
  ASSUME NEW p, NEW q, NEW name \in Names1 \cup {"counter"},
         \A slice \in Places1(name) : Span(p.bits, slice) = Span(q.bits, slice)
  PROVE  V1!Get(p, name) = V1!Get(q, name)
<1>1. CASE name = "counter"
  <2>1. \A half \in Halves1 : Span(p.bits, V1!Slice[half]) = Span(q.bits, V1!Slice[half])
    BY <1>1 DEF Places1
  <2>2. /\ Span(p.bits, V1!Slice["counter_15_12"]) = Span(q.bits, V1!Slice["counter_15_12"])
        /\ Span(p.bits, V1!Slice["counter_11_0"]) = Span(q.bits, V1!Slice["counter_11_0"])
    BY <2>1 DEF Halves1
  <2> QED
    BY <1>1, <2>2, SameBits1 DEF V1!Get
<1>2. CASE name # "counter"
  <2>1. Span(p.bits, V1!Slice[name]) = Span(q.bits, V1!Slice[name])
    BY <1>2 DEF Places1
  <2> QED
    BY <1>2, <2>1, SameBits1 DEF V1!Get
<1> QED
  BY <1>1, <1>2

LEMMA SetElsewhere1 ==
  ASSUME NEW p, Word1(p), NEW name \in Names1 \cup {"counter"}, NEW value,
         BitsOf(value) <= V1!FieldWidth(name), NEW other \in Names1 \cup {"counter"},
         \A a \in Places1(name), b \in Places1(other) : Apart(a, b)
  PROVE  V1!Get(V1!SetBits(p, name, value), other) = V1!Get(p, other)
<1>1. \A b \in Places1(other) : Span(V1!SetBits(p, name, value).bits, b) = Span(p.bits, b)
  BY PlacesType1, SetBitsElsewhere1
<1> QED
  BY <1>1, GetFrom1

\* A word with nothing kept.
Fresh1(p) == Word1(p) /\ p.key = None

\* What may be assigned to a word without making it none.
Entry1(name, value) ==
  /\ name \in Names1 \cup {"counter", "valid_parity", "chip_key", "io_group", "io_channel", "bits", "direction"}
  /\ name = "bits" => value \in Seq(Bit) /\ Len(value) >= 54
  /\ name = "type" => value \in Nat
  /\ name \in {"io_group", "io_channel"} => value \in Io
  /\ name = "chip_key" => value = None \/ (value[1] \in Io /\ value[2] \in Io)

LEMMA SetChipId1 ==
  ASSUME NEW p, Word1(p), NEW value
  PROVE  LET q == V1!SetChipId(p, value)
         IN Fresh1(q) /\ q.io_group = p.io_group /\ q.io_channel = p.io_channel
<1>1. PICK q : q = [p EXCEPT !.key = None]
  OBVIOUS
<1>2. Word1(q) /\ q.key = None /\ q.io_group = p.io_group /\ q.io_channel = p.io_channel
  BY <1>1 DEF Word1
<1>3. "chipid" \in Names1
  BY DEF Names1
<1>4. PICK r : r = V1!SetBits(q, "chipid", value)
  OBVIOUS
<1>5. Word1(r) /\ r.key = q.key /\ r.io_group = q.io_group /\ r.io_channel = q.io_channel
  BY <1>2, <1>3, <1>4, SetBits1
<1>6. V1!SetChipId(p, value) = r
  BY <1>1, <1>4 DEF V1!SetChipId
<1> QED
  BY <1>2, <1>5, <1>6 DEF Fresh1

LEMMA SetIo1 ==
  ASSUME NEW p, Word1(p), NEW name \in {"io_group", "io_channel"}, NEW value \in Io
  PROVE  Fresh1(V1!SetIo(p, name, value)) /\ V1!SetIo(p, name, value).bits = p.bits
<1>1. PICK q : q = V1!SetIo(p, name, value)
  OBVIOUS
<1>2. q = [[p EXCEPT !.key = None] EXCEPT ![name] = value]
  BY <1>1 DEF V1!SetIo
<1>3. Fresh1(q) /\ q.bits = p.bits
  BY <1>2 DEF Fresh1, Word1
<1> QED
  BY <1>1, <1>3

LEMMA SetChipKey1 ==
  ASSUME NEW p, Word1(p), NEW key, key = None \/ (key[1] \in Io /\ key[2] \in Io)
  PROVE  Fresh1(V1!SetChipKey(p, key))
<1>1. PICK q : q = [p EXCEPT !.key = None, !.io_group = None, !.io_channel = None]
  OBVIOUS
<1>2. Word1(q) /\ q.key = None
  BY <1>1 DEF Word1, Io
<1>3. CASE key = None
  BY <1>1, <1>2, <1>3 DEF V1!SetChipKey, Fresh1
<1>4. CASE key # None
  <2>1. PICK r : r = [q EXCEPT !.io_group = key[1], !.io_channel = key[2]]
    OBVIOUS
  <2>2. Word1(r)
    BY <1>2, <1>4, <2>1 DEF Word1
  <2>3. V1!SetChipKey(p, key) = V1!SetChipId(r, key[3])
    BY <1>1, <1>4, <2>1 DEF V1!SetChipKey
  <2> QED
    BY <2>2, <2>3, SetChipId1
<1> QED
  BY <1>3, <1>4

\* An assignment to a word with nothing kept keeps nothing.
LEMMA SetFresh1 ==
  ASSUME NEW p, Fresh1(p), NEW name, NEW value, Entry1(name, value)
  PROVE  Fresh1(V1!Set(p, name, value))
<1>0. Word1(p) /\ p.key = None
  BY DEF Fresh1
<1>1. CASE name = "valid_parity"
  BY <1>1 DEF V1!Set
<1>2. CASE name = "chip_key"
  BY <1>0, <1>2, SetChipKey1 DEF V1!Set, Entry1
<1>3. CASE name \in {"io_group", "io_channel"}
  BY <1>0, <1>3, SetIo1 DEF V1!Set, Entry1
<1>4. CASE name = "bits"
  <2>1. V1!Set(p, name, value) = [p EXCEPT !.bits = value]
    BY <1>4 DEF V1!Set
  <2> QED
    BY <1>0, <1>4, <2>1 DEF Entry1, Fresh1, Word1
<1>5. CASE name = "direction"
  <2>1. V1!Set(p, name, value) = [p EXCEPT !.direction = value]
    BY <1>5 DEF V1!Set
  <2> QED
    BY <1>0, <2>1 DEF Fresh1, Word1
<1>6. CASE name = "chipid"
  BY <1>0, <1>6, SetChipId1 DEF V1!Set
<1>7. CASE name \in (Names1 \cup {"counter"}) \ {"chipid"}
  <2>1. V1!Set(p, name, value) = V1!SetBits(p, name, value)
    BY <1>7 DEF V1!Set, Names1
  <2> QED
    BY <1>0, <1>7, <2>1, SetBits1 DEF Fresh1
<1> QED
  BY <1>1, <1>2, <1>3, <1>4, <1>5, <1>6, <1>7 DEF Entry1

\* What SetAll() has after each of the assignments.
LEMMA SetAllRuns1 ==
  ASSUME NEW p, NEW d, Len(d) \in Nat
  PROVE  \E f : /\ f[0] = p
                /\ \A i \in 1..Len(d) : f[i] = V1!Set(f[i - 1], d[i][1], d[i][2])
                /\ V1!SetAll(p, d) = f[Len(d)]
<1> DEFINE Run(f, n) == f = [i \in 0..n |-> IF i = 0 THEN p ELSE V1!Set(f[i - 1], d[i][1], d[i][2])]
           T == {n \in Nat : \E f : Run(f, n)}
<1>1. 0 \in T
  <2>1. Run([i \in 0..0 |-> p], 0)
    OBVIOUS
  <2> QED
    BY <2>1
<1>2. ASSUME NEW n \in Nat, n \in T PROVE n + 1 \in T
  <2>1. PICK f : Run(f, n)
    BY <1>2
  <2> DEFINE last == V1!Set(f[n], d[n + 1][1], d[n + 1][2])
             g == [i \in 0..n + 1 |-> IF i = n + 1 THEN last ELSE f[i]]
  <2>2. ASSUME NEW i \in 0..n + 1
        PROVE  g[i] = IF i = 0 THEN p ELSE V1!Set(g[i - 1], d[i][1], d[i][2])
    <3>1. CASE i = n + 1
      <4>1. g[i] = last /\ i # 0 /\ i - 1 = n /\ g[n] = f[n]
        BY <3>1
      <4> QED
        BY <3>1, <4>1 DEF last
    <3>2. CASE i # n + 1
      <4>1. i \in 0..n /\ g[i] = f[i] /\ (i # 0 => g[i - 1] = f[i - 1])
        BY <3>2
      <4> QED
        BY <2>1, <4>1
    <3> QED
      BY <3>1, <3>2
  <2>3. Run(g, n + 1)
    <3>1. g = [i \in 0..n + 1 |-> g[i]]
      OBVIOUS
    <3> HIDE DEF g
    <3> QED
      BY <2>2, <3>1
  <2> HIDE DEF Run, g
  <2> QED
    BY <2>3
<1>3. PICK h : Run(h, Len(d))
  <2> HIDE DEF T
  <2>1. \A n \in Nat : n \in T
    BY <1>1, <1>2, Induction
  <2> QED
    BY <2>1 DEF T
<1> DEFINE f == CHOOSE g : Run(g, Len(d))
<1>4. Run(f, Len(d))
  BY <1>3
<1>5. V1!SetAll(p, d) = f[Len(d)]
  BY DEF V1!SetAll
<1> HIDE DEF f
<1>6. f[0] = p /\ \A i \in 1..Len(d) : f[i] = V1!Set(f[i - 1], d[i][1], d[i][2])
  BY <1>4
<1> QED
  BY <1>5, <1>6

LEMMA SetAllFresh1 ==
  ASSUME NEW p, Fresh1(p), NEW d, Len(d) \in Nat, \A i \in 1..Len(d) : Entry1(d[i][1], d[i][2])
  PROVE  Fresh1(V1!SetAll(p, d))
<1>1. PICK f : /\ f[0] = p
               /\ \A i \in 1..Len(d) : f[i] = V1!Set(f[i - 1], d[i][1], d[i][2])
               /\ V1!SetAll(p, d) = f[Len(d)]
  BY SetAllRuns1
<1> DEFINE T == {n \in Nat : n <= Len(d) => Fresh1(f[n])}
<1>2. 0 \in T
  BY <1>1
<1>3. ASSUME NEW n \in Nat, n \in T PROVE n + 1 \in T
  <2> SUFFICES ASSUME n + 1 <= Len(d) PROVE Fresh1(f[n + 1])
    OBVIOUS
  <2>1. n + 1 \in 1..Len(d) /\ (n + 1) - 1 = n /\ Fresh1(f[n])
    BY <1>3
  <2>2. f[n + 1] = V1!Set(f[n], d[n + 1][1], d[n + 1][2])
    BY <1>1, <2>1
  <2> QED
    BY <2>1, <2>2, SetFresh1
<1> HIDE DEF T
<1>4. \A n \in Nat : n \in T
  BY <1>2, <1>3, Induction
<1> QED
  BY <1>1, <1>4 DEF T

LEMMA New1 == Fresh1(V1!NewPacket)
<1>1. V1!NewPacket.bits = [i \in 1..54 |-> 0]
  BY DEF V1!NewPacket, V1!Zeros, V1!size
<1>2. [i \in 1..54 |-> 0] \in Seq(Bit) /\ Len([i \in 1..54 |-> 0]) = 54
  BY DEF Bit
<1>3. PICK p : p = V1!NewPacket
  OBVIOUS
<1>4. DOMAIN p = {"kind", "bits", "key", "io_group", "io_channel", "direction"}
  BY <1>3 DEF V1!NewPacket
<1>5. p.kind = "v1" /\ p.io_group = None /\ p.io_channel = None /\ p.key = None
  BY <1>3 DEF V1!NewPacket
<1>6. p.bits \in Seq(Bit) /\ Len(p.bits) >= 54
  <2>1. PICK zeros \in Seq(Bit) : zeros = [i \in 1..54 |-> 0] /\ Len(zeros) = 54
    BY <1>2
  <2>2. p.bits = zeros
    BY <1>1, <1>3, <2>1
  <2> QED
    BY <2>1, <2>2
<1>7. None \in Io
  BY DEF Io
<1> QED
  BY <1>3, <1>4, <1>5, <1>6, <1>7 DEF Fresh1, Word1

-----------------------------------------------------------------------------
(* Packet_v2.                                                              *)

LEMMA SameBits2 ==
  /\ \A v, w : V2!fromuint(v, w) = fromuint(v, w)
  /\ \A s : V2!touint(s) = touint(s)
  /\ \A s, slice : V2!Span(s, slice) = Span(s, slice)
  /\ \A s, slice, new : V2!Write(s, slice, new) = Write(s, slice, new)
  /\ \A slice : V2!Width(slice) = Width(slice)
  /\ \A k : V2!Key(k) = Key(k)
<1>1. \A t : V2!Number(t) = Number(t)
  BY DEF V2!Number, Number
<1>2. \A v : V2!BitsOf(v) = BitsOf(v)
  BY DEF V2!BitsOf, BitsOf, V2!Cardinality, Cardinality
<1>3. \A v, w : V2!fromuint_big(v, w) = fromuint_big(v, w)
  BY <1>1, <1>2 DEF V2!fromuint_big, fromuint_big
<1>4. \A s : V2!touint_big(s) = touint_big(s)
  BY DEF V2!touint_big, touint_big
<1>5. \A s, slice : V2!Span(s, slice) = Span(s, slice)
  BY DEF V2!Span, Span
<1>6. \A s, slice, new : V2!Write(s, slice, new) = Write(s, slice, new)
  BY DEF V2!Write, Write
<1>7. \A slice : V2!Width(slice) = Width(slice)
  BY DEF V2!Width, Width
<1>8. \A k : V2!Key(k) = Key(k)
  BY DEF V2!Key, Key
<1>9. \A s : V2!Backwards(s) = Backwards(s)
  BY DEF V2!Backwards, Backwards
<1>10. \A v, w : V2!fromuint(v, w) = fromuint(v, w)
  BY <1>3, <1>9 DEF V2!fromuint, fromuint
<1>11. \A s : V2!touint(s) = touint(s)
  BY <1>4, <1>9 DEF V2!touint, touint
<1> QED
  BY <1>5, <1>6, <1>7, <1>8, <1>10, <1>11

Names2 == {"packet_type", "chip_id", "channel_id", "timestamp", "first_packet", "dataword",
           "trigger_type", "local_fifo", "shared_fifo", "downstream_marker", "parity",
           "fifo_diagnostics_timestamp", "local_fifo_events", "shared_fifo_events",
           "register_address", "register_data"}

\* A word of the second generation.
Word2(p) ==
  /\ DOMAIN p = {"kind", "bits", "int", "key", "io_group", "io_channel", "direction",
                 "receipt_timestamp", "diagnostics"}
  /\ p.kind = "v2" /\ p.bits \in Seq(Bit) /\ Len(p.bits) >= 64
  /\ p.io_group \in Io /\ p.io_channel \in Io

Kept2(p) ==
  /\ p.int # None => p.int = p.bits
  /\ p.key # None => IsKey(p.key, V2!Get(p, "chip_id"), p)

\* A word with nothing kept.
Fresh2(p) == Word2(p) /\ p.int = None /\ p.key = None

\* What a setter leaves as it was, but for the bits.
SameButBits2(p, q) ==
  /\ q.key = p.key /\ q.io_group = p.io_group /\ q.io_channel = p.io_channel
  /\ q.diagnostics = p.diagnostics

LEMMA Slices2 ==
  ASSUME NEW name \in Names2
  PROVE  /\ V2!Slice[name][1] \in Nat /\ V2!Slice[name][2] \in Nat
         /\ V2!Slice[name][1] < V2!Slice[name][2] /\ V2!Slice[name][2] <= 64
         /\ V2!FieldWidth(name) \in Nat
         /\ V2!FieldWidth(name) = V2!Slice[name][2] - V2!Slice[name][1]
<1>1. /\ V2!Slice[name][1] \in Nat /\ V2!Slice[name][2] \in Nat
      /\ V2!Slice[name][1] < V2!Slice[name][2] /\ V2!Slice[name][2] <= 64
  BY DEF Names2, V2!Slice
<1>2. V2!FieldWidth(name) = V2!Slice[name][2] - V2!Slice[name][1]
  BY SameBits2 DEF V2!FieldWidth, Width
<1> QED
  BY <1>1, <1>2

\* Setting a field of a word gives a word that keeps no integer.
LEMMA SetBits2 ==
  ASSUME NEW p, Word2(p), NEW name \in Names2, NEW value
  PROVE  LET q == V2!SetBits(p, name, value)
         IN Word2(q) /\ q.int = None /\ SameButBits2(p, q)
<1> DEFINE slice == V2!Slice[name]
           new == fromuint(value, V2!FieldWidth(name))
<1>1. slice[1] \in Nat /\ slice[2] \in Nat /\ slice[1] < slice[2] /\ slice[2] <= 64
  BY Slices2
<1>2. V2!FieldWidth(name) = slice[2] - slice[1] /\ V2!FieldWidth(name) \in Nat
  BY Slices2
<1>3. new \in Seq(Bit) /\ Len(new) >= slice[2] - slice[1]
  <2>1. BitsOf(value) \in Nat
    BY BitsOfNat
  <2> QED
    BY <1>2, <2>1, FromuintType
<1>4. V2!SetBits(p, name, value) = [p EXCEPT !.int = None, !.bits = Write(p.bits, slice, new)]
  BY SameBits2 DEF V2!SetBits, Word2
<1> HIDE DEF slice, new
<1>5. Write(p.bits, slice, new) \in Seq(Bit) /\ Len(Write(p.bits, slice, new)) >= 64
  BY <1>1, <1>3, WriteWord DEF Word2
<1>6. PICK b \in Seq(Bit) : b = Write(p.bits, slice, new) /\ Len(b) >= 64
  BY <1>5
<1>7. PICK q : q = [p EXCEPT !.int = None, !.bits = b]
  OBVIOUS
<1>8. Word2(q) /\ q.int = None /\ SameButBits2(p, q)
  BY <1>6, <1>7 DEF Word2, SameButBits2
<1> QED
  BY <1>4, <1>6, <1>7, <1>8

\* Setting a field to a value that fits leaves every other place alone.
LEMMA SetBitsElsewhere2 ==
  ASSUME NEW p, Word2(p), NEW name \in Names2, NEW value, BitsOf(value) <= V2!FieldWidth(name),
         NEW other, other[1] \in Nat, other[2] \in Nat, other[1] < other[2], other[2] <= 64,
         Apart(V2!Slice[name], other)
  PROVE  Span(V2!SetBits(p, name, value).bits, other) = Span(p.bits, other)
<1> DEFINE slice == V2!Slice[name]
           new == fromuint(value, V2!FieldWidth(name))
<1>1. slice[1] \in Nat /\ slice[2] \in Nat /\ slice[1] < slice[2] /\ slice[2] <= 64
  BY Slices2
<1>2. V2!FieldWidth(name) = slice[2] - slice[1] /\ V2!FieldWidth(name) \in Nat
  BY Slices2
<1>3. new \in Seq(Bit) /\ Len(new) = slice[2] - slice[1]
  BY <1>2, BitsOfNat, FromuintType
<1>4. V2!SetBits(p, name, value) = [p EXCEPT !.int = None, !.bits = Write(p.bits, slice, new)]
  BY SameBits2 DEF V2!SetBits, Word2
<1>5. other[2] <= slice[1] \/ slice[2] <= other[1]
  BY DEF Apart
<1> HIDE DEF slice, new
<1>6. slice[1] <= slice[2] /\ slice[2] <= Len(p.bits) /\ other[1] <= other[2] /\ other[2] <= Len(p.bits)
  <2>1. Len(p.bits) \in Nat /\ Len(p.bits) >= 64
    BY DEF Word2
  <2> QED
    BY <1>1, <2>1
<1>7. Span(Write(p.bits, slice, new), other) = Span(p.bits, other)
  <2>1. p.bits \in Seq(Bit)
    BY DEF Word2
  <2> QED
    BY <1>1, <1>3, <1>5, <1>6, <2>1, WriteElsewhere
<1>8. ASSUME NEW b, NEW q, q = [p EXCEPT !.int = None, !.bits = b] PROVE q.bits = b
  BY <1>8 DEF Word2
<1> QED
  BY <1>4, <1>7, <1>8

\* A field is read from its place in the bits, also when they are kept.
Place2(p, name) == V2!Slice[IF name = "timestamp" THEN V2!TimestampField(p) ELSE name]

LEMMA WordIsBits ==
  ASSUME NEW p, p.int # None => p.int = p.bits
  PROVE  V2!Word(p) = p.bits
  BY DEF V2!Word

LEMMA GetFrom2 ==
  ASSUME NEW p, NEW q, V2!Word(p) = p.bits, V2!Word(q) = q.bits, p.diagnostics = q.diagnostics,
         NEW name \in Names2, Span(p.bits, Place2(p, name)) = Span(q.bits, Place2(p, name))
  PROVE  V2!Get(p, name) = V2!Get(q, name)
<1>1. CASE name = "timestamp"
  <2>1. V2!TimestampField(p) = V2!TimestampField(q)
    BY DEF V2!TimestampField
  <2> QED
    BY <1>1, <2>1, SameBits2 DEF V2!Get, Place2
<1>2. CASE name # "timestamp"
  <2>1. Span(p.bits, V2!Slice[name]) = Span(q.bits, V2!Slice[name])
    BY <1>2 DEF Place2
  <2>2. CASE name = "chip_id"
    BY <2>1, <2>2, SameBits2 DEF V2!Get
  <2>3. CASE name \in {"local_fifo_events", "shared_fifo_events"}
    BY <2>1, <2>3, SameBits2 DEF V2!Get
  <2>4. CASE name \notin {"timestamp", "chip_id", "local_fifo_events", "shared_fifo_events"}
    BY <2>1, <2>4, SameBits2 DEF V2!Get
  <2> QED
    BY <1>2, <2>2, <2>3, <2>4
<1> QED
  BY <1>1, <1>2

\* What may be assigned to a word without making it none.
Entry2(name, value) ==
  /\ name \in (Names2 \ {"fifo_diagnostics_timestamp"}) \cup
              {"valid_parity", "chip_key", "io_group", "io_channel", "bits", "direction", "receipt_timestamp"}
  /\ name = "bits" => value \in Seq(Bit) /\ Len(value) >= 64
  /\ name \in {"io_group", "io_channel"} => value \in Io
  /\ name = "chip_key" => value = None \/ (value[1] \in Io /\ value[2] \in Io)

LEMMA SetChipId2 ==
  ASSUME NEW p, Word2(p), NEW value
  PROVE  LET q == V2!SetChipId(p, value)
         IN Fresh2(q) /\ q.io_group = p.io_group /\ q.io_channel = p.io_channel
<1>1. PICK q : q = [p EXCEPT !.key = None]
  OBVIOUS
<1>2. Word2(q) /\ q.key = None /\ q.io_group = p.io_group /\ q.io_channel = p.io_channel
  BY <1>1 DEF Word2
<1>3. "chip_id" \in Names2
  BY DEF Names2
<1>4. PICK r : r = V2!SetBits(q, "chip_id", value)
  OBVIOUS
<1>5. Word2(r) /\ r.int = None /\ SameButBits2(q, r)
  BY <1>2, <1>3, <1>4, SetBits2
<1>6. V2!SetChipId(p, value) = r
  BY <1>1, <1>4 DEF V2!SetChipId
<1> QED
  BY <1>2, <1>5, <1>6 DEF Fresh2, SameButBits2

LEMMA SetIo2 ==
  ASSUME NEW p, Word2(p), NEW name \in {"io_group", "io_channel"}, NEW value \in Io
  PROVE  LET q == V2!SetIo(p, name, value)
         IN Word2(q) /\ q.key = None /\ q.int = p.int /\ q.bits = p.bits /\ q.diagnostics = p.diagnostics
<1>1. PICK q : q = V2!SetIo(p, name, value)
  OBVIOUS
<1>2. q = [[p EXCEPT !.key = None] EXCEPT ![name] = value]
  BY <1>1 DEF V2!SetIo
<1>3. Word2(q) /\ q.key = None /\ q.int = p.int /\ q.bits = p.bits /\ q.diagnostics = p.diagnostics
  BY <1>2 DEF Word2
<1> QED
  BY <1>1, <1>3

LEMMA SetChipKey2 ==
  ASSUME NEW p, Word2(p), NEW key, key = None \/ (key[1] \in Io /\ key[2] \in Io)
  PROVE  Fresh2(V2!SetChipKey(p, key))
<1>1. PICK q : q = [p EXCEPT !.int = None, !.key = None]
  OBVIOUS
<1>2. Word2(q) /\ q.key = None /\ q.int = None
  BY <1>1 DEF Word2
<1>3. CASE key = None
  <2>1. V2!SetChipKey(p, key) = [q EXCEPT !.io_group = None, !.io_channel = None]
    BY <1>1, <1>3 DEF V2!SetChipKey
  <2>2. PICK r : r = [q EXCEPT !.io_group = None, !.io_channel = None]
    OBVIOUS
  <2>3. None \in Io
    BY DEF Io
  <2>4. Fresh2(r)
    BY <1>2, <2>2, <2>3 DEF Word2, Fresh2
  <2> QED
    BY <2>1, <2>2, <2>4
<1>4. CASE key # None
  <2>1. PICK r : r = [q EXCEPT !.io_group = key[1], !.io_channel = key[2]]
    OBVIOUS
  <2>2. Word2(r)
    BY <1>2, <1>4, <2>1 DEF Word2
  <2>3. V2!SetChipKey(p, key) = V2!SetChipId(r, key[3])
    BY <1>1, <1>4, <2>1 DEF V2!SetChipKey
  <2> QED
    BY <2>2, <2>3, SetChipId2
<1> QED
  BY <1>3, <1>4

LEMMA SetEvents2 ==
  ASSUME NEW p, Word2(p), NEW name \in {"local_fifo_events", "shared_fifo_events"}, NEW value
  PROVE  LET q == V2!SetEvents(p, name, value)
         IN Word2(q) /\ q.int = None /\ SameButBits2(p, q)
<1>1. CASE p.diagnostics
  <2>1. name \in Names2
    BY DEF Names2
  <2> QED
    BY <1>1, <2>1, SetBits2 DEF V2!SetEvents
<1>2. CASE ~p.diagnostics
  <2>1. PICK q : q = [p EXCEPT !.int = None]
    OBVIOUS
  <2>2. Word2(q) /\ q.int = None /\ SameButBits2(p, q)
    BY <2>1 DEF Word2, SameButBits2
  <2>3. V2!SetEvents(p, name, value) = q
    BY <1>2, <2>1 DEF V2!SetEvents
  <2> QED
    BY <2>2, <2>3
<1> QED
  BY <1>1, <1>2

LEMMA TimestampName ==
  ASSUME NEW p PROVE V2!TimestampField(p) \in {"timestamp", "fifo_diagnostics_timestamp"}
  BY DEF V2!TimestampField

\* A field set by its name: the bits and no integer, and but for the chip's
\* id no more than that.
LEMMA SetField2Word ==
  ASSUME NEW p, Word2(p), NEW name \in Names2 \ {"fifo_diagnostics_timestamp"}, NEW value
  PROVE  LET q == V2!Set(p, name, value)
         IN Word2(q) /\ q.int = None /\ (name = "chip_id" => q.key = None)
            /\ (name # "chip_id" => SameButBits2(p, q))
<1>1. CASE name = "chip_id"
  <2>1. V2!Set(p, name, value) = V2!SetChipId(p, value)
    BY <1>1 DEF V2!Set
  <2> QED
    BY <1>1, <2>1, SetChipId2 DEF Fresh2
<1>2. CASE name = "timestamp"
  <2>1. V2!Set(p, name, value) = V2!SetBits(p, V2!TimestampField(p), value)
    BY <1>2 DEF V2!Set
  <2>2. V2!TimestampField(p) \in Names2
    BY TimestampName DEF Names2
  <2> QED
    BY <1>2, <2>1, <2>2, SetBits2
<1>3. CASE name \in {"local_fifo_events", "shared_fifo_events"}
  <2>1. V2!Set(p, name, value) = V2!SetEvents(p, name, value)
    BY <1>3 DEF V2!Set
  <2> QED
    BY <1>3, <2>1, SetEvents2
<1>4. CASE name \notin {"chip_id", "timestamp", "local_fifo_events", "shared_fifo_events"}
  <2>1. V2!Set(p, name, value) = V2!SetBits(p, name, value)
    BY <1>4 DEF V2!Set, Names2
  <2> QED
    BY <1>4, <2>1, SetBits2
<1> QED
  BY <1>1, <1>2, <1>3, <1>4

LEMMA SetFresh2 ==
  ASSUME NEW p, Fresh2(p), NEW name, NEW value, Entry2(name, value)
  PROVE  Fresh2(V2!Set(p, name, value))
<1>0. Word2(p) /\ p.key = None /\ p.int = None
  BY DEF Fresh2
<1>1. CASE name = "valid_parity"
  BY <1>1 DEF V2!Set
<1>2. CASE name = "chip_key"
  BY <1>0, <1>2, SetChipKey2 DEF V2!Set, Entry2
<1>3. CASE name \in {"io_group", "io_channel"}
  BY <1>0, <1>3, SetIo2 DEF V2!Set, Entry2, Fresh2
<1>4. CASE name = "bits"
  <2>1. V2!Set(p, name, value) = [p EXCEPT !.bits = value]
    BY <1>4 DEF V2!Set
  <2> QED
    BY <1>0, <1>4, <2>1 DEF Entry2, Fresh2, Word2
<1>5. CASE name \in {"direction", "receipt_timestamp"}
  <2>1. V2!Set(p, name, value) = [p EXCEPT ![name] = value]
    BY <1>5 DEF V2!Set
  <2> QED
    BY <1>0, <1>5, <2>1 DEF Fresh2, Word2
<1>6. CASE name \in Names2 \ {"fifo_diagnostics_timestamp"}
  BY <1>0, <1>6, SetField2Word DEF Fresh2, SameButBits2
<1> QED
  BY <1>1, <1>2, <1>3, <1>4, <1>5, <1>6 DEF Entry2

LEMMA SetAllRuns2 ==
  ASSUME NEW p, NEW d, Len(d) \in Nat
  PROVE  \E f : /\ f[0] = p
                /\ \A i \in 1..Len(d) : f[i] = V2!Set(f[i - 1], d[i][1], d[i][2])
                /\ V2!SetAll(p, d) = f[Len(d)]
<1> DEFINE Run(f, n) == f = [i \in 0..n |-> IF i = 0 THEN p ELSE V2!Set(f[i - 1], d[i][1], d[i][2])]
           T == {n \in Nat : \E f : Run(f, n)}
<1>1. 0 \in T
  <2>1. Run([i \in 0..0 |-> p], 0)
    OBVIOUS
  <2> QED
    BY <2>1
<1>2. ASSUME NEW n \in Nat, n \in T PROVE n + 1 \in T
  <2>1. PICK f : Run(f, n)
    BY <1>2
  <2> DEFINE last == V2!Set(f[n], d[n + 1][1], d[n + 1][2])
             g == [i \in 0..n + 1 |-> IF i = n + 1 THEN last ELSE f[i]]
  <2>2. ASSUME NEW i \in 0..n + 1
        PROVE  g[i] = IF i = 0 THEN p ELSE V2!Set(g[i - 1], d[i][1], d[i][2])
    <3>1. CASE i = n + 1
      <4>1. g[i] = last /\ i # 0 /\ i - 1 = n /\ g[n] = f[n]
        BY <3>1
      <4> QED
        BY <3>1, <4>1 DEF last
    <3>2. CASE i # n + 1
      <4>1. i \in 0..n /\ g[i] = f[i] /\ (i # 0 => g[i - 1] = f[i - 1])
        BY <3>2
      <4> QED
        BY <2>1, <4>1
    <3> QED
      BY <3>1, <3>2
  <2>3. Run(g, n + 1)
    <3>1. g = [i \in 0..n + 1 |-> g[i]]
      OBVIOUS
    <3> HIDE DEF g
    <3> QED
      BY <2>2, <3>1
  <2> HIDE DEF Run, g
  <2> QED
    BY <2>3
<1>3. PICK h : Run(h, Len(d))
  <2> HIDE DEF T
  <2>1. \A n \in Nat : n \in T
    BY <1>1, <1>2, Induction
  <2> QED
    BY <2>1 DEF T
<1> DEFINE f == CHOOSE g : Run(g, Len(d))
<1>4. Run(f, Len(d))
  BY <1>3
<1>5. V2!SetAll(p, d) = f[Len(d)]
  BY DEF V2!SetAll
<1> HIDE DEF f
<1>6. f[0] = p /\ \A i \in 1..Len(d) : f[i] = V2!Set(f[i - 1], d[i][1], d[i][2])
  BY <1>4
<1> QED
  BY <1>5, <1>6

LEMMA SetAllFresh2 ==
  ASSUME NEW p, Fresh2(p), NEW d, Len(d) \in Nat, \A i \in 1..Len(d) : Entry2(d[i][1], d[i][2])
  PROVE  Fresh2(V2!SetAll(p, d))
<1>1. PICK f : /\ f[0] = p
               /\ \A i \in 1..Len(d) : f[i] = V2!Set(f[i - 1], d[i][1], d[i][2])
               /\ V2!SetAll(p, d) = f[Len(d)]
  BY SetAllRuns2
<1> DEFINE T == {n \in Nat : n <= Len(d) => Fresh2(f[n])}
<1>2. 0 \in T
  BY <1>1
<1>3. ASSUME NEW n \in Nat, n \in T PROVE n + 1 \in T
  <2> SUFFICES ASSUME n + 1 <= Len(d) PROVE Fresh2(f[n + 1])
    OBVIOUS
  <2>1. n + 1 \in 1..Len(d) /\ (n + 1) - 1 = n /\ Fresh2(f[n])
    BY <1>3
  <2>2. f[n + 1] = V2!Set(f[n], d[n + 1][1], d[n + 1][2])
    BY <1>1, <2>1
  <2> QED
    BY <2>1, <2>2, SetFresh2
<1> HIDE DEF T
<1>4. \A n \in Nat : n \in T
  BY <1>2, <1>3, Induction
<1> QED
  BY <1>1, <1>4 DEF T

LEMMA New2 == Fresh2(V2!NewPacket)
<1>1. V2!NewPacket.bits = [i \in 1..64 |-> 0]
  BY DEF V2!NewPacket, V2!Zeros, V2!size
<1>2. [i \in 1..64 |-> 0] \in Seq(Bit) /\ Len([i \in 1..64 |-> 0]) = 64
  BY DEF Bit
<1>3. PICK p : p = V2!NewPacket
  OBVIOUS
<1>4. DOMAIN p = {"kind", "bits", "int", "key", "io_group", "io_channel", "direction",
                  "receipt_timestamp", "diagnostics"}
  BY <1>3 DEF V2!NewPacket
<1>5. p.kind = "v2" /\ p.io_group = None /\ p.io_channel = None /\ p.key = None /\ p.int = None
  BY <1>3 DEF V2!NewPacket
<1>6. p.bits \in Seq(Bit) /\ Len(p.bits) >= 64
  <2>1. PICK zeros \in Seq(Bit) : zeros = [i \in 1..64 |-> 0] /\ Len(zeros) = 64
    BY <1>2
  <2>2. p.bits = zeros
    BY <1>1, <1>3, <2>1
  <2> QED
    BY <2>1, <2>2
<1>7. None \in Io
  BY DEF Io
<1> QED
  BY <1>3, <1>4, <1>5, <1>6, <1>7 DEF Fresh2, Word2

-----------------------------------------------------------------------------
(* Dictionaries.                                                           *)

LEMMA Three ==
  ASSUME NEW S, NEW a \in S, NEW b \in S, NEW c \in S
  PROVE  <<a, b, c>> \in Seq(S)
  OBVIOUS

\* The type of a word is a number.
LEMMA TypeIsNumber1 ==
  ASSUME NEW p, Word1(p) PROVE V1!Get(p, "type") \in Nat
<1>1. Span(p.bits, V1!Slice["type"]) = SubSeq(p.bits, 53, 54)
  BY DEF Span, V1!Slice
<1>2. SubSeq(p.bits, 53, 54) \in Seq(Bit)
  BY DEF Word1
<1>3. PICK s \in Seq(Bit) : s = Span(p.bits, V1!Slice["type"])
  BY <1>1, <1>2
<1>4. V1!Get(p, "type") = touint_big(s)
  BY <1>3, SameBits1 DEF V1!Get
<1> QED
  BY <1>4, TouintType

\* The fields that all words have, and those that their type adds.
Base1 == {"type", "chipid", "parity"}
Data1 == {"channel", "timestamp", "adc_counts", "fifo_half", "fifo_full"}
Config1 == {"register", "value"}

TypeFields1(p) ==
  Base1 \cup (IF V1!Get(p, "type") = V1!TEST_PACKET THEN {"counter"}
              ELSE IF V1!Get(p, "type") = V1!DATA_PACKET THEN Data1 ELSE Config1)

LEMMA FieldsType1 ==
  ASSUME NEW p, NEW S, TypeFields1(p) \subseteq S PROVE V1!Fields(p) \in Seq(S)
<1>1. <<"type", "chipid", "parity">> \in Seq(S)
  BY DEF TypeFields1, Base1
<1>2. PICK rest \in Seq(S) : V1!Fields(p) = <<"type", "chipid", "parity">> \o rest
  <2>1. CASE V1!Get(p, "type") = V1!TEST_PACKET
    <3>1. V1!Fields(p) = <<"type", "chipid", "parity">> \o <<"counter">>
      BY <2>1 DEF V1!Fields, V1!TEST_PACKET, V1!DATA_PACKET
    <3>2. <<"counter">> \in Seq(S)
      BY <2>1 DEF TypeFields1
    <3> QED
      BY <3>1, <3>2
  <2>2. CASE V1!Get(p, "type") = V1!DATA_PACKET /\ V1!Get(p, "type") # V1!TEST_PACKET
    <3>1. <<"channel", "timestamp", "adc_counts", "fifo_half", "fifo_full">> \in Seq(S)
      BY <2>2 DEF TypeFields1, Data1
    <3> QED
      BY <2>2, <3>1 DEF V1!Fields
  <2>3. CASE V1!Get(p, "type") # V1!DATA_PACKET /\ V1!Get(p, "type") # V1!TEST_PACKET
    <3>1. <<"register", "value">> \in Seq(S)
      BY <2>3 DEF TypeFields1, Config1
    <3> QED
      BY <2>3, <3>1 DEF V1!Fields
  <2> QED
    BY <2>1, <2>2, <2>3
<1>3. <<"type", "chipid", "parity">> \o rest \in Seq(S)
  BY <1>1
<1> QED
  BY <1>2, <1>3

LEMMA TypeFieldsAreFields1 ==
  ASSUME NEW p PROVE TypeFields1(p) \subseteq Names1 \cup {"counter"}
  BY DEF TypeFields1, Base1, Data1, Config1, Names1

\* A key has three numbers.
LEMMA KeyType ==
  ASSUME NEW g, NEW c, NEW id, Key(<<g, c, id>>) # Error
  PROVE  Key(<<g, c, id>>) = <<g, c, id>> /\ g \in 0..255 /\ c \in 0..255 /\ id \in 0..255
<1> DEFINE parts == <<g, c, id>>
<1>1. Len(parts) = 3 /\ \A i \in 1..Len(parts) : parts[i] \in 0..255
  BY DEF Key
<1>2. parts[1] = g /\ parts[2] = c /\ parts[3] = id /\ 1 \in 1..3 /\ 2 \in 1..3 /\ 3 \in 1..3
  OBVIOUS
<1>3. Key(parts) = parts
  BY <1>1 DEF Key
<1> HIDE DEF parts
<1>4. parts[1] \in 0..255 /\ parts[2] \in 0..255 /\ parts[3] \in 0..255
  BY <1>1, <1>2
<1> QED
  BY <1>2, <1>3, <1>4 DEF parts

LEMMA ChipKey1 ==
  ASSUME NEW p, Word1(p), Kept1(p), V1!chip_key(p) # Error, V1!chip_key(p) # None
  PROVE  /\ V1!chip_key(p) = <<p.io_group, p.io_channel, V1!Get(p, "chipid")>>
         /\ IsKey(V1!chip_key(p), V1!Get(p, "chipid"), p)
<1>1. CASE p.key # None
  BY <1>1 DEF V1!chip_key, Kept1, IsKey
<1>2. CASE p.key = None
  <2>1. p.io_channel # None /\ p.io_group # None
    BY <1>2 DEF V1!chip_key
  <2>2. V1!chip_key(p) = Key(<<p.io_group, p.io_channel, V1!Get(p, "chipid")>>)
    BY <1>2, <2>1, SameBits1 DEF V1!chip_key
  <2>3. V1!chip_key(p) = <<p.io_group, p.io_channel, V1!Get(p, "chipid")>>
    BY <2>2, KeyType
  <2> QED
    BY <2>1, <2>2, <2>3 DEF IsKey
<1> QED
  BY <1>1, <1>2

\* A word exports what may be assigned to one.
LEMMA Export1 ==
  ASSUME NEW p, Word1(p), Kept1(p), V1!export(p) # Error
  PROVE  LET d == V1!export(p)
         IN Len(d) \in Nat /\ \A i \in 1..Len(d) : Entry1(d[i][1], d[i][2])
<1>1. V1!chip_key(p) # Error
  BY DEF V1!export
<1> DEFINE H == {<<"chip_key", V1!chip_key(p)>>, <<"bits", p.bits>>,
                 <<"valid_parity", V1!has_valid_parity(p)>>}
           T == {<<n, V1!Get(p, n)>> : n \in Names1 \cup {"counter"}}
<1>2. PICK head \in Seq(H) :
        head = <<<<"chip_key", V1!chip_key(p)>>, <<"bits", p.bits>>,
                 <<"valid_parity", V1!has_valid_parity(p)>>>>
  <2>1. /\ <<"chip_key", V1!chip_key(p)>> \in H /\ <<"bits", p.bits>> \in H
        /\ <<"valid_parity", V1!has_valid_parity(p)>> \in H
    OBVIOUS
  <2> HIDE DEF H
  <2>2. <<<<"chip_key", V1!chip_key(p)>>, <<"bits", p.bits>>,
          <<"valid_parity", V1!has_valid_parity(p)>>>> \in Seq(H)
    BY <2>1, Three
  <2> QED
    BY <2>2
<1>3. PICK tail \in Seq(T) : tail = V1!Values(p)
  <2>1. PICK names \in Seq(Names1 \cup {"counter"}) : names = V1!Fields(p)
    BY FieldsType1, TypeFieldsAreFields1
  <2>2. V1!Values(p) = [i \in 1..Len(names) |-> <<names[i], V1!Get(p, names[i])>>]
    BY <2>1 DEF V1!Values
  <2>3. \A i \in 1..Len(names) : names[i] \in Names1 \cup {"counter"}
    OBVIOUS
  <2>4. \A i \in 1..Len(names) : <<names[i], V1!Get(p, names[i])>> \in T
    BY <2>3
  <2> HIDE DEF T
  <2>5. [i \in 1..Len(names) |-> <<names[i], V1!Get(p, names[i])>>] \in Seq(T)
    BY <2>4
  <2> QED
    BY <2>2, <2>5
<1>4. ASSUME NEW e \in H PROVE Entry1(e[1], e[2])
  <2>1. CASE e = <<"chip_key", V1!chip_key(p)>>
    <3>1. e[1] = "chip_key" /\ e[2] = V1!chip_key(p)
      BY <2>1
    <3>2. CASE V1!chip_key(p) = None
      BY <3>1, <3>2 DEF Entry1
    <3>3. CASE V1!chip_key(p) # None
      <4>1. V1!chip_key(p) = <<p.io_group, p.io_channel, V1!Get(p, "chipid")>>
        BY <1>1, <3>3, ChipKey1
      <4>2. V1!chip_key(p)[1] \in Io /\ V1!chip_key(p)[2] \in Io
        BY <4>1 DEF Word1
      <4> QED
        BY <3>1, <4>2 DEF Entry1
    <3> QED
      BY <3>2, <3>3
  <2>2. CASE e = <<"bits", p.bits>>
    BY <2>2 DEF Entry1, Word1
  <2>3. CASE e = <<"valid_parity", V1!has_valid_parity(p)>>
    BY <2>3 DEF Entry1
  <2> QED
    BY <2>1, <2>2, <2>3
<1>5. ASSUME NEW e \in T PROVE Entry1(e[1], e[2])
  <2>1. V1!Get(p, "type") \in Nat
    BY TypeIsNumber1
  <2> QED
    BY <2>1 DEF Entry1, Names1
<1>6. V1!export(p) = head \o tail
  BY <1>1, <1>2, <1>3 DEF V1!export
<1> HIDE DEF H, T
<1>7. head \o tail \in Seq(H \cup T)
  <2>1. head \in Seq(H \cup T) /\ tail \in Seq(H \cup T)
    OBVIOUS
  <2> QED
    BY <2>1
<1>8. PICK d \in Seq(H \cup T) : d = V1!export(p)
  BY <1>6, <1>7
<1>9. Len(d) \in Nat /\ \A i \in 1..Len(d) : Entry1(d[i][1], d[i][2])
  <2>1. \A i \in 1..Len(d) : d[i] \in H \cup T
    OBVIOUS
  <2> QED
    BY <1>4, <1>5, <2>1
<1> QED
  BY <1>8, <1>9

\* A word that is exported and imported again keeps nothing.
LEMMA ViaDict1 ==
  ASSUME NEW p, Word1(p), Kept1(p), V1!export(p) # Error
  PROVE  Fresh1(V1!from_dict(V1!export(p)))
<1>1. PICK d : d = V1!export(p) /\ Len(d) \in Nat /\ \A i \in 1..Len(d) : Entry1(d[i][1], d[i][2])
  BY Export1
<1>2. Fresh1(V1!SetAll(V1!NewPacket, d))
  BY <1>1, New1, SetAllFresh1
<1> QED
  BY <1>1, <1>2 DEF V1!from_dict

LEMMA Five ==
  ASSUME NEW S, NEW a \in S, NEW b \in S, NEW c \in S, NEW d \in S, NEW e \in S
  PROVE  <<a, b, c, d, e>> \in Seq(S)
  OBVIOUS

LEMMA Join ==
  ASSUME NEW S, NEW a \in Seq(S), NEW b \in Seq(S) PROVE a \o b \in Seq(S)
  OBVIOUS

\* The fields that all words have, and those that their type adds.
Base2 == {"packet_type", "chip_id", "downstream_marker", "parity"}
Data2 == {"channel_id", "timestamp", "first_packet", "dataword", "trigger_type", "local_fifo",
          "shared_fifo"}
Events2 == {"local_fifo_events", "shared_fifo_events"}
Config2 == {"register_address", "register_data"}

TypeFields2(p) ==
  Base2 \cup (IF V2!Get(p, "packet_type") = V2!TEST_PACKET THEN {}
              ELSE IF V2!Get(p, "packet_type") # V2!DATA_PACKET THEN Config2
              ELSE IF p.diagnostics THEN Data2 \cup Events2 ELSE Data2)

LEMMA FieldsType2 ==
  ASSUME NEW p, NEW S, TypeFields2(p) \subseteq S PROVE V2!Fields(p) \in Seq(S)
<1> DEFINE first == <<"packet_type", "chip_id", "downstream_marker", "parity">>
           data == <<"channel_id", "timestamp", "first_packet", "dataword", "trigger_type",
                     "local_fifo", "shared_fifo">>
           events == <<"local_fifo_events", "shared_fifo_events">>
           config == <<"register_address", "register_data">>
<1>0. V2!DATA_PACKET # V2!TEST_PACKET
  BY DEF V2!DATA_PACKET, V2!TEST_PACKET
<1>1. first \in Seq(S)
  BY DEF TypeFields2, Base2
<1>2. V2!Get(p, "packet_type") = V2!DATA_PACKET => data \in Seq(S)
  BY <1>0 DEF TypeFields2, Data2
<1>3. V2!Get(p, "packet_type") = V2!DATA_PACKET /\ p.diagnostics => events \in Seq(S)
  BY <1>0 DEF TypeFields2, Events2
<1>4. V2!Get(p, "packet_type") \notin {V2!DATA_PACKET, V2!TEST_PACKET} => config \in Seq(S)
  BY DEF TypeFields2, Config2
<1>5. CASE V2!Get(p, "packet_type") = V2!TEST_PACKET
  <2>1. V2!Fields(p) = first \o <<>>
    <3>1. PICK t : t = V2!Get(p, "packet_type")
      OBVIOUS
    <3>2. t = 1
      BY <1>5, <3>1 DEF V2!TEST_PACKET
    <3>3. (CASE t = 1 -> <<>>
             [] t = 0 -> data \o (IF p.diagnostics THEN events ELSE <<>>)
             [] OTHER -> config) = <<>>
      BY <3>2
    <3> QED
      BY <3>1, <3>2, <3>3 DEF V2!Fields, V2!TEST_PACKET, V2!DATA_PACKET
  <2> HIDE DEF first
  <2>2. <<>> \in Seq(S)
    OBVIOUS
  <2> QED
    BY <1>1, <2>1, <2>2, Join
<1>6. CASE V2!Get(p, "packet_type") = V2!DATA_PACKET
  <2>1. CASE p.diagnostics
    <3>1. V2!Fields(p) = first \o (data \o events)
      BY <1>6, <2>1 DEF V2!Fields, V2!TEST_PACKET, V2!DATA_PACKET
    <3> HIDE DEF first, data, events
    <3>2. data \o events \in Seq(S)
      BY <1>2, <1>3, <1>6, <2>1, Join
    <3> QED
      BY <1>1, <3>1, <3>2, Join
  <2>2. CASE ~p.diagnostics
    <3>1. V2!Fields(p) = first \o (data \o <<>>)
      BY <1>6, <2>2 DEF V2!Fields, V2!TEST_PACKET, V2!DATA_PACKET
    <3> HIDE DEF first, data
    <3>2. <<>> \in Seq(S)
      OBVIOUS
    <3>3. data \o <<>> \in Seq(S)
      BY <1>2, <1>6, <3>2, Join
    <3> QED
      BY <1>1, <3>1, <3>3, Join
  <2> QED
    BY <2>1, <2>2
<1>7. CASE V2!Get(p, "packet_type") \notin {V2!DATA_PACKET, V2!TEST_PACKET}
  <2>1. V2!Fields(p) = first \o config
    BY <1>7 DEF V2!Fields
  <2> HIDE DEF first, config
  <2> QED
    BY <1>1, <1>4, <1>7, <2>1, Join
<1> QED
  BY <1>5, <1>6, <1>7

LEMMA TypeFieldsAreFields2 ==
  ASSUME NEW p PROVE TypeFields2(p) \subseteq Names2 \ {"fifo_diagnostics_timestamp"}
  BY DEF TypeFields2, Base2, Data2, Events2, Config2, Names2

LEMMA ChipKey2 ==
  ASSUME NEW p, Word2(p), Kept2(p), V2!chip_key(p) # Error, V2!chip_key(p) # None
  PROVE  /\ V2!chip_key(p) = <<p.io_group, p.io_channel, V2!Get(p, "chip_id")>>
         /\ IsKey(V2!chip_key(p), V2!Get(p, "chip_id"), p)
<1>1. CASE p.key # None
  BY <1>1 DEF V2!chip_key, Kept2, IsKey
<1>2. CASE p.key = None
  <2>1. p.io_channel # None /\ p.io_group # None
    BY <1>2 DEF V2!chip_key
  <2>2. V2!chip_key(p) = Key(<<p.io_group, p.io_channel, V2!Get(p, "chip_id")>>)
    BY <1>2, <2>1, SameBits2 DEF V2!chip_key
  <2>3. V2!chip_key(p) = <<p.io_group, p.io_channel, V2!Get(p, "chip_id")>>
    BY <2>2, KeyType
  <2> QED
    BY <2>1, <2>2, <2>3 DEF IsKey
<1> QED
  BY <1>1, <1>2

LEMMA Export2 ==
  ASSUME NEW p, Word2(p), Kept2(p), V2!export(p) # Error
  PROVE  LET d == V2!export(p)
         IN Len(d) \in Nat /\ \A i \in 1..Len(d) : Entry2(d[i][1], d[i][2])
<1>1. V2!chip_key(p) # Error
  BY DEF V2!export
<1> DEFINE H == {<<"chip_key", V2!chip_key(p)>>, <<"io_group", p.io_group>>,
                 <<"io_channel", p.io_channel>>, <<"bits", p.bits>>,
                 <<"valid_parity", V2!has_valid_parity(p)>>}
           N == Names2 \ {"fifo_diagnostics_timestamp"}
           T == {<<n, V2!Get(p, n)>> : n \in N}
           X == {<<"direction", p.direction>>, <<"receipt_timestamp", p.receipt_timestamp>>}
           S == H \cup T \cup X
<1>2. PICK head \in Seq(S) :
        head = <<<<"chip_key", V2!chip_key(p)>>, <<"io_group", p.io_group>>,
                 <<"io_channel", p.io_channel>>, <<"bits", p.bits>>,
                 <<"valid_parity", V2!has_valid_parity(p)>>>>
  <2>1. /\ <<"chip_key", V2!chip_key(p)>> \in H /\ <<"bits", p.bits>> \in H
        /\ <<"io_group", p.io_group>> \in H /\ <<"io_channel", p.io_channel>> \in H
        /\ <<"valid_parity", V2!has_valid_parity(p)>> \in H
    OBVIOUS
  <2> HIDE DEF H, T, X
  <2>2. <<<<"chip_key", V2!chip_key(p)>>, <<"io_group", p.io_group>>,
          <<"io_channel", p.io_channel>>, <<"bits", p.bits>>,
          <<"valid_parity", V2!has_valid_parity(p)>>>> \in Seq(S)
    BY <2>1, Five
  <2> QED
    BY <2>2
<1>3. PICK tail \in Seq(S) : tail = V2!Values(p)
  <2>1. PICK names \in Seq(N) : names = V2!Fields(p)
    BY FieldsType2, TypeFieldsAreFields2
  <2>2. V2!Values(p) = [i \in 1..Len(names) |-> <<names[i], V2!Get(p, names[i])>>]
    BY <2>1 DEF V2!Values
  <2> HIDE DEF N
  <2>3. \A i \in 1..Len(names) : names[i] \in N
    OBVIOUS
  <2>4. \A i \in 1..Len(names) : <<names[i], V2!Get(p, names[i])>> \in T
    BY <2>3
  <2> HIDE DEF T, H, X
  <2>5. [i \in 1..Len(names) |-> <<names[i], V2!Get(p, names[i])>>] \in Seq(S)
    BY <2>4
  <2> QED
    BY <2>2, <2>5
<1>4. PICK extras \in Seq(S) : extras = V2!Extras(p)
  <2>1. \A e \in X : e \in S
    OBVIOUS
  <2>2. <<"direction", p.direction>> \in X /\ <<"receipt_timestamp", p.receipt_timestamp>> \in X
    OBVIOUS
  <2> HIDE DEF S, X
  <2>3. <<>> \in Seq(S) /\ <<<<"direction", p.direction>>>> \in Seq(S)
        /\ <<<<"receipt_timestamp", p.receipt_timestamp>>>> \in Seq(S)
    BY <2>1, <2>2
  <2>4. V2!Extra("direction", p.direction) \in Seq(S)
    BY <2>3 DEF V2!Extra
  <2>5. V2!Extra("receipt_timestamp", p.receipt_timestamp) \in Seq(S)
    BY <2>3 DEF V2!Extra
  <2>6. V2!Extras(p) \in Seq(S)
    BY <2>4, <2>5, Join DEF V2!Extras
  <2> QED
    BY <2>6
<1>5. ASSUME NEW e \in H PROVE Entry2(e[1], e[2])
  <2>1. CASE e = <<"chip_key", V2!chip_key(p)>>
    <3>1. e[1] = "chip_key" /\ e[2] = V2!chip_key(p)
      BY <2>1
    <3>2. CASE V2!chip_key(p) = None
      BY <3>1, <3>2 DEF Entry2
    <3>3. CASE V2!chip_key(p) # None
      <4>1. V2!chip_key(p) = <<p.io_group, p.io_channel, V2!Get(p, "chip_id")>>
        BY <1>1, <3>3, ChipKey2
      <4>2. V2!chip_key(p)[1] \in Io /\ V2!chip_key(p)[2] \in Io
        BY <4>1 DEF Word2
      <4> QED
        BY <3>1, <4>2 DEF Entry2
    <3> QED
      BY <3>2, <3>3
  <2>2. CASE e = <<"bits", p.bits>>
    BY <2>2 DEF Entry2, Word2
  <2>3. CASE e = <<"valid_parity", V2!has_valid_parity(p)>>
    BY <2>3 DEF Entry2
  <2>4. CASE e = <<"io_group", p.io_group>> \/ e = <<"io_channel", p.io_channel>>
    BY <2>4 DEF Entry2, Word2
  <2> QED
    BY <2>1, <2>2, <2>3, <2>4
<1>6. ASSUME NEW e \in T PROVE Entry2(e[1], e[2])
  BY DEF Entry2, Names2
<1>7. ASSUME NEW e \in X PROVE Entry2(e[1], e[2])
  BY DEF Entry2
<1>8. V2!export(p) = head \o tail \o extras
  BY <1>1, <1>2, <1>3, <1>4 DEF V2!export
<1>9. ASSUME NEW e \in S PROVE Entry2(e[1], e[2])
  BY <1>5, <1>6, <1>7
<1> HIDE DEF H, T, X, N, S
<1>10. head \o tail \o extras \in Seq(S)
  BY Join
<1>11. PICK d \in Seq(S) : d = V2!export(p)
  BY <1>8, <1>10
<1>12. Len(d) \in Nat /\ \A i \in 1..Len(d) : Entry2(d[i][1], d[i][2])
  <2>1. \A i \in 1..Len(d) : d[i] \in S
    OBVIOUS
  <2> QED
    BY <1>9, <2>1
<1> QED
  BY <1>11, <1>12

LEMMA ViaDict2 ==
  ASSUME NEW p, Word2(p), Kept2(p), V2!export(p) # Error
  PROVE  Fresh2(V2!from_dict(V2!export(p)))
<1>1. PICK d : d = V2!export(p) /\ Len(d) \in Nat /\ \A i \in 1..Len(d) : Entry2(d[i][1], d[i][2])
  BY Export2
<1>2. PICK q : q = [V2!NewPacket EXCEPT !.diagnostics = V2!get(d, "local_fifo_events", None) # None
                                           \/ V2!get(d, "shared_fifo_events", None) # None]
  OBVIOUS
<1>3. Fresh2(q)
  BY <1>2, New2 DEF Fresh2, Word2
<1>4. Fresh2(V2!SetAll(q, d))
  BY <1>1, <1>3, SetAllFresh2
<1> QED
  BY <1>1, <1>2, <1>4 DEF V2!from_dict

\* Setting a field to a value that fits leaves every other field as it was.
LEMMA SetElsewhere2 ==
  ASSUME NEW p, Word2(p), p.int # None => p.int = p.bits, NEW name \in Names2, NEW value,
         BitsOf(value) <= V2!FieldWidth(name), NEW other \in Names2,
         Apart(V2!Slice[name], Place2(p, other))
  PROVE  V2!Get(V2!SetBits(p, name, value), other) = V2!Get(p, other)
<1>1. PICK q : q = V2!SetBits(p, name, value)
  OBVIOUS
<1>2. q.int = None /\ q.diagnostics = p.diagnostics
  BY <1>1, SetBits2 DEF SameButBits2
<1>3. V2!Word(p) = p.bits /\ V2!Word(q) = q.bits
  BY <1>2, WordIsBits
<1>4. PICK name2 \in Names2 : Place2(p, other) = V2!Slice[name2]
  BY TimestampName DEF Place2, Names2
<1>5. Span(q.bits, V2!Slice[name2]) = Span(p.bits, V2!Slice[name2])
  BY <1>1, <1>4, Slices2, SetBitsElsewhere2
<1>6. Span(p.bits, Place2(p, other)) = Span(q.bits, Place2(p, other))
  BY <1>4, <1>5
<1> QED
  BY <1>1, <1>2, <1>3, <1>6, GetFrom2

-----------------------------------------------------------------------------
(* Small numbers.                                                          *)

LEMMA BitsOfSmall ==
  /\ \A value \in 0..1 : BitsOf(value) <= 1
  /\ \A value \in 0..3 : BitsOf(value) <= 2
  /\ \A value \in 0..255 : BitsOf(value) <= 8
<1>1. 1..30 = {1} \cup (2..30) /\ 2..30 = {2, 3, 4, 5, 6, 7} \cup (8..30)
  OBVIOUS
<1>2. \A n \in 8..30 : 2^n \in Nat /\ 2^n >= 256
  <2>1. 8..30 = {8, 9, 10, 11, 12, 13, 14, 15, 16, 17, 18, 19, 20, 21, 22, 23, 24, 25, 26, 27,
                 28, 29, 30}
    OBVIOUS
  <2>2. /\ 2^8 >= 256 /\ 2^9 >= 256 /\ 2^10 >= 256 /\ 2^11 >= 256 /\ 2^12 >= 256
        /\ 2^13 >= 256 /\ 2^14 >= 256 /\ 2^15 >= 256 /\ 2^16 >= 256 /\ 2^17 >= 256
        /\ 2^18 >= 256 /\ 2^19 >= 256 /\ 2^20 >= 256 /\ 2^21 >= 256 /\ 2^22 >= 256
        /\ 2^23 >= 256 /\ 2^24 >= 256 /\ 2^25 >= 256 /\ 2^26 >= 256 /\ 2^27 >= 256
        /\ 2^28 >= 256 /\ 2^29 >= 256 /\ 2^30 >= 256
    OBVIOUS
  <2>3. /\ 2^8 \in Nat /\ 2^9 \in Nat /\ 2^10 \in Nat /\ 2^11 \in Nat /\ 2^12 \in Nat /\ 2^13 \in Nat
        /\ 2^14 \in Nat /\ 2^15 \in Nat /\ 2^16 \in Nat /\ 2^17 \in Nat /\ 2^18 \in Nat /\ 2^19 \in Nat
        /\ 2^20 \in Nat /\ 2^21 \in Nat /\ 2^22 \in Nat /\ 2^23 \in Nat /\ 2^24 \in Nat /\ 2^25 \in Nat
        /\ 2^26 \in Nat /\ 2^27 \in Nat /\ 2^28 \in Nat /\ 2^29 \in Nat /\ 2^30 \in Nat
    OBVIOUS
  <2> QED
    BY <2>1, <2>2, <2>3, ZenonT(40)
<1>3. \A n \in 2..30 : 2^n \in Nat /\ 2^n >= 4
  <2>1. \A n \in {2, 3, 4, 5, 6, 7} : 2^n \in Nat /\ 2^n >= 4
    <3>1. 2^2 >= 4 /\ 2^3 >= 4 /\ 2^4 >= 4 /\ 2^5 >= 4 /\ 2^6 >= 4 /\ 2^7 >= 4
      OBVIOUS
    <3>2. 2^2 \in Nat /\ 2^3 \in Nat /\ 2^4 \in Nat /\ 2^5 \in Nat /\ 2^6 \in Nat /\ 2^7 \in Nat
      OBVIOUS
    <3> QED
      BY <3>1, <3>2, Zenon
  <2>2. ASSUME NEW n \in 8..30 PROVE 2^n \in Nat /\ 2^n >= 4
    <3>1. PICK power : power = 2^n
      OBVIOUS
    <3>2. power \in Nat /\ power >= 256
      BY <1>2, <3>1
    <3>3. power >= 4
      BY <3>2
    <3> QED
      BY <3>1, <3>2, <3>3
  <2> QED
    BY <1>1, <2>1, <2>2, Zenon
<1>4. \A n \in 1..30 : 2^n \in Nat /\ 2^n >= 2
  <2>1. 2^1 \in Nat /\ 2^1 >= 2
    OBVIOUS
  <2>2. ASSUME NEW n \in 2..30 PROVE 2^n \in Nat /\ 2^n >= 2
    <3>1. PICK power : power = 2^n
      OBVIOUS
    <3>2. power \in Nat /\ power >= 4
      BY <1>3, <3>1
    <3>3. power >= 2
      BY <3>2
    <3> QED
      BY <3>1, <3>2, <3>3
  <2> QED
    BY <1>1, <2>1, <2>2, Zenon
<1>5. ASSUME NEW w \in 1..30, NEW b \in Nat,
             \A n \in w..30 : 2^n \in Nat /\ 2^n >= b,
             NEW value \in Nat, value < b
      PROVE  BitsOf(value) <= w
  <2> DEFINE S == {n \in 0..30 : 2^n <= value}
  <2>1. S \subseteq 0..w - 1
    <3>1. ASSUME NEW n \in S PROVE n < w
      <4> DEFINE power == 2^n
      <4>1. power <= value
        OBVIOUS
      <4>2. n >= w => power \in Nat /\ power >= b
        BY <1>5
      <4>3. n \in 0..30
        OBVIOUS
      <4> HIDE DEF power, S
      <4> QED
        BY <1>5, <4>1, <4>2, <4>3
    <3> QED
      BY <3>1
  <2>2. 0 \in Int /\ w - 1 \in Int
    OBVIOUS
  <2> HIDE DEF S
  <2>3. IsFiniteSet(0..w - 1) /\ Cardinality(0..w - 1) = w
    <3>1. IsFiniteSet(0..w - 1) /\ Cardinality(0..w - 1) = IF 0 > w - 1 THEN 0 ELSE (w - 1) - 0 + 1
      BY <2>2, FS_Interval
    <3> QED
      BY <3>1
  <2>4. Cardinality(S) <= w
    BY <2>1, <2>3, FS_Subset
  <2> QED
    BY <2>4 DEF BitsOf, S
<1>6. \A value \in 0..1 : BitsOf(value) <= 1
  BY <1>4, <1>5
<1>7. \A value \in 0..3 : BitsOf(value) <= 2
  BY <1>3, <1>5
<1>8. \A value \in 0..255 : BitsOf(value) <= 8
  <2>1. 8 \in 1..30 /\ 256 \in Nat /\ \A value \in 0..255 : value \in Nat /\ value < 256
    OBVIOUS
  <2>2. \A value \in Nat : value < 256 => BitsOf(value) <= 8
    BY <1>2, <1>5, <2>1, Zenon
  <2> QED
    BY <2>1, <2>2
<1> QED
  BY <1>6, <1>7, <1>8

\* Two bits are a number below four.
LEMMA TwoBits ==
  ASSUME NEW s \in Seq(Bit), Len(s) = 2 PROVE touint(s) \in 0..3
<1>1. PICK r \in Seq(Bit) : r = Backwards(s) /\ Len(r) = 2
  <2>1. Backwards(s) = [i \in 1..2 |-> s[2 - i + 1]]
    BY DEF Backwards
  <2>2. [i \in 1..2 |-> s[2 - i + 1]] \in Seq(Bit) /\ Len([i \in 1..2 |-> s[2 - i + 1]]) = 2
    OBVIOUS
  <2> QED
    BY <2>1, <2>2
<1>2. r[1] \in 0..1 /\ r[2] \in 0..1
  BY <1>1 DEF Bit
<1> DEFINE Sum(f) == f = [i \in 0..Len(r) |-> IF i = 0 THEN 0 ELSE 2 * f[i - 1] + r[i]]
           g == [i \in 0..2 |-> IF i = 0 THEN 0 ELSE IF i = 1 THEN r[1] ELSE 2 * r[1] + r[2]]
           f == CHOOSE h : Sum(h)
<1>3. Sum(g)
  <2>1. g[0] = 0 /\ g[1] = r[1] /\ g[2] = 2 * r[1] + r[2]
    OBVIOUS
  <2>2. \A i \in 0..2 : g[i] = IF i = 0 THEN 0 ELSE 2 * g[i - 1] + r[i]
    <3> HIDE DEF g
    <3> QED
      BY <1>2, <2>1
  <2>3. g = [i \in 0..2 |-> g[i]]
    OBVIOUS
  <2> HIDE DEF g
  <2> QED
    BY <1>1, <2>2, <2>3
<1>4. Sum(f)
  BY <1>3
<1>5. touint(s) = f[Len(r)]
  BY <1>1 DEF touint, touint_big
<1> HIDE DEF f
<1>6. f[0] = 0 /\ f[1] = 2 * f[0] + r[1] /\ f[2] = 2 * f[1] + r[2]
  BY <1>1, <1>4
<1>7. f[2] \in 0..3
  BY <1>2, <1>6
<1> QED
  BY <1>1, <1>5, <1>7

\* Setting a field other than the chip's id keeps the key it had, and the
\* key is the same.
LEMMA KeptSetBits2 ==
  ASSUME NEW p, Word2(p), Kept2(p), NEW name \in Names2 \ {"chip_id"}, NEW value,
         BitsOf(value) <= V2!FieldWidth(name)
  PROVE  LET q == V2!SetBits(p, name, value) IN Word2(q) /\ Kept2(q)
<1>1. PICK q : q = V2!SetBits(p, name, value)
  OBVIOUS
<1>2. Word2(q) /\ q.int = None /\ SameButBits2(p, q)
  BY <1>1, SetBits2
<1>3. Apart(V2!Slice[name], Place2(p, "chip_id"))
  BY DEF Apart, Names2, V2!Slice, Place2
<1>4. V2!Get(q, "chip_id") = V2!Get(p, "chip_id")
  <2>1. p.int # None => p.int = p.bits
    BY DEF Kept2, IsKey
  <2>2. "chip_id" \in Names2
    BY DEF Names2
  <2> QED
    BY <1>1, <1>3, <2>1, <2>2, SetElsewhere2
<1>5. Kept2(q)
  BY <1>2, <1>4 DEF Kept2, SameButBits2, IsKey
<1> QED
  BY <1>1, <1>2, <1>5

\* A bit of a pair is set by setting the pair.
LEMMA FlagIsField ==
  ASSUME NEW p, Word2(p), NEW name \in {"local_fifo", "shared_fifo"}, NEW bit \in 0..1
  PROVE  \A q \in {V2!SetHalf(p, name, bit), V2!SetFull(p, name, bit)} :
           \E value : q = V2!SetBits(p, name, value) /\ BitsOf(value) <= V2!FieldWidth(name)
<1>1. name \in Names2 /\ V2!Slice[name][2] - V2!Slice[name][1] = 2
  BY DEF Names2, V2!Slice
<1>2. V2!FieldWidth(name) = 2
  BY <1>1, Slices2
<1>3. PICK clear : clear = [p EXCEPT !.int = None]
  OBVIOUS
<1>4. PICK old : old = V2!Get(clear, name)
  OBVIOUS
<1>5. old \in 0..3
  <2>1. clear.bits = p.bits /\ clear.int = None
    BY <1>3 DEF Word2
  <2>2. V2!Word(clear) = p.bits
    BY <2>1 DEF V2!Word
  <2>3. old = touint(Span(p.bits, V2!Slice[name]))
    BY <1>4, <2>2, SameBits2 DEF V2!Get
  <2>4. PICK s : s = Span(p.bits, V2!Slice[name])
    OBVIOUS
  <2>5. s \in Seq(Bit) /\ Len(s) = 2
    <3>1. PICK a \in Nat : a = V2!Slice[name][1]
      BY <1>1, Slices2
    <3>2. V2!Slice[name][2] = a + 2 /\ a + 2 <= 64
      BY <1>1, <3>1, Slices2
    <3>3. s = SubSeq(p.bits, a + 1, a + 2)
      BY <2>4, <3>1, <3>2 DEF Span
    <3>4. p.bits \in Seq(Bit) /\ Len(p.bits) >= 64
      BY DEF Word2
    <3> QED
      BY <3>2, <3>3, <3>4
  <2> QED
    BY <2>3, <2>4, <2>5, TwoBits
<1>6. (old \div 2) * 2 + bit \in 0..3 /\ bit * 2 + (old % 2) \in 0..3
  BY <1>5
<1>7. V2!SetHalf(p, name, bit) = V2!SetBits(p, name, (old \div 2) * 2 + bit)
  BY <1>3, <1>4 DEF V2!SetHalf
<1>8. V2!SetFull(p, name, bit) = V2!SetBits(p, name, bit * 2 + (old % 2))
  BY <1>3, <1>4 DEF V2!SetFull
<1>9. \A value \in 0..3 : BitsOf(value) <= V2!FieldWidth(name)
  BY <1>2, BitsOfSmall
<1> QED
  BY <1>6, <1>7, <1>8, <1>9

LEMMA Parity2 ==
  ASSUME NEW p
  PROVE  V2!compute_parity(p) \in 0..1 /\ BitsOf(V2!compute_parity(p)) <= V2!FieldWidth("parity")
<1> DEFINE S == {i \in 1..63 : p.bits[i] = 1}
<1>1. V2!compute_parity(p) = 1 - (Cardinality(S) % 2)
  BY DEF V2!compute_parity, V2!Slice, V2!Cardinality, Cardinality
<1>2. Cardinality(S) \in Nat
  <2>1. IsFiniteSet(1..63)
    <3>1. 1 \in Int /\ 63 \in Int
      OBVIOUS
    <3> HIDE DEF S
    <3> QED
      BY <3>1, FS_Interval
  <2>2. IsFiniteSet(S)
    BY <2>1, FS_Subset
  <2> QED
    BY <2>2, FS_CardinalityType
<1> HIDE DEF S
<1>3. V2!compute_parity(p) \in 0..1
  BY <1>1, <1>2
<1>4. V2!FieldWidth("parity") = 1
  <2>1. "parity" \in Names2 /\ V2!Slice["parity"][2] - V2!Slice["parity"][1] = 1
    BY DEF Names2, V2!Slice
  <2> QED
    BY <2>1, Slices2
<1> QED
  BY <1>3, <1>4, BitsOfSmall

LEMMA ReadKey2 ==
  ASSUME NEW p, Word2(p), Kept2(p)
  PROVE  LET q == V2!ReadKey(p) IN Word2(q) /\ Kept2(q)
<1>1. CASE V2!chip_key(p) = Error
  BY <1>1 DEF V2!ReadKey
<1>2. CASE V2!chip_key(p) # Error
  <2>1. PICK k : k = V2!chip_key(p)
    OBVIOUS
  <2>2. PICK q : q = [p EXCEPT !.key = k]
    OBVIOUS
  <2>3. V2!ReadKey(p) = q
    BY <1>2, <2>1, <2>2 DEF V2!ReadKey
  <2>4. Word2(q) /\ q.bits = p.bits /\ q.int = p.int /\ q.key = k
        /\ q.io_group = p.io_group /\ q.io_channel = p.io_channel
    BY <2>2 DEF Word2
  <2>5. V2!Get(q, "chip_id") = V2!Get(p, "chip_id")
    BY <2>4 DEF V2!Get
  <2>6. k # None => IsKey(k, V2!Get(p, "chip_id"), p)
    BY <1>2, <2>1, ChipKey2
  <2>7. Kept2(q)
    BY <2>4, <2>5, <2>6 DEF Kept2, IsKey
  <2> QED
    BY <2>3, <2>4, <2>7
<1> QED
  BY <1>1, <1>2

LEMMA Rest2 ==
  ASSUME NEW p, Word2(p), Kept2(p)
  PROVE  /\ Word2(V2!as_int(p)) /\ Kept2(V2!as_int(p))
         /\ LET q == [p EXCEPT !.diagnostics = TRUE] IN Word2(q) /\ Kept2(q)
<1>1. V2!Word(p) = p.bits
  BY WordIsBits DEF Kept2, IsKey
<1>2. PICK q : q = [p EXCEPT !.int = p.bits]
  OBVIOUS
<1>3. V2!as_int(p) = q
  BY <1>1, <1>2 DEF V2!as_int
<1>4. Word2(q) /\ Kept2(q)
  <2>1. Word2(q) /\ q.bits = p.bits /\ q.int = p.bits /\ q.key = p.key
        /\ q.io_group = p.io_group /\ q.io_channel = p.io_channel
    BY <1>2 DEF Word2
  <2>2. V2!Get(q, "chip_id") = V2!Get(p, "chip_id")
    BY <2>1 DEF V2!Get
  <2> QED
    BY <2>1, <2>2 DEF Kept2, IsKey
<1>5. PICK r : r = [p EXCEPT !.diagnostics = TRUE]
  OBVIOUS
<1>6. Word2(r) /\ Kept2(r)
  <2>1. Word2(r) /\ r.bits = p.bits /\ r.int = p.int /\ r.key = p.key
        /\ r.io_group = p.io_group /\ r.io_channel = p.io_channel
    BY <1>5 DEF Word2
  <2>2. V2!Get(r, "chip_id") = V2!Get(p, "chip_id")
    BY <2>1 DEF V2!Get
  <2> QED
    BY <2>1, <2>2 DEF Kept2, IsKey
<1> QED
  BY <1>3, <1>4, <1>5, <1>6

\* Every setter of a field, of a value that fits.
LEMMA SetField2Kept ==
  ASSUME NEW p, Word2(p), Kept2(p), NEW name \in Names2 \ {"fifo_diagnostics_timestamp"}, NEW value,
         BitsOf(value) <= V2!FieldWidth(IF name = "timestamp" THEN V2!TimestampField(p) ELSE name)
  PROVE  LET q == V2!Set(p, name, value) IN Word2(q) /\ Kept2(q)
<1>1. PICK q : q = V2!Set(p, name, value)
  OBVIOUS
<1>2. Word2(q) /\ q.int = None /\ (name = "chip_id" => q.key = None)
  BY <1>1, SetField2Word
<1>3. CASE name = "chip_id"
  BY <1>1, <1>2, <1>3 DEF Kept2, IsKey
<1>4. CASE name = "timestamp"
  <2>1. q = V2!SetBits(p, V2!TimestampField(p), value)
    BY <1>1, <1>4 DEF V2!Set
  <2>2. V2!TimestampField(p) \in Names2 \ {"chip_id"}
    BY TimestampName DEF Names2
  <2> QED
    BY <1>1, <1>4, <2>1, <2>2, KeptSetBits2
<1>5. CASE name \in {"local_fifo_events", "shared_fifo_events"}
  <2>1. q = V2!SetEvents(p, name, value)
    BY <1>1, <1>5 DEF V2!Set
  <2>2. CASE p.diagnostics
    <3>1. q = V2!SetBits(p, name, value) /\ name # "timestamp" /\ name # "chip_id"
      BY <1>5, <2>1, <2>2 DEF V2!SetEvents
    <3> QED
      BY <1>1, <3>1, KeptSetBits2
  <2>3. CASE ~p.diagnostics
    <3>1. q = [p EXCEPT !.int = None]
      BY <2>1, <2>3 DEF V2!SetEvents
    <3>2. q.bits = p.bits /\ q.key = p.key /\ q.io_group = p.io_group /\ q.io_channel = p.io_channel
      BY <3>1 DEF Word2
    <3>3. V2!Get(q, "chip_id") = V2!Get(p, "chip_id")
      BY <3>2 DEF V2!Get
    <3> QED
      BY <1>1, <1>2, <3>2, <3>3 DEF Kept2, IsKey
  <2> QED
    BY <2>2, <2>3
<1>6. CASE name \notin {"chip_id", "timestamp", "local_fifo_events", "shared_fifo_events"}
  <2>1. q = V2!SetBits(p, name, value)
    BY <1>1, <1>6 DEF V2!Set, Names2
  <2> QED
    BY <1>1, <1>6, <2>1, KeptSetBits2
<1> QED
  BY <1>3, <1>4, <1>5, <1>6

LEMMA SetField1Kept ==
  ASSUME NEW p, Word1(p), Kept1(p), NEW name \in Names1 \cup {"counter"}, NEW value,
         BitsOf(value) <= V1!FieldWidth(name)
  PROVE  LET q == V1!Set(p, name, value) IN Word1(q) /\ Kept1(q)
<1>1. PICK q : q = V1!Set(p, name, value)
  OBVIOUS
<1>2. CASE name = "chipid"
  BY <1>1, <1>2, SetChipId1 DEF V1!Set, Fresh1, Kept1, IsKey
<1>3. CASE name # "chipid"
  <2>1. q = V1!SetBits(p, name, value)
    BY <1>1, <1>3 DEF V1!Set, Names1
  <2>2. Word1(q) /\ q.key = p.key /\ q.io_group = p.io_group /\ q.io_channel = p.io_channel
    BY <2>1, SetBits1
  <2>3. \A a \in Places1(name), b \in Places1("chipid") : Apart(a, b)
    BY <1>3 DEF Places1, Apart, Names1, Halves1, V1!Slice
  <2>4. V1!Get(q, "chipid") = V1!Get(p, "chipid")
    <3>1. "chipid" \in Names1 \cup {"counter"}
      BY DEF Names1
    <3> QED
      BY <2>1, <2>3, <3>1, SetElsewhere1
  <2> QED
    BY <1>1, <2>2, <2>4 DEF Kept1, IsKey
<1> QED
  BY <1>2, <1>3

LEMMA Parity1 ==
  ASSUME NEW p
  PROVE  V1!compute_parity(p) \in 0..1 /\ BitsOf(V1!compute_parity(p)) <= V1!FieldWidth("parity")
<1> DEFINE S == {i \in 2..54 : p.bits[i] = 1}
<1>1. V1!compute_parity(p) = 1 - (Cardinality(S) % 2)
  BY DEF V1!compute_parity, V1!size, V1!Cardinality, Cardinality
<1>2. Cardinality(S) \in Nat
  <2>1. IsFiniteSet(2..54)
    <3>1. 2 \in Int /\ 54 \in Int
      OBVIOUS
    <3> HIDE DEF S
    <3> QED
      BY <3>1, FS_Interval
  <2>2. IsFiniteSet(S)
    BY <2>1, FS_Subset
  <2> QED
    BY <2>2, FS_CardinalityType
<1> HIDE DEF S
<1>3. V1!compute_parity(p) \in 0..1
  BY <1>1, <1>2
<1>4. V1!FieldWidth("parity") = 1
  BY SameBits1 DEF V1!FieldWidth, Width, V1!Slice
<1> QED
  BY <1>3, <1>4, BitsOfSmall

LEMMA ReadKey1 ==
  ASSUME NEW p, Word1(p), Kept1(p)
  PROVE  LET q == V1!ReadKey(p) IN Word1(q) /\ Kept1(q)
<1>1. CASE V1!chip_key(p) = Error
  BY <1>1 DEF V1!ReadKey
<1>2. CASE V1!chip_key(p) # Error
  <2>1. PICK k : k = V1!chip_key(p)
    OBVIOUS
  <2>2. PICK q : q = [p EXCEPT !.key = k]
    OBVIOUS
  <2>3. V1!ReadKey(p) = q
    BY <1>2, <2>1, <2>2 DEF V1!ReadKey
  <2>4. Word1(q) /\ q.bits = p.bits /\ q.key = k
        /\ q.io_group = p.io_group /\ q.io_channel = p.io_channel
    BY <2>2 DEF Word1
  <2>5. V1!Get(q, "chipid") = V1!Get(p, "chipid")
    BY <2>4 DEF V1!Get
  <2>6. k # None => IsKey(k, V1!Get(p, "chipid"), p)
    BY <1>2, <2>1, ChipKey1
  <2>7. Kept1(q)
    BY <2>4, <2>5, <2>6 DEF Kept1, IsKey
  <2> QED
    BY <2>3, <2>4, <2>7
<1> QED
  BY <1>1, <1>2

-----------------------------------------------------------------------------
(* Packets of the plain kinds.                                             *)

PlainKinds == {"timestamp", "message", "sync", "trigger"}

\* What its kind has for attributes; a sync or trigger has no group or a number.
PlainPacket(p) ==
  /\ p.kind \in PlainKinds /\ DOMAIN p = DOMAIN Blank(p.kind)
  /\ p.kind \in {"sync", "trigger"} => p.io_group \in Io

LEMMA BlankType ==
  /\ DOMAIN Blank("timestamp") = {"kind", "timestamp"}
  /\ DOMAIN Blank("message") = {"kind", "message", "timestamp"}
  /\ DOMAIN Blank("sync") = {"kind", "io_group", "sync_type", "timestamp", "clk_source"}
  /\ DOMAIN Blank("trigger") = {"kind", "io_group", "trigger_type", "timestamp"}
  BY DEF Blank, TimestampPacket, MessagePacket, SyncPacket, TriggerPacket

LEMMA MadePlain ==
  ASSUME NEW a, NEW b, NEW c, NEW g
  PROVE  /\ PlainPacket(TimestampPacket(a)) /\ PlainPacket(MessagePacket(a, b))
         /\ g \in Io => PlainPacket(SyncPacket(a, b, c, g)) /\ PlainPacket(TriggerPacket(a, b, g))
<1>1. PlainPacket(TimestampPacket(a))
  BY BlankType DEF PlainPacket, PlainKinds, TimestampPacket
<1>2. PlainPacket(MessagePacket(a, b))
  BY BlankType DEF PlainPacket, PlainKinds, MessagePacket
<1>3. ASSUME g \in Io PROVE PlainPacket(SyncPacket(a, b, c, g))
  BY <1>3, BlankType DEF PlainPacket, PlainKinds, SyncPacket
<1>4. ASSUME g \in Io PROVE PlainPacket(TriggerPacket(a, b, g))
  BY <1>4, BlankType DEF PlainPacket, PlainKinds, TriggerPacket
<1> QED
  BY <1>1, <1>2, <1>3, <1>4

LEMMA BlankPlain == ASSUME NEW kind \in PlainKinds PROVE PlainPacket(Blank(kind)) /\ Blank(kind).kind = kind
<1>1. Blank("timestamp") = TimestampPacket(None) /\ Blank("message") = MessagePacket(0, 0)
      /\ Blank("sync") = SyncPacket(None, None, None, None)
      /\ Blank("trigger") = TriggerPacket(None, None, None)
  BY DEF Blank
<1>2. None \in Io
  BY DEF Io
<1>3. /\ TimestampPacket(None).kind = "timestamp" /\ MessagePacket(0, 0).kind = "message"
      /\ SyncPacket(None, None, None, None).kind = "sync"
      /\ TriggerPacket(None, None, None).kind = "trigger"
  BY DEF TimestampPacket, MessagePacket, SyncPacket, TriggerPacket
<1> QED
  BY <1>1, <1>2, <1>3, MadePlain DEF PlainKinds

\* What may be assigned to a plain packet by name.
EntryPlain(p, name, value) ==
  /\ name \in (DOMAIN p \ {"kind"}) \cup {"type"}
  /\ name = "type" => value \in Nat
  /\ name = "io_group" => value \in Io

LEMMA FromDictRuns ==
  ASSUME NEW kind, NEW d, Len(d) \in Nat
  PROVE  \E f : /\ f[0] = Blank(kind)
                /\ \A i \in 1..Len(d) : f[i] = Set(f[i - 1], d[i][1], d[i][2])
                /\ from_dict(kind, d) = f[Len(d)]
<1> DEFINE Run(f, n) ==
             f = [i \in 0..n |-> IF i = 0 THEN Blank(kind) ELSE Set(f[i - 1], d[i][1], d[i][2])]
           T == {n \in Nat : \E f : Run(f, n)}
<1>1. 0 \in T
  <2>1. Run([i \in 0..0 |-> Blank(kind)], 0)
    OBVIOUS
  <2> QED
    BY <2>1
<1>2. ASSUME NEW n \in Nat, n \in T PROVE n + 1 \in T
  <2>1. PICK f : Run(f, n)
    BY <1>2
  <2> DEFINE last == Set(f[n], d[n + 1][1], d[n + 1][2])
             g == [i \in 0..n + 1 |-> IF i = n + 1 THEN last ELSE f[i]]
  <2>2. ASSUME NEW i \in 0..n + 1
        PROVE  g[i] = IF i = 0 THEN Blank(kind) ELSE Set(g[i - 1], d[i][1], d[i][2])
    <3>1. CASE i = n + 1
      <4>1. g[i] = last /\ i # 0 /\ i - 1 = n /\ g[n] = f[n]
        BY <3>1
      <4> QED
        BY <3>1, <4>1 DEF last
    <3>2. CASE i # n + 1
      <4>1. i \in 0..n /\ g[i] = f[i] /\ (i # 0 => g[i - 1] = f[i - 1])
        BY <3>2
      <4> QED
        BY <2>1, <4>1
    <3> QED
      BY <3>1, <3>2
  <2>3. Run(g, n + 1)
    <3>1. g = [i \in 0..n + 1 |-> g[i]]
      OBVIOUS
    <3> HIDE DEF g
    <3> QED
      BY <2>2, <3>1
  <2> HIDE DEF Run, g
  <2> QED
    BY <2>3
<1>3. PICK h : Run(h, Len(d))
  <2> HIDE DEF T
  <2>1. \A n \in Nat : n \in T
    BY <1>1, <1>2, Induction
  <2> QED
    BY <2>1 DEF T
<1> DEFINE f == CHOOSE g : Run(g, Len(d))
<1>4. Run(f, Len(d))
  BY <1>3
<1>5. from_dict(kind, d) = f[Len(d)]
  BY DEF from_dict
<1> HIDE DEF f
<1>6. f[0] = Blank(kind) /\ \A i \in 1..Len(d) : f[i] = Set(f[i - 1], d[i][1], d[i][2])
  BY <1>4
<1> QED
  BY <1>5, <1>6

\* The entries of an export: bits, when there are any, are the last.
Entries(p, d) ==
  /\ Len(d) \in Nat \ {0}
  /\ \A i \in 1..Len(d) - 1 : EntryPlain(p, d[i][1], d[i][2])
  /\ \/ EntryPlain(p, d[Len(d)][1], d[Len(d)][2])
     \/ d[Len(d)][1] = "bits" /\ p.kind \in {"timestamp", "message"}

\* A plain packet's export.
LEMMA ExportPlain ==
  ASSUME NEW p, PlainPacket(p) PROVE Entries(p, export(p))
<1> DEFINE N == DOMAIN p \ {"kind"}
           t == <<"type", packet_type(p)>>
           S == {<<n, p[n]>> : n \in N} \cup {t}
           b == <<"bits", bits(p)>>
           Values1(names) == [i \in 1..Len(names) |-> <<names[i], p[names[i]]>>]
<1>1. PICK names \in Seq(N) :
        export(p) = <<t>> \o Values1(names) \o (IF p.kind \in {"timestamp", "message"} THEN <<b>> ELSE <<>>)
  <2>1. CASE p.kind = "timestamp"
    <3>1. <<"timestamp">> \in Seq(N)
      BY <2>1, BlankType DEF PlainPacket
    <3> QED
      BY <2>1, <3>1 DEF export
  <2>2. CASE p.kind = "message"
    <3>1. <<"message", "timestamp">> \in Seq(N)
      BY <2>2, BlankType DEF PlainPacket
    <3> QED
      BY <2>2, <3>1 DEF export
  <2>3. CASE p.kind = "sync"
    <3>1. <<"io_group", "sync_type", "timestamp", "clk_source">> \in Seq(N)
      BY <2>3, BlankType DEF PlainPacket
    <3> QED
      BY <2>3, <3>1 DEF export
  <2>4. CASE p.kind = "trigger"
    <3>1. <<"io_group", "trigger_type", "timestamp">> \in Seq(N)
      BY <2>4, BlankType DEF PlainPacket
    <3> QED
      BY <2>4, <3>1 DEF export
  <2> QED
    BY <2>1, <2>2, <2>3, <2>4 DEF PlainPacket, PlainKinds
<1>2. ASSUME NEW e \in S PROVE EntryPlain(p, e[1], e[2])
  <2>1. CASE e = t
    <3>1. packet_type(p) \in Nat
      BY DEF packet_type, PlainPacket, PlainKinds
    <3> QED
      BY <2>1, <3>1 DEF EntryPlain
  <2>2. ASSUME NEW n \in N, e = <<n, p[n]>> PROVE EntryPlain(p, e[1], e[2])
    <3>1. n # "type" /\ (n = "io_group" => p[n] \in Io)
      BY BlankType DEF PlainPacket, PlainKinds
    <3> QED
      BY <2>2, <3>1 DEF EntryPlain
  <2> QED
    BY <2>1, <2>2
<1>3. PICK values \in Seq(S) : values = Values1(names)
  <2>1. \A i \in 1..Len(names) : names[i] \in N
    OBVIOUS
  <2>2. \A i \in 1..Len(names) : <<names[i], p[names[i]]>> \in S
    BY <2>1
  <2> HIDE DEF S
  <2>3. Values1(names) \in Seq(S)
    BY <2>2
  <2> QED
    BY <2>3
<1>4. t \in S
  OBVIOUS
<1> HIDE DEF S, N, t, b, Values1
<1>5. PICK front \in Seq(S) : front = <<t>> \o values /\ Len(front) >= 1
  <2>1. <<t>> \in Seq(S) /\ Len(<<t>>) = 1
    BY <1>4
  <2> DEFINE one == <<t>>
  <2> HIDE DEF one
  <2>2. one \o values \in Seq(S) /\ Len(one \o values) >= 1
    BY <2>1 DEF one
  <2> QED
    BY <2>2 DEF one
<1>6. CASE p.kind \in {"timestamp", "message"}
  <2>1. export(p) = front \o <<b>>
    BY <1>1, <1>3, <1>5, <1>6
  <2>2. PICK d : d = front \o <<b>>
    OBVIOUS
  <2>3. Len(d) \in Nat \ {0} /\ Len(d) - 1 = Len(front) /\ d[Len(d)] = b
        /\ \A i \in 1..Len(front) : d[i] = front[i] /\ front[i] \in S
    BY <2>2
  <2>4. b[1] = "bits"
    BY DEF b
  <2> QED
    BY <1>2, <1>6, <2>1, <2>2, <2>3, <2>4 DEF Entries
<1>7. CASE p.kind \notin {"timestamp", "message"}
  <2>1. export(p) = front \o <<>>
    BY <1>1, <1>3, <1>5, <1>7
  <2>2. front \o <<>> = front
    OBVIOUS
  <2>3. Len(front) \in Nat \ {0} /\ \A i \in 1..Len(front) : front[i] \in S
    BY <1>5
  <2>4. Len(front) \in 1..Len(front) /\ \A i \in 1..Len(front) - 1 : i \in 1..Len(front)
    BY <2>3
  <2> QED
    BY <1>2, <2>1, <2>2, <2>3, <2>4 DEF Entries
<1> QED
  BY <1>6, <1>7

-----------------------------------------------------------------------------
(* The digits of a number and the value of digits, as far as 31 of them.   *)

\* Powers of two, one by one: each halves what the one before leaves.
Halves(k) ==
  \A v \in Nat : /\ v \div 2^k \in Nat /\ v \div 2^(k + 1) = (v \div 2^k) \div 2
                 /\ 2^k <= v <=> v \div 2^k # 0

LEMMA Powers ==
  /\ \A v \in Nat : v \div 2^0 = v
  /\ \A k \in 0..30 : Halves(k)
<1>1. \A v \in Nat : v \div 2^0 = v
  OBVIOUS
<1>2. Halves(0) /\ Halves(1) /\ Halves(2) /\ Halves(3) /\ Halves(4) /\ Halves(5) /\ Halves(6) /\ Halves(7)
  BY DEF Halves
<1>3. Halves(8) /\ Halves(9) /\ Halves(10) /\ Halves(11) /\ Halves(12) /\ Halves(13) /\ Halves(14) /\ Halves(15)
  BY DEF Halves
<1>4. Halves(16) /\ Halves(17) /\ Halves(18) /\ Halves(19) /\ Halves(20) /\ Halves(21) /\ Halves(22) /\ Halves(23)
  BY DEF Halves
<1>5. Halves(24) /\ Halves(25) /\ Halves(26) /\ Halves(27) /\ Halves(28) /\ Halves(29) /\ Halves(30)
  BY DEF Halves
<1>6. 0..30 = (0..7) \cup (8..15) \cup (16..23) \cup (24..30)
  OBVIOUS
<1>7. 0..7 = {0, 1, 2, 3, 4, 5, 6, 7}
  OBVIOUS
<1>8. \A k \in 0..7 : Halves(k)
  BY <1>2, <1>7, Zenon
<1>9. 8..15 = {8, 9, 10, 11, 12, 13, 14, 15}
  OBVIOUS
<1>10. \A k \in 8..15 : Halves(k)
  BY <1>3, <1>9, Zenon
<1>11. 16..23 = {16, 17, 18, 19, 20, 21, 22, 23}
  OBVIOUS
<1>12. \A k \in 16..23 : Halves(k)
  BY <1>4, <1>11, Zenon
<1>13. 24..30 = {24, 25, 26, 27, 28, 29, 30}
  OBVIOUS
<1>14. \A k \in 24..30 : Halves(k)
  BY <1>5, <1>13, Zenon
<1> QED
  BY <1>1, <1>6, <1>8, <1>10, <1>12, <1>14, Zenon

\* What is left of a value when its last digits are gone.
LEMMA Quotients ==
  ASSUME NEW v \in Nat
  PROVE  \E q \in [0..31 -> Nat] :
           /\ q[0] = v /\ \A k \in 0..30 : q[k + 1] = q[k] \div 2
           /\ \A k \in 0..31 : q[k] = v \div 2^k
           /\ \A k \in 0..30 : 2^k <= v <=> q[k] # 0
<1> DEFINE q == [k \in 0..31 |-> v \div 2^k]
<1>1. \A k \in 0..30 : /\ v \div 2^k \in Nat /\ v \div 2^(k + 1) = (v \div 2^k) \div 2
                       /\ 2^k <= v <=> v \div 2^k # 0
  BY Powers DEF Halves
<1>2. \A k \in 0..31 : q[k] = v \div 2^k
  OBVIOUS
<1>3. q[0] = v
  BY <1>2, Powers
<1>4. \A k \in 0..31 : k \in 0..30 \/ (k - 1 \in 0..30 /\ (k - 1) + 1 = k)
  OBVIOUS
<1>5. \A k \in 0..30 : k \in 0..31 /\ k + 1 \in 0..31
  OBVIOUS
<1>6. \A k \in 0..31 : q[k] \in Nat
  <2> HIDE DEF q
  <2> SUFFICES ASSUME NEW k \in 0..31 PROVE v \div 2^k \in Nat
    BY <1>2
  <2>1. CASE k \in 0..30
    BY <1>1, <2>1
  <2>2. CASE k - 1 \in 0..30 /\ (k - 1) + 1 = k
    <3>1. PICK m \in 0..30 : m + 1 = k
      BY <2>2
    <3>2. PICK r \in Nat : r = v \div 2^m
      BY <1>1
    <3>3. v \div 2^(m + 1) = r \div 2
      BY <1>1, <3>2
    <3>4. r \div 2 \in Nat
      OBVIOUS
    <3> QED
      BY <3>1, <3>3, <3>4
  <2> QED
    BY <1>4, <2>1, <2>2
<1>7. q \in [0..31 -> Nat]
  BY <1>6
<1> HIDE DEF q
<1>8. \A k \in 0..30 : q[k + 1] = q[k] \div 2 /\ (2^k <= v <=> q[k] # 0)
  BY <1>1, <1>2, <1>5
<1> QED
  BY <1>2, <1>3, <1>7, <1>8

\* A value has as many digits as it takes to leave nothing.
LEMMA DigitsLeft ==
  ASSUME NEW v \in Nat, NEW q \in [0..31 -> Nat],
         \A k \in 0..30 : q[k + 1] = q[k] \div 2,
         \A k \in 0..30 : 2^k <= v <=> q[k] # 0,
         q[31] = 0
  PROVE  \A k \in 0..31 : q[k] = 0 <=> BitsOf(v) <= k
<1> DEFINE T == {k \in 0..31 : q[k] = 0}
<1>0. T \subseteq Nat /\ T # {}
  OBVIOUS
<1>1. PICK n \in T : \A m \in T : n <= m
  <2> HIDE DEF T
  <2> QED
    BY <1>0, Least
<1>2. \A k \in 0..31 : q[k] \in Nat
  OBVIOUS
<1>3. \A k \in Nat : k <= 31 => (q[k] = 0 <=> n <= k)
  <2> DEFINE U == {k \in Nat : k <= 31 => (q[k] = 0 <=> n <= k)}
  <2>1. 0 \in U
    BY <1>1
  <2>2. ASSUME NEW k \in Nat, k \in U PROVE k + 1 \in U
    <3> SUFFICES ASSUME k + 1 <= 31 PROVE q[k + 1] = 0 <=> n <= k + 1
      OBVIOUS
    <3>1. k \in 0..30 /\ k + 1 \in 0..31 /\ n \in 0..31 /\ q[n] = 0
      BY <1>1
    <3>2. q[k + 1] = 0 => n <= k + 1
      BY <1>1, <3>1
    <3>3. q[k] = 0 <=> n <= k
      BY <2>2, <3>1
    <3>4. q[k + 1] = q[k] \div 2 /\ q[k] \in Nat
      BY <3>1
    <3>5. CASE n <= k
      BY <3>1, <3>3, <3>4, <3>5
    <3>6. CASE n = k + 1
      BY <3>1, <3>6
    <3>7. CASE n > k + 1
      BY <3>1, <3>2, <3>7
    <3> QED
      BY <3>1, <3>5, <3>6, <3>7
  <2> HIDE DEF U
  <2>3. \A k \in Nat : k \in U
    BY <2>1, <2>2, Induction
  <2> QED
    BY <2>3 DEF U
<1>4. n \in 0..31
  BY <1>1
<1> HIDE DEF T
<1>5. {k \in 0..30 : 2^k <= v} = 0..(n - 1)
  <2>1. \A k \in 0..30 : 2^k <= v <=> k < n
    <3> SUFFICES ASSUME NEW k \in 0..30 PROVE q[k] # 0 <=> k < n
      OBVIOUS
    <3>1. k \in Nat /\ k <= 31
      OBVIOUS
    <3> QED
      BY <1>3, <1>4, <3>1
  <2>2. {k \in 0..30 : 2^k <= v} = {k \in 0..30 : k < n}
    BY <2>1
  <2>3. {k \in 0..30 : k < n} = 0..(n - 1)
    <3>1. \A k \in 0..30 : k < n => k \in 0..(n - 1)
      BY <1>4
    <3>2. \A k \in 0..(n - 1) : k \in 0..30 /\ k < n
      BY <1>4
    <3> QED
      BY <3>1, <3>2
  <2> QED
    BY <2>2, <2>3
<1>6. Cardinality(0..(n - 1)) = n
  <2>1. PICK m \in Int : m = n - 1 /\ 0 \in Int
    BY <1>4
  <2>2. Cardinality(0..m) = IF 0 > m THEN 0 ELSE m - 0 + 1
    BY <2>1, FS_Interval
  <2>3. (IF 0 > m THEN 0 ELSE m - 0 + 1) = n
    BY <1>4, <2>1
  <2> QED
    BY <2>1, <2>2, <2>3
<1>7. BitsOf(v) = n
  BY <1>5, <1>6 DEF BitsOf
<1>8. \A k \in 0..31 : k \in Nat /\ k <= 31
  OBVIOUS
<1> QED
  BY <1>3, <1>7, <1>8

LEMMA BackwardsIs ==
  ASSUME NEW s \in Seq(Bit)
  PROVE  /\ Backwards(s) \in Seq(Bit) /\ Len(Backwards(s)) = Len(s)
         /\ \A i \in 1..Len(s) : Backwards(s)[i] = s[Len(s) - i + 1]
<1>1. PICK l \in Nat : l = Len(s)
  OBVIOUS
<1>2. Backwards(s) = [i \in 1..l |-> s[l - i + 1]]
  BY <1>1 DEF Backwards
<1>3. \A i \in 1..l : l - i + 1 \in 1..l
  OBVIOUS
<1>4. \A i \in 1..l : s[l - i + 1] \in Bit
  BY <1>1, <1>3
<1> DEFINE r == [i \in 1..l |-> s[l - i + 1]]
<1>5. r \in Seq(Bit) /\ Len(r) = l /\ \A i \in 1..l : r[i] = s[l - i + 1]
  BY <1>4
<1> QED
  BY <1>1, <1>2, <1>5

LEMMA InSecond ==
  ASSUME NEW a \in Seq(Bit), NEW b \in Seq(Bit), NEW i \in 1..Len(b)
  PROVE  (a \o b)[Len(a) + i] = b[i]
  OBVIOUS

LEMMA BitsEqual ==
  ASSUME NEW a \in Seq(Bit), NEW b \in Seq(Bit), Len(a) = Len(b), \A i \in 1..Len(a) : a[i] = b[i]
  PROVE  a = b
  OBVIOUS

LEMMA BackwardsTwice ==
  ASSUME NEW s \in Seq(Bit) PROVE Backwards(Backwards(s)) = s
<1>1. PICK r \in Seq(Bit) : r = Backwards(s)
  BY BackwardsIs
<1>2. PICK t \in Seq(Bit) : t = Backwards(r)
  BY BackwardsIs
<1>3. Len(r) = Len(s) /\ Len(t) = Len(s) /\ Len(s) \in Nat
  BY <1>1, <1>2, BackwardsIs
<1>4. ASSUME NEW i \in 1..Len(t) PROVE t[i] = s[i]
  <2>1. PICK j \in 1..Len(s) : j = Len(s) - i + 1 /\ Len(s) - j + 1 = i
    <3>1. Len(s) - i + 1 \in 1..Len(s) /\ Len(s) - (Len(s) - i + 1) + 1 = i
      BY <1>3
    <3> QED
      BY <3>1
  <2>2. t[i] = r[j]
    BY <1>2, <1>3, <2>1, BackwardsIs
  <2>3. r[j] = s[i]
    BY <1>1, <2>1, BackwardsIs
  <2> QED
    BY <2>2, <2>3
<1>5. t = s
  BY <1>3, <1>4, BitsEqual
<1> QED
  BY <1>1, <1>2, <1>5

\* The digits of a value: e[m] is what is left of it without the last m.
Digits(e, v) ==
  /\ e[0] = v /\ \A m \in Nat : e[m] \in Nat /\ e[m + 1] = e[m] \div 2
  /\ \A m \in Nat : e[m] = 0 <=> BitsOf(v) <= m

LEMMA HasDigits ==
  ASSUME NEW v \in Nat, v \div 2^31 = 0
  PROVE  \E e : /\ Digits(e, v)
                /\ \A w \in Nat : BitsOf(v) <= w =>
                     \A j \in 1..w : fromuint_big(v, w)[j] = e[w - j] % 2
<1>1. PICK q \in [0..31 -> Nat] :
        /\ q[0] = v /\ \A k \in 0..30 : q[k + 1] = q[k] \div 2
        /\ \A k \in 0..31 : q[k] = v \div 2^k
        /\ \A k \in 0..30 : 2^k <= v <=> q[k] # 0
  BY Quotients
<1>2. q[31] = 0
  <2>1. 31 \in 0..31
    OBVIOUS
  <2>2. q[31] = v \div 2^31
    BY <1>1, <2>1
  <2> QED
    BY <2>2
<1>3. \A k \in 0..31 : q[k] = 0 <=> BitsOf(v) <= k
  BY <1>1, <1>2, DigitsLeft
<1>4. BitsOf(v) \in 0..31
  BY BitsOfType
<1>5. PICK n \in 0..31 : n = BitsOf(v)
  BY <1>4
<1> DEFINE e == [m \in Nat |-> IF m <= 31 THEN q[m] ELSE 0]
<1>6. \A m \in Nat : e[m] = IF m <= 31 THEN q[m] ELSE 0
  OBVIOUS
<1> HIDE DEF e
<1>7. \A k \in 0..31 : q[k] \in Nat
  OBVIOUS
<1>8. Digits(e, v)
  <2>1. e[0] = v
    BY <1>1, <1>6
  <2>2. ASSUME NEW m \in Nat PROVE e[m] \in Nat /\ e[m + 1] = e[m] \div 2 /\ (e[m] = 0 <=> n <= m)
    <3>1. CASE m <= 30
      <4>1. m \in 0..30 /\ m \in 0..31 /\ m + 1 \in Nat /\ m + 1 <= 31 /\ m <= 31
        BY <3>1
      <4>2. e[m] = q[m] /\ e[m + 1] = q[m + 1]
        BY <1>6, <4>1
      <4>3. q[m] \in Nat /\ q[m + 1] = q[m] \div 2
        BY <1>1, <4>1
      <4>4. q[m] = 0 <=> n <= m
        BY <1>3, <1>5, <4>1
      <4> QED
        BY <4>2, <4>3, <4>4
    <3>2. CASE m = 31
      <4>1. e[m] = 0 /\ e[m + 1] = 0
        BY <1>2, <1>6, <3>2
      <4> QED
        BY <3>2, <4>1
    <3>3. CASE m > 31
      <4>1. e[m] = 0 /\ e[m + 1] = 0
        BY <1>6, <3>3
      <4> QED
        BY <3>3, <4>1
    <3> QED
      BY <3>1, <3>2, <3>3
  <2> QED
    BY <1>5, <2>1, <2>2 DEF Digits
<1>9. ASSUME NEW w \in Nat, BitsOf(v) <= w, NEW j \in 1..w
      PROVE  fromuint_big(v, w)[j] = e[w - j] % 2
  <2>1. PICK z \in Nat : z = w - n /\ z = IF n > w THEN 0 ELSE w - n
    BY <1>5, <1>9
  <2> DEFINE a == [i \in 1..z |-> 0]
             b == [i \in 1..n |-> Number((v \div 2^(n - i)) % 2 = 1)]
  <2>2. fromuint_big(v, w) = a \o b
    BY <1>5, <2>1 DEF fromuint_big
  <2>3. a \in Seq(Bit) /\ Len(a) = z /\ \A i \in 1..z : a[i] = 0
    BY DEF Bit
  <2>4. b \in Seq(Bit) /\ Len(b) = n /\ \A i \in 1..n : b[i] = Number((v \div 2^(n - i)) % 2 = 1)
    BY DEF Bit, Number
  <2> HIDE DEF a, b
  <2>5. CASE j <= z
    <3>1. (a \o b)[j] = 0
      BY <2>3, <2>4, <2>5
    <3>2. w - j \in Nat /\ n <= w - j
      BY <2>1, <2>5
    <3>3. e[w - j] = 0
      BY <1>5, <1>8, <3>2 DEF Digits
    <3> QED
      BY <2>2, <3>1, <3>3
  <2>6. CASE j > z
    <3>1. PICK i \in 1..n : j = z + i /\ w - j = n - i /\ n - i \in 0..30
      <4>1. j - z \in 1..n /\ j = z + (j - z) /\ w - j = n - (j - z) /\ n - (j - z) \in 0..30
        BY <2>1, <2>6
      <4> QED
        BY <4>1
    <3>2. (a \o b)[j] = b[i]
      <4>1. i \in 1..Len(b)
        BY <2>4
      <4>2. (a \o b)[Len(a) + i] = b[i]
        BY <2>3, <2>4, <4>1, InSecond
      <4> QED
        BY <2>3, <3>1, <4>2
    <3>3. b[i] = Number((v \div 2^(n - i)) % 2 = 1)
      BY <2>4
    <3>4. PICK k \in 0..30 : k = n - i
      BY <3>1
    <3>5. q[k] = v \div 2^k /\ e[k] = q[k] /\ q[k] \in Nat
      <4>1. k \in 0..31 /\ k \in Nat /\ k <= 31
        OBVIOUS
      <4> QED
        BY <1>1, <1>6, <1>7, <4>1
    <3>6. \A r \in Nat : Number(r % 2 = 1) = r % 2
      BY DEF Number
    <3>7. b[i] = e[k] % 2
      BY <3>3, <3>4, <3>5, <3>6
    <3> QED
      BY <2>2, <3>1, <3>2, <3>4, <3>7
  <2> QED
    BY <2>1, <2>5, <2>6
<1> QED
  BY <1>8, <1>9

\* A value comes back from its digits, whatever zeros are before them.
LEMMA ToFrom ==
  ASSUME NEW v \in Nat, v \div 2^31 = 0, NEW w \in Nat, BitsOf(v) <= w
  PROVE  touint_big(fromuint_big(v, w)) = v /\ touint(fromuint(v, w)) = v
<1>1. PICK e : Digits(e, v) /\ \A j \in 1..w : fromuint_big(v, w)[j] = e[w - j] % 2
  BY HasDigits
<1>2. PICK s \in Seq(Bit) : s = fromuint_big(v, w)
  BY FromuintType
<1>3. Len(s) = w
  BY <1>2, BitsOfNat, FromuintType
<1>4. PICK f : /\ f[0] = 0
               /\ \A i \in 1..w : f[i] = 2 * f[i - 1] + s[i]
               /\ touint_big(s) = f[w]
  BY <1>3, TouintRuns
<1>5. \A m \in Nat : e[m] \in Nat /\ e[m] = 2 * e[m + 1] + (e[m] % 2)
  <2>1. \A m \in Nat : e[m] \in Nat /\ e[m + 1] = e[m] \div 2
    BY <1>1 DEF Digits
  <2>2. \A x \in Nat : x = 2 * (x \div 2) + (x % 2)
    OBVIOUS
  <2> QED
    BY <2>1, <2>2
<1> DEFINE T == {j \in Nat : j <= w => f[j] = e[w - j]}
<1>6. 0 \in T
  <2>1. e[w] = 0 /\ w - 0 = w
    BY <1>1 DEF Digits
  <2> QED
    BY <1>4, <2>1
<1>7. ASSUME NEW j \in Nat, j \in T PROVE j + 1 \in T
  <2> SUFFICES ASSUME j + 1 <= w PROVE f[j + 1] = e[w - (j + 1)]
    OBVIOUS
  <2>1. PICK m \in Nat : m = w - (j + 1) /\ m + 1 = w - j
    <3>1. w - (j + 1) \in Nat /\ (w - (j + 1)) + 1 = w - j
      OBVIOUS
    <3> QED
      BY <3>1
  <2>2. f[j] = e[m + 1]
    BY <1>7, <2>1
  <2>3. j + 1 \in 1..w /\ (j + 1) - 1 = j
    OBVIOUS
  <2>4. f[j + 1] = 2 * f[j] + s[j + 1] /\ s[j + 1] = e[m] % 2
    BY <1>1, <1>2, <1>4, <2>1, <2>3
  <2>5. e[m] = 2 * e[m + 1] + (e[m] % 2)
    BY <1>5
  <2> QED
    BY <2>1, <2>2, <2>4, <2>5
<1> HIDE DEF T
<1>8. \A j \in Nat : j \in T
  BY <1>6, <1>7, Induction
<1>9. f[w] = e[0] /\ e[0] = v
  <2>1. f[w] = e[w - w] /\ w - w = 0
    BY <1>8 DEF T
  <2> QED
    BY <1>1, <2>1 DEF Digits
<1>10. touint_big(s) = v
  BY <1>4, <1>9
<1>11. Backwards(Backwards(s)) = s
  BY BackwardsTwice
<1>12. touint(fromuint(v, w)) = touint_big(s)
  BY <1>2, <1>11 DEF touint, fromuint
<1> QED
  BY <1>2, <1>10, <1>12

LEMMA UpTo30 == \A k \in Nat : k + 1 <= 31 => k \in 0..30 /\ k <= 31
  OBVIOUS

\* The digits of the value of bits are those bits.
LEMMA FromTo ==
  ASSUME NEW b \in Seq(Bit), Len(b) <= 31
  PROVE  /\ touint_big(b) \in Nat /\ touint_big(b) \div 2^31 = 0 /\ BitsOf(touint_big(b)) <= Len(b)
         /\ fromuint_big(touint_big(b), Len(b)) = b
<1>1. PICK L \in Nat : L = Len(b) /\ L <= 31
  <2>1. Len(b) \in Nat
    OBVIOUS
  <2> QED
    BY <2>1
<1>2. PICK v \in Nat : v = touint_big(b)
  BY TouintType
<1>3. PICK f : /\ f[0] = 0
               /\ \A i \in 1..L : f[i] = 2 * f[i - 1] + b[i]
               /\ v = f[L]
  BY <1>1, <1>2, TouintRuns
<1>4. \A i \in 1..L : b[i] \in {0, 1}
  BY <1>1 DEF Bit
<1>5. \A i \in 0..L : f[i] \in Nat
  <2> DEFINE T == {i \in Nat : i <= L => f[i] \in Nat}
  <2>1. 0 \in T
    BY <1>3
  <2>2. ASSUME NEW i \in Nat, i \in T PROVE i + 1 \in T
    <3> SUFFICES ASSUME i + 1 <= L PROVE f[i + 1] \in Nat
      OBVIOUS
    <3>1. i + 1 \in 1..L /\ (i + 1) - 1 = i /\ f[i] \in Nat
      BY <2>2
    <3>2. b[i + 1] \in Nat
      BY <1>4, <3>1
    <3>3. f[i + 1] = 2 * f[i] + b[i + 1]
      BY <1>3, <3>1
    <3> QED
      BY <3>1, <3>2, <3>3
  <2> HIDE DEF T
  <2>3. \A i \in Nat : i \in T
    BY <2>1, <2>2, Induction
  <2> QED
    BY <2>3 DEF T
<1>6. \A i \in 1..L : f[i - 1] = f[i] \div 2 /\ b[i] = f[i] % 2
  <2> SUFFICES ASSUME NEW i \in 1..L PROVE f[i - 1] = f[i] \div 2 /\ b[i] = f[i] % 2
    OBVIOUS
  <2>1. PICK x \in Nat : x = f[i - 1]
    <3>1. i - 1 \in 0..L
      OBVIOUS
    <3> QED
      BY <1>5, <3>1
  <2>2. f[i] = 2 * x + b[i] /\ b[i] \in {0, 1}
    BY <1>3, <1>4, <2>1
  <2>3. \A y \in {0, 1} : (2 * x + y) \div 2 = x /\ (2 * x + y) % 2 = y
    OBVIOUS
  <2> QED
    BY <2>1, <2>2, <2>3
\* What is left of the value is the value of the first bits.
<1>l. PICK left : left = [k \in Nat |-> IF k <= L THEN f[L - k] ELSE 0]
  OBVIOUS
<1>m. \A k \in Nat : left[k] = IF k <= L THEN f[L - k] ELSE 0
  BY <1>l
<1>7. \A k \in Nat : left[k] \in Nat /\ left[k + 1] = left[k] \div 2
  <2> SUFFICES ASSUME NEW k \in Nat PROVE left[k] \in Nat /\ left[k + 1] = left[k] \div 2
    OBVIOUS
  <2>1. CASE k + 1 <= L
    <3>1. PICK i \in 1..L : i = L - k /\ i - 1 = L - (k + 1)
      <4>1. L - k \in 1..L /\ (L - k) - 1 = L - (k + 1)
        BY <2>1
      <4> QED
        BY <4>1
    <3>2. left[k] = f[i] /\ left[k + 1] = f[i - 1]
      BY <1>m, <2>1, <3>1
    <3>3. f[i] \in Nat
      BY <1>5
    <3> QED
      BY <1>6, <3>2, <3>3
  <2>2. CASE k = L
    <3>1. left[k] = f[0] /\ left[k + 1] = 0
      BY <1>m, <2>2
    <3> QED
      BY <1>3, <3>1
  <2>3. CASE k > L
    <3>1. left[k] = 0 /\ left[k + 1] = 0
      BY <1>m, <2>3
    <3> QED
      BY <3>1
  <2> QED
    BY <2>1, <2>2, <2>3
<1>8. left[0] = v /\ left[31] = 0 /\ left[L] = 0
  BY <1>1, <1>3, <1>m
<1>9. PICK q \in [0..31 -> Nat] :
        /\ q[0] = v /\ \A k \in 0..30 : q[k + 1] = q[k] \div 2
        /\ \A k \in 0..31 : q[k] = v \div 2^k
        /\ \A k \in 0..30 : 2^k <= v <=> q[k] # 0
  BY Quotients
<1>10. \A k \in Nat : k <= 31 => q[k] = left[k]
  <2> DEFINE T == {k \in Nat : k <= 31 => q[k] = left[k]}
  <2>1. 0 \in T
    BY <1>8, <1>9
  <2>2. ASSUME NEW k \in Nat, k \in T PROVE k + 1 \in T
    <3> SUFFICES ASSUME k + 1 <= 31 PROVE q[k + 1] = left[k + 1]
      OBVIOUS
    <3>0. k \in 0..30 /\ k <= 31
      BY UpTo30
    <3>1. k \in 0..30 /\ q[k] = left[k]
      BY <2>2, <3>0
    <3>2. q[k + 1] = q[k] \div 2
      BY <1>9, <3>1
    <3> QED
      BY <1>7, <3>1, <3>2
  <2> HIDE DEF T
  <2>3. \A k \in Nat : k \in T
    BY <2>1, <2>2, Induction
  <2> QED
    BY <2>3 DEF T
<1>11. v \div 2^31 = 0
  <2>1. 31 \in 0..31 /\ 31 \in Nat /\ 31 <= 31
    OBVIOUS
  <2>2. q[31] = v \div 2^31 /\ q[31] = left[31]
    BY <1>9, <1>10, <2>1
  <2> QED
    BY <1>8, <2>2
<1>12. PICK e : /\ Digits(e, v)
                /\ \A w \in Nat : BitsOf(v) <= w =>
                     \A j \in 1..w : fromuint_big(v, w)[j] = e[w - j] % 2
  BY <1>11, HasDigits
<1>13. \A k \in Nat : e[k] = left[k]
  <2> DEFINE T == {k \in Nat : e[k] = left[k]}
  <2>1. 0 \in T
    BY <1>8, <1>12 DEF Digits
  <2>2. ASSUME NEW k \in Nat, k \in T PROVE k + 1 \in T
    BY <1>7, <1>12, <2>2 DEF Digits
  <2> HIDE DEF T
  <2>3. \A k \in Nat : k \in T
    BY <2>1, <2>2, Induction
  <2> QED
    BY <2>3 DEF T
<1>14. BitsOf(v) <= L
  <2>1. L \in Nat /\ e[L] = 0
    BY <1>8, <1>13
  <2> QED
    BY <1>12, <2>1 DEF Digits
<1>15. PICK s \in Seq(Bit) : s = fromuint_big(v, L)
  BY FromuintType
<1>16. Len(s) = Len(b)
  <2>1. Len(fromuint_big(v, L)) = IF BitsOf(v) > L THEN BitsOf(v) ELSE L
    BY FromuintType
  <2>2. BitsOf(v) \in Nat
    BY BitsOfNat
  <2>3. PICK n \in Nat : n = BitsOf(v)
    BY <2>2
  <2>4. Len(fromuint_big(v, L)) = L
    <3>1. n <= L /\ Len(fromuint_big(v, L)) = IF n > L THEN n ELSE L
      BY <1>14, <2>1, <2>3, Zenon
    <3> QED
      BY <3>1
  <2> QED
    BY <1>1, <1>15, <2>4
<1>17. ASSUME NEW j \in 1..Len(s) PROVE s[j] = b[j]
  <2>1. j \in 1..L /\ L - j \in Nat /\ L - j <= L /\ L - (L - j) = j /\ L \in Nat
    BY <1>1, <1>16
  <2>2. s[j] = e[L - j] % 2
    BY <1>12, <1>14, <1>15, <2>1
  <2>3. e[L - j] = left[L - j]
    BY <1>13, <2>1
  <2>4. left[L - j] = f[j]
    BY <1>m, <2>1
  <2> QED
    BY <1>6, <2>1, <2>2, <2>3, <2>4
<1>18. s = b
  BY <1>16, <1>17, BitsEqual
<1> QED
  BY <1>1, <1>2, <1>11, <1>14, <1>15, <1>18

LEMMA FromToLittle ==
  ASSUME NEW b \in Seq(Bit), Len(b) <= 31
  PROVE  /\ touint(b) \in Nat /\ touint(b) \div 2^31 = 0 /\ BitsOf(touint(b)) <= Len(b)
         /\ fromuint(touint(b), Len(b)) = b
<1>1. PICK r \in Seq(Bit) : r = Backwards(b) /\ Len(r) = Len(b)
  BY BackwardsIs
<1>2. /\ touint_big(r) \in Nat /\ touint_big(r) \div 2^31 = 0 /\ BitsOf(touint_big(r)) <= Len(r)
      /\ fromuint_big(touint_big(r), Len(r)) = r
  BY <1>1, FromTo
<1>3. touint(b) = touint_big(r)
  BY <1>1 DEF touint
<1>4. fromuint(touint(b), Len(b)) = Backwards(r)
  BY <1>1, <1>2, <1>3 DEF fromuint
<1>5. Backwards(r) = b
  BY <1>1, BackwardsTwice
<1> QED
  BY <1>1, <1>2, <1>3, <1>4, <1>5

-----------------------------------------------------------------------------
(* Writing what is there.                                                  *)

LEMMA SpanType ==
  ASSUME NEW s \in Seq(Bit), NEW slice, slice[1] \in Nat, slice[2] \in Nat, slice[1] <= slice[2],
         slice[2] <= Len(s)
  PROVE  /\ Span(s, slice) \in Seq(Bit) /\ Len(Span(s, slice)) = slice[2] - slice[1]
         /\ \A k \in 1..(slice[2] - slice[1]) : Span(s, slice)[k] = s[slice[1] + k]
<1>1. PICK a \in Nat, b \in Nat : a = slice[1] /\ b = slice[2]
  OBVIOUS
<1>2. Span(s, slice) = SubSeq(s, a + 1, b)
  BY <1>1 DEF Span
<1>3. a <= b /\ b <= Len(s)
  BY <1>1
<1>4. PICK u \in Seq(Bit) : u = SubSeq(s, a + 1, b) /\ Len(u) = b - a /\ \A k \in 1..(b - a) : u[k] = s[a + k]
  BY <1>3, Middle
<1>5. Span(s, slice) = u
  BY <1>2, <1>4
<1> QED
  BY <1>1, <1>4, <1>5

LEMMA SpanOf ==
  ASSUME NEW s \in Seq(Bit), NEW slice, NEW a \in Nat, NEW b \in Nat, slice[1] = a, slice[2] = b,
         a <= b, b <= Len(s)
  PROVE  \E u \in Seq(Bit) :
           u = Span(s, slice) /\ Len(u) = b - a /\ \A k \in 1..(b - a) : u[k] = s[a + k]
<1>1. slice[1] \in Nat /\ slice[2] \in Nat /\ slice[1] <= slice[2] /\ slice[2] <= Len(s)
  OBVIOUS
<1>2. PICK u : u = Span(s, slice)
  OBVIOUS
<1>3. /\ u \in Seq(Bit) /\ Len(u) = slice[2] - slice[1]
      /\ \A k \in 1..(slice[2] - slice[1]) : u[k] = s[slice[1] + k]
  BY <1>1, <1>2, SpanType
<1>4. Len(u) = b - a /\ \A k \in 1..(b - a) : u[k] = s[a + k]
  BY <1>3
<1> QED
  BY <1>2, <1>3, <1>4

\* What is in a slice assignment of its size.
LEMMA WriteHolds ==
  ASSUME NEW s \in Seq(Bit), NEW slice, NEW new \in Seq(Bit), slice[1] \in Nat, slice[2] \in Nat,
         slice[1] <= slice[2], slice[2] <= Len(s), Len(new) = slice[2] - slice[1]
  PROVE  /\ Write(s, slice, new) \in Seq(Bit) /\ Len(Write(s, slice, new)) = Len(s)
         /\ \A k \in 1..Len(s) :
              Write(s, slice, new)[k] = IF slice[1] < k /\ k <= slice[2] THEN new[k - slice[1]] ELSE s[k]
<1>1. PICK a \in Nat, b \in Nat : a = slice[1] /\ b = slice[2]
  OBVIOUS
<1>2. a <= b /\ b <= Len(s) /\ Len(new) = b - a /\ Len(s) \in Nat
  BY <1>1
<1>3. PICK x \in Seq(Bit), y \in Seq(Bit) : Cut(s, a, b, x, y)
  BY <1>2, Parts
<1>4. /\ Len(x) = a /\ Len(y) = Len(s) - b
      /\ \A k \in 1..a : x[k] = s[k]
      /\ \A k \in 1..(Len(s) - b) : y[k] = s[b + k]
  BY <1>3 DEF Cut
<1>5. PICK u \in Seq(Bit) : u = x \o new
  <2>1. x \o new \in Seq(Bit)
    OBVIOUS
  <2> QED
    BY <2>1
<1>6. Len(u) = b /\ \A k \in 1..a : u[k] = x[k]
  <2>1. Len(u) = Len(x) + Len(new)
    BY <1>5
  <2>2. \A k \in 1..Len(x) : u[k] = x[k]
    BY <1>5
  <2> QED
    BY <1>2, <1>4, <2>1, <2>2
<1>7. \A k \in 1..(b - a) : u[a + k] = new[k]
  <2>1. \A k \in 1..Len(new) : u[Len(x) + k] = new[k]
    BY <1>5, InSecond
  <2> QED
    BY <1>2, <1>4, <2>1
<1>8. PICK t \in Seq(Bit) : t = u \o y
  <2>1. u \o y \in Seq(Bit)
    OBVIOUS
  <2> QED
    BY <2>1
<1>9. Len(t) = Len(s) /\ \A k \in 1..b : t[k] = u[k]
  <2>1. Len(t) = Len(u) + Len(y)
    BY <1>8
  <2>2. \A k \in 1..Len(u) : t[k] = u[k]
    BY <1>8
  <2> QED
    BY <1>2, <1>4, <1>6, <2>1, <2>2
<1>10. \A k \in 1..(Len(s) - b) : t[b + k] = y[k]
  <2>1. \A k \in 1..Len(y) : t[Len(u) + k] = y[k]
    BY <1>8, InSecond
  <2> QED
    BY <1>2, <1>4, <1>6, <2>1
<1>11. Write(s, slice, new) = t
  BY <1>1, <1>3, <1>5, <1>8 DEF Write, Cut
<1>12. ASSUME NEW k \in 1..Len(s) PROVE t[k] = IF a < k /\ k <= b THEN new[k - a] ELSE s[k]
  <2>1. CASE k <= a
    <3>1. k \in 1..a /\ k \in 1..b
      BY <1>2, <2>1
    <3> QED
      BY <1>4, <1>6, <1>9, <2>1, <3>1
  <2>2. CASE a < k /\ k <= b
    <3>1. PICK j \in 1..(b - a) : k = a + j /\ j = k - a
      <4>1. k - a \in 1..(b - a) /\ k = a + (k - a)
        BY <2>2
      <4> QED
        BY <4>1
    <3>2. k \in 1..b
      BY <2>2
    <3>3. t[k] = new[j]
      BY <1>7, <1>9, <3>1, <3>2
    <3> QED
      BY <2>2, <3>1, <3>3
  <2>3. CASE b < k
    <3>1. PICK j \in 1..(Len(s) - b) : k = b + j
      <4>1. k - b \in 1..(Len(s) - b) /\ k = b + (k - b)
        BY <1>2, <2>3
      <4> QED
        BY <4>1
    <3>2. t[k] = s[k]
      BY <1>4, <1>10, <3>1
    <3>3. ~(k <= b)
      BY <2>3
    <3> QED
      BY <3>2, <3>3
  <2> QED
    BY <1>2, <2>1, <2>2, <2>3
<1> QED
  BY <1>1, <1>9, <1>11, <1>12

\* Assigning a slice its own bits, and reading what was assigned.
LEMMA WriteSame ==
  ASSUME NEW s \in Seq(Bit), NEW slice, slice[1] \in Nat, slice[2] \in Nat, slice[1] <= slice[2],
         slice[2] <= Len(s)
  PROVE  Write(s, slice, Span(s, slice)) = s
<1>1. PICK a \in Nat, b \in Nat : a = slice[1] /\ b = slice[2]
  OBVIOUS
<1>2. PICK new \in Seq(Bit) : new = Span(s, slice) /\ Len(new) = b - a /\ \A k \in 1..(b - a) : new[k] = s[a + k]
  BY <1>1, SpanType
<1>3. PICK t \in Seq(Bit) : t = Write(s, slice, new) /\ Len(t) = Len(s)
  BY <1>1, <1>2, WriteHolds
<1>4. \A k \in 1..Len(s) : t[k] = IF a < k /\ k <= b THEN new[k - a] ELSE s[k]
  BY <1>1, <1>2, <1>3, WriteHolds
<1>5. ASSUME NEW k \in 1..Len(t) PROVE t[k] = s[k]
  <2>1. CASE a < k /\ k <= b
    <3>1. k - a \in 1..(b - a) /\ a + (k - a) = k
      BY <2>1
    <3>2. new[k - a] = s[k]
      BY <1>2, <3>1
    <3> QED
      BY <1>3, <1>4, <2>1, <3>2
  <2>2. CASE ~(a < k /\ k <= b)
    BY <1>3, <1>4, <2>2
  <2> QED
    BY <2>1, <2>2
<1>6. t = s
  BY <1>3, <1>5, BitsEqual
<1> QED
  BY <1>2, <1>3, <1>6

-----------------------------------------------------------------------------
(* A word of the first generation, from its dictionary.                    *)

\* The last bit of a number says whether it is even, the others its half.
LEMMA LastBit ==
  ASSUME NEW b \in Seq(Bit), NEW c \in Seq(Bit), Len(b) = Len(c), Len(b) >= 1,
         \A k \in 1..Len(b) : k < Len(b) => b[k] = c[k]
  PROVE  /\ touint_big(b) \in Nat
         /\ touint_big(b) \div 2 = touint_big(c) \div 2
         /\ c[Len(c)] = 0 => touint_big(c) = 2 * (touint_big(b) \div 2)
<1>0. /\ Len(b) \in Nat /\ \A i \in 1..Len(b) : b[i] \in {0, 1}
      /\ Len(c) \in Nat /\ \A i \in 1..Len(c) : c[i] \in {0, 1}
  BY DEF Bit
<1>1. PICK f : /\ f[0] = 0 /\ \A i \in 1..Len(b) : f[i] = 2 * f[i - 1] + b[i]
               /\ touint_big(b) = f[Len(b)]
  BY <1>0, TouintRuns
<1>2. PICK g : /\ g[0] = 0 /\ \A i \in 1..Len(c) : g[i] = 2 * g[i - 1] + c[i]
               /\ touint_big(c) = g[Len(c)]
  BY <1>0, TouintRuns
<1> DEFINE T == {n \in Nat : n < Len(b) => f[n] = g[n] /\ f[n] \in Nat}
<1>3. 0 \in T
  BY <1>1, <1>2
<1>4. ASSUME NEW n \in Nat, n \in T PROVE n + 1 \in T
  <2> SUFFICES ASSUME n + 1 < Len(b) PROVE f[n + 1] = g[n + 1] /\ f[n + 1] \in Nat
    OBVIOUS
  <2>1. n + 1 \in 1..Len(b) /\ (n + 1) - 1 = n /\ f[n] = g[n] /\ f[n] \in Nat /\ n + 1 < Len(b)
    BY <1>0, <1>4
  <2>2. f[n + 1] = 2 * f[n] + b[n + 1] /\ g[n + 1] = 2 * g[n] + c[n + 1] /\ b[n + 1] = c[n + 1]
    BY <1>1, <1>2, <2>1
  <2>3. b[n + 1] \in {0, 1}
    BY <1>0, <2>1
  <2> QED
    BY <2>1, <2>2, <2>3
<1> HIDE DEF T
<1>5. \A n \in Nat : n \in T
  BY <1>3, <1>4, Induction
<1>6. PICK m \in Nat : m + 1 = Len(b)
  <2>1. Len(b) - 1 \in Nat /\ (Len(b) - 1) + 1 = Len(b)
    BY <1>0
  <2> QED
    BY <2>1
<1>7. f[m] = g[m] /\ f[m] \in Nat
  BY <1>0, <1>5, <1>6 DEF T
<1>8. PICK x \in Nat : x = f[m]
  BY <1>7
<1>9. /\ touint_big(b) = 2 * x + b[Len(b)] /\ touint_big(c) = 2 * x + c[Len(c)]
      /\ b[Len(b)] \in {0, 1} /\ c[Len(c)] \in {0, 1}
  <2>1. m + 1 \in 1..Len(b) /\ (m + 1) - 1 = m
    BY <1>0, <1>6
  <2>2. f[m + 1] = 2 * f[m] + b[m + 1] /\ g[m + 1] = 2 * g[m] + c[m + 1]
    BY <1>1, <1>2, <2>1
  <2>3. b[m + 1] \in {0, 1} /\ c[m + 1] \in {0, 1}
    BY <1>0, <2>1
  <2> QED
    BY <1>1, <1>2, <1>6, <1>7, <1>8, <2>2, <2>3
<1>10. \A e \in {0, 1} : (2 * x + e) \div 2 = x /\ 2 * x + e \in Nat
  OBVIOUS
<1>11. touint_big(b) \div 2 = x /\ touint_big(b) \in Nat
  BY <1>9, <1>10
<1>12. touint_big(c) \div 2 = x /\ touint_big(c) = 2 * x + c[Len(c)]
  BY <1>9, <1>10
<1> QED
  BY <1>11, <1>12

\* Bits that are those of a word but for a last bit of its data word that
\* may have been cleared.
Rounding(s, t) ==
  /\ t \in Seq(Bit) /\ Len(t) = Len(s)
  /\ \A k \in 1..Len(s) : k # 13 => t[k] = s[k]
  /\ t[13] \in {s[13], 0}

\* What a word has in common with the one that its dictionary was made of.
Alike1(p, q) ==
  /\ Fresh1(q)
  /\ IF V1!Get(p, "type") = V1!DATA_PACKET THEN Rounding(p.bits, q.bits) ELSE q.bits = p.bits

SameIo1(p, q) ==
  IF V1!chip_key(p) = None THEN q.io_group = None /\ q.io_channel = None
  ELSE q.io_group = p.io_group /\ q.io_channel = p.io_channel

LEMMA RoundingSpan ==
  ASSUME NEW s \in Seq(Bit), Len(s) >= 54, NEW t, Rounding(s, t), NEW slice,
         slice[1] \in Nat, slice[2] \in Nat, slice[1] < slice[2], slice[2] <= 54,
         slice[2] < 13 \/ 13 <= slice[1]
  PROVE  Span(t, slice) = Span(s, slice)
<1>1. PICK a \in Nat, b \in Nat : slice[1] = a /\ slice[2] = b
  OBVIOUS
<1>2. t \in Seq(Bit) /\ Len(t) = Len(s) /\ Len(s) \in Nat
  BY DEF Rounding
<1>7. a <= b /\ b <= Len(s) /\ b <= Len(t)
  BY <1>1, <1>2
<1>3. PICK u \in Seq(Bit) : u = Span(t, slice) /\ Len(u) = b - a /\ \A k \in 1..(b - a) : u[k] = t[a + k]
  BY <1>1, <1>2, <1>7, SpanOf
<1>4. PICK v \in Seq(Bit) : v = Span(s, slice) /\ Len(v) = b - a /\ \A k \in 1..(b - a) : v[k] = s[a + k]
  BY <1>1, <1>7, SpanOf
<1>5. ASSUME NEW k \in 1..Len(u) PROVE u[k] = v[k]
  <2>1. k \in 1..(b - a) /\ a + k \in 1..Len(s) /\ a + k # 13
    BY <1>1, <1>2, <1>3
  <2>2. t[a + k] = s[a + k]
    BY <2>1 DEF Rounding
  <2> QED
    BY <1>3, <1>4, <2>1, <2>2
<1>6. u = v
  BY <1>3, <1>4, <1>5, BitsEqual
<1> QED
  BY <1>3, <1>4, <1>6

\* Every field but a data word is the same, and of that the half.
LEMMA AlikeFields1 ==
  ASSUME NEW p, Word1(p), NEW q, Alike1(p, q), NEW name \in TypeFields1(p), name # "adc_counts"
  PROVE  V1!Get(q, name) = V1!Get(p, name)
<1>1. name \in Names1 \cup {"counter"}
  BY TypeFieldsAreFields1
<1>2. CASE V1!Get(p, "type") # V1!DATA_PACKET
  <2>1. q.bits = p.bits
    BY <1>2 DEF Alike1
  <2> QED
    BY <1>1, <2>1, GetFrom1
<1>3. CASE V1!Get(p, "type") = V1!DATA_PACKET
  <2>1. name \in {"type", "chipid", "parity", "channel", "timestamp", "fifo_half", "fifo_full"}
    BY <1>3 DEF TypeFields1, Base1, Data1, V1!TEST_PACKET, V1!DATA_PACKET
  <2>2. PICK slice : slice = V1!Slice[name]
    OBVIOUS
  <2>3. slice[2] < 13 \/ 13 <= slice[1]
    BY <2>1, <2>2 DEF V1!Slice
  <2>4. slice[1] \in Nat /\ slice[2] \in Nat /\ slice[1] < slice[2] /\ slice[2] <= 54
    BY <2>1, <2>2 DEF V1!Slice
  <2>5. Rounding(p.bits, q.bits)
    BY <1>3 DEF Alike1
  <2>6. Span(q.bits, slice) = Span(p.bits, slice)
    BY <2>3, <2>4, <2>5, RoundingSpan DEF Word1
  <2>7. Places1(name) = {slice}
    BY <2>1, <2>2 DEF Places1
  <2> QED
    BY <1>1, <2>6, <2>7, GetFrom1
<1> QED
  BY <1>2, <1>3

\* A data word is read from its ten bits.
LEMMA DataWord1 ==
  ASSUME NEW p, Word1(p)
  PROVE  \E b \in Seq(Bit) :
           /\ b = Span(p.bits, V1!Slice["adc_counts"]) /\ Len(b) = 10
           /\ \A k \in 1..10 : b[k] = p.bits[3 + k]
           /\ V1!Get(p, "adc_counts") = 2 * (touint_big(b) \div 2)
<1>1. PICK slice : slice = V1!Slice["adc_counts"]
  OBVIOUS
<1>2. slice[1] = 3 /\ slice[2] = 13
  BY <1>1 DEF V1!Slice
<1>3. p.bits \in Seq(Bit) /\ Len(p.bits) >= 54 /\ Len(p.bits) \in Nat
  BY DEF Word1
<1>4. PICK s \in Seq(Bit) : s = p.bits /\ 13 <= Len(s)
  BY <1>3
<1>5. PICK b \in Seq(Bit) : b = Span(p.bits, slice) /\ Len(b) = 10 /\ \A k \in 1..10 : b[k] = p.bits[3 + k]
  <2>1. PICK x \in Nat, y \in Nat : x = 3 /\ y = 13
    OBVIOUS
  <2>2. slice[1] = x /\ slice[2] = y /\ x <= y /\ y <= Len(s)
    BY <1>2, <1>4, <2>1
  <2>3. PICK b \in Seq(Bit) : b = Span(s, slice) /\ Len(b) = y - x /\ \A k \in 1..(y - x) : b[k] = s[x + k]
    BY <2>2, SpanOf
  <2>4. y - x = 10
    BY <2>1
  <2> QED
    BY <1>4, <2>1, <2>3, <2>4
<1>6. V1!Get(p, "adc_counts") = 2 * (touint_big(b) \div 2)
  BY <1>1, <1>5, SameBits1 DEF V1!Get
<1> QED
  BY <1>1, <1>5, <1>6

LEMMA AlikeData1 ==
  ASSUME NEW p, Word1(p), NEW q, Alike1(p, q)
  PROVE  V1!Get(q, "adc_counts") = V1!Get(p, "adc_counts")
<1>1. Word1(q)
  BY DEF Alike1, Fresh1
<1>2. PICK b \in Seq(Bit) :
        /\ Len(b) = 10 /\ \A k \in 1..10 : b[k] = p.bits[3 + k]
        /\ V1!Get(p, "adc_counts") = 2 * (touint_big(b) \div 2)
  BY DataWord1
<1>3. PICK c \in Seq(Bit) :
        /\ Len(c) = 10 /\ \A k \in 1..10 : c[k] = q.bits[3 + k]
        /\ V1!Get(q, "adc_counts") = 2 * (touint_big(c) \div 2)
  BY <1>1, DataWord1
<1>4. \A k \in 1..Len(b) : k < Len(b) => b[k] = c[k]
  <2>1. \A k \in 1..54 : k # 13 => q.bits[k] = p.bits[k]
    <3>1. \A k \in 1..54 : k \in 1..Len(p.bits)
      BY DEF Word1
    <3> QED
      BY <3>1 DEF Alike1, Rounding
  <2>2. ASSUME NEW k \in 1..10, k < 10 PROVE b[k] = c[k]
    <3>1. 3 + k \in 1..54 /\ 3 + k # 13
      BY <2>2
    <3> QED
      BY <1>2, <1>3, <2>1, <3>1
  <2> QED
    BY <1>2, <2>2
<1>5. touint_big(b) \div 2 = touint_big(c) \div 2
  <2>1. Len(b) = Len(c) /\ Len(b) >= 1
    BY <1>2, <1>3
  <2> QED
    BY <1>4, <2>1, LastBit
<1> QED
  BY <1>2, <1>3, <1>5

\* Assigning a field the value it has leaves the word as it was.
LEMMA WriteOwn ==
  ASSUME NEW s \in Seq(Bit), NEW slice, slice[1] \in Nat, slice[2] \in Nat, slice[1] <= slice[2],
         slice[2] <= Len(s), slice[2] - slice[1] <= 31
  PROVE  /\ Write(s, slice, fromuint_big(touint_big(Span(s, slice)), slice[2] - slice[1])) = s
         /\ Write(s, slice, fromuint(touint(Span(s, slice)), slice[2] - slice[1])) = s
<1>1. PICK u \in Seq(Bit) : u = Span(s, slice) /\ Len(u) = slice[2] - slice[1]
  BY SpanType
<1>2. Write(s, slice, u) = s
  BY <1>1, WriteSame
<1>3. fromuint_big(touint_big(u), Len(u)) = u /\ fromuint(touint(u), Len(u)) = u
  BY <1>1, FromTo, FromToLittle
<1> QED
  BY <1>1, <1>2, <1>3

\* The halves of what was put together.
LEMMA Pieces ==
  ASSUME NEW u \in Seq(Bit), NEW v \in Seq(Bit), NEW m \in Nat, NEW n \in Nat, Len(u) = m, Len(v) = n - m,
         m <= n
  PROVE  /\ u \o v \in Seq(Bit) /\ Len(u \o v) = n
         /\ SubSeq(u \o v, 1, m) = u /\ SubSeq(u \o v, m + 1, n) = v
<1>1. u \o v \in Seq(Bit) /\ Len(u \o v) = Len(u) + Len(v)
  OBVIOUS
<1>2. PICK w \in Seq(Bit) : w = u \o v /\ Len(w) = n
  <2>1. Len(u) + Len(v) = n
    OBVIOUS
  <2> QED
    BY <1>1, <2>1
<1>3. SubSeq(w, 1, m) = u
  <2>1. SubSeq(w, 1, m) \in Seq(Bit) /\ Len(SubSeq(w, 1, m)) = m /\ \A k \in 1..m : SubSeq(w, 1, m)[k] = w[k]
    <3>1. \A k \in 1..m : k \in 1..Len(w)
      BY <1>2
    <3> QED
      BY <1>2, <3>1
  <2>2. \A k \in 1..Len(u) : w[k] = u[k]
    BY <1>2
  <2>3. PICK x \in Seq(Bit) : x = SubSeq(w, 1, m) /\ Len(x) = m /\ \A k \in 1..m : x[k] = w[k]
    BY <2>1
  <2>4. x = u
    BY <2>2, <2>3, BitsEqual
  <2> QED
    BY <2>3, <2>4
<1>4. SubSeq(w, m + 1, n) = v
  <2>0. m <= n /\ n <= Len(w)
    BY <1>2
  <2>1. /\ SubSeq(w, m + 1, n) \in Seq(Bit) /\ Len(SubSeq(w, m + 1, n)) = n - m
        /\ \A k \in 1..(n - m) : SubSeq(w, m + 1, n)[k] = w[m + k]
    BY <2>0, Middle
  <2>2. \A k \in 1..Len(v) : w[Len(u) + k] = v[k]
    BY <1>2, InSecond
  <2>3. PICK x \in Seq(Bit) : x = SubSeq(w, m + 1, n) /\ Len(x) = n - m /\ \A k \in 1..(n - m) : x[k] = w[m + k]
    BY <2>1
  <2>4. Len(x) = Len(v) /\ \A k \in 1..Len(x) : x[k] = v[k]
    BY <2>2, <2>3
  <2>5. x = v
    BY <2>4, BitsEqual
  <2> QED
    BY <2>3, <2>5
<1> QED
  BY <1>2, <1>3, <1>4

LEMMA OwnCounter1 ==
  ASSUME NEW p, Word1(p)
  PROVE  V1!SetBits(p, "counter", V1!Get(p, "counter")).bits = p.bits
<1>1. PICK a, b : a = V1!Slice["counter_15_12"] /\ b = V1!Slice["counter_11_0"]
  OBVIOUS
<1>2. a[1] = 40 /\ a[2] = 44 /\ b[1] = 1 /\ b[2] = 13
  BY <1>1 DEF V1!Slice
<1>3. PICK s \in Seq(Bit) : s = p.bits /\ Len(s) >= 54 /\ Len(s) \in Nat
  BY DEF Word1
<1>41. a[1] \in Nat /\ a[2] \in Nat /\ a[1] <= a[2] /\ a[2] <= Len(s) /\ a[2] - a[1] = 4
  BY <1>2, <1>3
<1>42. b[1] \in Nat /\ b[2] \in Nat /\ b[1] <= b[2] /\ b[2] <= Len(s) /\ b[2] - b[1] = 12
  BY <1>2, <1>3
<1>5. PICK u \in Seq(Bit) : u = Span(s, a) /\ Len(u) = 4
  <2>1. Span(s, a) \in Seq(Bit) /\ Len(Span(s, a)) = a[2] - a[1]
    BY ONLY <1>41, SpanType, s \in Seq(Bit)
  <2> QED
    BY <1>41, <2>1
<1>6. PICK v \in Seq(Bit) : v = Span(s, b) /\ Len(v) = 12
  <2>1. Span(s, b) \in Seq(Bit) /\ Len(Span(s, b)) = b[2] - b[1]
    BY ONLY <1>42, SpanType, s \in Seq(Bit)
  <2> QED
    BY <1>42, <2>1
<1>7. PICK w \in Seq(Bit) : w = u \o v /\ Len(w) = 16 /\ SubSeq(w, 1, 4) = u /\ SubSeq(w, 5, 16) = v
  <2>1. PICK m \in Nat, n \in Nat : m = 4 /\ n = 16
    OBVIOUS
  <2>2. Len(u) = m /\ Len(v) = n - m /\ m <= n /\ m + 1 = 5
    BY <1>5, <1>6, <2>1
  <2>3. PICK w : w = u \o v
    OBVIOUS
  <2>4. w \in Seq(Bit) /\ Len(w) = n /\ SubSeq(w, 1, m) = u /\ SubSeq(w, m + 1, n) = v
    BY <2>2, <2>3, Pieces
  <2> QED
    BY <2>1, <2>2, <2>3, <2>4
<1>8. fromuint_big(touint_big(w), 16) = w
  <2>1. Len(w) <= 31
    BY <1>7
  <2>2. fromuint_big(touint_big(w), Len(w)) = w
    BY <2>1, FromTo
  <2> QED
    BY <1>7, <2>2
<1>11. Write(s, a, u) = s /\ Write(s, b, v) = s
  <2>1. Write(s, a, u) = s
    BY <1>41, <1>5, WriteSame
  <2>2. Write(s, b, v) = s
    BY <1>42, <1>6, WriteSame
  <2> QED
    BY <2>1, <2>2
<1>12. V1!Get(p, "counter") = touint_big(w)
  BY <1>1, <1>3, <1>5, <1>6, <1>7, SameBits1 DEF V1!Get
<1>13. V1!FieldWidth("counter") = 16
  BY DEF V1!FieldWidth
<1>14. V1!SetBits(p, "counter", touint_big(w)).bits = Write(Write(s, a, SubSeq(w, 1, 4)), b, SubSeq(w, 5, 16))
  <2>1. V1!SetBits(p, "counter", touint_big(w)) =
          [p EXCEPT !.bits = Write(Write(s, a, SubSeq(w, 1, 4)), b, SubSeq(w, 5, Len(w)))]
    BY <1>1, <1>3, <1>8, <1>13, SameBits1 DEF V1!SetBits
  <2> QED
    BY <1>7, <2>1 DEF Word1
<1> QED
  BY <1>3, <1>7, <1>11, <1>12, <1>14

LEMMA OwnField1 ==
  ASSUME NEW p, Word1(p), NEW name \in Names1 \ {"adc_counts"}
  PROVE  V1!SetBits(p, name, V1!Get(p, name)).bits = p.bits
<1>1. PICK slice : slice = V1!Slice[name]
  OBVIOUS
<1>2. slice[1] \in Nat /\ slice[2] \in Nat /\ slice[1] < slice[2] /\ slice[2] <= 54
  BY <1>1, Slices1
<1>3. slice[2] - slice[1] <= 31
  BY <1>1 DEF V1!Slice, Names1
<1>4. PICK s \in Seq(Bit) : s = p.bits /\ Len(s) >= 54 /\ Len(s) \in Nat
  BY DEF Word1
<1>5. slice[1] <= slice[2] /\ slice[2] <= Len(s)
  BY <1>2, <1>4
<1>6. Write(s, slice, fromuint_big(touint_big(Span(s, slice)), slice[2] - slice[1])) = s
  BY <1>2, <1>3, <1>5, WriteOwn
<1>7. V1!Get(p, name) = touint_big(Span(s, slice))
  BY <1>1, <1>4, SameBits1 DEF V1!Get, Names1
<1>8. V1!FieldWidth(name) = slice[2] - slice[1]
  BY <1>1, Slices1, SameBits1 DEF V1!FieldWidth, Names1
<1>9. ASSUME NEW x PROVE V1!SetBits(p, name, x).bits = Write(s, slice, fromuint_big(x, slice[2] - slice[1]))
  <2>1. V1!SetBits(p, name, x) = [p EXCEPT !.bits = Write(s, slice, fromuint_big(x, V1!FieldWidth(name)))]
    BY <1>1, <1>4, SameBits1 DEF V1!SetBits, Names1
  <2> QED
    BY <1>8, <2>1 DEF Word1
<1> QED
  BY <1>4, <1>6, <1>7, <1>9

\* A data word is assigned without its last bit.
LEMMA OwnData1 ==
  ASSUME NEW p, Word1(p), NEW q, Alike1(p, q), V1!Get(p, "type") = V1!DATA_PACKET
  PROVE  Rounding(p.bits, V1!SetBits(q, "adc_counts", V1!Get(p, "adc_counts")).bits)
<1>0. Word1(q) /\ Rounding(p.bits, q.bits)
  BY DEF Alike1, Fresh1
<1>1. PICK slice : slice = V1!Slice["adc_counts"]
  OBVIOUS
<1>2. slice[1] = 3 /\ slice[2] = 13
  BY <1>1 DEF V1!Slice
<1>3. PICK s \in Seq(Bit) : s = q.bits /\ Len(s) >= 54 /\ Len(s) \in Nat
  BY <1>0 DEF Word1
<1>4. PICK c \in Seq(Bit) :
        /\ Len(c) = 10 /\ \A k \in 1..10 : c[k] = s[3 + k]
        /\ V1!Get(q, "adc_counts") = 2 * (touint_big(c) \div 2)
  BY <1>0, <1>3, DataWord1
<1>5. PICK d \in Seq(Bit) : Len(d) = 10 /\ d[10] = 0 /\ \A k \in 1..10 : k < 10 => d[k] = c[k]
  <2>1. [k \in 1..10 |-> IF k = 10 THEN 0 ELSE c[k]] \in Seq(Bit)
    <3>1. \A k \in 1..10 : c[k] \in Bit
      <4>1. \A k \in 1..Len(c) : c[k] \in Bit
        OBVIOUS
      <4>2. Len(c) = 10
        BY <1>4
      <4> QED
        BY <4>1, <4>2, Zenon
    <3> QED
      BY <3>1 DEF Bit
  <2>2. Len([k \in 1..10 |-> IF k = 10 THEN 0 ELSE c[k]]) = 10
    OBVIOUS
  <2>3. PICK d \in Seq(Bit) : d = [k \in 1..10 |-> IF k = 10 THEN 0 ELSE c[k]] /\ Len(d) = 10
    BY <2>1, <2>2
  <2>4. \A k \in 1..10 : d[k] = IF k = 10 THEN 0 ELSE c[k]
    BY <2>3
  <2>5. d[10] = 0 /\ \A k \in 1..10 : k < 10 => d[k] = c[k]
    BY <2>4
  <2> QED
    BY <2>3, <2>5
<1>6. touint_big(d) = V1!Get(p, "adc_counts")
  <2>1. Len(c) = Len(d) /\ Len(c) >= 1 /\ \A k \in 1..Len(c) : k < Len(c) => c[k] = d[k]
    BY <1>4, <1>5
  <2>2. d[Len(d)] = 0
    BY <1>5
  <2>3. touint_big(d) = 2 * (touint_big(c) \div 2)
    BY <2>1, <2>2, LastBit
  <2> QED
    BY <1>4, <2>3, AlikeData1
<1>7. fromuint_big(touint_big(d), 10) = d
  <2>1. Len(d) <= 31
    BY <1>5
  <2> QED
    BY <1>5, <2>1, FromTo
<1>8. /\ slice[1] \in Nat /\ slice[2] \in Nat /\ slice[1] <= slice[2] /\ slice[2] <= Len(s)
      /\ Len(d) = slice[2] - slice[1]
  BY <1>2, <1>3, <1>5
<1>9. PICK t : t = Write(s, slice, d)
  OBVIOUS
<1>10. /\ t \in Seq(Bit) /\ Len(t) = Len(s)
       /\ \A k \in 1..Len(s) : t[k] = IF slice[1] < k /\ k <= slice[2] THEN d[k - slice[1]] ELSE s[k]
  BY <1>8, <1>9, WriteHolds
<1>11. \A k \in 1..Len(s) : t[k] = IF 3 < k /\ k <= 13 THEN d[k - 3] ELSE s[k]
  BY <1>2, <1>10
<1>12. ASSUME NEW k \in 1..Len(s), k # 13 PROVE t[k] = s[k]
  <2>1. CASE 3 < k /\ k <= 13
    <3>1. k - 3 \in 1..10 /\ k - 3 < 10 /\ 3 + (k - 3) = k
      BY <1>3, <1>12, <2>1
    <3>2. d[k - 3] = s[k]
      BY <1>4, <1>5, <3>1
    <3> QED
      BY <1>11, <2>1, <3>2
  <2>2. CASE ~(3 < k /\ k <= 13)
    BY <1>11, <2>2
  <2> QED
    BY <2>1, <2>2
<1>13. t[13] = 0
  <2>1. 13 \in 1..Len(s) /\ 13 - 3 = 10 /\ 3 < 13 /\ 13 <= 13
    BY <1>3
  <2> QED
    BY <1>5, <1>11, <2>1
<1>14. V1!SetBits(q, "adc_counts", V1!Get(p, "adc_counts")).bits = t
  <2>1. V1!FieldWidth("adc_counts") = 10
    BY SameBits1 DEF V1!FieldWidth, Width, V1!Slice
  <2>2. V1!SetBits(q, "adc_counts", V1!Get(p, "adc_counts")) = [q EXCEPT !.bits = t]
    BY <1>1, <1>3, <1>6, <1>7, <1>9, <2>1, SameBits1 DEF V1!SetBits
  <2> QED
    BY <1>0, <2>2 DEF Word1
<1>15. Len(t) = Len(p.bits) /\ \A k \in 1..Len(p.bits) : k # 13 => t[k] = p.bits[k]
  BY <1>0, <1>3, <1>10, <1>12 DEF Rounding
<1> QED
  BY <1>10, <1>13, <1>14, <1>15 DEF Rounding

\* An entry of a field leaves the word alike.
LEMMA SetOwn1 ==
  ASSUME NEW p, Word1(p), NEW q, Alike1(p, q), NEW name \in TypeFields1(p)
  PROVE  LET r == V1!Set(q, name, V1!Get(p, name))
         IN Alike1(p, r) /\ r.io_group = q.io_group /\ r.io_channel = q.io_channel
<1>1. PICK v : v = V1!Get(p, name)
  OBVIOUS
<1>2. PICK q0 : q0 = IF name = "chipid" THEN [q EXCEPT !.key = None] ELSE q
  OBVIOUS
<1>3. /\ Word1(q0) /\ q0.key = None /\ q0.bits = q.bits
      /\ q0.io_group = q.io_group /\ q0.io_channel = q.io_channel
  BY <1>2 DEF Alike1, Fresh1, Word1
<1>4. Alike1(p, q0)
  BY <1>3 DEF Alike1, Fresh1
<1>5. name \in Names1 \cup {"counter"}
  BY TypeFieldsAreFields1
<1>6. V1!Set(q, name, v) = V1!SetBits(q0, name, v)
  BY <1>2, <1>5 DEF V1!Set, V1!SetChipId, Names1
<1>7. PICK r : r = V1!SetBits(q0, name, v)
  OBVIOUS
<1>8. Fresh1(r) /\ r.io_group = q.io_group /\ r.io_channel = q.io_channel
  BY <1>3, <1>5, <1>7, SetBits1 DEF Fresh1
<1>9. CASE name = "adc_counts"
  <2>1. V1!Get(p, "type") = V1!DATA_PACKET
    BY <1>9 DEF TypeFields1, Base1, Config1
  <2>2. Rounding(p.bits, r.bits)
    BY <1>1, <1>4, <1>7, <1>9, <2>1, OwnData1
  <2>3. Alike1(p, r)
    BY <1>8, <2>1, <2>2 DEF Alike1
  <2> QED
    BY <1>1, <1>6, <1>7, <1>8, <2>3
<1>10. CASE name # "adc_counts"
  <2>1. v = V1!Get(q0, name)
    BY <1>1, <1>4, <1>10, AlikeFields1
  <2>2. r.bits = q0.bits
    <3>1. CASE name = "counter"
      BY <1>3, <1>7, <2>1, <3>1, OwnCounter1
    <3>2. CASE name # "counter"
      BY <1>3, <1>5, <1>7, <1>10, <2>1, <3>2, OwnField1
    <3> QED
      BY <3>1, <3>2
  <2>3. Alike1(p, r)
    BY <1>4, <1>8, <2>2 DEF Alike1
  <2> QED
    BY <1>1, <1>6, <1>7, <1>8, <2>3
<1> QED
  BY <1>9, <1>10

\* The entries of a word's dictionary.
Entries1(p, n, d, names) ==
  /\ d = V1!export(p) /\ DOMAIN d = 1..(n + 3) /\ Len(d) = n + 3 /\ V1!chip_key(p) # Error
  /\ d[1] = <<"chip_key", V1!chip_key(p)>> /\ d[2] = <<"bits", p.bits>>
  /\ d[3] = <<"valid_parity", V1!has_valid_parity(p)>>
  /\ \A k \in 1..n : names[k] \in TypeFields1(p) /\ d[k + 3] = <<names[k], V1!Get(p, names[k])>>
  /\ names = V1!Fields(p) /\ n = Len(names)

LEMMA ExportIs1 ==
  ASSUME NEW p, Word1(p), V1!chip_key(p) # Error
  PROVE  \E n \in Nat : \E d, names : Entries1(p, n, d, names)
<1>1. V1!chip_key(p) # Error
  OBVIOUS
<1>2. PICK names \in Seq(TypeFields1(p)) : names = V1!Fields(p)
  BY FieldsType1
<1>3. PICK n \in Nat : n = Len(names)
  OBVIOUS
<1>4. PICK ck, vp : ck = <<"chip_key", V1!chip_key(p)>> /\ vp = <<"valid_parity", V1!has_valid_parity(p)>>
  OBVIOUS
<1>5. PICK b : b = <<"bits", p.bits>>
  OBVIOUS
<1>6. PICK values : values = [i \in 1..n |-> <<names[i], V1!Get(p, names[i])>>]
  OBVIOUS
<1>7. V1!Values(p) = values
  BY <1>2, <1>3, <1>6 DEF V1!Values
<1>8. PICK d : d = <<ck, b, vp>> \o values
  OBVIOUS
<1>9. V1!export(p) = d
  BY <1>1, <1>4, <1>5, <1>7, <1>8 DEF V1!export
<1>10. PICK S : ck \in S /\ b \in S /\ vp \in S /\ \A i \in 1..n : values[i] \in S
  <2> DEFINE S == {ck, b, vp} \cup {values[i] : i \in 1..n}
  <2>1. ck \in S /\ b \in S /\ vp \in S /\ \A i \in 1..n : values[i] \in S
    OBVIOUS
  <2> QED
    BY <2>1
<1>11. values \in Seq(S) /\ Len(values) = n
  <2>1. values = [i \in 1..n |-> values[i]]
    BY <1>6
  <2>2. [i \in 1..n |-> values[i]] \in Seq(S) /\ Len([i \in 1..n |-> values[i]]) = n
    BY <1>10
  <2> QED
    BY <2>1, <2>2
<1>12. <<ck, b, vp>> \in Seq(S)
  BY <1>10, Three
<1>13. Len(d) = n + 3 /\ d[1] = ck /\ d[2] = b /\ d[3] = vp
  <2>1. PICK head \in Seq(S) : head = <<ck, b, vp>> /\ Len(head) = 3 /\ head[1] = ck /\ head[2] = b /\ head[3] = vp
    BY <1>12
  <2>2. Len(d) = Len(head) + Len(values) /\ \A k \in 1..Len(head) : d[k] = head[k]
    BY <1>8, <1>11, <2>1
  <2> QED
    BY <1>11, <2>1, <2>2
<1>16. DOMAIN d = 1..(n + 3)
  <2>1. d \in Seq(S)
    BY <1>8, <1>11, <1>12
  <2> QED
    BY <1>13, <2>1
<1>14. ASSUME NEW k \in 1..n
       PROVE  names[k] \in TypeFields1(p) /\ d[k + 3] = <<names[k], V1!Get(p, names[k])>>
  <2>1. names[k] \in TypeFields1(p)
    BY <1>3
  <2>2. PICK head \in Seq(S) : head = <<ck, b, vp>> /\ Len(head) = 3
    BY <1>12
  <2>3. d[k + 3] = values[k]
    BY <1>8, <1>11, <2>2
  <2>4. values[k] = <<names[k], V1!Get(p, names[k])>>
    BY <1>6
  <2> QED
    BY <2>1, <2>3, <2>4
<1>15. Entries1(p, n, d, names)
  BY <1>1, <1>2, <1>3, <1>4, <1>5, <1>9, <1>13, <1>14, <1>16 DEF Entries1
<1> QED
  BY <1>15

\* What assigning the entries one after the other makes.
LEMMA Restored1 ==
  ASSUME NEW p, Word1(p), Kept1(p), V1!export(p) # Error
  PROVE  LET q == V1!from_dict(V1!export(p)) IN Alike1(p, q) /\ SameIo1(p, q)
<1>00. PICK n \in Nat : \E d, names : Entries1(p, n, d, names)
  <2>1. V1!chip_key(p) # Error
    BY DEF V1!export
  <2> QED
    BY <2>1, ExportIs1
<1>0. PICK d, names : Entries1(p, n, d, names)
  BY <1>00
<1>1. /\ d = V1!export(p) /\ Len(d) = n + 3 /\ V1!chip_key(p) # Error
      /\ d[1] = <<"chip_key", V1!chip_key(p)>> /\ d[2] = <<"bits", p.bits>>
      /\ d[3] = <<"valid_parity", V1!has_valid_parity(p)>>
      /\ \A k \in 1..n : names[k] \in TypeFields1(p) /\ d[k + 3] = <<names[k], V1!Get(p, names[k])>>
  BY <1>0 DEF Entries1
<1>2. PICK f : /\ f[0] = V1!NewPacket
               /\ \A i \in 1..Len(d) : f[i] = V1!Set(f[i - 1], d[i][1], d[i][2])
               /\ V1!SetAll(V1!NewPacket, d) = f[Len(d)]
  <2>1. Len(d) \in Nat
    BY <1>1
  <2> QED
    BY <2>1, SetAllRuns1
<1>3. \A i \in 1..(n + 3) : f[i] = V1!Set(f[i - 1], d[i][1], d[i][2])
  BY <1>1, <1>2
<1>4. f[1] = V1!SetChipKey(f[0], V1!chip_key(p))
  <2>1. 1 \in 1..(n + 3) /\ 1 - 1 = 0
    OBVIOUS
  <2>2. f[1] = V1!Set(f[0], "chip_key", V1!chip_key(p))
    BY <1>1, <1>3, <2>1
  <2> QED
    BY <2>2 DEF V1!Set
<1>5. Fresh1(f[1]) /\ SameIo1(p, f[1])
  <2>0. Fresh1(f[0])
    BY <1>2, New1
  <2>1. CASE V1!chip_key(p) = None
    <3>1. f[1] = [f[0] EXCEPT !.key = None, !.io_group = None, !.io_channel = None]
      BY <1>4, <2>1 DEF V1!SetChipKey
    <3>2. f[1].io_group = None /\ f[1].io_channel = None
      BY <2>0, <3>1 DEF Fresh1, Word1
    <3>3. Fresh1(f[1])
      BY <1>4, <2>0, <2>1, SetChipKey1 DEF Fresh1
    <3> QED
      BY <2>1, <3>2, <3>3 DEF SameIo1
  <2>2. CASE V1!chip_key(p) # None
    <3>1. PICK key : key = V1!chip_key(p)
      OBVIOUS
    <3>2. key = <<p.io_group, p.io_channel, V1!Get(p, "chipid")>>
      BY <1>1, <2>2, <3>1, ChipKey1
    <3>3. key[1] = p.io_group /\ key[2] = p.io_channel /\ key # None
      BY <2>2, <3>1, <3>2
    <3>4. PICK e : e = [[f[0] EXCEPT !.key = None, !.io_group = None, !.io_channel = None]
                          EXCEPT !.io_group = key[1], !.io_channel = key[2]]
      OBVIOUS
    <3>5. Word1(e) /\ e.io_group = p.io_group /\ e.io_channel = p.io_channel
      BY <2>0, <3>3, <3>4 DEF Fresh1, Word1
    <3>6. f[1] = V1!SetChipId(e, key[3])
      BY <1>4, <3>1, <3>3, <3>4 DEF V1!SetChipKey
    <3>7. Fresh1(f[1]) /\ f[1].io_group = e.io_group /\ f[1].io_channel = e.io_channel
      BY <3>5, <3>6, SetChipId1
    <3> QED
      BY <2>2, <3>5, <3>7 DEF SameIo1
  <2> QED
    BY <2>1, <2>2
<1>6. Alike1(p, f[2]) /\ SameIo1(p, f[2])
  <2>1. 2 \in 1..(n + 3) /\ 2 - 1 = 1
    OBVIOUS
  <2>2. f[2] = V1!Set(f[1], "bits", p.bits)
    BY <1>1, <1>3, <2>1
  <2>3. f[2] = [f[1] EXCEPT !.bits = p.bits]
    BY <2>2 DEF V1!Set
  <2>4. /\ Fresh1(f[2]) /\ f[2].bits = p.bits
        /\ f[2].io_group = f[1].io_group /\ f[2].io_channel = f[1].io_channel
    BY <1>5, <2>3 DEF Fresh1, Word1
  <2>5. Rounding(p.bits, p.bits)
    BY DEF Rounding, Word1
  <2> QED
    BY <1>5, <2>4, <2>5 DEF Alike1, SameIo1
<1>7. f[3] = f[2]
  <2>1. 3 \in 1..(n + 3) /\ 3 - 1 = 2
    OBVIOUS
  <2>2. f[3] = V1!Set(f[2], "valid_parity", V1!has_valid_parity(p))
    BY <1>1, <1>3, <2>1
  <2> QED
    BY <2>2 DEF V1!Set
<1> DEFINE T == {m \in Nat : m <= n => Alike1(p, f[m + 3]) /\ SameIo1(p, f[m + 3])}
<1>8. 0 \in T
  BY <1>6, <1>7
<1>9. ASSUME NEW m \in Nat, m \in T PROVE m + 1 \in T
  <2> SUFFICES ASSUME m + 1 <= n PROVE Alike1(p, f[(m + 1) + 3]) /\ SameIo1(p, f[(m + 1) + 3])
    OBVIOUS
  <2>1. PICK k \in 1..n : k = m + 1
    OBVIOUS
  <2>2. Alike1(p, f[m + 3]) /\ SameIo1(p, f[m + 3])
    BY <1>9
  <2>3. k + 3 \in 1..(n + 3) /\ (k + 3) - 1 = m + 3
    BY <2>1
  <2>4. f[k + 3] = V1!Set(f[m + 3], names[k], V1!Get(p, names[k])) /\ names[k] \in TypeFields1(p)
    BY <1>1, <1>3, <2>3
  <2>5. PICK name \in TypeFields1(p) : name = names[k]
    BY <2>4
  <2>6. PICK q, r : q = f[m + 3] /\ r = V1!Set(q, name, V1!Get(p, name))
    OBVIOUS
  <2>7. Alike1(p, r) /\ r.io_group = q.io_group /\ r.io_channel = q.io_channel
    BY <2>2, <2>6, SetOwn1
  <2>8. SameIo1(p, r)
    BY <2>2, <2>6, <2>7 DEF SameIo1
  <2>9. f[k + 3] = r
    BY <2>4, <2>5, <2>6
  <2> QED
    BY <2>1, <2>7, <2>8, <2>9
<1> HIDE DEF T
<1>10. \A m \in Nat : m \in T
  BY <1>8, <1>9, Induction
<1>11. Alike1(p, f[n + 3]) /\ SameIo1(p, f[n + 3])
  BY <1>10 DEF T
<1>12. V1!from_dict(V1!export(p)) = f[n + 3]
  BY <1>1, <1>2 DEF V1!from_dict
<1> QED
  BY <1>11, <1>12

\* Dictionaries whose entries are the same but for those left out.
Match(d, e, but) ==
  /\ DOMAIN d = DOMAIN e
  /\ \A i \in DOMAIN d : d[i] = e[i] \/ (d[i][1] \in but /\ e[i][1] \in but)

LEMMA SameEntries ==
  ASSUME NEW d, NEW e, NEW but, Match(d, e, but)
  PROVE  \A x : x[1] \notin but => (x \in Range(d) <=> x \in Range(e))
<1> SUFFICES ASSUME NEW x, x[1] \notin but PROVE x \in Range(d) <=> x \in Range(e)
  OBVIOUS
<1>1. ASSUME x \in Range(d) PROVE x \in Range(e)
  <2>1. PICK i \in DOMAIN d : x = d[i]
    BY <1>1 DEF Range
  <2>2. x = e[i] /\ i \in DOMAIN e
    BY <2>1 DEF Match
  <2> QED
    BY <2>2 DEF Range
<1>2. ASSUME x \in Range(e) PROVE x \in Range(d)
  <2>1. PICK i \in DOMAIN e : x = e[i]
    BY <1>2 DEF Range
  <2>2. x = d[i] /\ i \in DOMAIN d
    BY <2>1 DEF Match
  <2> QED
    BY <2>2 DEF Range
<1> QED
  BY <1>1, <1>2

LEMMA AlikeKey1 ==
  ASSUME NEW p, Word1(p), Kept1(p), V1!chip_key(p) # Error, NEW q, Alike1(p, q), SameIo1(p, q)
  PROVE  V1!chip_key(q) = V1!chip_key(p)
<1>1. q.key = None
  BY DEF Alike1, Fresh1
<1>2. CASE V1!chip_key(p) = None
  BY <1>1, <1>2 DEF SameIo1, V1!chip_key
<1>3. CASE V1!chip_key(p) # None
  <2>1. PICK key : key = V1!chip_key(p)
    OBVIOUS
  <2>2. IsKey(key, V1!Get(p, "chipid"), p)
    BY <1>3, <2>1, ChipKey1
  <2>3. V1!Get(q, "chipid") = V1!Get(p, "chipid")
    <3>1. "chipid" \in TypeFields1(p)
      BY DEF TypeFields1, Base1
    <3> QED
      BY <3>1, AlikeFields1
  <2>4. q.io_group = p.io_group /\ q.io_channel = p.io_channel
    BY <1>3 DEF SameIo1
  <2>5. V1!chip_key(q) = Key(<<q.io_group, q.io_channel, V1!Get(q, "chipid")>>)
    BY <1>1, <2>2, <2>4, SameBits1 DEF V1!chip_key, IsKey
  <2>6. Key(key) # Error /\ key = <<p.io_group, p.io_channel, V1!Get(p, "chipid")>>
    BY <2>2 DEF IsKey
  <2>7. Key(key) = key
    BY <2>6, KeyType
  <2> QED
    BY <2>1, <2>3, <2>4, <2>5, <2>6, <2>7
<1> QED
  BY <1>2, <1>3

\* Where nothing is left out, no bit was lost.
LEMMA NotRounded1 ==
  ASSUME NEW p, Word1(p), NEW q, Alike1(p, q), Rounded(p) = {}
  PROVE  q.bits = p.bits /\ V1!has_valid_parity(q) = V1!has_valid_parity(p)
<1>1. q.bits = p.bits
  <2>1. CASE V1!Get(p, "type") # V1!DATA_PACKET
    BY <2>1 DEF Alike1
  <2>2. CASE V1!Get(p, "type") = V1!DATA_PACKET
    <3>1. Rounding(p.bits, q.bits)
      BY <2>2 DEF Alike1
    <3>2. type_of(p) = V1!DATA_PACKET /\ p.kind = "v1"
      BY <2>2 DEF type_of, Word1
    <3>3. V1!Slice["adc_counts"][2] = 13
      BY DEF V1!Slice
    <3>4. p.bits[13] # 1
      BY <3>2, <3>3 DEF Rounded
    <3>5. p.bits \in Seq(Bit) /\ Len(p.bits) >= 54 /\ Len(p.bits) \in Nat
      BY DEF Word1
    <3>6. p.bits[13] = 0
      <4>1. 13 \in 1..Len(p.bits)
        BY <3>5
      <4>2. p.bits[13] \in Bit
        BY <3>5, <4>1
      <4> QED
        BY <3>4, <4>2 DEF Bit
    <3>7. \A k \in 1..Len(q.bits) : q.bits[k] = p.bits[k]
      BY <3>1, <3>6 DEF Rounding
    <3>8. q.bits \in Seq(Bit) /\ Len(q.bits) = Len(p.bits)
      BY <3>1 DEF Rounding
    <3> QED
      BY <3>5, <3>7, <3>8, BitsEqual
  <2> QED
    BY <2>1, <2>2
<1>2. V1!Get(q, "parity") = V1!Get(p, "parity")
  <2>1. "parity" \in TypeFields1(p)
    BY DEF TypeFields1, Base1
  <2> QED
    BY <2>1, AlikeFields1
<1>3. V1!compute_parity(q) = V1!compute_parity(p)
  BY <1>1 DEF V1!compute_parity
<1> QED
  BY <1>1, <1>2, <1>3 DEF V1!has_valid_parity

\* The word made of a dictionary gives that dictionary.
LEMMA DictRestores1 ==
  ASSUME NEW p, Word1(p), Kept1(p), V1!export(p) # Error, NEW q, q = V1!from_dict(V1!export(p))
  PROVE  Exported(q, Rounded(p)) = Exported(p, Rounded(p))
<1>1. Alike1(p, q) /\ SameIo1(p, q)
  BY Restored1
<1>2. Word1(q)
  BY <1>1 DEF Alike1, Fresh1
<1>3. V1!chip_key(p) # Error
  BY DEF V1!export
<1>4. V1!chip_key(q) = V1!chip_key(p)
  BY <1>1, <1>3, AlikeKey1
<1>5. PICK n \in Nat : \E d, names : Entries1(p, n, d, names)
  BY <1>3, ExportIs1
<1>6. PICK d, names : Entries1(p, n, d, names)
  BY <1>5
<1>7. PICK m \in Nat : \E e, others : Entries1(q, m, e, others)
  BY <1>2, <1>3, <1>4, ExportIs1
<1>8. PICK e, others : Entries1(q, m, e, others)
  BY <1>7
<1>9. V1!Fields(q) = V1!Fields(p)
  <2>1. "type" \in TypeFields1(p)
    BY DEF TypeFields1, Base1
  <2>2. V1!Get(q, "type") = V1!Get(p, "type")
    BY <1>1, <2>1, AlikeFields1
  <2> QED
    BY <2>2 DEF V1!Fields
<1>10. others = names /\ m = n
  BY <1>6, <1>8, <1>9 DEF Entries1
<1>11. DOMAIN d = 1..(n + 3) /\ DOMAIN e = 1..(n + 3)
  BY <1>6, <1>8, <1>10 DEF Entries1
<1>12. ASSUME NEW k \in 1..n PROVE d[k + 3] = e[k + 3]
  <2>1. PICK name \in TypeFields1(p) : name = names[k]
    BY <1>6 DEF Entries1
  <2>2. d[k + 3] = <<name, V1!Get(p, name)>> /\ e[k + 3] = <<name, V1!Get(q, name)>>
    BY <1>6, <1>8, <1>10, <2>1 DEF Entries1
  <2>3. V1!Get(q, name) = V1!Get(p, name)
    BY <1>1, AlikeFields1, AlikeData1
  <2> QED
    BY <2>2, <2>3
<1>13. d[1] = e[1]
  BY <1>4, <1>6, <1>8 DEF Entries1
<1>14. /\ d[2][1] = "bits" /\ e[2][1] = "bits" /\ d[2][2] = p.bits /\ e[2][2] = q.bits
       /\ d[2] = <<"bits", p.bits>> /\ e[2] = <<"bits", q.bits>>
  BY <1>6, <1>8 DEF Entries1
<1>15. /\ d[3] = <<"valid_parity", V1!has_valid_parity(p)>>
       /\ e[3] = <<"valid_parity", V1!has_valid_parity(q)>>
  BY <1>6, <1>8 DEF Entries1
<1>16. \A i \in 2..3 : d[i] = e[i] \/ (d[i][1] \in Rounded(p) /\ e[i][1] \in Rounded(p))
  <2>1. CASE Rounded(p) = {}
    <3>1. d[2] = e[2] /\ d[3] = e[3]
      BY <1>1, <1>14, <1>15, <2>1, NotRounded1
    <3> QED
      BY <3>1
  <2>2. CASE Rounded(p) # {}
    <3>1. Rounded(p) = {"bits", "valid_parity"}
      BY <2>2 DEF Rounded
    <3>2. d[3][1] = "valid_parity" /\ e[3][1] = "valid_parity"
      BY <1>15
    <3> QED
      BY <1>14, <3>1, <3>2
  <2> QED
    BY <2>1, <2>2
<1>17. \A i \in 1..(n + 3) : d[i] = e[i] \/ (d[i][1] \in Rounded(p) /\ e[i][1] \in Rounded(p))
  <2>1. ASSUME NEW i \in 1..(n + 3), i > 3 PROVE d[i] = e[i]
    <3>1. i - 3 \in 1..n /\ (i - 3) + 3 = i
      BY <2>1
    <3> QED
      BY <1>12, <3>1
  <2>2. \A i \in 1..(n + 3) : i = 1 \/ i \in 2..3 \/ i > 3
    OBVIOUS
  <2> QED
    BY <1>13, <1>16, <2>1, <2>2
<1>18. {entry \in Range(d) : entry[1] \notin Rounded(p)} = {entry \in Range(e) : entry[1] \notin Rounded(p)}
  <2>1. PICK but, x, y : but = Rounded(p) /\ x = d /\ y = e
    OBVIOUS
  <2>2. Match(x, y, but)
    BY <1>11, <1>17, <2>1 DEF Match
  <2>3. PICK u, v : u = Range(x) /\ v = Range(y)
    OBVIOUS
  <2>4. \A z : z[1] \notin but => (z \in u <=> z \in v)
    BY ONLY <2>2, <2>3, SameEntries
  <2>5. {entry \in u : entry[1] \notin but} = {entry \in v : entry[1] \notin but}
    BY ONLY <2>4
  <2> QED
    BY <2>1, <2>3, <2>5
<1>19. exported(p) = d /\ exported(q) = e
  BY <1>2, <1>6, <1>8 DEF exported, Word1, Entries1
<1> QED
  BY <1>18, <1>19 DEF Exported

-----------------------------------------------------------------------------
(* A word of the second generation, from its dictionary.                   *)

\* What a word has in common with the one that its dictionary was made of:
\* diagnostics count where there are event counts.
SameWord2(p, q) ==
  /\ q.bits = p.bits
  /\ V2!Get(p, "packet_type") = V2!DATA_PACKET => (q.diagnostics <=> p.diagnostics)

Alike2(p, q) ==
  /\ Fresh2(q) /\ SameWord2(p, q)
  /\ q.io_group = p.io_group /\ q.io_channel = p.io_channel

LEMMA ReadFrom2 ==
  ASSUME NEW p, Word2(p), V2!Word(p) = p.bits, NEW name \in Names2, name \in Events2 => p.diagnostics
  PROVE  V2!Get(p, name) = touint(Span(p.bits, Place2(p, name)))
<1>1. CASE name = "timestamp"
  BY <1>1, SameBits2 DEF V2!Get, Place2
<1>2. CASE name = "chip_id"
  BY <1>2, SameBits2 DEF V2!Get, Place2
<1>3. CASE name \in {"local_fifo_events", "shared_fifo_events"}
  BY <1>3, SameBits2 DEF V2!Get, Place2, Events2
<1>4. CASE name \notin {"timestamp", "chip_id", "local_fifo_events", "shared_fifo_events"}
  BY <1>4, SameBits2 DEF V2!Get, Place2
<1> QED
  BY <1>1, <1>2, <1>3, <1>4

LEMMA DataFields2 ==
  ASSUME NEW p, NEW name \in TypeFields2(p), name \in Data2 \cup Events2
  PROVE  /\ V2!Get(p, "packet_type") = V2!DATA_PACKET
         /\ name \in Events2 => p.diagnostics
  BY DEF TypeFields2, Base2, Config2, Data2, Events2

LEMMA AlikeFields2 ==
  ASSUME NEW p, Word2(p), Kept2(p), NEW q, Word2(q), V2!Word(q) = q.bits, SameWord2(p, q),
         NEW name \in TypeFields2(p)
  PROVE  V2!Get(q, name) = V2!Get(p, name) /\ Place2(q, name) = Place2(p, name)
<1>1. name \in Names2 \ {"fifo_diagnostics_timestamp"}
  BY TypeFieldsAreFields2
<1>2. V2!Word(p) = p.bits
  BY WordIsBits DEF Kept2
<1>3. /\ name \in Data2 \cup Events2 => (q.diagnostics <=> p.diagnostics)
      /\ name \in Events2 => p.diagnostics
  BY DataFields2 DEF SameWord2
<1>4. name \in Events2 => p.diagnostics /\ q.diagnostics
  BY <1>3
<1>5. Place2(q, name) = Place2(p, name)
  <2>1. CASE name = "timestamp"
    <3>1. q.diagnostics <=> p.diagnostics
      BY <1>3, <2>1 DEF Data2
    <3>2. V2!TimestampField(q) = V2!TimestampField(p)
      BY <3>1 DEF V2!TimestampField
    <3> QED
      BY <2>1, <3>2 DEF Place2
  <2>2. CASE name # "timestamp"
    BY <2>2 DEF Place2
  <2> QED
    BY <2>1, <2>2
<1>6. V2!Get(p, name) = touint(Span(p.bits, Place2(p, name)))
  BY <1>1, <1>2, <1>4, ReadFrom2
<1>7. V2!Get(q, name) = touint(Span(q.bits, Place2(q, name)))
  BY <1>1, <1>4, ReadFrom2
<1> QED
  BY <1>5, <1>6, <1>7 DEF SameWord2

\* Assigning a field the value it has leaves the word as it was.
Same2(q, r) ==
  /\ Fresh2(r) /\ r.bits = q.bits /\ r.diagnostics = q.diagnostics
  /\ r.io_group = q.io_group /\ r.io_channel = q.io_channel
  /\ r.direction = q.direction /\ r.receipt_timestamp = q.receipt_timestamp

LEMMA OwnBits2 ==
  ASSUME NEW q, Fresh2(q), NEW field \in Names2, NEW v, v = touint(Span(q.bits, V2!Slice[field]))
  PROVE  Same2(q, V2!SetBits(q, field, v))
<1>1. PICK slice : slice = V2!Slice[field]
  OBVIOUS
<1>2. slice[1] \in Nat /\ slice[2] \in Nat /\ slice[1] < slice[2] /\ slice[2] <= 64
  BY <1>1, Slices2
<1>3. slice[2] - slice[1] <= 31
  BY <1>1 DEF V2!Slice, Names2
<1>4. Word2(q) /\ q.key = None /\ q.int = None
  BY DEF Fresh2
<1>5. PICK s \in Seq(Bit) : s = q.bits /\ Len(s) >= 64 /\ Len(s) \in Nat
  BY <1>4 DEF Word2
<1>6. slice[1] <= slice[2] /\ slice[2] <= Len(s)
  BY <1>2, <1>5
<1>7. Write(s, slice, fromuint(touint(Span(s, slice)), slice[2] - slice[1])) = s
  BY <1>2, <1>3, <1>6, WriteOwn
<1>8. V2!FieldWidth(field) = slice[2] - slice[1]
  BY <1>1, Slices2
<1>9. V2!SetBits(q, field, v) = [q EXCEPT !.int = None, !.bits = s]
  BY <1>1, <1>5, <1>7, <1>8, SameBits2 DEF V2!SetBits
<1>10. PICK r : r = [q EXCEPT !.int = None, !.bits = s]
  OBVIOUS
<1>11. Same2(q, r)
  BY <1>4, <1>5, <1>10 DEF Same2, Fresh2, Word2
<1> QED
  BY <1>9, <1>10, <1>11

LEMMA SetOwn2 ==
  ASSUME NEW p, Word2(p), Kept2(p), NEW q, Alike2(p, q), NEW name \in TypeFields2(p)
  PROVE  Same2(q, V2!Set(q, name, V2!Get(p, name)))
<1>1. PICK v : v = V2!Get(p, name)
  OBVIOUS
<1>2. name \in Names2 \ {"fifo_diagnostics_timestamp"}
  BY TypeFieldsAreFields2
<1>3. Fresh2(q) /\ Word2(q) /\ V2!Word(q) = q.bits /\ SameWord2(p, q)
  BY WordIsBits DEF Alike2, Fresh2
<1>4. v = V2!Get(q, name)
  BY <1>1, <1>3, AlikeFields2
<1>5. name \in Events2 => q.diagnostics
  BY <1>3, DataFields2 DEF SameWord2
<1>6. v = touint(Span(q.bits, Place2(q, name)))
  BY <1>2, <1>3, <1>4, <1>5, ReadFrom2
<1>7. CASE name = "timestamp"
  <2>1. V2!TimestampField(q) \in Names2
    BY TimestampName DEF Names2
  <2>2. PICK field \in Names2 : field = V2!TimestampField(q)
    BY <2>1
  <2>3. v = touint(Span(q.bits, V2!Slice[field]))
    BY <1>6, <1>7, <2>2 DEF Place2
  <2>4. Same2(q, V2!SetBits(q, field, v))
    BY <1>3, <2>3, OwnBits2
  <2>5. V2!Set(q, name, v) = V2!SetBits(q, field, v)
    BY <1>7, <2>2 DEF V2!Set
  <2> QED
    BY <1>1, <2>4, <2>5
<1>8. CASE name = "chip_id"
  <2>1. PICK q0 : q0 = [q EXCEPT !.key = None]
    OBVIOUS
  <2>2. Same2(q, q0)
    BY <1>3, <2>1 DEF Same2, Fresh2, Word2
  <2>3. v = touint(Span(q0.bits, V2!Slice["chip_id"])) /\ "chip_id" \in Names2
    BY <1>6, <1>8, <2>2 DEF Place2, Same2, Names2
  <2>4. Same2(q0, V2!SetBits(q0, "chip_id", v))
    BY <2>2, <2>3, OwnBits2 DEF Same2
  <2>5. V2!Set(q, name, v) = V2!SetBits(q0, "chip_id", v)
    BY <1>8, <2>1 DEF V2!Set, V2!SetChipId
  <2> QED
    BY <1>1, <2>2, <2>4, <2>5 DEF Same2
<1>9. CASE name \notin {"timestamp", "chip_id"}
  <2>1. V2!Set(q, name, v) = V2!SetBits(q, name, v)
    <3>1. CASE name \in Events2
      BY <1>5, <3>1 DEF V2!Set, V2!SetEvents, Events2
    <3>2. CASE name \notin Events2
      BY <1>2, <1>9, <3>2 DEF V2!Set, Events2, Names2
    <3> QED
      BY <3>1, <3>2
  <2>2. v = touint(Span(q.bits, V2!Slice[name]))
    BY <1>6, <1>9 DEF Place2
  <2> QED
    BY <1>1, <1>2, <1>3, <2>1, <2>2, OwnBits2
<1> QED
  BY <1>7, <1>8, <1>9

\* The entries of a word's dictionary.
Entries2(p, n, m, d, names, extras) ==
  /\ d = V2!export(p) /\ Len(d) = n + 5 + m /\ V2!chip_key(p) # Error
  /\ d[1] = <<"chip_key", V2!chip_key(p)>> /\ d[2] = <<"io_group", p.io_group>>
  /\ d[3] = <<"io_channel", p.io_channel>> /\ d[4] = <<"bits", p.bits>>
  /\ d[5] = <<"valid_parity", V2!has_valid_parity(p)>>
  /\ \A k \in 1..n : names[k] \in TypeFields2(p) /\ d[k + 5] = <<names[k], V2!Get(p, names[k])>>
  /\ \A j \in 1..m : d[n + 5 + j] = extras[j]
  /\ names = V2!Fields(p) /\ n = Len(names) /\ extras = V2!Extras(p) /\ m = Len(extras)

ExtrasAre(p, m, extras) ==
  \/ /\ p.direction = None /\ p.receipt_timestamp = None /\ m = 0
  \/ /\ p.direction # None /\ p.receipt_timestamp = None /\ m = 1
     /\ extras[1] = <<"direction", p.direction>>
  \/ /\ p.direction = None /\ p.receipt_timestamp # None /\ m = 1
     /\ extras[1] = <<"receipt_timestamp", p.receipt_timestamp>>
  \/ /\ p.direction # None /\ p.receipt_timestamp # None /\ m = 2
     /\ extras[1] = <<"direction", p.direction>>
     /\ extras[2] = <<"receipt_timestamp", p.receipt_timestamp>>

LEMMA ExtrasIs ==
  ASSUME NEW p PROVE \E m \in Nat : m = Len(V2!Extras(p)) /\ ExtrasAre(p, m, V2!Extras(p))
<1>1. PICK a, b : a = <<"direction", p.direction>> /\ b = <<"receipt_timestamp", p.receipt_timestamp>>
  OBVIOUS
<1>2. V2!Extras(p) = (IF p.direction = None THEN <<>> ELSE <<a>>)
                     \o (IF p.receipt_timestamp = None THEN <<>> ELSE <<b>>)
  BY <1>1 DEF V2!Extras, V2!Extra
<1>3. PICK e : e = V2!Extras(p)
  OBVIOUS
<1>4. CASE p.direction = None /\ p.receipt_timestamp = None
  <2>1. e = <<>> \o <<>>
    BY <1>2, <1>3, <1>4
  <2>2. Len(e) = 0
    BY <2>1
  <2> QED
    BY <1>3, <1>4, <2>2 DEF ExtrasAre
<1>5. CASE p.direction # None /\ p.receipt_timestamp = None
  <2>1. e = <<a>> \o <<>>
    BY <1>2, <1>3, <1>5
  <2>2. Len(e) = 1 /\ e[1] = a
    BY <2>1
  <2> QED
    BY <1>1, <1>3, <1>5, <2>2 DEF ExtrasAre
<1>6. CASE p.direction = None /\ p.receipt_timestamp # None
  <2>1. e = <<>> \o <<b>>
    BY <1>2, <1>3, <1>6
  <2>2. Len(e) = 1 /\ e[1] = b
    BY <2>1
  <2> QED
    BY <1>1, <1>3, <1>6, <2>2 DEF ExtrasAre
<1>7. CASE p.direction # None /\ p.receipt_timestamp # None
  <2>1. e = <<a>> \o <<b>>
    BY <1>2, <1>3, <1>7
  <2>2. Len(e) = 2 /\ e[1] = a /\ e[2] = b
    BY <2>1
  <2> QED
    BY <1>1, <1>3, <1>7, <2>2 DEF ExtrasAre
<1> QED
  BY <1>4, <1>5, <1>6, <1>7

LEMMA JoinTwo ==
  ASSUME NEW S, NEW x \in Seq(S), NEW y \in Seq(S)
  PROVE  /\ x \o y \in Seq(S) /\ Len(x \o y) = Len(x) + Len(y)
         /\ \A k \in 1..Len(x) : (x \o y)[k] = x[k]
         /\ \A k \in 1..Len(y) : (x \o y)[k + Len(x)] = y[k]
<1>1. x \o y \in Seq(S)
  OBVIOUS
<1>2. Len(x \o y) = Len(x) + Len(y)
  OBVIOUS
<1>3. ASSUME NEW k \in 1..Len(x) PROVE (x \o y)[k] = x[k]
  OBVIOUS
<1>4. ASSUME NEW k \in 1..Len(y) PROVE (x \o y)[k + Len(x)] = y[k]
  OBVIOUS
<1> QED
  BY <1>1, <1>2, <1>3, <1>4

LEMMA JoinThree ==
  ASSUME NEW S, NEW x \in Seq(S), NEW y \in Seq(S), NEW z \in Seq(S)
  PROVE  /\ Len(x \o y \o z) = Len(x) + Len(y) + Len(z)
         /\ \A k \in 1..Len(x) : (x \o y \o z)[k] = x[k]
         /\ \A k \in 1..Len(y) : (x \o y \o z)[k + Len(x)] = y[k]
         /\ \A k \in 1..Len(z) : (x \o y \o z)[Len(x) + Len(y) + k] = z[k]
<1>1. PICK u : u = x \o y
  OBVIOUS
<1>2. /\ u \in Seq(S) /\ Len(u) = Len(x) + Len(y)
      /\ \A k \in 1..Len(x) : u[k] = x[k]
      /\ \A k \in 1..Len(y) : u[k + Len(x)] = y[k]
  BY <1>1, JoinTwo
<1>3. PICK w : w = u \o z
  OBVIOUS
<1>4. /\ Len(w) = Len(u) + Len(z)
      /\ \A k \in 1..Len(u) : w[k] = u[k]
      /\ \A k \in 1..Len(z) : w[k + Len(u)] = z[k]
  <2>1. u \in Seq(S)
    BY <1>2
  <2> QED
    BY <1>3, <2>1, JoinTwo
<1>5. PICK a \in Nat, b \in Nat : a = Len(x) /\ b = Len(y)
  OBVIOUS
<1>6. ASSUME NEW k \in 1..a PROVE w[k] = x[k]
  <2>1. k \in 1..Len(u) /\ k \in 1..Len(x)
    BY <1>2, <1>5
  <2> QED
    BY <1>2, <1>4, <2>1
<1>7. ASSUME NEW k \in 1..b PROVE w[k + a] = y[k]
  <2>1. k + a \in 1..Len(u) /\ k \in 1..Len(y)
    BY <1>2, <1>5
  <2> QED
    BY <1>2, <1>4, <1>5, <2>1
<1>8. ASSUME NEW k \in 1..Len(z) PROVE w[a + b + k] = z[k]
  <2>1. a + b + k = k + Len(u)
    BY <1>2, <1>5
  <2> QED
    BY <1>4, <2>1
<1> QED
  BY <1>1, <1>2, <1>3, <1>4, <1>5, <1>6, <1>7, <1>8

LEMMA ExportIs2 ==
  ASSUME NEW p, Word2(p), V2!chip_key(p) # Error
  PROVE  \E n \in Nat, m \in Nat : \E d, names, extras :
           Entries2(p, n, m, d, names, extras) /\ ExtrasAre(p, m, extras)
<1>1. PICK m \in Nat : m = Len(V2!Extras(p)) /\ ExtrasAre(p, m, V2!Extras(p))
  BY ExtrasIs
<1>2. PICK names \in Seq(TypeFields2(p)) : names = V2!Fields(p)
  BY FieldsType2
<1>3. PICK n \in Nat : n = Len(names)
  OBVIOUS
<1>4. PICK ck, vp : ck = <<"chip_key", V2!chip_key(p)>> /\ vp = <<"valid_parity", V2!has_valid_parity(p)>>
  OBVIOUS
<1>5. PICK b, g, c : b = <<"bits", p.bits>> /\ g = <<"io_group", p.io_group>> /\ c = <<"io_channel", p.io_channel>>
  OBVIOUS
<1>6. PICK values : values = [i \in 1..n |-> <<names[i], V2!Get(p, names[i])>>]
  OBVIOUS
<1>7. V2!Values(p) = values
  BY <1>2, <1>3, <1>6 DEF V2!Values
<1>8. PICK extras, x, y : /\ extras = V2!Extras(p) /\ x = <<"direction", p.direction>>
                          /\ y = <<"receipt_timestamp", p.receipt_timestamp>>
  OBVIOUS
<1>9. PICK head : head = <<ck, g, c, b, vp>>
  OBVIOUS
<1>10. V2!export(p) = head \o values \o extras
  BY <1>4, <1>5, <1>7, <1>8, <1>9 DEF V2!export
<1>11. PICK S : /\ ck \in S /\ b \in S /\ vp \in S /\ g \in S /\ c \in S /\ x \in S /\ y \in S
                /\ \A i \in 1..n : values[i] \in S
  <2> DEFINE S == {ck, b, vp, g, c, x, y} \cup {values[i] : i \in 1..n}
  <2>1. /\ ck \in S /\ b \in S /\ vp \in S /\ g \in S /\ c \in S /\ x \in S /\ y \in S
        /\ \A i \in 1..n : values[i] \in S
    OBVIOUS
  <2> HIDE DEF S
  <2> QED
    BY <2>1
<1>12. values \in Seq(S) /\ Len(values) = n
  <2>1. values = [i \in 1..n |-> values[i]]
    BY <1>6
  <2>2. [i \in 1..n |-> values[i]] \in Seq(S) /\ Len([i \in 1..n |-> values[i]]) = n
    BY <1>11
  <2> QED
    BY <2>1, <2>2
<1>13. /\ head \in Seq(S) /\ Len(head) = 5 /\ head[1] = ck /\ head[2] = g /\ head[3] = c
       /\ head[4] = b /\ head[5] = vp
  BY <1>9, <1>11
<1>14. extras \in Seq(S)
  <2>1. V2!Extra("direction", p.direction) \in Seq(S)
    <3>1. <<x>> \in Seq(S) /\ <<>> \in Seq(S)
      BY <1>11
    <3> QED
      BY <1>8, <3>1 DEF V2!Extra
  <2>2. V2!Extra("receipt_timestamp", p.receipt_timestamp) \in Seq(S)
    <3>1. <<y>> \in Seq(S) /\ <<>> \in Seq(S)
      BY <1>11
    <3> QED
      BY <1>8, <3>1 DEF V2!Extra
  <2> QED
    BY <1>8, <2>1, <2>2, Join DEF V2!Extras
<1>15. PICK d : d = head \o values \o extras
  OBVIOUS
<1>16. PICK five \in Nat : five = 5
  OBVIOUS
<1>17. /\ Len(d) = five + n + m
       /\ \A k \in 1..five : d[k] = head[k]
       /\ \A k \in 1..n : d[k + five] = values[k]
       /\ \A k \in 1..m : d[five + n + k] = extras[k]
  <2>1. Len(head) = five /\ Len(values) = n /\ Len(extras) = m
    BY <1>1, <1>8, <1>12, <1>13, <1>16
  <2> QED
    <3>1. head \in Seq(S) /\ values \in Seq(S) /\ extras \in Seq(S)
      BY <1>12, <1>13, <1>14
    <3>2. /\ Len(d) = Len(head) + Len(values) + Len(extras)
          /\ \A k \in 1..Len(head) : d[k] = head[k]
          /\ \A k \in 1..Len(values) : d[k + Len(head)] = values[k]
          /\ \A k \in 1..Len(extras) : d[Len(head) + Len(values) + k] = extras[k]
      BY <1>15, <3>1, JoinThree
    <3> QED
      BY <2>1, <3>2
<1>18. d[1] = ck /\ d[2] = g /\ d[3] = c /\ d[4] = b /\ d[5] = vp
  BY <1>13, <1>16, <1>17
<1>19. Len(d) = n + 5 + m /\ \A j \in 1..m : d[n + 5 + j] = extras[j]
  <2>1. five + n + m = n + 5 + m /\ \A j \in 1..m : five + n + j = n + 5 + j
    BY <1>16
  <2> QED
    BY <1>17, <2>1
<1>20. ASSUME NEW k \in 1..n PROVE names[k] \in TypeFields2(p) /\ d[k + 5] = <<names[k], V2!Get(p, names[k])>>
  <2>1. names[k] \in TypeFields2(p)
    BY <1>3
  <2>2. values[k] = <<names[k], V2!Get(p, names[k])>>
    BY <1>6
  <2> QED
    BY <1>16, <1>17, <2>1, <2>2
<1>21. Entries2(p, n, m, d, names, extras)
  BY <1>1, <1>2, <1>3, <1>4, <1>5, <1>8, <1>10, <1>15, <1>18, <1>19, <1>20 DEF Entries2
<1> QED
  BY <1>1, <1>8, <1>21

\* Event counts are in the dictionary of a data word with diagnostics alone.
LEMMA EventPlace2 ==
  ASSUME NEW p, V2!Get(p, "packet_type") = V2!DATA_PACKET, p.diagnostics
  PROVE  Len(V2!Fields(p)) = 13 /\ V2!Fields(p)[12] = "local_fifo_events"
<1>1. PICK first, data, events :
        /\ first = <<"packet_type", "chip_id", "downstream_marker", "parity">>
        /\ data = <<"channel_id", "timestamp", "first_packet", "dataword", "trigger_type",
                    "local_fifo", "shared_fifo">>
        /\ events = <<"local_fifo_events", "shared_fifo_events">>
  OBVIOUS
<1>2. V2!Fields(p) = first \o (data \o events)
  BY <1>1 DEF V2!Fields, V2!TEST_PACKET, V2!DATA_PACKET
<1>3. first \in Seq(Names2) /\ Len(first) = 4
  <2>1. <<"packet_type", "chip_id", "downstream_marker", "parity">> \in Seq(Names2)
    BY DEF Names2
  <2> QED
    BY <1>1, <2>1
<1>8. data \in Seq(Names2) /\ Len(data) = 7
  <2>1. <<"channel_id", "timestamp", "first_packet", "dataword", "trigger_type",
          "local_fifo", "shared_fifo">> \in Seq(Names2)
    BY DEF Names2
  <2> QED
    BY <1>1, <2>1
<1>9. events \in Seq(Names2) /\ Len(events) = 2 /\ events[1] = "local_fifo_events"
  <2>1. <<"local_fifo_events", "shared_fifo_events">> \in Seq(Names2)
    BY DEF Names2
  <2> QED
    BY <1>1, <2>1
<1>4. PICK x : x = data \o events
  OBVIOUS
<1>5. x \in Seq(Names2) /\ Len(x) = 9 /\ x[8] = "local_fifo_events"
  <2>1. /\ x \in Seq(Names2) /\ Len(x) = Len(data) + Len(events)
        /\ \A k \in 1..Len(events) : x[k + Len(data)] = events[k]
    <3>1. data \in Seq(Names2) /\ events \in Seq(Names2)
      BY <1>8, <1>9
    <3> QED
      BY <1>4, <3>1, JoinTwo
  <2>2. 1 \in 1..Len(events) /\ 1 + Len(data) = 8
    BY <1>8, <1>9
  <2>3. x[1 + Len(data)] = events[1]
    BY <2>1, <2>2
  <2> QED
    BY <1>8, <1>9, <2>1, <2>2, <2>3
<1>6. PICK y : y = first \o x
  OBVIOUS
<1>7. Len(y) = 13 /\ y[12] = "local_fifo_events"
  <2>1. /\ Len(y) = Len(first) + Len(x)
        /\ \A k \in 1..Len(x) : y[k + Len(first)] = x[k]
    <3>1. first \in Seq(Names2) /\ x \in Seq(Names2)
      BY <1>3, <1>5
    <3> QED
      BY <1>6, <3>1, JoinTwo
  <2>2. 8 \in 1..Len(x) /\ 8 + Len(first) = 12
    BY <1>3, <1>5
  <2>3. y[8 + Len(first)] = x[8]
    BY <2>1, <2>2
  <2> QED
    BY <1>3, <1>5, <2>1, <2>2, <2>3
<1> QED
  BY <1>2, <1>4, <1>6, <1>7

LEMMA EntryNames2 ==
  ASSUME NEW p, NEW n \in Nat, NEW m \in Nat, NEW d, NEW names, NEW extras,
         Entries2(p, n, m, d, names, extras), ExtrasAre(p, m, extras), NEW i \in 1..Len(d),
         d[i][1] \in Events2
  PROVE  \E k \in 1..n : i = k + 5 /\ d[i] = <<names[k], V2!Get(p, names[k])>>
<1>1. Len(d) = n + 5 + m
  BY DEF Entries2
<1>2. i \notin 1..5
  BY DEF Entries2, Events2
<1>3. ASSUME NEW j \in 1..m, i = n + 5 + j PROVE FALSE
  <2>1. d[i] = extras[j]
    BY <1>3 DEF Entries2
  <2>2. extras[j][1] \in {"direction", "receipt_timestamp"}
    BY DEF ExtrasAre
  <2> QED
    BY <2>1, <2>2 DEF Events2
<1>4. i - 5 \in 1..n
  <2>1. CASE i > n + 5
    <3>1. i - (n + 5) \in 1..m /\ i = n + 5 + (i - (n + 5))
      BY <1>1, <2>1
    <3> QED
      BY <1>3, <3>1
  <2>2. CASE i <= n + 5
    BY <1>2, <2>2
  <2> QED
    BY <1>1, <2>1, <2>2
<1>5. PICK k \in 1..n : k = i - 5 /\ i = k + 5
  BY <1>4
<1> QED
  BY <1>5 DEF Entries2

LEMMA Diagnosed2 ==
  ASSUME NEW p, Word2(p), Kept2(p), NEW n \in Nat, NEW m \in Nat, NEW d, NEW names, NEW extras,
         Entries2(p, n, m, d, names, extras), ExtrasAre(p, m, extras)
  PROVE  (V2!get(d, "local_fifo_events", None) # None \/ V2!get(d, "shared_fifo_events", None) # None)
           <=> (V2!Get(p, "packet_type") = V2!DATA_PACKET /\ p.diagnostics)
<1>1. CASE V2!Get(p, "packet_type") = V2!DATA_PACKET /\ p.diagnostics
  <2>1. names[12] = "local_fifo_events" /\ n = 13
    BY <1>1, EventPlace2 DEF Entries2
  <2>2. 17 \in 1..Len(d) /\ d[17][1] = "local_fifo_events"
    <3>1. 12 \in 1..n /\ 12 + 5 = 17 /\ 17 \in 1..(n + 5 + m)
      BY <2>1
    <3>2. d[17] = <<names[12], V2!Get(p, names[12])>>
      BY <3>1 DEF Entries2
    <3> QED
      BY <2>1, <3>1, <3>2 DEF Entries2
  <2>3. PICK i \in 1..Len(d) : /\ d[i][1] = "local_fifo_events"
                               /\ i = CHOOSE j \in 1..Len(d) : d[j][1] = "local_fifo_events"
    BY <2>2
  <2>4. V2!get(d, "local_fifo_events", None) = d[i][2]
    BY <2>2, <2>3 DEF V2!get
  <2>5. PICK k \in 1..n : d[i] = <<names[k], V2!Get(p, names[k])>>
    <3>1. d[i][1] \in Events2
      BY <2>3 DEF Events2
    <3>2. \E k \in 1..n : i = k + 5 /\ d[i] = <<names[k], V2!Get(p, names[k])>>
      BY <3>1, EntryNames2
    <3> QED
      BY <3>2
  <2>6. d[i][2] = V2!Get(p, "local_fifo_events")
    BY <2>3, <2>5
  <2>7. "local_fifo_events" \in Names2
    BY DEF Names2
  <2>8. V2!Get(p, "local_fifo_events") = touint(Span(p.bits, V2!Slice["local_fifo_events"]))
    <3>1. V2!Word(p) = p.bits
      BY WordIsBits DEF Kept2
    <3>2. Place2(p, "local_fifo_events") = V2!Slice["local_fifo_events"]
      BY DEF Place2
    <3> QED
      BY <1>1, <2>7, <3>1, <3>2, ReadFrom2
  <2>9. PICK b \in Seq(Bit) : b = Span(p.bits, V2!Slice["local_fifo_events"]) /\ Len(b) <= 31
    <3>1. PICK slice : slice = V2!Slice["local_fifo_events"]
      OBVIOUS
    <3>2. slice[1] = 44 /\ slice[2] = 46
      BY <3>1 DEF V2!Slice
    <3>3. PICK s \in Seq(Bit) : s = p.bits /\ Len(s) >= 64 /\ Len(s) \in Nat
      BY DEF Word2
    <3>4. slice[1] \in Nat /\ slice[2] \in Nat /\ slice[1] <= slice[2] /\ slice[2] <= Len(s) /\ slice[2] - slice[1] = 2
      BY <3>2, <3>3
    <3>5. Span(s, slice) \in Seq(Bit) /\ Len(Span(s, slice)) = slice[2] - slice[1]
      BY <3>4, SpanType
    <3> QED
      BY <3>1, <3>3, <3>4, <3>5
  <2>10. touint(b) \in Nat
    BY <2>9, FromToLittle
  <2>11. V2!get(d, "local_fifo_events", None) # None
    BY <2>4, <2>6, <2>8, <2>9, <2>10, NoneAssumption
  <2> QED
    BY <1>1, <2>11
<1>2. CASE ~(V2!Get(p, "packet_type") = V2!DATA_PACKET /\ p.diagnostics)
  <2>1. ASSUME NEW i \in 1..Len(d), d[i][1] \in Events2 PROVE FALSE
    <3>1. PICK k \in 1..n : d[i] = <<names[k], V2!Get(p, names[k])>>
      BY <2>1, EntryNames2
    <3>2. names[k] \in Events2 /\ names[k] \in TypeFields2(p)
      BY <2>1, <3>1 DEF Entries2
    <3> QED
      BY <1>2, <3>2, DataFields2
  <2>2. V2!get(d, "local_fifo_events", None) = None /\ V2!get(d, "shared_fifo_events", None) = None
    BY <2>1 DEF V2!get, Events2
  <2> QED
    BY <1>2, <2>2
<1> QED
  BY <1>1, <1>2

\* The packet from_dict() makes assigns the entries to.
LEMMA Begin2 ==
  ASSUME NEW p, Word2(p), Kept2(p), NEW n \in Nat, NEW m \in Nat, NEW d, NEW names, NEW extras,
         Entries2(p, n, m, d, names, extras), ExtrasAre(p, m, extras)
  PROVE  \E q : /\ V2!from_dict(d) = V2!SetAll(q, d) /\ Fresh2(q)
                /\ q.direction = None /\ q.receipt_timestamp = None
                /\ V2!Get(p, "packet_type") = V2!DATA_PACKET => (q.diagnostics <=> p.diagnostics)
<1>1. PICK new : new = V2!NewPacket
  OBVIOUS
<1>2. PICK q : q = [new EXCEPT !.diagnostics = V2!get(d, "local_fifo_events", None) # None
                                               \/ V2!get(d, "shared_fifo_events", None) # None]
  OBVIOUS
<1>3. Fresh2(new) /\ new.direction = None /\ new.receipt_timestamp = None
  BY <1>1, New2 DEF V2!NewPacket
<1>4. Fresh2(q) /\ q.direction = None /\ q.receipt_timestamp = None
  BY <1>2, <1>3 DEF Fresh2, Word2
<1>5. q.diagnostics <=> (V2!get(d, "local_fifo_events", None) # None
                         \/ V2!get(d, "shared_fifo_events", None) # None)
  BY <1>2, <1>3 DEF Fresh2, Word2
<1>6. q.diagnostics <=> (V2!Get(p, "packet_type") = V2!DATA_PACKET /\ p.diagnostics)
  BY <1>5, Diagnosed2
<1>7. V2!from_dict(d) = V2!SetAll(q, d)
  BY <1>1, <1>2 DEF V2!from_dict
<1> QED
  BY <1>4, <1>6, <1>7

\* Assigning the key, the numbers and the bits.
LEMMA Head2 ==
  ASSUME NEW p, Word2(p), Kept2(p), V2!chip_key(p) # Error, NEW q, Fresh2(q),
         V2!Get(p, "packet_type") = V2!DATA_PACKET => (q.diagnostics <=> p.diagnostics)
  PROVE  LET a == V2!Set(q, "chip_key", V2!chip_key(p))
             b == V2!Set(a, "io_group", p.io_group)
             c == V2!Set(b, "io_channel", p.io_channel)
             r == V2!Set(c, "bits", p.bits)
         IN Alike2(p, r) /\ r.direction = q.direction /\ r.receipt_timestamp = q.receipt_timestamp
<1> DEFINE Since(x) == /\ Fresh2(x) /\ x.diagnostics = q.diagnostics
                       /\ x.direction = q.direction /\ x.receipt_timestamp = q.receipt_timestamp
<1>0. p.io_group \in Io /\ p.io_channel \in Io
  BY DEF Word2
<1>1. PICK a : a = V2!Set(q, "chip_key", V2!chip_key(p))
  OBVIOUS
<1>2. PICK key : key = V2!chip_key(p)
  OBVIOUS
<1>3. Since(a)
  <2>1. a = V2!SetChipKey(q, key)
    BY <1>1, <1>2 DEF V2!Set
  <2>2. key = None \/ (key[1] \in Io /\ key[2] \in Io)
    <3>1. CASE key # None
      <4>1. key = <<p.io_group, p.io_channel, V2!Get(p, "chip_id")>>
        BY <1>2, <3>1, ChipKey2
      <4> QED
        BY <1>0, <4>1
    <3> QED
      BY <3>1
  <2>3. Fresh2(a)
    BY <2>1, <2>2, SetChipKey2 DEF Fresh2
  <2>4. CASE key = None
    <3>1. a = [[q EXCEPT !.int = None, !.key = None] EXCEPT !.io_group = None, !.io_channel = None]
      BY <2>1, <2>4 DEF V2!SetChipKey
    <3>2. a.diagnostics = q.diagnostics /\ a.direction = q.direction /\ a.receipt_timestamp = q.receipt_timestamp
      BY <3>1 DEF Fresh2, Word2
    <3> QED
      BY <2>3, <3>2
  <2>5. CASE key # None
    <3>1. PICK e : e = [[[q EXCEPT !.int = None, !.key = None]
                           EXCEPT !.io_group = key[1], !.io_channel = key[2]] EXCEPT !.key = None]
      OBVIOUS
    <3>2. PICK new : new = V2!Write(e.bits, V2!Slice["chip_id"], V2!fromuint(key[3], V2!FieldWidth("chip_id")))
      OBVIOUS
    <3>3. a = [e EXCEPT !.int = None, !.bits = new]
      BY <2>1, <2>5, <3>1, <3>2 DEF V2!SetChipKey, V2!SetChipId, V2!SetBits
    <3>4. /\ DOMAIN e = DOMAIN q /\ e.diagnostics = q.diagnostics /\ e.direction = q.direction
          /\ e.receipt_timestamp = q.receipt_timestamp
      BY <3>1 DEF Fresh2, Word2
    <3>5. a.diagnostics = q.diagnostics /\ a.direction = q.direction /\ a.receipt_timestamp = q.receipt_timestamp
      BY <3>3, <3>4 DEF Fresh2, Word2
    <3> QED
      BY <2>3, <3>5
  <2> QED
    BY <2>4, <2>5
<1>4. PICK b : b = V2!Set(a, "io_group", p.io_group)
  OBVIOUS
<1>5. Since(b) /\ b.io_group = p.io_group
  <2>1. b = [[a EXCEPT !.key = None] EXCEPT !.io_group = p.io_group]
    BY <1>4 DEF V2!Set, V2!SetIo
  <2> QED
    BY <1>0, <1>3, <2>1 DEF Fresh2, Word2
<1>6. PICK c : c = V2!Set(b, "io_channel", p.io_channel)
  OBVIOUS
<1>7. Since(c) /\ c.io_group = p.io_group /\ c.io_channel = p.io_channel
  <2>1. c = [[b EXCEPT !.key = None] EXCEPT !.io_channel = p.io_channel]
    BY <1>6 DEF V2!Set, V2!SetIo
  <2> QED
    BY <1>0, <1>5, <2>1 DEF Fresh2, Word2
<1>8. PICK r : r = V2!Set(c, "bits", p.bits)
  OBVIOUS
<1>9. Since(r) /\ r.io_group = p.io_group /\ r.io_channel = p.io_channel /\ r.bits = p.bits
  <2>1. r = [c EXCEPT !.bits = p.bits]
    BY <1>8 DEF V2!Set
  <2>2. p.bits \in Seq(Bit) /\ Len(p.bits) >= 64
    BY DEF Word2
  <2> QED
    BY <1>7, <2>1, <2>2 DEF Fresh2, Word2
<1>10. Alike2(p, r)
  BY <1>9 DEF Alike2, SameWord2
<1> QED
  BY <1>1, <1>4, <1>6, <1>8, <1>9, <1>10

\* Assigning one of the last entries.
LEMMA SetExtra2 ==
  ASSUME NEW p, NEW q, Alike2(p, q), NEW value
  PROVE  /\ LET r == V2!Set(q, "direction", value)
            IN Alike2(p, r) /\ r.direction = value /\ r.receipt_timestamp = q.receipt_timestamp
         /\ LET r == V2!Set(q, "receipt_timestamp", value)
            IN Alike2(p, r) /\ r.direction = q.direction /\ r.receipt_timestamp = value
<1>1. PICK r : r = [q EXCEPT !.direction = value]
  OBVIOUS
<1>2. Alike2(p, r) /\ r.direction = value /\ r.receipt_timestamp = q.receipt_timestamp
  BY <1>1 DEF Alike2, Fresh2, Word2, SameWord2
<1>3. PICK s : s = [q EXCEPT !.receipt_timestamp = value]
  OBVIOUS
<1>4. Alike2(p, s) /\ s.direction = q.direction /\ s.receipt_timestamp = value
  BY <1>3 DEF Alike2, Fresh2, Word2, SameWord2
<1>5. V2!Set(q, "direction", value) = r
  BY <1>1 DEF V2!Set
<1>6. V2!Set(q, "receipt_timestamp", value) = s
  BY <1>3 DEF V2!Set
<1> QED
  BY <1>2, <1>4, <1>5, <1>6

LEMMA Restored2 ==
  ASSUME NEW p, Word2(p), Kept2(p), V2!chip_key(p) # Error
  PROVE  LET q == V2!from_dict(V2!export(p))
         IN Alike2(p, q) /\ q.direction = p.direction /\ q.receipt_timestamp = p.receipt_timestamp
<1>1. PICK n \in Nat, m \in Nat : \E d, names, extras :
        Entries2(p, n, m, d, names, extras) /\ ExtrasAre(p, m, extras)
  BY ExportIs2
<1>2. PICK d, names, extras : Entries2(p, n, m, d, names, extras) /\ ExtrasAre(p, m, extras)
  BY <1>1
<1>3. /\ d = V2!export(p) /\ Len(d) = n + 5 + m
      /\ d[1] = <<"chip_key", V2!chip_key(p)>> /\ d[2] = <<"io_group", p.io_group>>
      /\ d[3] = <<"io_channel", p.io_channel>> /\ d[4] = <<"bits", p.bits>>
      /\ d[5] = <<"valid_parity", V2!has_valid_parity(p)>>
      /\ \A k \in 1..n : names[k] \in TypeFields2(p) /\ d[k + 5] = <<names[k], V2!Get(p, names[k])>>
      /\ \A j \in 1..m : d[n + 5 + j] = extras[j]
  BY <1>2 DEF Entries2
<1>4. PICK start : /\ V2!from_dict(d) = V2!SetAll(start, d) /\ Fresh2(start)
                   /\ start.direction = None /\ start.receipt_timestamp = None
                   /\ V2!Get(p, "packet_type") = V2!DATA_PACKET => (start.diagnostics <=> p.diagnostics)
  BY <1>2, Begin2
<1>21. Len(d) \in Nat
  BY <1>3
<1>22. \E f : /\ f[0] = start
              /\ \A i \in 1..Len(d) : f[i] = V2!Set(f[i - 1], d[i][1], d[i][2])
              /\ V2!SetAll(start, d) = f[Len(d)]
  BY ONLY <1>21, SetAllRuns2
<1>5. PICK f : /\ f[0] = start
               /\ \A i \in 1..Len(d) : f[i] = V2!Set(f[i - 1], d[i][1], d[i][2])
               /\ V2!SetAll(start, d) = f[Len(d)]
  BY <1>22
<1>6. \A i \in 1..(n + 5 + m) : f[i] = V2!Set(f[i - 1], d[i][1], d[i][2])
  BY <1>3, <1>5
<1> DEFINE Bare(x) == Alike2(p, x) /\ x.direction = None /\ x.receipt_timestamp = None
<1>7. Bare(f[5])
  <2>1. f[1] = V2!Set(f[0], "chip_key", V2!chip_key(p))
    <3>1. 1 \in 1..(n + 5 + m) /\ 1 - 1 = 0
      OBVIOUS
    <3> QED
      BY <1>3, <1>6, <3>1
  <2>2. f[2] = V2!Set(f[1], "io_group", p.io_group)
    <3>1. 2 \in 1..(n + 5 + m) /\ 2 - 1 = 1
      OBVIOUS
    <3> QED
      BY <1>3, <1>6, <3>1
  <2>3. f[3] = V2!Set(f[2], "io_channel", p.io_channel)
    <3>1. 3 \in 1..(n + 5 + m) /\ 3 - 1 = 2
      OBVIOUS
    <3> QED
      BY <1>3, <1>6, <3>1
  <2>4. f[4] = V2!Set(f[3], "bits", p.bits)
    <3>1. 4 \in 1..(n + 5 + m) /\ 4 - 1 = 3
      OBVIOUS
    <3> QED
      BY <1>3, <1>6, <3>1
  <2>5. f[5] = f[4]
    <3>1. 5 \in 1..(n + 5 + m) /\ 5 - 1 = 4
      OBVIOUS
    <3>2. f[5] = V2!Set(f[4], "valid_parity", V2!has_valid_parity(p))
      BY <1>3, <1>6, <3>1
    <3> QED
      BY <3>2 DEF V2!Set
  <2>6. /\ Alike2(p, f[4]) /\ f[4].direction = start.direction
        /\ f[4].receipt_timestamp = start.receipt_timestamp
    BY <1>4, <1>5, <2>1, <2>2, <2>3, <2>4, Head2
  <2> QED
    BY <1>4, <2>5, <2>6
<1> DEFINE T == {k \in Nat : k <= n => Bare(f[k + 5])}
<1>8. 0 \in T
  BY <1>7
<1>9. ASSUME NEW k \in Nat, k \in T PROVE k + 1 \in T
  <2> SUFFICES ASSUME k + 1 <= n PROVE Bare(f[(k + 1) + 5])
    OBVIOUS
  <2>1. PICK j \in 1..n : j = k + 1
    OBVIOUS
  <2>2. Bare(f[k + 5])
    BY <1>9
  <2>3. j + 5 \in 1..(n + 5 + m) /\ (j + 5) - 1 = k + 5
    BY <2>1
  <2>31. names[j] \in TypeFields2(p) /\ d[j + 5] = <<names[j], V2!Get(p, names[j])>>
    BY <1>3
  <2>32. f[j + 5] = V2!Set(f[k + 5], d[j + 5][1], d[j + 5][2])
    BY <1>6, <2>3
  <2>4. f[j + 5] = V2!Set(f[k + 5], names[j], V2!Get(p, names[j])) /\ names[j] \in TypeFields2(p)
    BY <2>31, <2>32
  <2>5. PICK name \in TypeFields2(p) : name = names[j]
    BY <2>4
  <2>6. PICK x, y : x = f[k + 5] /\ y = V2!Set(x, name, V2!Get(p, name))
    OBVIOUS
  <2>7. Bare(x)
    BY <2>2, <2>6
  <2>8. Same2(x, y)
    BY <2>6, <2>7, SetOwn2
  <2>9. Bare(y)
    BY <2>7, <2>8 DEF Same2, Alike2, SameWord2
  <2>10. f[j + 5] = y
    BY <2>4, <2>5, <2>6
  <2> QED
    BY <2>1, <2>9, <2>10
<1> HIDE DEF T
<1>10. \A k \in Nat : k \in T
  BY <1>8, <1>9, Induction
<1>11. PICK x : x = f[n + 5] /\ Bare(x)
  BY <1>10 DEF T
<1>12. ASSUME NEW j \in 1..m
       PROVE  f[n + 5 + j] = V2!Set(f[n + 5 + (j - 1)], extras[j][1], extras[j][2])
  <2>1. n + 5 + j \in 1..(n + 5 + m) /\ (n + 5 + j) - 1 = n + 5 + (j - 1)
    OBVIOUS
  <2> QED
    BY <1>3, <1>6, <2>1
<1>13. m >= 1 => f[n + 6] = V2!Set(x, extras[1][1], extras[1][2])
  <2> SUFFICES ASSUME m >= 1 PROVE f[n + 6] = V2!Set(x, extras[1][1], extras[1][2])
    OBVIOUS
  <2>1. 1 \in 1..m /\ n + 5 + 1 = n + 6 /\ n + 5 + (1 - 1) = n + 5
    OBVIOUS
  <2>2. f[n + 5 + 1] = V2!Set(f[n + 5 + (1 - 1)], extras[1][1], extras[1][2])
    BY <1>12, <2>1
  <2> QED
    BY <1>11, <2>1, <2>2
<1>14. m >= 2 => f[n + 7] = V2!Set(f[n + 6], extras[2][1], extras[2][2])
  <2> SUFFICES ASSUME m >= 2 PROVE f[n + 7] = V2!Set(f[n + 6], extras[2][1], extras[2][2])
    OBVIOUS
  <2>1. 2 \in 1..m /\ n + 5 + 2 = n + 7 /\ n + 5 + (2 - 1) = n + 6
    OBVIOUS
  <2>2. f[n + 5 + 2] = V2!Set(f[n + 5 + (2 - 1)], extras[2][1], extras[2][2])
    BY <1>12, <2>1
  <2> QED
    BY <2>1, <2>2
<1>15. PICK q : q = V2!from_dict(V2!export(p)) /\ q = f[n + 5 + m]
  BY <1>3, <1>4, <1>5
<1> SUFFICES Alike2(p, q) /\ q.direction = p.direction /\ q.receipt_timestamp = p.receipt_timestamp
  BY <1>15
<1>16. Alike2(p, x) /\ x.direction = None /\ x.receipt_timestamp = None
  BY <1>11
<1> HIDE DEF Bare
<1>17. CASE p.direction = None /\ p.receipt_timestamp = None
  <2>1. m = 0
    BY <1>2, <1>17 DEF ExtrasAre
  <2>2. n + 5 + m = n + 5
    BY <2>1
  <2>3. q = x
    BY <1>11, <1>15, <2>2
  <2> QED
    BY <1>16, <1>17, <2>3
<1>18. CASE p.direction # None /\ p.receipt_timestamp = None
  <2>1. m = 1 /\ extras[1] = <<"direction", p.direction>>
    BY <1>2, <1>18 DEF ExtrasAre
  <2>2. n + 5 + m = n + 6 /\ m >= 1
    BY <2>1
  <2>3. q = V2!Set(x, "direction", p.direction)
    BY <1>13, <1>15, <2>1, <2>2
  <2> QED
    BY <1>16, <1>18, <2>3, SetExtra2
<1>19. CASE p.direction = None /\ p.receipt_timestamp # None
  <2>1. m = 1 /\ extras[1] = <<"receipt_timestamp", p.receipt_timestamp>>
    BY <1>2, <1>19 DEF ExtrasAre
  <2>2. n + 5 + m = n + 6 /\ m >= 1
    BY <2>1
  <2>3. q = V2!Set(x, "receipt_timestamp", p.receipt_timestamp)
    BY <1>13, <1>15, <2>1, <2>2
  <2> QED
    BY <1>16, <1>19, <2>3, SetExtra2
<1>20. CASE p.direction # None /\ p.receipt_timestamp # None
  <2>1. m = 2 /\ extras[1] = <<"direction", p.direction>> /\ extras[2] = <<"receipt_timestamp", p.receipt_timestamp>>
    BY <1>2, <1>20 DEF ExtrasAre
  <2>2. n + 5 + m = n + 7 /\ m >= 1 /\ m >= 2
    BY <2>1
  <2>3. PICK y : y = f[n + 6]
    OBVIOUS
  <2>4. y = V2!Set(x, "direction", p.direction)
    BY <1>13, <2>1, <2>2, <2>3
  <2>5. Alike2(p, y) /\ y.direction = p.direction
    BY <1>16, <2>4, SetExtra2
  <2>6. q = V2!Set(y, "receipt_timestamp", p.receipt_timestamp)
    BY <1>14, <1>15, <2>1, <2>2, <2>3
  <2> QED
    BY <2>5, <2>6, SetExtra2
<1> QED
  BY <1>17, <1>18, <1>19, <1>20

\* The word made of a dictionary gives that dictionary.
LEMMA DictRestores2 ==
  ASSUME NEW p, Word2(p), Kept2(p), V2!export(p) # Error, NEW q, q = V2!from_dict(V2!export(p))
  PROVE  exported(q) = exported(p)
<1>1. V2!chip_key(p) # Error
  BY DEF V2!export
<1>2. Alike2(p, q) /\ q.direction = p.direction /\ q.receipt_timestamp = p.receipt_timestamp
  BY <1>1, Restored2
<1>3. /\ Fresh2(q) /\ Word2(q) /\ q.key = None /\ V2!Word(q) = q.bits /\ SameWord2(p, q)
      /\ q.bits = p.bits /\ q.io_group = p.io_group /\ q.io_channel = p.io_channel
  BY <1>2, WordIsBits DEF Alike2, Fresh2, SameWord2
<1>4. \A name \in TypeFields2(p) : V2!Get(q, name) = V2!Get(p, name)
  BY <1>3, AlikeFields2
<1>5. /\ V2!Get(q, "packet_type") = V2!Get(p, "packet_type")
      /\ V2!Get(q, "chip_id") = V2!Get(p, "chip_id")
      /\ V2!Get(q, "parity") = V2!Get(p, "parity")
  <2>1. {"packet_type", "chip_id", "parity"} \subseteq TypeFields2(p)
    BY DEF TypeFields2, Base2
  <2> QED
    BY <1>4, <2>1
<1>6. V2!chip_key(q) = V2!chip_key(p)
  <2>1. CASE p.key = None
    BY <1>3, <1>5, <2>1 DEF V2!chip_key
  <2>2. CASE p.key # None
    <3>1. PICK key : key = p.key
      OBVIOUS
    <3>2. IsKey(key, V2!Get(p, "chip_id"), p)
      BY <2>2, <3>1 DEF Kept2
    <3>3. Key(key) = key
      BY <3>2, KeyType DEF IsKey
    <3>4. V2!chip_key(q) = Key(<<q.io_group, q.io_channel, V2!Get(q, "chip_id")>>)
      BY <1>3, <3>2, SameBits2 DEF V2!chip_key, IsKey
    <3>5. V2!chip_key(p) = key
      BY <2>2, <3>1 DEF V2!chip_key
    <3> QED
      BY <1>3, <1>5, <3>2, <3>3, <3>4, <3>5 DEF IsKey
  <2> QED
    BY <2>1, <2>2
<1>7. V2!Fields(q) = V2!Fields(p)
  <2>1. CASE V2!Get(p, "packet_type") = V2!DATA_PACKET
    <3>1. q.diagnostics <=> p.diagnostics
      BY <1>3, <2>1 DEF SameWord2
    <3>2. (IF q.diagnostics THEN <<"local_fifo_events", "shared_fifo_events">> ELSE <<>>)
            = IF p.diagnostics THEN <<"local_fifo_events", "shared_fifo_events">> ELSE <<>>
      BY <3>1
    <3> QED
      BY <1>5, <3>2 DEF V2!Fields
  <2>2. CASE V2!Get(p, "packet_type") # V2!DATA_PACKET
    BY <1>5, <2>2 DEF V2!Fields
  <2> QED
    BY <2>1, <2>2
<1>8. V2!Values(q) = V2!Values(p)
  <2>1. PICK names \in Seq(TypeFields2(p)) : names = V2!Fields(p)
    BY FieldsType2
  <2>2. \A i \in 1..Len(names) : V2!Get(q, names[i]) = V2!Get(p, names[i])
    <3>1. \A i \in 1..Len(names) : names[i] \in TypeFields2(p)
      OBVIOUS
    <3> QED
      BY <1>4, <3>1
  <2>3. V2!Values(q) = [i \in 1..Len(names) |-> <<names[i], V2!Get(q, names[i])>>]
    BY <1>7, <2>1 DEF V2!Values
  <2>4. V2!Values(p) = [i \in 1..Len(names) |-> <<names[i], V2!Get(p, names[i])>>]
    BY <2>1 DEF V2!Values
  <2> QED
    BY <2>2, <2>3, <2>4
<1>9. V2!has_valid_parity(q) = V2!has_valid_parity(p)
  <2>1. V2!compute_parity(q) = V2!compute_parity(p)
    BY <1>3 DEF V2!compute_parity
  <2> QED
    BY <1>5, <2>1 DEF V2!has_valid_parity
<1>10. V2!Extras(q) = V2!Extras(p)
  BY <1>2 DEF V2!Extras
<1>11. V2!export(q) = V2!export(p)
  BY <1>3, <1>6, <1>8, <1>9, <1>10 DEF V2!export
<1> QED
  BY <1>3, <1>11 DEF exported, Word2

-----------------------------------------------------------------------------
(* Plain packets that come back from their dictionaries.                   *)

\* The times of 31 bits.
Times == {v \in Nat : v <= 2147483647}

LEMMA TimesFit == \A v \in Times : v \in Nat /\ v \div 2^31 = 0
<1>1. \A v \in Times : v \in Nat /\ v < 2^31
  BY SMT DEF Times
<1>2. \A v \in Nat : v < 2^31 => v \div 2^31 = 0
  BY SMT
<1> QED
  BY <1>1, <1>2

\* A plain packet whose own bits can be made: its time or its text.
SoundPlain(p) ==
  /\ PlainPacket(p)
  /\ p.kind = "timestamp" => p.timestamp \in Times
  /\ p.kind = "message" => p.message \in Nat

\* The names of a kind, in the order of export().
NamesOf(kind) ==
  CASE kind = "timestamp" -> <<"timestamp">>
    [] kind = "message"   -> <<"message", "timestamp">>
    [] kind = "sync"      -> <<"io_group", "sync_type", "timestamp", "clk_source">>
    [] kind = "trigger"   -> <<"io_group", "trigger_type", "timestamp">>

\* The export: the type, the attributes, the bits if its kind has them.
LEMMA ExportIsPlain ==
  ASSUME NEW p, PlainPacket(p)
  PROVE  LET d == export(p)
             names == NamesOf(p.kind)
         IN /\ Len(d) = 1 + Len(names) + (IF p.kind \in {"timestamp", "message"} THEN 1 ELSE 0)
            /\ d[1] = <<"type", packet_type(p)>>
            /\ \A i \in 1..Len(names) : d[i + 1] = <<names[i], p[names[i]]>>
            /\ p.kind \in {"timestamp", "message"} => d[Len(names) + 2] = <<"bits", bits(p)>>
<1>0. PICK names, d : names = NamesOf(p.kind) /\ d = export(p)
  OBVIOUS
<1> DEFINE Goal ==
             /\ Len(d) = 1 + Len(names) + (IF p.kind \in {"timestamp", "message"} THEN 1 ELSE 0)
             /\ d[1] = <<"type", packet_type(p)>>
             /\ \A i \in 1..Len(names) : d[i + 1] = <<names[i], p[names[i]]>>
             /\ p.kind \in {"timestamp", "message"} => d[Len(names) + 2] = <<"bits", bits(p)>>
<1>1. PICK n \in Nat : n = Len(names) /\ n \in 1..4
  BY <1>0 DEF NamesOf, PlainPacket, PlainKinds
<1>2. PICK values : values = [i \in 1..n |-> <<names[i], p[names[i]]>>]
  OBVIOUS
<1>3. PICK t, b : t = <<"type", packet_type(p)>> /\ b = <<"bits", bits(p)>>
  OBVIOUS
<1>4. PICK rest : rest = IF p.kind \in {"timestamp", "message"} THEN <<b>> ELSE <<>>
  OBVIOUS
<1>5. d = (<<t>> \o values) \o rest
  BY <1>0, <1>1, <1>2, <1>3, <1>4 DEF export, NamesOf, PlainPacket, PlainKinds
<1> DEFINE S == {values[i] : i \in 1..n} \cup {t, b}
<1>6. values \in Seq(S) /\ Len(values) = n /\ \A i \in 1..n : values[i] = <<names[i], p[names[i]]>>
  BY <1>1, <1>2
<1>7. t \in S /\ b \in S
  OBVIOUS
<1> HIDE DEF S
<1>8. <<t>> \in Seq(S) /\ Len(<<t>>) = 1 /\ <<t>>[1] = t
  BY <1>7
<1>9. PICK one \in Seq(S) : one = <<t>> /\ Len(one) = 1 /\ one[1] = t
  BY <1>8
<1>10. PICK front : front = one \o values
  OBVIOUS
<1>11. front \in Seq(S) /\ Len(front) = n + 1 /\ front[1] = t /\ \A i \in 1..n : front[i + 1] = values[i]
  BY <1>1, <1>6, <1>9, <1>10
<1>12. ASSUME p.kind \in {"timestamp", "message"} PROVE Goal
  <2>1. d = front \o <<b>>
    BY <1>4, <1>5, <1>9, <1>10, <1>12
  <2>2. Len(d) = n + 2 /\ d[n + 2] = b /\ \A i \in 1..n + 1 : d[i] = front[i]
    BY <1>1, <1>11, <2>1
  <2>3. 1 \in 1..n + 1 /\ \A i \in 1..n : i + 1 \in 1..n + 1
    BY <1>1
  <2>4. d[1] = t /\ \A i \in 1..n : d[i + 1] = <<names[i], p[names[i]]>>
    BY <1>6, <1>11, <2>2, <2>3
  <2>5. n + 2 = 1 + n + 1
    OBVIOUS
  <2> QED
    BY <1>1, <1>3, <1>12, <2>2, <2>4, <2>5
<1>13. ASSUME p.kind \notin {"timestamp", "message"} PROVE Goal
  <2>1. d = front \o <<>>
    BY <1>4, <1>5, <1>9, <1>10, <1>13
  <2>2. d = front
    BY <1>11, <2>1
  <2>3. n + 1 = 1 + n + 0
    OBVIOUS
  <2> QED
    BY <1>1, <1>3, <1>6, <1>11, <1>13, <2>2, <2>3
<1> QED
  BY <1>0, <1>12, <1>13

\* Two packets with the same attributes export the same.
LEMMA SameExport ==
  ASSUME NEW p, PlainPacket(p), NEW q, PlainPacket(q), q.kind = p.kind,
         \A n \in DOMAIN p : q[n] = p[n]
  PROVE  export(q) = export(p)
<1> DEFINE Values1(r, names) == [i \in 1..Len(names) |-> <<names[i], r[names[i]]>>]
<1>1. packet_type(q) = packet_type(p)
  BY DEF packet_type
<1>2. CASE p.kind = "timestamp"
  <2>1. q.timestamp = p.timestamp
    BY <1>2, BlankType DEF PlainPacket
  <2>2. bits(q) = bits(p)
    BY <1>2, <2>1 DEF bits
  <2>3. Values1(q, <<"timestamp">>) = Values1(p, <<"timestamp">>)
    BY <2>1
  <2> QED
    BY <1>1, <1>2, <2>2, <2>3 DEF export
<1>3. CASE p.kind = "message"
  <2>1. q.timestamp = p.timestamp /\ q.message = p.message
    BY <1>3, BlankType DEF PlainPacket
  <2>2. bits(q) = bits(p)
    BY <1>3, <2>1 DEF bits
  <2>3. Values1(q, <<"message", "timestamp">>) = Values1(p, <<"message", "timestamp">>)
    BY <2>1
  <2> QED
    BY <1>1, <1>3, <2>2, <2>3 DEF export
<1>4. CASE p.kind = "sync"
  <2> DEFINE names == <<"io_group", "sync_type", "timestamp", "clk_source">>
  <2>1. q.timestamp = p.timestamp /\ q.io_group = p.io_group /\ q.sync_type = p.sync_type
        /\ q.clk_source = p.clk_source
    BY <1>4, BlankType DEF PlainPacket
  <2>2. Values1(q, names) = Values1(p, names)
    BY <2>1
  <2> QED
    BY <1>1, <1>4, <2>2 DEF export
<1>5. CASE p.kind = "trigger"
  <2> DEFINE names == <<"io_group", "trigger_type", "timestamp">>
  <2>1. q.timestamp = p.timestamp /\ q.io_group = p.io_group /\ q.trigger_type = p.trigger_type
    BY <1>5, BlankType DEF PlainPacket
  <2>2. Values1(q, names) = Values1(p, names)
    BY <2>1
  <2> QED
    BY <1>1, <1>5, <2>2 DEF export
<1> QED
  BY <1>2, <1>3, <1>4, <1>5 DEF PlainPacket, PlainKinds

\* The packet made of a dictionary has the attributes, and their export.
LEMMA DictRestoresPlain ==
  ASSUME NEW p, SoundPlain(p), NEW q, q = from_dict(p.kind, export(p)), q # Error
  PROVE  /\ SoundPlain(q) /\ q.kind = p.kind
         /\ ~(p.kind = "message" /\ p.message = TEXT) => export(q) = export(p)
<1> DEFINE whole == ~(p.kind = "message" /\ p.message = TEXT)
<1>1. PICK names, d : names = NamesOf(p.kind) /\ d = export(p)
  OBVIOUS
<1>2. PlainPacket(p) /\ p.kind \in PlainKinds
  BY DEF SoundPlain, PlainPacket
<1>3. PICK n \in 1..4 : n = Len(names)
  BY <1>1, <1>2 DEF NamesOf, PlainKinds
<1>4. /\ Len(d) = 1 + n + (IF p.kind \in {"timestamp", "message"} THEN 1 ELSE 0)
      /\ d[1] = <<"type", packet_type(p)>>
      /\ \A i \in 1..n : d[i + 1] = <<names[i], p[names[i]]>>
      /\ p.kind \in {"timestamp", "message"} => d[n + 2] = <<"bits", bits(p)>>
  <2>1. /\ Len(d) = 1 + Len(names) + (IF p.kind \in {"timestamp", "message"} THEN 1 ELSE 0)
        /\ d[1] = <<"type", packet_type(p)>>
        /\ \A i \in 1..Len(names) : d[i + 1] = <<names[i], p[names[i]]>>
        /\ p.kind \in {"timestamp", "message"} => d[Len(names) + 2] = <<"bits", bits(p)>>
    BY <1>1, <1>2, ExportIsPlain
  <2> QED
    BY <1>3, <2>1
<1>5. PICK L \in Nat : L = Len(d) /\ L >= n + 1
                       /\ (p.kind \in {"timestamp", "message"} => L = n + 2)
                       /\ (p.kind \notin {"timestamp", "message"} => L = n + 1)
  BY <1>4
<1>6. PICK f : /\ f[0] = Blank(p.kind)
               /\ \A i \in 1..L : f[i] = Set(f[i - 1], d[i][1], d[i][2])
               /\ q = f[L]
  BY <1>1, <1>5, FromDictRuns
<1>7. f[1] = Blank(p.kind)
  <2>1. 1 \in 1..L /\ 1 - 1 = 0 /\ d[1][1] = "type"
    BY <1>4, <1>5
  <2>2. f[1] = Set(f[0], "type", d[1][2])
    BY <1>6, <2>1
  <2> QED
    BY <1>6, <2>2 DEF Set
<1>8. ASSUME NEW i \in 1..n PROVE f[i + 1] = [f[i] EXCEPT ![names[i]] = p[names[i]]]
  <2>1. i + 1 \in 1..L /\ (i + 1) - 1 = i /\ d[i + 1][1] = names[i] /\ d[i + 1][2] = p[names[i]]
    BY <1>4, <1>5
  <2>2. f[i + 1] = Set(f[i], names[i], p[names[i]])
    BY <1>6, <2>1
  <2>3. names[i] \notin {"type", "bits"}
    BY <1>1, <1>2, <1>3 DEF NamesOf, PlainKinds
  <2> QED
    BY <2>2, <2>3 DEF Set
<1>9. p.kind \in {"timestamp", "message"} => q = SetBits(f[n + 1], bits(p))
  <2> SUFFICES ASSUME p.kind \in {"timestamp", "message"} PROVE q = SetBits(f[n + 1], bits(p))
    OBVIOUS
  <2>1. L \in 1..L /\ L - 1 = n + 1 /\ d[L][1] = "bits" /\ d[L][2] = bits(p)
    BY <1>4, <1>5
  <2>2. q = Set(f[n + 1], "bits", bits(p))
    BY <1>6, <2>1
  <2> QED
    BY <2>2 DEF Set
<1>10. p.kind \notin {"timestamp", "message"} => q = f[n + 1]
  BY <1>5, <1>6
<1>11. PICK blank : blank = Blank(p.kind) /\ PlainPacket(blank) /\ blank.kind = p.kind
  BY <1>2, BlankPlain
<1>12. CASE p.kind = "timestamp"
  <2>1. n = 1 /\ names[1] = "timestamp"
    BY <1>1, <1>3, <1>12 DEF NamesOf
  <2>2. PICK r : r = [blank EXCEPT !.timestamp = p.timestamp]
    OBVIOUS
  <2>3. f[n + 1] = r
    BY <1>7, <1>8, <1>11, <2>1, <2>2
  <2>4. DOMAIN r = {"kind", "timestamp"} /\ r.kind = "timestamp"
    BY <1>11, <1>12, <2>2, BlankType DEF PlainPacket
  <2>5. q = [r EXCEPT !.timestamp = touint_big(fromuint_big(p.timestamp, 56))]
    BY <1>9, <1>12, <2>3, <2>4 DEF SetBits, bits
  <2>6. touint_big(fromuint_big(p.timestamp, 56)) = p.timestamp
    <3>1. PICK v \in Times : v = p.timestamp
      BY <1>12 DEF SoundPlain
    <3>2. v \in Nat /\ v \div 2^31 = 0
      BY TimesFit
    <3>3. BitsOf(v) <= 56
      BY BitsOfType
    <3> QED
      BY <3>1, <3>2, <3>3, ToFrom
  <2>7. DOMAIN q = {"kind", "timestamp"} /\ q.kind = p.kind /\ q.timestamp = p.timestamp
    BY <1>12, <2>4, <2>5, <2>6
  <2>8. PlainPacket(q) /\ \A m \in DOMAIN p : q[m] = p[m]
    BY <1>2, <1>12, <2>7, BlankType DEF PlainPacket
  <2>9. SoundPlain(q)
    BY <1>12, <2>7, <2>8 DEF SoundPlain
  <2> QED
    BY <1>2, <2>7, <2>8, <2>9, SameExport
<1>13. CASE p.kind = "message"
  <2>1. n = 2 /\ names[1] = "message" /\ names[2] = "timestamp"
    BY <1>1, <1>3, <1>13 DEF NamesOf
  <2>2. PICK r : r = [[blank EXCEPT !.message = p.message] EXCEPT !.timestamp = p.timestamp]
    OBVIOUS
  <2>3. f[n + 1] = r
    <3>1. f[2] = [blank EXCEPT !.message = p.message]
      BY <1>7, <1>8, <1>11, <2>1
    <3>2. f[3] = [f[2] EXCEPT !.timestamp = p.timestamp]
      BY <1>8, <2>1
    <3> QED
      BY <2>1, <2>2, <3>1, <3>2
  <2>4. DOMAIN r = {"kind", "message", "timestamp"} /\ r.kind = "message"
    BY <1>11, <1>13, <2>2, BlankType DEF PlainPacket
  <2>5. PICK m \in Nat : m = p.message
    BY <1>13 DEF SoundPlain
  <2>6. PICK b : b = <<IF m < TEXT THEN TEXT ELSE m, m, p.timestamp>>
    OBVIOUS
  <2>7. q = SetBits(r, b)
    BY <1>9, <1>13, <2>3, <2>5, <2>6 DEF bits
  <2>8. ~(b[1] > TEXT)
    BY <2>4, <2>7 DEF SetBits
  <2>9. q = [r EXCEPT !.message = IF b[2] = TEXT THEN TEXT - 1 ELSE b[2], !.timestamp = b[3]]
    BY <2>4, <2>7, <2>8 DEF SetBits
  <2>10. b[2] = m /\ b[3] = p.timestamp
    BY <2>6
  <2>11. DOMAIN q = {"kind", "message", "timestamp"} /\ q.kind = p.kind /\ q.timestamp = p.timestamp
         /\ q.message = IF m = TEXT THEN TEXT - 1 ELSE m
    BY <1>13, <2>4, <2>9, <2>10
  <2>12. PlainPacket(q) /\ q.message \in Nat
    BY <1>2, <1>13, <2>11, BlankType DEF PlainPacket, TEXT
  <2>13. SoundPlain(q)
    BY <1>13, <2>11, <2>12 DEF SoundPlain
  <2>14. ASSUME whole PROVE \A k \in DOMAIN p : q[k] = p[k]
    BY <1>2, <1>13, <2>5, <2>11, <2>14, BlankType DEF PlainPacket
  <2> QED
    BY <1>2, <2>11, <2>12, <2>13, <2>14, SameExport
<1>14. CASE p.kind = "sync"
  <2>1. n = 4 /\ names[1] = "io_group" /\ names[2] = "sync_type" /\ names[3] = "timestamp"
        /\ names[4] = "clk_source"
    BY <1>1, <1>3, <1>14 DEF NamesOf
  <2>2. /\ f[2] = [blank EXCEPT !.io_group = p.io_group]
        /\ f[3] = [f[2] EXCEPT !.sync_type = p.sync_type]
        /\ f[4] = [f[3] EXCEPT !.timestamp = p.timestamp]
        /\ q = [f[4] EXCEPT !.clk_source = p.clk_source]
    BY <1>7, <1>8, <1>10, <1>11, <1>14, <2>1
  <2>3. DOMAIN blank = {"kind", "io_group", "sync_type", "timestamp", "clk_source"}
    BY <1>11, <1>14, BlankType DEF PlainPacket
  <2>4. DOMAIN q = DOMAIN blank /\ q.kind = p.kind /\ q.io_group = p.io_group
        /\ q.sync_type = p.sync_type /\ q.timestamp = p.timestamp /\ q.clk_source = p.clk_source
    BY <1>11, <2>2, <2>3
  <2>5. PlainPacket(q) /\ \A k \in DOMAIN p : q[k] = p[k]
    BY <1>2, <1>14, <2>3, <2>4, BlankType DEF PlainPacket
  <2>6. SoundPlain(q)
    BY <1>14, <2>4, <2>5 DEF SoundPlain
  <2> QED
    BY <1>2, <2>4, <2>5, <2>6, SameExport
<1>15. CASE p.kind = "trigger"
  <2>1. n = 3 /\ names[1] = "io_group" /\ names[2] = "trigger_type" /\ names[3] = "timestamp"
    BY <1>1, <1>3, <1>15 DEF NamesOf
  <2>2. /\ f[2] = [blank EXCEPT !.io_group = p.io_group]
        /\ f[3] = [f[2] EXCEPT !.trigger_type = p.trigger_type]
        /\ q = [f[3] EXCEPT !.timestamp = p.timestamp]
    BY <1>7, <1>8, <1>10, <1>11, <1>15, <2>1
  <2>3. DOMAIN blank = {"kind", "io_group", "trigger_type", "timestamp"}
    BY <1>11, <1>15, BlankType DEF PlainPacket
  <2>4. DOMAIN q = DOMAIN blank /\ q.kind = p.kind /\ q.io_group = p.io_group
        /\ q.trigger_type = p.trigger_type /\ q.timestamp = p.timestamp
    BY <1>11, <2>2, <2>3
  <2>5. PlainPacket(q) /\ \A k \in DOMAIN p : q[k] = p[k]
    BY <1>2, <1>15, <2>3, <2>4, BlankType DEF PlainPacket
  <2>6. SoundPlain(q)
    BY <1>15, <2>4, <2>5 DEF SoundPlain
  <2> QED
    BY <1>2, <2>4, <2>5, <2>6, SameExport
<1> QED
  BY <1>2, <1>12, <1>13, <1>14, <1>15 DEF PlainKinds

-----------------------------------------------------------------------------
(* Files: what is read from a row, whatever else is in it.                 *)

LEMMA Columns1 ==
  ASSUME NEW p, Fresh1(p), NEW row, NEW N, NEW names \in Seq(N), \A n \in N : Entry1(n, row[n])
  PROVE  Fresh1(V1!SetAll(p, Columns(row, names)))
<1>1. PICK d : d = Columns(row, names)
  OBVIOUS
<1>2. Len(d) = Len(names) /\ \A i \in 1..Len(d) : d[i] = <<names[i], row[names[i]]>>
  BY <1>1 DEF Columns
<1>3. Len(names) \in Nat /\ \A i \in 1..Len(names) : names[i] \in N
  OBVIOUS
<1>4. Len(d) \in Nat /\ \A i \in 1..Len(d) : Entry1(d[i][1], d[i][2])
  BY <1>2, <1>3
<1> QED
  BY <1>1, <1>4, SetAllFresh1

LEMMA Columns2 ==
  ASSUME NEW p, Fresh2(p), NEW row, NEW N, NEW names \in Seq(N), \A n \in N : Entry2(n, row[n])
  PROVE  Fresh2(V2!SetAll(p, Columns(row, names)))
<1>1. PICK d : d = Columns(row, names)
  OBVIOUS
<1>2. Len(d) = Len(names) /\ \A i \in 1..Len(d) : d[i] = <<names[i], row[names[i]]>>
  BY <1>1 DEF Columns
<1>3. Len(names) \in Nat /\ \A i \in 1..Len(names) : names[i] \in N
  OBVIOUS
<1>4. Len(d) \in Nat /\ \A i \in 1..Len(d) : Entry2(d[i][1], d[i][2])
  BY <1>2, <1>3
<1> QED
  BY <1>1, <1>4, SetAllFresh2

\* A key has three parts, which are numbers.
LEMMA GoodKey ==
  ASSUME NEW key, Key(key) # Error PROVE key[1] \in Io /\ key[2] \in Io
<1>1. Len(key) = 3 /\ \A i \in 1..Len(key) : key[i] \in 0..255
  BY DEF Key
<1>2. key[1] \in 0..255 /\ key[2] \in 0..255
  BY <1>1
<1> QED
  BY <1>2 DEF Io

LEMMA ParseWord1Type ==
  ASSUME NEW p, Fresh1(p), NEW row PROVE Fresh1(ParseWord1(p, row))
<1> DEFINE N == Names1 \ {"type"}
<1>1. \A n \in N : Entry1(n, row[n])
  BY DEF Entry1, Names1
<1>2. <<"timestamp", "adc_counts", "fifo_half", "fifo_full">> \in Seq(N)
  BY DEF Names1
<1>3. <<"register", "value">> \in Seq(N)
  BY DEF Names1
<1> HIDE DEF N
<1>4. Fresh1(V1!SetAll(p, Columns(row, <<"timestamp", "adc_counts", "fifo_half", "fifo_full">>)))
  BY <1>1, <1>2, Columns1
<1>5. Fresh1(V1!SetAll(p, Columns(row, <<"register", "value">>)))
  BY <1>1, <1>3, Columns1
<1> QED
  BY <1>4, <1>5 DEF ParseWord1, V1!DATA_PACKET, V1!TEST_PACKET

\* A plain packet that is read from a row: what its type says it is.
ReadPlain(p, row, messages, type) ==
  \/ type = 4 /\ p = TimestampPacket(row.timestamp)
  \/ type = 5 /\ p = Message(row, messages)
  \/ PlainPacket(p) /\ p.kind \in {"sync", "trigger"}

LEMMA ParseRaw ==
  ASSUME NEW row, row.type \in Nat, NEW messages
  PROVE  LET p == parse_raw_packet_v0_0(row)
         IN /\ p \in {None, Error} \/ ReadPlain(p, row, messages, row.type) \/ Fresh1(p)
            /\ row.type < 4 => p = Error \/ Fresh1(p)
<1>1. CASE row.type = 4
  BY <1>1 DEF parse_raw_packet_v0_0, ReadPlain
<1>2. CASE row.type > 4
  <2>1. parse_raw_packet_v0_0(row) = None
    BY <1>2 DEF parse_raw_packet_v0_0
  <2> QED
    BY <1>2, <2>1
<1>3. CASE row.type < 4 /\ (row.chip_key = None \/ Key(row.chip_key) = Error)
  <2>1. parse_raw_packet_v0_0(row) = Error
    BY <1>3 DEF parse_raw_packet_v0_0
  <2> QED
    BY <2>1
<1>4. CASE row.type < 4 /\ row.chip_key # None /\ Key(row.chip_key) # Error
  <2> DEFINE names == <<"chip_key", "type", "chipid", "parity">>
             N == {"chip_key", "type", "chipid", "parity"}
  <2>1. names \in Seq(N)
    OBVIOUS
  <2>2. \A n \in N : Entry1(n, row[n])
    <3>1. Entry1("chip_key", row["chip_key"])
      BY <1>4, GoodKey DEF Entry1
    <3>2. Entry1("type", row["type"])
      BY DEF Entry1, Names1
    <3>3. Entry1("chipid", row["chipid"]) /\ Entry1("parity", row["parity"])
      BY DEF Entry1, Names1
    <3> QED
      BY <3>1, <3>2, <3>3
  <2>3. PICK q : q = V1!SetAll(V1!NewPacket, Columns(row, names))
    OBVIOUS
  <2>4. parse_raw_packet_v0_0(row) = ParseWord1(q, row)
    BY <1>4, <2>3 DEF parse_raw_packet_v0_0
  <2> HIDE DEF names, N
  <2>5. Fresh1(q)
    BY <2>1, <2>2, <2>3, New1, Columns1
  <2> QED
    BY <2>4, <2>5, ParseWord1Type
<1> QED
  BY <1>1, <1>2, <1>3, <1>4

LEMMA ParseV1 ==
  ASSUME NEW row, row.type \in Nat, NEW messages
  PROVE  LET p == parse_packets_v1_0(row, messages)
         IN p \in {None, Error} \/ ReadPlain(p, row, messages, row.type) \/ Fresh1(p)
<1>1. CASE row.type = 5
  BY <1>1 DEF parse_packets_v1_0, ReadPlain
<1>2. CASE row.type < 4
  <2>1. PICK p : p = parse_raw_packet_v0_0(row)
    OBVIOUS
  <2>2. parse_packets_v1_0(row, messages) = Directed(p, row.direction)
    BY <1>2, <2>1 DEF parse_packets_v1_0
  <2>3. CASE p = Error
    BY <2>2, <2>3 DEF Directed
  <2>4. CASE p # Error
    <3>1. Fresh1(p)
      BY <1>2, <2>1, <2>4, ParseRaw
    <3>2. PICK q : q = [p EXCEPT !.direction = row.direction]
      OBVIOUS
    <3>3. Fresh1(q)
      BY <3>1, <3>2 DEF Fresh1, Word1
    <3> QED
      BY <2>2, <2>4, <3>2, <3>3 DEF Directed
  <2> QED
    BY <2>3, <2>4
<1>3. CASE row.type # 5 /\ ~(row.type < 4)
  <2>1. parse_packets_v1_0(row, messages) = parse_raw_packet_v0_0(row)
    BY <1>3 DEF parse_packets_v1_0
  <2> QED
    BY <2>1, ParseRaw
<1> QED
  BY <1>1, <1>2, <1>3

\* The fields of a word of the second generation take any value.
Fields2 == Names2 \ {"fifo_diagnostics_timestamp"}

LEMMA AnyField2 == ASSUME NEW n \in Fields2, NEW value PROVE Entry2(n, value)
  BY DEF Entry2, Fields2, Names2

LEMMA ParseDataType ==
  ASSUME NEW p, Fresh2(p), NEW row PROVE Fresh2(ParseData(p, row))
<1> DEFINE names == <<"channel_id", "timestamp", "dataword", "trigger_type", "local_fifo", "shared_fifo">>
           d == <<<<"local_fifo", row.local_fifo_events>>, <<"shared_fifo", row.shared_fifo_events>>,
                  <<"timestamp", row.timestamp>>>>
<1>1. names \in Seq(Fields2)
  BY DEF Fields2, Names2
<1>2. PICK plain : plain = V2!SetAll(p, Columns(row, names))
  OBVIOUS
<1>3. Fresh2(plain)
  <2> HIDE DEF names
  <2> QED
    BY <1>1, <1>2, AnyField2, Columns2
<1>4. PICK q : q = [plain EXCEPT !.diagnostics = TRUE]
  OBVIOUS
<1>5. Fresh2(q)
  BY <1>3, <1>4 DEF Fresh2, Word2
<1>6. Len(d) \in Nat /\ \A i \in 1..Len(d) : d[i][1] \in Fields2
  BY DEF Fields2, Names2
<1>7. ParseData(p, row) \in {plain, V2!SetAll(q, d)}
  BY <1>2, <1>4 DEF ParseData
<1> HIDE DEF d
<1>8. Fresh2(V2!SetAll(q, d))
  <2>1. \A i \in 1..Len(d) : Entry2(d[i][1], d[i][2])
    BY <1>6, AnyField2
  <2> QED
    BY <1>5, <1>6, <2>1, SetAllFresh2
<1> QED
  BY <1>3, <1>7, <1>8

LEMMA ParseWordType ==
  ASSUME NEW p, Fresh2(p), NEW row PROVE Fresh2(ParseWord(p, row))
<1>1. <<"register_address", "register_data">> \in Seq(Fields2)
  BY DEF Fields2, Names2
<1>2. Fresh2(V2!SetAll(p, Columns(row, <<"register_address", "register_data">>)))
  BY <1>1, AnyField2, Columns2
<1>3. ParseWord(p, row) \in {ParseData(p, row), p, V2!SetAll(p, Columns(row, <<"register_address", "register_data">>))}
  BY DEF ParseWord
<1> QED
  BY <1>2, <1>3, ParseDataType

LEMMA ParseV20 ==
  ASSUME NEW row, row.io_group \in Nat, row.io_channel \in Nat, NEW messages
  PROVE  LET p == parse_packets_v2_0(row, messages)
         IN p = None \/ ReadPlain(p, row, messages, row.packet_type) \/ Fresh2(p)
<1> DEFINE names == <<"io_group", "io_channel", "chip_id", "packet_type", "downstream_marker",
                      "parity", "direction">>
           N == {"io_group", "io_channel", "chip_id", "packet_type", "downstream_marker",
                 "parity", "direction"}
           q == V2!SetAll(V2!NewPacket, Columns(row, names))
<1>1. names \in Seq(N)
  OBVIOUS
<1>2. \A n \in N : Entry2(n, row[n])
  <2>1. row["io_group"] \in Io /\ row["io_channel"] \in Io
    BY DEF Io
  <2>2. Entry2("io_group", row["io_group"]) /\ Entry2("io_channel", row["io_channel"])
    BY <2>1 DEF Entry2
  <2>3. \A n \in N \ {"io_group", "io_channel"} : Entry2(n, row[n])
    BY DEF Entry2, Names2
  <2> QED
    BY <2>2, <2>3
<1>3. LET p == parse_packets_v2_0(row, messages)
      IN p \in {None, ParseWord(q, row)} \/ ReadPlain(p, row, messages, row.packet_type)
  BY DEF parse_packets_v2_0, ReadPlain
<1> HIDE DEF names, N
<1>4. Fresh2(q)
  BY <1>1, <1>2, New2, Columns2
<1> HIDE DEF q
<1> QED
  BY <1>3, <1>4, ParseWordType

LEMMA ReadIsPlain ==
  ASSUME NEW p, NEW row, NEW messages, NEW type, ReadPlain(p, row, messages, type)
  PROVE  PlainPacket(p)
  BY MadePlain DEF ReadPlain, Message

LEMMA WithType ==
  ASSUME NEW p, NEW row, NEW messages, NEW type,
         p = None \/ ReadPlain(p, row, messages, type) \/ Fresh2(p),
         NEW name \in {"first_packet", "receipt_timestamp"}, NEW value
  PROVE  LET q == With(p, name, value)
         IN q = None \/ ReadPlain(q, row, messages, type) \/ Fresh2(q)
<1>1. CASE Fresh2(p) /\ IsV2(p)
  <2>1. Entry2(name, value)
    BY DEF Entry2, Names2
  <2> QED
    BY <1>1, <2>1, SetFresh2 DEF With
<1>2. CASE ~IsV2(p)
  BY <1>2 DEF With
<1>3. CASE ReadPlain(p, row, messages, type) /\ IsV2(p)
  <2>1. PlainPacket(p)
    BY <1>3, ReadIsPlain
  <2> QED
    BY <1>3, <2>1 DEF IsV2, PlainPacket, PlainKinds
<1> QED
  BY <1>1, <1>2, <1>3 DEF IsV2

LEMMA ParseV2 ==
  ASSUME NEW row, row.io_group \in Nat, row.io_channel \in Nat, NEW messages
  PROVE  LET good(p) == p = None \/ ReadPlain(p, row, messages, row.packet_type) \/ Fresh2(p)
         IN /\ good(parse_packets_v2_0(row, messages)) /\ good(parse_packets_v2_1(row, messages))
            /\ good(parse_packets_v2_2(row, messages)) /\ good(parse_packets_v2_3(row, messages))
<1> DEFINE good(p) == p = None \/ ReadPlain(p, row, messages, row.packet_type) \/ Fresh2(p)
<1>1. good(parse_packets_v2_0(row, messages))
  BY ParseV20
<1>2. good(parse_packets_v2_1(row, messages))
  BY <1>1, WithType DEF parse_packets_v2_1
<1>3. good(parse_packets_v2_2(row, messages))
  <2>1. row.io_group \in Io
    BY DEF Io
  <2>2. PICK a, b : /\ a = SyncPacket(row.trigger_type, row.dataword, row.timestamp, row.io_group)
                    /\ b = TriggerPacket(row.trigger_type, row.timestamp, row.io_group)
    OBVIOUS
  <2>3. parse_packets_v2_2(row, messages) \in {a, b, parse_packets_v2_1(row, messages)}
    BY <2>2 DEF parse_packets_v2_2
  <2>4. PlainPacket(a) /\ PlainPacket(b)
    BY <2>1, <2>2, MadePlain
  <2>5. a.kind = "sync" /\ b.kind = "trigger"
    BY <2>2 DEF SyncPacket, TriggerPacket
  <2>6. good(a) /\ good(b)
    BY <2>4, <2>5 DEF ReadPlain
  <2> QED
    BY <1>2, <2>3, <2>6
<1>4. good(parse_packets_v2_3(row, messages))
  BY <1>3, WithType DEF parse_packets_v2_3
<1> QED
  BY <1>1, <1>2, <1>3, <1>4

\* What any version's reader makes of a row.
LEMMA ParseType ==
  ASSUME NEW version \in Versions, NEW row, NEW messages,
         version \in {v0_0, v1_0} => row.type \in Nat,
         version \notin {v0_0, v1_0} => row.io_group \in Nat /\ row.io_channel \in Nat
  PROVE  LET p == _parse_method_lookup(version, row, messages)
             type == IF version \in {v0_0, v1_0} THEN row.type ELSE row.packet_type
         IN p \in {None, Error} \/ ReadPlain(p, row, messages, type) \/ Fresh1(p) \/ Fresh2(p)
<1>0. v0_0 # v1_0 /\ v0_0 # <<2, 0>> /\ v0_0 # <<2, 1>> /\ v0_0 # <<2, 2>>
      /\ v1_0 # <<2, 0>> /\ v1_0 # <<2, 1>> /\ v1_0 # <<2, 2>>
  BY DEF v0_0, v1_0
<1>1. CASE version = v0_0
  <2>1. _parse_method_lookup(version, row, messages) = parse_raw_packet_v0_0(row)
    BY <1>0, <1>1 DEF _parse_method_lookup
  <2> QED
    BY <1>1, <2>1, ParseRaw
<1>2. CASE version = v1_0
  <2>1. _parse_method_lookup(version, row, messages) = parse_packets_v1_0(row, messages)
    BY <1>0, <1>2 DEF _parse_method_lookup
  <2> QED
    BY <1>2, <2>1, ParseV1
<1>3. CASE version \notin {v0_0, v1_0}
  <2>1. _parse_method_lookup(version, row, messages) \in
          {parse_packets_v2_0(row, messages), parse_packets_v2_1(row, messages),
           parse_packets_v2_2(row, messages), parse_packets_v2_3(row, messages)}
    BY <1>3 DEF _parse_method_lookup
  <2> QED
    BY <1>3, <2>1, ParseV2
<1> QED
  BY <1>1, <1>2, <1>3

\* What a packet is, of any kind, between two calls.
GoodPacket(p) ==
  \/ Word1(p) /\ Kept1(p)
  \/ Word2(p) /\ Kept2(p)
  \/ SoundPlain(p)

LEMMA Kinds ==
  ASSUME NEW p, GoodPacket(p)
  PROVE  /\ p.kind = "v1" => Word1(p) /\ Kept1(p)
         /\ p.kind = "v2" => Word2(p) /\ Kept2(p)
         /\ p.kind \notin {"v1", "v2"} => PlainPacket(p) /\ SoundPlain(p)
  BY DEF GoodPacket, Word1, Word2, PlainPacket, PlainKinds, SoundPlain

LEMMA UnkeptIsGood ==
  ASSUME NEW p, Fresh1(p) \/ Fresh2(p) \/ SoundPlain(p) PROVE GoodPacket(p)
<1>1. CASE Fresh1(p)
  BY <1>1 DEF GoodPacket, Fresh1, Kept1, IsKey
<1>2. CASE Fresh2(p)
  BY <1>2 DEF GoodPacket, Fresh2, Kept2, IsKey
<1>3. CASE SoundPlain(p)
  BY <1>3 DEF GoodPacket
<1> QED
  BY <1>1, <1>2, <1>3

-----------------------------------------------------------------------------
(* Rows: the columns that a packet is read from have numbers.              *)

LEMMA CellNumber ==
  ASSUME NEW column \in {"type", "io_group", "io_channel"}, NEW value \in Nat
  PROVE  Cell(column, value) \in Nat
<1>1. Cell(column, value) = value % 2^8
  BY DEF Cell
<1>2. 2^8 = 256
  OBVIOUS
<1> QED
  BY <1>1, <1>2

LEMMA GetOne ==
  ASSUME NEW d, NEW name, NEW S, \A i \in 1..Len(d) : d[i][1] = name => d[i][2] \in S
  PROVE  get(d, name, 0) \in S \cup {0}
<1>1. CASE \E i \in 1..Len(d) : d[i][1] = name
  <2>1. PICK i \in 1..Len(d) : d[i][1] = name /\ i = CHOOSE j \in 1..Len(d) : d[j][1] = name
    BY <1>1
  <2>2. get(d, name, 0) = d[i][2]
    BY <1>1, <2>1 DEF get
  <2> QED
    BY <2>1, <2>2
<1>2. CASE ~\E i \in 1..Len(d) : d[i][1] = name
  BY <1>2 DEF get
<1> QED
  BY <1>1, <1>2

LEMMA ExportedNumbers ==
  ASSUME NEW p, GoodPacket(p), exported(p) # Error
  PROVE  /\ p.kind # "v2" => get(exported(p), "type", 0) \in Nat
         /\ p.kind # "v1" => /\ get(exported(p), "io_group", 0) \in Io
                             /\ get(exported(p), "io_channel", 0) \in Io
<1>0. 0 \in Io /\ 0 \in Nat /\ Nat \cup {0} = Nat /\ Io \cup {0} = Io
  BY DEF Io
<1> DEFINE d == exported(p)
<1>1. CASE p.kind = "v1"
  <2>1. d = V1!export(p)
    BY <1>1 DEF exported
  <2>2. \A i \in 1..Len(d) : Entry1(d[i][1], d[i][2])
    BY <1>1, <2>1, Kinds, Export1
  <2>3. \A i \in 1..Len(d) : d[i][1] = "type" => d[i][2] \in Nat
    BY <2>2 DEF Entry1
  <2>4. get(d, "type", 0) \in Nat
    BY <1>0, <2>3, GetOne
  <2> QED
    BY <1>1, <2>4
<1>2. CASE p.kind = "v2"
  <2>1. d = V2!export(p)
    BY <1>2 DEF exported
  <2>2. \A i \in 1..Len(d) : Entry2(d[i][1], d[i][2])
    BY <1>2, <2>1, Kinds, Export2
  <2>3. \A i \in 1..Len(d) : d[i][1] = "io_group" => d[i][2] \in Io
    BY <2>2 DEF Entry2
  <2>4. \A i \in 1..Len(d) : d[i][1] = "io_channel" => d[i][2] \in Io
    BY <2>2 DEF Entry2
  <2> HIDE DEF d
  <2>5. get(d, "io_group", 0) \in Io /\ get(d, "io_channel", 0) \in Io
    BY <1>0, <2>3, <2>4, GetOne
  <2> QED
    BY <1>2, <2>5 DEF d
<1>3. CASE p.kind \notin {"v1", "v2"}
  <2>1. d = export(p) /\ PlainPacket(p)
    BY <1>3, Kinds DEF exported
  <2>2. Entries(p, d)
    BY <2>1, ExportPlain
  <2> HIDE DEF d
  <2>3. ASSUME NEW i \in 1..Len(d) PROVE EntryPlain(p, d[i][1], d[i][2]) \/ d[i][1] = "bits"
    <3>1. i \in 1..Len(d) - 1 \/ i = Len(d)
      BY <2>2 DEF Entries
    <3> QED
      BY <2>2, <3>1 DEF Entries
  <2>4. \A i \in 1..Len(d) : d[i][1] = "type" => d[i][2] \in Nat
    BY <2>3 DEF EntryPlain
  <2>5. \A i \in 1..Len(d) : d[i][1] = "io_group" => d[i][2] \in Io
    BY <2>3 DEF EntryPlain
  <2>6. \A i \in 1..Len(d) : d[i][1] = "io_channel" => d[i][2] \in Io
    <3>1. "io_channel" \notin (DOMAIN p \ {"kind"}) \cup {"type"}
      BY <2>1, BlankType DEF PlainPacket, PlainKinds
    <3> QED
      BY <2>3, <3>1 DEF EntryPlain
  <2>7. get(d, "type", 0) \in Nat /\ get(d, "io_group", 0) \in Io /\ get(d, "io_channel", 0) \in Io
    BY <1>0, <2>4, <2>5, <2>6, GetOne
  <2> QED
    BY <2>7 DEF d
<1> QED
  BY <1>1, <1>2, <1>3

\* Columns of a row that no writer changes: the first two, and those of times
\* and counters.
Others == {6, 7, 8, 9, 13, 19}

Cells(row, row2) ==
  /\ DOMAIN row2 = DOMAIN row /\ row2[1] = row[1] /\ row2[2] = row[2]
  /\ \A k \in Others : row2[k] = row[k]

LEMMA PutElsewhere ==
  ASSUME NEW row, 1 \in DOMAIN row, 2 \in DOMAIN row, NEW version, NEW value, NEW name,
         \/ version = v1_0 /\ name = "direction"
         \/ version # v1_0 /\ name \in {"packet_type", "dataword", "trigger_type", "direction",
                                        "fifo_diagnostics_enabled"}
  PROVE  Cells(row, Put(row, version, name, value))
<1>1. PICK j \in Nat : j = dtype_property_index_lookup(version, name) + 1 /\ j > 2 /\ j \notin Others
  BY DEF dtype_property_index_lookup, Others
<1>2. Put(row, version, name, value) = [row EXCEPT ![j] = value]
  BY <1>1 DEF Put
<1>3. Cells(row, [row EXCEPT ![j] = value])
  BY <1>1 DEF Cells
<1> QED
  BY <1>2, <1>3

LEMMA CellsTransitive ==
  ASSUME NEW a, NEW b, NEW c, Cells(a, b), Cells(b, c) PROVE Cells(a, c)
  BY DEF Cells

LEMMA SyncCells ==
  ASSUME NEW row, 1 \in DOMAIN row, 2 \in DOMAIN row, NEW version, version # v1_0, NEW p
  PROVE  Cells(row, PutSync(row, version, p))
<1>1. PICK a : a = Put(row, version, "trigger_type", p.sync_type)
  OBVIOUS
<1>2. PICK b : b = Put(a, version, "dataword", p.clk_source)
  OBVIOUS
<1>3. PICK c : c = Put(row, version, "trigger_type", p.trigger_type)
  OBVIOUS
<1>4. Cells(row, a) /\ Cells(row, c)
  BY <1>1, <1>3, PutElsewhere
<1>5. 1 \in DOMAIN a /\ 2 \in DOMAIN a
  BY <1>4 DEF Cells
<1>6. Cells(a, b)
  BY <1>2, <1>5, PutElsewhere
<1>7. Cells(row, b)
  BY <1>4, <1>6, CellsTransitive
<1>8. PutSync(row, version, p) \in {b, c, row}
  BY <1>1, <1>2, <1>3 DEF PutSync
<1>9. Cells(row, row)
  BY DEF Cells
<1> QED
  BY <1>4, <1>7, <1>8, <1>9

\* The columns in question are the first and the second.
LEMMA Columns12 ==
  ASSUME NEW version
  PROVE  /\ Len(dtypes(version)) \in Nat /\ Len(dtypes(version)) > 2
         /\ version \in {v0_0, v1_0} =>
              /\ dtypes(version)[2] = "type"
              /\ \A k \in 1..Len(dtypes(version)) : dtypes(version)[k] = "type" => k = 2
         /\ version \notin {v0_0, v1_0} =>
              /\ dtypes(version)[1] = "io_group" /\ dtypes(version)[2] = "io_channel"
              /\ \A k \in 1..Len(dtypes(version)) : dtypes(version)[k] = "io_group" => k = 1
              /\ \A k \in 1..Len(dtypes(version)) : dtypes(version)[k] = "io_channel" => k = 2
<1>1. CASE version = v0_0
  BY <1>1 DEF dtypes
<1>2. CASE version = v1_0
  BY <1>2 DEF dtypes, v0_0, v1_0
<1>3. CASE version \notin {v0_0, v1_0}
  BY <1>3 DEF dtypes
<1> QED
  BY <1>1, <1>2, <1>3

LEMMA RawCells ==
  ASSUME NEW p, NEW version
  PROVE  LET row == raw_packet_v0_0(p, version)
         IN /\ DOMAIN row = 1..Len(dtypes(version))
            /\ \A k \in 1..Len(dtypes(version)) : row[k] = get(exported(p), dtypes(version)[k], 0)
  BY DEF raw_packet_v0_0

\* The rows of the versions up to 2.2 differ from the first's in later columns.
LEMMA FormatCells ==
  ASSUME NEW p, NEW version
  PROVE  LET raw == raw_packet_v0_0(p, version)
         IN /\ Cells(raw, packet_v1_0(p, version))
            /\ version # v1_0 => Cells(raw, packet_v2_0(p, version)) /\ Cells(raw, packet_v2_2(p, version))
<1>1. PICK raw : raw = raw_packet_v0_0(p, version)
  OBVIOUS
<1>2. 1 \in DOMAIN raw /\ 2 \in DOMAIN raw
  BY <1>1, RawCells, Columns12
<1>3. Cells(raw, raw)
  BY DEF Cells
<1>4. PICK a : a = packet_v1_0(p, version)
  OBVIOUS
<1>5. Cells(raw, a)
  <2>1. a \in {raw, Put(raw, version, "direction", p.direction)}
    BY <1>1, <1>4 DEF packet_v1_0
  <2>2. Cells(raw, Put(raw, version, "direction", p.direction))
    BY <1>2, PutElsewhere
  <2> QED
    BY <1>3, <2>1, <2>2
<1>6. ASSUME version # v1_0
      PROVE Cells(raw, packet_v2_0(p, version)) /\ Cells(raw, packet_v2_2(p, version))
  <2>1. 1 \in DOMAIN a /\ 2 \in DOMAIN a
    BY <1>2, <1>5 DEF Cells
  <2>2. PICK b : b = Put(a, version, "packet_type", type_of(p))
    OBVIOUS
  <2>3. Cells(a, b)
    BY <1>6, <2>1, <2>2, PutElsewhere
  <2>4. 1 \in DOMAIN b /\ 2 \in DOMAIN b
    BY <2>1, <2>3 DEF Cells
  <2>5. PICK c : c = Put(b, version, "fifo_diagnostics_enabled", 1)
    OBVIOUS
  <2>6. Cells(b, c)
    BY <1>6, <2>4, <2>5, PutElsewhere
  <2>7. PICK e : e = packet_v2_0(p, version)
    OBVIOUS
  <2>8. e \in {b, c}
    BY <1>4, <2>2, <2>5, <2>7 DEF packet_v2_0
  <2>9. Cells(a, e)
    BY <2>3, <2>6, <2>8, CellsTransitive
  <2>10. Cells(raw, e)
    BY <1>5, <2>9, CellsTransitive
  <2>11. 1 \in DOMAIN e /\ 2 \in DOMAIN e
    BY <2>1, <2>9 DEF Cells
  <2>12. Cells(e, packet_v2_2(p, version))
    BY <1>6, <2>7, <2>11, SyncCells DEF packet_v2_2
  <2> QED
    BY <2>7, <2>10, <2>12, CellsTransitive
<1> QED
  BY <1>1, <1>4, <1>5, <1>6

\* The first two columns of the later versions are attributes, or 0.
LEMMA LaterCells ==
  ASSUME NEW p, GoodPacket(p), p.kind # "v1", NEW version \in Versions, version \notin {v0_0, v1_0}
  PROVE  LET row == packet_v2_3(p, version) IN row[1] \in Nat /\ row[2] \in Nat
<1> DEFINE number(name) == LET value == attribute(p, name) IN IF value = None THEN 0 ELSE value
<1>1. ASSUME NEW name \in {"io_group", "io_channel"} PROVE number(name) \in Nat
  <2>1. attribute(p, name) \in Io
    <3>1. CASE name \in DOMAIN p
      <4>1. attribute(p, name) = p[name]
        BY <3>1 DEF attribute
      <4>2. p[name] \in Io
        <5>1. CASE p.kind = "v2"
          BY <5>1, Kinds DEF Word2
        <5>2. CASE p.kind # "v2"
          <6>1. PlainPacket(p)
            BY <5>2, Kinds
          <6>2. name = "io_group" /\ p.kind \in {"sync", "trigger"}
            BY <3>1, <6>1, BlankType DEF PlainPacket, PlainKinds
          <6> QED
            BY <6>1, <6>2 DEF PlainPacket
        <5> QED
          BY <5>1, <5>2
      <4> QED
        BY <4>1, <4>2
    <3>2. CASE name \notin DOMAIN p
      <4>1. p.kind # "v2"
        BY <3>2, Kinds DEF Word2
      <4> QED
        BY <3>2, <4>1 DEF attribute, Io
    <3> QED
      BY <3>1, <3>2
  <2> QED
    BY <2>1 DEF Io
<1>2. PICK row : row = [k \in 1..Len(dtypes(version)) |-> number(dtypes(version)[k])]
  OBVIOUS
<1>3. packet_v2_3(p, version) = PutSync(row, version, p)
  BY <1>2 DEF packet_v2_3
<1> HIDE DEF number
<1>4. 1 \in DOMAIN row /\ 2 \in DOMAIN row
  BY <1>2, Columns12
<1>5. row[1] = number("io_group") /\ row[2] = number("io_channel")
  BY <1>2, Columns12
<1>6. Cells(row, PutSync(row, version, p))
  BY <1>4, SyncCells
<1> QED
  BY <1>1, <1>3, <1>5, <1>6 DEF Cells

\* Where a version has the type, the time and the counter.
TypeAt(version) == IF version \in {v0_0, v1_0} THEN 2 ELSE 4
TimeAt(version) == IF version = v0_0 THEN 8 ELSE IF version = v1_0 THEN 7 ELSE 9
CounterAt(version) == IF version = v0_0 THEN 6 ELSE IF version = v1_0 THEN 13 ELSE 19

LEMMA ColumnsAt ==
  ASSUME NEW version
  PROVE  /\ TypeAt(version) \in 1..Len(dtypes(version)) /\ TimeAt(version) \in 1..Len(dtypes(version))
         /\ CounterAt(version) \in 1..Len(dtypes(version))
         /\ \A k \in 1..Len(dtypes(version)) :
              /\ dtypes(version)[k] = (IF version \in {v0_0, v1_0} THEN "type" ELSE "packet_type")
                   <=> k = TypeAt(version)
              /\ dtypes(version)[k] = "timestamp" <=> k = TimeAt(version)
              /\ dtypes(version)[k] = "counter" <=> k = CounterAt(version)
<1>1. CASE version = v0_0
  <2>0. v0_0 # v1_0
    BY DEF v0_0, v1_0
  <2>1. TypeAt(version) = 2 /\ TimeAt(version) = 8 /\ CounterAt(version) = 6
        /\ version \in {v0_0, v1_0}
    BY <1>1 DEF TypeAt, TimeAt, CounterAt
  <2>2. PICK s : /\ s = dtypes(version)
                 /\ s = <<"chip_key", "type", "chipid", "parity", "valid_parity", "counter", "channel",
                           "timestamp", "adc_counts", "fifo_half", "fifo_full", "register", "value">>
    BY <1>1, <2>0 DEF dtypes
  <2>3. Len(s) = 13 /\ \A k \in 1..13 : /\ s[k] = "type" <=> k = 2
                                        /\ s[k] = "timestamp" <=> k = 8
                                        /\ s[k] = "counter" <=> k = 6
    BY <2>2
  <2> QED
    BY <2>1, <2>2, <2>3
<1>2. CASE version = v1_0
  <2>1. version # v0_0
    BY <1>2 DEF v0_0, v1_0
  <2>2. TypeAt(version) = 2 /\ TimeAt(version) = 7 /\ CounterAt(version) = 13
        /\ version \in {v0_0, v1_0}
    BY <1>2, <2>1 DEF TypeAt, TimeAt, CounterAt
  <2>3. PICK s : /\ s = dtypes(version)
                 /\ s = <<"chip_key", "type", "chipid", "parity", "valid_parity", "channel", "timestamp",
                           "adc_counts", "fifo_half", "fifo_full", "register", "value", "counter",
                           "direction">>
    BY <1>2, <2>1 DEF dtypes
  <2>4. Len(s) = 14 /\ \A k \in 1..14 : /\ s[k] = "type" <=> k = 2
                                        /\ s[k] = "timestamp" <=> k = 7
                                        /\ s[k] = "counter" <=> k = 13
    BY <2>3
  <2> QED
    BY <2>2, <2>3, <2>4
<1>3. CASE version \notin {v0_0, v1_0}
  BY <1>3 DEF dtypes, TypeAt, TimeAt, CounterAt
<1> QED
  BY <1>1, <1>2, <1>3

\* The type of a word is below four.
LEMMA TypeIsSmall ==
  ASSUME NEW p
  PROVE  /\ Word1(p) => V1!Get(p, "type") \in 0..3
         /\ Word2(p) /\ Kept2(p) => V2!Get(p, "packet_type") \in 0..3
<1>1. ASSUME Word1(p) PROVE V1!Get(p, "type") \in 0..3
  <2>1. PICK s : s = SubSeq(p.bits, 53, 54)
    OBVIOUS
  <2>2. s \in Seq(Bit) /\ Len(s) = 2
    BY <1>1, <2>1 DEF Word1
  <2>3. PICK r \in Seq(Bit) : r = Backwards(s) /\ Len(r) = 2
    BY <2>2, BackwardsIs
  <2>4. V1!Get(p, "type") = touint_big(s)
    <3>1. Span(p.bits, V1!Slice["type"]) = s
      BY <2>1 DEF Span, V1!Slice
    <3> QED
      BY <3>1, SameBits1 DEF V1!Get
  <2>5. touint(r) = touint_big(s)
    BY <2>2, <2>3, BackwardsTwice DEF touint
  <2> QED
    BY <2>3, <2>4, <2>5, TwoBits
<1>2. ASSUME Word2(p), Kept2(p) PROVE V2!Get(p, "packet_type") \in 0..3
  <2>1. V2!Word(p) = p.bits
    BY <1>2 DEF Kept2, V2!Word
  <2>2. PICK s : s = SubSeq(p.bits, 1, 2)
    OBVIOUS
  <2>3. s \in Seq(Bit) /\ Len(s) = 2
    BY <1>2, <2>2 DEF Word2
  <2>4. V2!Get(p, "packet_type") = touint(s)
    <3>1. Span(p.bits, V2!Slice["packet_type"]) = s
      BY <2>2 DEF Span, V2!Slice
    <3> QED
      BY <2>1, <3>1, SameBits2 DEF V2!Get
  <2> QED
    BY <2>3, <2>4, TwoBits
<1> QED
  BY <1>1, <1>2

\* What a packet's entries say of its type, and of its time and counter if it
\* is a time or a message.
LEMMA ExportedPlain ==
  ASSUME NEW p, GoodPacket(p), exported(p) # Error
  PROVE  LET d == exported(p)
         IN /\ p.kind = "v1" => get(d, "type", 0) \in 0..3
            /\ p.kind \notin {"v1", "v2"} => get(d, "type", 0) \in {0, packet_type(p)}
            /\ p.kind = "timestamp" => get(d, "timestamp", 0) \in Times
            /\ p.kind = "message" => get(d, "counter", 0) = 0
<1>1. ASSUME p.kind = "v1" PROVE get(exported(p), "type", 0) \in 0..3
  <2>1. Word1(p) /\ V1!chip_key(p) # Error /\ exported(p) = V1!export(p)
    BY <1>1, Kinds DEF exported, V1!export
  <2>2. PICK n \in Nat : \E e, names : Entries1(p, n, e, names)
    BY <2>1, ExportIs1
  <2>3. PICK d, names : Entries1(p, n, d, names)
    BY <2>2
  <2>4. ASSUME NEW i \in 1..Len(d), d[i][1] = "type" PROVE d[i][2] \in 0..3
    <3>1. i > 3
      BY <2>3, <2>4 DEF Entries1
    <3>2. i - 3 \in 1..n /\ (i - 3) + 3 = i
      BY <2>3, <3>1 DEF Entries1
    <3>3. d[i] = <<names[i - 3], V1!Get(p, names[i - 3])>>
      BY <2>3, <3>2 DEF Entries1
    <3>4. d[i][2] = V1!Get(p, "type")
      BY <2>4, <3>3
    <3> QED
      BY <2>1, <3>4, TypeIsSmall
  <2>5. get(d, "type", 0) \in (0..3) \cup {0}
    BY <2>4, GetOne
  <2> QED
    BY <2>1, <2>3, <2>5 DEF Entries1
<1>2. ASSUME p.kind \notin {"v1", "v2"}
      PROVE  LET d == exported(p)
             IN /\ get(d, "type", 0) \in {0, packet_type(p)}
                /\ p.kind = "timestamp" => get(d, "timestamp", 0) \in Times
                /\ p.kind = "message" => get(d, "counter", 0) = 0
  <2>1. SoundPlain(p) /\ PlainPacket(p) /\ exported(p) = export(p)
    BY <1>2, Kinds DEF exported
  <2>2. PICK d, names : d = export(p) /\ names = NamesOf(p.kind)
    OBVIOUS
  <2>3. /\ Len(d) = 1 + Len(names) + (IF p.kind \in {"timestamp", "message"} THEN 1 ELSE 0)
        /\ d[1] = <<"type", packet_type(p)>>
        /\ \A i \in 1..Len(names) : d[i + 1] = <<names[i], p[names[i]]>>
        /\ p.kind \in {"timestamp", "message"} => d[Len(names) + 2] = <<"bits", bits(p)>>
    BY <2>1, <2>2, ExportIsPlain
  <2>4. /\ Len(names) \in Nat
        /\ \A i \in 1..Len(names) : names[i] \notin {"type", "counter", "bits"}
    BY <2>1, <2>2 DEF NamesOf, PlainPacket, PlainKinds
  <2>5. ASSUME NEW i \in 1..Len(d)
        PROVE  \/ d[i] = <<"type", packet_type(p)>>
               \/ \E k \in 1..Len(names) : d[i] = <<names[k], p[names[k]]>>
               \/ d[i] = <<"bits", bits(p)>>
    <3>1. CASE i = 1
      BY <2>3, <3>1
    <3>2. CASE i \in 2..(Len(names) + 1)
      <4>1. i - 1 \in 1..Len(names) /\ (i - 1) + 1 = i
        BY <2>4, <3>2
      <4> QED
        BY <2>3, <4>1
    <3>3. CASE i = Len(names) + 2
      BY <2>3, <2>4, <3>3
    <3> QED
      BY <2>3, <2>4, <3>1, <3>2, <3>3
  <2>6. get(d, "type", 0) \in {packet_type(p)} \cup {0}
    <3>1. \A i \in 1..Len(d) : d[i][1] = "type" => d[i][2] \in {packet_type(p)}
      BY <2>4, <2>5
    <3> QED
      BY <3>1, GetOne
  <2>7. ASSUME p.kind = "timestamp" PROVE get(d, "timestamp", 0) \in Times
    <3>1. \A k \in 1..Len(names) : p[names[k]] \in Times
      BY <2>1, <2>2, <2>7 DEF SoundPlain, NamesOf
    <3>2. \A i \in 1..Len(d) : d[i][1] = "timestamp" => d[i][2] \in Times
      BY <2>5, <3>1
    <3>3. get(d, "timestamp", 0) \in Times \cup {0}
      BY <3>2, GetOne
    <3> QED
      BY <3>3, SMT DEF Times
  <2>8. get(d, "counter", 0) \in {} \cup {0}
    <3>1. \A i \in 1..Len(d) : d[i][1] = "counter" => d[i][2] \in {}
      BY <2>4, <2>5
    <3> QED
      BY <3>1, GetOne
  <2> QED
    BY <2>1, <2>2, <2>6, <2>7, <2>8
<1> QED
  BY <1>1, <1>2

\* The type of a packet, by its kind.
LEMMA TypeOf ==
  ASSUME NEW p, GoodPacket(p), p.kind # "v1"
  PROVE  /\ type_of(p) # None
         /\ type_of(p) \in 0..3 \/ (p.kind \notin {"v1", "v2"} /\ type_of(p) = packet_type(p))
<1>1. ASSUME p.kind = "v2" PROVE type_of(p) \in 0..3
  <2>1. Word2(p) /\ Kept2(p)
    BY <1>1, Kinds
  <2>2. type_of(p) = V2!Get(p, "packet_type")
    BY <1>1 DEF type_of
  <2> QED
    BY <2>1, <2>2, TypeIsSmall
<1>2. ASSUME p.kind # "v2" PROVE type_of(p) = packet_type(p) /\ packet_type(p) \in 4..7
  <2>1. PlainPacket(p)
    BY <1>2, Kinds
  <2>2. packet_type(p) \in 4..7
    BY <2>1 DEF packet_type, PlainPacket, PlainKinds
  <2> QED
    BY <1>2, <2>2 DEF type_of
<1>3. type_of(p) \in Nat
  BY <1>1, <1>2
<1> QED
  BY <1>1, <1>2, <1>3, NoneAssumption

\* From 2.0 on a row has the packet's type.
LEMMA TypeColumn ==
  ASSUME NEW p, GoodPacket(p), p.kind # "v1", NEW version \in Versions, version \notin {v0_0, v1_0}
  PROVE  Format(version, p)[4] = type_of(p)
<1>0. \A r, name, value :
        /\ name \in {"trigger_type", "dataword", "fifo_diagnostics_enabled"} =>
             Put(r, version, name, value)[4] = r[4]
        /\ DOMAIN Put(r, version, name, value) = DOMAIN r
  <2> SUFFICES ASSUME NEW r, NEW name, NEW value
               PROVE  /\ name \in {"trigger_type", "dataword", "fifo_diagnostics_enabled"} =>
                           Put(r, version, name, value)[4] = r[4]
                      /\ DOMAIN Put(r, version, name, value) = DOMAIN r
    OBVIOUS
  <2>1. PICK j : j = dtype_property_index_lookup(version, name) + 1
    OBVIOUS
  <2>2. name \in {"trigger_type", "dataword", "fifo_diagnostics_enabled"} => j # 4
    BY <2>1 DEF dtype_property_index_lookup
  <2>3. Put(r, version, name, value) = [r EXCEPT ![j] = value]
    BY <2>1 DEF Put
  <2> QED
    BY <2>2, <2>3
<1>1. ASSUME NEW row PROVE PutSync(row, version, p)[4] = row[4]
  BY <1>0 DEF PutSync
<1>2. Len(dtypes(version)) = 22 /\ dtypes(version)[4] = "packet_type"
  BY DEF dtypes
<1>3. packet_v2_3(p, version)[4] = type_of(p)
  <2>1. PICK row : row = [k \in 1..22 |-> LET value == attribute(p, dtypes(version)[k])
                                          IN IF value = None THEN 0 ELSE value]
    OBVIOUS
  <2>2. packet_v2_3(p, version) = PutSync(row, version, p)
    BY <1>2, <2>1 DEF packet_v2_3
  <2>3. attribute(p, "packet_type") = type_of(p)
    BY DEF attribute
  <2>4. row[4] = type_of(p)
    BY <1>2, <2>1, <2>3, TypeOf
  <2> QED
    BY <1>1, <2>2, <2>4
<1>4. packet_v2_0(p, version)[4] = type_of(p)
  <2>1. PICK a : a = packet_v1_0(p, version)
    OBVIOUS
  <2>2. 4 \in DOMAIN a
    <3>1. DOMAIN raw_packet_v0_0(p, version) = 1..22
      BY <1>2, RawCells
    <3>2. Cells(raw_packet_v0_0(p, version), a)
      BY <2>1, FormatCells
    <3> QED
      BY <3>1, <3>2 DEF Cells
  <2>3. PICK b : b = Put(a, version, "packet_type", type_of(p))
    OBVIOUS
  <2>4. dtype_property_index_lookup(version, "packet_type") + 1 = 4
    BY DEF dtype_property_index_lookup
  <2>5. b[4] = type_of(p)
    BY <2>2, <2>3, <2>4 DEF Put
  <2>6. packet_v2_0(p, version) \in {b, Put(b, version, "fifo_diagnostics_enabled", 1)}
    BY <2>1, <2>3 DEF packet_v2_0
  <2> QED
    BY <1>0, <2>5, <2>6
<1>5. packet_v2_2(p, version)[4] = type_of(p)
  BY <1>1, <1>4 DEF packet_v2_2
<1>6. Format(version, p) \in {packet_v2_0(p, version), packet_v2_2(p, version), packet_v2_3(p, version)}
  BY DEF Format
<1> QED
  BY <1>3, <1>4, <1>5, <1>6

\* The row of a packet in a version that is compatible with it.
LEMMA RowNumbers ==
  ASSUME NEW p, GoodPacket(p), exported(p) # Error, NEW version \in Versions, Compatible(version, p)
  PROVE  LET row == Format(version, p)
         IN /\ version \in {v0_0, v1_0} => row[2] \in Nat
            /\ version \notin {v0_0, v1_0} => row[1] \in Io /\ row[2] \in Io
<1>0. /\ v0_0 # v1_0 /\ v0_0 # <<2, 0>> /\ v0_0 # <<2, 1>> /\ v0_0 # <<2, 2>>
      /\ v1_0 # <<2, 0>> /\ v1_0 # <<2, 1>> /\ v1_0 # <<2, 2>>
  BY DEF v0_0, v1_0
<1>1. PICK raw : raw = raw_packet_v0_0(p, version)
  OBVIOUS
<1>2. CASE version \in {v0_0, v1_0}
  <2>1. p.kind # "v2"
    <3>1. Before(v0_0, <<2, 0>>) /\ Before(v1_0, <<2, 0>>)
      BY DEF Before, v0_0, v1_0
    <3>2. p.kind = "v2" => ~Before(version, <<2, 0>>)
      BY DEF Compatible
    <3> QED
      BY <1>2, <3>1, <3>2
  <2>2. raw[2] = get(exported(p), "type", 0)
    BY <1>1, <1>2, RawCells, Columns12
  <2>3. raw[2] \in Nat
    BY <2>1, <2>2, ExportedNumbers
  <2>4. Format(version, p) \in {raw, packet_v1_0(p, version)}
    BY <1>0, <1>1, <1>2 DEF Format
  <2>5. Cells(raw, packet_v1_0(p, version))
    BY <1>1, FormatCells
  <2> QED
    BY <1>2, <2>3, <2>4, <2>5 DEF Cells
<1>3. CASE version \notin {v0_0, v1_0}
  <2>1. p.kind # "v1"
    BY <1>3 DEF Compatible
  <2>2. raw[1] = get(exported(p), "io_group", 0) /\ raw[2] = get(exported(p), "io_channel", 0)
    BY <1>1, <1>3, RawCells, Columns12
  <2>3. raw[1] \in Io /\ raw[2] \in Io
    BY <2>1, <2>2, ExportedNumbers
  <2>4. Cells(raw, packet_v2_0(p, version)) /\ Cells(raw, packet_v2_2(p, version))
    BY <1>1, <1>3, FormatCells
  <2>5. packet_v2_3(p, version)[1] \in Io /\ packet_v2_3(p, version)[2] \in Io
    BY <1>3, <2>1, LaterCells DEF Io
  <2>6. Format(version, p) \in {packet_v2_0(p, version), packet_v2_2(p, version), packet_v2_3(p, version)}
    BY <1>3 DEF Format
  <2> QED
    BY <1>3, <2>3, <2>4, <2>5, <2>6 DEF Cells
<1> QED
  BY <1>2, <1>3

\* Its type, and its time or counter.
LEMMA RowPlain ==
  ASSUME NEW p, GoodPacket(p), exported(p) # Error, NEW version \in Versions, Compatible(version, p)
  PROVE  LET row == Format(version, p)
         IN /\ \/ row[TypeAt(version)] \in 0..3
               \/ p.kind \notin {"v1", "v2"} /\ row[TypeAt(version)] = packet_type(p)
            /\ p.kind = "timestamp" => row[TimeAt(version)] \in Times
            /\ p.kind = "message" => row[CounterAt(version)] = 0
<1>0. /\ v0_0 # v1_0 /\ v0_0 # <<2, 0>> /\ v0_0 # <<2, 1>> /\ v0_0 # <<2, 2>>
      /\ v1_0 # <<2, 0>> /\ v1_0 # <<2, 1>> /\ v1_0 # <<2, 2>>
  BY DEF v0_0, v1_0
<1>1. PICK raw : raw = raw_packet_v0_0(p, version)
  OBVIOUS
<1>2. PICK row : row = Format(version, p)
  OBVIOUS
<1>3. PICK T, S, C : T = TypeAt(version) /\ S = TimeAt(version) /\ C = CounterAt(version)
  OBVIOUS
<1>4. /\ T \in 1..Len(dtypes(version)) /\ S \in 1..Len(dtypes(version)) /\ C \in 1..Len(dtypes(version))
      /\ dtypes(version)[S] = "timestamp" /\ dtypes(version)[C] = "counter"
      /\ dtypes(version)[T] = (IF version \in {v0_0, v1_0} THEN "type" ELSE "packet_type")
  BY <1>3, ColumnsAt
<1>5. S \in Others /\ C \in Others
  BY <1>3 DEF TimeAt, CounterAt, Others
<1>6. raw[S] = get(exported(p), "timestamp", 0) /\ raw[C] = get(exported(p), "counter", 0)
  BY <1>1, <1>4, RawCells
<1>7. p.kind = "timestamp" => raw[S] \in Times
  BY <1>6, ExportedPlain
<1>8. p.kind = "message" => raw[C] = 0
  BY <1>6, ExportedPlain
<1>9. CASE version \in {v0_0, v1_0}
  <2>1. row \in {raw, packet_v1_0(p, version)}
    BY <1>0, <1>1, <1>2, <1>9 DEF Format
  <2>2. Cells(raw, packet_v1_0(p, version))
    BY <1>1, FormatCells
  <2>3. row[2] = raw[2] /\ row[S] = raw[S] /\ row[C] = raw[C]
    BY <1>5, <2>1, <2>2 DEF Cells
  <2>4. T = 2
    BY <1>3, <1>9 DEF TypeAt
  <2>5. raw[2] = get(exported(p), "type", 0)
    BY <1>1, <1>4, <1>9, <2>4, RawCells
  <2>6. p.kind # "v2"
    <3>1. Before(v0_0, <<2, 0>>) /\ Before(v1_0, <<2, 0>>)
      BY DEF Before, v0_0, v1_0
    <3>2. p.kind = "v2" => ~Before(version, <<2, 0>>)
      BY DEF Compatible
    <3> QED
      BY <1>9, <3>1, <3>2
  <2>7. \/ raw[2] \in 0..3
        \/ p.kind \notin {"v1", "v2"} /\ raw[2] = packet_type(p)
    BY <2>5, <2>6, ExportedPlain
  <2> QED
    BY <1>2, <1>3, <1>7, <1>8, <2>3, <2>4, <2>7
<1>10. CASE version \notin {v0_0, v1_0}
  <2>1. p.kind # "v1"
    BY <1>10 DEF Compatible
  <2>2. T = 4
    BY <1>3, <1>10 DEF TypeAt
  <2>3. row[T] = type_of(p)
    BY <1>2, <1>10, <2>1, <2>2, TypeColumn
  <2>4. \/ row[T] \in 0..3
        \/ p.kind \notin {"v1", "v2"} /\ row[T] = packet_type(p)
    BY <2>1, <2>3, TypeOf
  <2>5. row \in {packet_v2_0(p, version), packet_v2_2(p, version), packet_v2_3(p, version)}
    BY <1>2, <1>10 DEF Format
  <2>6. CASE row \in {packet_v2_0(p, version), packet_v2_2(p, version)}
    <3>1. Cells(raw, packet_v2_0(p, version)) /\ Cells(raw, packet_v2_2(p, version))
      BY <1>1, <1>10, FormatCells
    <3>2. row[S] = raw[S] /\ row[C] = raw[C]
      BY <1>5, <2>6, <3>1 DEF Cells
    <3> QED
      BY <1>2, <1>3, <1>7, <1>8, <2>4, <3>2
  <2>7. CASE row = packet_v2_3(p, version)
    <3> DEFINE number(name) == LET value == attribute(p, name) IN IF value = None THEN 0 ELSE value
    <3>1. PICK own : own = [k \in 1..Len(dtypes(version)) |-> number(dtypes(version)[k])]
      OBVIOUS
    <3>2. row = PutSync(own, version, p)
      BY <2>7, <3>1 DEF packet_v2_3
    <3>3. own[S] = number("timestamp") /\ own[C] = number("counter")
      <4> HIDE DEF number
      <4> QED
        BY <1>4, <3>1
    <3>4. Cells(own, row)
      <4>1. 1 \in DOMAIN own /\ 2 \in DOMAIN own
        <5> HIDE DEF number
        <5> QED
          BY <3>1, Columns12
      <4> QED
        BY <1>10, <3>2, <4>1, SyncCells
    <3>5. row[S] = own[S] /\ row[C] = own[C]
      BY <1>5, <3>4 DEF Cells
    <3>6. p.kind = "timestamp" => number("timestamp") \in Times
      <4> SUFFICES ASSUME p.kind = "timestamp" PROVE number("timestamp") \in Times
        OBVIOUS
      <4>1. SoundPlain(p) /\ PlainPacket(p)
        BY Kinds
      <4>2. attribute(p, "timestamp") = p.timestamp
        BY <4>1, BlankType DEF attribute, PlainPacket
      <4>3. p.timestamp \in Times /\ 0 \in Times
        BY <4>1, SMT DEF SoundPlain, Times
      <4> QED
        BY <4>2, <4>3
    <3>7. p.kind = "message" => number("counter") = 0
      <4> SUFFICES ASSUME p.kind = "message" PROVE number("counter") = 0
        OBVIOUS
      <4>1. "counter" \notin DOMAIN p
        BY Kinds, BlankType DEF PlainPacket
      <4>2. attribute(p, "counter") = None
        BY <4>1 DEF attribute
      <4> QED
        BY <4>2
    <3> HIDE DEF number
    <3> QED
      BY <1>2, <1>3, <2>4, <3>3, <3>5, <3>6, <3>7
  <2> QED
    BY <2>5, <2>6, <2>7
<1> QED
  BY <1>9, <1>10

\* What is asked of the reader is the version of the file, or nothing.
LEMMA OpenedType ==
  ASSUME NEW version, NEW asked, Opened(version, asked) # Error
  PROVE  Opened(version, asked) = version /\ version \in Versions
  BY DEF Opened

\* Of two packets the second.
LEMMA SecondType ==
  ASSUME NEW a, NEW b, Second(Parsed(<<a, b>>)) # Error
  PROVE  Second(Parsed(<<a, b>>)) = b /\ b \notin {None, Error}
<1> DEFINE two == <<a, b>>
           kept == {i \in 1..Len(two) : two[i] # None}
           pick == CHOOSE i \in kept : Cardinality({j \in kept : j <= i}) = 2
<1>1. Parsed(two) # Error /\ Len(Parsed(two)) = 2 /\ Second(Parsed(two)) = Parsed(two)[2]
  BY DEF Second
<1>2. a # Error /\ b # Error
        /\ Parsed(two) = [k \in 1..Cardinality(kept) |->
             two[CHOOSE i \in kept : Cardinality({j \in kept : j <= i}) = k]]
  BY <1>1 DEF Parsed, Picked
<1>3. IsFiniteSet(kept) /\ Cardinality(kept) \in Nat
  <2>1. 1 \in Int /\ 2 \in Int /\ kept \subseteq 1..2
    OBVIOUS
  <2> HIDE DEF kept
  <2>2. IsFiniteSet(1..2)
    BY <2>1, FS_Interval
  <2> QED
    BY <2>1, <2>2, FS_Subset, FS_CardinalityType
<1>4. Cardinality(kept) = 2
  <2> DEFINE value(k) == two[CHOOSE i \in kept : Cardinality({j \in kept : j <= i}) = k]
  <2>1. Parsed(two) = [k \in 1..Cardinality(kept) |-> value(k)]
    BY <1>2
  <2> HIDE DEF kept, value
  <2>2. Len([k \in 1..Cardinality(kept) |-> value(k)]) = Cardinality(kept)
    BY <1>3
  <2> QED
    BY <1>1, <2>1, <2>2
<1>5. {j \in kept : j <= 2} = kept
  OBVIOUS
<1>6. 2 \in kept
  <2>1. kept # {1} /\ kept # {}
    BY <1>4, FS_EmptySet, FS_Singleton
  <2>2. kept \subseteq {1, 2}
    OBVIOUS
  <2> HIDE DEF kept
  <2> QED
    BY <2>1, <2>2
<1>7. pick = 2
  <2>1. kept \subseteq {1, 2} /\ ({j \in kept : j <= 1} = {1} \/ 1 \notin kept)
    OBVIOUS
  <2> HIDE DEF kept
  <2>2. Cardinality({1}) = 1
    BY FS_Singleton
  <2>3. pick \in kept /\ Cardinality({j \in kept : j <= pick}) = 2
    BY <1>4, <1>5, <1>6
  <2> HIDE DEF pick
  <2>4. pick # 1
    BY <2>1, <2>2, <2>3
  <2> QED
    BY <2>1, <2>3, <2>4
<1>8. Parsed(two)[2] = two[pick]
  <2> HIDE DEF kept
  <2> QED
    BY <1>2, <1>4
<1>9. two[2] = b /\ b # None
  BY <1>6
<1> QED
  BY <1>1, <1>2, <1>7, <1>8, <1>9

\* The one message of a file whose second packet it is.
LEMMA SecondMessage ==
  ASSUME NEW a, a.kind # "message", NEW b, b.kind = "message"
  PROVE  LET two == <<a, b>>
             messages == Picked(two, {i \in 1..Len(two) : two[i].kind = "message"})
         IN 1 \in 1..Len(messages) /\ Len(messages) \in Nat /\ messages[1] = b
<1>1. PICK two : two = <<a, b>>
  OBVIOUS
<1>2. {i \in 1..Len(two) : two[i].kind = "message"} = {2}
  BY <1>1
<1>3. Cardinality({2}) = 1
  BY FS_Singleton
<1> DEFINE pick(k) == CHOOSE i \in {2} : Cardinality({j \in {2} : j <= i}) = k
<1>4. pick(1) = 2
  <2>1. {j \in {2} : j <= 2} = {2}
    OBVIOUS
  <2>2. Cardinality({j \in {2} : j <= 2}) = 1
    BY <1>3, <2>1
  <2>3. \E i \in {2} : Cardinality({j \in {2} : j <= i}) = 1
    BY <2>2
  <2> QED
    BY <2>3
<1>5. Picked(two, {2}) = [k \in 1..Cardinality({2}) |-> two[pick(k)]]
  BY DEF Picked
<1> HIDE DEF pick
<1>6. PICK one : one = [k \in 1..1 |-> two[pick(k)]] /\ Picked(two, {2}) = one
  BY <1>3, <1>5
<1>7. Len(one) = 1 /\ one[1] = two[pick(1)]
  BY <1>6
<1>8. Picked(two, {i \in 1..Len(two) : two[i].kind = "message"}) = one
  BY <1>2, <1>6
<1>9. 1 \in 1..Len(one) /\ Len(one) \in Nat /\ one[1] = b
  BY <1>1, <1>4, <1>7
<1> QED
  BY <1>1, <1>8, <1>9

LEMMA CellType ==
  ASSUME NEW column \in {"type", "packet_type"}, NEW value \in 0..7
  PROVE  Cell(column, value) = value
<1>1. Cell(column, value) = value % 2^8
  BY DEF Cell
<1>2. 2^8 = 256
  OBVIOUS
<1> QED
  BY <1>1, <1>2

LEMMA CellSame ==
  ASSUME NEW value PROVE Cell("timestamp", value) = value /\ Cell("counter", value) = value
  BY DEF Cell

\* A packet that comes back from a file is one with nothing kept.
LEMMA ViaFileType ==
  ASSUME NEW p, GoodPacket(p), NEW version \in Versions, Compatible(version, p), NEW asked, NEW configs,
         NEW q, q = Second(Loaded(to_file(version, <<TimestampPacket(1), p>>, configs), asked)),
         q # Error
  PROVE  Fresh1(q) \/ Fresh2(q) \/ SoundPlain(q)
<1> DEFINE packets == <<TimestampPacket(1), p>>
           rows == [i \in 1..Len(packets) |-> Format(version, packets[i])]
           columns == dtypes(version)
           cells(row) == [name \in Range(columns) |->
                            Cell(name, row[CHOOSE k \in 1..Len(columns) : columns[k] = name])]
<1>1. PICK file : file = to_file(version, packets, configs)
  OBVIOUS
<1>2. file # Error /\ from_file(file, asked, TRUE) # Error /\ q = Second(from_file(file, asked, TRUE))
  BY <1>1 DEF Loaded, Second
<1>3. exported(p) # Error /\ file = Stored(version, packets, rows, configs)
  <2>1. \A i \in 1..Len(packets) : exported(packets[i]) # Error
    BY <1>1, <1>2 DEF to_file
  <2>2. 2 \in 1..Len(packets) /\ packets[2] = p
    OBVIOUS
  <2>3. exported(packets[2]) # Error
    BY <2>1, <2>2
  <2>4. file = Stored(version, packets, rows, configs)
    BY <1>1, <1>2 DEF to_file
  <2> QED
    BY <2>2, <2>3, <2>4
<1>4. Len(rows) = 2 /\ rows[2] = Format(version, p)
  OBVIOUS
<1> DEFINE messages == Picked(packets, {i \in 1..Len(packets) : packets[i].kind = "message"})
<1>14. p.kind = "message" =>
         1 \in 1..Len(messages) /\ Len(messages) \in Nat /\ messages[1] = p
  BY SecondMessage DEF TimestampPacket
<1> HIDE DEF rows, packets, columns, messages
<1>5. \A i \in 1..Len(rows), k \in 1..Len(columns) : columns[k] # "chip_key" => rows[i][k] # None
  BY <1>2, <1>3 DEF Stored, columns
<1>6. /\ file.version = version /\ file.rows = [i \in 1..Len(rows) |-> cells(rows[i])]
      /\ file.messages = [i \in 1..Len(messages) |->
                            IF messages[i].message < TEXT THEN messages[i].message ELSE TEXT]
  BY <1>2, <1>3, <1>5 DEF Stored, columns, messages
<1> HIDE DEF cells
<1>7. Len(file.rows) = 2 /\ file.rows[2] = cells(rows[2])
  BY <1>4, <1>6
<1> DEFINE parse(i) == _parse_method_lookup(version, file.rows[i], file.messages)
<1>8. from_file(file, asked, TRUE) = Parsed(<<parse(1), parse(2)>>)
  <2>1. Opened(version, asked) = version
    BY <1>2, <1>6, OpenedType DEF from_file
  <2>2. from_file(file, asked, TRUE) = Parsed([i \in 1..Len(file.rows) |-> parse(i)])
    BY <1>2, <1>6, <2>1 DEF from_file
  <2> HIDE DEF parse
  <2>3. [i \in 1..Len(file.rows) |-> parse(i)] = <<parse(1), parse(2)>>
    BY <1>7
  <2> QED
    BY <2>2, <2>3
<1>9. PICK row : row = file.rows[2]
  OBVIOUS
<1>10. version \in {v0_0, v1_0} => row.type \in Nat
  <2> SUFFICES ASSUME version \in {v0_0, v1_0} PROVE row.type \in Nat
    OBVIOUS
  <2>1. rows[2][2] \in Nat
    BY <1>3, <1>4, RowNumbers
  <2>2. 2 \in 1..Len(columns) /\ columns[2] = "type"
        /\ (CHOOSE k \in 1..Len(columns) : columns[k] = "type") = 2
    BY Columns12 DEF columns
  <2>3. "type" \in Range(columns)
    BY <2>2 DEF Range, columns, dtypes
  <2>4. row.type = Cell("type", rows[2][2])
    BY <1>7, <1>9, <2>2, <2>3 DEF cells
  <2> QED
    BY <2>1, <2>4, CellNumber
<1>11. version \notin {v0_0, v1_0} => row.io_group \in Nat /\ row.io_channel \in Nat
  <2> SUFFICES ASSUME version \notin {v0_0, v1_0} PROVE row.io_group \in Nat /\ row.io_channel \in Nat
    OBVIOUS
  <2>1. /\ 1 \in 1..Len(columns) /\ columns[1] = "io_group"
        /\ 2 \in 1..Len(columns) /\ columns[2] = "io_channel"
        /\ (CHOOSE k \in 1..Len(columns) : columns[k] = "io_group") = 1
        /\ (CHOOSE k \in 1..Len(columns) : columns[k] = "io_channel") = 2
    BY Columns12 DEF columns
  <2>2. rows[2][1] \in Io /\ rows[2][2] \in Io
    BY <1>3, <1>4, RowNumbers
  <2>3. rows[2][1] # None /\ rows[2][2] # None
    BY <1>4, <1>5, <2>1
  <2>4. rows[2][1] \in Nat /\ rows[2][2] \in Nat
    BY <2>2, <2>3 DEF Io
  <2>5. "io_group" \in Range(columns) /\ "io_channel" \in Range(columns)
    BY <2>1 DEF Range, columns, dtypes
  <2>6. row.io_group = Cell("io_group", rows[2][1])
    <3>1. cells(rows[2]).io_group =
            Cell("io_group", rows[2][CHOOSE k \in 1..Len(columns) : columns[k] = "io_group"])
      BY <2>5 DEF cells
    <3> QED
      BY <1>7, <1>9, <2>1, <3>1
  <2>7. row.io_channel = Cell("io_channel", rows[2][2])
    <3>1. cells(rows[2]).io_channel =
            Cell("io_channel", rows[2][CHOOSE k \in 1..Len(columns) : columns[k] = "io_channel"])
      BY <2>5 DEF cells
    <3> QED
      BY <1>7, <1>9, <2>1, <3>1
  <2> QED
    BY <2>4, <2>6, <2>7, CellNumber
<1> DEFINE type == IF version \in {v0_0, v1_0} THEN row.type ELSE row.packet_type
<1>12. parse(2) \in {None, Error} \/ Fresh1(parse(2)) \/ Fresh2(parse(2))
         \/ ReadPlain(parse(2), row, file.messages, type)
  BY <1>9, <1>10, <1>11, ParseType, ZenonT(40)
<1>13. q = parse(2) /\ parse(2) \notin {None, Error}
  BY <1>2, <1>8, SecondType
<1>15. ASSUME NEW k \in 1..Len(columns), \A j \in 1..Len(columns) : columns[j] = columns[k] <=> j = k
       PROVE  row[columns[k]] = Cell(columns[k], rows[2][k])
  <2>1. columns[k] \in Range(columns)
    BY DEF Range, columns, dtypes
  <2>2. (CHOOSE j \in 1..Len(columns) : columns[j] = columns[k]) = k
    BY <1>15
  <2>3. cells(rows[2])[columns[k]] = Cell(columns[k], rows[2][k])
    BY <2>1, <2>2 DEF cells
  <2> QED
    BY <1>7, <1>9, <2>3
<1>16. PICK T, S, C : T = TypeAt(version) /\ S = TimeAt(version) /\ C = CounterAt(version)
  OBVIOUS
<1>17. /\ T \in 1..Len(columns) /\ S \in 1..Len(columns) /\ C \in 1..Len(columns)
       /\ \A k \in 1..Len(columns) :
            /\ columns[k] = (IF version \in {v0_0, v1_0} THEN "type" ELSE "packet_type") <=> k = T
            /\ columns[k] = "timestamp" <=> k = S
            /\ columns[k] = "counter" <=> k = C
  BY <1>16, ColumnsAt DEF columns
<1>18. /\ type = Cell(IF version \in {v0_0, v1_0} THEN "type" ELSE "packet_type", rows[2][T])
       /\ row.timestamp = Cell("timestamp", rows[2][S]) /\ row.counter = Cell("counter", rows[2][C])
  <2>1. /\ columns[T] = (IF version \in {v0_0, v1_0} THEN "type" ELSE "packet_type")
        /\ columns[S] = "timestamp" /\ columns[C] = "counter"
    BY <1>17
  <2>2. row[columns[T]] = Cell(columns[T], rows[2][T]) /\ row[columns[S]] = Cell(columns[S], rows[2][S])
        /\ row[columns[C]] = Cell(columns[C], rows[2][C])
    BY <1>15, <1>17, <2>1
  <2> QED
    BY <2>1, <2>2
<1>19. /\ \/ rows[2][T] \in 0..3
          \/ p.kind \notin {"v1", "v2"} /\ rows[2][T] = packet_type(p)
       /\ p.kind = "timestamp" => rows[2][S] \in Times
       /\ p.kind = "message" => rows[2][C] = 0
  BY <1>3, <1>4, <1>16, RowPlain
<1>20. p.kind \notin {"v1", "v2"} => PlainPacket(p) /\ SoundPlain(p)
  BY Kinds
<1>21. (type = 4 => p.kind = "timestamp") /\ (type = 5 => p.kind = "message")
  <2>1. p.kind \notin {"v1", "v2"} => packet_type(p) \in 4..7 /\ (packet_type(p) = 4 <=> p.kind = "timestamp")
                                    /\ (packet_type(p) = 5 <=> p.kind = "message")
    BY <1>20 DEF packet_type, PlainPacket, PlainKinds
  <2>2. rows[2][T] \in 0..7
    BY <1>19, <2>1
  <2>3. type = rows[2][T]
    BY <1>18, <2>2, CellType
  <2> HIDE DEF type
  <2> QED
    BY <1>19, <2>1, <2>3
<1>22. ASSUME type = 4, q = TimestampPacket(row.timestamp) PROVE SoundPlain(q)
  <2>1. row.timestamp \in Times
    BY <1>18, <1>19, <1>21, <1>22, CellSame
  <2>2. PlainPacket(q) /\ q.kind = "timestamp" /\ q.timestamp = row.timestamp
    BY <1>22, MadePlain DEF TimestampPacket
  <2> QED
    BY <2>1, <2>2 DEF SoundPlain
<1>23. ASSUME type = 5, q = Message(row, file.messages) PROVE SoundPlain(q)
  <2>1. p.kind = "message" /\ row.counter = 0
    BY <1>18, <1>19, <1>21, <1>23, CellSame
  <2>2. file.messages[1] = IF p.message < TEXT THEN p.message ELSE TEXT
    BY <1>6, <1>14, <2>1
  <2>3. file.messages[1] \in Nat
    BY <1>20, <2>1, <2>2 DEF SoundPlain, TEXT
  <2>4. q = MessagePacket(file.messages[1], row.timestamp)
    BY <1>23, <2>1 DEF Message
  <2>5. PlainPacket(q) /\ q.kind = "message" /\ q.message = file.messages[1]
    BY <2>4, MadePlain DEF MessagePacket
  <2> QED
    BY <2>3, <2>5 DEF SoundPlain
<1>24. ASSUME PlainPacket(q), q.kind \in {"sync", "trigger"} PROVE SoundPlain(q)
  BY <1>24 DEF SoundPlain
<1> HIDE DEF parse, type
<1> QED
  BY <1>12, <1>13, <1>22, <1>23, <1>24 DEF ReadPlain

-----------------------------------------------------------------------------
(* The inductive invariant.                                                *)

PacketInv == GoodPacket(packet) /\ calls \in 0..MaxCalls

LEMMA InitInv == Init => PacketInv
<1> SUFFICES ASSUME Init PROVE PacketInv
  OBVIOUS
<1>1. ASSUME NEW p, p = [V1!NewPacket EXCEPT !.bits = [i \in 1..V1!size |-> 1]] PROVE Fresh1(p)
  <2>1. PICK ones \in Seq(Bit) : ones = [i \in 1..V1!size |-> 1] /\ Len(ones) = 54
    <3>1. [i \in 1..54 |-> 1] \in Seq(Bit) /\ Len([i \in 1..54 |-> 1]) = 54
      BY DEF Bit
    <3> QED
      BY <3>1 DEF V1!size
  <2>2. PICK new : new = V1!NewPacket
    OBVIOUS
  <2>3. p = [new EXCEPT !.bits = ones] /\ Fresh1(new)
    BY <1>1, <2>1, <2>2, New1
  <2>4. ones \in Seq(Bit) /\ Len(ones) >= 54
    <3>1. Len(ones) = 54
      BY <2>1, Zenon
    <3> QED
      BY <3>1
  <2>5. p.bits = ones /\ DOMAIN p = DOMAIN new
    BY <2>3 DEF Fresh1, Word1
  <2>6. p.kind = new.kind /\ p.key = new.key /\ p.io_group = new.io_group
        /\ p.io_channel = new.io_channel
    BY <2>3 DEF Fresh1, Word1
  <2> QED
    BY <2>3, <2>4, <2>5, <2>6 DEF Fresh1, Word1
<1>2. ASSUME NEW p, p = [V2!NewPacket EXCEPT !.bits = [i \in 1..V2!size |-> 1], !.receipt_timestamp = 200]
      PROVE  Fresh2(p)
  <2>1. PICK ones \in Seq(Bit) : ones = [i \in 1..V2!size |-> 1] /\ Len(ones) = 64
    <3>1. [i \in 1..64 |-> 1] \in Seq(Bit) /\ Len([i \in 1..64 |-> 1]) = 64
      BY DEF Bit
    <3> QED
      BY <3>1 DEF V2!size
  <2>2. PICK new : new = V2!NewPacket
    OBVIOUS
  <2>3. p = [new EXCEPT !.bits = ones, !.receipt_timestamp = 200] /\ Fresh2(new)
    BY <1>2, <2>1, <2>2, New2
  <2>4. ones \in Seq(Bit) /\ Len(ones) >= 64
    <3>1. Len(ones) = 64
      BY <2>1, Zenon
    <3> QED
      BY <3>1
  <2>5. p.bits = ones /\ DOMAIN p = DOMAIN new
    BY <2>3 DEF Fresh2, Word2
  <2>6. p.kind = new.kind /\ p.key = new.key /\ p.io_group = new.io_group
        /\ p.io_channel = new.io_channel /\ p.int = new.int
    BY <2>3 DEF Fresh2, Word2
  <2> QED
    BY <2>3, <2>4, <2>5, <2>6 DEF Fresh2, Word2
<1>3. ASSUME NEW p \in Plain PROVE SoundPlain(p)
  <2>1. PlainPacket(p)
    BY PlainAssumption DEF PlainPacket, PlainKinds, Io
  <2>2. p.kind = "timestamp" => p.timestamp \in Times
    BY PlainAssumption, SMT DEF Times
  <2> QED
    BY <2>1, <2>2, PlainAssumption DEF SoundPlain
<1>4. Fresh1(packet) \/ Fresh2(packet) \/ SoundPlain(packet)
  BY <1>1, <1>2, <1>3, New1, New2 DEF Init
<1>5. GoodPacket(packet)
  BY <1>4, UnkeptIsGood
<1> QED
  BY <1>5, MaxCallsAssumption DEF Init, PacketInv

\* A call that makes a good packet of one, or raises.
LEMMA DoesGood ==
  ASSUME PacketInv, NEW name, NEW what, NEW p, DoesWith(name, what, p), p = Error \/ GoodPacket(p)
  PROVE  PacketInv'
<1>1. calls' \in 0..MaxCalls
  BY MaxCallsAssumption DEF DoesWith, PacketInv
<1>2. CASE p = Error
  <2>1. packet' = packet
    BY <1>2 DEF DoesWith
  <2> QED
    BY <1>1, <2>1 DEF PacketInv, GoodPacket, Word1, Kept1, Word2, Kept2, PlainPacket, IsKey
<1>3. CASE p # Error
  <2>1. packet' = p
    BY <1>3 DEF DoesWith
  <2> QED
    BY <1>1, <1>3, <2>1 DEF PacketInv
<1> QED
  BY <1>2, <1>3

LEMMA SetFieldStep1 ==
  ASSUME PacketInv, NEW name \in Settable1, NEW value, SetField1(name, value) PROVE PacketInv'
<1>1. packet.kind = "v1" /\ Word1(packet) /\ Kept1(packet)
  BY Kinds DEF SetField1, PacketInv
<1>2. name \in Names1 \cup {"counter"}
  BY DEF Settable1, Names1
<1>3. PICK q : q = V1!Set(packet, name, value)
  OBVIOUS
<1>4. GoodPacket(q)
  BY <1>1, <1>2, <1>3, SetField1Kept DEF SetField1, GoodPacket
<1> QED
  BY <1>3, <1>4, DoesGood DEF SetField1, Does

LEMMA SetFieldStep2 ==
  ASSUME PacketInv, NEW name \in Settable2, NEW value, SetField2(name, value) PROVE PacketInv'
<1>1. packet.kind = "v2" /\ Word2(packet) /\ Kept2(packet)
  BY Kinds DEF SetField2, PacketInv
<1>2. name \in Names2 \ {"fifo_diagnostics_timestamp"}
  BY DEF Settable2, Names2
<1>3. PICK q : q = V2!Set(packet, name, value)
  OBVIOUS
<1>4. GoodPacket(q)
  BY <1>1, <1>2, <1>3, SetField2Kept DEF SetField2, GoodPacket
<1> QED
  BY <1>3, <1>4, DoesGood DEF SetField2, Does

LEMMA SetFlagStep ==
  ASSUME PacketInv, NEW name \in {"local_fifo", "shared_fifo"}, NEW bit \in 0..1, SetFlag(name, bit)
  PROVE  PacketInv'
<1>1. packet.kind = "v2" /\ Word2(packet) /\ Kept2(packet)
  BY Kinds DEF SetFlag, PacketInv
<1>2. PICK q \in {V2!SetHalf(packet, name, bit), V2!SetFull(packet, name, bit)} : Does(name, q)
  BY DEF SetFlag
<1>3. PICK value : q = V2!SetBits(packet, name, value) /\ BitsOf(value) <= V2!FieldWidth(name)
  BY <1>1, FlagIsField
<1>4. name \in Names2 \ {"chip_id"}
  BY DEF Names2
<1>5. GoodPacket(q)
  BY <1>1, <1>3, <1>4, KeptSetBits2 DEF GoodPacket
<1> QED
  BY <1>2, <1>5, DoesGood DEF Does

LEMMA SetNumberStep ==
  ASSUME PacketInv, NEW name \in {"io_group", "io_channel"}, NEW n \in IoNumbers \cup {None},
         SetNumber(name, n)
  PROVE  PacketInv'
<1>1. n \in Io
  BY IoNumbersAssumption DEF Io
<1>2. CASE packet.kind = "v1"
  <2>1. Fresh1(V1!SetIo(packet, name, n))
    BY <1>1, <1>2, Kinds, SetIo1 DEF PacketInv
  <2> QED
    BY <1>2, <2>1, UnkeptIsGood, DoesGood DEF SetNumber, Does
<1>3. CASE packet.kind = "v2"
  <2>1. Word2(packet) /\ Kept2(packet)
    BY <1>3, Kinds DEF PacketInv
  <2>2. PICK q : q = V2!SetIo(packet, name, n)
    OBVIOUS
  <2>3. Word2(q) /\ q.key = None /\ q.int = packet.int /\ q.bits = packet.bits
    BY <1>1, <2>1, <2>2, SetIo2
  <2>4. GoodPacket(q)
    BY <2>1, <2>3 DEF Kept2, GoodPacket, IsKey
  <2>5. Does(name, q)
    BY <1>3, <2>2 DEF SetNumber
  <2> QED
    BY <2>4, <2>5, DoesGood DEF Does
<1> QED
  BY <1>2, <1>3 DEF SetNumber, IsWord

LEMMA SetKeyStep ==
  ASSUME PacketInv, NEW parts \in Keys, SetKey(parts) PROVE PacketInv'
<1>1. parts # None /\ Key(parts) # Error => parts[1] \in Io /\ parts[2] \in Io
  BY GoodKey
<1>2. PICK q : q = AssignKey(parts)
  OBVIOUS
<1>3. q = Error \/ GoodPacket(q)
  <2>1. CASE parts # None /\ Key(parts) = Error
    BY <1>2, <2>1 DEF AssignKey
  <2>2. CASE packet.kind = "v1" /\ ~(parts # None /\ Key(parts) = Error)
    <3>1. q = V1!SetChipKey(packet, parts)
      BY <1>2, <2>2 DEF AssignKey
    <3>2. Word1(packet)
      BY <2>2, Kinds DEF PacketInv
    <3> QED
      BY <1>1, <2>2, <3>1, <3>2, SetChipKey1, UnkeptIsGood
  <2>3. CASE packet.kind = "v2" /\ ~(parts # None /\ Key(parts) = Error)
    <3>1. q = V2!SetChipKey(packet, parts)
      BY <1>2, <2>3 DEF AssignKey
    <3>2. Word2(packet)
      BY <2>3, Kinds DEF PacketInv
    <3> QED
      BY <1>1, <2>3, <3>1, <3>2, SetChipKey2, UnkeptIsGood
  <2>4. CASE packet.kind \notin {"v1", "v2"} /\ ~(parts # None /\ Key(parts) = Error)
    <3>1. PlainPacket(packet) /\ packet.kind \in {"sync", "trigger"}
      BY <2>4, Kinds DEF PacketInv, SetKey, PlainPacket, PlainKinds
    <3>2. CASE parts = None
      BY <1>2, <3>1, <3>2 DEF AssignKey
    <3>3. CASE parts # None
      <4>1. q = SetChipKey(packet, parts)
        BY <1>2, <2>4, <3>3 DEF AssignKey
      <4>2. q = [packet EXCEPT !.io_group = parts[1]]
        BY <4>1 DEF SetChipKey
      <4>3. parts[1] \in Io
        BY <1>1, <2>4, <3>3
      <4>4. DOMAIN q = DOMAIN packet /\ "io_group" \in DOMAIN packet /\ "kind" \in DOMAIN packet
        BY <3>1, <4>2, BlankType DEF PlainPacket
      <4>5. PlainPacket(q) /\ q.kind = packet.kind
        BY <3>1, <4>2, <4>3, <4>4 DEF PlainPacket
      <4> QED
        BY <3>1, <4>5 DEF GoodPacket, SoundPlain
    <3> QED
      BY <3>2, <3>3
  <2> QED
    BY <2>1, <2>2, <2>3, <2>4
<1> QED
  BY <1>2, <1>3, DoesGood DEF SetKey, Does

LEMMA ParityStep == ASSUME PacketInv, assign_parity PROVE PacketInv'
<1>1. CASE packet.kind = "v1"
  <2>1. Word1(packet) /\ Kept1(packet)
    BY <1>1, Kinds DEF PacketInv
  <2>2. PICK value : value = V1!compute_parity(packet) /\ BitsOf(value) <= V1!FieldWidth("parity")
    BY Parity1
  <2>3. PICK q : q = V1!Set(packet, "parity", value)
    OBVIOUS
  <2>4. q = V1!SetBits(packet, "parity", value)
    BY <2>3 DEF V1!Set
  <2>5. "parity" \in Names1 \cup {"counter"}
    BY DEF Names1
  <2>6. GoodPacket(q)
    BY <2>1, <2>2, <2>3, <2>5, SetField1Kept DEF GoodPacket
  <2>7. Does("parity", q)
    BY <1>1, <2>2, <2>4 DEF assign_parity
  <2> QED
    BY <2>6, <2>7, DoesGood DEF Does
<1>2. CASE packet.kind = "v2"
  <2>1. Word2(packet) /\ Kept2(packet)
    BY <1>2, Kinds DEF PacketInv
  <2>2. PICK value : value = V2!compute_parity(packet) /\ BitsOf(value) <= V2!FieldWidth("parity")
    BY Parity2
  <2>3. PICK q : q = V2!SetBits(packet, "parity", value)
    OBVIOUS
  <2>4. "parity" \in Names2 \ {"chip_id"}
    BY DEF Names2
  <2>5. GoodPacket(q)
    BY <2>1, <2>2, <2>3, <2>4, KeptSetBits2 DEF GoodPacket
  <2>6. Does("parity", q)
    BY <1>2, <2>2, <2>3 DEF assign_parity
  <2> QED
    BY <2>5, <2>6, DoesGood DEF Does
<1> QED
  BY <1>1, <1>2 DEF assign_parity

LEMMA ReadStep ==
  ASSUME PacketInv, EnableDiagnostics \/ ReadInt \/ ReadChipKey PROVE PacketInv'
<1>1. CASE EnableDiagnostics
  <2>1. GoodPacket([packet EXCEPT !.diagnostics = TRUE])
    BY <1>1, Kinds, Rest2 DEF EnableDiagnostics, PacketInv, GoodPacket
  <2> QED
    BY <1>1, <2>1, DoesGood DEF EnableDiagnostics, Does
<1>2. CASE ReadInt
  <2>1. GoodPacket(V2!as_int(packet))
    BY <1>2, Kinds, Rest2 DEF ReadInt, PacketInv, GoodPacket
  <2> QED
    BY <1>2, <2>1, DoesGood DEF ReadInt, Does
<1>3. CASE ReadChipKey /\ packet.kind = "v1"
  <2>1. GoodPacket(V1!ReadKey(packet))
    BY <1>3, Kinds, ReadKey1 DEF PacketInv, GoodPacket
  <2> QED
    BY <1>3, <2>1, DoesGood DEF ReadChipKey, Does
<1>4. CASE ReadChipKey /\ packet.kind = "v2"
  <2>1. GoodPacket(V2!ReadKey(packet))
    BY <1>4, Kinds, ReadKey2 DEF PacketInv, GoodPacket
  <2>2. Does("read", V2!ReadKey(packet))
    BY <1>4 DEF ReadChipKey
  <2> QED
    BY <2>1, <2>2, DoesGood DEF Does
<1> QED
  BY <1>1, <1>2, <1>3, <1>4 DEF ReadChipKey, IsWord

LEMMA DictStep == ASSUME PacketInv, ViaDict PROVE PacketInv'
<1>1. PICK d : d = exported(packet)
  OBVIOUS
<1>2. PICK q : q = Imported(packet.kind, d)
  OBVIOUS
<1>3. q = Error \/ GoodPacket(q)
  <2>1. CASE d = Error
    BY <1>2, <2>1 DEF Imported
  <2>2. CASE d # Error /\ packet.kind = "v1"
    <3>1. q = V1!from_dict(d) /\ d = V1!export(packet)
      BY <1>1, <1>2, <2>2 DEF Imported, exported
    <3>2. Word1(packet) /\ Kept1(packet)
      BY <2>2, Kinds DEF PacketInv
    <3> QED
      BY <2>2, <3>1, <3>2, ViaDict1, UnkeptIsGood
  <2>3. CASE d # Error /\ packet.kind = "v2"
    <3>1. q = V2!from_dict(d) /\ d = V2!export(packet)
      BY <1>1, <1>2, <2>3 DEF Imported, exported
    <3>2. Word2(packet) /\ Kept2(packet)
      BY <2>3, Kinds DEF PacketInv
    <3> QED
      BY <2>3, <3>1, <3>2, ViaDict2, UnkeptIsGood
  <2>4. CASE d # Error /\ packet.kind \notin {"v1", "v2"}
    <3>1. q = from_dict(packet.kind, d) /\ d = export(packet)
      BY <1>1, <1>2, <2>4 DEF Imported, exported
    <3>2. SoundPlain(packet)
      BY <2>4, Kinds DEF PacketInv
    <3> QED
      BY <3>1, <3>2, DictRestoresPlain, UnkeptIsGood
  <2> QED
    BY <2>1, <2>2, <2>3, <2>4
<1> QED
  BY <1>1, <1>2, <1>3, DoesGood DEF ViaDict, Does

LEMMA FileStep ==
  ASSUME PacketInv, NEW opening \in Openings, ViaFile(opening[1], opening[2], opening[3])
  PROVE  PacketInv'
<1>1. opening[1] \in Versions
  BY DEF Openings, Versions
<1>2. PICK q : q = Second(Loaded(to_file(opening[1], <<TimestampPacket(1), packet>>, opening[3]), opening[2]))
  OBVIOUS
<1>3. DoesWith("file", opening[1], q) /\ Compatible(opening[1], packet)
  BY <1>2 DEF ViaFile
<1>4. q = Error \/ GoodPacket(q)
  BY <1>1, <1>2, <1>3, ViaFileType, UnkeptIsGood DEF PacketInv
<1> QED
  BY <1>3, <1>4, DoesGood

LEMMA NextInv == PacketInv /\ [Next]_vars => PacketInv'
<1> SUFFICES ASSUME PacketInv, [Next]_vars PROVE PacketInv'
  OBVIOUS
<1>1. ASSUME NEW name \in Settable1, NEW value \in Samples, SetField1(name, value) PROVE PacketInv'
  BY <1>1, SetFieldStep1
<1>2. ASSUME NEW name \in Settable2, NEW value \in Samples, SetField2(name, value) PROVE PacketInv'
  BY <1>2, SetFieldStep2
<1>3. ASSUME NEW name \in {"local_fifo", "shared_fifo"}, NEW bit \in 0..1, SetFlag(name, bit)
      PROVE  PacketInv'
  BY <1>3, SetFlagStep
<1>4. ASSUME NEW name \in {"io_group", "io_channel"}, NEW n \in IoNumbers \cup {None}, SetNumber(name, n)
      PROVE  PacketInv'
  BY <1>4, SetNumberStep
<1>5. ASSUME NEW parts \in Keys, SetKey(parts) PROVE PacketInv'
  BY <1>5, SetKeyStep
<1>6. CASE assign_parity
  BY <1>6, ParityStep
<1>7. CASE EnableDiagnostics \/ ReadInt \/ ReadChipKey
  BY <1>7, ReadStep
<1>8. CASE ViaDict
  BY <1>8, DictStep
<1>9. ASSUME NEW opening \in Openings, ViaFile(opening[1], opening[2], opening[3]) PROVE PacketInv'
  BY <1>9, FileStep
<1>10. CASE UNCHANGED vars
  BY <1>10 DEF vars, PacketInv, GoodPacket, Word1, Kept1, Word2, Kept2, PlainPacket, IsKey
<1> QED
  BY <1>1, <1>2, <1>3, <1>4, <1>5, <1>6, <1>7, <1>8, <1>9, <1>10 DEF Next

LEMMA InvHolds == Spec => []PacketInv
<1> QED
  BY InitInv, NextInv, PTL DEF Spec

\* Whatever is called on it, a packet stays one of its kinds: a word has only
\* bits, not fewer than its size, and io numbers that are numbers or absent.
THEOREM PacketTypeCorrect == Spec => []TypeOK
<1>1. PacketInv => TypeOK
  <2> SUFFICES ASSUME PacketInv, IsWord(packet)
               PROVE /\ \A i \in 1..Len(packet.bits) : packet.bits[i] \in 0..1
                     /\ Len(packet.bits) >= Size(packet)
                     /\ {packet.io_group, packet.io_channel} \subseteq Nat \cup {None}
    BY DEF PacketInv, TypeOK
  <2>1. CASE packet.kind = "v1"
    <3>1. Word1(packet)
      BY <2>1, Kinds DEF PacketInv
    <3> QED
      BY <2>1, <3>1 DEF Word1, Io, Size, V1!size, Bit
  <2>2. CASE packet.kind = "v2"
    <3>1. Word2(packet)
      BY <2>2, Kinds DEF PacketInv
    <3> QED
      BY <2>2, <3>1 DEF Word2, Io, Size, V2!size, Bit
  <2> QED
    BY <2>1, <2>2 DEF IsWord
<1> QED
  BY <1>1, InvHolds, PTL

\* The word as an integer and the chip key that a packet has kept are those
\* it would compute now, after any setters, dictionaries and files.
THEOREM KeptCorrect == Spec => []KeptIsCurrent
<1>1. PacketInv => KeptIsCurrent
  <2> SUFFICES ASSUME PacketInv, IsWord(packet) PROVE KeptIsCurrent
    BY DEF KeptIsCurrent
  <2>1. CASE packet.kind = "v1"
    <3>1. Kept1(packet)
      BY <2>1, Kinds DEF PacketInv
    <3> QED
      BY <2>1, <3>1 DEF KeptIsCurrent, Kept1, ChipId, IsKey
  <2>2. CASE packet.kind = "v2"
    <3>1. Kept2(packet)
      BY <2>2, Kinds DEF PacketInv
    <3> QED
      BY <2>2, <3>1 DEF KeptIsCurrent, Kept2, ChipId, IsKey
  <2> QED
    BY <2>1, <2>2 DEF IsWord
<1> QED
  BY <1>1, InvHolds, PTL

-----------------------------------------------------------------------------
(* Fields of the same type of word do not overlap.                         *)

LEMMA Apart1 ==
  ASSUME NEW p, NEW name \in TypeFields1(p), NEW other \in TypeFields1(p), name # other
  PROVE  \A a \in Places1(name), b \in Places1(other) : Apart(a, b)
<1> DEFINE test == Base1 \cup {"counter"}
           data == Base1 \cup Data1
           config == Base1 \cup Config1
<1>1. ASSUME NEW n \in test, NEW m \in test, n # m
      PROVE  \A a \in Places1(n), b \in Places1(m) : Apart(a, b)
  BY <1>1 DEF Base1, Places1, Apart, Halves1, V1!Slice
<1>2. ASSUME NEW n \in data, NEW m \in data, n # m
      PROVE  \A a \in Places1(n), b \in Places1(m) : Apart(a, b)
  BY <1>2 DEF Base1, Data1, Places1, Apart, V1!Slice
<1>3. ASSUME NEW n \in config, NEW m \in config, n # m
      PROVE  \A a \in Places1(n), b \in Places1(m) : Apart(a, b)
  BY <1>3 DEF Base1, Config1, Places1, Apart, V1!Slice
<1>4. TypeFields1(p) \in {test, data, config}
  BY DEF TypeFields1
<1> QED
  BY <1>1, <1>2, <1>3, <1>4

LEMMA Apart2 ==
  ASSUME NEW p, NEW name \in TypeFields2(p), NEW other \in TypeFields2(p), name # other
  PROVE  Apart(Place2(p, name), Place2(p, other))
<1>1. ASSUME NEW n \in Base2 \cup Config2, NEW m \in Base2 \cup Config2, n # m
      PROVE  Apart(Place2(p, n), Place2(p, m))
  BY <1>1 DEF Base2, Config2, Place2, Apart, V2!Slice
<1>2. ASSUME ~p.diagnostics, NEW n \in Base2 \cup Data2, NEW m \in Base2 \cup Data2, n # m
      PROVE  Apart(Place2(p, n), Place2(p, m))
  BY <1>2 DEF Base2, Data2, Place2, V2!TimestampField, Apart, V2!Slice
<1>3. ASSUME p.diagnostics, NEW n \in Base2 \cup Data2 \cup Events2,
             NEW m \in Base2 \cup Data2 \cup Events2, n # m
      PROVE  Apart(Place2(p, n), Place2(p, m))
  BY <1>3 DEF Base2, Data2, Events2, Place2, V2!TimestampField, Apart, V2!Slice
<1>4. \/ TypeFields2(p) \subseteq Base2 \cup Config2
      \/ ~p.diagnostics /\ TypeFields2(p) \subseteq Base2 \cup Data2
      \/ p.diagnostics /\ TypeFields2(p) \subseteq Base2 \cup Data2 \cup Events2
  BY DEF TypeFields2
<1> QED
  BY <1>1, <1>2, <1>3, <1>4

\* A setter, of a value that fits, leaves the fields elsewhere as they were.
LEMMA SetIndependent1 ==
  ASSUME NEW p, Word1(p), NEW name \in Names1 \cup {"counter"}, NEW value,
         BitsOf(value) <= V1!FieldWidth(name), NEW other \in Names1 \cup {"counter"},
         \A a \in Places1(name), b \in Places1(other) : Apart(a, b)
  PROVE  V1!Get(V1!Set(p, name, value), other) = V1!Get(p, other)
<1>1. CASE name = "chipid"
  <2>1. PICK q : q = [p EXCEPT !.key = None]
    OBVIOUS
  <2>2. Word1(q) /\ q.bits = p.bits
    BY <2>1 DEF Word1
  <2>3. V1!Set(p, name, value) = V1!SetBits(q, name, value)
    BY <1>1, <2>1 DEF V1!Set, V1!SetChipId
  <2>4. V1!Get(V1!SetBits(q, name, value), other) = V1!Get(q, other)
    BY <2>2, SetElsewhere1
  <2>5. V1!Get(q, other) = V1!Get(p, other)
    BY <2>2 DEF V1!Get
  <2> QED
    BY <2>3, <2>4, <2>5
<1>2. CASE name # "chipid"
  <2>1. V1!Set(p, name, value) = V1!SetBits(p, name, value)
    BY <1>2 DEF V1!Set, Names1
  <2> QED
    BY <2>1, SetElsewhere1
<1> QED
  BY <1>1, <1>2

LEMMA SetChipIdIndependent2 ==
  ASSUME NEW p, Word2(p), p.int # None => p.int = p.bits, NEW value,
         BitsOf(value) <= V2!FieldWidth("chip_id"), NEW other \in Names2,
         Apart(V2!Slice["chip_id"], Place2(p, other))
  PROVE  V2!Get(V2!SetChipId(p, value), other) = V2!Get(p, other)
<1>1. PICK q : q = [p EXCEPT !.key = None]
  OBVIOUS
<1>2. Word2(q) /\ q.bits = p.bits /\ q.int = p.int /\ q.diagnostics = p.diagnostics
  BY <1>1 DEF Word2
<1>3. V2!SetChipId(p, value) = V2!SetBits(q, "chip_id", value)
  BY <1>1 DEF V2!SetChipId
<1>4. Place2(q, other) = Place2(p, other)
  BY <1>2 DEF Place2, V2!TimestampField
<1>5. "chip_id" \in Names2
  BY DEF Names2
<1>6. V2!Get(V2!SetBits(q, "chip_id", value), other) = V2!Get(q, other)
  BY <1>2, <1>4, <1>5, SetElsewhere2
<1>7. V2!Get(q, other) = V2!Get(p, other)
  BY <1>2 DEF V2!Get, V2!Word, V2!TimestampField
<1> QED
  BY <1>3, <1>6, <1>7

LEMMA SetIndependent2 ==
  ASSUME NEW p, Word2(p), Kept2(p), NEW name \in Names2 \ {"fifo_diagnostics_timestamp"}, NEW value,
         BitsOf(value) <= V2!FieldWidth(IF name = "timestamp" THEN V2!TimestampField(p) ELSE name),
         NEW other \in Names2, Apart(Place2(p, name), Place2(p, other))
  PROVE  V2!Get(V2!Set(p, name, value), other) = V2!Get(p, other)
<1>0. p.int # None => p.int = p.bits
  BY DEF Kept2, IsKey
<1>1. CASE name = "chip_id"
  <2>1. V2!Set(p, name, value) = V2!SetChipId(p, value)
    BY <1>1 DEF V2!Set
  <2>2. Apart(V2!Slice["chip_id"], Place2(p, other)) /\ BitsOf(value) <= V2!FieldWidth("chip_id")
    BY <1>1 DEF Place2
  <2> QED
    BY <1>0, <2>1, <2>2, SetChipIdIndependent2
<1>2. CASE name = "timestamp"
  <2>1. V2!Set(p, name, value) = V2!SetBits(p, V2!TimestampField(p), value)
    BY <1>2 DEF V2!Set
  <2>2. V2!TimestampField(p) \in Names2
    BY TimestampName DEF Names2
  <2>3. Apart(V2!Slice[V2!TimestampField(p)], Place2(p, other))
    BY <1>2 DEF Place2
  <2>4. BitsOf(value) <= V2!FieldWidth(V2!TimestampField(p))
    BY <1>2
  <2>5. V2!Get(V2!SetBits(p, V2!TimestampField(p), value), other) = V2!Get(p, other)
    BY <1>0, <2>2, <2>3, <2>4, SetElsewhere2
  <2> QED
    BY <2>1, <2>5
<1>3. CASE name \notin {"chip_id", "timestamp"}
  <2>1. \/ V2!Set(p, name, value) = V2!SetBits(p, name, value)
        \/ V2!Set(p, name, value) = [p EXCEPT !.int = None]
    BY <1>3 DEF V2!Set, V2!SetEvents, Names2
  <2>2. Apart(V2!Slice[name], Place2(p, other)) /\ BitsOf(value) <= V2!FieldWidth(name)
    BY <1>3 DEF Place2
  <2>3. V2!Get(V2!SetBits(p, name, value), other) = V2!Get(p, other)
    BY <1>0, <2>2, SetElsewhere2
  <2>4. PICK q : q = [p EXCEPT !.int = None]
    OBVIOUS
  <2>5. q.bits = p.bits /\ q.int = None /\ q.diagnostics = p.diagnostics
    BY <2>4 DEF Word2
  <2>6. V2!Word(q) = V2!Word(p)
    BY <1>0, <2>5 DEF V2!Word
  <2>7. V2!Get(q, other) = V2!Get(p, other)
    BY <2>5, <2>6 DEF V2!Get, V2!TimestampField
  <2> QED
    BY <2>1, <2>3, <2>4, <2>7
<1> QED
  BY <1>1, <1>2, <1>3

\* Assigning a key, of which the third part is a chip's id.
LEMMA KeyIndependent1 ==
  ASSUME NEW p, Word1(p), NEW key, key = None \/ Key(key) # Error,
         NEW other \in TypeFields1(p), other # "chipid"
  PROVE  V1!Get(V1!SetChipKey(p, key), other) = V1!Get(p, other)
<1>1. PICK q : q = [p EXCEPT !.key = None, !.io_group = None, !.io_channel = None]
  OBVIOUS
<1>2. Word1(q) /\ q.bits = p.bits
  BY <1>1 DEF Word1, Io
<1>3. V1!Get(q, other) = V1!Get(p, other)
  BY <1>2 DEF V1!Get
<1>4. CASE key = None
  BY <1>1, <1>3, <1>4 DEF V1!SetChipKey
<1>5. CASE key # None
  <2>1. PICK r : r = [q EXCEPT !.io_group = key[1], !.io_channel = key[2]]
    OBVIOUS
  <2>2. key[1] \in Io /\ key[2] \in Io /\ key[3] \in 0..255
    <3>1. Len(key) = 3 /\ \A i \in 1..Len(key) : key[i] \in 0..255
      BY <1>5 DEF Key
    <3> QED
      BY <1>5, <3>1, GoodKey
  <2>3. Word1(r) /\ r.bits = p.bits
    BY <1>2, <2>1, <2>2 DEF Word1
  <2>4. V1!SetChipKey(p, key) = V1!SetChipId(r, key[3])
    BY <1>1, <1>5, <2>1 DEF V1!SetChipKey
  <2>5. V1!SetChipId(r, key[3]) = V1!Set(r, "chipid", key[3])
    BY DEF V1!Set
  <2>6. BitsOf(key[3]) <= V1!FieldWidth("chipid")
    <3>1. V1!FieldWidth("chipid") = 8
      BY SameBits1 DEF V1!FieldWidth, Width, V1!Slice
    <3> QED
      BY <2>2, <3>1, BitsOfSmall
  <2>7. "chipid" \in TypeFields1(p) /\ "chipid" \in Names1
    BY DEF TypeFields1, Base1, Names1
  <2>8. other \in Names1 \cup {"counter"}
    BY TypeFieldsAreFields1
  <2>9. \A a \in Places1("chipid"), b \in Places1(other) : Apart(a, b)
    BY <2>7, Apart1
  <2>10. V1!Get(V1!Set(r, "chipid", key[3]), other) = V1!Get(r, other)
    BY <2>3, <2>6, <2>7, <2>8, <2>9, SetIndependent1
  <2>11. V1!Get(r, other) = V1!Get(p, other)
    BY <2>3 DEF V1!Get
  <2> QED
    BY <2>4, <2>5, <2>10, <2>11
<1> QED
  BY <1>4, <1>5

LEMMA KeyIndependent2 ==
  ASSUME NEW p, Word2(p), Kept2(p), NEW key, key = None \/ Key(key) # Error,
         NEW other \in TypeFields2(p), other # "chip_id"
  PROVE  V2!Get(V2!SetChipKey(p, key), other) = V2!Get(p, other)
<1>1. PICK q : q = [p EXCEPT !.int = None, !.key = None]
  OBVIOUS
<1>2. Word2(q) /\ q.bits = p.bits /\ q.int = None /\ q.diagnostics = p.diagnostics
  BY <1>1 DEF Word2
<1>3. ASSUME NEW r, r.bits = p.bits, r.int = None, r.diagnostics = p.diagnostics
      PROVE  V2!Get(r, other) = V2!Get(p, other)
  <2>1. V2!Word(r) = V2!Word(p)
    BY <1>3 DEF V2!Word, Kept2, IsKey
  <2> QED
    BY <1>3, <2>1 DEF V2!Get, V2!TimestampField
<1>4. CASE key = None
  <2>1. PICK r : r = [q EXCEPT !.io_group = None, !.io_channel = None]
    OBVIOUS
  <2>2. V2!SetChipKey(p, key) = r
    BY <1>1, <1>4, <2>1 DEF V2!SetChipKey
  <2>3. r.bits = p.bits /\ r.int = None /\ r.diagnostics = p.diagnostics
    BY <1>2, <2>1 DEF Word2
  <2> QED
    BY <1>3, <2>2, <2>3
<1>5. CASE key # None
  <2>1. PICK r : r = [q EXCEPT !.io_group = key[1], !.io_channel = key[2]]
    OBVIOUS
  <2>2. key[1] \in Io /\ key[2] \in Io /\ key[3] \in 0..255
    <3>1. Len(key) = 3 /\ \A i \in 1..Len(key) : key[i] \in 0..255
      BY <1>5 DEF Key
    <3> QED
      BY <1>5, <3>1, GoodKey
  <2>3. Word2(r) /\ r.bits = p.bits /\ r.int = None /\ r.diagnostics = p.diagnostics
    BY <1>2, <2>1, <2>2 DEF Word2
  <2>4. V2!SetChipKey(p, key) = V2!SetChipId(r, key[3])
    BY <1>1, <1>5, <2>1 DEF V2!SetChipKey
  <2>5. BitsOf(key[3]) <= V2!FieldWidth("chip_id")
    <3>1. "chip_id" \in Names2 /\ V2!Slice["chip_id"][2] - V2!Slice["chip_id"][1] = 8
      BY DEF Names2, V2!Slice
    <3>2. V2!FieldWidth("chip_id") = 8
      BY <3>1, Slices2
    <3> QED
      BY <2>2, <3>2, BitsOfSmall
  <2>6. "chip_id" \in TypeFields2(p) /\ other \in Names2
    BY TypeFieldsAreFields2 DEF TypeFields2, Base2
  <2>7. Apart(Place2(p, "chip_id"), Place2(p, other))
    BY <2>6, Apart2
  <2>8. Apart(V2!Slice["chip_id"], Place2(r, other))
    BY <2>3, <2>7 DEF Place2, V2!TimestampField
  <2>9. V2!Get(V2!SetChipId(r, key[3]), other) = V2!Get(r, other)
    BY <2>3, <2>5, <2>6, <2>8, SetChipIdIndependent2
  <2> QED
    BY <1>3, <2>3, <2>4, <2>9
<1> QED
  BY <1>4, <1>5

-----------------------------------------------------------------------------
(* What a call leaves alone.                                               *)

Chip(p)         == IF p.kind = "v1" THEN "chipid" ELSE "chip_id"
NamedBy(name, p) == IF name = "chip_key" THEN Chip(p) ELSE name

\* The fields of p but the one that is named are the same in q.
OthersSame(p, q, named) ==
  LET fields == {Fields(p)[k] : k \in 1..Len(Fields(p))}
  IN named \in fields => \A other \in fields \ {named} : Get(q, other) = Get(p, other)

LEMMA FieldSet ==
  ASSUME NEW p
  PROVE  LET fields == {Fields(p)[k] : k \in 1..Len(Fields(p))}
         IN /\ p.kind = "v1" => fields \subseteq TypeFields1(p)
            /\ p.kind # "v1" => fields \subseteq TypeFields2(p)
<1>1. CASE p.kind = "v1"
  <2>1. PICK s \in Seq(TypeFields1(p)) : s = Fields(p)
    BY <1>1, FieldsType1 DEF Fields
  <2>2. \A k \in 1..Len(s) : s[k] \in TypeFields1(p)
    OBVIOUS
  <2> QED
    BY <1>1, <2>1, <2>2
<1>2. CASE p.kind # "v1"
  <2>1. PICK s \in Seq(TypeFields2(p)) : s = Fields(p)
    BY <1>2, FieldsType2 DEF Fields
  <2>2. \A k \in 1..Len(s) : s[k] \in TypeFields2(p)
    OBVIOUS
  <2> QED
    BY <1>2, <2>1, <2>2
<1> QED
  BY <1>1, <1>2

\* Names of calls that are no field's.
LEMMA NoField ==
  ASSUME NEW p, NEW q, NEW named,
         named \in {"raised", "io_group", "io_channel", "diagnostics", "read", "dict", "file"}
  PROVE  OthersSame(p, q, named)
<1>1. named \notin Names1 \cup {"counter"} /\ named \notin Names2
  BY DEF Names1, Names2
<1>2. named \notin TypeFields1(p) /\ named \notin TypeFields2(p)
  BY <1>1, TypeFieldsAreFields1, TypeFieldsAreFields2
<1> QED
  BY <1>2, FieldSet DEF OthersSame

LEMMA Others1 ==
  ASSUME NEW p, p.kind = "v1", NEW q, q.kind = "v1", NEW named,
         named \in TypeFields1(p) =>
           \A other \in TypeFields1(p) \ {named} : V1!Get(q, other) = V1!Get(p, other)
  PROVE  OthersSame(p, q, named)
<1>1. \A other : Get(q, other) = V1!Get(q, other) /\ Get(p, other) = V1!Get(p, other)
  BY DEF Get
<1> QED
  BY <1>1, FieldSet DEF OthersSame

LEMMA Others2 ==
  ASSUME NEW p, p.kind = "v2", NEW q, q.kind = "v2", NEW named,
         named \in TypeFields2(p) =>
           \A other \in TypeFields2(p) \ {named} : V2!Get(q, other) = V2!Get(p, other)
  PROVE  OthersSame(p, q, named)
<1>1. \A other : Get(q, other) = V2!Get(q, other) /\ Get(p, other) = V2!Get(p, other)
  BY DEF Get
<1> QED
  BY <1>1, FieldSet DEF OthersSame

\* A call on a word, of a name, that leaves the fields it does not name.
LEMMA DoesOthers ==
  ASSUME NEW name, NEW what, NEW q, DoesWith(name, what, q),
         q # Error => OthersSame(packet, q, NamedBy(name, packet))
  PROVE  OthersSame(packet, packet', NamedBy(call'[1], packet))
<1>1. CASE q = Error
  <2>1. call'[1] = "raised"
    BY <1>1 DEF DoesWith
  <2> QED
    BY <2>1, NoField DEF NamedBy
<1>2. CASE q # Error
  <2>1. call'[1] = name /\ packet' = q
    BY <1>2 DEF DoesWith
  <2> QED
    BY <1>2, <2>1
<1> QED
  BY <1>1, <1>2

LEMMA SetFieldOthers1 ==
  ASSUME PacketInv, NEW name \in Names1 \cup {"counter"}, NEW value, packet.kind = "v1",
         BitsOf(value) <= V1!FieldWidth(name), Does(name, V1!Set(packet, name, value))
  PROVE  OthersSame(packet, packet', NamedBy(call'[1], packet))
<1>1. Word1(packet) /\ Kept1(packet)
  BY Kinds DEF PacketInv
<1>2. PICK q : q = V1!Set(packet, name, value)
  OBVIOUS
<1>3. q.kind = "v1"
  BY <1>1, <1>2, SetField1Kept DEF Word1
<1>4. ASSUME name \in TypeFields1(packet), NEW other \in TypeFields1(packet) \ {name}
      PROVE  V1!Get(q, other) = V1!Get(packet, other)
  <2>1. other \in Names1 \cup {"counter"}
    BY TypeFieldsAreFields1
  <2>2. \A a \in Places1(name), b \in Places1(other) : Apart(a, b)
    BY <1>4, Apart1
  <2> QED
    BY <1>1, <1>2, <2>1, <2>2, SetIndependent1
<1>5. OthersSame(packet, q, name)
  BY <1>3, <1>4, Others1
<1>6. NamedBy(name, packet) = name
  BY DEF NamedBy, Names1
<1> QED
  BY <1>2, <1>5, <1>6, DoesOthers DEF Does

LEMMA SetFieldOthers2 ==
  ASSUME PacketInv, NEW name \in Names2 \ {"fifo_diagnostics_timestamp"}, NEW value, packet.kind = "v2",
         BitsOf(value) <= V2!FieldWidth(IF name = "timestamp" THEN V2!TimestampField(packet) ELSE name),
         Does(name, V2!Set(packet, name, value))
  PROVE  OthersSame(packet, packet', NamedBy(call'[1], packet))
<1>1. Word2(packet) /\ Kept2(packet)
  BY Kinds DEF PacketInv
<1>2. PICK q : q = V2!Set(packet, name, value)
  OBVIOUS
<1>3. q.kind = "v2"
  BY <1>1, <1>2, SetField2Kept DEF Word2
<1>4. ASSUME name \in TypeFields2(packet), NEW other \in TypeFields2(packet) \ {name}
      PROVE  V2!Get(q, other) = V2!Get(packet, other)
  <2>1. other \in Names2
    BY TypeFieldsAreFields2
  <2>2. Apart(Place2(packet, name), Place2(packet, other))
    BY <1>4, Apart2
  <2> QED
    BY <1>1, <1>2, <2>1, <2>2, SetIndependent2
<1>5. OthersSame(packet, q, name)
  BY <1>3, <1>4, Others2
<1>6. NamedBy(name, packet) = name
  BY DEF NamedBy, Names2
<1> QED
  BY <1>2, <1>5, <1>6, DoesOthers DEF Does

\* A setter that writes one field's place, as those of flags and parity do.
LEMMA SetBitsOthers2 ==
  ASSUME PacketInv, packet.kind = "v2", NEW value,
         NEW name \in {"local_fifo", "shared_fifo", "parity"}, BitsOf(value) <= V2!FieldWidth(name),
         Does(name, V2!SetBits(packet, name, value))
  PROVE  OthersSame(packet, packet', NamedBy(call'[1], packet))
<1>1. V2!Set(packet, name, value) = V2!SetBits(packet, name, value)
  BY DEF V2!Set
<1>2. name \in Names2 \ {"fifo_diagnostics_timestamp"} /\ name # "timestamp"
  BY DEF Names2
<1> QED
  BY <1>1, <1>2, SetFieldOthers2

LEMMA KeyOthers ==
  ASSUME PacketInv, NEW parts, SetKey(parts), IsWord(packet)
  PROVE  OthersSame(packet, packet', NamedBy(call'[1], packet))
<1>1. PICK q : q = AssignKey(parts)
  OBVIOUS
<1>2. ASSUME q # Error PROVE OthersSame(packet, q, Chip(packet))
  <2>1. parts = None \/ Key(parts) # Error
    BY <1>1, <1>2 DEF AssignKey
  <2>2. parts # None => parts[1] \in Io /\ parts[2] \in Io
    BY <2>1, GoodKey
  <2>3. CASE packet.kind = "v1"
    <3>1. q = V1!SetChipKey(packet, parts)
      BY <1>1, <2>1, <2>3 DEF AssignKey
    <3>2. Word1(packet)
      BY <2>3, Kinds DEF PacketInv
    <3>3. q.kind = "v1"
      BY <2>2, <3>1, <3>2, SetChipKey1 DEF Fresh1, Word1
    <3>4. \A other \in TypeFields1(packet) \ {"chipid"} : V1!Get(q, other) = V1!Get(packet, other)
      BY <2>1, <3>1, <3>2, KeyIndependent1
    <3> QED
      BY <2>3, <3>3, <3>4, Others1 DEF Chip
  <2>4. CASE packet.kind = "v2"
    <3>1. q = V2!SetChipKey(packet, parts)
      BY <1>1, <2>1, <2>4 DEF AssignKey
    <3>2. Word2(packet) /\ Kept2(packet)
      BY <2>4, Kinds DEF PacketInv
    <3>3. q.kind = "v2"
      BY <2>2, <3>1, <3>2, SetChipKey2 DEF Fresh2, Word2
    <3>4. \A other \in TypeFields2(packet) \ {"chip_id"} : V2!Get(q, other) = V2!Get(packet, other)
      BY <2>1, <3>1, <3>2, KeyIndependent2
    <3> QED
      BY <2>4, <3>3, <3>4, Others2 DEF Chip
  <2> QED
    BY <2>3, <2>4 DEF IsWord
<1>3. NamedBy("chip_key", packet) = Chip(packet)
  BY DEF NamedBy
<1> QED
  BY <1>1, <1>2, <1>3, DoesOthers DEF SetKey, Does

LEMMA NextOthers ==
  ASSUME PacketInv, Next, IsWord(packet)
  PROVE  OthersSame(packet, packet', NamedBy(call'[1], packet))
<1> DEFINE Goal == OthersSame(packet, packet', NamedBy(call'[1], packet))
<1>1. ASSUME NEW name \in Settable1, NEW value \in Samples, SetField1(name, value) PROVE Goal
  <2>1. name \in Names1 \cup {"counter"}
    BY DEF Settable1, Names1
  <2> QED
    BY <1>1, <2>1, SetFieldOthers1 DEF SetField1
<1>2. ASSUME NEW name \in Settable2, NEW value \in Samples, SetField2(name, value) PROVE Goal
  <2>1. name \in Names2 \ {"fifo_diagnostics_timestamp"}
    BY DEF Settable2, Names2
  <2> QED
    BY <1>2, <2>1, SetFieldOthers2 DEF SetField2
<1>3. ASSUME NEW name \in {"local_fifo", "shared_fifo"}, NEW bit \in 0..1, SetFlag(name, bit) PROVE Goal
  <2>1. packet.kind = "v2" /\ Word2(packet)
    BY <1>3, Kinds DEF SetFlag, PacketInv
  <2>2. PICK q \in {V2!SetHalf(packet, name, bit), V2!SetFull(packet, name, bit)} : Does(name, q)
    BY <1>3 DEF SetFlag
  <2>3. PICK value : q = V2!SetBits(packet, name, value) /\ BitsOf(value) <= V2!FieldWidth(name)
    BY <2>1, FlagIsField
  <2> QED
    BY <2>1, <2>2, <2>3, SetBitsOthers2
<1>4. ASSUME NEW name, NEW what, NEW q, DoesWith(name, what, q),
             name \in {"io_group", "io_channel", "diagnostics", "read", "dict", "file"}
      PROVE  Goal
  <2>1. NamedBy(name, packet) = name
    BY <1>4 DEF NamedBy
  <2>2. OthersSame(packet, q, name)
    BY <1>4, NoField
  <2> QED
    BY <1>4, <2>1, <2>2, DoesOthers
<1>5. ASSUME NEW name \in {"io_group", "io_channel"}, NEW n, SetNumber(name, n) PROVE Goal
  BY <1>4, <1>5 DEF SetNumber, Does
<1>6. ASSUME NEW parts \in Keys, SetKey(parts) PROVE Goal
  BY <1>6, KeyOthers
<1>7. CASE assign_parity
  <2>1. CASE packet.kind = "v1"
    <3>1. V1!Set(packet, "parity", V1!compute_parity(packet)) = V1!SetBits(packet, "parity", V1!compute_parity(packet))
      BY DEF V1!Set
    <3>2. Does("parity", V1!Set(packet, "parity", V1!compute_parity(packet))) /\ "parity" \in Names1 \cup {"counter"}
      BY <1>7, <2>1, <3>1 DEF assign_parity, Names1
    <3> QED
      BY <2>1, <3>2, Parity1, SetFieldOthers1
  <2>2. CASE packet.kind = "v2"
    <3>1. Does("parity", V2!SetBits(packet, "parity", V2!compute_parity(packet)))
      BY <1>7, <2>2 DEF assign_parity
    <3> QED
      BY <2>2, <3>1, Parity2, SetBitsOthers2
  <2> QED
    BY <2>1, <2>2 DEF IsWord
<1>8. CASE EnableDiagnostics \/ ReadInt \/ ReadChipKey \/ ViaDict
  BY <1>4, <1>8 DEF EnableDiagnostics, ReadInt, ReadChipKey, ViaDict, Does
<1>9. ASSUME NEW opening \in Openings, ViaFile(opening[1], opening[2], opening[3]) PROVE Goal
  BY <1>4, <1>9 DEF ViaFile
<1> HIDE DEF Goal
<1> QED
  BY <1>1, <1>2, <1>3, <1>5, <1>6, <1>7, <1>8, <1>9 DEF Next, Goal

\* Setting a field of a word, by its name, its flags, its parity or the chip's
\* key, changes no other field that words of its type have.
THEOREM FieldsCorrect == Spec => FieldsAreIndependent
<1> DEFINE Step ==
      IsWord(packet) =>
        LET fields == {Fields(packet)[k] : k \in 1..Len(Fields(packet))}
            chip   == IF packet.kind = "v1" THEN "chipid" ELSE "chip_id"
            named  == IF call'[1] = "chip_key" THEN chip ELSE call'[1]
        IN named \in fields =>
             \A other \in fields \ {named} : Get(packet', other) = Get(packet, other)
<1>1. PacketInv /\ [Next]_vars => [Step]_vars
  <2> SUFFICES ASSUME PacketInv, Next, IsWord(packet) PROVE Step
    OBVIOUS
  <2>1. OthersSame(packet, packet', NamedBy(call'[1], packet))
    BY NextOthers
  <2> QED
    BY <2>1 DEF OthersSame, NamedBy, Chip
<1>2. Spec => []PacketInv /\ [][Next]_vars
  BY InvHolds, PTL DEF Spec
<1> QED
  BY <1>1, <1>2, PTL DEF FieldsAreIndependent

-----------------------------------------------------------------------------
(* Dictionaries bring packets back.                                        *)

\* What the dictionary of a packet of any kind makes exports the same.
LEMMA DictRestores ==
  ASSUME NEW p, GoodPacket(p), ~(p.kind = "message" /\ p.message = TEXT),
         NEW q, q = Imported(p.kind, exported(p)), q # Error
  PROVE  Exported(q, Rounded(p)) = Exported(p, Rounded(p))
<1>1. exported(p) # Error
  BY DEF Imported
<1>2. CASE p.kind = "v1"
  <2>1. Word1(p) /\ Kept1(p)
    BY <1>2, Kinds
  <2>2. exported(p) = V1!export(p) /\ q = V1!from_dict(V1!export(p))
    BY <1>1, <1>2 DEF Imported, exported
  <2> QED
    BY <1>1, <2>1, <2>2, DictRestores1
<1>3. CASE p.kind = "v2"
  <2>1. Word2(p) /\ Kept2(p)
    BY <1>3, Kinds
  <2>2. exported(p) = V2!export(p) /\ q = V2!from_dict(V2!export(p))
    BY <1>1, <1>3 DEF Imported, exported
  <2>3. exported(q) = exported(p)
    BY <1>1, <2>1, <2>2, DictRestores2
  <2> QED
    BY <2>3 DEF Exported
<1>4. CASE p.kind \notin {"v1", "v2"}
  <2>1. SoundPlain(p)
    BY <1>4, Kinds
  <2>2. exported(p) = export(p) /\ q = from_dict(p.kind, export(p))
    BY <1>1, <1>4 DEF Imported, exported
  <2>3. q.kind = p.kind /\ export(q) = export(p)
    BY <2>1, <2>2, DictRestoresPlain
  <2>4. exported(q) = exported(p)
    BY <1>4, <2>2, <2>3 DEF exported
  <2> QED
    BY <2>4 DEF Exported
<1> QED
  BY <1>2, <1>3, <1>4

\* Only one action is a dictionary's.
LEMMA OnlyDict ==
  ASSUME PacketInv, Next, call'[1] = "dict"
  PROVE  ViaDict
<1>1. ASSUME NEW name, NEW what, NEW q, DoesWith(name, what, q) PROVE name = "dict"
  BY <1>1 DEF DoesWith
<1>2. ASSUME NEW name \in Settable1, NEW value, SetField1(name, value) PROVE FALSE
  BY <1>1, <1>2 DEF SetField1, Does, Settable1
<1>3. ASSUME NEW name \in Settable2, NEW value, SetField2(name, value) PROVE FALSE
  BY <1>1, <1>3 DEF SetField2, Does, Settable2
<1>4. ASSUME NEW name \in {"local_fifo", "shared_fifo"}, NEW bit, SetFlag(name, bit) PROVE FALSE
  BY <1>1, <1>4 DEF SetFlag, Does
<1>5. ASSUME NEW name \in {"io_group", "io_channel"}, NEW n, SetNumber(name, n) PROVE FALSE
  BY <1>1, <1>5 DEF SetNumber, Does
<1>6. ASSUME NEW parts, SetKey(parts) PROVE FALSE
  BY <1>1, <1>6 DEF SetKey, Does
<1>7. ~(assign_parity \/ EnableDiagnostics \/ ReadInt \/ ReadChipKey)
  BY <1>1 DEF assign_parity, EnableDiagnostics, ReadInt, ReadChipKey, Does
<1>8. ASSUME NEW version, NEW asked, NEW configs, ViaFile(version, asked, configs) PROVE FALSE
  BY <1>1, <1>8 DEF ViaFile
<1> QED
  BY <1>2, <1>3, <1>4, <1>5, <1>6, <1>7, <1>8 DEF Next

\* A packet of any kind, whatever was called on it before, that is exported to
\* a dictionary and made of it again exports the same entries: all of them but
\* for a v1 data word with an odd value, where the bits differ by one, and a
\* message that fills its place, which loses a character.
THEOREM DictCorrect == Spec => DictRestoresPacket
<1> DEFINE Step ==
      call'[1] = "dict" /\ ~(packet.kind = "message" /\ packet.message = TEXT) =>
        Exported(packet', Rounded(packet)) = Exported(packet, Rounded(packet))
<1>1. PacketInv /\ [Next]_vars => [Step]_vars
  <2> SUFFICES ASSUME PacketInv, Next, call'[1] = "dict",
                      ~(packet.kind = "message" /\ packet.message = TEXT)
               PROVE  Exported(packet', Rounded(packet)) = Exported(packet, Rounded(packet))
    OBVIOUS
  <2>1. PICK q : q = Imported(packet.kind, exported(packet))
    OBVIOUS
  <2>2. q # Error /\ packet' = q
    BY <2>1, OnlyDict DEF ViaDict, Does, DoesWith
  <2>3. GoodPacket(packet)
    BY DEF PacketInv
  <2>4. Exported(q, Rounded(packet)) = Exported(packet, Rounded(packet))
    BY <2>1, <2>2, <2>3, DictRestores
  <2> QED
    BY <2>2, <2>4
<1>2. Spec => []PacketInv /\ [][Next]_vars
  BY InvHolds, PTL DEF Spec
<1> QED
  BY <1>1, <1>2, PTL DEF DictRestoresPacket
=============================================================================
