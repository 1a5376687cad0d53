-------------------------- MODULE ConversionProofs --------------------------
(***************************************************************************)
(* What the conversions of TaskSession and LlmAnswer make of texts of any  *)
(* length.  Where an induction over a length is needed it is made with a   *)
(* set: a set of numbers that has 0 and the successors of its members has  *)
(* them all, since the least one missing would be a successor of a member. *)
(***************************************************************************)
EXTENDS TaskSession, LlmAnswer, SequenceTheorems, FiniteSetTheorems, WellFoundedInduction, TLAPS

(* Least and greatest numbers *)

Less == {p \in Nat \X Nat : p[1] < p[2]}

LEMMA LessIsWellFounded == IsWellFoundedOn(Less, Nat)
<1>1. OpToRel(<, Nat) = Less
    BY Zenon DEF OpToRel, Less
<1> QED BY Zenon, <1>1, NatLessThanWellFounded

LEMMA MinIs ==
    ASSUME NEW S \in SUBSET Nat, S # {}
    PROVE  Min(S) \in S /\ \A y \in S : Min(S) <= y
<1>1. PICK x \in S : \A y \in S : ~(<<y, x>> \in Less)
    BY LessIsWellFounded, WFMin
<1>2. \A y \in S : x <= y
  <2> SUFFICES ASSUME NEW y \in S, ~(x <= y) PROVE FALSE
      OBVIOUS
  <2>1. x \in Nat /\ y \in Nat /\ y < x
      OBVIOUS
  <2>2. <<y, x>> \in Less
      BY <2>1 DEF Less
  <2> QED BY <1>1, <2>2
<1> QED BY <1>2 DEF Min

\* Induction over the numbers, with a set for the predicate.
LEMMA ByInduction ==
    ASSUME NEW S, 0 \in S, \A n \in Nat : n \in S => n + 1 \in S
    PROVE  Nat \subseteq S
<1> DEFINE Rest == {n \in Nat : n \notin S}
<1> SUFFICES ASSUME Rest # {} PROVE FALSE
    OBVIOUS
<1>1. Min(Rest) \in Rest /\ \A y \in Rest : Min(Rest) <= y
    BY MinIs
<1> DEFINE m == Min(Rest)
<1> HIDE DEF m
<1>2. m \in Rest /\ \A y \in Rest : m <= y
    BY <1>1 DEF m
<1>3. m - 1 \in Nat /\ m - 1 \in S
    BY <1>2
<1> QED BY <1>2, <1>3

\* A set of numbers that has a bound has a greatest one: the least distance to it.
LEMMA MaxIs ==
    ASSUME NEW S \in SUBSET Nat, S # {}, NEW n \in Nat, \A y \in S : y <= n
    PROVE  Max(S) \in S /\ \A y \in S : y <= Max(S)
<1> DEFINE D == {d \in Nat : n - d \in S}
<1>1. D # {}
  <2>1. PICK x \in S : TRUE
      OBVIOUS
  <2> QED BY <2>1, n - x \in D
<1>2. Min(D) \in D /\ \A y \in D : Min(D) <= y
  <2> HIDE DEF D
  <2>1. D \in SUBSET Nat
      BY DEF D
  <2> QED BY <1>1, <2>1, MinIs
<1>3. \A y \in S : n - y \in D
    OBVIOUS
<1>4. n - Min(D) \in S /\ \A y \in S : y <= n - Min(D)
    BY <1>2, <1>3
<1>5. \E x \in S : \A y \in S : x >= y
    BY <1>4
<1> QED BY <1>5 DEF Max

LEMMA LeastIsMin ==
    ASSUME NEW S \in SUBSET Nat, NEW m \in S, \A y \in S : m <= y
    PROVE  Min(S) = m
<1>1. \A x \in S : (\A y \in S : x <= y) => x = m
  <2> SUFFICES ASSUME NEW x \in S, \A y \in S : x <= y PROVE x = m
      OBVIOUS
  <2>1. x \in Nat /\ m \in Nat /\ x <= m /\ m <= x
      OBVIOUS
  <2> QED BY <2>1
<1> QED BY <1>1 DEF Min

LEMMA GreatestIsMax ==
    ASSUME NEW S \in SUBSET Nat, NEW m \in S, \A y \in S : y <= m
    PROVE  Max(S) = m
<1>1. \A x \in S : (\A y \in S : x >= y) => x = m
  <2> SUFFICES ASSUME NEW x \in S, \A y \in S : x >= y PROVE x = m
      OBVIOUS
  <2>1. x \in Nat /\ m \in Nat /\ x <= m /\ m <= x
      OBVIOUS
  <2> QED BY <2>1
<1>2. \A y \in S : m >= y
    OBVIOUS
<1> QED BY <1>1, <1>2 DEF Max

LEMMA AppendIs ==
    ASSUME NEW S, NEW s \in Seq(S), NEW e \in S
    PROVE  /\ Append(s, e) \in Seq(S)
           /\ Len(s) \in Nat
           /\ Len(Append(s, e)) = Len(s) + 1
           /\ \A k \in 1..Len(s) : Append(s, e)[k] = s[k]
           /\ Append(s, e)[Len(s) + 1] = e
OBVIOUS

-----------------------------------------------------------------------------
(* Strings without the blanks around them *)

LEMMA StripOfBlanks ==
    ASSUME NEW S, NEW s \in Seq(S), \A k \in 1..Len(s) : s[k] \in Blanks
    PROVE  Strip(s) = <<>>
<1>1. {i \in DOMAIN s : s[i] \notin Blanks} = {}
    OBVIOUS
<1> QED BY <1>1 DEF Strip

LEMMA StripIs ==
    ASSUME NEW S, NEW s \in Seq(S), NEW a \in 1..Len(s), NEW b \in a..Len(s),
           s[a] \notin Blanks, s[b] \notin Blanks,
           \A k \in 1..Len(s) : k < a \/ k > b => s[k] \in Blanks
    PROVE  Strip(s) = SubSeq(s, a, b)
<1> DEFINE solid == {i \in DOMAIN s : s[i] \notin Blanks}
<1>1. /\ solid \in SUBSET Nat /\ a \in solid /\ b \in solid
      /\ (\A i \in solid : a <= i) /\ (\A i \in solid : i <= b)
    OBVIOUS
<1>2. Min(solid) = a /\ Max(solid) = b
  <2> HIDE DEF solid
  <2> QED BY <1>1, LeastIsMin, GreatestIsMax
<1>3. solid # {}
    BY <1>1
<1> QED BY <1>2, <1>3 DEF Strip

LEMMA StripCases ==
    ASSUME NEW S, NEW s \in Seq(S)
    PROVE  \/ \A k \in 1..Len(s) : s[k] \in Blanks
           \/ \E a \in 1..Len(s) : \E b \in a..Len(s) :
                /\ s[a] \notin Blanks /\ s[b] \notin Blanks
                /\ \A k \in 1..Len(s) : k < a \/ k > b => s[k] \in Blanks
<1> DEFINE solid == {i \in DOMAIN s : s[i] \notin Blanks}
<1> SUFFICES ASSUME solid # {}
             PROVE  \E a \in 1..Len(s) : \E b \in a..Len(s) :
                       /\ s[a] \notin Blanks /\ s[b] \notin Blanks
                       /\ \A k \in 1..Len(s) : k < a \/ k > b => s[k] \in Blanks
    OBVIOUS
<1>1. solid \in SUBSET Nat /\ Len(s) \in Nat /\ \A i \in solid : i <= Len(s)
    OBVIOUS
<1>2. PICK a \in solid : \A i \in solid : a <= i
  <2> HIDE DEF solid
  <2> QED BY <1>1, MinIs
<1>3. PICK b \in solid : \A i \in solid : i <= b
  <2> HIDE DEF solid
  <2> QED BY <1>1, MaxIs
<1>4. a \in 1..Len(s) /\ b \in a..Len(s)
    BY <1>2, <1>3
<1>5. s[a] \notin Blanks /\ s[b] \notin Blanks
    OBVIOUS
<1>6. \A k \in 1..Len(s) : k < a \/ k > b => s[k] \in Blanks
  <2> SUFFICES ASSUME NEW k \in 1..Len(s), s[k] \notin Blanks PROVE ~(k < a \/ k > b)
      OBVIOUS
  <2>1. k \in solid
      OBVIOUS
  <2>2. k \in Nat /\ a \in Nat /\ b \in Nat /\ a <= k /\ k <= b
      BY <1>1, <1>2, <1>3, <2>1
  <2> QED BY <2>2
<1> QED BY Zenon, <1>4, <1>5, <1>6

\* Blanks at the ends that go first make no difference: u is s from o on.
LEMMA StripWithin ==
    ASSUME NEW S, NEW s \in Seq(S), NEW u \in Seq(S), NEW o \in Nat, o + Len(u) <= Len(s),
           \A k \in 1..Len(u) : u[k] = s[o + k],
           \A k \in 1..Len(s) : k <= o \/ k > o + Len(u) => s[k] \in Blanks
    PROVE  Strip(u) = Strip(s)
<1>1. Len(s) \in Nat /\ Len(u) \in Nat
    OBVIOUS
<1>2. CASE \A k \in 1..Len(s) : s[k] \in Blanks
  <2>1. \A k \in 1..Len(u) : u[k] \in Blanks
    <3> SUFFICES ASSUME NEW k \in 1..Len(u) PROVE u[k] \in Blanks
        OBVIOUS
    <3>1. o + k \in 1..Len(s)
        BY <1>1
    <3> QED BY <1>2, <3>1
  <2> QED BY <1>2, <2>1, StripOfBlanks
<1>3. ASSUME NEW x \in 1..Len(s), NEW y \in x..Len(s),
             s[x] \notin Blanks, s[y] \notin Blanks,
             \A k \in 1..Len(s) : k < x \/ k > y => s[k] \in Blanks
      PROVE  Strip(u) = Strip(s)
  <2> DEFINE a == x - o
             b == y - o
  <2>1. x \in Nat /\ y \in Nat /\ 1 <= x /\ x <= y /\ y <= Len(s) /\ y \in 1..Len(s)
      BY <1>1, <1>3
  <2>2. o < x /\ y <= o + Len(u)
      BY <1>1, <1>3, <2>1
  <2>3. a \in 1..Len(u) /\ b \in a..Len(u) /\ a \in Nat /\ b \in Nat
      BY <1>1, <2>1, <2>2
  <2>4. u[a] = s[x] /\ u[b] = s[y]
    <3>1. o + a = x /\ o + b = y /\ b \in 1..Len(u)
        BY <1>1, <2>1, <2>3
    <3> QED BY <2>3, <3>1
  <2>5. ASSUME NEW k \in 1..Len(u), k < a \/ k > b PROVE u[k] \in Blanks
    <3>1. o + k \in 1..Len(s) /\ (o + k < x \/ o + k > y)
        BY <1>1, <2>1, <2>5
    <3> QED BY <1>3, <2>5, <3>1
  <2> HIDE DEF a, b
  <2>6. Strip(u) = SubSeq(u, a, b)
      BY <1>3, <2>3, <2>4, <2>5, StripIs
  <2>7. Strip(s) = SubSeq(s, x, y)
      BY <1>3, StripIs
  <2>8. SubSeq(u, a, b) = SubSeq(s, x, y)
    <3> DEFINE v == SubSeq(u, a, b)
               w == SubSeq(s, x, y)
    <3>1. /\ v \in Seq(S) /\ Len(v) = b - a + 1
          /\ \A k \in 1..b - a + 1 : v[k] = u[a + k - 1]
        BY <1>1, <2>3
    <3>2. /\ w \in Seq(S) /\ Len(w) = y - x + 1
          /\ \A k \in 1..y - x + 1 : w[k] = s[x + k - 1]
        BY <1>1, <2>1
    <3>3. b - a = y - x
        BY <2>1 DEF a, b
    <3>4. ASSUME NEW k \in 1..y - x + 1 PROVE v[k] = w[k]
      <4>1. a + k - 1 \in 1..Len(u) /\ o + (a + k - 1) = x + k - 1
        <5>1. a = x - o
            BY DEF a
        <5> QED BY <1>1, <2>1, <2>2, <2>3, <3>3, <5>1
      <4> HIDE DEF v, w
      <4> QED BY <3>1, <3>2, <3>3, <3>4, <4>1
    <3> HIDE DEF v, w
    <3>5. v = w
        BY <3>1, <3>2, <3>3, <3>4, SeqEqual
    <3> QED BY <3>5 DEF v, w
  <2> QED BY <2>6, <2>7, <2>8
<1> QED BY <1>2, <1>3, StripCases

LEMMA TailIs ==
    ASSUME NEW S, NEW s \in Seq(S), NEW n \in 0..Len(s)
    PROVE  /\ SubSeq(s, n + 1, Len(s)) \in Seq(S)
           /\ Len(SubSeq(s, n + 1, Len(s))) = Len(s) - n
           /\ \A k \in 1..Len(s) - n : SubSeq(s, n + 1, Len(s))[k] = s[n + k]
<1>1. Len(s) \in Nat /\ n \in Nat /\ n <= Len(s)
    OBVIOUS
<1>2. \A k \in n + 1..Len(s) : s[k] \in S
    BY <1>1
<1>3. /\ SubSeq(s, n + 1, Len(s)) \in Seq(S)
      /\ Len(SubSeq(s, n + 1, Len(s))) = IF n + 1 <= Len(s) THEN Len(s) - (n + 1) + 1 ELSE 0
      /\ \A k \in 1..Len(s) - (n + 1) + 1 : SubSeq(s, n + 1, Len(s))[k] = s[(n + 1) + k - 1]
    BY <1>1, <1>2, SubSeqProperties
<1> DEFINE t == SubSeq(s, n + 1, Len(s))
<1> HIDE DEF t
<1>4. ASSUME NEW k \in 1..Len(s) - n PROVE t[k] = s[n + k]
  <2>1. k \in 1..Len(s) - (n + 1) + 1 /\ (n + 1) + k - 1 = n + k
      BY <1>1, <1>4
  <2> QED BY <1>3, <2>1 DEF t
<1> QED BY <1>1, <1>3, <1>4 DEF t

\* A part with "=" is the same name and value whether or not it is stripped first.
LEMMA PairOfStripped ==
    ASSUME NEW S, NEW s \in Seq(S), NEW n \in 1..Len(s), s[n] = Equals,
           \A k \in 1..n - 1 : s[k] # Equals
    PROVE  /\ EqualsIn(Strip(s)) # {} /\ EqualsIn(s) # {}
           /\ Pair(Strip(s)) = Pair(s)
           /\ Pair(s) = CutAt(s, n)
<1>1. Len(s) \in Nat /\ n \in Nat /\ 1 <= n /\ n <= Len(s) /\ DOMAIN s = 1..Len(s)
    OBVIOUS
<1>2. Equals \notin Blanks
    BY DEF Equals, Blanks, Space, Newline
<1>0. PICK a \in 1..Len(s) : \E b \in a..Len(s) :
          /\ s[a] \notin Blanks /\ s[b] \notin Blanks
          /\ \A k \in 1..Len(s) : k < a \/ k > b => s[k] \in Blanks
    BY <1>2, StripCases
<1>3. PICK b \in a..Len(s) :
          /\ s[a] \notin Blanks /\ s[b] \notin Blanks
          /\ \A k \in 1..Len(s) : k < a \/ k > b => s[k] \in Blanks
    BY <1>0
<1>4. a \in Nat /\ b \in Nat /\ 1 <= a /\ a <= n /\ n <= b /\ b <= Len(s)
    BY <1>1, <1>2, <1>3
<1> DEFINE q == SubSeq(s, a, b)
           m == n - a + 1
<1>5. Strip(s) = q
    BY <1>3, StripIs
<1>6. /\ q \in Seq(S) /\ Len(q) = b - a + 1 /\ DOMAIN q = 1..b - a + 1
      /\ \A k \in 1..b - a + 1 : q[k] = s[a + k - 1]
    BY <1>1, <1>4
<1>7. m \in 1..b - a + 1 /\ a + m - 1 = n
    BY <1>4
<1> HIDE DEF q, m
<1>8. q[m] = Equals
    BY <1>6, <1>7
<1>9. ASSUME NEW k \in 1..m - 1 PROVE k \in 1..b - a + 1 /\ q[k] # Equals
  <2>1. k \in 1..b - a + 1 /\ a + k - 1 \in 1..n - 1
      BY <1>4, <1>7, <1>9
  <2> QED BY <1>6, <2>1
<1>10. Min(EqualsIn(q)) = m /\ EqualsIn(q) # {}
  <2>1. EqualsIn(q) \in SUBSET Nat /\ m \in EqualsIn(q)
      BY <1>6, <1>7, <1>8 DEF EqualsIn
  <2>2. \A k \in EqualsIn(q) : m <= k
    <3> SUFFICES ASSUME NEW k \in EqualsIn(q), ~(m <= k) PROVE FALSE
        OBVIOUS
    <3>1. k \in 1..b - a + 1 /\ q[k] = Equals
        BY <1>6 DEF EqualsIn
    <3>2. k \in 1..m - 1
        BY <1>7, <3>1
    <3> QED BY <1>9, <3>1, <3>2
  <2> QED BY <2>1, <2>2, LeastIsMin
<1>11. Min(EqualsIn(s)) = n /\ EqualsIn(s) # {}
  <2>1. EqualsIn(s) \in SUBSET Nat /\ n \in EqualsIn(s)
      BY <1>1 DEF EqualsIn
  <2>2. \A k \in EqualsIn(s) : n <= k
    <3> SUFFICES ASSUME NEW k \in EqualsIn(s), ~(n <= k) PROVE FALSE
        OBVIOUS
    <3>1. k \in 1..Len(s) /\ s[k] = Equals
        BY <1>1 DEF EqualsIn
    <3>2. k \in 1..n - 1
        BY <1>1, <3>1
    <3> QED BY <3>1, <3>2
  <2> QED BY <2>1, <2>2, LeastIsMin
<1>12. Strip(SubSeq(q, 1, m - 1)) = Strip(SubSeq(s, 1, n - 1))
  <2> DEFINE u == SubSeq(q, 1, m - 1)
             t == SubSeq(s, 1, n - 1)
             o == a - 1
  <2>1. /\ u \in Seq(S) /\ Len(u) = m - 1
        /\ \A k \in 1..m - 1 : u[k] = q[k]
      BY <1>4, <1>6, <1>7
  <2>2. /\ t \in Seq(S) /\ Len(t) = n - 1
        /\ \A k \in 1..n - 1 : t[k] = s[k]
      BY <1>1
  <2> HIDE DEF u, t
  <2>3. o \in Nat /\ o + Len(u) <= Len(t) /\ o + Len(u) = n - 1
      BY <1>4, <1>7, <2>1, <2>2
  <2>4. ASSUME NEW k \in 1..Len(u) PROVE u[k] = t[o + k]
    <3>1. k \in 1..m - 1 /\ k \in Nat /\ 1 <= k /\ m = n - a + 1
        BY <2>1, <2>4 DEF m
    <3>2. k \in 1..b - a + 1 /\ o + k \in 1..n - 1 /\ a + k - 1 = o + k
        BY <1>4, <3>1
    <3> QED BY <1>6, <2>1, <2>2, <3>1, <3>2
  <2>5. ASSUME NEW k \in 1..Len(t), k <= o \/ k > o + Len(u) PROVE t[k] \in Blanks
    <3>1. k \in 1..n - 1 /\ k \in 1..Len(s) /\ k < a
        BY <1>1, <1>4, <2>2, <2>3, <2>5
    <3> QED BY <1>3, <2>2, <3>1
  <2> HIDE DEF o
  <2>6. Strip(u) = Strip(t)
      BY <2>1, <2>2, <2>3, <2>4, <2>5, StripWithin
  <2> QED BY <2>6 DEF u, t
<1>13. Strip(SubSeq(q, m + 1, Len(q))) = Strip(SubSeq(s, n + 1, Len(s)))
  <2> DEFINE u == SubSeq(q, m + 1, Len(q))
             t == SubSeq(s, n + 1, Len(s))
  <2>1. /\ u \in Seq(S) /\ Len(u) = b - n
        /\ \A k \in 1..b - n : u[k] = q[m + k]
    <3>1. Len(q) \in Nat /\ m \in Nat /\ Len(q) - m = b - n /\ b - n \in Nat /\ m <= Len(q)
        BY <1>4, <1>6, <1>7 DEF m
    <3>2. q \in Seq(S) /\ m \in 0..Len(q)
        BY <1>6, <3>1
    <3>3. /\ u \in Seq(S) /\ Len(u) = Len(q) - m
          /\ \A k \in 1..Len(q) - m : u[k] = q[m + k]
        BY Zenon, <3>2, TailIs
    <3> HIDE DEF u
    <3> QED BY <3>1, <3>3
  <2>2. /\ t \in Seq(S) /\ Len(t) = Len(s) - n
        /\ \A k \in 1..Len(s) - n : t[k] = s[n + k]
    <3>1. n \in 0..Len(s)
        BY <1>1
    <3> QED BY Zenon, <3>1, TailIs
  <2> HIDE DEF u, t
  <2>3. 0 \in Nat /\ 0 + Len(u) <= Len(t) /\ 0 + Len(u) = b - n
      BY <1>1, <1>4, <2>1, <2>2
  <2>4. ASSUME NEW k \in 1..Len(u) PROVE u[k] = t[0 + k]
    <3>1. k \in 1..b - n /\ k \in Nat /\ 1 <= k /\ k <= b - n /\ 0 + k = k
        BY <1>1, <1>4, <2>1, <2>4
    <3>2. m = n - a + 1
        BY DEF m
    <3>3. k \in 1..Len(s) - n
        BY <1>1, <1>4, <3>1
    <3>4. m + k \in 1..b - a + 1 /\ a + (m + k) - 1 = n + k
        BY <1>1, <1>4, <3>1, <3>2
    <3>5. u[k] = q[m + k] /\ t[k] = s[n + k]
        BY <2>1, <2>2, <3>1, <3>3
    <3>6. q[m + k] = s[a + (m + k) - 1]
        BY <1>6, <3>4
    <3> QED BY <3>1, <3>4, <3>5, <3>6
  <2>5. ASSUME NEW k \in 1..Len(t), k <= 0 \/ k > 0 + Len(u) PROVE t[k] \in Blanks
    <3>1. k \in 1..Len(s) - n /\ n + k \in 1..Len(s) /\ n + k > b
        BY <1>1, <1>4, <2>2, <2>3, <2>5
    <3> QED BY <1>3, <2>2, <3>1
  <2>6. Strip(u) = Strip(t)
      BY <2>1, <2>2, <2>3, <2>4, <2>5, StripWithin
  <2> QED BY <2>6 DEF u, t
<1>14. Pair(q) = CutAt(s, n) /\ Pair(s) = CutAt(s, n)
    BY <1>10, <1>11, <1>12, <1>13 DEF Pair, CutAt
<1> QED BY <1>5, <1>10, <1>11, <1>14

-----------------------------------------------------------------------------
(* The parts of a text *)

\* A number above the others comes last.
LEMMA InOrderAppends ==
    ASSUME NEW I \in SUBSET Nat, NEW n \in Nat, \A i \in I : i < n,
           InOrder(I) \in Seq(I)
    PROVE  /\ InOrder(I \cup {n}) = Append(InOrder(I), n)
           /\ InOrder(I \cup {n}) \in Seq(I \cup {n})
<1> DEFINE J == I \cup {n}
           c == Cardinality(I)
           Upto(K, i) == {j \in K : j <= i}
<1>1. IsFiniteSet(I) /\ c \in Nat
  <2>0. \A i \in I : i <= n
      OBVIOUS
  <2>1. IsFiniteSet(I)
      BY Zenon, <2>0, FS_BoundedSetOfNaturals
  <2> QED BY <2>1, FS_CardinalityType
<1>2. Cardinality(J) = c + 1
  <2>1. n \notin I
      OBVIOUS
  <2> QED BY <1>1, <2>1, FS_AddElement
<1>3. \A i \in I : Upto(J, i) = Upto(I, i)
    OBVIOUS
<1>4. Cardinality(Upto(J, n)) = c + 1
  <2>1. \A j \in J : j <= n
      OBVIOUS
  <2>2. Upto(J, n) = J
      BY <2>1
  <2> QED BY <1>2, <2>2
<1>5. ASSUME NEW i \in I PROVE Cardinality(Upto(I, i)) \in Nat /\ Cardinality(Upto(I, i)) <= c
  <2>1. Upto(I, i) \in SUBSET I
      OBVIOUS
  <2>2. IsFiniteSet(Upto(I, i)) /\ Cardinality(Upto(I, i)) <= c
      BY <1>1, <2>1, FS_Subset
  <2> QED BY <2>2, FS_CardinalityType
<1> HIDE DEF Upto
<1> DEFINE Nth(K, k) == CHOOSE i \in K : Cardinality(Upto(K, i)) = k
<1>6. ASSUME NEW k \in 1..c PROVE Nth(J, k) = Nth(I, k)
  <2>1. \A i : i \in J /\ Cardinality(Upto(J, i)) = k <=> i \in I /\ Cardinality(Upto(I, i)) = k
    <3>1. k # c + 1
        BY <1>1, <1>6
    <3> QED BY <1>3, <1>4, <3>1
  <2> QED BY Zenon, <2>1
<1>7. Nth(J, c + 1) = n
  <2>1. \A i : i \in J /\ Cardinality(Upto(J, i)) = c + 1 <=> i = n
    <3>1. ASSUME NEW i \in I PROVE Cardinality(Upto(J, i)) # c + 1
      <4>1. Cardinality(Upto(J, i)) = Cardinality(Upto(I, i))
          BY <1>3
      <4>2. Cardinality(Upto(I, i)) \in Nat /\ Cardinality(Upto(I, i)) <= c
          BY <1>5
      <4> HIDE DEF c, J
      <4> QED BY <1>1, <4>1, <4>2
    <3> QED BY <1>4, <3>1
  <2> QED BY <2>1
<1>8. InOrder(I) = [k \in 1..c |-> Nth(I, k)]
    BY DEF InOrder, Upto
<1>9. InOrder(J) = [k \in 1..c + 1 |-> Nth(J, k)]
    BY <1>2 DEF InOrder, Upto
<1> HIDE DEF Nth, c
<1> DEFINE s == Append(InOrder(I), n)
<1>10. /\ s \in Seq(J) /\ Len(InOrder(I)) = c /\ s = [k \in 1..c + 1 |-> s[k]]
       /\ \A k \in 1..c : s[k] = InOrder(I)[k]
       /\ s[c + 1] = n
  <2>1. InOrder(I) \in Seq(J) /\ n \in J
      BY SeqMonotonic
  <2>2. Len(InOrder(I)) = c
      BY <1>1, <1>8
  <2> HIDE DEF J
  <2>3. /\ s \in Seq(J) /\ Len(s) = c + 1
        /\ \A k \in 1..c : s[k] = InOrder(I)[k]
        /\ s[c + 1] = n
      BY <2>1, <2>2, AppendIs
  <2> HIDE DEF s
  <2>4. s = [k \in 1..Len(s) |-> s[k]]
      BY <2>3
  <2> QED BY <2>2, <2>3, <2>4
<1> HIDE DEF s
<1>11. \A k \in 1..c + 1 : s[k] = Nth(J, k)
  <2> SUFFICES ASSUME NEW k \in 1..c + 1 PROVE s[k] = Nth(J, k)
      OBVIOUS
  <2>1. CASE k = c + 1
      BY <1>7, <1>10, <2>1
  <2>2. CASE k \in 1..c
      BY <1>6, <1>8, <1>10, <2>2
  <2> QED BY <1>1, <2>1, <2>2
<1>12. s = InOrder(J)
    BY <1>9, <1>10, <1>11
<1> QED BY <1>10, <1>12 DEF s

LEMMA InOrderOfNone == InOrder({}) = <<>>
<1>1. Cardinality({}) = 0
    BY FS_EmptySet
<1> QED BY <1>1 DEF InOrder

LEMMA InOrderOfAll ==
    ASSUME NEW n \in Nat
    PROVE  InOrder(1..n) = [k \in 1..n |-> k]
<1>1. Cardinality(1..n) = n
    BY FS_Interval
<1>2. ASSUME NEW k \in 1..n PROVE (CHOOSE i \in 1..n : Cardinality({j \in 1..n : j <= i}) = k) = k
  <2>1. ASSUME NEW i \in 1..n PROVE Cardinality({j \in 1..n : j <= i}) = i
    <3>1. {j \in 1..n : j <= i} = 1..i
        BY <2>1
    <3>2. i \in Nat /\ Cardinality(1..i) = i
        BY <2>1, FS_Interval
    <3> QED BY <3>1, <3>2
  <2> QED BY <1>2, <2>1
<1> QED BY <1>1, <1>2 DEF InOrder

LEMMA InOrderIsSeq ==
    ASSUME NEW n \in Nat, NEW I \in SUBSET (1..n)
    PROVE  InOrder(I) \in Seq(I)
<1> DEFINE Good == {m \in Nat : \A K \in SUBSET (1..m) : InOrder(K) \in Seq(K)}
<1>1. 0 \in Good
  <2>1. ASSUME NEW K \in SUBSET (1..0) PROVE InOrder(K) \in Seq(K)
    <3>1. K = {}
        BY <2>1
    <3>2. <<>> \in Seq(K)
        OBVIOUS
    <3> QED BY Zenon, <3>1, <3>2, InOrderOfNone
  <2> QED BY <2>1
<1>2. ASSUME NEW m \in Nat, m \in Good PROVE m + 1 \in Good
  <2>1. ASSUME NEW K \in SUBSET (1..m + 1) PROVE InOrder(K) \in Seq(K)
    <3>1. CASE m + 1 \notin K
      <4>1. K \in SUBSET (1..m)
          BY <1>2, <2>1, <3>1
      <4> QED BY <1>2, <4>1
    <3>2. CASE m + 1 \in K
      <4> DEFINE L == K \ {m + 1}
      <4>1. L \in SUBSET (1..m) /\ K = L \cup {m + 1}
          BY <1>2, <2>1, <3>2
      <4>2. InOrder(L) \in Seq(L)
          BY <1>2, <4>1
      <4>3. L \in SUBSET Nat /\ m + 1 \in Nat /\ \A i \in L : i < m + 1
          BY <1>2, <4>1
      <4> HIDE DEF L
      <4> QED BY <4>1, <4>2, <4>3, InOrderAppends
    <3> QED BY <3>1, <3>2
  <2> QED BY <1>2, <2>1
<1>3. Nat \subseteq Good
  <2> HIDE DEF Good
  <2> QED BY <1>1, <1>2, ByInduction
<1> QED BY <1>3

LEMMA FirstPiece ==
    ASSUME NEW S, NEW p \in Seq(S), Cuts(p) = {}
    PROVE  Ends(p) = {Len(p) + 1} /\ Part(p, Len(p) + 1) = Strip(p)
<1>1. Ends(p) = {Len(p) + 1}
    BY DEF Ends
<1>2. {i \in Cuts(p) : i < Len(p) + 1} \cup {0} = {0}
    OBVIOUS
<1>3. Max({0}) = 0
    BY GreatestIsMax
<1>4. Len(p) \in Nat /\ Len(p) + 1 - 1 = Len(p) /\ 0 + 1 = 1
    OBVIOUS
<1>5. Begin(p, Len(p) + 1) = 1
    BY <1>2, <1>3, <1>4 DEF Begin
<1>6. SubSeq(p, 1, Len(p)) = p
    BY SubSeqFull
<1>7. Part(p, Len(p) + 1) = Strip(SubSeq(p, 1, Len(p)))
    BY <1>4, <1>5 DEF Part
<1> QED BY <1>1, <1>6, <1>7

\* Another piece leaves the parts before it as they are.
LEMMA NextPiece ==
    ASSUME NEW S, NEW t \in Seq(S), NEW p \in Seq(S), Cuts(p) = {},
           NEW separator \in S, separator \in Separators
    PROVE  LET n == t \o <<separator>> \o p
           IN  /\ n \in Seq(S)
               /\ Len(n) = Len(t) + 1 + Len(p)
               /\ Cuts(n) = Cuts(t) \cup {Len(t) + 1}
               /\ Ends(n) = Ends(t) \cup {Len(n) + 1}
               /\ Ends(t) \in SUBSET (1..Len(n))
               /\ \A e \in Ends(t) : Part(n, e) = Part(t, e)
               /\ Part(n, Len(n) + 1) = Strip(p)
<1> DEFINE n == t \o <<separator>> \o p
           m == Len(t) + 1
<1>1. /\ n \in Seq(S) /\ Len(n) = m + Len(p)
      /\ \A k \in 1..Len(t) : n[k] = t[k]
      /\ n[m] = separator
      /\ \A k \in 1..Len(p) : n[m + k] = p[k]
  <2> DEFINE r == t \o <<separator>>
  <2>1. <<separator>> \in Seq(S) /\ Len(<<separator>>) = 1 /\ <<separator>>[1] = separator
      OBVIOUS
  <2>2. /\ r \in Seq(S) /\ Len(r) = m
        /\ \A k \in 1..Len(t) : r[k] = t[k]
        /\ r[m] = separator
    <3>1. /\ r \in Seq(S) /\ Len(r) = Len(t) + 1
          /\ \A k \in 1..Len(t) + 1 : r[k] = IF k <= Len(t) THEN t[k] ELSE <<separator>>[k - Len(t)]
        BY <2>1, ConcatProperties
    <3> HIDE DEF r
    <3> QED BY <3>1
  <2> HIDE DEF r, m
  <2>3. /\ n \in Seq(S) /\ Len(n) = Len(r) + Len(p)
        /\ \A k \in 1..Len(r) + Len(p) : n[k] = IF k <= Len(r) THEN r[k] ELSE p[k - Len(r)]
      BY <2>2, ConcatProperties DEF r
  <2> HIDE DEF n
  <2>4. m = Len(t) + 1 /\ Len(t) \in Nat /\ Len(p) \in Nat
      BY DEF m
  <2>5. ASSUME NEW k \in 1..Len(t) PROVE n[k] = t[k]
      BY <2>2, <2>3, <2>4, <2>5
  <2>6. n[m] = separator
      BY <2>2, <2>3, <2>4
  <2>7. ASSUME NEW k \in 1..Len(p) PROVE n[m + k] = p[k]
    <3>1. m + k \in 1..Len(r) + Len(p) /\ ~(m + k <= Len(r)) /\ (m + k) - Len(r) = k
        BY <2>2, <2>4, <2>7
    <3> QED BY <2>3, <3>1
  <2> QED BY <2>2, <2>3, <2>5, <2>6, <2>7
<1> HIDE DEF n
<1>2. Len(t) \in Nat /\ Len(p) \in Nat /\ m \in Nat /\ m = Len(t) + 1 /\ DOMAIN t = 1..Len(t) /\ DOMAIN p = 1..Len(p) /\ DOMAIN n = 1..Len(n)
    BY <1>1
<1>3. Cuts(n) = Cuts(t) \cup {m}
  <2>1. ASSUME NEW i \in 1..Len(n) PROVE n[i] \in Separators <=> i \in Cuts(t) \cup {m}
    <3>1. CASE i \in 1..Len(t)
        BY <1>1, <1>2, <3>1 DEF Cuts
    <3>2. CASE i = m
        BY <1>1, <3>2
    <3>3. CASE i > m
      <4>1. i - m \in 1..Len(p) /\ m + (i - m) = i /\ i # m /\ i \notin 1..Len(t)
          BY <1>1, <1>2, <2>1, <3>3
      <4>2. n[i] = p[i - m] /\ p[i - m] \notin Separators
          BY <1>1, <1>2, <4>1 DEF Cuts
      <4> QED BY <1>2, <4>1, <4>2 DEF Cuts
    <3> QED BY <1>1, <1>2, <2>1, <3>1, <3>2, <3>3
  <2>2. \A i \in Cuts(t) \cup {m} : i \in 1..Len(n)
      BY <1>1, <1>2 DEF Cuts
  <2> QED BY <1>2, <2>1, <2>2 DEF Cuts
<1>4. Ends(n) = Ends(t) \cup {Len(n) + 1}
    BY <1>2, <1>3 DEF Ends
<1>5. ASSUME NEW e \in Ends(t) PROVE e \in 1..m
    BY <1>2, <1>5 DEF Ends, Cuts
<1>6. ASSUME NEW e \in Ends(t) PROVE Part(n, e) = Part(t, e)
  <2>1. e \in Nat /\ 1 <= e /\ e <= m
      BY <1>2, <1>5
  <2>2. {i \in Cuts(n) : i < e} = {i \in Cuts(t) : i < e}
      BY <1>2, <1>3, <2>1
  <2>3. Begin(n, e) = Begin(t, e)
      BY <2>2 DEF Begin
  <2>4. Begin(t, e) \in Nat /\ 1 <= Begin(t, e)
    <3> DEFINE B == {i \in Cuts(t) : i < e} \cup {0}
    <3>1. B \in SUBSET Nat /\ B # {} /\ \A i \in B : i <= m
        BY <1>2 DEF Cuts
    <3> HIDE DEF B
    <3>2. Max(B) \in Nat
        BY <1>2, <3>1, MaxIs
    <3>3. Begin(t, e) = Max(B) + 1
        BY DEF Begin, B
    <3> QED BY <3>2, <3>3
  <2> DEFINE b == Begin(t, e)
             u == SubSeq(n, b, e - 1)
             v == SubSeq(t, b, e - 1)
  <2> HIDE DEF b
  <2>5. b \in Nat /\ 1 <= b /\ e - 1 \in Int /\ e - 1 <= Len(t)
      BY <1>2, <2>1, <2>4 DEF b
  <2>6. /\ u \in Seq(S) /\ Len(u) = (IF b <= e - 1 THEN (e - 1) - b + 1 ELSE 0)
        /\ \A k \in 1..(e - 1) - b + 1 : u[k] = n[b + k - 1]
    <3>1. \A k \in b..e - 1 : n[k] \in S
        BY <1>1, <1>2, <2>5
    <3> QED BY <2>5, <3>1, SubSeqProperties
  <2>7. /\ v \in Seq(S) /\ Len(v) = (IF b <= e - 1 THEN (e - 1) - b + 1 ELSE 0)
        /\ \A k \in 1..(e - 1) - b + 1 : v[k] = t[b + k - 1]
    <3>1. \A k \in b..e - 1 : t[k] \in S
        BY <1>1, <1>2, <2>5
    <3> QED BY <2>5, <3>1, SubSeqProperties
  <2> HIDE DEF u, v
  <2>8. Len(u) = Len(v)
      BY <2>6, <2>7
  <2>9. ASSUME NEW k \in 1..Len(u) PROVE u[k] = v[k]
    <3>1. k \in 1..(e - 1) - b + 1 /\ b + k - 1 \in 1..Len(t)
        BY <1>2, <2>1, <2>5, <2>6, <2>9
    <3> QED BY <1>1, <2>6, <2>7, <3>1
  <2>10. u = v
      BY <2>6, <2>7, <2>8, <2>9, SeqEqual
  <2> QED BY <2>3, <2>10 DEF Part, u, v, b
<1>7. Part(n, Len(n) + 1) = Strip(p)
  <2> DEFINE B == {i \in Cuts(n) : i < Len(n) + 1} \cup {0}
  <2>0. \A i \in Cuts(t) : i \in Nat /\ i <= m
      BY <1>2 DEF Cuts
  <2>1. B \in SUBSET Nat /\ m \in B /\ \A i \in B : i <= m
    <3>1. m < Len(n) + 1 /\ m \in Cuts(n)
        BY <1>1, <1>2, <1>3
    <3> HIDE DEF m
    <3>2. ASSUME NEW i \in B PROVE i \in Nat /\ i <= m
      <4>1. i = 0 \/ i \in Cuts(t) \/ i = m
          BY <1>3, <3>2
      <4> QED BY <1>2, <2>0, <4>1
    <3>3. m \in B
        BY <3>1
    <3> QED BY <3>2, <3>3
  <2> HIDE DEF B
  <2>2. Max(B) = m
      BY <2>1, GreatestIsMax
  <2>3. Begin(n, Len(n) + 1) = m + 1
      BY <2>2 DEF Begin, B
  <2>4. Len(n) + 1 - 1 = Len(n)
      BY <1>1
  <2> DEFINE u == SubSeq(n, m + 1, Len(n))
  <2>5. u \in Seq(S) /\ Len(u) = Len(n) - m /\ \A k \in 1..Len(n) - m : u[k] = n[m + k]
    <3>1. n \in Seq(S) /\ m \in 0..Len(n)
        BY <1>1, <1>2
    <3> HIDE DEF m
    <3> QED BY Zenon, <3>1, TailIs
  <2> HIDE DEF u, m
  <2>6. Len(u) = Len(p) /\ \A k \in 1..Len(u) : u[k] = p[k]
      BY <1>1, <1>2, <2>5
  <2>7. u = p
      BY <2>5, <2>6, SeqEqual
  <2>8. Part(n, Len(n) + 1) = Strip(SubSeq(n, m + 1, Len(n)))
      BY <2>3, <2>4 DEF Part
  <2> QED BY <2>7, <2>8 DEF u
<1>8. Ends(t) \in SUBSET (1..Len(n))
    BY <1>1, <1>2, <1>5
<1> HIDE DEF m
<1> QED BY <1>1, <1>2, <1>3, <1>4, <1>6, <1>7, <1>8 DEF n

LEMMA PairsOfNothing == Pairs(<<>>) = <<>>
<1>1. <<>> \in Seq({}) /\ Len(<<>>) = 0 /\ DOMAIN <<>> = {}
    OBVIOUS
<1>2. Cuts(<<>>) = {} /\ EqualsIn(<<>>) = {}
    BY <1>1 DEF Cuts, EqualsIn
<1>3. Strip(<<>>) = <<>>
  <2>1. {i \in DOMAIN <<>> : <<>>[i] \notin Blanks} = {}
      BY <1>1
  <2> QED BY Zenon, <2>1 DEF Strip
<1>4. Ends(<<>>) = {1} /\ Part(<<>>, 1) = <<>>
  <2>1. Len(<<>>) + 1 = 1
      BY <1>1
  <2> QED BY <1>1, <1>2, <1>3, <2>1, FirstPiece
<1>5. {end \in Ends(<<>>) : IsPair(Part(<<>>, end))} = {}
    BY <1>2, <1>4 DEF IsPair
<1>6. DOMAIN InOrder({}) = {}
    BY <1>1, InOrderOfNone
<1>7. Pairs(<<>>) = [k \in {} |-> Pair(Part(<<>>, InOrder({})[k]))]
    BY <1>5, <1>6 DEF Pairs
<1> QED BY <1>7

LEMMA PairsOfOne ==
    ASSUME NEW S, NEW p \in Seq(S), Cuts(p) = {}
    PROVE  Pairs(p) = IF IsPair(Strip(p)) THEN <<Pair(Strip(p))>> ELSE <<>>
<1> DEFINE e == Len(p) + 1
           I == {end \in Ends(p) : IsPair(Part(p, end))}
           ends == InOrder(I)
<1>1. Ends(p) = {e} /\ Part(p, e) = Strip(p) /\ e \in Nat
    BY FirstPiece
<1>2. Pairs(p) = [k \in DOMAIN ends |-> Pair(Part(p, ends[k]))]
    BY DEF Pairs
<1> HIDE DEF e, I
<1>3. CASE IsPair(Strip(p))
  <2>1. I = {} \cup {e}
      BY <1>1, <1>3 DEF I
  <2>2. InOrder({}) \in Seq({}) /\ InOrder({}) = <<>>
    <3>1. <<>> \in Seq({})
        OBVIOUS
    <3> QED BY Zenon, <3>1, InOrderOfNone
  <2>3. InOrder({} \cup {e}) = Append(InOrder({}), e)
    <3>1. {} \in SUBSET Nat /\ \A i \in {} : i < e
        OBVIOUS
    <3> QED BY <1>1, <2>2, <3>1, InOrderAppends
  <2>4. ends = <<e>>
    <3>1. Append(<<>>, e) = <<e>>
        OBVIOUS
    <3> QED BY <2>1, <2>2, <2>3, <3>1
  <2> HIDE DEF ends
  <2>5. Pairs(p) = [k \in 1..1 |-> Pair(Strip(p))]
      BY <1>1, <1>2, <2>4
  <2>6. [k \in 1..1 |-> Pair(Strip(p))] = <<Pair(Strip(p))>>
      OBVIOUS
  <2> QED BY <1>3, <2>5, <2>6
<1>4. CASE ~IsPair(Strip(p))
  <2>1. I = {}
      BY <1>1, <1>4 DEF I
  <2>2. ends = <<>>
      BY <2>1, InOrderOfNone
  <2> HIDE DEF ends
  <2>3. Pairs(p) = <<>>
      BY <1>2, <2>2
  <2> QED BY <1>4, <2>3
<1> QED BY <1>3, <1>4

LEMMA PairsOfMore ==
    ASSUME NEW S, NEW t \in Seq(S), NEW p \in Seq(S), Cuts(p) = {},
           NEW separator \in S, separator \in Separators
    PROVE  Pairs(t \o <<separator>> \o p) =
               IF IsPair(Strip(p)) THEN Append(Pairs(t), Pair(Strip(p))) ELSE Pairs(t)
<1> DEFINE n == t \o <<separator>> \o p
           e == Len(n) + 1
           I == {end \in Ends(t) : IsPair(Part(t, end))}
           J == {end \in Ends(n) : IsPair(Part(n, end))}
           ends == InOrder(I)
           more == InOrder(J)
<1>1. /\ n \in Seq(S) /\ Ends(n) = Ends(t) \cup {e}
      /\ Ends(t) \in SUBSET (1..Len(n))
      /\ \A end \in Ends(t) : Part(n, end) = Part(t, end)
      /\ Part(n, e) = Strip(p)
    BY NextPiece
<1> HIDE DEF n
<1>2. Len(n) \in Nat /\ e \in Nat /\ e = Len(n) + 1
    BY <1>1
<1> HIDE DEF e
<1>3. I \in SUBSET (1..Len(n)) /\ I \in SUBSET Nat /\ \A i \in I : i < e
    BY <1>1, <1>2
<1>4. J = IF IsPair(Strip(p)) THEN I \cup {e} ELSE I
    BY <1>1
<1>5. \A i \in I : Part(n, i) = Part(t, i)
    BY <1>1
<1>6. Pairs(t) = [k \in DOMAIN ends |-> Pair(Part(t, ends[k]))]
    BY DEF Pairs
<1>7. Pairs(n) = [k \in DOMAIN more |-> Pair(Part(n, more[k]))]
    BY DEF Pairs
<1> HIDE DEF I, J
<1>8. ends \in Seq(I)
    BY <1>2, <1>3, InOrderIsSeq
<1>9. CASE IsPair(Strip(p))
  <2>1. more = Append(ends, e)
      BY <1>2, <1>3, <1>4, <1>8, <1>9, InOrderAppends
  <2> HIDE DEF ends, more
  <2> DEFINE c == Len(ends)
             R == {Pair(Part(t, i)) : i \in I} \cup {Pair(Strip(p))}
  <2>2. /\ c \in Nat /\ DOMAIN more = 1..c + 1
        /\ \A k \in 1..c : more[k] = ends[k] /\ ends[k] \in I
        /\ more[c + 1] = e
    <3>1. ends \in Seq(I \cup {e}) /\ e \in I \cup {e}
        BY <1>8, SeqMonotonic
    <3>2. \A k \in 1..Len(ends) : ends[k] \in I
        BY <1>8
    <3> QED BY <2>1, <3>1, <3>2, AppendIs
  <2>3. Pairs(t) = [k \in 1..c |-> Pair(Part(t, ends[k]))]
      BY <1>6, <1>8
  <2> HIDE DEF c
  <2>4. Pairs(t) \in Seq(R) /\ Len(Pairs(t)) = c /\ Pair(Strip(p)) \in R
      BY <2>2, <2>3
  <2> HIDE DEF R
  <2> DEFINE a == Append(Pairs(t), Pair(Strip(p)))
  <2>5. /\ a \in Seq(R) /\ Len(a) = c + 1
        /\ \A k \in 1..c : a[k] = Pairs(t)[k]
        /\ a[c + 1] = Pair(Strip(p))
      BY <2>4, AppendIs
  <2> HIDE DEF a
  <2>6. ASSUME NEW k \in 1..c + 1 PROVE a[k] = Pairs(n)[k]
    <3>1. CASE k = c + 1
        BY <1>1, <1>7, <2>2, <2>5, <3>1
    <3>2. CASE k \in 1..c
        BY <1>5, <1>7, <2>2, <2>3, <2>5, <3>2
    <3> QED BY <2>2, <2>6, <3>1, <3>2
  <2>7. a = [k \in 1..c + 1 |-> a[k]]
      BY <2>5
  <2>8. Pairs(n) = [k \in 1..c + 1 |-> Pairs(n)[k]]
      BY <1>7, <2>2
  <2>9. a = Pairs(n)
      BY <2>6, <2>7, <2>8
  <2> QED BY <1>9, <2>9 DEF a, n
<1>10. CASE ~IsPair(Strip(p))
  <2>1. more = ends
      BY <1>4, <1>10
  <2> HIDE DEF ends, more
  <2>2. \A k \in DOMAIN ends : ends[k] \in I
      BY <1>8
  <2>3. Pairs(n) = Pairs(t)
      BY <1>5, <1>6, <1>7, <2>1, <2>2
  <2> QED BY <1>10, <2>3 DEF n
<1> QED BY <1>9, <1>10

-----------------------------------------------------------------------------
(* What is pasted *)

LEMMA Pieces ==
    /\ Equals \in Chars /\ Separators \subseteq Chars /\ Blanks \subseteq Chars
    /\ \A piece \in Names \cup Values \cup Pads \cup Junk : piece \in Seq(Chars) /\ Cuts(piece) = {}
BY SessionAssumption

LEMMA PaddedIs ==
    ASSUME NEW s \in Names \cup Values, NEW pad \in Pads
    PROVE  /\ Padded(s, pad) \in Seq(Chars)
           /\ Cuts(Padded(s, pad)) = {}
           /\ EqualsIn(s) = {} => EqualsIn(Padded(s, pad)) = {}
           /\ Strip(Padded(s, pad)) = s
<1> DEFINE l == pad \o s
           f == l \o pad
<1>1. /\ s \in Seq(Chars) /\ Cuts(s) = {} /\ Strip(s) = s
      /\ pad \in Seq(Chars) /\ Cuts(pad) = {} /\ \A k \in 1..Len(pad) : pad[k] \in Blanks
    BY SessionAssumption DEF Range
<1>2. /\ Len(pad) \in Nat /\ Len(s) \in Nat /\ DOMAIN pad = 1..Len(pad) /\ DOMAIN s = 1..Len(s)
    BY <1>1
<1>3. /\ l \in Seq(Chars) /\ Len(l) = Len(pad) + Len(s)
      /\ \A k \in 1..Len(pad) + Len(s) : l[k] = IF k <= Len(pad) THEN pad[k] ELSE s[k - Len(pad)]
    BY Zenon, <1>1, ConcatProperties
<1> HIDE DEF l
<1>4. /\ f \in Seq(Chars) /\ Len(f) = Len(l) + Len(pad)
      /\ \A k \in 1..Len(l) + Len(pad) : f[k] = IF k <= Len(l) THEN l[k] ELSE pad[k - Len(l)]
  <2>1. l \in Seq(Chars) /\ pad \in Seq(Chars)
      BY <1>1, <1>3
  <2> QED BY Zenon, <2>1, ConcatProperties
<1> HIDE DEF f
<1>5. f = Padded(s, pad)
    BY DEF f, l, Padded
<1>6. ASSUME NEW k \in 1..Len(f)
      PROVE  \/ /\ k \in 1..Len(pad) /\ f[k] = pad[k]
             \/ /\ k - Len(pad) \in 1..Len(s) /\ f[k] = s[k - Len(pad)]
             \/ /\ k > Len(pad) + Len(s) /\ k - Len(l) \in 1..Len(pad) /\ f[k] = pad[k - Len(l)]
    BY <1>2, <1>3, <1>4, <1>6
<1>7. Cuts(f) = {}
  <2>1. /\ \A k \in 1..Len(pad) : pad[k] \notin Separators
        /\ \A k \in 1..Len(s) : s[k] \notin Separators
      BY <1>1, <1>2 DEF Cuts
  <2>2. ASSUME NEW k \in 1..Len(f) PROVE f[k] \notin Separators
      BY <1>6, <2>1, <2>2
  <2>3. DOMAIN f = 1..Len(f)
      BY <1>4
  <2> QED BY <2>2, <2>3 DEF Cuts
<1>8. EqualsIn(s) = {} => EqualsIn(f) = {}
  <2> SUFFICES ASSUME EqualsIn(s) = {} PROVE EqualsIn(f) = {}
      OBVIOUS
  <2>1. \A k \in 1..Len(pad) : pad[k] # Equals
      BY <1>1 DEF Blanks, Space, Newline, Equals
  <2>2. \A k \in 1..Len(s) : s[k] # Equals
      BY <1>2 DEF EqualsIn
  <2>3. ASSUME NEW k \in 1..Len(f) PROVE f[k] # Equals
      BY <1>6, <2>1, <2>2, <2>3
  <2>4. DOMAIN f = 1..Len(f)
      BY <1>4
  <2> QED BY <2>3, <2>4 DEF EqualsIn
<1>9. Strip(s) = Strip(f)
  <2>1. Len(pad) + Len(s) <= Len(f)
      BY <1>2, <1>3, <1>4
  <2>2. ASSUME NEW k \in 1..Len(s) PROVE s[k] = f[Len(pad) + k]
    <3>1. Len(pad) + k \in 1..Len(f) /\ (Len(pad) + k) - Len(pad) = k
        BY <1>2, <1>3, <1>4, <2>2
    <3> QED BY <1>2, <1>6, <2>2, <3>1
  <2>3. ASSUME NEW k \in 1..Len(f), k <= Len(pad) \/ k > Len(pad) + Len(s) PROVE f[k] \in Blanks
      BY <1>1, <1>2, <1>6, <2>3
  <2> QED BY <1>1, <1>2, <1>4, <2>1, <2>2, <2>3, StripWithin
<1> QED BY <1>1, <1>4, <1>5, <1>7, <1>8, <1>9

LEMMA PastedPair ==
    ASSUME NEW name \in Names, NEW value \in Values, NEW pad \in Pads
    PROVE  LET p == Padded(name, pad) \o <<Equals>> \o Padded(value, pad)
           IN  /\ p \in Seq(Chars)
               /\ p # <<>>
               /\ Cuts(p) = {}
               /\ IsPair(Strip(p))
               /\ Pair(Strip(p)) = [name |-> name, value |-> value]
<1> DEFINE x == Padded(name, pad)
           y == Padded(value, pad)
           r == x \o <<Equals>>
           p == r \o y
           m == Len(x) + 1
<1>1. /\ x \in Seq(Chars) /\ Cuts(x) = {} /\ EqualsIn(x) = {} /\ Strip(x) = name /\ name # <<>>
      /\ y \in Seq(Chars) /\ Cuts(y) = {} /\ Strip(y) = value
    BY PaddedIs, SessionAssumption
<1> HIDE DEF x, y
<1>2. <<Equals>> \in Seq(Chars) /\ Len(<<Equals>>) = 1 /\ <<Equals>>[1] = Equals
    BY Pieces
<1>3. /\ r \in Seq(Chars) /\ Len(r) = Len(x) + 1
      /\ \A k \in 1..Len(x) + 1 : r[k] = IF k <= Len(x) THEN x[k] ELSE <<Equals>>[k - Len(x)]
  <2>1. x \in Seq(Chars) /\ <<Equals>> \in Seq(Chars)
      BY <1>1, <1>2
  <2>2. /\ r \in Seq(Chars) /\ Len(r) = Len(x) + Len(<<Equals>>)
        /\ \A k \in 1..Len(x) + Len(<<Equals>>) :
              r[k] = IF k <= Len(x) THEN x[k] ELSE <<Equals>>[k - Len(x)]
      BY Zenon, <2>1, ConcatProperties
  <2> QED BY Zenon, <1>2, <2>2
<1> HIDE DEF r
<1>4. /\ p \in Seq(Chars) /\ Len(p) = Len(r) + Len(y)
      /\ \A k \in 1..Len(r) + Len(y) : p[k] = IF k <= Len(r) THEN r[k] ELSE y[k - Len(r)]
  <2>1. r \in Seq(Chars) /\ y \in Seq(Chars)
      BY <1>1, <1>3
  <2> QED BY Zenon, <2>1, ConcatProperties
<1> HIDE DEF p
<1>5. /\ Len(x) \in Nat /\ Len(y) \in Nat /\ m \in Nat /\ m = Len(x) + 1 /\ Len(r) = m
      /\ DOMAIN x = 1..Len(x) /\ DOMAIN y = 1..Len(y) /\ DOMAIN p = 1..Len(p) /\ Len(p) = m + Len(y)
    BY <1>1, <1>3, <1>4
<1> HIDE DEF m
<1>6. /\ \A k \in 1..m - 1 : p[k] = x[k]
      /\ p[m] = Equals
      /\ \A k \in 1..Len(y) : p[m + k] = y[k]
  <2>1. ASSUME NEW k \in 1..m - 1 PROVE p[k] = x[k]
      BY <1>3, <1>4, <1>5, <2>1
  <2>2. p[m] = Equals
    <3>1. m \in 1..Len(r) + Len(y) /\ m <= Len(r) /\ ~(m <= Len(x)) /\ m - Len(x) = 1
        BY <1>5
    <3> QED BY <1>2, <1>3, <1>4, <1>5, <3>1
  <2>3. ASSUME NEW k \in 1..Len(y) PROVE p[m + k] = y[k]
    <3>1. m + k \in 1..Len(r) + Len(y) /\ ~(m + k <= Len(r)) /\ (m + k) - Len(r) = k
        BY <1>5, <2>3
    <3> QED BY <1>4, <3>1
  <2> QED BY <2>1, <2>2, <2>3
<1>7. m \in 1..Len(p) /\ \A k \in 1..m - 1 : p[k] # Equals
  <2>1. m \in 1..Len(p) /\ m - 1 = Len(x)
      BY <1>5
  <2>2. \A k \in 1..Len(x) : x[k] # Equals
      BY <1>1, <1>5 DEF EqualsIn
  <2> QED BY <1>6, <2>1, <2>2
<1>8. /\ EqualsIn(Strip(p)) # {}
      /\ Pair(Strip(p)) = CutAt(p, m)
    BY <1>4, <1>6, <1>7, PairOfStripped
<1>9. SubSeq(p, 1, m - 1) = x
  <2> DEFINE u == SubSeq(p, 1, m - 1)
  <2>1. u \in Seq(Chars) /\ Len(u) = m - 1 /\ \A k \in 1..m - 1 : u[k] = p[k]
      BY <1>4, <1>5
  <2> HIDE DEF u
  <2>2. Len(u) = Len(x) /\ \A k \in 1..Len(u) : u[k] = x[k]
      BY <1>5, <1>6, <2>1
  <2>3. u = x
      BY <1>1, <2>1, <2>2, SeqEqual
  <2> QED BY <2>3 DEF u
<1>10. SubSeq(p, m + 1, Len(p)) = y
  <2> DEFINE u == SubSeq(p, m + 1, Len(p))
  <2>1. u \in Seq(Chars) /\ Len(u) = Len(p) - m /\ \A k \in 1..Len(p) - m : u[k] = p[m + k]
    <3>1. m \in 0..Len(p)
        BY <1>5
    <3> QED BY Zenon, <1>4, <3>1, TailIs
  <2> HIDE DEF u
  <2>2. Len(u) = Len(y) /\ \A k \in 1..Len(u) : u[k] = y[k]
      BY <1>5, <1>6, <2>1
  <2>3. u = y
      BY <1>1, <2>1, <2>2, SeqEqual
  <2> QED BY <2>3 DEF u
<1>11. CutAt(p, m) = [name |-> name, value |-> value]
    BY <1>1, <1>9, <1>10 DEF CutAt
<1>12. Cuts(p) = {}
  <2> SUFFICES ASSUME NEW i \in 1..Len(p), p[i] \in Separators PROVE FALSE
      BY <1>5 DEF Cuts
  <2>1. CASE i \in 1..m - 1
      BY <1>1, <1>5, <1>6, <2>1 DEF Cuts
  <2>2. CASE i = m
      BY <1>6, <2>2 DEF Equals, Separators, Semicolon, Newline
  <2>3. CASE i > m
    <3>1. i - m \in 1..Len(y) /\ m + (i - m) = i
        BY <1>5, <2>3
    <3>2. p[i] = y[i - m]
        BY <1>6, <3>1
    <3>3. i - m \in Cuts(y)
        BY <1>5, <3>1, <3>2 DEF Cuts
    <3> QED BY <1>1, <3>3
  <2> QED BY <1>5, <2>1, <2>2, <2>3
<1>13. p # <<>>
    BY <1>5
<1> QED BY <1>1, <1>4, <1>8, <1>11, <1>12, <1>13 DEF IsPair, p, r, x, y

LEMMA PastedJunk ==
    ASSUME NEW junk \in Junk
    PROVE  ~IsPair(Strip(junk))
<1>1. junk \in Seq(Chars) /\ (EqualsIn(junk) # {} => Pair(junk).name = <<>>)
    BY SessionAssumption
<1>2. CASE EqualsIn(junk) = {}
  <2>1. CASE \A k \in 1..Len(junk) : junk[k] \in Blanks
    <3>1. Strip(junk) = <<>>
        BY <1>1, <2>1, StripOfBlanks
    <3>2. EqualsIn(<<>>) = {}
        BY DEF EqualsIn
    <3> QED BY <3>1, <3>2 DEF IsPair
  <2>2. ASSUME NEW a \in 1..Len(junk), NEW b \in a..Len(junk),
               junk[a] \notin Blanks, junk[b] \notin Blanks,
               \A k \in 1..Len(junk) : k < a \/ k > b => junk[k] \in Blanks
        PROVE  EqualsIn(Strip(junk)) = {}
    <3> DEFINE u == SubSeq(junk, a, b)
    <3>1. Strip(junk) = u
        BY <1>1, <2>2, StripIs
    <3>2. Len(junk) \in Nat /\ a \in Nat /\ b \in Nat /\ 1 <= a /\ a <= b /\ b <= Len(junk)
        BY <1>1, <2>2
    <3>3. DOMAIN u = 1..b - a + 1 /\ \A k \in 1..b - a + 1 : u[k] = junk[a + k - 1]
        BY <1>1, <3>2
    <3> HIDE DEF u
    <3>4. ASSUME NEW k \in 1..b - a + 1 PROVE u[k] # Equals
      <4>1. a + k - 1 \in 1..Len(junk)
          BY <3>2, <3>4
      <4> QED BY <1>1, <1>2, <3>3, <3>4, <4>1 DEF EqualsIn
    <3> QED BY <3>1, <3>3, <3>4 DEF EqualsIn
  <2> QED BY <1>1, <2>1, <2>2, StripCases DEF IsPair
<1>3. CASE EqualsIn(junk) # {}
  <2> DEFINE E == EqualsIn(junk)
             n == Min(E)
  <2>1. E \in SUBSET Nat
      BY <1>1 DEF EqualsIn
  <2>2. n \in E /\ \A k \in E : n <= k
    <3> HIDE DEF E
    <3> QED BY <1>3, <2>1, MinIs DEF E
  <2> HIDE DEF n
  <2>3. n \in 1..Len(junk) /\ junk[n] = Equals /\ \A k \in 1..n - 1 : junk[k] # Equals
    <3>1. n \in 1..Len(junk) /\ junk[n] = Equals
        BY <1>1, <2>2 DEF EqualsIn
    <3>2. ASSUME NEW k \in 1..n - 1, junk[k] = Equals PROVE FALSE
      <4>1. k \in 1..Len(junk) /\ k \in E
          BY <1>1, <3>1, <3>2 DEF EqualsIn
      <4>2. n <= k /\ k <= n - 1 /\ n \in Nat /\ k \in Nat
          BY <2>2, <3>1, <3>2, <4>1
      <4> QED BY <4>2
    <3> QED BY <3>1, <3>2
  <2>4. Pair(Strip(junk)) = Pair(junk)
      BY <1>1, <2>3, PairOfStripped
  <2> QED BY <1>1, <1>3, <2>4 DEF IsPair
<1> QED BY <1>2, <1>3

-----------------------------------------------------------------------------
(* The cookies of a task *)

LEMMA PastePairKeepsMeaning ==
    ASSUME text \in Seq(Chars), Pairs(text) = meant, request = "paste", PastePair
    PROVE  text' \in Seq(Chars) /\ Pairs(text') = meant'
<1>1. PICK name \in Names, value \in Values, pad \in Pads :
          /\ Paste(Padded(name, pad) \o <<Equals>> \o Padded(value, pad))
          /\ meant' = Append(meant, [name |-> name, value |-> value])
    BY DEF PastePair
<1> DEFINE p == Padded(name, pad) \o <<Equals>> \o Padded(value, pad)
           pair == [name |-> name, value |-> value]
<1>2. p \in Seq(Chars) /\ Cuts(p) = {} /\ IsPair(Strip(p)) /\ Pair(Strip(p)) = pair
    BY PastedPair
<1>3. PICK separator \in Separators :
          text' = IF text = <<>> THEN p ELSE text \o <<separator>> \o p
    BY <1>1 DEF Paste
<1>4. meant' = Append(meant, pair)
    BY <1>1
<1> HIDE DEF p, pair
<1>5. CASE text = <<>>
  <2>1. meant = <<>>
      BY <1>5, PairsOfNothing
  <2>2. meant' = <<pair>>
    <3>1. Append(<<>>, pair) = <<pair>>
        OBVIOUS
    <3> QED BY <1>4, <2>1, <3>1
  <2>3. Pairs(p) = <<pair>>
      BY <1>2, PairsOfOne
  <2> QED BY <1>2, <1>3, <1>5, <2>2, <2>3
<1>6. CASE text # <<>>
  <2> DEFINE n == text \o <<separator>> \o p
  <2>1. separator \in Chars /\ separator \in Separators
      BY Pieces
  <2>2. n \in Seq(Chars)
      BY <1>2, <2>1, NextPiece
  <2>3. Pairs(n) = Append(Pairs(text), pair)
      BY <1>2, <2>1, PairsOfMore
  <2>4. text' = n
      BY <1>3, <1>6
  <2> HIDE DEF n
  <2> QED BY <1>4, <2>2, <2>3, <2>4
<1> QED BY <1>5, <1>6

LEMMA PasteJunkKeepsMeaning ==
    ASSUME text \in Seq(Chars), Pairs(text) = meant, request = "paste", PasteJunk
    PROVE  text' \in Seq(Chars) /\ Pairs(text') = meant'
<1>1. PICK junk \in Junk : Paste(junk)
    BY DEF PasteJunk
<1>2. PICK separator \in Separators :
          text' = IF text = <<>> THEN junk ELSE text \o <<separator>> \o junk
    BY <1>1 DEF Paste
<1>3. meant' = meant
    BY DEF PasteJunk
<1>4. junk \in Seq(Chars) /\ Cuts(junk) = {} /\ ~IsPair(Strip(junk))
    BY Pieces, PastedJunk
<1>5. CASE text = <<>>
  <2>1. Pairs(junk) = <<>>
      BY <1>4, PairsOfOne
  <2> QED BY <1>2, <1>3, <1>4, <1>5, <2>1, PairsOfNothing
<1>6. CASE text # <<>>
  <2> DEFINE n == text \o <<separator>> \o junk
  <2>1. separator \in Chars /\ separator \in Separators
      BY Pieces
  <2>2. n \in Seq(Chars)
      BY <1>4, <2>1, NextPiece
  <2>3. Pairs(n) = Pairs(text)
      BY <1>4, <2>1, PairsOfMore
  <2>4. text' = n
      BY <1>2, <1>6
  <2> HIDE DEF n
  <2> QED BY <1>3, <2>2, <2>3, <2>4
<1> QED BY <1>5, <1>6

\* The names and values of the cookies of a header, whatever the host, are its pairs.
LEMMA DictsOfHeader ==
    ASSUME NEW raw, NEW host
    PROVE  Dicts(ParseHeader(raw, host)) = Pairs(raw)
<1> DEFINE ends == InOrder({end \in Ends(raw) : IsPair(Part(raw, end))})
           pairs == Pairs(raw)
           cookies == ParseHeader(raw, host)
<1>1. pairs = [k \in DOMAIN ends |-> Pair(Part(raw, ends[k]))]
    BY DEF Pairs
<1>2. cookies = [k \in DOMAIN pairs |-> Cookie(pairs[k], host)]
    BY DEF ParseHeader
<1> HIDE DEF ends, pairs, cookies
<1>3. ASSUME NEW k \in DOMAIN ends
      PROVE  [name |-> pairs[k].name, value |-> pairs[k].value] = pairs[k]
    BY <1>1 DEF Pair, CutAt
<1>4. ASSUME NEW k \in DOMAIN pairs
      PROVE  cookies[k].name = pairs[k].name /\ cookies[k].value = pairs[k].value
    BY <1>2 DEF Cookie
<1>5. Dicts(cookies) = pairs
    BY <1>1, <1>2, <1>3, <1>4 DEF Dicts
<1> QED BY <1>5 DEF pairs, cookies

LEMMA OneProfileMore ==
    ASSUME NEW s, s \in Seq(Range(s)), NEW e
    PROVE  /\ Append(s, e) \in Seq(Range(Append(s, e)))
           /\ DOMAIN Append(s, e) = DOMAIN s \cup {Len(s) + 1}
           /\ \A k \in DOMAIN s : Append(s, e)[k] = s[k]
           /\ Append(s, e)[Len(s) + 1] = e
<1> DEFINE S == Range(s) \cup {e}
           t == Append(s, e)
<1>1. s \in Seq(S) /\ e \in S
    BY SeqMonotonic
<1> HIDE DEF S
<1>2. /\ t \in Seq(S) /\ Len(s) \in Nat /\ Len(t) = Len(s) + 1
      /\ \A k \in 1..Len(s) : t[k] = s[k]
      /\ t[Len(s) + 1] = e
    BY <1>1, AppendIs
<1>3. DOMAIN t = 1..Len(s) + 1 /\ DOMAIN s = 1..Len(s)
    BY <1>1, <1>2
<1> HIDE DEF t
<1>4. t \in Seq(Range(t))
    BY <1>2 DEF Range
<1> QED BY <1>2, <1>3, <1>4 DEF t

\* Until the request is accepted what it sends is what was meant; from then on the row
\* is, and no attempt was made before, since the one that would have been made needs a
\* row too.
SessionTypeOK ==
    /\ text \in Seq(Chars)
    /\ request \in {"paste", "rejected", "insert_task", "insert_row", "accepted", "failed"}
    /\ stored \in BOOLEAN
    /\ profiles \in Seq(Range(profiles))

SentAsMeant ==
    /\ request = "paste" => Pairs(text) = meant
    /\ request \in {"insert_task", "insert_row", "accepted"} => Dicts(sent) = meant
    /\ request = "accepted" => stored /\ row = sent

AttemptsFollowRow ==
    /\ request \in {"paste", "rejected", "insert_task"} => ~stored
    /\ ~stored => profiles = <<>>
    /\ request = "accepted" =>
           \A i \in DOMAIN profiles :
               /\ profiles[i].storage = row
               /\ row # <<>> => /\ profiles[i].agent = PinnedEntry.agent
                                /\ ~profiles[i].extensions

SessionInv == SessionTypeOK /\ SentAsMeant /\ AttemptsFollowRow

LEMMA SessionInvInit == SessionInit => SessionInv
<1> SUFFICES ASSUME SessionInit PROVE SessionInv
    OBVIOUS
<1>1. /\ text = <<>> /\ meant = <<>> /\ profiles = <<>>
      /\ request = "paste" /\ stored = FALSE
    BY DEF SessionInit
<1>2. text \in Seq(Chars) /\ profiles \in Seq(Range(profiles))
    BY <1>1
<1>3. Pairs(text) = meant
    BY <1>1, PairsOfNothing
<1> QED BY <1>1, <1>2, <1>3 DEF SessionInv, SessionTypeOK, SentAsMeant, AttemptsFollowRow

LEMMA SessionInvStep == SessionInv /\ [SessionNext]_sessionVars => SessionInv'
<1> SUFFICES ASSUME SessionInv, [SessionNext]_sessionVars PROVE SessionInv'
    OBVIOUS
<1> USE DEF SessionInv, SessionTypeOK, SentAsMeant, AttemptsFollowRow
<1>1. CASE UNCHANGED sessionVars
    BY <1>1 DEF sessionVars
<1>2. CASE PastePair
  <2>1. /\ request = "paste" /\ UNCHANGED <<request, sent, stored, row, profiles>>
      BY <1>2 DEF PastePair
  <2>2. text' \in Seq(Chars) /\ Pairs(text') = meant'
      BY <1>2, <2>1, PastePairKeepsMeaning
  <2> QED BY <2>1, <2>2
<1>3. CASE PasteJunk
  <2>1. /\ request = "paste" /\ UNCHANGED <<request, sent, stored, row, profiles>>
      BY <1>3 DEF PasteJunk
  <2>2. text' \in Seq(Chars) /\ Pairs(text') = meant'
      BY <1>3, <2>1, PasteJunkKeepsMeaning
  <2> QED BY <2>1, <2>2
<1>4. ASSUME NEW host \in Hosts, Submit(host) PROVE SessionInv'
  <2>1. /\ request = "paste" /\ text' = <<>> /\ UNCHANGED <<meant, stored, row, profiles>>
        /\ \/ request' = "rejected"
           \/ request' = "insert_task" /\ sent' = ParseHeader(text, host)
      BY <1>4 DEF Submit
  <2>2. Dicts(ParseHeader(text, host)) = meant
      BY <2>1, DictsOfHeader
  <2>3. text' \in Seq(Chars)
      BY <2>1
  <2>4. request' = "insert_task" => Dicts(sent') = meant'
      BY <2>1, <2>2
  <2> QED BY <2>1, <2>3, <2>4
<1>5. CASE InsertTask
    BY <1>5 DEF InsertTask, Dicts
<1>6. CASE InsertRow
    BY <1>6 DEF InsertRow, Dicts
<1>7. CASE InsertRowFails
    BY <1>7 DEF InsertRowFails, Dicts
<1>8. CASE Lease
    BY <1>8 DEF Lease, Dicts
<1>9. CASE Attempt
  <2>1. PICK geo \in Geos, byDefault \in BOOLEAN : \E spec \in Specs(geo, row # <<>>) :
            profiles' = Append(profiles, BrowserProfile(spec, row, byDefault))
      BY <1>9 DEF Attempt
  <2>2. PICK spec \in Specs(geo, row # <<>>) :
            profiles' = Append(profiles, BrowserProfile(spec, row, byDefault))
      BY <2>1
  <2> DEFINE p == BrowserProfile(spec, row, byDefault)
  <2>3. p.storage = row /\ (row # <<>> => p.agent = PinnedEntry.agent /\ ~p.extensions)
    <3>1. PICK e \in Entries(row # <<>>) : spec.agent = e.agent
        BY <2>2 DEF Specs
    <3>2. row # <<>> => spec.agent = PinnedEntry.agent
        BY <3>1 DEF Entries
    <3>3. p.storage = row /\ p.agent = spec.agent /\ p.extensions = (row = <<>> /\ byDefault)
        BY DEF BrowserProfile
    <3> QED BY <3>2, <3>3
  <2> HIDE DEF p
  <2>4. /\ profiles' \in Seq(Range(profiles'))
        /\ DOMAIN profiles' = DOMAIN profiles \cup {Len(profiles) + 1}
        /\ \A k \in DOMAIN profiles : profiles'[k] = profiles[k]
        /\ profiles'[Len(profiles) + 1] = p
      BY <2>2, OneProfileMore DEF p
  <2>5. stored /\ UNCHANGED <<text, meant, request, sent, stored, row>>
      BY <1>9 DEF Attempt
  <2>6. SentAsMeant' /\ SessionTypeOK'
      BY <2>4, <2>5 DEF Dicts
  <2>7. AttemptsFollowRow'
      BY <2>3, <2>4, <2>5
  <2> QED BY <2>6, <2>7
<1> QED BY <1>1, <1>2, <1>3, <1>4, <1>5, <1>6, <1>7, <1>8, <1>9 DEF SessionNext

LEMMA SessionInvAlways == SessionSpec => []SessionInv
BY SessionInvInit, SessionInvStep, PTL DEF SessionSpec

LEMMA DomainIsSuffix ==
    ASSUME NEW host \in Hosts, host # NoHost
    PROVE  /\ \E i \in DOMAIN host : Domain(host) = SubSeq(host, i, Len(host))
           /\ Domain(host) # <<>>
<1> DEFINE S == Range(host)
<1>1. host \in Seq(S) /\ host # <<>>
    BY SessionAssumption DEF NoHost
<1> HIDE DEF S
<1>2. Len(host) \in Nat /\ Len(host) > 0 /\ DOMAIN host = 1..Len(host)
    BY <1>1
<1>3. CASE Domain(host) = host
  <2>1. SubSeq(host, 1, Len(host)) = host
      BY <1>1, SubSeqFull
  <2>2. 1 \in DOMAIN host
      BY <1>2
  <2> QED BY Zenon, <1>1, <1>3, <2>1, <2>2
<1>4. CASE Len(host) > 1 /\ Domain(host) = Tail(host)
  <2>1. Tail(host) = SubSeq(host, 2, Len(host))
      BY <1>1, TailIsSubSeq
  <2>2. 2 \in DOMAIN host
      BY <1>2, <1>4
  <2>3. Tail(host) # <<>>
      BY <1>1, <1>4
  <2> QED BY Zenon, <1>4, <2>1, <2>2, <2>3
<1> QED BY <1>3, <1>4 DEF Domain

\* However many cookies are pasted, with whatever between and around them: the ones
\* that were meant come out, in their order, for a domain the link is in.
THEOREM HeadersAreUnderstood == SessionSpec => []HeaderUnderstood
<1>1. SessionInv => HeaderUnderstood
  <2> SUFFICES ASSUME SessionInv, request = "paste", NEW host \in Hosts \ {NoHost}
               PROVE  /\ Dicts(ParseHeader(text, host)) = meant
                      /\ \A k \in DOMAIN ParseHeader(text, host) :
                            \E i \in DOMAIN host :
                                ParseHeader(text, host)[k].domain = SubSeq(host, i, Len(host))
      BY DEF HeaderUnderstood
  <2>1. Dicts(ParseHeader(text, host)) = meant
      BY DictsOfHeader DEF SessionInv, SentAsMeant
  <2>2. ASSUME NEW k \in DOMAIN ParseHeader(text, host)
        PROVE  ParseHeader(text, host)[k].domain = Domain(host)
      BY <2>2 DEF ParseHeader, Cookie
  <2> QED BY <2>1, <2>2, DomainIsSuffix
<1> QED BY <1>1, SessionInvAlways, PTL

LEMMA NormalizeAll ==
    ASSUME NEW n \in Nat, NEW d, DOMAIN d = 1..n, \A k \in 1..n : Usable(d[k]), NEW host
    PROVE  Normalize(d, host) = [k \in 1..n |-> Normalized(d[k], host)]
<1> DEFINE usable == InOrder({k \in DOMAIN d : Usable(d[k])})
<1>1. {k \in DOMAIN d : Usable(d[k])} = 1..n
    OBVIOUS
<1>2. usable = [k \in 1..n |-> k]
    BY <1>1, InOrderOfAll
<1>3. Normalize(d, host) = [k \in DOMAIN usable |-> Normalized(d[usable[k]], host)]
    BY DEF Normalize
<1> HIDE DEF usable
<1> QED BY <1>2, <1>3

LEMMA PairsAreCounted ==
    ASSUME NEW S, NEW s \in Seq(S)
    PROVE  \E n \in Nat : DOMAIN Pairs(s) = 1..n
<1> DEFINE I == {end \in Ends(s) : IsPair(Part(s, end))}
<1>1. I \in SUBSET (1..Len(s) + 1) /\ Len(s) + 1 \in Nat
    BY DEF Ends, Cuts
<1> HIDE DEF I
<1>2. InOrder(I) \in Seq(I)
    BY <1>1, InOrderIsSeq
<1>3. DOMAIN Pairs(s) = DOMAIN InOrder(I)
    BY DEF Pairs, I
<1> QED BY <1>2, <1>3

LEMMA NormalizedDict ==
    ASSUME NEW name, NEW value, NEW host
    PROVE  LET dict == [name |-> name, value |-> value]
           IN  Usable(dict) /\ Normalized(dict, host) = Cookie(dict, host)
BY DEF Usable, Normalized, Cookie, Get, GetOr

LEMMA NormalizedCookie ==
    ASSUME NEW pair, NEW host, NEW other, Domain(host) # <<>>
    PROVE  Usable(Cookie(pair, host)) /\ Normalized(Cookie(pair, host), other) = Cookie(pair, host)
BY DEF Usable, Normalized, Cookie, Get, GetOr

\* However many cookies: a list of dicts and a header that mean the same are the same
\* cookies, and cookies that are normalized already stay what they are.
THEOREM FormatsAlwaysAgree == SessionSpec => []FormatsAgree
<1>1. SessionInv => FormatsAgree
  <2> SUFFICES ASSUME SessionInv, request = "paste",
                      NEW host \in Hosts \ {NoHost}, NEW other \in Hosts \ {NoHost}
               PROVE  /\ Normalize(Dicts(meant), host) = ParseHeader(text, host)
                      /\ Normalize(ParseHeader(text, host), other) = ParseHeader(text, host)
      BY DEF FormatsAgree
  <2> DEFINE cookies == ParseHeader(text, host)
             dicts == Dicts(meant)
  <2>1. text \in Seq(Chars) /\ Pairs(text) = meant
      BY DEF SessionInv, SessionTypeOK, SentAsMeant
  <2>2. PICK n \in Nat : DOMAIN meant = 1..n
      BY <2>1, PairsAreCounted
  <2>3. cookies = [k \in 1..n |-> Cookie(meant[k], host)]
      BY <2>1, <2>2 DEF ParseHeader
  <2>4. dicts = [k \in 1..n |-> [name |-> meant[k].name, value |-> meant[k].value]]
      BY <2>2 DEF Dicts
  <2> HIDE DEF cookies, dicts
  <2>5. ASSUME NEW k \in 1..n
        PROVE  /\ Usable(dicts[k]) /\ Normalized(dicts[k], host) = cookies[k]
               /\ Usable(cookies[k]) /\ Normalized(cookies[k], other) = cookies[k]
    <3> DEFINE dict == [name |-> meant[k].name, value |-> meant[k].value]
    <3>1. dicts[k] = dict /\ cookies[k] = Cookie(meant[k], host)
        BY <2>3, <2>4, <2>5
    <3>2. Cookie(meant[k], host) = Cookie(dict, host)
        BY DEF Cookie
    <3>3. Usable(dict) /\ Normalized(dict, host) = Cookie(dict, host)
        BY NormalizedDict
    <3>4. Usable(Cookie(meant[k], host)) /\ Normalized(Cookie(meant[k], host), other) = Cookie(meant[k], host)
        BY DomainIsSuffix, NormalizedCookie
    <3> HIDE DEF dict
    <3> QED BY <3>1, <3>2, <3>3, <3>4
  <2>6. Normalize(dicts, host) = [k \in 1..n |-> Normalized(dicts[k], host)]
    <3>1. DOMAIN dicts = 1..n
        BY <2>4
    <3> QED BY <2>5, <3>1, NormalizeAll
  <2>7. Normalize(cookies, other) = [k \in 1..n |-> Normalized(cookies[k], other)]
    <3>1. DOMAIN cookies = 1..n
        BY <2>3
    <3> QED BY <2>5, <3>1, NormalizeAll
  <2>8. cookies = [k \in 1..n |-> cookies[k]]
      BY <2>3
  <2>9. Normalize(dicts, host) = cookies /\ Normalize(cookies, other) = cookies
      BY <2>5, <2>6, <2>7, <2>8
  <2> QED BY <2>9 DEF cookies, dicts
<1> QED BY <1>1, SessionInvAlways, PTL

\* Every attempt of an acknowledged task has the cookies that were meant, and with
\* cookies the one pinned user agent and no extensions, however many attempts there are.
THEOREM SessionsAreKept == SessionSpec => []SessionKept
<1>1. SessionInv => SessionKept
  <2> SUFFICES ASSUME SessionInv, request = "accepted", NEW i \in DOMAIN profiles
               PROVE  /\ Dicts(profiles[i].storage) = meant
                      /\ meant # <<>> => /\ profiles[i].agent = profiles[1].agent
                                         /\ ~profiles[i].extensions
      BY DEF SessionKept
  <2>1. Dicts(row) = meant
      BY DEF SessionInv, SentAsMeant
  <2>2. Dicts(<<>>) = <<>>
      BY DEF Dicts
  <2>3. meant # <<>> => row # <<>>
      BY <2>1, <2>2
  <2>4. 1 \in DOMAIN profiles
      BY DEF SessionInv, SessionTypeOK
  <2> QED BY <2>1, <2>3, <2>4 DEF SessionInv, AttemptsFollowRow
<1> QED BY <1>1, SessionInvAlways, PTL

-----------------------------------------------------------------------------
(* The answer of the language model *)

Lines == {Fence, JsonFence, Blank, Opening, Closing, "prose"}
Fences == {Fence, JsonFence}

LEMMA BlankStripped ==
    ASSUME NEW s \in Seq(Lines)
    PROVE  \/ StripBlank(s) = <<>> /\ \A k \in 1..Len(s) : s[k] = Blank
           \/ \E a, b \in 1..Len(s) :
                /\ a <= b /\ s[a] # Blank /\ s[b] # Blank
                /\ \A k \in 1..Len(s) : s[k] # Blank => a <= k /\ k <= b
                /\ StripBlank(s) \in Seq(Lines)
                /\ Len(StripBlank(s)) = b - a + 1
                /\ \A k \in 1..b - a + 1 : StripBlank(s)[k] = s[k + a - 1]
<1> DEFINE solid == {i \in DOMAIN s : s[i] # Blank}
<1>1. CASE solid = {}
    BY <1>1 DEF StripBlank
<1>2. CASE solid # {}
  <2> DEFINE a == Min(solid)
             b == Max(solid)
  <2>1. solid \in SUBSET Nat /\ Len(s) \in Nat /\ \A i \in solid : i <= Len(s)
      OBVIOUS
  <2>2. a \in solid /\ \A i \in solid : a <= i
      BY <1>2, <2>1, MinIs
  <2>3. b \in solid /\ \A i \in solid : i <= b
      BY <1>2, <2>1, MaxIs
  <2>4. StripBlank(s) = SubSeq(s, a, b)
      BY <1>2 DEF StripBlank
  <2> HIDE DEF a, b
  <2>5. a \in 1..Len(s) /\ b \in 1..Len(s) /\ a <= b
      BY <2>2, <2>3
  <2>6. /\ SubSeq(s, a, b) \in Seq(Lines)
        /\ Len(SubSeq(s, a, b)) = b - a + 1
        /\ \A k \in 1..b - a + 1 : SubSeq(s, a, b)[k] = s[k + a - 1]
      BY <2>5
  <2>7. \A k \in 1..Len(s) : s[k] # Blank => a <= k /\ k <= b
      BY <2>2, <2>3
  <2>8. s[a] # Blank /\ s[b] # Blank
      BY <2>2, <2>3
  <2> HIDE DEF solid
  <2> QED BY <2>4, <2>5, <2>6, <2>7, <2>8
<1> QED BY <1>1, <1>2

\* Where the opening fence, the object's lines and the closing fence are, in an answer
\* of which `writing` says that it has them.
InFence == {"fenced", "fenced_open", "fenced_object", "closed"}
HasOpened == {"open", "object", "fenced_open", "fenced_object", "closed"}
HasObject == {"object", "fenced_object", "closed"}

At(s, w, f, i, j, c) ==
    /\ w \in InFence => f \in 1..Len(s) /\ s[f] \in Fences
    /\ w \in HasOpened => i \in 1..Len(s) /\ s[i] = Opening
    /\ w \in HasObject => j \in 1..Len(s) /\ s[j] = Closing
    /\ w = "closed" => c \in 1..Len(s) /\ s[c] = Fence

InOrderAt(w, f, i, j, c) ==
    /\ w \in InFence \cap HasOpened => f < i
    /\ w \in HasObject => i < j
    /\ w = "closed" => j < c

\* Every other line is blank, but for the ones after a closing fence.
BlankAt(s, w, f, i, j, c) ==
    \A k \in 1..Len(s) :
        \/ s[k] = Blank
        \/ w \in InFence /\ k = f
        \/ w \in HasOpened /\ k = i
        \/ w \in HasObject /\ k = j
        \/ w = "closed" /\ k >= c

Written(s, w) ==
    \E f, i, j, c \in 0..Len(s) :
        At(s, w, f, i, j, c) /\ InOrderAt(w, f, i, j, c) /\ BlankAt(s, w, f, i, j, c)

\* A fence in a spoiled answer is the first thing in it, so there is only one.
Spoiled(s) ==
    /\ \E p \in 1..Len(s) : s[p] = "prose"
    /\ \A k \in 1..Len(s) : s[k] \in Fences => \A l \in 1..k - 1 : s[l] = Blank

Shape(s, w) ==
    /\ w \in {"lead", "spoiled", "open", "object"} \cup InFence
    /\ IF w = "spoiled" THEN Spoiled(s) ELSE Written(s, w)

\* What WriteBlank, WriteFence, WriteObject and WriteProse may write, and what the answer
\* is then.
Writes(w, line, next) ==
    \/ line = Blank /\ next = w
    \/ w = "lead" /\ line \in Fences /\ next = "fenced"
    \/ w = "fenced_object" /\ line = Fence /\ next = "closed"
    \/ w = "lead" /\ line = Opening /\ next = "open"
    \/ w = "open" /\ line = Closing /\ next = "object"
    \/ w = "fenced" /\ line = Opening /\ next = "fenced_open"
    \/ w = "fenced_open" /\ line = Closing /\ next = "fenced_object"
    \/ w = "closed" /\ next = "closed"
    \/ w # "closed" /\ line = "prose" /\ next = "spoiled"

LEMMA WrittenStep ==
    ASSUME NEW s \in Seq(Lines), NEW line \in Lines, NEW w, NEW next,
           Written(s, w), Writes(w, line, next), next # "spoiled"
    PROVE  Written(Append(s, line), next)
<1> DEFINE t == Append(s, line)
           n == Len(s) + 1
<1>1. /\ t \in Seq(Lines) /\ Len(t) = n /\ Len(s) \in Nat
      /\ \A k \in 1..Len(s) : t[k] = s[k]
      /\ t[n] = line
    BY AppendIs
<1>2. PICK f, i, j, c \in 0..Len(s) :
          At(s, w, f, i, j, c) /\ InOrderAt(w, f, i, j, c) /\ BlankAt(s, w, f, i, j, c)
    BY DEF Written
<1> DEFINE ff == IF w = "lead" /\ line \in Fences THEN n ELSE f
           ii == IF w \in {"lead", "fenced"} /\ line = Opening THEN n ELSE i
           jj == IF w \in {"open", "fenced_open"} /\ line = Closing THEN n ELSE j
           cc == IF w = "fenced_object" /\ line = Fence THEN n ELSE c
<1> HIDE DEF t
<1>3. ff \in 0..n /\ ii \in 0..n /\ jj \in 0..n /\ cc \in 0..n
    BY <1>1
<1> USE DEF Writes, InFence, HasOpened, HasObject, Fences, Fence, JsonFence, Opening, Closing, Blank
<1>4. At(t, next, ff, ii, jj, cc)
    BY <1>1, <1>2 DEF At
<1>5. InOrderAt(next, ff, ii, jj, cc)
    BY <1>1, <1>2 DEF InOrderAt, At
<1>6. BlankAt(t, next, ff, ii, jj, cc)
  <2> SUFFICES ASSUME NEW k \in 1..n
               PROVE  \/ t[k] = Blank
                      \/ next \in InFence /\ k = ff
                      \/ next \in HasOpened /\ k = ii
                      \/ next \in HasObject /\ k = jj
                      \/ next = "closed" /\ k >= cc
      BY <1>1 DEF BlankAt
  <2>1. CASE k = n
      BY <1>1, <1>2, <2>1 DEF At
  <2>2. CASE k \in 1..Len(s)
      BY <1>1, <1>2, <2>2 DEF BlankAt
  <2> QED BY <1>1, <2>1, <2>2
<1> HIDE DEF ff, ii, jj, cc
<1>7. Written(t, next)
    BY <1>1, <1>3, <1>4, <1>5, <1>6 DEF Written
<1> QED BY <1>7 DEF t

LEMMA SpoiledStep ==
    ASSUME NEW s \in Seq(Lines), NEW line \in {Blank, "prose"},
           \/ Spoiled(s)
           \/ line = "prose" /\ \E w \in {"lead", "open", "object", "fenced", "fenced_open", "fenced_object"} :
                                   Written(s, w)
    PROVE  Spoiled(Append(s, line))
<1> USE DEF Fences, Fence, JsonFence, Opening, Closing, Blank
<1> DEFINE t == Append(s, line)
<1>1. /\ t \in Seq(Lines) /\ Len(t) = Len(s) + 1 /\ Len(s) \in Nat
      /\ \A k \in 1..Len(s) : t[k] = s[k]
      /\ t[Len(s) + 1] = line
    BY AppendIs DEF Lines
<1> HIDE DEF t
<1>2. \E p \in 1..Len(t) : t[p] = "prose"
    BY <1>1 DEF Spoiled
<1>3. ASSUME NEW k \in 1..Len(s), s[k] \in Fences, NEW l \in 1..k - 1 PROVE s[l] = Blank
  <2>1. CASE Spoiled(s)
      BY <1>3, <2>1 DEF Spoiled
  <2>2. CASE ~Spoiled(s)
    <3>1. PICK w \in {"lead", "open", "object", "fenced", "fenced_open", "fenced_object"},
               f, i, j, c \in 0..Len(s) :
              At(s, w, f, i, j, c) /\ InOrderAt(w, f, i, j, c) /\ BlankAt(s, w, f, i, j, c)
        BY <2>2 DEF Written
    <3>2. w \in InFence /\ k = f
        BY <1>1, <1>3, <3>1
        DEF At, BlankAt, InFence, HasOpened, HasObject
    <3>3. l \in 1..Len(s) /\ l < f
        BY <1>1, <1>3, <3>2
    <3> QED BY <1>1, <3>1, <3>2, <3>3 DEF At, InOrderAt, BlankAt, InFence, HasOpened, HasObject
  <2> QED BY <2>1, <2>2
<1>4. \A k \in 1..Len(t) : t[k] \in Fences => \A l \in 1..k - 1 : t[l] = Blank
  <2> SUFFICES ASSUME NEW k \in 1..Len(t), t[k] \in Fences, NEW l \in 1..k - 1 PROVE t[l] = Blank
      OBVIOUS
  <2>1. k # Len(s) + 1
      BY <1>1
  <2>2. k \in 1..Len(s) /\ s[k] \in Fences /\ l \in 1..Len(s)
      BY <1>1, <2>1
  <2> QED BY <1>1, <1>3, <2>2
<1>5. Spoiled(t)
    BY <1>2, <1>4 DEF Spoiled
<1> QED BY <1>5 DEF t

LEMMA ShapeStep ==
    ASSUME NEW s \in Seq(Lines), NEW line \in Lines, NEW w, NEW next,
           Shape(s, w), Writes(w, line, next)
    PROVE  Shape(Append(s, line), next)
<1>1. next \in {"lead", "spoiled", "open", "object"} \cup InFence
    BY DEF Shape, Writes, InFence
<1>2. CASE next # "spoiled"
  <2>1. w # "spoiled"
      BY <1>2 DEF Writes
  <2> QED BY <1>1, <1>2, <2>1, WrittenStep DEF Shape
<1>3. CASE next = "spoiled"
  <2>1. line \in {Blank, "prose"} /\ (line = "prose" \/ w = "spoiled") /\ w # "closed"
      BY <1>3 DEF Writes
  <2>2. Spoiled(s) \/ \E x \in {"lead", "open", "object", "fenced", "fenced_open", "fenced_object"} : Written(s, x)
      BY <2>1 DEF Shape, InFence
  <2>3. Spoiled(s) \/ line = "prose"
      BY <2>1 DEF Shape
  <2> QED BY <1>1, <1>3, <2>1, <2>2, <2>3, SpoiledStep DEF Shape
<1> QED BY <1>2, <1>3

\* An answer is taken as it is if no fence is closed in it.
LEMMA NothingCut ==
    ASSUME NEW t \in Seq(Lines),
           \/ t = <<>>
           \/ t[1] \notin Fences
           \/ \A k \in 2..Len(t) : t[k] # Fence
    PROVE  StripFence(t) = t
<1> DEFINE Closings(skip) == {c \in skip + 3..Len(t) : t[c] = Fence}
           Skips == {skip \in 0..Len(t) :
                        /\ \A i \in 2..skip + 1 : i \in DOMAIN t /\ t[i] = Blank
                        /\ Closings(skip) # {}}
<1>1. CASE t = <<>> \/ t[1] \notin Fences
    BY <1>1 DEF StripFence, Fences
<1>2. CASE \A k \in 2..Len(t) : t[k] # Fence
  <2>1. \A skip \in 0..Len(t) : Closings(skip) = {}
      BY <1>2
  <2>2. Skips = {}
      BY <2>1
  <2> HIDE DEF Skips
  <2>3. ~(Len(t) > 0 /\ t[1] \in {Fence, JsonFence} /\ Skips # {})
      BY <2>2
  <2> USE DEF Skips
  <2> QED BY <2>3 DEF StripFence
<1> QED BY <1>1, <1>2

\* In an answer that opens with a fence, has the object next and then a closing fence,
\* what is between the fences is found, whatever follows.
LEMMA ObjectCut ==
    ASSUME NEW t \in Seq(Lines), t # <<>>, t[1] \in Fences,
           NEW i \in 2..Len(t), NEW c \in i + 1..Len(t),
           t[i] \notin Fences \cup {Blank}, t[c] = Fence,
           \A k \in 2..i - 1 : t[k] = Blank,
           \A k \in i..c - 1 : t[k] \notin Fences
    PROVE  StripFence(t) = SubSeq(t, i, c - 1)
<1> DEFINE Closings(skip) == {k \in skip + 3..Len(t) : t[k] = Fence}
           Skips == {skip \in 0..Len(t) :
                        /\ \A k \in 2..skip + 1 : k \in DOMAIN t /\ t[k] = Blank
                        /\ Closings(skip) # {}}
<1>1. Len(t) \in Nat /\ Len(t) > 0 /\ i \in Nat /\ c \in Nat
    OBVIOUS
<1>2. c \in Closings(i - 2)
    BY <1>1
<1>3. i - 2 \in Skips
  <2>1. i - 2 \in 0..Len(t)
      OBVIOUS
  <2>2. \A k \in 2..(i - 2) + 1 : k \in DOMAIN t /\ t[k] = Blank
      BY <1>1
  <2> QED BY <1>2, <2>1, <2>2
<1>4. \A skip \in Skips : skip <= i - 2
  <2> SUFFICES ASSUME NEW skip \in Skips, skip > i - 2 PROVE FALSE
      OBVIOUS
  <2>1. skip \in Nat /\ i \in 2..skip + 1
      OBVIOUS
  <2> QED BY <2>1
<1>5. Max(Skips) = i - 2
  <2> HIDE DEF Skips
  <2>1. Skips \in SUBSET Nat
      BY DEF Skips
  <2> QED BY <1>3, <1>4, <2>1, GreatestIsMax
<1>6. Min(Closings(i - 2)) = c
  <2> DEFINE C == Closings(i - 2)
  <2>1. C \in SUBSET Nat /\ \A k \in C : c <= k
    <3> SUFFICES ASSUME NEW k \in C PROVE k \in Nat /\ c <= k
        OBVIOUS
    <3>1. k \in i + 1..Len(t) /\ t[k] = Fence
        BY <1>1
    <3> QED BY <1>1, <3>1 DEF Fences
  <2>2. c \in C
      BY <1>2
  <2> HIDE DEF C
  <2>3. Min(C) = c
      BY <2>1, <2>2, LeastIsMin
  <2> QED BY <2>3 DEF C
<1>7. StripFence(t) = SubSeq(t, Max(Skips) + 2, Min(Closings(Max(Skips))) - 1)
  <2>1. Skips # {}
      BY <1>3
  <2>2. t[1] \in {Fence, JsonFence}
      BY DEF Fences
  <2> QED BY <1>1, <2>1, <2>2 DEF StripFence
<1> HIDE DEF Skips, Closings
<1> QED BY <1>1, <1>5, <1>6, <1>7

LEMMA CutIsValid ==
    ASSUME NEW t \in Seq(Lines), t # <<>>, t[1] \in Fences,
           NEW i \in 2..Len(t), NEW j \in i + 1..Len(t), NEW c \in j + 1..Len(t),
           t[i] = Opening, t[j] = Closing, t[c] = Fence,
           \A k \in 2..c - 1 : k \notin {i, j} => t[k] = Blank
    PROVE  Valid(StripFence(t))
<1> DEFINE u == SubSeq(t, i, c - 1)
<1>1. /\ Len(t) \in Nat /\ i \in Nat /\ j \in Nat /\ c \in Nat
      /\ 2 <= i /\ i < j /\ j < c /\ c <= Len(t)
    OBVIOUS
<1>2. StripFence(t) = u
  <2> USE DEF Fences, Fence, JsonFence, Opening, Closing, Blank
  <2>1. c \in i + 1..Len(t)
      BY <1>1
  <2>2. \A k \in 2..i - 1 : t[k] = Blank
      BY <1>1
  <2>3. \A k \in i..c - 1 : t[k] \notin Fences
    <3> SUFFICES ASSUME NEW k \in i..c - 1 PROVE t[k] \notin Fences
        OBVIOUS
    <3>1. k \in 2..c - 1
        BY <1>1
    <3> QED BY <3>1
  <2> QED BY <2>1, <2>2, <2>3, ObjectCut
<1>3. /\ Len(u) = c - i /\ DOMAIN u = 1..c - i
      /\ \A k \in 1..c - i : u[k] = t[k + i - 1]
    BY <1>1
<1> HIDE DEF u
<1>4. u[1] = Opening /\ u[j - i + 1] = Closing
  <2>1. 1 \in 1..c - i /\ j - i + 1 \in 1..c - i /\ 1 + i - 1 = i /\ (j - i + 1) + i - 1 = j
      BY <1>1
  <2> QED BY <1>3, <2>1
<1>5. ASSUME NEW k \in 1..c - i, k \notin {1, j - i + 1} PROVE u[k] = Blank
  <2>1. k + i - 1 \in 2..c - 1 /\ k + i - 1 \notin {i, j}
      BY <1>1, <1>5
  <2> QED BY <1>3, <1>5, <2>1
<1>6. 1 \in DOMAIN u /\ j - i + 1 \in DOMAIN u /\ 1 < j - i + 1
    BY <1>1, <1>3
<1>7. \A k \in DOMAIN u \ {1, j - i + 1} : u[k] = Blank
    BY <1>3, <1>5
<1>8. Valid(u)
    BY Zenon, <1>4, <1>6, <1>7 DEF Valid
<1> QED BY <1>2, <1>8

\* Without the blank lines around it an answer is written as before.
LEMMA StrippedIsWritten ==
    ASSUME NEW s \in Seq(Lines), NEW t \in Seq(Lines), NEW w, Written(s, w),
           NEW a \in 1..Len(s), NEW b \in 1..Len(s), a <= b,
           \A k \in 1..Len(s) : s[k] # Blank => a <= k /\ k <= b,
           Len(t) = b - a + 1,
           \A k \in 1..b - a + 1 : t[k] = s[k + a - 1]
    PROVE  Written(t, w)
<1> USE DEF Fences, Fence, JsonFence, Opening, Closing, Blank
<1>1. PICK f, i, j, c \in 0..Len(s) :
          At(s, w, f, i, j, c) /\ InOrderAt(w, f, i, j, c) /\ BlankAt(s, w, f, i, j, c)
    BY DEF Written
<1> DEFINE There(k) == IF k \in a..b THEN k - a + 1 ELSE 0
<1>2. Len(s) \in Nat /\ Len(t) \in Nat /\ a \in Nat /\ b \in Nat /\ 1 <= a
    OBVIOUS
<1>3. \A k \in 0..Len(s) : There(k) \in 0..Len(t)
    BY <1>2
<1>4. \A k \in 1..Len(s) : s[k] # Blank =>
          There(k) = k - a + 1 /\ There(k) \in 1..Len(t) /\ t[There(k)] = s[k]
  <2> SUFFICES ASSUME NEW k \in 1..Len(s), s[k] # Blank
               PROVE  k \in a..b /\ k - a + 1 \in 1..Len(t) /\ t[k - a + 1] = s[k]
      OBVIOUS
  <2>1. k \in a..b /\ k - a + 1 \in 1..b - a + 1 /\ (k - a + 1) + a - 1 = k
      BY <1>2
  <2> QED BY <2>1
<1>5. \A k \in 1..Len(t) : k + a - 1 \in 1..Len(s) /\ t[k] = s[k + a - 1]
    BY <1>2
<1>6. /\ w \in InFence => There(f) = f - a + 1 /\ There(f) \in 1..Len(t) /\ t[There(f)] = s[f]
      /\ w \in HasOpened => There(i) = i - a + 1 /\ There(i) \in 1..Len(t) /\ t[There(i)] = s[i]
      /\ w \in HasObject => There(j) = j - a + 1 /\ There(j) \in 1..Len(t) /\ t[There(j)] = s[j]
      /\ w = "closed" => There(c) = c - a + 1 /\ There(c) \in 1..Len(t) /\ t[There(c)] = s[c]
    BY <1>1, <1>4 DEF At
<1>7. At(t, w, There(f), There(i), There(j), There(c))
    BY <1>1, <1>6 DEF At
<1>8. InOrderAt(w, There(f), There(i), There(j), There(c))
  <2>1. \A x, y \in 0..Len(s) : x < y => x - a + 1 < y - a + 1
      BY <1>2
  <2>2. w \in InFence \cap HasOpened => There(f) < There(i)
      BY <1>1, <1>6, <2>1 DEF InOrderAt
  <2>3. w \in HasObject => There(i) < There(j)
      BY <1>1, <1>6, <2>1 DEF InOrderAt, HasOpened, HasObject
  <2>4. w = "closed" => There(j) < There(c)
      BY <1>1, <1>6, <2>1 DEF InOrderAt, HasObject
  <2> QED BY <2>2, <2>3, <2>4 DEF InOrderAt
<1>9. BlankAt(t, w, There(f), There(i), There(j), There(c))
  <2> SUFFICES ASSUME NEW k \in 1..Len(t)
               PROVE  \/ t[k] = Blank
                      \/ w \in InFence /\ k = There(f)
                      \/ w \in HasOpened /\ k = There(i)
                      \/ w \in HasObject /\ k = There(j)
                      \/ w = "closed" /\ k >= There(c)
      BY DEF BlankAt
  <2> DEFINE l == k + a - 1
  <2>1. l \in 1..Len(s) /\ t[k] = s[l]
      BY <1>5
  <2>2. \/ s[l] = Blank
        \/ w \in InFence /\ l = f
        \/ w \in HasOpened /\ l = i
        \/ w \in HasObject /\ l = j
        \/ w = "closed" /\ l >= c
      BY <1>1, <2>1 DEF BlankAt
  <2>3. k = l - a + 1 /\ l \in Nat
      BY <1>2
  <2> HIDE DEF There, l
  <2>4. CASE s[l] = Blank
      BY <2>1, <2>4
  <2>5. CASE w = "closed" /\ l >= c
    <3>1. c \in Nat /\ There(c) = c - a + 1
        BY <1>6, <2>5
    <3> QED BY <1>2, <2>3, <2>5, <3>1
  <2>6. CASE w \in InFence /\ l = f
      BY <1>6, <2>3, <2>6
  <2>7. CASE w \in HasOpened /\ l = i
      BY <1>6, <2>3, <2>7
  <2>8. CASE w \in HasObject /\ l = j
      BY <1>6, <2>3, <2>8
  <2> QED BY <2>2, <2>4, <2>5, <2>6, <2>7, <2>8
<1> HIDE DEF There
<1> QED BY <1>3, <1>7, <1>8, <1>9 DEF Written

\* What the code makes of an answer that starts with a line which is not blank.
LEMMA RecoveredHere ==
    ASSUME NEW t \in Seq(Lines), t # <<>>, t[1] # Blank, NEW w, Shape(t, w)
    PROVE  Valid(StripFence(t)) <=> w \in {"object", "closed"}
<1> USE DEF Fences, Fence, JsonFence, Opening, Closing, Blank
<1>0. Len(t) \in Nat /\ 1 \in 1..Len(t) /\ DOMAIN t = 1..Len(t)
    OBVIOUS
<1>1. CASE w = "spoiled"
  <2>1. PICK p \in 1..Len(t) : t[p] = "prose"
      BY <1>1 DEF Shape, Spoiled
  <2>2. \A k \in 2..Len(t) : t[k] # Fence
    <3> SUFFICES ASSUME NEW k \in 2..Len(t), t[k] = Fence PROVE FALSE
        OBVIOUS
    <3>1. k \in 1..Len(t) /\ 1 \in 1..k - 1
        BY <1>0
    <3> QED BY <1>1, <3>1 DEF Shape, Spoiled
  <2>3. StripFence(t) = t
      BY <2>2, NothingCut
  <2>4. ~Valid(t)
      BY <1>0, <2>1 DEF Valid
  <2> QED BY <1>1, <2>3, <2>4
<1>2. CASE w # "spoiled"
  <2>1. PICK f, i, j, c \in 0..Len(t) :
            At(t, w, f, i, j, c) /\ InOrderAt(w, f, i, j, c) /\ BlankAt(t, w, f, i, j, c)
      BY <1>2 DEF Shape, Written
  <2> USE DEF At, InOrderAt, BlankAt, InFence, HasOpened, HasObject
  <2>2. CASE w \in {"lead", "open"}
    <3>1. \A k \in 1..Len(t) : t[k] \notin {Fence, JsonFence, Closing}
        BY <2>1, <2>2
    <3>2. StripFence(t) = t
        BY <1>0, <3>1, NothingCut
    <3>3. ~Valid(t)
        BY <1>0, <3>1 DEF Valid
    <3> QED BY <2>2, <3>2, <3>3
  <2>3. CASE w = "object"
    <3>1. \A k \in 1..Len(t) : t[k] \notin {Fence, JsonFence}
        BY <2>1, <2>3
    <3>2. StripFence(t) = t
        BY <1>0, <3>1, NothingCut
    <3>3. /\ i \in DOMAIN t /\ j \in DOMAIN t /\ i < j /\ t[i] = Opening /\ t[j] = Closing
          /\ \A k \in DOMAIN t \ {i, j} : t[k] = Blank
        BY <1>0, <2>1, <2>3
    <3>4. Valid(t)
        BY <3>3 DEF Valid
    <3> QED BY <2>3, <3>2, <3>4
  <2>4. CASE w \in InFence
    <3>1. f = 1 /\ t[1] \in Fences
        BY <1>0, <2>1, <2>4
    <3>2. CASE w # "closed"
      <4>1. \A k \in 2..Len(t) : t[k] \notin Fences
        <5> SUFFICES ASSUME NEW k \in 2..Len(t) PROVE t[k] \notin Fences
            OBVIOUS
        <5>1. k \in 1..Len(t) /\ k # 1
            BY <1>0
        <5> QED BY <2>1, <2>4, <3>1, <3>2, <5>1
      <4>2. StripFence(t) = t
          BY <4>1, NothingCut
      <4>3. ~Valid(t)
          BY <1>0, <3>1 DEF Valid
      <4> QED BY <2>4, <3>2, <4>2, <4>3
    <3>3. CASE w = "closed"
      <4>1. i \in 2..Len(t) /\ j \in i + 1..Len(t) /\ c \in j + 1..Len(t)
          BY <1>0, <2>1, <3>1, <3>3
      <4>2. t[i] = Opening /\ t[j] = Closing /\ t[c] = Fence
          BY <2>1, <3>3
      <4>3. ASSUME NEW k \in 2..c - 1, k \notin {i, j} PROVE t[k] = Blank
        <5>1. k \in 1..Len(t) /\ k # 1 /\ ~(k >= c)
            BY <1>0, <4>1, <4>3
        <5> QED BY <2>1, <3>1, <3>3, <4>3, <5>1
      <4> QED BY <3>1, <3>3, <4>1, <4>2, <4>3, CutIsValid
    <3> QED BY <3>2, <3>3
  <2> QED BY <1>2, <2>2, <2>3, <2>4 DEF Shape
<1> QED BY <1>1, <1>2

LEMMA Recovered ==
    ASSUME NEW s \in Seq(Lines), NEW w, Shape(s, w)
    PROVE  Valid(StripFence(StripBlank(s))) <=> w \in {"object", "closed"}
<1> USE DEF Fences, Fence, JsonFence, Opening, Closing, Blank
<1>1. CASE StripBlank(s) = <<>> /\ \A k \in 1..Len(s) : s[k] = Blank
  <2>1. w \notin {"object", "closed"}
      BY <1>1 DEF Shape, Written, At, InFence, HasOpened
  <2>2. StripFence(<<>>) = <<>>
    <3>1. ~(Len(<<>>) > 0)
        OBVIOUS
    <3> QED BY Zenon, <3>1 DEF StripFence
  <2>3. ~Valid(<<>>)
      BY DEF Valid
  <2> QED BY <1>1, <2>1, <2>2, <2>3
<1>2. CASE \E a, b \in 1..Len(s) :
              /\ a <= b /\ s[a] # Blank /\ s[b] # Blank
              /\ \A k \in 1..Len(s) : s[k] # Blank => a <= k /\ k <= b
              /\ StripBlank(s) \in Seq(Lines)
              /\ Len(StripBlank(s)) = b - a + 1
              /\ \A k \in 1..b - a + 1 : StripBlank(s)[k] = s[k + a - 1]
  <2> DEFINE t == StripBlank(s)
  <2> HIDE DEF t
  <2>1. PICK a \in 1..Len(s), b \in 1..Len(s) :
              /\ a <= b /\ s[a] # Blank /\ s[b] # Blank
              /\ \A k \in 1..Len(s) : s[k] # Blank => a <= k /\ k <= b
              /\ t \in Seq(Lines)
              /\ Len(t) = b - a + 1
              /\ \A k \in 1..b - a + 1 : t[k] = s[k + a - 1]
      BY <1>2 DEF t
  <2>2. /\ Len(s) \in Nat /\ 1 \in 1..b - a + 1
        /\ \A k \in a..b : k \in 1..Len(s) /\ k - a + 1 \in 1..Len(t) /\ t[k - a + 1] = s[k]
    <3>1. ASSUME NEW k \in a..b PROVE k \in 1..Len(s) /\ k - a + 1 \in 1..b - a + 1 /\ (k - a + 1) + a - 1 = k
        BY <2>1, <3>1
    <3> QED BY <2>1, <3>1
  <2>3. t # <<>> /\ t[1] # Blank
      BY <2>1, <2>2
  <2>4. Shape(t, w)
    <3>1. CASE w = "spoiled"
      <4>1. PICK p \in 1..Len(s) : s[p] = "prose"
          BY <3>1 DEF Shape, Spoiled
      <4>2. p - a + 1 \in 1..Len(t) /\ t[p - a + 1] = "prose"
          BY <2>1, <2>2, <4>1
      <4>3. ASSUME NEW k \in 1..Len(t), t[k] \in Fences, NEW l \in 1..k - 1 PROVE t[l] = Blank
        <5>1. /\ k \in 1..b - a + 1 /\ l \in 1..b - a + 1
              /\ k + a - 1 \in 1..Len(s) /\ l + a - 1 \in 1..(k + a - 1) - 1
            BY <2>1, <2>2, <4>3
        <5> QED BY <2>1, <3>1, <4>3, <5>1 DEF Shape, Spoiled
      <4> QED BY <3>1, <4>2, <4>3 DEF Shape, Spoiled
    <3>2. CASE w # "spoiled"
        BY <2>1, <3>2, StrippedIsWritten DEF Shape
    <3> QED BY <3>1, <3>2
  <2> QED BY <2>1, <2>3, <2>4, RecoveredHere DEF t
<1> QED BY <1>1, <1>2, BlankStripped

\* The invariant: the lines are what `writing` says, and the reply is what they call for.
LlmTypeOK ==
    /\ structured \in BOOLEAN
    /\ answer \in Seq(Lines)
    /\ reply \in {"none", "text", "object", "error"}

LlmInv == LlmTypeOK /\ Shape(answer, writing) /\ AnswerRecovered

LEMMA LlmInvInit == LlmInit => LlmInv
<1> SUFFICES ASSUME LlmInit PROVE LlmInv
    OBVIOUS
<1>1. answer = <<>> /\ writing = "lead"
    BY DEF LlmInit
<1>2. Len(answer) = 0
    BY <1>1
<1>3. Written(answer, writing)
    BY <1>1, <1>2 DEF Written, At, InOrderAt, BlankAt, InFence, HasOpened, HasObject
<1> QED BY <1>1, <1>3 DEF LlmInit, LlmInv, LlmTypeOK, Shape, AnswerRecovered

LEMMA LlmInvStep == LlmInv /\ [LlmNext]_llmVars => LlmInv'
<1> SUFFICES ASSUME LlmInv, [LlmNext]_llmVars PROVE LlmInv'
    OBVIOUS
<1> USE DEF LlmInv, LlmTypeOK
<1>1. CASE UNCHANGED llmVars
    BY <1>1 DEF llmVars, AnswerRecovered
<1>2. CASE WriteBlank \/ WriteFence \/ WriteObject \/ WriteProse
  <2>0. PICK line \in Lines : \E next : Write(line, next) /\ Writes(writing, line, next)
      BY <1>2 DEF WriteBlank, WriteFence, WriteObject, WriteProse, Writes, Lines, Fences
  <2>1. PICK next : Write(line, next) /\ Writes(writing, line, next)
      BY <2>0
  <2>2. /\ reply = "none" /\ reply' = "none" /\ structured' = structured
        /\ answer' = Append(answer, line) /\ writing' = next
      BY <2>1 DEF Write
  <2>3. Shape(answer', writing')
      BY <2>1, <2>2, ShapeStep
  <2>4. answer' \in Seq(Lines)
      BY <2>2, AppendIs
  <2> QED BY <2>2, <2>3, <2>4 DEF AnswerRecovered
<1>3. CASE CallFails
  <2>1. writing \notin {"object", "closed"}
      BY <1>3 DEF CallFails, Shape, Written, At, HasOpened, InFence
  <2> QED BY <1>3, <2>1 DEF CallFails, AnswerRecovered
<1>4. CASE Answered
  <2>1. Valid(StripFence(StripBlank(answer))) <=> writing \in {"object", "closed"}
      BY Recovered
  <2> QED BY <1>4, <2>1 DEF Answered, AnswerRecovered
<1> QED BY <1>1, <1>2, <1>3, <1>4 DEF LlmNext

\* However long the answer is: an object the model has finished, fenced or not, is
\* never lost to the caller, and what is no object never reaches one who wants one.
THEOREM AnswersAreRecovered == LlmSpec => []AnswerRecovered
<1>1. LlmInv => AnswerRecovered
    BY DEF LlmInv
<1> QED BY <1>1, LlmInvInit, LlmInvStep, PTL DEF LlmSpec
=============================================================================
