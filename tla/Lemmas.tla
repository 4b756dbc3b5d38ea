------------------------------- MODULE Lemmas --------------------------------
(***************************************************************************)
(* What the proofs share: facts about ring indices and about a queue       *)
(* stored as a window of slots, for the queues under lockfree/, and about  *)
(* Total, for the accounts of oms/ and risk/.                              *)
(***************************************************************************)
EXTENDS Integers, Sequences, TLAPS, Totals, WellFoundedInduction

\* An appended element is the last one and moves no other.
LEMMA Appended ==
    ASSUME NEW S, NEW q \in Seq(S), NEW e \in S, NEW r, r = Append(q, e)
    PROVE  /\ r \in Seq(S) /\ Len(r) = Len(q) + 1
           /\ r[Len(q) + 1] = e /\ \A j \in 1..Len(q) : r[j] = q[j]
  OBVIOUS

(***************************************************************************)
(* Arithmetic of i & (SIZE - 1).                                           *)
(***************************************************************************)

\* A masked position is a slot number.
LEMMA ModRange ==
    ASSUME NEW n \in Nat \ {0}, NEW a \in Nat
    PROVE  a % n \in 0..(n - 1)
  OBVIOUS

\* Division with remainder.
LEMMA ModDef ==
    ASSUME NEW n \in Nat \ {0}, NEW a \in Nat
    PROVE  /\ a = n * (a \div n) + (a % n)
           /\ a \div n \in Nat
  OBVIOUS

\* The same for numbers below zero.
LEMMA DivDef ==
    ASSUME NEW n \in Nat \ {0}, NEW a \in Int
    PROVE  /\ a \div n \in Int
           /\ a = n * (a \div n) + (a % n)
           /\ a % n \in 0..(n - 1)
  OBVIOUS

\* Masking a number that wrapped at most once.
LEMMA ModOnce ==
    ASSUME NEW n \in Nat \ {0}, NEW a \in 0..(2 * n - 1)
    PROVE  a % n = IF a < n THEN a ELSE a - n
<1>0. a \in Nat
  OBVIOUS
<1>1. /\ a = n * (a \div n) + (a % n)
      /\ a \div n \in Nat
      /\ a % n \in 0..(n - 1)
  BY <1>0, ModDef, ModRange
<1>2. ASSUME a \div n >= 2 PROVE FALSE
  <2>1. n * (a \div n) >= n * 2
    BY <1>1, <1>2
  <2> QED BY <1>1, <2>1
<1>3. a \div n \in {0, 1}
  BY <1>1, <1>2
<1> QED BY <1>1, <1>3

\* The next lap of a position uses the same slot.
LEMMA ModLap ==
    ASSUME NEW n \in Nat \ {0}, NEW a \in Nat
    PROVE  (a + n) % n = a % n
<1> DEFINE b == a + n
<1>0. b \in Nat /\ b = a + n
  OBVIOUS
<1> HIDE DEF b
<1>1. /\ a = n * (a \div n) + (a % n)
      /\ a \div n \in Nat
      /\ a % n \in 0..(n - 1)
  BY ModDef, ModRange
<1>2. /\ b = n * (b \div n) + (b % n)
      /\ b \div n \in Nat
      /\ b % n \in 0..(n - 1)
  BY <1>0, ModDef, ModRange
<1> DEFINE k == (b \div n) - (a \div n) - 1
<1>3. k \in Int /\ n * k = (a % n) - (b % n)
  BY <1>0, <1>1, <1>2
<1>4. n * k < n /\ n * k > -n
  BY <1>1, <1>2, <1>3
<1> HIDE DEF k
<1>5. k = 0
  <2>1. CASE k >= 1
    <3>1. n * k >= n
      BY <2>1, <1>3
    <3> QED BY <3>1, <1>4, <1>3
  <2>2. CASE k <= -1
    <3>1. n * k <= -n
      BY <2>2, <1>3
    <3> QED BY <3>1, <1>4, <1>3
  <2> QED BY <2>1, <2>2, <1>3
<1>6. n * k = 0
  BY <1>5
<1> QED BY <1>1, <1>2, <1>3, <1>6 DEF b

\* Two positions less than a lap apart use different slots.
LEMMA ModDistinct ==
    ASSUME NEW n \in Nat \ {0}, NEW a \in Nat, NEW b \in Nat,
           a < b, b < a + n
    PROVE  a % n # b % n
<1> SUFFICES ASSUME a % n = b % n PROVE FALSE
  OBVIOUS
<1>1. /\ a = n * (a \div n) + (a % n)
      /\ b = n * (b \div n) + (b % n)
      /\ a \div n \in Nat
      /\ b \div n \in Nat
      /\ a % n \in 0..(n - 1)
  BY ModDef, ModRange
<1> DEFINE k == (b \div n) - (a \div n)
<1>2. k \in Int /\ n * k = b - a
  BY <1>1
<1> HIDE DEF k
<1>3. n * k > 0 /\ n * k < n
  BY <1>2
<1>4. CASE k >= 1
  <2>1. n * k >= n
    BY <1>4, <1>2
  <2> QED BY <2>1, <1>3, <1>2
<1>5. CASE k <= 0
  <2>1. n * k <= 0
    BY <1>5, <1>2
  <2> QED BY <2>1, <1>3, <1>2
<1> QED BY <1>4, <1>5, <1>2

(***************************************************************************)
(* Windows of slots as sequences.                                          *)
(***************************************************************************)

\* Widening a window by a slot at its end appends that slot's value.
LEMMA WindowAppend ==
    ASSUME NEW S, NEW n \in Nat, NEW e \in S,
           NEW s \in [1..n -> S], NEW t \in [1..(n + 1) -> S],
           t[n + 1] = e, \A i \in 1..n : t[i] = s[i]
    PROVE  /\ Len(s) = n
           /\ t = Append(s, e)
<1>1. s \in Seq(S) /\ Len(s) = n
  OBVIOUS
<1>2. t \in Seq(S) /\ Len(t) = n + 1
  OBVIOUS
<1>3. /\ Append(s, e) \in Seq(S)
      /\ Len(Append(s, e)) = n + 1
      /\ \A i \in 1..n : Append(s, e)[i] = s[i]
      /\ Append(s, e)[n + 1] = e
  BY <1>1
<1>4. \A i \in 1..Len(t) : t[i] = Append(s, e)[i]
  BY <1>2, <1>3
<1>5. t = Append(s, e)
  BY <1>2, <1>3, <1>4
<1> QED BY <1>1, <1>5

\* Dropping the first slot of a window leaves the tail of its sequence.
LEMMA WindowTail ==
    ASSUME NEW S, NEW n \in Nat \ {0},
           NEW s \in [1..n -> S], NEW t \in [1..(n - 1) -> S],
           \A i \in 1..(n - 1) : t[i] = s[i + 1]
    PROVE  /\ s # <<>>
           /\ Head(s) = s[1]
           /\ t = Tail(s)
<1>1. s \in Seq(S) /\ Len(s) = n
  OBVIOUS
<1>2. t \in Seq(S) /\ Len(t) = n - 1
  <2>1. n - 1 \in Nat
    OBVIOUS
  <2> QED BY <2>1
<1>3. s # <<>>
  BY <1>1
<1>4. /\ Tail(s) \in Seq(S)
      /\ Len(Tail(s)) = n - 1
      /\ \A i \in 1..(n - 1) : Tail(s)[i] = s[i + 1]
  BY <1>1, <1>3
<1>5. \A i \in 1..Len(t) : t[i] = Tail(s)[i]
  BY <1>2, <1>4
<1>6. t = Tail(s)
  BY <1>2, <1>4, <1>5
<1>7. Head(s) = s[1]
  BY <1>1
<1> QED BY <1>3, <1>6, <1>7

------------------------------------------------------------------------------
(***************************************************************************)
(* What the proofs need to know about Total: it is an integer, it changes  *)
(* by what one entry changes, and it grows by the entry that is added.     *)
(*                                                                         *)
(* Induction over the length is done with the least element of the set of  *)
(* counterexamples.                                                        *)
(***************************************************************************)
LEMMA LeastElement ==
    ASSUME NEW T \in SUBSET Nat, T # {}
    PROVE  \E x \in T : \A y \in T : x <= y
<1> DEFINE R == {ss \in Nat \X Nat : ss[1] < ss[2]}
<1>1. PICK x \in T : \A y \in T : ~ (<<y, x>> \in R)
  <2>1. IsWellFoundedOn(R, Nat)
    BY NatLessThanWellFounded, Zenon DEF OpToRel
  <2> HIDE DEF R
  <2> QED BY <2>1, WFMin
<1>2. ASSUME NEW y \in T PROVE x <= y
  <2>1. ~ (y < x)
    BY <1>1
  <2> QED BY <2>1
<1> QED BY <1>2

\* Induction, for a set instead of a predicate.
LEMMA InductionOn ==
    ASSUME NEW S, 0 \in S, \A n \in Nat : n \in S => n + 1 \in S
    PROVE  \A n \in Nat : n \in S
<1> SUFFICES ASSUME NEW m \in Nat, m \notin S PROVE FALSE
  OBVIOUS
<1> DEFINE T == {n \in Nat : n \notin S}
<1>1. PICK x \in T : \A y \in T : x <= y
  <2>1. T \in SUBSET Nat /\ T # {}
    OBVIOUS
  <2> HIDE DEF T
  <2> QED BY <2>1, LeastElement
<1>2. x \in Nat /\ x # 0 /\ x - 1 \in Nat
  BY <1>1
<1>3. x - 1 \in S
  BY <1>1, <1>2
<1>4. (x - 1) + 1 \in S /\ (x - 1) + 1 = x
  BY <1>2, <1>3
<1> QED BY <1>1, <1>4

\* s lists the partial sums of t up to n.
PartialSums(s, t, n) ==
    /\ s \in [0..n -> Int]
    /\ s[0] = 0
    /\ \A i \in 1..n : s[i] = t[i] + s[i - 1]

LEMMA PartialSumsExist ==
    ASSUME NEW N \in Nat, NEW t \in [1..N -> Int]
    PROVE  \A n \in 0..N : \E s : PartialSums(s, t, n)
<1> DEFINE S == {n \in Nat : n <= N => \E s : PartialSums(s, t, n)}
<1>1. 0 \in S
  <2> DEFINE z == [i \in 0..0 |-> 0]
  <2>1. PartialSums(z, t, 0)
    BY DEF PartialSums
  <2> HIDE DEF z
  <2> QED BY <2>1
<1>2. ASSUME NEW n \in Nat, n \in S PROVE n + 1 \in S
  <2> SUFFICES ASSUME n + 1 <= N PROVE \E s : PartialSums(s, t, n + 1)
    OBVIOUS
  <2>1. PICK s : PartialSums(s, t, n)
    BY <1>2
  <2> DEFINE r == [i \in 0..(n + 1) |-> IF i = n + 1 THEN s[n] + t[n + 1] ELSE s[i]]
  <2>2. t[n + 1] \in Int /\ s[n] \in Int
    BY <2>1 DEF PartialSums
  <2>3. r \in [0..(n + 1) -> Int] /\ r[0] = 0
    BY <2>1, <2>2 DEF PartialSums
  <2>4. ASSUME NEW i \in 1..(n + 1) PROVE r[i] = t[i] + r[i - 1]
    BY <2>1, <2>2 DEF PartialSums
  <2>5. PartialSums(r, t, n + 1)
    BY <2>3, <2>4 DEF PartialSums
  <2> HIDE DEF r
  <2> QED BY <2>5
<1>3. \A n \in Nat : n \in S
  <2> HIDE DEF S
  <2> QED BY <1>1, <1>2, InductionOn
<1> QED BY <1>3

\* Total is the last of the partial sums.
LEMMA TotalIs ==
    ASSUME NEW n \in Nat, NEW t, NEW s, PartialSums(s, t, n)
    PROVE  Total(t, n) = s[n]
<1> DEFINE Def(f) == f = [i \in 0..n |-> IF i > 0 THEN t[i] + f[i - 1] ELSE 0]
           g == CHOOSE f : Def(f)
<1>1. Def(s)
  <2>1. s \in [0..n -> Int] /\ s[0] = 0
    BY DEF PartialSums
  <2>2. ASSUME NEW i \in 0..n
        PROVE  s[i] = IF i > 0 THEN t[i] + s[i - 1] ELSE 0
    <3>1. CASE i = 0
      BY <2>1, <3>1
    <3>2. CASE i \in 1..n
      <4>1. s[i] = t[i] + s[i - 1]
        BY <2>1, <3>2 DEF PartialSums
      <4> QED BY <3>2, <4>1
    <3> QED BY <3>1, <3>2
  <2> QED BY <2>1, <2>2
<1>2. Def(g)
  <2> HIDE DEF Def
  <2> QED BY <1>1
<1>3. Total(t, n) = g[n]
  BY DEF Total
<1> DEFINE S == {i \in Nat : i <= n => g[i] = s[i]}
<1> HIDE DEF g
<1>4. 0 \in S
  BY <1>2 DEF PartialSums
<1>5. ASSUME NEW i \in Nat, i \in S PROVE i + 1 \in S
  <2> SUFFICES ASSUME i + 1 <= n PROVE g[i + 1] = s[i + 1]
    OBVIOUS
  <2>1. i + 1 \in 1..n /\ i + 1 \in 0..n /\ i + 1 # 0 /\ (i + 1) - 1 = i /\ g[i] = s[i]
    BY <1>5
  <2>2. g[i + 1] = t[i + 1] + g[i]
    BY <1>2, <2>1
  <2> QED BY <2>1, <2>2 DEF PartialSums
<1>6. \A i \in Nat : i \in S
  <2> HIDE DEF S
  <2> QED BY <1>4, <1>5, InductionOn
<1> QED BY <1>3, <1>6

LEMMA TotalType ==
    ASSUME NEW n \in Nat, NEW t \in [1..n -> Int]
    PROVE  Total(t, n) \in Int
<1>1. PICK s : PartialSums(s, t, n)
  BY PartialSumsExist
<1>2. Total(t, n) = s[n] /\ s[n] \in Int
  <2>1. s \in [0..n -> Int] /\ n \in 0..n
    BY <1>1 DEF PartialSums
  <2> QED BY <1>1, <2>1, TotalIs
<1> QED BY <1>2

\* What is never negative does not sum to less than zero.
LEMMA TotalNat ==
    ASSUME NEW n \in Nat, NEW t \in [1..n -> Nat]
    PROVE  Total(t, n) \in Nat
<1>1. PICK s : PartialSums(s, t, n)
  BY PartialSumsExist
<1> DEFINE S == {i \in Nat : i <= n => s[i] \in Nat}
<1>2. 0 \in S
  BY <1>1 DEF PartialSums
<1>3. ASSUME NEW i \in Nat, i \in S PROVE i + 1 \in S
  <2> SUFFICES ASSUME i + 1 <= n PROVE s[i + 1] \in Nat
    OBVIOUS
  <2>1. i + 1 \in 1..n /\ (i + 1) - 1 = i /\ s[i] \in Nat
    BY <1>3
  <2>2. s[i + 1] = t[i + 1] + s[i] /\ t[i + 1] \in Nat
    BY <1>1, <2>1 DEF PartialSums
  <2> QED BY <2>1, <2>2
<1>4. \A i \in Nat : i \in S
  <2> HIDE DEF S
  <2> QED BY <1>2, <1>3, InductionOn
<1> QED BY <1>1, <1>4, TotalIs

\* A table that lies within the bounds of another sums to within its total.
LEMMA TotalWithin ==
    ASSUME NEW n \in Nat, NEW t \in [1..n -> Int], NEW u \in [1..n -> Nat],
           \A i \in 1..n : -u[i] <= t[i] /\ t[i] <= u[i]
    PROVE  -Total(u, n) <= Total(t, n) /\ Total(t, n) <= Total(u, n)
<1>0. u \in [1..n -> Int]
  OBVIOUS
<1>1. PICK s : PartialSums(s, t, n)
  BY PartialSumsExist
<1>2. PICK r : PartialSums(r, u, n)
  BY <1>0, PartialSumsExist
<1> DEFINE S == {i \in Nat : i <= n => -r[i] <= s[i] /\ s[i] <= r[i]}
<1>3. 0 \in S
  BY <1>1, <1>2 DEF PartialSums
<1>4. ASSUME NEW i \in Nat, i \in S PROVE i + 1 \in S
  <2> SUFFICES ASSUME i + 1 <= n PROVE -r[i + 1] <= s[i + 1] /\ s[i + 1] <= r[i + 1]
    OBVIOUS
  <2>1. /\ i + 1 \in 1..n /\ i \in 0..n /\ (i + 1) - 1 = i
        /\ -r[i] <= s[i] /\ s[i] <= r[i]
    BY <1>4
  <2>2. /\ s[i + 1] = t[i + 1] + s[i] /\ r[i + 1] = u[i + 1] + r[i]
        /\ s[i] \in Int /\ r[i] \in Int
    BY <1>1, <1>2, <2>1 DEF PartialSums
  <2>3. t[i + 1] \in Int /\ u[i + 1] \in Int /\ -u[i + 1] <= t[i + 1] /\ t[i + 1] <= u[i + 1]
    BY <2>1
  <2> DEFINE a == s[i]
             b == r[i]
             c == t[i + 1]
             d == u[i + 1]
  <2>4. a \in Int /\ b \in Int /\ c \in Int /\ d \in Int /\ -b <= a /\ a <= b /\ -d <= c /\ c <= d
    BY <2>1, <2>2, <2>3
  <2> HIDE DEF a, b, c, d
  <2>5. -(d + b) <= c + a /\ c + a <= d + b
    BY ONLY <2>4
  <2> QED BY ONLY <2>2, <2>5 DEF a, b, c, d
<1>5. \A i \in Nat : i \in S
  <2> HIDE DEF S
  <2> QED BY <1>3, <1>4, InductionOn
<1>6. Total(t, n) = s[n] /\ Total(u, n) = r[n]
  BY <1>1, <1>2, TotalIs
<1> QED BY <1>5, <1>6

\* Changing one entry changes the total by as much.
LEMMA TotalUpdate ==
    ASSUME NEW n \in Nat, NEW t \in [1..n -> Int], NEW u \in [1..n -> Int],
           NEW k \in 1..n, \A i \in 1..n : i # k => u[i] = t[i]
    PROVE  Total(u, n) = Total(t, n) - t[k] + u[k]
<1>1. PICK s : PartialSums(s, t, n)
  BY PartialSumsExist
<1> DEFINE r == [i \in 0..n |-> IF i < k THEN s[i] ELSE s[i] - t[k] + u[k]]
<1>2. s \in [0..n -> Int] /\ t[k] \in Int /\ u[k] \in Int
  BY <1>1 DEF PartialSums
<1>3. r \in [0..n -> Int] /\ r[0] = 0
  <2>1. ASSUME NEW i \in 0..n PROVE r[i] \in Int
    <3>1. s[i] \in Int
      BY <1>2
    <3> QED BY <1>2, <3>1
  <2>2. r[0] = s[0] /\ s[0] = 0
    BY <1>1 DEF PartialSums
  <2> QED BY <2>1, <2>2
<1>4. ASSUME NEW i \in 1..n PROVE r[i] = u[i] + r[i - 1]
  <2>1. s[i] = t[i] + s[i - 1] /\ i - 1 \in 0..n /\ i \in 0..n
    BY <1>1 DEF PartialSums
  <2>2. s[i] \in Int /\ s[i - 1] \in Int /\ t[i] \in Int /\ u[i] \in Int
    BY <1>2, <2>1
  <2>3. CASE i < k
    BY <1>2, <2>1, <2>2, <2>3
  <2>4. CASE i = k
    BY <1>2, <2>1, <2>2, <2>4
  <2>5. CASE i > k
    BY <1>2, <2>1, <2>2, <2>5
  <2> QED BY <2>3, <2>4, <2>5
<1>5. PartialSums(r, u, n)
  BY <1>3, <1>4 DEF PartialSums
<1>6. r[n] = s[n] - t[k] + u[k]
  OBVIOUS
<1> HIDE DEF r
<1>7. Total(u, n) = r[n] /\ Total(t, n) = s[n]
  BY <1>1, <1>5, TotalIs
<1> QED BY <1>6, <1>7

\* A new last entry is added to the total.
LEMMA TotalAppend ==
    ASSUME NEW n \in Nat, NEW t \in [1..n -> Int], NEW u \in [1..(n + 1) -> Int],
           \A i \in 1..n : u[i] = t[i]
    PROVE  Total(u, n + 1) = Total(t, n) + u[n + 1]
<1>1. PICK s : PartialSums(s, t, n)
  BY PartialSumsExist
<1>2. PICK r : PartialSums(r, u, n + 1)
  <2>1. n + 1 \in Nat /\ n + 1 \in 0..(n + 1)
    OBVIOUS
  <2> QED BY <2>1, PartialSumsExist
<1> DEFINE q == [i \in 0..n |-> r[i]]
<1>3. PartialSums(q, t, n)
  BY <1>2 DEF PartialSums
<1>4. q[n] = r[n] /\ r[n + 1] = r[n] + u[n + 1]
  BY <1>2 DEF PartialSums
<1> HIDE DEF q
<1>5. Total(t, n) = q[n]
  BY <1>3, TotalIs
<1>6. Total(u, n + 1) = r[n + 1]
  <2>1. n + 1 \in Nat
    OBVIOUS
  <2> QED BY <1>2, <2>1, TotalIs
<1> QED BY <1>4, <1>5, <1>6

\* Only the entries up to n count.
LEMMA TotalSame ==
    ASSUME NEW n \in Nat, NEW t \in [1..n -> Int], NEW u,
           \A i \in 1..n : u[i] = t[i]
    PROVE  Total(u, n) = Total(t, n)
<1>1. PICK s : PartialSums(s, t, n)
  BY PartialSumsExist
<1>2. PartialSums(s, u, n)
  BY <1>1 DEF PartialSums
<1> QED BY <1>1, <1>2, TotalIs

\* An empty table sums to zero.
LEMMA TotalEmpty == ASSUME NEW t PROVE Total(t, 0) = 0
<1> DEFINE z == [i \in 0..0 |-> 0]
<1>1. PartialSums(z, t, 0) /\ z[0] = 0
  BY DEF PartialSums
<1> HIDE DEF z
<1> QED BY <1>1, TotalIs

\* Taking one table from another takes its total.
LEMMA TotalMinus ==
    ASSUME NEW n \in Nat, NEW t \in [1..n -> Int], NEW v \in [1..n -> Int],
           NEW u, \A i \in 1..n : u[i] = t[i] - v[i]
    PROVE  Total(u, n) = Total(t, n) - Total(v, n)
<1>1. PICK s : PartialSums(s, t, n)
  BY PartialSumsExist
<1>2. PICK r : PartialSums(r, v, n)
  BY PartialSumsExist
<1> DEFINE d == [i \in 0..n |-> s[i] - r[i]]
<1>3. /\ s \in [0..n -> Int] /\ r \in [0..n -> Int]
      /\ s[0] = 0 /\ r[0] = 0
      /\ \A i \in 1..n : s[i] = t[i] + s[i - 1] /\ r[i] = v[i] + r[i - 1]
  BY <1>1, <1>2 DEF PartialSums
<1>4. d \in [0..n -> Int] /\ d[0] = 0
  BY <1>3
<1>5. ASSUME NEW i \in 1..n PROVE d[i] = u[i] + d[i - 1]
  <2>1. i \in 0..n /\ i - 1 \in 0..n
    OBVIOUS
  <2>2. d[i] = s[i] - r[i] /\ d[i - 1] = s[i - 1] - r[i - 1]
    BY <2>1
  <2>3. /\ s[i - 1] \in Int /\ r[i - 1] \in Int /\ t[i] \in Int /\ v[i] \in Int
        /\ u[i] = t[i] - v[i]
    BY <1>3, <2>1
  <2> HIDE DEF d
  <2> QED BY <1>3, <2>2, <2>3
<1>6. PartialSums(d, u, n)
  BY <1>4, <1>5 DEF PartialSums
<1>7. d[n] = s[n] - r[n]
  OBVIOUS
<1> HIDE DEF d
<1> QED BY <1>1, <1>2, <1>6, <1>7, TotalIs
==============================================================================
