---------------------------- MODULE DriverProofs -----------------------------
(***************************************************************************)
(* What holds of the timing of the malloc driver for any word size of the  *)
(* cycle counter, any K, MaxSamples and epsilon, any traces and any        *)
(* package: the K-best scheme keeps the smallest samples, in order, and    *)
(* what fcyc returns is their minimum.                                     *)
(***************************************************************************)
EXTENDS Driver, TLAPS, FiniteSetTheorems, WellFoundedInduction

-----------------------------------------------------------------------------
(* The cycle counter. *)

\* Quotient and remainder are determined by what they add up to.
LEMMA Euclid ==
  ASSUME NEW W \in Nat \ {0}, NEW a \in Int, NEW q \in Int, NEW r \in 0 .. W - 1,
         a = q * W + r
  PROVE  a \div W = q /\ a % W = r
  BY Z3

\* Quotient and remainder of a number below W * W are words.
LEMMA TwoWords ==
  ASSUME NEW W \in Nat \ {0}, NEW c \in 0 .. W * W - 1
  PROVE  \E h, l \in 0 .. W - 1 : c = h * W + l
<1> DEFINE h == c \div W
           l == c % W
<1>1. h \in Int /\ l \in 0 .. W - 1 /\ c = (h * W) + l
  BY Z3
<1> HIDE DEF h, l
<1>2. h >= 0
  <2> SUFFICES ASSUME h <= -1 PROVE FALSE
    BY <1>1
  <2>1. h * W <= (-1) * W
    BY <1>1, Z3
  <2> QED BY <1>1, <2>1
<1>3. h <= W - 1
  <2> SUFFICES ASSUME h >= W PROVE FALSE
    BY <1>1
  <2>1. h * W >= W * W
    BY <1>1, Z3
  <2> QED BY <1>1, <2>1
<1> QED BY <1>1, <1>2, <1>3

\* A word modulo the size of a word, and one or two words too far.
LEMMA WrapsOnce ==
  ASSUME NEW W \in Nat \ {0}, NEW r \in 0 .. W - 1
  PROVE  r % W = r /\ (r + W) % W = r /\ (r - W) % W = r
<1>1. r = 0 * W + r /\ r + W = 1 * W + r /\ r - W = (-1) * W + r
  OBVIOUS
<1> QED BY <1>1, Euclid

Words2 == [hi : 0 .. Word - 1, lo : 0 .. Word - 1]

\* access_counter gives two words.
LEMMA CounterWords ==
  ASSUME NEW n \in Nat
  PROVE  access_counter(n) \in Words2
<1>1. n % Word \in 0 .. Word - 1 /\ n \div Word \in Int
  BY FcycAssumption, Z3
<1>2. (n \div Word) % Word \in 0 .. Word - 1
  BY <1>1, FcycAssumption, Z3
<1> QED BY <1>1, <1>2 DEF access_counter, Words2

\* The difference of two high words, one modulo the size of a word.
LEMMA HighWord ==
  ASSUME NEW W \in Nat \ {0}, NEW x \in 0 .. W - 1, NEW h \in 0 .. W - 1, NEW b \in 0 .. 1
  PROVE  (((x + h + b) % W) - x - b) % W = h
<1>1. CASE x + h + b < W
  <2>1. (x + h + b) % W = x + h + b
    BY <1>1, WrapsOnce
  <2> QED BY <2>1, WrapsOnce
<1>2. CASE x + h + b >= W
  <2>1. x + h + b - W \in 0 .. W - 1 /\ (x + h + b - W) + W = x + h + b
    BY <1>2
  <2>2. (x + h + b) % W = x + h + b - W
    BY <2>1, WrapsOnce
  <2>3. (x + h + b - W) - x - b = h - W
    OBVIOUS
  <2> QED BY <2>2, <2>3, WrapsOnce
<1> QED BY <1>1, <1>2

\* The subtraction of two readings, word by word with a borrow, gives the cycles that
\* passed between them, although the counter may wrap.
LEMMA CounterExact ==
  ASSUME cyc \in Words2, NEW c \in 0 .. Word * Word - 1
  PROVE  get_counter(access_counter(cyc.hi * Word + cyc.lo + c)) = c
<1> DEFINE W == Word
           x == cyc.hi
           y == cyc.lo
           s == x * W + y + c
<1>1. W \in Nat \ {0} /\ x \in 0 .. W - 1 /\ y \in 0 .. W - 1
  BY FcycAssumption DEF Words2
<1>2. PICK h \in 0 .. W - 1, l \in 0 .. W - 1 : c = h * W + l
  BY <1>1, TwoWords
<1> DEFINE b    == IF y + l >= W THEN 1 ELSE 0
           over == IF y + l >= W THEN W ELSE 0
<1>3. b \in 0 .. 1 /\ over \in Int /\ over = b * W /\ y + l - over \in 0 .. W - 1
  <2>1. CASE y + l >= W
    BY <1>1, <2>1
  <2>2. CASE ~(y + l >= W)
    BY <1>1, <2>2
  <2> QED BY <2>1, <2>2
<1> DEFINE q == x + h + b
           r == y + l - over
<1>4. s = q * W + r /\ s \in Int /\ q \in Int
  <2>1. (x + h + b) * W = x * W + h * W + b * W
    BY <1>1, <1>3, Z3
  <2>2. x * W \in Int /\ h * W \in Int
    BY <1>1, Z3
  <2> QED BY <1>1, <1>2, <1>3, <2>1, <2>2
<1>5. s \div W = q /\ s % W = r
  <2>1. r \in 0 .. W - 1
    BY <1>3
  <2> HIDE DEF s, W, q, r
  <2> QED BY <1>1, <1>4, <2>1, Euclid
<1> HIDE DEF s, W, x, y
<1> DEFINE now == access_counter(s)
<1>6. now.hi = (x + h + b) % W /\ now.lo = y + l - over
  BY <1>5 DEF access_counter, W
<1> HIDE DEF now
<1>7. (now.lo - y) % W = l
  <2>1. CASE y + l >= W
    BY <1>1, <1>6, <2>1, WrapsOnce
  <2>2. CASE ~(y + l >= W)
    BY <1>1, <1>6, <2>2, WrapsOnce
  <2> QED BY <2>1, <2>2
<1>8. (IF l > now.lo THEN 1 ELSE 0) = b
  BY <1>1, <1>3, <1>6
<1>9. (now.hi - x - b) % W = h
  <2>1. b \in 0 .. 1
    BY <1>3
  <2> HIDE DEF b
  <2>2. (((x + h + b) % W) - x - b) % W = h
    BY <1>1, <2>1, HighWord
  <2> QED BY <1>6, <2>2
<1>10. get_counter(now) = h * W + l
  BY <1>7, <1>8, <1>9 DEF get_counter, W, x, y
<1> QED BY <1>2, <1>10 DEF now, s, W, x, y

-----------------------------------------------------------------------------
(* Counting the samples below a value. *)

Under(s, v) == {j \in 1 .. Len(s) : s[j] < v}
UpTo(s, v)  == {j \in 1 .. Len(s) : s[j] <= v}

\* Both are sets of at most Len(s) positions, and the larger the value, the more.
LEMMA Counts ==
  ASSUME NEW s \in Seq(Nat), NEW v \in Nat, NEW w \in Nat, v <= w
  PROVE  /\ Cardinality(Under(s, v)) \in 0 .. Len(s)
         /\ Cardinality(UpTo(s, v)) \in 0 .. Len(s)
         /\ IsFiniteSet(Under(s, v)) /\ IsFiniteSet(UpTo(s, v))
         /\ Cardinality(Under(s, v)) <= Cardinality(Under(s, w))
         /\ Cardinality(UpTo(s, v)) <= Cardinality(UpTo(s, w))
<1>1. Len(s) \in Nat /\ \A j \in 1 .. Len(s) : s[j] \in Nat
  OBVIOUS
<1>2. IsFiniteSet(1 .. Len(s)) /\ Cardinality(1 .. Len(s)) = Len(s)
  BY <1>1, FS_Interval
<1>3. \A x \in Nat : /\ Under(s, x) \in SUBSET (1 .. Len(s))
                     /\ UpTo(s, x) \in SUBSET (1 .. Len(s))
  BY DEF Under, UpTo
<1>4. \A x \in Nat : /\ IsFiniteSet(Under(s, x)) /\ Cardinality(Under(s, x)) <= Len(s)
                     /\ IsFiniteSet(UpTo(s, x)) /\ Cardinality(UpTo(s, x)) <= Len(s)
  BY <1>2, <1>3, FS_Subset
<1>5. \A x \in Nat : Cardinality(Under(s, x)) \in Nat /\ Cardinality(UpTo(s, x)) \in Nat
  BY <1>4, FS_CardinalityType
<1>6. Under(s, v) \in SUBSET Under(s, w) /\ UpTo(s, v) \in SUBSET UpTo(s, w)
  BY <1>1 DEF Under, UpTo
<1>7. /\ Cardinality(Under(s, v)) <= Cardinality(Under(s, w))
      /\ Cardinality(UpTo(s, v)) <= Cardinality(UpTo(s, w))
  BY <1>4, <1>6, FS_Subset
<1> QED BY <1>1, <1>4, <1>5, <1>7

\* Both counts are natural numbers.
LEMMA Counted ==
  ASSUME NEW s \in Seq(Nat), NEW x \in Nat
  PROVE  /\ Cardinality(Under(s, x)) \in Nat /\ Cardinality(UpTo(s, x)) \in Nat
         /\ Cardinality(Under(s, x)) <= Len(s)
<1>1. x <= x /\ Len(s) \in Nat
  OBVIOUS
<1>2. /\ Cardinality(Under(s, x)) \in 0 .. Len(s)
      /\ Cardinality(UpTo(s, x)) \in 0 .. Len(s)
  BY <1>1, Counts
<1> QED BY <1>1, <1>2

\* One more sample counts once if it is small enough.
LEMMA OneMore ==
  ASSUME NEW s \in Seq(Nat), NEW c \in Nat, NEW v \in Nat
  PROVE  /\ Cardinality(Under(Append(s, c), v)) =
              IF c < v THEN Cardinality(Under(s, v)) + 1 ELSE Cardinality(Under(s, v))
         /\ Cardinality(UpTo(Append(s, c), v)) =
              IF c <= v THEN Cardinality(UpTo(s, v)) + 1 ELSE Cardinality(UpTo(s, v))
<1> DEFINE a == Append(s, c)
           z == Len(s) + 1
<1>1. Len(s) \in Nat /\ Len(a) = z /\ a[z] = c /\ \A j \in 1 .. Len(s) : a[j] = s[j]
  OBVIOUS
<1>2. IsFiniteSet(Under(s, v)) /\ IsFiniteSet(UpTo(s, v))
  BY Counts
<1>3. z \notin Under(s, v) /\ z \notin UpTo(s, v)
  BY <1>1 DEF Under, UpTo
<1> HIDE DEF a, z
<1>4. 1 .. z = (1 .. Len(s)) \cup {z} /\ z \notin 1 .. Len(s)
  BY <1>1 DEF z
<1>5. /\ c < v => Under(a, v) = Under(s, v) \cup {z}
      /\ ~(c < v) => Under(a, v) = Under(s, v)
  BY <1>1, <1>4 DEF Under
<1>6. /\ c <= v => UpTo(a, v) = UpTo(s, v) \cup {z}
      /\ ~(c <= v) => UpTo(a, v) = UpTo(s, v)
  BY <1>1, <1>4 DEF UpTo
<1>7. /\ Cardinality(Under(s, v) \cup {z}) = Cardinality(Under(s, v)) + 1
      /\ Cardinality(UpTo(s, v) \cup {z}) = Cardinality(UpTo(s, v)) + 1
  BY <1>2, <1>3, FS_AddElement
<1>8. /\ Cardinality(Under(a, v)) =
           IF c < v THEN Cardinality(Under(s, v)) + 1 ELSE Cardinality(Under(s, v))
      /\ Cardinality(UpTo(a, v)) =
           IF c <= v THEN Cardinality(UpTo(s, v)) + 1 ELSE Cardinality(UpTo(s, v))
  BY <1>5, <1>6, <1>7
<1> QED BY <1>8 DEF a

-----------------------------------------------------------------------------
(* The sampler. *)

\* The samples kept: all of them until there are K.
Kept(s) == IF Len(s) < K THEN Len(s) ELSE K

Ordered(vals, n) == \A j, m \in 1 .. n : j <= m => vals[j] <= vals[m]

\* v is the j-th smallest of the samples.
Rank(s, v, j) == Cardinality(Under(s, v)) < j /\ j <= Cardinality(UpTo(s, v))

Smallest(vals, s) == \A j \in 1 .. Kept(s) : Rank(s, vals[j], j)

\* Insertion sort stops somewhere: at the last value that is not larger, or in front.
LEMMA Stops ==
  ASSUME NEW pos \in 1 .. K, NEW val \in Nat, values \in [1 .. K -> Nat]
  PROVE  \E k \in 0 .. pos - 1 : /\ k = 0 \/ values[k] <= val
                                 /\ \A m \in k + 1 .. pos - 1 : values[m] > val
<1> DEFINE Good(j) == j = 0 \/ values[j] <= val
           D == {d \in Nat : d <= pos - 1 /\ Good(pos - 1 - d)}
<1>1. pos \in Nat /\ K \in Nat /\ pos <= K /\ 1 <= pos
  BY FcycAssumption
<1>2. pos - 1 \in D
  BY <1>1
<1>3. PICK d \in D : \A e \in D : ~ (<<e, d>> \in OpToRel(<, Nat))
  BY <1>2, WFMin, NatLessThanWellFounded
<1>4. ASSUME NEW e \in D PROVE d <= e
  <2>1. e \in Nat /\ d \in Nat
    OBVIOUS
  <2>2. ~(e < d)
    BY <1>3, <2>1 DEF OpToRel
  <2> QED BY <2>1, <2>2
<1> DEFINE k == pos - 1 - d
<1>5. k \in 0 .. pos - 1 /\ Good(k)
  BY <1>1
<1>6. ASSUME NEW m \in k + 1 .. pos - 1 PROVE values[m] > val
  <2> SUFFICES ASSUME ~(values[m] > val) PROVE FALSE
    OBVIOUS
  <2>1. m \in 1 .. K /\ m \in Nat
    BY <1>1, <1>5
  <2>2. values[m] <= val
    BY <2>1
  <2>3. pos - 1 - m \in Nat /\ pos - 1 - (pos - 1 - m) = m /\ pos - 1 - m <= pos - 1
    BY <1>1, <2>1
  <2>4. pos - 1 - m \in D
    BY <2>2, <2>3
  <2>5. d <= pos - 1 - m
    BY <1>4, <2>4
  <2> QED BY <1>1, <2>1, <2>5
<1> QED BY <1>5, <1>6

\* What a value that is put into its place does to the ranks: pos is the last place
\* that is kept then, and a value that falls out is larger than the new one.
LEMMA Settles ==
  ASSUME NEW pos \in 1 .. K, NEW c \in Nat, values \in [1 .. K -> Nat], elapsed \in Seq(Nat),
         Ordered(values, Kept(elapsed)), Smallest(values, elapsed),
         \/ pos = Len(elapsed) + 1
         \/ pos = K /\ K <= Len(elapsed) /\ c < values[K]
  PROVE  /\ Settled(pos, c) \in [1 .. K -> Nat]
         /\ Ordered(Settled(pos, c), pos)
         /\ \A j \in 1 .. pos : Rank(Append(elapsed, c), Settled(pos, c)[j], j)
<1> DEFINE Stop(j) == /\ j = 0 \/ values[j] <= c
                      /\ \A m \in j + 1 .. pos - 1 : values[m] > c
           k == CHOOSE j \in 0 .. pos - 1 : Stop(j)
           v == Settled(pos, c)
           s == elapsed
           a == Append(elapsed, c)
           kept == Kept(elapsed)
<1>1. pos \in Nat /\ K \in Nat /\ pos <= K /\ 1 <= pos /\ Len(s) \in Nat
  BY FcycAssumption
<1>2. \E j \in 0 .. pos - 1 : Stop(j)
  BY Stops
<1>3. k \in 0 .. pos - 1 /\ Stop(k)
  <2> HIDE DEF Stop
  <2> QED BY <1>2
<1>4. v = [j \in 1 .. K |-> IF j <= k \/ j > pos THEN values[j]
                            ELSE IF j = k + 1 THEN c ELSE values[j - 1]]
  BY DEF Settled
<1>5. /\ kept \in Nat /\ pos - 1 <= kept /\ kept <= pos
      /\ kept = pos => c < values[pos]
      /\ kept # pos => Len(s) = pos - 1
  BY <1>1 DEF Kept
<1> HIDE DEF k, v, kept, s, a
<1>6. k \in Nat /\ k < pos
  BY <1>1, <1>3
<1>7. \A j \in 1 .. K : /\ (j <= k \/ j > pos) => v[j] = values[j]
                        /\ j = k + 1 => v[j] = c
                        /\ (j > k + 1 /\ j <= pos) => v[j] = values[j - 1]
  BY <1>1, <1>4, <1>6
<1>8. v \in [1 .. K -> Nat]
  BY <1>1, <1>4, <1>6
<1>9. \A j, m \in 1 .. kept : j <= m => values[j] <= values[m]
  BY DEF Ordered, kept
<1>10. \A j \in 1 .. kept : Rank(s, values[j], j)
  BY DEF Smallest, kept, s
<1>11. \A j \in 1 .. k : values[j] <= c
  <2> SUFFICES ASSUME NEW j \in 1 .. k PROVE values[j] <= c
    OBVIOUS
  <2>1. values[j] <= values[k] /\ values[k] <= c
    BY <1>1, <1>3, <1>5, <1>6, <1>9
  <2>2. j \in 1 .. K /\ k \in 1 .. K
    BY <1>1, <1>6
  <2> QED BY <2>1, <2>2
<1>12. \A j \in k + 1 .. kept : values[j] > c
  BY <1>1, <1>3, <1>5, <1>6
<1>13. s \in Seq(Nat)
  BY DEF s
<1>14. \A x \in Nat : /\ Cardinality(Under(s, x)) \in Nat /\ Cardinality(UpTo(s, x)) \in Nat
                      /\ Cardinality(Under(s, x)) <= Len(s)
  BY <1>13, Counted
<1>15. ASSUME NEW j \in 1 .. pos PROVE Rank(a, v[j], j)
  <2> j \in Nat /\ j \in 1 .. K
    BY <1>1
  <2> v[j] \in Nat
    BY <1>8
  <2>1. /\ Cardinality(Under(s, v[j])) \in Nat /\ Cardinality(UpTo(s, v[j])) \in Nat
        /\ Cardinality(Under(s, v[j])) <= Len(s)
    BY <1>14
  <2>2. /\ Cardinality(Under(a, v[j])) =
             IF c < v[j] THEN Cardinality(Under(s, v[j])) + 1 ELSE Cardinality(Under(s, v[j]))
        /\ Cardinality(UpTo(a, v[j])) =
             IF c <= v[j] THEN Cardinality(UpTo(s, v[j])) + 1 ELSE Cardinality(UpTo(s, v[j]))
    BY <1>13, OneMore DEF a, s
  <2>3. CASE j <= k
    <3>1. j \in 1 .. kept /\ v[j] = values[j] /\ values[j] <= c
      BY <1>1, <1>5, <1>6, <1>7, <1>11, <2>3
    <3>2. Rank(s, v[j], j)
      BY <1>10, <3>1
    <3> QED BY <2>1, <2>2, <3>1, <3>2 DEF Rank
  <2>4. CASE j = k + 1
    <3>1. v[j] = c
      BY <1>7, <2>4
    <3>2. Cardinality(Under(s, c)) < j
      <4>1. CASE j <= kept
        <5>1. Rank(s, values[j], j) /\ c < values[j] /\ values[j] \in Nat
          BY <1>6, <1>10, <1>12, <2>4, <4>1
        <5>2. Cardinality(Under(s, c)) <= Cardinality(Under(s, values[j]))
          BY <1>13, <5>1, Counts
        <5>3. Cardinality(Under(s, values[j])) \in Nat
          BY <5>1, <1>14
        <5> QED BY <2>1, <3>1, <5>1, <5>2, <5>3 DEF Rank
      <4>2. CASE j > kept
        <5>1. Len(s) < j
          BY <1>1, <1>5, <1>6, <2>4, <4>2
        <5> QED BY <1>1, <2>1, <3>1, <5>1
      <4> QED BY <1>5, <4>1, <4>2
    <3>3. k <= Cardinality(UpTo(s, c))
      <4>1. CASE k = 0
        BY <2>1, <3>1, <4>1
      <4>2. CASE k # 0
        <5>1. k \in 1 .. kept /\ values[k] <= c /\ values[k] \in Nat
          BY <1>1, <1>5, <1>6, <1>11, <4>2
        <5>2. Rank(s, values[k], k)
          BY <1>10, <5>1
        <5>3. Cardinality(UpTo(s, values[k])) <= Cardinality(UpTo(s, c))
          BY <1>13, <5>1, Counts
        <5>4. Cardinality(UpTo(s, values[k])) \in Nat
          BY <5>1, <1>14
        <5> QED BY <1>6, <2>1, <3>1, <5>2, <5>3, <5>4 DEF Rank
      <4> QED BY <4>1, <4>2
    <3> QED BY <1>6, <2>1, <2>2, <2>4, <3>1, <3>2, <3>3 DEF Rank
  <2>5. CASE j > k + 1
    <3>1. j - 1 \in 1 .. kept /\ v[j] = values[j - 1] /\ values[j - 1] > c
      BY <1>1, <1>5, <1>6, <1>7, <1>12, <2>5
    <3>2. Rank(s, v[j], j - 1)
      BY <1>10, <3>1
    <3> QED BY <2>1, <2>2, <3>1, <3>2 DEF Rank
  <2> QED BY <1>6, <2>3, <2>4, <2>5
<1>16. Ordered(v, pos)
  <2> SUFFICES ASSUME NEW j \in 1 .. pos, NEW m \in 1 .. pos, j < m PROVE v[j] <= v[m]
    BY <1>1, <1>8 DEF Ordered
  <2> j \in 1 .. K /\ m \in 1 .. K /\ j \in Nat /\ m \in Nat
    BY <1>1
  <2> values[j] \in Nat /\ values[m] \in Nat
    OBVIOUS
  <2>1. CASE m <= k
    BY <1>5, <1>6, <1>7, <1>9, <2>1
  <2>2. CASE m = k + 1
    BY <1>6, <1>7, <1>11, <2>2
  <2>3. CASE m > k + 1
    <3>1. m - 1 \in 1 .. kept /\ m - 1 \in k + 1 .. kept /\ v[m] = values[m - 1] /\ values[m - 1] > c
      BY <1>1, <1>5, <1>6, <1>7, <1>12, <2>3
    <3>2. m - 1 \in 1 .. K /\ values[m - 1] \in Nat
      BY <1>1
    <3>3. CASE j <= k
      BY <1>5, <1>6, <1>7, <1>9, <3>1, <3>3
    <3>4. CASE j = k + 1
      BY <1>7, <3>1, <3>2, <3>4
    <3>5. CASE j > k + 1
      <4>1. j - 1 \in 1 .. kept /\ v[j] = values[j - 1] /\ j - 1 <= m - 1
        BY <1>1, <1>5, <1>6, <1>7, <3>5
      <4> QED BY <1>9, <3>1, <4>1
    <3> QED BY <1>6, <3>3, <3>4, <3>5
  <2> QED BY <1>6, <2>1, <2>2, <2>3
<1> QED BY <1>8, <1>15, <1>16 DEF v, a

\* The sampler holds the smallest of the cycles that were really spent, in order.
Sampler ==
  /\ values \in [1 .. K -> Nat] /\ elapsed \in Seq(Nat) /\ samplecount = Len(elapsed)
  /\ cyc \in Words2
  /\ Ordered(values, Kept(elapsed)) /\ Smallest(values, elapsed)

\* A sample that is not smaller than the values kept changes none of their ranks.
LEMMA TooLarge ==
  ASSUME Sampler, NEW c \in Nat, K <= Len(elapsed), ~(c < values[K])
  PROVE  \A j \in 1 .. K : Rank(Append(elapsed, c), values[j], j)
<1> SUFFICES ASSUME NEW j \in 1 .. K PROVE Rank(Append(elapsed, c), values[j], j)
  OBVIOUS
<1> DEFINE u == Cardinality(Under(elapsed, values[j]))
           w == Cardinality(UpTo(elapsed, values[j]))
<1>1. K \in Nat \ {0} /\ Len(elapsed) \in Nat /\ elapsed \in Seq(Nat) /\ j \in Nat
  BY FcycAssumption DEF Sampler
<1>2. Kept(elapsed) = K
  BY <1>1 DEF Kept
<1>3. values[j] \in Nat /\ values[K] \in Nat /\ values[j] <= values[K] /\ values[j] <= c
  BY <1>1, <1>2 DEF Sampler, Ordered
<1>4. Rank(elapsed, values[j], j)
  BY <1>2 DEF Sampler, Smallest
<1>5. u \in Nat /\ w \in Nat
  BY <1>1, <1>3, Counted
<1>6. /\ Cardinality(Under(Append(elapsed, c), values[j])) = IF c < values[j] THEN u + 1 ELSE u
      /\ Cardinality(UpTo(Append(elapsed, c), values[j])) = IF c <= values[j] THEN w + 1 ELSE w
  BY <1>1, <1>3, OneMore
<1>7. u < j /\ j <= w
  BY <1>4 DEF Rank
<1> HIDE DEF u, w
<1> QED BY <1>1, <1>3, <1>5, <1>6, <1>7 DEF Rank

\* add_sample keeps the sampler right.
LEMMA SampleAdded ==
  ASSUME Sampler, NEW c \in Cycles, Sampled(c)
  PROVE  Sampler'
<1>1. c \in 0 .. Word * Word - 1 /\ c \in Nat
  <2>1. c \in 0 .. Word * Word - 1
    BY DriverAssumption
  <2>2. Word * Word \in Int
    BY FcycAssumption, Z3
  <2> QED BY <2>1, <2>2
<1>2. get_counter(access_counter(cyc.hi * Word + cyc.lo + c)) = c
  BY <1>1, CounterExact DEF Sampler
<1>3. /\ values' = WithSample(c) /\ samplecount' = samplecount + 1
      /\ elapsed' = Append(elapsed, c) /\ cyc' = cyc
  BY <1>2 DEF Sampled, add_sample
<1>4. K \in Nat \ {0} /\ Len(elapsed) \in Nat /\ samplecount = Len(elapsed)
  BY FcycAssumption DEF Sampler
<1>5. elapsed' \in Seq(Nat) /\ Len(elapsed') = Len(elapsed) + 1 /\ samplecount' = Len(elapsed')
  BY <1>1, <1>3, <1>4 DEF Sampler
<1>6. /\ values' \in [1 .. K -> Nat] /\ Ordered(values', Kept(elapsed'))
      /\ \A j \in 1 .. Kept(elapsed') : Rank(elapsed', values'[j], j)
  <2>1. CASE samplecount < K
    <3> DEFINE pos == samplecount + 1
    <3>1. values' = Settled(pos, c) /\ pos \in 1 .. K /\ pos = Len(elapsed) + 1 /\ Kept(elapsed') = pos
      BY <1>3, <1>4, <1>5, <2>1 DEF WithSample, Kept
    <3> HIDE DEF pos
    <3>2. /\ Settled(pos, c) \in [1 .. K -> Nat] /\ Ordered(Settled(pos, c), pos)
          /\ \A j \in 1 .. pos : Rank(Append(elapsed, c), Settled(pos, c)[j], j)
      BY <1>1, <3>1, Settles DEF Sampler
    <3> QED BY <1>3, <3>1, <3>2
  <2>2. CASE ~(samplecount < K) /\ c < values[K]
    <3>1. values' = Settled(K, c) /\ K \in 1 .. K /\ K <= Len(elapsed) /\ Kept(elapsed') = K
      BY <1>3, <1>4, <1>5, <2>2 DEF WithSample, Kept
    <3>2. /\ Settled(K, c) \in [1 .. K -> Nat] /\ Ordered(Settled(K, c), K)
          /\ \A j \in 1 .. K : Rank(Append(elapsed, c), Settled(K, c)[j], j)
      BY <1>1, <2>2, <3>1, Settles DEF Sampler
    <3> QED BY <1>3, <3>1, <3>2
  <2>3. CASE ~(samplecount < K) /\ ~(c < values[K])
    <3>1. values' = values /\ K <= Len(elapsed) /\ Kept(elapsed') = K /\ Kept(elapsed) = K
      BY <1>3, <1>4, <1>5, <2>3 DEF WithSample, Kept
    <3>2. \A j \in 1 .. K : Rank(Append(elapsed, c), values[j], j)
      BY <1>1, <2>3, <3>1, TooLarge
    <3> QED BY <1>3, <3>1, <3>2 DEF Sampler
  <2> QED BY <2>1, <2>2, <2>3
<1>7. Smallest(values, elapsed)'
  BY <1>6 DEF Smallest
<1> QED BY <1>3, <1>5, <1>6, <1>7 DEF Sampler

-----------------------------------------------------------------------------
(* What fcyc has returned. *)

Running  == {"open", "read", "valid?", "valid", "done", "util?", "util", "time?", "sample?",
             "speed", "libc"}
Places   == Running \cup {"options", "free", "report", "exit"}
Packages == {"none", "mm", "libc", "scored", "zero"}
Phases   == [at : Places, package : Packages]

\* The time of the trace at hand is the first value of the sampler, confirmed unless
\* all samples were taken.
Returned ==
  stats[t].secs # 0 =>
    /\ stats[t].secs = values[1] /\ Len(elapsed) >= 1
    /\ Len(elapsed) < MaxSamples => has_converged(values, Len(elapsed))

\* The traces behind the one at hand have not been timed, nor has that one while it is
\* being replayed.
Timed ==
  /\ phase \in Phases
  /\ Len(files) \in Nat /\ DOMAIN files = 1 .. Len(files) /\ t \in DOMAIN files
  /\ phase.at = "options" => t = 1
  /\ phase.at \notin {"options", "exit"} =>
       DOMAIN stats = DOMAIN files /\ \A n \in DOMAIN files : "secs" \in DOMAIN stats[n]
  /\ phase.at \in Running => \A n \in DOMAIN files : n >= t => stats[n].secs = 0
  /\ phase.at = "free" => Returned /\ \A n \in DOMAIN files : n > t => stats[n].secs = 0

TimeInv == Sampler /\ Timed

\* The values are ranked, so the first is the minimum and K samples are near it once
\* the sampler has converged.
LEMMA TimeInvKBest ==
  ASSUME TimeInv
  PROVE  KBest
<1> DEFINE s == elapsed
           n == Len(elapsed)
<1>1. /\ K \in Nat \ {0} /\ n \in Nat /\ MaxSamples \in Nat /\ K <= MaxSamples /\ Epsilon \in Nat
      /\ s \in Seq(Nat) /\ values \in [1 .. K -> Nat] /\ samplecount = n
  BY FcycAssumption DEF TimeInv, Sampler
<1>2. \A j \in 1 .. Kept(s) : Rank(s, values[j], j)
  BY DEF TimeInv, Sampler, Smallest
<1>3. ASSUME phase.at = "free", stats[t].secs # 0
      PROVE  /\ \A j \in 1 .. n : stats[t].secs <= elapsed[j]
             /\ n < MaxSamples => K <= Cardinality({j \in 1 .. n :
                                     100 * elapsed[j] <= (100 + Epsilon) * stats[t].secs})
  <2>1. /\ stats[t].secs = values[1] /\ n >= 1
        /\ n < MaxSamples => has_converged(values, n)
    BY <1>3 DEF TimeInv, Timed, Returned
  <2>2. 1 \in 1 .. Kept(s) /\ 1 \in 1 .. K /\ values[1] \in Nat
    BY <1>1, <2>1 DEF Kept
  <2>3. Under(s, values[1]) = {}
    <3>1. Cardinality(Under(s, values[1])) < 1
      BY <1>2, <2>2 DEF Rank
    <3>2. /\ IsFiniteSet(Under(s, values[1])) /\ values[1] <= values[1]
          /\ Cardinality(Under(s, values[1])) \in 0 .. Len(s)
      BY <1>1, <2>2, Counts
    <3>3. Cardinality(Under(s, values[1])) = 0
      BY <1>1, <3>1, <3>2
    <3> QED BY <3>2, <3>3, FS_EmptySet
  <2>4. ASSUME NEW j \in 1 .. n PROVE stats[t].secs <= elapsed[j]
    <3>1. ~(elapsed[j] < values[1])
      BY <2>3 DEF Under
    <3>2. elapsed[j] \in Nat
      BY <1>1
    <3> QED BY <2>1, <2>2, <3>1, <3>2
  <2>5. ASSUME n < MaxSamples
        PROVE  K <= Cardinality({j \in 1 .. n : 100 * elapsed[j] <= (100 + Epsilon) * stats[t].secs})
    <3> DEFINE near == {j \in 1 .. n : 100 * elapsed[j] <= (100 + Epsilon) * stats[t].secs}
               bound == (100 + Epsilon) * stats[t].secs
    <3>1. K <= n /\ bound >= 100 * values[K] /\ values[K] \in Nat /\ bound \in Int
      <4>1. n >= K /\ (100 + Epsilon) * values[1] >= 100 * values[K]
        BY <2>1, <2>5 DEF has_converged
      <4>2. (100 + Epsilon) * values[1] \in Int
        BY <1>1, <2>2, Z3
      <4> QED BY <1>1, <2>1, <4>1, <4>2
    <3>2. K \in 1 .. Kept(s)
      BY <1>1, <3>1 DEF Kept
    <3>3. K <= Cardinality(UpTo(s, values[K]))
      BY <1>2, <3>2 DEF Rank
    <3> HIDE DEF bound
    <3>4. UpTo(s, values[K]) \in SUBSET near
      <4> SUFFICES ASSUME NEW j \in UpTo(s, values[K]) PROVE j \in near
        OBVIOUS
      <4>1. j \in 1 .. n /\ elapsed[j] \in Nat /\ elapsed[j] <= values[K]
        BY <1>1 DEF UpTo
      <4>2. 100 * elapsed[j] <= bound
        BY <3>1, <4>1
      <4> QED BY <4>1, <4>2 DEF bound
    <3>5. near \in SUBSET (1 .. n)
      OBVIOUS
    <3> HIDE DEF near
    <3>6. IsFiniteSet(1 .. n)
      BY <1>1, FS_Interval
    <3>7. IsFiniteSet(near)
      BY <3>5, <3>6, FS_Subset
    <3>8. Cardinality(UpTo(s, values[K])) <= Cardinality(near)
      BY <3>4, <3>7, FS_Subset
    <3>9. Cardinality(near) \in Nat /\ Cardinality(UpTo(s, values[K])) \in Nat
      BY <3>4, <3>7, FS_Subset, FS_CardinalityType
    <3>10. K <= Cardinality(near)
      BY <1>1, <3>3, <3>8, <3>9
    <3> QED BY <3>10 DEF near
  <2> QED BY <2>4, <2>5
<1>4. \A j \in 1 .. (IF n < K THEN n ELSE K) :
        /\ Cardinality({m \in 1 .. n : elapsed[m] < values[j]}) < j
        /\ j <= Cardinality({m \in 1 .. n : elapsed[m] <= values[j]})
  BY <1>2 DEF Kept, Rank, Under, UpTo
<1> QED BY <1>1, <1>3, <1>4 DEF KBest

\* phase moves to another place.
LEMMA PhaseMoves ==
  ASSUME phase \in Phases, NEW p \in Places
  PROVE  /\ [phase EXCEPT !.at = p] \in Phases
         /\ [phase EXCEPT !.at = p].at = p
  BY DEF Phases

\* A step that times nothing and does not leave a trace: it may go on to any place while
\* a trace is replayed, or end the driver.
LEMMA NotTimed ==
  ASSUME Timed, phase.at # "free", files' = files, t' = t,
         \/ stats' = stats
         \/ /\ DOMAIN stats' = DOMAIN stats
            /\ \A n \in DOMAIN stats : "secs" \in DOMAIN stats'[n] /\ stats'[n].secs = stats[n].secs,
         \/ phase' = phase
         \/ phase' \in Phases /\ phase'.at = "exit"
         \/ phase' \in Phases /\ phase.at \in Running /\ phase'.at \in Running \cup {"free", "report"}
  PROVE  Timed'
<1>1. CASE phase' = phase
  BY <1>1 DEF Timed, Running
<1>2. CASE phase' \in Phases /\ phase'.at = "exit"
  BY <1>2 DEF Timed, Running
<1>3. CASE phase' \in Phases /\ phase.at \in Running /\ phase'.at \in Running \cup {"free", "report"}
  <2>1. \A n \in DOMAIN files : n >= t => stats[n].secs = 0
    BY <1>3 DEF Timed
  <2>2. /\ DOMAIN stats = DOMAIN files /\ DOMAIN files \subseteq Nat /\ t \in DOMAIN files
        /\ \A n \in DOMAIN files : "secs" \in DOMAIN stats[n]
    BY <1>3 DEF Timed, Running
  <2>3. /\ DOMAIN stats' = DOMAIN files'
        /\ \A n \in DOMAIN files' : "secs" \in DOMAIN stats'[n] /\ stats'[n].secs = stats[n].secs
    BY <2>2
  <2>4. \A n \in DOMAIN files' : n >= t' => stats'[n].secs = 0
    BY <2>1, <2>3
  <2>5. \A n \in DOMAIN files' : n > t' => n >= t'
    BY <2>2
  <2>6. stats'[t'].secs = 0
    BY <2>2, <2>4
  <2>7. Returned'
    BY <2>6 DEF Returned
  <2>8. /\ Len(files') \in Nat /\ DOMAIN files' = 1 .. Len(files') /\ t' \in DOMAIN files'
        /\ phase'.at # "options"
    BY <1>3 DEF Timed, Running
  <2> QED BY <1>3, <2>3, <2>4, <2>5, <2>7, <2>8 DEF Timed
<1> QED BY <1>1, <1>2, <1>3

\* A sampler nobody touches stays right.
LEMMA SamplerKept ==
  ASSUME Sampler, UNCHANGED timeVars
  PROVE  Sampler'
  BY DEF Sampler, timeVars, Ordered, Smallest, Kept, Rank, Under, UpTo

\* A field of the statistics other than the time changes.
LEMMA OtherField ==
  ASSUME NEW S, NEW n \in DOMAIN S, NEW v, \A x \in DOMAIN S : "secs" \in DOMAIN S[x]
  PROVE  LET T == [S EXCEPT ![n].valid = v]
             U == [S EXCEPT ![n].util = v]
             V == [S EXCEPT ![n].broken = v]
         IN  /\ DOMAIN T = DOMAIN S /\ DOMAIN U = DOMAIN S /\ DOMAIN V = DOMAIN S
             /\ \A x \in DOMAIN S : /\ "secs" \in DOMAIN T[x] /\ T[x].secs = S[x].secs
                                    /\ "secs" \in DOMAIN U[x] /\ U[x].secs = S[x].secs
                                    /\ "secs" \in DOMAIN V[x] /\ V[x].secs = S[x].secs
  OBVIOUS

\* The options and the trace file do not touch the times.
LEMMA ReadingStep ==
  ASSUME TimeInv, Option \/ OpenTrace \/ ReadLine \/ TraceRead
  PROVE  TimeInv'
<1>1. /\ UNCHANGED timeVars /\ files' = files /\ stats' = stats /\ t' = t
      /\ \/ phase.at = "options" /\ phase' \in {phase, exit}
         \/ phase.at \in Running /\ phase' \in {phase, exit, [phase EXCEPT !.at = "read"],
                                                [phase EXCEPT !.at = "valid?"]}
  <2>1. CASE Option
    BY <2>1 DEF Option, traceVars
  <2>2. CASE OpenTrace
    BY <2>2 DEF OpenTrace, mainVars, Running
  <2>3. CASE ReadLine
    BY <2>3 DEF ReadLine, mainVars, Running
  <2>4. CASE TraceRead
    BY <2>4 DEF TraceRead, mainVars, traceVars, Running
  <2> QED BY <2>1, <2>2, <2>3, <2>4
<1>2. phase \in Phases /\ phase.at # "free"
  BY <1>1 DEF TimeInv, Timed, Running
<1>3. /\ exit \in Phases /\ exit.at = "exit"
      /\ [phase EXCEPT !.at = "read"] \in Phases /\ [phase EXCEPT !.at = "read"].at = "read"
      /\ [phase EXCEPT !.at = "valid?"] \in Phases /\ [phase EXCEPT !.at = "valid?"].at = "valid?"
  BY <1>2, PhaseMoves DEF exit, Places, Running
<1>4. \/ phase' = phase
      \/ phase' \in Phases /\ phase'.at = "exit"
      \/ phase' \in Phases /\ phase.at \in Running /\ phase'.at \in Running \cup {"free", "report"}
  BY <1>1, <1>3 DEF Running
<1> QED BY <1>1, <1>2, <1>4, NotTimed, SamplerKept DEF TimeInv

\* Nor does the replay that looks at what the package returns.
LEMMA ValidStep ==
  ASSUME TimeInv, ValidInit \/ ValidAlloc \/ ValidRealloc \/ ValidFree \/ ValidEnd \/ Verdict
  PROVE  TimeInv'
<1>1. /\ UNCHANGED timeVars /\ files' = files /\ t' = t /\ phase.at \in Running
      /\ \/ phase' = phase
         \/ \E p \in Running \cup {"free", "report"} : phase' = [phase EXCEPT !.at = p]
      /\ \/ stats' = stats
         \/ stats' = [stats EXCEPT ![t].valid = TRUE]
         \/ stats' = [stats EXCEPT ![t].broken = broken]
  <2>1. CASE ValidInit
    BY <2>1 DEF ValidInit, Running
  <2>2. CASE ValidAlloc
    BY <2>2 DEF ValidAlloc, Invalid, mainVars, Running
  <2>3. CASE ValidRealloc
    BY <2>3 DEF ValidRealloc, Invalid, mainVars, Running
  <2>4. CASE ValidFree
    BY <2>4 DEF ValidFree, mainVars, Running
  <2>5. CASE ValidEnd
    BY <2>5 DEF ValidEnd, traceVars, Running
  <2>6. CASE Verdict
    BY <2>6 DEF Verdict, traceVars, Running
  <2> QED BY <2>1, <2>2, <2>3, <2>4, <2>5, <2>6
<1>2. /\ phase \in Phases /\ phase.at # "free" /\ t \in DOMAIN stats
      /\ \A n \in DOMAIN stats : "secs" \in DOMAIN stats[n]
  BY <1>1 DEF TimeInv, Timed, Running
<1>3. \/ phase' = phase
      \/ phase' \in Phases /\ phase.at \in Running /\ phase'.at \in Running \cup {"free", "report"}
  <2> SUFFICES ASSUME NEW p \in Running \cup {"free", "report"}, phase' = [phase EXCEPT !.at = p]
               PROVE  phase' \in Phases /\ phase'.at = p
    BY <1>1
  <2> QED BY <1>2, PhaseMoves DEF Places
<1>4. \/ stats' = stats
      \/ /\ DOMAIN stats' = DOMAIN stats
         /\ \A n \in DOMAIN stats : "secs" \in DOMAIN stats'[n] /\ stats'[n].secs = stats[n].secs
  BY <1>1, <1>2, OtherField
<1> QED BY <1>1, <1>2, <1>3, <1>4, NotTimed, SamplerKept DEF TimeInv

\* Nor do the replays themselves.
LEMMA ReplayStep ==
  ASSUME TimeInv,
         \/ UtilInit \/ ReplayFails \/ UtilOp \/ UtilEnd \/ eval_mm_speed \/ eval_libc_speed
         \/ LibcInit \/ eval_libc_valid \/ LibcEnd
  PROVE  TimeInv'
<1>1. /\ UNCHANGED timeVars /\ files' = files /\ t' = t /\ phase.at \in Running
      /\ \/ phase' = phase
         \/ \E p \in Running \cup {"exit"} : phase' = [phase EXCEPT !.at = p]
      /\ \/ stats' = stats
         \/ stats' = [stats EXCEPT ![t].util = <<total.max, heap.brk>>]
  <2>1. CASE UtilInit
    BY <2>1 DEF UtilInit, Replay, mainVars, Running
  <2>2. CASE ReplayFails
    BY <2>2 DEF ReplayFails, mainVars, traceVars, exit, Running
  <2>3. CASE UtilOp
    BY <2>3 DEF UtilOp, ReplayOp, mainVars, exit, Running
  <2>4. CASE UtilEnd
    BY <2>4 DEF UtilEnd, traceVars, Running
  <2>5. CASE eval_mm_speed
    <3>1. phase.at = "speed"
      BY <2>5 DEF eval_mm_speed
    <3> QED BY <2>5, <3>1 DEF eval_mm_speed, ReplayOp, mainVars, exit, Running
  <2>6. CASE eval_libc_speed
    <3>1. phase.at = "speed"
      BY <2>6 DEF eval_libc_speed
    <3> QED BY <2>6, <3>1 DEF eval_libc_speed, ReplayOp, mainVars, exit, Running
  <2>7. CASE LibcInit
    <3>1. phase.at = "valid?"
      BY <2>7 DEF LibcInit
    <3> QED BY <2>7, <3>1 DEF LibcInit, Replay, mainVars, Running
  <2>8. CASE eval_libc_valid
    BY <2>8 DEF eval_libc_valid, ReplayOp, mainVars, exit, Running
  <2>9. CASE LibcEnd
    BY <2>9 DEF LibcEnd, mainVars, traceVars, Running
  <2> QED BY <2>1, <2>2, <2>3, <2>4, <2>5, <2>6, <2>7, <2>8, <2>9
<1>2. /\ phase \in Phases /\ phase.at # "free" /\ t \in DOMAIN stats
      /\ \A n \in DOMAIN stats : "secs" \in DOMAIN stats[n]
  BY <1>1 DEF TimeInv, Timed, Running
<1>3. \/ phase' = phase
      \/ phase' \in Phases /\ phase'.at = "exit"
      \/ phase' \in Phases /\ phase.at \in Running /\ phase'.at \in Running \cup {"free", "report"}
  <2> SUFFICES ASSUME NEW p \in Running \cup {"exit"}, phase' = [phase EXCEPT !.at = p]
               PROVE  phase' \in Phases /\ phase'.at = p
    BY <1>1
  <2> QED BY <1>2, PhaseMoves DEF Places
<1>4. \/ stats' = stats
      \/ /\ DOMAIN stats' = DOMAIN stats
         /\ \A n \in DOMAIN stats : "secs" \in DOMAIN stats'[n] /\ stats'[n].secs = stats[n].secs
  BY <1>1, <1>2, OtherField
<1> QED BY <1>1, <1>2, <1>3, <1>4, NotTimed, SamplerKept DEF TimeInv

\* The sampler is emptied for a new trace.
LEMMA FcycInitStep ==
  ASSUME TimeInv, FcycInit
  PROVE  TimeInv'
<1>1. /\ values' = [x \in 1 .. K |-> 0] /\ samplecount' = 0 /\ elapsed' = <<>> /\ cyc' = cyc
      /\ files' = files /\ stats' = stats /\ t' = t
      /\ phase.at = "time?" /\ phase' = [phase EXCEPT !.at = "sample?"]
  BY DEF FcycInit, init_sampler, mainVars, traceVars
<1>2. Sampler'
  <2>1. values' \in [1 .. K -> Nat] /\ elapsed' \in Seq(Nat) /\ Len(elapsed') = 0 /\ cyc' \in Words2
    BY <1>1 DEF TimeInv, Sampler
  <2>2. Kept(elapsed') = 0
    BY <2>1, FcycAssumption DEF Kept
  <2>3. Ordered(values', Kept(elapsed')) /\ Smallest(values', elapsed')
    BY <2>2 DEF Ordered, Smallest
  <2> QED BY <1>1, <2>1, <2>3 DEF Sampler, Ordered, Smallest
<1>3. phase \in Phases /\ phase.at # "free" /\ phase.at \in Running
  BY <1>1 DEF TimeInv, Timed, Running
<1>4. phase' \in Phases /\ phase'.at = "sample?"
  BY <1>1, <1>3, PhaseMoves DEF Places, Running
<1>5. Timed'
  BY <1>1, <1>3, <1>4, NotTimed DEF TimeInv, Running
<1> QED BY <1>2, <1>5 DEF TimeInv

\* The counter is started and the trace replayed.
LEMMA FcycStartStep ==
  ASSUME TimeInv, FcycStart
  PROVE  TimeInv'
<1>1. /\ UNCHANGED <<values, samplecount, elapsed>>
      /\ files' = files /\ stats' = stats /\ t' = t
      /\ phase.at = "sample?" /\ phase' = [phase EXCEPT !.at = "speed"]
  BY DEF FcycStart, start_counter, Replay, mainVars
<1>2. cyc' \in Words2
  <2>1. PICK n \in Starts : cyc' = access_counter(n)
    BY DEF FcycStart, start_counter
  <2> QED BY <2>1, DriverAssumption, CounterWords
<1>3. Sampler'
  BY <1>1, <1>2 DEF TimeInv, Sampler, Ordered, Smallest, Kept, Rank, Under, UpTo
<1>4. phase \in Phases /\ phase.at # "free" /\ phase.at \in Running
  BY <1>1 DEF TimeInv, Timed, Running
<1>5. phase' \in Phases /\ phase'.at = "speed"
  BY <1>1, <1>4, PhaseMoves DEF Places, Running
<1>6. Timed'
  BY <1>1, <1>4, <1>5, NotTimed DEF TimeInv, Running
<1> QED BY <1>3, <1>6 DEF TimeInv

\* A sample is taken; fcyc returns the first value once they agree or all were taken.
LEMMA FcycSampleStep ==
  ASSUME TimeInv, FcycSample
  PROVE  TimeInv'
<1>1. PICK c \in Cycles : Sampled(c)
  BY DEF FcycSample
<1>2. Sampler'
  BY <1>1, SampleAdded DEF TimeInv
<1>3. /\ files' = files /\ t' = t /\ phase.at = "speed"
      /\ GoesOn(values', samplecount') => stats' = stats /\ phase' = [phase EXCEPT !.at = "sample?"]
      /\ ~GoesOn(values', samplecount') => /\ phase' = [phase EXCEPT !.at = "free"]
                                           /\ stats' = [stats EXCEPT ![t].secs = values'[1]]
  BY DEF FcycSample, traceVars
<1>4. phase \in Phases /\ phase.at # "free" /\ phase.at \in Running
  BY <1>3 DEF TimeInv, Timed, Running
<1>5. CASE GoesOn(values', samplecount')
  <2>1. phase' \in Phases /\ phase'.at = "sample?"
    BY <1>3, <1>4, <1>5, PhaseMoves DEF Places, Running
  <2>2. Timed'
    BY <1>3, <1>4, <1>5, <2>1, NotTimed DEF TimeInv, Running
  <2> QED BY <1>2, <2>2 DEF TimeInv
<1>6. CASE ~GoesOn(values', samplecount')
  <2>1. phase' \in Phases /\ phase'.at = "free"
    BY <1>3, <1>4, <1>6, PhaseMoves DEF Places, Running
  <2>2. /\ Len(files) \in Nat /\ DOMAIN files = 1 .. Len(files) /\ t \in DOMAIN files
        /\ DOMAIN stats = DOMAIN files /\ \A n \in DOMAIN files : "secs" \in DOMAIN stats[n]
        /\ \A n \in DOMAIN files : n >= t => stats[n].secs = 0
    BY <1>3, <1>4 DEF TimeInv, Timed
  <2>3. /\ DOMAIN stats' = DOMAIN files /\ \A n \in DOMAIN files : "secs" \in DOMAIN stats'[n]
        /\ \A n \in DOMAIN files : n # t => stats'[n] = stats[n]
        /\ stats'[t].secs = values'[1]
    BY <1>3, <1>6, <2>2
  <2>4. \A n \in DOMAIN files : n > t => stats'[n].secs = 0
    <3> SUFFICES ASSUME NEW n \in DOMAIN files, n > t PROVE stats'[n].secs = 0
      OBVIOUS
    <3>1. n # t /\ n >= t
      BY <2>2
    <3> QED BY <2>2, <2>3, <3>1
  <2>5. Len(elapsed') >= 1 /\ samplecount' = Len(elapsed')
    <3>1. elapsed' = Append(elapsed, c) /\ elapsed \in Seq(Nat)
      BY <1>1 DEF Sampled, TimeInv, Sampler
    <3>2. Len(elapsed') = Len(elapsed) + 1 /\ Len(elapsed) \in Nat
      BY <3>1
    <3> QED BY <1>2, <3>2 DEF Sampler
  <2>6. Len(elapsed') < MaxSamples => has_converged(values', Len(elapsed'))
    BY <1>6, <2>5 DEF GoesOn
  <2>7. Returned'
    BY <1>3, <2>3, <2>5, <2>6 DEF Returned, has_converged
  <2>8. Timed'
    BY <1>3, <2>1, <2>2, <2>3, <2>4, <2>7 DEF Timed, Running
  <2> QED BY <1>2, <2>8 DEF TimeInv
<1> QED BY <1>5, <1>6

\* main has read the options: nothing has been timed.
LEMMA StartStep ==
  ASSUME TimeInv, Start
  PROVE  TimeInv'
<1>1. /\ UNCHANGED timeVars /\ t' = t /\ phase.at = "options"
      /\ files' \in {files, <<files[1]>>} /\ stats' = [n \in DOMAIN files' |-> NoStats]
      /\ phase'.at = "open" /\ phase' \in Phases
  BY DEF Start, traceVars, Phases, Places, Running, Packages
<1>2. Len(files) \in Nat /\ DOMAIN files = 1 .. Len(files) /\ 1 \in DOMAIN files /\ t = 1
  BY <1>1 DEF TimeInv, Timed
<1>3. Len(files') \in Nat /\ DOMAIN files' = 1 .. Len(files') /\ t' \in DOMAIN files'
  <2>1. CASE files' = files
    BY <1>1, <1>2, <2>1
  <2>2. CASE files' = <<files[1]>>
    <3>1. Len(files') = 1 /\ DOMAIN files' = 1 .. 1
      BY <2>2
    <3> QED BY <1>1, <1>2, <3>1
  <2> QED BY <1>1, <2>1, <2>2
<1>4. /\ DOMAIN stats' = DOMAIN files'
      /\ \A n \in DOMAIN files' : "secs" \in DOMAIN stats'[n] /\ stats'[n].secs = 0
  BY <1>1 DEF NoStats
<1>5. Timed'
  BY <1>1, <1>3, <1>4 DEF Timed, Running
<1> QED BY <1>1, <1>5, SamplerKept DEF TimeInv

\* The next trace has not been timed, nor has any once the package changes.
LEMMA FreeTraceStep ==
  ASSUME TimeInv, free_trace
  PROVE  TimeInv'
<1>1. UNCHANGED timeVars /\ files' = files /\ phase.at = "free"
  BY DEF free_trace
<1>2. /\ phase \in Phases /\ Len(files) \in Nat /\ DOMAIN files = 1 .. Len(files) /\ t \in DOMAIN files
      /\ DOMAIN stats = DOMAIN files /\ \A n \in DOMAIN files : "secs" \in DOMAIN stats[n]
      /\ \A n \in DOMAIN files : n > t => stats[n].secs = 0
  BY <1>1 DEF TimeInv, Timed
<1>3. CASE t < Len(files)
  <2>1. t' = t + 1 /\ phase' = [phase EXCEPT !.at = "open"] /\ stats' = stats
    BY <1>3 DEF free_trace
  <2>2. phase' \in Phases /\ phase'.at = "open"
    BY <1>2, <2>1, PhaseMoves DEF Places, Running
  <2>3. t' \in DOMAIN files /\ \A n \in DOMAIN files : n >= t' => stats'[n].secs = 0
    BY <1>2, <1>3, <2>1
  <2>4. Timed'
    BY <1>1, <1>2, <2>1, <2>2, <2>3 DEF Timed, Running
  <2> QED BY <1>1, <2>4, SamplerKept DEF TimeInv
<1>4. CASE ~(t < Len(files)) /\ phase.package = "libc"
  <2>1. /\ t' = 1 /\ phase' = [at |-> "open", package |-> "mm"]
        /\ stats' = [n \in DOMAIN files |-> NoStats]
    BY <1>4 DEF free_trace
  <2>2. phase' \in Phases /\ phase'.at = "open"
    BY <2>1 DEF Phases, Places, Running, Packages
  <2>3. /\ t' \in DOMAIN files /\ DOMAIN stats' = DOMAIN files
        /\ \A n \in DOMAIN files : "secs" \in DOMAIN stats'[n] /\ stats'[n].secs = 0
    BY <1>2, <2>1 DEF NoStats
  <2>4. Timed'
    BY <1>1, <1>2, <2>1, <2>2, <2>3 DEF Timed, Running
  <2> QED BY <1>1, <2>4, SamplerKept DEF TimeInv
<1>5. CASE ~(t < Len(files)) /\ phase.package # "libc"
  <2>1. t' = t /\ phase' = [phase EXCEPT !.at = "report"] /\ stats' = stats
    BY <1>5 DEF free_trace
  <2>2. phase' \in Phases /\ phase'.at = "report"
    BY <1>2, <2>1, PhaseMoves DEF Places
  <2>3. Timed'
    BY <1>1, <1>2, <2>1, <2>2 DEF Timed, Running
  <2> QED BY <1>1, <2>3, SamplerKept DEF TimeInv
<1> QED BY <1>3, <1>4, <1>5

\* The driver ends.
LEMMA ReportStep ==
  ASSUME TimeInv, Report
  PROVE  TimeInv'
<1>1. /\ UNCHANGED timeVars /\ files' = files /\ stats' = stats /\ t' = t /\ phase.at # "free"
      /\ phase' \in Phases /\ phase'.at = "exit"
  BY DEF Report, mainVars, traceVars, Phases, Places, Packages
<1> QED BY <1>1, NotTimed, SamplerKept DEF TimeInv

\* Nothing has been measured at first.
LEMMA TimeInvInit ==
  ASSUME Init
  PROVE  TimeInv
<1>1. Sampler
  <2>1. /\ values = [x \in 1 .. K |-> 0] /\ samplecount = 0 /\ elapsed = <<>>
        /\ cyc = [hi |-> 0, lo |-> 0]
    BY DEF Init, TimeInit
  <2>2. values \in [1 .. K -> Nat] /\ elapsed \in Seq(Nat) /\ Len(elapsed) = 0 /\ cyc \in Words2
    BY <2>1, FcycAssumption DEF Words2
  <2>3. Kept(elapsed) = 0
    BY <2>2, FcycAssumption DEF Kept
  <2> QED BY <2>1, <2>2, <2>3 DEF Sampler, Ordered, Smallest
<1>2. Len(files) \in Nat /\ DOMAIN files = 1 .. Len(files) /\ 1 \in DOMAIN files
  <2>1. files # <<>> /\ files \in Seq({files[n] : n \in DOMAIN files})
    BY DriverAssumption DEF Init
  <2> HIDE DEF Init
  <2> QED BY <2>1
<1>3. Timed
  BY <1>2 DEF Init, Timed, Phases, Places, Packages, Running
<1> QED BY <1>1, <1>3 DEF TimeInv

\* For every word size of the counter, every K, MaxSamples and epsilon, every list of
\* traces and whatever the package and the clock do: fcyc's values are the smallest of
\* the cycles that were really spent, in order, and the time of a trace is the least of
\* them, confirmed by K samples within epsilon unless MaxSamples did not suffice.
THEOREM TimesExact == Spec => []KBest
<1>1. Init => TimeInv
  BY TimeInvInit
<1>2. TimeInv /\ [Next]_vars => TimeInv'
  <2> SUFFICES ASSUME TimeInv, [Next]_vars PROVE TimeInv'
    OBVIOUS
  <2>1. CASE UNCHANGED vars
    <3>1. UNCHANGED timeVars /\ files' = files /\ stats' = stats /\ t' = t /\ phase' = phase
      BY <2>1 DEF vars, mainVars, traceVars
    <3>2. Timed'
      BY <3>1 DEF TimeInv, Timed, timeVars, Returned, has_converged
    <3> QED BY <3>1, <3>2, SamplerKept DEF TimeInv
  <2>2. CASE Option \/ OpenTrace \/ ReadLine \/ TraceRead
    BY <2>2, ReadingStep
  <2>3. CASE ValidInit \/ ValidAlloc \/ ValidRealloc \/ ValidFree \/ ValidEnd \/ Verdict
    BY <2>3, ValidStep
  <2>4. CASE \/ UtilInit \/ ReplayFails \/ UtilOp \/ UtilEnd \/ eval_mm_speed \/ eval_libc_speed
             \/ LibcInit \/ eval_libc_valid \/ LibcEnd
    BY <2>4, ReplayStep
  <2>5. CASE FcycInit
    BY <2>5, FcycInitStep
  <2>6. CASE FcycStart
    BY <2>6, FcycStartStep
  <2>7. CASE FcycSample
    BY <2>7, FcycSampleStep
  <2>8. CASE Start
    BY <2>8, StartStep
  <2>9. CASE free_trace
    BY <2>9, FreeTraceStep
  <2>10. CASE Report
    BY <2>10, ReportStep
  <2> QED BY <2>1, <2>2, <2>3, <2>4, <2>5, <2>6, <2>7, <2>8, <2>9, <2>10 DEF Next
<1>3. TimeInv => KBest
  BY TimeInvKBest
<1> QED BY <1>1, <1>2, <1>3, PTL DEF Spec
=============================================================================
