----------------------------- MODULE DictProofs ------------------------------
(***************************************************************************)
(* What holds of a Subpython dictionary for any keys, values, hashes and   *)
(* capacities and any sequence of operations, failed doublings included:   *)
(* its counters and the references it owns are exact, and it is a map.     *)
(***************************************************************************)
EXTENDS Dict, TLAPS, FiniteSetTheorems, WellFoundedInduction

-----------------------------------------------------------------------------
(* Induction and counting. *)

\* Induction over the natural numbers, for the elements of a set.
LEMMA SetInduction ==
  ASSUME NEW S, 0 \in S, \A n \in Nat : n \in S => n + 1 \in S
  PROVE  Nat \subseteq S
<1> DEFINE D == Nat \ S
<1> SUFFICES ASSUME D # {} PROVE FALSE
  OBVIOUS
<1>1. PICK d \in D : \A e \in D : ~ (<<e, d>> \in OpToRel(<, Nat))
  BY WFMin, NatLessThanWellFounded
<1>2. d \in Nat /\ d \notin S
  BY <1>1
<1>3. d # 0
  BY <1>2
<1>4. d - 1 \in Nat /\ d - 1 < d /\ (d - 1) + 1 = d
  BY <1>2, <1>3
<1>5. d - 1 \notin D
  <2>1. <<d - 1, d>> \in OpToRel(<, Nat)
    BY <1>2, <1>4 DEF OpToRel
  <2> HIDE DEF D
  <2> QED BY <1>1, <2>1
<1>6. d - 1 \in S
  BY <1>4, <1>5
<1> QED BY <1>2, <1>4, <1>6

\* The slots of an array that hold one of some references, and those among the first n.
Count(f, S)    == Cardinality({i \in DOMAIN f : f[i] \in S})
Below(f, S, n) == Cardinality({i \in 0 .. n - 1 : f[i] \in S})

\* How many there are is a number up to n.
LEMMA BelowType ==
  ASSUME NEW f, NEW S, NEW n \in Nat
  PROVE  /\ IsFiniteSet({i \in 0 .. n - 1 : f[i] \in S})
         /\ Below(f, S, n) \in Nat /\ Below(f, S, n) <= n
<1> DEFINE T == {i \in 0 .. n - 1 : f[i] \in S}
<1>1. IsFiniteSet(0 .. n - 1) /\ Cardinality(0 .. n - 1) = n
  <2>1. n - 1 \in Int /\ 0 \in Int
    OBVIOUS
  <2> QED BY <2>1, FS_Interval
<1>2. T \in SUBSET (0 .. n - 1)
  OBVIOUS
<1> HIDE DEF T
<1>3. IsFiniteSet(T) /\ Cardinality(T) <= n
  BY <1>1, <1>2, FS_Subset
<1>4. Cardinality(T) \in Nat
  BY <1>3, FS_CardinalityType
<1> QED BY <1>3, <1>4 DEF T, Below

\* One slot more.
LEMMA BelowStep ==
  ASSUME NEW f, NEW S, NEW n \in Nat
  PROVE  /\ Below(f, S, 0) = 0
         /\ Below(f, S, n + 1) = IF f[n] \in S THEN Below(f, S, n) + 1 ELSE Below(f, S, n)
<1> DEFINE T == {i \in 0 .. n - 1 : f[i] \in S}
           U == {i \in 0 .. (n + 1) - 1 : f[i] \in S}
<1>1. {i \in 0 .. 0 - 1 : f[i] \in S} = {}
  OBVIOUS
<1>2. IsFiniteSet(T) /\ n \notin T
  <2>1. n \notin 0 .. n - 1
    OBVIOUS
  <2>2. IsFiniteSet(T)
    BY BelowType
  <2> QED BY <2>1, <2>2
<1>3. /\ f[n] \in S => U = T \cup {n}
      /\ f[n] \notin S => U = T
  <2>1. \A i : i \in 0 .. (n + 1) - 1 <=> i \in 0 .. n - 1 \/ i = n
    OBVIOUS
  <2> QED BY <2>1
<1> HIDE DEF T, U
<1>4. Cardinality(T \cup {n}) = Cardinality(T) + 1
  BY <1>2, FS_AddElement
<1>5. Cardinality(U) = IF f[n] \in S THEN Cardinality(T) + 1 ELSE Cardinality(T)
  BY <1>3, <1>4
<1> QED BY <1>1, <1>5, FS_EmptySet DEF Below, T, U

Arrays(X, c) == [0 .. c - 1 -> X]

\* All slots of an array.
LEMMA CountAll ==
  ASSUME NEW X, NEW n \in Nat, NEW f \in Arrays(X, n), NEW S
  PROVE  /\ Count(f, S) = Below(f, S, n)
         /\ Count(f, S) \in Nat /\ Count(f, S) <= n
         /\ IsFiniteSet({i \in DOMAIN f : f[i] \in S})
<1>1. {i \in DOMAIN f : f[i] \in S} = {i \in 0 .. n - 1 : f[i] \in S}
  BY DEF Arrays
<1> QED BY <1>1, BelowType DEF Count, Below

In(r, S) == IF r \in S THEN 1 ELSE 0

\* A slot gives way to another reference.
LEMMA CountUpdate ==
  ASSUME NEW X, NEW n \in Nat, NEW f \in Arrays(X, n), NEW i \in 0 .. n - 1, NEW x, NEW S
  PROVE  Count([f EXCEPT ![i] = x], S) = Count(f, S) - In(f[i], S) + In(x, S)
<1> DEFINE g == [f EXCEPT ![i] = x]
           T == {j \in DOMAIN f : f[j] \in S}
           U == {j \in DOMAIN g : g[j] \in S}
           R == T \ {i}
<1>1. IsFiniteSet(T)
  BY CountAll
<1>2. IsFiniteSet(R) /\ Cardinality(R) = IF i \in T THEN Cardinality(T) - 1 ELSE Cardinality(T)
  BY <1>1, FS_RemoveElement
<1>3. Cardinality(R \cup {i}) = Cardinality(R) + 1
  <2>1. i \notin R
    OBVIOUS
  <2> QED BY <1>2, <2>1, FS_AddElement
<1>4. i \in T <=> f[i] \in S
  BY DEF Arrays
<1>5. /\ x \in S => U = R \cup {i}
      /\ x \notin S => U = R
  BY DEF Arrays
<1>6. Cardinality(T) \in Nat /\ Cardinality(R) \in Nat
  BY <1>1, <1>2, FS_CardinalityType
<1> HIDE DEF g, T, U, R
<1>7. Cardinality(U) = Cardinality(R) + In(x, S)
  <2>1. CASE x \in S
    BY <1>3, <1>5, <2>1 DEF In
  <2>2. CASE x \notin S
    BY <1>5, <1>6, <2>2 DEF In
  <2> QED BY <2>1, <2>2
<1>8. Cardinality(R) = Cardinality(T) - In(f[i], S)
  BY <1>2, <1>4, <1>6 DEF In
<1> QED BY <1>7, <1>8 DEF Count, g, T, U

\* An empty array.
LEMMA CountNone ==
  ASSUME NEW n \in Nat, NEW S, NULL_REF \notin S
  PROVE  Count(make_reference_refarray(n), S) = 0
<1>1. {i \in DOMAIN make_reference_refarray(n) : make_reference_refarray(n)[i] \in S} = {}
  BY DEF make_reference_refarray
<1> QED BY <1>1, FS_EmptySet DEF Count

-----------------------------------------------------------------------------
(* Probing. *)

Bucket(k, c)  == Hash[ValueOf[k]] % c
Slot(k, j, c) == Probe(Bucket(k, c), j, c)

\* A key is searched from its bucket, through the word behind the array, at slots
\* that all differ; only the first slot may be left out.
LEMMA Slots ==
  ASSUME NEW c \in Nat \ {0}, NEW k \in Keys, Hashable(k)
  PROVE  /\ \A j \in 0 .. c - 1 : Slot(k, j, c) \in 0 .. c
         /\ \A i \in 1 .. c - 1 : \E j \in 0 .. c - 1 : Slot(k, j, c) = i
<1> DEFINE b == Bucket(k, c)
<1>1. b \in 0 .. c - 1
  <2>1. Hash[ValueOf[k]] \in Nat
    BY DictAssumption DEF Hashable
  <2> QED BY <2>1, Z3 DEF Bucket
<1>2. \A j : Slot(k, j, c) = Probe(b, j, c)
  BY DEF Slot
<1> HIDE DEF b
<1>3. \A j \in 0 .. c - 1 : Slot(k, j, c) = IF b + j > c THEN b + j - c ELSE b + j
  BY <1>1, <1>2 DEF Probe
<1>4. \A j \in 0 .. c - 1 : Slot(k, j, c) \in 0 .. c
  BY <1>1, <1>3
<1>5. ASSUME NEW i \in 1 .. c - 1 PROVE \E j \in 0 .. c - 1 : Slot(k, j, c) = i
  <2>1. CASE i >= b
    <3>1. i - b \in 0 .. c - 1 /\ Slot(k, i - b, c) = i
      BY <1>1, <1>3, <2>1
    <3> QED BY <3>1
  <2>2. CASE i < b
    <3>1. i + c - b \in 0 .. c - 1
      BY <1>1, <2>2
    <3>2. b + (i + c - b) > c /\ b + (i + c - b) - c = i
      BY <1>1
    <3>3. Slot(k, i + c - b, c) = i
      BY <1>3, <3>1, <3>2
    <3> QED BY <3>1, <3>3
  <2> QED BY <1>1, <2>1, <2>2
<1> QED BY <1>4, <1>5

\* Does the search end at the j-th slot?
EndsAt(keys, k, j, c, skip, differs) ==
  IF Slot(k, j, c) = c THEN ~differs ELSE Ends(keys[Slot(k, j, c)], k, skip)

\* The size of an array.
LEMMA ArraySize ==
  ASSUME NEW X, NEW c \in Nat, NEW f \in Arrays(X, c)
  PROVE  Cardinality(DOMAIN f) = c
<1>1. DOMAIN f = 0 .. c - 1
  BY DEF Arrays
<1>2. Cardinality(0 .. c - 1) = c
  <2>1. c - 1 \in Int /\ 0 \in Int
    OBVIOUS
  <2> QED BY <2>1, FS_Interval
<1> QED BY <1>1, <1>2

\* x is the first slot at which the search ends, or -1.
First(x, keys, k, c, skip, differs) ==
  \/ /\ x = -1
     /\ \A j \in 0 .. c - 1 : ~EndsAt(keys, k, j, c, skip, differs)
  \/ \E j \in 0 .. c - 1 :
       /\ x = Slot(k, j, c) /\ EndsAt(keys, k, j, c, skip, differs)
       /\ \A l \in 0 .. j - 1 : ~EndsAt(keys, k, l, c, skip, differs)

\* keys_find gives the first slot at which the search ends.
LEMMA FindFirst ==
  ASSUME NEW c \in Nat \ {0}, NEW keys \in Arrays(Keys \cup Marks, c), NEW k \in Keys,
         NEW skip \in BOOLEAN, NEW differs \in BOOLEAN
  PROVE  First(keys_find(keys, k, skip, differs), keys, k, c, skip, differs)
<1> DEFINE found == {j \in 0 .. c - 1 : EndsAt(keys, k, j, c, skip, differs)}
           x == keys_find(keys, k, skip, differs)
<1>1. Cardinality(DOMAIN keys) = c
  BY ArraySize
<1>2. x = IF found = {} THEN -1 ELSE Slot(k, Min(found), c)
  BY <1>1 DEF keys_find, EndsAt, Slot, Bucket
<1> HIDE DEF x
<1>3. CASE found = {}
  <2>1. First(x, keys, k, c, skip, differs)
    BY <1>2, <1>3 DEF First
  <2> QED BY <2>1 DEF x
<1>4. CASE found # {}
  <2>1. found \subseteq Nat
    OBVIOUS
  <2> HIDE DEF found
  <2>2. PICK m \in found : \A n \in found : ~ (<<n, m>> \in OpToRel(<, Nat))
    BY <1>4, <2>1, WFMin, NatLessThanWellFounded
  <2>3. ASSUME NEW n \in found PROVE m <= n
    <3>1. n \in Nat /\ m \in Nat
      BY <2>1
    <3>2. ~(n < m)
      BY <2>2, <3>1 DEF OpToRel
    <3> QED BY <3>1, <3>2
  <2>4. Min(found) \in found /\ \A n \in found : Min(found) <= n
    BY <2>2, <2>3 DEF Min
  <2> DEFINE j == Min(found)
  <2>5. j \in 0 .. c - 1 /\ EndsAt(keys, k, j, c, skip, differs)
    BY <2>4 DEF found
  <2>6. ASSUME NEW l \in 0 .. j - 1 PROVE ~EndsAt(keys, k, l, c, skip, differs)
    <3>1. l \in 0 .. c - 1 /\ ~(j <= l)
      BY <2>5
    <3>2. l \notin found
      BY <2>4, <3>1
    <3> QED BY <3>1, <3>2 DEF found
  <2>7. x = Slot(k, j, c)
    BY <1>2, <1>4
  <2> HIDE DEF j
  <2>8. First(x, keys, k, c, skip, differs)
    BY <2>5, <2>6, <2>7 DEF First
  <2> QED BY <2>8 DEF x
<1> QED BY <1>3, <1>4 DEF x

\* The search for k goes on beyond the first j slots, whatever the marks.
Passed(keys, k, j, c) ==
  \A l \in 0 .. j - 1 : Slot(k, l, c) = c \/ keys[Slot(k, l, c)] # NULL_REF

\* Every key is found on its way, and values are keys once.
Probed(keys, c) ==
  \A i \in 0 .. c - 1 : keys[i] \in Keys =>
    /\ Hashable(keys[i])
    /\ \E j \in 0 .. c - 1 : Slot(keys[i], j, c) = i /\ Passed(keys, keys[i], j, c)
Distinct(keys, c) ==
  \A i, l \in 0 .. c - 1 :
    keys[i] \in Keys /\ keys[l] \in Keys /\ ref_eq(keys[i], keys[l]) => i = l
Table(keys, c) == keys \in Arrays(Keys \cup Marks, c) /\ Probed(keys, c) /\ Distinct(keys, c)

Absent(keys, k, c) == \A i \in 0 .. c - 1 : keys[i] \in Keys => ~ref_eq(k, keys[i])

\* No key is a mark.
LEMMA KeysAndMarks ==
  /\ NULL_REF \notin Keys /\ TOMBSTONE_REF \notin Keys /\ NULL_REF \notin Values
  /\ TOMBSTONE_REF \notin Values /\ NULL_REF # TOMBSTONE_REF /\ NULL_REF = -1
  /\ Marks = {NULL_REF, TOMBSTONE_REF} /\ Keys \cap Marks = {}
  /\ Keys \subseteq Nat /\ Values \subseteq Nat
  BY DictAssumption DEF NULL_REF, TOMBSTONE_REF, Marks

\* Where an entry for k is, if there is one.
FoundAt(x, keys, k, c) ==
  \/ x = c
  \/ x \in 0 .. c - 1 /\ keys[x] \in Keys /\ ref_eq(k, keys[x])
  \/ x = -1 /\ Absent(keys, k, c)
  \/ x \in 0 .. c - 1 /\ keys[x] = NULL_REF /\ Absent(keys, k, c)

\* Where a new entry for k can be put.
RoomAt(x, keys, k, c) ==
  \/ x = c
  \/ x = -1 /\ Count(keys, Keys) >= c - 1
  \/ /\ x \in 0 .. c - 1 /\ keys[x] \in Marks
     /\ \E j \in 0 .. c - 1 : Slot(k, j, c) = x /\ Passed(keys, k, j, c)

\* A search that skips tombstones ends behind the array, at an equal key, or shows that
\* there is none.
LEMMA FindOld ==
  ASSUME NEW c \in Nat \ {0}, NEW keys, Table(keys, c), NEW k \in Keys, Hashable(k),
         NEW skip \in BOOLEAN, skip = TRUE, NEW differs \in BOOLEAN,
         NEW x, x = keys_find(keys, k, skip, differs)
  PROVE  FoundAt(x, keys, k, c)
<1>1. keys \in Arrays(Keys \cup Marks, c) /\ \A i \in 0 .. c - 1 : keys[i] \in Keys \cup Marks
  BY DEF Table, Arrays
<1>2. \/ /\ x = -1
         /\ \A j \in 0 .. c - 1 : ~EndsAt(keys, k, j, c, skip, differs)
      \/ \E j \in 0 .. c - 1 :
           /\ x = Slot(k, j, c) /\ EndsAt(keys, k, j, c, skip, differs)
           /\ \A l \in 0 .. j - 1 : ~EndsAt(keys, k, l, c, skip, differs)
  <2>1. First(x, keys, k, c, skip, differs)
    BY <1>1, FindFirst
  <2> QED BY <2>1 DEF First
<1>3. \A j \in 0 .. c - 1 : Slot(k, j, c) \in 0 .. c
  BY Slots
<1>4. ASSUME NEW i \in 0 .. c - 1, keys[i] \in Keys, ref_eq(k, keys[i])
      PROVE  \E j \in 0 .. c - 1 : /\ Slot(k, j, c) = i /\ EndsAt(keys, k, j, c, skip, differs)
                                   /\ Passed(keys, k, j, c)
  <2>1. PICK j \in 0 .. c - 1 : Slot(keys[i], j, c) = i /\ Passed(keys, keys[i], j, c)
    BY <1>4 DEF Table, Probed
  <2>2. \A l : Slot(keys[i], l, c) = Slot(k, l, c)
    BY <1>4 DEF ref_eq, Slot, Bucket
  <2>3. Slot(k, j, c) = i /\ Passed(keys, k, j, c)
    BY <2>1, <2>2 DEF Passed
  <2>4. i # c
    OBVIOUS
  <2>5. EndsAt(keys, k, j, c, skip, differs)
    BY <1>4, <2>3, <2>4, KeysAndMarks DEF EndsAt, Ends
  <2> QED BY <2>3, <2>5
<1>5. CASE /\ x = -1
           /\ \A j \in 0 .. c - 1 : ~EndsAt(keys, k, j, c, skip, differs)
  BY <1>4, <1>5 DEF Absent, FoundAt
<1>6. ASSUME NEW j \in 0 .. c - 1, x = Slot(k, j, c), EndsAt(keys, k, j, c, skip, differs),
             \A l \in 0 .. j - 1 : ~EndsAt(keys, k, l, c, skip, differs), x # c
      PROVE  \/ x \in 0 .. c - 1 /\ keys[x] \in Keys /\ ref_eq(k, keys[x])
             \/ x \in 0 .. c - 1 /\ keys[x] = NULL_REF /\ Absent(keys, k, c)
  <2>1. x \in 0 .. c - 1
    <3>1. x \in 0 .. c
      BY <1>3, <1>6
    <3> QED BY <1>6, <3>1
  <2>2. keys[x] = NULL_REF \/ (keys[x] \notin Marks /\ ref_eq(k, keys[x]))
    BY <1>6 DEF EndsAt, Ends
  <2>3. CASE keys[x] # NULL_REF
    BY <1>1, <2>1, <2>2, <2>3
  <2>4. ASSUME keys[x] = NULL_REF, NEW i \in 0 .. c - 1, keys[i] \in Keys, ref_eq(k, keys[i])
        PROVE  FALSE
    <3>1. PICK m \in 0 .. c - 1 : /\ Slot(k, m, c) = i /\ EndsAt(keys, k, m, c, skip, differs)
                                  /\ Passed(keys, k, m, c)
      BY <1>4, <2>4
    <3>2. m # j
      BY <1>6, <2>4, <3>1, KeysAndMarks
    <3>3. ~(m < j)
      <4> SUFFICES ASSUME m < j PROVE FALSE
        OBVIOUS
      <4>1. m \in 0 .. j - 1
        OBVIOUS
      <4> QED BY <1>6, <3>1, <4>1
    <3>4. j \in 0 .. m - 1
      BY <3>2, <3>3
    <3> QED BY <1>6, <2>4, <3>1, <3>4 DEF Passed
  <2> QED BY <2>1, <2>3, <2>4 DEF Absent
<1> QED BY <1>2, <1>5, <1>6 DEF FoundAt

\* A search for a new slot ends behind the array, at a mark on the way of the key, or,
\* when all but the first slot are full, nowhere.
LEMMA FindNew ==
  ASSUME NEW c \in Nat \ {0}, NEW keys, Table(keys, c), NEW k \in Keys, Hashable(k),
         Absent(keys, k, c), NEW skip \in BOOLEAN, skip = FALSE, NEW differs \in BOOLEAN,
         NEW x, x = keys_find(keys, k, skip, differs)
  PROVE  RoomAt(x, keys, k, c)
<1>1. keys \in Arrays(Keys \cup Marks, c) /\ \A i \in 0 .. c - 1 : keys[i] \in Keys \cup Marks
  BY DEF Table, Arrays
<1>2. \/ /\ x = -1
         /\ \A j \in 0 .. c - 1 : ~EndsAt(keys, k, j, c, skip, differs)
      \/ \E j \in 0 .. c - 1 :
           /\ x = Slot(k, j, c) /\ EndsAt(keys, k, j, c, skip, differs)
           /\ \A l \in 0 .. j - 1 : ~EndsAt(keys, k, l, c, skip, differs)
  <2>1. First(x, keys, k, c, skip, differs)
    BY <1>1, FindFirst
  <2> QED BY <2>1 DEF First
<1>3. /\ \A j \in 0 .. c - 1 : Slot(k, j, c) \in 0 .. c
      /\ \A i \in 1 .. c - 1 : \E j \in 0 .. c - 1 : Slot(k, j, c) = i
  BY Slots
<1>4. \A j \in 0 .. c - 1 : Slot(k, j, c) # c =>
        (EndsAt(keys, k, j, c, skip, differs) <=> keys[Slot(k, j, c)] \in Marks)
  <2> SUFFICES ASSUME NEW j \in 0 .. c - 1, Slot(k, j, c) # c
               PROVE  EndsAt(keys, k, j, c, skip, differs) <=> keys[Slot(k, j, c)] \in Marks
    OBVIOUS
  <2>1. Slot(k, j, c) \in 0 .. c - 1
    BY <1>3
  <2>2. keys[Slot(k, j, c)] \in Keys => ~ref_eq(k, keys[Slot(k, j, c)])
    BY <2>1 DEF Absent
  <2>3. keys[Slot(k, j, c)] \in Keys \cup Marks
    BY <1>1, <2>1
  <2> QED BY <2>2, <2>3, KeysAndMarks DEF EndsAt, Ends
<1>5. ASSUME x = -1, \A j \in 0 .. c - 1 : ~EndsAt(keys, k, j, c, skip, differs)
      PROVE  Count(keys, Keys) >= c - 1
  <2> DEFINE T == {i \in DOMAIN keys : keys[i] \in Keys}
  <2>1. (1 .. c - 1) \in SUBSET T
    <3> SUFFICES ASSUME NEW i \in 1 .. c - 1 PROVE i \in DOMAIN keys /\ keys[i] \in Keys
      OBVIOUS
    <3>1. PICK j \in 0 .. c - 1 : Slot(k, j, c) = i
      BY <1>3
    <3>2. i # c /\ i \in 0 .. c - 1
      OBVIOUS
    <3>3. keys[i] \notin Marks
      BY <1>4, <1>5, <3>1, <3>2
    <3> QED BY <1>1, <3>2, <3>3 DEF Arrays
  <2>2. IsFiniteSet(T) /\ Count(keys, Keys) = Cardinality(T)
    BY <1>1, CountAll DEF Count
  <2> HIDE DEF T
  <2>3. Cardinality(1 .. c - 1) <= Cardinality(T)
    BY <2>1, <2>2, FS_Subset
  <2>4. Cardinality(1 .. c - 1) = c - 1
    <3>1. 1 \in Int /\ c - 1 \in Int
      OBVIOUS
    <3>2. Cardinality(1 .. c - 1) = IF 1 > c - 1 THEN 0 ELSE c - 1 - 1 + 1
      BY <3>1, FS_Interval
    <3> QED BY <3>2
  <2>5. Cardinality(T) \in Nat
    BY <2>2, FS_CardinalityType
  <2> QED BY <2>2, <2>3, <2>4, <2>5
<1>6. ASSUME NEW j \in 0 .. c - 1, x = Slot(k, j, c), EndsAt(keys, k, j, c, skip, differs),
             \A l \in 0 .. j - 1 : ~EndsAt(keys, k, l, c, skip, differs), x # c
      PROVE  /\ x \in 0 .. c - 1 /\ keys[x] \in Marks
             /\ Passed(keys, k, j, c)
  <2>1. x \in 0 .. c - 1 /\ keys[x] \in Marks
    <3>1. x \in 0 .. c
      BY <1>3, <1>6
    <3>2. keys[x] \in Marks
      BY <1>4, <1>6
    <3> QED BY <1>6, <3>1, <3>2
  <2>2. ASSUME NEW l \in 0 .. j - 1, Slot(k, l, c) # c PROVE keys[Slot(k, l, c)] # NULL_REF
    <3>1. l \in 0 .. c - 1
      OBVIOUS
    <3>2. keys[Slot(k, l, c)] \notin Marks
      BY <1>4, <1>6, <2>2, <3>1
    <3> QED BY <3>2, KeysAndMarks
  <2> QED BY <2>1, <2>2 DEF Passed
<1> QED BY <1>2, <1>5, <1>6 DEF RoomAt

\* A new key at a mark on its way keeps the table searchable.
LEMMA TableInsert ==
  ASSUME NEW c \in Nat \ {0}, NEW keys, Table(keys, c), NEW k \in Keys, Hashable(k),
         Absent(keys, k, c), NEW x \in 0 .. c - 1, keys[x] \in Marks,
         \E j \in 0 .. c - 1 : Slot(k, j, c) = x /\ Passed(keys, k, j, c)
  PROVE  Table([keys EXCEPT ![x] = k], c)
<1> DEFINE new == [keys EXCEPT ![x] = k]
<1>1. keys \in [0 .. c - 1 -> Keys \cup Marks]
  BY DEF Table, Arrays
<1>2. /\ new \in [0 .. c - 1 -> Keys \cup Marks] /\ new[x] = k
      /\ \A i \in 0 .. c - 1 : i # x => new[i] = keys[i]
  BY <1>1
<1> HIDE DEF new
<1>3. ASSUME NEW l, NEW j \in 0 .. c - 1, Passed(keys, l, j, c), l \in Keys, Hashable(l)
      PROVE  Passed(new, l, j, c)
  <2> SUFFICES ASSUME NEW m \in 0 .. j - 1, Slot(l, m, c) # c
               PROVE  new[Slot(l, m, c)] # NULL_REF
    BY DEF Passed
  <2>1. m \in 0 .. c - 1
    OBVIOUS
  <2>2. Slot(l, m, c) \in 0 .. c
    BY <1>3, <2>1, Slots
  <2>3. Slot(l, m, c) \in 0 .. c - 1
    BY <2>2
  <2>4. keys[Slot(l, m, c)] # NULL_REF
    BY <1>3 DEF Passed
  <2> QED BY <1>2, <2>3, <2>4, KeysAndMarks
<1>4. Probed(new, c)
  <2> SUFFICES ASSUME NEW i \in 0 .. c - 1, new[i] \in Keys
               PROVE  /\ Hashable(new[i])
                      /\ \E j \in 0 .. c - 1 : Slot(new[i], j, c) = i /\ Passed(new, new[i], j, c)
    BY DEF Probed
  <2>1. CASE i = x
    <3>1. PICK j \in 0 .. c - 1 : Slot(k, j, c) = x /\ Passed(keys, k, j, c)
      OBVIOUS
    <3>2. Passed(new, k, j, c)
      BY <1>3, <3>1
    <3> QED BY <1>2, <2>1, <3>1, <3>2
  <2>2. CASE i # x
    <3>1. new[i] = keys[i] /\ keys[i] \in Keys
      BY <1>2, <2>2
    <3>2. Hashable(keys[i])
      BY <3>1 DEF Table, Probed
    <3>3. PICK j \in 0 .. c - 1 : Slot(keys[i], j, c) = i /\ Passed(keys, keys[i], j, c)
      BY <3>1 DEF Table, Probed
    <3>4. Passed(new, keys[i], j, c)
      BY <1>3, <3>1, <3>2, <3>3
    <3> QED BY <3>1, <3>2, <3>3, <3>4
  <2> QED BY <2>1, <2>2
<1>5. Distinct(new, c)
  <2> SUFFICES ASSUME NEW i \in 0 .. c - 1, NEW l \in 0 .. c - 1, new[i] \in Keys, new[l] \in Keys,
                      ref_eq(new[i], new[l])
               PROVE  i = l
    BY DEF Distinct
  <2>1. CASE i # x /\ l # x
    BY <1>2, <2>1 DEF Table, Distinct
  <2>2. CASE i = x /\ l # x
    BY <1>2, <2>2 DEF Absent
  <2>3. CASE i # x /\ l = x
    <3>1. ref_eq(new[l], new[i])
      BY DEF ref_eq
    <3> QED BY <1>2, <2>3, <3>1 DEF Absent
  <2> QED BY <2>1, <2>2, <2>3
<1> QED BY <1>2, <1>4, <1>5 DEF Table, Arrays, new

\* A tombstone keeps the table searchable.
LEMMA TableRemove ==
  ASSUME NEW c \in Nat \ {0}, NEW keys, Table(keys, c), NEW x \in 0 .. c - 1
  PROVE  Table([keys EXCEPT ![x] = TOMBSTONE_REF], c)
<1> DEFINE new == [keys EXCEPT ![x] = TOMBSTONE_REF]
<1>1. keys \in [0 .. c - 1 -> Keys \cup Marks]
  BY DEF Table, Arrays
<1>2. /\ new \in [0 .. c - 1 -> Keys \cup Marks] /\ new[x] = TOMBSTONE_REF
      /\ \A i \in 0 .. c - 1 : i # x => new[i] = keys[i]
  BY <1>1, KeysAndMarks
<1> HIDE DEF new
<1>3. Probed(new, c)
  <2> SUFFICES ASSUME NEW i \in 0 .. c - 1, new[i] \in Keys
               PROVE  /\ Hashable(new[i])
                      /\ \E j \in 0 .. c - 1 : Slot(new[i], j, c) = i /\ Passed(new, new[i], j, c)
    BY DEF Probed
  <2>1. new[i] = keys[i] /\ keys[i] \in Keys
    BY <1>2, KeysAndMarks
  <2>2. Hashable(keys[i])
    BY <2>1 DEF Table, Probed
  <2>3. PICK j \in 0 .. c - 1 : Slot(keys[i], j, c) = i /\ Passed(keys, keys[i], j, c)
    BY <2>1 DEF Table, Probed
  <2>4. Passed(new, keys[i], j, c)
    <3> SUFFICES ASSUME NEW m \in 0 .. j - 1, Slot(keys[i], m, c) # c
                 PROVE  new[Slot(keys[i], m, c)] # NULL_REF
      BY DEF Passed
    <3>1. m \in 0 .. c - 1
      OBVIOUS
    <3>2. Slot(keys[i], m, c) \in 0 .. c
      BY <2>1, <2>2, <3>1, Slots
    <3>3. Slot(keys[i], m, c) \in 0 .. c - 1
      BY <3>2
    <3>4. keys[Slot(keys[i], m, c)] # NULL_REF
      BY <2>3 DEF Passed
    <3> QED BY <1>2, <3>3, <3>4, KeysAndMarks
  <2> QED BY <2>1, <2>2, <2>3, <2>4
<1>4. Distinct(new, c)
  <2> SUFFICES ASSUME NEW i \in 0 .. c - 1, NEW l \in 0 .. c - 1, new[i] \in Keys, new[l] \in Keys,
                      ref_eq(new[i], new[l])
               PROVE  i = l
    BY DEF Distinct
  <2>1. i # x /\ l # x
    BY <1>2, KeysAndMarks
  <2> QED BY <1>2, <2>1 DEF Table, Distinct
<1> QED BY <1>2, <1>3, <1>4 DEF Table, Arrays, new

-----------------------------------------------------------------------------
(* Counting references. *)

References == Keys \cup Values

DictType(c) ==
  [keys : Arrays(Keys \cup Marks, c), values : Arrays(Values \cup {NULL_REF}, c),
   size : Int, occupied : Int, held : [References -> Int],
   exc : {"none", "TypeError", "KeyError", "MemoryError"}, lost : BOOLEAN]

\* e and d differ in what they hold only.
SameSlots(e, d) ==
  /\ e.keys = d.keys /\ e.values = d.values /\ e.size = d.size
  /\ e.occupied = d.occupied /\ e.exc = d.exc /\ e.lost = d.lost

\* A reference is counted once more; marks are not counted.
LEMMA Incref ==
  ASSUME NEW c, NEW d \in DictType(c), NEW r \in References \cup Marks
  PROVE  /\ incref(d, r) \in DictType(c) /\ SameSlots(incref(d, r), d)
         /\ \A s \in References : incref(d, r).held[s] = d.held[s] + In(r, {s})
<1>1. \A s \in References : s \notin Marks
  BY KeysAndMarks DEF References
<1>2. \A s \in References : d.held[s] \in Int
  BY DEF DictType
<1>3. CASE r \in Marks
  <2>1. incref(d, r) = d
    BY <1>3 DEF incref
  <2>2. \A s \in References : In(r, {s}) = 0
    BY <1>1, <1>3 DEF In
  <2> QED BY <1>2, <2>1, <2>2 DEF SameSlots
<1>4. CASE r \notin Marks
  <2>1. r \in References
    BY <1>4
  <2>2. incref(d, r) = [d EXCEPT !.held[r] = @ + 1]
    BY <1>4 DEF incref
  <2>3. incref(d, r) \in DictType(c) /\ SameSlots(incref(d, r), d)
    BY <2>1, <2>2 DEF DictType, SameSlots
  <2>4. \A s \in References : incref(d, r).held[s] = IF s = r THEN d.held[s] + 1 ELSE d.held[s]
    BY <2>1, <2>2 DEF DictType
  <2> QED BY <1>2, <2>3, <2>4 DEF In
<1> QED BY <1>3, <1>4

\* A reference is counted once less.
LEMMA Decref ==
  ASSUME NEW c, NEW d \in DictType(c), NEW r \in References \cup Marks
  PROVE  /\ decref(d, r) \in DictType(c) /\ SameSlots(decref(d, r), d)
         /\ \A s \in References : decref(d, r).held[s] = d.held[s] - In(r, {s})
<1>1. \A s \in References : s \notin Marks
  BY KeysAndMarks DEF References
<1>2. \A s \in References : d.held[s] \in Int
  BY DEF DictType
<1>3. CASE r \in Marks
  <2>1. decref(d, r) = d
    BY <1>3 DEF decref
  <2>2. \A s \in References : In(r, {s}) = 0
    BY <1>1, <1>3 DEF In
  <2> QED BY <1>2, <2>1, <2>2 DEF SameSlots
<1>4. CASE r \notin Marks
  <2>1. r \in References
    BY <1>4
  <2>2. decref(d, r) = [d EXCEPT !.held[r] = @ - 1]
    BY <1>4 DEF decref
  <2>3. decref(d, r) \in DictType(c) /\ SameSlots(decref(d, r), d)
    BY <2>1, <2>2 DEF DictType, SameSlots
  <2>4. \A s \in References : decref(d, r).held[s] = IF s = r THEN d.held[s] - 1 ELSE d.held[s]
    BY <2>1, <2>2 DEF DictType
  <2> QED BY <1>2, <2>3, <2>4 DEF In
<1> QED BY <1>3, <1>4

Paired(d, c) == \A i \in 0 .. c - 1 : d.keys[i] \in Keys <=> d.values[i] \in Values

\* The counters and the references of a dictionary are those of its slots.
Tallied(d) ==
  /\ d.size = Count(d.keys, Keys)
  /\ d.occupied = Count(d.keys, Keys \cup {TOMBSTONE_REF})
Balanced(d) ==
  \A r \in References : d.held[r] = Count(d.keys, {r}) + Count(d.values, {r})

Sound(d, c) ==
  /\ d \in DictType(c) /\ Table(d.keys, c) /\ Paired(d, c) /\ Tallied(d) /\ Balanced(d)

\* The slots of a dictionary.
LEMMA SlotTypes ==
  ASSUME NEW c \in Nat, NEW d \in DictType(c)
  PROVE  /\ d.keys \in [0 .. c - 1 -> Keys \cup Marks]
         /\ d.values \in [0 .. c - 1 -> Values \cup {NULL_REF}]
         /\ \A i \in 0 .. c - 1 : /\ d.keys[i] \in References \cup Marks
                                  /\ d.values[i] \in References \cup Marks
         /\ Capacity(d) = c
<1>1. /\ d.keys \in Arrays(Keys \cup Marks, c)
      /\ d.values \in Arrays(Values \cup {NULL_REF}, c)
  BY DEF DictType
<1>2. Capacity(d) = c
  BY <1>1, ArraySize DEF Capacity
<1>3. NULL_REF \in Marks
  BY DEF Marks
<1> QED BY <1>1, <1>2, <1>3 DEF Arrays, References

\* Arrays and counters are replaced.
LEMMA Replaced ==
  ASSUME NEW c, NEW b, NEW d \in DictType(b), NEW keys \in Arrays(Keys \cup Marks, c),
         NEW values \in Arrays(Values \cup {NULL_REF}, c), NEW size \in Int, NEW occupied \in Int
  PROVE  [d EXCEPT !.keys = keys, !.values = values, !.size = size, !.occupied = occupied]
           \in DictType(c)
  BY DEF DictType

\* The counts of references once k and v are in slot x.
StoredCounts(keys, values, x, k, v) ==
  \A r \in References :
    /\ Count([keys EXCEPT ![x] = k], {r}) + Count([values EXCEPT ![x] = v], {r})
         = Count(keys, {r}) + Count(values, {r})
           - In(keys[x], {r}) - In(values[x], {r}) + In(k, {r}) + In(v, {r})
    /\ Count(keys, {r}) \in Nat /\ Count(values, {r}) \in Nat

\* Both slots at x are replaced.
LEMMA StoreBoth ==
  ASSUME NEW c \in Nat, NEW d \in DictType(c), NEW x \in 0 .. c - 1,
         NEW k \in Keys \cup Marks, NEW v \in Values \cup {NULL_REF}
  PROVE  /\ StoredCounts(d.keys, d.values, x, k, v)
         /\ [d.keys EXCEPT ![x] = k] \in Arrays(Keys \cup Marks, c)
         /\ [d.values EXCEPT ![x] = v] \in Arrays(Values \cup {NULL_REF}, c)
<1>1. /\ d.keys \in Arrays(Keys \cup Marks, c)
      /\ d.values \in Arrays(Values \cup {NULL_REF}, c)
  BY DEF DictType
<1>2. ASSUME NEW S
      PROVE  /\ Count([d.keys EXCEPT ![x] = k], S) = Count(d.keys, S) - In(d.keys[x], S) + In(k, S)
             /\ Count(d.keys, S) \in Nat
  <2>1. Count([d.keys EXCEPT ![x] = k], S) = Count(d.keys, S) - In(d.keys[x], S) + In(k, S)
    BY <1>1, CountUpdate
  <2>2. Count(d.keys, S) \in Nat
    BY <1>1, CountAll
  <2> QED BY <2>1, <2>2
<1>3. ASSUME NEW S
      PROVE  /\ Count([d.values EXCEPT ![x] = v], S)
                  = Count(d.values, S) - In(d.values[x], S) + In(v, S)
             /\ Count(d.values, S) \in Nat
  <2>1. Count([d.values EXCEPT ![x] = v], S) = Count(d.values, S) - In(d.values[x], S) + In(v, S)
    BY <1>1, CountUpdate
  <2>2. Count(d.values, S) \in Nat
    BY <1>1, CountAll
  <2> QED BY <2>1, <2>2
<1>4. StoredCounts(d.keys, d.values, x, k, v)
  <2> SUFFICES ASSUME NEW r \in References
               PROVE  /\ Count([d.keys EXCEPT ![x] = k], {r})
                           + Count([d.values EXCEPT ![x] = v], {r})
                           = Count(d.keys, {r}) + Count(d.values, {r})
                             - In(d.keys[x], {r}) - In(d.values[x], {r}) + In(k, {r}) + In(v, {r})
                      /\ Count(d.keys, {r}) \in Nat /\ Count(d.values, {r}) \in Nat
    BY DEF StoredCounts
  <2>1. \A b, T : In(b, T) \in Nat
    BY DEF In
  <2>2. /\ Count([d.keys EXCEPT ![x] = k], {r}) = Count(d.keys, {r}) - In(d.keys[x], {r}) + In(k, {r})
        /\ Count(d.keys, {r}) \in Nat
    BY <1>2
  <2>3. /\ Count([d.values EXCEPT ![x] = v], {r})
             = Count(d.values, {r}) - In(d.values[x], {r}) + In(v, {r})
        /\ Count(d.values, {r}) \in Nat
    BY <1>3
  <2> QED BY <2>1, <2>2, <2>3
<1>5. /\ [d.keys EXCEPT ![x] = k] \in Arrays(Keys \cup Marks, c)
      /\ [d.values EXCEPT ![x] = v] \in Arrays(Values \cup {NULL_REF}, c)
  BY <1>1 DEF Arrays
<1> QED BY <1>4, <1>5

\* The counts of keys, and of keys and tombstones, once k is in slot x.
SlotCounts(keys, x, k) ==
  \A S \in {Keys, Keys \cup {TOMBSTONE_REF}} :
    /\ Count([keys EXCEPT ![x] = k], S) = Count(keys, S) - In(keys[x], S) + In(k, S)
    /\ Count(keys, S) \in Nat

\* One slot of the key array is replaced.
LEMMA CountSlots ==
  ASSUME NEW c \in Nat, NEW keys \in Arrays(Keys \cup Marks, c), NEW x \in 0 .. c - 1,
         NEW k \in Keys \cup Marks
  PROVE  SlotCounts(keys, x, k)
<1>1. ASSUME NEW S
      PROVE  Count([keys EXCEPT ![x] = k], S) = Count(keys, S) - In(keys[x], S) + In(k, S)
  BY CountUpdate
<1>2. ASSUME NEW S PROVE Count(keys, S) \in Nat
  BY CountAll
<1> QED BY <1>1, <1>2 DEF SlotCounts

\* What an insertion does to the counts of references.
Recounted(e, d, p, q, k, v) ==
  \A s \in References :
    e.held[s] = d.held[s] - In(p, {s}) - In(q, {s}) + In(k, {s}) + In(v, {s})

\* Two references are released and two are counted.
LEMMA Recount ==
  ASSUME NEW c, NEW d \in DictType(c), NEW p \in References \cup Marks,
         NEW q \in References \cup Marks, NEW k \in References \cup Marks,
         NEW v \in References \cup Marks, NEW e, e = incref(incref(decref(decref(d, p), q), k), v)
  PROVE  e \in DictType(c) /\ SameSlots(e, d) /\ Recounted(e, d, p, q, k, v)
<1> DEFINE d1 == decref(d, p)
           d2 == decref(d1, q)
           d3 == incref(d2, k)
           d4 == incref(d3, v)
<1>1. /\ d1 \in DictType(c) /\ SameSlots(d1, d)
      /\ \A s \in References : d1.held[s] = d.held[s] - In(p, {s})
  BY Decref
<1> HIDE DEF d1
<1>2. /\ d2 \in DictType(c) /\ SameSlots(d2, d1)
      /\ \A s \in References : d2.held[s] = d1.held[s] - In(q, {s})
  BY <1>1, Decref
<1> HIDE DEF d2
<1>3. /\ d3 \in DictType(c) /\ SameSlots(d3, d2)
      /\ \A s \in References : d3.held[s] = d2.held[s] + In(k, {s})
  BY <1>2, Incref
<1> HIDE DEF d3
<1>4. /\ d4 \in DictType(c) /\ SameSlots(d4, d3)
      /\ \A s \in References : d4.held[s] = d3.held[s] + In(v, {s})
  BY <1>3, Incref
<1> HIDE DEF d4
<1>5. SameSlots(d4, d)
  BY <1>1, <1>2, <1>3, <1>4 DEF SameSlots
<1>6. \A s \in References :
        d4.held[s] = d.held[s] - In(p, {s}) - In(q, {s}) + In(k, {s}) + In(v, {s})
  <2>1. \A s \in References : d.held[s] \in Int /\ \A y : In(y, {s}) \in Int
    BY DEF DictType, In
  <2> QED BY <1>1, <1>2, <1>3, <1>4, <2>1
<1>7. e = d4
  BY DEF d1, d2, d3, d4
<1> QED BY <1>4, <1>5, <1>6, <1>7 DEF Recounted

\* A new entry at a mark on the way of its key.
LEMMA InsertSound ==
  ASSUME NEW c \in Nat \ {0}, NEW d, Sound(d, c), NEW k \in Keys, NEW v \in Values, Hashable(k),
         Absent(d.keys, k, c), NEW x \in 0 .. c - 1, d.keys[x] \in Marks,
         \E j \in 0 .. c - 1 : Slot(k, j, c) = x /\ Passed(d.keys, k, j, c),
         NEW e, e = Insert(d, x, k, v)
  PROVE  /\ Sound(e, c) /\ e.exc = d.exc /\ e.lost = d.lost /\ e.size = d.size + 1
         /\ e.keys = [d.keys EXCEPT ![x] = k] /\ e.values = [d.values EXCEPT ![x] = v]
<1> DEFINE m == incref(incref(decref(decref(d, d.keys[x]), d.values[x]), k), v)
<1>0. c \in Nat
  OBVIOUS
<1>1. d \in DictType(c) /\ Table(d.keys, c) /\ Paired(d, c) /\ Tallied(d) /\ Balanced(d)
  BY DEF Sound
<1>2. /\ d.keys[x] \in References \cup Marks /\ d.values[x] \in References \cup Marks
      /\ k \in References \cup Marks /\ v \in References \cup Marks
  BY <1>0, <1>1, SlotTypes DEF References
<1>3. m \in DictType(c) /\ SameSlots(m, d) /\ Recounted(m, d, d.keys[x], d.values[x], k, v)
  BY <1>1, <1>2, Recount
<1>4. e = [m EXCEPT !.size = @ + 1, !.occupied = IF d.keys[x] = NULL_REF THEN @ + 1 ELSE @,
                    !.keys[x] = k, !.values[x] = v]
  BY DEF Insert
<1> HIDE DEF m
<1>5. /\ k \in Keys \cup Marks /\ v \in Values \cup {NULL_REF}
      /\ d.keys \in Arrays(Keys \cup Marks, c) /\ d.values \in Arrays(Values \cup {NULL_REF}, c)
  BY <1>1 DEF DictType
<1>6. /\ [d.keys EXCEPT ![x] = k] \in Arrays(Keys \cup Marks, c)
      /\ [d.values EXCEPT ![x] = v] \in Arrays(Values \cup {NULL_REF}, c)
  BY <1>5 DEF Arrays
<1>7. /\ e.keys = [d.keys EXCEPT ![x] = k] /\ e.values = [d.values EXCEPT ![x] = v]
      /\ e.size = d.size + 1 /\ e.exc = d.exc /\ e.lost = d.lost /\ e.held = m.held
      /\ e.occupied = IF d.keys[x] = NULL_REF THEN d.occupied + 1 ELSE d.occupied
  BY <1>3, <1>4 DEF DictType, SameSlots
<1>8. e \in DictType(c)
  <2>1. e = [m EXCEPT !.keys = e.keys, !.values = e.values, !.size = e.size, !.occupied = e.occupied]
    BY <1>3, <1>4, <1>7 DEF DictType, SameSlots
  <2>2. e.size \in Int /\ e.occupied \in Int
    BY <1>1, <1>7 DEF DictType
  <2>3. e.keys \in Arrays(Keys \cup Marks, c) /\ e.values \in Arrays(Values \cup {NULL_REF}, c)
    BY <1>6, <1>7
  <2>4. [m EXCEPT !.keys = e.keys, !.values = e.values, !.size = e.size, !.occupied = e.occupied]
          \in DictType(c)
    BY <1>3, <2>2, <2>3, Replaced
  <2> QED BY <2>1, <2>4
<1>9. Table(e.keys, c)
  BY <1>1, <1>7, TableInsert
<1>10. Paired(e, c)
  BY <1>1, <1>5, <1>7 DEF Paired, Arrays
<1>11. Tallied(e)
  <2>1. /\ e.keys = [d.keys EXCEPT ![x] = k]
        /\ Count([d.keys EXCEPT ![x] = k], Keys)
             = Count(d.keys, Keys) - In(d.keys[x], Keys) + In(k, Keys)
        /\ Count([d.keys EXCEPT ![x] = k], Keys \cup {TOMBSTONE_REF})
             = Count(d.keys, Keys \cup {TOMBSTONE_REF})
               - In(d.keys[x], Keys \cup {TOMBSTONE_REF}) + In(k, Keys \cup {TOMBSTONE_REF})
        /\ Count(d.keys, Keys) \in Nat /\ Count(d.keys, Keys \cup {TOMBSTONE_REF}) \in Nat
    <3>1. SlotCounts(d.keys, x, k)
      BY <1>0, <1>5, CountSlots
    <3> QED BY <1>7, <3>1 DEF SlotCounts
  <2>2. /\ In(d.keys[x], Keys) = 0 /\ In(k, Keys) = 1
        /\ In(d.keys[x], Keys \cup {TOMBSTONE_REF}) = IF d.keys[x] = NULL_REF THEN 0 ELSE 1
        /\ In(k, Keys \cup {TOMBSTONE_REF}) = 1
    BY KeysAndMarks DEF In
  <2> QED BY <1>1, <1>7, <2>1, <2>2 DEF Tallied
<1>12. Balanced(e)
  <2> SUFFICES ASSUME NEW r \in References
               PROVE  e.held[r] = Count(e.keys, {r}) + Count(e.values, {r})
    BY DEF Balanced
  <2>1. /\ Count([d.keys EXCEPT ![x] = k], {r}) + Count([d.values EXCEPT ![x] = v], {r})
          = Count(d.keys, {r}) + Count(d.values, {r})
            - In(d.keys[x], {r}) - In(d.values[x], {r}) + In(k, {r}) + In(v, {r})
        /\ Count(d.keys, {r}) \in Nat /\ Count(d.values, {r}) \in Nat
    <3>1. StoredCounts(d.keys, d.values, x, k, v)
      BY <1>0, <1>1, <1>5, StoreBoth
    <3> QED BY <3>1 DEF StoredCounts
  <2>2. d.held[r] = Count(d.keys, {r}) + Count(d.values, {r})
    BY <1>1 DEF Balanced
  <2>3. m.held[r] = d.held[r] - In(d.keys[x], {r}) - In(d.values[x], {r}) + In(k, {r}) + In(v, {r})
    BY <1>3 DEF Recounted
  <2>4. d.held[r] \in Int /\ \A y, T : In(y, T) \in Int
    BY <1>1 DEF DictType, In
  <2> QED BY <1>7, <2>1, <2>2, <2>3, <2>4
<1> QED BY <1>7, <1>8, <1>9, <1>10, <1>11, <1>12 DEF Sound

\* The value of an entry is replaced.
LEMMA OverwriteSound ==
  ASSUME NEW c \in Nat \ {0}, NEW d, Sound(d, c), NEW v \in Values, NEW x \in 0 .. c - 1,
         d.keys[x] \in Keys, NEW e, e = Overwrite(d, x, v)
  PROVE  /\ Sound(e, c) /\ e.exc = d.exc /\ e.lost = d.lost /\ e.size = d.size
         /\ e.keys = d.keys /\ e.values = [d.values EXCEPT ![x] = v]
<1> DEFINE l == decref(d, d.values[x])
           m == incref(l, v)
<1>0. c \in Nat
  OBVIOUS
<1>1. d \in DictType(c) /\ Table(d.keys, c) /\ Paired(d, c) /\ Tallied(d) /\ Balanced(d)
  BY DEF Sound
<1>2. d.values[x] \in References \cup Marks /\ v \in References \cup Marks
  BY <1>0, <1>1, SlotTypes DEF References
<1>3. /\ l \in DictType(c) /\ SameSlots(l, d)
      /\ \A s \in References : l.held[s] = d.held[s] - In(d.values[x], {s})
  BY <1>1, <1>2, Decref
<1> HIDE DEF l
<1>4. /\ m \in DictType(c) /\ SameSlots(m, l)
      /\ \A s \in References : m.held[s] = l.held[s] + In(v, {s})
  BY <1>2, <1>3, Incref
<1>5. e = [m EXCEPT !.values[x] = v]
  BY DEF Overwrite, l
<1> HIDE DEF m
<1>6. /\ d.keys \in Arrays(Keys \cup Marks, c) /\ d.values \in Arrays(Values \cup {NULL_REF}, c)
      /\ d.keys[x] \in Keys \cup Marks /\ v \in Values \cup {NULL_REF}
  BY <1>1 DEF DictType
<1>7. [d.values EXCEPT ![x] = v] \in Arrays(Values \cup {NULL_REF}, c)
  BY <1>6 DEF Arrays
<1>8. /\ e.keys = d.keys /\ e.values = [d.values EXCEPT ![x] = v]
      /\ e.size = d.size /\ e.exc = d.exc /\ e.lost = d.lost /\ e.held = m.held
      /\ e.occupied = d.occupied
  BY <1>3, <1>4, <1>5 DEF DictType, SameSlots
<1>9. e \in DictType(c)
  BY <1>3, <1>4, <1>5, <1>7 DEF DictType, SameSlots
<1>10. Paired(e, c)
  BY <1>1, <1>6, <1>8 DEF Paired, Arrays
<1>11. Tallied(e)
  BY <1>1, <1>8 DEF Tallied
<1>12. Balanced(e)
  <2> SUFFICES ASSUME NEW r \in References
               PROVE  e.held[r] = Count(e.keys, {r}) + Count(e.values, {r})
    BY DEF Balanced
  <2>1. [d.keys EXCEPT ![x] = d.keys[x]] = d.keys
    BY <1>6 DEF Arrays
  <2>2. /\ Count([d.keys EXCEPT ![x] = d.keys[x]], {r}) + Count([d.values EXCEPT ![x] = v], {r})
          = Count(d.keys, {r}) + Count(d.values, {r})
            - In(d.keys[x], {r}) - In(d.values[x], {r}) + In(d.keys[x], {r}) + In(v, {r})
        /\ Count(d.keys, {r}) \in Nat /\ Count(d.values, {r}) \in Nat
    <3>1. StoredCounts(d.keys, d.values, x, d.keys[x], v)
      BY <1>0, <1>1, <1>6, StoreBoth
    <3> QED BY <3>1 DEF StoredCounts
  <2>3. d.held[r] = Count(d.keys, {r}) + Count(d.values, {r})
    BY <1>1 DEF Balanced
  <2>4. d.held[r] \in Int /\ \A y, T : In(y, T) \in Int
    BY <1>1 DEF DictType, In
  <2> QED BY <1>3, <1>4, <1>8, <2>1, <2>2, <2>3, <2>4
<1> QED BY <1>1, <1>8, <1>9, <1>10, <1>11, <1>12 DEF Sound

\* An entry gives way to a tombstone.
LEMMA RemovedSound ==
  ASSUME NEW c \in Nat \ {0}, NEW d, Sound(d, c), NEW x \in 0 .. c - 1,
         d.keys[x] \in Keys, NEW e, e = Removed(d, x)
  PROVE  /\ Sound(e, c) /\ e.exc = d.exc /\ e.lost = d.lost /\ e.size = d.size - 1
         /\ e.keys = [d.keys EXCEPT ![x] = TOMBSTONE_REF]
         /\ e.values = [d.values EXCEPT ![x] = NULL_REF]
<1> DEFINE l == decref(d, d.keys[x])
           m == decref(l, d.values[x])
<1>0. c \in Nat
  OBVIOUS
<1>1. d \in DictType(c) /\ Table(d.keys, c) /\ Paired(d, c) /\ Tallied(d) /\ Balanced(d)
  BY DEF Sound
<1>2. d.values[x] \in References \cup Marks /\ d.keys[x] \in References \cup Marks
  BY <1>0, <1>1, SlotTypes
<1>3. /\ l \in DictType(c) /\ SameSlots(l, d)
      /\ \A s \in References : l.held[s] = d.held[s] - In(d.keys[x], {s})
  BY <1>1, <1>2, Decref
<1> HIDE DEF l
<1>4. /\ m \in DictType(c) /\ SameSlots(m, l)
      /\ \A s \in References : m.held[s] = l.held[s] - In(d.values[x], {s})
  BY <1>2, <1>3, Decref
<1>5. e = [m EXCEPT !.size = @ - 1, !.keys[x] = TOMBSTONE_REF, !.values[x] = NULL_REF]
  BY DEF Removed, l
<1> HIDE DEF m
<1>6. /\ d.keys \in Arrays(Keys \cup Marks, c) /\ d.values \in Arrays(Values \cup {NULL_REF}, c)
      /\ TOMBSTONE_REF \in Keys \cup Marks /\ NULL_REF \in Values \cup {NULL_REF}
  BY <1>1, KeysAndMarks DEF DictType
<1>7. /\ [d.keys EXCEPT ![x] = TOMBSTONE_REF] \in Arrays(Keys \cup Marks, c)
      /\ [d.values EXCEPT ![x] = NULL_REF] \in Arrays(Values \cup {NULL_REF}, c)
  BY <1>6 DEF Arrays
<1>8. /\ e.keys = [d.keys EXCEPT ![x] = TOMBSTONE_REF]
      /\ e.values = [d.values EXCEPT ![x] = NULL_REF]
      /\ e.size = d.size - 1 /\ e.exc = d.exc /\ e.lost = d.lost /\ e.held = m.held
      /\ e.occupied = d.occupied
  BY <1>3, <1>4, <1>5 DEF DictType, SameSlots
<1>9. e \in DictType(c)
  <2>1. e = [m EXCEPT !.keys = e.keys, !.values = e.values, !.size = e.size, !.occupied = e.occupied]
    BY <1>3, <1>4, <1>5, <1>8 DEF DictType, SameSlots
  <2>2. e.size \in Int /\ e.occupied \in Int
    BY <1>1, <1>8 DEF DictType
  <2>3. e.keys \in Arrays(Keys \cup Marks, c) /\ e.values \in Arrays(Values \cup {NULL_REF}, c)
    BY <1>7, <1>8
  <2>4. [m EXCEPT !.keys = e.keys, !.values = e.values, !.size = e.size, !.occupied = e.occupied]
          \in DictType(c)
    BY <1>4, <2>2, <2>3, Replaced
  <2> QED BY <2>1, <2>4
<1>10. Table(e.keys, c)
  BY <1>1, <1>8, TableRemove
<1>11. Paired(e, c)
  BY <1>1, <1>6, <1>8, KeysAndMarks DEF Paired, Arrays
<1>12. Tallied(e)
  <2>1. /\ e.keys = [d.keys EXCEPT ![x] = TOMBSTONE_REF]
        /\ Count([d.keys EXCEPT ![x] = TOMBSTONE_REF], Keys)
             = Count(d.keys, Keys) - In(d.keys[x], Keys) + In(TOMBSTONE_REF, Keys)
        /\ Count([d.keys EXCEPT ![x] = TOMBSTONE_REF], Keys \cup {TOMBSTONE_REF})
             = Count(d.keys, Keys \cup {TOMBSTONE_REF})
               - In(d.keys[x], Keys \cup {TOMBSTONE_REF})
               + In(TOMBSTONE_REF, Keys \cup {TOMBSTONE_REF})
        /\ Count(d.keys, Keys) \in Nat /\ Count(d.keys, Keys \cup {TOMBSTONE_REF}) \in Nat
    <3>1. SlotCounts(d.keys, x, TOMBSTONE_REF)
      BY <1>0, <1>6, CountSlots
    <3> QED BY <1>8, <3>1 DEF SlotCounts
  <2>2. /\ In(d.keys[x], Keys) = 1 /\ In(TOMBSTONE_REF, Keys) = 0
        /\ In(d.keys[x], Keys \cup {TOMBSTONE_REF}) = 1
        /\ In(TOMBSTONE_REF, Keys \cup {TOMBSTONE_REF}) = 1
    BY KeysAndMarks DEF In
  <2> QED BY <1>1, <1>8, <2>1, <2>2 DEF Tallied
<1>13. Balanced(e)
  <2> SUFFICES ASSUME NEW r \in References
               PROVE  e.held[r] = Count(e.keys, {r}) + Count(e.values, {r})
    BY DEF Balanced
  <2>1. /\ Count([d.keys EXCEPT ![x] = TOMBSTONE_REF], {r})
          + Count([d.values EXCEPT ![x] = NULL_REF], {r})
          = Count(d.keys, {r}) + Count(d.values, {r})
            - In(d.keys[x], {r}) - In(d.values[x], {r})
            + In(TOMBSTONE_REF, {r}) + In(NULL_REF, {r})
        /\ Count(d.keys, {r}) \in Nat /\ Count(d.values, {r}) \in Nat
    <3>1. StoredCounts(d.keys, d.values, x, TOMBSTONE_REF, NULL_REF)
      BY <1>0, <1>1, <1>6, StoreBoth
    <3> QED BY <3>1 DEF StoredCounts
  <2>2. d.held[r] = Count(d.keys, {r}) + Count(d.values, {r})
    BY <1>1 DEF Balanced
  <2>3. In(TOMBSTONE_REF, {r}) = 0 /\ In(NULL_REF, {r}) = 0
    BY KeysAndMarks DEF In, References
  <2>4. d.held[r] \in Int /\ \A y, T : In(y, T) \in Int
    BY <1>1 DEF DictType, In
  <2> QED BY <1>3, <1>4, <1>8, <2>1, <2>2, <2>3, <2>4
<1> QED BY <1>8, <1>9, <1>10, <1>11, <1>12, <1>13 DEF Sound

-----------------------------------------------------------------------------
(* The map. *)

\* The entries of the first n slots, and those for one value.
Pairs(keys, values, n) ==
  {<<ValueOf[keys[i]], values[i]>> : i \in {j \in 0 .. n - 1 : keys[j] \in Keys}}
Of(pairs, u) == {p \in pairs : p[1] = u}

\* A pair is that of a slot.
LEMMA InPairs ==
  ASSUME NEW keys, NEW values, NEW n
  PROVE  \A p : p \in Pairs(keys, values, n) <=>
           \E i \in 0 .. n - 1 : keys[i] \in Keys /\ p = <<ValueOf[keys[i]], values[i]>>
  BY DEF Pairs

\* The map is that of all slots.
LEMMA MapPairs ==
  ASSUME NEW c \in Nat, NEW d \in DictType(c)
  PROVE  Map(d) = Pairs(d.keys, d.values, c) /\ Entries(d) = {i \in DOMAIN d.keys : d.keys[i] \in Keys}
<1>1. d.keys \in [0 .. c - 1 -> Keys \cup Marks]
  BY SlotTypes
<1>2. Entries(d) = {i \in 0 .. c - 1 : d.keys[i] \in Keys}
  BY <1>1, KeysAndMarks DEF Entries
<1> QED BY <1>1, <1>2 DEF Map, Pairs

\* One slot more.
LEMMA PairsStep ==
  ASSUME NEW keys, NEW values, NEW n \in Nat
  PROVE  /\ Pairs(keys, values, 0) = {}
         /\ keys[n] \notin Keys => Pairs(keys, values, n + 1) = Pairs(keys, values, n)
         /\ keys[n] \in Keys =>
              Pairs(keys, values, n + 1)
                = Pairs(keys, values, n) \cup {<<ValueOf[keys[n]], values[n]>>}
<1>1. \A i : i \in 0 .. (n + 1) - 1 <=> i \in 0 .. n - 1 \/ i = n
  OBVIOUS
<1>2. 0 .. 0 - 1 = {}
  OBVIOUS
<1> QED BY <1>1, <1>2 DEF Pairs

\* An absent key has no entry.
LEMMA PairsAbsent ==
  ASSUME NEW c, NEW keys, NEW values, NEW k, Absent(keys, k, c)
  PROVE  Of(Pairs(keys, values, c), ValueOf[k]) = {}
<1> SUFFICES ASSUME NEW p, p \in Pairs(keys, values, c), p[1] = ValueOf[k] PROVE FALSE
  BY DEF Of
<1>1. PICK i \in 0 .. c - 1 : keys[i] \in Keys /\ p = <<ValueOf[keys[i]], values[i]>>
  BY InPairs
<1>2. p[1] = ValueOf[keys[i]]
  BY <1>1
<1> QED BY <1>1, <1>2 DEF Absent, ref_eq

\* u has one entry, w.
Single(pairs, u, w) == Of(pairs, u) = {<<u, w>>}

\* A key that is found has one entry.
LEMMA PairsFound ==
  ASSUME NEW c, NEW keys, NEW values, NEW k, Distinct(keys, c), NEW x \in 0 .. c - 1,
         keys[x] \in Keys, ref_eq(k, keys[x])
  PROVE  Single(Pairs(keys, values, c), ValueOf[k], values[x])
<1>1. <<ValueOf[k], values[x]>> \in Pairs(keys, values, c)
  BY InPairs DEF ref_eq
<1>2. ASSUME NEW p, p \in Pairs(keys, values, c), p[1] = ValueOf[k]
      PROVE  p = <<ValueOf[k], values[x]>>
  <2>1. PICK i \in 0 .. c - 1 : keys[i] \in Keys /\ p = <<ValueOf[keys[i]], values[i]>>
    BY <1>2, InPairs
  <2>2. p[1] = ValueOf[keys[i]]
    BY <2>1
  <2>3. ref_eq(keys[i], keys[x])
    BY <1>2, <2>2 DEF ref_eq
  <2>4. i = x
    BY <2>1, <2>3 DEF Distinct
  <2> QED BY <1>2, <2>1, <2>2, <2>4
<1>3. <<ValueOf[k], values[x]>>[1] = ValueOf[k]
  OBVIOUS
<1> QED BY <1>1, <1>2, <1>3 DEF Of, Single

\* The entries once k and v are in slot x.
PairsAfter(keys, values, x, k, v, c, pairs) ==
  Pairs([keys EXCEPT ![x] = k], [values EXCEPT ![x] = v], c) = pairs

\* An entry is added at a mark.
LEMMA PairsInsert ==
  ASSUME NEW c \in Nat, NEW keys \in Arrays(Keys \cup Marks, c),
         NEW values \in Arrays(Values \cup {NULL_REF}, c), NEW k \in Keys, NEW v,
         NEW x \in 0 .. c - 1, keys[x] \in Marks
  PROVE  PairsAfter(keys, values, x, k, v, c, Pairs(keys, values, c) \cup {<<ValueOf[k], v>>})
<1> DEFINE K == [keys EXCEPT ![x] = k]
           V == [values EXCEPT ![x] = v]
<1>1. /\ K[x] = k /\ V[x] = v
      /\ \A i \in 0 .. c - 1 : i # x => K[i] = keys[i] /\ V[i] = values[i]
  BY DEF Arrays
<1>2. keys[x] \notin Keys
  BY KeysAndMarks
<1> HIDE DEF K, V
<1>3. ASSUME NEW p
      PROVE  p \in Pairs(K, V, c) <=> p \in Pairs(keys, values, c) \/ p = <<ValueOf[k], v>>
  <2>1. p \in Pairs(K, V, c) <=>
          \E i \in 0 .. c - 1 : K[i] \in Keys /\ p = <<ValueOf[K[i]], V[i]>>
    BY InPairs
  <2>2. p \in Pairs(keys, values, c) <=>
          \E i \in 0 .. c - 1 : keys[i] \in Keys /\ p = <<ValueOf[keys[i]], values[i]>>
    BY InPairs
  <2> QED BY <1>1, <1>2, <2>1, <2>2
<1> QED BY <1>3 DEF K, V, PairsAfter

\* A value is replaced.
LEMMA PairsOverwrite ==
  ASSUME NEW c \in Nat, NEW keys \in Arrays(Keys \cup Marks, c),
         NEW values \in Arrays(Values \cup {NULL_REF}, c), NEW k, NEW v, Distinct(keys, c), NEW x \in 0 .. c - 1, keys[x] \in Keys, ref_eq(k, keys[x])
  PROVE  PairsAfter(keys, values, x, keys[x], v, c,
                    (Pairs(keys, values, c) \ Of(Pairs(keys, values, c), ValueOf[k]))
                    \cup {<<ValueOf[k], v>>})
<1> DEFINE V == [values EXCEPT ![x] = v]
<1>1. V[x] = v /\ \A i \in 0 .. c - 1 : i # x => V[i] = values[i]
  BY DEF Arrays
<1>2. ValueOf[k] = ValueOf[keys[x]]
  BY DEF ref_eq
<1> HIDE DEF V
<1>3. ASSUME NEW p
      PROVE  p \in Pairs(keys, V, c) <=>
               \/ p \in Pairs(keys, values, c) /\ p[1] # ValueOf[k]
               \/ p = <<ValueOf[k], v>>
  <2>1. p \in Pairs(keys, V, c) <=>
          \E i \in 0 .. c - 1 : keys[i] \in Keys /\ p = <<ValueOf[keys[i]], V[i]>>
    BY InPairs
  <2>2. p \in Pairs(keys, values, c) <=>
          \E i \in 0 .. c - 1 : keys[i] \in Keys /\ p = <<ValueOf[keys[i]], values[i]>>
    BY InPairs
  <2>3. \A i \in 0 .. c - 1 : keys[i] \in Keys => (ValueOf[keys[i]] = ValueOf[k] <=> i = x)
    BY <1>2 DEF Distinct, ref_eq
  <2>4. \A i, y : p = <<ValueOf[keys[i]], y>> => p[1] = ValueOf[keys[i]]
    OBVIOUS
  <2> QED BY <1>1, <1>2, <2>1, <2>2, <2>3, <2>4
<1>4. [keys EXCEPT ![x] = keys[x]] = keys
  BY DEF Arrays
<1> QED BY <1>3, <1>4 DEF V, Of, PairsAfter

\* An entry is removed.
LEMMA PairsRemove ==
  ASSUME NEW c \in Nat, NEW keys \in Arrays(Keys \cup Marks, c),
         NEW values \in Arrays(Values \cup {NULL_REF}, c), NEW k, Distinct(keys, c),
         NEW x \in 0 .. c - 1, keys[x] \in Keys, ref_eq(k, keys[x])
  PROVE  PairsAfter(keys, values, x, TOMBSTONE_REF, NULL_REF, c,
                    Pairs(keys, values, c) \ Of(Pairs(keys, values, c), ValueOf[k]))
<1> DEFINE K == [keys EXCEPT ![x] = TOMBSTONE_REF]
           V == [values EXCEPT ![x] = NULL_REF]
<1>1. /\ K[x] \notin Keys
      /\ \A i \in 0 .. c - 1 : i # x => K[i] = keys[i] /\ V[i] = values[i]
  BY KeysAndMarks DEF Arrays
<1>2. ValueOf[k] = ValueOf[keys[x]]
  BY DEF ref_eq
<1> HIDE DEF K, V
<1>3. ASSUME NEW p
      PROVE  p \in Pairs(K, V, c) <=> p \in Pairs(keys, values, c) /\ p[1] # ValueOf[k]
  <2>1. p \in Pairs(K, V, c) <=>
          \E i \in 0 .. c - 1 : K[i] \in Keys /\ p = <<ValueOf[K[i]], V[i]>>
    BY InPairs
  <2>2. p \in Pairs(keys, values, c) <=>
          \E i \in 0 .. c - 1 : keys[i] \in Keys /\ p = <<ValueOf[keys[i]], values[i]>>
    BY InPairs
  <2>3. \A i \in 0 .. c - 1 : keys[i] \in Keys => (ValueOf[keys[i]] = ValueOf[k] <=> i = x)
    BY <1>2 DEF Distinct, ref_eq
  <2>4. \A i, y : p = <<ValueOf[keys[i]], y>> => p[1] = ValueOf[keys[i]]
    OBVIOUS
  <2> QED BY <1>1, <1>2, <2>1, <2>2, <2>3, <2>4
<1> QED BY <1>3 DEF K, V, Of, PairsAfter

-----------------------------------------------------------------------------
(* Doubling. *)

\* The slots that the two searches of a dictionary give.
OldSlot(d, k, differs) == Find(d, k, TRUE, differs)
NewSlot(d, k, differs) == Find(d, k, FALSE, differs)

\* The search for an entry.
LEMMA OldSlotFound ==
  ASSUME NEW c \in Nat \ {0}, NEW d, Table(d.keys, c), NEW k \in Keys, Hashable(k),
         NEW differs \in BOOLEAN
  PROVE  FoundAt(OldSlot(d, k, differs), d.keys, k, c)
<1> DEFINE skip == TRUE
           x == OldSlot(d, k, differs)
           keys == d.keys
<1>1. skip \in BOOLEAN /\ skip = TRUE
  OBVIOUS
<1>2. x = keys_find(keys, k, skip, differs)
  BY DEF OldSlot, Find
<1>3. Table(keys, c)
  OBVIOUS
<1> HIDE DEF skip, x, keys
<1>4. FoundAt(x, keys, k, c)
  BY <1>1, <1>2, <1>3, FindOld
<1> QED BY <1>4 DEF x, keys

\* The search for a new slot.
LEMMA NewSlotFound ==
  ASSUME NEW c \in Nat \ {0}, NEW d, Table(d.keys, c), NEW k \in Keys, Hashable(k),
         Absent(d.keys, k, c), NEW differs \in BOOLEAN
  PROVE  RoomAt(NewSlot(d, k, differs), d.keys, k, c)
<1> DEFINE skip == FALSE
           x == NewSlot(d, k, differs)
           keys == d.keys
<1>1. skip \in BOOLEAN /\ skip = FALSE
  OBVIOUS
<1>2. x = keys_find(keys, k, skip, differs)
  BY DEF NewSlot, Find
<1>3. Table(keys, c) /\ Absent(keys, k, c)
  OBVIOUS
<1> HIDE DEF skip, x, keys
<1>4. RoomAt(x, keys, k, c)
  BY <1>1, <1>2, <1>3, FindNew
<1> QED BY <1>4 DEF x, keys

\* The new arrays after n slots, by their definition.
LEMMA MovedSteps ==
  ASSUME NEW c \in Nat, NEW d, Capacity(d) = c, NEW differs
  PROVE  /\ Moved(d, differs)[0] = Fresh(d)
         /\ \A n \in 0 .. c - 1 :
              Moved(d, differs)[n + 1] = MoveSlot(Moved(d, differs)[n], d, n, differs)
<1> DEFINE Rec(f, m) ==
             f = [n \in 0 .. m |-> IF n = 0 THEN Fresh(d) ELSE MoveSlot(f[n - 1], d, n - 1, differs)]
           S == {m \in Nat : \E f : Rec(f, m)}
<1>1. 0 \in S
  <2> DEFINE f == [n \in 0 .. 0 |-> Fresh(d)]
  <2>1. Rec(f, 0)
    OBVIOUS
  <2> QED BY <2>1
<1>2. ASSUME NEW m \in Nat, m \in S PROVE m + 1 \in S
  <2>1. PICK f : Rec(f, m)
    BY <1>2
  <2> DEFINE g == [n \in 0 .. m + 1 |-> IF n = m + 1 THEN MoveSlot(f[m], d, m, differs) ELSE f[n]]
  <2>2. ASSUME NEW n \in 0 .. m + 1
        PROVE  g[n] = IF n = 0 THEN Fresh(d) ELSE MoveSlot(g[n - 1], d, n - 1, differs)
    <3>1. CASE n = m + 1
      <4>1. m \in 0 .. m + 1 /\ m # m + 1 /\ n - 1 = m /\ n # 0
        BY <3>1
      <4> QED BY <3>1, <4>1
    <3>2. CASE n # m + 1
      <4>1. n \in 0 .. m /\ g[n] = f[n] /\ (n # 0 => g[n - 1] = f[n - 1])
        BY <3>2
      <4>2. f[n] = IF n = 0 THEN Fresh(d) ELSE MoveSlot(f[n - 1], d, n - 1, differs)
        BY <2>1, <4>1
      <4> QED BY <4>1, <4>2
    <3> QED BY <3>1, <3>2
  <2>3. Rec(g, m + 1)
    BY <2>2
  <2> HIDE DEF g, Rec
  <2> QED BY <2>3
<1>3. c \in S
  <2> HIDE DEF S
  <2> QED BY <1>1, <1>2, SetInduction
<1>4. Moved(d, differs) = CHOOSE f : Rec(f, c)
  BY DEF Moved
<1>5. Rec(Moved(d, differs), c)
  <2> HIDE DEF Rec
  <2> QED BY <1>3, <1>4
<1>6. \A n \in 0 .. c : Moved(d, differs)[n]
        = IF n = 0 THEN Fresh(d) ELSE MoveSlot(Moved(d, differs)[n - 1], d, n - 1, differs)
  BY <1>5
<1>7. ASSUME NEW n \in 0 .. c - 1
      PROVE  Moved(d, differs)[n + 1] = MoveSlot(Moved(d, differs)[n], d, n, differs)
  <2>1. n + 1 \in 0 .. c /\ n + 1 # 0 /\ (n + 1) - 1 = n
    OBVIOUS
  <2> QED BY <1>6, <2>1
<1> QED BY <1>6, <1>7

\* What is given back after n slots, by its definition.
LEMMA DroppedSteps ==
  ASSUME NEW c \in Nat, NEW d, Capacity(d) = c, NEW start
  PROVE  /\ Dropped(d, start)[0] = start
         /\ \A n \in 0 .. c - 1 : Dropped(d, start)[n + 1] = DropSlot(Dropped(d, start)[n], d, n)
<1> DEFINE Rec(f, m) ==
             f = [n \in 0 .. m |-> IF n = 0 THEN start ELSE DropSlot(f[n - 1], d, n - 1)]
           S == {m \in Nat : \E f : Rec(f, m)}
<1>1. 0 \in S
  <2> DEFINE f == [n \in 0 .. 0 |-> start]
  <2>1. Rec(f, 0)
    OBVIOUS
  <2> QED BY <2>1
<1>2. ASSUME NEW m \in Nat, m \in S PROVE m + 1 \in S
  <2>1. PICK f : Rec(f, m)
    BY <1>2
  <2> DEFINE g == [n \in 0 .. m + 1 |-> IF n = m + 1 THEN DropSlot(f[m], d, m) ELSE f[n]]
  <2>2. ASSUME NEW n \in 0 .. m + 1
        PROVE  g[n] = IF n = 0 THEN start ELSE DropSlot(g[n - 1], d, n - 1)
    <3>1. CASE n = m + 1
      <4>1. m \in 0 .. m + 1 /\ m # m + 1 /\ n - 1 = m /\ n # 0
        BY <3>1
      <4> QED BY <3>1, <4>1
    <3>2. CASE n # m + 1
      <4>1. n \in 0 .. m /\ g[n] = f[n] /\ (n # 0 => g[n - 1] = f[n - 1])
        BY <3>2
      <4>2. f[n] = IF n = 0 THEN start ELSE DropSlot(f[n - 1], d, n - 1)
        BY <2>1, <4>1
      <4> QED BY <4>1, <4>2
    <3> QED BY <3>1, <3>2
  <2>3. Rec(g, m + 1)
    BY <2>2
  <2> HIDE DEF g, Rec
  <2> QED BY <2>3
<1>3. c \in S
  <2> HIDE DEF S
  <2> QED BY <1>1, <1>2, SetInduction
<1>4. Dropped(d, start) = CHOOSE f : Rec(f, c)
  BY DEF Dropped
<1>5. Rec(Dropped(d, start), c)
  <2> HIDE DEF Rec
  <2> QED BY <1>3, <1>4
<1>6. \A n \in 0 .. c : Dropped(d, start)[n]
        = IF n = 0 THEN start ELSE DropSlot(Dropped(d, start)[n - 1], d, n - 1)
  BY <1>5
<1>7. ASSUME NEW n \in 0 .. c - 1
      PROVE  Dropped(d, start)[n + 1] = DropSlot(Dropped(d, start)[n], d, n)
  <2>1. n + 1 \in 0 .. c /\ n + 1 # 0 /\ (n + 1) - 1 = n
    OBVIOUS
  <2> QED BY <1>6, <2>1
<1> QED BY <1>6, <1>7

\* The new arrays hold the entries of the first n slots of d, and their references are
\* counted besides those of d.
Rehashed(m, d, c, n) ==
  /\ Table(m.keys, 2 * c) /\ Paired(m, 2 * c)
  /\ \A i \in 0 .. 2 * c - 1 : m.keys[i] # TOMBSTONE_REF
  /\ Pairs(m.keys, m.values, 2 * c) = Pairs(d.keys, d.values, n)
  /\ Count(m.keys, Keys) = Below(d.keys, Keys, n)
Counted(m, d) ==
  \A r \in References : m.held[r] = d.held[r] + Count(m.keys, {r}) + Count(m.values, {r})
MoveInv(m, d, c, n) ==
  /\ m \in DictType(2 * c)
  /\ m.size = d.size /\ m.occupied = d.occupied /\ m.exc = d.exc
  /\ m.lost \/ (Rehashed(m, d, c, n) /\ Counted(m, d))

\* An entry of slot n of d is not yet in the new arrays.
LEMMA NotYet ==
  ASSUME NEW c \in Nat \ {0}, NEW d, Table(d.keys, c), NEW n \in 0 .. c - 1, d.keys[n] \in Keys,
         NEW m, Rehashed(m, d, c, n)
  PROVE  Absent(m.keys, d.keys[n], 2 * c)
<1> SUFFICES ASSUME NEW i \in 0 .. 2 * c - 1, m.keys[i] \in Keys, ref_eq(d.keys[n], m.keys[i])
             PROVE  FALSE
  BY DEF Absent
<1> DEFINE p == <<ValueOf[m.keys[i]], m.values[i]>>
<1>1. p \in Pairs(m.keys, m.values, 2 * c)
  BY InPairs
<1>2. p \in Pairs(d.keys, d.values, n)
  BY <1>1 DEF Rehashed
<1>3. PICK l \in 0 .. n - 1 : d.keys[l] \in Keys /\ p = <<ValueOf[d.keys[l]], d.values[l]>>
  BY <1>2, InPairs
<1>4. ValueOf[d.keys[l]] = ValueOf[m.keys[i]]
  BY <1>3
<1>5. l \in 0 .. c - 1 /\ l # n
  OBVIOUS
<1>6. ref_eq(d.keys[l], d.keys[n])
  BY <1>4 DEF ref_eq
<1> QED BY <1>3, <1>5, <1>6 DEF Table, Distinct

\* The entry k, v of slot n is put into a slot of the new arrays.
LEMMA MoveStored ==
  ASSUME NEW c \in Nat \ {0}, NEW d, Sound(d, c), NEW n \in 0 .. c - 1, d.keys[n] \in Keys,
         NEW m, MoveInv(m, d, c, n), NEW x, ~m.lost => RoomAt(x, m.keys, d.keys[n], 2 * c),
         x # 2 * c, NEW e,
         e = incref(incref([m EXCEPT !.keys[x] = d.keys[n], !.values[x] = d.values[n]],
                           d.keys[n]), d.values[n])
  PROVE  MoveInv(e, d, c, n + 1)
<1> DEFINE k == d.keys[n]
           v == d.values[n]
           b == 2 * c
           s == [m EXCEPT !.keys[x] = k, !.values[x] = v]
           t == incref(s, k)
<1>1. d \in DictType(c) /\ Table(d.keys, c) /\ Paired(d, c)
  BY DEF Sound
<1>2. k \in Keys /\ v \in Values /\ b \in Nat \ {0} /\ b \in Nat
  BY <1>1 DEF Paired
<1>3. /\ k \in References \cup Marks /\ v \in References \cup Marks
      /\ k \in Keys \cup Marks /\ v \in Values \cup {NULL_REF}
  BY <1>2 DEF References
<1>4. Hashable(k)
  BY <1>1, <1>2 DEF Table, Probed
<1>5. /\ m \in DictType(b) /\ m.size = d.size /\ m.occupied = d.occupied /\ m.exc = d.exc
      /\ m.lost \/ (Rehashed(m, d, c, n) /\ Counted(m, d))
  BY DEF MoveInv
<1>6. e = incref(t, v)
  OBVIOUS
<1>7. n \in Nat
  OBVIOUS
<1>8. ~m.lost => RoomAt(x, m.keys, k, b)
  OBVIOUS
<1>9. Rehashed(m, d, c, n) => Absent(m.keys, k, b)
  BY <1>1, <1>2, NotYet
<1> HIDE DEF k, v, b
<1>10. /\ s.keys = [m.keys EXCEPT ![x] = k] /\ s.values = [m.values EXCEPT ![x] = v]
       /\ s.held = m.held /\ s.lost = m.lost
       /\ s.size = m.size /\ s.occupied = m.occupied /\ s.exc = m.exc
  BY <1>5 DEF DictType
<1>11. s \in DictType(b)
  <2>1. /\ m.keys \in Arrays(Keys \cup Marks, b) /\ m.values \in Arrays(Values \cup {NULL_REF}, b)
        /\ m.size \in Int /\ m.occupied \in Int
    BY <1>5 DEF DictType
  <2>2. s.keys \in Arrays(Keys \cup Marks, b) /\ s.values \in Arrays(Values \cup {NULL_REF}, b)
    <3> HIDE DEF s
    <3>1. /\ [m.keys EXCEPT ![x] = k] \in Arrays(Keys \cup Marks, b)
          /\ [m.values EXCEPT ![x] = v] \in Arrays(Values \cup {NULL_REF}, b)
      BY <1>3, <2>1 DEF Arrays
    <3> QED BY <1>10, <3>1
  <2>3. s = [m EXCEPT !.keys = s.keys, !.values = s.values, !.size = s.size, !.occupied = s.occupied]
    BY <1>5, <1>10 DEF DictType
  <2> HIDE DEF s
  <2>4. [m EXCEPT !.keys = s.keys, !.values = s.values, !.size = s.size, !.occupied = s.occupied]
          \in DictType(b)
    BY <1>5, <1>10, <2>1, <2>2, Replaced
  <2> QED BY <2>3, <2>4
<1> HIDE DEF s
<1>12. /\ t \in DictType(b) /\ SameSlots(t, s)
       /\ \A r \in References : t.held[r] = s.held[r] + In(k, {r})
  BY <1>3, <1>11, Incref
<1> HIDE DEF t
<1>13. /\ e \in DictType(b) /\ SameSlots(e, t)
       /\ \A r \in References : e.held[r] = t.held[r] + In(v, {r})
  BY <1>3, <1>6, <1>12, Incref
<1>14. /\ e.keys = [m.keys EXCEPT ![x] = k] /\ e.values = [m.values EXCEPT ![x] = v]
       /\ e.lost = m.lost /\ e.size = d.size /\ e.occupied = d.occupied /\ e.exc = d.exc
  BY <1>5, <1>10, <1>12, <1>13 DEF SameSlots
<1>15. ASSUME ~m.lost
       PROVE  Rehashed(e, d, c, n + 1) /\ Counted(e, d)
  <2>1. Rehashed(m, d, c, n) /\ Counted(m, d) /\ Absent(m.keys, k, b)
    BY <1>5, <1>9, <1>15
  <2>2. /\ Table(m.keys, b) /\ Paired(m, b)
        /\ \A i \in 0 .. b - 1 : m.keys[i] # TOMBSTONE_REF
        /\ Pairs(m.keys, m.values, b) = Pairs(d.keys, d.values, n)
        /\ Count(m.keys, Keys) = Below(d.keys, Keys, n)
    BY <2>1 DEF Rehashed, b
  <2>3. /\ m.keys \in Arrays(Keys \cup Marks, b) /\ m.values \in Arrays(Values \cup {NULL_REF}, b)
    BY <1>5 DEF DictType
  <2>4. x # -1 \/ ~(Count(m.keys, Keys) >= b - 1)
    <3>1. Below(d.keys, Keys, n) \in Nat /\ Below(d.keys, Keys, n) <= n
      BY <1>7, BelowType
    <3> QED BY <2>2, <3>1 DEF b
  <2>5. /\ x \in 0 .. b - 1 /\ m.keys[x] \in Marks
        /\ \E j \in 0 .. b - 1 : Slot(k, j, b) = x /\ Passed(m.keys, k, j, b)
    <3>1. RoomAt(x, m.keys, k, b) /\ x # b
      BY <1>8, <1>15 DEF b
    <3> QED BY <2>4, <3>1 DEF RoomAt
  <2>6. Table(e.keys, b)
    BY <1>2, <1>4, <1>14, <2>1, <2>2, <2>5, TableInsert
  <2>7. Paired(e, b)
    BY <1>2, <1>14, <2>2, <2>3, <2>5 DEF Paired, Arrays
  <2>8. \A i \in 0 .. b - 1 : e.keys[i] # TOMBSTONE_REF
    BY <1>2, <1>14, <2>2, <2>3, <2>5, KeysAndMarks DEF Arrays
  <2>9. Pairs(e.keys, e.values, b) = Pairs(d.keys, d.values, n + 1)
    <3>1. PairsAfter(m.keys, m.values, x, k, v, b, Pairs(m.keys, m.values, b) \cup {<<ValueOf[k], v>>})
      BY <1>2, <2>3, <2>5, PairsInsert
    <3>2. Pairs(d.keys, d.values, n + 1)
            = Pairs(d.keys, d.values, n) \cup {<<ValueOf[d.keys[n]], d.values[n]>>}
      BY <1>7, PairsStep
    <3>3. Pairs(e.keys, e.values, b) = Pairs(m.keys, m.values, b) \cup {<<ValueOf[k], v>>}
      BY <1>14, <3>1 DEF PairsAfter
    <3> QED BY <2>2, <3>2, <3>3 DEF k, v
  <2>10. Count(e.keys, Keys) = Below(d.keys, Keys, n + 1)
    <3>1. Below(d.keys, Keys, n + 1) = Below(d.keys, Keys, n) + 1
      <4>1. Below(d.keys, Keys, n + 1)
              = IF d.keys[n] \in Keys THEN Below(d.keys, Keys, n) + 1 ELSE Below(d.keys, Keys, n)
        BY <1>7, BelowStep
      <4> QED BY <4>1
    <3>2. SlotCounts(m.keys, x, k)
      BY <1>2, <1>3, <2>3, <2>5, CountSlots
    <3>3. /\ Count(e.keys, Keys) = Count(m.keys, Keys) - In(m.keys[x], Keys) + In(k, Keys)
          /\ Count(m.keys, Keys) \in Nat
      BY <1>14, <3>2 DEF SlotCounts
    <3>4. In(m.keys[x], Keys) = 0 /\ In(k, Keys) = 1
      BY <1>2, <2>5, KeysAndMarks DEF In
    <3> QED BY <2>2, <3>1, <3>3, <3>4
  <2>11. Counted(e, d)
    <3> SUFFICES ASSUME NEW r \in References
                 PROVE  e.held[r] = d.held[r] + Count(e.keys, {r}) + Count(e.values, {r})
      BY DEF Counted
    <3>1. StoredCounts(m.keys, m.values, x, k, v)
      BY <1>2, <1>3, <1>5, <2>5, StoreBoth
    <3>2. /\ Count(e.keys, {r}) + Count(e.values, {r})
               = Count(m.keys, {r}) + Count(m.values, {r})
                 - In(m.keys[x], {r}) - In(m.values[x], {r}) + In(k, {r}) + In(v, {r})
          /\ Count(m.keys, {r}) \in Nat /\ Count(m.values, {r}) \in Nat
      BY <1>14, <3>1 DEF StoredCounts
    <3>3. m.held[r] = d.held[r] + Count(m.keys, {r}) + Count(m.values, {r})
      BY <2>1 DEF Counted
    <3>4. In(m.keys[x], {r}) = 0 /\ In(m.values[x], {r}) = 0
      <4>1. m.keys[x] \notin Keys /\ m.keys[x] \notin Values
        BY <2>5, KeysAndMarks
      <4>2. m.values[x] \in Values \cup {NULL_REF} /\ m.values[x] \notin Values
        BY <2>2, <2>3, <2>5, <4>1 DEF Paired, Arrays
      <4>3. m.values[x] \notin Keys
        BY <4>2, KeysAndMarks
      <4> QED BY <4>1, <4>2, <4>3 DEF In, References
    <3>5. e.held[r] = m.held[r] + In(k, {r}) + In(v, {r})
      BY <1>10, <1>12, <1>13
    <3>6. m.held[r] \in Int /\ d.held[r] \in Int /\ In(k, {r}) \in Int /\ In(v, {r}) \in Int
      BY <1>1, <1>5 DEF DictType, In
    <3>7. Count(e.keys, {r}) \in Nat /\ Count(e.values, {r}) \in Nat
      <4>1. e.keys \in Arrays(Keys \cup Marks, b) /\ e.values \in Arrays(Values \cup {NULL_REF}, b)
        BY <1>13 DEF DictType
      <4> QED BY <1>2, <4>1, CountAll
    <3> QED BY <3>2, <3>3, <3>4, <3>5, <3>6, <3>7
  <2> QED BY <2>6, <2>7, <2>8, <2>9, <2>10, <2>11 DEF Rehashed, b
<1>16. e.lost \/ (Rehashed(e, d, c, n + 1) /\ Counted(e, d))
  <2>1. CASE m.lost
    BY <1>14, <2>1
  <2>2. CASE ~m.lost
    BY <1>15, <2>2
  <2> QED BY <2>1, <2>2
<1> QED BY <1>13, <1>14, <1>16 DEF MoveInv, b

\* One slot of the old arrays is dealt with.
LEMMA MoveSlotInv ==
  ASSUME NEW c \in Nat \ {0}, NEW d, Sound(d, c), NEW n \in 0 .. c - 1,
         NEW m, MoveInv(m, d, c, n), NEW differs \in BOOLEAN
  PROVE  MoveInv(MoveSlot(m, d, n, differs), d, c, n + 1)
<1> DEFINE x == NewSlot(m, d.keys[n], differs)
<1>1. d \in DictType(c) /\ Table(d.keys, c)
  BY DEF Sound
<1>2. /\ m \in DictType(2 * c) /\ m.size = d.size /\ m.occupied = d.occupied /\ m.exc = d.exc
      /\ m.lost \/ (Rehashed(m, d, c, n) /\ Counted(m, d))
  BY DEF MoveInv
<1>3. n \in Nat /\ 2 * c \in Nat /\ 2 * c \in Nat \ {0}
  OBVIOUS
<1>4. Capacity(m) = 2 * c
  BY <1>2, <1>3, SlotTypes
<1>5. d.keys[n] \in Keys \cup Marks
  BY <1>1 DEF DictType, Arrays
<1>6. MoveSlot(m, d, n, differs)
        = IF d.keys[n] \in Marks THEN m
          ELSE IF x = 2 * c THEN [m EXCEPT !.lost = TRUE]
          ELSE incref(incref([m EXCEPT !.keys[x] = d.keys[n], !.values[x] = d.values[n]],
                             d.keys[n]), d.values[n])
  BY <1>4 DEF MoveSlot, Move, Outside, NewSlot
<1>7. CASE d.keys[n] \in Marks
  <2>1. d.keys[n] \notin Keys
    BY <1>7, KeysAndMarks
  <2>2. Pairs(d.keys, d.values, n + 1) = Pairs(d.keys, d.values, n)
    BY <1>3, <2>1, PairsStep
  <2>3. Below(d.keys, Keys, n + 1)
          = IF d.keys[n] \in Keys THEN Below(d.keys, Keys, n) + 1 ELSE Below(d.keys, Keys, n)
    BY <1>3, BelowStep
  <2>4. Rehashed(m, d, c, n) => Rehashed(m, d, c, n + 1)
    BY <2>1, <2>2, <2>3 DEF Rehashed
  <2>5. MoveInv(m, d, c, n + 1)
    BY <1>2, <2>4 DEF MoveInv
  <2> QED BY <1>6, <1>7, <2>5
<1>8. CASE d.keys[n] \notin Marks /\ x = 2 * c
  <2> DEFINE e == [m EXCEPT !.lost = TRUE]
  <2>1. /\ e \in DictType(2 * c) /\ e.size = d.size /\ e.occupied = d.occupied /\ e.exc = d.exc
        /\ e.lost
    BY <1>2 DEF DictType
  <2> HIDE DEF e
  <2>2. MoveInv(e, d, c, n + 1)
    BY <2>1 DEF MoveInv
  <2> QED BY <1>6, <1>8, <2>2 DEF e
<1>9. CASE d.keys[n] \notin Marks /\ x # 2 * c
  <2>1. d.keys[n] \in Keys
    BY <1>5, <1>9
  <2>2. Hashable(d.keys[n])
    BY <1>1, <2>1 DEF Table, Probed
  <2>3. ASSUME ~m.lost PROVE RoomAt(x, m.keys, d.keys[n], 2 * c)
    <3>1. Rehashed(m, d, c, n)
      BY <1>2, <2>3
    <3>2. Absent(m.keys, d.keys[n], 2 * c)
      BY <1>1, <2>1, <3>1, NotYet
    <3>3. Table(m.keys, 2 * c)
      BY <3>1 DEF Rehashed
    <3> QED BY <1>3, <2>1, <2>2, <3>2, <3>3, NewSlotFound
  <2> HIDE DEF x
  <2>4. MoveSlot(m, d, n, differs)
          = incref(incref([m EXCEPT !.keys[x] = d.keys[n], !.values[x] = d.values[n]],
                          d.keys[n]), d.values[n])
    BY <1>6, <1>9
  <2> QED BY <1>9, <2>1, <2>3, <2>4, MoveStored
<1> QED BY <1>7, <1>8, <1>9

\* New arrays are empty.
LEMMA FreshInv ==
  ASSUME NEW c \in Nat \ {0}, NEW d \in DictType(c)
  PROVE  MoveInv(Fresh(d), d, c, 0)
<1> DEFINE f == make_reference_refarray(2 * c)
           m == Fresh(d)
           b == 2 * c
<1>1. b \in Nat /\ c \in Nat
  OBVIOUS
<1>2. f = [i \in 0 .. b - 1 |-> NULL_REF]
  BY DEF make_reference_refarray
<1>3. m = [d EXCEPT !.keys = f, !.values = f]
  <2>1. Capacity(d) = c
    BY <1>1, SlotTypes
  <2> QED BY <2>1 DEF Fresh
<1>4. f \in Arrays(Keys \cup Marks, b) /\ f \in Arrays(Values \cup {NULL_REF}, b)
  BY <1>2 DEF Arrays, Marks
<1>5. ASSUME NEW S, NULL_REF \notin S PROVE Count(f, S) = 0
  BY <1>1, <1>5, CountNone
<1> HIDE DEF f, m, b
<1>6. /\ m.keys = f /\ m.values = f /\ m.size = d.size /\ m.occupied = d.occupied
      /\ m.exc = d.exc /\ m.held = d.held /\ m \in DictType(b)
  BY <1>3, <1>4 DEF DictType
<1>7. \A i \in 0 .. b - 1 : m.keys[i] = NULL_REF /\ m.values[i] = NULL_REF
  BY <1>2, <1>6
<1>8. Table(m.keys, b) /\ Paired(m, b) /\ \A i \in 0 .. b - 1 : m.keys[i] # TOMBSTONE_REF
  BY <1>4, <1>6, <1>7, KeysAndMarks DEF Table, Paired, Probed, Distinct
<1>9. Pairs(m.keys, m.values, b) = {}
  <2> SUFFICES ASSUME NEW p, p \in Pairs(m.keys, m.values, b) PROVE FALSE
    OBVIOUS
  <2> QED BY <1>7, InPairs, KeysAndMarks
<1>10. Pairs(d.keys, d.values, 0) = {} /\ Below(d.keys, Keys, 0) = 0
  BY PairsStep, BelowStep
<1>11. Count(m.keys, Keys) = 0
  BY <1>5, <1>6, KeysAndMarks
<1>12. Counted(m, d)
  <2> SUFFICES ASSUME NEW r \in References
               PROVE  m.held[r] = d.held[r] + Count(m.keys, {r}) + Count(m.values, {r})
    BY DEF Counted
  <2>1. NULL_REF \notin {r}
    BY KeysAndMarks DEF References
  <2>2. Count(f, {r}) = 0
    BY <1>5, <2>1
  <2>3. d.held[r] \in Int
    BY DEF DictType
  <2> QED BY <1>6, <2>2, <2>3
<1>13. Rehashed(m, d, c, 0)
  BY <1>8, <1>9, <1>10, <1>11 DEF Rehashed, b
<1> QED BY <1>6, <1>12, <1>13 DEF MoveInv, b, m

\* All entries are moved.
LEMMA MovedInv ==
  ASSUME NEW c \in Nat \ {0}, NEW d, Sound(d, c), NEW differs \in BOOLEAN
  PROVE  MoveInv(Moved(d, differs)[c], d, c, c)
<1> DEFINE S == {n \in Nat : n <= c => MoveInv(Moved(d, differs)[n], d, c, n)}
<1>1. d \in DictType(c) /\ c \in Nat
  BY DEF Sound
<1>2. Capacity(d) = c
  BY <1>1, SlotTypes
<1>3. /\ Moved(d, differs)[0] = Fresh(d)
      /\ \A n \in 0 .. c - 1 :
           Moved(d, differs)[n + 1] = MoveSlot(Moved(d, differs)[n], d, n, differs)
  BY <1>1, <1>2, MovedSteps
<1>4. 0 \in S
  BY <1>1, <1>3, FreshInv
<1>5. ASSUME NEW n \in Nat, n \in S PROVE n + 1 \in S
  <2> SUFFICES ASSUME n + 1 <= c PROVE MoveInv(Moved(d, differs)[n + 1], d, c, n + 1)
    OBVIOUS
  <2>1. n \in 0 .. c - 1 /\ n <= c
    OBVIOUS
  <2>2. MoveInv(Moved(d, differs)[n], d, c, n)
    BY <1>5, <2>1
  <2>3. Moved(d, differs)[n + 1] = MoveSlot(Moved(d, differs)[n], d, n, differs)
    BY <1>3, <2>1
  <2> QED BY <2>1, <2>2, <2>3, MoveSlotInv
<1>6. c \in S
  <2> HIDE DEF S
  <2> QED BY <1>1, <1>4, <1>5, SetInduction
<1> QED BY <1>1, <1>6

\* The old arrays give back what they own.
DropInv(e, start, d, b, n) ==
  /\ e \in DictType(b) /\ SameSlots(e, start)
  /\ \A r \in References :
       e.held[r] = start.held[r] - Below(d.keys, {r}, n) - Below(d.values, {r}, n)

\* All slots of the old arrays are dropped.
LEMMA DroppedInv ==
  ASSUME NEW c \in Nat \ {0}, NEW d \in DictType(c), NEW b, NEW start \in DictType(b)
  PROVE  DropInv(Dropped(d, start)[c], start, d, b, c)
<1> DEFINE S == {n \in Nat : n <= c => DropInv(Dropped(d, start)[n], start, d, b, n)}
<1>1. c \in Nat
  OBVIOUS
<1>2. /\ Capacity(d) = c
      /\ \A i \in 0 .. c - 1 : d.keys[i] \in References \cup Marks /\ d.values[i] \in References \cup Marks
  BY <1>1, SlotTypes
<1>3. /\ Dropped(d, start)[0] = start
      /\ \A n \in 0 .. c - 1 : Dropped(d, start)[n + 1] = DropSlot(Dropped(d, start)[n], d, n)
  BY <1>1, <1>2, DroppedSteps
<1>4. \A r \in References : start.held[r] \in Int
  BY DEF DictType
<1>5. \A f, T : Below(f, T, 0) = 0
  BY BelowStep
<1>6. 0 \in S
  <2>1. DropInv(start, start, d, b, 0)
    BY <1>4, <1>5 DEF DropInv, SameSlots
  <2> QED BY <1>3, <2>1
<1>7. ASSUME NEW n \in Nat, n \in S PROVE n + 1 \in S
  <2> SUFFICES ASSUME n + 1 <= c PROVE DropInv(Dropped(d, start)[n + 1], start, d, b, n + 1)
    OBVIOUS
  <2> DEFINE e == Dropped(d, start)[n]
             f == decref(e, d.keys[n])
             g == decref(f, d.values[n])
  <2>1. n \in 0 .. c - 1 /\ n <= c
    OBVIOUS
  <2>2. DropInv(e, start, d, b, n)
    BY <1>7, <2>1
  <2>3. d.keys[n] \in References \cup Marks /\ d.values[n] \in References \cup Marks
    BY <1>2, <2>1
  <2>4. Dropped(d, start)[n + 1] = g
    BY <1>3, <2>1 DEF DropSlot
  <2> HIDE DEF e
  <2>5. /\ e \in DictType(b) /\ SameSlots(e, start)
        /\ \A r \in References :
             e.held[r] = start.held[r] - Below(d.keys, {r}, n) - Below(d.values, {r}, n)
    BY <2>2 DEF DropInv
  <2>6. /\ f \in DictType(b) /\ SameSlots(f, e)
        /\ \A r \in References : f.held[r] = e.held[r] - In(d.keys[n], {r})
    BY <2>3, <2>5, Decref
  <2> HIDE DEF f
  <2>7. /\ g \in DictType(b) /\ SameSlots(g, f)
        /\ \A r \in References : g.held[r] = f.held[r] - In(d.values[n], {r})
    BY <2>3, <2>6, Decref
  <2> HIDE DEF g
  <2>8. SameSlots(g, start)
    BY <2>5, <2>6, <2>7 DEF SameSlots
  <2>9. ASSUME NEW r \in References
        PROVE  g.held[r] = start.held[r] - Below(d.keys, {r}, n + 1) - Below(d.values, {r}, n + 1)
    <3>1. ASSUME NEW h PROVE Below(h, {r}, n + 1) = Below(h, {r}, n) + In(h[n], {r})
      <4>1. Below(h, {r}, n + 1) = IF h[n] \in {r} THEN Below(h, {r}, n) + 1 ELSE Below(h, {r}, n)
        BY BelowStep
      <4>2. Below(h, {r}, n) \in Nat
        BY BelowType
      <4> QED BY <4>1, <4>2 DEF In
    <3>2. /\ Below(d.keys, {r}, n) \in Nat /\ Below(d.values, {r}, n) \in Nat
          /\ In(d.keys[n], {r}) \in Int /\ In(d.values[n], {r}) \in Int
      <4>1. Below(d.keys, {r}, n) \in Nat /\ Below(d.values, {r}, n) \in Nat
        BY BelowType
      <4> QED BY <4>1 DEF In
    <3>3. /\ Below(d.keys, {r}, n + 1) = Below(d.keys, {r}, n) + In(d.keys[n], {r})
          /\ Below(d.values, {r}, n + 1) = Below(d.values, {r}, n) + In(d.values[n], {r})
      BY <3>1
    <3>4. /\ g.held[r] = f.held[r] - In(d.values[n], {r}) /\ f.held[r] = e.held[r] - In(d.keys[n], {r})
          /\ e.held[r] = start.held[r] - Below(d.keys, {r}, n) - Below(d.values, {r}, n)
          /\ start.held[r] \in Int
      BY <1>4, <2>5, <2>6, <2>7
    <3> QED BY <3>2, <3>3, <3>4
  <2> QED BY <2>4, <2>7, <2>8, <2>9 DEF DropInv
<1>8. c \in S
  <2> HIDE DEF S
  <2> QED BY <1>1, <1>6, <1>7, SetInduction
<1> QED BY <1>1, <1>8

\* A doubling fails and changes nothing, ends behind the new arrays, or keeps all entries
\* in arrays that are at most half full.
Doubled(e, d, c) ==
  /\ 2 * c \in Capacities /\ Sound(e, 2 * c) /\ ~e.lost /\ e.exc = "none" /\ e.size = d.size
  /\ Pairs(e.keys, e.values, 2 * c) = Pairs(d.keys, d.values, c)
  /\ Count(e.keys, Keys) <= c /\ e.occupied <= c
NoMemory(e, d, c) ==
  /\ Sound(e, c) /\ ~e.lost /\ e.exc = "MemoryError"
  /\ e.keys = d.keys /\ e.values = d.values /\ e.size = d.size

\* The pending exception is not part of what is sound.
LEMMA SoundExc ==
  ASSUME NEW c, NEW d, Sound(d, c), NEW x \in {"none", "TypeError", "KeyError", "MemoryError"},
         NEW e, e = [d EXCEPT !.exc = x]
  PROVE  /\ Sound(e, c) /\ e.exc = x /\ e.lost = d.lost
         /\ e.keys = d.keys /\ e.values = d.values /\ e.size = d.size /\ e.occupied = d.occupied
<1>1. d \in DictType(c)
  BY DEF Sound
<1>2. /\ e \in DictType(c) /\ e.exc = x /\ e.lost = d.lost /\ e.held = d.held
      /\ e.keys = d.keys /\ e.values = d.values /\ e.size = d.size /\ e.occupied = d.occupied
  BY <1>1 DEF DictType
<1> QED BY <1>2 DEF Sound, Paired, Tallied, Balanced

\* Nor is whether a search was lost.
LEMMA SoundLost ==
  ASSUME NEW c, NEW d, Sound(d, c), NEW e, e = [d EXCEPT !.lost = TRUE]
  PROVE  /\ Sound(e, c) /\ e.exc = d.exc /\ e.lost
         /\ e.keys = d.keys /\ e.values = d.values /\ e.size = d.size /\ e.occupied = d.occupied
<1>1. d \in DictType(c)
  BY DEF Sound
<1>2. /\ e \in DictType(c) /\ e.exc = d.exc /\ e.lost /\ e.held = d.held
      /\ e.keys = d.keys /\ e.values = d.values /\ e.size = d.size /\ e.occupied = d.occupied
  BY <1>1 DEF DictType
<1> QED BY <1>2 DEF Sound, Paired, Tallied, Balanced

\* Doubling the arrays.
LEMMA Upsize ==
  ASSUME NEW c \in Capacities, NEW d, Sound(d, c), d.exc = "none", ~d.lost, NEW limit \in Capacities,
         NEW differs \in BOOLEAN, NEW e, e = dict_upsize(d, limit, differs)
  PROVE  e.lost \/ Doubled(e, d, c) \/ NoMemory(e, d, c)
<1> DEFINE m == Moved(d, differs)[c]
           g == Dropped(d, m)[c]
           b == 2 * c
<1>1. c \in Nat \ {0} /\ c \in Nat /\ b \in Nat /\ limit \in Nat
  BY DictAssumption
<1>2. d \in DictType(c) /\ Table(d.keys, c) /\ Paired(d, c) /\ Tallied(d) /\ Balanced(d)
  BY DEF Sound
<1>3. Capacity(d) = c
  BY <1>1, <1>2, SlotTypes
<1>4. e = IF b > limit THEN [d EXCEPT !.exc = "MemoryError"] ELSE [g EXCEPT !.occupied = d.size]
  BY <1>3 DEF dict_upsize
<1>5. CASE b > limit
  <2>1. e = [d EXCEPT !.exc = "MemoryError"]
    BY <1>4, <1>5
  <2>2. /\ Sound(e, c) /\ e.exc = "MemoryError" /\ e.lost = d.lost
        /\ e.keys = d.keys /\ e.values = d.values /\ e.size = d.size
    BY <2>1, SoundExc
  <2> QED BY <2>2 DEF NoMemory
<1>6. CASE ~(b > limit)
  <2>1. MoveInv(m, d, c, c)
    BY <1>1, MovedInv
  <2>2. /\ m \in DictType(b) /\ m.size = d.size /\ m.exc = d.exc
        /\ m.lost \/ (Rehashed(m, d, c, c) /\ Counted(m, d))
    BY <2>1 DEF MoveInv
  <2> HIDE DEF m
  <2>3. DropInv(g, m, d, b, c)
    BY <1>1, <1>2, <2>2, DroppedInv
  <2> HIDE DEF g
  <2>4. /\ g \in DictType(b) /\ SameSlots(g, m)
        /\ \A r \in References :
             g.held[r] = m.held[r] - Below(d.keys, {r}, c) - Below(d.values, {r}, c)
    BY <2>3 DEF DropInv
  <2>5. e = [g EXCEPT !.occupied = d.size]
    BY <1>4, <1>6
  <2> HIDE DEF b
  <2>6. d.size \in Int
    BY <1>2 DEF DictType
  <2>7. /\ e \in DictType(b) /\ e.keys = m.keys /\ e.values = m.values /\ e.size = d.size
        /\ e.occupied = d.size /\ e.exc = "none" /\ e.lost = m.lost /\ e.held = g.held
    BY <2>2, <2>4, <2>5, <2>6 DEF DictType, SameSlots
  <2>8. CASE m.lost
    BY <2>7, <2>8
  <2>9. CASE ~m.lost
    <3>1. /\ Table(m.keys, b) /\ Paired(m, b)
          /\ \A i \in 0 .. b - 1 : m.keys[i] # TOMBSTONE_REF
          /\ Pairs(m.keys, m.values, b) = Pairs(d.keys, d.values, c)
          /\ Count(m.keys, Keys) = Below(d.keys, Keys, c)
          /\ Counted(m, d)
      BY <2>2, <2>9 DEF Rehashed, b
    <3>2. /\ d.keys \in Arrays(Keys \cup Marks, c) /\ d.values \in Arrays(Values \cup {NULL_REF}, c)
          /\ m.keys \in Arrays(Keys \cup Marks, b) /\ m.values \in Arrays(Values \cup {NULL_REF}, b)
      BY <1>2, <2>2 DEF DictType
    <3>3. ASSUME NEW T
          PROVE  /\ Count(d.keys, T) = Below(d.keys, T, c) /\ Count(d.keys, T) \in Nat
                 /\ Count(d.keys, T) <= c /\ Count(d.values, T) = Below(d.values, T, c)
                 /\ Count(d.values, T) \in Nat
      <4>1. Count(d.keys, T) = Below(d.keys, T, c) /\ Count(d.keys, T) \in Nat /\ Count(d.keys, T) <= c
        BY <1>1, <3>2, CountAll
      <4>2. Count(d.values, T) = Below(d.values, T, c) /\ Count(d.values, T) \in Nat
        BY <1>1, <3>2, CountAll
      <4> QED BY <4>1, <4>2
    <3>4. ASSUME NEW T PROVE Count(m.keys, T) \in Nat /\ Count(m.values, T) \in Nat
      <4>1. Count(m.keys, T) \in Nat
        BY <1>1, <3>2, CountAll
      <4>2. Count(m.values, T) \in Nat
        BY <1>1, <3>2, CountAll
      <4> QED BY <4>1, <4>2
    <3>5. Count(m.keys, Keys) = d.size /\ d.size <= c
      BY <1>2, <3>1, <3>3 DEF Tallied
    <3>6. Count(m.keys, Keys \cup {TOMBSTONE_REF}) = Count(m.keys, Keys)
      <4>1. \A i \in DOMAIN m.keys : m.keys[i] # TOMBSTONE_REF
        BY <3>1, <3>2 DEF Arrays
      <4>2. {i \in DOMAIN m.keys : m.keys[i] \in Keys \cup {TOMBSTONE_REF}}
              = {i \in DOMAIN m.keys : m.keys[i] \in Keys}
        BY <4>1
      <4> QED BY <4>2 DEF Count
    <3>7. Tallied(e)
      BY <2>7, <3>5, <3>6 DEF Tallied
    <3>8. Balanced(e)
      <4> SUFFICES ASSUME NEW r \in References
                   PROVE  e.held[r] = Count(e.keys, {r}) + Count(e.values, {r})
        BY DEF Balanced
      <4>1. e.held[r] = m.held[r] - Below(d.keys, {r}, c) - Below(d.values, {r}, c)
        BY <2>4, <2>7
      <4>2. m.held[r] = d.held[r] + Count(m.keys, {r}) + Count(m.values, {r})
        BY <3>1 DEF Counted
      <4>3. d.held[r] = Count(d.keys, {r}) + Count(d.values, {r})
        BY <1>2 DEF Balanced
      <4>4. /\ Count(d.keys, {r}) = Below(d.keys, {r}, c) /\ Count(d.keys, {r}) \in Nat
            /\ Count(d.values, {r}) = Below(d.values, {r}, c) /\ Count(d.values, {r}) \in Nat
        BY <3>3
      <4>5. Count(m.keys, {r}) \in Nat /\ Count(m.values, {r}) \in Nat
        BY <3>4
      <4> QED BY <2>7, <4>1, <4>2, <4>3, <4>4, <4>5
    <3>9. Sound(e, b)
      BY <2>7, <3>1, <3>7, <3>8 DEF Sound, Paired
    <3>10. b \in Capacities
      BY <1>1, <1>6, DictAssumption DEF b
    <3>11. Doubled(e, d, c)
      BY <2>7, <2>9, <3>1, <3>5, <3>9, <3>10 DEF Doubled, b
    <3> QED BY <3>11
  <2> QED BY <2>8, <2>9
<1> QED BY <1>5, <1>6

-----------------------------------------------------------------------------
(* Operations. *)

Assign(map, k, v) == (map \ Of(map, ValueOf[k])) \cup {<<ValueOf[k], v>>}

\* A new entry is stored; unless there is no memory, half of the slots stay empty.
Stored(e, map, k, v) ==
  \E b \in Capacities :
    /\ Sound(e, b) /\ ~e.lost /\ e.exc \in {"none", "MemoryError"}
    /\ Map(e) = Assign(map, k, v)
    /\ e.exc = "none" => 2 * e.occupied <= b

\* An insertion at a slot of the second search.
LEMMA SetNewStores ==
  ASSUME NEW c \in Capacities, NEW d, Sound(d, c), d.exc = "none", ~d.lost,
         NEW k \in Keys, Hashable(k), NEW v \in Values, Absent(d.keys, k, c),
         NEW x, RoomAt(x, d.keys, k, c), x # -1,
         NEW limit \in Capacities, NEW differs \in BOOLEAN,
         NEW e, e = SetNew(d, x, k, v, limit, differs)
  PROVE  e.lost \/ Stored(e, Map(d), k, v)
<1> DEFINE f == Insert(d, x, k, v)
<1>1. c \in Nat \ {0} /\ c \in Nat
  BY DictAssumption
<1>2. d \in DictType(c)
  BY DEF Sound
<1>3. Capacity(d) = c
  BY <1>1, <1>2, SlotTypes
<1>4. e = IF x = c THEN [d EXCEPT !.lost = TRUE] ELSE dict_maybe_upsize(f, limit, differs)
  BY <1>3 DEF SetNew, Outside
<1> HIDE DEF f
<1>5. CASE x = c
  <2>1. e = [d EXCEPT !.lost = TRUE]
    BY <1>4, <1>5
  <2> QED BY <1>2, <2>1 DEF DictType
<1>6. CASE x # c
  <2>1. /\ x \in 0 .. c - 1 /\ d.keys[x] \in Marks
        /\ \E j \in 0 .. c - 1 : Slot(k, j, c) = x /\ Passed(d.keys, k, j, c)
    BY <1>6 DEF RoomAt
  <2>2. /\ Sound(f, c) /\ f.exc = d.exc /\ f.lost = d.lost
        /\ f.keys = [d.keys EXCEPT ![x] = k] /\ f.values = [d.values EXCEPT ![x] = v]
    BY <1>1, <2>1, InsertSound DEF f
  <2>3. f \in DictType(c) /\ f.exc = "none" /\ ~f.lost
    BY <2>2 DEF Sound
  <2>4. Map(f) = Pairs(f.keys, f.values, c) /\ Map(d) = Pairs(d.keys, d.values, c)
    BY <1>1, <1>2, <2>3, MapPairs
  <2>5. Map(f) = Assign(Map(d), k, v)
    <3>1. d.keys \in Arrays(Keys \cup Marks, c) /\ d.values \in Arrays(Values \cup {NULL_REF}, c)
      BY <1>2 DEF DictType
    <3>2. PairsAfter(d.keys, d.values, x, k, v, c, Pairs(d.keys, d.values, c) \cup {<<ValueOf[k], v>>})
      BY <1>1, <2>1, <3>1, PairsInsert
    <3>3. Map(f) = Map(d) \cup {<<ValueOf[k], v>>}
      BY <2>2, <2>4, <3>2 DEF PairsAfter
    <3>4. Of(Map(d), ValueOf[k]) = {}
      BY <2>4, PairsAbsent
    <3> QED BY <3>3, <3>4 DEF Assign
  <2>6. f.occupied \in Int
    BY <2>3 DEF DictType
  <2>7. e = IF f.occupied * 2 >= c THEN dict_upsize(f, limit, differs) ELSE f
    <3>1. Capacity(f) = c
      BY <1>1, <2>3, SlotTypes
    <3> QED BY <1>4, <1>6, <3>1 DEF dict_maybe_upsize
  <2>8. CASE ~(f.occupied * 2 >= c)
    <3>1. e = f /\ 2 * f.occupied <= c
      BY <1>1, <2>6, <2>7, <2>8
    <3> QED BY <2>2, <2>3, <2>5, <3>1 DEF Stored
  <2>9. CASE f.occupied * 2 >= c
    <3>1. e = dict_upsize(f, limit, differs)
      BY <2>7, <2>9
    <3>2. e.lost \/ Doubled(e, f, c) \/ NoMemory(e, f, c)
      BY <2>2, <2>3, <3>1, Upsize
    <3>3. CASE Doubled(e, f, c)
      <4>1. /\ 2 * c \in Capacities /\ Sound(e, 2 * c) /\ ~e.lost /\ e.exc = "none"
            /\ Pairs(e.keys, e.values, 2 * c) = Pairs(f.keys, f.values, c) /\ e.occupied <= c
        BY <3>3 DEF Doubled
      <4>2. e \in DictType(2 * c) /\ 2 * c \in Nat
        BY <1>1, <4>1 DEF Sound
      <4>3. Map(e) = Map(f)
        <5>1. Map(e) = Pairs(e.keys, e.values, 2 * c)
          BY <4>2, MapPairs
        <5> QED BY <2>4, <4>1, <5>1
      <4>4. 2 * e.occupied <= 2 * c
        <5>1. e.occupied \in Int
          BY <4>2 DEF DictType
        <5> QED BY <1>1, <4>1, <5>1
      <4> QED BY <2>5, <4>1, <4>3, <4>4 DEF Stored
    <3>4. CASE NoMemory(e, f, c)
      <4>1. Sound(e, c) /\ ~e.lost /\ e.exc = "MemoryError" /\ e.keys = f.keys /\ e.values = f.values
        BY <3>4 DEF NoMemory
      <4>2. Map(e) = Map(f)
        BY <4>1 DEF Map, Entries
      <4>3. e.exc # "none"
        BY <4>1
      <4> QED BY <2>5, <4>1, <4>2, <4>3 DEF Stored
    <3> QED BY <3>2, <3>3, <3>4
  <2> QED BY <2>8, <2>9
<1> QED BY <1>5, <1>6

\* What dict_subscr_set gives.
SetGives(e, d, k, v) ==
  \/ /\ ~Hashable(k) /\ e.exc = "TypeError" /\ e.keys = d.keys /\ e.values = d.values
     /\ e.size = d.size /\ ~e.lost /\ \E b \in Capacities : Sound(e, b)
  \/ e.lost
  \/ /\ Hashable(k) /\ e.exc = "none" /\ ~e.lost /\ e.size = d.size
     /\ Map(e) = Assign(Map(d), k, v) /\ \E b \in Capacities : Sound(e, b)
  \/ Hashable(k) /\ Stored(e, Map(d), k, v)
  \/ /\ Hashable(k) /\ Of(Map(d), ValueOf[k]) = {} /\ e.exc = "MemoryError" /\ ~e.lost
     /\ e.keys = d.keys /\ e.values = d.values /\ e.size = d.size
     /\ \E b \in Capacities : Sound(e, b)

\* dict_subscr_set by its cases.
LEMMA SetUnfolded ==
  ASSUME NEW d, NEW k, NEW v, NEW limit, NEW differs
  PROVE  LET f == dict_upsize(d, limit, differs)
         IN  dict_subscr_set(d, k, v, limit, differs)
               = IF ~Hashable(k) THEN [d EXCEPT !.exc = "TypeError"]
                 ELSE IF Outside(d, OldSlot(d, k, differs)) THEN [d EXCEPT !.lost = TRUE]
                 ELSE IF Occupied(d, OldSlot(d, k, differs)) THEN Overwrite(d, OldSlot(d, k, differs), v)
                 ELSE IF NewSlot(d, k, differs) >= 0
                      THEN SetNew(d, NewSlot(d, k, differs), k, v, limit, differs)
                 ELSE IF f.exc # "none" \/ f.lost THEN f
                 ELSE SetNew(f, NewSlot(f, k, differs), k, v, limit, differs)
  BY Zenon DEF dict_subscr_set, OldSlot, NewSlot

\* An assignment.
LEMMA SetCorrect ==
  ASSUME NEW c \in Capacities, NEW d, Sound(d, c), d.exc = "none", ~d.lost,
         NEW k \in Keys, NEW v \in Values, NEW limit \in Capacities, NEW differs \in BOOLEAN,
         NEW e, e = dict_subscr_set(d, k, v, limit, differs)
  PROVE  SetGives(e, d, k, v)
<1> DEFINE old == OldSlot(d, k, differs)
           new == NewSlot(d, k, differs)
           f   == dict_upsize(d, limit, differs)
<1>1. c \in Nat \ {0} /\ c \in Nat /\ c >= 2
  BY DictAssumption
<1>2. d \in DictType(c) /\ Table(d.keys, c)
  BY DEF Sound
<1>3. Capacity(d) = c
  BY <1>1, <1>2, SlotTypes
<1>4. e = IF ~Hashable(k) THEN [d EXCEPT !.exc = "TypeError"]
          ELSE IF old = c THEN [d EXCEPT !.lost = TRUE]
          ELSE IF Occupied(d, old) THEN Overwrite(d, old, v)
          ELSE IF new >= 0 THEN SetNew(d, new, k, v, limit, differs)
          ELSE IF f.exc # "none" \/ f.lost THEN f
          ELSE SetNew(f, NewSlot(f, k, differs), k, v, limit, differs)
  BY <1>3, SetUnfolded, Zenon DEF Outside
<1>5. CASE ~Hashable(k)
  <2>1. e = [d EXCEPT !.exc = "TypeError"]
    BY <1>4, <1>5
  <2>2. /\ Sound(e, c) /\ e.exc = "TypeError" /\ e.lost = d.lost
        /\ e.keys = d.keys /\ e.values = d.values /\ e.size = d.size
    BY <2>1, SoundExc
  <2> QED BY <1>5, <2>2 DEF SetGives
<1>6. CASE Hashable(k)
  <2>1. FoundAt(old, d.keys, k, c)
    BY <1>1, <1>2, <1>6, OldSlotFound
  <2>2. f.lost \/ Doubled(f, d, c) \/ NoMemory(f, d, c)
    BY Upsize
  <2>3. Map(d) = Pairs(d.keys, d.values, c)
    BY <1>1, <1>2, MapPairs
  <2> HIDE DEF old, f
  <2>4. CASE old = c
    <3>1. e = [d EXCEPT !.lost = TRUE]
      BY <1>4, <1>6, <2>4
    <3>2. e.lost
      BY <1>2, <3>1 DEF DictType
    <3> QED BY <3>2 DEF SetGives
  <2>5. CASE old # c /\ Occupied(d, old)
    <3>1. e = Overwrite(d, old, v)
      BY <1>4, <1>6, <2>5
    <3>2. old \in 0 .. c - 1 /\ d.keys[old] \in Keys /\ ref_eq(k, d.keys[old])
      BY <2>1, <2>5 DEF FoundAt, Occupied
    <3>3. /\ Sound(e, c) /\ e.exc = d.exc /\ e.lost = d.lost /\ e.size = d.size
          /\ e.keys = d.keys /\ e.values = [d.values EXCEPT ![old] = v]
      BY <1>1, <3>1, <3>2, OverwriteSound
    <3>4. /\ d.keys \in Arrays(Keys \cup Marks, c) /\ d.values \in Arrays(Values \cup {NULL_REF}, c)
          /\ Distinct(d.keys, c)
      BY <1>2 DEF DictType, Table
    <3>5. PairsAfter(d.keys, d.values, old, d.keys[old], v, c,
                     (Pairs(d.keys, d.values, c) \ Of(Pairs(d.keys, d.values, c), ValueOf[k]))
                     \cup {<<ValueOf[k], v>>})
      BY <1>1, <3>2, <3>4, PairsOverwrite
    <3>6. [d.keys EXCEPT ![old] = d.keys[old]] = d.keys
      BY <3>4 DEF Arrays
    <3>7. Pairs(e.keys, e.values, c) = Assign(Map(d), k, v)
      BY <2>3, <3>3, <3>5, <3>6 DEF PairsAfter, Assign
    <3>8. Map(e) = Pairs(e.keys, e.values, c)
      <4>1. e \in DictType(c)
        BY <3>3 DEF Sound
      <4> QED BY <1>1, <4>1, MapPairs
    <3> QED BY <1>6, <3>3, <3>7, <3>8 DEF SetGives
  <2>6. CASE old # c /\ ~Occupied(d, old)
    <3>1. Absent(d.keys, k, c)
      <4>1. ~(old \in 0 .. c - 1 /\ d.keys[old] \in Keys)
        BY <2>6, KeysAndMarks DEF Occupied
      <4> QED BY <2>1, <2>6, <4>1 DEF FoundAt
    <3>2. RoomAt(new, d.keys, k, c)
      BY <1>1, <1>2, <1>6, <3>1, NewSlotFound
    <3> HIDE DEF new
    <3>3. CASE new >= 0
      <4>1. e = SetNew(d, new, k, v, limit, differs) /\ new # -1
        BY <1>4, <1>6, <2>6, <3>3
      <4>2. e.lost \/ Stored(e, Map(d), k, v)
        BY <1>6, <3>1, <3>2, <4>1, SetNewStores
      <4> QED BY <1>6, <4>2 DEF SetGives
    <3>4. CASE ~(new >= 0) /\ (f.exc # "none" \/ f.lost)
      <4>1. e = f
        BY <1>4, <1>6, <2>6, <3>4
      <4>2. CASE f.lost
        BY <4>1, <4>2 DEF SetGives
      <4>3. CASE ~f.lost
        <5>1. NoMemory(f, d, c)
          BY <2>2, <3>4, <4>3 DEF Doubled
        <5>2. Of(Map(d), ValueOf[k]) = {}
          BY <2>3, <3>1, PairsAbsent
        <5> QED BY <1>6, <4>1, <5>1, <5>2 DEF SetGives, NoMemory
      <4> QED BY <4>2, <4>3
    <3>5. CASE ~(new >= 0) /\ ~(f.exc # "none" \/ f.lost)
      <4> DEFINE x == NewSlot(f, k, differs)
                 b == 2 * c
      <4>1. e = SetNew(f, x, k, v, limit, differs)
        BY <1>4, <1>6, <2>6, <3>5
      <4>2. Doubled(f, d, c)
        BY <2>2, <3>5 DEF NoMemory
      <4>3. /\ b \in Capacities /\ Sound(f, b) /\ ~f.lost /\ f.exc = "none"
            /\ Pairs(f.keys, f.values, b) = Pairs(d.keys, d.values, c) /\ Count(f.keys, Keys) <= c
        BY <4>2 DEF Doubled
      <4>4. b \in Nat \ {0} /\ b \in Nat /\ f \in DictType(b) /\ Table(f.keys, b)
        BY <1>1, <4>3 DEF Sound
      <4>5. Map(f) = Pairs(f.keys, f.values, b)
        BY <4>4, MapPairs
      <4>6. Absent(f.keys, k, b)
        <5> SUFFICES ASSUME NEW i \in 0 .. b - 1, f.keys[i] \in Keys, ref_eq(k, f.keys[i])
                     PROVE  FALSE
          BY DEF Absent
        <5> DEFINE p == <<ValueOf[f.keys[i]], f.values[i]>>
        <5>1. p \in Pairs(f.keys, f.values, b)
          BY InPairs
        <5>2. p[1] = ValueOf[k] /\ p \in Pairs(d.keys, d.values, c)
          BY <4>3, <5>1 DEF ref_eq
        <5>3. Of(Pairs(d.keys, d.values, c), ValueOf[k]) = {}
          BY <3>1, PairsAbsent
        <5> HIDE DEF p
        <5> QED BY <5>2, <5>3 DEF Of
      <4>7. RoomAt(x, f.keys, k, b)
        BY <1>6, <4>4, <4>6, NewSlotFound
      <4> HIDE DEF x
      <4>8. x # -1
        <5>1. Count(f.keys, Keys) \in Nat
          <6>1. f.keys \in Arrays(Keys \cup Marks, b)
            BY <4>4 DEF DictType
          <6> QED BY <4>4, <6>1, CountAll
        <5>2. ~(Count(f.keys, Keys) >= b - 1)
          BY <1>1, <4>3, <5>1
        <5> QED BY <4>4, <4>7, <5>2 DEF RoomAt
      <4> HIDE DEF b
      <4>9. e.lost \/ Stored(e, Map(f), k, v)
        BY <1>6, <4>1, <4>3, <4>6, <4>7, <4>8, SetNewStores
      <4>10. Map(f) = Map(d)
        BY <2>3, <4>3, <4>5
      <4> QED BY <1>6, <4>9, <4>10 DEF SetGives
    <3> QED BY <3>3, <3>4, <3>5
  <2> QED BY <2>4, <2>5, <2>6
<1> QED BY <1>5, <1>6

-----------------------------------------------------------------------------
(* Steps. *)

Inv == dict.exc = "none" /\ \E c \in Capacities : Sound(dict, c)

\* What a step must do: keep the invariant, be a step of the map, and keep room to probe.
RoomKept == dict'.size > dict.size /\ reply'.error = "none" => 2 * dict'.occupied <= Capacity(dict')
GoodStep == Inv' /\ [Abstract!Next]_(Abstract!vars) /\ RoomKept

\* An operation ends in e.
LEMMA Finished ==
  ASSUME NEW e, NEW v, NEW b \in Capacities, Sound(e, b), Finish(e, v)
  PROVE  /\ Inv' /\ Map(dict)' = Map(e) /\ Capacity(dict') = b
         /\ dict'.size = e.size /\ dict'.occupied = e.occupied
         /\ e.lost => dict'.lost = TRUE /\ reply' = reply
         /\ ~e.lost => dict'.lost = FALSE
         /\ ~e.lost /\ e.exc # "none" => reply' = Reply(e.exc, NULL_REF)
         /\ ~e.lost /\ e.exc = "none" => reply' = Reply("none", v)
<1> DEFINE f == dict'
<1>1. f = [e EXCEPT !.exc = "none"]
  BY DEF Finish
<1>2. /\ reply' = IF e.lost THEN reply
                  ELSE IF e.exc # "none" THEN Reply(e.exc, NULL_REF) ELSE Reply("none", v)
  BY DEF Finish
<1> HIDE DEF f
<1>3. /\ Sound(f, b) /\ f.exc = "none" /\ f.lost = e.lost
      /\ f.keys = e.keys /\ f.values = e.values /\ f.size = e.size /\ f.occupied = e.occupied
  <2>1. "none" \in {"none", "TypeError", "KeyError", "MemoryError"}
    OBVIOUS
  <2> QED BY <1>1, <2>1, SoundExc
<1>4. f \in DictType(b) /\ b \in Nat
  BY <1>3, DictAssumption DEF Sound
<1>5. f.lost \in BOOLEAN
  BY <1>4 DEF DictType
<1>6. Capacity(f) = b
  BY <1>4, SlotTypes
<1>7. Map(f) = Map(e)
  BY <1>3 DEF Map, Entries
<1>8. Map(dict)' = Map(f)
  BY DEF f, Map, Entries
<1>9. Inv'
  <2>1. dict'.exc = "none" /\ \E c \in Capacities : Sound(dict', c)
    BY <1>3 DEF f
  <2> QED BY <2>1 DEF Inv
<1>10. /\ e.lost => f.lost = TRUE
       /\ ~e.lost => f.lost = FALSE
  BY <1>3, <1>5
<1> QED BY <1>2, <1>3, <1>6, <1>7, <1>8, <1>9, <1>10 DEF f

\* The interpreter is gone.
LEMMA CrashStep ==
  ASSUME ~dict.lost, dict'.lost = TRUE, reply' = reply, Map(dict)' = Map(dict)
  PROVE  Abstract!Next
  BY DEF Abstract!Next, Abstract!Crash

\* A step of the map for the value of a key.
LEMMA KeyStep ==
  ASSUME NEW k \in Keys,
         \/ Abstract!Get(ValueOf[k]) \/ Abstract!Del(ValueOf[k])
         \/ \E v \in Values : Abstract!Set(ValueOf[k], v)
  PROVE  Abstract!Next
<1>1. ValueOf[k] \in {ValueOf[l] : l \in Keys}
  OBVIOUS
<1> QED BY <1>1 DEF Abstract!Next

\* An operation that only reports an error.
LEMMA FailedStep ==
  ASSUME Inv, ~dict.lost, NEW x \in {"TypeError", "KeyError"}, NEW v,
         Finish([dict EXCEPT !.exc = x], v)
  PROVE  /\ Inv' /\ Map(dict)' = Map(dict) /\ RoomKept
         /\ dict'.lost = FALSE /\ reply' = Reply(x, NULL_REF)
<1> DEFINE e == [dict EXCEPT !.exc = x]
<1>1. PICK c \in Capacities : Sound(dict, c)
  BY DEF Inv
<1>2. dict.size \in Int
  BY <1>1 DEF Sound, DictType
<1>3. x \in {"none", "TypeError", "KeyError", "MemoryError"} /\ x # "none"
  OBVIOUS
<1>4. /\ Sound(e, c) /\ e.exc = x /\ e.lost = dict.lost
      /\ e.keys = dict.keys /\ e.values = dict.values /\ e.size = dict.size
  BY <1>1, <1>3, SoundExc
<1>5. Finish(e, v)
  OBVIOUS
<1> HIDE DEF e
<1>6. Map(e) = Map(dict) /\ ~e.lost
  BY <1>4 DEF Map, Entries
<1>7. /\ Inv' /\ Map(dict)' = Map(e) /\ dict'.size = e.size
      /\ dict'.lost = FALSE /\ reply' = Reply(e.exc, NULL_REF)
  BY <1>3, <1>4, <1>5, <1>6, Finished
<1>8. RoomKept
  BY <1>2, <1>4, <1>7 DEF RoomKept
<1> QED BY <1>4, <1>6, <1>7, <1>8

\* An operation that is lost behind the array.
LEMMA LostStep ==
  ASSUME Inv, ~dict.lost, NEW v, Finish([dict EXCEPT !.lost = TRUE], v)
  PROVE  GoodStep
<1> DEFINE e == [dict EXCEPT !.lost = TRUE]
<1>1. PICK c \in Capacities : Sound(dict, c)
  BY DEF Inv
<1>2. dict.size \in Int
  BY <1>1 DEF Sound, DictType
<1>3. /\ Sound(e, c) /\ e.lost /\ e.size = dict.size
      /\ e.keys = dict.keys /\ e.values = dict.values
  BY <1>1, SoundLost
<1>4. Finish(e, v)
  OBVIOUS
<1> HIDE DEF e
<1>5. Map(e) = Map(dict)
  BY <1>3 DEF Map, Entries
<1>6. Inv' /\ Map(dict)' = Map(dict) /\ dict'.size = dict.size /\ dict'.lost = TRUE /\ reply' = reply
  BY <1>3, <1>4, <1>5, Finished
<1>7. Abstract!Next
  BY <1>6, CrashStep
<1>8. RoomKept
  BY <1>2, <1>6 DEF RoomKept
<1> QED BY <1>6, <1>7, <1>8 DEF GoodStep

\* An assignment.
LEMMA SetStep ==
  ASSUME Inv, NEW k \in Keys, NEW v \in Values, Set(k, v)
  PROVE  GoodStep
<1>1. PICK c \in Capacities : Sound(dict, c)
  BY DEF Inv
<1>2. dict.exc = "none" /\ ~dict.lost
  BY DEF Inv, Set
<1>3. PICK differs \in BOOLEAN, limit \in Capacities :
        LET d == dict_subscr_set(dict, k, v, limit, differs)
        IN  Finish(IF d.lost THEN [dict EXCEPT !.lost = TRUE] ELSE d, NULL_REF)
  BY DEF Set
<1> DEFINE d == dict_subscr_set(dict, k, v, limit, differs)
           u == ValueOf[k]
<1>4. SetGives(d, dict, k, v)
  BY <1>1, <1>2, SetCorrect
<1>5. Finish(IF d.lost THEN [dict EXCEPT !.lost = TRUE] ELSE d, NULL_REF)
  BY <1>3
<1>6. dict \in DictType(c)
  BY <1>1 DEF Sound
<1>7. dict.size \in Int /\ dict.lost = FALSE
  BY <1>2, <1>6 DEF DictType
<1> HIDE DEF d
<1>8. CASE d.lost
  <2>1. Finish([dict EXCEPT !.lost = TRUE], NULL_REF)
    BY <1>5, <1>8
  <2> QED BY <1>2, <2>1, LostStep
<1>9. CASE ~d.lost
  <2>1. Finish(d, NULL_REF)
    BY <1>5, <1>9
  <2>2. ASSUME NEW b \in Capacities, Sound(d, b)
        PROVE  /\ Inv' /\ Map(dict)' = Map(d) /\ Capacity(dict') = b
               /\ dict'.size = d.size /\ dict'.occupied = d.occupied /\ dict'.lost = FALSE
               /\ d.exc # "none" => reply' = Reply(d.exc, NULL_REF)
               /\ d.exc = "none" => reply' = Reply("none", NULL_REF)
    BY <1>9, <2>1, <2>2, Finished
  <2>3. \A w : Abstract!Bound(w) = Of(Map(dict), w)
    BY DEF Abstract!Bound, Of
  <2>4. /\ \A x : Abstract!Err(x) = Reply(x, NULL_REF)
        /\ \A x : Abstract!Ok(x) = Reply("none", x)
    BY DEF Abstract!Err, Abstract!Ok, Reply
  <2>5. \A x, y : Reply(x, y).error = x
    BY DEF Reply
  <2>6. CASE /\ ~Hashable(k) /\ d.exc = "TypeError" /\ d.keys = dict.keys /\ d.values = dict.values
             /\ d.size = dict.size /\ \E b \in Capacities : Sound(d, b)
    <3>1. Map(d) = Map(dict)
      BY <2>6 DEF Map, Entries
    <3>2. /\ Inv' /\ Map(dict)' = Map(dict) /\ dict'.size = dict.size /\ dict'.lost = FALSE
          /\ reply' = Reply("TypeError", NULL_REF)
      BY <2>2, <2>6, <3>1
    <3>3. Abstract!Set(u, v)
      BY <1>7, <2>4, <2>6, <3>2 DEF Abstract!Set, Hashable
    <3>4. RoomKept
      BY <1>7, <3>2 DEF RoomKept
    <3> QED BY <3>2, <3>3, <3>4, KeyStep DEF GoodStep
  <2>7. CASE /\ Hashable(k) /\ d.exc = "none" /\ d.size = dict.size
             /\ Map(d) = Assign(Map(dict), k, v) /\ \E b \in Capacities : Sound(d, b)
    <3>1. /\ Inv' /\ Map(dict)' = Assign(Map(dict), k, v) /\ dict'.size = dict.size
          /\ dict'.lost = FALSE /\ reply' = Reply("none", NULL_REF)
      BY <2>2, <2>7
    <3>2. Abstract!Set(u, v)
      BY <1>7, <2>3, <2>4, <2>7, <3>1 DEF Abstract!Set, Hashable, Assign
    <3>3. RoomKept
      BY <1>7, <3>1 DEF RoomKept
    <3> QED BY <3>1, <3>2, <3>3, KeyStep DEF GoodStep
  <2>8. CASE Hashable(k) /\ Stored(d, Map(dict), k, v)
    <3>1. PICK b \in Capacities :
            /\ Sound(d, b) /\ d.exc \in {"none", "MemoryError"}
            /\ Map(d) = Assign(Map(dict), k, v)
            /\ d.exc = "none" => 2 * d.occupied <= b
      BY <2>8 DEF Stored
    <3>2. /\ Inv' /\ Map(dict)' = Assign(Map(dict), k, v) /\ dict'.lost = FALSE
          /\ Capacity(dict') = b /\ dict'.occupied = d.occupied
          /\ d.exc # "none" => reply' = Reply(d.exc, NULL_REF)
          /\ d.exc = "none" => reply' = Reply("none", NULL_REF)
      BY <2>2, <3>1
    <3>3. reply' = Reply(d.exc, NULL_REF)
      BY <3>2
    <3>4. Abstract!Set(u, v)
      BY <1>7, <2>3, <2>4, <2>8, <3>1, <3>2, <3>3 DEF Abstract!Set, Hashable, Assign
    <3>5. RoomKept
      BY <2>5, <3>1, <3>2, <3>3 DEF RoomKept
    <3> QED BY <3>2, <3>4, <3>5, KeyStep DEF GoodStep
  <2>9. CASE /\ Hashable(k) /\ Of(Map(dict), u) = {} /\ d.exc = "MemoryError"
             /\ d.keys = dict.keys /\ d.values = dict.values /\ d.size = dict.size
             /\ \E b \in Capacities : Sound(d, b)
    <3>1. Map(d) = Map(dict)
      BY <2>9 DEF Map, Entries
    <3>2. /\ Inv' /\ Map(dict)' = Map(dict) /\ dict'.size = dict.size /\ dict'.lost = FALSE
          /\ reply' = Reply("MemoryError", NULL_REF)
      BY <2>2, <2>9, <3>1
    <3>3. Abstract!Set(u, v)
      BY <1>7, <2>3, <2>4, <2>9, <3>2 DEF Abstract!Set, Hashable
    <3>4. RoomKept
      BY <1>7, <3>2 DEF RoomKept
    <3> QED BY <3>2, <3>3, <3>4, KeyStep DEF GoodStep
  <2> QED BY <1>4, <1>9, <2>6, <2>7, <2>8, <2>9 DEF SetGives
<1> QED BY <1>8, <1>9

\* dict_subscr_del and dict_subscr_get by their cases.
LEMMA DelUnfolded ==
  ASSUME NEW d, NEW k, NEW differs
  PROVE  dict_subscr_del(d, k, differs)
           = IF ~Hashable(k) THEN [d EXCEPT !.exc = "TypeError"]
             ELSE IF Outside(d, OldSlot(d, k, differs)) THEN [d EXCEPT !.lost = TRUE]
             ELSE IF Occupied(d, OldSlot(d, k, differs)) THEN Removed(d, OldSlot(d, k, differs))
             ELSE [d EXCEPT !.exc = "KeyError"]
  BY Zenon DEF dict_subscr_del, OldSlot

\* The same for a look-up.
LEMMA GetUnfolded ==
  ASSUME NEW d, NEW k, NEW differs
  PROVE  dict_subscr_get(d, k, differs)
           = IF ~Hashable(k) THEN [d EXCEPT !.exc = "TypeError"]
             ELSE IF Outside(d, OldSlot(d, k, differs)) THEN [d EXCEPT !.lost = TRUE]
             ELSE IF Occupied(d, OldSlot(d, k, differs))
                  THEN incref(d, d.values[OldSlot(d, k, differs)])
             ELSE [d EXCEPT !.exc = "KeyError"]
  BY Zenon DEF dict_subscr_get, OldSlot

\* The search for an entry: it is found, or there is none.
LEMMA Looked ==
  ASSUME NEW c \in Capacities, Sound(dict, c), NEW k \in Keys, Hashable(k), NEW differs \in BOOLEAN,
         NEW x, x = OldSlot(dict, k, differs), x # c
  PROVE  /\ Occupied(dict, x) =>
              /\ x \in 0 .. c - 1 /\ dict.keys[x] \in Keys /\ ref_eq(k, dict.keys[x])
              /\ dict.values[x] \in Values
              /\ Of(Map(dict), ValueOf[k]) = {<<ValueOf[k], dict.values[x]>>}
         /\ ~Occupied(dict, x) => Of(Map(dict), ValueOf[k]) = {}
<1>1. c \in Nat \ {0} /\ c \in Nat
  BY DictAssumption
<1>2. dict \in DictType(c) /\ Table(dict.keys, c) /\ Distinct(dict.keys, c) /\ Paired(dict, c)
  BY DEF Sound, Table
<1>3. FoundAt(x, dict.keys, k, c)
  BY <1>1, <1>2, OldSlotFound
<1>4. Map(dict) = Pairs(dict.keys, dict.values, c)
  BY <1>1, <1>2, MapPairs
<1>5. ASSUME Occupied(dict, x)
      PROVE  /\ x \in 0 .. c - 1 /\ dict.keys[x] \in Keys /\ ref_eq(k, dict.keys[x])
             /\ dict.values[x] \in Values
             /\ Of(Map(dict), ValueOf[k]) = {<<ValueOf[k], dict.values[x]>>}
  <2>1. x \in 0 .. c - 1 /\ dict.keys[x] \in Keys /\ ref_eq(k, dict.keys[x])
    BY <1>3, <1>5 DEF FoundAt, Occupied
  <2>2. dict.values[x] \in Values
    BY <1>2, <2>1 DEF Paired
  <2>3. Single(Pairs(dict.keys, dict.values, c), ValueOf[k], dict.values[x])
    BY <1>2, <2>1, PairsFound
  <2> QED BY <1>4, <2>1, <2>2, <2>3 DEF Single
<1>6. ASSUME ~Occupied(dict, x) PROVE Of(Map(dict), ValueOf[k]) = {}
  <2>1. ~(x \in 0 .. c - 1 /\ dict.keys[x] \in Keys)
    BY <1>6, KeysAndMarks DEF Occupied
  <2>2. Absent(dict.keys, k, c)
    BY <1>3, <2>1 DEF FoundAt
  <2> QED BY <1>4, <2>2, PairsAbsent
<1> QED BY <1>5, <1>6

\* A deletion.
LEMMA DelStep ==
  ASSUME Inv, NEW k \in Keys, Del(k)
  PROVE  GoodStep
<1>1. PICK c \in Capacities : Sound(dict, c)
  BY DEF Inv
<1>2. dict.exc = "none" /\ ~dict.lost
  BY DEF Inv, Del
<1>3. PICK differs \in BOOLEAN : Finish(dict_subscr_del(dict, k, differs), NULL_REF)
  BY DEF Del
<1> DEFINE d == dict_subscr_del(dict, k, differs)
           x == OldSlot(dict, k, differs)
           u == ValueOf[k]
<1>4. c \in Nat \ {0} /\ c \in Nat /\ dict \in DictType(c)
  BY <1>1, DictAssumption DEF Sound
<1>5. Capacity(dict) = c
  BY <1>4, SlotTypes
<1>6. d = IF ~Hashable(k) THEN [dict EXCEPT !.exc = "TypeError"]
          ELSE IF x = c THEN [dict EXCEPT !.lost = TRUE]
          ELSE IF Occupied(dict, x) THEN Removed(dict, x)
          ELSE [dict EXCEPT !.exc = "KeyError"]
  BY <1>5, DelUnfolded, Zenon DEF Outside
<1>7. Finish(d, NULL_REF)
  BY <1>3
<1>8. dict.size \in Int /\ dict.lost = FALSE
  BY <1>2, <1>4 DEF DictType
<1>9. \A w : Abstract!Bound(w) = Of(Map(dict), w)
  BY DEF Abstract!Bound, Of
<1>10. /\ \A y : Abstract!Err(y) = Reply(y, NULL_REF)
       /\ \A y : Abstract!Ok(y) = Reply("none", y)
  BY DEF Abstract!Err, Abstract!Ok, Reply
<1> HIDE DEF d
<1>11. CASE ~Hashable(k)
  <2>1. Finish([dict EXCEPT !.exc = "TypeError"], NULL_REF)
    BY <1>6, <1>7, <1>11
  <2>2. /\ Inv' /\ Map(dict)' = Map(dict) /\ RoomKept
        /\ dict'.lost = FALSE /\ reply' = Reply("TypeError", NULL_REF)
    BY <1>2, <2>1, FailedStep
  <2>3. Abstract!Del(u)
    BY <1>8, <1>10, <1>11, <2>2 DEF Abstract!Del, Hashable
  <2> QED BY <2>2, <2>3, KeyStep DEF GoodStep
<1>12. CASE Hashable(k) /\ x = c
  <2>1. Finish([dict EXCEPT !.lost = TRUE], NULL_REF)
    BY <1>6, <1>7, <1>12
  <2> QED BY <1>2, <2>1, LostStep
<1>13. CASE Hashable(k) /\ x # c /\ Occupied(dict, x)
  <2>1. d = Removed(dict, x)
    BY <1>6, <1>13
  <2>2. /\ x \in 0 .. c - 1 /\ dict.keys[x] \in Keys /\ ref_eq(k, dict.keys[x])
        /\ Of(Map(dict), u) = {<<u, dict.values[x]>>}
    BY <1>1, <1>13, Looked
  <2> HIDE DEF x
  <2>3. /\ Sound(d, c) /\ d.exc = "none" /\ ~d.lost /\ d.size = dict.size - 1
        /\ d.keys = [dict.keys EXCEPT ![x] = TOMBSTONE_REF]
        /\ d.values = [dict.values EXCEPT ![x] = NULL_REF]
    BY <1>1, <1>2, <1>4, <2>1, <2>2, RemovedSound
  <2>4. Map(d) = Map(dict) \ Of(Map(dict), u)
    <3>1. /\ dict.keys \in Arrays(Keys \cup Marks, c)
          /\ dict.values \in Arrays(Values \cup {NULL_REF}, c) /\ Distinct(dict.keys, c)
      BY <1>1, <1>4 DEF DictType, Sound, Table
    <3>2. PairsAfter(dict.keys, dict.values, x, TOMBSTONE_REF, NULL_REF, c,
                     Pairs(dict.keys, dict.values, c)
                       \ Of(Pairs(dict.keys, dict.values, c), ValueOf[k]))
      BY <1>4, <2>2, <3>1, PairsRemove
    <3>3. Map(dict) = Pairs(dict.keys, dict.values, c)
      BY <1>4, MapPairs
    <3>4. Map(d) = Pairs(d.keys, d.values, c)
      <4>1. d \in DictType(c)
        BY <2>3 DEF Sound
      <4> QED BY <1>4, <4>1, MapPairs
    <3> QED BY <2>3, <3>2, <3>3, <3>4 DEF PairsAfter
  <2>5. /\ Inv' /\ Map(dict)' = Map(d) /\ dict'.size = d.size
        /\ dict'.lost = FALSE /\ reply' = Reply("none", NULL_REF)
    BY <1>7, <2>3, Finished
  <2>6. Abstract!Del(u)
    BY <1>8, <1>9, <1>10, <2>2, <2>4, <2>5 DEF Abstract!Del
  <2>7. RoomKept
    BY <1>8, <2>3, <2>5 DEF RoomKept
  <2> QED BY <2>5, <2>6, <2>7, KeyStep DEF GoodStep
<1>14. CASE Hashable(k) /\ x # c /\ ~Occupied(dict, x)
  <2>1. Finish([dict EXCEPT !.exc = "KeyError"], NULL_REF)
    BY <1>6, <1>7, <1>14
  <2>2. Of(Map(dict), u) = {}
    BY <1>1, <1>14, Looked
  <2>3. /\ Inv' /\ Map(dict)' = Map(dict) /\ RoomKept
        /\ dict'.lost = FALSE /\ reply' = Reply("KeyError", NULL_REF)
    BY <1>2, <2>1, FailedStep
  <2>4. Abstract!Del(u)
    BY <1>8, <1>9, <1>10, <1>14, <2>2, <2>3 DEF Abstract!Del, Hashable
  <2> QED BY <2>3, <2>4, KeyStep DEF GoodStep
<1> QED BY <1>11, <1>12, <1>13, <1>14

\* A look-up.
LEMMA GetStep ==
  ASSUME Inv, NEW k \in Keys, Get(k)
  PROVE  GoodStep
<1>1. PICK c \in Capacities : Sound(dict, c)
  BY DEF Inv
<1>2. dict.exc = "none" /\ ~dict.lost
  BY DEF Inv, Get
<1>3. PICK differs \in BOOLEAN :
        LET d == dict_subscr_get(dict, k, differs)
            v == dict.values[Find(dict, k, TRUE, differs)]
        IN  IF d.exc = "none" /\ ~d.lost THEN Finish(decref(d, v), v) ELSE Finish(d, NULL_REF)
  BY Zenon DEF Get
<1> DEFINE d == dict_subscr_get(dict, k, differs)
           x == OldSlot(dict, k, differs)
           v == dict.values[x]
           u == ValueOf[k]
<1>4. c \in Nat \ {0} /\ c \in Nat /\ dict \in DictType(c)
  BY <1>1, DictAssumption DEF Sound
<1>5. Capacity(dict) = c
  BY <1>4, SlotTypes
<1>6. d = IF ~Hashable(k) THEN [dict EXCEPT !.exc = "TypeError"]
          ELSE IF x = c THEN [dict EXCEPT !.lost = TRUE]
          ELSE IF Occupied(dict, x) THEN incref(dict, v)
          ELSE [dict EXCEPT !.exc = "KeyError"]
  BY <1>5, GetUnfolded, Zenon DEF Outside
<1>7. IF d.exc = "none" /\ ~d.lost THEN Finish(decref(d, v), v) ELSE Finish(d, NULL_REF)
  BY <1>3, Zenon DEF OldSlot
<1>8. dict.size \in Int /\ dict.lost = FALSE
  BY <1>2, <1>4 DEF DictType
<1>9. \A w : Abstract!Bound(w) = Of(Map(dict), w)
  BY DEF Abstract!Bound, Of
<1>10. /\ \A y : Abstract!Err(y) = Reply(y, NULL_REF)
       /\ \A y : Abstract!Ok(y) = Reply("none", y)
  BY DEF Abstract!Err, Abstract!Ok, Reply
<1> HIDE DEF d
<1>11. CASE ~Hashable(k)
  <2>1. d = [dict EXCEPT !.exc = "TypeError"]
    BY <1>6, <1>11
  <2>2. d.exc # "none"
    BY <1>4, <2>1 DEF DictType
  <2>3. Finish([dict EXCEPT !.exc = "TypeError"], NULL_REF)
    BY <1>7, <2>1, <2>2
  <2>4. /\ Inv' /\ Map(dict)' = Map(dict) /\ RoomKept
        /\ dict'.lost = FALSE /\ reply' = Reply("TypeError", NULL_REF)
    BY <1>2, <2>3, FailedStep
  <2>5. Abstract!Get(u)
    BY <1>8, <1>10, <1>11, <2>4 DEF Abstract!Get, Hashable
  <2> QED BY <2>4, <2>5, KeyStep DEF GoodStep
<1>12. CASE Hashable(k) /\ x = c
  <2>1. d = [dict EXCEPT !.lost = TRUE]
    BY <1>6, <1>12
  <2>2. d.lost
    BY <1>4, <2>1 DEF DictType
  <2>3. Finish([dict EXCEPT !.lost = TRUE], NULL_REF)
    BY <1>7, <2>1, <2>2
  <2> QED BY <1>2, <2>3, LostStep
<1>13. CASE Hashable(k) /\ x # c /\ Occupied(dict, x)
  <2>1. d = incref(dict, v)
    BY <1>6, <1>13
  <2>2. v \in Values /\ Of(Map(dict), u) = {<<u, v>>}
    BY <1>1, <1>13, Looked
  <2> DEFINE e == decref(d, v)
  <2> HIDE DEF v, x
  <2>3. v \in References \cup Marks
    BY <2>2 DEF References
  <2>4. /\ d \in DictType(c) /\ SameSlots(d, dict)
        /\ \A r \in References : d.held[r] = dict.held[r] + In(v, {r})
    BY <1>4, <2>1, <2>3, Incref
  <2>5. /\ e \in DictType(c) /\ SameSlots(e, d)
        /\ \A r \in References : e.held[r] = d.held[r] - In(v, {r})
    BY <2>3, <2>4, Decref
  <2>6. d.exc = "none" /\ ~d.lost
    BY <1>2, <2>4 DEF SameSlots
  <2>7. Finish(e, v)
    BY <1>7, <2>6
  <2> HIDE DEF e
  <2>8. SameSlots(e, dict)
    BY <2>4, <2>5 DEF SameSlots
  <2>9. \A r \in References : e.held[r] = dict.held[r]
    <3> SUFFICES ASSUME NEW r \in References PROVE e.held[r] = dict.held[r]
      OBVIOUS
    <3>1. dict.held[r] \in Int /\ In(v, {r}) \in Int
      BY <1>4 DEF DictType, In
    <3>2. d.held[r] = dict.held[r] + In(v, {r}) /\ e.held[r] = d.held[r] - In(v, {r})
      BY <2>4, <2>5
    <3> QED BY <3>1, <3>2
  <2>10. Sound(e, c) /\ Map(e) = Map(dict) /\ ~e.lost /\ e.exc = "none" /\ e.size = dict.size
    BY <1>1, <1>2, <2>5, <2>8, <2>9 DEF Sound, Paired, Tallied, Balanced, SameSlots, Map, Entries
  <2>11. /\ Inv' /\ Map(dict)' = Map(dict) /\ dict'.size = dict.size
         /\ dict'.lost = FALSE /\ reply' = Reply("none", v)
    BY <2>7, <2>10, Finished
  <2>12. Abstract!Get(u)
    <3>1. <<u, v>>[2] = v /\ <<u, v>> \in Abstract!Bound(u)
      BY <1>9, <2>2
    <3>2. \E p \in Abstract!Bound(u) : reply' = Abstract!Ok(p[2])
      BY <1>10, <2>11, <3>1
    <3> QED BY <1>8, <2>11, <3>2 DEF Abstract!Get
  <2>13. RoomKept
    BY <1>8, <2>11 DEF RoomKept
  <2> QED BY <2>11, <2>12, <2>13, KeyStep DEF GoodStep
<1>14. CASE Hashable(k) /\ x # c /\ ~Occupied(dict, x)
  <2>1. d = [dict EXCEPT !.exc = "KeyError"]
    BY <1>6, <1>14
  <2>2. d.exc # "none"
    BY <1>4, <2>1 DEF DictType
  <2>3. Finish([dict EXCEPT !.exc = "KeyError"], NULL_REF)
    BY <1>7, <2>1, <2>2
  <2>4. Of(Map(dict), u) = {}
    BY <1>1, <1>14, Looked
  <2>5. /\ Inv' /\ Map(dict)' = Map(dict) /\ RoomKept
        /\ dict'.lost = FALSE /\ reply' = Reply("KeyError", NULL_REF)
    BY <1>2, <2>3, FailedStep
  <2>6. Abstract!Get(u)
    BY <1>8, <1>9, <1>10, <1>14, <2>4, <2>5 DEF Abstract!Get, Hashable
  <2> QED BY <2>5, <2>6, KeyStep DEF GoodStep
<1> QED BY <1>11, <1>12, <1>13, <1>14

\* Every step.
LEMMA Step == Inv /\ [Next]_vars => GoodStep
<1> SUFFICES ASSUME Inv, [Next]_vars PROVE GoodStep
  OBVIOUS
<1>1. CASE Next
  <2>1. PICK k \in Keys : Get(k) \/ Del(k) \/ \E v \in Values : Set(k, v)
    BY <1>1 DEF Next
  <2> QED BY <2>1, GetStep, DelStep, SetStep
<1>2. CASE UNCHANGED vars
  <2>1. dict' = dict /\ reply' = reply
    BY <1>2 DEF vars
  <2>2. Inv'
    BY <2>1 DEF Inv
  <2>3. UNCHANGED Abstract!vars
    BY <2>1 DEF Abstract!vars, Map, Entries
  <2>4. RoomKept
    <3>1. dict.size \in Int
      BY DEF Inv, Sound, DictType
    <3> QED BY <2>1, <3>1 DEF RoomKept
  <2> QED BY <2>2, <2>3, <2>4 DEF GoodStep
<1> QED BY <1>1, <1>2

\* An empty dictionary.
LEMMA Start == Init => Inv /\ Abstract!Init
<1> SUFFICES ASSUME Init PROVE Inv /\ Abstract!Init
  OBVIOUS
<1> DEFINE c == MinCapacity
           f == make_reference_refarray(c)
<1>1. c \in Capacities /\ c \in Nat
  BY DictAssumption
<1>2. /\ dict = [keys |-> f, values |-> f, size |-> 0, occupied |-> 0,
                 held |-> [r \in References |-> 0], exc |-> "none", lost |-> FALSE]
      /\ reply = Reply("none", NULL_REF)
  BY DEF Init, make_reference_dict, References
<1>3. f = [i \in 0 .. c - 1 |-> NULL_REF]
  BY DEF make_reference_refarray
<1>4. ASSUME NEW S, NULL_REF \notin S PROVE Count(f, S) = 0
  BY <1>1, <1>4, CountNone
<1> HIDE DEF f, c
<1>5. f \in Arrays(Keys \cup Marks, c) /\ f \in Arrays(Values \cup {NULL_REF}, c)
  BY <1>3 DEF Arrays, Marks
<1>6. dict \in DictType(c)
  BY <1>2, <1>5 DEF DictType
<1>7. /\ dict.keys = f /\ dict.values = f /\ dict.size = 0 /\ dict.occupied = 0
      /\ dict.exc = "none" /\ dict.lost = FALSE /\ \A r \in References : dict.held[r] = 0
  BY <1>2
<1>8. \A i \in 0 .. c - 1 : f[i] = NULL_REF
  BY <1>3
<1>9. Table(f, c) /\ Paired(dict, c)
  BY <1>5, <1>7, <1>8, KeysAndMarks DEF Table, Paired, Probed, Distinct
<1>10. Tallied(dict)
  <2>1. NULL_REF \notin Keys /\ NULL_REF \notin Keys \cup {TOMBSTONE_REF}
    BY KeysAndMarks
  <2>2. Count(f, Keys) = 0 /\ Count(f, Keys \cup {TOMBSTONE_REF}) = 0
    BY <1>4, <2>1
  <2> QED BY <1>7, <2>2 DEF Tallied
<1>11. Balanced(dict)
  <2> SUFFICES ASSUME NEW r \in References
               PROVE  dict.held[r] = Count(dict.keys, {r}) + Count(dict.values, {r})
    BY DEF Balanced
  <2>1. NULL_REF \notin {r}
    BY KeysAndMarks DEF References
  <2>2. Count(f, {r}) = 0
    BY <1>4, <2>1
  <2> QED BY <1>7, <2>2
<1>12. Map(dict) = {}
  <2>1. Map(dict) = Pairs(f, f, c)
    BY <1>1, <1>6, <1>7, MapPairs
  <2>2. ASSUME NEW p, p \in Pairs(f, f, c) PROVE FALSE
    BY <1>8, <2>2, InPairs, KeysAndMarks
  <2> QED BY <2>1, <2>2
<1>13. Inv
  BY <1>1, <1>6, <1>7, <1>9, <1>10, <1>11 DEF Inv, Sound
<1>14. Abstract!Init
  BY <1>2, <1>7, <1>12 DEF Abstract!Init, Abstract!Ok, Reply
<1> QED BY <1>13, <1>14

\* The invariant gives the counters and the references in the terms of Dict.
LEMMA Meaning == Inv => SlotsCounted /\ CountsExact
<1> SUFFICES ASSUME Inv PROVE SlotsCounted /\ CountsExact
  OBVIOUS
<1>1. PICK c \in Capacities : Sound(dict, c)
  BY DEF Inv
<1>2. c \in Nat /\ dict \in DictType(c) /\ Tallied(dict) /\ Balanced(dict)
  BY <1>1, DictAssumption DEF Sound
<1>3. /\ dict.keys \in [0 .. c - 1 -> Keys \cup Marks]
      /\ dict.values \in [0 .. c - 1 -> Values \cup {NULL_REF}]
      /\ Capacity(dict) = c
  BY <1>2, SlotTypes
<1>4. TypeOK
  BY <1>3 DEF TypeOK
<1>5. Entries(dict) = {i \in DOMAIN dict.keys : dict.keys[i] \in Keys}
  BY <1>2, MapPairs
<1>6. {i \in DOMAIN dict.keys : dict.keys[i] # NULL_REF}
        = {i \in DOMAIN dict.keys : dict.keys[i] \in Keys \cup {TOMBSTONE_REF}}
  BY <1>3, KeysAndMarks
<1>7. SlotsCounted
  BY <1>2, <1>4, <1>5, <1>6 DEF SlotsCounted, Tallied, Count
<1>8. ASSUME NEW f, NEW r
      PROVE  {i \in DOMAIN f : f[i] = r} = {i \in DOMAIN f : f[i] \in {r}}
  OBVIOUS
<1>9. CountsExact
  BY <1>2, <1>8 DEF CountsExact, Balanced, Count, References
<1> QED BY <1>7, <1>9

-----------------------------------------------------------------------------
(* Theorems. *)

\* size and occupied of a dictionary are exact after any operations, with any keys,
\* hashes and capacities, and also when doublings fail.
THEOREM SizesExact == Spec => []SlotsCounted
<1>1. Inv /\ [Next]_vars => Inv'
  BY Step DEF GoodStep
<1> QED BY <1>1, Start, Meaning, PTL DEF Spec

\* A dictionary owns one count for each slot that holds a reference: assignment, deletion
\* and the replacement of its arrays neither leak a reference nor release one twice.
THEOREM ReferencesExact == Spec => []CountsExact
<1>1. Inv /\ [Next]_vars => Inv'
  BY Step DEF GoodStep
<1> QED BY <1>1, Start, Meaning, PTL DEF Spec

\* Linear probing with tombstones and doubling is a map: every look-up, assignment and
\* deletion does and reports what DictSpec says, until a search is lost behind the array;
\* and an insertion that succeeds leaves half of the slots empty.
THEOREM IsMap == Spec => ImplementsMap
<1>1. Inv /\ [Next]_vars => Inv' /\ [Abstract!Next]_(Abstract!vars)
  BY Step DEF GoodStep
<1>2. Inv /\ [Next]_vars =>
        [dict'.size > dict.size /\ reply'.error = "none" => 2 * dict'.occupied <= Capacity(dict')]_vars
  BY Step DEF GoodStep, RoomKept
<1>3. Spec => Abstract!Spec
  BY <1>1, Start, PTL DEF Spec, Abstract!Spec
<1>4. Spec => RoomToProbe
  BY <1>1, <1>2, Start, PTL DEF Spec, RoomToProbe
<1> QED BY <1>3, <1>4, PTL DEF ImplementsMap
=============================================================================
