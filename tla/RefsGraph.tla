------------------------------ MODULE RefsGraph ------------------------------
(***************************************************************************)
(* Lemmas about Subpython's values and its memory pool, for RefsProofs.    *)
(* The first follow one operation on a graph of values (`ob', by           *)
(* reference), on the counts and on the places that refer to them; the     *)
(* others do the same for the blocks and addresses of the pool.            *)
(***************************************************************************)
EXTENDS Refs, TLAPS, FiniteSetTheorems, WellFoundedInduction

-----------------------------------------------------------------------------
(* Counting. *)

Pos == Nat \ {0}

\* A set with the same elements, one of them added or taken away, or cut in two.
LEMMA CardParts ==
  ASSUME NEW A, NEW B, IsFiniteSet(A), IsFiniteSet(B), A \cap B = {}
  PROVE  IsFiniteSet(A \cup B) /\ Cardinality(A \cup B) = Cardinality(A) + Cardinality(B)
<1>1. Cardinality(A \cap B) = 0
  BY FS_EmptySet
<1>2. Cardinality(A) \in Nat /\ Cardinality(B) \in Nat
  BY FS_CardinalityType
<1>3. IsFiniteSet(A \cup B)
      /\ Cardinality(A \cup B) = Cardinality(A) + Cardinality(B) - Cardinality(A \cap B)
  BY FS_Union
<1> QED BY <1>1, <1>2, <1>3

\* Two sets with a one-to-one relation between them have the same size.
LEMMA CardSame ==
  ASSUME NEW A, NEW B, IsFiniteSet(A), NEW g \in [A -> B],
         \A x, y \in A : g[x] = g[y] => x = y, \A z \in B : \E x \in A : g[x] = z
  PROVE  IsFiniteSet(B) /\ Cardinality(B) = Cardinality(A)
<1>1. g \in Bijection(A, B)
  BY DEF Bijection, Injection, Surjection, IsInjective
<1>2. ExistsBijection(A, B)
  BY <1>1 DEF ExistsBijection
<1> QED BY <1>2, FS_Bijection

\* Moving every index by the same distance.
LEMMA CardShift ==
  ASSUME NEW A \in SUBSET Int, IsFiniteSet(A), NEW d \in Int
  PROVE  LET B == {j \in Int : j - d \in A}
         IN  IsFiniteSet(B) /\ Cardinality(B) = Cardinality(A)
<1> DEFINE B == {j \in Int : j - d \in A}
           g == [i \in A |-> i + d]
<1>1. g \in [A -> B]
  OBVIOUS
<1>2. \A x, y \in A : g[x] = g[y] => x = y
  OBVIOUS
<1>3. \A z \in B : z - d \in A /\ g[z - d] = z
  OBVIOUS
<1>4. \A z \in B : \E x \in A : g[x] = z
  BY <1>3
<1> HIDE DEF g, B
<1>5. IsFiniteSet(B) /\ Cardinality(B) = Cardinality(A)
  BY <1>1, <1>2, <1>4, CardSame
<1> QED BY <1>5 DEF B

-----------------------------------------------------------------------------
(* How often a value occurs in a sequence. *)

\* The number of occurrences is a natural number.
LEMMA OccType ==
  ASSUME NEW T, NEW s \in Seq(T), NEW r
  PROVE  /\ IsFiniteSet({i \in DOMAIN s : s[i] = r})
         /\ Occurrences(s, r) \in Nat
<1>1. IsFiniteSet(1 .. Len(s))
  BY FS_Interval
<1>2. {i \in DOMAIN s : s[i] = r} \in SUBSET (1 .. Len(s))
  OBVIOUS
<1>3. IsFiniteSet({i \in DOMAIN s : s[i] = r})
  BY <1>1, <1>2, FS_Subset
<1> QED BY <1>3, FS_CardinalityType DEF Occurrences

\* It is 0 if the value is nowhere, and only then.
LEMMA OccZero ==
  ASSUME NEW T, NEW s \in Seq(T), NEW r
  PROVE  Occurrences(s, r) = 0 <=> \A i \in DOMAIN s : s[i] # r
<1> DEFINE A == {i \in DOMAIN s : s[i] = r}
<1>1. IsFiniteSet(A)
  BY OccType
<1>2. Cardinality(A) = 0 <=> A = {}
  BY <1>1, FS_EmptySet
<1> QED BY <1>2 DEF Occurrences

\* An empty sequence has none.
LEMMA OccEmpty ==
  ASSUME NEW r
  PROVE  Occurrences(<<>>, r) = 0
<1>1. {i \in DOMAIN <<>> : <<>>[i] = r} = {}
  OBVIOUS
<1> QED BY <1>1, FS_EmptySet DEF Occurrences

\* A value found at a position occurs; found at two it occurs twice.
LEMMA OccFound ==
  ASSUME NEW T, NEW s \in Seq(T), NEW i \in DOMAIN s
  PROVE  /\ Occurrences(s, s[i]) >= 1
         /\ \A j \in DOMAIN s : j # i /\ s[j] = s[i] => Occurrences(s, s[i]) >= 2
<1> DEFINE A == {k \in DOMAIN s : s[k] = s[i]}
<1>1. IsFiniteSet(A) /\ Occurrences(s, s[i]) = Cardinality(A) /\ Cardinality(A) \in Nat
  BY OccType, FS_CardinalityType DEF Occurrences
<1>2. i \in A
  OBVIOUS
<1> HIDE DEF A
<1>3. IsFiniteSet(A \ {i}) /\ Cardinality(A \ {i}) = Cardinality(A) - 1
  BY <1>1, <1>2, FS_RemoveElement
<1>4. Cardinality(A \ {i}) \in Nat
  BY <1>3, FS_CardinalityType
<1>5. ASSUME NEW j \in DOMAIN s, j # i, s[j] = s[i]
      PROVE  Cardinality(A) >= 2
  <2>1. j \in A \ {i}
    BY <1>5 DEF A
  <2>2. Cardinality(A \ {i}) # 0
    BY <1>3, <2>1, FS_EmptySet
  <2> QED BY <1>1, <1>3, <1>4, <2>2
<1> QED BY <1>1, <1>3, <1>4, <1>5

\* A sequence cut in two.
LEMMA OccConcat ==
  ASSUME NEW T, NEW s \in Seq(T), NEW t \in Seq(T), NEW r
  PROVE  Occurrences(s \o t, r) = Occurrences(s, r) + Occurrences(t, r)
<1> DEFINE A == {i \in DOMAIN s : s[i] = r}
           C == {i \in DOMAIN t : t[i] = r}
           B == {j \in Int : j - Len(s) \in C}
           Z == {i \in DOMAIN (s \o t) : (s \o t)[i] = r}
<1>1. IsFiniteSet(A) /\ IsFiniteSet(C)
  BY OccType
<1>2. C \in SUBSET Int /\ Len(s) \in Int
  OBVIOUS
<1>3. IsFiniteSet(B) /\ Cardinality(B) = Cardinality(C)
  <2> HIDE DEF C
  <2> QED BY <1>1, <1>2, CardShift
<1>4. A \cap B = {}
  OBVIOUS
<1>5. Z = A \cup B
  <2>1. s \o t \in Seq(T) /\ Len(s \o t) = Len(s) + Len(t)
    OBVIOUS
  <2>2. \A i \in 1 .. Len(s) : (s \o t)[i] = s[i]
    OBVIOUS
  <2>3. \A i \in Len(s) + 1 .. Len(s) + Len(t) : (s \o t)[i] = t[i - Len(s)]
    OBVIOUS
  <2>4. ASSUME NEW i \in Z PROVE i \in A \cup B
    <3>1. i \in 1 .. Len(s) + Len(t)
      BY <2>1
    <3>2. CASE i <= Len(s)
      BY <2>2, <3>1, <3>2
    <3>3. CASE i > Len(s)
      <4>1. i \in Len(s) + 1 .. Len(s) + Len(t) /\ i - Len(s) \in DOMAIN t
        BY <3>1, <3>3
      <4> QED BY <2>3, <4>1
    <3> QED BY <3>1, <3>2, <3>3
  <2>5. ASSUME NEW i \in A PROVE i \in Z
    BY <2>1, <2>2
  <2>6. ASSUME NEW i \in B PROVE i \in Z
    <3>1. i \in Len(s) + 1 .. Len(s) + Len(t)
      OBVIOUS
    <3> QED BY <2>1, <2>3, <3>1
  <2> HIDE DEF A, B, Z
  <2> QED BY <2>4, <2>5, <2>6
<1> HIDE DEF A, B, C, Z
<1>6. Cardinality(Z) = Cardinality(A) + Cardinality(C)
  BY <1>1, <1>3, <1>4, <1>5, CardParts
<1> QED BY <1>6 DEF Occurrences, A, C, Z

\* A sequence of one element.
LEMMA OccSingle ==
  ASSUME NEW x, NEW r
  PROVE  Occurrences(<<x>>, r) = IF x = r THEN 1 ELSE 0
<1> DEFINE A == {i \in DOMAIN <<x>> : <<x>>[i] = r}
<1>1. CASE x = r
  <2>1. A = {1}
    BY <1>1
  <2> QED BY <1>1, <2>1, FS_Singleton DEF Occurrences
<1>2. CASE x # r
  <2>1. A = {}
    BY <1>2
  <2> QED BY <1>2, <2>1, FS_EmptySet DEF Occurrences
<1> QED BY <1>1, <1>2

\* One more element at the end, or one less.
LEMMA OccAppend ==
  ASSUME NEW T, NEW s \in Seq(T), NEW x \in T, NEW r
  PROVE  Occurrences(Append(s, x), r) = Occurrences(s, r) + (IF x = r THEN 1 ELSE 0)
<1>1. Append(s, x) = s \o <<x>> /\ <<x>> \in Seq(T)
  OBVIOUS
<1>2. Occurrences(s \o <<x>>, r) = Occurrences(s, r) + Occurrences(<<x>>, r)
  BY <1>1, OccConcat
<1> QED BY <1>1, <1>2, OccSingle

\* One element less at the front.
LEMMA OccTail ==
  ASSUME NEW T, NEW s \in Seq(T), s # <<>>, NEW r
  PROVE  Occurrences(s, r) = Occurrences(Tail(s), r) + (IF Head(s) = r THEN 1 ELSE 0)
<1> DEFINE h == <<Head(s)>>
           t == Tail(s)
<1>1. s = h \o t /\ h \in Seq(T) /\ t \in Seq(T)
  OBVIOUS
<1>2. Occurrences(h, r) = (IF Head(s) = r THEN 1 ELSE 0)
  BY OccSingle
<1> HIDE DEF h, t
<1>3. Occurrences(h \o t, r) = Occurrences(h, r) + Occurrences(t, r)
  BY <1>1, OccConcat
<1>4. Occurrences(t, r) \in Nat
  BY <1>1, OccType
<1>5. Occurrences(s, r) = Occurrences(t, r) + (IF Head(s) = r THEN 1 ELSE 0)
  BY <1>1, <1>2, <1>3, <1>4
<1> QED BY <1>5 DEF t

\* A sequence read backwards.
LEMMA OccReverse ==
  ASSUME NEW T, NEW s \in Seq(T), NEW r
  PROVE  Reverse(s) \in Seq(T) /\ Occurrences(Reverse(s), r) = Occurrences(s, r)
<1> DEFINE n == Len(s)
           A == {i \in DOMAIN s : s[i] = r}
           Z == {i \in DOMAIN Reverse(s) : Reverse(s)[i] = r}
           g == [i \in A |-> n - i + 1]
<1>1. Reverse(s) \in Seq(T) /\ DOMAIN Reverse(s) = 1 .. n
      /\ \A i \in 1 .. n : Reverse(s)[i] = s[n - i + 1]
  BY DEF Reverse
<1>2. g \in [A -> Z]
  <2> SUFFICES ASSUME NEW i \in A PROVE n - i + 1 \in Z
    OBVIOUS
  <2>1. n - i + 1 \in 1 .. n /\ n - (n - i + 1) + 1 = i
    OBVIOUS
  <2> QED BY <1>1, <2>1
<1>3. \A x, y \in A : g[x] = g[y] => x = y
  OBVIOUS
<1>4. ASSUME NEW z \in Z PROVE \E x \in A : g[x] = z
  <2>1. z \in 1 .. n /\ s[n - z + 1] = r
    BY <1>1
  <2>2. n - z + 1 \in A /\ n - (n - z + 1) + 1 = z
    BY <2>1
  <2> QED BY <2>2
<1>5. IsFiniteSet(A)
  BY OccType
<1> HIDE DEF A, Z, g
<1>6. Cardinality(Z) = Cardinality(A)
  BY <1>2, <1>3, <1>4, <1>5, CardSame
<1> QED BY <1>1, <1>6 DEF Occurrences, A, Z

\* Calls made of references: a call occurs as often as its reference.
LEMMA OccSteps ==
  ASSUME NEW T, NEW rs \in Seq(T), NEW do, NEW d, NEW r
  PROVE  Occurrences(Steps(do, rs), Step(d, r)) = IF d = do THEN Occurrences(rs, r) ELSE 0
<1>1. \A x, y, a, b : Step(x, a) = Step(y, b) <=> x = y /\ a = b
  BY DEF Step
<1>2. DOMAIN Steps(do, rs) = DOMAIN rs /\ \A i \in DOMAIN rs : Steps(do, rs)[i] = Step(do, rs[i])
  BY DEF Steps
<1>3. CASE d = do
  <2>1. {i \in DOMAIN Steps(do, rs) : Steps(do, rs)[i] = Step(d, r)} = {i \in DOMAIN rs : rs[i] = r}
    BY <1>1, <1>2, <1>3
  <2> QED BY <1>3, <2>1 DEF Occurrences
<1>4. CASE d # do
  <2>1. {i \in DOMAIN Steps(do, rs) : Steps(do, rs)[i] = Step(d, r)} = {}
    BY <1>1, <1>2, <1>4
  <2> QED BY <1>4, <2>1, FS_EmptySet DEF Occurrences
<1> QED BY <1>3, <1>4

-----------------------------------------------------------------------------
(* Values by reference, and the places that refer to them. *)

RefOrNull == Pos \cup {NULL_REF}
ValueType == [type : {"none", "bool", "int", "list", "array"}, ref_count : Nat,
              value_size : Pos, kids : Seq(RefOrNull), size : Nat]
Values(ob) ==
  ob \in [DOMAIN ob -> ValueType] /\ DOMAIN ob \subseteq Pos /\ IsFiniteSet(DOMAIN ob)

\* The places in values of os that refer to r, except the vacant ones kv.
OwnPlaces(kids, o, r) == {<<o, j>> : j \in {i \in DOMAIN kids : kids[i] = r}}
ElementPlaces(ob, os, kv, r) ==
  {p \in os \X Pos : p[2] \in DOMAIN ob[p[1]].kids /\ ob[p[1]].kids[p[2]] = r /\ p \notin kv}
\* The globals that refer to r, except the vacant ones gv.
GlobalPlaces(gl, gv, r) == {i \in DOMAIN gl : gl[i].ref = r /\ i \notin gv}

\* The fields of a value.
LEMMA ValueFields ==
  ASSUME NEW ob, Values(ob), NEW r \in DOMAIN ob
  PROVE  /\ r \in Pos /\ ob[r] \in ValueType
         /\ ob[r].type \in {"none", "bool", "int", "list", "array"}
         /\ ob[r].ref_count \in Nat /\ ob[r].value_size \in Pos /\ ob[r].size \in Nat
         /\ ob[r].kids \in Seq(RefOrNull)
<1>1. ob[r] \in ValueType /\ r \in Pos
  BY DEF Values
<1> QED BY <1>1 DEF ValueType

\* The places of one value: as many as r occurs in it.
LEMMA OwnCount ==
  ASSUME NEW kids \in Seq(RefOrNull), NEW o, NEW r
  PROVE  /\ IsFiniteSet(OwnPlaces(kids, o, r))
         /\ Cardinality(OwnPlaces(kids, o, r)) = Occurrences(kids, r)
<1> DEFINE A == {i \in DOMAIN kids : kids[i] = r}
           B == OwnPlaces(kids, o, r)
           g == [i \in A |-> <<o, i>>]
<1>1. IsFiniteSet(A)
  BY OccType
<1>2. B = {<<o, j>> : j \in A}
  BY DEF OwnPlaces
<1>3. g \in [A -> B] /\ \A x, y \in A : g[x] = g[y] => x = y
  BY <1>2
<1>4. \A z \in B : \E x \in A : g[x] = z
  BY <1>2
<1> HIDE DEF A, B, g
<1>5. IsFiniteSet(B) /\ Cardinality(B) = Cardinality(A)
  BY <1>1, <1>3, <1>4, CardSame
<1> QED BY <1>5 DEF Occurrences, A, B

\* There are finitely many places.
LEMMA PlacesFinite ==
  ASSUME NEW ob, Values(ob), NEW os \in SUBSET DOMAIN ob, NEW kv, NEW r
  PROVE  /\ IsFiniteSet(ElementPlaces(ob, os, kv, r))
         /\ Cardinality(ElementPlaces(ob, os, kv, r)) \in Nat
<1> DEFINE Own(o) == OwnPlaces(ob[o].kids, o, r)
           U == {Own(o) : o \in os}
           g == [o \in os |-> Own(o)]
<1>1. IsFiniteSet(os)
  BY FS_Subset DEF Values
<1>2. \A o \in os : IsFiniteSet(Own(o))
  <2> TAKE o \in os
  <2>1. ob[o].kids \in Seq(RefOrNull)
    BY ValueFields
  <2> QED BY <2>1, OwnCount
<1>3. g \in Surjection(os, U)
  <2> HIDE DEF Own
  <2> QED BY DEF Surjection
<1>4. IsFiniteSet(U)
  <2> HIDE DEF g, U
  <2> QED BY <1>1, <1>3, FS_Surjection
<1>5. IsFiniteSet(UNION U)
  <2>1. \A T \in U : IsFiniteSet(T)
    <3> HIDE DEF Own
    <3> QED BY <1>2
  <2> HIDE DEF U
  <2> QED BY <1>4, <2>1, FS_UNION
<1>6. ElementPlaces(ob, os, kv, r) \subseteq UNION U
  <2> SUFFICES ASSUME NEW p \in ElementPlaces(ob, os, kv, r) PROVE p \in UNION U
    OBVIOUS
  <2>1. p[1] \in os /\ p = <<p[1], p[2]>> /\ p[2] \in DOMAIN ob[p[1]].kids /\ ob[p[1]].kids[p[2]] = r
    BY DEF ElementPlaces
  <2>2. p \in Own(p[1])
    BY <2>1 DEF OwnPlaces
  <2> HIDE DEF Own
  <2> QED BY <2>1, <2>2
<1>7. IsFiniteSet(ElementPlaces(ob, os, kv, r))
  <2> HIDE DEF U
  <2> QED BY <1>5, <1>6, FS_Subset
<1> QED BY <1>7, FS_CardinalityType

\* They depend only on what the values refer to.
LEMMA PlacesSame ==
  ASSUME NEW ob, NEW ob2, NEW os, NEW kv, NEW r, \A o \in os : ob2[o].kids = ob[o].kids
  PROVE  ElementPlaces(ob2, os, kv, r) = ElementPlaces(ob, os, kv, r)
BY DEF ElementPlaces

\* One more value that refers to others.
LEMMA PlacesAdd ==
  ASSUME NEW ob, Values(ob), NEW os \in SUBSET DOMAIN ob, NEW o \in DOMAIN ob, o \notin os,
         NEW kv, \A p \in kv : p[1] # o, NEW r
  PROVE  Cardinality(ElementPlaces(ob, os \cup {o}, kv, r))
           = Cardinality(ElementPlaces(ob, os, kv, r)) + Occurrences(ob[o].kids, r)
<1> DEFINE A == ElementPlaces(ob, os, kv, r)
           B == OwnPlaces(ob[o].kids, o, r)
           Z == ElementPlaces(ob, os \cup {o}, kv, r)
<1>1. ob[o].kids \in Seq(RefOrNull)
  BY ValueFields
<1>2. IsFiniteSet(A) /\ IsFiniteSet(B) /\ Cardinality(B) = Occurrences(ob[o].kids, r)
  BY <1>1, PlacesFinite, OwnCount
<1>3. A \cap B = {}
  BY DEF ElementPlaces, OwnPlaces
<1>4. Z \subseteq A \cup B
  <2> SUFFICES ASSUME NEW p \in Z PROVE p \in A \cup B
    OBVIOUS
  <2>1. p \in (os \cup {o}) \X Pos /\ p[2] \in DOMAIN ob[p[1]].kids /\ ob[p[1]].kids[p[2]] = r /\ p \notin kv
    BY DEF ElementPlaces
  <2>2. p = <<p[1], p[2]>>
    BY <2>1
  <2>3. CASE p[1] = o
    BY <2>1, <2>2, <2>3 DEF OwnPlaces
  <2>4. CASE p[1] \in os
    BY <2>1, <2>2, <2>4 DEF ElementPlaces
  <2> QED BY <2>1, <2>3, <2>4
<1>5. A \subseteq Z
  BY DEF ElementPlaces
<1>6. B \subseteq Z
  <2> SUFFICES ASSUME NEW j \in DOMAIN ob[o].kids, ob[o].kids[j] = r PROVE <<o, j>> \in Z
    BY DEF OwnPlaces
  <2>1. j \in Pos
    BY <1>1 DEF Pos
  <2>2. <<o, j>> \in (os \cup {o}) \X Pos /\ <<o, j>>[1] = o /\ <<o, j>>[2] = j
    BY <2>1
  <2>3. <<o, j>> \notin kv
    BY <2>2
  <2> QED BY <2>2, <2>3 DEF ElementPlaces
<1>7. Z = A \cup B
  BY <1>4, <1>5, <1>6
<1> HIDE DEF A, B, Z
<1>8. Cardinality(Z) = Cardinality(A) + Cardinality(B)
  BY <1>2, <1>3, <1>7, CardParts
<1> QED BY <1>2, <1>8 DEF A, Z

\* One place less.
LEMMA PlacesVacate ==
  ASSUME NEW ob, Values(ob), NEW os \in SUBSET DOMAIN ob, NEW o \in os,
         NEW k \in DOMAIN ob[o].kids, NEW r
  PROVE  Cardinality(ElementPlaces(ob, os, {}, r))
           = Cardinality(ElementPlaces(ob, os, {<<o, k>>}, r))
             + (IF ob[o].kids[k] = r THEN 1 ELSE 0)
<1> DEFINE A == ElementPlaces(ob, os, {}, r)
           B == ElementPlaces(ob, os, {<<o, k>>}, r)
           p == <<o, k>>
<1>1. B = A \ {p}
  BY DEF ElementPlaces
<1>2. IsFiniteSet(A) /\ Cardinality(A) \in Nat /\ Cardinality(B) \in Nat
  BY PlacesFinite
<1>3. ob[o].kids \in Seq(RefOrNull)
  BY ValueFields
<1>4. k \in Pos
  BY <1>3 DEF Pos
<1>5. p \in A <=> ob[o].kids[k] = r
  <2>1. p \in os \X Pos /\ p[1] = o /\ p[2] = k
    BY <1>4
  <2> HIDE DEF p
  <2>2. p \in ElementPlaces(ob, os, {}, r)
          <=> p[2] \in DOMAIN ob[p[1]].kids /\ ob[p[1]].kids[p[2]] = r
    BY <2>1 DEF ElementPlaces
  <2> QED BY <2>1, <2>2
<1> HIDE DEF A, B, p
<1>6. Cardinality(A \ {p}) = IF p \in A THEN Cardinality(A) - 1 ELSE Cardinality(A)
  BY <1>2, FS_RemoveElement
<1>7. Cardinality(A) = Cardinality(B) + (IF ob[o].kids[k] = r THEN 1 ELSE 0)
  BY <1>1, <1>2, <1>5, <1>6
<1> QED BY <1>7 DEF A, B

\* A reference that is looked for is in no vacant place or empty slot.
LEMMA PlacesEmptySlot ==
  ASSUME NEW ob, NEW os, NEW o, NEW k, ob[o].kids[k] = NULL_REF, NEW r \in Pos
  PROVE  ElementPlaces(ob, os, {}, r) = ElementPlaces(ob, os, {<<o, k>>}, r)
<1>1. r # NULL_REF
  BY DEF Pos, NULL_REF
<1>2. ASSUME NEW p \in ElementPlaces(ob, os, {}, r) PROVE p \in ElementPlaces(ob, os, {<<o, k>>}, r)
  <2>1. p # <<o, k>>
    BY <1>1 DEF ElementPlaces
  <2> QED BY <2>1 DEF ElementPlaces
<1>3. ElementPlaces(ob, os, {<<o, k>>}, r) \subseteq ElementPlaces(ob, os, {}, r)
  BY DEF ElementPlaces
<1> QED BY <1>2, <1>3

\* A vacant place may hold anything.
LEMMA PlacesVacantSame ==
  ASSUME NEW ob, NEW ob2, NEW os, NEW o, NEW k, NEW r,
         \A q \in os : q # o => ob2[q].kids = ob[q].kids,
         DOMAIN ob2[o].kids = DOMAIN ob[o].kids,
         \A j \in DOMAIN ob[o].kids : j # k => ob2[o].kids[j] = ob[o].kids[j]
  PROVE  ElementPlaces(ob2, os, {<<o, k>>}, r) = ElementPlaces(ob, os, {<<o, k>>}, r)
<1>1. ASSUME NEW p \in os \X Pos, p # <<o, k>>
      PROVE  p \in ElementPlaces(ob2, os, {<<o, k>>}, r) <=> p \in ElementPlaces(ob, os, {<<o, k>>}, r)
  <2>1. p = <<p[1], p[2]>> /\ p[1] \in os
    OBVIOUS
  <2>2. CASE p[1] # o
    BY <1>1, <2>1, <2>2 DEF ElementPlaces
  <2>3. CASE p[1] = o
    <3>1. p[2] # k
      BY <1>1, <2>1, <2>3
    <3> QED BY <1>1, <2>1, <2>3, <3>1 DEF ElementPlaces
  <2> QED BY <2>2, <2>3
<1>2. \A p \in ElementPlaces(ob2, os, {<<o, k>>}, r) : p \in os \X Pos /\ p # <<o, k>>
  BY DEF ElementPlaces
<1>3. \A p \in ElementPlaces(ob, os, {<<o, k>>}, r) : p \in os \X Pos /\ p # <<o, k>>
  BY DEF ElementPlaces
<1> QED BY <1>1, <1>2, <1>3

\* The elements behind a vacant place move up: as many places as before.
LEMMA PlacesShift ==
  ASSUME NEW ob, Values(ob), NEW ob2, NEW os \in SUBSET DOMAIN ob, NEW o \in os,
         NEW n \in DOMAIN ob[o].kids, NEW k \in 1 .. n, NEW r \in Pos,
         \A q \in os : q # o => ob2[q].kids = ob[q].kids,
         ob2[o].kids = Shifted(ob[o].kids, k, n)
  PROVE  Cardinality(ElementPlaces(ob2, os, {}, r))
           = Cardinality(ElementPlaces(ob, os, {<<o, k>>}, r))
<1> DEFINE A == ElementPlaces(ob, os, {<<o, k>>}, r)
           B == ElementPlaces(ob2, os, {}, r)
           old == ob[o].kids
           new == ob2[o].kids
           Moves(p) == p[1] = o /\ p[2] > k /\ p[2] <= n
           g == [p \in A |-> IF Moves(p) THEN <<o, p[2] - 1>> ELSE p]
<1>1. old \in Seq(RefOrNull) /\ DOMAIN old = 1 .. Len(old) /\ n \in 1 .. Len(old) /\ k \in Pos /\ r # NULL_REF
  BY ValueFields DEF Pos, NULL_REF
<1>2. /\ DOMAIN new = DOMAIN old
      /\ \A j \in DOMAIN old : new[j] = IF j >= k /\ j < n THEN old[j + 1]
                                        ELSE IF j = n THEN NULL_REF ELSE old[j]
  BY DEF Shifted
<1>a. \A p \in A : p = <<p[1], p[2]>> /\ p[1] \in os /\ p[2] \in Pos /\ p # <<o, k>>
                   /\ p[2] \in DOMAIN ob[p[1]].kids /\ ob[p[1]].kids[p[2]] = r
  BY DEF ElementPlaces
<1>b. \A q, j : <<q, j>> \in B <=> q \in os /\ j \in Pos /\ j \in DOMAIN ob2[q].kids /\ ob2[q].kids[j] = r
  BY DEF ElementPlaces
<1>c. \A q, j : <<q, j>> \in A <=> q \in os /\ j \in Pos /\ j \in DOMAIN ob[q].kids /\ ob[q].kids[j] = r
                                   /\ <<q, j>> # <<o, k>>
  BY DEF ElementPlaces
<1>d. \A p \in B : p = <<p[1], p[2]>> /\ p[1] \in os /\ p[2] \in Pos
  BY DEF ElementPlaces
<1>3. ASSUME NEW p \in A PROVE g[p] \in B
  <2>1. CASE Moves(p)
    <3>1. p[2] \in DOMAIN old /\ old[p[2]] = r /\ p[2] \in Nat
      BY <1>1, <1>a, <2>1 DEF Pos
    <3>2. p[2] - 1 \in DOMAIN old /\ p[2] - 1 >= k /\ p[2] - 1 < n /\ p[2] - 1 \in Pos /\ (p[2] - 1) + 1 = p[2]
      BY <1>1, <2>1, <3>1 DEF Pos
    <3>3. new[p[2] - 1] = r
      BY <1>2, <3>1, <3>2
    <3>4. <<o, p[2] - 1>> \in B
      BY <1>2, <1>b, <3>2, <3>3
    <3> QED BY <2>1, <3>4
  <2>2. CASE ~Moves(p)
    <3>1. g[p] = p
      BY <2>2
    <3>2. CASE p[1] = o
      <4>1. p[2] \in DOMAIN old /\ old[p[2]] = r /\ p[2] # k /\ p[2] \in Nat
        BY <1>1, <1>a, <3>2 DEF Pos
      <4>2. p[2] < k \/ p[2] > n
        BY <1>1, <2>2, <3>2, <4>1
      <4>3. new[p[2]] = r
        BY <1>1, <1>2, <4>1, <4>2
      <4>4. <<p[1], p[2]>> \in B
        BY <1>2, <1>a, <1>b, <3>2, <4>1, <4>3
      <4>5. p = <<p[1], p[2]>>
        BY <1>a
      <4> HIDE DEF B, A, g
      <4> QED BY <3>1, <4>4, <4>5
    <3>3. CASE p[1] # o
      <4>1. ob2[p[1]].kids = ob[p[1]].kids
        BY <1>a, <3>3
      <4>2. <<p[1], p[2]>> \in B
        BY <1>a, <1>b, <4>1
      <4>3. p = <<p[1], p[2]>>
        BY <1>a
      <4> HIDE DEF B, A, g
      <4> QED BY <3>1, <4>2, <4>3
    <3> QED BY <3>2, <3>3
  <2> QED BY <2>1, <2>2
<1>4. \A x, y \in A : g[x] = g[y] => x = y
  <2> SUFFICES ASSUME NEW x \in A, NEW y \in A, g[x] = g[y] PROVE x = y
    OBVIOUS
  <2>1. x[2] \in Nat /\ y[2] \in Nat /\ x = <<x[1], x[2]>> /\ y = <<y[1], y[2]>> /\ x # <<o, k>> /\ y # <<o, k>>
    BY <1>a DEF Pos
  <2>2. CASE Moves(x) /\ Moves(y)
    <3>1. <<o, x[2] - 1>> = <<o, y[2] - 1>>
      BY <2>2
    <3>2. x[2] - 1 = y[2] - 1
      BY <3>1
    <3> QED BY <2>1, <2>2, <3>2
  <2>3. CASE Moves(x) /\ ~Moves(y)
    <3>1. y = <<o, x[2] - 1>>
      BY <2>3
    <3>2. y[1] = o /\ y[2] = x[2] - 1
      BY <3>1
    <3>3. y[2] # k
      BY <2>1, <3>2
    <3> QED BY <1>1, <2>1, <2>3, <3>2, <3>3
  <2>4. CASE ~Moves(x) /\ Moves(y)
    <3>1. x = <<o, y[2] - 1>>
      BY <2>4
    <3>2. x[1] = o /\ x[2] = y[2] - 1
      BY <3>1
    <3>3. x[2] # k
      BY <2>1, <3>2
    <3> QED BY <1>1, <2>1, <2>4, <3>2, <3>3
  <2>5. CASE ~Moves(x) /\ ~Moves(y)
    BY <2>5
  <2> QED BY <2>2, <2>3, <2>4, <2>5
<1>5. ASSUME NEW z \in B PROVE \E x \in A : g[x] = z
  <2>1. z = <<z[1], z[2]>> /\ z[1] \in os /\ z[2] \in Pos /\ z[2] \in DOMAIN ob2[z[1]].kids /\ ob2[z[1]].kids[z[2]] = r
    BY <1>b, <1>d
  <2>2. CASE z[1] = o /\ z[2] >= k /\ z[2] < n
    <3>1. z[2] \in DOMAIN old /\ z[2] \in Nat /\ new[z[2]] = r
      BY <1>2, <2>1, <2>2 DEF Pos
    <3>2. old[z[2] + 1] = r
      BY <1>2, <2>2, <3>1
    <3>3. z[2] + 1 \in DOMAIN old /\ z[2] + 1 \in Pos /\ z[2] + 1 # k /\ z[2] + 1 > k /\ z[2] + 1 <= n /\ (z[2] + 1) - 1 = z[2]
      BY <1>1, <2>2, <3>1 DEF Pos
    <3>4. <<o, z[2] + 1>> \in A
      <4>1. <<o, z[2] + 1>> # <<o, k>>
        BY <3>3
      <4> QED BY <1>c, <3>2, <3>3, <4>1
    <3> DEFINE x == <<o, z[2] + 1>>
    <3>5. x[1] = o /\ x[2] = z[2] + 1
      OBVIOUS
    <3>6. Moves(x)
      BY <3>3, <3>5
    <3>7. g[x] = <<o, z[2]>>
      BY <3>3, <3>4, <3>5, <3>6
    <3> QED BY <2>1, <2>2, <3>4, <3>7
  <2>3. CASE z[1] = o /\ ~(z[2] >= k /\ z[2] < n)
    <3>1. z[2] \in DOMAIN old /\ z[2] \in Nat /\ new[z[2]] = r
      BY <1>2, <2>1, <2>3 DEF Pos
    <3>2. z[2] # n
      BY <1>1, <1>2, <3>1
    <3>3. old[z[2]] = r
      BY <1>2, <2>3, <3>1, <3>2
    <3>4. z[2] # k
      BY <1>1, <2>3, <3>1, <3>2
    <3>5. z \in A
      <4>1. <<o, z[2]>> # <<o, k>>
        BY <3>4
      <4> QED BY <1>c, <2>1, <2>3, <3>1, <3>3, <4>1
    <3>6. ~Moves(z)
      BY <1>1, <2>3, <3>1, <3>2
    <3> QED BY <3>5, <3>6
  <2>4. CASE z[1] # o
    <3>1. ob2[z[1]].kids = ob[z[1]].kids
      BY <2>1, <2>4
    <3>2. z \in A
      <4>1. <<z[1], z[2]>> # <<o, k>>
        BY <2>4
      <4> QED BY <1>c, <2>1, <3>1, <4>1
    <3>3. ~Moves(z)
      BY <2>4
    <3> QED BY <3>2, <3>3
  <2> QED BY <2>2, <2>3, <2>4
<1>6. IsFiniteSet(A)
  BY PlacesFinite
<1>7. g \in [A -> B]
  BY <1>3
<1> HIDE DEF A, B, g
<1>8. Cardinality(B) = Cardinality(A)
  BY <1>4, <1>5, <1>6, <1>7, CardSame
<1> QED BY <1>8 DEF A, B

-----------------------------------------------------------------------------
(* The globals. *)

GlobalType == [name : Names \cup {"None", "True", "False"}, ref : Pos]

\* There are finitely many.
LEMMA GlobalsFinite ==
  ASSUME NEW gl \in Seq(GlobalType), NEW gv, NEW r
  PROVE  /\ IsFiniteSet(GlobalPlaces(gl, gv, r))
         /\ Cardinality(GlobalPlaces(gl, gv, r)) \in Nat
<1>1. IsFiniteSet(1 .. Len(gl))
  BY FS_Interval
<1>2. GlobalPlaces(gl, gv, r) \in SUBSET (1 .. Len(gl))
  BY DEF GlobalPlaces
<1>3. IsFiniteSet(GlobalPlaces(gl, gv, r))
  BY <1>1, <1>2, FS_Subset
<1> QED BY <1>3, FS_CardinalityType

\* A global that refers to r counts.
LEMMA GlobalFound ==
  ASSUME NEW gl \in Seq(GlobalType), NEW gv, NEW i \in DOMAIN gl, i \notin gv
  PROVE  Cardinality(GlobalPlaces(gl, gv, gl[i].ref)) >= 1
<1>1. i \in GlobalPlaces(gl, gv, gl[i].ref)
  BY DEF GlobalPlaces
<1>2. IsFiniteSet(GlobalPlaces(gl, gv, gl[i].ref)) /\ Cardinality(GlobalPlaces(gl, gv, gl[i].ref)) \in Nat
  BY GlobalsFinite
<1>3. Cardinality(GlobalPlaces(gl, gv, gl[i].ref)) # 0
  BY <1>1, <1>2, FS_EmptySet
<1> QED BY <1>2, <1>3

\* A new global at the end.
LEMMA GlobalsAppend ==
  ASSUME NEW gl \in Seq(GlobalType), NEW g \in GlobalType, NEW r
  PROVE  Cardinality(GlobalPlaces(Append(gl, g), {}, r))
           = Cardinality(GlobalPlaces(gl, {}, r)) + (IF g.ref = r THEN 1 ELSE 0)
<1> DEFINE A == GlobalPlaces(gl, {}, r)
           n == Len(gl) + 1
<1>1. IsFiniteSet(A) /\ Cardinality(A) \in Nat
  BY GlobalsFinite
<1>2. n \notin A
  BY DEF GlobalPlaces
<1>3. /\ DOMAIN Append(gl, g) = DOMAIN gl \cup {n}
      /\ \A i \in DOMAIN gl : Append(gl, g)[i] = gl[i]
      /\ Append(gl, g)[n] = g
  OBVIOUS
<1>4. CASE g.ref = r
  <2>1. GlobalPlaces(Append(gl, g), {}, r) = A \cup {n}
    <3> HIDE DEF n
    <3> QED BY <1>3, <1>4 DEF GlobalPlaces
  <2>2. Cardinality(A \cup {n}) = Cardinality(A) + 1
    <3> HIDE DEF A, n
    <3> QED BY <1>1, <1>2, FS_AddElement
  <2> QED BY <1>4, <2>1, <2>2
<1>5. CASE g.ref # r
  <2>1. GlobalPlaces(Append(gl, g), {}, r) = A
    <3> HIDE DEF n
    <3> QED BY <1>3, <1>5 DEF GlobalPlaces
  <2> QED BY <1>1, <1>5, <2>1
<1> QED BY <1>4, <1>5

\* One global less.
LEMMA GlobalsVacate ==
  ASSUME NEW gl \in Seq(GlobalType), NEW i \in DOMAIN gl, NEW r
  PROVE  Cardinality(GlobalPlaces(gl, {}, r))
           = Cardinality(GlobalPlaces(gl, {i}, r)) + (IF gl[i].ref = r THEN 1 ELSE 0)
<1> DEFINE A == GlobalPlaces(gl, {}, r)
           B == GlobalPlaces(gl, {i}, r)
<1>1. IsFiniteSet(A) /\ Cardinality(A) \in Nat /\ Cardinality(B) \in Nat
  BY GlobalsFinite
<1>2. B = A \ {i} /\ (i \in A <=> gl[i].ref = r)
  BY DEF GlobalPlaces
<1> HIDE DEF A, B
<1>3. Cardinality(A \ {i}) = IF i \in A THEN Cardinality(A) - 1 ELSE Cardinality(A)
  BY <1>1, FS_RemoveElement
<1>4. Cardinality(A) = Cardinality(B) + (IF gl[i].ref = r THEN 1 ELSE 0)
  BY <1>1, <1>2, <1>3
<1> QED BY <1>4 DEF A, B

\* The vacant one may hold anything.
LEMMA GlobalsVacantSame ==
  ASSUME NEW gl, NEW gl2, NEW i, NEW r, DOMAIN gl2 = DOMAIN gl,
         \A j \in DOMAIN gl : j # i => gl2[j].ref = gl[j].ref
  PROVE  GlobalPlaces(gl2, {i}, r) = GlobalPlaces(gl, {i}, r)
BY DEF GlobalPlaces

\* What is left when the i-th element is taken out of a sequence.
LEMMA RemovedAt ==
  ASSUME NEW T, NEW s \in Seq(T), NEW i \in DOMAIN s
  PROVE  /\ RemoveAt(s, i) \in Seq(T) /\ Len(RemoveAt(s, i)) = Len(s) - 1
         /\ DOMAIN RemoveAt(s, i) = 1 .. Len(s) - 1
         /\ \A j \in 1 .. Len(s) - 1 : RemoveAt(s, i)[j] = IF j < i THEN s[j] ELSE s[j + 1]
<1> DEFINE a == SubSeq(s, 1, i - 1)
           b == SubSeq(s, i + 1, Len(s))
<1>1. i \in 1 .. Len(s) /\ i - 1 \in Nat /\ Len(s) \in Nat
  OBVIOUS
<1>2. a \in Seq(T) /\ Len(a) = i - 1 /\ \A j \in 1 .. i - 1 : a[j] = s[j]
  BY <1>1
<1>3. b \in Seq(T) /\ Len(b) = Len(s) - i /\ \A j \in 1 .. Len(s) - i : b[j] = s[i + j]
  BY <1>1
<1>4. RemoveAt(s, i) = a \o b
  BY DEF RemoveAt
<1> HIDE DEF a, b
<1>5. a \o b \in Seq(T) /\ Len(a \o b) = Len(s) - 1
  BY <1>1, <1>2, <1>3
<1>6. ASSUME NEW j \in 1 .. Len(s) - 1
      PROVE  (a \o b)[j] = IF j < i THEN s[j] ELSE s[j + 1]
  <2>1. CASE j < i
    <3>1. j \in 1 .. Len(a) /\ j \in 1 .. i - 1
      BY <1>1, <1>2, <2>1
    <3> QED BY <1>2, <1>3, <2>1, <3>1
  <2>2. CASE ~(j < i)
    <3>1. j \in Len(a) + 1 .. Len(a) + Len(b) /\ j - Len(a) \in 1 .. Len(s) - i /\ i + (j - Len(a)) = j + 1
      BY SMTT(40), <1>1, <1>2, <1>3, <2>2
    <3>a. a \in Seq(T) /\ b \in Seq(T) /\ j \in Len(a) + 1 .. Len(a) + Len(b)
      BY <1>2, <1>3, <3>1
    <3>2. (a \o b)[j] = b[j - Len(a)]
      BY <3>a
    <3>3. b[j - Len(a)] = s[i + (j - Len(a))]
      BY <1>3, <3>1
    <3> QED BY <2>2, <3>1, <3>2, <3>3
  <2> QED BY <2>1, <2>2
<1>7. DOMAIN (a \o b) = 1 .. Len(s) - 1
  BY <1>1, <1>5
<1> QED BY <1>4, <1>5, <1>6, <1>7

\* A global is dropped: the others move up.
LEMMA GlobalsDrop ==
  ASSUME NEW gl \in Seq(GlobalType), NEW i \in DOMAIN gl, NEW r
  PROVE  Cardinality(GlobalPlaces(RemoveAt(gl, i), {}, r)) = Cardinality(GlobalPlaces(gl, {i}, r))
<1> DEFINE A == GlobalPlaces(gl, {i}, r)
           gl2 == RemoveAt(gl, i)
           B == GlobalPlaces(gl2, {}, r)
           g == [j \in A |-> IF j < i THEN j ELSE j - 1]
           n == Len(gl)
<1>1. /\ DOMAIN gl2 = 1 .. n - 1 /\ i \in 1 .. n /\ n \in Nat
      /\ \A j \in 1 .. n - 1 : gl2[j] = IF j < i THEN gl[j] ELSE gl[j + 1]
  BY RemovedAt
<1>2. \A j : j \in A <=> j \in 1 .. n /\ gl[j].ref = r /\ j # i
  BY DEF GlobalPlaces
<1> HIDE DEF gl2
<1>3. \A j : j \in B <=> j \in 1 .. n - 1 /\ gl2[j].ref = r
  BY <1>1 DEF GlobalPlaces
<1> HIDE DEF A, B, n
<1>4. ASSUME NEW j \in A PROVE (IF j < i THEN j ELSE j - 1) \in B
  <2>1. j \in 1 .. n /\ gl[j].ref = r /\ j # i
    BY <1>2
  <2>2. CASE j < i
    <3>1. j \in 1 .. n - 1
      BY <1>1, <2>1, <2>2
    <3> QED BY <1>1, <1>3, <2>1, <2>2, <3>1
  <2>3. CASE j > i
    <3>1. j - 1 \in 1 .. n - 1 /\ ~(j - 1 < i) /\ (j - 1) + 1 = j
      BY <1>1, <2>1, <2>3
    <3>2. gl2[j - 1] = gl[j]
      BY <1>1, <3>1
    <3>3. j - 1 \in B
      BY <1>3, <2>1, <3>1, <3>2
    <3> QED BY <1>1, <2>1, <2>3, <3>3
  <2> QED BY <1>1, <2>1, <2>2, <2>3
<1>5. g \in [A -> B]
  BY <1>4
<1>6. \A x, y \in A : g[x] = g[y] => x = y
  BY <1>1, <1>2
<1>7. ASSUME NEW z \in B PROVE \E x \in A : g[x] = z
  <2>1. z \in 1 .. n - 1 /\ gl2[z].ref = r
    BY <1>3
  <2>2. CASE z < i
    <3>1. z \in A
      BY <1>1, <1>2, <2>1, <2>2
    <3> QED BY <2>2, <3>1
  <2>3. CASE ~(z < i)
    <3>1. z + 1 \in 1 .. n /\ z + 1 # i /\ ~(z + 1 < i) /\ (z + 1) - 1 = z
      BY <1>1, <2>1, <2>3
    <3>2. gl[z + 1].ref = r
      BY <1>1, <2>1, <2>3
    <3>3. z + 1 \in A
      BY <1>2, <3>1, <3>2
    <3> QED BY <3>1, <3>3
  <2> QED BY <2>2, <2>3
<1>8. IsFiniteSet(A)
  BY GlobalsFinite DEF A
<1> HIDE DEF g
<1>9. Cardinality(B) = Cardinality(A)
  BY <1>5, <1>6, <1>7, <1>8, CardSame
<1> QED BY <1>9 DEF A, B, gl2

-----------------------------------------------------------------------------
(* The invariant of the references. *)

FrameType == [kind : {"ref"}, ref : Pos]
             \cup [kind : {"list"}, ref : Pos, array : Int, len : Nat, idx : Nat]

\* The references with a value, and the values by reference.
Live(tb) == {r \in DOMAIN tb : tb[r] # NULL}
Objects(hp, tb) == [r \in Live(tb) |-> hp[tb[r]]]

Count(ob, r) == IF r \in DOMAIN ob THEN ob[r].ref_count ELSE 0
Held(st, r) == Occurrences(RefsOf(st), r)

\* The places of the values os, the globals, the stack and the C functions (h)
\* that refer to r, and the counts that are lost.
References(ob, os, gl, gv, st, kv, lk, h, r) ==
  Cardinality(GlobalPlaces(gl, gv, r)) + Held(st, r) + Cardinality(ElementPlaces(ob, os, kv, r))
  + Occurrences(lk, r) + h[r]

Lists(ob)  == {r \in DOMAIN ob : ob[r].type = "list"}
Arrays(ob) == {r \in DOMAIN ob : ob[r].type = "array"}
Framed(st, r) == \E p \in DOMAIN st : st[p].kind = "list" /\ st[p].ref = r

\* A list has an array of its own that is long enough, and elements everywhere once
\* it is built.
ListOK(ob, r) ==
  /\ Len(ob[r].kids) = 1 /\ ob[r].kids[1] \in Arrays(ob)
  /\ ob[r].size <= Len(ob[ob[r].kids[1]].kids)
Filled(ob, r) == \A j \in 1 .. ob[r].size : ob[ob[r].kids[1]].kids[j] # NULL_REF
\* A list under construction is referred to by its frame only.
FrameOK(ob, tb, fr) ==
  /\ fr.ref \in Lists(ob) /\ ob[fr.ref].ref_count = 1
  /\ tb[ob[fr.ref].kids[1]] = fr.array /\ ob[fr.ref].size = fr.len /\ fr.idx < fr.len
  /\ \A j \in DOMAIN ob[ob[fr.ref].kids[1]].kids :
       ob[ob[fr.ref].kids[1]].kids[j] = NULL_REF <=> j > fr.idx
\* Only lists refer to arrays.
Private(ob, gl, st) ==
  \A a \in Arrays(ob) :
    /\ \A i \in DOMAIN gl : gl[i].ref # a
    /\ \A p \in DOMAIN st : st[p].ref # a
    /\ \A o \in Arrays(ob) : \A j \in DOMAIN ob[o].kids : ob[o].kids[j] # a
Fixed(gl) == \A i \in 1 .. 3 : i \in DOMAIN gl /\ gl[i].ref = i /\ gl[i].name = Singletons[i]

Shape(ob, tb, gl, st, X) ==
  /\ \A r \in Lists(ob) \ X : ListOK(ob, r) /\ (Framed(st, r) \/ Filled(ob, r))
  /\ \A r, s \in Lists(ob) \ X : ob[r].kids[1] = ob[s].kids[1] => r = s
  /\ \A p \in DOMAIN st : st[p].kind = "list" => FrameOK(ob, tb, st[p])
  /\ Private(ob, gl, st)
  /\ Fixed(gl)

Typed(ob, gl, gv, st, lk, h) ==
  /\ Values(ob) /\ gl \in Seq(GlobalType) /\ (1 .. 3) \cap gv = {}
  /\ st \in Seq(FrameType) /\ lk \in Seq(Pos) /\ h \in [Pos -> Nat]

\* No call is to be made: every value is referred to as often as it counts.
Settled(ob, tb, gl, gv, st, kv, lk, h) ==
  /\ Typed(ob, gl, gv, st, lk, h)
  /\ \A r \in DOMAIN ob : ob[r].ref_count >= 1
  /\ \A r \in Pos : Count(ob, r) = References(ob, DOMAIN ob, gl, gv, st, kv, lk, h, r)
  /\ Shape(ob, tb, gl, st, {})

Plus(h, x) == [r \in Pos |-> h[r] + (IF r = x THEN 1 ELSE 0)]

\* A place of an element.
LEMMA PlaceIs ==
  ASSUME NEW ob, NEW os, NEW kv, NEW r, NEW o, NEW k
  PROVE  <<o, k>> \in ElementPlaces(ob, os, kv, r)
           <=> /\ o \in os /\ k \in Pos /\ k \in DOMAIN ob[o].kids
               /\ ob[o].kids[k] = r /\ <<o, k>> \notin kv
BY DEF ElementPlaces

\* The frames of a stack.
LEMMA Frames ==
  ASSUME NEW st \in Seq(FrameType)
  PROVE  /\ RefsOf(st) \in Seq(Pos) /\ DOMAIN RefsOf(st) = DOMAIN st /\ Len(RefsOf(st)) = Len(st)
         /\ \A p \in DOMAIN st : /\ st[p] \in FrameType /\ st[p].ref \in Pos /\ RefsOf(st)[p] = st[p].ref
                                 /\ st[p].kind \in {"ref", "list"}
<1>1. \A p \in DOMAIN st : st[p] \in FrameType
  OBVIOUS
<1>2. \A fr \in FrameType : fr.ref \in Pos /\ fr.kind \in {"ref", "list"}
  BY DEF FrameType
<1>3. DOMAIN RefsOf(st) = DOMAIN st /\ \A p \in DOMAIN st : RefsOf(st)[p] = st[p].ref
  BY DEF RefsOf
<1>4. DOMAIN st = 1 .. Len(st) /\ Len(st) \in Nat
  OBVIOUS
<1>5. RefsOf(st) \in [1 .. Len(st) -> Pos]
  BY <1>1, <1>2, <1>3, <1>4 DEF RefsOf
<1>6. RefsOf(st) \in Seq(Pos) /\ Len(RefsOf(st)) = Len(st)
  BY <1>4, <1>5
<1> QED BY <1>1, <1>2, <1>3, <1>6

\* Every term of the account is a natural number.
LEMMA Terms ==
  ASSUME NEW ob, NEW gl, NEW gv, NEW st, NEW kv, NEW lk, NEW h, Typed(ob, gl, gv, st, lk, h),
         NEW os \in SUBSET DOMAIN ob, NEW r \in Pos
  PROVE  /\ Cardinality(GlobalPlaces(gl, gv, r)) \in Nat /\ Held(st, r) \in Nat
         /\ Cardinality(ElementPlaces(ob, os, kv, r)) \in Nat
         /\ Occurrences(lk, r) \in Nat /\ h[r] \in Nat /\ Count(ob, r) \in Nat
<1>1. Cardinality(GlobalPlaces(gl, gv, r)) \in Nat
  BY GlobalsFinite DEF Typed
<1>2. Held(st, r) \in Nat
  BY Frames, OccType DEF Held, Typed
<1>3. Cardinality(ElementPlaces(ob, os, kv, r)) \in Nat
  BY PlacesFinite DEF Typed
<1>4. Occurrences(lk, r) \in Nat
  BY OccType DEF Typed
<1>5. h[r] \in Nat
  BY DEF Typed
<1>6. Count(ob, r) \in Nat
  BY ValueFields DEF Typed, Count
<1> QED BY <1>1, <1>2, <1>3, <1>4, <1>5, <1>6

\* A list under construction has no other reference.
LEMMA FramedCount ==
  ASSUME NEW ob, NEW tb, NEW gl, NEW gv, NEW st, NEW kv, NEW lk, NEW h,
         Settled(ob, tb, gl, gv, st, kv, lk, h), NEW r, Framed(st, r)
  PROVE  /\ r \in Pos /\ Count(ob, r) = 1 /\ Held(st, r) = 1
         /\ Cardinality(GlobalPlaces(gl, gv, r)) = 0
         /\ Cardinality(ElementPlaces(ob, DOMAIN ob, kv, r)) = 0
         /\ Occurrences(lk, r) = 0 /\ h[r] = 0
<1>1. PICK p \in DOMAIN st : st[p].kind = "list" /\ st[p].ref = r
  BY DEF Framed
<1>2. FrameOK(ob, tb, st[p])
  BY <1>1 DEF Settled, Shape
<1>3. Count(ob, r) = 1
  BY <1>1, <1>2 DEF FrameOK, Count, Lists
<1>4. st \in Seq(FrameType) /\ Typed(ob, gl, gv, st, lk, h)
  BY DEF Settled, Typed
<1>5. r \in Pos /\ RefsOf(st) \in Seq(Pos) /\ p \in DOMAIN RefsOf(st) /\ RefsOf(st)[p] = r
  BY <1>1, <1>4, Frames
<1>6. Held(st, r) >= 1
  BY <1>5, OccFound DEF Held
<1>7. Count(ob, r) = References(ob, DOMAIN ob, gl, gv, st, kv, lk, h, r)
  BY <1>5 DEF Settled
<1>8. /\ Cardinality(GlobalPlaces(gl, gv, r)) \in Nat /\ Held(st, r) \in Nat
      /\ Cardinality(ElementPlaces(ob, DOMAIN ob, kv, r)) \in Nat
      /\ Occurrences(lk, r) \in Nat /\ h[r] \in Nat
  BY <1>4, <1>5, Terms
<1> QED BY <1>3, <1>5, <1>6, <1>7, <1>8 DEF References

\* What is referred to has a value, and but for the frame's reference it is not
\* under construction.
LEMMA GlobalLive ==
  ASSUME NEW ob, NEW tb, NEW gl, NEW gv, NEW st, NEW kv, NEW lk, NEW h,
         Settled(ob, tb, gl, gv, st, kv, lk, h), NEW i \in DOMAIN gl, i \notin gv
  PROVE  gl[i].ref \in DOMAIN ob \ Arrays(ob) /\ ~Framed(st, gl[i].ref)
<1> DEFINE r == gl[i].ref
<1>1. Typed(ob, gl, gv, st, lk, h) /\ gl \in Seq(GlobalType)
  BY DEF Settled, Typed
<1>2. r \in Pos
  <2>1. gl[i] \in GlobalType
    BY <1>1
  <2> QED BY <2>1 DEF GlobalType
<1>3. Cardinality(GlobalPlaces(gl, gv, r)) >= 1
  BY <1>1, GlobalFound
<1> HIDE DEF r
<1>4. Count(ob, r) = References(ob, DOMAIN ob, gl, gv, st, kv, lk, h, r)
  BY <1>2 DEF Settled
<1>5. /\ Cardinality(GlobalPlaces(gl, gv, r)) \in Nat /\ Held(st, r) \in Nat
      /\ Cardinality(ElementPlaces(ob, DOMAIN ob, kv, r)) \in Nat
      /\ Occurrences(lk, r) \in Nat /\ h[r] \in Nat
  BY <1>1, <1>2, Terms
<1>6. Count(ob, r) # 0
  BY <1>3, <1>4, <1>5 DEF References
<1>7. r \in DOMAIN ob
  BY <1>6 DEF Count
<1>8. ~Framed(st, r)
  <2> SUFFICES ASSUME Framed(st, r) PROVE FALSE
    OBVIOUS
  <2>1. Cardinality(GlobalPlaces(gl, gv, r)) = 0
    BY FramedCount
  <2> QED BY <1>3, <2>1
<1>9. r \notin Arrays(ob)
  BY DEF Settled, Shape, Private, r
<1> QED BY <1>7, <1>8, <1>9 DEF r

\* An element of a value.
LEMMA ElementLive ==
  ASSUME NEW ob, NEW tb, NEW gl, NEW gv, NEW st, NEW kv, NEW lk, NEW h,
         Settled(ob, tb, gl, gv, st, kv, lk, h), NEW o \in DOMAIN ob,
         NEW k \in DOMAIN ob[o].kids, ob[o].kids[k] # NULL_REF, <<o, k>> \notin kv
  PROVE  ob[o].kids[k] \in DOMAIN ob /\ ~Framed(st, ob[o].kids[k])
<1> DEFINE r == ob[o].kids[k]
           p == <<o, k>>
<1>1. Typed(ob, gl, gv, st, lk, h) /\ Values(ob)
  BY DEF Settled, Typed
<1>2. ob[o].kids \in Seq(RefOrNull)
  BY <1>1, ValueFields
<1>3. r \in Pos /\ k \in Pos
  BY <1>2 DEF RefOrNull, Pos
<1>5. p \in ElementPlaces(ob, DOMAIN ob, kv, r)
  BY <1>3, PlaceIs
<1>6. IsFiniteSet(ElementPlaces(ob, DOMAIN ob, kv, r)) /\ Cardinality(ElementPlaces(ob, DOMAIN ob, kv, r)) \in Nat
  BY <1>1, PlacesFinite
<1> HIDE DEF r, p
<1>7. Cardinality(ElementPlaces(ob, DOMAIN ob, kv, r)) # 0
  BY <1>5, <1>6, FS_EmptySet
<1>8. Count(ob, r) = References(ob, DOMAIN ob, gl, gv, st, kv, lk, h, r)
  BY <1>3 DEF Settled
<1>9. /\ Cardinality(GlobalPlaces(gl, gv, r)) \in Nat /\ Held(st, r) \in Nat
      /\ Cardinality(ElementPlaces(ob, DOMAIN ob, kv, r)) \in Nat
      /\ Occurrences(lk, r) \in Nat /\ h[r] \in Nat
  BY <1>1, <1>3, Terms
<1>10. Count(ob, r) # 0
  BY <1>7, <1>8, <1>9 DEF References
<1>11. r \in DOMAIN ob
  BY <1>10 DEF Count
<1>12. ~Framed(st, r)
  BY <1>7, FramedCount
<1> QED BY <1>11, <1>12 DEF r

\* A frame's reference.
LEMMA StackLive ==
  ASSUME NEW ob, NEW tb, NEW gl, NEW gv, NEW st, NEW kv, NEW lk, NEW h,
         Settled(ob, tb, gl, gv, st, kv, lk, h), NEW p \in DOMAIN st
  PROVE  /\ st[p].ref \in DOMAIN ob \ Arrays(ob)
         /\ st[p].kind = "ref" => ~Framed(st, st[p].ref)
<1> DEFINE r == st[p].ref
<1>1. Typed(ob, gl, gv, st, lk, h) /\ st \in Seq(FrameType)
  BY DEF Settled, Typed
<1>2. r \in Pos /\ RefsOf(st) \in Seq(Pos) /\ DOMAIN RefsOf(st) = DOMAIN st /\ \A q \in DOMAIN st : RefsOf(st)[q] = st[q].ref
  BY <1>1, Frames
<1>3. Occurrences(RefsOf(st), RefsOf(st)[p]) >= 1 /\ \A q \in DOMAIN st : q # p /\ RefsOf(st)[q] = RefsOf(st)[p] => Occurrences(RefsOf(st), RefsOf(st)[p]) >= 2
  BY <1>2, OccFound
<1>4. Held(st, r) >= 1 /\ \A q \in DOMAIN st : q # p /\ st[q].ref = r => Held(st, r) >= 2
  BY <1>2, <1>3 DEF Held
<1>5. r \notin Arrays(ob)
  BY DEF Settled, Shape, Private
<1> HIDE DEF r
<1>6. Count(ob, r) = References(ob, DOMAIN ob, gl, gv, st, kv, lk, h, r)
  BY <1>2 DEF Settled
<1>7. /\ Cardinality(GlobalPlaces(gl, gv, r)) \in Nat /\ Held(st, r) \in Nat
      /\ Cardinality(ElementPlaces(ob, DOMAIN ob, kv, r)) \in Nat
      /\ Occurrences(lk, r) \in Nat /\ h[r] \in Nat
  BY <1>1, <1>2, Terms
<1>8. Count(ob, r) # 0
  BY <1>4, <1>6, <1>7 DEF References
<1>9. r \in DOMAIN ob
  BY <1>8 DEF Count
<1>10. ASSUME st[p].kind = "ref", Framed(st, r) PROVE FALSE
  <2>1. PICK q \in DOMAIN st : st[q].kind = "list" /\ st[q].ref = r
    BY <1>10 DEF Framed
  <2>2. q # p
    BY <1>10, <2>1
  <2>3. Held(st, r) >= 2
    BY <1>4, <2>1, <2>2
  <2>4. Held(st, r) = 1
    BY <1>10, FramedCount
  <2> QED BY <2>3, <2>4
<1> QED BY <1>5, <1>9, <1>10 DEF r

-----------------------------------------------------------------------------
(* What an operation does to a settled state. *)

\* Values that differ in their counts only.
Alike(ob, ob2) ==
  /\ DOMAIN ob2 = DOMAIN ob
  /\ \A r \in DOMAIN ob : ob2[r].type = ob[r].type /\ ob2[r].kids = ob[r].kids /\ ob2[r].size = ob[r].size

More(ob, x) == [ob EXCEPT ![x].ref_count = @ + 1]
Adding(ob, n, v) == [r \in DOMAIN ob \cup {n} |-> IF r = n THEN v ELSE ob[r]]

\* One more reference held.
LEMMA PlusType ==
  ASSUME NEW h \in [Pos -> Nat], NEW x
  PROVE  /\ Plus(h, x) \in [Pos -> Nat]
         /\ \A r \in Pos : Plus(h, x)[r] = h[r] + (IF r = x THEN 1 ELSE 0)
BY DEF Plus, Pos

\* Counts do not matter for the shape of the lists, but for those under construction.
LEMMA ShapeAlike ==
  ASSUME NEW ob, NEW ob2, NEW tb, NEW tb2, NEW gl, NEW st, NEW X, NEW Y, Shape(ob, tb, gl, st, X), Alike(ob, ob2),
         X \subseteq Y, \A r : Framed(st, r) => r \notin X /\ ob2[r].ref_count = 1,
         \A r \in DOMAIN ob : tb2[r] = tb[r]
  PROVE  Shape(ob2, tb2, gl, st, Y)
<1>1. Lists(ob2) = Lists(ob) /\ Arrays(ob2) = Arrays(ob)
  BY DEF Alike, Lists, Arrays
<1>2. \A r \in Lists(ob) : r \in DOMAIN ob /\ ob2[r].kids = ob[r].kids /\ ob2[r].size = ob[r].size
  BY DEF Alike, Lists
<1>3. \A a \in Arrays(ob) : a \in DOMAIN ob /\ ob2[a].kids = ob[a].kids
  BY DEF Alike, Arrays
<1>4. \A r \in Lists(ob) \ X : ListOK(ob, r) /\ (Framed(st, r) \/ Filled(ob, r))
  BY DEF Shape
<1>5. ASSUME NEW r \in Lists(ob2) \ Y PROVE ListOK(ob2, r) /\ (Framed(st, r) \/ Filled(ob2, r))
  <2>1. r \in Lists(ob) \ X /\ ListOK(ob, r) /\ (Framed(st, r) \/ Filled(ob, r))
    BY <1>1, <1>4
  <2>2. ob2[r].kids = ob[r].kids /\ ob2[r].size = ob[r].size /\ ob[r].kids[1] \in Arrays(ob)
    BY <1>2, <2>1 DEF ListOK
  <2>3. ob2[ob[r].kids[1]].kids = ob[ob[r].kids[1]].kids
    BY <1>3, <2>2
  <2>4. ListOK(ob2, r)
    BY <1>1, <2>1, <2>2, <2>3 DEF ListOK
  <2>5. Filled(ob, r) => Filled(ob2, r)
    BY <2>2, <2>3 DEF Filled
  <2> QED BY <2>1, <2>4, <2>5
<1>6. \A r, s \in Lists(ob2) \ Y : ob2[r].kids[1] = ob2[s].kids[1] => r = s
  BY <1>1, <1>2 DEF Shape
<1>7. ASSUME NEW p \in DOMAIN st, st[p].kind = "list" PROVE FrameOK(ob2, tb2, st[p])
  <2>1. FrameOK(ob, tb, st[p]) /\ Framed(st, st[p].ref)
    BY <1>7 DEF Shape, Framed
  <2>2. st[p].ref \in Lists(ob) \ X /\ ob2[st[p].ref].ref_count = 1
    BY <2>1 DEF FrameOK
  <2>3. ob[st[p].ref].kids[1] \in Arrays(ob)
    BY <1>4, <2>2 DEF ListOK
  <2>4. ob2[st[p].ref].kids = ob[st[p].ref].kids /\ ob2[st[p].ref].size = ob[st[p].ref].size
        /\ ob2[ob[st[p].ref].kids[1]].kids = ob[ob[st[p].ref].kids[1]].kids
    BY <1>2, <1>3, <2>2, <2>3
  <2>5. tb2[ob[st[p].ref].kids[1]] = tb[ob[st[p].ref].kids[1]]
    BY <1>3, <2>3
  <2> QED BY <1>1, <2>1, <2>2, <2>4, <2>5 DEF FrameOK
<1>8. Private(ob2, gl, st)
  BY <1>1, <1>3 DEF Shape, Private
<1>9. Fixed(gl)
  BY DEF Shape
<1> QED BY <1>5, <1>6, <1>7, <1>8, <1>9 DEF Shape

\* incref.
LEMMA Increfed ==
  ASSUME NEW ob, NEW tb, NEW gl, NEW gv, NEW st, NEW kv, NEW lk, NEW h,
         Settled(ob, tb, gl, gv, st, kv, lk, h), NEW x \in DOMAIN ob, ~Framed(st, x)
  PROVE  Settled(More(ob, x), tb, gl, gv, st, kv, lk, Plus(h, x))
<1> DEFINE ob2 == More(ob, x)
           h2 == Plus(h, x)
<1>1. Typed(ob, gl, gv, st, lk, h) /\ Values(ob) /\ h \in [Pos -> Nat]
  BY DEF Settled, Typed
<1>2. \A r \in DOMAIN ob : ob[r] \in ValueType /\ ob[r].ref_count \in Nat
  BY <1>1, ValueFields
<1>3. DOMAIN ob2 = DOMAIN ob /\ \A r \in DOMAIN ob : r # x => ob2[r] = ob[r]
  BY DEF More
<1>a. ob2[x] = [ob[x] EXCEPT !.ref_count = @ + 1]
  BY DEF More
<1>4. ob2[x] \in ValueType /\ ob2[x].ref_count = ob[x].ref_count + 1
      /\ ob2[x].type = ob[x].type /\ ob2[x].kids = ob[x].kids /\ ob2[x].size = ob[x].size
  BY <1>2, <1>a DEF ValueType
<1>5. Alike(ob, ob2)
  BY <1>3, <1>4 DEF Alike
<1>6. \A r \in DOMAIN ob2 : ob2[r] \in ValueType
  BY <1>2, <1>3, <1>4
<1>7. ob2 = [r \in DOMAIN ob2 |-> ob2[r]]
  BY DEF More
<1> HIDE DEF ob2, h2
<1>8. Values(ob2)
  BY <1>1, <1>3, <1>6, <1>7 DEF Values
<1>9. h2 \in [Pos -> Nat] /\ \A r \in Pos : h2[r] = h[r] + (IF r = x THEN 1 ELSE 0)
  BY <1>1, PlusType DEF h2
<1>10. Typed(ob2, gl, gv, st, lk, h2)
  BY <1>1, <1>8, <1>9 DEF Typed
<1>11. \A r \in DOMAIN ob2 : ob2[r].ref_count >= 1
  <2>1. \A r \in DOMAIN ob : ob[r].ref_count >= 1
    BY DEF Settled
  <2> QED BY <1>2, <1>3, <1>4, <2>1
<1>12. ASSUME NEW r \in Pos
       PROVE  Count(ob2, r) = References(ob2, DOMAIN ob2, gl, gv, st, kv, lk, h2, r)
  <2>1. Count(ob, r) = References(ob, DOMAIN ob, gl, gv, st, kv, lk, h, r)
    BY DEF Settled
  <2>2. ElementPlaces(ob2, DOMAIN ob2, kv, r) = ElementPlaces(ob, DOMAIN ob, kv, r)
    BY <1>3, <1>5, PlacesSame DEF Alike
  <2>3. Count(ob2, r) = Count(ob, r) + (IF r = x THEN 1 ELSE 0)
    BY <1>2, <1>3, <1>4 DEF Count
  <2>4. /\ Cardinality(GlobalPlaces(gl, gv, r)) \in Nat /\ Held(st, r) \in Nat
        /\ Cardinality(ElementPlaces(ob, DOMAIN ob, kv, r)) \in Nat
        /\ Occurrences(lk, r) \in Nat /\ h[r] \in Nat
    BY <1>1, Terms
  <2> QED BY <1>9, <2>1, <2>2, <2>3, <2>4 DEF References
<1>13. Shape(ob2, tb, gl, st, {})
  <2>1. Shape(ob, tb, gl, st, {})
    BY DEF Settled
  <2>2. ASSUME NEW r, Framed(st, r) PROVE r \notin {} /\ ob2[r].ref_count = 1
    <3>1. Count(ob, r) = 1
      BY <2>2, FramedCount
    <3>2. r \in DOMAIN ob /\ ob[r].ref_count = 1
      BY <3>1 DEF Count
    <3> QED BY <1>3, <2>2, <3>2
  <2> QED BY <1>5, <2>1, <2>2, ShapeAlike
<1>14. Settled(ob2, tb, gl, gv, st, kv, lk, h2)
  BY <1>10, <1>11, <1>12, <1>13 DEF Settled
<1> QED BY <1>14 DEF ob2, h2

\* A reference without a value is referred to nowhere.
LEMMA Unused ==
  ASSUME NEW ob, NEW tb, NEW gl, NEW st, NEW lk, NEW h,
         Settled(ob, tb, gl, {}, st, {}, lk, h), NEW n \in Pos, n \notin DOMAIN ob
  PROVE  /\ \A i \in DOMAIN gl : gl[i].ref # n
         /\ \A p \in DOMAIN st : st[p].ref # n
         /\ \A o \in DOMAIN ob : \A j \in DOMAIN ob[o].kids : ob[o].kids[j] # n
<1>1. \A i \in DOMAIN gl : gl[i].ref # n
  BY GlobalLive
<1>2. \A p \in DOMAIN st : st[p].ref # n
  BY StackLive
<1>3. n # NULL_REF
  BY DEF Pos, NULL_REF
<1>4. ASSUME NEW o \in DOMAIN ob, NEW j \in DOMAIN ob[o].kids, ob[o].kids[j] = n PROVE FALSE
  <2> DEFINE none == {}
  <2>1. ob[o].kids[j] # NULL_REF /\ <<o, j>> \notin none /\ Settled(ob, tb, gl, {}, st, none, lk, h)
    BY <1>3, <1>4
  <2> HIDE DEF none
  <2>2. ob[o].kids[j] \in DOMAIN ob
    BY <2>1, ElementLive
  <2> QED BY <1>4, <2>2
<1> QED BY <1>1, <1>2, <1>4

\* A new value.
LEMMA Added ==
  ASSUME NEW ob, Values(ob), NEW n \in Pos, n \notin DOMAIN ob, NEW v \in ValueType
  PROVE  /\ Values(Adding(ob, n, v)) /\ DOMAIN Adding(ob, n, v) = DOMAIN ob \cup {n}
         /\ Adding(ob, n, v)[n] = v /\ \A r \in DOMAIN ob : Adding(ob, n, v)[r] = ob[r]
<1> DEFINE ob2 == Adding(ob, n, v)
<1>1. /\ DOMAIN ob2 = DOMAIN ob \cup {n} /\ ob2[n] = v
      /\ \A r \in DOMAIN ob : ob2[r] = ob[r]
  BY DEF Adding
<1>2. \A r \in DOMAIN ob : ob[r] \in ValueType
  BY ValueFields
<1>3. ob2 \in [DOMAIN ob2 -> ValueType]
  BY <1>1, <1>2 DEF Adding
<1> HIDE DEF ob2
<1>4. IsFiniteSet(DOMAIN ob \cup {n}) /\ DOMAIN ob \cup {n} \subseteq Pos
  BY FS_AddElement DEF Values
<1>5. Values(ob2)
  BY <1>1, <1>3, <1>4 DEF Values
<1> QED BY <1>1, <1>5 DEF ob2

\* What it refers to is referred to once more.
LEMMA AddedPlaces ==
  ASSUME NEW ob, Values(ob), NEW n \in Pos, n \notin DOMAIN ob, NEW v \in ValueType, NEW r,
         NEW ob2, ob2 = Adding(ob, n, v)
  PROVE  Cardinality(ElementPlaces(ob2, DOMAIN ob \cup {n}, {}, r))
           = Cardinality(ElementPlaces(ob, DOMAIN ob, {}, r)) + Occurrences(v.kids, r)
<1>1. /\ Values(ob2) /\ DOMAIN ob2 = DOMAIN ob \cup {n} /\ ob2[n] = v
      /\ \A q \in DOMAIN ob : ob2[q] = ob[q]
  BY Added
<1>2. DOMAIN ob \in SUBSET DOMAIN ob2 /\ n \in DOMAIN ob2
  BY <1>1
<1>3. Cardinality(ElementPlaces(ob2, DOMAIN ob \cup {n}, {}, r))
        = Cardinality(ElementPlaces(ob2, DOMAIN ob, {}, r)) + Occurrences(ob2[n].kids, r)
  BY <1>1, <1>2, PlacesAdd
<1>4. ElementPlaces(ob2, DOMAIN ob, {}, r) = ElementPlaces(ob, DOMAIN ob, {}, r)
  BY <1>1, PlacesSame
<1> QED BY <1>1, <1>3, <1>4

\* The old lists and frames are as they were.
LEMMA ShapeAdded ==
  ASSUME NEW ob, Values(ob), NEW n \in Pos, n \notin DOMAIN ob, NEW v \in ValueType,
         NEW tb, NEW tb2, NEW gl, NEW st, Shape(ob, tb, gl, st, {}), \A r \in DOMAIN ob : tb2[r] = tb[r],
         NEW ob2, ob2 = Adding(ob, n, v)
  PROVE  /\ \A r \in Lists(ob) : /\ r \in Lists(ob2) /\ ListOK(ob2, r) /\ ob2[r].kids = ob[r].kids
                                 /\ Framed(st, r) \/ Filled(ob2, r)
         /\ Lists(ob2) \subseteq Lists(ob) \cup {n} /\ Arrays(ob2) \subseteq Arrays(ob) \cup {n}
         /\ Arrays(ob) \subseteq Arrays(ob2)
         /\ \A p \in DOMAIN st : st[p].kind = "list" => FrameOK(ob2, tb2, st[p])
<1>1. DOMAIN ob2 = DOMAIN ob \cup {n} /\ ob2[n] = v /\ \A r \in DOMAIN ob : ob2[r] = ob[r]
  BY DEF Adding
<1>2. /\ Lists(ob2) \subseteq Lists(ob) \cup {n} /\ Arrays(ob2) \subseteq Arrays(ob) \cup {n}
      /\ Lists(ob) \subseteq Lists(ob2) /\ Arrays(ob) \subseteq Arrays(ob2)
  BY <1>1 DEF Lists, Arrays
<1>3. ASSUME NEW r \in Lists(ob)
      PROVE  /\ r \in Lists(ob2) /\ ListOK(ob2, r) /\ ob2[r].kids = ob[r].kids
             /\ Framed(st, r) \/ Filled(ob2, r)
  <2>1. ListOK(ob, r) /\ (Framed(st, r) \/ Filled(ob, r))
    BY DEF Shape
  <2>2. ob2[r] = ob[r] /\ ob[r].kids[1] \in Arrays(ob)
    BY <1>1, <2>1 DEF Lists, ListOK
  <2>3. ob2[ob[r].kids[1]] = ob[ob[r].kids[1]]
    BY <1>1, <2>2 DEF Arrays
  <2>4. ListOK(ob2, r)
    BY <1>2, <2>1, <2>2, <2>3 DEF ListOK
  <2>5. Filled(ob, r) => Filled(ob2, r)
    BY <2>2, <2>3 DEF Filled
  <2> QED BY <1>2, <2>1, <2>2, <2>4, <2>5
<1>4. ASSUME NEW p \in DOMAIN st, st[p].kind = "list" PROVE FrameOK(ob2, tb2, st[p])
  <2>1. FrameOK(ob, tb, st[p])
    BY <1>4 DEF Shape
  <2>2. st[p].ref \in Lists(ob) /\ st[p].ref \in DOMAIN ob /\ ListOK(ob, st[p].ref)
    BY <2>1 DEF FrameOK, Lists, Shape
  <2>3. ob2[st[p].ref] = ob[st[p].ref] /\ ob[st[p].ref].kids[1] \in DOMAIN ob
    BY <1>1, <2>2 DEF ListOK, Arrays
  <2>4. ob2[ob[st[p].ref].kids[1]] = ob[ob[st[p].ref].kids[1]]
        /\ tb2[ob[st[p].ref].kids[1]] = tb[ob[st[p].ref].kids[1]]
    BY <1>1, <2>3
  <2> QED BY <1>2, <2>1, <2>2, <2>3, <2>4 DEF FrameOK
<1> QED BY <1>2, <1>3, <1>4

\* make_ref of an integer or an array without elements.
LEMMA Made ==
  ASSUME NEW ob, NEW tb, NEW tb2, NEW gl, NEW st, NEW lk, NEW h,
         Settled(ob, tb, gl, {}, st, {}, lk, h), NEW n \in Pos, n \notin DOMAIN ob,
         NEW v \in ValueType, v.ref_count = 1, v.type # "list",
         \A j \in DOMAIN v.kids : v.kids[j] = NULL_REF, \A r \in DOMAIN ob : tb2[r] = tb[r]
  PROVE  Settled(Adding(ob, n, v), tb2, gl, {}, st, {}, lk, Plus(h, n))
<1> DEFINE ob2 == Adding(ob, n, v)
           h2 == Plus(h, n)
<1>1. Typed(ob, gl, {}, st, lk, h) /\ Values(ob) /\ h \in [Pos -> Nat] /\ Shape(ob, tb, gl, st, {})
  BY DEF Settled, Typed
<1>2. /\ Values(ob2) /\ DOMAIN ob2 = DOMAIN ob \cup {n}
      /\ ob2[n] = v /\ \A r \in DOMAIN ob : ob2[r] = ob[r]
  BY <1>1, Added
<1>4. h2 \in [Pos -> Nat] /\ \A r \in Pos : h2[r] = h[r] + (IF r = n THEN 1 ELSE 0)
  BY <1>1, PlusType
<1>5. ob2 = Adding(ob, n, v)
  OBVIOUS
<1> HIDE DEF ob2, h2
<1>6. Typed(ob2, gl, {}, st, lk, h2)
  BY <1>1, <1>2, <1>4 DEF Typed
<1>7. \A r \in DOMAIN ob2 : ob2[r].ref_count >= 1
  BY <1>2 DEF Settled
<1>8. ASSUME NEW r \in Pos
      PROVE  Count(ob2, r) = References(ob2, DOMAIN ob2, gl, {}, st, {}, lk, h2, r)
  <2>1. Count(ob, r) = References(ob, DOMAIN ob, gl, {}, st, {}, lk, h, r)
    BY DEF Settled
  <2>2. v.kids \in Seq(RefOrNull) /\ r # NULL_REF
    BY DEF ValueType, Pos, NULL_REF
  <2>3. Occurrences(v.kids, r) = 0
    BY <2>2, OccZero
  <2>4. Count(ob2, r) = Count(ob, r) + (IF r = n THEN 1 ELSE 0)
    <3>1. Count(ob, r) \in Nat
      BY <1>1, Terms
    <3> QED BY <1>2, <3>1 DEF Count
  <2>5. /\ Cardinality(GlobalPlaces(gl, {}, r)) \in Nat /\ Held(st, r) \in Nat
        /\ Cardinality(ElementPlaces(ob, DOMAIN ob, {}, r)) \in Nat
        /\ Occurrences(lk, r) \in Nat /\ h[r] \in Nat
    BY <1>1, Terms
  <2>6. Cardinality(ElementPlaces(ob2, DOMAIN ob2, {}, r)) = Cardinality(ElementPlaces(ob, DOMAIN ob, {}, r))
    <3>1. Cardinality(ElementPlaces(ob2, DOMAIN ob \cup {n}, {}, r))
            = Cardinality(ElementPlaces(ob, DOMAIN ob, {}, r)) + Occurrences(v.kids, r)
      BY <1>1, <1>5, AddedPlaces
    <3> QED BY <1>2, <2>3, <2>5, <3>1
  <2> QED BY <1>4, <2>1, <2>4, <2>5, <2>6 DEF References
<1>9. Shape(ob2, tb2, gl, st, {})
  <2>1. /\ \A r \in Lists(ob) : /\ r \in Lists(ob2) /\ ListOK(ob2, r) /\ ob2[r].kids = ob[r].kids
                                /\ Framed(st, r) \/ Filled(ob2, r)
        /\ Lists(ob2) \subseteq Lists(ob) \cup {n} /\ Arrays(ob2) \subseteq Arrays(ob) \cup {n}
        /\ \A p \in DOMAIN st : st[p].kind = "list" => FrameOK(ob2, tb2, st[p])
    BY <1>1, <1>5, ShapeAdded
  <2>2. n \notin Lists(ob2)
    BY <1>2 DEF Lists
  <2>3. Lists(ob2) = Lists(ob)
    BY <2>1, <2>2
  <2>4. \A r, s \in Lists(ob2) : ob2[r].kids[1] = ob2[s].kids[1] => r = s
    BY <1>1, <2>1, <2>3 DEF Shape
  <2>5. Private(ob2, gl, st)
    <3> SUFFICES ASSUME NEW a \in Arrays(ob2)
                 PROVE  /\ \A i \in DOMAIN gl : gl[i].ref # a
                        /\ \A p \in DOMAIN st : st[p].ref # a
                        /\ \A o \in Arrays(ob2) : \A j \in DOMAIN ob2[o].kids : ob2[o].kids[j] # a
      BY DEF Private
    <3>1. /\ \A i \in DOMAIN gl : gl[i].ref # n
          /\ \A p \in DOMAIN st : st[p].ref # n
          /\ \A o \in DOMAIN ob : \A j \in DOMAIN ob[o].kids : ob[o].kids[j] # n
      BY Unused
    <3>2. (\A i \in DOMAIN gl : gl[i].ref # a) /\ (\A p \in DOMAIN st : st[p].ref # a)
      BY <1>1, <2>1, <3>1 DEF Shape, Private
    <3>3. ASSUME NEW o \in Arrays(ob2), NEW j \in DOMAIN ob2[o].kids PROVE ob2[o].kids[j] # a
      <4>1. a \in Pos /\ a # NULL_REF
        BY <1>2, ValueFields DEF Arrays, Pos, NULL_REF
      <4>2. CASE o = n
        BY <1>2, <4>1, <4>2
      <4>3. CASE o \in Arrays(ob)
        <5>1. ob2[o] = ob[o] /\ o \in DOMAIN ob
          BY <1>2, <4>3 DEF Arrays
        <5> QED BY <1>1, <2>1, <3>1, <4>3, <5>1 DEF Shape, Private
      <4> QED BY <2>1, <4>2, <4>3
    <3> QED BY <3>2, <3>3
  <2>6. Fixed(gl)
    BY <1>1 DEF Shape
  <2> QED BY <2>1, <2>3, <2>4, <2>5, <2>6 DEF Shape
<1>10. Settled(ob2, tb2, gl, {}, st, {}, lk, h2)
  BY <1>6, <1>7, <1>8, <1>9 DEF Settled
<1> QED BY <1>10 DEF ob2, h2

\* A frame more.
LEMMA HeldAppend ==
  ASSUME NEW st \in Seq(FrameType), NEW fr \in FrameType, NEW r
  PROVE  /\ Append(st, fr) \in Seq(FrameType)
         /\ DOMAIN Append(st, fr) = DOMAIN st \cup {Len(st) + 1}
         /\ \A p \in DOMAIN st : Append(st, fr)[p] = st[p]
         /\ Append(st, fr)[Len(st) + 1] = fr
         /\ Held(Append(st, fr), r) = Held(st, r) + (IF fr.ref = r THEN 1 ELSE 0)
<1> DEFINE s2 == Append(st, fr)
<1>1. /\ s2 \in Seq(FrameType) /\ DOMAIN s2 = DOMAIN st \cup {Len(st) + 1}
      /\ \A p \in DOMAIN st : s2[p] = st[p]
      /\ s2[Len(st) + 1] = fr
  OBVIOUS
<1>2. RefsOf(st) \in Seq(Pos) /\ DOMAIN RefsOf(st) = DOMAIN st /\ Len(RefsOf(st)) = Len(st)
      /\ \A p \in DOMAIN st : RefsOf(st)[p] = st[p].ref
  BY Frames
<1>3. fr.ref \in Pos
  BY DEF FrameType
<1>4. RefsOf(s2) = Append(RefsOf(st), fr.ref)
  <2> DEFINE x == RefsOf(s2)
             y == Append(RefsOf(st), fr.ref)
  <2>1. y \in Seq(Pos) /\ DOMAIN y = DOMAIN st \cup {Len(st) + 1} /\ y[Len(st) + 1] = fr.ref
        /\ \A p \in DOMAIN st : y[p] = st[p].ref
    BY <1>2, <1>3
  <2>2. x \in Seq(Pos) /\ DOMAIN x = DOMAIN s2 /\ Len(x) = Len(s2) /\ \A p \in DOMAIN s2 : x[p] = s2[p].ref
    BY <1>1, Frames
  <2>3. Len(x) = Len(st) + 1 /\ Len(y) = Len(st) + 1
    BY <1>2, <1>3, <2>2
  <2> HIDE DEF x, y, s2
  <2>4. \A i \in 1 .. Len(x) : x[i] = y[i]
    BY <1>1, <2>1, <2>2
  <2>5. x = y
    BY <2>1, <2>2, <2>3, <2>4
  <2> QED BY <2>5 DEF x, y
<1>5. Held(s2, r) = Held(st, r) + (IF fr.ref = r THEN 1 ELSE 0)
  <2> HIDE DEF s2
  <2> QED BY <1>2, <1>3, <1>4, OccAppend DEF Held
<1> QED BY <1>1, <1>5

\* A frame less.
LEMMA HeldFront ==
  ASSUME NEW st \in Seq(FrameType), Len(st) > 0, NEW r
  PROVE  /\ SubSeq(st, 1, Len(st) - 1) \in Seq(FrameType)
         /\ DOMAIN SubSeq(st, 1, Len(st) - 1) = 1 .. Len(st) - 1
         /\ \A p \in 1 .. Len(st) - 1 : SubSeq(st, 1, Len(st) - 1)[p] = st[p]
         /\ Held(st, r) = Held(SubSeq(st, 1, Len(st) - 1), r) + (IF st[Len(st)].ref = r THEN 1 ELSE 0)
<1> DEFINE s2 == SubSeq(st, 1, Len(st) - 1)
           fr == st[Len(st)]
<1>a. Len(st) \in Nat /\ Len(st) - 1 \in Nat /\ Len(st) - 1 \in 0 .. Len(st)
  OBVIOUS
<1>c. s2 \in Seq(FrameType)
  OBVIOUS
<1>d. Len(s2) = Len(st) - 1
  <2> DEFINE n == Len(st) - 1
  <2>1. n \in 0 .. Len(st)
    BY <1>a
  <2> HIDE DEF n
  <2>2. Len(SubSeq(st, 1, n)) = n
    BY <1>a, <2>1
  <2> QED BY <2>2 DEF n
<1>b. s2 \in Seq(FrameType) /\ Len(s2) = Len(st) - 1
  BY <1>c, <1>d
<1>1. /\ s2 \in Seq(FrameType) /\ DOMAIN s2 = 1 .. Len(st) - 1 /\ Len(s2) = Len(st) - 1
      /\ \A p \in 1 .. Len(st) - 1 : s2[p] = st[p]
  BY <1>a, <1>b
<1>2. fr \in FrameType
  OBVIOUS
<1>3. st = Append(s2, fr)
  OBVIOUS
<1> HIDE DEF s2, fr
<1>4. Held(Append(s2, fr), r) = Held(s2, r) + (IF fr.ref = r THEN 1 ELSE 0)
  BY <1>1, <1>2, HeldAppend
<1>5. Held(st, r) = Held(s2, r) + (IF fr.ref = r THEN 1 ELSE 0)
  BY <1>3, <1>4
<1> QED BY <1>1, <1>5 DEF s2, fr

\* The account of a value that a new value and its holder refer to.
LEMMA AccountMade ==
  ASSUME NEW gs \in Nat, NEW ks \in Nat, NEW es \in Nat, NEW os \in Nat, NEW x \in Nat,
         NEW i \in Nat, NEW j \in Nat
  PROVE  (gs + ks + es + os + (x + i)) + j = gs + (ks + j) + (es + i) + os + x
OBVIOUS

\* make_ref of a list of a new array.
LEMMA ListMade ==
  ASSUME NEW ob, NEW tb, NEW tb2, NEW gl, NEW st, NEW lk, NEW h \in [Pos -> Nat], NEW a \in Arrays(ob),
         Settled(ob, tb, gl, {}, st, {}, lk, Plus(h, a)), ob[a].ref_count = 1,
         NEW n \in Pos, n \notin DOMAIN ob, \A r \in DOMAIN ob : tb2[r] = tb[r], tb[a] \in Int,
         NEW v \in ValueType, v.ref_count = 1, v.type = "list", v.kids = <<a>>,
         Len(ob[a].kids) = v.size, \A j \in DOMAIN ob[a].kids : ob[a].kids[j] = NULL_REF,
         NEW fr \in FrameType, fr.ref = n, v.size = 0 => fr.kind = "ref",
         v.size # 0 => fr.kind = "list" /\ fr.array = tb[a] /\ fr.len = v.size /\ fr.idx = 0
  PROVE  Settled(Adding(ob, n, v), tb2, gl, {}, Append(st, fr), {}, lk, h)
<1> DEFINE ob2 == Adding(ob, n, v)
           st2 == Append(st, fr)
           h2 == Plus(h, a)
           m == v.size
<1>0. Values(ob)
  BY DEF Settled, Typed
<1>1. Typed(ob, gl, {}, st, lk, h2) /\ Values(ob) /\ Shape(ob, tb, gl, st, {}) /\ st \in Seq(FrameType)
      /\ gl \in Seq(GlobalType) /\ lk \in Seq(Pos)
  BY DEF Settled, Typed
<1>b. Values(ob2)
  BY <1>0, Added
<1>2. /\ Values(ob2) /\ DOMAIN ob2 = DOMAIN ob \cup {n}
      /\ ob2[n] = v /\ \A r \in DOMAIN ob : ob2[r] = ob[r]
  BY <1>b DEF Adding
<1>3. h2 \in [Pos -> Nat] /\ \A r \in Pos : h2[r] = h[r] + (IF r = a THEN 1 ELSE 0)
  BY PlusType
<1>4. ob2 = Adding(ob, n, v) /\ m \in Nat /\ a \in DOMAIN ob /\ a \in Pos /\ a # n
  BY <1>1, ValueFields DEF ValueType, Arrays
<1>6. /\ st2 \in Seq(FrameType) /\ DOMAIN st2 = DOMAIN st \cup {Len(st) + 1}
      /\ \A p \in DOMAIN st : st2[p] = st[p]
      /\ st2[Len(st) + 1] = fr
  BY <1>1, HeldAppend
<1> HIDE DEF ob2, h2, m
<1>7. Typed(ob2, gl, {}, st2, lk, h)
  BY <1>1, <1>2, <1>6 DEF Typed
<1>8. \A r \in DOMAIN ob2 : ob2[r].ref_count >= 1
  BY <1>2 DEF Settled
<1>9. ASSUME NEW r \in Pos
      PROVE  Count(ob2, r) = References(ob2, DOMAIN ob2, gl, {}, st2, {}, lk, h, r)
  <2>1. Count(ob, r) = References(ob, DOMAIN ob, gl, {}, st, {}, lk, h2, r)
    BY DEF Settled, h2
  <2>2. Occurrences(v.kids, r) = IF a = r THEN 1 ELSE 0
    BY OccSingle
  <2>3. Held(st2, r) = Held(st, r) + (IF n = r THEN 1 ELSE 0)
    BY <1>1, HeldAppend
  <2>4. Count(ob2, r) = Count(ob, r) + (IF r = n THEN 1 ELSE 0)
    <3>1. Count(ob, r) \in Nat
      BY <1>1, Terms
    <3> QED BY <1>2, <3>1 DEF Count
  <2>5. /\ Cardinality(GlobalPlaces(gl, {}, r)) \in Nat /\ Held(st, r) \in Nat
        /\ Cardinality(ElementPlaces(ob, DOMAIN ob, {}, r)) \in Nat
        /\ Occurrences(lk, r) \in Nat /\ h[r] \in Nat
    BY <1>1, Terms
  <2>6. Cardinality(ElementPlaces(ob2, DOMAIN ob2, {}, r))
          = Cardinality(ElementPlaces(ob, DOMAIN ob, {}, r)) + (IF a = r THEN 1 ELSE 0)
    <3>1. Cardinality(ElementPlaces(ob2, DOMAIN ob \cup {n}, {}, r))
            = Cardinality(ElementPlaces(ob, DOMAIN ob, {}, r)) + Occurrences(v.kids, r)
      BY <1>0, AddedPlaces DEF ob2
    <3> QED BY <1>2, <2>2, <3>1
  <2> DEFINE gs == Cardinality(GlobalPlaces(gl, {}, r))
             es == Cardinality(ElementPlaces(ob, DOMAIN ob, {}, r))
             es2 == Cardinality(ElementPlaces(ob2, DOMAIN ob2, {}, r))
  <2> HIDE DEF st2
  <2>7. Count(ob, r) = gs + Held(st, r) + es + Occurrences(lk, r) + h2[r]
    BY <2>1 DEF References
  <2>8. References(ob2, DOMAIN ob2, gl, {}, st2, {}, lk, h, r) = gs + Held(st2, r) + es2 + Occurrences(lk, r) + h[r]
    BY DEF References
  <2> DEFINE i == IF a = r THEN 1 ELSE 0
             j == IF n = r THEN 1 ELSE 0
  <2>9. es2 = es + i /\ gs \in Nat /\ es \in Nat
    BY <2>5, <2>6
  <2>10. h2[r] = h[r] + i /\ i \in Nat /\ j \in Nat
    BY <1>3
  <2>11. Held(st2, r) = Held(st, r) + j /\ Count(ob2, r) = Count(ob, r) + j
    BY <2>3, <2>4
  <2> HIDE DEF gs, es, es2, i, j
  <2>12. Count(ob2, r) = (gs + Held(st, r) + es + Occurrences(lk, r) + (h[r] + i)) + j
    BY <2>7, <2>10, <2>11
  <2>13. References(ob2, DOMAIN ob2, gl, {}, st2, {}, lk, h, r) = gs + (Held(st, r) + j) + (es + i) + Occurrences(lk, r) + h[r]
    BY <2>8, <2>9, <2>11
  <2>14. (gs + Held(st, r) + es + Occurrences(lk, r) + (h[r] + i)) + j = gs + (Held(st, r) + j) + (es + i) + Occurrences(lk, r) + h[r]
    BY SMTT(40), <2>5, <2>9, <2>10, AccountMade
  <2> QED BY <2>12, <2>13, <2>14
<1>10. \A s \in Lists(ob) : ob[s].kids[1] # a
  <2> SUFFICES ASSUME NEW s \in Lists(ob), ob[s].kids[1] = a PROVE FALSE
    OBVIOUS
  <2>1. s \in DOMAIN ob /\ Len(ob[s].kids) = 1 /\ ob[s].kids \in Seq(RefOrNull)
    BY <1>1, ValueFields DEF Lists, Shape, ListOK
  <2>2. 1 \in DOMAIN ob[s].kids /\ 1 \in Pos
    BY <2>1 DEF Pos
  <2>3. <<s, 1>> \in ElementPlaces(ob, DOMAIN ob, {}, a)
    BY <2>1, <2>2, PlaceIs
  <2>4. Cardinality(ElementPlaces(ob, DOMAIN ob, {}, a)) # 0
    BY <1>1, <2>3, PlacesFinite, FS_EmptySet
  <2>5. Count(ob, a) = References(ob, DOMAIN ob, gl, {}, st, {}, lk, h2, a)
    BY <1>4 DEF Settled, h2
  <2>6. Count(ob, a) = 1
    BY <1>4 DEF Count
  <2>7. /\ Cardinality(GlobalPlaces(gl, {}, a)) \in Nat /\ Held(st, a) \in Nat
        /\ Cardinality(ElementPlaces(ob, DOMAIN ob, {}, a)) \in Nat
        /\ Occurrences(lk, a) \in Nat /\ h[a] \in Nat /\ h2[a] = h[a] + 1
    BY <1>1, <1>3, <1>4, Terms
  <2> QED BY SMTT(40), <2>4, <2>5, <2>6, <2>7 DEF References
<1>11. /\ \A r \in Lists(ob) : /\ r \in Lists(ob2) /\ ListOK(ob2, r) /\ ob2[r].kids = ob[r].kids
                               /\ Framed(st, r) \/ Filled(ob2, r)
       /\ Lists(ob2) \subseteq Lists(ob) \cup {n} /\ Arrays(ob2) \subseteq Arrays(ob) \cup {n}
       /\ Arrays(ob) \subseteq Arrays(ob2)
       /\ \A p \in DOMAIN st : st[p].kind = "list" => FrameOK(ob2, tb2, st[p])
  BY SMTT(40), <1>1, <1>4, ShapeAdded
<1>12. n \in Lists(ob2) /\ n \notin Arrays(ob2) /\ Arrays(ob2) = Arrays(ob) /\ n \notin Lists(ob)
  <2>1. n \in Lists(ob2) /\ n \notin Arrays(ob2) /\ n \notin Lists(ob)
    BY <1>2 DEF Lists, Arrays
  <2> QED BY <1>11, <2>1
<1>a. v.kids[1] = a /\ Len(v.kids) = 1
  OBVIOUS
<1>13. ob2[n].kids[1] = a /\ Len(ob2[n].kids) = 1 /\ ob2[n].size = m
       /\ ob2[a].kids = ob[a].kids /\ Len(ob2[a].kids) = m
  BY <1>2, <1>4, <1>a DEF m
<1>14. ListOK(ob2, n) /\ (Framed(st2, n) \/ Filled(ob2, n))
  <2>1. ListOK(ob2, n)
    BY <1>4, <1>11, <1>13 DEF ListOK
  <2>2. CASE m = 0
    BY <1>13, <2>1, <2>2 DEF Filled
  <2>3. CASE m # 0
    BY <1>6, <2>1, <2>3 DEF Framed, m
  <2> QED BY <2>2, <2>3
<1>15. \A r \in Lists(ob2) : ListOK(ob2, r) /\ (Framed(st2, r) \/ Filled(ob2, r))
  <2>1. \A r : Framed(st, r) => Framed(st2, r)
    BY <1>6 DEF Framed
  <2> QED BY <1>11, <1>14, <2>1
<1>16. \A r, s \in Lists(ob2) : ob2[r].kids[1] = ob2[s].kids[1] => r = s
  <2> SUFFICES ASSUME NEW r \in Lists(ob2), NEW s \in Lists(ob2), ob2[r].kids[1] = ob2[s].kids[1] PROVE r = s
    OBVIOUS
  <2>a. \A q, t \in Lists(ob) : ob[q].kids[1] = ob[t].kids[1] => q = t
    BY <1>1 DEF Shape
  <2>1. CASE r \in Lists(ob) /\ s \in Lists(ob)
    BY <1>11, <2>1, <2>a
  <2>2. CASE r = n /\ s \in Lists(ob)
    BY <1>10, <1>11, <1>13, <2>2
  <2>3. CASE r \in Lists(ob) /\ s = n
    BY <1>10, <1>11, <1>13, <2>3
  <2> QED BY <1>11, <2>1, <2>2, <2>3
<1>17. ASSUME NEW p \in DOMAIN st2, st2[p].kind = "list" PROVE FrameOK(ob2, tb2, st2[p])
  <2>1. CASE p \in DOMAIN st
    BY <1>6, <1>11, <1>17, <2>1
  <2>2. CASE p = Len(st) + 1
    <3>1. st2[p] = fr /\ m # 0
      BY <1>6, <1>17, <2>2 DEF m
    <3>2. fr.ref = n /\ fr.array = tb[a] /\ fr.len = m /\ fr.idx = 0
      BY <3>1 DEF m
    <3>3. tb2[a] = tb[a] /\ 0 < m /\ ob2[n].ref_count = 1
      BY <1>2, <1>4, <3>1
    <3>4. \A j \in DOMAIN ob2[a].kids : ob2[a].kids[j] = NULL_REF <=> j > 0
      <4>1. ob[a].kids \in Seq(RefOrNull)
        BY <1>1, <1>4, ValueFields
      <4>2. \A j \in DOMAIN ob[a].kids : j > 0
        BY <4>1
      <4> QED BY <1>13, <4>2
    <3> QED BY <1>12, <1>13, <3>1, <3>2, <3>3, <3>4 DEF FrameOK
  <2> QED BY <1>6, <2>1, <2>2
<1>18. Private(ob2, gl, st2)
  <2>1. \A b \in Arrays(ob) : b # n /\ b \in DOMAIN ob
    BY DEF Arrays
  <2>2. \A b \in Arrays(ob) : \A p \in DOMAIN st2 : st2[p].ref # b
    BY <1>1, <1>6, <2>1 DEF Shape, Private
  <2>3. \A b \in Arrays(ob) : ob2[b].kids = ob[b].kids
    BY <1>2 DEF Arrays
  <2>4. Private(ob, gl, st) /\ Arrays(ob2) = Arrays(ob)
    BY <1>1, <1>12 DEF Shape
  <2> HIDE DEF st2
  <2> QED BY <2>2, <2>3, <2>4 DEF Private
<1>19. Shape(ob2, tb2, gl, st2, {})
  BY <1>1, <1>15, <1>16, <1>17, <1>18 DEF Shape
<1>20. Settled(ob2, tb2, gl, {}, st2, {}, lk, h)
  <2> HIDE DEF st2
  <2> QED BY <1>7, <1>8, <1>9, <1>19 DEF Settled
<1> QED BY <1>20 DEF ob2

\* Other globals.
LEMMA ShapeGlobals ==
  ASSUME NEW ob, NEW tb, NEW gl, NEW gl2, NEW st, NEW X, Shape(ob, tb, gl, st, X),
         \A i \in DOMAIN gl2 : gl2[i].ref \notin Arrays(ob), Fixed(gl2)
  PROVE  Shape(ob, tb, gl2, st, X)
<1>1. Private(ob, gl2, st)
  BY DEF Shape, Private
<1> QED BY <1>1 DEF Shape

\* Another stack with the same lists under construction.
LEMMA ShapeStack ==
  ASSUME NEW ob, NEW tb, NEW gl, NEW st, NEW st2, NEW X, Shape(ob, tb, gl, st, X),
         \A p \in DOMAIN st2 : st2[p].ref \notin Arrays(ob),
         \A p \in DOMAIN st : st[p].kind = "list" => \E q \in DOMAIN st2 : st2[q] = st[p],
         \A p \in DOMAIN st2 : st2[p].kind = "list" => \E q \in DOMAIN st : st[q] = st2[p]
  PROVE  Shape(ob, tb, gl, st2, X)
<1>1. \A r : Framed(st, r) => Framed(st2, r)
  BY DEF Framed
<1>2. Private(ob, gl, st2)
  BY DEF Shape, Private
<1>3. \A p \in DOMAIN st2 : st2[p].kind = "list" => FrameOK(ob, tb, st2[p])
  BY DEF Shape
<1> QED BY <1>1, <1>2, <1>3 DEF Shape

\* A reference goes from the C function to the stack.
LEMMA PushedRef ==
  ASSUME NEW ob, NEW tb, NEW gl, NEW gv, NEW st, NEW kv, NEW lk, NEW h \in [Pos -> Nat], NEW x \in Pos,
         Settled(ob, tb, gl, gv, st, kv, lk, Plus(h, x)), x \notin Arrays(ob)
  PROVE  Settled(ob, tb, gl, gv, Append(st, RefFrame(x)), kv, lk, h)
<1> DEFINE fr == RefFrame(x)
           st2 == Append(st, fr)
<1>1. Typed(ob, gl, gv, st, lk, Plus(h, x)) /\ st \in Seq(FrameType)
  BY DEF Settled, Typed
<1>2. fr \in FrameType /\ fr.ref = x /\ fr.kind = "ref"
  BY DEF RefFrame, FrameType
<1> HIDE DEF fr
<1>3. /\ st2 \in Seq(FrameType) /\ DOMAIN st2 = DOMAIN st \cup {Len(st) + 1}
      /\ \A p \in DOMAIN st : st2[p] = st[p]
      /\ st2[Len(st) + 1] = fr
  BY <1>1, <1>2, HeldAppend
<1>4. Typed(ob, gl, gv, st2, lk, h)
  BY <1>1, <1>3 DEF Typed
<1>5. ASSUME NEW r \in Pos
      PROVE  Count(ob, r) = References(ob, DOMAIN ob, gl, gv, st2, kv, lk, h, r)
  <2>1. Count(ob, r) = References(ob, DOMAIN ob, gl, gv, st, kv, lk, Plus(h, x), r)
    BY DEF Settled
  <2>2. Held(st2, r) = Held(st, r) + (IF x = r THEN 1 ELSE 0)
    BY <1>1, <1>2, HeldAppend
  <2>3. Plus(h, x)[r] = h[r] + (IF r = x THEN 1 ELSE 0)
    BY PlusType
  <2>4. /\ Cardinality(GlobalPlaces(gl, gv, r)) \in Nat /\ Held(st, r) \in Nat
        /\ Cardinality(ElementPlaces(ob, DOMAIN ob, kv, r)) \in Nat
        /\ Occurrences(lk, r) \in Nat /\ h[r] \in Nat
    BY <1>1, Terms
  <2> HIDE DEF st2
  <2> QED BY <2>1, <2>2, <2>3, <2>4 DEF References
<1>6. Shape(ob, tb, gl, st2, {})
  <2> HIDE DEF st2
  <2>1. Shape(ob, tb, gl, st, {})
    BY DEF Settled
  <2>2. \A p \in DOMAIN st2 : st2[p].ref \notin Arrays(ob)
    BY <1>2, <1>3, StackLive
  <2>3. \A p \in DOMAIN st : st[p].kind = "list" => \E q \in DOMAIN st2 : st2[q] = st[p]
    BY <1>3
  <2>4. \A p \in DOMAIN st2 : st2[p].kind = "list" => \E q \in DOMAIN st : st[q] = st2[p]
    BY <1>2, <1>3
  <2> QED BY <2>1, <2>2, <2>3, <2>4, ShapeStack
<1>7. \A r \in DOMAIN ob : ob[r].ref_count >= 1
  BY DEF Settled
<1>8. Settled(ob, tb, gl, gv, st2, kv, lk, h)
  <2> HIDE DEF st2
  <2> QED BY <1>4, <1>5, <1>6, <1>7 DEF Settled
<1> QED BY <1>8 DEF fr

\* A reference goes from the stack to the C function.
LEMMA PoppedRef ==
  ASSUME NEW ob, NEW tb, NEW gl, NEW gv, NEW st, NEW kv, NEW lk, NEW h,
         Settled(ob, tb, gl, gv, st, kv, lk, h), Len(st) > 0, st[Len(st)].kind = "ref"
  PROVE  Settled(ob, tb, gl, gv, SubSeq(st, 1, Len(st) - 1), kv, lk, Plus(h, st[Len(st)].ref))
<1> DEFINE x == st[Len(st)].ref
           st2 == SubSeq(st, 1, Len(st) - 1)
           h2 == Plus(h, x)
<1>1. Typed(ob, gl, gv, st, lk, h) /\ st \in Seq(FrameType) /\ h \in [Pos -> Nat]
  BY DEF Settled, Typed
<1>2. /\ st2 \in Seq(FrameType) /\ DOMAIN st2 = 1 .. Len(st) - 1
      /\ \A p \in 1 .. Len(st) - 1 : st2[p] = st[p]
  BY <1>1, HeldFront
<1>a. \A r : Held(st, r) = Held(st2, r) + (IF x = r THEN 1 ELSE 0)
  BY <1>1, HeldFront
<1>3. DOMAIN st = 1 .. Len(st) /\ Len(st) \in Nat
  BY <1>1
<1> HIDE DEF x, st2, h2
<1>4. h2 \in [Pos -> Nat] /\ \A r \in Pos : h2[r] = h[r] + (IF r = x THEN 1 ELSE 0)
  BY <1>1, PlusType DEF h2
<1>5. Typed(ob, gl, gv, st2, lk, h2)
  BY <1>1, <1>2, <1>4 DEF Typed
<1>6. ASSUME NEW r \in Pos
      PROVE  Count(ob, r) = References(ob, DOMAIN ob, gl, gv, st2, kv, lk, h2, r)
  <2>1. Count(ob, r) = References(ob, DOMAIN ob, gl, gv, st, kv, lk, h, r)
    BY DEF Settled
  <2>2. Held(st, r) = Held(st2, r) + (IF x = r THEN 1 ELSE 0)
    BY <1>a
  <2>3. h2[r] = h[r] + (IF r = x THEN 1 ELSE 0)
    BY <1>4
  <2>4. /\ Cardinality(GlobalPlaces(gl, gv, r)) \in Nat /\ Held(st2, r) \in Nat
        /\ Cardinality(ElementPlaces(ob, DOMAIN ob, kv, r)) \in Nat
        /\ Occurrences(lk, r) \in Nat
    BY <1>5, Terms
  <2>5. h[r] \in Nat
    BY <1>1
  <2> QED BY <2>1, <2>2, <2>3, <2>4, <2>5 DEF References
<1>7. Shape(ob, tb, gl, st2, {})
  <2>1. Shape(ob, tb, gl, st, {})
    BY DEF Settled
  <2>2. \A p \in DOMAIN st2 : p \in DOMAIN st /\ st2[p] = st[p]
    BY <1>2, <1>3
  <2>3. \A p \in DOMAIN st : p \in DOMAIN st2 \/ p = Len(st)
    BY <1>2, <1>3
  <2>4. \A p \in DOMAIN st2 : st2[p].ref \notin Arrays(ob)
    BY <2>2, StackLive
  <2>5. \A p \in DOMAIN st : st[p].kind = "list" => \E q \in DOMAIN st2 : st2[q] = st[p]
    BY <2>2, <2>3
  <2>6. \A p \in DOMAIN st2 : st2[p].kind = "list" => \E q \in DOMAIN st : st[q] = st2[p]
    BY <2>2
  <2> QED BY <2>1, <2>4, <2>5, <2>6, ShapeStack
<1>8. \A r \in DOMAIN ob : ob[r].ref_count >= 1
  BY DEF Settled
<1>9. Settled(ob, tb, gl, gv, st2, kv, lk, h2)
  BY <1>5, <1>6, <1>7, <1>8 DEF Settled
<1> QED BY <1>9 DEF x, st2, h2

\* A count is lost.
LEMMA LeakedRef ==
  ASSUME NEW ob, NEW tb, NEW gl, NEW gv, NEW st, NEW kv, NEW lk, NEW h \in [Pos -> Nat], NEW x \in Pos,
         Settled(ob, tb, gl, gv, st, kv, lk, Plus(h, x))
  PROVE  Settled(ob, tb, gl, gv, st, kv, Append(lk, x), h)
<1> DEFINE lk2 == Append(lk, x)
<1>1. Typed(ob, gl, gv, st, lk, Plus(h, x)) /\ lk \in Seq(Pos)
  BY DEF Settled, Typed
<1>2. lk2 \in Seq(Pos)
  BY <1>1
<1>3. Typed(ob, gl, gv, st, lk2, h)
  BY <1>1, <1>2 DEF Typed
<1>4. ASSUME NEW r \in Pos
      PROVE  Count(ob, r) = References(ob, DOMAIN ob, gl, gv, st, kv, lk2, h, r)
  <2>1. Count(ob, r) = References(ob, DOMAIN ob, gl, gv, st, kv, lk, Plus(h, x), r)
    BY DEF Settled
  <2>2. Occurrences(lk2, r) = Occurrences(lk, r) + (IF x = r THEN 1 ELSE 0)
    BY <1>1, OccAppend
  <2>3. Plus(h, x)[r] = h[r] + (IF r = x THEN 1 ELSE 0)
    BY PlusType
  <2>4. /\ Cardinality(GlobalPlaces(gl, gv, r)) \in Nat /\ Held(st, r) \in Nat
        /\ Cardinality(ElementPlaces(ob, DOMAIN ob, kv, r)) \in Nat
        /\ Occurrences(lk, r) \in Nat /\ h[r] \in Nat
    BY <1>1, Terms
  <2> HIDE DEF lk2
  <2> QED BY <2>1, <2>2, <2>3, <2>4 DEF References
<1>5. Shape(ob, tb, gl, st, {}) /\ \A r \in DOMAIN ob : ob[r].ref_count >= 1
  BY DEF Settled
<1> HIDE DEF lk2
<1>6. Settled(ob, tb, gl, gv, st, kv, lk2, h)
  BY <1>3, <1>4, <1>5 DEF Settled
<1> QED BY <1>6 DEF lk2

\* Other globals, with as many references.
LEMMA OtherGlobals ==
  ASSUME NEW ob, NEW tb, NEW gl, NEW gv, NEW st, NEW kv, NEW lk, NEW h,
         Settled(ob, tb, gl, gv, st, kv, lk, h), NEW gl2 \in Seq(GlobalType), NEW gv2,
         (1 .. 3) \cap gv2 = {}, NEW h2 \in [Pos -> Nat],
         \A i \in DOMAIN gl2 : gl2[i].ref \notin Arrays(ob), Fixed(gl2),
         \A r \in Pos : Cardinality(GlobalPlaces(gl, gv, r)) + h[r]
                          = Cardinality(GlobalPlaces(gl2, gv2, r)) + h2[r]
  PROVE  Settled(ob, tb, gl2, gv2, st, kv, lk, h2)
<1>1. Typed(ob, gl, gv, st, lk, h) /\ Shape(ob, tb, gl, st, {}) /\ \A r \in DOMAIN ob : ob[r].ref_count >= 1
  BY DEF Settled
<1>2. Typed(ob, gl2, gv2, st, lk, h2)
  BY <1>1 DEF Typed
<1>3. ASSUME NEW r \in Pos
      PROVE  Count(ob, r) = References(ob, DOMAIN ob, gl2, gv2, st, kv, lk, h2, r)
  <2>1. Count(ob, r) = References(ob, DOMAIN ob, gl, gv, st, kv, lk, h, r)
    BY DEF Settled
  <2>2. /\ Cardinality(GlobalPlaces(gl, gv, r)) \in Nat /\ Held(st, r) \in Nat
        /\ Cardinality(ElementPlaces(ob, DOMAIN ob, kv, r)) \in Nat
        /\ Occurrences(lk, r) \in Nat /\ h[r] \in Nat
    BY <1>1, Terms
  <2>3. Cardinality(GlobalPlaces(gl2, gv2, r)) \in Nat /\ h2[r] \in Nat
    BY <1>2, Terms
  <2>4. Cardinality(GlobalPlaces(gl, gv, r)) + h[r] = Cardinality(GlobalPlaces(gl2, gv2, r)) + h2[r]
    OBVIOUS
  <2> DEFINE G == Cardinality(GlobalPlaces(gl, gv, r))
             G2 == Cardinality(GlobalPlaces(gl2, gv2, r))
             E == Cardinality(ElementPlaces(ob, DOMAIN ob, kv, r))
             H == Held(st, r)
             L == Occurrences(lk, r)
             A == h[r]
             B == h2[r]
  <2>5. References(ob, DOMAIN ob, gl, gv, st, kv, lk, h, r) = G + H + E + L + A
    BY DEF References
  <2>6. References(ob, DOMAIN ob, gl2, gv2, st, kv, lk, h2, r) = G2 + H + E + L + B
    BY DEF References
  <2> HIDE DEF G, G2, E, H, L, A, B
  <2>7. G + H + E + L + A = G2 + H + E + L + B
    <3>1. G \in Nat /\ G2 \in Nat /\ E \in Nat /\ H \in Nat /\ L \in Nat /\ A \in Nat /\ B \in Nat
      BY <2>2, <2>3 DEF G, G2, E, H, L, A, B
    <3>2. G + A = G2 + B
      BY <2>4 DEF G, G2, A, B
    <3> QED BY <3>1, <3>2
  <2> QED BY <2>1, <2>5, <2>6, <2>7
<1>4. Shape(ob, tb, gl2, st, {})
  BY <1>1, ShapeGlobals
<1> QED BY <1>1, <1>2, <1>3, <1>4 DEF Settled

\* A new global.
LEMMA GlobalAdded ==
  ASSUME NEW ob, NEW tb, NEW gl, NEW st, NEW kv, NEW lk, NEW h \in [Pos -> Nat], NEW g \in GlobalType,
         Settled(ob, tb, gl, {}, st, kv, lk, Plus(h, g.ref)), g.ref \notin Arrays(ob)
  PROVE  Settled(ob, tb, Append(gl, g), {}, st, kv, lk, h)
<1> DEFINE gl2 == Append(gl, g)
           h2 == Plus(h, g.ref)
<1>1. gl \in Seq(GlobalType) /\ Fixed(gl) /\ \A i \in DOMAIN gl : gl[i].ref \notin Arrays(ob)
  BY DEF Settled, Typed, Shape, Private
<1>2. gl2 \in Seq(GlobalType) /\ DOMAIN gl2 = DOMAIN gl \cup {Len(gl) + 1}
      /\ gl2[Len(gl) + 1] = g /\ \A i \in DOMAIN gl : gl2[i] = gl[i]
  BY <1>1
<1>3. \A r \in Pos : h2[r] = h[r] + (IF r = g.ref THEN 1 ELSE 0)
  BY PlusType
<1>4. \A r : Cardinality(GlobalPlaces(gl2, {}, r)) = Cardinality(GlobalPlaces(gl, {}, r)) + (IF g.ref = r THEN 1 ELSE 0)
  BY <1>1, GlobalsAppend
<1> HIDE DEF gl2
<1>5. \A i \in DOMAIN gl2 : gl2[i].ref \notin Arrays(ob)
  BY <1>1, <1>2
<1>6. Fixed(gl2)
  BY <1>1, <1>2 DEF Fixed
<1> HIDE DEF h2
<1>7. \A r \in Pos : Cardinality(GlobalPlaces(gl, {}, r)) + h2[r] = Cardinality(GlobalPlaces(gl2, {}, r)) + h[r]
  <2> TAKE r \in Pos
  <2>1. Cardinality(GlobalPlaces(gl, {}, r)) \in Nat /\ h[r] \in Nat
    BY <1>1, GlobalsFinite
  <2>2. h2[r] = h[r] + (IF r = g.ref THEN 1 ELSE 0)
    BY <1>3
  <2>3. Cardinality(GlobalPlaces(gl2, {}, r)) = Cardinality(GlobalPlaces(gl, {}, r)) + (IF g.ref = r THEN 1 ELSE 0)
    BY <1>4
  <2> QED BY <2>1, <2>2, <2>3
<1>8. Settled(ob, tb, gl, {}, st, kv, lk, h2) /\ (1 .. 3) \cap {} = {}
  BY DEF h2
<1>9. Settled(ob, tb, gl2, {}, st, kv, lk, h)
  BY <1>2, <1>5, <1>6, <1>7, <1>8, OtherGlobals
<1> QED BY <1>9 DEF gl2

\* A global gives its reference back.
LEMMA GlobalVacated ==
  ASSUME NEW ob, NEW tb, NEW gl, NEW st, NEW kv, NEW lk, NEW h,
         Settled(ob, tb, gl, {}, st, kv, lk, h), NEW i \in DOMAIN gl, i > 3
  PROVE  Settled(ob, tb, gl, {i}, st, kv, lk, Plus(h, gl[i].ref))
<1> DEFINE x == gl[i].ref
           h2 == Plus(h, x)
           gv == {i}
<1>1. gl \in Seq(GlobalType) /\ Fixed(gl) /\ h \in [Pos -> Nat] /\ \A j \in DOMAIN gl : gl[j].ref \notin Arrays(ob)
  BY DEF Settled, Typed, Shape, Private
<1>2. h2 \in [Pos -> Nat] /\ \A r \in Pos : h2[r] = h[r] + (IF r = x THEN 1 ELSE 0)
  BY <1>1, PlusType
<1>3. \A r : Cardinality(GlobalPlaces(gl, {}, r)) = Cardinality(GlobalPlaces(gl, {i}, r)) + (IF gl[i].ref = r THEN 1 ELSE 0)
  BY <1>1, GlobalsVacate
<1>4. (1 .. 3) \cap gv = {}
  BY <1>1
<1> HIDE DEF h2, x
<1>5. \A r \in Pos : Cardinality(GlobalPlaces(gl, {}, r)) + h[r] = Cardinality(GlobalPlaces(gl, gv, r)) + h2[r]
  <2> TAKE r \in Pos
  <2>1. Cardinality(GlobalPlaces(gl, {i}, r)) \in Nat /\ h[r] \in Nat
    BY <1>1, GlobalsFinite
  <2>2. h2[r] = h[r] + (IF r = x THEN 1 ELSE 0)
    BY <1>2
  <2>3. Cardinality(GlobalPlaces(gl, {}, r)) = Cardinality(GlobalPlaces(gl, {i}, r)) + (IF x = r THEN 1 ELSE 0)
    BY <1>3 DEF x
  <2> QED BY <2>1, <2>2, <2>3
<1> HIDE DEF gv
<1>6. Settled(ob, tb, gl, gv, st, kv, lk, h2)
  BY <1>1, <1>2, <1>4, <1>5, OtherGlobals
<1> QED BY <1>6 DEF gv, h2, x

\* A vacant global gets a reference.
LEMMA GlobalFilled ==
  ASSUME NEW ob, NEW tb, NEW gl, NEW st, NEW kv, NEW lk, NEW h \in [Pos -> Nat], NEW x \in Pos,
         NEW i \in DOMAIN gl, i > 3, Settled(ob, tb, gl, {i}, st, kv, lk, Plus(h, x)), x \notin Arrays(ob)
  PROVE  Settled(ob, tb, [gl EXCEPT ![i].ref = x], {}, st, kv, lk, h)
<1> DEFINE gl2 == [gl EXCEPT ![i].ref = x]
           h2 == Plus(h, x)
<1>1. gl \in Seq(GlobalType) /\ Fixed(gl) /\ \A j \in DOMAIN gl : gl[j].ref \notin Arrays(ob)
  BY DEF Settled, Typed, Shape, Private
<1>2. DOMAIN gl2 = DOMAIN gl /\ \A j \in DOMAIN gl : j # i => gl2[j] = gl[j]
  BY <1>1
<1>a. gl[i] \in GlobalType /\ gl2[i] = [gl[i] EXCEPT !.ref = x]
  BY <1>1
<1>3. gl2[i] \in GlobalType /\ gl2[i].ref = x
  BY <1>a DEF GlobalType
<1>4. gl2 \in Seq(GlobalType)
  <2>a. DOMAIN gl = 1 .. Len(gl)
    BY <1>1
  <2>b. gl2 = [j \in DOMAIN gl |-> gl2[j]]
    OBVIOUS
  <2>1. gl2 = [j \in 1 .. Len(gl) |-> gl2[j]] /\ DOMAIN gl = 1 .. Len(gl)
    BY <2>a, <2>b
  <2> HIDE DEF gl2
  <2>2. \A j \in 1 .. Len(gl) : gl2[j] \in GlobalType
    BY <1>1, <1>2, <1>3, <2>1
  <2>3. gl2 \in [1 .. Len(gl) -> GlobalType]
    BY <2>1, <2>2
  <2> QED BY <1>1, <2>3
<1> HIDE DEF gl2
<1>5. \A r \in Pos : h2[r] = h[r] + (IF r = x THEN 1 ELSE 0)
  BY PlusType
<1>6. \A j \in DOMAIN gl2 : gl2[j].ref \notin Arrays(ob)
  BY <1>1, <1>2, <1>3
<1>7. Fixed(gl2)
  BY <1>1, <1>2 DEF Fixed
<1>8. \A r \in Pos : Cardinality(GlobalPlaces(gl, {i}, r)) + h2[r] = Cardinality(GlobalPlaces(gl2, {}, r)) + h[r]
  <2> HIDE DEF h2
  <2> TAKE r \in Pos
  <2>1. Cardinality(GlobalPlaces(gl, {i}, r)) \in Nat /\ h[r] \in Nat
    BY <1>1, GlobalsFinite
  <2>2. h2[r] = h[r] + (IF r = x THEN 1 ELSE 0)
    BY <1>5
  <2>3. Cardinality(GlobalPlaces(gl2, {}, r)) = Cardinality(GlobalPlaces(gl2, {i}, r)) + (IF x = r THEN 1 ELSE 0)
    <3>1. i \in DOMAIN gl2
      BY <1>2
    <3> QED BY <1>3, <1>4, <3>1, GlobalsVacate
  <2>4. GlobalPlaces(gl2, {i}, r) = GlobalPlaces(gl, {i}, r)
    BY <1>2, GlobalsVacantSame
  <2> QED BY <2>1, <2>2, <2>3, <2>4
<1> HIDE DEF h2
<1> DEFINE gv == {i}
           none == {}
<1>9. /\ Settled(ob, tb, gl, gv, st, kv, lk, h2) /\ (1 .. 3) \cap none = {}
      /\ \A r \in Pos : Cardinality(GlobalPlaces(gl, gv, r)) + h2[r] = Cardinality(GlobalPlaces(gl2, none, r)) + h[r]
  BY <1>8 DEF h2
<1> HIDE DEF gv, none
<1>10. Settled(ob, tb, gl2, none, st, kv, lk, h)
  BY <1>4, <1>6, <1>7, <1>9, OtherGlobals
<1> QED BY <1>10 DEF gl2, none

\* A vacant global is dropped.
LEMMA GlobalDropped ==
  ASSUME NEW ob, NEW tb, NEW gl, NEW st, NEW kv, NEW lk, NEW h,
         NEW i \in DOMAIN gl, i > 3, Settled(ob, tb, gl, {i}, st, kv, lk, h)
  PROVE  Settled(ob, tb, RemoveAt(gl, i), {}, st, kv, lk, h)
<1> DEFINE gl2 == RemoveAt(gl, i)
<1>1. gl \in Seq(GlobalType) /\ Fixed(gl) /\ h \in [Pos -> Nat] /\ \A j \in DOMAIN gl : gl[j].ref \notin Arrays(ob)
  BY DEF Settled, Typed, Shape, Private
<1>2. /\ gl2 \in Seq(GlobalType) /\ DOMAIN gl2 = 1 .. Len(gl) - 1
      /\ \A j \in 1 .. Len(gl) - 1 : gl2[j] = IF j < i THEN gl[j] ELSE gl[j + 1]
  BY <1>1, RemovedAt
<1>3. \A r : Cardinality(GlobalPlaces(gl2, {}, r)) = Cardinality(GlobalPlaces(gl, {i}, r))
  BY <1>1, GlobalsDrop
<1> HIDE DEF gl2
<1>4. DOMAIN gl = 1 .. Len(gl) /\ Len(gl) \in Nat /\ i \in 4 .. Len(gl)
  BY <1>1
<1>5. \A j \in DOMAIN gl2 : gl2[j].ref \notin Arrays(ob)
  <2> TAKE j \in DOMAIN gl2
  <2>1. j \in DOMAIN gl /\ j + 1 \in DOMAIN gl
    BY <1>2, <1>4
  <2> QED BY <1>1, <1>2, <2>1
<1>6. Fixed(gl2)
  <2>1. \A j \in 1 .. 3 : j \in DOMAIN gl2 /\ gl2[j] = gl[j]
    BY <1>2, <1>4
  <2> QED BY <1>1, <2>1 DEF Fixed
<1>7. \A r \in Pos : Cardinality(GlobalPlaces(gl, {i}, r)) + h[r] = Cardinality(GlobalPlaces(gl2, {}, r)) + h[r]
  BY <1>3
<1> DEFINE gv == {i}
           none == {}
<1>8. /\ Settled(ob, tb, gl, gv, st, kv, lk, h) /\ (1 .. 3) \cap none = {}
      /\ \A r \in Pos : Cardinality(GlobalPlaces(gl, gv, r)) + h[r] = Cardinality(GlobalPlaces(gl2, none, r)) + h[r]
  BY <1>7
<1> HIDE DEF gv, none
<1>a. gl2 \in Seq(GlobalType) /\ h \in [Pos -> Nat]
  BY <1>1, <1>2
<1>9. Settled(ob, tb, gl2, none, st, kv, lk, h)
  BY <1>5, <1>6, <1>8, <1>a, OtherGlobals
<1> QED BY <1>9 DEF gl2, none

\* Values with other elements and another stack, with as many references.
Recounted(ob, st, kv, h, ob2, st2, kv2, h2) ==
  /\ Values(ob2) /\ DOMAIN ob2 = DOMAIN ob /\ \A r \in DOMAIN ob : ob2[r].ref_count = ob[r].ref_count
  /\ st2 \in Seq(FrameType) /\ h2 \in [Pos -> Nat]
  /\ \A r \in Pos : Cardinality(ElementPlaces(ob, DOMAIN ob, kv, r)) + Held(st, r) + h[r]
                     = Cardinality(ElementPlaces(ob2, DOMAIN ob, kv2, r)) + Held(st2, r) + h2[r]

\* They are as many as before.
LEMMA OtherElements ==
  ASSUME NEW ob, NEW tb, NEW gl, NEW gv, NEW st, NEW kv, NEW lk, NEW h,
         Settled(ob, tb, gl, gv, st, kv, lk, h), NEW ob2, NEW st2, NEW kv2, NEW h2,
         Recounted(ob, st, kv, h, ob2, st2, kv2, h2), Shape(ob2, tb, gl, st2, {})
  PROVE  Settled(ob2, tb, gl, gv, st2, kv2, lk, h2)
<1>1. Typed(ob, gl, gv, st, lk, h) /\ \A r \in DOMAIN ob : ob[r].ref_count >= 1
  BY DEF Settled
<1>2. Typed(ob2, gl, gv, st2, lk, h2)
  BY <1>1 DEF Typed, Recounted
<1>a. DOMAIN ob2 = DOMAIN ob /\ \A r \in DOMAIN ob : ob2[r].ref_count = ob[r].ref_count
  BY DEF Recounted
<1>3. ASSUME NEW r \in Pos
      PROVE  Count(ob2, r) = References(ob2, DOMAIN ob2, gl, gv, st2, kv2, lk, h2, r)
  <2>1. Count(ob, r) = References(ob, DOMAIN ob, gl, gv, st, kv, lk, h, r)
    BY DEF Settled
  <2>2. Count(ob2, r) = Count(ob, r)
    BY <1>a DEF Count
  <2> DEFINE G == Cardinality(GlobalPlaces(gl, gv, r))
             E == Cardinality(ElementPlaces(ob, DOMAIN ob, kv, r))
             E2 == Cardinality(ElementPlaces(ob2, DOMAIN ob, kv2, r))
             H == Held(st, r)
             H2 == Held(st2, r)
             L == Occurrences(lk, r)
             A == h[r]
             B == h2[r]
  <2>3. G \in Nat /\ H \in Nat /\ E \in Nat /\ L \in Nat /\ A \in Nat
    BY <1>1, Terms
  <2>4. H2 \in Nat /\ E2 \in Nat /\ B \in Nat
    BY <1>2, <1>a, Terms
  <2>5. E + H + A = E2 + H2 + B
    BY DEF Recounted
  <2>6. References(ob, DOMAIN ob, gl, gv, st, kv, lk, h, r) = G + H + E + L + A
    BY DEF References
  <2>7. References(ob2, DOMAIN ob2, gl, gv, st2, kv2, lk, h2, r) = G + H2 + E2 + L + B
    BY <1>a DEF References
  <2> HIDE DEF G, E, E2, H, H2, L, A, B
  <2>8. G + H + E + L + A = G + H2 + E2 + L + B
    BY <2>3, <2>4, <2>5
  <2> QED BY <2>1, <2>2, <2>6, <2>7, <2>8
<1>4. \A r \in DOMAIN ob2 : ob2[r].ref_count >= 1
  BY <1>1, <1>a
<1> QED BY <1>2, <1>3, <1>4 DEF Settled

\* The elements of an array change.
Edited(ob, a, ob2) ==
  /\ DOMAIN ob2 = DOMAIN ob /\ a \in Arrays(ob) /\ Len(ob2[a].kids) = Len(ob[a].kids)
  /\ \A r \in DOMAIN ob : ob2[r].type = ob[r].type /\ ob2[r].size = ob[r].size
                           /\ (r # a => ob2[r].kids = ob[r].kids)
  /\ \A j \in DOMAIN ob2[a].kids : ob2[a].kids[j] \notin Arrays(ob)
EditedFrames(ob, a, st, ob2, st2, tb) ==
  /\ \A p \in DOMAIN st2 : st2[p].ref \notin Arrays(ob)
  /\ \A r \in Lists(ob) : ob[r].kids[1] # a /\ Framed(st, r) => Framed(st2, r)
  /\ \A r \in Lists(ob) : ob[r].kids[1] = a => Framed(st2, r) \/ Filled(ob2, r)
  /\ \A p \in DOMAIN st2 : st2[p].kind = "list" => FrameOK(ob2, tb, st2[p])

\* The shape of the lists when the elements of one array change.
LEMMA ShapeArray ==
  ASSUME NEW ob, NEW tb, NEW gl, NEW st, NEW st2, Shape(ob, tb, gl, st, {}), NEW ob2, NEW a,
         Edited(ob, a, ob2), EditedFrames(ob, a, st, ob2, st2, tb)
  PROVE  Shape(ob2, tb, gl, st2, {})
<1>a. /\ DOMAIN ob2 = DOMAIN ob /\ a \in Arrays(ob) /\ Len(ob2[a].kids) = Len(ob[a].kids)
      /\ \A r \in DOMAIN ob : ob2[r].type = ob[r].type /\ ob2[r].size = ob[r].size
                               /\ (r # a => ob2[r].kids = ob[r].kids)
      /\ \A j \in DOMAIN ob2[a].kids : ob2[a].kids[j] \notin Arrays(ob)
  BY DEF Edited
<1>b. /\ \A p \in DOMAIN st2 : st2[p].ref \notin Arrays(ob)
      /\ \A r \in Lists(ob) : ob[r].kids[1] # a /\ Framed(st, r) => Framed(st2, r)
      /\ \A r \in Lists(ob) : ob[r].kids[1] = a => Framed(st2, r) \/ Filled(ob2, r)
      /\ \A p \in DOMAIN st2 : st2[p].kind = "list" => FrameOK(ob2, tb, st2[p])
  BY DEF EditedFrames
<1>1. Lists(ob2) = Lists(ob) /\ Arrays(ob2) = Arrays(ob) /\ \A r \in Lists(ob) : r # a /\ r \in DOMAIN ob
  BY <1>a DEF Lists, Arrays
<1>2. \A r \in Lists(ob) : ob2[r].kids = ob[r].kids /\ ob2[r].size = ob[r].size
  BY <1>1, <1>a
<1>3. \A b \in Arrays(ob) : Len(ob2[b].kids) = Len(ob[b].kids) /\ (b # a => ob2[b].kids = ob[b].kids)
  BY <1>a DEF Arrays
<1>4. \A r \in Lists(ob) : ListOK(ob, r) /\ (Framed(st, r) \/ Filled(ob, r))
  BY DEF Shape
<1>5. ASSUME NEW r \in Lists(ob2) PROVE ListOK(ob2, r) /\ (Framed(st2, r) \/ Filled(ob2, r))
  <2>1. ListOK(ob, r) /\ (Framed(st, r) \/ Filled(ob, r)) /\ r \in Lists(ob)
    BY <1>1, <1>4
  <2>2. ob2[r].kids = ob[r].kids /\ ob2[r].size = ob[r].size /\ ob[r].kids[1] \in Arrays(ob)
    BY <1>2, <2>1 DEF ListOK
  <2>3. ListOK(ob2, r)
    BY <1>1, <1>3, <2>1, <2>2 DEF ListOK
  <2>4. CASE ob[r].kids[1] = a
    BY <1>b, <2>1, <2>3, <2>4
  <2>5. CASE ob[r].kids[1] # a
    <3>1. ob2[ob[r].kids[1]].kids = ob[ob[r].kids[1]].kids
      BY <1>3, <2>2, <2>5
    <3>2. Filled(ob, r) => Filled(ob2, r)
      BY <2>2, <3>1 DEF Filled
    <3> QED BY <1>b, <2>1, <2>3, <2>5, <3>2
  <2> QED BY <2>4, <2>5
<1>6. \A r, s \in Lists(ob2) : ob2[r].kids[1] = ob2[s].kids[1] => r = s
  <2>1. \A r, s \in Lists(ob) : ob[r].kids[1] = ob[s].kids[1] => r = s
    BY DEF Shape
  <2> QED BY <1>1, <1>2, <2>1
<1>7. Private(ob2, gl, st2)
  <2>1. Private(ob, gl, st)
    BY DEF Shape
  <2>2. \A b, o \in Arrays(ob) : \A j \in DOMAIN ob2[o].kids : ob2[o].kids[j] # b
    <3> SUFFICES ASSUME NEW b \in Arrays(ob), NEW o \in Arrays(ob), NEW j \in DOMAIN ob2[o].kids
                 PROVE  ob2[o].kids[j] # b
      OBVIOUS
    <3>1. CASE o = a
      BY <1>a, <3>1
    <3>2. CASE o # a
      BY <1>3, <2>1, <3>2 DEF Private
    <3> QED BY <3>1, <3>2
  <2> QED BY <1>1, <1>b, <2>1, <2>2 DEF Private
<1>8. Fixed(gl)
  BY DEF Shape
<1> QED BY <1>b, <1>5, <1>6, <1>7, <1>8 DEF Shape

\* An element's reference goes to the C function.
LEMMA ElementVacated ==
  ASSUME NEW ob, NEW tb, NEW gl, NEW gv, NEW st, NEW lk, NEW h,
         Settled(ob, tb, gl, gv, st, {}, lk, h), NEW o \in DOMAIN ob, NEW k \in DOMAIN ob[o].kids
  PROVE  Settled(ob, tb, gl, gv, st, {<<o, k>>}, lk, Plus(h, ob[o].kids[k]))
<1> DEFINE x == ob[o].kids[k]
           h2 == Plus(h, x)
           kv == {}
           kv2 == {<<o, k>>}
<1>1. Typed(ob, gl, gv, st, lk, h) /\ Values(ob) /\ h \in [Pos -> Nat] /\ Shape(ob, tb, gl, st, {}) /\ st \in Seq(FrameType)
  BY DEF Settled, Typed
<1>2. \A r : Cardinality(ElementPlaces(ob, DOMAIN ob, {}, r))
               = Cardinality(ElementPlaces(ob, DOMAIN ob, {<<o, k>>}, r)) + (IF ob[o].kids[k] = r THEN 1 ELSE 0)
  BY <1>1, PlacesVacate
<1> HIDE DEF h2, x
<1>3. h2 \in [Pos -> Nat] /\ \A r \in Pos : h2[r] = h[r] + (IF r = x THEN 1 ELSE 0)
  BY <1>1, PlusType DEF h2
<1>4. Settled(ob, tb, gl, gv, st, kv, lk, h) /\ \A r : Cardinality(ElementPlaces(ob, DOMAIN ob, kv, r))
               = Cardinality(ElementPlaces(ob, DOMAIN ob, kv2, r)) + (IF x = r THEN 1 ELSE 0)
  BY <1>2 DEF x
<1> HIDE DEF kv, kv2
<1>5. ASSUME NEW r \in Pos
      PROVE  Cardinality(ElementPlaces(ob, DOMAIN ob, kv, r)) + Held(st, r) + h[r]
               = Cardinality(ElementPlaces(ob, DOMAIN ob, kv2, r)) + Held(st, r) + h2[r]
  <2> DEFINE E == Cardinality(ElementPlaces(ob, DOMAIN ob, kv, r))
             E2 == Cardinality(ElementPlaces(ob, DOMAIN ob, kv2, r))
             H == Held(st, r)
             A == h[r]
             B == h2[r]
  <2>1. E2 \in Nat /\ H \in Nat /\ A \in Nat
    BY <1>1, Terms
  <2>2. E = E2 + (IF x = r THEN 1 ELSE 0) /\ B = A + (IF r = x THEN 1 ELSE 0)
    BY <1>3, <1>4
  <2> HIDE DEF E, E2, H, A, B
  <2>3. E + H + A = E2 + H + B
    BY <2>1, <2>2
  <2> QED BY <2>3 DEF E, E2, H, A, B
<1>a. Recounted(ob, st, kv, h, ob, st, kv2, h2)
  BY <1>1, <1>3, <1>5 DEF Recounted
<1>6. Settled(ob, tb, gl, gv, st, kv2, lk, h2)
  BY <1>1, <1>4, <1>a, OtherElements
<1> QED BY <1>6 DEF kv2, h2, x

Put(ob, a, kids) == [ob EXCEPT ![a].kids = kids]

\* A value with other elements.
LEMMA PutType ==
  ASSUME NEW ob, Values(ob), NEW a \in DOMAIN ob, NEW kids \in Seq(RefOrNull)
  PROVE  /\ Values(Put(ob, a, kids)) /\ DOMAIN Put(ob, a, kids) = DOMAIN ob
         /\ Put(ob, a, kids)[a].kids = kids
         /\ \A r \in DOMAIN ob : /\ Put(ob, a, kids)[r].type = ob[r].type
                                 /\ Put(ob, a, kids)[r].size = ob[r].size
                                 /\ Put(ob, a, kids)[r].ref_count = ob[r].ref_count
                                 /\ r # a => Put(ob, a, kids)[r].kids = ob[r].kids
<1> DEFINE ob2 == Put(ob, a, kids)
<1>1. DOMAIN ob2 = DOMAIN ob /\ \A r \in DOMAIN ob : r # a => ob2[r] = ob[r]
  BY DEF Put
<1>2. ob2[a] = [ob[a] EXCEPT !.kids = kids] /\ ob[a] \in ValueType
  BY ValueFields DEF Put
<1>3. /\ ob2[a] \in ValueType /\ ob2[a].kids = kids /\ ob2[a].type = ob[a].type
      /\ ob2[a].size = ob[a].size /\ ob2[a].ref_count = ob[a].ref_count
  BY <1>2 DEF ValueType
<1>4. ob2 = [r \in DOMAIN ob |-> ob2[r]]
  BY DEF Put
<1> HIDE DEF ob2
<1>5. \A r \in DOMAIN ob : ob2[r] \in ValueType
  BY <1>1, <1>3, ValueFields
<1>6. Values(ob2)
  BY <1>1, <1>4, <1>5 DEF Values
<1>7. \A r \in DOMAIN ob : /\ ob2[r].type = ob[r].type /\ ob2[r].size = ob[r].size
                           /\ ob2[r].ref_count = ob[r].ref_count /\ (r # a => ob2[r].kids = ob[r].kids)
  BY <1>1, <1>3
<1> QED BY <1>1, <1>3, <1>6, <1>7 DEF ob2

\* A sequence with another element.
LEMMA ExceptType ==
  ASSUME NEW T, NEW s \in Seq(T), NEW k \in DOMAIN s, NEW x \in T
  PROVE  /\ [s EXCEPT ![k] = x] \in Seq(T) /\ Len([s EXCEPT ![k] = x]) = Len(s)
         /\ DOMAIN [s EXCEPT ![k] = x] = DOMAIN s /\ [s EXCEPT ![k] = x][k] = x
         /\ \A j \in DOMAIN s : j # k => [s EXCEPT ![k] = x][j] = s[j]
OBVIOUS

\* One element may change.
OneEdit(ob, a, k, ob2) ==
  /\ Values(ob2) /\ DOMAIN ob2 = DOMAIN ob /\ a \in DOMAIN ob /\ k \in DOMAIN ob[a].kids
  /\ \A q \in DOMAIN ob : q # a => ob2[q].kids = ob[q].kids
  /\ DOMAIN ob2[a].kids = DOMAIN ob[a].kids
  /\ \A j \in DOMAIN ob[a].kids : j # k => ob2[a].kids[j] = ob[a].kids[j]

\* A vacant place is filled.
LEMMA PlacesFill ==
  ASSUME NEW ob, NEW ob2, NEW a, NEW k, NEW r, OneEdit(ob, a, k, ob2)
  PROVE  Cardinality(ElementPlaces(ob2, DOMAIN ob, {}, r))
           = Cardinality(ElementPlaces(ob, DOMAIN ob, {<<a, k>>}, r)) + (IF ob2[a].kids[k] = r THEN 1 ELSE 0)
<1>1. ElementPlaces(ob2, DOMAIN ob, {<<a, k>>}, r) = ElementPlaces(ob, DOMAIN ob, {<<a, k>>}, r)
  BY PlacesVacantSame DEF OneEdit
<1> DEFINE os == DOMAIN ob
<1>2. os \in SUBSET DOMAIN ob2 /\ k \in DOMAIN ob2[a].kids /\ a \in os /\ Values(ob2)
  BY DEF OneEdit
<1> HIDE DEF os
<1>3. Cardinality(ElementPlaces(ob2, os, {}, r))
        = Cardinality(ElementPlaces(ob2, os, {<<a, k>>}, r)) + (IF ob2[a].kids[k] = r THEN 1 ELSE 0)
  BY <1>2, PlacesVacate
<1> QED BY <1>1, <1>3 DEF os

\* An element behind a vacant place.
LEMMA ElementFilled ==
  ASSUME NEW ob, NEW tb, NEW gl, NEW gv, NEW st, DOMAIN st = {}, NEW lk, NEW h \in [Pos -> Nat], NEW a \in Arrays(ob),
         NEW k \in DOMAIN ob[a].kids, NEW x \in Pos, x \notin Arrays(ob),
         Settled(ob, tb, gl, gv, st, {<<a, k>>}, lk, Plus(h, x)),
         NEW kids \in Seq(RefOrNull), Len(kids) = Len(ob[a].kids), kids[k] = x,
         \A j \in DOMAIN ob[a].kids : j # k => kids[j] = ob[a].kids[j]
  PROVE  Settled(Put(ob, a, kids), tb, gl, gv, st, {}, lk, h)
<1> DEFINE ob2 == Put(ob, a, kids)
           h2 == Plus(h, x)
           kv == {<<a, k>>}
           none == {}
<1>1. Typed(ob, gl, gv, st, lk, h2) /\ Values(ob) /\ Shape(ob, tb, gl, st, {}) /\ a \in DOMAIN ob
      /\ st \in Seq(FrameType)
  BY DEF Settled, Typed, Arrays
<1>2. ob[a].kids \in Seq(RefOrNull) /\ x \in RefOrNull /\ x # NULL_REF
  BY <1>1, ValueFields DEF RefOrNull, Pos, NULL_REF
<1>3. DOMAIN kids = DOMAIN ob[a].kids
  BY <1>2
<1>a. Values(ob) /\ a \in DOMAIN ob
  BY <1>1
<1>4. /\ Values(ob2) /\ DOMAIN ob2 = DOMAIN ob /\ ob2[a].kids = kids
      /\ \A r \in DOMAIN ob : /\ ob2[r].type = ob[r].type /\ ob2[r].size = ob[r].size
                              /\ ob2[r].ref_count = ob[r].ref_count /\ (r # a => ob2[r].kids = ob[r].kids)
  BY <1>a, PutType
<1> HIDE DEF ob2, h2
<1>5. ASSUME NEW r \in Pos
      PROVE  Cardinality(ElementPlaces(ob, DOMAIN ob, kv, r)) + Held(st, r) + h2[r]
               = Cardinality(ElementPlaces(ob2, DOMAIN ob, none, r)) + Held(st, r) + h[r]
  <2> DEFINE E == Cardinality(ElementPlaces(ob, DOMAIN ob, kv, r))
             E2 == Cardinality(ElementPlaces(ob2, DOMAIN ob, none, r))
             H == Held(st, r)
             A == h[r]
             B == h2[r]
  <2>1. E \in Nat /\ H \in Nat /\ A \in Nat
    BY <1>1, Terms
  <2>2. B = A + (IF r = x THEN 1 ELSE 0)
    BY PlusType DEF h2
  <2>3. E2 = E + (IF ob2[a].kids[k] = r THEN 1 ELSE 0)
    <3>1. DOMAIN ob2[a].kids = DOMAIN ob[a].kids /\ \A j \in DOMAIN ob[a].kids : j # k => ob2[a].kids[j] = ob[a].kids[j]
      BY <1>3, <1>4
    <3>2. Values(ob2) /\ DOMAIN ob2 = DOMAIN ob /\ \A q \in DOMAIN ob : q # a => ob2[q].kids = ob[q].kids
      BY <1>4
    <3> HIDE DEF E, E2, kv, none
    <3>3. Cardinality(ElementPlaces(ob2, DOMAIN ob, {}, r))
            = Cardinality(ElementPlaces(ob, DOMAIN ob, {<<a, k>>}, r)) + (IF ob2[a].kids[k] = r THEN 1 ELSE 0)
      <4>1. OneEdit(ob, a, k, ob2)
        BY <1>a, <3>1, <3>2 DEF OneEdit
      <4> QED BY <4>1, PlacesFill
    <3> QED BY <3>3 DEF E, E2, kv, none
  <2>4. ob2[a].kids[k] = x
    BY <1>4
  <2> HIDE DEF E, E2, H, A, B
  <2>6. E + H + B = E2 + H + A
    BY <2>1, <2>2, <2>3, <2>4
  <2> QED BY <2>6 DEF E, E2, H, A, B
<1>6. \A r : ~Framed(st, r)
  BY DEF Framed
<1>7. Shape(ob2, tb, gl, st, {})
  <2>1. \A j \in DOMAIN ob2[a].kids : ob2[a].kids[j] \notin Arrays(ob)
    BY <1>1, <1>3, <1>4 DEF Shape, Private
  <2>2. ASSUME NEW r \in Lists(ob), ob[r].kids[1] = a PROVE Filled(ob2, r)
    <3>1. Filled(ob, r) /\ ListOK(ob, r)
      BY <1>1, <1>6 DEF Shape
    <3>2. r \in DOMAIN ob /\ r # a
      BY DEF Lists, Arrays
    <3>3. ob2[r].size = ob[r].size /\ ob2[r].kids = ob[r].kids /\ ob[r].size \in Nat
      BY <1>1, <1>4, <3>2, ValueFields
    <3>a. ob[r].size <= Len(ob[a].kids)
      BY <2>2, <3>1 DEF ListOK
    <3>4. \A j \in 1 .. ob[r].size : j \in DOMAIN ob[a].kids
      BY <1>2, <3>3, <3>a
    <3>5. \A j \in 1 .. ob[r].size : ob[a].kids[j] # NULL_REF
      BY <2>2, <3>1 DEF Filled
    <3>6. \A j \in 1 .. ob[r].size : kids[j] # NULL_REF
      BY <1>2, <3>4, <3>5
    <3> QED BY <1>4, <2>2, <3>3, <3>6 DEF Filled
  <2>3. Shape(ob, tb, gl, st, {}) /\ Len(ob2[a].kids) = Len(ob[a].kids)
    BY <1>1, <1>4
  <2>4. Edited(ob, a, ob2)
    BY <1>4, <2>1, <2>3 DEF Edited
  <2>5. EditedFrames(ob, a, st, ob2, st, tb)
    BY <1>6, <2>2 DEF EditedFrames
  <2> QED BY <2>3, <2>4, <2>5, ShapeArray
<1>8. Settled(ob, tb, gl, gv, st, kv, lk, h2) /\ \A r \in DOMAIN ob : ob2[r].ref_count = ob[r].ref_count
  BY <1>4 DEF h2
<1>9. Values(ob2) /\ DOMAIN ob2 = DOMAIN ob /\ st \in Seq(FrameType)
  BY <1>1, <1>4
<1> HIDE DEF kv, none
<1>b. Recounted(ob, st, kv, h2, ob2, st, none, h)
  BY <1>5, <1>8, <1>9 DEF Recounted
<1>10. Settled(ob2, tb, gl, gv, st, none, lk, h)
  BY <1>7, <1>8, <1>b, OtherElements
<1> QED BY <1>10 DEF ob2, none

\* The elements behind a vacant place move up.
LEMMA ElementShifted ==
  ASSUME NEW ob, NEW tb, NEW gl, NEW gv, NEW st, DOMAIN st = {}, NEW lk, NEW h, NEW a \in Arrays(ob),
         NEW n \in DOMAIN ob[a].kids, NEW k \in 1 .. n, ob[a].kids[n] # NULL_REF,
         Settled(ob, tb, gl, gv, st, {<<a, k>>}, lk, h),
         \A r \in Lists(ob) : ob[r].kids[1] = a => ob[r].size = n - 1,
         NEW kids, kids = Shifted(ob[a].kids, k, n)
  PROVE  Settled(Put(ob, a, kids), tb, gl, gv, st, {}, lk, h)
<1> DEFINE ob2 == Put(ob, a, kids)
           kv == {<<a, k>>}
           none == {}
           old == ob[a].kids
<1>1. Typed(ob, gl, gv, st, lk, h) /\ Values(ob) /\ Shape(ob, tb, gl, st, {}) /\ a \in DOMAIN ob
      /\ st \in Seq(FrameType) /\ h \in [Pos -> Nat]
  BY DEF Settled, Typed, Arrays
<1>2. old \in Seq(RefOrNull) /\ DOMAIN old = 1 .. Len(old) /\ Len(old) \in Nat /\ n \in 1 .. Len(old)
  BY <1>1, ValueFields
<1>3. /\ DOMAIN kids = DOMAIN old
      /\ \A j \in DOMAIN old : kids[j] = IF j >= k /\ j < n THEN old[j + 1]
                                         ELSE IF j = n THEN NULL_REF ELSE old[j]
  BY DEF Shifted
<1>4. kids \in Seq(RefOrNull) /\ Len(kids) = Len(old)
  <2>1. \A j \in DOMAIN old : old[j] \in RefOrNull /\ (j < n => j + 1 \in DOMAIN old)
    BY <1>2
  <2>2. NULL_REF \in RefOrNull
    BY DEF RefOrNull
  <2>3. \A j \in DOMAIN old : kids[j] \in RefOrNull
    BY <1>3, <2>1, <2>2
  <2>4. kids = [j \in 1 .. Len(old) |-> kids[j]]
    BY <1>2 DEF Shifted
  <2>5. kids \in [1 .. Len(old) -> RefOrNull]
    BY <1>2, <2>3, <2>4
  <2> QED BY <1>2, <2>5
<1>a. Values(ob) /\ a \in DOMAIN ob
  BY <1>1
<1>5. /\ Values(ob2) /\ DOMAIN ob2 = DOMAIN ob /\ ob2[a].kids = kids
      /\ \A r \in DOMAIN ob : /\ ob2[r].type = ob[r].type /\ ob2[r].size = ob[r].size
                              /\ ob2[r].ref_count = ob[r].ref_count /\ (r # a => ob2[r].kids = ob[r].kids)
  BY <1>4, <1>a, PutType
<1> HIDE DEF ob2, old
<1>6. ASSUME NEW r \in Pos
      PROVE  Cardinality(ElementPlaces(ob, DOMAIN ob, kv, r)) + Held(st, r) + h[r]
               = Cardinality(ElementPlaces(ob2, DOMAIN ob, none, r)) + Held(st, r) + h[r]
  <2>1. DOMAIN ob \in SUBSET DOMAIN ob
    OBVIOUS
  <2>2. Cardinality(ElementPlaces(ob2, DOMAIN ob, {}, r)) = Cardinality(ElementPlaces(ob, DOMAIN ob, {<<a, k>>}, r))
    BY <1>1, <1>5, <2>1, PlacesShift
  <2> QED BY <2>2
<1>7. \A r : ~Framed(st, r)
  BY DEF Framed
<1>8. Shape(ob2, tb, gl, st, {})
  <2>1. \A j \in DOMAIN old : old[j] \notin Arrays(ob)
    BY <1>1 DEF Shape, Private, old
  <2>2. NULL_REF \notin Arrays(ob)
    BY <1>1, ValueFields DEF Arrays, Pos, NULL_REF
  <2>3. \A j \in DOMAIN ob2[a].kids : ob2[a].kids[j] \notin Arrays(ob)
    <3>1. \A j \in DOMAIN old : j < n => j + 1 \in DOMAIN old
      BY <1>2
    <3> QED BY <1>3, <1>5, <2>1, <2>2, <3>1
  <2>4. ASSUME NEW r \in Lists(ob), ob[r].kids[1] = a PROVE Filled(ob2, r)
    <3>1. Filled(ob, r) /\ ob[r].size = n - 1
      BY <1>1, <1>7, <2>4 DEF Shape
    <3>2. r \in DOMAIN ob /\ r # a
      BY DEF Lists, Arrays
    <3>3. ob2[r].size = n - 1 /\ ob2[r].kids = ob[r].kids
      BY <1>5, <3>1, <3>2
    <3>4. \A j \in 1 .. n - 1 : old[j] # NULL_REF
      BY <2>4, <3>1 DEF Filled, old
    <3>5. old[n] # NULL_REF
      BY DEF old
    <3>6. \A j \in 1 .. n - 1 : kids[j] # NULL_REF
      <4> SUFFICES ASSUME NEW j \in 1 .. n - 1 PROVE kids[j] # NULL_REF
        OBVIOUS
      <4>1. j \in DOMAIN old /\ j # n /\ j < n /\ j \in Nat /\ n \in Nat
        BY <1>2
      <4>2. j + 1 \in 1 .. n - 1 \/ j + 1 = n
        BY <4>1
      <4>3. old[j + 1] # NULL_REF
        BY <3>4, <3>5, <4>2
      <4> QED BY <1>3, <3>4, <4>1, <4>3
    <3> QED BY <1>5, <2>4, <3>3, <3>6 DEF Filled
  <2>5. Shape(ob, tb, gl, st, {}) /\ Len(ob2[a].kids) = Len(ob[a].kids)
    BY <1>1, <1>4, <1>5 DEF old
  <2>6. Edited(ob, a, ob2)
    BY <1>5, <2>3, <2>5 DEF Edited
  <2>7. EditedFrames(ob, a, st, ob2, st, tb)
    BY <1>7, <2>4 DEF EditedFrames
  <2> QED BY <2>5, <2>6, <2>7, ShapeArray
<1>9. Settled(ob, tb, gl, gv, st, kv, lk, h) /\ \A r \in DOMAIN ob : ob2[r].ref_count = ob[r].ref_count
  BY <1>5
<1>10. Values(ob2) /\ DOMAIN ob2 = DOMAIN ob /\ st \in Seq(FrameType) /\ h \in [Pos -> Nat]
  BY <1>1, <1>5
<1> HIDE DEF kv, none
<1>b. Recounted(ob, st, kv, h, ob2, st, none, h)
  BY <1>6, <1>9, <1>10 DEF Recounted
<1>11. Settled(ob2, tb, gl, gv, st, none, lk, h)
  BY <1>8, <1>9, <1>b, OtherElements
<1> QED BY <1>11 DEF ob2, none

Shorter(ob, t) == [ob EXCEPT ![t].size = @ - 1]

\* A list is one shorter.
LEMMA ShorterType ==
  ASSUME NEW ob, Values(ob), NEW t \in DOMAIN ob, ob[t].size >= 1
  PROVE  /\ Values(Shorter(ob, t)) /\ DOMAIN Shorter(ob, t) = DOMAIN ob
         /\ Shorter(ob, t)[t].size = ob[t].size - 1
         /\ \A r \in DOMAIN ob : /\ Shorter(ob, t)[r].type = ob[r].type
                                 /\ Shorter(ob, t)[r].kids = ob[r].kids
                                 /\ Shorter(ob, t)[r].ref_count = ob[r].ref_count
                                 /\ r # t => Shorter(ob, t)[r].size = ob[r].size
<1> DEFINE ob2 == Shorter(ob, t)
<1>1. DOMAIN ob2 = DOMAIN ob /\ \A r \in DOMAIN ob : r # t => ob2[r] = ob[r]
  BY DEF Shorter
<1>2. ob2[t] = [ob[t] EXCEPT !.size = @ - 1] /\ ob[t] \in ValueType /\ ob[t].size \in Nat
  BY ValueFields DEF Shorter
<1>a. ob[t].size - 1 \in Nat
  BY <1>2
<1>3. /\ ob2[t] \in ValueType /\ ob2[t].kids = ob[t].kids /\ ob2[t].type = ob[t].type
      /\ ob2[t].size = ob[t].size - 1 /\ ob2[t].ref_count = ob[t].ref_count
  BY <1>2, <1>a DEF ValueType
<1>4. ob2 = [r \in DOMAIN ob |-> ob2[r]]
  BY DEF Shorter
<1> HIDE DEF ob2
<1>5. \A r \in DOMAIN ob : ob2[r] \in ValueType
  BY <1>1, <1>3, ValueFields
<1>6. Values(ob2)
  BY <1>1, <1>4, <1>5 DEF Values
<1>7. \A r \in DOMAIN ob : /\ ob2[r].type = ob[r].type /\ ob2[r].kids = ob[r].kids
                           /\ ob2[r].ref_count = ob[r].ref_count /\ (r # t => ob2[r].size = ob[r].size)
  BY <1>1, <1>3
<1> QED BY <1>1, <1>3, <1>6, <1>7 DEF ob2

\* list_subscr_del takes one off the length.
LEMMA Shrunk ==
  ASSUME NEW ob, NEW tb, NEW gl, NEW gv, NEW st, NEW kv, NEW lk, NEW h,
         Settled(ob, tb, gl, gv, st, kv, lk, h), NEW t \in Lists(ob), ob[t].size >= 1, ~Framed(st, t)
  PROVE  Settled(Shorter(ob, t), tb, gl, gv, st, kv, lk, h)
<1> DEFINE ob2 == Shorter(ob, t)
<1>1. Typed(ob, gl, gv, st, lk, h) /\ Values(ob) /\ Shape(ob, tb, gl, st, {}) /\ t \in DOMAIN ob
      /\ st \in Seq(FrameType) /\ h \in [Pos -> Nat]
  BY DEF Settled, Typed, Lists
<1>a. Values(ob) /\ t \in DOMAIN ob /\ ob[t].size \in Nat
  BY <1>1, ValueFields
<1>2. /\ Values(ob2) /\ DOMAIN ob2 = DOMAIN ob /\ ob2[t].size = ob[t].size - 1
      /\ \A r \in DOMAIN ob : /\ ob2[r].type = ob[r].type /\ ob2[r].kids = ob[r].kids
                              /\ ob2[r].ref_count = ob[r].ref_count /\ (r # t => ob2[r].size = ob[r].size)
  BY <1>a, ShorterType
<1> HIDE DEF ob2
<1>3. Recounted(ob, st, kv, h, ob2, st, kv, h)
  <2>1. \A r \in Pos : ElementPlaces(ob2, DOMAIN ob, kv, r) = ElementPlaces(ob, DOMAIN ob, kv, r)
    BY <1>2, PlacesSame
  <2> QED BY <1>1, <1>2, <2>1 DEF Recounted
<1>4. Lists(ob2) = Lists(ob) /\ Arrays(ob2) = Arrays(ob)
  BY <1>2 DEF Lists, Arrays
<1>5. \A r \in Lists(ob) : r \in DOMAIN ob /\ ob2[r].kids = ob[r].kids /\ ListOK(ob, r) /\ (Framed(st, r) \/ Filled(ob, r))
  BY <1>1, <1>2 DEF Lists, Shape
<1>6. \A r \in Arrays(ob) : r \in DOMAIN ob /\ ob2[r].kids = ob[r].kids
  BY <1>2 DEF Arrays
<1>7. ASSUME NEW r \in Lists(ob) PROVE ListOK(ob2, r) /\ (Framed(st, r) \/ Filled(ob2, r))
  <2>1. ob2[r].kids = ob[r].kids /\ ob[r].kids[1] \in Arrays(ob) /\ ListOK(ob, r) /\ (Framed(st, r) \/ Filled(ob, r))
    BY <1>5 DEF ListOK
  <2>2. ob2[ob[r].kids[1]].kids = ob[ob[r].kids[1]].kids
    BY <1>6, <2>1
  <2>3. ob[r].size \in Nat /\ ob2[r].size \in Nat /\ ob2[r].size <= ob[r].size
    <3>1. r \in DOMAIN ob /\ r \in DOMAIN ob2
      BY <1>2, <1>5
    <3>2. ob[r].size \in Nat /\ ob2[r].size \in Nat
      BY <1>1, <1>2, <3>1, ValueFields
    <3>3. CASE r = t
      BY <1>2, <3>2, <3>3
    <3>4. CASE r # t
      BY <1>2, <3>1, <3>2, <3>4
    <3> QED BY <3>3, <3>4
  <2>a. ob[ob[r].kids[1]].kids \in Seq(RefOrNull)
    BY <1>1, <1>6, <2>1, ValueFields
  <2>b. Len(ob[ob[r].kids[1]].kids) \in Nat
    BY SMTT(40), <2>a
  <2>4. ListOK(ob2, r)
    BY <1>4, <2>1, <2>2, <2>3, <2>b DEF ListOK
  <2>5. Filled(ob, r) => Filled(ob2, r)
    BY <2>1, <2>2, <2>3 DEF Filled
  <2> QED BY <2>1, <2>4, <2>5
<1>8. \A r, s \in Lists(ob) : ob2[r].kids[1] = ob2[s].kids[1] => r = s
  <2>1. \A r, s \in Lists(ob) : ob[r].kids[1] = ob[s].kids[1] => r = s
    BY <1>1 DEF Shape
  <2> QED BY <1>5, <2>1
<1>9. ASSUME NEW p \in DOMAIN st, st[p].kind = "list" PROVE FrameOK(ob2, tb, st[p])
  <2>1. FrameOK(ob, tb, st[p]) /\ st[p].ref # t
    BY <1>1, <1>9 DEF Shape, Framed
  <2>2. st[p].ref \in Lists(ob)
    BY <2>1 DEF FrameOK
  <2>3. st[p].ref \in DOMAIN ob /\ ob[st[p].ref].kids[1] \in Arrays(ob)
    BY <1>5, <2>2 DEF ListOK
  <2>4. /\ ob2[st[p].ref].kids = ob[st[p].ref].kids /\ ob2[st[p].ref].size = ob[st[p].ref].size
        /\ ob2[st[p].ref].ref_count = ob[st[p].ref].ref_count
        /\ ob2[ob[st[p].ref].kids[1]].kids = ob[ob[st[p].ref].kids[1]].kids
    BY <1>2, <1>6, <2>1, <2>3
  <2> QED BY <1>4, <2>1, <2>4 DEF FrameOK
<1>10. Private(ob2, gl, st) /\ Fixed(gl)
  BY <1>1, <1>4, <1>6 DEF Shape, Private
<1>11. Shape(ob2, tb, gl, st, {})
  BY <1>4, <1>7, <1>8, <1>9, <1>10 DEF Shape
<1>12. Settled(ob2, tb, gl, gv, st, kv, lk, h)
  BY <1>3, <1>11, OtherElements
<1> QED BY <1>12 DEF ob2

\* The two topmost frames give way to one.
TopTwo(st, fr, st2) ==
  st \in Seq(FrameType) /\ Len(st) > 1 /\ fr \in FrameType /\ st2 = Append(SubSeq(st, 1, Len(st) - 2), fr)

\* What remains is as it was, and what the two held is given back.
LEMMA HeldTop ==
  ASSUME NEW st, NEW fr, NEW st2, TopTwo(st, fr, st2)
  PROVE  /\ st2 \in Seq(FrameType) /\ Len(st2) = Len(st) - 1 /\ DOMAIN st2 = 1 .. Len(st) - 1
         /\ \A p \in 1 .. Len(st) - 2 : st2[p] = st[p]
         /\ st2[Len(st) - 1] = fr
         /\ \A r : Held(st2, r) + (IF st[Len(st)].ref = r THEN 1 ELSE 0) + (IF st[Len(st) - 1].ref = r THEN 1 ELSE 0)
                     = Held(st, r) + (IF fr.ref = r THEN 1 ELSE 0)
<1>0. /\ st \in Seq(FrameType) /\ Len(st) > 1 /\ fr \in FrameType
      /\ st2 = Append(SubSeq(st, 1, Len(st) - 2), fr)
  BY DEF TopTwo
<1> DEFINE n == Len(st)
           s1 == SubSeq(st, 1, n - 1)
           s0 == SubSeq(st, 1, n - 2)
<1>1. n \in Nat /\ n - 1 \in Nat /\ n - 2 \in Nat /\ n - 2 \in 0 .. n /\ n - 1 \in 1 .. n
  BY <1>0
<1>2. s1 \in Seq(FrameType) /\ DOMAIN s1 = 1 .. n - 1 /\ \A p \in 1 .. n - 1 : s1[p] = st[p]
  BY <1>0, HeldFront
<1>3. Len(s1) = n - 1
  BY <1>1, <1>2
<1>a. s0 \in Seq(FrameType)
  BY <1>0
<1>b. \A m \in 0 .. n : Len(SubSeq(st, 1, m)) = m /\ \A p \in 1 .. m : SubSeq(st, 1, m)[p] = st[p]
  BY <1>0, <1>1
<1>4. s0 \in Seq(FrameType) /\ Len(s0) = n - 2 /\ \A p \in 1 .. n - 2 : s0[p] = st[p]
  BY <1>1, <1>a, <1>b
<1> DEFINE t1 == SubSeq(s1, 1, Len(s1) - 1)
<1> HIDE DEF s1
<1>5. /\ t1 \in Seq(FrameType) /\ DOMAIN t1 = 1 .. Len(s1) - 1 /\ \A p \in 1 .. Len(s1) - 1 : t1[p] = s1[p]
      /\ \A r : Held(s1, r) = Held(t1, r) + (IF s1[Len(s1)].ref = r THEN 1 ELSE 0)
  <2>1. Len(s1) > 0
    BY <1>1, <1>3
  <2> QED BY <1>2, <2>1, HeldFront
<1> HIDE DEF t1, s0, n
<1>6. Len(t1) = n - 2 /\ \A p \in 1 .. n - 2 : t1[p] = s0[p]
  <2>1. (n - 1) - 1 = n - 2 /\ \A p \in 1 .. n - 2 : p \in 1 .. n - 1
    BY <1>1
  <2>2. DOMAIN t1 = 1 .. n - 2 /\ \A p \in 1 .. n - 2 : t1[p] = s1[p]
    BY <1>3, <1>5, <2>1
  <2>3. Len(t1) = n - 2
    BY <1>1, <1>5, <2>2
  <2> QED BY <1>2, <1>4, <2>1, <2>2, <2>3
<1>7. t1 = s0
  BY <1>1, <1>4, <1>5, <1>6
<1>8. st2 = Append(s0, fr)
  BY <1>0 DEF s0, n
<1>9. /\ st2 \in Seq(FrameType) /\ DOMAIN st2 = DOMAIN s0 \cup {Len(s0) + 1}
      /\ \A p \in DOMAIN s0 : st2[p] = s0[p]
      /\ st2[Len(s0) + 1] = fr /\ Len(st2) = Len(s0) + 1
  BY <1>0, <1>4, <1>8, HeldAppend
<1>c. DOMAIN s0 = 1 .. n - 2 /\ (n - 2) + 1 = n - 1
  BY <1>1, <1>4
<1>10. Len(st2) = n - 1 /\ st2[n - 1] = fr /\ \A p \in 1 .. n - 2 : st2[p] = st[p]
  BY <1>4, <1>9, <1>c
<1>11. DOMAIN st2 = 1 .. n - 1
  BY <1>9, <1>10
<1>12. ASSUME NEW r
       PROVE  Held(st2, r) + (IF st[n].ref = r THEN 1 ELSE 0) + (IF st[n - 1].ref = r THEN 1 ELSE 0)
                = Held(st, r) + (IF fr.ref = r THEN 1 ELSE 0)
  <2>1. Held(st, r) = Held(s1, r) + (IF st[n].ref = r THEN 1 ELSE 0)
    BY <1>0, HeldFront DEF s1, n
  <2>2. s1[n - 1] = st[n - 1]
    BY <1>1, <1>2, <1>3
  <2>3. Held(s1, r) = Held(s0, r) + (IF st[n - 1].ref = r THEN 1 ELSE 0)
    BY <1>3, <1>5, <1>7, <2>2
  <2>4. Held(st2, r) = Held(s0, r) + (IF fr.ref = r THEN 1 ELSE 0)
    <3>1. Held(Append(s0, fr), r) = Held(s0, r) + (IF fr.ref = r THEN 1 ELSE 0)
      BY <1>0, <1>4, HeldAppend
    <3> QED BY <1>8, <3>1
  <2>5. Held(s0, r) \in Nat
    BY <1>4, Frames, OccType DEF Held
  <2> QED BY <2>1, <2>3, <2>4, <2>5
<1> QED BY <1>9, <1>10, <1>11, <1>12 DEF n

\* A list frame's fields.
LEMMA ListFrameType ==
  ASSUME NEW fr \in FrameType, fr.kind = "list"
  PROVE  fr.ref \in Pos /\ fr.array \in Int /\ fr.len \in Nat /\ fr.idx \in Nat
<1>1. fr \notin [kind : {"ref"}, ref : Pos]
  OBVIOUS
<1> QED BY <1>1 DEF FrameType

\* The element e of a list literal is stored: at k in the array a of the frame l.
Storing(ob, st, l, k, a, e, kids) ==
  /\ Len(st) > 1 /\ st[Len(st)].kind = "ref" /\ e = st[Len(st)].ref
  /\ l = st[Len(st) - 1] /\ l.kind = "list" /\ a = ob[l.ref].kids[1] /\ k = l.idx + 1
  /\ kids \in Seq(RefOrNull) /\ Len(kids) = Len(ob[a].kids) /\ kids[k] = e
  /\ \A j \in DOMAIN ob[a].kids : j # k => kids[j] = ob[a].kids[j]
NextFrame(st, l, k, fr, st2) ==
  /\ fr \in FrameType /\ fr.ref = l.ref /\ (k = l.len => fr.kind = "ref")
  /\ k # l.len => fr.kind = "list" /\ fr.array = l.array /\ fr.len = l.len /\ fr.idx = k
  /\ st2 = Append(SubSeq(st, 1, Len(st) - 2), fr)

\* The state is settled again.
LEMMA ElementStored ==
  ASSUME NEW ob, NEW tb, NEW gl, NEW gv, NEW st, NEW lk, NEW h, Settled(ob, tb, gl, gv, st, {}, lk, h),
         NEW l, NEW k, NEW a, NEW e, NEW kids, NEW fr, NEW st2,
         Storing(ob, st, l, k, a, e, kids), NextFrame(st, l, k, fr, st2)
  PROVE  Settled(Put(ob, a, kids), tb, gl, gv, st2, {}, lk, h)
<1> DEFINE ob2 == Put(ob, a, kids)
           n == Len(st)
           none == {}
<1>0. st \in Seq(FrameType)
  BY DEF Settled, Typed
<1>1. Typed(ob, gl, gv, st, lk, h) /\ Values(ob) /\ Shape(ob, tb, gl, st, {}) /\ h \in [Pos -> Nat]
  BY DEF Settled, Typed
<1>s. /\ n > 1 /\ st[n].kind = "ref" /\ e = st[n].ref /\ l = st[n - 1] /\ l.kind = "list" 
      /\ a = ob[l.ref].kids[1] /\ k = l.idx + 1
  BY DEF Storing
<1>t. kids \in Seq(RefOrNull) /\ Len(kids) = Len(ob[a].kids) /\ kids[k] = e
  BY DEF Storing
<1>u. \A j \in DOMAIN ob[a].kids : j # k => kids[j] = ob[a].kids[j]
  BY DEF Storing
<1>v. /\ fr \in FrameType /\ fr.ref = l.ref /\ (k = l.len => fr.kind = "ref")
      /\ (k # l.len => fr.kind = "list" /\ fr.array = l.array /\ fr.len = l.len /\ fr.idx = k)
  BY DEF NextFrame
<1>2. n \in Nat /\ n - 1 \in DOMAIN st /\ n \in DOMAIN st /\ DOMAIN st = 1 .. n /\ n > 1
  BY <1>0, <1>s
<1>w. TopTwo(st, fr, st2)
  BY <1>0, <1>s DEF NextFrame, TopTwo
<1>3. /\ st2 \in Seq(FrameType) /\ DOMAIN st2 = 1 .. n - 1 /\ st2[n - 1] = fr
      /\ \A p \in 1 .. n - 2 : st2[p] = st[p]
  BY <1>w, HeldTop
<1>4. \A r : Held(st2, r) + (IF st[n].ref = r THEN 1 ELSE 0) + (IF st[n - 1].ref = r THEN 1 ELSE 0)
               = Held(st, r) + (IF fr.ref = r THEN 1 ELSE 0)
  BY <1>w, HeldTop
<1> HIDE DEF n
<1>5. l \in FrameType /\ l.ref \in Pos /\ l.len \in Nat /\ l.idx \in Nat
  <2>1. l \in FrameType /\ l.kind = "list"
    BY <1>0, <1>2, <1>s
  <2> QED BY <2>1, ListFrameType
<1>6. FrameOK(ob, tb, l) /\ Framed(st, l.ref)
  BY <1>1, <1>2, <1>s DEF Shape, Framed
<1>7. /\ l.ref \in Lists(ob) /\ ob[l.ref].ref_count = 1 /\ tb[a] = l.array /\ ob[l.ref].size = l.len
      /\ l.idx < l.len /\ \A j \in DOMAIN ob[a].kids : ob[a].kids[j] = NULL_REF <=> j > l.idx
  BY <1>6, <1>s DEF FrameOK
<1>8. a \in Arrays(ob) /\ l.len <= Len(ob[a].kids)
  BY <1>1, <1>7, <1>s DEF Shape, ListOK
<1>9. a \in DOMAIN ob /\ ob[a].kids \in Seq(RefOrNull) /\ l.ref \in DOMAIN ob /\ l.ref # a
  BY <1>1, <1>7, <1>8, ValueFields DEF Arrays, Lists
<1>10. k \in DOMAIN ob[a].kids /\ ob[a].kids[k] = NULL_REF /\ DOMAIN kids = DOMAIN ob[a].kids
  <2>1. k \in 1 .. Len(ob[a].kids) /\ k > l.idx
    <3>1. Len(ob[a].kids) \in Nat
      BY <1>9
    <3>2. l.idx \in Nat /\ l.len \in Nat /\ k = l.idx + 1 /\ l.idx < l.len
      BY <1>5, <1>7, <1>s
    <3>3. l.len <= Len(ob[a].kids)
      BY <1>8
    <3> QED BY <3>1, <3>2, <3>3
  <2>2. DOMAIN ob[a].kids = 1 .. Len(ob[a].kids) /\ DOMAIN kids = 1 .. Len(ob[a].kids)
    BY <1>9, <1>t
  <2> QED BY <1>7, <2>1, <2>2
<1>11. e \in DOMAIN ob \ Arrays(ob) /\ e # NULL_REF /\ e \in Pos
  <2>1. e \in DOMAIN ob \ Arrays(ob)
    BY <1>2, <1>s, StackLive
  <2> QED BY <1>1, <2>1, ValueFields DEF Pos, NULL_REF
<1>a. Values(ob) /\ a \in DOMAIN ob
  BY <1>1, <1>9
<1>12. /\ Values(ob2) /\ DOMAIN ob2 = DOMAIN ob /\ ob2[a].kids = kids
       /\ \A r \in DOMAIN ob : /\ ob2[r].type = ob[r].type /\ ob2[r].size = ob[r].size
                               /\ ob2[r].ref_count = ob[r].ref_count /\ (r # a => ob2[r].kids = ob[r].kids)
  BY <1>a, <1>t, PutType
<1> HIDE DEF ob2, none
<1>13. OneEdit(ob, a, k, ob2)
  BY <1>a, <1>10, <1>12, <1>u DEF OneEdit
<1>14. ASSUME NEW r \in Pos
       PROVE  Cardinality(ElementPlaces(ob, DOMAIN ob, none, r)) + Held(st, r) + h[r]
                = Cardinality(ElementPlaces(ob2, DOMAIN ob, none, r)) + Held(st2, r) + h[r]
  <2> DEFINE E == Cardinality(ElementPlaces(ob, DOMAIN ob, none, r))
             E2 == Cardinality(ElementPlaces(ob2, DOMAIN ob, none, r))
             H == Held(st, r)
             H2 == Held(st2, r)
             A == h[r]
  <2>1. E \in Nat /\ H \in Nat /\ A \in Nat
    BY <1>1, Terms
  <2>2. H2 \in Nat
    BY <1>3, Frames, OccType DEF Held
  <2>3. ElementPlaces(ob, DOMAIN ob, {}, r) = ElementPlaces(ob, DOMAIN ob, {<<a, k>>}, r)
    BY <1>10, PlacesEmptySlot
  <2>4. Cardinality(ElementPlaces(ob2, DOMAIN ob, {}, r))
          = Cardinality(ElementPlaces(ob, DOMAIN ob, {<<a, k>>}, r)) + (IF ob2[a].kids[k] = r THEN 1 ELSE 0)
    BY <1>13, PlacesFill
  <2>5. ob2[a].kids[k] = e
    BY <1>12, <1>t
  <2>6. E2 = E + (IF e = r THEN 1 ELSE 0)
    BY <2>3, <2>4, <2>5 DEF none
  <2>7. H2 + (IF e = r THEN 1 ELSE 0) + (IF l.ref = r THEN 1 ELSE 0) = H + (IF l.ref = r THEN 1 ELSE 0)
    BY <1>4, <1>s, <1>v
  <2> HIDE DEF E, E2, H, H2, A
  <2>8. E + H + A = E2 + H2 + A
    BY <2>1, <2>2, <2>6, <2>7
  <2> QED BY <2>8 DEF E, E2, H, H2, A
<1>15. Recounted(ob, st, none, h, ob2, st2, none, h)
  BY <1>1, <1>3, <1>12, <1>14 DEF Recounted
<1>16. \A p \in 1 .. n - 2 : p \in DOMAIN st /\ p # n - 1
  BY <1>2
<1>17. \A p \in 1 .. n - 2 : st[p].ref # l.ref
  <2> SUFFICES ASSUME NEW p \in 1 .. n - 2, st[p].ref = l.ref PROVE FALSE
    OBVIOUS
  <2>1. /\ RefsOf(st) \in Seq(Pos) /\ DOMAIN RefsOf(st) = DOMAIN st
        /\ RefsOf(st)[p] = l.ref /\ RefsOf(st)[n - 1] = l.ref
    BY <1>0, <1>2, <1>16, <1>s, Frames
  <2>2. Occurrences(RefsOf(st), RefsOf(st)[p]) >= 2
    BY <1>2, <1>16, <2>1, OccFound
  <2>3. Held(st, l.ref) = 1
    BY <1>6, FramedCount
  <2> QED BY <2>1, <2>2, <2>3 DEF Held
<1>18. \A r, s \in Lists(ob) : ob[r].kids[1] = ob[s].kids[1] => r = s
  BY <1>1 DEF Shape
<1>19. \A r \in Lists(ob) : ob[r].kids[1] = a => r = l.ref
  BY <1>7, <1>18, <1>s
<1>20. Edited(ob, a, ob2)
  <2>1. \A j \in DOMAIN ob2[a].kids : ob2[a].kids[j] \notin Arrays(ob)
    <3>1. \A j \in DOMAIN ob[a].kids : ob[a].kids[j] \notin Arrays(ob)
      BY <1>1, <1>8 DEF Shape, Private
    <3>2. \A j \in DOMAIN ob[a].kids : kids[j] \notin Arrays(ob)
      <4> TAKE j \in DOMAIN ob[a].kids
      <4>1. CASE j = k
        BY <1>11, <1>t, <4>1
      <4>2. CASE j # k
        BY <1>u, <3>1, <4>2
      <4> QED BY <4>1, <4>2
    <3> QED BY <1>10, <1>12, <3>2
  <2>2. Len(ob2[a].kids) = Len(ob[a].kids)
    BY <1>12, <1>t
  <2> QED BY <1>8, <1>12, <2>1, <2>2 DEF Edited
<1>21. EditedFrames(ob, a, st, ob2, st2, tb)
  <2>1. \A p \in DOMAIN st2 : p \in 1 .. n - 2 \/ p = n - 1
    BY <1>2, <1>3
  <2>2. \A p \in DOMAIN st2 : st2[p].ref \notin Arrays(ob)
    <3>1. \A p \in DOMAIN st : st[p].ref \notin Arrays(ob)
      BY StackLive
    <3>2. fr.ref \notin Arrays(ob)
      BY <1>7, <1>v DEF Lists, Arrays
    <3> QED BY <1>3, <1>16, <2>1, <3>1, <3>2
  <2>3. ASSUME NEW r \in Lists(ob), ob[r].kids[1] # a, Framed(st, r) PROVE Framed(st2, r)
    <3>1. PICK p \in DOMAIN st : st[p].kind = "list" /\ st[p].ref = r
      BY <2>3 DEF Framed
    <3>2. p # n /\ p # n - 1
      BY <1>s, <2>3, <3>1
    <3>3. p \in 1 .. n - 2 /\ p \in DOMAIN st2
      BY <1>2, <1>3, <3>1, <3>2
    <3> QED BY <1>3, <3>1, <3>3 DEF Framed
  <2>4. CASE k = l.len
    <3>1. Filled(ob2, l.ref)
      <4>1. ob2[l.ref].size = l.len /\ ob2[l.ref].kids[1] = a
        BY <1>7, <1>9, <1>12, <1>s
      <4>2. \A j \in 1 .. l.len : j \in DOMAIN ob[a].kids /\ (j # k => ~(j > l.idx))
        <5> DEFINE m == Len(ob[a].kids)
        <5>1. m \in Nat /\ DOMAIN ob[a].kids = 1 .. m
          BY <1>9
        <5>2. l.len <= m
          BY <1>8
        <5>3. l.idx \in Nat /\ l.len \in Nat /\ k = l.idx + 1
          BY ZenonT(20), <1>5, <1>7, <1>s
        <5> HIDE DEF m
        <5> QED BY <2>4, <5>1, <5>2, <5>3
      <4>3. \A j \in 1 .. l.len : kids[j] # NULL_REF
        BY <1>7, <1>11, <1>t, <1>u, <4>2
      <4> QED BY <1>12, <4>1, <4>3 DEF Filled
    <3>2. \A p \in DOMAIN st2 : st2[p].kind = "list" => p \in 1 .. n - 2
      BY <1>3, <1>v, <2>1, <2>4
    <3>3. ASSUME NEW p \in 1 .. n - 2, st2[p].kind = "list" PROVE FrameOK(ob2, tb, st2[p])
      <4>1. st2[p] = st[p] /\ FrameOK(ob, tb, st[p]) /\ st[p].ref # l.ref
        BY <1>1, <1>3, <1>16, <1>17, <3>3 DEF Shape
      <4>2. st[p].ref \in Lists(ob) /\ ob[st[p].ref].kids[1] # a /\ st[p].ref \in DOMAIN ob /\ st[p].ref # a
        BY <1>8, <1>19, <4>1 DEF FrameOK, Lists, Arrays
      <4>3. ob[st[p].ref].kids[1] \in DOMAIN ob
        BY <1>1, <4>2 DEF Shape, ListOK, Arrays
      <4>4. st[p].ref \in Lists(ob2)
        BY <1>12, <4>2 DEF Lists
      <4>5. /\ ob2[st[p].ref].kids = ob[st[p].ref].kids /\ ob2[st[p].ref].size = ob[st[p].ref].size
            /\ ob2[st[p].ref].ref_count = ob[st[p].ref].ref_count
            /\ ob2[ob[st[p].ref].kids[1]].kids = ob[ob[st[p].ref].kids[1]].kids
        BY <1>12, <4>2, <4>3
      <4> QED BY <4>1, <4>4, <4>5 DEF FrameOK
    <3> QED BY <1>19, <2>2, <2>3, <3>1, <3>2, <3>3 DEF EditedFrames
  <2>5. CASE k # l.len
    <3>1. fr.kind = "list" /\ fr.array = l.array /\ fr.len = l.len /\ fr.idx = k
      BY <1>v, <2>5
    <3>2. Framed(st2, l.ref)
      <4>1. n - 1 \in DOMAIN st2
        BY <1>2, <1>3
      <4> QED BY <1>3, <1>v, <3>1, <4>1 DEF Framed
    <3>3. FrameOK(ob2, tb, fr)
      <4>1. ob2[l.ref].size = l.len /\ ob2[l.ref].kids[1] = a /\ ob2[l.ref].ref_count = 1 /\ l.ref \in Lists(ob2)
        BY <1>7, <1>9, <1>12, <1>s DEF Lists
      <4>2. k < l.len
        <5>1. l.idx \in Nat /\ l.len \in Nat /\ k = l.idx + 1 /\ l.idx < l.len
          BY <1>5, <1>7, <1>s
        <5> QED BY <2>5, <5>1
      <4>3. \A j \in DOMAIN kids : kids[j] = NULL_REF <=> j > k
        <5>1. \A j \in DOMAIN kids : j \in Nat
          BY <1>t
        <5> TAKE j \in DOMAIN kids
        <5>2. CASE j = k
          BY <1>5, <1>11, <1>s, <1>t, <5>1, <5>2
        <5>3. CASE j # k
          <6>1. kids[j] = ob[a].kids[j] /\ (ob[a].kids[j] = NULL_REF <=> j > l.idx)
            BY <1>7, <1>10, <1>u, <5>3
          <6>2. l.idx \in Nat /\ k = l.idx + 1 /\ j \in Nat
            BY <1>5, <1>s, <5>1
          <6>3. j > k <=> j > l.idx
            BY <5>3, <6>2
          <6> QED BY <6>1, <6>3
        <5> QED BY <5>2, <5>3
      <4> QED BY <1>7, <1>12, <1>v, <3>1, <4>1, <4>2, <4>3 DEF FrameOK
    <3>4. ASSUME NEW p \in 1 .. n - 2, st2[p].kind = "list" PROVE FrameOK(ob2, tb, st2[p])
      <4>1. st2[p] = st[p] /\ FrameOK(ob, tb, st[p]) /\ st[p].ref # l.ref
        BY <1>1, <1>3, <1>16, <1>17, <3>4 DEF Shape
      <4>2. st[p].ref \in Lists(ob) /\ ob[st[p].ref].kids[1] # a /\ st[p].ref \in DOMAIN ob /\ st[p].ref # a
        BY <1>8, <1>19, <4>1 DEF FrameOK, Lists, Arrays
      <4>3. ob[st[p].ref].kids[1] \in DOMAIN ob
        BY <1>1, <4>2 DEF Shape, ListOK, Arrays
      <4>4. st[p].ref \in Lists(ob2)
        BY <1>12, <4>2 DEF Lists
      <4>5. /\ ob2[st[p].ref].kids = ob[st[p].ref].kids /\ ob2[st[p].ref].size = ob[st[p].ref].size
            /\ ob2[st[p].ref].ref_count = ob[st[p].ref].ref_count
            /\ ob2[ob[st[p].ref].kids[1]].kids = ob[ob[st[p].ref].kids[1]].kids
        BY <1>12, <4>2, <4>3
      <4> QED BY <4>1, <4>4, <4>5 DEF FrameOK
    <3>5. \A p \in DOMAIN st2 : st2[p].kind = "list" => FrameOK(ob2, tb, st2[p])
      BY <1>3, <2>1, <3>3, <3>4
    <3> QED BY <1>19, <2>2, <2>3, <3>2, <3>5 DEF EditedFrames
  <2> QED BY <2>4, <2>5
<1>22. Shape(ob2, tb, gl, st2, {})
  BY <1>1, <1>20, <1>21, ShapeArray
<1>23. Settled(ob, tb, gl, gv, st, none, lk, h)
  BY DEF none
<1>24. Settled(ob2, tb, gl, gv, st2, none, lk, h)
  BY <1>15, <1>22, <1>23, OtherElements
<1> QED BY <1>24 DEF ob2, none

-----------------------------------------------------------------------------
(* Releasing: calls of decref and of mm_free are still to be made. *)

ReleaseType == [do : {"decref"}, ref : RefOrNull] \cup [do : {"free"}, ref : Pos]
Releasing(td, r) == Occurrences(td, Step("decref", r))
Freeing(td, r)   == Occurrences(td, Step("free", r))

\* The values that still refer to others, and those that nothing but calls refer to.
Owners(ob) == {r \in DOMAIN ob : ob[r].ref_count > 0}
Leaving(ob, td) == {r \in DOMAIN ob : ob[r].ref_count <= Releasing(td, r)}

Pending(ob, tb, gl, gv, st, kv, lk, td, h) ==
  /\ Typed(ob, gl, gv, st, lk, h) /\ td \in Seq(ReleaseType)
  /\ \A r \in Pos : Count(ob, r) = References(ob, Owners(ob), gl, gv, st, kv, lk, h, r) + Releasing(td, r)
  /\ \A r \in Pos : Freeing(td, r) = IF r \in DOMAIN ob /\ ob[r].ref_count = 0 THEN 1 ELSE 0
  /\ Shape(ob, tb, gl, st, Leaving(ob, td))

\* Calls of decref.
LEMMA DecrefSteps ==
  ASSUME NEW rs \in Seq(RefOrNull)
  PROVE  /\ Steps("decref", rs) \in Seq(ReleaseType)
         /\ \A r : Releasing(Steps("decref", rs), r) = Occurrences(rs, r) /\ Freeing(Steps("decref", rs), r) = 0
<1>1. \A r : Releasing(Steps("decref", rs), r) = Occurrences(rs, r) /\ Freeing(Steps("decref", rs), r) = 0
  BY OccSteps DEF Releasing, Freeing
<1>2. \A x \in RefOrNull : Step("decref", x) \in ReleaseType
  BY DEF Step, ReleaseType
<1>3. Steps("decref", rs) \in [1 .. Len(rs) -> ReleaseType] /\ Len(rs) \in Nat
  BY <1>2 DEF Steps
<1>4. Steps("decref", rs) \in Seq(ReleaseType)
  BY <1>3
<1> QED BY <1>1, <1>4

\* The account of a pending state, in numbers.
LEMMA PendingTerms ==
  ASSUME NEW ob, NEW tb, NEW gl, NEW gv, NEW st, NEW kv, NEW lk, NEW td, NEW h,
         Pending(ob, tb, gl, gv, st, kv, lk, td, h), NEW r \in Pos
  PROVE  /\ Cardinality(GlobalPlaces(gl, gv, r)) \in Nat /\ Held(st, r) \in Nat
         /\ Cardinality(ElementPlaces(ob, Owners(ob), kv, r)) \in Nat
         /\ Occurrences(lk, r) \in Nat /\ h[r] \in Nat /\ Count(ob, r) \in Nat
         /\ Releasing(td, r) \in Nat /\ Freeing(td, r) \in Nat
         /\ Count(ob, r) = Cardinality(GlobalPlaces(gl, gv, r)) + Held(st, r)
                           + Cardinality(ElementPlaces(ob, Owners(ob), kv, r))
                           + Occurrences(lk, r) + h[r] + Releasing(td, r)
<1>1. Typed(ob, gl, gv, st, lk, h) /\ td \in Seq(ReleaseType)
  BY DEF Pending
<1>2. Owners(ob) \in SUBSET DOMAIN ob
  BY DEF Owners
<1>3. /\ Cardinality(GlobalPlaces(gl, gv, r)) \in Nat /\ Held(st, r) \in Nat
      /\ Cardinality(ElementPlaces(ob, Owners(ob), kv, r)) \in Nat
      /\ Occurrences(lk, r) \in Nat /\ h[r] \in Nat /\ Count(ob, r) \in Nat
  BY <1>1, <1>2, Terms
<1>4. Releasing(td, r) \in Nat /\ Freeing(td, r) \in Nat
  BY <1>1, OccType DEF Releasing, Freeing
<1>5. Count(ob, r) = References(ob, Owners(ob), gl, gv, st, kv, lk, h, r) + Releasing(td, r)
  BY DEF Pending
<1> QED BY <1>3, <1>4, <1>5 DEF References

\* More references may be left out of account.
LEMMA ShapeMore ==
  ASSUME NEW ob, NEW tb, NEW gl, NEW st, NEW X, NEW Y, Shape(ob, tb, gl, st, X), X \subseteq Y
  PROVE  Shape(ob, tb, gl, st, Y)
BY DEF Shape

\* In a settled state every value refers to others.
LEMMA SettledOwners ==
  ASSUME NEW ob, NEW tb, NEW gl, NEW gv, NEW st, NEW kv, NEW lk, NEW h,
         Settled(ob, tb, gl, gv, st, kv, lk, h)
  PROVE  Owners(ob) = DOMAIN ob /\ \A r \in DOMAIN ob : ob[r].ref_count # 0
<1>1. \A r \in DOMAIN ob : ob[r].ref_count >= 1 /\ ob[r].ref_count \in Nat
  BY ValueFields DEF Settled, Typed
<1>2. \A r \in DOMAIN ob : ob[r].ref_count > 0 /\ ob[r].ref_count # 0
  BY <1>1
<1> QED BY <1>2 DEF Owners

\* References held are given back.
LEMMA Release ==
  ASSUME NEW ob, NEW tb, NEW gl, NEW gv, NEW st, NEW kv, NEW lk, NEW h2, NEW h \in [Pos -> Nat],
         Settled(ob, tb, gl, gv, st, kv, lk, h2), NEW rs \in Seq(RefOrNull),
         \A r \in Pos : h2[r] = h[r] + Occurrences(rs, r)
  PROVE  Pending(ob, tb, gl, gv, st, kv, lk, Steps("decref", rs), h)
<1> DEFINE td == Steps("decref", rs)
<1>1. /\ td \in Seq(ReleaseType)
      /\ \A r : Releasing(td, r) = Occurrences(rs, r) /\ Freeing(td, r) = 0
  BY DecrefSteps
<1> HIDE DEF td
<1>2. Typed(ob, gl, gv, st, lk, h) /\ Typed(ob, gl, gv, st, lk, h2)
  BY DEF Settled, Typed
<1>3. Owners(ob) = DOMAIN ob /\ \A r \in DOMAIN ob : ob[r].ref_count # 0
  BY SettledOwners
<1>4. ASSUME NEW r \in Pos
      PROVE  Count(ob, r) = References(ob, Owners(ob), gl, gv, st, kv, lk, h, r) + Releasing(td, r)
  <2> DEFINE G == Cardinality(GlobalPlaces(gl, gv, r))
             E == Cardinality(ElementPlaces(ob, DOMAIN ob, kv, r))
             H == Held(st, r)
             L == Occurrences(lk, r)
             A == h[r]
             B == h2[r]
             O == Occurrences(rs, r)
  <2>1. G \in Nat /\ H \in Nat /\ E \in Nat /\ L \in Nat /\ A \in Nat
    BY <1>2, Terms
  <2>2. B = A + O /\ O \in Nat
    BY OccType
  <2>3. Count(ob, r) = G + H + E + L + B
    BY DEF Settled, References
  <2>4. References(ob, Owners(ob), gl, gv, st, kv, lk, h, r) = G + H + E + L + A
    BY <1>3 DEF References
  <2>5. Releasing(td, r) = O
    BY <1>1
  <2> HIDE DEF G, E, H, L, A, B, O
  <2>6. G + H + E + L + B = (G + H + E + L + A) + O
    BY <2>1, <2>2
  <2> QED BY <2>3, <2>4, <2>5, <2>6
<1>5. Shape(ob, tb, gl, st, Leaving(ob, td))
  <2>1. Shape(ob, tb, gl, st, {}) /\ {} \subseteq Leaving(ob, td)
    BY DEF Settled
  <2> QED BY <2>1, ShapeMore
<1>6. \A r \in Pos : Freeing(td, r) = IF r \in DOMAIN ob /\ ob[r].ref_count = 0 THEN 1 ELSE 0
  BY <1>1, <1>3
<1>7. Pending(ob, tb, gl, gv, st, kv, lk, td, h)
  BY <1>1, <1>2, <1>4, <1>5, <1>6 DEF Pending
<1> QED BY <1>7 DEF td

\* A stack read from the top.
LEMMA HeldReverse ==
  ASSUME NEW st \in Seq(FrameType)
  PROVE  /\ RefsOf(Reverse(st)) \in Seq(RefOrNull)
         /\ \A r : Occurrences(RefsOf(Reverse(st)), r) = Held(st, r)
<1>1. RefsOf(Reverse(st)) = Reverse(RefsOf(st))
  BY DEF RefsOf, Reverse
<1>2. RefsOf(st) \in Seq(Pos)
  BY Frames
<1>3. Reverse(RefsOf(st)) \in Seq(Pos) /\ \A r : Occurrences(Reverse(RefsOf(st)), r) = Occurrences(RefsOf(st), r)
  BY <1>2, OccReverse
<1>4. \A s \in Seq(Pos) : s \in Seq(RefOrNull)
  BY DEF RefOrNull
<1> QED BY <1>1, <1>3, <1>4 DEF Held

\* An exception: everything held, and the whole stack, is given back.
LEMMA ReleaseAll ==
  ASSUME NEW ob, NEW tb, NEW gl, NEW gv, NEW st, NEW kv, NEW lk, NEW h2, NEW h \in [Pos -> Nat],
         Settled(ob, tb, gl, gv, st, kv, lk, h2), NEW rs \in Seq(RefOrNull),
         \A r \in Pos : h2[r] = h[r] + Occurrences(rs, r)
  PROVE  Pending(ob, tb, gl, gv, <<>>, kv, lk, Steps("decref", rs \o RefsOf(Reverse(st))), h)
<1> DEFINE all == rs \o RefsOf(Reverse(st))
           td == Steps("decref", all)
           none == <<>>
<1>0. st \in Seq(FrameType) /\ none \in Seq(FrameType) /\ DOMAIN none = {}
  BY DEF Settled, Typed
<1>a. \A r : Held(none, r) = 0
  BY OccEmpty, Frames DEF Held, RefsOf
<1>b. RefsOf(Reverse(st)) \in Seq(RefOrNull) /\ \A r : Occurrences(RefsOf(Reverse(st)), r) = Held(st, r)
  BY <1>0, HeldReverse
<1>c. all \in Seq(RefOrNull) /\ \A r : Occurrences(all, r) = Occurrences(rs, r) + Held(st, r)
  BY <1>b, OccConcat
<1> HIDE DEF all, none
<1>1. /\ td \in Seq(ReleaseType)
      /\ \A r : Releasing(td, r) = Occurrences(all, r) /\ Freeing(td, r) = 0
  BY <1>c, DecrefSteps
<1> HIDE DEF td
<1>2. Typed(ob, gl, gv, none, lk, h) /\ Typed(ob, gl, gv, st, lk, h2)
  BY <1>0 DEF Settled, Typed
<1>3. Owners(ob) = DOMAIN ob /\ \A r \in DOMAIN ob : ob[r].ref_count # 0
  BY SettledOwners
<1>4. ASSUME NEW r \in Pos
      PROVE  Count(ob, r) = References(ob, Owners(ob), gl, gv, none, kv, lk, h, r) + Releasing(td, r)
  <2> DEFINE G == Cardinality(GlobalPlaces(gl, gv, r))
             E == Cardinality(ElementPlaces(ob, DOMAIN ob, kv, r))
             H == Held(st, r)
             L == Occurrences(lk, r)
             A == h[r]
             B == h2[r]
             O == Occurrences(rs, r)
  <2>1. G \in Nat /\ H \in Nat /\ E \in Nat /\ L \in Nat /\ A \in Nat
    BY <1>2, Terms
  <2>2. B = A + O /\ O \in Nat
    BY OccType
  <2>3. Count(ob, r) = G + H + E + L + B
    BY DEF Settled, References
  <2>4. References(ob, Owners(ob), gl, gv, none, kv, lk, h, r) = G + 0 + E + L + A
    BY <1>3, <1>a DEF References
  <2>5. Releasing(td, r) = O + H
    BY <1>1, <1>c
  <2> HIDE DEF G, E, H, L, A, B, O
  <2>6. G + H + E + L + B = (G + 0 + E + L + A) + (O + H)
    BY <2>1, <2>2
  <2> QED BY <2>3, <2>4, <2>5, <2>6
<1>d. ASSUME NEW r, Framed(st, r) PROVE r \in Leaving(ob, td) \/ r \notin Lists(ob)
  <2>1. r \in Pos /\ Count(ob, r) = 1 /\ Held(st, r) = 1
    BY <1>d, FramedCount
  <2>2. Releasing(td, r) = Occurrences(rs, r) + 1 /\ Occurrences(rs, r) \in Nat
    BY <1>1, <1>c, <2>1, OccType
  <2> QED BY <2>1, <2>2 DEF Count, Leaving, Lists
<1>5. Shape(ob, tb, gl, none, Leaving(ob, td))
  <2>1. \A r \in Lists(ob) \ Leaving(ob, td) : ListOK(ob, r) /\ (Framed(none, r) \/ Filled(ob, r))
    BY <1>d DEF Settled, Shape
  <2>2. \A r, s \in Lists(ob) \ Leaving(ob, td) : ob[r].kids[1] = ob[s].kids[1] => r = s
    BY DEF Settled, Shape
  <2>3. Private(ob, gl, none) /\ Fixed(gl)
    BY <1>0 DEF Settled, Shape, Private
  <2> QED BY <1>0, <2>1, <2>2, <2>3 DEF Shape
<1>6. \A r \in Pos : Freeing(td, r) = IF r \in DOMAIN ob /\ ob[r].ref_count = 0 THEN 1 ELSE 0
  BY <1>1, <1>3
<1>7. Pending(ob, tb, gl, gv, none, kv, lk, td, h)
  BY <1>1, <1>2, <1>4, <1>5, <1>6 DEF Pending
<1> QED BY <1>7 DEF td, all, none

\* Every call has been made.
LEMMA Settle ==
  ASSUME NEW ob, NEW tb, NEW gl, NEW gv, NEW st, NEW kv, NEW lk, NEW h,
         Pending(ob, tb, gl, gv, st, kv, lk, <<>>, h)
  PROVE  Settled(ob, tb, gl, gv, st, kv, lk, h)
<1> DEFINE none == <<>>
<1>1. \A r : Releasing(none, r) = 0 /\ Freeing(none, r) = 0
  BY OccEmpty DEF Releasing, Freeing
<1> HIDE DEF none
<1>2. Pending(ob, tb, gl, gv, st, kv, lk, none, h)
  BY DEF none
<1>3. Typed(ob, gl, gv, st, lk, h) /\ Values(ob)
  BY <1>2 DEF Pending, Typed
<1>4. \A r \in DOMAIN ob : ob[r].ref_count # 0 /\ ob[r].ref_count \in Nat /\ r \in Pos
  BY <1>1, <1>2, <1>3, ValueFields DEF Pending
<1>a. \A r \in DOMAIN ob : ob[r].ref_count > 0 /\ ~(ob[r].ref_count <= 0) /\ ob[r].ref_count >= 1
  BY <1>4
<1>5. Owners(ob) = DOMAIN ob /\ Leaving(ob, none) = {} /\ \A r \in DOMAIN ob : ob[r].ref_count >= 1
  BY <1>1, <1>a DEF Owners, Leaving
<1>6. ASSUME NEW r \in Pos PROVE Count(ob, r) = References(ob, DOMAIN ob, gl, gv, st, kv, lk, h, r)
  <2>1. Count(ob, r) = References(ob, DOMAIN ob, gl, gv, st, kv, lk, h, r) + 0
    BY <1>1, <1>2, <1>5 DEF Pending
  <2>2. /\ Cardinality(GlobalPlaces(gl, gv, r)) \in Nat /\ Held(st, r) \in Nat
        /\ Cardinality(ElementPlaces(ob, DOMAIN ob, kv, r)) \in Nat
        /\ Occurrences(lk, r) \in Nat /\ h[r] \in Nat
    BY <1>3, Terms
  <2>3. References(ob, DOMAIN ob, gl, gv, st, kv, lk, h, r) \in Nat
    BY <2>2 DEF References
  <2> QED BY <2>1, <2>3
<1>7. Shape(ob, tb, gl, st, {})
  BY <1>2, <1>5 DEF Pending
<1> QED BY <1>3, <1>5, <1>6, <1>7 DEF Settled

\* The next call is taken off the list.
LEMMA NextCall ==
  ASSUME NEW td \in Seq(ReleaseType), td # <<>>
  PROVE  /\ Tail(td) \in Seq(ReleaseType) /\ Head(td) \in ReleaseType
         /\ Head(td) = Step(Head(td).do, Head(td).ref)
         /\ \A r : Releasing(td, r) = Releasing(Tail(td), r) + (IF Head(td) = Step("decref", r) THEN 1 ELSE 0)
         /\ \A r : Freeing(td, r) = Freeing(Tail(td), r) + (IF Head(td) = Step("free", r) THEN 1 ELSE 0)
         /\ \A r : Releasing(Tail(td), r) \in Nat /\ Freeing(Tail(td), r) \in Nat
<1>1. Tail(td) \in Seq(ReleaseType) /\ Head(td) \in ReleaseType
  OBVIOUS
<1>2. \A x \in ReleaseType : x = Step(x.do, x.ref)
  BY DEF ReleaseType, Step
<1>3. \A r : Releasing(td, r) = Releasing(Tail(td), r) + (IF Head(td) = Step("decref", r) THEN 1 ELSE 0)
  BY OccTail DEF Releasing
<1>4. \A r : Freeing(td, r) = Freeing(Tail(td), r) + (IF Head(td) = Step("free", r) THEN 1 ELSE 0)
  BY OccTail DEF Freeing
<1>5. \A r : Releasing(Tail(td), r) \in Nat /\ Freeing(Tail(td), r) \in Nat
  BY <1>1, OccType DEF Releasing, Freeing
<1> QED BY <1>1, <1>2, <1>3, <1>4, <1>5

\* Steps differ in what they do or in their reference.
LEMMA StepIs ==
  ASSUME NEW x, NEW y, NEW a, NEW b
  PROVE  /\ Step(x, a) = Step(y, b) <=> x = y /\ a = b
         /\ Step(x, a).do = x /\ Step(x, a).ref = a
BY DEF Step

\* A list under construction, while calls are pending.
LEMMA FramedPending ==
  ASSUME NEW ob, NEW tb, NEW gl, NEW gv, NEW st, NEW kv, NEW lk, NEW td, NEW h,
         Pending(ob, tb, gl, gv, st, kv, lk, td, h), NEW r, Framed(st, r)
  PROVE  /\ r \in Pos /\ r \in Lists(ob) /\ ob[r].ref_count = 1 /\ Releasing(td, r) = 0 /\ r \notin Leaving(ob, td)
         /\ r \in Owners(ob)
<1>1. PICK p \in DOMAIN st : st[p].kind = "list" /\ st[p].ref = r
  BY DEF Framed
<1>2. FrameOK(ob, tb, st[p])
  BY <1>1 DEF Pending, Shape
<1>3. r \in Lists(ob) /\ ob[r].ref_count = 1 /\ r \in DOMAIN ob
  BY <1>1, <1>2 DEF FrameOK, Lists
<1>4. st \in Seq(FrameType)
  BY DEF Pending, Typed
<1>5. r \in Pos /\ RefsOf(st) \in Seq(Pos) /\ p \in DOMAIN RefsOf(st) /\ RefsOf(st)[p] = r
  BY <1>1, <1>4, Frames
<1>6. Held(st, r) >= 1
  BY <1>5, OccFound DEF Held
<1> DEFINE G == Cardinality(GlobalPlaces(gl, gv, r))
           E == Cardinality(ElementPlaces(ob, Owners(ob), kv, r))
           H == Held(st, r)
           L == Occurrences(lk, r)
           A == h[r]
           Z == Releasing(td, r)
<1>7. /\ G \in Nat /\ H \in Nat /\ E \in Nat /\ L \in Nat /\ A \in Nat /\ Z \in Nat
      /\ Count(ob, r) = G + H + E + L + A + Z
  BY <1>5, PendingTerms
<1>8. Count(ob, r) = 1 /\ H >= 1
  BY <1>3, <1>6 DEF Count
<1> HIDE DEF G, E, H, L, A, Z
<1>9. Z = 0
  BY <1>7, <1>8
<1>10. ~(ob[r].ref_count <= Releasing(td, r)) /\ ob[r].ref_count > 0
  BY <1>3, <1>9 DEF Z
<1> QED BY <1>3, <1>5, <1>9, <1>10 DEF Z, Leaving, Owners

\* decref of no reference.
LEMMA DecrefNull ==
  ASSUME NEW ob, NEW tb, NEW gl, NEW gv, NEW st, NEW kv, NEW lk, NEW td, NEW h,
         Pending(ob, tb, gl, gv, st, kv, lk, td, h), td # <<>>, Head(td).ref = NULL_REF
  PROVE  Pending(ob, tb, gl, gv, st, kv, lk, Tail(td), h)
<1>1. Typed(ob, gl, gv, st, lk, h) /\ td \in Seq(ReleaseType)
  BY DEF Pending
<1>2. /\ Tail(td) \in Seq(ReleaseType) /\ Head(td) = Step(Head(td).do, NULL_REF)
      /\ \A r : Releasing(td, r) = Releasing(Tail(td), r) + (IF Head(td) = Step("decref", r) THEN 1 ELSE 0)
      /\ \A r : Freeing(td, r) = Freeing(Tail(td), r) + (IF Head(td) = Step("free", r) THEN 1 ELSE 0)
      /\ \A r : Releasing(Tail(td), r) \in Nat /\ Freeing(Tail(td), r) \in Nat
  BY <1>1, NextCall
<1>3. \A r \in Pos : Head(td) # Step("decref", r) /\ Head(td) # Step("free", r)
  BY <1>2, StepIs DEF Pos, NULL_REF
<1>4. \A r \in Pos : Releasing(Tail(td), r) = Releasing(td, r) /\ Freeing(Tail(td), r) = Freeing(td, r)
  BY <1>2, <1>3
<1>5. \A r \in DOMAIN ob : r \in Pos
  BY <1>1, ValueFields DEF Typed
<1>6. Leaving(ob, Tail(td)) = Leaving(ob, td)
  BY <1>4, <1>5 DEF Leaving
<1> QED BY <1>1, <1>2, <1>4, <1>6 DEF Pending

\* A value has one count less.
Less(ob, x) == [ob EXCEPT ![x].ref_count = IF @ > 0 THEN @ - 1 ELSE @]

\* Nothing else about it changes.
LEMMA LessType ==
  ASSUME NEW ob, Values(ob), NEW x \in DOMAIN ob, ob[x].ref_count >= 1
  PROVE  /\ Values(Less(ob, x)) /\ Alike(ob, Less(ob, x))
         /\ Less(ob, x)[x].ref_count = ob[x].ref_count - 1
         /\ \A r \in DOMAIN ob : r # x => Less(ob, x)[r].ref_count = ob[r].ref_count
<1> DEFINE ob2 == Less(ob, x)
           c == IF ob[x].ref_count > 0 THEN ob[x].ref_count - 1 ELSE ob[x].ref_count
<1>1. ob[x] \in ValueType /\ ob[x].ref_count \in Nat
  BY ValueFields
<1>2. c = ob[x].ref_count - 1 /\ c \in Nat
  BY <1>1
<1>3. DOMAIN ob2 = DOMAIN ob /\ \A r \in DOMAIN ob : r # x => ob2[r] = ob[r]
  BY DEF Less
<1>4. ob2[x] = [ob[x] EXCEPT !.ref_count = c]
  BY DEF Less
<1> HIDE DEF c
<1>5. /\ ob2[x] \in ValueType /\ ob2[x].ref_count = c /\ ob2[x].type = ob[x].type
      /\ ob2[x].kids = ob[x].kids /\ ob2[x].size = ob[x].size
  BY <1>1, <1>2, <1>4 DEF ValueType
<1>6. ob2 = [r \in DOMAIN ob |-> ob2[r]]
  BY DEF Less
<1> HIDE DEF ob2
<1>7. \A r \in DOMAIN ob : ob2[r] \in ValueType
  BY <1>3, <1>5, ValueFields
<1>8. Values(ob2)
  BY <1>3, <1>6, <1>7 DEF Values
<1>9. Alike(ob, ob2)
  BY <1>3, <1>5 DEF Alike
<1> QED BY <1>2, <1>3, <1>5, <1>8, <1>9 DEF ob2

\* The reference decref is called with has a value.
LEMMA DecrefLive ==
  ASSUME NEW ob, NEW tb, NEW gl, NEW gv, NEW st, NEW kv, NEW lk, NEW td, NEW h,
         Pending(ob, tb, gl, gv, st, kv, lk, td, h), td # <<>>, Head(td).do = "decref",
         Head(td).ref # NULL_REF
  PROVE  LET x == Head(td).ref
         IN  /\ x \in Pos /\ x \in DOMAIN ob /\ ob[x].ref_count >= 1 /\ ~Framed(st, x)
             /\ Releasing(td, x) >= 1 /\ Releasing(td, x) <= ob[x].ref_count
             /\ Head(td) = Step("decref", x)
<1> DEFINE x == Head(td).ref
<1>1. td \in Seq(ReleaseType)
  BY DEF Pending
<1>2. /\ Head(td) \in ReleaseType /\ Head(td) = Step("decref", x)
      /\ Releasing(td, x) = Releasing(Tail(td), x) + (IF Head(td) = Step("decref", x) THEN 1 ELSE 0)
      /\ Releasing(Tail(td), x) \in Nat
  BY <1>1, NextCall
<1>3. x \in Pos
  BY <1>2 DEF ReleaseType, RefOrNull
<1> HIDE DEF x
<1>4. Releasing(td, x) >= 1
  BY <1>2
<1> DEFINE G == Cardinality(GlobalPlaces(gl, gv, x))
           E == Cardinality(ElementPlaces(ob, Owners(ob), kv, x))
           H == Held(st, x)
           L == Occurrences(lk, x)
           A == h[x]
           Z == Releasing(td, x)
<1>5. /\ G \in Nat /\ H \in Nat /\ E \in Nat /\ L \in Nat /\ A \in Nat /\ Z \in Nat
      /\ Count(ob, x) = G + H + E + L + A + Z
  BY <1>3, PendingTerms
<1>6. Z >= 1
  BY <1>4
<1> HIDE DEF G, E, H, L, A, Z
<1>7. Count(ob, x) >= 1 /\ Count(ob, x) >= Z /\ Count(ob, x) # 0
  BY <1>5, <1>6
<1>8. x \in DOMAIN ob /\ Count(ob, x) = ob[x].ref_count
  BY <1>7 DEF Count
<1>9. ~Framed(st, x)
  <2> SUFFICES ASSUME Framed(st, x) PROVE FALSE
    OBVIOUS
  <2>1. Releasing(td, x) = 0
    BY FramedPending
  <2> QED BY <1>4, <2>1
<1>10. ob[x].ref_count >= 1 /\ Releasing(td, x) <= ob[x].ref_count
  <2>1. Count(ob, x) \in Nat
    BY <1>5
  <2> QED BY <1>5, <1>7, <1>8, <2>1 DEF Z
<1> QED BY <1>2, <1>3, <1>4, <1>8, <1>9, <1>10 DEF x

\* decref of a value with other references.
LEMMA DecrefMore ==
  ASSUME NEW ob, NEW tb, NEW gl, NEW gv, NEW st, NEW kv, NEW lk, NEW td, NEW h,
         Pending(ob, tb, gl, gv, st, kv, lk, td, h), td # <<>>, Head(td).do = "decref",
         Head(td).ref # NULL_REF, NEW x, x = Head(td).ref, ob[x].ref_count > 1
  PROVE  Pending(Less(ob, x), tb, gl, gv, st, kv, lk, Tail(td), h)
<1> DEFINE ob2 == Less(ob, x)
           td2 == Tail(td)
<1>1. Typed(ob, gl, gv, st, lk, h) /\ td \in Seq(ReleaseType) /\ Values(ob)
  BY DEF Pending, Typed
<1>2. /\ x \in Pos /\ x \in DOMAIN ob /\ ob[x].ref_count >= 1 /\ ~Framed(st, x) /\ Head(td) = Step("decref", x)
  BY DecrefLive
<1>3. /\ td2 \in Seq(ReleaseType)
      /\ \A r : Releasing(td, r) = Releasing(td2, r) + (IF Head(td) = Step("decref", r) THEN 1 ELSE 0)
      /\ \A r : Freeing(td, r) = Freeing(td2, r) + (IF Head(td) = Step("free", r) THEN 1 ELSE 0)
      /\ \A r : Releasing(td2, r) \in Nat /\ Freeing(td2, r) \in Nat
  BY <1>1, NextCall
<1>4. /\ Values(ob2) /\ Alike(ob, ob2) /\ ob2[x].ref_count = ob[x].ref_count - 1
      /\ \A r \in DOMAIN ob : r # x => ob2[r].ref_count = ob[r].ref_count
  BY <1>1, <1>2, LessType
<1> HIDE DEF ob2, td2
<1>5. /\ \A r : r # x => Releasing(td, r) = Releasing(td2, r)
      /\ Releasing(td, x) = Releasing(td2, x) + 1
      /\ \A r : Freeing(td, r) = Freeing(td2, r)
  BY <1>2, <1>3, StepIs
<1>6. \A r \in DOMAIN ob : r \in Pos /\ ob[r].ref_count \in Nat
  BY <1>1, ValueFields
<1>7. DOMAIN ob2 = DOMAIN ob /\ \A r \in DOMAIN ob : ob2[r].kids = ob[r].kids
  BY <1>4 DEF Alike
<1>8. \A r \in DOMAIN ob : ob2[r].ref_count > 0 <=> ob[r].ref_count > 0
  <2> TAKE r \in DOMAIN ob
  <2>1. CASE r = x
    BY <1>2, <1>4, <1>6, <2>1
  <2>2. CASE r # x
    BY <1>4, <2>2
  <2> QED BY <2>1, <2>2
<1>9. Owners(ob2) = Owners(ob)
  BY <1>7, <1>8 DEF Owners
<1>10. ASSUME NEW r \in DOMAIN ob PROVE ob2[r].ref_count <= Releasing(td2, r) <=> ob[r].ref_count <= Releasing(td, r)
  <2>1. CASE r = x
    BY <1>3, <1>4, <1>5, <1>6, <2>1
  <2>2. CASE r # x
    BY <1>4, <1>5, <2>2
  <2> QED BY <2>1, <2>2
<1>11. Leaving(ob2, td2) = Leaving(ob, td)
  BY <1>7, <1>10 DEF Leaving
<1>12. Shape(ob2, tb, gl, st, Leaving(ob2, td2))
  <2>1. \A r : Framed(st, r) => r \notin Leaving(ob, td) /\ ob2[r].ref_count = 1
    <3> SUFFICES ASSUME NEW r, Framed(st, r) PROVE r \notin Leaving(ob, td) /\ ob2[r].ref_count = 1
      OBVIOUS
    <3>1. r \notin Leaving(ob, td) /\ ob[r].ref_count = 1 /\ r \in Lists(ob)
      BY FramedPending
    <3>2. r # x /\ r \in DOMAIN ob
      BY <1>2, <3>1 DEF Lists
    <3> QED BY <1>4, <3>1, <3>2
  <2>2. Shape(ob, tb, gl, st, Leaving(ob, td))
    BY DEF Pending
  <2> QED BY <1>4, <1>11, <2>1, <2>2, ShapeAlike
<1>13. Typed(ob2, gl, gv, st, lk, h)
  BY <1>1, <1>4 DEF Typed
<1>14. ASSUME NEW r \in Pos
       PROVE  Count(ob2, r) = References(ob2, Owners(ob2), gl, gv, st, kv, lk, h, r) + Releasing(td2, r)
  <2>1. Count(ob, r) = References(ob, Owners(ob), gl, gv, st, kv, lk, h, r) + Releasing(td, r)
    BY DEF Pending
  <2>2. \A o \in Owners(ob) : ob2[o].kids = ob[o].kids
    BY <1>7 DEF Owners
  <2>3. References(ob2, Owners(ob2), gl, gv, st, kv, lk, h, r) = References(ob, Owners(ob), gl, gv, st, kv, lk, h, r)
    BY <1>9, <2>2, PlacesSame DEF References
  <2> DEFINE R == References(ob, Owners(ob), gl, gv, st, kv, lk, h, r)
  <2>4. R \in Nat
    <3>1. /\ Cardinality(GlobalPlaces(gl, gv, r)) \in Nat /\ Held(st, r) \in Nat
          /\ Cardinality(ElementPlaces(ob, Owners(ob), kv, r)) \in Nat
          /\ Occurrences(lk, r) \in Nat /\ h[r] \in Nat
      BY PendingTerms
    <3> QED BY <3>1 DEF References
  <2> HIDE DEF R
  <2>5. CASE r = x
    <3>1. Count(ob, x) = ob[x].ref_count /\ Count(ob2, x) = ob[x].ref_count - 1
      BY <1>2, <1>4, <1>7 DEF Count
    <3>2. ob[x].ref_count = R + (Releasing(td2, x) + 1)
      BY <1>5, <2>1, <2>5, <3>1 DEF R
    <3>3. ob[x].ref_count - 1 = R + Releasing(td2, x)
      BY <1>3, <2>4, <3>2
    <3> QED BY <2>3, <2>5, <3>1, <3>3 DEF R
  <2>6. CASE r # x
    <3>1. Count(ob2, r) = Count(ob, r)
      BY <1>4, <1>7, <2>6 DEF Count
    <3> QED BY <1>5, <2>1, <2>3, <2>6, <3>1
  <2> QED BY <2>5, <2>6
<1>15. \A r \in Pos : Freeing(td2, r) = IF r \in DOMAIN ob2 /\ ob2[r].ref_count = 0 THEN 1 ELSE 0
  <2>1. \A r \in DOMAIN ob : ob2[r].ref_count = 0 <=> ob[r].ref_count = 0
    <3> TAKE r \in DOMAIN ob
    <3>1. CASE r = x
      BY <1>2, <1>4, <1>6, <3>1
    <3>2. CASE r # x
      BY <1>4, <3>2
    <3> QED BY <3>1, <3>2
  <2>2. \A r \in Pos : Freeing(td, r) = IF r \in DOMAIN ob /\ ob[r].ref_count = 0 THEN 1 ELSE 0
    BY DEF Pending
  <2> QED BY <1>5, <1>7, <2>1, <2>2
<1>16. Pending(ob2, tb, gl, gv, st, kv, lk, td2, h)
  BY <1>3, <1>12, <1>13, <1>14, <1>15 DEF Pending
<1> QED BY <1>16 DEF ob2, td2

\* The calls that release a value's references and the value itself.
Queued(rs, x, td, td2) == td2 = (Steps("decref", rs) \o <<Step("free", x)>>) \o td

\* They release each of them once.
LEMMA ReleaseSteps ==
  ASSUME NEW rs \in Seq(RefOrNull), NEW x \in Pos, NEW td \in Seq(ReleaseType), NEW td2,
         Queued(rs, x, td, td2)
  PROVE  /\ td2 \in Seq(ReleaseType)
         /\ \A r : Releasing(td2, r) = Occurrences(rs, r) + Releasing(td, r)
         /\ \A r : Freeing(td2, r) = (IF r = x THEN 1 ELSE 0) + Freeing(td, r)
<1> DEFINE a == Steps("decref", rs)
           b == <<Step("free", x)>>
<1>1. /\ a \in Seq(ReleaseType)
      /\ \A r : Releasing(a, r) = Occurrences(rs, r) /\ Freeing(a, r) = 0
  BY DecrefSteps
<1>2. Step("free", x) \in ReleaseType
  BY DEF Step, ReleaseType
<1>3. b \in Seq(ReleaseType)
  BY <1>2
<1>4. \A r : Occurrences(b, Step("decref", r)) = 0 /\ Occurrences(b, Step("free", r)) = IF r = x THEN 1 ELSE 0
  BY OccSingle, StepIs
<1>5. \A r : Releasing(b, r) = 0 /\ Freeing(b, r) = IF r = x THEN 1 ELSE 0
  BY <1>4 DEF Releasing, Freeing
<1>6. td2 = (a \o b) \o td
  BY DEF Queued
<1> HIDE DEF a, b
<1>7. a \o b \in Seq(ReleaseType)
  BY <1>1, <1>3
<1>8. td2 \in Seq(ReleaseType)
  <2> DEFINE ab == a \o b
  <2>1. ab \in Seq(ReleaseType) /\ td2 = ab \o td
    BY <1>6, <1>7
  <2> HIDE DEF ab
  <2> QED BY <2>1
<1>9. ASSUME NEW y PROVE Occurrences(td2, y) = (Occurrences(a, y) + Occurrences(b, y)) + Occurrences(td, y)
  <2> DEFINE ab == a \o b
  <2>1. Occurrences(ab, y) = Occurrences(a, y) + Occurrences(b, y)
    BY <1>1, <1>3, OccConcat
  <2> HIDE DEF ab
  <2>2. Occurrences(ab \o td, y) = Occurrences(ab, y) + Occurrences(td, y)
    BY <1>7, OccConcat DEF ab
  <2> QED BY <1>6, <2>1, <2>2 DEF ab
<1>10. \A y : Occurrences(a, y) \in Nat /\ Occurrences(b, y) \in Nat /\ Occurrences(td, y) \in Nat
  BY <1>1, <1>3, OccType
<1>11. ASSUME NEW r
       PROVE  /\ Releasing(td2, r) = Occurrences(rs, r) + Releasing(td, r)
              /\ Freeing(td2, r) = (IF r = x THEN 1 ELSE 0) + Freeing(td, r)
  <2>1. Releasing(td2, r) = (Releasing(a, r) + Releasing(b, r)) + Releasing(td, r)
    BY <1>9 DEF Releasing
  <2>2. Freeing(td2, r) = (Freeing(a, r) + Freeing(b, r)) + Freeing(td, r)
    BY <1>9 DEF Freeing
  <2>3. Occurrences(rs, r) \in Nat
    BY OccType
  <2>4. Releasing(td2, r) = (Occurrences(rs, r) + 0) + Releasing(td, r)
    BY <1>1, <1>5, <2>1
  <2>5. Freeing(td2, r) = (0 + (IF r = x THEN 1 ELSE 0)) + Freeing(td, r)
    BY <1>1, <1>5, <2>2
  <2> QED BY <2>3, <2>4, <2>5
<1> QED BY <1>8, <1>11

\* decref of the last reference: what the value refers to is to be released, and
\* then the value.
LEMMA DecrefLast ==
  ASSUME NEW ob, NEW tb, NEW gl, NEW gv, NEW st, NEW kv, NEW lk, NEW td, NEW h,
         Pending(ob, tb, gl, gv, st, kv, lk, td, h), td # <<>>, Head(td).do = "decref",
         Head(td).ref # NULL_REF, NEW x, x = Head(td).ref, ob[x].ref_count <= 1,
         \A p \in kv : p[1] # x,
         NEW td2, Queued(ob[x].kids, x, Tail(td), td2)
  PROVE  Pending(Less(ob, x), tb, gl, gv, st, kv, lk, td2, h)
<1> DEFINE ob2 == Less(ob, x)
           kids == ob[x].kids
<1>1. Typed(ob, gl, gv, st, lk, h) /\ td \in Seq(ReleaseType) /\ Values(ob)
  BY DEF Pending, Typed
<1>2. /\ x \in Pos /\ x \in DOMAIN ob /\ ob[x].ref_count >= 1 /\ ~Framed(st, x) /\ Head(td) = Step("decref", x)
      /\ Releasing(td, x) >= 1 /\ Releasing(td, x) <= ob[x].ref_count
  BY DecrefLive
<1>3. /\ Tail(td) \in Seq(ReleaseType)
      /\ \A r : Releasing(td, r) = Releasing(Tail(td), r) + (IF Head(td) = Step("decref", r) THEN 1 ELSE 0)
      /\ \A r : Freeing(td, r) = Freeing(Tail(td), r) + (IF Head(td) = Step("free", r) THEN 1 ELSE 0)
      /\ \A r : Releasing(Tail(td), r) \in Nat /\ Freeing(Tail(td), r) \in Nat
  BY <1>1, NextCall
<1>a. kids \in Seq(RefOrNull) /\ ob[x].ref_count \in Nat
  BY <1>1, <1>2, ValueFields
<1>b. ob[x].ref_count = 1 /\ Releasing(td, x) = 1
  BY <1>2, <1>3, <1>a
<1>4. /\ Values(ob2) /\ Alike(ob, ob2) /\ ob2[x].ref_count = ob[x].ref_count - 1
      /\ \A r \in DOMAIN ob : r # x => ob2[r].ref_count = ob[r].ref_count
  BY <1>1, <1>2, LessType
<1>c. ob2[x].ref_count = 0
  BY <1>4, <1>b
<1>d. Queued(kids, x, Tail(td), td2)
  OBVIOUS
<1> HIDE DEF ob2, kids
<1>5. /\ td2 \in Seq(ReleaseType)
      /\ \A r : Releasing(td2, r) = Occurrences(kids, r) + Releasing(Tail(td), r)
      /\ \A r : Freeing(td2, r) = (IF r = x THEN 1 ELSE 0) + Freeing(Tail(td), r)
  <2>1. kids \in Seq(RefOrNull) /\ x \in Pos /\ Tail(td) \in Seq(ReleaseType)
    BY <1>2, <1>3, <1>a
  <2> DEFINE tl == Tail(td)
  <2>2. tl \in Seq(ReleaseType) /\ Queued(kids, x, tl, td2)
    BY <1>d, <2>1
  <2> HIDE DEF tl
  <2>3. td2 \in Seq(ReleaseType)
    BY <2>1, <2>2, ReleaseSteps
  <2>4. \A r : Releasing(td2, r) = Occurrences(kids, r) + Releasing(tl, r)
    BY <2>1, <2>2, ReleaseSteps
  <2>5. \A r : Freeing(td2, r) = (IF r = x THEN 1 ELSE 0) + Freeing(tl, r)
    BY <2>1, <2>2, ReleaseSteps
  <2> QED BY <2>3, <2>4, <2>5 DEF tl
<1>6. /\ \A r : r # x => Releasing(Tail(td), r) = Releasing(td, r)
      /\ Releasing(Tail(td), x) = 0 /\ \A r : Freeing(Tail(td), r) = Freeing(td, r)
  BY <1>2, <1>3, <1>b, StepIs
<1>7. \A r : Occurrences(kids, r) \in Nat
  BY <1>a, OccType
<1>8. DOMAIN ob2 = DOMAIN ob /\ \A r \in DOMAIN ob : ob2[r].kids = ob[r].kids
  BY <1>4 DEF Alike
<1>e. \A r \in DOMAIN ob : r \in Pos /\ ob[r].ref_count \in Nat
  BY <1>1, ValueFields
<1>9. Owners(ob) = Owners(ob2) \cup {x} /\ x \notin Owners(ob2) /\ Owners(ob2) \in SUBSET DOMAIN ob
  <2>1. ob[x].ref_count > 0 /\ ~(ob2[x].ref_count > 0)
    BY <1>b, <1>c
  <2> QED BY <1>2, <1>4, <1>8, <2>1 DEF Owners
<1>10. ASSUME NEW r \in Pos
       PROVE  Count(ob2, r) = References(ob2, Owners(ob2), gl, gv, st, kv, lk, h, r) + Releasing(td2, r)
  <2> DEFINE G == Cardinality(GlobalPlaces(gl, gv, r))
             E == Cardinality(ElementPlaces(ob, Owners(ob), kv, r))
             E2 == Cardinality(ElementPlaces(ob, Owners(ob2), kv, r))
             H == Held(st, r)
             L == Occurrences(lk, r)
             A == h[r]
             Z == Releasing(td, r)
             K == Occurrences(kids, r)
             Y == Releasing(Tail(td), r)
  <2>1. /\ G \in Nat /\ H \in Nat /\ E \in Nat /\ L \in Nat /\ A \in Nat /\ Z \in Nat
        /\ Count(ob, r) = G + H + E + L + A + Z
    BY PendingTerms
  <2>2. E2 \in Nat
    BY <1>1, <1>9, PlacesFinite
  <2>3. E = E2 + K
    <3> DEFINE os == Owners(ob2)
    <3> HIDE DEF os
    <3>1. os \in SUBSET DOMAIN ob /\ x \in DOMAIN ob /\ x \notin os
      BY <1>2, <1>9 DEF os
    <3>2. Cardinality(ElementPlaces(ob, os \cup {x}, kv, r)) = Cardinality(ElementPlaces(ob, os, kv, r)) + Occurrences(ob[x].kids, r)
      BY <1>1, <3>1, PlacesAdd
    <3> QED BY <1>9, <3>2 DEF os, kids
  <2>4. ElementPlaces(ob2, Owners(ob2), kv, r) = ElementPlaces(ob, Owners(ob2), kv, r)
    BY <1>8, <1>9, PlacesSame
  <2>5. References(ob2, Owners(ob2), gl, gv, st, kv, lk, h, r) = G + H + E2 + L + A
    BY <2>4 DEF References
  <2>6. Releasing(td2, r) = K + Y /\ K \in Nat /\ Y \in Nat
    BY <1>3, <1>5, <1>7
  <2>7. CASE r = x
    <3>1. Count(ob, r) = 1 /\ Count(ob2, r) = 0 /\ Z = 1 /\ Y = 0
      BY <1>2, <1>6, <1>8, <1>b, <1>c, <2>7 DEF Count
    <3> HIDE DEF G, E, E2, H, L, A, Z, K, Y
    <3>a. G \in Nat /\ H \in Nat /\ E \in Nat /\ L \in Nat /\ A \in Nat /\ E2 \in Nat /\ K \in Nat
      BY <2>1, <2>2, <2>6
    <3>b. 1 = G + H + E + L + A + 1
      BY <2>1, <3>1
    <3>c. G = 0 /\ H = 0 /\ E = 0 /\ L = 0 /\ A = 0
      BY <3>a, <3>b
    <3>d. E2 = 0 /\ K = 0
      BY <2>3, <3>a, <3>c
    <3>2. 0 = (G + H + E2 + L + A) + (K + Y)
      BY <3>1, <3>c, <3>d
    <3> QED BY <2>5, <2>6, <3>1, <3>2
  <2>8. CASE r # x
    <3>1. Count(ob, r) = Count(ob2, r) /\ Y = Z
      BY <1>4, <1>6, <1>8, <2>8 DEF Count
    <3> HIDE DEF G, E, E2, H, L, A, Z, K, Y
    <3>2. G + H + E + L + A + Z = (G + H + E2 + L + A) + (K + Y)
      BY <2>1, <2>2, <2>3, <2>6, <3>1
    <3> QED BY <2>1, <2>5, <2>6, <3>1, <3>2
  <2> QED BY <2>7, <2>8
<1>11. \A r \in Pos : Freeing(td2, r) = IF r \in DOMAIN ob2 /\ ob2[r].ref_count = 0 THEN 1 ELSE 0
  <2> TAKE r \in Pos
  <2>1. Freeing(td, r) = IF r \in DOMAIN ob /\ ob[r].ref_count = 0 THEN 1 ELSE 0
    BY DEF Pending
  <2>2. CASE r = x
    <3>1. Freeing(td, r) = 0
      BY <1>b, <2>1, <2>2
    <3> QED BY <1>2, <1>5, <1>6, <1>8, <1>c, <2>2, <3>1
  <2>3. CASE r # x
    <3>1. Freeing(td2, r) = 0 + Freeing(td, r)
      BY <1>5, <1>6, <2>3
    <3>2. Freeing(td2, r) = Freeing(td, r)
      BY <2>1, <3>1
    <3> QED BY <1>4, <1>8, <2>1, <2>3, <3>2
  <2> QED BY <2>2, <2>3
<1>12. Leaving(ob, td) \subseteq Leaving(ob2, td2)
  <2> SUFFICES ASSUME NEW r \in DOMAIN ob, ob[r].ref_count <= Releasing(td, r)
               PROVE  ob2[r].ref_count <= Releasing(td2, r)
    BY <1>8 DEF Leaving
  <2>1. Releasing(td2, r) = Occurrences(kids, r) + Releasing(Tail(td), r)
        /\ Occurrences(kids, r) \in Nat /\ Releasing(Tail(td), r) \in Nat
    BY <1>3, <1>5, <1>7
  <2>2. CASE r = x
    BY <1>c, <2>1, <2>2
  <2>3. CASE r # x
    <3>1. ob2[r].ref_count = ob[r].ref_count /\ Releasing(Tail(td), r) = Releasing(td, r) /\ ob[r].ref_count \in Nat
      BY <1>4, <1>6, <1>e, <2>3
    <3> QED BY <2>1, <3>1
  <2> QED BY <2>2, <2>3
<1>13. Shape(ob2, tb, gl, st, Leaving(ob2, td2))
  <2>1. \A r : Framed(st, r) => r \notin Leaving(ob, td) /\ ob2[r].ref_count = 1
    <3> SUFFICES ASSUME NEW r, Framed(st, r) PROVE r \notin Leaving(ob, td) /\ ob2[r].ref_count = 1
      OBVIOUS
    <3>1. r \notin Leaving(ob, td) /\ ob[r].ref_count = 1 /\ r \in Lists(ob)
      BY FramedPending
    <3>2. r # x /\ r \in DOMAIN ob
      BY <1>2, <3>1 DEF Lists
    <3> QED BY <1>4, <3>1, <3>2
  <2>2. Shape(ob, tb, gl, st, Leaving(ob, td))
    BY DEF Pending
  <2> QED BY <1>4, <1>12, <2>1, <2>2, ShapeAlike
<1>14. Typed(ob2, gl, gv, st, lk, h)
  BY <1>1, <1>4 DEF Typed
<1>15. Pending(ob2, tb, gl, gv, st, kv, lk, td2, h)
  BY <1>5, <1>10, <1>11, <1>13, <1>14 DEF Pending
<1> QED BY <1>15 DEF ob2

\* The value mm_free is called with: it has no references left.
LEMMA FreeLive ==
  ASSUME NEW ob, NEW tb, NEW gl, NEW gv, NEW st, NEW kv, NEW lk, NEW td, NEW h,
         Pending(ob, tb, gl, gv, st, kv, lk, td, h), td # <<>>, Head(td).do = "free",
         NEW x, x = Head(td).ref
  PROVE  /\ x \in Pos /\ x \in DOMAIN ob /\ ob[x].ref_count = 0 /\ Head(td) = Step("free", x)
         /\ Freeing(Tail(td), x) = 0
<1>1. td \in Seq(ReleaseType)
  BY DEF Pending
<1>2. /\ Head(td) \in ReleaseType /\ Head(td) = Step("free", x)
      /\ Freeing(td, x) = Freeing(Tail(td), x) + (IF Head(td) = Step("free", x) THEN 1 ELSE 0)
      /\ Freeing(Tail(td), x) \in Nat
  BY <1>1, NextCall
<1>3. x \in Pos
  BY <1>2 DEF ReleaseType
<1>4. Freeing(td, x) = IF x \in DOMAIN ob /\ ob[x].ref_count = 0 THEN 1 ELSE 0
  BY <1>3 DEF Pending
<1>5. Freeing(td, x) = Freeing(Tail(td), x) + 1
  BY <1>2
<1> HIDE DEF Freeing
<1>6. x \in DOMAIN ob /\ ob[x].ref_count = 0
  BY <1>2, <1>4, <1>5
<1>7. Freeing(Tail(td), x) = 0
  BY <1>2, <1>4, <1>5, <1>6
<1> QED BY <1>2, <1>3, <1>6, <1>7

Dropping(ob, x) == [r \in DOMAIN ob \ {x} |-> ob[r]]

\* The value is freed.
LEMMA Freed ==
  ASSUME NEW ob, NEW tb, NEW gl, NEW gv, NEW st, NEW kv, NEW lk, NEW td, NEW h,
         Pending(ob, tb, gl, gv, st, kv, lk, td, h), td # <<>>, Head(td).do = "free",
         NEW x, x = Head(td).ref, \A p \in kv : p[1] \in Arrays(ob),
         NEW tb2, \A r \in DOMAIN ob : r # x => tb2[r] = tb[r]
  PROVE  Pending(Dropping(ob, x), tb2, gl, gv, st, kv, lk, Tail(td), h)
<1> DEFINE ob2 == Dropping(ob, x)
           td2 == Tail(td)
<1>1. Typed(ob, gl, gv, st, lk, h) /\ td \in Seq(ReleaseType) /\ Values(ob)
  BY DEF Pending, Typed
<1>2. x \in Pos /\ x \in DOMAIN ob /\ ob[x].ref_count = 0 /\ Head(td) = Step("free", x) /\ Freeing(td2, x) = 0
  BY FreeLive
<1>3. /\ td2 \in Seq(ReleaseType)
      /\ \A r : Releasing(td, r) = Releasing(td2, r) + (IF Head(td) = Step("decref", r) THEN 1 ELSE 0)
      /\ \A r : Freeing(td, r) = Freeing(td2, r) + (IF Head(td) = Step("free", r) THEN 1 ELSE 0)
      /\ \A r : Releasing(td2, r) \in Nat /\ Freeing(td2, r) \in Nat
  BY <1>1, NextCall
<1>4. DOMAIN ob2 = DOMAIN ob \ {x} /\ \A r \in DOMAIN ob : r # x => ob2[r] = ob[r]
  BY DEF Dropping
<1>a. ob2 = [r \in DOMAIN ob2 |-> ob2[r]]
  BY DEF Dropping
<1> HIDE DEF ob2, td2
<1>5. /\ \A r : Releasing(td2, r) = Releasing(td, r)
      /\ \A r : r # x => Freeing(td2, r) = Freeing(td, r)
  BY <1>2, <1>3, StepIs
<1>6. \A r \in DOMAIN ob2 : r \in DOMAIN ob /\ r # x /\ ob2[r] = ob[r]
  BY <1>4
<1>7. Values(ob2)
  <2>1. \A r \in DOMAIN ob2 : ob2[r] \in ValueType /\ r \in Pos
    BY <1>1, <1>6, ValueFields
  <2>2. IsFiniteSet(DOMAIN ob2)
    BY <1>1, <1>4, FS_Subset DEF Values
  <2> QED BY <1>a, <2>1, <2>2 DEF Values
<1>8. Typed(ob2, gl, gv, st, lk, h)
  BY <1>1, <1>7 DEF Typed
<1>9. Owners(ob2) = Owners(ob) /\ x \notin Owners(ob)
  BY <1>2, <1>4 DEF Owners
<1>10. Leaving(ob2, td2) = Leaving(ob, td) \ {x}
  BY <1>4, <1>5 DEF Leaving
<1>11. ASSUME NEW r \in Pos PROVE Count(ob2, r) = Count(ob, r)
  BY <1>2, <1>4 DEF Count
<1>12. ASSUME NEW r \in Pos
       PROVE  Count(ob2, r) = References(ob2, Owners(ob2), gl, gv, st, kv, lk, h, r) + Releasing(td2, r)
  <2>1. \A o \in Owners(ob) : ob2[o].kids = ob[o].kids
    BY <1>4, <1>9 DEF Owners
  <2>2. ElementPlaces(ob2, Owners(ob2), kv, r) = ElementPlaces(ob, Owners(ob), kv, r)
    BY <1>9, <2>1, PlacesSame
  <2>3. Count(ob, r) = References(ob, Owners(ob), gl, gv, st, kv, lk, h, r) + Releasing(td, r)
    BY DEF Pending
  <2> QED BY <1>5, <1>11, <2>2, <2>3 DEF References
<1>13. \A r \in Pos : Freeing(td2, r) = IF r \in DOMAIN ob2 /\ ob2[r].ref_count = 0 THEN 1 ELSE 0
  <2> TAKE r \in Pos
  <2>1. Freeing(td, r) = IF r \in DOMAIN ob /\ ob[r].ref_count = 0 THEN 1 ELSE 0
    BY DEF Pending
  <2>2. CASE r = x
    BY <1>2, <1>4, <2>2
  <2>3. CASE r # x
    BY <1>4, <1>5, <2>1, <2>3
  <2> QED BY <2>2, <2>3
<1>14. Shape(ob, tb, gl, st, Leaving(ob, td))
  BY DEF Pending
<1>15. Lists(ob2) = Lists(ob) \ {x} /\ Arrays(ob2) = Arrays(ob) \ {x}
  BY <1>4 DEF Lists, Arrays
<1>16. Cardinality(ElementPlaces(ob, Owners(ob), kv, x)) = 0
  <2>1. Count(ob, x) = 0
    BY <1>2 DEF Count
  <2> DEFINE G == Cardinality(GlobalPlaces(gl, gv, x))
             E == Cardinality(ElementPlaces(ob, Owners(ob), kv, x))
             H == Held(st, x)
             L == Occurrences(lk, x)
             A == h[x]
             Z == Releasing(td, x)
  <2>2. /\ G \in Nat /\ H \in Nat /\ E \in Nat /\ L \in Nat /\ A \in Nat /\ Z \in Nat
        /\ Count(ob, x) = G + H + E + L + A + Z
    BY <1>2, PendingTerms
  <2> HIDE DEF G, E, H, L, A, Z
  <2>3. E = 0
    BY <2>1, <2>2
  <2> QED BY <2>3 DEF E
<1>17. ElementPlaces(ob, Owners(ob), kv, x) = {}
  <2>1. Owners(ob) \in SUBSET DOMAIN ob
    BY DEF Owners
  <2>2. IsFiniteSet(ElementPlaces(ob, Owners(ob), kv, x))
    BY <1>1, <2>1, PlacesFinite
  <2> QED BY <1>16, <2>2, FS_EmptySet
<1>18. ASSUME NEW r \in Lists(ob) \ Leaving(ob, td)
       PROVE  r # x /\ ob[r].kids[1] # x /\ ob[r].kids[1] \in Arrays(ob)
  <2>1. ListOK(ob, r)
    BY <1>14 DEF Shape
  <2>2. r \in DOMAIN ob /\ ~(ob[r].ref_count <= Releasing(td, r))
    BY DEF Leaving, Lists
  <2>3. ob[r].ref_count \in Nat /\ ob[r].kids \in Seq(RefOrNull) /\ Releasing(td, r) \in Nat
    BY <1>1, <1>3, <1>5, <2>2, ValueFields
  <2>4. r \in Owners(ob)
    BY <2>2, <2>3 DEF Owners
  <2>5. r # x
    BY <1>9, <2>4
  <2>6. 1 \in DOMAIN ob[r].kids /\ 1 \in Pos
    BY <2>1, <2>3 DEF ListOK, Pos
  <2>7. <<r, 1>> \notin kv
    <3>1. r \notin Arrays(ob)
      BY DEF Lists, Arrays
    <3> QED BY <3>1
  <2>8. ob[r].kids[1] # x
    BY <1>17, <2>4, <2>6, <2>7, PlaceIs
  <2> QED BY <2>1, <2>5, <2>8 DEF ListOK
<1>b. \A a \in Arrays(ob2) : a \in DOMAIN ob2 /\ a \in DOMAIN ob /\ ob2[a] = ob[a] /\ a \in Arrays(ob)
  BY <1>4, <1>15 DEF Arrays
<1>c. ASSUME NEW r \in Lists(ob) \ Leaving(ob, td)
      PROVE  ob2[r] = ob[r] /\ ob2[ob[r].kids[1]] = ob[ob[r].kids[1]]
  BY <1>4, <1>18 DEF Lists, Arrays
<1>19. ASSUME NEW r \in Lists(ob2) \ Leaving(ob2, td2)
       PROVE  ListOK(ob2, r) /\ (Framed(st, r) \/ Filled(ob2, r)) /\ ob2[r].kids = ob[r].kids
  <2>1. r \in Lists(ob) \ Leaving(ob, td)
    BY <1>10, <1>15
  <2>2. ListOK(ob, r) /\ (Framed(st, r) \/ Filled(ob, r))
    BY <1>14, <2>1 DEF Shape
  <2>3. ob2[r] = ob[r] /\ ob2[ob[r].kids[1]] = ob[ob[r].kids[1]] /\ ob[r].kids[1] \in Arrays(ob2)
    BY <1>15, <1>18, <1>c, <2>1
  <2> QED BY <2>2, <2>3 DEF ListOK, Filled
<1>20. \A r, s \in Lists(ob2) \ Leaving(ob2, td2) : ob2[r].kids[1] = ob2[s].kids[1] => r = s
  <2>1. \A r \in Lists(ob2) \ Leaving(ob2, td2) : r \in Lists(ob) \ Leaving(ob, td) /\ ob2[r].kids = ob[r].kids
    BY <1>10, <1>15, <1>19
  <2>2. \A r, s \in Lists(ob) \ Leaving(ob, td) : ob[r].kids[1] = ob[s].kids[1] => r = s
    BY <1>14 DEF Shape
  <2> QED BY <2>1, <2>2
<1>21. ASSUME NEW p \in DOMAIN st, st[p].kind = "list" PROVE FrameOK(ob2, tb2, st[p])
  <2> DEFINE r == st[p].ref
  <2>1. FrameOK(ob, tb, st[p]) /\ Framed(st, r)
    BY <1>14, <1>21 DEF Shape, Framed
  <2>2. r \in Lists(ob) \ Leaving(ob, td)
    BY <2>1, FramedPending
  <2>3. /\ ob2[r] = ob[r] /\ ob2[ob[r].kids[1]] = ob[ob[r].kids[1]] /\ r # x /\ ob[r].kids[1] # x
        /\ ob[r].kids[1] \in DOMAIN ob
    BY <1>18, <1>c, <2>2 DEF Arrays
  <2>4. r \in Lists(ob2) /\ tb2[ob[r].kids[1]] = tb[ob[r].kids[1]]
    BY <1>15, <2>2, <2>3
  <2> QED BY <2>1, <2>3, <2>4 DEF FrameOK
<1>22. Private(ob2, gl, st) /\ Fixed(gl)
  <2>1. Private(ob, gl, st) /\ Fixed(gl)
    BY <1>14 DEF Shape
  <2> QED BY <1>b, <2>1 DEF Private
<1>23. Shape(ob2, tb2, gl, st, Leaving(ob2, td2))
  BY <1>19, <1>20, <1>21, <1>22 DEF Shape
<1>24. Pending(ob2, tb2, gl, gv, st, kv, lk, td2, h)
  BY <1>3, <1>8, <1>12, <1>13, <1>23 DEF Pending
<1> QED BY <1>24 DEF ob2, td2

-----------------------------------------------------------------------------
(* Collecting: the values `in' are copied, calls of operate_global are still to *)
(* be made.                                                                     *)

CopyType == [do : {"copy"}, ref : RefOrNull]
Copying(td, r) == Occurrences(td, Step("copy", r))
CopyCount(ob, in, r) == IF r \in in THEN ob[r].ref_count ELSE 0

\* A set of values that contains what its members refer to.
ClosedIn(ob, S) == \A r \in S : \A j \in DOMAIN ob[r].kids : ob[r].kids[j] \in S \cup {NULL_REF}
RootedIn(gl, S) == \A i \in DOMAIN gl : gl[i].ref \in S

Collected(ob, in, tb, gl, td) ==
  /\ Values(ob) /\ gl \in Seq(GlobalType) /\ td \in Seq(CopyType) /\ in \in SUBSET DOMAIN ob
  /\ \A r \in Pos : CopyCount(ob, in, r) + Copying(td, r)
                      = Cardinality(GlobalPlaces(gl, {}, r)) + Cardinality(ElementPlaces(ob, in, {}, r))
  /\ \A r \in in : ob[r].ref_count >= 1
  /\ Shape(ob, tb, gl, <<>>, {})
  /\ RootedIn(gl, DOMAIN ob) /\ ClosedIn(ob, DOMAIN ob)
  /\ \A S \in SUBSET DOMAIN ob : RootedIn(gl, S) /\ ClosedIn(ob, S) =>
       in \subseteq S /\ \A i \in DOMAIN td : td[i].ref \in S \cup {NULL_REF}

\* Calls of operate_global.
LEMMA CopySteps ==
  ASSUME NEW rs \in Seq(RefOrNull)
  PROVE  /\ Steps("copy", rs) \in Seq(CopyType) /\ DOMAIN Steps("copy", rs) = DOMAIN rs
         /\ \A i \in DOMAIN rs : Steps("copy", rs)[i].ref = rs[i]
         /\ \A r : Copying(Steps("copy", rs), r) = Occurrences(rs, r)
<1>1. \A r : Copying(Steps("copy", rs), r) = Occurrences(rs, r)
  BY OccSteps DEF Copying
<1>2. \A x \in RefOrNull : Step("copy", x) \in CopyType /\ Step("copy", x).ref = x
  BY DEF Step, CopyType
<1>3. Steps("copy", rs) \in [1 .. Len(rs) -> CopyType] /\ Len(rs) \in Nat
  BY <1>2 DEF Steps
<1>4. Steps("copy", rs) \in Seq(CopyType)
  BY <1>3
<1>5. DOMAIN Steps("copy", rs) = DOMAIN rs /\ \A i \in DOMAIN rs : Steps("copy", rs)[i].ref = rs[i]
  BY <1>2 DEF Steps
<1> QED BY <1>1, <1>4, <1>5

\* The next call is taken off the list.
LEMMA NextCopy ==
  ASSUME NEW td \in Seq(CopyType), td # <<>>
  PROVE  /\ Tail(td) \in Seq(CopyType) /\ Head(td) = Step("copy", Head(td).ref) /\ Head(td).ref \in RefOrNull
         /\ Head(td) = td[1] /\ 1 \in DOMAIN td
         /\ \A i \in DOMAIN Tail(td) : \E j \in DOMAIN td : Tail(td)[i] = td[j]
         /\ \A r : Copying(td, r) = Copying(Tail(td), r) + (IF Head(td).ref = r THEN 1 ELSE 0)
         /\ \A r : Copying(Tail(td), r) \in Nat
<1>1. Tail(td) \in Seq(CopyType) /\ Head(td) \in CopyType /\ Head(td) = td[1] /\ 1 \in DOMAIN td
  OBVIOUS
<1>2. \A x \in CopyType : x = Step("copy", x.ref) /\ x.ref \in RefOrNull
  BY DEF CopyType, Step
<1>3. \A r : Copying(td, r) = Copying(Tail(td), r) + (IF Head(td) = Step("copy", r) THEN 1 ELSE 0)
  BY OccTail DEF Copying
<1>4. \A r : Copying(Tail(td), r) \in Nat
  BY <1>1, OccType DEF Copying
<1>5. \A r : Head(td) = Step("copy", r) <=> Head(td).ref = r
  BY <1>1, <1>2, StepIs
<1>6. \A r : Copying(td, r) = Copying(Tail(td), r) + (IF Head(td).ref = r THEN 1 ELSE 0)
  BY <1>3, <1>5
<1>7. \A i \in DOMAIN Tail(td) : i + 1 \in DOMAIN td /\ Tail(td)[i] = td[i + 1]
  OBVIOUS
<1> QED BY <1>1, <1>2, <1>4, <1>6, <1>7

\* The globals are as many as the calls the collection starts with.
LEMMA GlobalCalls ==
  ASSUME NEW gl \in Seq(GlobalType)
  PROVE  /\ RefsOf(gl) \in Seq(RefOrNull) /\ DOMAIN RefsOf(gl) = DOMAIN gl
         /\ \A i \in DOMAIN gl : RefsOf(gl)[i] = gl[i].ref /\ gl[i].ref \in Pos
         /\ \A r : Occurrences(RefsOf(gl), r) = Cardinality(GlobalPlaces(gl, {}, r))
<1>a. \A i \in DOMAIN gl : gl[i] \in GlobalType
  OBVIOUS
<1>1. \A i \in DOMAIN gl : gl[i].ref \in Pos
  BY <1>a DEF GlobalType
<1>2. DOMAIN RefsOf(gl) = DOMAIN gl /\ \A i \in DOMAIN gl : RefsOf(gl)[i] = gl[i].ref
  BY DEF RefsOf
<1>3. RefsOf(gl) \in [1 .. Len(gl) -> RefOrNull] /\ Len(gl) \in Nat
  BY <1>1 DEF RefsOf, RefOrNull
<1>4. RefsOf(gl) \in Seq(RefOrNull)
  BY <1>3
<1>5. ASSUME NEW r PROVE {i \in DOMAIN RefsOf(gl) : RefsOf(gl)[i] = r} = GlobalPlaces(gl, {}, r)
  BY <1>2 DEF GlobalPlaces
<1> QED BY <1>1, <1>2, <1>4, <1>5 DEF Occurrences

\* gc() is called between statements: nothing is copied yet.
LEMMA CollectStart ==
  ASSUME NEW ob, NEW tb, NEW gl, NEW lk, NEW h, Settled(ob, tb, gl, {}, <<>>, {}, lk, h)
  PROVE  Collected(ob, {}, tb, gl, Steps("copy", RefsOf(gl)))
<1> DEFINE td == Steps("copy", RefsOf(gl))
           none == {}
           st == <<>>
<1>1. Values(ob) /\ gl \in Seq(GlobalType)
  BY DEF Settled, Typed
<1>2. /\ RefsOf(gl) \in Seq(RefOrNull) /\ DOMAIN RefsOf(gl) = DOMAIN gl
      /\ \A i \in DOMAIN gl : RefsOf(gl)[i] = gl[i].ref /\ gl[i].ref \in Pos
      /\ \A r : Occurrences(RefsOf(gl), r) = Cardinality(GlobalPlaces(gl, {}, r))
  BY <1>1, GlobalCalls
<1>3. /\ td \in Seq(CopyType) /\ DOMAIN td = DOMAIN gl
      /\ \A i \in DOMAIN gl : td[i].ref = gl[i].ref
      /\ \A r : Copying(td, r) = Cardinality(GlobalPlaces(gl, {}, r))
  BY <1>2, CopySteps
<1>4. \A r \in Pos : Cardinality(ElementPlaces(ob, {}, {}, r)) = 0
  <2>1. \A r \in Pos : ElementPlaces(ob, {}, {}, r) = {}
    BY DEF ElementPlaces
  <2> QED BY <2>1, FS_EmptySet
<1>5. \A r \in Pos : Cardinality(GlobalPlaces(gl, {}, r)) \in Nat
  BY <1>1, GlobalsFinite
<1> HIDE DEF td
<1>6. \A r \in Pos : CopyCount(ob, {}, r) + Copying(td, r)
                       = Cardinality(GlobalPlaces(gl, {}, r)) + Cardinality(ElementPlaces(ob, {}, {}, r))
  BY <1>3, <1>4, <1>5 DEF CopyCount
<1>7. RootedIn(gl, DOMAIN ob)
  <2> HIDE DEF none, st
  <2>1. Settled(ob, tb, gl, none, st, none, lk, h) /\ \A i : i \notin none
    BY DEF none, st
  <2> QED BY <2>1, GlobalLive DEF RootedIn
<1>8. ClosedIn(ob, DOMAIN ob)
  <2> HIDE DEF none, st
  <2>1. Settled(ob, tb, gl, none, st, none, lk, h) /\ \A i : i \notin none
    BY DEF none, st
  <2> SUFFICES ASSUME NEW r \in DOMAIN ob, NEW j \in DOMAIN ob[r].kids, ob[r].kids[j] # NULL_REF
               PROVE  ob[r].kids[j] \in DOMAIN ob
    BY DEF ClosedIn
  <2> QED BY <2>1, ElementLive
<1>9. \A S \in SUBSET DOMAIN ob : RootedIn(gl, S) /\ ClosedIn(ob, S) =>
        {} \subseteq S /\ \A i \in DOMAIN td : td[i].ref \in S \cup {NULL_REF}
  BY <1>3 DEF RootedIn
<1>10. Shape(ob, tb, gl, <<>>, {})
  BY DEF Settled
<1>11. Collected(ob, {}, tb, gl, td)
  BY <1>1, <1>3, <1>6, <1>7, <1>8, <1>9, <1>10 DEF Collected
<1> QED BY <1>11 DEF td

\* The account of a collection, in numbers.
LEMMA CollectTerms ==
  ASSUME NEW ob, NEW in, NEW tb, NEW gl, NEW td, Collected(ob, in, tb, gl, td), NEW r \in Pos
  PROVE  /\ CopyCount(ob, in, r) \in Nat /\ Copying(td, r) \in Nat
         /\ Cardinality(GlobalPlaces(gl, {}, r)) \in Nat
         /\ Cardinality(ElementPlaces(ob, in, {}, r)) \in Nat
         /\ IsFiniteSet(ElementPlaces(ob, in, {}, r))
<1>1. Values(ob) /\ gl \in Seq(GlobalType) /\ td \in Seq(CopyType) /\ in \in SUBSET DOMAIN ob
  BY DEF Collected
<1>2. CopyCount(ob, in, r) \in Nat
  BY <1>1, ValueFields DEF CopyCount
<1>3. Copying(td, r) \in Nat
  BY <1>1, OccType DEF Copying
<1> QED BY <1>1, <1>2, <1>3, GlobalsFinite, PlacesFinite

\* operate_global of no reference.
LEMMA CopyNull ==
  ASSUME NEW ob, NEW in, NEW tb, NEW gl, NEW td, Collected(ob, in, tb, gl, td), td # <<>>,
         Head(td).ref = NULL_REF
  PROVE  Collected(ob, in, tb, gl, Tail(td))
<1> DEFINE td2 == Tail(td)
<1>1. Values(ob) /\ gl \in Seq(GlobalType) /\ td \in Seq(CopyType) /\ in \in SUBSET DOMAIN ob
  BY DEF Collected
<1>2. /\ td2 \in Seq(CopyType)
      /\ \A i \in DOMAIN td2 : \E j \in DOMAIN td : td2[i] = td[j]
      /\ \A r : Copying(td, r) = Copying(td2, r) + (IF Head(td).ref = r THEN 1 ELSE 0)
      /\ \A r : Copying(td2, r) \in Nat
  BY <1>1, NextCopy
<1> HIDE DEF td2
<1>3. \A r \in Pos : Copying(td2, r) = Copying(td, r)
  BY <1>2 DEF Pos, NULL_REF
<1>4. \A r \in Pos : CopyCount(ob, in, r) + Copying(td2, r)
                      = Cardinality(GlobalPlaces(gl, {}, r)) + Cardinality(ElementPlaces(ob, in, {}, r))
  BY <1>3 DEF Collected
<1>5. \A S \in SUBSET DOMAIN ob : RootedIn(gl, S) /\ ClosedIn(ob, S) =>
        in \subseteq S /\ \A i \in DOMAIN td2 : td2[i].ref \in S \cup {NULL_REF}
  <2>1. \A S \in SUBSET DOMAIN ob : RootedIn(gl, S) /\ ClosedIn(ob, S) =>
          in \subseteq S /\ \A i \in DOMAIN td : td[i].ref \in S \cup {NULL_REF}
    BY DEF Collected
  <2> QED BY <1>2, <2>1
<1>6. Collected(ob, in, tb, gl, td2)
  BY <1>1, <1>2, <1>4, <1>5 DEF Collected
<1> QED BY <1>6 DEF td2

\* What operate_global is called with has a value.
LEMMA CopyLive ==
  ASSUME NEW ob, NEW in, NEW tb, NEW gl, NEW td, Collected(ob, in, tb, gl, td), td # <<>>,
         Head(td).ref # NULL_REF
  PROVE  Head(td).ref \in DOMAIN ob /\ Head(td).ref \in Pos
<1>1. Values(ob) /\ td \in Seq(CopyType) /\ RootedIn(gl, DOMAIN ob) /\ ClosedIn(ob, DOMAIN ob)
  BY DEF Collected
<1>2. Head(td) = td[1] /\ 1 \in DOMAIN td
  BY <1>1, NextCopy
<1>3. \A i \in DOMAIN td : td[i].ref \in DOMAIN ob \cup {NULL_REF}
  <2>1. \A S \in SUBSET DOMAIN ob : RootedIn(gl, S) /\ ClosedIn(ob, S) =>
          in \subseteq S /\ \A i \in DOMAIN td : td[i].ref \in S \cup {NULL_REF}
    BY DEF Collected
  <2> QED BY <1>1, <2>1
<1>4. Head(td).ref \in DOMAIN ob
  BY <1>2, <1>3
<1> QED BY <1>1, <1>4, ValueFields

\* Addresses do not matter without lists under construction.
LEMMA ShapeUnframed ==
  ASSUME NEW ob, NEW tb, NEW tb2, NEW gl, NEW st, NEW X, DOMAIN st = {}, Shape(ob, tb, gl, st, X)
  PROVE  Shape(ob, tb2, gl, st, X)
BY DEF Shape

\* Values with other counts only.
LEMMA ShapeCopied ==
  ASSUME NEW ob, NEW ob2, NEW tb, NEW tb2, NEW gl, Shape(ob, tb, gl, <<>>, {}), Alike(ob, ob2)
  PROVE  Shape(ob2, tb2, gl, <<>>, {})
<1> DEFINE st == <<>>
           none == {}
<1>1. DOMAIN st = {} /\ \A r : ~Framed(st, r)
  BY DEF Framed
<1>2. Shape(ob, tb, gl, st, none)
  OBVIOUS
<1> HIDE DEF st, none
<1>3. Shape(ob2, tb, gl, st, none)
  BY <1>1, <1>2, ShapeAlike
<1>4. Shape(ob2, tb2, gl, st, none)
  BY <1>1, <1>3, ShapeUnframed
<1> QED BY <1>4 DEF st, none

\* Counts do not matter for what refers to what.
LEMMA ClosedAlike ==
  ASSUME NEW ob, NEW ob2, Alike(ob, ob2), NEW S \in SUBSET DOMAIN ob
  PROVE  ClosedIn(ob2, S) <=> ClosedIn(ob, S)
<1>1. \A r \in S : ob2[r].kids = ob[r].kids
  BY DEF Alike
<1> QED BY <1>1 DEF ClosedIn

\* incref, on values.
LEMMA MoreType ==
  ASSUME NEW ob, Values(ob), NEW x \in DOMAIN ob
  PROVE  /\ Values(More(ob, x)) /\ Alike(ob, More(ob, x))
         /\ More(ob, x)[x].ref_count = ob[x].ref_count + 1
         /\ \A r \in DOMAIN ob : r # x => More(ob, x)[r].ref_count = ob[r].ref_count
<1> DEFINE ob2 == More(ob, x)
           c == ob[x].ref_count + 1
<1>1. ob[x] \in ValueType /\ ob[x].ref_count \in Nat
  BY ValueFields
<1>2. c \in Nat
  BY <1>1
<1>3. DOMAIN ob2 = DOMAIN ob /\ \A r \in DOMAIN ob : r # x => ob2[r] = ob[r]
  BY DEF More
<1>4. ob2[x] = [ob[x] EXCEPT !.ref_count = c]
  BY DEF More
<1> HIDE DEF c
<1>5. /\ ob2[x] \in ValueType /\ ob2[x].ref_count = c /\ ob2[x].type = ob[x].type
      /\ ob2[x].kids = ob[x].kids /\ ob2[x].size = ob[x].size
  BY <1>1, <1>2, <1>4 DEF ValueType
<1>6. ob2 = [r \in DOMAIN ob |-> ob2[r]]
  BY DEF More
<1> HIDE DEF ob2
<1>7. \A r \in DOMAIN ob : ob2[r] \in ValueType
  BY <1>3, <1>5, ValueFields
<1>8. Values(ob2)
  BY <1>3, <1>6, <1>7 DEF Values
<1>9. Alike(ob, ob2)
  BY <1>3, <1>5 DEF Alike
<1> QED BY <1>3, <1>5, <1>8, <1>9 DEF ob2, c

\* operate_global of a value that is copied: it is counted.
LEMMA CopyAgain ==
  ASSUME NEW ob, NEW in, NEW tb, NEW gl, NEW td, Collected(ob, in, tb, gl, td), td # <<>>,
         NEW x \in in, x = Head(td).ref
  PROVE  Collected(More(ob, x), in, tb, gl, Tail(td))
<1> DEFINE td2 == Tail(td)
           ob2 == More(ob, x)
           none == {}
<1>1. Values(ob) /\ gl \in Seq(GlobalType) /\ td \in Seq(CopyType) /\ in \in SUBSET DOMAIN ob
  BY DEF Collected
<1>2. /\ td2 \in Seq(CopyType)
      /\ \A i \in DOMAIN td2 : \E j \in DOMAIN td : td2[i] = td[j]
      /\ \A r : Copying(td, r) = Copying(td2, r) + (IF x = r THEN 1 ELSE 0)
      /\ \A r : Copying(td2, r) \in Nat
  BY <1>1, NextCopy
<1>3. x \in DOMAIN ob
  BY <1>1
<1>4. /\ Values(ob2) /\ Alike(ob, ob2) /\ ob2[x].ref_count = ob[x].ref_count + 1
      /\ \A r \in DOMAIN ob : r # x => ob2[r].ref_count = ob[r].ref_count
  BY <1>1, <1>3, MoreType
<1>5. \A r \in DOMAIN ob : ob[r].ref_count \in Nat
  BY <1>1, ValueFields
<1> HIDE DEF td2, ob2, none
<1>6. DOMAIN ob2 = DOMAIN ob /\ \A r \in DOMAIN ob : ob2[r].kids = ob[r].kids
  BY <1>4 DEF Alike
<1>7. ASSUME NEW r \in Pos
      PROVE  CopyCount(ob2, in, r) + Copying(td2, r)
               = Cardinality(GlobalPlaces(gl, {}, r)) + Cardinality(ElementPlaces(ob2, in, none, r))
  <2>1. CopyCount(ob, in, r) + Copying(td, r)
          = Cardinality(GlobalPlaces(gl, {}, r)) + Cardinality(ElementPlaces(ob, in, none, r))
    BY DEF Collected, none
  <2>2. ElementPlaces(ob2, in, none, r) = ElementPlaces(ob, in, none, r)
    BY <1>1, <1>6, PlacesSame
  <2>3. CASE r = x
    <3>1. CopyCount(ob2, in, r) = ob[x].ref_count + 1 /\ CopyCount(ob, in, r) = ob[x].ref_count
      BY <1>4, <2>3 DEF CopyCount
    <3>2. Copying(td, r) = Copying(td2, r) + 1 /\ Copying(td2, r) \in Nat /\ ob[x].ref_count \in Nat
      BY <1>2, <1>3, <1>5, <2>3
    <3>3. (ob[x].ref_count + 1) + Copying(td2, r) = ob[x].ref_count + (Copying(td2, r) + 1)
      BY <3>2
    <3> QED BY <2>1, <2>2, <3>1, <3>2, <3>3
  <2>4. CASE r # x
    <3>1. CopyCount(ob2, in, r) = CopyCount(ob, in, r)
      BY <1>1, <1>4, <2>4 DEF CopyCount
    <3>2. Copying(td, r) = Copying(td2, r)
      BY <1>2, <2>4
    <3> QED BY <2>1, <2>2, <3>1, <3>2
  <2> QED BY <2>3, <2>4
<1>8. \A r \in in : ob2[r].ref_count >= 1
  <2> TAKE r \in in
  <2>1. r \in DOMAIN ob /\ ob[r].ref_count >= 1
    BY <1>1 DEF Collected
  <2>2. CASE r = x
    BY <1>4, <1>5, <2>1, <2>2
  <2>3. CASE r # x
    BY <1>4, <2>1, <2>3
  <2> QED BY <2>2, <2>3
<1>9. Shape(ob2, tb, gl, <<>>, {})
  BY <1>4, ShapeCopied DEF Collected
<1>10. RootedIn(gl, DOMAIN ob2) /\ ClosedIn(ob2, DOMAIN ob2)
  <2>1. RootedIn(gl, DOMAIN ob) /\ ClosedIn(ob, DOMAIN ob) /\ DOMAIN ob \in SUBSET DOMAIN ob
    BY DEF Collected
  <2> QED BY <1>4, <1>6, <2>1, ClosedAlike
<1>11. ASSUME NEW S \in SUBSET DOMAIN ob2, RootedIn(gl, S), ClosedIn(ob2, S)
       PROVE  in \subseteq S /\ \A i \in DOMAIN td2 : td2[i].ref \in S \cup {NULL_REF}
  <2>1. S \in SUBSET DOMAIN ob /\ ClosedIn(ob, S)
    BY <1>4, <1>6, <1>11, ClosedAlike
  <2>2. in \subseteq S /\ \A i \in DOMAIN td : td[i].ref \in S \cup {NULL_REF}
    BY <1>11, <2>1 DEF Collected
  <2> QED BY <1>2, <2>2
<1>12. Collected(ob2, in, tb, gl, td2)
  BY <1>1, <1>2, <1>4, <1>6, <1>7, <1>8, <1>9, <1>10, <1>11 DEF Collected, none
<1> QED BY <1>12 DEF td2, ob2

\* A value with one count.
Moved(ob, x) == [ob EXCEPT ![x] = Copied(@)]

\* Nothing else about it changes.
LEMMA MovedType ==
  ASSUME NEW ob, Values(ob), NEW x \in DOMAIN ob
  PROVE  /\ Values(Moved(ob, x)) /\ Alike(ob, Moved(ob, x)) /\ Moved(ob, x)[x].ref_count = 1
         /\ \A r \in DOMAIN ob : r # x => Moved(ob, x)[r].ref_count = ob[r].ref_count
<1> DEFINE ob2 == Moved(ob, x)
<1>1. ob[x] \in ValueType
  BY ValueFields
<1>3. DOMAIN ob2 = DOMAIN ob /\ \A r \in DOMAIN ob : r # x => ob2[r] = ob[r]
  BY DEF Moved
<1>4. ob2[x] = [ob[x] EXCEPT !.ref_count = 1]
  BY DEF Moved, Copied
<1>5. /\ ob2[x] \in ValueType /\ ob2[x].ref_count = 1 /\ ob2[x].type = ob[x].type
      /\ ob2[x].kids = ob[x].kids /\ ob2[x].size = ob[x].size
  BY <1>1, <1>4 DEF ValueType
<1>6. ob2 = [r \in DOMAIN ob |-> ob2[r]]
  BY DEF Moved
<1> HIDE DEF ob2
<1>7. \A r \in DOMAIN ob : ob2[r] \in ValueType
  BY <1>3, <1>5, ValueFields
<1>8. Values(ob2)
  BY <1>3, <1>6, <1>7 DEF Values
<1>9. Alike(ob, ob2)
  BY <1>3, <1>5 DEF Alike
<1> QED BY <1>3, <1>5, <1>8, <1>9 DEF ob2

\* The calls that copy a value's references.
CopyQueued(rs, td, td2) == td2 = Steps("copy", rs) \o td

\* They copy each of them once.
LEMMA CopyQueue ==
  ASSUME NEW rs \in Seq(RefOrNull), NEW td \in Seq(CopyType), NEW td2, CopyQueued(rs, td, td2)
  PROVE  /\ td2 \in Seq(CopyType)
         /\ \A r : Copying(td2, r) = Occurrences(rs, r) + Copying(td, r)
         /\ \A i \in DOMAIN td2 : (\E j \in DOMAIN rs : td2[i].ref = rs[j]) \/ (\E j \in DOMAIN td : td2[i] = td[j])
<1> DEFINE a == Steps("copy", rs)
<1>1. /\ a \in Seq(CopyType) /\ DOMAIN a = DOMAIN rs
      /\ \A i \in DOMAIN rs : a[i].ref = rs[i]
      /\ \A r : Copying(a, r) = Occurrences(rs, r)
  BY CopySteps
<1>2. td2 = a \o td
  BY DEF CopyQueued
<1> HIDE DEF a
<1>3. td2 \in Seq(CopyType)
  BY <1>1, <1>2
<1>4. \A r : Copying(td2, r) = Copying(a, r) + Copying(td, r)
  BY <1>1, <1>2, OccConcat DEF Copying
<1>5. \A i \in DOMAIN (a \o td) : (i \in DOMAIN a /\ (a \o td)[i] = a[i])
                                  \/ (i - Len(a) \in DOMAIN td /\ (a \o td)[i] = td[i - Len(a)])
  <2>1. a \in Seq(CopyType) /\ td \in Seq(CopyType)
    BY <1>1
  <2> QED BY <2>1
<1>6. \A i \in DOMAIN td2 : (\E j \in DOMAIN rs : td2[i].ref = rs[j]) \/ (\E j \in DOMAIN td : td2[i] = td[j])
  BY <1>1, <1>2, <1>5
<1> QED BY <1>1, <1>3, <1>4, <1>6

\* operate_global of a value that is not: it is copied, and what it refers to is to be.
LEMMA CopyFirst ==
  ASSUME NEW ob, NEW in, NEW tb, NEW tb2, NEW gl, NEW td, Collected(ob, in, tb, gl, td), td # <<>>,
         NEW x, x \notin in, x = Head(td).ref, x # NULL_REF, NEW td2, CopyQueued(ob[x].kids, Tail(td), td2)
  PROVE  Collected(Moved(ob, x), in \cup {x}, tb2, gl, td2)
<1> DEFINE tl == Tail(td)
           ob2 == Moved(ob, x)
           in2 == in \cup {x}
           kids == ob[x].kids
           none == {}
<1>1. Values(ob) /\ gl \in Seq(GlobalType) /\ td \in Seq(CopyType) /\ in \in SUBSET DOMAIN ob
  BY DEF Collected
<1>2. /\ tl \in Seq(CopyType) /\ Head(td) = td[1] /\ 1 \in DOMAIN td
      /\ \A i \in DOMAIN tl : \E j \in DOMAIN td : tl[i] = td[j]
      /\ \A r : Copying(td, r) = Copying(tl, r) + (IF x = r THEN 1 ELSE 0)
      /\ \A r : Copying(tl, r) \in Nat
  BY <1>1, NextCopy
<1>3. x \in DOMAIN ob /\ x \in Pos
  BY CopyLive
<1>4. /\ Values(ob2) /\ Alike(ob, ob2) /\ ob2[x].ref_count = 1
      /\ \A r \in DOMAIN ob : r # x => ob2[r].ref_count = ob[r].ref_count
  BY <1>1, <1>3, MovedType
<1>5. kids \in Seq(RefOrNull) /\ CopyQueued(kids, tl, td2)
  BY <1>1, <1>3, ValueFields
<1> HIDE DEF tl, ob2, in2, kids, none
<1>6. /\ td2 \in Seq(CopyType)
      /\ \A r : Copying(td2, r) = Occurrences(kids, r) + Copying(tl, r)
      /\ \A i \in DOMAIN td2 : (\E j \in DOMAIN kids : td2[i].ref = kids[j]) \/ (\E j \in DOMAIN tl : td2[i] = tl[j])
  BY <1>2, <1>5, CopyQueue
<1>7. DOMAIN ob2 = DOMAIN ob /\ \A r \in DOMAIN ob : ob2[r].kids = ob[r].kids
  BY <1>4 DEF Alike
<1>8. in2 \in SUBSET DOMAIN ob2 /\ in2 \in SUBSET DOMAIN ob
  BY <1>1, <1>3, <1>7 DEF in2
<1>9. ASSUME NEW r \in Pos
      PROVE  CopyCount(ob2, in2, r) + Copying(td2, r)
               = Cardinality(GlobalPlaces(gl, {}, r)) + Cardinality(ElementPlaces(ob2, in2, none, r))
  <2> DEFINE C == CopyCount(ob, in, r)
             C2 == CopyCount(ob2, in2, r)
             G == Cardinality(GlobalPlaces(gl, {}, r))
             E == Cardinality(ElementPlaces(ob, in, none, r))
             E2 == Cardinality(ElementPlaces(ob2, in2, none, r))
             K == Occurrences(kids, r)
             Y == Copying(tl, r)
             Z == Copying(td, r)
  <2>1. C + Z = G + E
    BY DEF Collected, none
  <2>2. C \in Nat /\ Z \in Nat /\ G \in Nat /\ E \in Nat
    BY CollectTerms DEF none
  <2>3. K \in Nat /\ Y \in Nat
    BY <1>2, <1>5, OccType
  <2>4. E2 = E + K
    <3>1. Cardinality(ElementPlaces(ob, in \cup {x}, none, r))
            = Cardinality(ElementPlaces(ob, in, none, r)) + Occurrences(ob[x].kids, r)
      <4>1. \A p \in none : p[1] # x
        BY DEF none
      <4> QED BY <1>1, <1>3, <4>1, PlacesAdd
    <3>2. ElementPlaces(ob2, in2, none, r) = ElementPlaces(ob, in2, none, r)
      BY <1>7, <1>8, PlacesSame
    <3> QED BY <3>1, <3>2 DEF in2, kids
  <2>5. Copying(td2, r) = K + Y
    BY <1>6
  <2>6. CASE r = x
    <3>1. C2 = 1 /\ C = 0 /\ Z = Y + 1
      BY <1>2, <1>4, <2>6 DEF CopyCount, in2
    <3> HIDE DEF C, C2, G, E, E2, K, Y, Z
    <3>2. C2 + (K + Y) = G + E2
      BY <2>1, <2>2, <2>3, <2>4, <3>1
    <3> QED BY <2>5, <3>2 DEF C2, G, E2
  <2>7. CASE r # x
    <3>1. C2 = C /\ Z = Y
      <4>1. Z = Y
        BY <1>2, <2>7
      <4>2. r \in in2 <=> r \in in
        BY <2>7 DEF in2
      <4>3. r \in in => ob2[r].ref_count = ob[r].ref_count
        BY <1>1, <1>4, <2>7
      <4> QED BY <4>1, <4>2, <4>3 DEF CopyCount
    <3> HIDE DEF C, C2, G, E, E2, K, Y, Z
    <3>2. C2 + (K + Y) = G + E2
      BY <2>1, <2>2, <2>3, <2>4, <3>1
    <3> QED BY <2>5, <3>2 DEF C2, G, E2
  <2> QED BY <2>6, <2>7
<1>10. \A r \in in2 : ob2[r].ref_count >= 1
  <2> TAKE r \in in2
  <2>1. CASE r = x
    BY <1>4, <2>1
  <2>2. CASE r # x
    <3>1. r \in in /\ r \in DOMAIN ob /\ ob[r].ref_count >= 1
      BY <1>1, <2>2 DEF in2, Collected
    <3> QED BY <1>4, <2>2, <3>1
  <2> QED BY <2>1, <2>2
<1>11. Shape(ob2, tb2, gl, <<>>, {})
  BY <1>4, ShapeCopied DEF Collected
<1>12. RootedIn(gl, DOMAIN ob2) /\ ClosedIn(ob2, DOMAIN ob2)
  <2>1. RootedIn(gl, DOMAIN ob) /\ ClosedIn(ob, DOMAIN ob) /\ DOMAIN ob \in SUBSET DOMAIN ob
    BY DEF Collected
  <2> QED BY <1>4, <1>7, <2>1, ClosedAlike
<1>13. ASSUME NEW S \in SUBSET DOMAIN ob2, RootedIn(gl, S), ClosedIn(ob2, S)
       PROVE  in2 \subseteq S /\ \A i \in DOMAIN td2 : td2[i].ref \in S \cup {NULL_REF}
  <2>1. S \in SUBSET DOMAIN ob /\ ClosedIn(ob, S)
    BY <1>4, <1>7, <1>13, ClosedAlike
  <2>2. in \subseteq S /\ \A i \in DOMAIN td : td[i].ref \in S \cup {NULL_REF}
    BY <1>13, <2>1 DEF Collected
  <2>3. x \in S
    BY <1>2, <2>2
  <2>4. \A j \in DOMAIN kids : kids[j] \in S \cup {NULL_REF}
    BY <2>1, <2>3 DEF ClosedIn, kids
  <2>5. \A i \in DOMAIN tl : tl[i].ref \in S \cup {NULL_REF}
    BY <1>2, <2>2
  <2>6. \A i \in DOMAIN td2 : td2[i].ref \in S \cup {NULL_REF}
    BY <1>6, <2>4, <2>5
  <2> QED BY <2>2, <2>3, <2>6 DEF in2
<1>14. Collected(ob2, in2, tb2, gl, td2)
  BY <1>1, <1>4, <1>6, <1>8, <1>9, <1>10, <1>11, <1>12, <1>13 DEF Collected, none
<1> QED BY <1>14 DEF ob2, in2

\* Everything is copied: exactly what the globals reach.
LEMMA CopiedAll ==
  ASSUME NEW ob, NEW in, NEW tb, NEW gl, Collected(ob, in, tb, gl, <<>>)
  PROVE  /\ RootedIn(gl, in) /\ ClosedIn(ob, in) /\ in \in SUBSET DOMAIN ob
         /\ \A S \in SUBSET DOMAIN ob : RootedIn(gl, S) /\ ClosedIn(ob, S) => in \subseteq S
         /\ \A r \in Pos : CopyCount(ob, in, r)
              = Cardinality(GlobalPlaces(gl, {}, r)) + Cardinality(ElementPlaces(ob, in, {}, r))
<1> DEFINE td == <<>>
           none == {}
<1>1. \A r : Copying(td, r) = 0
  BY OccEmpty DEF Copying
<1> HIDE DEF td, none
<1>2. Collected(ob, in, tb, gl, td) /\ in \in SUBSET DOMAIN ob /\ Values(ob) /\ gl \in Seq(GlobalType)
  BY DEF td, Collected
<1>3. ASSUME NEW r \in Pos
      PROVE  CopyCount(ob, in, r)
               = Cardinality(GlobalPlaces(gl, none, r)) + Cardinality(ElementPlaces(ob, in, none, r))
  <2>1. CopyCount(ob, in, r) + 0
          = Cardinality(GlobalPlaces(gl, none, r)) + Cardinality(ElementPlaces(ob, in, none, r))
    BY <1>1, <1>2 DEF Collected, none
  <2>2. CopyCount(ob, in, r) \in Nat
    BY <1>2, CollectTerms
  <2> QED BY <2>1, <2>2
<1>4. ASSUME NEW r \in Pos
      PROVE  /\ Cardinality(GlobalPlaces(gl, none, r)) \in Nat
             /\ Cardinality(ElementPlaces(ob, in, none, r)) \in Nat /\ IsFiniteSet(ElementPlaces(ob, in, none, r))
  BY <1>2, CollectTerms DEF none
<1>5. RootedIn(gl, in)
  <2> SUFFICES ASSUME NEW i \in DOMAIN gl PROVE gl[i].ref \in in
    BY DEF RootedIn
  <2>1. gl[i].ref \in Pos
    BY <1>2, GlobalCalls
  <2>2. Cardinality(GlobalPlaces(gl, none, gl[i].ref)) >= 1
    BY <1>2, GlobalFound DEF none
  <2> DEFINE r == gl[i].ref
  <2> HIDE DEF r
  <2>3. CopyCount(ob, in, r) # 0
    BY <1>3, <1>4, <2>1, <2>2 DEF r
  <2>4. r \in in
    BY <2>3 DEF CopyCount
  <2> QED BY <2>4 DEF r
<1>6. ClosedIn(ob, in)
  <2> SUFFICES ASSUME NEW o \in in, NEW j \in DOMAIN ob[o].kids, ob[o].kids[j] # NULL_REF
               PROVE  ob[o].kids[j] \in in
    BY DEF ClosedIn
  <2> DEFINE r == ob[o].kids[j]
             p == <<o, j>>
  <2>1. ob[o].kids \in Seq(RefOrNull)
    BY <1>2, ValueFields
  <2>2. r \in Pos /\ j \in Pos
    BY <2>1 DEF RefOrNull, Pos
  <2>3. p \in ElementPlaces(ob, in, none, r)
    BY <2>2, PlaceIs DEF none
  <2> HIDE DEF r, p
  <2>4. Cardinality(ElementPlaces(ob, in, none, r)) # 0
    BY <1>4, <2>2, <2>3, FS_EmptySet
  <2>5. CopyCount(ob, in, r) # 0
    BY <1>3, <1>4, <2>2, <2>4
  <2>6. r \in in
    BY <2>5 DEF CopyCount
  <2> QED BY <2>6 DEF r
<1>7. \A S \in SUBSET DOMAIN ob : RootedIn(gl, S) /\ ClosedIn(ob, S) => in \subseteq S
  BY <1>2 DEF Collected
<1> QED BY <1>2, <1>3, <1>5, <1>6, <1>7 DEF none

Kept(ob, in) == [r \in in |-> ob[r]]
Zero == [r \in Pos |-> 0]

\* The rest is forgotten: the state is settled, and every count exact.
LEMMA Swept ==
  ASSUME NEW ob, NEW in, NEW tb, NEW tb2, NEW gl, Collected(ob, in, tb, gl, <<>>)
  PROVE  Settled(Kept(ob, in), tb2, gl, {}, <<>>, {}, <<>>, Zero)
<1> DEFINE ob2 == Kept(ob, in)
           st == <<>>
           lk == <<>>
           none == {}
<1>1. /\ RootedIn(gl, in) /\ ClosedIn(ob, in) /\ in \in SUBSET DOMAIN ob
      /\ \A r \in Pos : CopyCount(ob, in, r)
           = Cardinality(GlobalPlaces(gl, {}, r)) + Cardinality(ElementPlaces(ob, in, {}, r))
  BY CopiedAll
<1>2. Values(ob) /\ gl \in Seq(GlobalType) /\ Shape(ob, tb, gl, <<>>, {}) /\ \A r \in in : ob[r].ref_count >= 1
  BY DEF Collected
<1>3. DOMAIN ob2 = in /\ (\A r \in in : ob2[r] = ob[r]) /\ ob2 = [r \in DOMAIN ob2 |-> ob2[r]]
  BY DEF Kept
<1> HIDE DEF ob2
<1>4. Values(ob2)
  <2>1. \A r \in DOMAIN ob2 : ob2[r] \in ValueType /\ r \in Pos
    BY <1>1, <1>2, <1>3, ValueFields
  <2>2. IsFiniteSet(DOMAIN ob2)
    BY <1>1, <1>2, <1>3, FS_Subset DEF Values
  <2> QED BY <1>3, <2>1, <2>2 DEF Values
<1>5. /\ st \in Seq(FrameType) /\ DOMAIN st = {} /\ lk \in Seq(Pos) /\ \A r : Held(st, r) = 0 /\ Occurrences(lk, r) = 0
  BY OccEmpty DEF Held, RefsOf
<1>6. Zero \in [Pos -> Nat] /\ \A r \in Pos : Zero[r] = 0
  BY DEF Zero
<1>7. (1 .. 3) \cap none = {}
  OBVIOUS
<1> HIDE DEF st, lk, none
<1>8. Typed(ob2, gl, none, st, lk, Zero)
  BY <1>2, <1>4, <1>5, <1>6, <1>7 DEF Typed
<1>9. ASSUME NEW r \in Pos PROVE Count(ob2, r) = References(ob2, DOMAIN ob2, gl, none, st, none, lk, Zero, r)
  <2>1. Count(ob2, r) = CopyCount(ob, in, r)
    BY <1>3 DEF Count, CopyCount
  <2>2. ElementPlaces(ob2, in, none, r) = ElementPlaces(ob, in, none, r)
    BY <1>3, PlacesSame
  <2> DEFINE G == Cardinality(GlobalPlaces(gl, none, r))
             E == Cardinality(ElementPlaces(ob, in, none, r))
  <2>3. G \in Nat /\ E \in Nat
    BY <1>1, <1>2, GlobalsFinite, PlacesFinite
  <2>4. References(ob2, DOMAIN ob2, gl, none, st, none, lk, Zero, r) = G + 0 + E + 0 + 0
    BY <1>3, <1>5, <1>6, <2>2 DEF References
  <2>5. CopyCount(ob, in, r) = G + E
    BY <1>1 DEF none
  <2> HIDE DEF G, E
  <2> QED BY <2>1, <2>3, <2>4, <2>5
<1>10. \A r \in DOMAIN ob2 : ob2[r].ref_count >= 1
  BY <1>2, <1>3
<1>11. Lists(ob2) = Lists(ob) \cap in /\ Arrays(ob2) = Arrays(ob) \cap in
  BY <1>1, <1>3 DEF Lists, Arrays
<1>12. ASSUME NEW r \in Lists(ob2)
       PROVE  ListOK(ob2, r) /\ (Framed(st, r) \/ Filled(ob2, r)) /\ ob2[r].kids = ob[r].kids
  <2>1. r \in Lists(ob) /\ r \in in /\ ob2[r] = ob[r]
    BY <1>3, <1>11
  <2>2. ListOK(ob, r) /\ (Framed(<<>>, r) \/ Filled(ob, r))
    BY <1>2, <2>1 DEF Shape
  <2>3. Filled(ob, r)
    BY <2>2 DEF Framed
  <2>4. ob[r].kids \in Seq(RefOrNull) /\ r \in DOMAIN ob
    BY <1>1, <1>2, <2>1, ValueFields
  <2>5. 1 \in DOMAIN ob[r].kids /\ ob[r].kids[1] \in Arrays(ob)
    BY <2>2, <2>4 DEF ListOK
  <2>6. ob[r].kids[1] # NULL_REF
    <3>1. ob[r].kids[1] \in Pos
      BY <1>2, <2>5, ValueFields DEF Arrays
    <3> QED BY <3>1 DEF Pos, NULL_REF
  <2>7. ob[r].kids[1] \in in
    BY <1>1, <2>1, <2>5, <2>6 DEF ClosedIn
  <2>8. ob[r].kids[1] \in Arrays(ob2) /\ ob2[ob[r].kids[1]] = ob[ob[r].kids[1]]
    BY <1>3, <1>11, <2>5, <2>7
  <2> QED BY <2>1, <2>2, <2>3, <2>8 DEF ListOK, Filled
<1>13. \A r, s \in Lists(ob2) : ob2[r].kids[1] = ob2[s].kids[1] => r = s
  <2>1. \A r, s \in Lists(ob) : ob[r].kids[1] = ob[s].kids[1] => r = s
    BY <1>2 DEF Shape
  <2> QED BY <1>11, <1>12, <2>1
<1>14. Private(ob2, gl, st) /\ Fixed(gl)
  <2>1. Private(ob, gl, <<>>) /\ Fixed(gl)
    BY <1>2 DEF Shape
  <2>2. \A a \in Arrays(ob2) : a \in Arrays(ob) /\ ob2[a] = ob[a]
    BY <1>3, <1>11
  <2> QED BY <1>5, <2>1, <2>2 DEF Private
<1>15. Shape(ob2, tb2, gl, st, {})
  BY <1>5, <1>12, <1>13, <1>14 DEF Shape
<1>16. Settled(ob2, tb2, gl, none, st, none, lk, Zero)
  BY <1>8, <1>9, <1>10, <1>15 DEF Settled
<1> QED BY <1>16 DEF ob2, st, lk, none

-----------------------------------------------------------------------------
(* The pool. *)

BlockType == [addr : Nat, size : Pos]
FreeApart(fl) == \A i, j \in DOMAIN fl : i = j \/ Apart(fl[i], fl[j])

\* A set of natural numbers has a least one.
LEMMA LeastNat ==
  ASSUME NEW S \in SUBSET Nat, S # {}
  PROVE  \E m \in S : \A n \in S : m <= n
<1>1. PICK m \in S : \A n \in S : ~ (<<n, m>> \in OpToRel(<, Nat))
  BY WFMin, NatLessThanWellFounded
<1>2. ASSUME NEW n \in S PROVE m <= n
  <2>1. n \in Nat /\ m \in Nat
    OBVIOUS
  <2>2. ~(n < m)
    BY <1>1, <2>1 DEF OpToRel
  <2> QED BY <2>1, <2>2
<1> QED BY <1>2

\* mm_malloc finds a block whenever one is large enough.
LEMMA BestFitFound ==
  ASSUME NEW fl \in Seq(BlockType), NEW m \in Pos, LargeEnough(fl, m) # {}
  PROVE  BestFit(fl, m) \in DOMAIN fl /\ fl[BestFit(fl, m)].size >= m
<1> DEFINE L == LargeEnough(fl, m)
           sizes == {fl[j].size : j \in L}
<1>a. \A j \in DOMAIN fl : j \in Nat /\ fl[j] \in BlockType
  OBVIOUS
<1>b. \A x \in BlockType : x.size \in Nat
  BY DEF BlockType, Pos
<1>1. \A j \in L : j \in DOMAIN fl /\ j \in Nat /\ fl[j].size >= m /\ fl[j].size \in Nat
  BY <1>a, <1>b DEF LargeEnough
<1>2. sizes \in SUBSET Nat /\ sizes # {}
  BY <1>1
<1> HIDE DEF sizes, L
<1>3. PICK s \in sizes : \A n \in sizes : s <= n
  BY <1>2, LeastNat
<1> DEFINE K == {j \in L : fl[j].size = s}
<1>4. K \in SUBSET Nat /\ K # {}
  BY <1>1, <1>3 DEF sizes
<1>5. PICK i \in K : \A n \in K : i <= n
  BY <1>4, LeastNat
<1>6. i \in L /\ fl[i].size = s
  BY <1>5
<1>7. \A j \in L : s <= fl[j].size /\ fl[j].size \in Nat /\ s \in Nat
  BY <1>1, <1>3, <1>6 DEF sizes
<1>8. ASSUME NEW j \in L \ {i} PROVE fl[i].size < fl[j].size \/ (fl[i].size = fl[j].size /\ i < j)
  <2>1. CASE fl[j].size = s
    <3>1. j \in K /\ i <= j /\ i \in Nat /\ j \in Nat /\ i # j
      BY <1>1, <1>5, <1>6, <2>1
    <3> QED BY <1>6, <2>1, <3>1
  <2>2. CASE fl[j].size # s
    BY <1>6, <1>7, <2>2
  <2> QED BY <2>1, <2>2
<1>9. BestFit(fl, m) \in L
  <2>1. \E k \in L : \A j \in L \ {k} : fl[k].size < fl[j].size \/ (fl[k].size = fl[j].size /\ k < j)
    BY <1>6, <1>8
  <2> QED BY <2>1 DEF BestFit, L
<1> QED BY <1>1, <1>9

\* What mm_malloc takes from the list: the block i, or the first m words of it.
Taken(fl, m, i, c, fl2) ==
  /\ i \in DOMAIN fl /\ fl[i].size >= m /\ c \in BlockType /\ c.addr = fl[i].addr
  /\ c.size = (IF Splits(fl[i], m) THEN m ELSE fl[i].size)
  /\ fl2 \in Seq(BlockType)
  /\ \A j \in DOMAIN fl2 : (\E k \in DOMAIN fl : k # i /\ fl2[j] = fl[k])
                           \/ (Splits(fl[i], m) /\ fl2[j] = Rest(fl[i], m))
  /\ \A k \in DOMAIN fl : k # i => \E j \in DOMAIN fl2 : fl2[j] = fl[k]
  /\ Splits(fl[i], m) => \E j \in DOMAIN fl2 : fl2[j] = Rest(fl[i], m)
  /\ Len(fl) <= 1 => Len(fl2) <= 1 /\ (~Splits(fl[i], m) => Len(fl2) = 0)

\* The rest of a block lies in it, apart from what lies apart from the block.
LEMMA RestApart ==
  ASSUME NEW b \in BlockType, NEW c \in BlockType, NEW m \in Pos, b.size >= m, Splits(b, m), Apart(b, c)
  PROVE  Apart(Rest(b, m), c) /\ Apart(c, Rest(b, m)) /\ Rest(b, m) \in BlockType
<1>1. b.addr \in Nat /\ b.size \in Nat /\ c.addr \in Nat /\ c.size \in Nat /\ m \in Nat /\ m >= 1
  BY DEF BlockType, Pos
<1>2. Header \in Nat
  BY HeaderAssumption
<1>3. b.size - m > Header
  BY DEF Splits
<1>4. Rest(b, m).addr = b.addr + m /\ Rest(b, m).size = b.size - m
  BY DEF Rest, Block
<1>5. b.addr + m \in Nat /\ b.size - m \in Pos
  BY <1>1, <1>2, <1>3 DEF Pos
<1>6. Rest(b, m) \in BlockType
  BY <1>5 DEF Rest, Block, BlockType
<1>7. b.addr + b.size <= c.addr \/ c.addr + c.size <= b.addr
  BY DEF Apart
<1>8. (b.addr + m) + (b.size - m) <= c.addr \/ c.addr + c.size <= b.addr + m
  BY <1>1, <1>7
<1> QED BY <1>4, <1>6, <1>8 DEF Apart

\* mm_malloc.
LEMMA TakenBlock ==
  ASSUME NEW fl \in Seq(BlockType), FreeApart(fl), NEW m \in Pos, LargeEnough(fl, m) # {}
  PROVE  /\ Taken(fl, m, BestFit(fl, m), CarvedFrom(fl, m), LeftOver(fl, m))
         /\ FreeApart(LeftOver(fl, m))
<1> DEFINE i == BestFit(fl, m)
           b == fl[i]
           c == CarvedFrom(fl, m)
           fl2 == LeftOver(fl, m)
<1>1. i \in DOMAIN fl /\ b.size >= m
  BY BestFitFound
<1>2. c = Carved(b, m) /\ fl2 = IF Splits(b, m) THEN [fl EXCEPT ![i] = Rest(b, m)] ELSE RemoveAt(fl, i)
  BY DEF CarvedFrom, LeftOver
<1>a. b \in BlockType
  BY <1>1
<1> HIDE DEF i, c, fl2
<1>b. \A j \in DOMAIN fl : fl[j] \in BlockType
  OBVIOUS
<1>c. \A k, j \in DOMAIN fl : k # j => Apart(fl[k], fl[j])
  BY DEF FreeApart
<1>d. Len(fl) \in Nat /\ DOMAIN fl = 1 .. Len(fl)
  OBVIOUS
<1>e. b.addr \in Nat /\ b.size \in Pos /\ m \in Pos
  BY <1>a DEF BlockType
<1>3. CASE Splits(b, m)
  <2>1. c = Block(b.addr, m)
    BY <1>2, <1>3 DEF Carved
  <2>2. c \in BlockType /\ c.addr = b.addr /\ c.size = m
    BY <1>e, <2>1 DEF BlockType, Block
  <2>3. Rest(b, m) \in BlockType
    <3>1. b.size - m > Header /\ Header \in Nat
      BY <1>3, HeaderAssumption DEF Splits
    <3>2. b.addr + m \in Nat /\ b.size - m \in Pos
      BY SMTT(40), <1>e, <3>1 DEF Pos
    <3> QED BY <3>2 DEF Rest, Block, BlockType
  <2> DEFINE x == Rest(b, m)
  <2>4. fl2 = [fl EXCEPT ![i] = x]
    BY <1>2, <1>3
  <2> HIDE DEF x
  <2>5. /\ fl2 \in Seq(BlockType) /\ Len(fl2) = Len(fl) /\ DOMAIN fl2 = DOMAIN fl /\ fl2[i] = x
        /\ \A j \in DOMAIN fl : j # i => fl2[j] = fl[j]
    BY <1>1, <2>3, <2>4, ExceptType DEF x
  <2>6. \A k \in DOMAIN fl : k # i => Apart(x, fl[k]) /\ Apart(fl[k], x)
    <3> SUFFICES ASSUME NEW k \in DOMAIN fl, k # i PROVE Apart(x, fl[k]) /\ Apart(fl[k], x)
      OBVIOUS
    <3>1. Apart(b, fl[k]) /\ fl[k] \in BlockType
      BY <1>1, <1>b, <1>c
    <3> QED BY <1>1, <1>3, <1>a, <3>1, RestApart DEF x
  <2>7. FreeApart(fl2)
    <3> SUFFICES ASSUME NEW j \in DOMAIN fl, NEW k \in DOMAIN fl, j # k PROVE Apart(fl2[j], fl2[k])
      BY <2>5 DEF FreeApart
    <3>1. CASE j = i
      BY <2>5, <2>6, <3>1
    <3>2. CASE k = i
      BY <2>5, <2>6, <3>2
    <3>3. CASE j # i /\ k # i
      BY <1>c, <2>5, <3>3
    <3> QED BY <3>1, <3>2, <3>3
  <2>8. \A j \in DOMAIN fl2 : (\E k \in DOMAIN fl : k # i /\ fl2[j] = fl[k]) \/ fl2[j] = x
    BY <2>5
  <2>9. (\A k \in DOMAIN fl : k # i => \E j \in DOMAIN fl2 : fl2[j] = fl[k]) /\ \E j \in DOMAIN fl2 : fl2[j] = x
    BY <1>1, <2>5
  <2>10. Taken(fl, m, i, c, fl2)
    BY <1>1, <1>3, <2>2, <2>5, <2>8, <2>9 DEF Taken, x
  <2> QED BY <2>7, <2>10 DEF i, c, fl2
<1>4. CASE ~Splits(b, m)
  <2>1. c = b /\ fl2 = RemoveAt(fl, i)
    BY <1>2, <1>4 DEF Carved
  <2> DEFINE n == Len(fl)
  <2>2. /\ fl2 \in Seq(BlockType) /\ Len(fl2) = n - 1 /\ DOMAIN fl2 = 1 .. n - 1
        /\ \A j \in 1 .. n - 1 : fl2[j] = IF j < i THEN fl[j] ELSE fl[j + 1]
    BY <1>1, <2>1, RemovedAt
  <2>a. n \in Nat /\ DOMAIN fl = 1 .. n /\ i \in 1 .. n
    BY <1>1, <1>d
  <2> HIDE DEF n
  <2> DEFINE at(j) == IF j < i THEN j ELSE j + 1
  <2>3. \A j \in 1 .. n - 1 : at(j) \in DOMAIN fl /\ at(j) # i
    BY <2>a
  <2>4. \A j \in 1 .. n - 1 : fl2[j] = fl[at(j)]
    BY <2>2
  <2>5. \A j, k \in 1 .. n - 1 : j # k => at(j) # at(k)
    BY <2>a
  <2>6. \A k \in DOMAIN fl : k # i => \E j \in 1 .. n - 1 : at(j) = k
    <3> SUFFICES ASSUME NEW k \in 1 .. n, k # i PROVE \E j \in 1 .. n - 1 : at(j) = k
      BY <2>a
    <3>1. CASE k < i
      BY <2>a, <3>1
    <3>2. CASE k > i
      <4>1. k - 1 \in 1 .. n - 1 /\ at(k - 1) = k
        BY <2>a, <3>2
      <4> QED BY <4>1
    <3> QED BY <2>a, <3>1, <3>2
  <2> HIDE DEF at
  <2>7. FreeApart(fl2)
    BY <1>c, <2>2, <2>3, <2>4, <2>5 DEF FreeApart
  <2>8. \A j \in DOMAIN fl2 : \E k \in DOMAIN fl : k # i /\ fl2[j] = fl[k]
    BY <2>2, <2>3, <2>4
  <2>9. \A k \in DOMAIN fl : k # i => \E j \in DOMAIN fl2 : fl2[j] = fl[k]
    BY <2>2, <2>4, <2>6
  <2>10. Len(fl) <= 1 => Len(fl2) <= 1 /\ Len(fl2) = 0
    BY <2>2, <2>a DEF n
  <2>11. Taken(fl, m, i, c, fl2)
    BY <1>1, <1>4, <1>a, <2>1, <2>2, <2>8, <2>9, <2>10 DEF Taken
  <2> QED BY <2>7, <2>11 DEF i, c, fl2
<1> QED BY <1>3, <1>4

SpanOf(hp, a) == Block(a, hp[a].value_size)
HeapType(hp)  == hp \in [DOMAIN hp -> ValueType] /\ DOMAIN hp \subseteq Nat
Inside(b, lo, n) == lo <= b.addr /\ b.addr + b.size <= lo + n

\* The words of the pool that belong to no block.
Lost(hp, fl, lo, n) ==
  {w \in lo .. lo + n - 1 : /\ \A a \in DOMAIN hp : w \notin Words(SpanOf(hp, a))
                            /\ \A i \in DOMAIN fl : w \notin Words(fl[i])}

\* During a collection (col) there are also the values that are copied out of the
\* other half, and only the last piece of the pool can get lost.
PoolOK(hp, fl, lo, n, col) ==
  /\ HeapType(hp) /\ fl \in Seq(BlockType) /\ lo \in Nat /\ n \in Nat
  /\ \A a, b \in DOMAIN hp : a = b \/ Apart(SpanOf(hp, a), SpanOf(hp, b))
  /\ \A a \in DOMAIN hp : \A i \in DOMAIN fl : Apart(SpanOf(hp, a), fl[i])
  /\ FreeApart(fl)
  /\ \A i \in DOMAIN fl : Inside(fl[i], lo, n)
  /\ \A a \in DOMAIN hp : Inside(SpanOf(hp, a), lo, n) \/ (col /\ Apart(SpanOf(hp, a), Block(lo, n)))
  /\ Cardinality(Lost(hp, fl, lo, n)) <= Header
  /\ col => Len(fl) <= 1 /\ (Lost(hp, fl, lo, n) = {} \/ Len(fl) = 0)

\* The block of a value.
LEMMA SpanType ==
  ASSUME NEW hp, HeapType(hp), NEW a \in DOMAIN hp
  PROVE  /\ hp[a] \in ValueType /\ hp[a].value_size \in Pos /\ SpanOf(hp, a) \in BlockType
         /\ SpanOf(hp, a).addr = a /\ SpanOf(hp, a).size = hp[a].value_size /\ a \in Nat
<1>1. hp[a] \in ValueType /\ a \in Nat
  BY DEF HeapType
<1>2. hp[a].value_size \in Pos
  BY <1>1 DEF ValueType
<1> QED BY <1>1, <1>2 DEF SpanOf, Block, BlockType

\* The lost words are finitely many.
LEMMA LostFinite ==
  ASSUME NEW hp, NEW fl, NEW lo \in Nat, NEW n \in Nat
  PROVE  IsFiniteSet(Lost(hp, fl, lo, n)) /\ Cardinality(Lost(hp, fl, lo, n)) \in Nat
<1>1. IsFiniteSet(lo .. lo + n - 1)
  BY FS_Interval
<1>2. Lost(hp, fl, lo, n) \subseteq lo .. lo + n - 1
  BY DEF Lost
<1>3. IsFiniteSet(Lost(hp, fl, lo, n))
  BY <1>1, <1>2, FS_Subset
<1> QED BY <1>3, FS_CardinalityType

\* Values change, blocks do not.
LEMMA PoolSpans ==
  ASSUME NEW hp, NEW fl, NEW lo, NEW n, NEW col, PoolOK(hp, fl, lo, n, col), NEW hp2, HeapType(hp2),
         DOMAIN hp2 = DOMAIN hp, \A a \in DOMAIN hp : hp2[a].value_size = hp[a].value_size
  PROVE  PoolOK(hp2, fl, lo, n, col)
<1>1. \A a \in DOMAIN hp : SpanOf(hp2, a) = SpanOf(hp, a)
  BY DEF SpanOf
<1>2. Lost(hp2, fl, lo, n) = Lost(hp, fl, lo, n)
  BY <1>1 DEF Lost
<1>3. fl \in Seq(BlockType) /\ lo \in Nat /\ n \in Nat /\ FreeApart(fl) /\ \A i \in DOMAIN fl : Inside(fl[i], lo, n)
  BY DEF PoolOK
<1>4. \A a, b \in DOMAIN hp2 : a = b \/ Apart(SpanOf(hp2, a), SpanOf(hp2, b))
  BY <1>1 DEF PoolOK
<1>5. \A a \in DOMAIN hp2 : \A i \in DOMAIN fl : Apart(SpanOf(hp2, a), fl[i])
  BY <1>1 DEF PoolOK
<1>6. \A a \in DOMAIN hp2 : Inside(SpanOf(hp2, a), lo, n) \/ (col /\ Apart(SpanOf(hp2, a), Block(lo, n)))
  BY <1>1 DEF PoolOK
<1>7. Cardinality(Lost(hp, fl, lo, n)) <= Header /\ (col => Len(fl) <= 1 /\ (Lost(hp, fl, lo, n) = {} \/ Len(fl) = 0))
  BY DEF PoolOK
<1> QED BY <1>2, <1>3, <1>4, <1>5, <1>6, <1>7 DEF PoolOK

\* The first words of a block.
LEMMA PartApart ==
  ASSUME NEW b \in BlockType, NEW c \in BlockType, NEW s \in Pos, s <= b.size, Apart(b, c)
  PROVE  Apart(Block(b.addr, s), c) /\ Apart(c, Block(b.addr, s))
<1>1. b.addr \in Nat /\ b.size \in Nat /\ c.addr \in Nat /\ c.size \in Nat /\ s \in Nat
  BY DEF BlockType, Pos
<1>2. b.addr + b.size <= c.addr \/ c.addr + c.size <= b.addr
  BY DEF Apart
<1>3. b.addr + s <= c.addr \/ c.addr + c.size <= b.addr
  BY <1>1, <1>2
<1> QED BY <1>3 DEF Apart, Block

\* Blocks that lie apart start at different words.
LEMMA ApartStart ==
  ASSUME NEW b \in BlockType, NEW c \in BlockType, Apart(b, c)
  PROVE  b.addr # c.addr
<1>1. b.addr \in Nat /\ b.size \in Nat /\ c.addr \in Nat /\ c.size \in Nat /\ b.size >= 1 /\ c.size >= 1
  BY DEF BlockType, Pos
<1>2. b.addr + b.size <= c.addr \/ c.addr + c.size <= b.addr
  BY DEF Apart
<1> QED BY <1>1, <1>2

\* A word of a block that is split is in one of its parts.
LEMMA SplitWords ==
  ASSUME NEW b \in BlockType, NEW m \in Pos, m <= b.size, NEW s \in Pos, NEW w \in Words(b)
  PROVE  /\ w \in Words(Block(b.addr, s)) \/ w \in b.addr + s .. b.addr + b.size - 1
         /\ w \in Words(Block(b.addr, m)) \/ w \in Words(Rest(b, m))
<1>1. b.addr \in Nat /\ b.size \in Nat /\ m \in Nat /\ s \in Nat
  BY DEF BlockType, Pos
<1>2. w \in b.addr .. b.addr + b.size - 1
  BY DEF Words
<1>3. \A k \in Nat : Words(Block(b.addr, k)) = b.addr .. b.addr + k - 1
  BY DEF Words, Block
<1>4. Words(Rest(b, m)) = b.addr + m .. (b.addr + m) + (b.size - m) - 1
  BY DEF Words, Rest, Block
<1>5. w \in b.addr .. b.addr + s - 1 \/ w \in b.addr + s .. b.addr + b.size - 1
  BY <1>1, <1>2
<1>6. w \in b.addr .. b.addr + m - 1 \/ w \in b.addr + m .. (b.addr + m) + (b.size - m) - 1
  BY <1>1, <1>2
<1> QED BY <1>1, <1>3, <1>4, <1>5, <1>6

\* A new value v of at least m words in the block that mm_malloc returns.
Allocates(hp, fl, m, i, c, fl2, v, hp2, col) ==
  /\ m \in Pos /\ Taken(fl, m, i, c, fl2) /\ FreeApart(fl2)
  /\ v \in ValueType /\ (v.value_size = c.size \/ (col /\ v.value_size = m))
  /\ hp2 = Placed(hp, c.addr, v)

\* What it leaves.
LEMMA PlacedType ==
  ASSUME NEW hp, HeapType(hp), NEW a \in Nat, a \notin DOMAIN hp, NEW v \in ValueType
  PROVE  /\ HeapType(Placed(hp, a, v)) /\ DOMAIN Placed(hp, a, v) = DOMAIN hp \cup {a}
         /\ Placed(hp, a, v)[a] = v /\ \A b \in DOMAIN hp : Placed(hp, a, v)[b] = hp[b]
<1> DEFINE hp2 == Placed(hp, a, v)
<1>1. /\ DOMAIN hp2 = DOMAIN hp \cup {a} /\ hp2[a] = v /\ (\A b \in DOMAIN hp : hp2[b] = hp[b])
      /\ hp2 = [b \in DOMAIN hp2 |-> hp2[b]]
  BY DEF Placed
<1> HIDE DEF hp2
<1>2. \A b \in DOMAIN hp2 : hp2[b] \in ValueType /\ b \in Nat
  BY <1>1, SpanType
<1>3. HeapType(hp2)
  BY <1>1, <1>2 DEF HeapType
<1> QED BY <1>1, <1>3 DEF hp2

\* The pool after mm_malloc.
LEMMA PoolAlloc ==
  ASSUME NEW hp, NEW fl, NEW lo, NEW n, NEW col, PoolOK(hp, fl, lo, n, col),
         NEW m, NEW i, NEW c, NEW fl2, NEW v, NEW hp2, Allocates(hp, fl, m, i, c, fl2, v, hp2, col)
  PROVE  /\ PoolOK(hp2, fl2, lo, n, col)
         /\ c.addr \notin DOMAIN hp /\ c.addr \in Nat /\ lo <= c.addr /\ c.addr < lo + n
<1> DEFINE a == c.addr
           b == fl[i]
           s == v.value_size
<1>1. HeapType(hp) /\ fl \in Seq(BlockType) /\ lo \in Nat /\ n \in Nat
  BY DEF PoolOK
<1>2. m \in Pos /\ Taken(fl, m, i, c, fl2) /\ FreeApart(fl2) /\ v \in ValueType /\ hp2 = Placed(hp, a, v)
      /\ (s = c.size \/ (col /\ s = m))
  BY DEF Allocates
<1>3. i \in DOMAIN fl /\ b.size >= m /\ c \in BlockType /\ c.addr = b.addr
      /\ c.size = (IF Splits(b, m) THEN m ELSE b.size) /\ fl2 \in Seq(BlockType)
  BY <1>2 DEF Taken
<1>4. b \in BlockType /\ a \in Nat
  <2>1. fl \in Seq(BlockType) /\ i \in DOMAIN fl
    BY <1>1, <1>3
  <2>2. b \in BlockType
    BY <2>1
  <2>3. c \in BlockType
    BY <1>3
  <2>4. c.addr \in Nat
    BY <2>3 DEF BlockType
  <2> QED BY <2>2, <2>4
<1>5. \A e \in DOMAIN hp : Apart(SpanOf(hp, e), b)
  BY <1>3 DEF PoolOK
<1>6. a \notin DOMAIN hp
  <2> SUFFICES ASSUME a \in DOMAIN hp PROVE FALSE
    OBVIOUS
  <2>1. SpanOf(hp, a) \in BlockType /\ SpanOf(hp, a).addr = a
    BY <1>1, SpanType
  <2> QED BY <1>3, <1>4, <1>5, <2>1, ApartStart
<1>7. s \in Pos /\ b.addr \in Nat /\ b.size \in Pos /\ c.size \in Pos
  BY <1>2, <1>3, <1>4 DEF ValueType, BlockType
<1>8. s <= b.size /\ (Splits(b, m) => s = m /\ c.size = m)
  BY <1>2, <1>3, <1>7 DEF Pos
<1> DEFINE x == Block(a, s)
<1>9. x = Block(b.addr, s)
  BY <1>3
<1>10. /\ HeapType(hp2) /\ DOMAIN hp2 = DOMAIN hp \cup {a} /\ hp2[a] = v
       /\ \A e \in DOMAIN hp : hp2[e] = hp[e]
  <2>1. HeapType(hp) /\ a \in Nat /\ a \notin DOMAIN hp /\ v \in ValueType
    BY <1>1, <1>2, <1>4, <1>6
  <2>2. hp2 = Placed(hp, a, v)
    BY <1>2
  <2> HIDE DEF a
  <2>3. /\ HeapType(Placed(hp, a, v)) /\ DOMAIN Placed(hp, a, v) = DOMAIN hp \cup {a}
        /\ Placed(hp, a, v)[a] = v /\ \A e \in DOMAIN hp : Placed(hp, a, v)[e] = hp[e]
    BY <2>1, PlacedType
  <2> QED BY <2>2, <2>3
<1>11. SpanOf(hp2, a) = x /\ \A e \in DOMAIN hp : SpanOf(hp2, e) = SpanOf(hp, e)
  BY <1>10 DEF SpanOf
<1> HIDE DEF x, s, b, a
<1>12. \A e \in DOMAIN hp : Apart(x, SpanOf(hp, e)) /\ Apart(SpanOf(hp, e), x)
  <2> SUFFICES ASSUME NEW e \in DOMAIN hp PROVE Apart(x, SpanOf(hp, e)) /\ Apart(SpanOf(hp, e), x)
    OBVIOUS
  <2>1. SpanOf(hp, e) \in BlockType /\ Apart(b, SpanOf(hp, e))
    BY <1>1, <1>5, SpanType DEF Apart
  <2> QED BY <1>4, <1>7, <1>8, <1>9, <2>1, PartApart
<1>13. \A k \in DOMAIN fl : k # i => Apart(x, fl[k])
  <2> SUFFICES ASSUME NEW k \in DOMAIN fl, k # i PROVE Apart(x, fl[k])
    OBVIOUS
  <2>1. fl[k] \in BlockType
    BY <1>1
  <2>2. Apart(b, fl[k])
    BY <1>3 DEF PoolOK, FreeApart, b
  <2> QED BY <1>4, <1>7, <1>8, <1>9, <2>1, <2>2, PartApart
<1>14. ASSUME NEW j \in DOMAIN fl2
       PROVE  (\E k \in DOMAIN fl : k # i /\ fl2[j] = fl[k]) \/ (Splits(b, m) /\ fl2[j] = Rest(b, m))
  BY <1>2 DEF Taken, b
<1>15. ASSUME Splits(b, m)
       PROVE  /\ Apart(x, Rest(b, m)) /\ Inside(Rest(b, m), lo, n)
              /\ \A e \in DOMAIN hp : Apart(SpanOf(hp, e), Rest(b, m))
  <2>1. x.addr = b.addr /\ x.size = m /\ Rest(b, m).addr = b.addr + m /\ Rest(b, m).size = b.size - m
    BY <1>8, <1>9, <1>15 DEF Rest, Block
  <2>2. Apart(x, Rest(b, m))
    BY <1>2, <1>7, <2>1 DEF Apart, Pos
  <2>3. Inside(b, lo, n)
    BY <1>3 DEF PoolOK, b
  <2>4. Inside(Rest(b, m), lo, n)
    <3>1. lo <= b.addr /\ b.addr + b.size <= lo + n
      BY <2>3 DEF Inside
    <3>2. lo <= b.addr + m /\ (b.addr + m) + (b.size - m) <= lo + n
      BY <1>1, <1>2, <1>7, <3>1 DEF Pos
    <3> QED BY <2>1, <3>2 DEF Inside
  <2>5. ASSUME NEW e \in DOMAIN hp PROVE Apart(SpanOf(hp, e), Rest(b, m))
    <3>1. SpanOf(hp, e) \in BlockType /\ Apart(b, SpanOf(hp, e))
      BY <1>1, <1>5, SpanType DEF Apart
    <3> QED BY <1>2, <1>3, <1>4, <1>15, <3>1, RestApart
  <2> QED BY <2>2, <2>4, <2>5
<1>16. \A e \in DOMAIN hp2 : \A j \in DOMAIN fl2 : Apart(SpanOf(hp2, e), fl2[j])
  <2> SUFFICES ASSUME NEW e \in DOMAIN hp2, NEW j \in DOMAIN fl2 PROVE Apart(SpanOf(hp2, e), fl2[j])
    OBVIOUS
  <2>1. CASE e = a
    <3>1. SpanOf(hp2, e) = x
      BY <1>11, <2>1
    <3> QED BY <1>13, <1>14, <1>15, <3>1
  <2>2. CASE e # a
    <3>1. e \in DOMAIN hp /\ SpanOf(hp2, e) = SpanOf(hp, e)
      BY <1>10, <1>11, <2>2
    <3>2. \A k \in DOMAIN fl : Apart(SpanOf(hp, e), fl[k])
      BY <3>1 DEF PoolOK
    <3> QED BY <1>14, <1>15, <3>1, <3>2
  <2> QED BY <2>1, <2>2
<1>17. \A d, e \in DOMAIN hp2 : d = e \/ Apart(SpanOf(hp2, d), SpanOf(hp2, e))
  <2> SUFFICES ASSUME NEW d \in DOMAIN hp2, NEW e \in DOMAIN hp2, d # e
               PROVE  Apart(SpanOf(hp2, d), SpanOf(hp2, e))
    OBVIOUS
  <2>1. CASE d = a
    BY <1>10, <1>11, <1>12, <2>1
  <2>2. CASE e = a
    BY <1>10, <1>11, <1>12, <2>2
  <2>3. CASE d # a /\ e # a
    <3>1. d \in DOMAIN hp /\ e \in DOMAIN hp
      BY <1>10, <2>3
    <3> QED BY <1>11, <3>1 DEF PoolOK
  <2> QED BY <2>1, <2>2, <2>3
<1>18. \A j \in DOMAIN fl2 : Inside(fl2[j], lo, n)
  <2>1. \A k \in DOMAIN fl : Inside(fl[k], lo, n)
    BY DEF PoolOK
  <2> QED BY <1>14, <1>15, <2>1
<1>a. lo <= b.addr /\ b.addr + b.size <= lo + n
  BY <1>3 DEF PoolOK, Inside, b
<1>19. Inside(x, lo, n)
  <2>1. x.addr = b.addr /\ x.size = s
    BY <1>9 DEF Block
  <2>2. b.addr + s <= lo + n
    BY <1>1, <1>7, <1>8, <1>a DEF Pos
  <2> QED BY <1>a, <2>1, <2>2 DEF Inside
<1>20. \A e \in DOMAIN hp2 : Inside(SpanOf(hp2, e), lo, n) \/ (col /\ Apart(SpanOf(hp2, e), Block(lo, n)))
  <2>1. \A e \in DOMAIN hp : Inside(SpanOf(hp, e), lo, n) \/ (col /\ Apart(SpanOf(hp, e), Block(lo, n)))
    BY DEF PoolOK
  <2> QED BY <1>10, <1>11, <1>19, <2>1
<1> DEFINE lost == Lost(hp, fl, lo, n)
           lost2 == Lost(hp2, fl2, lo, n)
           piece == b.addr + s .. b.addr + b.size - 1
<1>21. ASSUME NEW w \in lost2 PROVE w \in lost \/ (~Splits(b, m) /\ w \in piece)
  <2>1. /\ w \in lo .. lo + n - 1 /\ (\A e \in DOMAIN hp2 : w \notin Words(SpanOf(hp2, e)))
        /\ (\A j \in DOMAIN fl2 : w \notin Words(fl2[j]))
    BY DEF Lost
  <2>2. w \notin Words(x) /\ \A e \in DOMAIN hp : w \notin Words(SpanOf(hp, e))
    BY <1>10, <1>11, <2>1
  <2>3. \A k \in DOMAIN fl : k # i => w \notin Words(fl[k])
    <3>1. \A k \in DOMAIN fl : k # i => \E j \in DOMAIN fl2 : fl2[j] = fl[k]
      BY <1>2 DEF Taken
    <3> QED BY <2>1, <3>1
  <2>4. CASE w \in Words(b)
    <3>1. /\ w \in Words(Block(b.addr, s)) \/ w \in piece
          /\ w \in Words(Block(b.addr, m)) \/ w \in Words(Rest(b, m))
      BY <1>2, <1>3, <1>4, <1>7, <2>4, SplitWords
    <3>2. w \in piece
      BY <1>9, <2>2, <3>1
    <3>3. ~Splits(b, m)
      <4> SUFFICES ASSUME Splits(b, m) PROVE FALSE
        OBVIOUS
      <4>1. w \notin Words(Rest(b, m))
        <5>1. \E j \in DOMAIN fl2 : fl2[j] = Rest(b, m)
          BY <1>2 DEF Taken, b
        <5> QED BY <2>1, <5>1
      <4>2. w \in Words(Block(b.addr, s))
        BY <1>8, <3>1, <4>1
      <4> QED BY <1>9, <2>2, <4>2
    <3> QED BY <3>2, <3>3
  <2>5. CASE w \notin Words(b)
    <3>1. \A k \in DOMAIN fl : w \notin Words(fl[k])
      BY <2>3, <2>5 DEF b
    <3> QED BY <2>1, <2>2, <3>1 DEF Lost
  <2> QED BY <2>4, <2>5
<1>22. /\ IsFiniteSet(lost) /\ Cardinality(lost) \in Nat /\ Cardinality(lost) <= Header
       /\ IsFiniteSet(lost2) /\ Cardinality(lost2) \in Nat
  BY <1>1, LostFinite DEF PoolOK
<1>23. col => Len(fl) <= 1 /\ lost = {}
  <2>1. col => Len(fl) <= 1 /\ (lost = {} \/ Len(fl) = 0)
    BY DEF PoolOK
  <2>2. Len(fl) # 0
    BY <1>1, <1>3
  <2> QED BY <2>1, <2>2
<1>24. col => Len(fl2) <= 1 /\ (~Splits(b, m) => Len(fl2) = 0)
  BY <1>2, <1>23 DEF Taken, b
<1>25. Splits(b, m) => lost2 \subseteq lost
  BY <1>21
<1>26. Cardinality(lost2) <= Header
  <2> HIDE DEF lost, lost2, piece
  <2>1. CASE Splits(b, m) \/ s = c.size
    <3>1. ~Splits(b, m) /\ s = c.size => piece = {}
      BY <1>3, <1>7 DEF piece, Pos
    <3>2. lost2 \subseteq lost
      BY <1>21, <2>1, <3>1
    <3>3. Cardinality(lost2) <= Cardinality(lost)
      BY <1>22, <3>2, FS_Subset
    <3> QED BY <1>22, <3>3, HeaderAssumption
  <2>2. CASE ~Splits(b, m) /\ s # c.size
    <3>1. col /\ s = m
      BY <1>2, <2>2 DEF s
    <3>2. lost2 \subseteq piece
      BY <1>21, <1>23, <3>1
    <3>3. b.addr + s \in Int /\ b.addr + b.size - 1 \in Int /\ b.size - s <= Header /\ b.size - s >= 0
      <4>1. ~(b.size - m > Header) /\ Header \in Nat
        BY <2>2, HeaderAssumption DEF Splits
      <4> QED BY <1>7, <1>8, <3>1, <4>1 DEF Pos
    <3> DEFINE p == b.addr + s
               q == b.addr + b.size - 1
    <3>4. p \in Int /\ q \in Int /\ piece = p .. q
      BY <3>3 DEF piece
    <3>5. q - p + 1 = b.size - s
      BY <1>7 DEF Pos
    <3> HIDE DEF p, q
    <3>6. IsFiniteSet(piece) /\ Cardinality(piece) = IF p > q THEN 0 ELSE q - p + 1
      BY <3>4, FS_Interval
    <3>7. Cardinality(piece) <= Header
      BY <3>3, <3>5, <3>6, HeaderAssumption
    <3>8. Cardinality(lost2) <= Cardinality(piece) /\ Cardinality(piece) \in Nat
      BY <3>2, <3>6, FS_Subset, FS_CardinalityType
    <3> QED BY <1>22, <3>7, <3>8, HeaderAssumption
  <2> QED BY <2>1, <2>2
<1>27. col => Len(fl2) <= 1 /\ (lost2 = {} \/ Len(fl2) = 0)
  BY <1>23, <1>24, <1>25
<1>28. PoolOK(hp2, fl2, lo, n, col)
  BY <1>1, <1>2, <1>3, <1>10, <1>16, <1>17, <1>18, <1>20, <1>26, <1>27 DEF PoolOK
<1>29. lo <= c.addr /\ c.addr < lo + n
  BY <1>1, <1>3, <1>7, <1>a DEF Pos
<1> QED BY <1>4, <1>6, <1>28, <1>29 DEF a

\* The values that remain.
LEMMA WithoutType ==
  ASSUME NEW hp, HeapType(hp), NEW S
  PROVE  /\ HeapType(Without(hp, S)) /\ DOMAIN Without(hp, S) = DOMAIN hp \ S
         /\ \A a \in DOMAIN hp \ S : Without(hp, S)[a] = hp[a] /\ SpanOf(Without(hp, S), a) = SpanOf(hp, a)
<1> DEFINE hp2 == Without(hp, S)
<1>1. /\ DOMAIN hp2 = DOMAIN hp \ S /\ (\A a \in DOMAIN hp \ S : hp2[a] = hp[a])
      /\ hp2 = [a \in DOMAIN hp2 |-> hp2[a]]
  BY DEF Without
<1> HIDE DEF hp2
<1>2. \A b \in DOMAIN hp2 : hp2[b] \in ValueType /\ b \in Nat
  BY <1>1, SpanType
<1>3. HeapType(hp2)
  BY <1>1, <1>2 DEF HeapType
<1>4. \A a \in DOMAIN hp \ S : SpanOf(hp2, a) = SpanOf(hp, a)
  BY <1>1 DEF SpanOf
<1> QED BY <1>1, <1>3, <1>4 DEF hp2

\* One block in front of a list.
LEMMA PushedFree ==
  ASSUME NEW fl \in Seq(BlockType), NEW b \in BlockType, NEW fl2, fl2 = <<b>> \o fl
  PROVE  /\ fl2 \in Seq(BlockType) /\ Len(fl2) = Len(fl) + 1 /\ fl2[1] = b /\ 1 \in DOMAIN fl2
         /\ \A j \in DOMAIN fl2 : j # 1 => j - 1 \in DOMAIN fl /\ fl2[j] = fl[j - 1]
         /\ \A k \in DOMAIN fl : k + 1 \in DOMAIN fl2 /\ fl2[k + 1] = fl[k]
<1>1. <<b>> \in Seq(BlockType) /\ Len(<<b>>) = 1 /\ <<b>>[1] = b
  OBVIOUS
<1> DEFINE one == <<b>>
<1>2. one \in Seq(BlockType) /\ Len(one) = 1 /\ one[1] = b /\ fl2 = one \o fl
  BY <1>1
<1> HIDE DEF one
<1>3. fl2 \in Seq(BlockType) /\ Len(fl2) = Len(fl) + 1
  BY <1>2
<1>4. \A j \in 1 .. Len(fl) + 1 : fl2[j] = IF j <= 1 THEN one[j] ELSE fl[j - 1]
  BY <1>2
<1>5. DOMAIN fl = 1 .. Len(fl) /\ DOMAIN fl2 = 1 .. Len(fl) + 1 /\ Len(fl) \in Nat
  BY <1>3
<1>6. fl2[1] = b /\ 1 \in DOMAIN fl2
  BY <1>2, <1>4, <1>5
<1>7. \A j \in DOMAIN fl2 : j # 1 => j - 1 \in DOMAIN fl /\ fl2[j] = fl[j - 1]
  BY <1>4, <1>5
<1>8. \A k \in DOMAIN fl : k + 1 \in DOMAIN fl2 /\ fl2[k + 1] = fl[k]
  BY <1>5, <1>7
<1> QED BY <1>3, <1>6, <1>7, <1>8

\* The pool after mm_free of the value at a.
LEMMA PoolFree ==
  ASSUME NEW hp, NEW fl, NEW lo, NEW n, PoolOK(hp, fl, lo, n, FALSE), NEW a \in DOMAIN hp,
         NEW hp2, hp2 = Without(hp, {a}), NEW fl2, fl2 = <<SpanOf(hp, a)>> \o fl
  PROVE  PoolOK(hp2, fl2, lo, n, FALSE)
<1> DEFINE b == SpanOf(hp, a)
<1>1. HeapType(hp) /\ fl \in Seq(BlockType) /\ lo \in Nat /\ n \in Nat /\ FreeApart(fl)
  BY DEF PoolOK
<1>2. b \in BlockType
  BY <1>1, SpanType
<1>3. /\ HeapType(hp2) /\ DOMAIN hp2 = DOMAIN hp \ {a}
      /\ \A e \in DOMAIN hp2 : SpanOf(hp2, e) = SpanOf(hp, e)
  <2> DEFINE S == {a}
  <2> HIDE DEF S
  <2>1. /\ HeapType(Without(hp, S)) /\ DOMAIN Without(hp, S) = DOMAIN hp \ S
        /\ \A e \in DOMAIN hp \ S : SpanOf(Without(hp, S), e) = SpanOf(hp, e)
    BY <1>1, WithoutType
  <2> QED BY <2>1 DEF S
<1> HIDE DEF b
<1>4. fl2 = <<b>> \o fl
  BY DEF b
<1>5. /\ fl2 \in Seq(BlockType) /\ fl2[1] = b /\ 1 \in DOMAIN fl2
      /\ \A j \in DOMAIN fl2 : j # 1 => j - 1 \in DOMAIN fl /\ fl2[j] = fl[j - 1]
      /\ \A k \in DOMAIN fl : k + 1 \in DOMAIN fl2 /\ fl2[k + 1] = fl[k]
  BY <1>1, <1>2, <1>4, PushedFree
<1>6. \A d, e \in DOMAIN hp2 : d = e \/ Apart(SpanOf(hp2, d), SpanOf(hp2, e))
  BY <1>3 DEF PoolOK
<1>7. /\ \A k \in DOMAIN fl : Apart(b, fl[k]) /\ Apart(fl[k], b)
      /\ \A e \in DOMAIN hp : \A k \in DOMAIN fl : Apart(SpanOf(hp, e), fl[k])
      /\ \A e \in DOMAIN hp : e # a => Apart(SpanOf(hp, e), b)
  BY DEF PoolOK, b, Apart
<1>8. \A e \in DOMAIN hp2 : \A j \in DOMAIN fl2 : Apart(SpanOf(hp2, e), fl2[j])
  BY <1>3, <1>5, <1>7
<1>9. FreeApart(fl2)
  <2> SUFFICES ASSUME NEW i \in DOMAIN fl2, NEW j \in DOMAIN fl2, i # j PROVE Apart(fl2[i], fl2[j])
    BY DEF FreeApart
  <2>1. CASE i = 1
    BY <1>5, <1>7, <2>1
  <2>2. CASE j = 1
    BY <1>5, <1>7, <2>2
  <2>3. CASE i # 1 /\ j # 1
    <3>1. i - 1 \in DOMAIN fl /\ j - 1 \in DOMAIN fl /\ fl2[i] = fl[i - 1] /\ fl2[j] = fl[j - 1]
      BY <1>5, <2>3
    <3>2. i \in Nat /\ j \in Nat
      BY <1>5
    <3>3. i - 1 # j - 1
      BY <3>2
    <3> QED BY <1>1, <3>1, <3>3 DEF FreeApart
  <2> QED BY <2>1, <2>2, <2>3
<1>10. (\A k \in DOMAIN fl : Inside(fl[k], lo, n)) /\ \A e \in DOMAIN hp : Inside(SpanOf(hp, e), lo, n)
  BY DEF PoolOK
<1>11. \A j \in DOMAIN fl2 : Inside(fl2[j], lo, n)
  BY <1>5, <1>10 DEF b
<1>12. \A e \in DOMAIN hp2 : Inside(SpanOf(hp2, e), lo, n)
  BY <1>3, <1>10
<1>13. Lost(hp2, fl2, lo, n) = Lost(hp, fl, lo, n)
  <2> SUFFICES ASSUME NEW w
               PROVE  ((\A e \in DOMAIN hp2 : w \notin Words(SpanOf(hp2, e))) /\ \A j \in DOMAIN fl2 : w \notin Words(fl2[j]))
                      <=> ((\A e \in DOMAIN hp : w \notin Words(SpanOf(hp, e))) /\ \A k \in DOMAIN fl : w \notin Words(fl[k]))
    BY DEF Lost
  <2>1. (\A j \in DOMAIN fl2 : w \notin Words(fl2[j])) <=> (w \notin Words(b) /\ \A k \in DOMAIN fl : w \notin Words(fl[k]))
    BY <1>5
  <2>2. (\A e \in DOMAIN hp : w \notin Words(SpanOf(hp, e)))
        <=> (w \notin Words(b) /\ \A e \in DOMAIN hp2 : w \notin Words(SpanOf(hp2, e)))
    BY <1>3 DEF b
  <2> QED BY <2>1, <2>2
<1>14. Cardinality(Lost(hp2, fl2, lo, n)) <= Header
  BY <1>13 DEF PoolOK
<1> QED BY <1>1, <1>3, <1>5, <1>6, <1>8, <1>9, <1>11, <1>12, <1>14 DEF PoolOK

\* A collection starts with one free block that no value reaches into.
LEMMA PoolFlip ==
  ASSUME NEW hp, NEW fl, NEW lo, NEW n, PoolOK(hp, fl, lo, n, FALSE), NEW l2 \in Nat, NEW n2 \in Pos,
         \A a \in DOMAIN hp : a + hp[a].value_size <= l2 \/ a >= l2 + n2
  PROVE  PoolOK(hp, mm_init(l2, n2), l2, n2, TRUE)
<1> DEFINE b == Block(l2, n2)
           fl2 == mm_init(l2, n2)
<1>1. HeapType(hp) /\ \A d, e \in DOMAIN hp : d = e \/ Apart(SpanOf(hp, d), SpanOf(hp, e))
  BY DEF PoolOK
<1>2. b \in BlockType /\ b.addr = l2 /\ b.size = n2 /\ n2 \in Nat
  BY DEF Block, BlockType, Pos
<1>3. fl2 = <<b>>
  BY DEF mm_init
<1> HIDE DEF b, fl2
<1>4. fl2 \in Seq(BlockType) /\ Len(fl2) = 1 /\ DOMAIN fl2 = {1} /\ fl2[1] = b
  BY <1>2, <1>3
<1>5. \A e \in DOMAIN hp : Apart(SpanOf(hp, e), b)
  <2> SUFFICES ASSUME NEW e \in DOMAIN hp PROVE Apart(SpanOf(hp, e), b)
    OBVIOUS
  <2>1. SpanOf(hp, e).addr = e /\ SpanOf(hp, e).size = hp[e].value_size
    BY <1>1, SpanType
  <2>2. e + hp[e].value_size <= l2 \/ e >= l2 + n2
    OBVIOUS
  <2>3. e \in Nat
    BY <1>1 DEF HeapType
  <2> QED BY <1>2, <2>1, <2>2, <2>3 DEF Apart
<1>6. \A e \in DOMAIN hp : \A j \in DOMAIN fl2 : Apart(SpanOf(hp, e), fl2[j])
  BY <1>4, <1>5
<1>7. FreeApart(fl2)
  BY <1>4 DEF FreeApart
<1>8. \A j \in DOMAIN fl2 : Inside(fl2[j], l2, n2)
  BY <1>2, <1>4 DEF Inside
<1>9. Lost(hp, fl2, l2, n2) = {}
  <2>1. Words(fl2[1]) = l2 .. l2 + n2 - 1
    BY <1>2, <1>4 DEF Words
  <2> QED BY <1>4, <2>1 DEF Lost
<1>10. Cardinality(Lost(hp, fl2, l2, n2)) <= Header
  <2>1. Cardinality({}) = 0
    BY FS_EmptySet
  <2> QED BY <1>9, <2>1, HeaderAssumption
<1>11. \A e \in DOMAIN hp : Inside(SpanOf(hp, e), l2, n2) \/ (TRUE /\ Apart(SpanOf(hp, e), Block(l2, n2)))
  BY <1>5 DEF b
<1>12. PoolOK(hp, fl2, l2, n2, TRUE)
  BY <1>1, <1>2, <1>4, <1>6, <1>7, <1>8, <1>9, <1>10, <1>11 DEF PoolOK
<1> QED BY <1>12 DEF fl2

\* It ends with the values of the pool alone.
LEMMA PoolSwept ==
  ASSUME NEW hp, NEW fl, NEW lo, NEW n, PoolOK(hp, fl, lo, n, TRUE), NEW hp2,
         hp2 = Without(hp, {a \in DOMAIN hp : ~(a >= lo /\ a < lo + n)})
  PROVE  PoolOK(hp2, fl, lo, n, FALSE)
<1> DEFINE S == {a \in DOMAIN hp : ~(a >= lo /\ a < lo + n)}
<1>1. HeapType(hp) /\ fl \in Seq(BlockType) /\ lo \in Nat /\ n \in Nat /\ FreeApart(fl)
      /\ (\A k \in DOMAIN fl : Inside(fl[k], lo, n)) /\ Cardinality(Lost(hp, fl, lo, n)) <= Header
  BY DEF PoolOK
<1>2. \A a \in DOMAIN hp : a \in S <=> ~(a >= lo /\ a < lo + n)
  OBVIOUS
<1>3. hp2 = Without(hp, S)
  OBVIOUS
<1> HIDE DEF S
<1>4. /\ HeapType(hp2) /\ DOMAIN hp2 = DOMAIN hp \ S
      /\ \A e \in DOMAIN hp2 : SpanOf(hp2, e) = SpanOf(hp, e)
  <2>1. /\ HeapType(Without(hp, S)) /\ DOMAIN Without(hp, S) = DOMAIN hp \ S
        /\ \A e \in DOMAIN hp \ S : SpanOf(Without(hp, S), e) = SpanOf(hp, e)
    BY <1>1, WithoutType
  <2> QED BY <1>3, <2>1
<1>5. \A d, e \in DOMAIN hp2 : d = e \/ Apart(SpanOf(hp2, d), SpanOf(hp2, e))
  BY <1>4 DEF PoolOK
<1>6. \A e \in DOMAIN hp2 : \A k \in DOMAIN fl : Apart(SpanOf(hp2, e), fl[k])
  BY <1>4 DEF PoolOK
<1>7. ASSUME NEW e \in DOMAIN hp
      PROVE  /\ SpanOf(hp, e).addr = e /\ SpanOf(hp, e).size \in Pos /\ e \in Nat
             /\ (lo <= e /\ e + SpanOf(hp, e).size <= lo + n)
                \/ e + SpanOf(hp, e).size <= lo \/ lo + n <= e
  <2>1. SpanOf(hp, e).addr = e /\ SpanOf(hp, e).size \in Pos /\ e \in Nat
    <3>1. SpanOf(hp, e) \in BlockType /\ SpanOf(hp, e).addr = e /\ e \in Nat
      BY <1>1, SpanType
    <3> QED BY <3>1 DEF BlockType
  <2>2. Inside(SpanOf(hp, e), lo, n) \/ Apart(SpanOf(hp, e), Block(lo, n))
    BY DEF PoolOK
  <2>3. Block(lo, n).addr = lo /\ Block(lo, n).size = n
    BY DEF Block
  <2>4. (lo <= e /\ e + SpanOf(hp, e).size <= lo + n) \/ e + SpanOf(hp, e).size <= lo \/ lo + n <= e
    BY <2>1, <2>2, <2>3 DEF Inside, Apart
  <2> QED BY <2>1, <2>4
<1>8. \A e \in DOMAIN hp2 : Inside(SpanOf(hp2, e), lo, n)
  <2> SUFFICES ASSUME NEW e \in DOMAIN hp2 PROVE Inside(SpanOf(hp2, e), lo, n)
    OBVIOUS
  <2>1. e \in DOMAIN hp /\ e >= lo /\ e < lo + n /\ SpanOf(hp2, e) = SpanOf(hp, e)
    BY <1>2, <1>4
  <2>2. lo <= e /\ e + SpanOf(hp, e).size <= lo + n
    BY <1>1, <1>7, <2>1 DEF Pos
  <2> QED BY <1>7, <2>1, <2>2 DEF Inside
<1>9. Lost(hp2, fl, lo, n) = Lost(hp, fl, lo, n)
  <2> SUFFICES ASSUME NEW w \in lo .. lo + n - 1
               PROVE  (\A e \in DOMAIN hp2 : w \notin Words(SpanOf(hp2, e))) <=> (\A e \in DOMAIN hp : w \notin Words(SpanOf(hp, e)))
    BY DEF Lost
  <2>1. ASSUME NEW e \in S PROVE w \notin Words(SpanOf(hp, e))
    <3>0. e \in DOMAIN hp
      BY DEF S
    <3>1. e < lo \/ e >= lo + n
      BY <1>1, <1>2, <1>7, <3>0
    <3>2. e + SpanOf(hp, e).size <= lo \/ lo + n <= e
      BY <1>1, <1>7, <3>0, <3>1 DEF Pos
    <3>3. Words(SpanOf(hp, e)) = e .. e + SpanOf(hp, e).size - 1
      BY <1>7, <3>0 DEF Words
    <3>4. SpanOf(hp, e).size \in Nat /\ e \in Nat
      BY <1>7, <3>0 DEF Pos
    <3> QED BY <1>1, <3>2, <3>3, <3>4
  <2> QED BY <1>4, <2>1
<1>10. Cardinality(Lost(hp2, fl, lo, n)) <= Header
  BY <1>1, <1>9
<1> QED BY <1>1, <1>4, <1>5, <1>6, <1>8, <1>10 DEF PoolOK

-----------------------------------------------------------------------------
(* The table, the heap and the pool together. *)

Address == Nat \cup {NULL}
InPool(a, lo, n) == a >= lo /\ a < lo + n
\* The references whose values are in the pool.
Home(tb, lo, n) == {r \in Live(tb) : InPool(tb[r], lo, n)}

TableOK(hp, tb, lo, n) ==
  /\ tb \in Seq(Address)
  /\ \A r \in Live(tb) : tb[r] \in DOMAIN hp
  /\ \A r, s \in Live(tb) : tb[r] = tb[s] => r = s
  /\ \A a \in DOMAIN hp : InPool(a, lo, n) => \E r \in Live(tb) : tb[r] = a
Memory(hp, tb, fl, lo, n, col) == TableOK(hp, tb, lo, n) /\ PoolOK(hp, fl, lo, n, col)

\* The values by reference.
LEMMA MemoryObjects ==
  ASSUME NEW hp, NEW tb, NEW fl, NEW lo, NEW n, NEW col, Memory(hp, tb, fl, lo, n, col)
  PROVE  /\ Values(Objects(hp, tb)) /\ DOMAIN Objects(hp, tb) = Live(tb)
         /\ HeapType(hp) /\ lo \in Nat /\ n \in Nat
         /\ \A r \in Live(tb) : /\ r \in Pos /\ r \in DOMAIN tb /\ tb[r] \in DOMAIN hp /\ tb[r] \in Nat
                                /\ Objects(hp, tb)[r] = hp[tb[r]] /\ hp[tb[r]] \in ValueType
                                /\ ~col => InPool(tb[r], lo, n)
<1> DEFINE ob == Objects(hp, tb)
<1>1. tb \in Seq(Address) /\ \A r \in Live(tb) : tb[r] \in DOMAIN hp
  BY DEF Memory, TableOK
<1>2. HeapType(hp) /\ lo \in Nat /\ n \in Nat
  BY DEF Memory, PoolOK
<1>3. DOMAIN ob = Live(tb) /\ \A r \in Live(tb) : ob[r] = hp[tb[r]]
  BY DEF Objects
<1>4. DOMAIN tb = 1 .. Len(tb) /\ Len(tb) \in Nat
  BY <1>1
<1>5. Live(tb) \subseteq DOMAIN tb
  BY DEF Live
<1>6. \A r \in Live(tb) : r \in Pos /\ r \in DOMAIN tb
  BY <1>4, <1>5 DEF Pos
<1>7. \A r \in Live(tb) : hp[tb[r]] \in ValueType /\ tb[r] \in Nat
  BY <1>1, <1>2, SpanType
<1>8. IsFiniteSet(Live(tb))
  <2>1. IsFiniteSet(1 .. Len(tb))
    BY <1>4, FS_Interval
  <2> QED BY <1>4, <1>5, <2>1, FS_Subset
<1>9. Values(ob)
  <2>1. ob = [r \in DOMAIN ob |-> ob[r]]
    BY DEF Objects
  <2> HIDE DEF ob
  <2>2. \A r \in DOMAIN ob : ob[r] \in ValueType
    BY <1>3, <1>7
  <2>3. DOMAIN ob \subseteq Pos /\ IsFiniteSet(DOMAIN ob)
    BY <1>3, <1>6, <1>8
  <2>4. ob \in [DOMAIN ob -> ValueType]
    BY <2>1, <2>2
  <2> QED BY <2>3, <2>4 DEF Values
<1>10. ASSUME NEW r \in Live(tb), ~col PROVE InPool(tb[r], lo, n)
  <2> DEFINE a == tb[r]
  <2>1. a \in DOMAIN hp /\ a \in Nat
    BY <1>1, <1>7
  <2>2. Inside(SpanOf(hp, a), lo, n)
    BY <1>10, <2>1 DEF Memory, PoolOK
  <2>3. SpanOf(hp, a).addr = a /\ SpanOf(hp, a).size = hp[a].value_size /\ hp[a].value_size \in Pos
    <3> HIDE DEF a
    <3> QED BY <1>2, <2>1, SpanType
  <2>4. lo <= a /\ a + hp[a].value_size <= lo + n
    BY <2>2, <2>3 DEF Inside
  <2> QED BY <1>2, <2>1, <2>3, <2>4 DEF InPool, Pos
<1>11. ASSUME NEW r \in Live(tb)
       PROVE  /\ r \in Pos /\ r \in DOMAIN tb /\ tb[r] \in DOMAIN hp /\ tb[r] \in Nat
              /\ ob[r] = hp[tb[r]] /\ hp[tb[r]] \in ValueType /\ (~col => InPool(tb[r], lo, n))
  BY <1>1, <1>3, <1>6, <1>7, <1>10
<1> HIDE DEF ob
<1>12. Values(ob) /\ DOMAIN ob = Live(tb) /\ HeapType(hp) /\ lo \in Nat /\ n \in Nat
  BY <1>2, <1>3, <1>9
<1> QED BY <1>11, <1>12 DEF ob

\* The value of x changes, its block does not.
Rewritten(hp, tb, x, hp2) ==
  /\ x \in Live(tb) /\ hp2 = [hp EXCEPT ![tb[x]] = hp2[tb[x]]]
  /\ hp2[tb[x]] \in ValueType /\ hp2[tb[x]].value_size = hp[tb[x]].value_size

\* The memory stays sound, and one value of the table is another.
LEMMA MemoryRewritten ==
  ASSUME NEW hp, NEW tb, NEW fl, NEW lo, NEW n, NEW col, Memory(hp, tb, fl, lo, n, col),
         NEW x, NEW hp2, Rewritten(hp, tb, x, hp2)
  PROVE  /\ Memory(hp2, tb, fl, lo, n, col)
         /\ Objects(hp2, tb) = [Objects(hp, tb) EXCEPT ![x] = hp2[tb[x]]]
<1> DEFINE a == tb[x]
           v == hp2[a]
<1>1. x \in Live(tb) /\ hp2 = [hp EXCEPT ![a] = v] /\ v \in ValueType /\ v.value_size = hp[a].value_size
  BY DEF Rewritten
<1>2. HeapType(hp) /\ \A r \in Live(tb) : tb[r] \in DOMAIN hp
  BY MemoryObjects
<1>3. a \in DOMAIN hp /\ hp \in [DOMAIN hp -> ValueType] /\ DOMAIN hp \subseteq Nat
  BY <1>1, <1>2 DEF HeapType
<1> HIDE DEF v
<1>4. hp2 \in [DOMAIN hp -> ValueType] /\ DOMAIN hp2 = DOMAIN hp /\ \A b \in DOMAIN hp : b # a => hp2[b] = hp[b]
  <2> HIDE DEF a
  <2> QED BY <1>1, <1>3
<1>5. HeapType(hp2)
  BY <1>3, <1>4 DEF HeapType
<1>6. \A b \in DOMAIN hp : hp2[b].value_size = hp[b].value_size
  BY <1>1, <1>4 DEF v
<1>7. PoolOK(hp, fl, lo, n, col) /\ TableOK(hp, tb, lo, n)
  BY DEF Memory
<1>8. PoolOK(hp2, fl, lo, n, col)
  BY <1>4, <1>5, <1>6, <1>7, PoolSpans
<1>9. TableOK(hp2, tb, lo, n)
  BY <1>4, <1>7 DEF TableOK
<1>10. \A r, s \in Live(tb) : tb[r] = tb[s] => r = s
  BY <1>7 DEF TableOK
<1>11. Objects(hp2, tb) = [Objects(hp, tb) EXCEPT ![x] = v]
  <2>1. \A r \in Live(tb) : r # x => hp2[tb[r]] = hp[tb[r]]
    BY <1>1, <1>2, <1>4, <1>10
  <2>2. hp2[tb[x]] = v
    BY DEF v
  <2> HIDE DEF a
  <2> QED BY <1>1, <2>1, <2>2 DEF Objects
<1> QED BY <1>8, <1>9, <1>11 DEF Memory, v

\* A count more.
LEMMA MemoryCounted ==
  ASSUME NEW hp, NEW tb, NEW fl, NEW lo, NEW n, NEW col, Memory(hp, tb, fl, lo, n, col),
         NEW x \in Live(tb)
  PROVE  /\ Memory(Counted(hp, tb[x]), tb, fl, lo, n, col)
         /\ Objects(Counted(hp, tb[x]), tb) = More(Objects(hp, tb), x)
<1> DEFINE a == tb[x]
           hp2 == Counted(hp, a)
           ob == Objects(hp, tb)
<1>1. a \in DOMAIN hp /\ hp[a] \in ValueType /\ ob[x] = hp[a] /\ HeapType(hp) /\ DOMAIN ob = Live(tb)
  BY MemoryObjects
<1>2. hp2[a] = [hp[a] EXCEPT !.ref_count = @ + 1] /\ hp2 = [hp EXCEPT ![a] = hp2[a]]
  BY <1>1 DEF Counted
<1> HIDE DEF a, hp2, ob
<1>3. hp2[a] \in ValueType /\ hp2[a].value_size = hp[a].value_size
  BY <1>1, <1>2 DEF ValueType
<1>4. Rewritten(hp, tb, x, hp2)
  BY <1>2, <1>3 DEF Rewritten, a
<1>5. Memory(hp2, tb, fl, lo, n, col) /\ Objects(hp2, tb) = [ob EXCEPT ![x] = hp2[a]]
  BY <1>4, MemoryRewritten DEF ob, a
<1>6. More(ob, x) = [ob EXCEPT ![x] = [ob[x] EXCEPT !.ref_count = @ + 1]]
  BY DEF More
<1> QED BY <1>1, <1>2, <1>5, <1>6 DEF hp2, a, ob

\* The other writes to a value.
Uncounted(hp, a)      == [hp EXCEPT ![a].ref_count = IF @ > 0 THEN @ - 1 ELSE @]
WithKids(hp, a, kids) == [hp EXCEPT ![a].kids = kids]
Shortened(hp, a)      == [hp EXCEPT ![a].size = @ - 1]

\* A count less.
LEMMA MemoryLess ==
  ASSUME NEW hp, NEW tb, NEW fl, NEW lo, NEW n, NEW col, Memory(hp, tb, fl, lo, n, col),
         NEW x \in Live(tb)
  PROVE  /\ Memory(Uncounted(hp, tb[x]), tb, fl, lo, n, col)
         /\ Objects(Uncounted(hp, tb[x]), tb) = Less(Objects(hp, tb), x)
<1> DEFINE a == tb[x]
           hp2 == Uncounted(hp, a)
           ob == Objects(hp, tb)
<1>1. a \in DOMAIN hp /\ hp[a] \in ValueType /\ ob[x] = hp[a] /\ HeapType(hp) /\ DOMAIN ob = Live(tb)
  BY MemoryObjects
<1>2. hp2[a] = [hp[a] EXCEPT !.ref_count = IF @ > 0 THEN @ - 1 ELSE @] /\ hp2 = [hp EXCEPT ![a] = hp2[a]]
  BY <1>1 DEF Uncounted
<1> HIDE DEF a, hp2, ob
<1>3. hp2[a] \in ValueType /\ hp2[a].value_size = hp[a].value_size
  BY <1>1, <1>2 DEF ValueType
<1>4. Rewritten(hp, tb, x, hp2)
  BY <1>2, <1>3 DEF Rewritten, a
<1>5. Memory(hp2, tb, fl, lo, n, col) /\ Objects(hp2, tb) = [ob EXCEPT ![x] = hp2[a]]
  BY <1>4, MemoryRewritten DEF ob, a
<1>6. Less(ob, x) = [ob EXCEPT ![x] = [ob[x] EXCEPT !.ref_count = IF @ > 0 THEN @ - 1 ELSE @]]
  BY DEF Less
<1> QED BY <1>1, <1>2, <1>5, <1>6 DEF hp2, a, ob

\* Other elements.
LEMMA MemoryPut ==
  ASSUME NEW hp, NEW tb, NEW fl, NEW lo, NEW n, NEW col, Memory(hp, tb, fl, lo, n, col),
         NEW x \in Live(tb), NEW kids \in Seq(RefOrNull)
  PROVE  /\ Memory(WithKids(hp, tb[x], kids), tb, fl, lo, n, col)
         /\ Objects(WithKids(hp, tb[x], kids), tb) = Put(Objects(hp, tb), x, kids)
<1> DEFINE a == tb[x]
           hp2 == WithKids(hp, a, kids)
           ob == Objects(hp, tb)
<1>1. a \in DOMAIN hp /\ hp[a] \in ValueType /\ ob[x] = hp[a] /\ HeapType(hp) /\ DOMAIN ob = Live(tb)
  BY MemoryObjects
<1>2. hp2[a] = [hp[a] EXCEPT !.kids = kids] /\ hp2 = [hp EXCEPT ![a] = hp2[a]]
  BY <1>1 DEF WithKids
<1> HIDE DEF a, hp2, ob
<1>3. hp2[a] \in ValueType /\ hp2[a].value_size = hp[a].value_size
  BY <1>1, <1>2 DEF ValueType
<1>4. Rewritten(hp, tb, x, hp2)
  BY <1>2, <1>3 DEF Rewritten, a
<1>5. Memory(hp2, tb, fl, lo, n, col) /\ Objects(hp2, tb) = [ob EXCEPT ![x] = hp2[a]]
  BY <1>4, MemoryRewritten DEF ob, a
<1>6. Put(ob, x, kids) = [ob EXCEPT ![x] = [ob[x] EXCEPT !.kids = kids]]
  BY DEF Put
<1> QED BY <1>1, <1>2, <1>5, <1>6 DEF hp2, a, ob

\* A shorter list.
LEMMA MemoryShorter ==
  ASSUME NEW hp, NEW tb, NEW fl, NEW lo, NEW n, NEW col, Memory(hp, tb, fl, lo, n, col),
         NEW x \in Live(tb), hp[tb[x]].size >= 1
  PROVE  /\ Memory(Shortened(hp, tb[x]), tb, fl, lo, n, col)
         /\ Objects(Shortened(hp, tb[x]), tb) = Shorter(Objects(hp, tb), x)
<1> DEFINE a == tb[x]
           hp2 == Shortened(hp, a)
           ob == Objects(hp, tb)
<1>1. a \in DOMAIN hp /\ hp[a] \in ValueType /\ ob[x] = hp[a] /\ HeapType(hp) /\ DOMAIN ob = Live(tb)
  BY MemoryObjects
<1>2. hp2[a] = [hp[a] EXCEPT !.size = @ - 1] /\ hp2 = [hp EXCEPT ![a] = hp2[a]] /\ hp[a].size >= 1
  BY <1>1 DEF Shortened
<1> HIDE DEF a, hp2, ob
<1>3. hp2[a] \in ValueType /\ hp2[a].value_size = hp[a].value_size
  BY <1>1, <1>2 DEF ValueType
<1>4. Rewritten(hp, tb, x, hp2)
  BY <1>2, <1>3 DEF Rewritten, a
<1>5. Memory(hp2, tb, fl, lo, n, col) /\ Objects(hp2, tb) = [ob EXCEPT ![x] = hp2[a]]
  BY <1>4, MemoryRewritten DEF ob, a
<1>6. Shorter(ob, x) = [ob EXCEPT ![x] = [ob[x] EXCEPT !.size = @ - 1]]
  BY DEF Shorter
<1> QED BY <1>1, <1>2, <1>5, <1>6 DEF hp2, a, ob

\* The table with address a under the reference r that assign_reference returns.
Entered(tb, r, a, tb2) ==
  /\ r = assign_reference(tb)
  /\ tb2 = IF r > Len(tb) THEN Append(tb, a) ELSE [tb EXCEPT ![r] = a]

\* The reference is unused before and has the address after; no other entry changes.
LEMMA NewEntry ==
  ASSUME NEW tb \in Seq(Address), NEW r, NEW a \in Nat, NEW tb2, Entered(tb, r, a, tb2)
  PROVE  /\ r \in Pos /\ r \notin Live(tb) /\ tb2 \in Seq(Address) /\ tb2[r] = a
         /\ Live(tb2) = Live(tb) \cup {r} /\ \A s \in Live(tb) : tb2[s] = tb[s]
<1> DEFINE unused == {s \in DOMAIN tb : tb[s] = NULL}
<1>0. a # NULL /\ a \in Address /\ DOMAIN tb = 1 .. Len(tb) /\ Len(tb) \in Nat
  BY DEF NULL, Address
<1>1. CASE unused = {}
  <2>1. r = Len(tb) + 1
    BY <1>1 DEF Entered, assign_reference
  <2>2. tb2 = Append(tb, a)
    <3>1. tb2 = IF r > Len(tb) THEN Append(tb, a) ELSE [tb EXCEPT ![r] = a]
      BY DEF Entered
    <3>2. r > Len(tb)
      BY <1>0, <2>1
    <3> QED BY <3>1, <3>2
  <2>3. tb2 \in Seq(Address) /\ tb2[r] = a /\ DOMAIN tb2 = DOMAIN tb \cup {r} /\ (\A s \in DOMAIN tb : tb2[s] = tb[s])
        /\ r \notin DOMAIN tb /\ r \in Pos
    BY <1>0, <2>1, <2>2 DEF Pos
  <2> QED BY <1>0, <2>3 DEF Live
<1>2. CASE unused # {}
  <2>1. r = Min(unused)
    BY <1>2 DEF Entered, assign_reference
  <2>2. unused \in SUBSET Nat
    BY <1>0
  <2> HIDE DEF unused
  <2>3. \E m \in unused : \A k \in unused : m <= k
    BY <1>2, <2>2, LeastNat
  <2>4. Min(unused) \in unused
    BY <2>3 DEF Min
  <2>5. r \in DOMAIN tb /\ tb[r] = NULL
    BY <2>1, <2>4 DEF unused
  <2>6. tb2 = [tb EXCEPT ![r] = a]
    <3>1. tb2 = IF r > Len(tb) THEN Append(tb, a) ELSE [tb EXCEPT ![r] = a]
      BY DEF Entered
    <3>2. ~(r > Len(tb))
      BY <1>0, <2>5
    <3> QED BY <3>1, <3>2
  <2>7. tb2 \in Seq(Address) /\ DOMAIN tb2 = DOMAIN tb /\ tb2[r] = a /\ \A s \in DOMAIN tb : s # r => tb2[s] = tb[s]
    BY <1>0, <2>5, <2>6, ExceptType
  <2>8. r \in Pos
    BY <1>0, <2>5 DEF Pos
  <2> QED BY <1>0, <2>5, <2>7, <2>8 DEF Live
<1> QED BY <1>1, <1>2

\* The memory with a new value v under reference r.
Extended(hp, tb, lo, n, hp2, tb2, fl2, r, v, a) ==
  /\ Memory(hp2, tb2, fl2, lo, n, FALSE)
  /\ r \in Pos /\ r \notin DOMAIN Objects(hp, tb) /\ tb2[r] = a /\ a \in Nat
  /\ Objects(hp2, tb2) = Adding(Objects(hp, tb), r, v)
  /\ \A s \in DOMAIN Objects(hp, tb) : tb2[s] = tb[s]

\* make_ref: a new value under a new reference.
LEMMA MemoryMade ==
  ASSUME NEW hp, NEW tb, NEW fl, NEW lo, NEW n, Memory(hp, tb, fl, lo, n, FALSE),
         NEW m, NEW i, NEW c, NEW fl2, NEW v, NEW hp2, Allocates(hp, fl, m, i, c, fl2, v, hp2, FALSE),
         NEW r, NEW tb2, Entered(tb, r, c.addr, tb2)
  PROVE  Extended(hp, tb, lo, n, hp2, tb2, fl2, r, v, c.addr)
<1> DEFINE a == c.addr
           ob == Objects(hp, tb)
<1>1. TableOK(hp, tb, lo, n) /\ PoolOK(hp, fl, lo, n, FALSE) /\ tb \in Seq(Address)
  BY DEF Memory, TableOK
<1>2. PoolOK(hp2, fl2, lo, n, FALSE) /\ a \notin DOMAIN hp /\ a \in Nat
  BY <1>1, PoolAlloc
<1>3. hp2 = Placed(hp, a, v) /\ v \in ValueType
  BY DEF Allocates
<1>4. DOMAIN ob = Live(tb) /\ \A s \in Live(tb) : tb[s] \in DOMAIN hp /\ ob[s] = hp[tb[s]]
  BY <1>1 DEF TableOK, Objects
<1>5. HeapType(hp)
  BY MemoryObjects
<1>e. Entered(tb, r, a, tb2)
  OBVIOUS
<1> HIDE DEF a, ob
<1>6. DOMAIN hp2 = DOMAIN hp \cup {a} /\ hp2[a] = v /\ \A b \in DOMAIN hp : hp2[b] = hp[b]
  <2>1. hp2 = [b \in DOMAIN hp \cup {a} |-> IF b = a THEN v ELSE hp[b]]
    BY <1>3 DEF Placed
  <2>2. a \notin DOMAIN hp
    BY <1>2
  <2> QED BY <2>1, <2>2
<1>7. /\ r \in Pos /\ r \notin Live(tb) /\ tb2 \in Seq(Address) /\ tb2[r] = a
      /\ Live(tb2) = Live(tb) \cup {r} /\ \A s \in Live(tb) : tb2[s] = tb[s]
  <2>1. tb \in Seq(Address) /\ a \in Nat
    BY <1>1, <1>2
  <2> QED BY <1>e, <2>1, NewEntry
<1>8. \A s \in Live(tb2) : tb2[s] \in DOMAIN hp2
  BY <1>4, <1>6, <1>7
<1>9. \A s, t \in Live(tb2) : tb2[s] = tb2[t] => s = t
  <2>1. \A s, t \in Live(tb) : tb[s] = tb[t] => s = t
    BY <1>1 DEF TableOK
  <2> QED BY <1>2, <1>4, <1>7, <2>1
<1>10. \A b \in DOMAIN hp2 : InPool(b, lo, n) => \E s \in Live(tb2) : tb2[s] = b
  <2>1. \A b \in DOMAIN hp : InPool(b, lo, n) => \E s \in Live(tb) : tb[s] = b
    BY <1>1 DEF TableOK
  <2> QED BY <1>6, <1>7, <2>1
<1>11. Memory(hp2, tb2, fl2, lo, n, FALSE)
  BY <1>2, <1>7, <1>8, <1>9, <1>10 DEF Memory, TableOK
<1>12. Objects(hp2, tb2) = Adding(ob, r, v)
  <2>1. Objects(hp2, tb2) = [s \in Live(tb) \cup {r} |-> hp2[tb2[s]]]
    BY <1>7 DEF Objects
  <2>2. Adding(ob, r, v) = [s \in Live(tb) \cup {r} |-> IF s = r THEN v ELSE ob[s]]
    BY <1>4 DEF Adding
  <2>3. \A s \in Live(tb) \cup {r} : hp2[tb2[s]] = IF s = r THEN v ELSE ob[s]
    BY <1>4, <1>6, <1>7
  <2> QED BY <2>1, <2>2, <2>3
<1>13. Extended(hp, tb, lo, n, hp2, tb2, fl2, r, v, a)
  BY <1>2, <1>4, <1>7, <1>11, <1>12 DEF ob, Extended
<1> QED BY <1>13 DEF a

\* mm_free of the value of x.
Discards(hp, tb, fl, x, hp2, tb2, fl2) ==
  /\ hp2 = Without(hp, {tb[x]}) /\ fl2 = <<SpanOf(hp, tb[x])>> \o fl /\ tb2 = [tb EXCEPT ![x] = NULL]
\* The memory without it.
Discarded(hp, tb, lo, n, x, hp2, tb2, fl2) ==
  /\ Memory(hp2, tb2, fl2, lo, n, FALSE)
  /\ Objects(hp2, tb2) = Dropping(Objects(hp, tb), x)
  /\ \A r \in DOMAIN Objects(hp, tb) : r # x => tb2[r] = tb[r]

\* The end of decref.
LEMMA MemoryFreed ==
  ASSUME NEW hp, NEW tb, NEW fl, NEW lo, NEW n, Memory(hp, tb, fl, lo, n, FALSE), NEW x \in Live(tb),
         NEW hp2, NEW tb2, NEW fl2, Discards(hp, tb, fl, x, hp2, tb2, fl2)
  PROVE  Discarded(hp, tb, lo, n, x, hp2, tb2, fl2)
<1> DEFINE a == tb[x]
           ob == Objects(hp, tb)
<1>1. TableOK(hp, tb, lo, n) /\ PoolOK(hp, fl, lo, n, FALSE) /\ tb \in Seq(Address)
  BY DEF Memory, TableOK
<1>2. DOMAIN ob = Live(tb) /\ \A s \in Live(tb) : s \in DOMAIN tb /\ tb[s] \in DOMAIN hp /\ ob[s] = hp[tb[s]]
  BY <1>1 DEF TableOK, Objects, Live
<1>3. HeapType(hp)
  BY MemoryObjects
<1>4. a \in DOMAIN hp /\ x \in DOMAIN tb
  BY <1>2
<1>5. hp2 = Without(hp, {a}) /\ fl2 = <<SpanOf(hp, a)>> \o fl /\ tb2 = [tb EXCEPT ![x] = NULL]
  BY DEF Discards
<1> HIDE DEF a, ob
<1>6. PoolOK(hp2, fl2, lo, n, FALSE)
  BY <1>1, <1>4, <1>5, PoolFree
<1>7. DOMAIN hp2 = DOMAIN hp \ {a} /\ \A b \in DOMAIN hp2 : hp2[b] = hp[b]
  BY <1>5 DEF Without
<1>8. NULL \in Address
  BY DEF Address
<1>9. tb2 \in Seq(Address) /\ DOMAIN tb2 = DOMAIN tb /\ tb2[x] = NULL /\ \A s \in DOMAIN tb : s # x => tb2[s] = tb[s]
  BY <1>1, <1>4, <1>5, <1>8, ExceptType
<1>10. Live(tb2) = Live(tb) \ {x} /\ \A s \in Live(tb2) : tb2[s] = tb[s]
  BY <1>9 DEF Live
<1>11. \A s, t \in Live(tb) : tb[s] = tb[t] => s = t
  BY <1>1 DEF TableOK
<1>12. \A s \in Live(tb2) : tb[s] # a
  BY <1>10, <1>11 DEF a
<1>13. \A s \in Live(tb2) : tb2[s] \in DOMAIN hp2
  BY <1>2, <1>7, <1>10, <1>12
<1>14. \A b \in DOMAIN hp2 : InPool(b, lo, n) => \E s \in Live(tb2) : tb2[s] = b
  <2>1. \A b \in DOMAIN hp : InPool(b, lo, n) => \E s \in Live(tb) : tb[s] = b
    BY <1>1 DEF TableOK
  <2>2. tb[x] = a
    BY DEF a
  <2> SUFFICES ASSUME NEW b \in DOMAIN hp2, InPool(b, lo, n) PROVE \E s \in Live(tb2) : tb2[s] = b
    OBVIOUS
  <2>3. b \in DOMAIN hp /\ b # a
    BY <1>7
  <2>4. PICK s \in Live(tb) : tb[s] = b
    BY <2>1, <2>3
  <2>5. s \in Live(tb2)
    BY <1>10, <2>2, <2>3, <2>4
  <2> QED BY <1>10, <2>4, <2>5
<1>15. Memory(hp2, tb2, fl2, lo, n, FALSE)
  <2>1. \A s, t \in Live(tb2) : tb2[s] = tb2[t] => s = t
    BY <1>10, <1>11
  <2> QED BY <1>6, <1>9, <1>13, <1>14, <2>1 DEF Memory, TableOK
<1>16. Objects(hp2, tb2) = Dropping(ob, x)
  <2>1. Objects(hp2, tb2) = [s \in Live(tb) \ {x} |-> hp2[tb2[s]]]
    BY <1>10 DEF Objects
  <2>2. Dropping(ob, x) = [s \in Live(tb) \ {x} |-> ob[s]]
    BY <1>2 DEF Dropping
  <2>3. \A s \in Live(tb) \ {x} : hp2[tb2[s]] = ob[s]
    BY <1>2, <1>7, <1>10, <1>13
  <2> QED BY <2>1, <2>2, <2>3
<1> QED BY <1>2, <1>9, <1>15, <1>16 DEF ob, Discarded

\* The value of x moves into the pool.
Moves(hp, tb, x, c, hp2, tb2, v) ==
  /\ v = Copied(hp[tb[x]]) /\ hp2 = Placed(hp, c.addr, v) /\ tb2 = [tb EXCEPT ![x] = c.addr]
\* What it leaves.
MovedTo(hp, tb, lo, n, x, hp2, tb2, fl2) ==
  /\ Memory(hp2, tb2, fl2, lo, n, TRUE) /\ Live(tb2) = Live(tb)
  /\ Objects(hp2, tb2) = Moved(Objects(hp, tb), x)
  /\ Home(tb2, lo, n) = Home(tb, lo, n) \cup {x}

\* It is in the pool then.
LEMMA MemoryMoved ==
  ASSUME NEW hp, NEW tb, NEW fl, NEW lo, NEW n, Memory(hp, tb, fl, lo, n, TRUE), NEW x \in Live(tb),
         x \notin Home(tb, lo, n),
         NEW m, NEW i, NEW c, NEW fl2, NEW v, NEW hp2, Allocates(hp, fl, m, i, c, fl2, v, hp2, TRUE),
         NEW tb2, Moves(hp, tb, x, c, hp2, tb2, v)
  PROVE  MovedTo(hp, tb, lo, n, x, hp2, tb2, fl2)
<1> DEFINE a == c.addr
           ob == Objects(hp, tb)
<1>1. TableOK(hp, tb, lo, n) /\ PoolOK(hp, fl, lo, n, TRUE) /\ tb \in Seq(Address)
  BY DEF Memory, TableOK
<1>2. PoolOK(hp2, fl2, lo, n, TRUE) /\ a \notin DOMAIN hp /\ a \in Nat /\ lo <= a /\ a < lo + n
  BY <1>1, PoolAlloc
<1>3. hp2 = Placed(hp, a, v) /\ v = Copied(hp[tb[x]]) /\ tb2 = [tb EXCEPT ![x] = a]
  BY DEF Moves
<1>4. DOMAIN ob = Live(tb) /\ \A s \in Live(tb) : s \in DOMAIN tb /\ tb[s] \in DOMAIN hp /\ ob[s] = hp[tb[s]]
  BY <1>1 DEF TableOK, Objects, Live
<1>l. lo \in Nat /\ n \in Nat
  BY <1>1 DEF PoolOK
<1> HIDE DEF a, ob
<1>5. InPool(a, lo, n) /\ a # NULL /\ a \in Address
  BY <1>2, <1>l DEF InPool, NULL, Address
<1>6. DOMAIN hp2 = DOMAIN hp \cup {a} /\ hp2[a] = v /\ \A b \in DOMAIN hp : hp2[b] = hp[b]
  <2>1. hp2 = [b \in DOMAIN hp \cup {a} |-> IF b = a THEN v ELSE hp[b]]
    BY <1>3 DEF Placed
  <2>2. a \notin DOMAIN hp
    BY <1>2
  <2> QED BY <2>1, <2>2
<1>7. tb2 \in Seq(Address) /\ DOMAIN tb2 = DOMAIN tb /\ tb2[x] = a /\ \A s \in DOMAIN tb : s # x => tb2[s] = tb[s]
  <2>1. x \in DOMAIN tb
    BY <1>4
  <2> QED BY <1>1, <1>3, <1>5, <2>1, ExceptType
<1>8. Live(tb2) = Live(tb)
  BY <1>5, <1>7 DEF Live
<1>9. \A s \in Live(tb) : s # x => tb2[s] = tb[s] /\ tb[s] \in DOMAIN hp
  BY <1>4, <1>7
<1>10. \A s \in Live(tb2) : tb2[s] \in DOMAIN hp2
  BY <1>6, <1>7, <1>8, <1>9
<1>11. \A s, t \in Live(tb2) : tb2[s] = tb2[t] => s = t
  <2>1. \A s, t \in Live(tb) : tb[s] = tb[t] => s = t
    BY <1>1 DEF TableOK
  <2>2. a \notin DOMAIN hp
    BY <1>2
  <2> QED BY <1>7, <1>8, <1>9, <2>1, <2>2
<1>12. ASSUME NEW b \in DOMAIN hp2, InPool(b, lo, n) PROVE \E s \in Live(tb2) : tb2[s] = b
  <2>1. CASE b = a
    BY <1>7, <1>8, <2>1
  <2>2. CASE b # a
    <3>1. b \in DOMAIN hp
      BY <1>6, <2>2
    <3>2. PICK s \in Live(tb) : tb[s] = b
      BY <1>1, <1>12, <3>1 DEF TableOK
    <3>3. s # x
      BY <1>12, <3>2 DEF Home
    <3> QED BY <1>8, <1>9, <3>2, <3>3
  <2> QED BY <2>1, <2>2
<1>13. Memory(hp2, tb2, fl2, lo, n, TRUE)
  BY <1>2, <1>7, <1>10, <1>11, <1>12 DEF Memory, TableOK
<1>14. Objects(hp2, tb2) = Moved(ob, x)
  <2>1. Objects(hp2, tb2) = [s \in Live(tb) |-> hp2[tb2[s]]]
    BY <1>8 DEF Objects
  <2>2. Moved(ob, x) = [s \in Live(tb) |-> IF s = x THEN v ELSE ob[s]]
    <3>1. ob[x] = hp[tb[x]]
      BY <1>4
    <3>2. Copied(ob[x]) = v
      BY <1>3, <3>1
    <3>3. Moved(ob, x) = [ob EXCEPT ![x] = Copied(ob[x])]
      BY DEF Moved
    <3>4. Moved(ob, x) = [ob EXCEPT ![x] = v]
      BY <3>2, <3>3
    <3>5. ob = [s \in Live(tb) |-> ob[s]]
      BY <1>4 DEF ob, Objects
    <3> QED BY <1>4, <3>4, <3>5
  <2>3. \A s \in Live(tb) : hp2[tb2[s]] = IF s = x THEN v ELSE ob[s]
    BY <1>4, <1>6, <1>7, <1>9
  <2> QED BY <2>1, <2>2, <2>3
<1>15. Home(tb2, lo, n) = Home(tb, lo, n) \cup {x}
  BY <1>5, <1>7, <1>8, <1>9 DEF Home
<1> QED BY <1>8, <1>13, <1>14, <1>15 DEF ob, MovedTo

\* A collection starts: no value is in the half it copies into.
LEMMA MemoryFlip ==
  ASSUME NEW hp, NEW tb, NEW fl, NEW lo, NEW n, Memory(hp, tb, fl, lo, n, FALSE), NEW l2 \in Nat, NEW n2 \in Pos,
         \A a \in DOMAIN hp : a + hp[a].value_size <= l2 \/ a >= l2 + n2
  PROVE  Memory(hp, tb, mm_init(l2, n2), l2, n2, TRUE) /\ Home(tb, l2, n2) = {}
<1>1. TableOK(hp, tb, lo, n) /\ PoolOK(hp, fl, lo, n, FALSE)
  BY DEF Memory
<1>2. PoolOK(hp, mm_init(l2, n2), l2, n2, TRUE)
  BY <1>1, PoolFlip
<1>3. HeapType(hp)
  BY <1>1 DEF PoolOK
<1>4. ASSUME NEW a \in DOMAIN hp PROVE ~InPool(a, l2, n2)
  <2>1. hp[a].value_size \in Pos /\ a \in Nat
    BY <1>3, SpanType
  <2>2. a + hp[a].value_size <= l2 \/ a >= l2 + n2
    OBVIOUS
  <2> QED BY <2>1, <2>2 DEF InPool, Pos
<1>5. Home(tb, l2, n2) = {}
  BY <1>1, <1>4 DEF Home, TableOK
<1>6. TableOK(hp, tb, l2, n2)
  BY <1>1, <1>4 DEF TableOK
<1> QED BY <1>2, <1>5, <1>6 DEF Memory

\* A collection ends: what is not in the pool is forgotten.
Sweeps(hp, tb, lo, n, hp2, tb2) ==
  /\ hp2 = Without(hp, {a \in DOMAIN hp : ~(a >= lo /\ a < lo + n)})
  /\ tb2 = [r \in DOMAIN tb |-> IF InPool(tb[r], lo, n) THEN tb[r] ELSE NULL]
\* What it leaves.
SweptTo(hp, tb, fl, lo, n, hp2, tb2) ==
  /\ Memory(hp2, tb2, fl, lo, n, FALSE)
  /\ Objects(hp2, tb2) = Kept(Objects(hp, tb), Home(tb, lo, n))
  /\ Home(tb, lo, n) = Live(tb2) /\ \A r \in Live(tb2) : tb2[r] = tb[r]

\* The values of the pool remain.
LEMMA MemorySwept ==
  ASSUME NEW hp, NEW tb, NEW fl, NEW lo, NEW n, Memory(hp, tb, fl, lo, n, TRUE),
         NEW hp2, NEW tb2, Sweeps(hp, tb, lo, n, hp2, tb2)
  PROVE  SweptTo(hp, tb, fl, lo, n, hp2, tb2)
<1> DEFINE in == Home(tb, lo, n)
           ob == Objects(hp, tb)
<1>1. TableOK(hp, tb, lo, n) /\ PoolOK(hp, fl, lo, n, TRUE) /\ tb \in Seq(Address) /\ lo \in Nat /\ n \in Nat
  BY DEF Memory, TableOK, PoolOK
<1>2. PoolOK(hp2, fl, lo, n, FALSE)
  BY <1>1, PoolSwept DEF Sweeps
<1>3. DOMAIN hp2 = {a \in DOMAIN hp : InPool(a, lo, n)} /\ \A a \in DOMAIN hp2 : hp2[a] = hp[a]
  BY DEF Sweeps, Without, InPool
<1>4. tb2 = [r \in DOMAIN tb |-> IF InPool(tb[r], lo, n) THEN tb[r] ELSE NULL]
  BY DEF Sweeps
<1>5. ~InPool(NULL, lo, n)
  BY <1>1 DEF InPool, NULL
<1>6. DOMAIN tb2 = DOMAIN tb /\ DOMAIN tb = 1 .. Len(tb) /\ Len(tb) \in Nat
  BY <1>1, <1>4
<1>7. \A r \in DOMAIN tb : tb2[r] \in Address
  BY <1>1, <1>4 DEF Address
<1>8. tb2 \in Seq(Address)
  <2>1. tb2 \in [1 .. Len(tb) -> Address]
    BY <1>4, <1>6, <1>7
  <2> QED BY <1>6, <2>1
<1>9. Live(tb2) = in /\ \A r \in in : tb2[r] = tb[r]
  BY <1>4, <1>5, <1>6 DEF Live, Home
<1>10. \A r \in in : r \in Live(tb) /\ InPool(tb[r], lo, n)
  BY DEF Home
<1> HIDE DEF in, ob
<1>11. \A r \in Live(tb) : tb[r] \in DOMAIN hp
  BY <1>1 DEF TableOK
<1>12. \A r \in Live(tb2) : tb2[r] \in DOMAIN hp2
  BY <1>3, <1>9, <1>10, <1>11
<1>13. \A r, s \in Live(tb2) : tb2[r] = tb2[s] => r = s
  BY <1>1, <1>9, <1>10 DEF TableOK
<1>14. \A a \in DOMAIN hp2 : InPool(a, lo, n) => \E r \in Live(tb2) : tb2[r] = a
  <2> SUFFICES ASSUME NEW a \in DOMAIN hp2, InPool(a, lo, n) PROVE \E r \in Live(tb2) : tb2[r] = a
    OBVIOUS
  <2>1. PICK r \in Live(tb) : tb[r] = a
    BY <1>1, <1>3 DEF TableOK
  <2>2. r \in in
    BY <2>1 DEF in, Home
  <2> QED BY <1>9, <2>1, <2>2
<1>15. Memory(hp2, tb2, fl, lo, n, FALSE)
  BY <1>2, <1>8, <1>12, <1>13, <1>14 DEF Memory, TableOK
<1>16. Objects(hp2, tb2) = Kept(ob, in)
  <2>1. Objects(hp2, tb2) = [r \in in |-> hp2[tb2[r]]]
    BY <1>9 DEF Objects
  <2>2. \A r \in in : hp2[tb2[r]] = ob[r]
    BY <1>3, <1>9, <1>10, <1>12 DEF ob, Objects
  <2> QED BY <2>1, <2>2 DEF Kept
<1> QED BY <1>9, <1>15, <1>16 DEF in, ob, SweptTo
=============================================================================
