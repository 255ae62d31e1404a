---------------------------- MODULE MallocProofs ----------------------------
(***************************************************************************)
(* Proofs about Malloc for every heap length, every set of requests of at  *)
(* least one word and every set of indices.                                *)
(***************************************************************************)
EXTENDS Malloc, TLAPS

Even(n) == n % 2 = 0

(* Arithmetic of headers. *)

\* The size bits of a word are even and do not exceed it.
LEMMA SizeOfWord ==
  ASSUME NEW w \in Nat
  PROVE  SizeOf(w) \in Nat /\ Even(SizeOf(w)) /\ AllocatedOf(w) \in {0, 1}
BY DEF SizeOf, AllocatedOf, Even

\* Reading back what set_header composed.
LEMMA ReadBack ==
  ASSUME NEW s \in Nat, Even(s), NEW al \in {0, 1}
  PROVE  /\ s + al \in Nat
         /\ SizeOf(s + al) = s
         /\ AllocatedOf(s + al) = al
BY DEF SizeOf, AllocatedOf, Even

\* Sums and differences of even numbers, and an odd number plus an even one.
LEMMA Parity ==
  ASSUME NEW m \in Int, NEW n \in Int, Even(n)
  PROVE  /\ Even(m) => Even(m + n) /\ Even(m - n)
         /\ m % 2 = 1 => (m + n) % 2 = 1 /\ (m - n) % 2 = 1
         /\ m % 2 = 1 => Even(m + 1) /\ Even(m - 1)
         /\ Even(m) => (m + 1) % 2 = 1 /\ (m - 1) % 2 = 1
BY DEF Even

\* A request of at least one word becomes an even block of at least four.
LEMMA BlockSizeFacts ==
  ASSUME NEW n \in Nat
  PROVE  /\ BlockSize(n) \in Nat /\ Even(BlockSize(n))
         /\ BlockSize(n) >= n + 2
         /\ n # 0 => BlockSize(n) >= 4
BY DEF BlockSize, round_up, Even

\* r is m with the header and the footer of a block of s words written at b.
WroteBlock(r, m, b, s, al) ==
  /\ r \in [Words -> Nat]
  /\ r[b] = s + al
  /\ r[b + s - 1] = s + al
  /\ \A a \in Words : a # b /\ a # b + s - 1 => r[a] = m[a]
  /\ get_size(r, b) = s
  /\ AllocatedOf(r[b]) = al

\* set_block writes a block's header and footer and nothing else.
LEMMA SetBlock ==
  ASSUME NEW m \in [Words -> Nat], NEW b \in Words, NEW s \in Nat, Even(s), s >= 2,
         b + s <= Limit, NEW al \in {0, 1}
  PROVE  WroteBlock(set_block(m, b, s, al), m, b, s, al)
<1> DEFINE h == set_header(m, b, s, al)
<1>1. h \in [Words -> Nat] /\ h[b] = s + al /\ get_size(h, b) = s
  BY ReadBack DEF set_header, get_size
<1>2. b + s - 1 \in Words
  BY HeapAssumption DEF Words, Limit
<1>3. set_block(m, b, s, al) = [h EXCEPT ![b + s - 1] = s + al]
  BY <1>1 DEF set_block, set_footer
<1> QED
  BY <1>1, <1>2, <1>3, ReadBack DEF WroteBlock, set_header, get_size
-----------------------------------------------------------------------------
(* Tilings. *)

\* A block of a tiling: its size, where it ends, where its words lie.
LEMMA BlockFacts ==
  ASSUME NEW m \in [Words -> Nat], NEW hi \in First .. Limit,
         NEW st \in SUBSET Words, Tiled(m, First, hi, st), NEW b \in st
  PROVE  /\ b \in Int /\ First <= b /\ b % 2 = 1
         /\ get_size(m, b) \in Nat /\ Even(get_size(m, b)) /\ get_size(m, b) >= 2
         /\ EndOf(m, b) \in Int /\ EndOf(m, b) = b + get_size(m, b)
         /\ EndOf(m, b) <= hi /\ EndOf(m, b) \in st \cup {hi}
         /\ EndOf(m, b) - 1 \in Words
         /\ m[EndOf(m, b) - 1] = m[b]
<1>1. b \in Words /\ BlockInPlace(m, First, hi, st, b)
  BY DEF Tiled
<1>2. /\ b \in Int /\ Limit \in Int /\ Heap \in Int /\ First = Heap + 1
      /\ hi \in Int /\ hi <= Limit
  BY HeapAssumption DEF Words, First, Limit
<1>3. get_size(m, b) \in Nat /\ Even(get_size(m, b))
  BY <1>1, SizeOfWord DEF get_size
<1>4. EndOf(m, b) = b + get_size(m, b) /\ EndOf(m, b) \in Int
  BY <1>2, <1>3 DEF EndOf
<1>5. EndOf(m, b) - 1 \in Words
  BY <1>1, <1>2, <1>3, <1>4 DEF BlockInPlace, Words
<1> QED
  BY <1>1, <1>2, <1>3, <1>4, <1>5 DEF BlockInPlace

\* The headers after the blocks from lo to hi gave way to new ones; two memories
\* that agree outside these words.
Replaced(st, lo, hi, new) == {b \in st : b < lo \/ b >= hi} \cup new
SameOutside(r, m, lo, hi) == \A a \in Words : a < lo \/ a >= hi => r[a] = m[a]

\* Replacing the blocks between two boundaries by another tiling of the same
\* words, and touching nothing outside, gives a tiling of the heap again.
LEMMA Retile ==
  ASSUME NEW m \in [Words -> Nat], NEW r \in [Words -> Nat],
         NEW brk \in First .. Limit, NEW st \in SUBSET Words,
         Tiled(m, First, brk, st),
         NEW lo \in st, NEW hi \in st \cup {brk}, lo < hi,
         NEW new \in SUBSET Words, Tiled(r, lo, hi, new),
         SameOutside(r, m, lo, hi)
  PROVE  /\ Replaced(st, lo, hi, new) \in SUBSET Words
         /\ Tiled(r, First, brk, Replaced(st, lo, hi, new))
<1> DEFINE st2 == Replaced(st, lo, hi, new)
<1> USE DEF Replaced, SameOutside
<1>0. /\ First \in Int /\ brk \in Int /\ lo \in Int /\ hi \in Int
      /\ Words \subseteq Int /\ First <= lo /\ hi <= brk
  <2>1. Words \subseteq Int /\ First \in Int /\ brk \in Int
    BY HeapAssumption DEF Words, First, Limit
  <2>2. First <= lo
    BY BlockFacts
  <2>3. hi <= brk
    BY <2>1, BlockFacts
  <2> QED BY <2>1, <2>2, <2>3
<1>1. ASSUME NEW b \in st, b < lo \/ b >= hi
      PROVE  /\ EndOf(r, b) = EndOf(m, b) /\ get_size(r, b) = get_size(m, b)
             /\ r[EndOf(r, b) - 1] = r[b]
             /\ b < lo => EndOf(m, b) <= lo
             /\ b \in Int /\ EndOf(m, b) \in Int /\ b < EndOf(m, b)
  <2>1. r[b] = m[b] /\ get_size(r, b) = get_size(m, b) /\ EndOf(r, b) = EndOf(m, b)
    BY <1>1 DEF get_size, EndOf
  <2>2. b < lo => EndOf(m, b) <= lo
    BY DEF Tiled
  <2>3. EndOf(m, b) - 1 < lo \/ EndOf(m, b) - 1 >= hi
    BY <1>0, <1>1, <2>2, BlockFacts
  <2> QED BY <2>1, <2>2, <2>3, <1>1, BlockFacts
<1>2. ASSUME NEW b \in new
      PROVE  /\ BlockInPlace(r, lo, hi, new, b)
             /\ b \in Int /\ EndOf(r, b) \in Int /\ b < EndOf(r, b)
             /\ lo <= b /\ EndOf(r, b) <= hi
  BY SizeOfWord, <1>0 DEF Tiled, BlockInPlace, get_size, EndOf
<1>3. brk % 2 = 1 /\ First % 2 = 1
  BY DEF Tiled
<1>4. lo \in new
  BY <1>0, <1>2 DEF Tiled
<1>5. First \in st2 \cup {brk}
  BY <1>0, <1>4 DEF Tiled
<1>6. ASSUME NEW b \in st2
      PROVE  BlockInPlace(r, First, brk, st2, b)
  <2>1. CASE b \in new
    BY <2>1, <1>0, <1>2, <1>4 DEF BlockInPlace
  <2>2. CASE b \in st /\ (b < lo \/ b >= hi)
    <3>1. EndOf(m, b) \in st2 \cup {brk}
      BY <2>2, <1>0, <1>1, <1>4, BlockFacts
    <3> QED BY <3>1, <2>2, <1>1, BlockFacts DEF BlockInPlace
  <2> QED BY <2>1, <2>2
<1>7. ASSUME NEW b \in st2, NEW c \in st2, b < c
      PROVE  EndOf(r, b) <= c
  <2>1. CASE b \in new /\ c \in new
    BY <2>1, <1>7 DEF Tiled
  <2>2. CASE b \in new /\ c \in st /\ (c < lo \/ c >= hi)
    BY <2>2, <1>7, <1>0, <1>1, <1>2
  <2>3. CASE b \in st /\ (b < lo \/ b >= hi) /\ c \in new
    BY <2>3, <1>7, <1>0, <1>1, <1>2
  <2>4. CASE b \in st /\ (b < lo \/ b >= hi) /\ c \in st
    BY <2>4, <1>7, <1>1 DEF Tiled
  <2> QED BY <2>1, <2>2, <2>3, <2>4
<1>8. ASSUME NEW c \in st2 \cup {brk}, c # First
      PROVE  \E b \in st2 : EndOf(r, b) = c
  <2>1. CASE c \in new \cup {hi} /\ c # lo
    BY <2>1 DEF Tiled
  <2>2. CASE c \in st \cup {brk} /\ (c <= lo \/ c > hi)
    <3>1. PICK p \in st : EndOf(m, p) = c
      BY <2>2, <1>8 DEF Tiled
    <3>2. p < lo \/ p >= hi
      <4>1. p < hi => EndOf(m, p) <= hi
        BY BlockFacts DEF Tiled
      <4> QED BY <4>1, <3>1, <2>2, <1>0, BlockFacts
    <3> QED BY <3>1, <3>2, <1>1
  <2> QED BY <2>1, <2>2, <1>0, <1>2
<1> QED
  BY <1>3, <1>5, <1>6, <1>7, <1>8 DEF Tiled
\* Distinct blocks of a tiling do not share a word.
LEMMA BlocksApart ==
  ASSUME NEW m \in [Words -> Nat], NEW hi \in First .. Limit,
         NEW st \in SUBSET Words, Tiled(m, First, hi, st),
         NEW b \in st, NEW c \in st, b # c
  PROVE  EndOf(m, b) <= c \/ EndOf(m, c) <= b
<1>1. b \in Int /\ c \in Int
  BY BlockFacts
<1> QED BY <1>1 DEF Tiled

\* A tiling survives writes that miss every header and every footer.
LEMMA PayloadWrites ==
  ASSUME NEW m \in [Words -> Nat], NEW r \in [Words -> Nat],
         NEW hi \in First .. Limit,
         NEW st \in SUBSET Words, Tiled(m, First, hi, st),
         \A b \in st : r[b] = m[b] /\ r[EndOf(m, b) - 1] = m[EndOf(m, b) - 1]
  PROVE  /\ Tiled(r, First, hi, st)
         /\ \A b \in st : get_size(r, b) = get_size(m, b) /\ EndOf(r, b) = EndOf(m, b)
<1>1. \A b \in st : get_size(r, b) = get_size(m, b) /\ EndOf(r, b) = EndOf(m, b)
  BY DEF get_size, EndOf
<1>2. \A b \in st : BlockInPlace(r, First, hi, st, b)
  BY <1>1, BlockFacts DEF BlockInPlace
<1> QED BY <1>1, <1>2 DEF Tiled

\* brk never reaches the last mapped word: one word beyond any block is mapped.
LEMMA BrkMapped ==
  ASSUME NEW m, NEW hi \in First .. Limit, NEW st, Tiled(m, First, hi, st)
  PROVE  hi \in Words /\ First \in Words
<1>1. hi % 2 = 1
  BY DEF Tiled
<1>2. Even(Limit) /\ Limit \in Int
  BY HeapAssumption, Parity DEF Limit, Even
<1>3. hi # Limit
  BY <1>1, <1>2 DEF Even
<1> QED BY <1>2, <1>3, HeapAssumption DEF Words, First, Limit

-----------------------------------------------------------------------------
(* split and sbrk. *)

\* r is m after block b was cut: what its owner and the other blocks see.
SplitInTwo(r, m, brk, st, b, s) ==
  /\ r \in [Words -> Nat]
  /\ st \cup Remainder(m, b, s) \in SUBSET Words
  /\ Tiled(r, First, brk, st \cup Remainder(m, b, s))
  /\ get_size(r, b) = s /\ check_allocated(r, b)
  /\ \A a \in Words : a < b \/ a >= EndOf(m, b) => r[a] = m[a]
  /\ \A c \in st : c # b => r[c] = m[c]
  /\ \A c \in st \cup Remainder(m, b, s) : c \notin st => ~check_allocated(r, c)

\* split leaves a tiling: the block of s words and, if any, the remainder.
LEMMA SplitFacts ==
  ASSUME NEW m \in [Words -> Nat], NEW brk \in First .. Limit,
         NEW st \in SUBSET Words, Tiled(m, First, brk, st),
         NEW b \in st, NEW s \in Nat, Even(s), s >= 2, s <= get_size(m, b)
  PROVE  SplitInTwo(split(m, b, s), m, brk, st, b, s)
<1> DEFINE size == get_size(m, b)
           m1   == set_block(m, b, s, 1)
           r    == split(m, b, s)
           rest == Remainder(m, b, s)
           hi   == EndOf(m, b)
<1>0. /\ b \in Words /\ b \in Int /\ b % 2 = 1 /\ size \in Nat /\ Even(size) /\ size >= 2
      /\ hi = b + size /\ hi \in Int /\ hi <= brk /\ hi \in st \cup {brk}
      /\ brk \in Int /\ brk <= Limit /\ Limit \in Int /\ Words \subseteq Int
  <2>1. brk \in Int /\ brk <= Limit /\ Limit \in Int /\ Words \subseteq Int
    BY HeapAssumption DEF Words, First, Limit
  <2> QED BY <2>1, BlockFacts
<1>1. /\ m1 \in [Words -> Nat] /\ m1[b] = s + 1 /\ m1[b + s - 1] = s + 1
      /\ \A a \in Words : a # b /\ a # b + s - 1 => m1[a] = m[a]
      /\ get_size(m1, b) = s /\ check_allocated(m1, b)
  <2>1. b + s <= Limit
    BY <1>0
  <2>2. b \in Words
    BY <1>0
  <2>3. WroteBlock(m1, m, b, s, 1)
    BY <2>1, <2>2, SetBlock
  <2> QED BY <2>3 DEF WroteBlock, check_allocated
<1>2. ASSUME NEW c \in st, c # b
      PROVE  c < b \/ c >= hi
  <2>1. EndOf(m, b) <= c \/ EndOf(m, c) <= b
    BY <1>2, BlocksApart
  <2>2. c \in Int /\ c < EndOf(m, c) /\ EndOf(m, c) \in Int
    BY BlockFacts
  <2> QED BY <2>1, <2>2, <1>0
<1>3. CASE s = size
  <2>1. r = m1 /\ rest = {}
    BY <1>3, <1>0 DEF split, Remainder
  <2>2. Tiled(m1, b, hi, {b})
    <3>1. hi % 2 = 1
      <4> HIDE DEF hi, size
      <4> QED BY <1>0, Parity
    <3>2. EndOf(m1, b) = hi
      BY <1>0, <1>1, <1>3 DEF EndOf
    <3> HIDE DEF m1, hi
    <3> QED BY <3>1, <3>2, <1>0, <1>1, <1>3 DEF Tiled, BlockInPlace
  <2>3. SameOutside(m1, m, b, hi)
    BY <1>0, <1>1, <1>3 DEF SameOutside
  <2>4. st \cup rest = Replaced(st, b, hi, {b})
    BY <2>1, <1>2 DEF Replaced
  <2>5. Tiled(m1, First, brk, st \cup rest) /\ st \cup rest \in SUBSET Words
    <3> DEFINE new == {b}
    <3>1. new \in SUBSET Words /\ b < hi /\ hi \in st \cup {brk}
      BY <1>0
    <3>2. Tiled(m1, b, hi, new) /\ st \cup rest = Replaced(st, b, hi, new)
      BY <2>2, <2>4
    <3>3. m1 \in [Words -> Nat]
      BY <1>1
    <3> HIDE DEF m1, hi, rest, new
    <3>4. Tiled(m1, First, brk, Replaced(st, b, hi, new))
      BY <3>1, <3>2, <3>3, <2>3, Retile
    <3>5. Replaced(st, b, hi, new) \in SUBSET Words
      BY <3>1, <3>2, <3>3, <2>3, Retile
    <3> QED BY <3>2, <3>4, <3>5
  <2>6. \A c \in st : c # b => m1[c] = m[c]
    BY <2>3, <1>2 DEF SameOutside
  <2> HIDE DEF r, m1, hi, rest
  <2>7. Tiled(r, First, brk, st \cup rest) /\ st \cup rest \in SUBSET Words
    BY <2>1, <2>5
  <2>8. r \in [Words -> Nat] /\ get_size(r, b) = s /\ check_allocated(r, b)
    BY <2>1, <1>1
  <2>9. \A c \in st \cup rest : c \notin st => ~check_allocated(r, c)
    BY <2>1
  <2> QED BY <2>1, <2>3, <2>6, <2>7, <2>8, <2>9
       DEF SplitInTwo, SameOutside, r, hi, rest
<1>4. CASE s < size
  <2> DEFINE k == size - s
  <2>1. k \in Nat /\ Even(k) /\ k >= 2
    BY <1>0, <1>4, Parity DEF Even
  <2>2. /\ b + s \in Words /\ (b + s) + k = hi /\ b + s - 1 \in Words
        /\ b + s < hi /\ b + s - 1 >= b
    <3>1. Heap \in Int /\ Words = Heap .. Limit - 1
      BY HeapAssumption DEF Words
    <3> QED BY <3>1, <1>0, <1>4, <2>1
  <2>3. r = set_block(m1, b + s, k, 0) /\ rest = {b + s}
    BY <1>4, <1>0, <2>1 DEF split, Remainder
  <2>4. WroteBlock(r, m1, b + s, k, 0)
    <3> HIDE DEF k, hi, r, m1, rest
    <3>1. (b + s) + k <= Limit
      BY <2>1, <2>2, <1>0
    <3> QED BY <3>1, <2>1, <2>2, <2>3, <1>1, SetBlock
  <2>5. /\ r \in [Words -> Nat] /\ r[b + s] = k /\ r[hi - 1] = k
        /\ \A a \in Words : a # b + s /\ a # hi - 1 => r[a] = m1[a]
        /\ get_size(r, b + s) = k /\ ~check_allocated(r, b + s)
    <3> HIDE DEF k, hi, r, m1, size
    <3>1. (b + s) + k - 1 = hi - 1 /\ k + 0 = k
      BY <2>1, <2>2, <1>0
    <3> QED BY <3>1, <2>4 DEF WroteBlock, check_allocated
  <2> HIDE DEF k, r, m1, rest, hi, size
  <2>6. /\ r[b] = s + 1 /\ r[b + s - 1] = s + 1
        /\ get_size(r, b) = s /\ check_allocated(r, b)
    <3>1. r[b] = m1[b] /\ r[b + s - 1] = m1[b + s - 1]
      BY <2>1, <2>2, <2>5, <1>0
    <3> QED BY <3>1, <1>1 DEF get_size, check_allocated
  <2>7. Tiled(r, b, hi, {b, b + s})
    <3>1. EndOf(r, b) = b + s /\ EndOf(r, b + s) = hi
      BY <2>1, <2>2, <2>5, <2>6 DEF EndOf
    <3>2. (b + s) % 2 = 1 /\ hi % 2 = 1
      BY <2>1, <2>2, <1>0, Parity
    <3>3. BlockInPlace(r, b, hi, {b, b + s}, b)
      BY <3>1, <2>2, <2>6, <1>0 DEF BlockInPlace
    <3>4. BlockInPlace(r, b, hi, {b, b + s}, b + s)
      BY <3>1, <3>2, <2>1, <2>2, <2>5, <1>0 DEF BlockInPlace
    <3>5. b < b + s /\ b + s < hi
      BY <2>2, <1>0
    <3> QED BY <3>1, <3>2, <3>3, <3>4, <3>5, <1>0 DEF Tiled
  <2>8. SameOutside(r, m, b, hi)
    BY <2>2, <2>5, <1>0, <1>1 DEF SameOutside
  <2>9. st \cup rest = Replaced(st, b, hi, {b, b + s})
    BY <2>3, <1>2 DEF Replaced
  <2>10. Tiled(r, First, brk, st \cup rest) /\ st \cup rest \in SUBSET Words
    <3> DEFINE new == {b, b + s}
    <3>1. new \in SUBSET Words /\ b < hi /\ hi \in st \cup {brk}
      BY <2>2, <1>0
    <3>2. Tiled(r, b, hi, new) /\ st \cup rest = Replaced(st, b, hi, new)
      BY <2>7, <2>9
    <3>3. r \in [Words -> Nat]
      BY <2>5
    <3> HIDE DEF m1, hi, rest, new
    <3>4. Tiled(r, First, brk, Replaced(st, b, hi, new))
      BY <3>1, <3>2, <3>3, <2>8, Retile
    <3>5. Replaced(st, b, hi, new) \in SUBSET Words
      BY <3>1, <3>2, <3>3, <2>8, Retile
    <3> QED BY <3>2, <3>4, <3>5
  <2>11. \A c \in st : c # b => r[c] = m[c]
    BY <2>8, <1>0, <1>2 DEF SameOutside
  <2> QED BY <2>3, <2>5, <2>6, <2>8, <2>10, <2>11
       DEF SplitInTwo, SameOutside, r, hi, rest
<1> QED BY <1>0, <1>3, <1>4
\* r is m after the heap grew by a block of s words.
Extended(r, m, brk, st, s) ==
  /\ r \in [Words -> Nat]
  /\ Tiled(r, First, brk + s, st \cup {brk})
  /\ get_size(r, brk) = s /\ check_allocated(r, brk)
  /\ \A a \in Words : a < brk => r[a] = m[a]
  /\ \A c \in st : r[c] = m[c] /\ c < brk /\ EndOf(m, c) <= brk

\* Growing the heap appends one block to the tiling.
LEMMA ExtendFacts ==
  ASSUME NEW m \in [Words -> Nat], NEW brk \in First .. Limit,
         NEW st \in SUBSET Words, Tiled(m, First, brk, st),
         NEW s \in Nat, Even(s), s >= 2, brk + s <= Limit
  PROVE  Extended(set_block(m, brk, s, 1), m, brk, st, s)
<1> DEFINE r   == set_block(m, brk, s, 1)
           st2 == st \cup {brk}
<1>0. brk \in Words /\ brk \in Int /\ First \in Int /\ First <= brk /\ brk % 2 = 1
  <2>1. brk \in Int /\ First \in Int /\ First <= brk
    BY HeapAssumption DEF First, Limit
  <2>2. brk \in Words
    BY BrkMapped
  <2>3. brk % 2 = 1
    BY DEF Tiled
  <2> QED BY <2>1, <2>2, <2>3
<1>1. WroteBlock(r, m, brk, s, 1)
  BY <1>0, SetBlock
<1>2. /\ r \in [Words -> Nat] /\ r[brk] = s + 1 /\ r[brk + s - 1] = s + 1
      /\ get_size(r, brk) = s /\ check_allocated(r, brk)
  BY <1>1 DEF WroteBlock, check_allocated
<1> HIDE DEF r
<1>3. \A a \in Words : a < brk => r[a] = m[a]
  BY <1>0, <1>1 DEF WroteBlock
<1>4. ASSUME NEW c \in st
      PROVE  /\ r[c] = m[c] /\ c \in Int /\ c < brk /\ EndOf(m, c) <= brk
             /\ EndOf(r, c) = EndOf(m, c) /\ get_size(r, c) = get_size(m, c)
             /\ r[EndOf(m, c) - 1] = m[EndOf(m, c) - 1]
  <2>1. /\ c \in Int /\ EndOf(m, c) \in Int /\ c < EndOf(m, c) /\ EndOf(m, c) <= brk
        /\ EndOf(m, c) - 1 \in Words /\ c \in Words
    BY BlockFacts, <1>0
  <2>2. r[c] = m[c]
    BY <2>1, <1>0, <1>3
  <2>3. r[EndOf(m, c) - 1] = m[EndOf(m, c) - 1]
    BY <2>1, <1>0, <1>3
  <2> QED BY <2>1, <2>2, <2>3, <1>0 DEF EndOf, get_size
<1>5. EndOf(r, brk) = brk + s
  BY <1>2 DEF EndOf
<1>6. (brk + s) % 2 = 1
  BY <1>0, Parity
<1>7. ASSUME NEW c \in st2
      PROVE  BlockInPlace(r, First, brk + s, st2, c)
  <2>1. CASE c = brk
    BY <2>1, <1>0, <1>2, <1>5 DEF BlockInPlace
  <2>2. CASE c \in st
    <3>1. BlockInPlace(m, First, brk, st, c)
      BY <2>2 DEF Tiled
    <3>2. EndOf(m, c) \in Int
      BY <2>2, BlockFacts
    <3> QED BY <3>1, <3>2, <2>2, <1>0, <1>4 DEF BlockInPlace
  <2> QED BY <2>1, <2>2
<1>8. ASSUME NEW c \in st2, NEW d \in st2, c < d
      PROVE  EndOf(r, c) <= d
  <2>1. CASE c \in st /\ d \in st
    BY <2>1, <1>4, <1>8 DEF Tiled
  <2>2. CASE c \in st /\ d = brk
    BY <2>2, <1>4
  <2>3. CASE c = brk
    BY <2>3, <1>0, <1>4, <1>8
  <2> QED BY <2>1, <2>2, <2>3
<1>9. ASSUME NEW c \in st2 \cup {brk + s}, c # First
      PROVE  \E d \in st2 : EndOf(r, d) = c
  <2>1. CASE c \in st2
    <3>1. PICK d \in st : EndOf(m, d) = c
      BY <2>1, <1>9 DEF Tiled
    <3> QED BY <3>1, <1>4
  <2>2. CASE c = brk + s
    BY <2>2, <1>5
  <2> QED BY <2>1, <2>2
<1>10. First \in st2 \cup {brk + s} /\ First % 2 = 1
  BY DEF Tiled
<1>11. Tiled(r, First, brk + s, st2)
  BY <1>6, <1>7, <1>8, <1>9, <1>10 DEF Tiled
<1> QED
  BY <1>2, <1>3, <1>4, <1>11 DEF Extended, r

-----------------------------------------------------------------------------
(* coalesce and free. *)

\* The neighbour coalesce finds through b's preceding footer is the block that
\* ends where b begins.
LEMMA PrevIsBlock ==
  ASSUME NEW m \in [Words -> Nat], NEW brk \in First .. Limit,
         NEW st \in SUBSET Words, Tiled(m, First, brk, st),
         NEW b \in st, LooksBack(m, b)
  PROVE  /\ PrevBlock(m, b) \in st
         /\ EndOf(m, PrevBlock(m, b)) = b
<1>1. /\ b \in Int /\ get_size(m, b) \in Nat /\ b + get_size(m, b) <= brk /\ First <= b
      /\ brk <= Limit /\ brk \in Int /\ First \in Int /\ Limit \in Int
  <2>1. brk <= Limit /\ brk \in Int /\ First \in Int /\ Limit \in Int
    BY HeapAssumption DEF First, Limit
  <2>2. b \in Int /\ get_size(m, b) \in Nat /\ First <= b
    BY BlockFacts
  <2>3. EndOf(m, b) <= brk /\ EndOf(m, b) = b + get_size(m, b)
    BY BlockFacts
  <2> QED BY <2>1, <2>2, <2>3
<1>2. get_size(m, b) < b
  BY <1>1, HeapAssumption DEF First, Limit
<1>3. b # First
  BY <1>1, <1>2 DEF LooksBack
<1>4. PICK p \in st : EndOf(m, p) = b
  BY <1>3 DEF Tiled
<1>5. m[b - 1] = m[p] /\ p \in Int /\ get_size(m, p) \in Nat /\ b = p + get_size(m, p)
  BY <1>4, BlockFacts
<1>6. PrevBlock(m, b) = p
  BY <1>5 DEF PrevBlock, get_size
<1> QED BY <1>4, <1>6
\* r is m after block b was merged into the free block [lo, hi).
Merged(r, m, brk, st, b, lo, hi) ==
  /\ lo \in st /\ lo \in Int /\ hi \in Int /\ lo <= b /\ EndOf(m, b) <= hi /\ hi <= brk
  /\ r \in [Words -> Nat]
  /\ Tiled(r, First, brk, Replaced(st, lo, hi, {lo}))
  /\ Replaced(st, lo, hi, {lo}) \in SUBSET Words
  /\ get_size(r, lo) = hi - lo /\ ~check_allocated(r, lo)
  /\ SameOutside(r, m, lo, hi)
  /\ \A c \in st : c \in Int /\ (EndOf(m, c) <= lo \/ hi <= c \/ (lo <= c /\ EndOf(m, c) <= hi))
  /\ \A c \in st : lo <= c /\ c < hi /\ c # b => ~check_allocated(m, c)

\* Writing one free block over a run of blocks, all free but b, merges them.
LEMMA MergeRun ==
  ASSUME NEW m \in [Words -> Nat], NEW brk \in First .. Limit,
         NEW st \in SUBSET Words, Tiled(m, First, brk, st),
         NEW b \in st, NEW lo \in st, NEW hi \in st \cup {brk},
         lo <= b, EndOf(m, b) <= hi,
         \A c \in st : lo <= c /\ c < hi /\ c # b => ~check_allocated(m, c)
  PROVE  Merged(set_block(m, lo, hi - lo, 0), m, brk, st, b, lo, hi)
<1> DEFINE r == set_block(m, lo, hi - lo, 0)
<1>0. /\ lo \in Int /\ lo \in Words /\ hi \in Int /\ lo < hi /\ hi <= brk /\ lo % 2 = 1
      /\ brk \in Int /\ brk <= Limit /\ Limit \in Int /\ hi % 2 = 1 /\ lo + 2 <= hi
  <2>1. brk \in Int /\ brk <= Limit /\ Limit \in Int /\ Words \subseteq Int
    BY HeapAssumption DEF Words, First, Limit
  <2>2. lo \in Words /\ lo \in Int /\ lo % 2 = 1 /\ hi \in Int
    BY <2>1, BlockFacts
  <2>3. hi % 2 = 1
    BY BlockFacts DEF Tiled
  <2>4. hi <= brk
    BY <2>1, <2>2, BlockFacts
  <2>5. b + 2 <= hi /\ b \in Int
    <3>1. /\ b \in Int /\ get_size(m, b) \in Nat /\ get_size(m, b) >= 2
          /\ EndOf(m, b) = b + get_size(m, b)
      BY BlockFacts
    <3> QED BY <3>1, <2>2
  <2> QED BY <2>1, <2>2, <2>3, <2>4, <2>5
<1>1. hi - lo \in Nat /\ Even(hi - lo) /\ hi - lo >= 2 /\ lo + (hi - lo) = hi
  BY <1>0 DEF Even
<1>2. WroteBlock(r, m, lo, hi - lo, 0)
  <2>1. lo + (hi - lo) <= Limit
    BY <1>0, <1>1
  <2> QED BY <2>1, <1>0, <1>1, SetBlock
<1>3. /\ r \in [Words -> Nat] /\ get_size(r, lo) = hi - lo /\ ~check_allocated(r, lo)
      /\ r[lo] = r[hi - 1]
  <2>1. lo + (hi - lo) - 1 = hi - 1
    BY <1>0
  <2> QED BY <2>1, <1>2 DEF WroteBlock, check_allocated
<1>4. SameOutside(r, m, lo, hi)
  BY <1>0, <1>1, <1>2 DEF WroteBlock, SameOutside
<1> HIDE DEF r
<1>5. EndOf(r, lo) = hi
  BY <1>1, <1>3 DEF EndOf
<1>6. Tiled(r, lo, hi, {lo})
  <2>1. BlockInPlace(r, lo, hi, {lo}, lo)
    BY <1>0, <1>1, <1>3, <1>5 DEF BlockInPlace
  <2> QED BY <2>1, <1>0, <1>5 DEF Tiled
<1>7. {lo} \in SUBSET Words
  BY <1>0
<1>8. Tiled(r, First, brk, Replaced(st, lo, hi, {lo}))
  BY <1>0, <1>3, <1>4, <1>6, <1>7, Retile
<1>9. Replaced(st, lo, hi, {lo}) \in SUBSET Words
  BY <1>7 DEF Replaced
<1>10. ASSUME NEW c \in st
       PROVE  c \in Int /\ (EndOf(m, c) <= lo \/ hi <= c \/ (lo <= c /\ EndOf(m, c) <= hi))
  <2>1. c \in Int /\ EndOf(m, c) \in Int /\ c < EndOf(m, c) /\ EndOf(m, c) <= brk
    BY BlockFacts, <1>0
  <2>2. c < lo => EndOf(m, c) <= lo
    BY DEF Tiled
  <2>3. c < hi => EndOf(m, c) <= hi
    BY <2>1 DEF Tiled
  <2> QED BY <2>1, <2>2, <2>3, <1>0
<1> QED
  BY <1>0, <1>3, <1>4, <1>8, <1>9, <1>10 DEF Merged, r

\* coalesce merges b with the neighbours it finds free, reads and writes only
\* mapped words, and makes exactly the absorbed headers disappear.
LEMMA CoalesceFacts ==
  ASSUME NEW m \in [Words -> Nat], mem_brk \in First .. Limit,
         NEW st \in SUBSET Words, Tiled(m, First, mem_brk, st), NEW b \in st
  PROVE  /\ ~CoalesceFaults(m, b)
         /\ Merged(coalesce(m, b), m, mem_brk, st, b, MergedStart(m, b),
                   MergedStart(m, b) + MergedSize(m, b))
         /\ st \ Absorbed(m, b)
              = Replaced(st, MergedStart(m, b), MergedStart(m, b) + MergedSize(m, b),
                         {MergedStart(m, b)})
<1> DEFINE lo == MergedStart(m, b)
           p  == PrevBlock(m, b)
           n  == EndOf(m, b)
           hi == IF NextFree(m, b) THEN EndOf(m, n) ELSE n
<1>1. LooksBack(m, b) => p \in st /\ EndOf(m, p) = b /\ p \in Words
  BY PrevIsBlock
<1>2. /\ b \in Int /\ n \in Int /\ b < n /\ n <= mem_brk /\ n = b + get_size(m, b)
      /\ n \in st \cup {mem_brk} /\ mem_brk \in Int /\ Limit \in Int /\ mem_brk <= Limit
      /\ get_size(m, b) \in Nat
  <2>1. mem_brk \in Int /\ Limit \in Int /\ mem_brk <= Limit
    BY HeapAssumption DEF First, Limit
  <2> QED BY <2>1, BlockFacts
<1>3. NextFree(m, b) => /\ n \in st /\ ~check_allocated(m, n) /\ n < EndOf(m, n)
                        /\ EndOf(m, n) \in st \cup {mem_brk} /\ EndOf(m, n) \in Int
                        /\ EndOf(m, n) = n + get_size(m, n) /\ get_size(m, n) \in Nat
                        /\ EndOf(m, n) <= mem_brk
  <2> SUFFICES ASSUME NextFree(m, b) PROVE
                        /\ n \in st /\ ~check_allocated(m, n) /\ n < EndOf(m, n)
                        /\ EndOf(m, n) \in st \cup {mem_brk} /\ EndOf(m, n) \in Int
                        /\ EndOf(m, n) = n + get_size(m, n) /\ get_size(m, n) \in Nat
                        /\ EndOf(m, n) <= mem_brk
    OBVIOUS
  <2>1. n < mem_brk /\ ~check_allocated(m, n)
    BY <1>2 DEF NextFree
  <2> HIDE DEF n
  <2>2. n \in st
    BY <2>1, <1>2
  <2>3. /\ n \in Int /\ get_size(m, n) \in Nat /\ get_size(m, n) >= 2
        /\ EndOf(m, n) = n + get_size(m, n) /\ EndOf(m, n) <= mem_brk
        /\ EndOf(m, n) \in st \cup {mem_brk} /\ EndOf(m, n) \in Int
    BY <2>2, BlockFacts
  <2> QED BY <2>1, <2>2, <2>3
<1>4. PrevFree(m, b) => /\ p \in st /\ EndOf(m, p) = b /\ ~check_allocated(m, p)
                        /\ p \in Int /\ p < b /\ b = p + get_size(m, p)
                        /\ get_size(m, p) \in Nat /\ b # First
  <2> SUFFICES ASSUME PrevFree(m, b) PROVE
                        /\ p \in st /\ EndOf(m, p) = b /\ ~check_allocated(m, p)
                        /\ p \in Int /\ p < b /\ b = p + get_size(m, p)
                        /\ get_size(m, p) \in Nat /\ b # First
    OBVIOUS
  <2>1. p \in st /\ EndOf(m, p) = b /\ ~check_allocated(m, p)
    BY <1>1 DEF PrevFree
  <2> HIDE DEF p
  <2>2. /\ p \in Int /\ First <= p /\ get_size(m, p) \in Nat /\ get_size(m, p) >= 2
        /\ EndOf(m, p) = p + get_size(m, p)
    BY <2>1, BlockFacts
  <2>3. First \in Int
    BY HeapAssumption DEF First
  <2> QED BY <2>1, <2>2, <2>3, <1>2
<1>5. /\ lo = IF PrevFree(m, b) THEN p ELSE b
      /\ lo \in st /\ lo \in Int /\ lo <= b
  BY <1>2, <1>4 DEF MergedStart
<1>6. hi \in st \cup {mem_brk} /\ hi \in Int /\ n <= hi /\ hi <= mem_brk
  BY <1>2, <1>3
<1>7. lo + MergedSize(m, b) = hi /\ MergedSize(m, b) = hi - lo
  <2>1. MergedSize(m, b) = (IF PrevFree(m, b) THEN get_size(m, p) ELSE 0) + get_size(m, b)
                            + (IF NextFree(m, b) THEN get_size(m, n) ELSE 0)
    BY <1>2 DEF MergedSize
  <2> HIDE DEF p, n, lo
  <2> QED BY <2>1, <1>2, <1>3, <1>4, <1>5
<1>8. ASSUME NEW c \in st
      PROVE  /\ lo < c /\ c < hi => c \in Absorbed(m, b)
             /\ c \in Absorbed(m, b) => lo < c /\ c < hi
             /\ lo <= c /\ c < hi /\ c # b => ~check_allocated(m, c)
  <2>0. c \in Int /\ EndOf(m, c) \in Int /\ c < EndOf(m, c)
    BY BlockFacts
  <2>1. c # b => n <= c \/ EndOf(m, c) <= b
    BY BlocksApart
  <2>2. PrevFree(m, b) /\ c # p => b <= c \/ EndOf(m, c) <= p
    BY <1>4, BlocksApart
  <2>3. NextFree(m, b) /\ c # n => EndOf(m, n) <= c \/ EndOf(m, c) <= n
    BY <1>3, BlocksApart
  <2>4. Absorbed(m, b) = (IF PrevFree(m, b) THEN {b} ELSE {})
                         \cup (IF NextFree(m, b) THEN {n} ELSE {})
    BY <1>2 DEF Absorbed
  <2> HIDE DEF p, n, lo
  <2>5. lo < c /\ c < hi => c \in Absorbed(m, b)
    BY <2>0, <2>1, <2>2, <2>3, <2>4, <1>2, <1>3, <1>4, <1>5
  <2>6. c \in Absorbed(m, b) => lo < c /\ c < hi
    BY <2>0, <2>4, <1>2, <1>3, <1>4, <1>5
  <2>7. lo <= c /\ c < hi /\ c # b => ~check_allocated(m, c)
    BY <2>0, <2>1, <2>2, <2>3, <1>2, <1>3, <1>4, <1>5
  <2> QED BY <2>5, <2>6, <2>7
<1>9. Merged(set_block(m, lo, hi - lo, 0), m, mem_brk, st, b, lo, hi)
  <2> HIDE DEF lo, hi
  <2> QED BY <1>5, <1>6, <1>8, MergeRun
<1>10. coalesce(m, b) = set_block(m, lo, hi - lo, 0)
  BY <1>7 DEF coalesce
<1>11. ~CoalesceFaults(m, b)
  BY <1>1, <1>2, <1>6, <1>7 DEF CoalesceFaults
<1>12. st \ Absorbed(m, b) = Replaced(st, lo, hi, {lo})
  <2>1. \A c \in st : c \in Int
    BY BlockFacts
  <2> HIDE DEF lo, hi
  <2>2. \A c \in st : c \in Absorbed(m, b) <=> lo < c /\ c < hi
    BY <1>8
  <2>3. \A c \in st : c \notin Absorbed(m, b) <=> (c < lo \/ c >= hi \/ c = lo)
    BY <2>1, <2>2, <1>5, <1>6
  <2> QED BY <2>3, <1>5 DEF Replaced
<1> QED
  BY <1>7, <1>9, <1>10, <1>11, <1>12
\* r is m after free(b + 1): the freed block is lo, st2 the headers left.
\* Every other allocated block keeps its header, and all its words except
\* possibly the second word of its payload.
FreedBlock(r, m, brk, st, st2, b, lo) ==
  /\ r \in [Words -> Nat]
  /\ st2 \in SUBSET st
  /\ Tiled(r, First, brk, st2)
  /\ lo \in st2 /\ lo + 1 \in Words /\ get_size(r, lo) >= 4 /\ ~check_allocated(r, lo)
  /\ \A c \in st : c # b /\ check_allocated(m, c) => c \in st2 /\ r[c] = m[c]
  /\ \A c \in st2 : check_allocated(r, c) => c # b /\ r[c] = m[c]
  /\ \A c \in st : c # b /\ check_allocated(m, c) =>
       \A a \in Words : c <= a /\ a < EndOf(m, c) /\ a # c + 2 => r[a] = m[a]

\* free keeps the heap tiled and touches other live blocks in one word at most.
LEMMA FreeFacts ==
  ASSUME NEW m \in [Words -> Nat], mem_brk \in First .. Limit,
         NEW st \in SUBSET Words, Tiled(m, First, mem_brk, st), NEW b \in st,
         get_size(m, b) >= 4,
         NEW last \in {NULL} \cup Words,
         last # NULL => last - 1 \in st /\ get_size(m, last - 1) >= 4
  PROVE  FreedBlock(link(coalesce(m, b), last, MergedStart(m, b) + 1),
                    m, mem_brk, st, st \ Absorbed(m, b), b, MergedStart(m, b))
<1> DEFINE lo  == MergedStart(m, b)
           hi  == lo + MergedSize(m, b)
           q   == coalesce(m, b)
           st2 == st \ Absorbed(m, b)
           r   == link(q, last, lo + 1)
<1>1. Merged(q, m, mem_brk, st, b, lo, hi) /\ st2 = Replaced(st, lo, hi, {lo})
  BY CoalesceFacts
<1> HIDE DEF lo, hi, q, st2
<1>2. /\ lo \in st /\ lo \in Int /\ hi \in Int /\ lo <= b /\ EndOf(m, b) <= hi /\ hi <= mem_brk
      /\ q \in [Words -> Nat]
      /\ Tiled(q, First, mem_brk, st2) /\ st2 \in SUBSET Words
      /\ get_size(q, lo) = hi - lo /\ ~check_allocated(q, lo)
      /\ SameOutside(q, m, lo, hi)
  BY <1>1 DEF Merged
<1>3. ASSUME NEW c \in st
      PROVE  /\ c \in Int
             /\ EndOf(m, c) <= lo \/ hi <= c \/ (lo <= c /\ EndOf(m, c) <= hi)
             /\ lo <= c /\ c < hi /\ c # b => ~check_allocated(m, c)
             /\ EndOf(m, c) \in Int /\ c < EndOf(m, c)
  <2>1. c \in Int /\ EndOf(m, c) \in Int /\ c < EndOf(m, c)
    BY BlockFacts
  <2> QED BY <2>1, <1>1 DEF Merged
<1>4. b \in Int /\ b + 4 <= hi /\ lo + 4 <= hi
  <2>1. b \in Int /\ EndOf(m, b) = b + get_size(m, b) /\ get_size(m, b) \in Nat
    BY BlockFacts
  <2> QED BY <2>1, <1>2
<1>5. /\ lo \in st2
      /\ \A c \in st : c < lo \/ c >= hi => c \in st2
      /\ \A c \in st2 : c \in st /\ (c = lo \/ c < lo \/ c >= hi)
  BY <1>1, <1>2 DEF Replaced
<1>6. EndOf(q, lo) = hi
  BY <1>2 DEF EndOf
<1>7. /\ lo + 1 \in Words /\ lo + 2 \in Words /\ Words \subseteq Int
      /\ mem_brk \in Int /\ mem_brk <= Limit /\ Words \subseteq Nat
  <2>1. /\ Heap \in Nat /\ Limit \in Int /\ mem_brk \in Int /\ mem_brk <= Limit
        /\ Words = Heap .. Limit - 1 /\ lo \in Words
    BY <1>2, HeapAssumption DEF First, Limit, Words
  <2> QED BY <2>1, <1>2, <1>4
\* The list write goes to the third word of a block of m, inside a payload.
<1>8. last # NULL =>
        /\ last - 1 \in st /\ last \in Int /\ last + 2 < EndOf(m, last - 1) /\ last + 1 \in Words
  <2> SUFFICES ASSUME last # NULL
               PROVE  /\ last - 1 \in st /\ last \in Int
                      /\ last + 2 < EndOf(m, last - 1) /\ last + 1 \in Words
    OBVIOUS
  <2>1. last - 1 \in st /\ get_size(m, last - 1) >= 4 /\ last \in Int
    BY <1>7
  <2> DEFINE d == last - 1
  <2>2. d \in st /\ get_size(m, d) >= 4 /\ last = d + 1
    BY <2>1
  <2> HIDE DEF d
  <2>3. /\ d \in Int /\ get_size(m, d) \in Nat /\ EndOf(m, d) = d + get_size(m, d)
        /\ EndOf(m, d) - 1 \in Words
    BY <2>2, BlockFacts
  <2>4. last + 2 < EndOf(m, d)
    BY <2>2, <2>3
  <2>5. d + 2 \in Words
    <3>1. d \in Words /\ Heap \in Int /\ Limit \in Int
      BY <2>2, HeapAssumption DEF Limit
    <3> QED BY <3>1, <2>2, <2>3 DEF Words
  <2> QED BY <2>1, <2>2, <2>3, <2>4, <2>5 DEF d
<1>9. /\ r \in [Words -> Nat]
      /\ \A a \in Words : a # lo + 1 /\ a # lo + 2 /\ (last # NULL => a # last + 1)
           => r[a] = q[a]
  <2>1. lo + 1 + 1 = lo + 2
    BY <1>2
  <2> DEFINE cl == [q EXCEPT ![lo + 1] = NULL, ![lo + 2] = NULL]
  <2>2. r = IF last = NULL THEN cl
            ELSE [[cl EXCEPT ![last + 1] = lo + 1] EXCEPT ![lo + 1] = last]
    BY <2>1 DEF link
  <2>3. cl \in [Words -> Nat] /\ \A a \in Words : a # lo + 1 /\ a # lo + 2 => cl[a] = q[a]
    BY <1>2, <1>7 DEF NULL
  <2> HIDE DEF cl, r
  <2>4. CASE last = NULL
    BY <2>2, <2>3, <2>4
  <2>5. CASE last # NULL
    <3>1. last \in Nat /\ lo + 1 \in Nat /\ last + 1 \in Words
      BY <2>5, <1>7, <1>8
    <3> QED BY <3>1, <2>2, <2>3, <2>5, <1>7
  <2> QED BY <2>4, <2>5
<1> HIDE DEF r
<1>10. ASSUME NEW c \in st, c < lo \/ c >= hi
       PROVE  /\ c \in Words /\ c \in Int /\ EndOf(m, c) \in Int /\ c < EndOf(m, c)
              /\ EndOf(m, c) <= lo \/ hi <= c
              /\ \A a \in Words : c <= a /\ a < EndOf(m, c) => q[a] = m[a]
              /\ EndOf(q, c) = EndOf(m, c)
              /\ \A a \in Words : c <= a /\ a < EndOf(m, c) /\ a # c + 2 => r[a] = q[a]
  <2>1. c \in Words /\ c \in Int /\ EndOf(m, c) \in Int /\ c < EndOf(m, c)
    BY <1>3
  <2>2. EndOf(m, c) <= lo \/ hi <= c
    BY <1>2, <1>3, <1>10
  <2>3. \A a \in Words : c <= a /\ a < EndOf(m, c) => q[a] = m[a] /\ (a < lo \/ a >= hi)
    BY <2>1, <2>2, <1>2, <1>7 DEF SameOutside
  <2>4. EndOf(q, c) = EndOf(m, c)
    BY <2>1, <2>3 DEF EndOf, get_size
  <2>5. ASSUME NEW a \in Words, c <= a, a < EndOf(m, c), last # NULL, a = last + 1
        PROVE  a = c + 2
    <3>1. CASE last - 1 = c
      BY <3>1, <2>5, <1>8
    <3>2. CASE last - 1 # c
      <4>1. EndOf(m, last - 1) <= c \/ EndOf(m, c) <= last - 1
        BY <3>2, <2>5, <1>8, BlocksApart
      <4>2. EndOf(m, last - 1) \in Int
        BY <2>5, <1>8, <1>3
      <4> QED BY <4>1, <4>2, <2>1, <2>5, <1>8
    <3> QED BY <3>1, <3>2
  <2>6. \A a \in Words : c <= a /\ a < EndOf(m, c) /\ a # c + 2 => r[a] = q[a]
    <3> SUFFICES ASSUME NEW a \in Words, c <= a, a < EndOf(m, c), a # c + 2
                 PROVE  r[a] = q[a]
      OBVIOUS
    <3>1. a # lo + 1 /\ a # lo + 2
      BY <2>3, <1>2, <1>4, <1>7
    <3>2. last # NULL => a # last + 1
      BY <2>5
    <3> QED BY <3>1, <3>2, <1>9
  <2> QED BY <2>1, <2>2, <2>3, <2>4, <2>6
<1>11. /\ r[lo] = q[lo] /\ r[hi - 1] = q[hi - 1]
  <2>1. lo \in Words /\ hi - 1 \in Words
    <3>1. lo \in Words /\ Heap \in Int /\ Limit \in Int /\ Words = Heap .. Limit - 1
      BY <1>2, HeapAssumption DEF Limit, Words
    <3> QED BY <3>1, <1>2, <1>4, <1>7
  <2>2. last # NULL => lo # last + 1 /\ hi - 1 # last + 1
    <3> SUFFICES ASSUME last # NULL PROVE lo # last + 1 /\ hi - 1 # last + 1
      OBVIOUS
    <3> DEFINE d == last - 1
    <3>1. /\ d \in st /\ last = d + 1 /\ d \in Int
          /\ d + 3 < EndOf(m, d) /\ EndOf(m, d) \in Int
          /\ EndOf(m, d) <= lo \/ hi <= d \/ (lo <= d /\ EndOf(m, d) <= hi)
      BY <1>3, <1>8
    <3> HIDE DEF d
    <3> QED BY <3>1, <1>2, <1>4
  <2> QED BY <2>1, <2>2, <1>2, <1>4, <1>9
<1>12. \A c \in st2 : r[c] = q[c] /\ r[EndOf(q, c) - 1] = q[EndOf(q, c) - 1]
  <2> SUFFICES ASSUME NEW c \in st2
               PROVE  r[c] = q[c] /\ r[EndOf(q, c) - 1] = q[EndOf(q, c) - 1]
    OBVIOUS
  <2>1. CASE c = lo
    BY <2>1, <1>6, <1>11
  <2>2. CASE c # lo
    <3>1. c \in st /\ (c < lo \/ c >= hi)
      BY <2>2, <1>5
    <3>2. /\ c \in Words /\ c \in Int /\ EndOf(m, c) \in Int /\ EndOf(q, c) = EndOf(m, c)
          /\ c < EndOf(m, c)
          /\ \A a \in Words : c <= a /\ a < EndOf(m, c) /\ a # c + 2 => r[a] = q[a]
      BY <3>1, <1>10
    <3>3. EndOf(m, c) - 1 \in Words /\ EndOf(m, c) - 1 # c + 2
      <4>1. /\ get_size(m, c) \in Nat /\ Even(get_size(m, c)) /\ EndOf(m, c) = c + get_size(m, c)
            /\ EndOf(m, c) - 1 \in Words
        BY <3>1, BlockFacts
      <4> QED BY <4>1, <3>2 DEF Even
    <3> QED BY <3>2, <3>3
  <2> QED BY <2>1, <2>2
<1>13. Tiled(r, First, mem_brk, st2)
  BY <1>2, <1>9, <1>12, PayloadWrites
<1>14. get_size(r, lo) >= 4 /\ ~check_allocated(r, lo)
  BY <1>2, <1>4, <1>11 DEF get_size, check_allocated
<1>15. ASSUME NEW c \in st, c # b, check_allocated(m, c)
       PROVE  /\ c \in st2 /\ r[c] = m[c]
              /\ \A a \in Words : c <= a /\ a < EndOf(m, c) /\ a # c + 2 => r[a] = m[a]
  <2>1. c < lo \/ c >= hi
    BY <1>2, <1>3, <1>15
  <2>2. c \in st2
    BY <2>1, <1>5
  <2>3. \A a \in Words : c <= a /\ a < EndOf(m, c) /\ a # c + 2 => r[a] = m[a]
    BY <2>1, <1>10
  <2>4. c \in Words /\ c <= c /\ c < EndOf(m, c) /\ c # c + 2
    BY <1>3
  <2> QED BY <2>2, <2>3, <2>4
<1>16. ASSUME NEW c \in st2, check_allocated(r, c)
       PROVE  c # b /\ r[c] = m[c]
  <2>1. c # lo
    BY <1>14, <1>16
  <2>2. c \in st /\ (c < lo \/ c >= hi)
    BY <2>1, <1>5
  <2>3. q[c] = m[c]
    BY <2>2, <1>2 DEF SameOutside
  <2>4. c # b
    BY <2>2, <1>2, <1>4
  <2> QED BY <2>3, <2>4, <1>12
<1>17. st2 \in SUBSET st
  BY DEF st2
<1> QED
  BY <1>5, <1>7, <1>9, <1>13, <1>14, <1>15, <1>16, <1>17 DEF FreedBlock, r, lo, q, st2
-----------------------------------------------------------------------------
(* The inductive invariant.  No conjunct is inductive alone: the write      *)
(* through last_node needs LastNodeOnBlock to miss the headers, find_fit    *)
(* needs CursorOnHeader to split a real block, free needs LiveBlocksOwned   *)
(* to be handed one.                                                        *)

\* The call in progress and the driver's table agree: realloc still finds its old
\* block when malloc has returned, malloc and calloc never overwrite a live entry,
\* and a reallocated block is large enough to be refilled.
CallConsistent ==
  /\ pc \in {"find", "ret", "fill"} =>
       req.id \in Ids /\ req.size \in Sizes /\ req.op # "none"
  /\ pc \in {"find", "ret"} => (req.op = "realloc" <=> req.id \in Live)
  /\ pc = "fill" =>
       /\ new_ptr # NULL /\ blocks[req.id] = new_ptr
       /\ req.size + 2 <= get_size(mem, new_ptr - 1)
  /\ \A id \in Live : block_sizes[id] \in Sizes

\* All of it.
IInv ==
  /\ TypeOK /\ NoFault
  /\ HeapTiled /\ LiveBlocksOwned /\ LastNodeOnBlock
  /\ CursorOnHeader /\ CallConsistent /\ OnlySecondWordGarbled

\* The invariant holds when mm_init returns.
LEMMA InitInv == Init => IInv
<1> SUFFICES ASSUME Init PROVE IInv
  OBVIOUS
<1>1. /\ First \in Int /\ Limit \in Int /\ First <= Limit /\ First % 2 = 1 /\ First \in Nat
  BY HeapAssumption DEF First, Limit
<1>2. TypeOK
  BY <1>1 DEF Init, TypeOK, NoRequest, NULL
<1>3. HeapTiled
  BY <1>1 DEF Init, HeapTiled, Tiled
<1>4. Live = {} /\ pc = "idle" /\ last_node = NULL /\ starts = {}
  BY DEF Init, Live
<1> QED
  BY <1>2, <1>3, <1>4 DEF IInv, NoFault, LiveBlocksOwned, LastNodeOnBlock, CursorOnHeader,
     CallConsistent, OnlySecondWordGarbled, Pending

\* A live block, or the block about to be handed over, is a real block of at
\* least four words.
LEMMA LiveBlockFacts ==
  ASSUME IInv, 0 \notin Sizes
  PROVE  /\ \A id \in Live :
              /\ id \in Ids /\ blocks[id] \in Words /\ blocks[id] \in Nat
              /\ blocks[id] - 1 \in starts /\ check_allocated(mem, blocks[id] - 1)
              /\ get_size(mem, blocks[id] - 1) \in Nat
              /\ get_size(mem, blocks[id] - 1) >= 4
              /\ block_sizes[id] \in Nat /\ block_sizes[id] # 0
              /\ block_sizes[id] + 2 <= get_size(mem, blocks[id] - 1)
         /\ pc \in {"find", "ret", "fill"} => req.size \in Nat /\ req.size # 0
<1>1. Words \subseteq Nat
  BY HeapAssumption DEF Words, Limit
<1>2. ASSUME NEW id \in Live
      PROVE  /\ id \in Ids /\ blocks[id] \in Words /\ blocks[id] \in Nat
              /\ blocks[id] - 1 \in starts /\ check_allocated(mem, blocks[id] - 1)
              /\ get_size(mem, blocks[id] - 1) \in Nat
              /\ get_size(mem, blocks[id] - 1) >= 4
              /\ block_sizes[id] \in Nat /\ block_sizes[id] # 0
              /\ block_sizes[id] + 2 <= get_size(mem, blocks[id] - 1)
  <2>1. id \in Ids /\ blocks[id] \in Words /\ blocks[id] \in Nat
    BY <1>1 DEF IInv, TypeOK, Live
  <2>2. /\ blocks[id] - 1 \in starts /\ check_allocated(mem, blocks[id] - 1)
        /\ block_sizes[id] + 2 <= get_size(mem, blocks[id] - 1)
    BY DEF IInv, LiveBlocksOwned
  <2>3. block_sizes[id] \in Nat /\ block_sizes[id] # 0
    BY SizesAssumption DEF IInv, CallConsistent
  <2>4. get_size(mem, blocks[id] - 1) \in Nat /\ Even(get_size(mem, blocks[id] - 1))
    BY <2>2, BlockFacts DEF IInv, TypeOK, HeapTiled
  <2>5. get_size(mem, blocks[id] - 1) >= 4
    BY <2>2, <2>3, <2>4 DEF Even
  <2> QED BY <2>1, <2>2, <2>3, <2>4, <2>5
<1>3. pc \in {"find", "ret", "fill"} => req.size \in Nat /\ req.size # 0
  BY SizesAssumption DEF IInv, CallConsistent
<1> QED BY <1>2, <1>3

\* The words of a block's payload lie strictly between its header and footer.
LEMMA PayloadWord ==
  ASSUME NEW m \in [Words -> Nat], NEW brk \in First .. Limit,
         NEW st \in SUBSET Words, Tiled(m, First, brk, st),
         NEW c \in st, NEW n \in Nat, n + 2 <= get_size(m, c), NEW i \in 0 .. n - 1
  PROVE  c + 1 + i \in Words /\ c < c + 1 + i /\ c + 1 + i < EndOf(m, c) - 1
<1>1. /\ c \in Int /\ get_size(m, c) \in Nat /\ EndOf(m, c) = c + get_size(m, c)
      /\ EndOf(m, c) - 1 \in Words /\ c \in Words
  BY BlockFacts
<1>2. c < c + 1 + i /\ c + 1 + i < EndOf(m, c) - 1
  BY <1>1
<1>3. Heap \in Int /\ Limit \in Int /\ Words = Heap .. Limit - 1
  BY HeapAssumption DEF Limit, Words
<1> QED BY <1>1, <1>2, <1>3

\* The words a live index was given lie inside its block.
LEMMA LiveWord ==
  ASSUME IInv, 0 \notin Sizes, NEW id \in Live, NEW i \in 0 .. block_sizes[id] - 1
  PROVE  /\ blocks[id] + i \in Words /\ blocks[id] - 1 <= blocks[id] + i
         /\ blocks[id] + i < EndOf(mem, blocks[id] - 1)
<1> DEFINE c == blocks[id] - 1
           n == block_sizes[id]
<1>1. /\ c \in starts /\ blocks[id] = c + 1 /\ blocks[id] \in Nat /\ c \in Int
      /\ n \in Nat /\ n + 2 <= get_size(mem, c)
  BY LiveBlockFacts
<1> HIDE DEF c, n
<1>2. i \in 0 .. n - 1 /\ i \in Int
  BY <1>1 DEF n
<1>3. c + 1 + i \in Words /\ c < c + 1 + i /\ c + 1 + i < EndOf(mem, c) - 1
  BY <1>1, <1>2, PayloadWord DEF IInv, TypeOK, HeapTiled
<1>4. EndOf(mem, c) \in Int
  BY <1>1, BlockFacts DEF IInv, TypeOK, HeapTiled
<1> QED BY <1>1, <1>2, <1>3, <1>4 DEF c

\* Steps that leave the heap and the driver's table alone.
LEMMA QuietStep ==
  ASSUME IInv, 0 \notin Sizes,
         UNCHANGED <<mem, mem_brk, last_node, blocks, block_sizes, data, starts>>
  PROVE  /\ HeapTiled' /\ LastNodeOnBlock' /\ OnlySecondWordGarbled'
         /\ Live' = Live
         /\ ~Pending /\ ~Pending' => LiveBlocksOwned'
         /\ Pending /\ Pending' /\ UNCHANGED <<new_ptr, req>> => LiveBlocksOwned'
<1>1. HeapTiled'
  BY DEF IInv, HeapTiled
<1>2. Live' = Live
  BY DEF Live
<1>3. LastNodeOnBlock' /\ OnlySecondWordGarbled'
  BY <1>2 DEF IInv, LastNodeOnBlock, OnlySecondWordGarbled, get_size
<1>4. ~Pending /\ ~Pending' => LiveBlocksOwned'
  BY <1>2 DEF IInv, LiveBlocksOwned, check_allocated, get_size
<1>5. Pending /\ Pending' /\ UNCHANGED <<new_ptr, req>> => LiveBlocksOwned'
  BY <1>2 DEF IInv, LiveBlocksOwned, check_allocated, get_size
<1> QED BY <1>1, <1>2, <1>3, <1>4, <1>5
\* Entering malloc, calloc or realloc.
LEMMA CallStep ==
  ASSUME IInv, 0 \notin Sizes, NEW id \in Ids, NEW n \in Sizes,
         CallMalloc(id, n) \/ CallCalloc(id, n) \/ CallRealloc(id, n)
  PROVE  IInv'
<1>1. PICK op \in {"malloc", "calloc", "realloc"} :
        Call(op, id, n) /\ (op = "realloc" <=> blocks[id] # NULL)
  BY DEF CallMalloc, CallCalloc, CallRealloc
<1>2. /\ UNCHANGED <<mem, mem_brk, last_node, blocks, block_sizes, data, starts>>
      /\ ~Pending /\ ~Pending' /\ pc' = "find" /\ heap_pointer' = First
      /\ req' = [op |-> op, id |-> id, size |-> n] /\ new_ptr' = new_ptr
  BY <1>1 DEF Call, Pending
<1>3. /\ HeapTiled' /\ LastNodeOnBlock' /\ OnlySecondWordGarbled' /\ Live' = Live
      /\ LiveBlocksOwned'
  BY <1>2, QuietStep
<1>4. TypeOK'
  <2>1. First \in Nat /\ n \in Nat
    BY HeapAssumption, SizesAssumption DEF First
  <2> QED BY <2>1, <1>2 DEF IInv, TypeOK
<1>5. CursorOnHeader'
  BY <1>2 DEF IInv, CursorOnHeader, HeapTiled, Tiled
<1>6. CallConsistent'
  BY <1>1, <1>2, <1>3 DEF IInv, CallConsistent, Live
<1>7. NoFault'
  BY <1>2 DEF NoFault
<1> QED BY <1>3, <1>4, <1>5, <1>6, <1>7 DEF IInv

\* find_fit steps over a block.
LEMMA FindNextStep ==
  ASSUME IInv, 0 \notin Sizes, FindNext
  PROVE  IInv'
<1>1. /\ UNCHANGED <<mem, mem_brk, last_node, blocks, block_sizes, data, starts, pc, req, new_ptr>>
      /\ ~Pending /\ ~Pending' /\ pc = "find" /\ heap_pointer < mem_brk
      /\ heap_pointer' = EndOf(mem, heap_pointer)
  BY DEF FindNext, NextHeader, Pending, EndOf
<1>2. /\ HeapTiled' /\ LastNodeOnBlock' /\ OnlySecondWordGarbled' /\ Live' = Live
      /\ LiveBlocksOwned'
  BY <1>1, QuietStep
<1>3. heap_pointer \in starts
  <2>1. mem_brk \in Int
    BY HeapAssumption DEF IInv, TypeOK, First, Limit
  <2> QED BY <2>1, <1>1 DEF IInv, CursorOnHeader
<1>4. heap_pointer' \in starts \cup {mem_brk} /\ heap_pointer' \in Nat
  <2>1. /\ EndOf(mem, heap_pointer) \in starts \cup {mem_brk}
        /\ EndOf(mem, heap_pointer) = heap_pointer + get_size(mem, heap_pointer)
        /\ get_size(mem, heap_pointer) \in Nat
    BY <1>3, BlockFacts DEF IInv, TypeOK, HeapTiled
  <2> QED BY <2>1, <1>1 DEF IInv, TypeOK
<1>5. TypeOK'
  BY <1>1, <1>4 DEF IInv, TypeOK
<1>6. CursorOnHeader'
  BY <1>1, <1>4 DEF CursorOnHeader
<1>7. CallConsistent' /\ NoFault'
  BY <1>1, <1>2 DEF IInv, CallConsistent, NoFault
<1> QED BY <1>2, <1>5, <1>6, <1>7 DEF IInv

\* malloc failed and the call returns NULL.
LEMMA ReturnNullStep ==
  ASSUME IInv, 0 \notin Sizes, ReturnNull
  PROVE  IInv'
<1>1. /\ UNCHANGED <<mem, mem_brk, last_node, blocks, block_sizes, data, starts, new_ptr>>
      /\ ~Pending /\ ~Pending' /\ pc' = "idle" /\ heap_pointer' = First /\ req' = NoRequest
  BY DEF ReturnNull, Pending
<1>2. /\ HeapTiled' /\ LastNodeOnBlock' /\ OnlySecondWordGarbled' /\ Live' = Live
      /\ LiveBlocksOwned'
  BY <1>1, QuietStep
<1>3. TypeOK'
  <2>1. First \in Nat
    BY HeapAssumption DEF First
  <2> QED BY <2>1, <1>1 DEF IInv, TypeOK, NoRequest, NULL
<1>4. CursorOnHeader' /\ CallConsistent' /\ NoFault'
  BY <1>1, <1>2 DEF IInv, CursorOnHeader, CallConsistent, NoFault
<1> QED BY <1>2, <1>3, <1>4 DEF IInv

\* The second half of malloc: from find_fit's answer to a block of its own.  The
\* new block is b; everything but b and words no live block holds is as before.
LEMMA HandOut ==
  ASSUME IInv, 0 \notin Sizes, pc = "find", pc' = "ret",
         UNCHANGED <<last_node, req, heap_pointer, blocks, block_sizes, data>>,
         mem' \in [Words -> Nat], mem_brk' \in First .. Limit,
         starts' \in SUBSET Words, HeapTiled',
         NEW b \in starts', new_ptr' = b + 1,
         get_size(mem', b) = BlockSize(req.size), check_allocated(mem', b),
         b \notin starts \/ ~check_allocated(mem, b),
         \A c \in starts : c \in starts' /\ (c # b => mem'[c] = mem[c]),
         \A c \in starts' : c \notin starts /\ c # b => ~check_allocated(mem', c),
         \A c \in starts : c # b =>
           \A a \in Words : c <= a /\ a < EndOf(mem, c) => mem'[a] = mem[a]
  PROVE  IInv'
<1>1. Live' = Live
  BY DEF Live
<1>2. /\ \A id \in Live : blocks[id] - 1 # b /\ blocks[id] # b + 1
      /\ b \in Nat /\ b + 1 \in Words /\ b + 1 # NULL /\ (b + 1) - 1 = b
  <2>1. b \in Nat /\ b # 0 /\ b + 1 \in Words
    <3>1. /\ b \in Int /\ First <= b /\ get_size(mem', b) \in Nat /\ get_size(mem', b) >= 2
          /\ EndOf(mem', b) = b + get_size(mem', b) /\ EndOf(mem', b) - 1 \in Words
      BY BlockFacts DEF HeapTiled
    <3>2. Heap \in Nat /\ First = Heap + 1 /\ Limit \in Int
      BY HeapAssumption DEF First, Limit
    <3> QED BY <3>1, <3>2 DEF Words
  <2>2. ASSUME NEW id \in Live
        PROVE  blocks[id] - 1 # b /\ blocks[id] # b + 1
    BY <2>1, LiveBlockFacts
  <2> QED BY <2>1, <2>2 DEF NULL
<1>3. req.size \in Nat /\ req.size # 0 /\ req.size + 2 <= get_size(mem', b)
      /\ get_size(mem', b) >= 4
  BY LiveBlockFacts, BlockSizeFacts
<1>4. TypeOK'
  BY <1>2 DEF IInv, TypeOK
<1>5. LiveBlocksOwned'
  <2>1. ASSUME NEW id \in Live
        PROVE  /\ blocks[id] - 1 \in starts'
               /\ check_allocated(mem', blocks[id] - 1)
               /\ block_sizes[id] + 2 <= get_size(mem', blocks[id] - 1)
               /\ new_ptr' # blocks[id]
    <3>1. blocks[id] - 1 \in starts /\ blocks[id] - 1 # b
      BY <1>2, LiveBlockFacts
    <3>2. mem'[blocks[id] - 1] = mem[blocks[id] - 1] /\ blocks[id] - 1 \in starts'
      BY <3>1
    <3> QED BY <3>2, <1>2, LiveBlockFacts DEF check_allocated, get_size
  <2>2. ASSUME NEW c \in starts', check_allocated(mem', c)
        PROVE  (\E id \in Live : blocks[id] = c + 1) \/ new_ptr' = c + 1
    <3>1. CASE c = b
      BY <3>1
    <3>2. CASE c # b
      <4>1. c \in starts
        BY <3>2, <2>2
      <4>2. check_allocated(mem, c)
        BY <4>1, <3>2, <2>2 DEF check_allocated
      <4> QED BY <4>1, <4>2 DEF IInv, LiveBlocksOwned, Pending
    <3> QED BY <3>1, <3>2
  <2>3. Pending' /\ new_ptr' # NULL /\ new_ptr' - 1 = b
    BY <1>2 DEF Pending
  <2>4. \A i, j \in Live : blocks[i] = blocks[j] => i = j
    BY DEF IInv, LiveBlocksOwned
  <2> QED BY <2>1, <2>2, <2>3, <2>4, <1>1, <1>3 DEF LiveBlocksOwned
<1>6. LastNodeOnBlock'
  <2> SUFFICES ASSUME last_node # NULL
               PROVE  last_node - 1 \in starts' /\ get_size(mem', last_node - 1) >= 4
    BY DEF LastNodeOnBlock
  <2>1. last_node - 1 \in starts /\ get_size(mem, last_node - 1) >= 4
    BY DEF IInv, LastNodeOnBlock
  <2>2. CASE last_node - 1 = b
    BY <2>2, <1>3
  <2>3. CASE last_node - 1 # b
    BY <2>1, <2>3 DEF get_size
  <2> QED BY <2>1, <2>2, <2>3
<1>7. OnlySecondWordGarbled'
  <2> SUFFICES ASSUME NEW id \in Live, NEW i \in 0 .. block_sizes[id] - 1, i # 1
               PROVE  mem'[blocks[id] + i] = data[id]
    BY <1>1 DEF OnlySecondWordGarbled
  <2>1. blocks[id] - 1 \in starts /\ blocks[id] - 1 # b
    BY <1>2, LiveBlockFacts
  <2>2. /\ blocks[id] + i \in Words /\ blocks[id] - 1 <= blocks[id] + i
        /\ blocks[id] + i < EndOf(mem, blocks[id] - 1)
    BY LiveWord
  <2>4. mem'[blocks[id] + i] = mem[blocks[id] + i]
    BY <2>1, <2>2
  <2> QED BY <2>4 DEF IInv, OnlySecondWordGarbled
<1>8. CursorOnHeader' /\ NoFault'
  BY DEF CursorOnHeader, NoFault
<1>9. CallConsistent'
  BY <1>1 DEF IInv, CallConsistent
<1> QED BY <1>4, <1>5, <1>6, <1>7, <1>8, <1>9 DEF IInv
\* find_fit found a block, which is split.
LEMMA FindHitStep ==
  ASSUME IInv, 0 \notin Sizes, FindHit
  PROVE  IInv'
<1> DEFINE b == heap_pointer
           s == BlockSize(req.size)
<1>0. /\ mem \in [Words -> Nat] /\ mem_brk \in First .. Limit /\ starts \in SUBSET Words
      /\ Tiled(mem, First, mem_brk, starts) /\ mem_brk \in Int /\ Limit \in Int
      /\ mem_brk <= Limit
  <2>1. First \in Int /\ Limit \in Int
    BY HeapAssumption DEF First, Limit
  <2> QED BY <2>1 DEF IInv, TypeOK, HeapTiled
<1>1. pc = "find" /\ b < mem_brk /\ get_size(mem, b) >= s /\ ~check_allocated(mem, b)
  BY DEF FindHit, Fits
<1>2. b \in starts
  BY <1>0, <1>1 DEF IInv, CursorOnHeader
<1>3. ~SplitFaults(mem, b)
  <2>1. EndOf(mem, b) <= mem_brk /\ EndOf(mem, b) \in Int
    BY <1>0, <1>2, BlockFacts
  <2> QED BY <2>1, <1>0 DEF SplitFaults, EndOf
<1>4. /\ pc' = "ret" /\ mem' = split(mem, b, s) /\ new_ptr' = b + 1
      /\ starts' = starts \cup Remainder(mem, b, s)
      /\ UNCHANGED <<mem_brk, last_node, req, heap_pointer, blocks, block_sizes, data>>
  BY <1>3 DEF FindHit
<1>5. s \in Nat /\ Even(s) /\ s >= 2 /\ s <= get_size(mem, b)
  <2>1. s \in Nat /\ Even(s) /\ s >= req.size + 2 /\ req.size \in Nat
    BY <1>1, LiveBlockFacts, BlockSizeFacts
  <2>2. get_size(mem, b) \in Nat
    BY <1>0, <1>2, BlockFacts
  <2> QED BY <2>1, <2>2, <1>1
<1>6. SplitInTwo(split(mem, b, s), mem, mem_brk, starts, b, s)
  <2> HIDE DEF b, s
  <2> QED BY <1>0, <1>2, <1>5, SplitFacts
<1> HIDE DEF b, s
<1>7. SplitInTwo(mem', mem, mem_brk, starts, b, s)
  BY <1>4, <1>6
<1>8. /\ mem' \in [Words -> Nat] /\ starts' \in SUBSET Words
      /\ Tiled(mem', First, mem_brk, starts')
      /\ get_size(mem', b) = s /\ check_allocated(mem', b)
      /\ \A a \in Words : a < b \/ a >= EndOf(mem, b) => mem'[a] = mem[a]
      /\ \A c \in starts : c # b => mem'[c] = mem[c]
      /\ \A c \in starts' : c \notin starts => ~check_allocated(mem', c)
      /\ starts \subseteq starts'
  BY <1>4, <1>7 DEF SplitInTwo
<1>9. HeapTiled'
  BY <1>4, <1>8 DEF HeapTiled
<1>10. ASSUME NEW c \in starts, c # b, NEW a \in Words, c <= a, a < EndOf(mem, c)
       PROVE  mem'[a] = mem[a]
  <2>1. EndOf(mem, b) <= c \/ EndOf(mem, c) <= b
    BY <1>0, <1>2, <1>10, BlocksApart
  <2>2. /\ EndOf(mem, b) \in Int /\ EndOf(mem, c) \in Int /\ b \in Int /\ c \in Int
        /\ Words \subseteq Int
    BY <1>0, <1>2, BlockFacts, HeapAssumption DEF Words
  <2> QED BY <2>1, <2>2, <1>8, <1>10
<1>11. b \in starts' /\ mem_brk' \in First .. Limit
  BY <1>0, <1>2, <1>4, <1>8
<1>12. get_size(mem', b) = BlockSize(req.size)
  BY <1>8 DEF s
<1> QED
  BY <1>1, <1>4, <1>8, <1>9, <1>10, <1>11, <1>12, HandOut

\* find_fit found nothing and the heap is extended, or cannot be.
LEMMA FindMissStep ==
  ASSUME IInv, 0 \notin Sizes, FindMiss
  PROVE  IInv'
<1> DEFINE s == BlockSize(req.size)
<1>0. /\ mem \in [Words -> Nat] /\ mem_brk \in First .. Limit /\ starts \in SUBSET Words
      /\ Tiled(mem, First, mem_brk, starts) /\ mem_brk \in Int /\ Limit \in Int
      /\ First \in Int /\ First <= mem_brk
  <2>1. First \in Int /\ Limit \in Int
    BY HeapAssumption DEF First, Limit
  <2> QED BY <2>1 DEF IInv, TypeOK, HeapTiled
<1>1. /\ pc = "find" /\ pc' = "ret"
      /\ UNCHANGED <<last_node, req, heap_pointer, blocks, block_sizes, data>>
  BY DEF FindMiss
<1>2. s \in Nat /\ Even(s) /\ s >= 2
  <2>1. s \in Nat /\ Even(s) /\ s >= req.size + 2 /\ req.size \in Nat
    BY <1>1, LiveBlockFacts, BlockSizeFacts
  <2> QED BY <2>1
<1>3. CASE mem_brk + s > Limit
  <2>1. new_ptr' = NULL /\ UNCHANGED <<mem, mem_brk, starts>>
    BY <1>3 DEF FindMiss, SbrkFails
  <2>2. ~Pending /\ ~Pending'
    BY <1>1, <2>1 DEF Pending
  <2>3. /\ HeapTiled' /\ LastNodeOnBlock' /\ OnlySecondWordGarbled' /\ Live' = Live
        /\ LiveBlocksOwned'
    BY <1>1, <2>1, <2>2, QuietStep
  <2>4. TypeOK'
    BY <1>1, <2>1 DEF IInv, TypeOK
  <2>5. CursorOnHeader' /\ CallConsistent' /\ NoFault'
    BY <1>1, <2>3 DEF IInv, CursorOnHeader, CallConsistent, NoFault
  <2> QED BY <2>3, <2>4, <2>5 DEF IInv
<1>4. CASE ~(mem_brk + s > Limit)
  <2> DEFINE b == mem_brk
  <2>1. /\ mem' = set_block(mem, b, s, 1) /\ mem_brk' = b + s
        /\ new_ptr' = b + 1 /\ starts' = starts \cup {b}
    BY <1>4 DEF FindMiss, SbrkFails
  <2>2. b + s <= Limit
    BY <1>0, <1>2, <1>4
  <2>3. Extended(set_block(mem, b, s, 1), mem, b, starts, s)
    <3> HIDE DEF s
    <3> QED BY <1>0, <1>2, <2>2, ExtendFacts
  <2>4. Extended(mem', mem, b, starts, s)
    BY <2>1, <2>3
  <2> HIDE DEF s
  <2>5. /\ mem' \in [Words -> Nat] /\ Tiled(mem', First, b + s, starts')
        /\ get_size(mem', b) = s /\ check_allocated(mem', b)
        /\ \A a \in Words : a < b => mem'[a] = mem[a]
        /\ \A c \in starts : mem'[c] = mem[c] /\ c < b /\ EndOf(mem, c) <= b
    BY <2>1, <2>4 DEF Extended
  <2>6. HeapTiled' /\ mem_brk' \in First .. Limit
    BY <2>1, <2>2, <2>5, <1>0, <1>2 DEF HeapTiled
  <2>7. starts' \in SUBSET Words /\ b \in starts'
    BY <2>1, <1>0, BrkMapped
  <2>8. b \notin starts
    BY <2>5, <1>0
  <2>9. ASSUME NEW c \in starts, NEW a \in Words, c <= a, a < EndOf(mem, c)
        PROVE  mem'[a] = mem[a]
    <3>1. EndOf(mem, c) \in Int /\ a \in Int
      BY <1>0, BlockFacts, HeapAssumption DEF Words
    <3> QED BY <3>1, <2>5, <2>9, <1>0
  <2>10. get_size(mem', b) = BlockSize(req.size)
    BY <2>5 DEF s
  <2>11. \A c \in starts : c \in starts' /\ mem'[c] = mem[c]
    BY <2>1, <2>5
  <2>12. \A c \in starts' : c \notin starts => c = b
    BY <2>1
  <2> HIDE DEF b
  <2> QED BY <1>1, <2>1, <2>5, <2>6, <2>7, <2>8, <2>9, <2>10, <2>11, <2>12, HandOut
<1> QED BY <1>3, <1>4

-----------------------------------------------------------------------------
(* Writes into the payload of one block. *)

\* r is m with words written into the first n words of the payload of b only.
PayloadWritten(r, m, b, n) ==
  /\ r \in [Words -> Nat]
  /\ \A a \in Words : a \notin b + 1 .. b + n => r[a] = m[a]

\* Such a write keeps the tiling, every header and every word of other blocks.
LEMMA PayloadOnly ==
  ASSUME NEW m \in [Words -> Nat], NEW r, NEW brk \in First .. Limit,
         NEW st \in SUBSET Words, Tiled(m, First, brk, st),
         NEW b \in st, NEW n \in Nat, n + 2 <= get_size(m, b),
         PayloadWritten(r, m, b, n)
  PROVE  /\ Tiled(r, First, brk, st)
         /\ \A c \in st : r[c] = m[c] /\ get_size(r, c) = get_size(m, c)
                          /\ EndOf(r, c) = EndOf(m, c)
         /\ \A c \in st : c # b =>
              \A a \in Words : c <= a /\ a < EndOf(m, c) => r[a] = m[a]
<1>1. /\ b \in Int /\ EndOf(m, b) \in Int /\ b + n < EndOf(m, b) - 1
      /\ EndOf(m, b) = b + get_size(m, b) /\ get_size(m, b) \in Nat
  <2>1. /\ b \in Int /\ EndOf(m, b) = b + get_size(m, b) /\ get_size(m, b) \in Nat
    BY BlockFacts
  <2> QED BY <2>1
<1>2. ASSUME NEW c \in st, c # b, NEW a \in Words, c <= a, a < EndOf(m, c)
      PROVE  r[a] = m[a]
  <2>1. EndOf(m, b) <= c \/ EndOf(m, c) <= b
    BY <1>2, BlocksApart
  <2>2. c \in Int /\ EndOf(m, c) \in Int /\ a \in Int
    BY BlockFacts, HeapAssumption DEF Words
  <2>3. a \notin b + 1 .. b + n
    BY <2>1, <2>2, <1>1, <1>2
  <2> QED BY <2>3 DEF PayloadWritten
<1>3. ASSUME NEW c \in st
      PROVE  r[c] = m[c] /\ r[EndOf(m, c) - 1] = m[EndOf(m, c) - 1]
  <2>1. /\ c \in Words /\ c \in Int /\ EndOf(m, c) \in Int /\ c < EndOf(m, c)
        /\ EndOf(m, c) - 1 \in Words
    <3>1. /\ c \in Int /\ EndOf(m, c) = c + get_size(m, c) /\ get_size(m, c) \in Nat
          /\ get_size(m, c) >= 2 /\ EndOf(m, c) - 1 \in Words
      BY BlockFacts
    <3> QED BY <3>1
  <2>2. CASE c # b
    <3>1. c <= c /\ c <= EndOf(m, c) - 1 /\ EndOf(m, c) - 1 < EndOf(m, c)
      BY <2>1
    <3> QED BY <3>1, <2>1, <2>2, <1>2
  <2>3. CASE c = b
    <3>1. c \notin b + 1 .. b + n /\ EndOf(m, c) - 1 \notin b + 1 .. b + n
      BY <2>3, <1>1
    <3> QED BY <3>1, <2>1 DEF PayloadWritten
  <2> QED BY <2>2, <2>3
<1>4. r \in [Words -> Nat]
  BY DEF PayloadWritten
<1> QED BY <1>2, <1>3, <1>4, PayloadWrites

\* The driver takes over the block at ptr, which nobody else holds, and fills it.
LEMMA RememberStep ==
  ASSUME IInv, 0 \notin Sizes, NEW id \in Ids, NEW n \in Sizes, NEW d \in Data \cup {0},
         NEW ptr \in Words, Remember(id, ptr, n, d),
         ptr - 1 \in starts, check_allocated(mem, ptr - 1),
         n + 2 <= get_size(mem, ptr - 1),
         \A other \in Live : other # id => blocks[other] # ptr,
         id \in Live => blocks[id] = ptr,
         \A b \in starts : check_allocated(mem, b) =>
           (\E other \in Live : blocks[other] = b + 1) \/ b + 1 = ptr
  PROVE  IInv'
<1> DEFINE b == ptr - 1
<1>0. /\ mem \in [Words -> Nat] /\ mem_brk \in First .. Limit /\ starts \in SUBSET Words
      /\ Tiled(mem, First, mem_brk, starts)
  BY DEF IInv, TypeOK, HeapTiled
<1>1. /\ ptr \in Nat /\ ptr # NULL /\ b \in Int /\ ptr = b + 1 /\ b \in starts
      /\ n \in Nat /\ n # 0 /\ d \in Nat
  <2>1. Words \subseteq Nat /\ 0 \notin Words
    BY HeapAssumption DEF Words, Limit
  <2> QED BY <2>1, SizesAssumption, DataAssumption DEF NULL
<1>2. /\ mem' = FillWith(mem, ptr, n, d)
      /\ blocks' = [blocks EXCEPT ![id] = ptr]
      /\ block_sizes' = [block_sizes EXCEPT ![id] = n]
      /\ data' = [data EXCEPT ![id] = d]
      /\ pc' = "idle" /\ req' = NoRequest /\ heap_pointer' = First /\ new_ptr' = NULL
      /\ UNCHANGED <<mem_brk, last_node, starts>>
  BY DEF Remember
<1>3. PayloadWritten(mem', mem, b, n)
  <2>1. ptr .. ptr + n - 1 = b + 1 .. b + n
    BY <1>1
  <2> QED BY <2>1, <1>0, <1>1, <1>2 DEF PayloadWritten, FillWith
<1>4. /\ Tiled(mem', First, mem_brk, starts)
      /\ \A c \in starts : mem'[c] = mem[c] /\ get_size(mem', c) = get_size(mem, c)
      /\ \A c \in starts : c # b =>
           \A a \in Words : c <= a /\ a < EndOf(mem, c) => mem'[a] = mem[a]
  <2>1. n + 2 <= get_size(mem, b)
    OBVIOUS
  <2> HIDE DEF b
  <2> QED BY <2>1, <1>0, <1>1, <1>3, PayloadOnly
<1>5. /\ Live' = Live \cup {id}
      /\ blocks \in [Ids -> {NULL} \cup Words] /\ block_sizes \in [Ids -> Nat]
      /\ data \in [Ids -> Data \cup {0}]
      /\ blocks'[id] = ptr /\ block_sizes'[id] = n /\ data'[id] = d
      /\ \A o \in Ids : o # id => /\ blocks'[o] = blocks[o] /\ data'[o] = data[o]
                                  /\ block_sizes'[o] = block_sizes[o]
  BY <1>1, <1>2 DEF IInv, TypeOK, Live
<1>6. TypeOK'
  <2>1. First \in Nat
    BY HeapAssumption DEF First
  <2>2. mem' \in [Words -> Nat]
    BY <1>3 DEF PayloadWritten
  <2>3. /\ blocks' \in [Ids -> {NULL} \cup Words] /\ block_sizes' \in [Ids -> Nat]
        /\ data' \in [Ids -> Data \cup {0}]
    BY <1>1, <1>2, <1>5
  <2> QED BY <2>1, <2>2, <2>3, <1>2 DEF IInv, TypeOK, NoRequest, NULL
<1>7. HeapTiled'
  BY <1>2, <1>4 DEF HeapTiled
<1>8. ASSUME NEW o \in Live, o # id
      PROVE  /\ o \in Ids /\ blocks'[o] = blocks[o] /\ blocks[o] # ptr
             /\ blocks[o] - 1 \in starts /\ blocks[o] - 1 # b
             /\ check_allocated(mem, blocks[o] - 1)
             /\ block_sizes[o] + 2 <= get_size(mem, blocks[o] - 1)
  <2>1. /\ o \in Ids /\ blocks[o] # ptr /\ blocks[o] \in Nat
        /\ blocks[o] - 1 \in starts /\ check_allocated(mem, blocks[o] - 1)
        /\ block_sizes[o] + 2 <= get_size(mem, blocks[o] - 1)
    BY <1>8, LiveBlockFacts
  <2>2. blocks[o] - 1 # b
    BY <2>1, <1>1
  <2> QED BY <2>1, <2>2, <1>5, <1>8
<1>9. LiveBlocksOwned'
  <2>1. ASSUME NEW o \in Live'
        PROVE  /\ blocks'[o] - 1 \in starts'
               /\ check_allocated(mem', blocks'[o] - 1)
               /\ block_sizes'[o] + 2 <= get_size(mem', blocks'[o] - 1)
    <3>1. CASE o = id
      BY <3>1, <1>1, <1>2, <1>4, <1>5 DEF check_allocated
    <3>2. CASE o # id
      <4>1. o \in Live
        BY <3>2, <1>5
      <4> QED BY <4>1, <3>2, <1>2, <1>4, <1>5, <1>8 DEF check_allocated
    <3> QED BY <3>1, <3>2
  <2>2. ~Pending'
    BY <1>2 DEF Pending
  <2>3. ASSUME NEW i \in Live', NEW j \in Live', blocks'[i] = blocks'[j]
        PROVE  i = j
    <3>1. \A x, y \in Live : blocks[x] = blocks[y] => x = y
      BY DEF IInv, LiveBlocksOwned
    <3> QED BY <3>1, <2>3, <1>5, <1>8
  <2>4. ASSUME NEW c \in starts', check_allocated(mem', c)
        PROVE  \E o \in Live' : blocks'[o] = c + 1
    <3>1. c \in starts /\ check_allocated(mem, c)
      BY <2>4, <1>2, <1>4 DEF check_allocated
    <3>2. CASE c + 1 = ptr
      BY <3>2, <1>5
    <3>3. CASE c + 1 # ptr
      <4>1. PICK o \in Live : blocks[o] = c + 1
        BY <3>1, <3>3
      <4>2. o # id
        BY <4>1, <3>3
      <4> QED BY <4>1, <4>2, <1>5, <1>8
    <3> QED BY <3>2, <3>3
  <2> QED BY <2>1, <2>2, <2>3, <2>4 DEF LiveBlocksOwned
<1>10. LastNodeOnBlock'
  BY <1>2, <1>4 DEF IInv, LastNodeOnBlock
<1>11. OnlySecondWordGarbled'
  <2> SUFFICES ASSUME NEW o \in Live', NEW i \in 0 .. block_sizes'[o] - 1, i # 1
               PROVE  mem'[blocks'[o] + i] = data'[o]
    BY DEF OnlySecondWordGarbled
  <2>1. CASE o = id
    <3>1. i \in 0 .. n - 1 /\ i \in Int /\ i >= 0 /\ i <= n - 1
      BY <2>1, <1>1, <1>5
    <3>2. b + 1 + i \in Words
      <4> HIDE DEF b
      <4>1. n + 2 <= get_size(mem, b)
        BY DEF b
      <4> QED BY <4>1, <3>1, <1>0, <1>1, PayloadWord
    <3>3. ptr + i \in Words /\ ptr + i \in ptr .. ptr + n - 1
      <4> HIDE DEF b
      <4>1. b + 1 + i = ptr + i
        BY <1>1, <3>1
      <4> QED BY <4>1, <3>1, <3>2, <1>1
    <3> QED BY <3>3, <2>1, <1>2, <1>5 DEF FillWith
  <2>2. CASE o # id
    <3>1. o \in Live /\ o \in Ids /\ i \in 0 .. block_sizes[o] - 1
      BY <2>2, <1>5 DEF Live
    <3>2. /\ blocks[o] + i \in Words /\ blocks[o] - 1 <= blocks[o] + i
          /\ blocks[o] + i < EndOf(mem, blocks[o] - 1)
      BY <3>1, LiveWord
    <3>3. mem'[blocks[o] + i] = mem[blocks[o] + i]
      BY <3>1, <3>2, <2>2, <1>4, <1>8
    <3>4. mem[blocks[o] + i] = data[o]
      BY <3>1 DEF IInv, OnlySecondWordGarbled
    <3> QED BY <3>1, <3>3, <3>4, <2>2, <1>5
  <2> QED BY <2>1, <2>2
<1>12. CallConsistent'
  <2>1. \A o \in Live' : block_sizes'[o] \in Sizes
    BY <1>5 DEF IInv, CallConsistent, Live
  <2> QED BY <2>1, <1>2 DEF CallConsistent
<1>13. CursorOnHeader' /\ NoFault'
  BY <1>2 DEF CursorOnHeader, NoFault
<1> QED BY <1>6, <1>7, <1>9, <1>10, <1>11, <1>12, <1>13 DEF IInv

\* malloc or calloc returns a block to the driver.
LEMMA HandOverStep ==
  ASSUME IInv, 0 \notin Sizes, MallocReturn \/ CallocReturn
  PROVE  IInv'
<1>1. PICK d \in Data \cup {0} : Remember(req.id, new_ptr, req.size, d)
  BY DEF MallocReturn, CallocReturn
<1>2. pc = "ret" /\ Pending /\ new_ptr # NULL /\ req.op # "realloc"
  BY DEF MallocReturn, CallocReturn, Pending
<1>3. new_ptr \in Words /\ req.id \in Ids /\ req.size \in Sizes /\ req.id \notin Live
  BY <1>2 DEF IInv, TypeOK, CallConsistent
<1>4. /\ new_ptr - 1 \in starts /\ check_allocated(mem, new_ptr - 1)
      /\ req.size + 2 <= get_size(mem, new_ptr - 1)
      /\ \A other \in Live : blocks[other] # new_ptr
      /\ \A b \in starts : check_allocated(mem, b) =>
           (\E other \in Live : blocks[other] = b + 1) \/ b + 1 = new_ptr
  BY <1>2 DEF IInv, LiveBlocksOwned
<1> QED BY <1>1, <1>3, <1>4, RememberStep

\* The driver refills the block realloc returned.
LEMMA ReallocFillStep ==
  ASSUME IInv, 0 \notin Sizes, ReallocFill
  PROVE  IInv'
<1>1. PICK d \in Data \cup {0} : Remember(req.id, new_ptr, req.size, d)
  BY DEF ReallocFill
<1>2. pc = "fill" /\ ~Pending
  BY DEF ReallocFill, Pending
<1>3. /\ new_ptr \in Words /\ req.id \in Ids /\ req.size \in Sizes /\ req.id \in Live
      /\ blocks[req.id] = new_ptr /\ req.size + 2 <= get_size(mem, new_ptr - 1)
  BY <1>2 DEF IInv, TypeOK, CallConsistent, Live
<1>4. /\ new_ptr - 1 \in starts /\ check_allocated(mem, new_ptr - 1)
      /\ \A other \in Live : other # req.id => blocks[other] # new_ptr
      /\ \A b \in starts : check_allocated(mem, b) =>
           (\E other \in Live : blocks[other] = b + 1) \/ b + 1 = new_ptr
  BY <1>2, <1>3 DEF IInv, LiveBlocksOwned
<1> QED BY <1>1, <1>3, <1>4, RememberStep

-----------------------------------------------------------------------------
(* free and realloc. *)

\* The driver frees the block of id.
LEMMA FreeStep ==
  ASSUME IInv, 0 \notin Sizes, NEW id \in Ids, Free(id)
  PROVE  IInv'
<1> DEFINE b  == blocks[id] - 1
           lo == MergedStart(mem, b)
<1>0. /\ mem \in [Words -> Nat] /\ mem_brk \in First .. Limit /\ starts \in SUBSET Words
      /\ Tiled(mem, First, mem_brk, starts) /\ last_node \in {NULL} \cup Words
      /\ last_node # NULL => last_node - 1 \in starts /\ get_size(mem, last_node - 1) >= 4
  BY DEF IInv, TypeOK, HeapTiled, LastNodeOnBlock
<1>1. id \in Live /\ pc = "idle"
  BY DEF Free, Live
<1>2. b \in starts /\ get_size(mem, b) >= 4 /\ b \in Int /\ blocks[id] = b + 1
  BY <1>1, LiveBlockFacts
<1>3. ~CoalesceFaults(mem, b)
  <2> HIDE DEF b
  <2> QED BY <1>0, <1>2, CoalesceFacts
<1>4. /\ pc' = "idle" /\ mem' = link(coalesce(mem, b), last_node, lo + 1)
      /\ last_node' = lo + 1 /\ starts' = starts \ Absorbed(mem, b)
      /\ blocks' = [blocks EXCEPT ![id] = NULL]
      /\ block_sizes' = [block_sizes EXCEPT ![id] = 0]
      /\ data' = [data EXCEPT ![id] = 0]
      /\ UNCHANGED <<mem_brk, req, heap_pointer, new_ptr>>
  BY <1>3 DEF Free, FreeBlock, FreedNode
<1>5. FreedBlock(mem', mem, mem_brk, starts, starts', b, lo)
  <2>1. FreedBlock(link(coalesce(mem, b), last_node, lo + 1),
                   mem, mem_brk, starts, starts \ Absorbed(mem, b), b, lo)
    <3> HIDE DEF b
    <3> QED BY <1>0, <1>2, FreeFacts
  <2> QED BY <2>1, <1>4
<1> HIDE DEF b, lo
<1>6. /\ mem' \in [Words -> Nat] /\ starts' \in SUBSET starts
      /\ Tiled(mem', First, mem_brk, starts')
      /\ lo \in starts' /\ lo + 1 \in Words /\ get_size(mem', lo) >= 4
      /\ \A c \in starts : c # b /\ check_allocated(mem, c) => c \in starts' /\ mem'[c] = mem[c]
      /\ \A c \in starts' : check_allocated(mem', c) => c # b /\ mem'[c] = mem[c]
      /\ \A c \in starts : c # b /\ check_allocated(mem, c) =>
           \A a \in Words : c <= a /\ a < EndOf(mem, c) /\ a # c + 2 => mem'[a] = mem[a]
  BY <1>5 DEF FreedBlock
<1>7. /\ Live' = Live \ {id}
      /\ \A o \in Live' : /\ o \in Ids /\ o # id /\ o \in Live /\ blocks'[o] = blocks[o]
                          /\ data'[o] = data[o] /\ block_sizes'[o] = block_sizes[o]
  BY <1>4 DEF IInv, TypeOK, Live
<1>8. TypeOK'
  <2>1. /\ blocks' \in [Ids -> {NULL} \cup Words] /\ block_sizes' \in [Ids -> Nat]
        /\ data' \in [Ids -> Data \cup {0}]
    BY <1>4 DEF IInv, TypeOK
  <2>2. last_node' \in {NULL} \cup Words /\ starts' \subseteq Words
    BY <1>0, <1>4, <1>6
  <2> QED BY <2>1, <2>2, <1>4, <1>6 DEF IInv, TypeOK
<1>9. HeapTiled'
  BY <1>4, <1>6 DEF HeapTiled
<1>10. ASSUME NEW o \in Live'
       PROVE  /\ blocks[o] \in Nat /\ blocks[o] - 1 # b /\ blocks[o] - 1 \in starts
              /\ check_allocated(mem, blocks[o] - 1)
              /\ block_sizes[o] + 2 <= get_size(mem, blocks[o] - 1)
              /\ blocks[o] - 1 \in starts' /\ mem'[blocks[o] - 1] = mem[blocks[o] - 1]
  <2>1. /\ blocks[o] \in Nat /\ blocks[o] - 1 \in starts
        /\ check_allocated(mem, blocks[o] - 1)
        /\ block_sizes[o] + 2 <= get_size(mem, blocks[o] - 1)
    BY <1>7, LiveBlockFacts
  <2>2. blocks[o] # blocks[id]
    BY <1>1, <1>7 DEF IInv, LiveBlocksOwned
  <2>3. blocks[o] - 1 # b
    BY <2>1, <2>2, <1>2
  <2> QED BY <2>1, <2>3, <1>6
<1>11. LiveBlocksOwned'
  <2>1. ~Pending' /\ ~Pending
    BY <1>1, <1>4 DEF Pending
  <2>2. \A o \in Live' :
          /\ blocks'[o] - 1 \in starts' /\ check_allocated(mem', blocks'[o] - 1)
          /\ block_sizes'[o] + 2 <= get_size(mem', blocks'[o] - 1)
    BY <1>7, <1>10 DEF check_allocated, get_size
  <2>3. \A i, j \in Live' : blocks'[i] = blocks'[j] => i = j
    <3>1. \A x, y \in Live : blocks[x] = blocks[y] => x = y
      BY DEF IInv, LiveBlocksOwned
    <3> QED BY <3>1, <1>7
  <2>4. ASSUME NEW c \in starts', check_allocated(mem', c)
        PROVE  \E o \in Live' : blocks'[o] = c + 1
    <3>1. c \in starts /\ c # b /\ check_allocated(mem, c)
      BY <2>4, <1>6 DEF check_allocated
    <3>2. PICK o \in Live : blocks[o] = c + 1
      BY <3>1, <2>1 DEF IInv, LiveBlocksOwned
    <3>3. c \in Int
      BY <3>1, <1>0, BlockFacts
    <3>4. o # id
      BY <3>1, <3>2, <3>3, <1>2
    <3> QED BY <3>2, <3>4, <1>7
  <2> QED BY <2>1, <2>2, <2>3, <2>4 DEF LiveBlocksOwned
<1>12. LastNodeOnBlock'
  <2>1. lo \in Int /\ last_node' - 1 = lo
    <3>1. lo \in Int
      BY <1>0, <1>6, BlockFacts
    <3> QED BY <3>1, <1>4
  <2> QED BY <2>1, <1>6 DEF LastNodeOnBlock
<1>13. OnlySecondWordGarbled'
  <2> SUFFICES ASSUME NEW o \in Live', NEW i \in 0 .. block_sizes[o] - 1, i # 1
               PROVE  mem'[blocks[o] + i] = data[o]
    BY <1>7 DEF OnlySecondWordGarbled
  <2>1. /\ blocks[o] + i \in Words /\ blocks[o] - 1 <= blocks[o] + i
        /\ blocks[o] + i < EndOf(mem, blocks[o] - 1)
    BY <1>7, LiveWord
  <2>2. blocks[o] + i # (blocks[o] - 1) + 2
    <3>1. blocks[o] \in Nat /\ i \in Int
      BY <1>10
    <3> QED BY <3>1
  <2>3. mem'[blocks[o] + i] = mem[blocks[o] + i]
    BY <2>1, <2>2, <1>6, <1>10
  <2>4. mem[blocks[o] + i] = data[o]
    BY <1>7 DEF IInv, OnlySecondWordGarbled
  <2> QED BY <2>3, <2>4
<1>14. CallConsistent' /\ CursorOnHeader' /\ NoFault'
  <2>1. \A o \in Live' : block_sizes'[o] \in Sizes
    BY <1>7 DEF IInv, CallConsistent
  <2> QED BY <2>1, <1>4 DEF CallConsistent, CursorOnHeader, NoFault
<1> QED BY <1>8, <1>9, <1>11, <1>12, <1>13, <1>14 DEF IInv

\* realloc's copy is a write into the new block's payload.  It reads up to one
\* word beyond the old block, which is still mapped.
LEMMA CopyFacts ==
  ASSUME NEW m \in [Words -> Nat], NEW brk \in First .. Limit,
         NEW st \in SUBSET Words, Tiled(m, First, brk, st),
         NEW b \in st, NEW c \in st, NEW n \in Nat,
         n <= get_size(m, b), n + 2 <= get_size(m, c)
  PROVE  /\ PayloadWritten(memcpy(m, c + 1, b + 1, n), m, c, n)
         /\ \A i \in 0 .. n - 1 :
              memcpy(m, c + 1, b + 1, n)[c + 1 + i] = m[b + 1 + i]
<1> DEFINE r == memcpy(m, c + 1, b + 1, n)
<1>1. /\ b \in Int /\ c \in Int /\ Heap \in Int /\ Limit \in Int /\ brk \in Words
      /\ Words = Heap .. Limit - 1 /\ b \in Words
  BY BlockFacts, BrkMapped, HeapAssumption DEF Words, Limit
<1>2. b + get_size(m, b) <= brk /\ get_size(m, b) \in Nat
  BY BlockFacts
<1>3. ASSUME NEW i \in 0 .. n - 1
      PROVE  b + 1 + i \in Words
  BY <1>1, <1>2
<1>4. ASSUME NEW a \in Words
      PROVE  /\ r[a] \in Nat
             /\ a \notin c + 1 .. c + n => r[a] = m[a]
  <2>1. r[a] = IF a \in c + 1 .. c + 1 + n - 1 THEN m[b + 1 + (a - (c + 1))] ELSE m[a]
    BY DEF memcpy
  <2>2. c + 1 .. c + 1 + n - 1 = c + 1 .. c + n
    BY <1>1
  <2>3. CASE a \in c + 1 .. c + n
    <3>1. a - (c + 1) \in 0 .. n - 1
      BY <2>3, <1>1
    <3> QED BY <3>1, <2>1, <2>2, <2>3, <1>3
  <2> QED BY <2>1, <2>2, <2>3
<1>5. PayloadWritten(r, m, c, n)
  <2>1. r \in [Words -> Nat]
    BY <1>4 DEF memcpy
  <2> QED BY <2>1, <1>4 DEF PayloadWritten
<1>6. ASSUME NEW i \in 0 .. n - 1
      PROVE  r[c + 1 + i] = m[b + 1 + i]
  <2> DEFINE a == c + 1 + i
  <2>1. a \in Words
    BY PayloadWord
  <2>2. a \in c + 1 .. c + 1 + n - 1 /\ b + 1 + (a - (c + 1)) = b + 1 + i
    BY <1>1
  <2> HIDE DEF a
  <2>3. r[a] = m[b + 1 + (a - (c + 1))]
    BY <2>1, <2>2 DEF memcpy
  <2> QED BY <2>2, <2>3 DEF a
<1> QED BY <1>5, <1>6

\* realloc returns: the contents are in the new block, the old one is free.
LEMMA ReallocReturnStep ==
  ASSUME IInv, 0 \notin Sizes, ReallocReturn
  PROVE  IInv'
<1> DEFINE id == req.id
           b  == blocks[id] - 1
           c  == new_ptr - 1
           n  == Smaller(req.size, get_size(mem, b))
           m  == memcpy(mem, c + 1, b + 1, n)
           lo == MergedStart(m, b)
<1>0. /\ mem \in [Words -> Nat] /\ mem_brk \in First .. Limit /\ starts \in SUBSET Words
      /\ Tiled(mem, First, mem_brk, starts) /\ last_node \in {NULL} \cup Words
      /\ last_node # NULL => last_node - 1 \in starts /\ get_size(mem, last_node - 1) >= 4
  BY DEF IInv, TypeOK, HeapTiled, LastNodeOnBlock
<1>1. Pending /\ new_ptr # NULL /\ pc = "ret" /\ req.op = "realloc"
  BY DEF ReallocReturn, Pending
<1>2. id \in Live /\ id \in Ids /\ req.size \in Sizes /\ req.size \in Nat
  BY <1>1, SizesAssumption DEF IInv, CallConsistent
<1>3. /\ b \in starts /\ get_size(mem, b) >= 4 /\ b \in Int /\ blocks[id] = b + 1
      /\ get_size(mem, b) \in Nat /\ block_sizes[id] \in Nat
      /\ block_sizes[id] + 2 <= get_size(mem, b)
  BY <1>2, LiveBlockFacts
<1>4. /\ c \in starts /\ check_allocated(mem, c) /\ req.size + 2 <= get_size(mem, c)
      /\ c \in Int /\ new_ptr = c + 1 /\ new_ptr \in Words /\ c # b
      /\ get_size(mem, c) \in Nat
  <2>1. /\ c \in starts /\ check_allocated(mem, c) /\ req.size + 2 <= get_size(mem, c)
        /\ new_ptr # blocks[id] /\ new_ptr \in Words
    BY <1>1, <1>2 DEF IInv, LiveBlocksOwned, TypeOK
  <2>2. new_ptr \in Nat /\ get_size(mem, c) \in Nat
    <3>1. Words \subseteq Nat
      BY HeapAssumption DEF Words, Limit
    <3>2. get_size(mem, c) \in Nat
      <4> HIDE DEF c
      <4> QED BY <2>1, <1>0, BlockFacts
    <3> QED BY <3>1, <3>2, <2>1
  <2> QED BY <2>1, <2>2, <1>3
<1>5. n \in Nat /\ n <= req.size /\ n <= get_size(mem, b) /\ n + 2 <= get_size(mem, c)
      /\ (n = req.size \/ n = get_size(mem, b))
  <2>1. n \in Nat /\ n <= req.size /\ n <= get_size(mem, b)
        /\ (n = req.size \/ n = get_size(mem, b))
    BY <1>2, <1>3 DEF Smaller
  <2> QED BY <2>1, <1>2, <1>4
<1>6. /\ FreeBlock(m, b + 1, "fill")
      /\ blocks' = [blocks EXCEPT ![id] = new_ptr]
      /\ block_sizes' = [block_sizes EXCEPT ![id] = Smaller(req.size, @)]
      /\ UNCHANGED <<mem_brk, req, heap_pointer, new_ptr, data>>
  BY <1>3, <1>4 DEF ReallocReturn
<1>7. /\ PayloadWritten(m, mem, c, n)
      /\ \A i \in 0 .. n - 1 : m[c + 1 + i] = mem[b + 1 + i]
  <2> HIDE DEF b, c, n
  <2>1. b \in starts /\ c \in starts /\ n \in Nat
        /\ n <= get_size(mem, b) /\ n + 2 <= get_size(mem, c)
    BY <1>3, <1>4, <1>5
  <2> QED BY <2>1, <1>0, CopyFacts
<1>8. /\ m \in [Words -> Nat] /\ Tiled(m, First, mem_brk, starts)
      /\ \A x \in starts : m[x] = mem[x] /\ get_size(m, x) = get_size(mem, x)
                           /\ EndOf(m, x) = EndOf(mem, x)
      /\ \A x \in starts : x # c =>
           \A a \in Words : x <= a /\ a < EndOf(mem, x) => m[a] = mem[a]
  <2> HIDE DEF b, c, n, m
  <2>1. m \in [Words -> Nat]
    BY <1>7 DEF PayloadWritten
  <2> QED BY <2>1, <1>0, <1>4, <1>5, <1>7, PayloadOnly
<1>9. ~CoalesceFaults(m, b)
  <2> HIDE DEF b, m
  <2> QED BY <1>0, <1>3, <1>8, CoalesceFacts
<1>10. /\ pc' = "fill" /\ mem' = link(coalesce(m, b), last_node, lo + 1)
       /\ last_node' = lo + 1 /\ starts' = starts \ Absorbed(m, b)
  <2>1. (b + 1) - 1 = b
    BY <1>3
  <2> HIDE DEF b, m
  <2> QED BY <2>1, <1>6, <1>9 DEF FreeBlock, FreedNode
<1>11. FreedBlock(mem', m, mem_brk, starts, starts', b, lo)
  <2>1. FreedBlock(link(coalesce(m, b), last_node, lo + 1),
                   m, mem_brk, starts, starts \ Absorbed(m, b), b, lo)
    <3> HIDE DEF b, m
    <3> QED BY <1>0, <1>3, <1>8, FreeFacts
  <2> QED BY <2>1, <1>10
<1> HIDE DEF b, c, m, n, lo
<1>12. /\ mem' \in [Words -> Nat] /\ starts' \in SUBSET starts
       /\ Tiled(mem', First, mem_brk, starts')
       /\ lo \in starts' /\ lo + 1 \in Words /\ get_size(mem', lo) >= 4
       /\ \A x \in starts : x # b /\ check_allocated(mem, x) => x \in starts' /\ mem'[x] = mem[x]
       /\ \A x \in starts' : check_allocated(mem', x) => x # b /\ mem'[x] = mem[x]
       /\ \A x \in starts : x # b /\ check_allocated(mem, x) =>
            \A a \in Words : x <= a /\ a < EndOf(mem, x) /\ a # x + 2 => mem'[a] = m[a]
  <2>1. /\ mem' \in [Words -> Nat] /\ starts' \in SUBSET starts
        /\ Tiled(mem', First, mem_brk, starts')
        /\ lo \in starts' /\ lo + 1 \in Words /\ get_size(mem', lo) >= 4
        /\ \A x \in starts : x # b /\ check_allocated(m, x) => x \in starts' /\ mem'[x] = m[x]
        /\ \A x \in starts' : check_allocated(mem', x) => x # b /\ mem'[x] = m[x]
        /\ \A x \in starts : x # b /\ check_allocated(m, x) =>
             \A a \in Words : x <= a /\ a < EndOf(m, x) /\ a # x + 2 => mem'[a] = m[a]
    BY <1>11 DEF FreedBlock
  <2>2. \A x \in starts : check_allocated(m, x) <=> check_allocated(mem, x)
    BY <1>8 DEF check_allocated
  <2>3. \A x \in starts' : x \in starts
    BY <2>1
  <2> QED BY <2>1, <2>2, <2>3, <1>8
<1>13. /\ Live' = Live /\ blocks'[id] = c + 1
       /\ block_sizes'[id] = Smaller(req.size, block_sizes[id])
       /\ \A o \in Live : o \in Ids
       /\ \A o \in Live : o # id => /\ blocks'[o] = blocks[o]
                                    /\ block_sizes'[o] = block_sizes[o]
  BY <1>1, <1>2, <1>4, <1>6 DEF IInv, TypeOK, Live
<1>14. /\ block_sizes'[id] \in Nat /\ block_sizes'[id] \in Sizes
       /\ block_sizes'[id] <= req.size /\ block_sizes'[id] <= block_sizes[id]
       /\ block_sizes'[id] <= n
  <2>1. block_sizes[id] \in Sizes
    BY <1>2 DEF IInv, CallConsistent
  <2>2. Smaller(req.size, block_sizes[id]) \in {req.size, block_sizes[id]}
        /\ Smaller(req.size, block_sizes[id]) <= req.size
        /\ Smaller(req.size, block_sizes[id]) <= block_sizes[id]
    BY <1>2, <1>3 DEF Smaller
  <2> QED BY <2>1, <2>2, <1>2, <1>3, <1>5, <1>13
<1>15. TypeOK'
  <2>1. blocks' \in [Ids -> {NULL} \cup Words] /\ block_sizes' \in [Ids -> Nat]
    <3>1. Smaller(req.size, block_sizes[id]) \in Nat
      BY <1>13, <1>14
    <3> QED BY <3>1, <1>2, <1>4, <1>6 DEF IInv, TypeOK
  <2>2. last_node' \in {NULL} \cup Words /\ starts' \subseteq Words
    BY <1>0, <1>10, <1>12
  <2> QED BY <2>1, <2>2, <1>6, <1>10, <1>12 DEF IInv, TypeOK
<1>16. HeapTiled'
  BY <1>6, <1>12 DEF HeapTiled
<1>17. ASSUME NEW o \in Live, o # id
       PROVE  /\ blocks[o] \in Nat /\ blocks[o] - 1 # b /\ blocks[o] - 1 # c
              /\ blocks[o] # c + 1
              /\ blocks[o] - 1 \in starts /\ check_allocated(mem, blocks[o] - 1)
              /\ block_sizes[o] + 2 <= get_size(mem, blocks[o] - 1)
              /\ blocks[o] - 1 \in starts' /\ mem'[blocks[o] - 1] = mem[blocks[o] - 1]
  <2>1. /\ blocks[o] \in Nat /\ blocks[o] - 1 \in starts
        /\ check_allocated(mem, blocks[o] - 1)
        /\ block_sizes[o] + 2 <= get_size(mem, blocks[o] - 1)
    BY LiveBlockFacts
  <2>2. blocks[o] # blocks[id] /\ blocks[o] # new_ptr
    BY <1>1, <1>2, <1>17 DEF IInv, LiveBlocksOwned
  <2>3. blocks[o] - 1 # b /\ blocks[o] - 1 # c /\ blocks[o] # c + 1
    BY <2>1, <2>2, <1>3, <1>4
  <2> QED BY <2>1, <2>3, <1>12
<1>18. c \in starts' /\ mem'[c] = mem[c]
  BY <1>4, <1>12
<1>19. LiveBlocksOwned'
  <2>1. ~Pending'
    BY <1>10 DEF Pending
  <2>2. ASSUME NEW o \in Live
        PROVE  /\ blocks'[o] - 1 \in starts' /\ check_allocated(mem', blocks'[o] - 1)
               /\ block_sizes'[o] + 2 <= get_size(mem', blocks'[o] - 1)
    <3>1. CASE o = id
      <4>1. blocks'[o] - 1 = c
        BY <3>1, <1>4, <1>13
      <4>2. block_sizes'[o] + 2 <= get_size(mem, c)
        BY <3>1, <1>2, <1>4, <1>14
      <4> QED BY <4>1, <4>2, <1>4, <1>18 DEF check_allocated, get_size
    <3>2. CASE o # id
      BY <3>2, <1>13, <1>17 DEF check_allocated, get_size
    <3> QED BY <3>1, <3>2
  <2>3. ASSUME NEW i \in Live, NEW j \in Live, blocks'[i] = blocks'[j]
        PROVE  i = j
    <3>1. \A x, y \in Live : blocks[x] = blocks[y] => x = y
      BY DEF IInv, LiveBlocksOwned
    <3> QED BY <3>1, <2>3, <1>13, <1>17
  <2>4. ASSUME NEW x \in starts', check_allocated(mem', x)
        PROVE  \E o \in Live : blocks'[o] = x + 1
    <3>1. x \in starts /\ x # b /\ check_allocated(mem, x)
      BY <2>4, <1>12 DEF check_allocated
    <3>2. CASE new_ptr = x + 1
      BY <3>2, <1>2, <1>4, <1>13
    <3>3. CASE new_ptr # x + 1
      <4>1. PICK o \in Live : blocks[o] = x + 1
        BY <3>1, <3>3 DEF IInv, LiveBlocksOwned
      <4>2. x \in Int
        BY <3>1, <1>0, BlockFacts
      <4>3. o # id
        BY <4>1, <4>2, <3>1, <1>3
      <4> QED BY <4>1, <4>3, <1>13
    <3> QED BY <3>2, <3>3
  <2> QED BY <2>1, <2>2, <2>3, <2>4, <1>13 DEF LiveBlocksOwned
<1>20. LastNodeOnBlock'
  <2>1. lo \in Int /\ last_node' - 1 = lo
    <3>1. lo \in Int
      BY <1>0, <1>12, BlockFacts
    <3> QED BY <3>1, <1>10
  <2> QED BY <2>1, <1>12 DEF LastNodeOnBlock
<1>21. OnlySecondWordGarbled'
  <2> SUFFICES ASSUME NEW o \in Live, NEW i \in 0 .. block_sizes'[o] - 1, i # 1
               PROVE  mem'[blocks'[o] + i] = data[o]
    BY <1>6, <1>13 DEF OnlySecondWordGarbled
  <2>1. CASE o = id
    <3>1. i \in 0 .. n - 1 /\ i \in 0 .. block_sizes[id] - 1 /\ i \in Int
          /\ i \in 0 .. req.size - 1
      BY <2>1, <1>2, <1>3, <1>5, <1>14
    <3>2. c + 1 + i \in Words /\ c < c + 1 + i /\ c + 1 + i < EndOf(mem, c) - 1
      BY <3>1, <1>0, <1>2, <1>4, PayloadWord
    <3>3. EndOf(mem, c) \in Int
      BY <1>0, <1>4, BlockFacts
    <3>4. /\ c <= c + 1 + i /\ c + 1 + i < EndOf(mem, c) /\ c + 1 + i # c + 2
      BY <3>1, <3>2, <3>3, <1>4
    <3>5. mem'[c + 1 + i] = m[c + 1 + i]
      BY <3>2, <3>4, <1>4, <1>12
    <3>6. mem[blocks[id] + i] = data[id]
      BY <3>1, <1>2 DEF IInv, OnlySecondWordGarbled
    <3> QED BY <3>1, <3>5, <3>6, <2>1, <1>3, <1>7, <1>13
  <2>2. CASE o # id
    <3>1. i \in 0 .. block_sizes[o] - 1
      BY <2>2, <1>13
    <3>2. /\ blocks[o] + i \in Words /\ blocks[o] - 1 <= blocks[o] + i
          /\ blocks[o] + i < EndOf(mem, blocks[o] - 1)
      BY <3>1, LiveWord
    <3>3. blocks[o] + i # (blocks[o] - 1) + 2
      <4>1. blocks[o] \in Nat /\ i \in Int
        BY <2>2, <1>17
      <4> QED BY <4>1
    <3>4. mem'[blocks[o] + i] = m[blocks[o] + i]
      BY <3>2, <3>3, <2>2, <1>12, <1>17
    <3>5. m[blocks[o] + i] = mem[blocks[o] + i]
      BY <3>2, <2>2, <1>8, <1>17
    <3>6. mem[blocks[o] + i] = data[o]
      BY <3>1 DEF IInv, OnlySecondWordGarbled
    <3> QED BY <3>4, <3>5, <3>6, <2>2, <1>13
  <2> QED BY <2>1, <2>2
<1>22. CallConsistent'
  <2>1. \A o \in Live' : block_sizes'[o] \in Sizes
    BY <1>13, <1>14 DEF IInv, CallConsistent
  <2>2. req.size + 2 <= get_size(mem', new_ptr - 1)
    <3>1. new_ptr - 1 = c
      BY <1>4
    <3> QED BY <3>1, <1>4, <1>18 DEF get_size
  <2>3. blocks'[id] = new_ptr
    BY <1>4, <1>13
  <2> QED BY <2>1, <2>2, <2>3, <1>1, <1>2, <1>6, <1>10 DEF CallConsistent
<1>23. CursorOnHeader' /\ NoFault'
  BY <1>10 DEF CursorOnHeader, NoFault
<1> QED BY <1>15, <1>16, <1>19, <1>20, <1>21, <1>22, <1>23 DEF IInv

-----------------------------------------------------------------------------
(* The theorems.  A request of zero words is excluded: the block it gives has no
   room for the two pointers free writes into it.                            *)

\* The invariant is inductive.
LEMMA NextInv ==
  ASSUME IInv, 0 \notin Sizes, [Next]_vars
  PROVE  IInv'
<1>1. CASE UNCHANGED vars
  <2>1. /\ UNCHANGED <<mem, mem_brk, last_node, blocks, block_sizes, data, starts>>
        /\ UNCHANGED <<pc, req, heap_pointer, new_ptr>>
    BY <1>1 DEF vars
  <2>2. Pending' <=> Pending
    BY <2>1 DEF Pending
  <2>3. HeapTiled' /\ LastNodeOnBlock' /\ OnlySecondWordGarbled' /\ Live' = Live
        /\ LiveBlocksOwned'
    BY <2>1, <2>2, QuietStep
  <2>4. TypeOK' /\ NoFault' /\ CursorOnHeader'
    BY <2>1 DEF IInv, TypeOK, NoFault, CursorOnHeader
  <2>5. CallConsistent'
    BY <2>1, <2>3 DEF IInv, CallConsistent, get_size
  <2> QED BY <2>3, <2>4, <2>5 DEF IInv
<1>2. ASSUME NEW id \in Ids, NEW n \in Sizes,
             CallMalloc(id, n) \/ CallCalloc(id, n) \/ CallRealloc(id, n)
      PROVE  IInv'
  BY <1>2, CallStep
<1>3. ASSUME NEW id \in Ids, Free(id)
      PROVE  IInv'
  BY <1>3, FreeStep
<1>4. CASE FindFit
  BY <1>4, FindNextStep, FindHitStep, FindMissStep DEF FindFit
<1>5. CASE Return
  BY <1>5, ReturnNullStep, HandOverStep, ReallocReturnStep, ReallocFillStep DEF Return
<1> QED BY <1>1, <1>2, <1>3, <1>4, <1>5 DEF Next

\* Whatever the trace, as long as it requests at least one word at a time, the
\* allocator keeps its whole invariant.
THEOREM Invariant == ASSUME 0 \notin Sizes PROVE Spec => []IInv
<1>1. IInv /\ [Next]_vars => IInv'
  BY NextInv
<1> QED BY <1>1, InitInv, PTL DEF Spec

\* Headers and footers always cut the heap into blocks without gap or overlap.
THEOREM AlwaysTiled == ASSUME 0 \notin Sizes PROVE Spec => []HeapTiled
<1>1. IInv => HeapTiled
  BY DEF IInv
<1> QED BY <1>1, Invariant, PTL

\* Every payload lies in an allocated block of its own and no block leaks.
THEOREM NoOverlapNoLeak == ASSUME 0 \notin Sizes PROVE Spec => []LiveBlocksOwned
<1>1. IInv => LiveBlocksOwned
  BY DEF IInv
<1> QED BY <1>1, Invariant, PTL

\* The stale list pointer of free corrupts at most the second word of a block.
THEOREM GarbleBounded == ASSUME 0 \notin Sizes PROVE Spec => []OnlySecondWordGarbled
<1>1. IInv => OnlySecondWordGarbled
  BY DEF IInv
<1> QED BY <1>1, Invariant, PTL

\* Neither find_fit, split, coalesce nor realloc's copy leaves the mapped heap, and
\* every pointer, the break and the driver's table keep their types.
THEOREM NeverFaults == ASSUME 0 \notin Sizes PROVE Spec => []MemorySafe
<1>1. IInv => MemorySafe
  BY DEF IInv, MemorySafe
<1> QED BY <1>1, Invariant, PTL

\* The pointer free links through is the payload of some block, live or not, and
\* find_fit's walk stops on headers only.
THEOREM PointersStay == ASSUME 0 \notin Sizes PROVE Spec => []PointersOnBlocks
<1>1. IInv => PointersOnBlocks
  BY DEF IInv, PointersOnBlocks
<1> QED BY <1>1, Invariant, PTL

-----------------------------------------------------------------------------
(* mm.c implements HeapSpec. *)

\* A live payload is an aligned run of mapped words.
LEMMA PayloadIsRun ==
  ASSUME IInv, 0 \notin Sizes, NEW id \in Live
  PROVE  Payload(id) \in Contract!Runs(block_sizes[id])
<1> DEFINE c == blocks[id] - 1
           n == block_sizes[id]
<1>1. /\ c \in starts /\ blocks[id] = c + 1 /\ c \in Int /\ blocks[id] \in Words
      /\ n \in Nat /\ n # 0 /\ n + 2 <= get_size(mem, c)
  BY LiveBlockFacts
<1> HIDE DEF c, n
<1>2. c % 2 = 1 /\ c + 1 + (n - 1) \in Words
  <2>1. n - 1 \in 0 .. n - 1
    BY <1>1
  <2>2. /\ mem \in [Words -> Nat] /\ mem_brk \in First .. Limit /\ starts \in SUBSET Words
        /\ Tiled(mem, First, mem_brk, starts)
    BY DEF IInv, TypeOK, HeapTiled
  <2>3. c % 2 = 1
    BY <2>2, <1>1, BlockFacts
  <2>4. c + 1 + (n - 1) \in Words
    BY <2>1, <2>2, <1>1, PayloadWord
  <2> QED BY <2>3, <2>4
<1>3. blocks[id] % 2 = 0 /\ blocks[id] + n - 1 \in Words
  BY <1>1, <1>2
<1> QED BY <1>1, <1>3 DEF Contract!Runs, Payload, n

\* The payloads of two live indices are disjoint.
LEMMA PayloadsApart ==
  ASSUME IInv, 0 \notin Sizes, NEW i \in Live, NEW j \in Live, i # j
  PROVE  Payload(i) \cap Payload(j) = {}
<1> DEFINE b == blocks[i] - 1
           c == blocks[j] - 1
<1>1. /\ b \in starts /\ blocks[i] = b + 1 /\ b \in Int
      /\ block_sizes[i] \in Nat /\ block_sizes[i] + 2 <= get_size(mem, b)
      /\ c \in starts /\ blocks[j] = c + 1 /\ c \in Int
      /\ block_sizes[j] \in Nat /\ block_sizes[j] + 2 <= get_size(mem, c)
  BY LiveBlockFacts
<1>2. b # c
  BY <1>1 DEF IInv, LiveBlocksOwned
<1> HIDE DEF b, c
<1>3. /\ EndOf(mem, b) = b + get_size(mem, b) /\ EndOf(mem, c) = c + get_size(mem, c)
      /\ get_size(mem, b) \in Nat /\ get_size(mem, c) \in Nat
  BY <1>1, BlockFacts DEF IInv, TypeOK, HeapTiled
<1>4. EndOf(mem, b) <= c \/ EndOf(mem, c) <= b
  BY <1>1, <1>2, BlocksApart DEF IInv, TypeOK, HeapTiled
<1>5. ASSUME NEW a \in Payload(i), a \in Payload(j)
      PROVE  FALSE
  <2>1. a \in b + 1 .. b + 1 + block_sizes[i] - 1 /\ a \in c + 1 .. c + 1 + block_sizes[j] - 1
    BY <1>1, <1>5 DEF Payload
  <2> QED BY <2>1, <1>1, <1>3, <1>4
<1> QED BY <1>5

\* What the client sees: runs of the requested length, pairwise disjoint.
ClientView ==
  /\ \A id \in Live : /\ Payload(id) \in Contract!Runs(block_sizes[id])
                       /\ block_sizes[id] \in Sizes
  /\ \A i, j \in Live : i # j => Payload(i) \cap Payload(j) = {}

\* The invariant guarantees it.
LEMMA SeenByClient ==
  ASSUME IInv, 0 \notin Sizes
  PROVE  ClientView
BY PayloadIsRun, PayloadsApart DEF ClientView, IInv, CallConsistent

\* Giving id a payload, new or moved, is a step of the contract.
LEMMA TakesRun ==
  ASSUME ClientView', NEW id \in Ids, id \in Live',
         \A o \in Ids : o # id => blocks'[o] = blocks[o] /\ block_sizes'[o] = block_sizes[o]
  PROVE  Contract!ANext
<1> DEFINE r == Payload(id)'
           n == block_sizes'[id]
<1>1. r \in Contract!Runs(n) /\ n \in Sizes
  BY DEF ClientView, Contract!Runs
<1>2. ASSUME NEW o \in Ids \ {id}
      PROVE  Regions[o] \cap r = {} /\ Regions'[o] = Regions[o]
  <2>1. Regions'[o] = Regions[o]
    BY DEF Regions, Payload
  <2>2. CASE o \in Live'
    <3>1. Payload(o)' \cap r = {}
      BY <2>2 DEF ClientView
    <3>2. Regions[o] = Payload(o)'
      BY <2>1, <2>2 DEF Regions, Live
    <3> QED BY <2>1, <3>1, <3>2
  <2>3. CASE o \notin Live'
    BY <2>1, <2>3 DEF Regions, Live
  <2> QED BY <2>2, <2>3
<1>3. Regions' = [Regions EXCEPT ![id] = r]
  <2>1. Regions'[id] = r
    BY DEF Regions, Live
  <2>2. DOMAIN Regions = Ids /\ DOMAIN Regions' = Ids
    BY DEF Regions
  <2>3. Regions = [o \in Ids |-> Regions[o]] /\ Regions' = [o \in Ids |-> Regions'[o]]
    BY DEF Regions
  <2> HIDE DEF r
  <2> QED BY <2>1, <2>2, <2>3, <1>2
<1>4. Contract!Apart(r, id)
  BY <1>2 DEF Contract!Apart
<1> HIDE DEF r, n
<1>5. CASE Regions[id] = {}
  <2>1. Contract!Allocate(id, n)
    BY <1>1, <1>3, <1>4, <1>5 DEF Contract!Allocate
  <2> QED BY <2>1, <1>1 DEF Contract!ANext
<1>6. CASE Regions[id] # {}
  <2>1. Contract!Move(id, n)
    BY <1>1, <1>3, <1>4, <1>6 DEF Contract!Move
  <2> QED BY <2>1, <1>1 DEF Contract!ANext
<1> QED BY <1>5, <1>6

\* Every step of the allocator is a step of the contract or invisible in it.
LEMMA StepImplements ==
  ASSUME IInv, ClientView', [Next]_vars
  PROVE  [Contract!ANext]_Regions
<1>1. CASE UNCHANGED <<blocks, block_sizes>>
  BY <1>1 DEF Regions, Payload
<1>2. ASSUME NEW id \in Ids, Free(id)
      PROVE  Contract!ANext
  <2>1. /\ blocks' = [blocks EXCEPT ![id] = NULL]
        /\ block_sizes' = [block_sizes EXCEPT ![id] = 0]
        /\ blocks \in [Ids -> {NULL} \cup Words] /\ block_sizes \in [Ids -> Nat]
    BY <1>2 DEF Free, IInv, TypeOK
  <2>2. Regions' = [Regions EXCEPT ![id] = {}]
    <3>1. Regions'[id] = {} /\ \A o \in Ids : o # id => Regions'[o] = Regions[o]
      BY <2>1 DEF Regions, Payload
    <3>2. Regions = [o \in Ids |-> Regions[o]] /\ Regions' = [o \in Ids |-> Regions'[o]]
      BY DEF Regions
    <3> QED BY <3>1, <3>2
  <2> QED BY <2>2 DEF Contract!ANext, Contract!Release
<1>3. ASSUME NEW id \in Ids, NEW ptr, NEW n, ptr # NULL,
             blocks' = [blocks EXCEPT ![id] = ptr],
             block_sizes' = [block_sizes EXCEPT ![id] = n]
      PROVE  Contract!ANext
  <2>1. id \in Live' /\ \A o \in Ids : o # id => /\ blocks'[o] = blocks[o]
                                                 /\ block_sizes'[o] = block_sizes[o]
    BY <1>3 DEF IInv, TypeOK, Live
  <2> QED BY <2>1, TakesRun
<1>4. CASE MallocReturn \/ CallocReturn \/ ReallocReturn \/ ReallocFill
  <2>1. new_ptr # NULL /\ req.id \in Ids
    BY <1>4 DEF MallocReturn, CallocReturn, ReallocReturn, ReallocFill, IInv, CallConsistent
  <2>2. PICK n : /\ blocks' = [blocks EXCEPT ![req.id] = new_ptr]
                 /\ block_sizes' = [block_sizes EXCEPT ![req.id] = n]
    BY <1>4 DEF MallocReturn, CallocReturn, ReallocReturn, ReallocFill, Remember
  <2> QED BY <2>1, <2>2, <1>3
<1>5. CASE Next
  <2>1. CASE \E id \in Ids, n \in Sizes :
               CallMalloc(id, n) \/ CallCalloc(id, n) \/ CallRealloc(id, n)
    BY <2>1, <1>1 DEF CallMalloc, CallCalloc, CallRealloc, Call
  <2>2. CASE FindFit
    BY <2>2, <1>1 DEF FindFit, FindNext, FindHit, FindMiss
  <2>3. CASE ReturnNull
    BY <2>3, <1>1 DEF ReturnNull
  <2> QED BY <2>1, <2>2, <2>3, <1>2, <1>4, <1>5 DEF Next, Return
<1> QED BY <1>1, <1>5 DEF vars

\* Seen from its client, mm.c is the allocator of HeapSpec: aligned, disjoint
\* runs that move or vanish only when their own index is reallocated or freed.
THEOREM Refines == ASSUME 0 \notin Sizes PROVE Spec => ImplementsHeapSpec
<1>1. Init => Contract!AInit
  BY DEF Init, Contract!AInit, Regions
<1>2. IInv => ClientView
  BY SeenByClient
<1>3. IInv /\ ClientView' /\ [Next]_vars => [Contract!ANext]_Regions
  BY StepImplements
<1> QED BY <1>1, <1>2, <1>3, Invariant, PTL DEF Spec, ImplementsHeapSpec, Contract!ASpec
=============================================================================
