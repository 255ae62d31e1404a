----------------------------- MODULE RefsProofs -----------------------------
(***************************************************************************)
(* Proofs about Refs for every pool, every program and every bound: no     *)
(* reference dangles, counts are exact, the pool is sound, only cycles and *)
(* lost counts keep garbage, collections keep what the globals reach.      *)
(*                                                                         *)
(* One lemma per action combines what RefsGraph shows of the graph of      *)
(* values and of the pool into a step of the inductive invariant IInv.     *)
(* IInv says nothing of a state in which a collection has failed; that     *)
(* none ever does follows from a second invariant, GcInv, which counts the *)
(* words that are still to be copied.                                      *)
(***************************************************************************)
EXTENDS RefsGraph

-----------------------------------------------------------------------------
(* The inductive invariant. *)

\* What the operation under way holds and which places it has vacated.
VacantGlobal(af)      == IF af.to \in {"global", "drop"} THEN {af.at} ELSE {}
VacantElement(ob, af) == IF af.to \in {"store", "shift"} THEN {<<ob[af.refs[2]].kids[1], af.at>>} ELSE {}
Holding(refs)         == [r \in Pos |-> Occurrences(refs, r)]

\* The list an element of which is replaced or deleted.
SlotOK(ob, tb, af) ==
  af.refs[2] \in Lists(ob) /\ tb[ob[af.refs[2]].kids[1]] = af.array /\ af.at \in Pos
StoreOK(ob, tb, af) ==
  Len(af.refs) = 3 /\ af.refs[3] = af.ref /\ SlotOK(ob, tb, af) /\ af.at <= ob[af.refs[2]].size
ShiftOK(ob, tb, af) ==
  /\ Len(af.refs) = 2 /\ SlotOK(ob, tb, af) /\ af.at <= af.size /\ ob[af.refs[2]].size = af.size - 1
  /\ af.size \in DOMAIN ob[ob[af.refs[2]].kids[1]].kids
  /\ ob[ob[af.refs[2]].kids[1]].kids[af.size] # NULL_REF
\* The array of the list that is next.
ArrayOK(ob, tb, af) ==
  /\ af.refs = <<af.ref>> /\ af.ref \in Arrays(ob) /\ tb[af.ref] = af.array /\ ob[af.ref].ref_count = 1
  /\ Len(ob[af.ref].kids) = af.size /\ \A j \in DOMAIN ob[af.ref].kids : ob[af.ref].kids[j] = NULL_REF

Follows(ob, tb, gl, st, td, af) ==
  /\ af.to \in {"nothing", "global", "drop", "store", "shift", "list", "pending", "refused", "return"}
  /\ af.refs \in Seq(Pos)
  /\ af.to = "nothing" => af = Nothing
  /\ af.to \in {"pending", "drop", "return", "global", "store", "shift"} => st = <<>>
  /\ af.to \in {"pending", "refused", "drop", "return"} => af.refs = <<>>
  /\ af.to = "refused" => Len(st) > 0 /\ st[Len(st)].kind = "ref"
  /\ af.to = "return" => td = <<>> /\ af.ref = NONE_REF
  /\ af.to \in {"drop", "global"} => af.at \in DOMAIN gl
  /\ af.to \in {"drop", "global"} => af.at > 3
  /\ af.to \in {"global", "store"} => af.ref \in DOMAIN ob \ Arrays(ob)
  /\ af.to = "global" => af.refs = <<af.ref>>
  /\ af.to = "store" => StoreOK(ob, tb, af)
  /\ af.to = "shift" => ShiftOK(ob, tb, af)
  /\ af.to = "list" => td = <<>> /\ ArrayOK(ob, tb, af)

Graph(ob, tb, gl, st, lk, td, af) ==
  /\ Pending(ob, tb, gl, VacantGlobal(af), st, VacantElement(ob, af), lk, td, Holding(af.refs))
  /\ Follows(ob, tb, gl, st, td, af)

SweepNext == Then("sweep", 0, NULL, 0, NULL_REF, <<>>)

Evaluating ==
  /\ Memory(heap, ref_table, free_list, memory_pool, memory_size, FALSE)
  /\ Graph(Objects(heap, ref_table), ref_table, global_vars, stack, leaked, todo, after)
Gathering ==
  /\ Memory(heap, ref_table, free_list, memory_pool, memory_size, TRUE)
  /\ Collected(Objects(heap, ref_table), Home(ref_table, memory_pool, memory_size), ref_table, global_vars, todo)
  /\ stack = <<>> /\ leaked = <<>> /\ after = SweepNext
PoolIs(lo, n) == lo \in {0, Half} /\ n \in {PoolSize, Half} /\ (lo = Half => n = Half)
IInv ==
  /\ status # "asserted"
  /\ status = "ok" => f \in BOOLEAN /\ PoolIs(memory_pool, memory_size) /\ (Evaluating \/ Gathering)

\* Nothing follows.
LEMMA NothingIs ==
  /\ Nothing.to = "nothing" /\ Nothing.refs = <<>> /\ VacantGlobal(Nothing) = {}
  /\ Holding(Nothing.refs) = Zero /\ \A ob : VacantElement(ob, Nothing) = {}
<1>1. Nothing.to = "nothing" /\ Nothing.refs = <<>>
  BY DEF Nothing, Then
<1>2. \A r \in Pos : Occurrences(<<>>, r) = 0
  BY OccEmpty
<1>3. Holding(Nothing.refs) = Zero
  BY <1>1, <1>2 DEF Holding, Zero
<1> QED BY <1>1, <1>3 DEF VacantGlobal, VacantElement

\* The zero account.
LEMMA ZeroType == Zero \in [Pos -> Nat] /\ \A r \in Pos : Zero[r] = 0
BY DEF Zero

\* The graph when nothing follows the calls.
LEMMA NothingGraph ==
  ASSUME NEW ob, NEW tb, NEW gl, NEW st, NEW lk, NEW td
  PROVE  Graph(ob, tb, gl, st, lk, td, Nothing) <=> Pending(ob, tb, gl, {}, st, {}, lk, td, Zero)
<1> DEFINE af == Nothing
<1>1. af.to = "nothing" /\ af.refs = <<>> /\ VacantGlobal(af) = {} /\ Holding(af.refs) = Zero /\ VacantElement(ob, af) = {}
  BY NothingIs
<1>2. <<>> \in Seq(Pos)
  OBVIOUS
<1>3. af = Nothing
  OBVIOUS
<1> HIDE DEF af
<1>4. Follows(ob, tb, gl, st, td, af)
  BY <1>1, <1>2, <1>3 DEF Follows
<1>5. Graph(ob, tb, gl, st, lk, td, af) <=> Pending(ob, tb, gl, {}, st, {}, lk, td, Zero)
  BY <1>1, <1>4 DEF Graph
<1> QED BY <1>5 DEF af

\* Settled is Pending without calls.
LEMMA SettledPending ==
  ASSUME NEW ob, NEW tb, NEW gl, NEW gv, NEW st, NEW kv, NEW lk, NEW h \in [Pos -> Nat],
         Settled(ob, tb, gl, gv, st, kv, lk, h)
  PROVE  Pending(ob, tb, gl, gv, st, kv, lk, <<>>, h)
<1> DEFINE rs == <<>>
<1>1. rs \in Seq(RefOrNull) /\ DOMAIN rs = {}
  OBVIOUS
<1>2. \A r \in Pos : Occurrences(rs, r) = 0
  BY OccEmpty
<1> DEFINE td == Steps("decref", rs)
<1>3. td = <<>>
  BY DEF Steps
<1> HIDE DEF rs, td
<1>4. \A r \in Pos : h[r] = h[r] + Occurrences(rs, r)
  BY <1>2
<1>5. Pending(ob, tb, gl, gv, st, kv, lk, Steps("decref", rs), h)
  BY <1>1, <1>4, Release
<1> QED BY <1>3, <1>5 DEF td

\* The graph when there are neither calls nor anything that follows.
LEMMA IdleGraph ==
  ASSUME NEW ob, NEW tb, NEW gl, NEW st, NEW lk
  PROVE  Graph(ob, tb, gl, st, lk, <<>>, Nothing) <=> Settled(ob, tb, gl, {}, st, {}, lk, Zero)
<1> DEFINE none == {}
<1>1. Graph(ob, tb, gl, st, lk, <<>>, Nothing) <=> Pending(ob, tb, gl, none, st, none, lk, <<>>, Zero)
  BY NothingGraph
<1> HIDE DEF none
<1>2. Pending(ob, tb, gl, none, st, none, lk, <<>>, Zero) => Settled(ob, tb, gl, none, st, none, lk, Zero)
  BY Settle
<1>3. Settled(ob, tb, gl, none, st, none, lk, Zero) => Pending(ob, tb, gl, none, st, none, lk, <<>>, Zero)
  BY SettledPending, ZeroType
<1> QED BY <1>1, <1>2, <1>3 DEF none

\* A collection is not an operation of Graph.
LEMMA GraphTo ==
  ASSUME NEW ob, NEW tb, NEW gl, NEW st, NEW lk, NEW td, NEW af, Graph(ob, tb, gl, st, lk, td, af)
  PROVE  af.to # "sweep" /\ af # SweepNext
<1>1. af.to # "sweep"
  BY DEF Graph, Follows
<1>2. SweepNext.to = "sweep"
  BY DEF SweepNext, Then
<1> QED BY <1>1, <1>2

-----------------------------------------------------------------------------
(* From states to values and back. *)

\* The evaluator between two operations.
LEMMA IdleState ==
  ASSUME IInv, Idle
  PROVE  /\ Memory(heap, ref_table, free_list, memory_pool, memory_size, FALSE)
         /\ Settled(Objects(heap, ref_table), ref_table, global_vars, {}, stack, {}, leaked, Zero)
<1>1. status = "ok" /\ todo = <<>> /\ after = Nothing
  BY DEF Idle
<1>2. after # SweepNext
  <2>1. SweepNext.to = "sweep" /\ Nothing.to = "nothing"
    BY DEF SweepNext, Nothing, Then
  <2> QED BY <1>1, <2>1
<1>3. Evaluating
  BY <1>1, <1>2 DEF IInv, Gathering
<1>4. Graph(Objects(heap, ref_table), ref_table, global_vars, stack, leaked, <<>>, Nothing)
  BY <1>1, <1>3 DEF Evaluating
<1> QED BY <1>3, <1>4, IdleGraph DEF Evaluating

\* Neither a call nor an operation on a place is to follow.
Quiet == status = "ok" /\ todo = <<>> /\ (after = Nothing \/ after.to \in {"pending", "refused"})

\* Between two operations it is quiet.
LEMMA IdleQuiet == Idle => Quiet
BY DEF Idle, Quiet

\* An operation under way.
LEMMA BusyState ==
  ASSUME IInv, status = "ok", after.to # "sweep"
  PROVE  /\ Memory(heap, ref_table, free_list, memory_pool, memory_size, FALSE)
         /\ Graph(Objects(heap, ref_table), ref_table, global_vars, stack, leaked, todo, after)
<1>1. SweepNext.to = "sweep"
  BY DEF SweepNext, Then
<1>2. Evaluating
  BY <1>1 DEF IInv, Gathering
<1> QED BY <1>2 DEF Evaluating

\* The evaluator when nothing is held for an operation that follows.
LEMMA QuietState ==
  ASSUME IInv, Quiet
  PROVE  /\ Memory(heap, ref_table, free_list, memory_pool, memory_size, FALSE) /\ status = "ok"
         /\ Settled(Objects(heap, ref_table), ref_table, global_vars, {}, stack, {}, leaked, Zero)
         /\ Follows(Objects(heap, ref_table), ref_table, global_vars, stack, <<>>, after)
<1> DEFINE ob == Objects(heap, ref_table)
           none == {}
<1>1. status = "ok" /\ todo = <<>> /\ after.to \in {"nothing", "pending", "refused"}
  BY NothingIs DEF Quiet
<1>2. Memory(heap, ref_table, free_list, memory_pool, memory_size, FALSE) /\ Graph(ob, ref_table, global_vars, stack, leaked, <<>>, after)
  BY <1>1, BusyState
<1>3. Follows(ob, ref_table, global_vars, stack, <<>>, after)
  BY <1>2 DEF Graph
<1>4. after.refs = <<>>
  BY <1>1, <1>3, NothingIs DEF Follows
<1>5. VacantGlobal(after) = none /\ VacantElement(ob, after) = none
  BY <1>1 DEF VacantGlobal, VacantElement
<1>6. Holding(after.refs) = Zero
  BY <1>4, NothingIs
<1> HIDE DEF ob, none
<1>7. Pending(ob, ref_table, global_vars, none, stack, none, leaked, <<>>, Zero)
  BY <1>2, <1>5, <1>6 DEF Graph
<1>8. Settled(ob, ref_table, global_vars, none, stack, none, leaked, Zero)
  BY <1>7, Settle
<1> QED BY <1>1, <1>2, <1>3, <1>8 DEF ob, none

\* The state an action leaves.
LEMMA NextState ==
  ASSUME IInv, status = "ok", SamePool, status' = status, NEW ob, ob = Objects(heap', ref_table'),
         Memory(heap', ref_table', free_list', memory_pool, memory_size, FALSE),
         Graph(ob, ref_table', global_vars', stack', leaked', todo', after')
  PROVE  IInv'
<1>1. memory_pool' = memory_pool /\ memory_size' = memory_size /\ f' = f
  BY DEF SamePool
<1>2. f' \in BOOLEAN /\ PoolIs(memory_pool', memory_size')
  BY <1>1 DEF IInv, PoolIs
<1>3. Evaluating'
  BY <1>1 DEF Evaluating
<1>4. status' = "ok"
  OBVIOUS
<1> QED BY <1>2, <1>3, <1>4 DEF IInv

\* Without an operation to follow.
LEMMA NextIdle ==
  ASSUME IInv, status = "ok", SamePool, status' = status, NEW ob, ob = Objects(heap', ref_table'),
         Memory(heap', ref_table', free_list', memory_pool, memory_size, FALSE), after' = Nothing,
         \/ Pending(ob, ref_table', global_vars', {}, stack', {}, leaked', todo', Zero)
         \/ todo' = <<>> /\ Settled(ob, ref_table', global_vars', {}, stack', {}, leaked', Zero)
  PROVE  IInv'
<1>1. Graph(ob, ref_table', global_vars', stack', leaked', todo', Nothing)
  BY NothingGraph, IdleGraph
<1>2. Graph(ob, ref_table', global_vars', stack', leaked', todo', after')
  BY <1>1
<1> QED BY <1>2, NextState

\* The value of a reference.
LEMMA MemoryAt ==
  ASSUME NEW hp, NEW tb, NEW fl, NEW lo, NEW n, NEW col, Memory(hp, tb, fl, lo, n, col), NEW r \in Live(tb)
  PROVE  /\ r \in Pos /\ r \in DOMAIN tb /\ tb[r] \in DOMAIN hp /\ tb[r] \in Nat
         /\ Objects(hp, tb)[r] = hp[tb[r]] /\ hp[tb[r]] \in ValueType
BY MemoryObjects

\* Outside collections every value of the table is in the pool.
LEMMA MemoryHome ==
  ASSUME NEW hp, NEW tb, NEW fl, NEW lo, NEW n, Memory(hp, tb, fl, lo, n, FALSE), NEW r \in Live(tb)
  PROVE  InPool(tb[r], lo, n)
<1> DEFINE col == FALSE
<1>1. Memory(hp, tb, fl, lo, n, col) /\ ~col
  OBVIOUS
<1> HIDE DEF col
<1>2. ~col => InPool(tb[r], lo, n)
  BY <1>1, MemoryObjects
<1> QED BY <1>1, <1>2

\* The references that deref accepts.
LEMMA ValidIs ==
  ASSUME Memory(heap, ref_table, free_list, memory_pool, memory_size, FALSE), NEW r
  PROVE  /\ Valid(r) <=> r \in Live(ref_table)
         /\ r \in Live(ref_table) => deref(r) = Objects(heap, ref_table)[r] /\ deref(r) \in ValueType
                                     /\ ref_table[r] \in DOMAIN heap
<1>1. DOMAIN Objects(heap, ref_table) = Live(ref_table) /\ memory_pool \in Nat /\ memory_size \in Nat
  BY MemoryObjects
<1>2. ASSUME r \in Live(ref_table)
      PROVE  /\ r \in DOMAIN ref_table /\ InPool(ref_table[r], memory_pool, memory_size)
             /\ Objects(heap, ref_table)[r] = heap[ref_table[r]] /\ heap[ref_table[r]] \in ValueType
             /\ ref_table[r] \in DOMAIN heap
  <2>1. InPool(ref_table[r], memory_pool, memory_size)
    BY <1>2, MemoryHome
  <2>2. r \in DOMAIN ref_table /\ ref_table[r] \in DOMAIN heap
    BY <1>2, MemoryAt
  <2>3. Objects(heap, ref_table)[r] = heap[ref_table[r]] /\ heap[ref_table[r]] \in ValueType
    <3>1. heap[ref_table[r]] \in ValueType
      BY <1>2, MemoryAt
    <3>2. Objects(heap, ref_table)[r] = heap[ref_table[r]]
      BY <1>2 DEF Objects
    <3> QED BY <3>1, <3>2
  <2> QED BY <2>1, <2>2, <2>3
<1>3. Valid(r) => r \in Live(ref_table)
  <2> SUFFICES ASSUME Valid(r) PROVE r \in Live(ref_table)
    OBVIOUS
  <2>1. r \in DOMAIN ref_table /\ ref_table[r] >= memory_pool
    BY DEF Valid, is_pool_address
  <2>2. ref_table[r] # NULL
    BY <1>1, <2>1 DEF NULL
  <2> QED BY <2>1, <2>2 DEF Live
<1>4. r \in Live(ref_table) => Valid(r)
  BY <1>2 DEF Valid, is_pool_address, InPool
<1> QED BY <1>2, <1>3, <1>4 DEF deref

-----------------------------------------------------------------------------
(* What the operations hold. *)

\* How often the references of an operation hold a value.
LEMMA HoldingType ==
  ASSUME NEW T, NEW refs \in Seq(T)
  PROVE  Holding(refs) \in [Pos -> Nat] /\ \A r \in Pos : Holding(refs)[r] = Occurrences(refs, r)
<1>1. \A r \in Pos : Occurrences(refs, r) \in Nat
  BY OccType
<1> QED BY <1>1 DEF Holding

\* An operation that holds one reference ...
LEMMA HoldingOne ==
  ASSUME NEW x \in Pos
  PROVE  Holding(<<x>>) = Plus(Zero, x)
<1>1. \A r \in Pos : Occurrences(<<x>>, r) = IF x = r THEN 1 ELSE 0
  BY OccSingle
<1>2. \A r \in Pos : Zero[r] = 0
  BY ZeroType
<1> QED BY <1>1, <1>2 DEF Holding, Plus

\* ... one more ...
LEMMA HoldingMore ==
  ASSUME NEW rs \in Seq(Pos), NEW x \in Pos
  PROVE  Holding(Append(rs, x)) = Plus(Holding(rs), x)
<1> DEFINE rs2 == Append(rs, x)
<1>1. \A r \in Pos : Occurrences(rs2, r) = Occurrences(rs, r) + (IF x = r THEN 1 ELSE 0)
  BY OccAppend
<1>2. \A r \in Pos : Holding(rs)[r] = Occurrences(rs, r)
  BY HoldingType
<1> HIDE DEF rs2
<1>3. Holding(rs2) = Plus(Holding(rs), x)
  BY <1>1, <1>2 DEF Holding, Plus
<1> QED BY <1>3 DEF rs2

\* In any order.
LEMMA PlusSwap ==
  ASSUME NEW h \in [Pos -> Nat], NEW x, NEW y
  PROVE  Plus(Plus(h, x), y) = Plus(Plus(h, y), x)
<1>1. \A r \in Pos : Plus(h, x)[r] = h[r] + (IF r = x THEN 1 ELSE 0)
  BY PlusType
<1>2. \A r \in Pos : Plus(h, y)[r] = h[r] + (IF r = y THEN 1 ELSE 0)
  BY PlusType
<1> DEFINE p == Plus(h, x)
           q == Plus(h, y)
<1>3. \A r \in Pos : p[r] + (IF r = y THEN 1 ELSE 0) = q[r] + (IF r = x THEN 1 ELSE 0)
  BY <1>1, <1>2
<1> HIDE DEF p, q
<1>4. Plus(p, y) = Plus(q, x)
  BY <1>3 DEF Plus
<1> QED BY <1>4 DEF p, q

\* ... two ...
LEMMA HoldingTwo ==
  ASSUME NEW x \in Pos, NEW y \in Pos
  PROVE  /\ Holding(<<x, y>>) = Plus(Plus(Zero, y), x) /\ <<x, y>> \in Seq(Pos)
         /\ Holding(<<x, y>>) = Plus(Plus(Zero, x), y)
<1> DEFINE rs == <<x>>
           rs2 == <<x, y>>
<1>1. rs \in Seq(Pos) /\ rs2 = Append(rs, y) /\ rs2 \in Seq(Pos)
  OBVIOUS
<1>2. Holding(rs) = Plus(Zero, x)
  BY HoldingOne
<1> HIDE DEF rs, rs2
<1>3. Holding(rs2) = Plus(Holding(rs), y)
  BY <1>1, HoldingMore
<1>4. Plus(Plus(Zero, x), y) = Plus(Plus(Zero, y), x)
  BY PlusSwap, ZeroType
<1> QED BY <1>1, <1>2, <1>3, <1>4 DEF rs2

\* ... or three.
LEMMA HoldingThree ==
  ASSUME NEW x \in Pos, NEW y \in Pos, NEW z \in Pos
  PROVE  Holding(<<x, y, z>>) = Plus(Plus(Plus(Zero, x), y), z)
<1> DEFINE rs1 == <<x>>
           rs2 == <<x, y>>
           rs3 == <<x, y, z>>
<1>1. rs1 \in Seq(Pos) /\ rs2 = Append(rs1, y)
  OBVIOUS
<1>2. rs2 \in Seq(Pos) /\ rs3 = Append(rs2, z)
  OBVIOUS
<1>3. Holding(rs1) = Plus(Zero, x)
  BY HoldingOne
<1> HIDE DEF rs1, rs2, rs3
<1>4. Holding(rs2) = Plus(Holding(rs1), y)
  BY <1>1, HoldingMore
<1>5. Holding(rs3) = Plus(Holding(rs2), z)
  BY <1>2, HoldingMore
<1> QED BY <1>3, <1>4, <1>5 DEF rs3

\* The operands a function has taken from the stack are released.
LEMMA ReleaseHeld ==
  ASSUME NEW ob, NEW tb, NEW gl, NEW gv, NEW st, NEW kv, NEW lk, NEW refs \in Seq(Pos),
         Settled(ob, tb, gl, gv, st, kv, lk, Holding(refs))
  PROVE  /\ Pending(ob, tb, gl, gv, st, kv, lk, Steps("decref", refs), Zero)
         /\ Pending(ob, tb, gl, gv, <<>>, kv, lk, Steps("decref", refs \o RefsOf(Reverse(st))), Zero)
<1>1. refs \in Seq(RefOrNull)
  BY DEF RefOrNull
<1> DEFINE h2 == Holding(refs)
<1>2. \A r \in Pos : h2[r] = Occurrences(refs, r) /\ Occurrences(refs, r) \in Nat
  BY HoldingType, OccType
<1>3. Settled(ob, tb, gl, gv, st, kv, lk, h2)
  OBVIOUS
<1> HIDE DEF h2
<1>4. Zero \in [Pos -> Nat] /\ \A r \in Pos : h2[r] = Zero[r] + Occurrences(refs, r)
  BY <1>2, ZeroType
<1>5. Pending(ob, tb, gl, gv, st, kv, lk, Steps("decref", refs), Zero)
  BY <1>1, <1>3, <1>4, Release
<1>6. Pending(ob, tb, gl, gv, <<>>, kv, lk, Steps("decref", refs \o RefsOf(Reverse(st))), Zero)
  BY <1>1, <1>3, <1>4, ReleaseAll
<1> QED BY <1>5, <1>6

-----------------------------------------------------------------------------
(* The stack. *)

\* A counted reference is pushed.
LEMMA PushCounted ==
  ASSUME NEW ob, NEW tb, NEW gl, NEW gv, NEW st, NEW kv, NEW lk, NEW h,
         Settled(ob, tb, gl, gv, st, kv, lk, h), NEW x \in DOMAIN ob \ Arrays(ob), ~Framed(st, x)
  PROVE  Settled(More(ob, x), tb, gl, gv, Append(st, RefFrame(x)), kv, lk, h)
<1>1. Settled(More(ob, x), tb, gl, gv, st, kv, lk, Plus(h, x))
  BY Increfed
<1>2. h \in [Pos -> Nat] /\ Values(ob)
  BY DEF Settled, Typed
<1>3. x \in Pos
  BY <1>2 DEF Values
<1>4. Alike(ob, More(ob, x))
  BY <1>2, MoreType
<1>5. x \notin Arrays(More(ob, x))
  BY <1>4 DEF Arrays, Alike
<1> DEFINE ob2 == More(ob, x)
<1> HIDE DEF ob2
<1>6. Settled(ob2, tb, gl, gv, st, kv, lk, Plus(h, x)) /\ x \notin Arrays(ob2)
  BY <1>1, <1>5 DEF ob2
<1>7. Settled(ob2, tb, gl, gv, Append(st, RefFrame(x)), kv, lk, h)
  BY <1>2, <1>3, <1>6, PushedRef
<1> QED BY <1>7 DEF ob2

\* The frames below the top.
LEMMA Below ==
  ASSUME NEW st \in Seq(FrameType), NEW k \in Nat, k <= Len(st)
  PROVE  /\ SubSeq(st, 1, Len(st) - k) \in Seq(FrameType) /\ Len(SubSeq(st, 1, Len(st) - k)) = Len(st) - k
         /\ \A p \in 1 .. Len(st) - k : SubSeq(st, 1, Len(st) - k)[p] = st[p]
         /\ k < Len(st) => SubSeq(SubSeq(st, 1, Len(st) - k), 1, Len(st) - k - 1) = SubSeq(st, 1, Len(st) - k - 1)
<1>1. Len(st) \in Nat /\ Len(st) - k \in Nat
  OBVIOUS
<1> DEFINE m == Len(st) - k
<1>2. m \in Nat /\ m <= Len(st)
  BY <1>1
<1> HIDE DEF m
<1>3. /\ SubSeq(st, 1, m) \in Seq(FrameType) /\ Len(SubSeq(st, 1, m)) = m
      /\ \A p \in 1 .. m : SubSeq(st, 1, m)[p] = st[p]
  BY <1>2
<1>4. ASSUME k < Len(st) PROVE SubSeq(SubSeq(st, 1, m), 1, m - 1) = SubSeq(st, 1, m - 1)
  <2>1. m - 1 \in Nat /\ m - 1 <= m
    BY <1>1, <1>2, <1>4 DEF m
  <2> DEFINE j == m - 1
             t == SubSeq(st, 1, m)
  <2>2. j \in Nat /\ j <= m
    BY <2>1
  <2>3. t \in Seq(FrameType) /\ Len(t) = m /\ \A p \in 1 .. m : t[p] = st[p]
    BY <1>3
  <2> HIDE DEF j, t
  <2>4. SubSeq(t, 1, j) = [p \in 1 .. j |-> t[p]]
    BY <2>2, <2>3
  <2>5. SubSeq(st, 1, j) = [p \in 1 .. j |-> st[p]]
    BY <1>2, <2>2
  <2>6. \A p \in 1 .. j : t[p] = st[p]
    BY <1>2, <2>2, <2>3
  <2>7. SubSeq(t, 1, j) = SubSeq(st, 1, j)
    BY <2>4, <2>5, <2>6
  <2> QED BY <2>7 DEF j, t
<1> QED BY <1>3, <1>4 DEF m

\* Two frames are popped.
LEMMA PoppedTwo ==
  ASSUME NEW ob, NEW tb, NEW gl, NEW gv, NEW st, NEW kv, NEW lk, NEW h,
         Settled(ob, tb, gl, gv, st, kv, lk, h), Len(st) > 1, st[Len(st)].kind = "ref",
         st[Len(st) - 1].kind = "ref"
  PROVE  Settled(ob, tb, gl, gv, SubSeq(st, 1, Len(st) - 2), kv, lk,
                 Plus(Plus(h, st[Len(st)].ref), st[Len(st) - 1].ref))
<1>1. st \in Seq(FrameType)
  BY DEF Settled, Typed
<1> DEFINE s1 == SubSeq(st, 1, Len(st) - 1)
           h1 == Plus(h, st[Len(st)].ref)
           s2 == SubSeq(st, 1, Len(st) - 2)
<1>2. Len(st) \in Nat /\ Len(st) > 0 /\ Len(st) - 1 - 1 = Len(st) - 2
  BY <1>1
<1>3. Settled(ob, tb, gl, gv, s1, kv, lk, h1)
  BY <1>2, PoppedRef
<1>4. /\ Len(s1) = Len(st) - 1 /\ s1[Len(st) - 1] = st[Len(st) - 1]
      /\ SubSeq(s1, 1, Len(s1) - 1) = s2
  <2>1. /\ Len(s1) = Len(st) - 1 /\ \A p \in 1 .. Len(st) - 1 : s1[p] = st[p]
        /\ SubSeq(s1, 1, Len(st) - 1 - 1) = SubSeq(st, 1, Len(st) - 1 - 1)
    BY <1>1, <1>2, Below
  <2>2. Len(st) - 1 \in 1 .. Len(st) - 1
    BY <1>2
  <2> QED BY <1>2, <2>1, <2>2
<1> HIDE DEF s1, h1, s2
<1>5. Len(s1) > 0 /\ s1[Len(s1)].kind = "ref" /\ s1[Len(s1)].ref = st[Len(st) - 1].ref
  BY <1>2, <1>4
<1>6. Settled(ob, tb, gl, gv, SubSeq(s1, 1, Len(s1) - 1), kv, lk, Plus(h1, s1[Len(s1)].ref))
  BY <1>3, <1>5, PoppedRef
<1> QED BY <1>4, <1>5, <1>6 DEF h1, s2

-----------------------------------------------------------------------------
(* Steps that several actions take. *)

\* incref of a reference with a value.
LEMMA IncrefStep ==
  ASSUME Memory(heap, ref_table, free_list, memory_pool, memory_size, FALSE), NEW r \in Live(ref_table), incref(r)
  PROVE  /\ status' = status /\ ref_table' = ref_table
         /\ Memory(heap', ref_table', free_list', memory_pool, memory_size, FALSE)
         /\ Objects(heap', ref_table') = More(Objects(heap, ref_table), r)
<1>1. Valid(r)
  BY ValidIs
<1>2. heap' = Counted(heap, ref_table[r]) /\ status' = status /\ ref_table' = ref_table /\ free_list' = free_list
  BY <1>1 DEF incref
<1>3. /\ Memory(Counted(heap, ref_table[r]), ref_table, free_list, memory_pool, memory_size, FALSE)
      /\ Objects(Counted(heap, ref_table[r]), ref_table) = More(Objects(heap, ref_table), r)
  BY MemoryCounted
<1> QED BY <1>2, <1>3

\* The values that make_ref is asked for.
LEMMA NewValueType ==
  ASSUME NEW type \in {"none", "bool", "int", "list", "array"}, NEW n \in Pos, NEW kids \in Seq(RefOrNull), NEW size \in Nat
  PROVE  /\ Value(type, n, kids, size) \in ValueType
         /\ Value(type, n, kids, size).type = type /\ Value(type, n, kids, size).ref_count = 1
         /\ Value(type, n, kids, size).value_size = n
         /\ Value(type, n, kids, size).kids = kids /\ Value(type, n, kids, size).size = size
BY DEF Value, ValueType

\* make_ref of m words.
MakesRef(m, v, c) ==
  /\ m \in Pos /\ Fits(m) /\ c = CarvedFrom(free_list, m) /\ v \in ValueType /\ v.value_size = c.size
  /\ heap' = Placed(heap, c.addr, v) /\ free_list' = LeftOver(free_list, m)
  /\ ref_table' = (IF NewRef > Len(ref_table) THEN Append(ref_table, c.addr) ELSE [ref_table EXCEPT ![NewRef] = c.addr])

\* make_ref extends the memory by the new value.
LEMMA MakeStep ==
  ASSUME Memory(heap, ref_table, free_list, memory_pool, memory_size, FALSE), NEW m, NEW v, NEW c, MakesRef(m, v, c)
  PROVE  /\ Memory(heap', ref_table', free_list', memory_pool, memory_size, FALSE)
         /\ NewRef \in Pos /\ NewRef \notin DOMAIN Objects(heap, ref_table)
         /\ ref_table'[NewRef] = c.addr /\ c.addr \in Nat
         /\ Objects(heap', ref_table') = Adding(Objects(heap, ref_table), NewRef, v)
         /\ \A s \in DOMAIN Objects(heap, ref_table) : ref_table'[s] = ref_table[s]
<1> DEFINE fl == free_list
           hp == heap
           fl2 == LeftOver(free_list, m)
           i == BestFit(free_list, m)
           r == NewRef
<1>1. fl \in Seq(BlockType) /\ FreeApart(fl)
  BY DEF Memory, PoolOK
<1>2. m \in Pos /\ LargeEnough(fl, m) # {}
  BY DEF MakesRef, Fits
<1>3. c = CarvedFrom(fl, m) /\ fl2 = LeftOver(fl, m)
  BY DEF MakesRef
<1>4. Taken(fl, m, i, c, fl2) /\ FreeApart(fl2)
  BY <1>1, <1>2, <1>3, TakenBlock
<1>5. heap' = Placed(hp, c.addr, v) /\ free_list' = fl2 /\ v \in ValueType /\ v.value_size = c.size
  BY DEF MakesRef
<1>6. Allocates(hp, fl, m, i, c, fl2, v, heap', FALSE)
  BY <1>2, <1>4, <1>5 DEF Allocates
<1>7. Entered(ref_table, r, c.addr, ref_table')
  BY DEF MakesRef, Entered, NewRef
<1>8. Memory(hp, ref_table, fl, memory_pool, memory_size, FALSE)
  OBVIOUS
<1> HIDE DEF fl, hp, fl2, i, r
<1>9. Extended(hp, ref_table, memory_pool, memory_size, heap', ref_table', fl2, r, v, c.addr)
  BY <1>6, <1>7, <1>8, MemoryMade
<1>10. Extended(heap, ref_table, memory_pool, memory_size, heap', ref_table', free_list', NewRef, v, c.addr)
  BY <1>5, <1>9 DEF hp, r
<1> QED BY <1>10 DEF Extended

\* make_ref of an integer, a list or an array.
LEMMA MakesRefIs ==
  ASSUME Memory(heap, ref_table, free_list, memory_pool, memory_size, FALSE), NEW m \in Pos, Fits(m),
         NEW type \in {"int", "list", "array"}, NEW kids \in Seq(RefOrNull), NEW size \in Nat,
         make_ref(type, m, kids, size), NEW c, c = CarvedFrom(free_list, m),
         NEW v, v = Value(type, c.size, kids, size)
  PROVE  /\ MakesRef(m, v, c) /\ status' = status
         /\ v \in ValueType /\ v.type = type /\ v.ref_count = 1 /\ v.kids = kids /\ v.size = size
<1> DEFINE fl == free_list
           fl2 == LeftOver(free_list, m)
           i == BestFit(free_list, m)
<1>1. fl \in Seq(BlockType) /\ FreeApart(fl) /\ LargeEnough(fl, m) # {} /\ fl2 = LeftOver(fl, m) /\ c = CarvedFrom(fl, m)
  BY DEF Memory, PoolOK, Fits
<1>2. Taken(fl, m, i, c, fl2)
  BY <1>1, TakenBlock
<1>3. c \in BlockType
  BY <1>2 DEF Taken
<1>4. c.size \in Pos
  BY <1>3 DEF BlockType
<1>5. v \in ValueType /\ v.type = type /\ v.ref_count = 1 /\ v.value_size = c.size /\ v.kids = kids /\ v.size = size
  BY <1>4, NewValueType
<1>6. /\ heap' = Placed(heap, c.addr, v) /\ free_list' = LeftOver(free_list, m) /\ status' = status
      /\ ref_table' = (IF NewRef > Len(ref_table) THEN Append(ref_table, c.addr) ELSE [ref_table EXCEPT ![NewRef] = c.addr])
  BY DEF make_ref
<1> QED BY <1>5, <1>6 DEF MakesRef

\* An exception goes on to be pending.
LEMMA PendingGraph ==
  ASSUME NEW ob, NEW tb, NEW gl, NEW lk, NEW td, Pending(ob, tb, gl, {}, <<>>, {}, lk, td, Zero)
  PROVE  Graph(ob, tb, gl, <<>>, lk, td, StillPending)
<1> DEFINE af == StillPending
<1>1. af.to = "pending" /\ af.refs = <<>>
  BY DEF StillPending, Then
<1> HIDE DEF af
<1>2. VacantGlobal(af) = {} /\ VacantElement(ob, af) = {}
  BY <1>1 DEF VacantGlobal, VacantElement
<1>3. Holding(af.refs) = Zero
  BY <1>1, NothingIs
<1>4. Follows(ob, tb, gl, <<>>, td, af)
  <2>1. <<>> \in Seq(Pos)
    OBVIOUS
  <2> QED BY <1>1, <2>1, NothingIs DEF Follows
<1>5. Graph(ob, tb, gl, <<>>, lk, td, af)
  BY <1>2, <1>3, <1>4 DEF Graph
<1> QED BY <1>5 DEF af

\* Every active call returns: `held' and the frames are released.
LEMMA UnwindStep ==
  ASSUME IInv, status = "ok", status' = status, NEW held \in Seq(Pos), NEW frames, Unwind(held, frames),
         NEW ob, ob = Objects(heap', ref_table'),
         Memory(heap', ref_table', free_list', memory_pool, memory_size, FALSE),
         Settled(ob, ref_table', global_vars, {}, frames, {}, leaked', Holding(held))
  PROVE  IInv'
<1> DEFINE td == Steps("decref", held \o RefsOf(Reverse(frames)))
           none == {}
<1>1. stack' = <<>> /\ todo' = td /\ SamePool /\ global_vars' = global_vars
  BY DEF Unwind
<1>2. after' = Nothing \/ after' = StillPending
  BY DEF Unwind
<1>3. Settled(ob, ref_table', global_vars, none, frames, none, leaked', Holding(held))
  OBVIOUS
<1> HIDE DEF none
<1>4. Pending(ob, ref_table', global_vars, none, <<>>, none, leaked', td, Zero)
  BY <1>3, ReleaseHeld
<1> HIDE DEF td
<1>5. Pending(ob, ref_table', global_vars, {}, <<>>, {}, leaked', td, Zero)
  BY <1>4 DEF none
<1>6. Graph(ob, ref_table', global_vars, <<>>, leaked', td, after')
  BY <1>2, <1>5, NothingGraph, PendingGraph
<1>7. Graph(ob, ref_table', global_vars', stack', leaked', todo', after')
  BY <1>1, <1>6
<1> QED BY <1>1, <1>7, NextState

\* An exception: `held' and the frames are released.
LEMMA RaiseStep ==
  ASSUME IInv, status = "ok", Memory(heap, ref_table, free_list, memory_pool, memory_size, FALSE),
         NEW held \in Seq(Pos), NEW frames, Raise(held, frames),
         Settled(Objects(heap, ref_table), ref_table, global_vars, {}, frames, {}, leaked, Holding(held))
  PROVE  IInv'
<1> DEFINE ob == Objects(heap, ref_table)
           none == {}
<1>1. heap' = heap /\ ref_table' = ref_table /\ free_list' = free_list /\ status' = status
  BY DEF Raise, SameMemory
<1>2. leaked' = leaked /\ Unwind(held, frames)
  BY DEF Raise
<1>3. ob = Objects(heap', ref_table')
  BY <1>1
<1>4. Settled(ob, ref_table, global_vars, none, frames, none, leaked, Holding(held))
  OBVIOUS
<1> HIDE DEF ob, none
<1>5. Settled(ob, ref_table', global_vars, none, frames, none, leaked', Holding(held))
  BY <1>1, <1>2, <1>4
<1>6. Memory(heap', ref_table', free_list', memory_pool, memory_size, FALSE)
  BY <1>1
<1> QED BY <1>1, <1>2, <1>3, <1>5, <1>6, UnwindStep DEF none

\* The evaluator with the operands refs taken off the stack.
Popped(refs, frames) ==
  /\ refs \in Seq(Pos) /\ status = "ok" /\ IInv
  /\ Memory(heap, ref_table, free_list, memory_pool, memory_size, FALSE)
  /\ Settled(Objects(heap, ref_table), ref_table, global_vars, {}, frames, {}, leaked, Holding(refs))

\* A reference the evaluator may take another count of.
Usable(frames, x) ==
  x \in DOMAIN Objects(heap, ref_table) \ Arrays(Objects(heap, ref_table)) /\ ~Framed(frames, x)

\* The result is an old value.
LEMMA PushStep ==
  ASSUME NEW refs, NEW frames, Popped(refs, frames), NEW x, Usable(frames, x), incref(x),
         Continue(Pushed(frames, x), Steps("decref", refs), Nothing)
  PROVE  IInv'
<1> DEFINE ob == Objects(heap, ref_table)
           ob2 == Objects(heap', ref_table')
           td == Steps("decref", refs)
           none == {}
           st2 == Append(frames, RefFrame(x))
<1>1. refs \in Seq(Pos) /\ status = "ok" /\ IInv /\ Memory(heap, ref_table, free_list, memory_pool, memory_size, FALSE)
  BY DEF Popped
<1>2. Settled(ob, ref_table, global_vars, none, frames, none, leaked, Holding(refs))
  BY DEF Popped
<1>3. x \in DOMAIN ob \ Arrays(ob) /\ ~Framed(frames, x)
  BY DEF Usable
<1>4. x \in Live(ref_table)
  BY <1>3 DEF Objects
<1>5. /\ status' = status /\ ref_table' = ref_table
      /\ Memory(heap', ref_table', free_list', memory_pool, memory_size, FALSE) /\ ob2 = More(ob, x)
  BY <1>1, <1>4, IncrefStep
<1>6. stack' = st2 /\ todo' = td /\ after' = Nothing /\ SamePool /\ global_vars' = global_vars /\ leaked' = leaked
  BY DEF Continue, Pushed
<1> HIDE DEF ob, ob2, none
<1>7. Settled(More(ob, x), ref_table, global_vars, none, st2, none, leaked, Holding(refs))
  BY <1>2, <1>3, PushCounted
<1>8. Settled(ob2, ref_table, global_vars, none, st2, none, leaked, Holding(refs))
  BY <1>5, <1>7
<1> HIDE DEF st2
<1>9. Pending(ob2, ref_table, global_vars, none, st2, none, leaked, td, Zero)
  BY <1>1, <1>8, ReleaseHeld
<1>10. Pending(ob2, ref_table', global_vars', {}, stack', {}, leaked', todo', Zero)
  BY <1>5, <1>6, <1>9 DEF none
<1>11. ob2 = Objects(heap', ref_table')
  BY DEF ob2
<1> QED BY <1>1, <1>5, <1>6, <1>10, <1>11, NextIdle

\* The exception beside the result of len().
RefusedNext == Then("refused", 0, NULL, 0, NULL_REF, <<>>)

\* The graph when it follows.
LEMMA RefusedGraph ==
  ASSUME NEW ob, NEW tb, NEW gl, NEW st, NEW lk, NEW td, Pending(ob, tb, gl, {}, st, {}, lk, td, Zero),
         Len(st) > 0, st[Len(st)].kind = "ref"
  PROVE  Graph(ob, tb, gl, st, lk, td, RefusedNext)
<1> DEFINE af == RefusedNext
<1>1. af.to = "refused" /\ af.refs = <<>>
  BY DEF RefusedNext, Then
<1> HIDE DEF af
<1>2. VacantGlobal(af) = {} /\ VacantElement(ob, af) = {}
  BY <1>1 DEF VacantGlobal, VacantElement
<1>3. Holding(af.refs) = Zero
  BY <1>1, NothingIs
<1>4. Follows(ob, tb, gl, st, td, af)
  <2>1. <<>> \in Seq(Pos)
    OBVIOUS
  <2> QED BY <1>1, <2>1, NothingIs DEF Follows
<1>5. Graph(ob, tb, gl, st, lk, td, af)
  BY <1>2, <1>3, <1>4 DEF Graph
<1> QED BY <1>5 DEF af

\* The result is a new integer.
LEMMA PushInt ==
  ASSUME NEW refs, NEW frames, Popped(refs, frames), Fits(IntWords), make_ref("int", IntWords, <<>>, 0),
         NEW next, next = Nothing \/ next = RefusedNext, Continue(Pushed(frames, NewRef), Steps("decref", refs), next)
  PROVE  IInv'
<1> DEFINE ob == Objects(heap, ref_table)
           ob2 == Objects(heap', ref_table')
           td == Steps("decref", refs)
           none == {}
           n == NewRef
           st2 == Append(frames, RefFrame(n))
           c == CarvedFrom(free_list, IntWords)
           v == Value("int", c.size, <<>>, 0)
           h == Holding(refs)
<1>1. refs \in Seq(Pos) /\ status = "ok" /\ IInv /\ Memory(heap, ref_table, free_list, memory_pool, memory_size, FALSE)
  BY DEF Popped
<1>2. Settled(ob, ref_table, global_vars, none, frames, none, leaked, h)
  BY DEF Popped
<1>3. IntWords \in Pos /\ <<>> \in Seq(RefOrNull) /\ 0 \in Nat /\ "int" \in {"int", "list", "array"}
  BY HeaderAssumption DEF IntWords, Pos
<1>4. /\ MakesRef(IntWords, v, c) /\ status' = status
      /\ v \in ValueType /\ v.type = "int" /\ v.ref_count = 1 /\ v.kids = <<>>
  <2> DEFINE type == "int"
             kids == <<>>
             size == 0
             m == IntWords
  <2>1. /\ m \in Pos /\ Fits(m) /\ type \in {"int", "list", "array"} /\ kids \in Seq(RefOrNull) /\ size \in Nat
        /\ make_ref(type, m, kids, size) /\ c = CarvedFrom(free_list, m) /\ v = Value(type, c.size, kids, size)
    BY <1>3
  <2> HIDE DEF type, kids, size, m, c, v
  <2>2. MakesRef(m, v, c) /\ status' = status
    BY <1>1, <2>1, MakesRefIs
  <2>3. v \in ValueType /\ v.type = type /\ v.ref_count = 1 /\ v.kids = kids
    BY <1>1, <2>1, MakesRefIs
  <2> QED BY <2>2, <2>3 DEF type, kids, m
<1>5. stack' = st2 /\ todo' = td /\ after' = next /\ SamePool /\ global_vars' = global_vars /\ leaked' = leaked
  BY DEF Continue, Pushed
<1> HIDE DEF v, c
<1>6. /\ Memory(heap', ref_table', free_list', memory_pool, memory_size, FALSE)
      /\ n \in Pos /\ n \notin DOMAIN ob /\ ob2 = Adding(ob, n, v)
      /\ \A s \in DOMAIN ob : ref_table'[s] = ref_table[s]
  BY <1>1, <1>4, MakeStep
<1>7. \A j \in DOMAIN v.kids : v.kids[j] = NULL_REF
  BY <1>4
<1>8. h \in [Pos -> Nat]
  BY <1>1, HoldingType
<1>9. Values(ob)
  BY <1>2 DEF Settled, Typed
<1>10. v.type # "list" /\ v.type # "array"
  BY <1>4
<1> HIDE DEF ob, ob2, none, n, h
<1>11. Settled(ob, ref_table, global_vars, {}, frames, {}, leaked, h)
  BY <1>2 DEF none
<1>12. Settled(Adding(ob, n, v), ref_table', global_vars, {}, frames, {}, leaked, Plus(h, n))
  BY <1>4, <1>6, <1>7, <1>10, <1>11, Made
<1>13. n \notin Arrays(ob2)
  <2>1. Adding(ob, n, v)[n] = v
    BY DEF Adding
  <2> QED BY <1>6, <1>10, <2>1 DEF Arrays
<1>14. Settled(ob2, ref_table', global_vars, none, frames, none, leaked, Plus(h, n))
  BY <1>6, <1>12 DEF none
<1>15. Settled(ob2, ref_table', global_vars, none, st2, none, leaked, h)
  BY <1>6, <1>8, <1>13, <1>14, PushedRef
<1>t. Len(st2) > 0 /\ st2[Len(st2)].kind = "ref"
  <2>1. frames \in Seq(FrameType)
    BY <1>11 DEF Settled, Typed
  <2>2. RefFrame(n).kind = "ref"
    BY DEF RefFrame
  <2> DEFINE fr == RefFrame(n)
  <2> HIDE DEF fr
  <2>3. Len(Append(frames, fr)) = Len(frames) + 1 /\ Append(frames, fr)[Len(frames) + 1] = fr /\ Len(frames) \in Nat
    BY <2>1
  <2> QED BY <2>2, <2>3 DEF fr
<1> HIDE DEF st2
<1>16. Pending(ob2, ref_table', global_vars, none, st2, none, leaked, td, Zero)
  BY <1>1, <1>15, ReleaseHeld DEF h
<1>17. Pending(ob2, ref_table', global_vars, {}, st2, {}, leaked, td, Zero)
  BY <1>16 DEF none
<1>18. ob2 = Objects(heap', ref_table')
  BY DEF ob2
<1>19. Graph(ob2, ref_table', global_vars, st2, leaked, td, next)
  BY <1>t, <1>17, NothingGraph, RefusedGraph
<1>20. Graph(ob2, ref_table', global_vars', stack', leaked', todo', after')
  BY <1>5, <1>19
<1> QED BY <1>1, <1>4, <1>5, <1>6, <1>18, <1>20, NextState

\* No operands.
LEMMA PoppedNone ==
  ASSUME IInv, Idle
  PROVE  Popped(<<>>, stack) /\ Steps("decref", <<>>) = <<>>
<1>1. /\ Memory(heap, ref_table, free_list, memory_pool, memory_size, FALSE)
      /\ Settled(Objects(heap, ref_table), ref_table, global_vars, {}, stack, {}, leaked, Zero)
  BY IdleState
<1>2. Holding(<<>>) = Zero
  BY NothingIs
<1>3. status = "ok" /\ <<>> \in Seq(Pos)
  BY DEF Idle
<1>4. Steps("decref", <<>>) = <<>>
  BY DEF Steps
<1> QED BY <1>1, <1>2, <1>3, <1>4 DEF Popped

\* The frame on top.
LEMMA QuietOne ==
  ASSUME IInv, Quiet, Done(0)
  PROVE  /\ Popped(<<Top(0).ref>>, Pop(1)) /\ Top(0).ref \in Pos /\ Usable(stack, Top(0).ref)
         /\ Len(<<Top(0).ref>>) = 1 /\ Len(stack) > 0 /\ Top(0) = stack[Len(stack)]
<1> DEFINE ob == Objects(heap, ref_table)
           none == {}
           r == stack[Len(stack)].ref
<1>1. Memory(heap, ref_table, free_list, memory_pool, memory_size, FALSE) /\ status = "ok"
  BY QuietState
<1>2. Settled(ob, ref_table, global_vars, none, stack, none, leaked, Zero)
  BY QuietState
<1>3. stack \in Seq(FrameType) /\ Len(stack) \in Nat
  BY <1>2 DEF Settled, Typed
<1>4. Len(stack) > 0 /\ Top(0) = stack[Len(stack)] /\ stack[Len(stack)].kind = "ref" /\ Len(stack) \in DOMAIN stack
  BY <1>3 DEF Done, Depth, Top
<1>5. r \in Pos
  BY <1>3, <1>4, Frames
<1> HIDE DEF ob, none
<1>6. Settled(ob, ref_table, global_vars, none, SubSeq(stack, 1, Len(stack) - 1), none, leaked, Plus(Zero, r))
  BY <1>2, <1>4, PoppedRef
<1>7. r \in DOMAIN ob \ Arrays(ob) /\ ~Framed(stack, r)
  BY <1>2, <1>4, StackLive
<1> HIDE DEF r
<1>8. Holding(<<r>>) = Plus(Zero, r) /\ <<r>> \in Seq(Pos) /\ Len(<<r>>) = 1
  BY <1>5, HoldingOne
<1>9. Popped(<<r>>, Pop(1))
  BY <1>1, <1>6, <1>8 DEF Popped, ob, none, Pop, Depth
<1>10. Usable(stack, r)
  BY <1>7 DEF Usable, ob
<1>11. Top(0).ref = r
  BY <1>4 DEF r
<1> QED BY <1>4, <1>5, <1>8, <1>9, <1>10, <1>11

\* Between two operations.
LEMMA PoppedOne ==
  ASSUME IInv, Idle, Done(0)
  PROVE  /\ Popped(<<Top(0).ref>>, Pop(1)) /\ Top(0).ref \in Pos /\ Usable(stack, Top(0).ref)
         /\ Len(<<Top(0).ref>>) = 1 /\ Len(stack) > 0 /\ Top(0) = stack[Len(stack)]
BY IdleQuiet, QuietOne

\* The two frames on top.
LEMMA PoppedPair ==
  ASSUME IInv, Idle, Done(0), Done(1)
  PROVE  /\ Popped(<<Top(1).ref, Top(0).ref>>, Pop(2)) /\ Top(0).ref \in Pos /\ Top(1).ref \in Pos
         /\ Usable(stack, Top(0).ref) /\ Usable(stack, Top(1).ref)
         /\ Len(<<Top(1).ref, Top(0).ref>>) = 2 /\ Len(stack) > 1
         /\ Top(0) = stack[Len(stack)] /\ Top(1) = stack[Len(stack) - 1]
<1> DEFINE ob == Objects(heap, ref_table)
           none == {}
           r == stack[Len(stack)].ref
           l == stack[Len(stack) - 1].ref
<1>1. Memory(heap, ref_table, free_list, memory_pool, memory_size, FALSE) /\ status = "ok"
  BY IdleState DEF Idle
<1>2. Settled(ob, ref_table, global_vars, none, stack, none, leaked, Zero)
  BY IdleState
<1>3. stack \in Seq(FrameType) /\ Len(stack) \in Nat
  BY <1>2 DEF Settled, Typed
<1>4. /\ Len(stack) > 1 /\ Top(1) = stack[Len(stack) - 1] /\ stack[Len(stack) - 1].kind = "ref"
      /\ Len(stack) - 1 \in DOMAIN stack
  BY <1>3 DEF Done, Depth, Top
<1>5. Top(0) = stack[Len(stack)] /\ stack[Len(stack)].kind = "ref" /\ Len(stack) \in DOMAIN stack
  BY <1>3 DEF Done, Depth, Top
<1>6. r \in Pos /\ l \in Pos
  BY <1>3, <1>4, <1>5, Frames
<1> HIDE DEF ob, none
<1>7. Settled(ob, ref_table, global_vars, none, SubSeq(stack, 1, Len(stack) - 2), none, leaked, Plus(Plus(Zero, r), l))
  BY <1>2, <1>4, <1>5, PoppedTwo
<1>8. r \in DOMAIN ob \ Arrays(ob) /\ ~Framed(stack, r)
  BY <1>2, <1>5, StackLive
<1>9. l \in DOMAIN ob \ Arrays(ob) /\ ~Framed(stack, l)
  BY <1>2, <1>4, StackLive
<1> HIDE DEF r, l
<1>10. Holding(<<l, r>>) = Plus(Plus(Zero, r), l) /\ <<l, r>> \in Seq(Pos) /\ Len(<<l, r>>) = 2
  BY <1>6, HoldingTwo
<1>11. Popped(<<l, r>>, Pop(2))
  BY <1>1, <1>7, <1>10 DEF Popped, ob, none, Pop, Depth
<1>12. Usable(stack, r) /\ Usable(stack, l)
  BY <1>8, <1>9 DEF Usable, ob
<1>13. Top(0).ref = r /\ Top(1).ref = l
  BY <1>4, <1>5 DEF r, l
<1> QED BY <1>4, <1>5, <1>6, <1>10, <1>11, <1>12, <1>13

\* A list and its array.
LEMMA ListFacts ==
  ASSUME NEW ob, NEW tb, NEW gl, NEW gv, NEW st, NEW kv, NEW lk, NEW h,
         Settled(ob, tb, gl, gv, st, kv, lk, h), NEW t \in Lists(ob), NEW a, a = ob[t].kids[1]
  PROVE  /\ a \in Arrays(ob) /\ a \in DOMAIN ob /\ ob[t].size \in Nat /\ ob[t].size <= Len(ob[a].kids)
         /\ ob[a].kids \in Seq(RefOrNull) /\ Len(ob[t].kids) = 1 /\ ob[t].kids \in Seq(RefOrNull)
         /\ \A k \in 1 .. ob[t].size : k \in DOMAIN ob[a].kids /\ (~Framed(st, t) => ob[a].kids[k] # NULL_REF)
         /\ \A s \in Lists(ob) : ob[s].kids[1] = a => s = t
<1>1. Values(ob) /\ Shape(ob, tb, gl, st, {})
  BY DEF Settled, Typed
<1>2. t \in DOMAIN ob
  BY DEF Lists
<1>3. ListOK(ob, t) /\ (Framed(st, t) \/ Filled(ob, t))
  BY <1>1 DEF Shape
<1>4. a \in Arrays(ob) /\ ob[t].size <= Len(ob[a].kids) /\ Len(ob[t].kids) = 1
  BY <1>3 DEF ListOK
<1>5. a \in DOMAIN ob
  BY <1>4 DEF Arrays
<1>6. ob[t].size \in Nat /\ ob[a].kids \in Seq(RefOrNull) /\ ob[t].kids \in Seq(RefOrNull)
  BY <1>1, <1>2, <1>5, ValueFields
<1>7. \A k \in 1 .. ob[t].size : k \in DOMAIN ob[a].kids
  BY <1>4, <1>6
<1>8. ~Framed(st, t) => \A k \in 1 .. ob[t].size : ob[a].kids[k] # NULL_REF
  BY <1>3 DEF Filled
<1>9. \A s \in Lists(ob) : ob[s].kids[1] = a => s = t
  BY <1>1 DEF Shape
<1> QED BY <1>4, <1>5, <1>6, <1>7, <1>8, <1>9

\* None, True and False.
LEMMA SingletonUsable ==
  ASSUME NEW refs, NEW frames, Popped(refs, frames), NEW x \in 1 .. 3
  PROVE  Usable(frames, x)
<1> DEFINE ob == Objects(heap, ref_table)
           none == {}
<1>1. Settled(ob, ref_table, global_vars, none, frames, none, leaked, Holding(refs))
  BY DEF Popped
<1>2. Fixed(global_vars)
  BY <1>1 DEF Settled, Shape
<1>3. x \in DOMAIN global_vars /\ global_vars[x].ref = x
  BY <1>2 DEF Fixed
<1>4. x \notin none
  OBVIOUS
<1> HIDE DEF ob, none
<1>5. global_vars[x].ref \in DOMAIN ob \ Arrays(ob) /\ ~Framed(frames, global_vars[x].ref)
  BY <1>1, <1>3, <1>4, GlobalLive
<1> QED BY <1>3, <1>5 DEF Usable, ob

\* The values of names.
LEMMA NameUsable ==
  ASSUME NEW refs, NEW frames, Popped(refs, frames), NEW i \in DOMAIN global_vars
  PROVE  Usable(frames, global_vars[i].ref)
<1> DEFINE ob == Objects(heap, ref_table)
           none == {}
<1>1. Settled(ob, ref_table, global_vars, none, frames, none, leaked, Holding(refs))
  BY DEF Popped
<1>2. i \notin none
  OBVIOUS
<1> HIDE DEF ob, none
<1>3. global_vars[i].ref \in DOMAIN ob \ Arrays(ob) /\ ~Framed(frames, global_vars[i].ref)
  BY <1>1, <1>2, GlobalLive
<1> QED BY <1>3 DEF Usable, ob

\* Lists by what deref returns.
LEMMA IsListIs ==
  ASSUME Memory(heap, ref_table, free_list, memory_pool, memory_size, FALSE), NEW t, IsList(t)
  PROVE  t \in Lists(Objects(heap, ref_table)) /\ t \in Live(ref_table) /\ deref(t) = Objects(heap, ref_table)[t]
<1>1. t \in Live(ref_table) /\ deref(t) = Objects(heap, ref_table)[t] /\ deref(t).type = "list"
  BY ValidIs DEF IsList
<1> QED BY <1>1 DEF Lists, Objects

\* An element of a list.
LEMMA ElementUsable ==
  ASSUME NEW refs, NEW frames, Popped(refs, frames), NEW t, IsList(t), ~Framed(frames, t), NEW k \in Positions(t)
  PROVE  /\ Usable(frames, Element(t, k))
         /\ LET ob == Objects(heap, ref_table)
                a == ob[t].kids[1]
            IN  /\ a \in Arrays(ob) /\ a \in DOMAIN ob /\ k \in DOMAIN ob[a].kids /\ Element(t, k) = ob[a].kids[k]
                /\ ArrayOf(t) = ref_table[a] /\ k \in Pos /\ k <= ob[t].size /\ ob[a].kids[k] # NULL_REF
<1> DEFINE ob == Objects(heap, ref_table)
           none == {}
           a == ob[t].kids[1]
           e == ob[a].kids[k]
<1>1. Memory(heap, ref_table, free_list, memory_pool, memory_size, FALSE)
  BY DEF Popped
<1>2. Settled(ob, ref_table, global_vars, none, frames, none, leaked, Holding(refs))
  BY DEF Popped
<1>3. t \in Lists(ob) /\ t \in Live(ref_table) /\ deref(t) = ob[t]
  BY <1>1, IsListIs
<1>4. k \in 1 .. ob[t].size
  BY <1>3 DEF Positions
<1>o. DOMAIN ob = Live(ref_table)
  BY DEF Objects
<1> HIDE DEF ob, none
<1>5. a \in Arrays(ob) /\ a \in DOMAIN ob /\ ob[t].size \in Nat
  BY <1>2, <1>3, ListFacts
<1>6. k \in DOMAIN ob[a].kids /\ e # NULL_REF
  BY <1>2, <1>3, <1>4, ListFacts
<1>7. <<a, k>> \notin none
  BY DEF none
<1> HIDE DEF a, e
<1>8. ob[a].kids[k] = e /\ a = ob[t].kids[1]
  BY DEF e, a
<1>9. e \in DOMAIN ob /\ ~Framed(frames, e)
  BY <1>2, <1>5, <1>6, <1>7, <1>8, ElementLive
<1>10. e \notin Arrays(ob)
  <2>1. Private(ob, global_vars, frames)
    BY <1>2 DEF Settled, Shape
  <2> QED BY <1>5, <1>6, <1>8, <2>1 DEF Private
<1>11. ArrayOf(t) = ref_table[a]
  BY <1>3, <1>8 DEF ArrayOf
<1>12. heap[ref_table[a]] = ob[a]
  BY <1>5, <1>o DEF ob, Objects
<1>13. Element(t, k) = e
  BY <1>8, <1>11, <1>12 DEF Element
<1>14. k \in Pos /\ k <= ob[t].size
  BY <1>4, <1>5 DEF Pos
<1>15. Usable(frames, e)
  BY <1>9, <1>10 DEF Usable, ob
<1>16. /\ a \in Arrays(ob) /\ a \in DOMAIN ob /\ k \in DOMAIN ob[a].kids /\ Element(t, k) = ob[a].kids[k]
       /\ ArrayOf(t) = ref_table[a] /\ k \in Pos /\ k <= ob[t].size /\ ob[a].kids[k] # NULL_REF
  BY <1>5, <1>6, <1>8, <1>11, <1>13, <1>14
<1> QED BY <1>13, <1>15, <1>16 DEF a, ob

\* What is not under construction stays so when frames are popped.
LEMMA NotFramed ==
  ASSUME IInv, Idle, NEW k \in {1, 2}, k <= Len(stack), NEW x, ~Framed(stack, x)
  PROVE  ~Framed(Pop(k), x)
<1>1. stack \in Seq(FrameType)
  BY IdleState DEF Settled, Typed
<1>2. k \in Nat /\ Len(stack) \in Nat
  BY <1>1
<1>3. /\ SubSeq(stack, 1, Len(stack) - k) \in Seq(FrameType) /\ Len(SubSeq(stack, 1, Len(stack) - k)) = Len(stack) - k
      /\ \A p \in 1 .. Len(stack) - k : SubSeq(stack, 1, Len(stack) - k)[p] = stack[p]
  BY <1>1, <1>2, Below
<1> DEFINE s2 == SubSeq(stack, 1, Len(stack) - k)
<1>4. Pop(k) = s2
  BY DEF Pop, Depth
<1>5. DOMAIN s2 = 1 .. Len(stack) - k /\ \A p \in DOMAIN s2 : s2[p] = stack[p]
  BY <1>3
<1>6. DOMAIN s2 \subseteq DOMAIN stack
  BY <1>1, <1>2, <1>5
<1> HIDE DEF s2
<1> QED BY <1>4, <1>5, <1>6 DEF Framed

-----------------------------------------------------------------------------
(* Expressions. *)

\* An integer literal.
LEMMA StepEvalInt ==
  ASSUME IInv, EvalInt
  PROVE  IInv'
<1>1. Idle
  BY DEF EvalInt, Ready
<1>2. Popped(<<>>, stack) /\ Steps("decref", <<>>) = <<>>
  BY <1>1, PoppedNone
<1>3. CASE Fits(IntWords)
  <2> DEFINE next == Nothing
  <2>1. make_ref("int", IntWords, <<>>, 0) /\ Continue(Pushed(stack, NewRef), Steps("decref", <<>>), next)
    BY <1>2, <1>3 DEF EvalInt
  <2>2. next = Nothing
    OBVIOUS
  <2> HIDE DEF next
  <2> QED BY <1>2, <1>3, <2>1, <2>2, PushInt
<1>4. CASE ~Fits(IntWords)
  <2>1. Raise(<<>>, stack)
    BY <1>4 DEF EvalInt
  <2> QED BY <1>2, <2>1, RaiseStep DEF Popped
<1> QED BY <1>3, <1>4

\* None, True or False.
LEMMA StepEvalSingleton ==
  ASSUME IInv, EvalSingleton
  PROVE  IInv'
<1>1. Idle
  BY DEF EvalSingleton, Ready
<1>2. Popped(<<>>, stack) /\ Steps("decref", <<>>) = <<>>
  BY <1>1, PoppedNone
<1>3. PICK r \in Results : incref(r) /\ Continue(Pushed(stack, r), <<>>, Nothing)
  BY DEF EvalSingleton
<1>4. Usable(stack, r)
  BY <1>2, SingletonUsable, RefsAssumption
<1>5. Continue(Pushed(stack, r), Steps("decref", <<>>), Nothing)
  BY <1>2, <1>3
<1> QED BY <1>2, <1>3, <1>4, <1>5, PushStep

\* A name: the value of the global, or an exception.
LEMMA StepEvalName ==
  ASSUME IInv, NEW n \in Names, EvalName(n)
  PROVE  IInv'
<1>1. Idle
  BY DEF EvalName, Ready
<1>2. Popped(<<>>, stack) /\ Steps("decref", <<>>) = <<>>
  BY <1>1, PoppedNone
<1>3. CASE Raise(<<>>, stack)
  BY <1>2, <1>3, RaiseStep DEF Popped
<1>4. ASSUME NEW i \in NamedIndex(n), incref(global_vars[i].ref), Continue(Pushed(stack, global_vars[i].ref), <<>>, Nothing)
      PROVE  IInv'
  <2>1. i \in DOMAIN global_vars
    BY DEF NamedIndex
  <2>2. Usable(stack, global_vars[i].ref)
    BY <1>2, <2>1, NameUsable
  <2>3. Continue(Pushed(stack, global_vars[i].ref), Steps("decref", <<>>), Nothing)
    BY <1>2, <1>4
  <2> QED BY <1>2, <1>4, <2>2, <2>3, PushStep
<1> QED BY <1>3, <1>4 DEF EvalName

\* The results of operators and calls.
LEMMA StepSingleton ==
  ASSUME NEW refs, Popped(refs, Pop(Len(refs))), NEW result \in 1 .. 3, Singleton(refs, result)
  PROVE  IInv'
<1>1. Usable(Pop(Len(refs)), result)
  BY SingletonUsable
<1>2. incref(result) /\ Continue(Pushed(Pop(Len(refs)), result), Steps("decref", refs), Nothing)
  BY DEF Singleton
<1> QED BY <1>1, <1>2, PushStep

\* An exception releases the operands and what the evaluator holds.
LEMMA StepRaise ==
  ASSUME NEW refs, NEW frames, Popped(refs, frames), Raise(refs, frames)
  PROVE  IInv'
BY RaiseStep DEF Popped

\* The operands give way to a new integer, or to an exception.
LEMMA StepNewInt ==
  ASSUME NEW refs, Popped(refs, Pop(Len(refs))), NEW next, next = Nothing \/ next = RefusedNext, NewInt(refs, next)
  PROVE  IInv'
<1>1. CASE Fits(IntWords)
  <2>1. make_ref("int", IntWords, <<>>, 0) /\ Continue(Pushed(Pop(Len(refs)), NewRef), Steps("decref", refs), next)
    BY <1>1 DEF NewInt
  <2> QED BY <1>1, <2>1, PushInt
<1>2. CASE ~Fits(IntWords)
  BY <1>2, StepRaise DEF NewInt
<1> QED BY <1>1, <1>2

\* What is usable is valid.
LEMMA UsableValid ==
  ASSUME IInv, Idle, NEW x, Usable(stack, x)
  PROVE  Valid(x)
<1>1. Memory(heap, ref_table, free_list, memory_pool, memory_size, FALSE)
  BY IdleState
<1>2. x \in Live(ref_table)
  BY DEF Usable, Objects
<1> QED BY <1>1, <1>2, ValidIs

\* A binary operation.
LEMMA StepEvalBuiltin ==
  ASSUME IInv, EvalBuiltin
  PROVE  IInv'
<1> DEFINE l == Top(1).ref
           r == Top(0).ref
           refs == <<l, r>>
<1>1. Idle /\ Done(0) /\ Done(1)
  BY DEF EvalBuiltin
<1>2. Popped(refs, Pop(2)) /\ Len(refs) = 2 /\ Usable(stack, l) /\ Usable(stack, r)
  BY <1>1, PoppedPair
<1>3. Valid(l) /\ Valid(r)
  BY <1>1, <1>2, UsableValid
<1> DEFINE next == Nothing
<1>4. bool_ref(refs) \/ NewInt(refs, next) \/ Raise(refs, Pop(2))
  BY <1>3 DEF EvalBuiltin
<1>n. next = Nothing
  OBVIOUS
<1> HIDE DEF refs, next
<1>5. CASE bool_ref(refs)
  <2>1. PICK result \in Results \cap {TRUE_REF, FALSE_REF} : Singleton(refs, result)
    BY <1>5 DEF bool_ref
  <2>2. result \in 1 .. 3
    BY RefsAssumption
  <2>3. Popped(refs, Pop(Len(refs)))
    BY <1>2
  <2> QED BY <2>1, <2>2, <2>3, StepSingleton
<1>6. CASE NewInt(refs, next)
  <2>1. Popped(refs, Pop(Len(refs)))
    BY <1>2
  <2> QED BY <1>6, <1>n, <2>1, StepNewInt
<1>7. CASE Raise(refs, Pop(2))
  BY <1>2, <1>7, StepRaise
<1> QED BY <1>4, <1>5, <1>6, <1>7

\* not, - and +, bool, print and len.
LEMMA StepEvalUnary ==
  ASSUME IInv, EvalUnary
  PROVE  IInv'
<1> DEFINE r == Top(0).ref
           refs == <<r>>
<1>1. Idle /\ Done(0)
  BY DEF EvalUnary
<1>2. Popped(refs, Pop(1)) /\ Len(refs) = 1
  BY <1>1, PoppedOne
<1>3. \/ \E result \in Results : Singleton(refs, result)
      \/ \E next : (next = Nothing \/ next = RefusedNext) /\ NewInt(refs, next)
      \/ Raise(refs, Pop(1))
  BY DEF EvalUnary, RefusedNext
<1> HIDE DEF refs
<1>4. Popped(refs, Pop(Len(refs)))
  BY <1>2
<1>5. CASE \E result \in Results : Singleton(refs, result)
  <2>1. PICK result \in Results : Singleton(refs, result)
    BY <1>5
  <2>2. result \in 1 .. 3
    BY RefsAssumption
  <2> QED BY <1>4, <2>1, <2>2, StepSingleton
<1>6. ASSUME NEW next, next = Nothing \/ next = RefusedNext, NewInt(refs, next) PROVE IInv'
  BY <1>4, <1>6, StepNewInt
<1>7. CASE Raise(refs, Pop(1))
  BY <1>2, <1>7, StepRaise
<1> QED BY <1>3, <1>5, <1>6, <1>7

\* The operands are released without a result.
LEMMA DropStep ==
  ASSUME NEW refs, NEW frames, Popped(refs, frames), SameMemory, Continue(frames, Steps("decref", refs), Nothing)
  PROVE  IInv'
<1> DEFINE ob == Objects(heap, ref_table)
           td == Steps("decref", refs)
           none == {}
<1>1. refs \in Seq(Pos) /\ status = "ok" /\ IInv /\ Memory(heap, ref_table, free_list, memory_pool, memory_size, FALSE)
  BY DEF Popped
<1>2. Settled(ob, ref_table, global_vars, none, frames, none, leaked, Holding(refs))
  BY DEF Popped
<1>3. heap' = heap /\ ref_table' = ref_table /\ free_list' = free_list /\ status' = status
  BY DEF SameMemory
<1>4. stack' = frames /\ todo' = td /\ after' = Nothing /\ SamePool /\ global_vars' = global_vars /\ leaked' = leaked
  BY DEF Continue
<1>5. ob = Objects(heap', ref_table') /\ Memory(heap', ref_table', free_list', memory_pool, memory_size, FALSE)
  BY <1>1, <1>3
<1> HIDE DEF ob, none
<1>6. Pending(ob, ref_table, global_vars, none, frames, none, leaked, td, Zero)
  BY <1>1, <1>2, ReleaseHeld
<1>7. Pending(ob, ref_table', global_vars', {}, stack', {}, leaked', todo', Zero)
  BY <1>3, <1>4, <1>6 DEF none
<1> QED BY <1>1, <1>3, <1>4, <1>5, <1>7, NextIdle

\* The left operand of and, or is dropped.
LEMMA StepEvalAndOr ==
  ASSUME IInv, EvalAndOr
  PROVE  IInv'
<1>1. Idle /\ Done(0) /\ SameMemory /\ Continue(Pop(1), Steps("decref", <<Top(0).ref>>), Nothing)
  BY DEF EvalAndOr
<1>2. Popped(<<Top(0).ref>>, Pop(1))
  BY <1>1, PoppedOne
<1> QED BY <1>1, <1>2, DropStep

\* An element of a list.
LEMMA StepEvalSubscript ==
  ASSUME IInv, EvalSubscript
  PROVE  IInv'
<1> DEFINE t == Top(1).ref
           i == Top(0).ref
           refs == <<t, i>>
<1>1. Idle /\ Done(0) /\ Done(1)
  BY DEF EvalSubscript
<1>2. Popped(refs, Pop(2)) /\ Usable(stack, t) /\ Usable(stack, i) /\ Len(stack) > 1
  BY <1>1, PoppedPair
<1>3. Valid(t) /\ Valid(i)
  BY <1>1, <1>2, UsableValid
<1>4. \/ Raise(refs, Pop(2))
      \/ /\ IsList(t)
         /\ \E k \in Positions(t) :
              incref(Element(t, k)) /\ Continue(Pushed(Pop(2), Element(t, k)), Steps("decref", refs), Nothing)
  BY <1>3 DEF EvalSubscript
<1>5. ~Framed(Pop(2), t)
  <2>1. stack \in Seq(FrameType)
    BY <1>1, IdleState DEF Settled, Typed
  <2>2. 2 <= Len(stack)
    BY <1>2, <2>1
  <2>3. ~Framed(stack, t)
    BY <1>2 DEF Usable
  <2> QED BY <1>1, <2>2, <2>3, NotFramed
<1> HIDE DEF refs, t
<1>6. CASE Raise(refs, Pop(2))
  BY <1>2, <1>6, StepRaise
<1>7. ASSUME IsList(t), NEW k \in Positions(t), incref(Element(t, k)),
             Continue(Pushed(Pop(2), Element(t, k)), Steps("decref", refs), Nothing)
      PROVE  IInv'
  <2>1. Usable(Pop(2), Element(t, k))
    BY <1>2, <1>5, <1>7, ElementUsable
  <2> QED BY <1>2, <1>7, <2>1, PushStep
<1> QED BY <1>4, <1>6, <1>7

\* The list is next.
LEMMA ListGraph ==
  ASSUME NEW ob, NEW tb, NEW gl, NEW st, NEW lk, NEW n \in Pos, NEW array, NEW len, NEW af,
         af = Then("list", 0, array, len, n, <<n>>),
         Settled(ob, tb, gl, {}, st, {}, lk, Plus(Zero, n)),
         n \in Arrays(ob), tb[n] = array, ob[n].ref_count = 1, Len(ob[n].kids) = len,
         \A j \in DOMAIN ob[n].kids : ob[n].kids[j] = NULL_REF
  PROVE  Graph(ob, tb, gl, st, lk, <<>>, af)
<1>1. af.to = "list" /\ af.array = array /\ af.size = len /\ af.ref = n /\ af.refs = <<n>>
  BY DEF Then
<1>2. VacantGlobal(af) = {} /\ VacantElement(ob, af) = {}
  BY <1>1 DEF VacantGlobal, VacantElement
<1>3. Holding(af.refs) = Plus(Zero, n)
  BY <1>1, HoldingOne
<1>4. ArrayOK(ob, tb, af)
  BY <1>1 DEF ArrayOK
<1>5. af.refs \in Seq(Pos)
  <2>1. <<n>> \in Seq(Pos)
    OBVIOUS
  <2> QED BY <1>1, <2>1
<1>6. Follows(ob, tb, gl, st, <<>>, af)
  BY <1>1, <1>4, <1>5 DEF Follows
<1>7. Plus(Zero, n) \in [Pos -> Nat]
  BY ZeroType, PlusType
<1> DEFINE none == {}
           h == Plus(Zero, n)
<1>8. Settled(ob, tb, gl, none, st, none, lk, h)
  OBVIOUS
<1> HIDE DEF none, h
<1>9. Pending(ob, tb, gl, none, st, none, lk, <<>>, h)
  BY <1>7, <1>8, SettledPending DEF h
<1> QED BY <1>2, <1>3, <1>6, <1>9 DEF Graph, none, h

\* What the references of a new array are.
LEMMA NoRefsIs ==
  ASSUME NEW len \in Nat
  PROVE  /\ NoRefs(len) \in Seq(RefOrNull) /\ Len(NoRefs(len)) = len /\ DOMAIN NoRefs(len) = 1 .. len
         /\ \A j \in DOMAIN NoRefs(len) : NoRefs(len)[j] = NULL_REF
<1> DEFINE kids == NoRefs(len)
<1>1. kids \in [1 .. len -> RefOrNull]
  BY DEF NoRefs, RefOrNull
<1>2. DOMAIN kids = 1 .. len /\ \A j \in DOMAIN kids : kids[j] = NULL_REF
  BY DEF NoRefs
<1> HIDE DEF kids
<1>3. kids \in Seq(RefOrNull) /\ Len(kids) = len
  BY <1>1
<1> QED BY <1>2, <1>3 DEF kids

\* The array of a list literal.
LEMMA StepEvalList ==
  ASSUME IInv, NEW len \in Lens, EvalList(len)
  PROVE  IInv'
<1> DEFINE words == ArrayWords(len)
           ob == Objects(heap, ref_table)
           ob2 == Objects(heap', ref_table')
           n == NewRef
           c == CarvedFrom(free_list, words)
           kids == NoRefs(len)
           type == "array"
           v == Value(type, c.size, kids, len)
<1>1. Idle
  BY DEF EvalList, Ready
<1>2. Popped(<<>>, stack)
  BY <1>1, PoppedNone
<1>3. CASE ~Fits(words)
  <2>1. Raise(<<>>, stack)
    BY <1>3 DEF EvalList
  <2> QED BY <1>2, <2>1, StepRaise
<1>4. CASE Fits(words)
  <2>1. make_ref(type, words, kids, len)
    BY <1>4 DEF EvalList
  <2>2. Continue(stack, <<>>, Then("list", 0, c.addr, len, n, <<n>>))
    BY <1>4 DEF EvalList
  <2>3. len \in Nat
    BY RefsAssumption
  <2>4. words \in Pos
    BY <2>3, HeaderAssumption DEF ArrayWords, Pos
  <2>5. kids \in Seq(RefOrNull) /\ Len(kids) = len /\ DOMAIN kids = 1 .. len /\ \A j \in DOMAIN kids : kids[j] = NULL_REF
    BY <2>3, NoRefsIs
  <2>6. type \in {"int", "list", "array"} /\ type # "list" /\ type = "array" /\ c = CarvedFrom(free_list, words) /\ v = Value(type, c.size, kids, len)
    OBVIOUS
  <2>7. Memory(heap, ref_table, free_list, memory_pool, memory_size, FALSE) /\ status = "ok"
    BY <1>2 DEF Popped
  <2>8. Settled(ob, ref_table, global_vars, {}, stack, {}, leaked, Zero)
    BY <1>1, IdleState
  <2> DEFINE af == Then("list", 0, c.addr, len, n, <<n>>)
             none == {}
  <2> HIDE DEF type, kids, c, v, words, n
  <2>9. MakesRef(words, v, c) /\ status' = status
    BY <1>4, <2>1, <2>3, <2>4, <2>5, <2>6, <2>7, MakesRefIs
  <2>10. v \in ValueType /\ v.type = type /\ v.ref_count = 1 /\ v.kids = kids
    BY <1>4, <2>1, <2>3, <2>4, <2>5, <2>6, <2>7, MakesRefIs
  <2>11. Memory(heap', ref_table', free_list', memory_pool, memory_size, FALSE)
    BY <2>7, <2>9, MakeStep
  <2>12. n \in Pos /\ n \notin DOMAIN ob /\ ref_table'[n] = c.addr /\ ob2 = Adding(ob, n, v)
    BY <2>7, <2>9, MakeStep DEF n
  <2>13. \A s \in DOMAIN ob : ref_table'[s] = ref_table[s]
    BY <2>7, <2>9, MakeStep
  <2>14. stack' = stack /\ todo' = <<>> /\ after' = af /\ SamePool /\ global_vars' = global_vars /\ leaked' = leaked
    BY <2>2 DEF Continue
  <2> HIDE DEF ob, ob2, af
  <2>15. v.type # "list" /\ v.type = "array" /\ \A j \in DOMAIN v.kids : v.kids[j] = NULL_REF
    BY <2>5, <2>6, <2>10
  <2>16. Settled(Adding(ob, n, v), ref_table', global_vars, {}, stack, {}, leaked, Plus(Zero, n))
    BY <2>8, <2>10, <2>12, <2>13, <2>15, Made
  <2>17. Adding(ob, n, v)[n] = v /\ n \in DOMAIN Adding(ob, n, v)
    BY DEF Adding
  <2>18. n \in Arrays(ob2) /\ ob2[n] = v
    BY <2>12, <2>15, <2>17 DEF Arrays
  <2>19. /\ ob2[n].ref_count = 1 /\ Len(ob2[n].kids) = len /\ \A j \in DOMAIN ob2[n].kids : ob2[n].kids[j] = NULL_REF
    BY <2>5, <2>10, <2>18
  <2>20. Settled(ob2, ref_table', global_vars, {}, stack, {}, leaked, Plus(Zero, n))
    BY <2>12, <2>16
  <2>21. Graph(ob2, ref_table', global_vars, stack, leaked, <<>>, af)
    <3>1. af = Then("list", 0, c.addr, len, n, <<n>>)
      BY DEF af
    <3> QED BY <2>12, <2>18, <2>19, <2>20, <3>1, ListGraph
  <2>22. Graph(ob2, ref_table', global_vars', stack', leaked', todo', after') /\ ob2 = Objects(heap', ref_table')
    BY <2>14, <2>21 DEF ob2
  <2> QED BY <2>7, <2>9, <2>11, <2>14, <2>22, NextState
<1> QED BY <1>3, <1>4

\* The state while the array has no list.
LEMMA ListState ==
  ASSUME IInv, Resuming("list")
  PROVE  /\ Popped(after.refs, stack) /\ ArrayOK(Objects(heap, ref_table), ref_table, after)
         /\ after.ref \in Pos
         /\ Settled(Objects(heap, ref_table), ref_table, global_vars, {}, stack, {}, leaked, Plus(Zero, after.ref))
<1> DEFINE ob == Objects(heap, ref_table)
<1>1. status = "ok" /\ todo = <<>> /\ after.to = "list"
  BY DEF Resuming
<1>2. Memory(heap, ref_table, free_list, memory_pool, memory_size, FALSE) /\ Graph(ob, ref_table, global_vars, stack, leaked, todo, after)
  BY <1>1, BusyState
<1>3. after.refs \in Seq(Pos) /\ ArrayOK(ob, ref_table, after)
  BY <1>1, <1>2 DEF Graph, Follows
<1>4. VacantGlobal(after) = {} /\ VacantElement(ob, after) = {}
  BY <1>1 DEF VacantGlobal, VacantElement
<1> DEFINE none == {}
           h == Holding(after.refs)
<1>5. Pending(ob, ref_table, global_vars, none, stack, none, leaked, <<>>, h)
  BY <1>1, <1>2, <1>4 DEF Graph
<1> HIDE DEF ob, none, h
<1>6. Settled(ob, ref_table, global_vars, none, stack, none, leaked, h)
  BY <1>5, Settle
<1>7. after.refs = <<after.ref>> /\ after.ref \in Arrays(ob)
  BY <1>3 DEF ArrayOK
<1>8. after.ref \in Pos
  <2>1. Values(ob)
    BY <1>6 DEF Settled, Typed
  <2> QED BY <1>7, <2>1 DEF Values, Arrays
<1>9. h = Plus(Zero, after.ref)
  BY <1>7, <1>8, HoldingOne DEF h
<1> QED BY <1>1, <1>2, <1>3, <1>6, <1>8, <1>9 DEF Popped, ob, none, h

\* The list of a list literal.
LEMMA StepNewList ==
  ASSUME IInv, NewList
  PROVE  IInv'
<1> DEFINE ob == Objects(heap, ref_table)
           ob2 == Objects(heap', ref_table')
           n == NewRef
           m == ListWords
           c == CarvedFrom(free_list, m)
           a == after.ref
           kids == after.refs
           size == after.size
           type == "list"
           v == Value(type, c.size, kids, size)
           fr == IF size = 0 THEN RefFrame(n) ELSE ListFrame(n, after.array, size, 0)
<1>1. Resuming("list") /\ status = "ok"
  BY DEF NewList, Resuming
<1>2. Popped(kids, stack) /\ a \in Pos
  BY <1>1, ListState
<1>3. CASE ~Fits(m)
  <2>1. Raise(kids, stack)
    BY <1>3 DEF NewList
  <2> QED BY <1>2, <2>1, StepRaise
<1>4. CASE Fits(m)
  <2>1. make_ref(type, m, kids, size)
    BY <1>4 DEF NewList
  <2>2. Continue(Append(stack, fr), <<>>, Nothing)
    BY <1>4 DEF NewList
  <2>3. m \in Pos
    BY HeaderAssumption DEF ListWords, Pos
  <2>4. type \in {"int", "list", "array"} /\ type = "list" /\ c = CarvedFrom(free_list, m) /\ v = Value(type, c.size, kids, size)
    OBVIOUS
  <2>5. Memory(heap, ref_table, free_list, memory_pool, memory_size, FALSE) /\ kids \in Seq(Pos)
    BY <1>2 DEF Popped
  <2>6. kids \in Seq(RefOrNull)
    BY <2>5 DEF RefOrNull
  <2>7. Settled(ob, ref_table, global_vars, {}, stack, {}, leaked, Plus(Zero, a)) /\ ArrayOK(ob, ref_table, after)
    BY <1>1, ListState
  <2>8. /\ kids = <<a>> /\ a \in Arrays(ob) /\ ref_table[a] = after.array /\ ob[a].ref_count = 1
        /\ Len(ob[a].kids) = size /\ \A j \in DOMAIN ob[a].kids : ob[a].kids[j] = NULL_REF
    BY <2>7 DEF ArrayOK
  <2>9. a \in Live(ref_table) /\ Values(ob)
    BY <2>7, <2>8 DEF Arrays, Objects, Settled, Typed
  <2>10. ref_table[a] \in Nat
    BY <2>5, <2>9, MemoryAt
  <2>11. size \in Nat
    <3>1. ob[a].kids \in Seq(RefOrNull)
      BY <2>8, <2>9, ValueFields DEF Arrays
    <3> QED BY <2>8, <3>1
  <2>12. stack' = Append(stack, fr) /\ todo' = <<>> /\ after' = Nothing /\ SamePool /\ global_vars' = global_vars /\ leaked' = leaked
    BY <2>2 DEF Continue
  <2> HIDE DEF type, kids, c, v, m, n, size, a
  <2>13. MakesRef(m, v, c) /\ status' = status
    BY <1>4, <2>1, <2>3, <2>4, <2>5, <2>6, <2>11, MakesRefIs
  <2>14. v \in ValueType /\ v.type = type /\ v.ref_count = 1 /\ v.kids = kids /\ v.size = size
    BY <1>4, <2>1, <2>3, <2>4, <2>5, <2>6, <2>11, MakesRefIs
  <2>15. Memory(heap', ref_table', free_list', memory_pool, memory_size, FALSE)
    BY <2>5, <2>13, MakeStep
  <2>16. n \in Pos /\ n \notin DOMAIN ob /\ ob2 = Adding(ob, n, v)
    BY <2>5, <2>13, MakeStep DEF n
  <2>17. \A s \in DOMAIN ob : ref_table'[s] = ref_table[s]
    BY <2>5, <2>13, MakeStep
  <2>18. /\ fr \in FrameType /\ fr.ref = n /\ (size = 0 => fr.kind = "ref")
         /\ (size # 0 => fr.kind = "list" /\ fr.array = ref_table[a] /\ fr.len = size /\ fr.idx = 0)
    <3>1. CASE size = 0
      <4>1. fr = RefFrame(n)
        BY <3>1
      <4> HIDE DEF fr
      <4> QED BY <2>16, <3>1, <4>1 DEF RefFrame, FrameType
    <3>2. CASE size # 0
      <4>1. fr = ListFrame(n, after.array, size, 0)
        BY <3>2
      <4>2. after.array \in Int
        BY <2>8, <2>10
      <4> HIDE DEF fr
      <4> QED BY <2>8, <2>11, <2>16, <3>2, <4>1, <4>2 DEF ListFrame, FrameType
    <3> QED BY <3>1, <3>2
  <2> HIDE DEF fr, ob, ob2
  <2>19. v.type = "list" /\ v.kids = <<a>> /\ Len(ob[a].kids) = v.size /\ ref_table[a] \in Int
    BY <2>4, <2>8, <2>10, <2>14
  <2>20. /\ v.size = 0 => fr.kind = "ref"
         /\ v.size # 0 => fr.kind = "list" /\ fr.array = ref_table[a] /\ fr.len = v.size /\ fr.idx = 0
    BY <2>14, <2>18
  <2>21. Settled(Adding(ob, n, v), ref_table', global_vars, {}, Append(stack, fr), {}, leaked, Zero)
    BY <2>7, <2>8, <2>14, <2>16, <2>17, <2>18, <2>19, <2>20, ListMade, ZeroType
  <2>22. Settled(ob2, ref_table', global_vars', {}, stack', {}, leaked', Zero) /\ ob2 = Objects(heap', ref_table')
    BY <2>12, <2>16, <2>21 DEF ob2
  <2> QED BY <1>1, <2>12, <2>13, <2>15, <2>22, NextIdle
<1> QED BY <1>3, <1>4

\* The frame of the list of which an element has been evaluated.
LEMMA ListFrameFacts ==
  ASSUME IInv, Quiet, Done(0), Depth > 1, Top(1).kind = "list"
  PROVE  LET ob == Objects(heap, ref_table)
             l == Top(1)
             a == ob[l.ref].kids[1]
         IN  /\ Len(stack) > 1 /\ l = stack[Len(stack) - 1] /\ Top(0) = stack[Len(stack)] /\ Top(0).ref \in Pos
             /\ l \in FrameType /\ l.ref \in Lists(ob) /\ l.ref \in Live(ref_table)
             /\ a \in Live(ref_table) /\ ref_table[a] = l.array /\ ob[a].kids \in Seq(RefOrNull)
             /\ l.idx + 1 \in DOMAIN ob[a].kids
<1> DEFINE ob == Objects(heap, ref_table)
           l == Top(1)
           a == ob[l.ref].kids[1]
           none == {}
           q == Len(stack) - 1
<1>1. Settled(ob, ref_table, global_vars, none, stack, none, leaked, Zero)
  BY QuietState
<1>2. stack \in Seq(FrameType) /\ Shape(ob, ref_table, global_vars, stack, {})
  BY <1>1 DEF Settled, Typed
<1>3. Len(stack) \in Nat /\ Len(stack) > 1 /\ q \in DOMAIN stack /\ Len(stack) \in DOMAIN stack
  BY <1>2 DEF Depth
<1>4. Top(1) = stack[q] /\ Top(0) = stack[Len(stack)]
  BY <1>3 DEF Top, Depth
<1>5. l = stack[q] /\ l \in FrameType /\ Top(0).ref \in Pos
  BY <1>2, <1>3, <1>4, Frames
<1>6. FrameOK(ob, ref_table, l)
  BY <1>2, <1>3, <1>5 DEF Shape
<1>7. l.ref \in Lists(ob) /\ ref_table[a] = l.array /\ ob[l.ref].size = l.len /\ l.idx < l.len
  BY <1>6 DEF FrameOK
<1>o. DOMAIN ob = Live(ref_table)
  BY DEF Objects
<1> HIDE DEF ob, none
<1>8. a \in DOMAIN ob /\ ob[l.ref].size \in Nat /\ ob[a].kids \in Seq(RefOrNull)
  BY <1>1, <1>7, ListFacts
<1>9. \A k \in 1 .. ob[l.ref].size : k \in DOMAIN ob[a].kids
  BY <1>1, <1>7, ListFacts
<1>10. l.idx \in Nat
  BY <1>5, ListFrameType
<1>11. l.idx + 1 \in 1 .. ob[l.ref].size
  BY <1>7, <1>8, <1>10
<1>12. l.ref \in Live(ref_table)
  BY <1>7, <1>o DEF Lists
<1> HIDE DEF l, a
<1>13. l.idx + 1 \in DOMAIN ob[a].kids
  BY <1>9, <1>11
<1>14. /\ Len(stack) > 1 /\ l = stack[Len(stack) - 1] /\ Top(0) = stack[Len(stack)] /\ Top(0).ref \in Pos
       /\ l \in FrameType /\ l.ref \in Lists(ob) /\ l.ref \in Live(ref_table)
       /\ a \in Live(ref_table) /\ ref_table[a] = l.array /\ ob[a].kids \in Seq(RefOrNull)
       /\ l.idx + 1 \in DOMAIN ob[a].kids
  BY <1>3, <1>4, <1>5, <1>7, <1>8, <1>12, <1>13, <1>o
<1> QED BY <1>14 DEF l, a, ob

\* An element enters the list under construction.
LEMMA StoredElement ==
  ASSUME IInv, Quiet, StoreElement
  PROVE  /\ status' = status /\ ref_table' = ref_table
         /\ Memory(heap', ref_table', free_list', memory_pool, memory_size, FALSE)
         /\ Settled(Objects(heap', ref_table'), ref_table', global_vars, {}, Append(Pop(2), Filling(Top(1))), {}, leaked, Zero)
<1> DEFINE ob == Objects(heap, ref_table)
           ob2 == Objects(heap', ref_table')
           l == Top(1)
           e == Top(0).ref
           a == ob[l.ref].kids[1]
           k == l.idx + 1
           kids == [ob[a].kids EXCEPT ![k] = e]
           fr == Filling(l)
           st2 == Append(SubSeq(stack, 1, Len(stack) - 2), fr)
           none == {}
<1>1. Quiet /\ Done(0) /\ Depth > 1 /\ l.kind = "list"
  BY DEF StoreElement
<1>2. /\ Len(stack) > 1 /\ l = stack[Len(stack) - 1] /\ Top(0) = stack[Len(stack)] /\ e \in Pos
      /\ l \in FrameType /\ l.ref \in Lists(ob) /\ l.ref \in Live(ref_table)
  BY <1>1, ListFrameFacts
<1>3. a \in Live(ref_table) /\ ref_table[a] = l.array /\ ob[a].kids \in Seq(RefOrNull) /\ k \in DOMAIN ob[a].kids
  BY <1>1, ListFrameFacts
<1>4. Memory(heap, ref_table, free_list, memory_pool, memory_size, FALSE) /\ status = "ok"
  BY <1>1, QuietState
<1>5. Settled(ob, ref_table, global_vars, none, stack, none, leaked, Zero)
  BY <1>1, QuietState
<1>6. Valid(l.ref) /\ deref(l.ref) = ob[l.ref]
  BY <1>2, <1>4, ValidIs
<1>7. IsList(l.ref) /\ ArrayOf(l.ref) = l.array
  BY <1>2, <1>3, <1>6 DEF IsList, ArrayOf, Lists
<1>8. heap' = [heap EXCEPT ![l.array].kids[l.idx + 1] = e] /\ status' = status
  BY <1>7 DEF StoreElement
<1>9. ref_table' = ref_table /\ free_list' = free_list
  BY DEF StoreElement
<1>10. st2 = Append(Pop(2), Filling(Top(1)))
  BY DEF Pop, Depth
<1>11. ob[a] = heap[ref_table[a]] /\ ref_table[a] \in DOMAIN heap
  BY <1>3, <1>4, MemoryAt DEF Objects
<1>12. heap' = WithKids(heap, ref_table[a], kids)
  BY <1>3, <1>8, <1>11 DEF WithKids
<1>13. st2 = Append(SubSeq(stack, 1, Len(stack) - 2), fr)
  OBVIOUS
<1>14. e = stack[Len(stack)].ref /\ stack[Len(stack)].kind = "ref"
  BY <1>1, <1>2 DEF Done
<1>15. a = ob[l.ref].kids[1] /\ k = l.idx + 1
  OBVIOUS
<1>16. fr = IF k = l.len THEN RefFrame(l.ref) ELSE ListFrame(l.ref, l.array, l.len, k)
  BY DEF Filling
<1> HIDE DEF ob, ob2, a, st2, none, l, fr, e
<1>17. l.ref \in Pos /\ l.array \in Int /\ l.len \in Nat /\ l.idx \in Nat
  BY <1>1, <1>2, ListFrameType
<1>18. fr \in FrameType /\ fr.ref = l.ref
  <2>1. CASE k = l.len
    BY <1>16, <1>17, <2>1 DEF RefFrame, FrameType
  <2>2. CASE k # l.len
    BY <1>16, <1>17, <2>2 DEF ListFrame, FrameType
  <2> QED BY <2>1, <2>2
<1>19. /\ k = l.len => fr.kind = "ref"
       /\ k # l.len => fr.kind = "list" /\ fr.array = l.array /\ fr.len = l.len /\ fr.idx = k
  BY <1>16 DEF RefFrame, ListFrame
<1> HIDE DEF k
<1>20. NextFrame(stack, l, k, fr, st2)
  BY <1>13, <1>18, <1>19 DEF NextFrame
<1>21. kids \in Seq(RefOrNull) /\ Len(kids) = Len(ob[a].kids) /\ kids[k] = e /\ \A j \in DOMAIN ob[a].kids : j # k => kids[j] = ob[a].kids[j]
  <2>1. e \in RefOrNull
    BY <1>2 DEF RefOrNull
  <2> DEFINE s == ob[a].kids
  <2>2. s \in Seq(RefOrNull) /\ k \in DOMAIN s /\ kids = [s EXCEPT ![k] = e]
    BY <1>3
  <2> HIDE DEF s, kids
  <2>3. kids \in Seq(RefOrNull) /\ Len(kids) = Len(s) /\ kids[k] = e /\ \A j \in DOMAIN s : j # k => kids[j] = s[j]
    BY <2>1, <2>2, ExceptType
  <2> QED BY <2>3 DEF s
<1> HIDE DEF kids
<1>22. Storing(ob, stack, l, k, a, e, kids)
  BY <1>1, <1>2, <1>14, <1>15, <1>21 DEF Storing
<1>23. Memory(heap', ref_table, free_list, memory_pool, memory_size, FALSE) /\ Objects(heap', ref_table) = Put(ob, a, kids)
  BY ZenonT(40), <1>3, <1>4, <1>12, <1>21, MemoryPut DEF ob
<1>24. Settled(ob, ref_table, global_vars, {}, stack, {}, leaked, Zero)
  BY <1>5 DEF none
<1>n. none = {}
  BY DEF none
<1>25. Settled(Put(ob, a, kids), ref_table, global_vars, none, st2, {}, leaked, Zero)
  BY <1>5, <1>20, <1>22, <1>n, ElementStored
<1>26. Settled(ob2, ref_table', global_vars, {}, Append(Pop(2), Filling(Top(1))), {}, leaked, Zero) /\ ob2 = Objects(heap', ref_table')
  BY <1>9, <1>10, <1>23, <1>25 DEF ob2, none
<1>27. Memory(heap', ref_table', free_list', memory_pool, memory_size, FALSE)
  BY <1>9, <1>23
<1> QED BY <1>8, <1>9, <1>26, <1>27

\* The evaluator goes on to the next one.
LEMMA StepElementDone ==
  ASSUME IInv, ElementDone
  PROVE  IInv'
<1> DEFINE ob2 == Objects(heap', ref_table')
           st2 == Append(Pop(2), Filling(Top(1)))
           none == {}
<1>1. Idle /\ StoreElement /\ Continue(st2, <<>>, Nothing)
  BY DEF ElementDone
<1>2. stack' = st2 /\ todo' = <<>> /\ after' = Nothing /\ SamePool /\ global_vars' = global_vars /\ leaked' = leaked
  BY <1>1 DEF Continue
<1>3. /\ status' = status /\ Memory(heap', ref_table', free_list', memory_pool, memory_size, FALSE)
      /\ Settled(ob2, ref_table', global_vars, none, st2, none, leaked, Zero)
  BY <1>1, IdleQuiet, StoredElement
<1>4. ob2 = Objects(heap', ref_table') /\ status = "ok"
  BY <1>1 DEF Idle
<1> HIDE DEF ob2, st2, none
<1>5. Settled(ob2, ref_table', global_vars', none, stack', none, leaked', Zero)
  BY <1>2, <1>3
<1> QED BY <1>2, <1>3, <1>4, <1>5, NextIdle DEF none

\* A new value without references, counted once.
LEMMA FreshMade ==
  ASSUME Memory(heap, ref_table, free_list, memory_pool, memory_size, FALSE), NEW m \in Pos, Fits(m),
         NEW type \in {"int", "array"}, NEW kids \in Seq(RefOrNull), \A j \in DOMAIN kids : kids[j] = NULL_REF,
         NEW size \in Nat, make_ref(type, m, kids, size), NEW st, NEW h,
         Settled(Objects(heap, ref_table), ref_table, global_vars, {}, st, {}, leaked, h)
  PROVE  /\ status' = status /\ Memory(heap', ref_table', free_list', memory_pool, memory_size, FALSE)
         /\ NewRef \in Pos
         /\ Settled(Objects(heap', ref_table'), ref_table', global_vars, {}, st, {}, leaked, Plus(h, NewRef))
<1> DEFINE c == CarvedFrom(free_list, m)
           v == Value(type, c.size, kids, size)
           n == NewRef
           ob == Objects(heap, ref_table)
           ob2 == Objects(heap', ref_table')
           none == {}
<1>1. c = CarvedFrom(free_list, m) /\ v = Value(type, c.size, kids, size) /\ type \in {"int", "list", "array"}
  OBVIOUS
<1> HIDE DEF c, v
<1>2. MakesRef(m, v, c) /\ status' = status /\ v \in ValueType /\ v.type = type /\ v.ref_count = 1 /\ v.kids = kids
  BY <1>1, MakesRefIs
<1>3. /\ Memory(heap', ref_table', free_list', memory_pool, memory_size, FALSE)
      /\ n \in Pos /\ n \notin DOMAIN ob /\ ob2 = Adding(ob, n, v) /\ \A s \in DOMAIN ob : ref_table'[s] = ref_table[s]
  BY <1>2, MakeStep
<1>4. Settled(ob, ref_table, global_vars, none, st, none, leaked, h)
  OBVIOUS
<1> HIDE DEF ob, ob2, none, n
<1>5. v.type # "list" /\ \A j \in DOMAIN v.kids : v.kids[j] = NULL_REF
  BY <1>2
<1>6. Settled(Adding(ob, n, v), ref_table', global_vars, none, st, none, leaked, Plus(h, n))
  BY <1>2, <1>3, <1>4, <1>5, Made DEF none
<1> QED BY <1>2, <1>3, <1>6 DEF ob, ob2, none, n

\* An expression that is evaluated while an exception is pending loses at most one
\* count.
LEMMA StepDrop ==
  ASSUME Memory(heap, ref_table, free_list, memory_pool, memory_size, FALSE), NEW st,
         Settled(Objects(heap, ref_table), ref_table, global_vars, {}, st, {}, leaked, Zero), Drop
  PROVE  /\ status' = status /\ Memory(heap', ref_table', free_list', memory_pool, memory_size, FALSE)
         /\ Settled(Objects(heap', ref_table'), ref_table', global_vars, {}, st, {}, leaked', Zero)
<1> DEFINE ob == Objects(heap, ref_table)
           ob2 == Objects(heap', ref_table')
           none == {}
           goal == /\ status' = status /\ Memory(heap', ref_table', free_list', memory_pool, memory_size, FALSE)
                   /\ Settled(ob2, ref_table', global_vars, none, st, none, leaked', Zero)
<1>1. Settled(ob, ref_table, global_vars, none, st, none, leaked, Zero)
  OBVIOUS
<1>2. ASSUME SameMemory, UNCHANGED leaked PROVE goal
  <2>1. heap' = heap /\ ref_table' = ref_table /\ free_list' = free_list /\ status' = status /\ leaked' = leaked
    BY <1>2 DEF SameMemory
  <2>2. ob2 = ob
    BY <2>1
  <2> HIDE DEF ob, ob2, none
  <2> QED BY <1>1, <2>1, <2>2
<1>3. ASSUME NEW r \in Results \cup NamedRefs, incref(r), leaked' = Append(leaked, r)
      PROVE  goal
  <2>1. PICK i \in DOMAIN global_vars : global_vars[i].ref = r
    <3>1. CASE r \in Results
      <4>1. r \in 1 .. 3
        BY <3>1, RefsAssumption
      <4>2. Fixed(global_vars)
        BY <1>1 DEF Settled, Shape
      <4> QED BY <4>1, <4>2 DEF Fixed
    <3>2. CASE r \in NamedRefs
      BY <3>2 DEF NamedRefs, NamedIndex
    <3> QED BY <1>3, <3>1, <3>2
  <2>o. DOMAIN ob = Live(ref_table)
    BY DEF Objects
  <2> HIDE DEF ob, none
  <2>2. r \in DOMAIN ob \ Arrays(ob) /\ ~Framed(st, r)
    BY <1>1, <2>1, GlobalLive DEF none
  <2>3. r \in Pos /\ r \in Live(ref_table)
    BY <1>1, <2>2, <2>o DEF Settled, Typed, Values
  <2>4. Settled(More(ob, r), ref_table, global_vars, none, st, none, leaked, Plus(Zero, r))
    BY <1>1, <2>2, Increfed
  <2> DEFINE obm == More(ob, r)
  <2> HIDE DEF obm
  <2>5. Settled(obm, ref_table, global_vars, none, st, none, Append(leaked, r), Zero)
    BY <2>3, <2>4, LeakedRef, ZeroType DEF obm
  <2>6. /\ status' = status /\ ref_table' = ref_table
        /\ Memory(heap', ref_table', free_list', memory_pool, memory_size, FALSE) /\ ob2 = obm
    BY <1>3, <2>3, IncrefStep DEF obm, ob
  <2> HIDE DEF ob2
  <2> QED BY <1>3, <2>5, <2>6
<1>4. ASSUME NEW m \in Pos, Fits(m), NEW type \in {"int", "array"}, NEW kids \in Seq(RefOrNull),
             \A j \in DOMAIN kids : kids[j] = NULL_REF, NEW size \in Nat, make_ref(type, m, kids, size),
             leaked' = Append(leaked, NewRef)
      PROVE  goal
  <2>1. /\ status' = status /\ Memory(heap', ref_table', free_list', memory_pool, memory_size, FALSE) /\ NewRef \in Pos
        /\ Settled(ob2, ref_table', global_vars, none, st, none, leaked, Plus(Zero, NewRef))
    BY <1>1, <1>4, FreshMade
  <2> HIDE DEF ob, ob2, none
  <2>2. Settled(ob2, ref_table', global_vars, none, st, none, Append(leaked, NewRef), Zero)
    BY <2>1, LeakedRef, ZeroType
  <2> QED BY <1>4, <2>1, <2>2
<1> HIDE DEF goal
<1>5. ASSUME Fits(IntWords), make_ref("int", IntWords, <<>>, 0), leaked' = Append(leaked, NewRef)
      PROVE  goal
  <2> DEFINE kids == <<>>
             type == "int"
             m == IntWords
             size == 0
  <2>1. m \in Pos /\ kids \in Seq(RefOrNull) /\ DOMAIN kids = {} /\ size \in Nat /\ type \in {"int", "array"}
    BY HeaderAssumption DEF IntWords, Pos
  <2>2. Fits(m) /\ make_ref(type, m, kids, size)
    BY <1>5
  <2> HIDE DEF kids, type, m, size
  <2>3. \A j \in DOMAIN kids : kids[j] = NULL_REF
    BY <2>1
  <2> QED BY <1>4, <1>5, <2>1, <2>2, <2>3
<1>6. ASSUME NEW len \in Lens, Fits(ArrayWords(len)), make_ref("array", ArrayWords(len), NoRefs(len), len),
             leaked' = Append(leaked, NewRef)
      PROVE  goal
  <2> DEFINE kids == NoRefs(len)
             type == "array"
             m == ArrayWords(len)
  <2>1. len \in Nat /\ type \in {"int", "array"}
    BY RefsAssumption
  <2>2. m \in Pos
    BY <2>1, HeaderAssumption DEF ArrayWords, Pos
  <2>3. kids \in Seq(RefOrNull) /\ \A j \in DOMAIN kids : kids[j] = NULL_REF
    BY <2>1, NoRefsIs
  <2>4. Fits(m) /\ make_ref(type, m, kids, len)
    BY <1>6
  <2> HIDE DEF kids, type, m
  <2> QED BY <1>4, <1>6, <2>1, <2>2, <2>3, <2>4
<1>7. goal
  BY <1>2, <1>3, <1>5, <1>6 DEF Drop
<1> QED BY <1>7 DEF goal

\* A call of something that is not a function.
LEMMA StepEvalCall ==
  ASSUME IInv, EvalCall
  PROVE  IInv'
<1> DEFINE ob2 == Objects(heap', ref_table')
           held == <<>>
           none == {}
<1>1. Idle /\ Drop /\ Unwind(held, stack)
  BY DEF EvalCall, Ready
<1>2. Memory(heap, ref_table, free_list, memory_pool, memory_size, FALSE) /\ status = "ok"
  BY <1>1, IdleState DEF Idle
<1>3. Settled(Objects(heap, ref_table), ref_table, global_vars, none, stack, none, leaked, Zero)
  BY <1>1, IdleState
<1>4. /\ status' = status /\ Memory(heap', ref_table', free_list', memory_pool, memory_size, FALSE)
      /\ Settled(ob2, ref_table', global_vars, none, stack, none, leaked', Zero)
  BY <1>1, <1>2, <1>3, StepDrop
<1>5. Holding(held) = Zero /\ held \in Seq(Pos)
  BY NothingIs
<1>6. ob2 = Objects(heap', ref_table')
  OBVIOUS
<1> HIDE DEF ob2, held, none
<1> QED BY <1>1, <1>2, <1>4, <1>5, <1>6, UnwindStep DEF none

-----------------------------------------------------------------------------
(* Statements. *)

\* The state of an operation that waits for nothing more.
LEMMA ResumeState ==
  ASSUME IInv, NEW to, Resuming(to), to # "sweep"
  PROVE  /\ Memory(heap, ref_table, free_list, memory_pool, memory_size, FALSE) /\ status = "ok" /\ after.to = to
         /\ todo = <<>> /\ after.refs \in Seq(Pos)
         /\ Follows(Objects(heap, ref_table), ref_table, global_vars, stack, <<>>, after)
         /\ Settled(Objects(heap, ref_table), ref_table, global_vars, VacantGlobal(after), stack,
                    VacantElement(Objects(heap, ref_table), after), leaked, Holding(after.refs))
<1> DEFINE ob == Objects(heap, ref_table)
           gv == VacantGlobal(after)
           kv == VacantElement(ob, after)
           h == Holding(after.refs)
<1>1. status = "ok" /\ todo = <<>> /\ after.to = to
  BY DEF Resuming
<1>2. Memory(heap, ref_table, free_list, memory_pool, memory_size, FALSE) /\ Graph(ob, ref_table, global_vars, stack, leaked, todo, after)
  BY <1>1, BusyState
<1>3. Follows(ob, ref_table, global_vars, stack, <<>>, after)
  BY <1>1, <1>2 DEF Graph
<1>4. Pending(ob, ref_table, global_vars, gv, stack, kv, leaked, <<>>, h)
  BY <1>1, <1>2 DEF Graph
<1>5. after.refs \in Seq(Pos)
  BY <1>3 DEF Follows
<1> HIDE DEF ob, gv, kv, h
<1>6. Settled(ob, ref_table, global_vars, gv, stack, kv, leaked, h)
  BY <1>4, Settle
<1> QED BY <1>1, <1>2, <1>3, <1>5, <1>6 DEF ob, gv, kv, h

\* The condition of a while is evaluated with an exception pending.
LEMMA StepReevaluate ==
  ASSUME IInv, Reevaluate
  PROVE  IInv'
<1> DEFINE ob2 == Objects(heap', ref_table')
           st == <<>>
           none == {}
<1>1. Resuming("pending") /\ Drop /\ Unwind(st, st)
  BY DEF Reevaluate
<1>2. Quiet
  BY <1>1 DEF Resuming, Quiet
<1>3. /\ Memory(heap, ref_table, free_list, memory_pool, memory_size, FALSE) /\ status = "ok"
      /\ Settled(Objects(heap, ref_table), ref_table, global_vars, none, stack, none, leaked, Zero)
  BY <1>2, QuietState
<1>4. stack = st
  BY <1>1, <1>2, QuietState DEF Resuming, Follows
<1>5. /\ status' = status /\ Memory(heap', ref_table', free_list', memory_pool, memory_size, FALSE)
      /\ Settled(ob2, ref_table', global_vars, none, stack, none, leaked', Zero)
  BY <1>1, <1>3, StepDrop
<1>6. Holding(st) = Zero /\ st \in Seq(Pos)
  BY NothingIs
<1>7. ob2 = Objects(heap', ref_table')
  OBVIOUS
<1> HIDE DEF ob2, st, none
<1>8. Settled(ob2, ref_table', global_vars, none, st, none, leaked', Holding(st))
  BY <1>4, <1>5, <1>6
<1> QED BY <1>1, <1>3, <1>5, <1>6, <1>7, <1>8, UnwindStep DEF none

\* The integer of a refused len() is lost, stored or released.
LEMMA StepRefused ==
  ASSUME IInv, Refused
  PROVE  IInv'
<1> DEFINE x == Top(0).ref
           refs == <<x>>
           held == <<>>
           none == {}
<1>1. Resuming("refused")
  BY DEF Refused
<1>2. Quiet /\ status = "ok"
  BY <1>1 DEF Resuming, Quiet
<1>3. Done(0)
  <2>1. Len(stack) > 0 /\ stack[Len(stack)].kind = "ref"
    BY <1>1, <1>2, QuietState DEF Resuming, Follows
  <2>2. stack \in Seq(FrameType)
    BY <1>2, QuietState DEF Settled, Typed
  <2> QED BY <2>1, <2>2 DEF Done, Depth, Top
<1>4. Popped(refs, Pop(1)) /\ x \in Pos
  BY <1>2, <1>3, QuietOne
<1>5. Holding(held) = Zero /\ held \in Seq(Pos)
  BY NothingIs
<1>6. CASE SameMemory /\ leaked' = Append(leaked, x) /\ Unwind(held, Pop(1))
  <2> DEFINE ob == Objects(heap, ref_table)
             ob2 == Objects(heap', ref_table')
             frames == Pop(1)
  <2>1. heap' = heap /\ ref_table' = ref_table /\ free_list' = free_list /\ status' = status
    BY <1>6 DEF SameMemory
  <2>2. ob2 = ob /\ ob2 = Objects(heap', ref_table')
    BY <2>1
  <2>3. /\ Memory(heap, ref_table, free_list, memory_pool, memory_size, FALSE)
        /\ Settled(ob, ref_table, global_vars, none, frames, none, leaked, Holding(refs))
    BY <1>4 DEF Popped
  <2>4. Holding(refs) = Plus(Zero, x)
    BY <1>4, HoldingOne
  <2>5. Unwind(held, frames)
    BY <1>6
  <2> HIDE DEF ob, ob2, frames, none, x, refs, held
  <2>6. Settled(ob, ref_table, global_vars, none, frames, none, Append(leaked, x), Zero)
    BY <1>4, <2>3, <2>4, LeakedRef, ZeroType
  <2>7. Settled(ob2, ref_table', global_vars, none, frames, none, leaked', Holding(held))
    BY <1>5, <1>6, <2>1, <2>2, <2>6
  <2>8. Memory(heap', ref_table', free_list', memory_pool, memory_size, FALSE)
    BY <2>1, <2>3
  <2> QED BY <1>2, <1>5, <2>1, <2>2, <2>5, <2>7, <2>8, UnwindStep DEF none
<1>7. CASE StoreElement /\ UNCHANGED leaked /\ Unwind(held, Append(Pop(2), Filling(Top(1))))
  <2> DEFINE ob2 == Objects(heap', ref_table')
             frames == Append(Pop(2), Filling(Top(1)))
  <2>1. /\ status' = status /\ Memory(heap', ref_table', free_list', memory_pool, memory_size, FALSE)
        /\ Settled(ob2, ref_table', global_vars, none, frames, none, leaked, Zero)
    BY <1>2, <1>7, StoredElement
  <2>2. Unwind(held, frames) /\ leaked' = leaked /\ ob2 = Objects(heap', ref_table')
    BY <1>7
  <2> HIDE DEF ob2, frames, none, held
  <2>3. Settled(ob2, ref_table', global_vars, none, frames, none, leaked', Holding(held))
    BY <1>5, <2>1, <2>2
  <2> QED BY <1>2, <1>5, <2>1, <2>2, <2>3, UnwindStep DEF none
<1>8. CASE Depth = 1 /\ SameMemory /\ Continue(<<>>, Steps("decref", refs), Nothing)
  <2>1. Pop(1) = <<>>
    <3>1. stack \in Seq(FrameType) /\ Len(stack) = 1
      BY <1>2, <1>8, QuietState DEF Settled, Typed, Depth
    <3> QED BY <3>1 DEF Pop, Depth
  <2>2. Popped(refs, <<>>)
    BY <1>4, <2>1
  <2> HIDE DEF refs
  <2> QED BY <1>8, <2>2, DropStep
<1> QED BY <1>6, <1>7, <1>8 DEF Refused

\* gc() returns None.
LEMMA StepGcReturn ==
  ASSUME IInv, GcReturn
  PROVE  IInv'
<1> DEFINE ob == Objects(heap, ref_table)
           x == after.ref
<1>1. Resuming("return") /\ incref(x) /\ Continue(Pushed(stack, x), <<>>, Nothing)
  BY DEF GcReturn
<1>2. /\ Memory(heap, ref_table, free_list, memory_pool, memory_size, FALSE) /\ status = "ok" /\ after.to = "return"
      /\ Follows(ob, ref_table, global_vars, stack, <<>>, after)
      /\ Settled(ob, ref_table, global_vars, VacantGlobal(after), stack, VacantElement(ob, after), leaked, Holding(after.refs))
  BY <1>1, ResumeState
<1>3. x = 1 /\ after.refs = <<>>
  BY <1>2 DEF Follows, NONE_REF
<1>4. VacantGlobal(after) = {} /\ VacantElement(ob, after) = {}
  BY <1>2 DEF VacantGlobal, VacantElement
<1>5. Settled(ob, ref_table, global_vars, {}, stack, {}, leaked, Holding(<<>>)) /\ <<>> \in Seq(Pos)
  BY <1>2, <1>3, <1>4
<1>6. Popped(<<>>, stack)
  BY <1>2, <1>5 DEF Popped
<1>7. Usable(stack, x)
  BY <1>3, <1>6, SingletonUsable
<1>8. Continue(Pushed(stack, x), Steps("decref", <<>>), Nothing)
  <2>1. Steps("decref", <<>>) = <<>>
    BY DEF Steps
  <2> QED BY <1>1, <2>1
<1> QED BY <1>1, <1>6, <1>7, <1>8, PushStep

\* One reference is released.
LEMMA ReleaseOne ==
  ASSUME NEW ob, NEW tb, NEW gl, NEW gv, NEW st, NEW kv, NEW lk, NEW h \in [Pos -> Nat], NEW x \in Pos,
         Settled(ob, tb, gl, gv, st, kv, lk, Plus(h, x))
  PROVE  Pending(ob, tb, gl, gv, st, kv, lk, Steps("decref", <<x>>), h)
<1> DEFINE rs == <<x>>
           h2 == Plus(h, x)
<1>1. rs \in Seq(RefOrNull)
  BY DEF RefOrNull
<1>2. \A r \in Pos : Occurrences(rs, r) = IF x = r THEN 1 ELSE 0
  BY OccSingle
<1>3. \A r \in Pos : h2[r] = h[r] + Occurrences(rs, r)
  BY <1>2, PlusType
<1>4. Settled(ob, tb, gl, gv, st, kv, lk, h2)
  OBVIOUS
<1> HIDE DEF rs, h2
<1>5. Pending(ob, tb, gl, gv, st, kv, lk, Steps("decref", rs), h)
  BY <1>1, <1>3, <1>4, Release
<1> QED BY <1>5 DEF rs

\* A global gets another value when the old one is released.
LEMMA GlobalGraph ==
  ASSUME NEW ob, NEW tb, NEW gl, NEW lk, NEW td, NEW i \in DOMAIN gl, i > 3, NEW x \in DOMAIN ob \ Arrays(ob), x \in Pos,
         NEW af, af = Then("global", i, NULL, 0, x, <<x>>),
         Pending(ob, tb, gl, {i}, <<>>, {}, lk, td, Holding(<<x>>))
  PROVE  Graph(ob, tb, gl, <<>>, lk, td, af)
<1>1. af.to = "global" /\ af.at = i /\ af.ref = x /\ af.refs = <<x>>
  BY DEF Then
<1>2. VacantGlobal(af) = {i} /\ VacantElement(ob, af) = {}
  BY <1>1 DEF VacantGlobal, VacantElement
<1>3. Holding(af.refs) = Holding(<<x>>)
  BY <1>1
<1>4. Follows(ob, tb, gl, <<>>, td, af)
  <2>1. <<x>> \in Seq(Pos)
    OBVIOUS
  <2> QED BY <1>1, <2>1 DEF Follows
<1> QED BY <1>2, <1>3, <1>4 DEF Graph

\* A global is dropped when its value is released.
LEMMA DropGraph ==
  ASSUME NEW ob, NEW tb, NEW gl, NEW lk, NEW td, NEW i \in DOMAIN gl, i > 3,
         NEW af, af = Then("drop", i, NULL, 0, NULL_REF, <<>>),
         Pending(ob, tb, gl, {i}, <<>>, {}, lk, td, Zero)
  PROVE  Graph(ob, tb, gl, <<>>, lk, td, af)
<1>1. af.to = "drop" /\ af.at = i /\ af.refs = <<>>
  BY DEF Then
<1>2. VacantGlobal(af) = {i} /\ VacantElement(ob, af) = {}
  BY <1>1 DEF VacantGlobal, VacantElement
<1>3. Holding(af.refs) = Zero
  BY <1>1, NothingIs
<1>4. Follows(ob, tb, gl, <<>>, td, af)
  <2>1. <<>> \in Seq(Pos)
    OBVIOUS
  <2> QED BY <1>1, <2>1 DEF Follows
<1> QED BY <1>2, <1>3, <1>4 DEF Graph

\* The globals of the program come after None, True and False.
LEMMA NamedAbove ==
  ASSUME NEW refs, NEW frames, Popped(refs, frames), NEW n \in Names, NEW i \in NamedIndex(n)
  PROVE  i \in DOMAIN global_vars /\ i > 3 /\ global_vars[i].ref \in Pos
<1>1. Fixed(global_vars) /\ global_vars \in Seq(GlobalType)
  BY DEF Popped, Settled, Shape, Typed
<1>2. i \in DOMAIN global_vars /\ global_vars[i].name = n
  BY DEF NamedIndex
<1>3. i \in Nat /\ i >= 1
  BY <1>1, <1>2
<1>4. i \notin 1 .. 3
  BY <1>1, <1>2, RefsAssumption DEF Fixed
<1>5. global_vars[i] \in GlobalType
  BY <1>1, <1>2
<1> QED BY <1>2, <1>3, <1>4, <1>5 DEF GlobalType

\* The stack of an expression statement or an assignment.
LEMMA PoppedLast ==
  ASSUME IInv, Idle, Depth = 1, Done(0)
  PROVE  Popped(<<Top(0).ref>>, <<>>) /\ Top(0).ref \in Pos /\ Usable(<<>>, Top(0).ref)
<1>1. Popped(<<Top(0).ref>>, Pop(1)) /\ Top(0).ref \in Pos /\ Usable(stack, Top(0).ref)
  BY PoppedOne
<1>2. Pop(1) = <<>>
  BY DEF Pop
<1>3. ~Framed(<<>>, Top(0).ref)
  BY DEF Framed
<1> QED BY <1>1, <1>2, <1>3 DEF Usable

\* The result of an expression statement is released or leaked.
LEMMA StepExprStmt ==
  ASSUME IInv, ExprStmt
  PROVE  IInv'
<1> DEFINE ob == Objects(heap, ref_table)
           r == Top(0).ref
           none == {}
           st2 == <<>>
<1>1. Idle /\ Depth = 1 /\ Done(0) /\ SameMemory /\ SamePool /\ stack' = st2 /\ global_vars' = global_vars /\ after' = after
  BY DEF ExprStmt
<1>2. Popped(<<r>>, st2) /\ r \in Pos
  BY <1>1, PoppedLast
<1>3. after' = Nothing /\ status = "ok" /\ todo = <<>>
  BY <1>1 DEF Idle
<1>4. heap' = heap /\ ref_table' = ref_table /\ free_list' = free_list /\ status' = status
  BY <1>1 DEF SameMemory
<1>5. CASE todo' = Steps("decref", <<r>>) /\ leaked' = leaked
  <2>1. Continue(st2, Steps("decref", <<r>>), Nothing)
    BY <1>1, <1>3, <1>5 DEF Continue
  <2> QED BY <1>1, <1>2, <2>1, DropStep
<1>6. CASE todo' = todo /\ leaked' = Append(leaked, r)
  <2>1. Settled(ob, ref_table, global_vars, none, st2, none, leaked, Holding(<<r>>))
    BY <1>2 DEF Popped
  <2>2. Holding(<<r>>) = Plus(Zero, r)
    BY <1>2, HoldingOne
  <2>3. ob = Objects(heap', ref_table') /\ Memory(heap', ref_table', free_list', memory_pool, memory_size, FALSE)
    BY <1>2, <1>4 DEF Popped
  <2> HIDE DEF ob, none, st2, r
  <2>4. Settled(ob, ref_table, global_vars, none, st2, none, leaked, Plus(Zero, r))
    BY <2>1, <2>2
  <2>5. Settled(ob, ref_table, global_vars, none, st2, none, Append(leaked, r), Zero)
    BY <1>2, <2>4, LeakedRef, ZeroType
  <2>6. Settled(ob, ref_table', global_vars', {}, stack', {}, leaked', Zero)
    BY <1>1, <1>4, <1>6, <2>5 DEF none
  <2>7. todo' = <<>>
    BY <1>3, <1>6
  <2> QED BY <1>1, <1>3, <1>4, <2>3, <2>6, <2>7, NextIdle
<1> QED BY <1>5, <1>6 DEF ExprStmt

\* A new name.
LEMMA NewGlobal ==
  ASSUME NEW x, Popped(<<x>>, <<>>), Usable(<<>>, x), x \in Pos, NEW g \in GlobalType, g.ref = x, incref(x),
         global_vars' = Append(global_vars, g), todo' = Steps("decref", <<x>>), after' = Nothing,
         stack' = <<>>, SamePool, leaked' = leaked
  PROVE  IInv'
<1> DEFINE ob == Objects(heap, ref_table)
           ob2 == Objects(heap', ref_table')
           refs == <<x>>
           st2 == <<>>
           none == {}
           td == Steps("decref", refs)
<1>1. IInv /\ status = "ok" /\ Memory(heap, ref_table, free_list, memory_pool, memory_size, FALSE)
  BY DEF Popped
<1>2. Settled(ob, ref_table, global_vars, none, st2, none, leaked, Holding(refs)) /\ refs \in Seq(Pos)
  BY DEF Popped
<1>3. x \in DOMAIN ob \ Arrays(ob) /\ ~Framed(st2, x) /\ x \in Live(ref_table)
  BY DEF Usable, Objects
<1>4. status' = status /\ ref_table' = ref_table /\ Memory(heap', ref_table', free_list', memory_pool, memory_size, FALSE) /\ ob2 = More(ob, x)
  BY <1>1, <1>3, IncrefStep
<1>5. stack' = st2 /\ todo' = td /\ none = {}
  OBVIOUS
<1> HIDE DEF ob, ob2, refs, st2, none
<1>6. Settled(ob2, ref_table, global_vars, none, st2, none, leaked, Plus(Holding(refs), x))
  BY <1>2, <1>3, <1>4, Increfed
<1>7. Values(ob) /\ Arrays(ob2) = Arrays(ob)
  <2>1. Values(ob)
    BY <1>2 DEF Settled, Typed
  <2>2. Alike(ob, ob2)
    BY <1>3, <1>4, <2>1, MoreType
  <2> QED BY <2>1, <2>2 DEF Alike, Arrays
<1>8. Holding(refs) \in [Pos -> Nat]
  BY <1>2, HoldingType
<1> DEFINE h == Holding(refs)
           gl2 == Append(global_vars, g)
<1> HIDE DEF h
<1>9. Settled(ob2, ref_table, global_vars, {}, st2, none, leaked, Plus(h, g.ref))
  BY <1>5, <1>6 DEF h
<1>10. Settled(ob2, ref_table, gl2, {}, st2, none, leaked, h)
  BY <1>3, <1>7, <1>8, <1>9, GlobalAdded DEF h
<1> HIDE DEF gl2
<1>11. Settled(ob2, ref_table, gl2, none, st2, none, leaked, Holding(refs))
  BY <1>5, <1>10 DEF h
<1>12. Pending(ob2, ref_table, gl2, none, st2, none, leaked, td, Zero)
  BY <1>2, <1>11, ReleaseHeld
<1>13. Pending(ob2, ref_table', global_vars', {}, stack', {}, leaked', todo', Zero) /\ ob2 = Objects(heap', ref_table')
  BY <1>4, <1>5, <1>12 DEF gl2, ob2
<1> QED BY <1>1, <1>4, <1>13, NextIdle

\* An assignment to a name, up to the release of the old value.
LEMMA StepAssignName ==
  ASSUME IInv, NEW n \in Names, AssignName(n)
  PROVE  IInv'
<1> DEFINE ob == Objects(heap, ref_table)
           r == Top(0).ref
           none == {}
           st2 == <<>>
<1>1. Idle /\ Depth = 1 /\ Done(0) /\ SamePool /\ stack' = st2 /\ leaked' = leaked
  BY DEF AssignName
<1>2. Popped(<<r>>, st2) /\ r \in Pos /\ Usable(st2, r)
  BY <1>1, PoppedLast
<1>3. CASE NamedIndex(n) = {} /\ incref(r) /\ global_vars' = Append(global_vars, [name |-> n, ref |-> r])
            /\ todo' = Steps("decref", <<r>>) /\ after' = Nothing
  <2> DEFINE g == [name |-> n, ref |-> r]
  <2>1. g \in GlobalType /\ g.ref = r
    BY <1>2 DEF GlobalType
  <2>2. global_vars' = Append(global_vars, g)
    BY <1>3
  <2> HIDE DEF g, r
  <2> QED BY <1>1, <1>2, <1>3, <2>1, <2>2, NewGlobal
<1>4. ASSUME NEW i \in NamedIndex(n), SameMemory, global_vars' = global_vars,
             todo' = Steps("decref", <<global_vars[i].ref>>), after' = Then("global", i, NULL, 0, r, <<r>>)
      PROVE  IInv'
  <2> DEFINE x == global_vars[i].ref
             gv == {i}
             h == Holding(<<r>>)
             td == Steps("decref", <<x>>)
  <2>1. i \in DOMAIN global_vars /\ i > 3 /\ x \in Pos
    BY <1>2, NamedAbove
  <2>2. Settled(ob, ref_table, global_vars, none, st2, none, leaked, h) /\ none = {}
    BY <1>2 DEF Popped
  <2>3. heap' = heap /\ ref_table' = ref_table /\ free_list' = free_list /\ status' = status
    BY <1>4 DEF SameMemory
  <2>4. ob = Objects(heap', ref_table') /\ Memory(heap', ref_table', free_list', memory_pool, memory_size, FALSE) /\ status = "ok"
    BY <1>2, <2>3 DEF Popped
  <2>5. r \in DOMAIN ob \ Arrays(ob)
    BY <1>2 DEF Usable
  <2>6. h \in [Pos -> Nat]
    <3>1. <<r>> \in Seq(Pos)
      BY <1>2
    <3> QED BY <3>1, HoldingType
  <2> HIDE DEF ob, none, st2, h, r
  <2>7. Settled(ob, ref_table, global_vars, gv, st2, none, leaked, Plus(h, x))
    BY <2>1, <2>2, GlobalVacated
  <2> HIDE DEF x, gv
  <2>8. Pending(ob, ref_table, global_vars, gv, st2, none, leaked, td, h)
    BY <2>1, <2>6, <2>7, ReleaseOne
  <2> HIDE DEF td
  <2>9. Pending(ob, ref_table, global_vars, {i}, <<>>, {}, leaked, td, Holding(<<r>>))
    BY <2>8 DEF gv, st2, none, h
  <2> DEFINE af == Then("global", i, NULL, 0, r, <<r>>)
  <2>10. after' = af /\ af = Then("global", i, NULL, 0, r, <<r>>)
    BY <1>4
  <2> HIDE DEF af
  <2>11. Graph(ob, ref_table, global_vars, <<>>, leaked, td, af)
    BY <1>2, <2>1, <2>5, <2>9, <2>10, GlobalGraph
  <2>12. Graph(ob, ref_table', global_vars', stack', leaked', todo', after')
    BY <1>1, <1>4, <2>3, <2>10, <2>11 DEF td, x, st2
  <2> QED BY <1>1, <2>3, <2>4, <2>12, NextState
<1> QED BY <1>3, <1>4 DEF AssignName

\* del of a name, up to the release of its value.
LEMMA StepDelName ==
  ASSUME IInv, NEW n \in Names, DelName(n)
  PROVE  IInv'
<1> DEFINE ob == Objects(heap, ref_table)
           none == {}
           st2 == <<>>
<1>1. Idle /\ Depth = 0
  BY DEF DelName
<1>2. Popped(<<>>, stack)
  BY <1>1, PoppedNone
<1>3. Settled(ob, ref_table, global_vars, none, stack, none, leaked, Zero)
  BY <1>1, IdleState
<1>4. stack = st2
  <2>1. stack \in Seq(FrameType)
    BY <1>3 DEF Settled, Typed
  <2> QED BY <1>1, <2>1 DEF Depth
<1>5. ASSUME NEW i \in NamedIndex(n), SameMemory,
             Continue(stack, Steps("decref", <<global_vars[i].ref>>), Then("drop", i, NULL, 0, NULL_REF, <<>>))
      PROVE  IInv'
  <2> DEFINE x == global_vars[i].ref
             gv == {i}
             td == Steps("decref", <<x>>)
             af == Then("drop", i, NULL, 0, NULL_REF, <<>>)
  <2>6. i \in DOMAIN global_vars /\ i > 3 /\ x \in Pos
    BY <1>2, NamedAbove
  <2>7. heap' = heap /\ ref_table' = ref_table /\ free_list' = free_list /\ status' = status
    BY <1>5 DEF SameMemory
  <2>8. stack' = stack /\ todo' = td /\ after' = af /\ SamePool /\ global_vars' = global_vars /\ leaked' = leaked
    BY <1>5 DEF Continue
  <2>9. ob = Objects(heap', ref_table') /\ Memory(heap', ref_table', free_list', memory_pool, memory_size, FALSE) /\ status = "ok"
    BY <1>2, <2>7 DEF Popped
  <2>10. Settled(ob, ref_table, global_vars, none, st2, none, leaked, Zero) /\ none = {}
    BY <1>3, <1>4
  <2>11. af = Then("drop", i, NULL, 0, NULL_REF, <<>>)
    OBVIOUS
  <2> HIDE DEF ob, none, st2, af
  <2>12. Settled(ob, ref_table, global_vars, gv, st2, none, leaked, Plus(Zero, x))
    BY <2>6, <2>10, GlobalVacated
  <2> HIDE DEF x, gv
  <2>13. Pending(ob, ref_table, global_vars, gv, st2, none, leaked, td, Zero)
    BY <2>6, <2>12, ReleaseOne, ZeroType
  <2> HIDE DEF td
  <2>14. Pending(ob, ref_table, global_vars, {i}, <<>>, {}, leaked, td, Zero)
    BY <2>13 DEF gv, st2, none
  <2>15. Graph(ob, ref_table, global_vars, <<>>, leaked, td, af)
    BY <2>6, <2>11, <2>14, DropGraph
  <2>16. Graph(ob, ref_table', global_vars', stack', leaked', todo', after')
    BY <1>4, <2>7, <2>8, <2>15 DEF st2
  <2> QED BY <2>7, <2>8, <2>9, <2>16, NextState
<1>6. CASE Raise(<<>>, stack)
  BY <1>2, <1>6, StepRaise
<1> QED BY <1>5, <1>6 DEF DelName

\* The name is removed.
LEMMA StepDropGlobal ==
  ASSUME IInv, DropGlobal
  PROVE  IInv'
<1> DEFINE ob == Objects(heap, ref_table)
           none == {}
           i == after.at
           gl2 == RemoveAt(global_vars, i)
<1>1. Resuming("drop") /\ global_vars' = gl2 /\ after' = Nothing /\ SameMemory /\ SamePool /\ stack' = stack
      /\ leaked' = leaked /\ todo' = todo
  BY DEF DropGlobal
<1>2. /\ Memory(heap, ref_table, free_list, memory_pool, memory_size, FALSE) /\ status = "ok" /\ after.to = "drop"
      /\ todo = <<>> /\ Follows(ob, ref_table, global_vars, stack, <<>>, after)
      /\ Settled(ob, ref_table, global_vars, VacantGlobal(after), stack, VacantElement(ob, after), leaked, Holding(after.refs))
  BY <1>1, ResumeState
<1>3. i \in DOMAIN global_vars /\ i > 3 /\ after.refs = <<>>
  BY <1>2 DEF Follows
<1>4. VacantGlobal(after) = {i} /\ VacantElement(ob, after) = none /\ Holding(after.refs) = Zero
  BY <1>2, <1>3, NothingIs DEF VacantGlobal, VacantElement
<1>5. Settled(ob, ref_table, global_vars, {i}, stack, none, leaked, Zero)
  BY <1>2, <1>4
<1>6. heap' = heap /\ ref_table' = ref_table /\ free_list' = free_list /\ status' = status
  BY <1>1 DEF SameMemory
<1>7. ob = Objects(heap', ref_table') /\ Memory(heap', ref_table', free_list', memory_pool, memory_size, FALSE)
  BY <1>2, <1>6
<1> HIDE DEF ob, none, i
<1>8. Settled(ob, ref_table, gl2, {}, stack, none, leaked, Zero)
  BY <1>3, <1>5, GlobalDropped
<1> HIDE DEF gl2
<1>9. Settled(ob, ref_table', global_vars', {}, stack', {}, leaked', Zero) /\ todo' = <<>>
  BY <1>1, <1>2, <1>6, <1>8 DEF none
<1> QED BY <1>1, <1>2, <1>6, <1>7, <1>9, NextIdle

\* The new value enters the global.
LEMMA StepSetGlobal ==
  ASSUME IInv, SetGlobal
  PROVE  IInv'
<1> DEFINE ob == Objects(heap, ref_table)
           ob2 == Objects(heap', ref_table')
           none == {}
           i == after.at
           x == after.ref
           refs == after.refs
           h == Holding(refs)
           gl2 == [global_vars EXCEPT ![i].ref = x]
           td == Steps("decref", refs)
<1>1. Resuming("global") /\ incref(x) /\ global_vars' = gl2 /\ todo' = td /\ after' = Nothing /\ SamePool /\ stack' = stack
      /\ leaked' = leaked
  BY DEF SetGlobal, NewValue
<1>2. /\ Memory(heap, ref_table, free_list, memory_pool, memory_size, FALSE) /\ status = "ok" /\ after.to = "global"
      /\ refs \in Seq(Pos) /\ Follows(ob, ref_table, global_vars, stack, <<>>, after)
      /\ Settled(ob, ref_table, global_vars, VacantGlobal(after), stack, VacantElement(ob, after), leaked, h)
  BY <1>1, ResumeState
<1>3. i \in DOMAIN global_vars /\ i > 3 /\ x \in DOMAIN ob \ Arrays(ob) /\ stack = <<>>
  BY <1>2 DEF Follows
<1>4. VacantGlobal(after) = {i} /\ VacantElement(ob, after) = none
  BY <1>2, <1>3 DEF VacantGlobal, VacantElement
<1>5. Settled(ob, ref_table, global_vars, {i}, stack, none, leaked, h)
  BY <1>2, <1>4
<1>6. ~Framed(stack, x)
  BY <1>3 DEF Framed
<1>7. x \in Live(ref_table)
  BY <1>3 DEF Objects
<1>8. status' = status /\ ref_table' = ref_table /\ Memory(heap', ref_table', free_list', memory_pool, memory_size, FALSE) /\ ob2 = More(ob, x)
  BY <1>1, <1>2, <1>7, IncrefStep
<1>9. h \in [Pos -> Nat]
  BY <1>2, HoldingType
<1> DEFINE gv == {i}
<1> HIDE DEF ob, ob2, none, i, x, refs
<1>10. Settled(ob, ref_table, global_vars, gv, stack, none, leaked, h)
  BY <1>5
<1> HIDE DEF gv, h
<1>11. Settled(ob2, ref_table, global_vars, gv, stack, none, leaked, Plus(h, x))
  BY <1>3, <1>6, <1>8, <1>10, Increfed
<1>12. Values(ob) /\ Arrays(ob2) = Arrays(ob)
  <2>1. Values(ob)
    BY <1>5 DEF Settled, Typed
  <2>2. Alike(ob, ob2)
    BY <1>3, <1>8, <2>1, MoreType
  <2> QED BY <2>1, <2>2 DEF Alike, Arrays
<1>13. x \in Pos
  BY <1>3, <1>12 DEF Values
<1>14. Settled(ob2, ref_table, global_vars, {i}, stack, none, leaked, Plus(h, x))
  BY <1>11 DEF gv
<1>15. Settled(ob2, ref_table, gl2, {}, stack, none, leaked, h)
  BY <1>3, <1>9, <1>12, <1>13, <1>14, GlobalFilled
<1> HIDE DEF gl2
<1>16. Settled(ob2, ref_table, gl2, none, stack, none, leaked, Holding(refs))
  BY <1>15 DEF none, h
<1>17. Pending(ob2, ref_table, gl2, none, stack, none, leaked, td, Zero)
  BY <1>2, <1>16, ReleaseHeld
<1>18. Pending(ob2, ref_table', global_vars', {}, stack', {}, leaked', todo', Zero) /\ ob2 = Objects(heap', ref_table')
  BY <1>1, <1>8, <1>17 DEF none, ob2
<1> QED BY <1>1, <1>2, <1>8, <1>18, NextIdle

-----------------------------------------------------------------------------
(* Assignment to an element. *)

\* An element is replaced when the old one is released.
LEMMA StoreGraph ==
  ASSUME NEW ob, NEW tb, NEW gl, NEW lk, NEW td, NEW i \in Pos, NEW t \in Pos, NEW r \in Pos, NEW k \in Pos,
         t \in Lists(ob), r \in DOMAIN ob \ Arrays(ob), k <= ob[t].size, NEW a, a = ob[t].kids[1],
         NEW af, af = Then("store", k, tb[a], 0, r, <<i, t, r>>),
         Pending(ob, tb, gl, {}, <<>>, {<<a, k>>}, lk, td, Holding(<<i, t, r>>))
  PROVE  Graph(ob, tb, gl, <<>>, lk, td, af)
<1> DEFINE rs == <<i, t, r>>
<1>1. rs \in Seq(Pos) /\ Len(rs) = 3 /\ rs[2] = t /\ rs[3] = r
  OBVIOUS
<1>2. af.to = "store" /\ af.at = k /\ af.array = tb[a] /\ af.ref = r /\ af.refs = rs
  BY DEF Then
<1> HIDE DEF rs
<1>3. VacantGlobal(af) = {} /\ VacantElement(ob, af) = {<<a, k>>}
  BY <1>1, <1>2 DEF VacantGlobal, VacantElement
<1>4. SlotOK(ob, tb, af)
  BY <1>1, <1>2 DEF SlotOK
<1>5. StoreOK(ob, tb, af)
  BY <1>1, <1>2, <1>4 DEF StoreOK
<1>6. Follows(ob, tb, gl, <<>>, td, af)
  BY <1>1, <1>2, <1>5 DEF Follows
<1> QED BY <1>2, <1>3, <1>6 DEF Graph, rs

\* The stack of an assignment to an element.
LEMMA PoppedTriple ==
  ASSUME IInv, Idle, Depth = 3, Done(0), Done(1), Done(2)
  PROVE  /\ Popped(<<Top(0).ref, Top(1).ref, Top(2).ref>>, <<>>)
         /\ Top(0).ref \in Pos /\ Top(1).ref \in Pos /\ Top(2).ref \in Pos
         /\ Top(2).ref \in DOMAIN Objects(heap, ref_table) \ Arrays(Objects(heap, ref_table))
<1> DEFINE ob == Objects(heap, ref_table)
           none == {}
           i == stack[3].ref
           t == stack[2].ref
           r == stack[1].ref
           st2 == SubSeq(stack, 1, Len(stack) - 2)
<1>1. Memory(heap, ref_table, free_list, memory_pool, memory_size, FALSE) /\ status = "ok"
  BY IdleState DEF Idle
<1>2. Settled(ob, ref_table, global_vars, none, stack, none, leaked, Zero)
  BY IdleState
<1>3. stack \in Seq(FrameType) /\ Len(stack) = 3
  BY <1>2 DEF Settled, Typed, Depth
<1>4. /\ stack[3].kind = "ref" /\ stack[2].kind = "ref" /\ stack[1].kind = "ref"
      /\ Top(0) = stack[3] /\ Top(1) = stack[2] /\ Top(2) = stack[1]
  BY <1>3 DEF Done, Depth, Top
<1>5. 1 \in DOMAIN stack /\ 2 \in DOMAIN stack /\ 3 \in DOMAIN stack /\ Len(stack) - 1 = 2
  BY <1>3
<1>6. i \in Pos /\ t \in Pos /\ r \in Pos
  BY <1>3, <1>5, Frames
<1>7. Len(st2) = 1 /\ st2[1] = stack[1] /\ SubSeq(st2, 1, Len(st2) - 1) = <<>>
  BY <1>3
<1> HIDE DEF ob, none
<1>8. r \in DOMAIN ob \ Arrays(ob)
  BY <1>2, <1>5, StackLive
<1> DEFINE h == Plus(Plus(Zero, i), t)
<1>9. Settled(ob, ref_table, global_vars, none, st2, none, leaked, h)
  <2>1. stack[Len(stack)] = stack[3] /\ stack[Len(stack) - 1] = stack[2] /\ Len(stack) > 1
    BY <1>3, <1>5
  <2>2. stack[Len(stack)].kind = "ref" /\ stack[Len(stack) - 1].kind = "ref"
    BY <1>4, <2>1
  <2>3. Settled(ob, ref_table, global_vars, none, st2, none, leaked,
                Plus(Plus(Zero, stack[Len(stack)].ref), stack[Len(stack) - 1].ref))
    BY <1>2, <2>1, <2>2, PoppedTwo
  <2> QED BY <2>1, <2>3
<1> HIDE DEF h, st2
<1>10. Len(st2) > 0 /\ st2[Len(st2)].kind = "ref" /\ st2[Len(st2)].ref = r
  <2>1. st2[Len(st2)] = stack[1]
    BY <1>7
  <2> QED BY <1>4, <1>7, <2>1
<1>11. Settled(ob, ref_table, global_vars, none, SubSeq(st2, 1, Len(st2) - 1), none, leaked, Plus(h, st2[Len(st2)].ref))
  BY <1>9, <1>10, PoppedRef
<1>12. Settled(ob, ref_table, global_vars, none, <<>>, none, leaked, Plus(Plus(Plus(Zero, i), t), r))
  BY <1>7, <1>10, <1>11 DEF h
<1> HIDE DEF i, t, r
<1>13. Holding(<<i, t, r>>) = Plus(Plus(Plus(Zero, i), t), r)
  BY <1>6, HoldingThree
<1>14. <<i, t, r>> \in Seq(Pos)
  BY <1>6
<1>15. Popped(<<i, t, r>>, <<>>)
  BY <1>1, <1>12, <1>13, <1>14 DEF Popped, ob, none
<1>16. Top(0).ref = i /\ Top(1).ref = t /\ Top(2).ref = r
  BY <1>4 DEF i, t, r
<1> QED BY <1>6, <1>8, <1>15, <1>16 DEF ob

\* An assignment to an element, up to the release of the old one.
LEMMA StepAssignSubscript ==
  ASSUME IInv, AssignSubscript
  PROVE  IInv'
<1> DEFINE ob == Objects(heap, ref_table)
           r == Top(2).ref
           t == Top(1).ref
           i == Top(0).ref
           refs == <<i, t, r>>
           none == {}
           st2 == <<>>
<1>1. Idle /\ Depth = 3 /\ Done(0) /\ Done(1) /\ Done(2)
  BY DEF AssignSubscript
<1>2. CASE Raise(<<>>, stack)
  BY <1>1, <1>2, PoppedNone, StepRaise
<1>3. ASSUME IsList(t), NEW k \in Positions(t), SameMemory,
             Continue(<<>>, Steps("decref", <<Element(t, k)>>), Then("store", k, ArrayOf(t), 0, r, <<i, t, r>>))
      PROVE  IInv'
  <2> DEFINE a == ob[t].kids[1]
             e == Element(t, k)
             h == Holding(refs)
             td == Steps("decref", <<e>>)
             af == Then("store", k, ref_table[a], 0, r, <<i, t, r>>)
  <2>1. Popped(refs, st2) /\ i \in Pos /\ t \in Pos /\ r \in Pos /\ r \in DOMAIN ob \ Arrays(ob)
    BY <1>1, PoppedTriple
  <2>2. ~Framed(st2, t)
    BY DEF Framed
  <2>3. Usable(st2, e)
    BY <1>3, <2>1, <2>2, ElementUsable
  <2>4. /\ a \in Arrays(ob) /\ a \in DOMAIN ob /\ k \in DOMAIN ob[a].kids /\ e = ob[a].kids[k]
        /\ ArrayOf(t) = ref_table[a] /\ k \in Pos /\ k <= ob[t].size
    BY <1>3, <2>1, <2>2, ElementUsable
  <2>5. Memory(heap, ref_table, free_list, memory_pool, memory_size, FALSE) /\ status = "ok" /\ refs \in Seq(Pos)
        /\ Settled(ob, ref_table, global_vars, none, st2, none, leaked, h)
    BY <2>1 DEF Popped
  <2>6. t \in Lists(ob)
    BY <1>3, <2>5, IsListIs
  <2>7. heap' = heap /\ ref_table' = ref_table /\ free_list' = free_list /\ status' = status
    BY <1>3 DEF SameMemory
  <2>8. stack' = st2 /\ todo' = td /\ after' = af /\ SamePool /\ global_vars' = global_vars /\ leaked' = leaked
    BY <1>3, <2>4 DEF Continue
  <2>9. ob = Objects(heap', ref_table') /\ Memory(heap', ref_table', free_list', memory_pool, memory_size, FALSE)
    BY <2>5, <2>7
  <2>10. e \in DOMAIN ob
    BY <2>3 DEF Usable
  <2>11. h \in [Pos -> Nat]
    BY <2>5, HoldingType
  <2>12. af = Then("store", k, ref_table[a], 0, r, <<i, t, r>>) /\ a = ob[t].kids[1] /\ none = {}
    OBVIOUS
  <2> HIDE DEF ob, none, st2, h, a, e, af
  <2>13. e \in Pos
    BY <2>5, <2>10 DEF Settled, Typed, Values
  <2>14. Settled(ob, ref_table, global_vars, none, st2, {<<a, k>>}, leaked, Plus(h, e))
    BY <2>4, <2>5, <2>12, ElementVacated
  <2> DEFINE kv == {<<a, k>>}
  <2>15. Settled(ob, ref_table, global_vars, none, st2, kv, leaked, Plus(h, e))
    BY <2>14
  <2> HIDE DEF kv
  <2>16. Pending(ob, ref_table, global_vars, none, st2, kv, leaked, td, h)
    BY <2>11, <2>13, <2>15, ReleaseOne
  <2> HIDE DEF td
  <2>17. Pending(ob, ref_table, global_vars, {}, <<>>, {<<a, k>>}, leaked, td, Holding(<<i, t, r>>))
    BY <2>16 DEF none, st2, kv, h
  <2> HIDE DEF i, t, r
  <2>18. Graph(ob, ref_table, global_vars, <<>>, leaked, td, af)
    BY <2>1, <2>4, <2>6, <2>12, <2>17, StoreGraph
  <2>19. Graph(ob, ref_table', global_vars', stack', leaked', todo', after')
    BY <2>7, <2>8, <2>18 DEF st2
  <2> QED BY <2>5, <2>7, <2>8, <2>9, <2>19, NextState
<1> QED BY <1>2, <1>3 DEF AssignSubscript

\* The state in which an element is replaced or deleted: the list t, its array a
\* and the vacant place k.
Vacated(t, a, k) ==
  LET ob == Objects(heap, ref_table)
  IN  /\ IInv /\ status = "ok" /\ Memory(heap, ref_table, free_list, memory_pool, memory_size, FALSE)
      /\ t \in Lists(ob) /\ a = ob[t].kids[1] /\ a \in Arrays(ob) /\ a \in Live(ref_table) /\ ref_table[a] = after.array
      /\ ob[a].kids \in Seq(RefOrNull) /\ k \in Pos /\ after.refs \in Seq(Pos)
      /\ Settled(ob, ref_table, global_vars, {}, <<>>, {<<a, k>>}, leaked, Holding(after.refs))
      /\ stack = <<>>

\* What is known of it.
LEMMA VacatedState ==
  ASSUME IInv, NEW to \in {"store", "shift"}, Resuming(to), NEW t, t = after.refs[2]
  PROVE  /\ Vacated(t, Objects(heap, ref_table)[t].kids[1], after.at)
         /\ to = "store" => StoreOK(Objects(heap, ref_table), ref_table, after)
                            /\ after.ref \in DOMAIN Objects(heap, ref_table) \ Arrays(Objects(heap, ref_table))
         /\ to = "shift" => ShiftOK(Objects(heap, ref_table), ref_table, after)
<1> DEFINE ob == Objects(heap, ref_table)
           a == ob[t].kids[1]
           none == {}
           kv == {<<a, after.at>>}
           h == Holding(after.refs)
<1>1. /\ Memory(heap, ref_table, free_list, memory_pool, memory_size, FALSE) /\ status = "ok" /\ after.to = to
      /\ after.refs \in Seq(Pos) /\ Follows(ob, ref_table, global_vars, stack, <<>>, after)
      /\ Settled(ob, ref_table, global_vars, VacantGlobal(after), stack, VacantElement(ob, after), leaked, h)
  BY ResumeState
<1>2. /\ stack = <<>> /\ (to = "store" => StoreOK(ob, ref_table, after) /\ after.ref \in DOMAIN ob \ Arrays(ob))
      /\ to = "shift" => ShiftOK(ob, ref_table, after)
  BY <1>1 DEF Follows
<1>3. SlotOK(ob, ref_table, after)
  BY <1>2 DEF StoreOK, ShiftOK
<1>4. t \in Lists(ob) /\ ref_table[a] = after.array /\ after.at \in Pos
  BY <1>3 DEF SlotOK
<1>5. VacantGlobal(after) = none /\ VacantElement(ob, after) = kv
  BY <1>1 DEF VacantGlobal, VacantElement
<1>6. Settled(ob, ref_table, global_vars, none, <<>>, kv, leaked, h)
  BY <1>1, <1>2, <1>5
<1>o. DOMAIN ob = Live(ref_table)
  BY DEF Objects
<1> HIDE DEF ob, none, kv, h
<1>7. a \in Arrays(ob) /\ a \in DOMAIN ob /\ ob[a].kids \in Seq(RefOrNull)
  BY <1>4, <1>6, ListFacts
<1>8. Vacated(t, a, after.at)
  BY <1>1, <1>2, <1>4, <1>6, <1>7, <1>o DEF Vacated, ob, none, kv, h
<1> QED BY <1>2, <1>8 DEF ob

\* The new element enters the array.
LEMMA StepSetElement ==
  ASSUME IInv, SetElement
  PROVE  IInv'
<1> DEFINE ob == Objects(heap, ref_table)
           r == after.ref
           ob1 == More(ob, r)
           refs == after.refs
           t == refs[2]
           a == ob[t].kids[1]
           k == after.at
           hp1 == Counted(heap, ref_table[r])
           kids == [ob1[a].kids EXCEPT ![k] = r]
           none == {}
           kv == {<<a, k>>}
           h == Holding(refs)
           st == <<>>
           td == Steps("decref", refs)
<1>1. Resuming("store") /\ Continue(stack, td, Nothing) /\ ref_table' = ref_table /\ free_list' = free_list
  BY DEF SetElement
<1>2. Vacated(t, a, k) /\ StoreOK(ob, ref_table, after) /\ r \in DOMAIN ob \ Arrays(ob)
  BY <1>1, VacatedState
<1>3. /\ status = "ok" /\ Memory(heap, ref_table, free_list, memory_pool, memory_size, FALSE)
      /\ t \in Lists(ob) /\ a \in Arrays(ob) /\ a \in Live(ref_table) /\ ref_table[a] = after.array
      /\ ob[a].kids \in Seq(RefOrNull) /\ k \in Pos /\ refs \in Seq(Pos)
      /\ Settled(ob, ref_table, global_vars, none, st, kv, leaked, h) /\ stack = st
  BY <1>2 DEF Vacated
<1>4. k <= ob[t].size
  BY <1>2 DEF StoreOK
<1>5. r \in Live(ref_table) /\ a \in DOMAIN ob
  BY <1>2, <1>3 DEF Objects
<1>6. Valid(r)
  BY <1>3, <1>5, ValidIs
<1>7. heap' = [hp1 EXCEPT ![ref_table[a]].kids[k] = r] /\ status' = status
  BY <1>3, <1>6 DEF SetElement
<1>8. Memory(hp1, ref_table, free_list, memory_pool, memory_size, FALSE) /\ Objects(hp1, ref_table) = ob1
  BY ZenonT(40), <1>3, <1>5, MemoryCounted
<1>9. ob1[a] = hp1[ref_table[a]] /\ ref_table[a] \in DOMAIN hp1
  <2>1. Objects(hp1, ref_table)[a] = hp1[ref_table[a]]
    BY <1>3 DEF Objects
  <2>2. ref_table[a] \in DOMAIN hp1
    BY <1>3, <1>8, MemoryAt
  <2> QED BY <1>8, <2>1, <2>2
<1>10. kids = [ob1[a].kids EXCEPT ![k] = r]
  OBVIOUS
<1>11. ~Framed(st, r) /\ DOMAIN st = {}
  BY DEF Framed
<1>12. stack' = stack /\ todo' = td /\ after' = Nothing /\ SamePool /\ global_vars' = global_vars /\ leaked' = leaked
  BY <1>1 DEF Continue
<1>13. h \in [Pos -> Nat]
  BY <1>3, HoldingType
<1>v. Values(ob)
  BY <1>3 DEF Settled, Typed
<1> HIDE DEF ob, hp1, none, kv, h, st, kids, td, a, ob1
<1>14. heap' = WithKids(hp1, ref_table[a], kids)
  BY <1>7, <1>9, <1>10 DEF WithKids
<1>15. k \in DOMAIN ob[a].kids
  <2>1. ob[t].size \in Nat /\ \A j \in 1 .. ob[t].size : j \in DOMAIN ob[a].kids
    BY <1>3, ListFacts DEF a
  <2>2. k \in 1 .. ob[t].size
    BY <1>3, <1>4, <2>1 DEF Pos
  <2> QED BY <2>1, <2>2
<1>16. Settled(ob1, ref_table, global_vars, none, st, kv, leaked, Plus(h, r))
  BY <1>2, <1>3, <1>11, Increfed DEF ob1
<1>17. Alike(ob, ob1) /\ Values(ob1)
  BY <1>2, <1>v, MoreType DEF ob1
<1>18. ob1[a].kids = ob[a].kids /\ Arrays(ob1) = Arrays(ob) /\ r \in Pos
  BY <1>2, <1>5, <1>17, <1>v DEF Alike, Arrays, Values
<1>19. kids \in Seq(RefOrNull) /\ Len(kids) = Len(ob1[a].kids) /\ kids[k] = r /\ \A j \in DOMAIN ob1[a].kids : j # k => kids[j] = ob1[a].kids[j]
  <2> DEFINE s == ob1[a].kids
  <2>1. s \in Seq(RefOrNull) /\ k \in DOMAIN s /\ r \in RefOrNull /\ kids = [s EXCEPT ![k] = r]
    BY <1>3, <1>10, <1>15, <1>18 DEF RefOrNull
  <2> HIDE DEF s
  <2>2. kids \in Seq(RefOrNull) /\ Len(kids) = Len(s) /\ kids[k] = r /\ \A j \in DOMAIN s : j # k => kids[j] = s[j]
    BY <2>1, ExceptType
  <2> QED BY <2>2 DEF s
<1>20. Memory(heap', ref_table, free_list, memory_pool, memory_size, FALSE) /\ Objects(heap', ref_table) = Put(ob1, a, kids)
  <2>1. /\ Memory(WithKids(hp1, ref_table[a], kids), ref_table, free_list, memory_pool, memory_size, FALSE)
        /\ Objects(WithKids(hp1, ref_table[a], kids), ref_table) = Put(Objects(hp1, ref_table), a, kids)
    BY ZenonT(40), <1>3, <1>8, <1>19, MemoryPut
  <2> QED BY <1>8, <1>14, <2>1
<1> DEFINE ob2 == Put(ob1, a, kids)
<1> HIDE DEF ob2
<1>21. Settled(ob1, ref_table, global_vars, none, st, {<<a, k>>}, leaked, Plus(h, r))
  BY <1>16 DEF kv
<1>22. a \in Arrays(ob1) /\ k \in DOMAIN ob1[a].kids /\ r \notin Arrays(ob1)
  BY <1>2, <1>3, <1>15, <1>18
<1>23. Settled(ob2, ref_table, global_vars, none, st, {}, leaked, h)
  BY <1>11, <1>13, <1>18, <1>19, <1>21, <1>22, ElementFilled DEF ob2
<1>24. Settled(ob2, ref_table, global_vars, none, st, none, leaked, Holding(refs))
  BY <1>23 DEF none, h
<1> HIDE DEF refs
<1>25. Pending(ob2, ref_table, global_vars, none, st, none, leaked, Steps("decref", refs), Zero)
  BY <1>3, <1>24, ReleaseHeld
<1>26. Pending(ob2, ref_table', global_vars', {}, stack', {}, leaked', todo', Zero) /\ ob2 = Objects(heap', ref_table')
  BY <1>1, <1>3, <1>12, <1>20, <1>25 DEF none, td, ob2
<1>27. Memory(heap', ref_table', free_list', memory_pool, memory_size, FALSE)
  BY <1>1, <1>20
<1> QED BY <1>3, <1>7, <1>12, <1>26, <1>27, NextIdle

-----------------------------------------------------------------------------
(* Deletion of an element. *)

\* The later elements move up when the element is released.
LEMMA ShiftGraph ==
  ASSUME NEW ob, NEW tb, NEW gl, NEW lk, NEW td, NEW i \in Pos, NEW t \in Pos, NEW k \in Pos, NEW n \in Pos,
         t \in Lists(ob), k <= n, ob[t].size = n - 1, NEW a, a = ob[t].kids[1],
         n \in DOMAIN ob[a].kids, ob[a].kids[n] # NULL_REF,
         NEW af, af = Then("shift", k, tb[a], n, NULL_REF, <<i, t>>),
         Pending(ob, tb, gl, {}, <<>>, {<<a, k>>}, lk, td, Holding(<<i, t>>))
  PROVE  Graph(ob, tb, gl, <<>>, lk, td, af)
<1> DEFINE rs == <<i, t>>
<1>1. rs \in Seq(Pos) /\ Len(rs) = 2 /\ rs[2] = t
  OBVIOUS
<1>2. af.to = "shift" /\ af.at = k /\ af.array = tb[a] /\ af.size = n /\ af.refs = rs
  BY DEF Then
<1> HIDE DEF rs
<1>3. VacantGlobal(af) = {} /\ VacantElement(ob, af) = {<<a, k>>}
  BY <1>1, <1>2 DEF VacantGlobal, VacantElement
<1>4. SlotOK(ob, tb, af)
  BY <1>1, <1>2 DEF SlotOK
<1>5. ShiftOK(ob, tb, af)
  BY <1>1, <1>2, <1>4 DEF ShiftOK
<1>6. Follows(ob, tb, gl, <<>>, td, af)
  BY <1>1, <1>2, <1>5 DEF Follows
<1> QED BY <1>2, <1>3, <1>6 DEF Graph, rs

\* The stack of a deletion.
LEMMA PoppedBoth ==
  ASSUME IInv, Idle, Depth = 2, Done(0), Done(1)
  PROVE  Popped(<<Top(0).ref, Top(1).ref>>, <<>>) /\ Top(0).ref \in Pos /\ Top(1).ref \in Pos
<1> DEFINE i == Top(0).ref
           t == Top(1).ref
<1>1. Popped(<<t, i>>, Pop(2)) /\ i \in Pos /\ t \in Pos
  BY PoppedPair
<1>2. Pop(2) = <<>>
  BY DEF Pop
<1> HIDE DEF i, t
<1>3. Holding(<<t, i>>) = Holding(<<i, t>>) /\ <<i, t>> \in Seq(Pos)
  <2>1. Holding(<<t, i>>) = Plus(Plus(Zero, i), t)
    BY <1>1, HoldingTwo
  <2>2. Holding(<<i, t>>) = Plus(Plus(Zero, i), t) /\ <<i, t>> \in Seq(Pos)
    BY <1>1, HoldingTwo
  <2> QED BY <2>1, <2>2
<1>4. Popped(<<i, t>>, <<>>)
  BY <1>1, <1>2, <1>3 DEF Popped
<1> QED BY <1>1, <1>4 DEF i, t

\* Elements that move up are references still.
LEMMA ShiftedType ==
  ASSUME NEW s \in Seq(RefOrNull), NEW n \in DOMAIN s, NEW k
  PROVE  Shifted(s, k, n) \in Seq(RefOrNull)
<1> DEFINE s2 == Shifted(s, k, n)
<1>1. DOMAIN s2 = 1 .. Len(s) /\ Len(s) \in Nat /\ n \in 1 .. Len(s)
  BY DEF Shifted
<1>2. ASSUME NEW j \in 1 .. Len(s)
      PROVE  s2[j] \in RefOrNull
  <2>1. NULL_REF \in RefOrNull
    BY DEF RefOrNull
  <2>2. CASE j >= k /\ j < n
    <3>1. s2[j] = s[j + 1] /\ j + 1 \in 1 .. Len(s)
      BY <1>1, <2>2 DEF Shifted
    <3> QED BY <3>1
  <2>3. CASE ~(j >= k /\ j < n)
    <3>1. s2[j] = NULL_REF \/ s2[j] = s[j]
      BY <1>1, <2>3 DEF Shifted
    <3> QED BY <2>1, <3>1
  <2> QED BY <2>2, <2>3
<1>3. s2 = [j \in 1 .. Len(s) |-> s2[j]]
  BY <1>1 DEF Shifted
<1> HIDE DEF s2
<1>4. s2 \in [1 .. Len(s) -> RefOrNull]
  BY <1>2, <1>3
<1> QED BY <1>1, <1>4 DEF s2

\* del of an element, up to its release.
LEMMA StepDelSubscript ==
  ASSUME IInv, DelSubscript
  PROVE  IInv'
<1> DEFINE ob == Objects(heap, ref_table)
           t == Top(1).ref
           i == Top(0).ref
           refs == <<i, t>>
           none == {}
           st2 == <<>>
<1>1. Idle /\ Depth = 2 /\ Done(0) /\ Done(1)
  BY DEF DelSubscript
<1>2. CASE Raise(<<>>, stack)
  BY <1>1, <1>2, PoppedNone, StepRaise
<1>3. ASSUME IsList(t), NEW k \in Positions(t), heap' = [heap EXCEPT ![ref_table[t]].size = @ - 1],
             Continue(<<>>, Steps("decref", <<Element(t, k)>>), Then("shift", k, ArrayOf(t), deref(t).size, NULL_REF, <<i, t>>)),
             ref_table' = ref_table, free_list' = free_list, status' = status
      PROVE  IInv'
  <2> DEFINE a == ob[t].kids[1]
             e == Element(t, k)
             n == ob[t].size
             h == Holding(refs)
             td == Steps("decref", <<e>>)
             af == Then("shift", k, ref_table[a], n, NULL_REF, <<i, t>>)
             ob1 == Shorter(ob, t)
  <2>1. Popped(refs, st2) /\ i \in Pos /\ t \in Pos
    BY <1>1, PoppedBoth
  <2>2. ~Framed(st2, t)
    BY DEF Framed
  <2>3. Usable(st2, e)
    BY <1>3, <2>1, <2>2, ElementUsable
  <2>4. /\ a \in Arrays(ob) /\ a \in DOMAIN ob /\ k \in DOMAIN ob[a].kids /\ e = ob[a].kids[k]
        /\ ArrayOf(t) = ref_table[a] /\ k \in Pos /\ k <= n
    BY <1>3, <2>1, <2>2, ElementUsable
  <2>5. Memory(heap, ref_table, free_list, memory_pool, memory_size, FALSE) /\ status = "ok" /\ refs \in Seq(Pos)
        /\ Settled(ob, ref_table, global_vars, none, st2, none, leaked, h)
    BY <2>1 DEF Popped
  <2>6. t \in Lists(ob) /\ t \in Live(ref_table) /\ deref(t) = ob[t]
    BY <1>3, <2>5, IsListIs
  <2>7. heap' = Shortened(heap, ref_table[t])
    BY <1>3 DEF Shortened
  <2>8. stack' = st2 /\ todo' = td /\ after' = af /\ SamePool /\ global_vars' = global_vars /\ leaked' = leaked
    BY <1>3, <2>4, <2>6 DEF Continue
  <2>9. e \in DOMAIN ob
    BY <2>3 DEF Usable
  <2>10. h \in [Pos -> Nat]
    BY <2>5, HoldingType
  <2>11. af = Then("shift", k, ref_table[a], n, NULL_REF, <<i, t>>) /\ a = ob[t].kids[1] /\ none = {} /\ n = ob[t].size
    OBVIOUS
  <2>12. n = heap[ref_table[t]].size
    BY <2>6 DEF Objects
  <2> HIDE DEF ob, none, st2, h, a, e, af, n, ob1
  <2>13. n \in Nat /\ \A j \in 1 .. n : j \in DOMAIN ob[a].kids /\ ob[a].kids[j] # NULL_REF
    <3>1. /\ ob[t].size \in Nat
          /\ \A j \in 1 .. ob[t].size : j \in DOMAIN ob[a].kids /\ (~Framed(st2, t) => ob[a].kids[j] # NULL_REF)
      <4>1. Settled(ob, ref_table, global_vars, none, st2, none, leaked, h) /\ t \in Lists(ob) /\ a = ob[t].kids[1]
        BY Zenon, <2>5, <2>6, <2>11
      <4> HIDE DEF t, i, refs, td
      <4> QED BY SMTT(40), <4>1, ListFacts
    <3>2. n = ob[t].size
      BY <2>11
    <3>3. n \in Nat /\ \A j \in 1 .. n : j \in DOMAIN ob[a].kids /\ (~Framed(st2, t) => ob[a].kids[j] # NULL_REF)
      BY SMT, <3>1, <3>2
    <3> QED BY Zenon, <2>2, <3>3
  <2>14. n \in Pos /\ n >= 1 /\ n \in 1 .. n
    BY <2>4, <2>13 DEF Pos
  <2>15. e \in Pos /\ Values(ob)
    BY <2>5, <2>9 DEF Settled, Typed, Values
  <2>16. Memory(heap', ref_table, free_list, memory_pool, memory_size, FALSE) /\ Objects(heap', ref_table) = ob1
    BY <2>5, <2>6, <2>7, <2>12, <2>14, MemoryShorter DEF ob1, ob
  <2>17. Settled(ob1, ref_table, global_vars, none, st2, none, leaked, h)
    BY <2>2, <2>5, <2>6, <2>11, <2>14, Shrunk DEF ob1
  <2>18. /\ DOMAIN ob1 = DOMAIN ob /\ ob1[t].size = n - 1
         /\ \A r \in DOMAIN ob : ob1[r].type = ob[r].type /\ ob1[r].kids = ob[r].kids
    <3>1. t \in DOMAIN ob /\ ob[t].size >= 1
      BY <2>6, <2>11, <2>14 DEF Lists
    <3> QED BY <2>11, <2>15, <3>1, ShorterType DEF ob1
  <2>19. a \in DOMAIN ob1 /\ ob1[a].kids = ob[a].kids /\ ob1[t].kids[1] = a /\ t \in Lists(ob1)
    BY <2>4, <2>6, <2>11, <2>18 DEF Lists
  <2>20. Settled(ob1, ref_table, global_vars, none, st2, {<<a, k>>}, leaked, Plus(h, ob1[a].kids[k]))
    BY <2>4, <2>11, <2>17, <2>19, ElementVacated
  <2> DEFINE kv == {<<a, k>>}
  <2>21. Settled(ob1, ref_table, global_vars, none, st2, kv, leaked, Plus(h, e))
    BY <2>4, <2>19, <2>20
  <2> HIDE DEF kv
  <2>22. Pending(ob1, ref_table, global_vars, none, st2, kv, leaked, td, h)
    BY <2>10, <2>15, <2>21, ReleaseOne
  <2> HIDE DEF td
  <2>23. Pending(ob1, ref_table, global_vars, {}, <<>>, {<<a, k>>}, leaked, td, Holding(<<i, t>>))
    BY <2>22 DEF none, st2, kv, h
  <2> HIDE DEF i, t
  <2>24. n \in DOMAIN ob1[a].kids /\ ob1[a].kids[n] # NULL_REF
    BY <2>13, <2>14, <2>19
  <2>25. Graph(ob1, ref_table, global_vars, <<>>, leaked, td, af)
    BY <2>1, <2>4, <2>11, <2>14, <2>18, <2>19, <2>23, <2>24, ShiftGraph
  <2>26. Graph(ob1, ref_table', global_vars', stack', leaked', todo', after') /\ ob1 = Objects(heap', ref_table')
    BY <1>3, <2>8, <2>16, <2>25 DEF st2
  <2>27. Memory(heap', ref_table', free_list', memory_pool, memory_size, FALSE)
    BY <1>3, <2>16
  <2> QED BY <1>3, <2>5, <2>8, <2>26, <2>27, NextState
<1> QED BY <1>2, <1>3 DEF DelSubscript

\* The later elements move up.
LEMMA StepDelElement ==
  ASSUME IInv, DelElement
  PROVE  IInv'
<1> DEFINE ob == Objects(heap, ref_table)
           refs == after.refs
           t == refs[2]
           a == ob[t].kids[1]
           k == after.at
           n == after.size
           kids == Shifted(ob[a].kids, k, n)
           none == {}
           kv == {<<a, k>>}
           h == Holding(refs)
           st == <<>>
           td == Steps("decref", refs)
<1>1. Resuming("shift") /\ Continue(stack, td, Nothing) /\ ref_table' = ref_table /\ free_list' = free_list /\ status' = status
  BY DEF DelElement
<1>2. Vacated(t, a, k) /\ ShiftOK(ob, ref_table, after)
  BY <1>1, VacatedState
<1>3. /\ status = "ok" /\ Memory(heap, ref_table, free_list, memory_pool, memory_size, FALSE)
      /\ t \in Lists(ob) /\ a \in Arrays(ob) /\ a \in Live(ref_table) /\ ref_table[a] = after.array
      /\ ob[a].kids \in Seq(RefOrNull) /\ k \in Pos /\ refs \in Seq(Pos)
      /\ Settled(ob, ref_table, global_vars, none, st, kv, leaked, h) /\ stack = st
  BY <1>2 DEF Vacated
<1>4. k <= n /\ ob[t].size = n - 1 /\ n \in DOMAIN ob[a].kids /\ ob[a].kids[n] # NULL_REF
  BY <1>2 DEF ShiftOK
<1>5. heap' = [heap EXCEPT ![ref_table[a]].kids = Shifted(@, k, n)]
  BY <1>3 DEF DelElement
<1>6. ob[a] = heap[ref_table[a]] /\ ref_table[a] \in DOMAIN heap
  BY <1>3, MemoryAt DEF Objects
<1>7. heap' = WithKids(heap, ref_table[a], kids)
  BY <1>5, <1>6 DEF WithKids
<1>8. DOMAIN st = {}
  OBVIOUS
<1>9. stack' = stack /\ todo' = td /\ after' = Nothing /\ SamePool /\ global_vars' = global_vars /\ leaked' = leaked
  BY <1>1 DEF Continue
<1>10. a = ob[t].kids[1] /\ kids = Shifted(ob[a].kids, k, n)
  OBVIOUS
<1> HIDE DEF ob, none, kv, h, st, kids, td, a
<1>11. kids \in Seq(RefOrNull)
  BY <1>3, <1>4, <1>10, ShiftedType
<1>12. Memory(heap', ref_table, free_list, memory_pool, memory_size, FALSE) /\ Objects(heap', ref_table) = Put(ob, a, kids)
  BY ZenonT(40), <1>3, <1>7, <1>11, MemoryPut DEF ob
<1>13. \A r \in Lists(ob) : ob[r].kids[1] = a => ob[r].size = n - 1
  <2>1. \A s \in Lists(ob) : ob[s].kids[1] = a => s = t
    BY <1>3, <1>10, ListFacts
  <2> QED BY <1>4, <2>1
<1>14. k \in 1 .. n
  BY <1>3, <1>4 DEF Pos
<1>15. Settled(ob, ref_table, global_vars, none, st, {<<a, k>>}, leaked, h)
  BY <1>3 DEF kv
<1> DEFINE ob2 == Put(ob, a, kids)
<1> HIDE DEF ob2
<1>16. Settled(ob2, ref_table, global_vars, none, st, {}, leaked, h)
  BY <1>3, <1>4, <1>8, <1>10, <1>13, <1>14, <1>15, ElementShifted DEF ob2
<1>17. Settled(ob2, ref_table, global_vars, none, st, none, leaked, Holding(refs))
  BY <1>16 DEF none, h
<1> HIDE DEF refs
<1>18. Pending(ob2, ref_table, global_vars, none, st, none, leaked, Steps("decref", refs), Zero)
  BY <1>3, <1>17, ReleaseHeld
<1>19. Pending(ob2, ref_table', global_vars', {}, stack', {}, leaked', todo', Zero) /\ ob2 = Objects(heap', ref_table')
  BY <1>1, <1>3, <1>9, <1>12, <1>18 DEF none, td, ob2
<1>20. Memory(heap', ref_table', free_list', memory_pool, memory_size, FALSE)
  BY <1>1, <1>12
<1> QED BY <1>1, <1>3, <1>9, <1>19, <1>20, NextIdle

-----------------------------------------------------------------------------
(* decref and mm_free. *)

\* What the C functions hold is not freed.
LEMMA HeldOwner ==
  ASSUME NEW ob, NEW tb, NEW gl, NEW gv, NEW st, NEW kv, NEW lk, NEW td, NEW h,
         Pending(ob, tb, gl, gv, st, kv, lk, td, h), NEW x \in Pos, h[x] >= 1
  PROVE  x \in DOMAIN ob /\ x \in Owners(ob) /\ ob[x].ref_count > Releasing(td, x) /\ x \notin Leaving(ob, td)
<1> DEFINE g == Cardinality(GlobalPlaces(gl, gv, x))
           e == Cardinality(ElementPlaces(ob, Owners(ob), kv, x))
           s == Held(st, x)
           l == Occurrences(lk, x)
           c == Count(ob, x)
           n == Releasing(td, x)
<1>1. /\ g \in Nat /\ s \in Nat /\ e \in Nat /\ l \in Nat /\ h[x] \in Nat /\ c \in Nat /\ n \in Nat
      /\ c = g + s + e + l + h[x] + n
  BY PendingTerms
<1> HIDE DEF g, s, e, l, c, n
<1>2. c > n /\ c # 0
  BY <1>1
<1>3. x \in DOMAIN ob /\ ob[x].ref_count = c
  BY <1>2 DEF c, Count
<1>4. ob[x].ref_count > 0 /\ ob[x].ref_count > n /\ ~(ob[x].ref_count <= n)
  BY <1>1, <1>2, <1>3
<1> QED BY <1>3, <1>4 DEF Owners, Leaving, n

\* What a value refers to is not freed before it.
LEMMA ReferredOwner ==
  ASSUME NEW ob, NEW tb, NEW gl, NEW gv, NEW st, NEW kv, NEW lk, NEW td, NEW h,
         Pending(ob, tb, gl, gv, st, kv, lk, td, h), NEW x \in Pos,
         Cardinality(ElementPlaces(ob, Owners(ob), kv, x)) # 0
  PROVE  x \in DOMAIN ob /\ x \in Owners(ob) /\ ob[x].ref_count > Releasing(td, x)
<1> DEFINE g == Cardinality(GlobalPlaces(gl, gv, x))
           e == Cardinality(ElementPlaces(ob, Owners(ob), kv, x))
           s == Held(st, x)
           l == Occurrences(lk, x)
           c == Count(ob, x)
           n == Releasing(td, x)
<1>1. /\ g \in Nat /\ s \in Nat /\ e \in Nat /\ l \in Nat /\ h[x] \in Nat /\ c \in Nat /\ n \in Nat
      /\ c = g + s + e + l + h[x] + n
  BY PendingTerms
<1>e. e # 0
  OBVIOUS
<1> HIDE DEF g, s, e, l, c, n
<1>2. c > n /\ c # 0
  BY <1>1, <1>e
<1>3. x \in DOMAIN ob /\ ob[x].ref_count = c
  BY <1>2 DEF c, Count
<1>4. ob[x].ref_count > 0 /\ ob[x].ref_count > n
  BY <1>1, <1>2, <1>3
<1> QED BY <1>3, <1>4 DEF Owners, n

\* The array of a list they hold has a count that no call takes.
LEMMA HeldList ==
  ASSUME NEW ob, NEW tb, NEW gl, NEW gv, NEW st, NEW kv, NEW lk, NEW td, NEW h,
         Pending(ob, tb, gl, gv, st, kv, lk, td, h), NEW t \in Lists(ob), t \in Pos, h[t] >= 1,
         NEW a, a = ob[t].kids[1], \A p \in kv : p[1] = a
  PROVE  a \in Arrays(ob) /\ a \in Owners(ob) /\ a \in Pos /\ ob[a].ref_count > Releasing(td, a)
<1>1. t \in Owners(ob) /\ t \notin Leaving(ob, td) /\ t \in DOMAIN ob
  BY HeldOwner
<1>2. Shape(ob, tb, gl, st, Leaving(ob, td)) /\ Values(ob)
  BY DEF Pending, Typed
<1>3. ListOK(ob, t)
  BY <1>1, <1>2 DEF Shape
<1>4. a \in Arrays(ob) /\ Len(ob[t].kids) = 1
  BY <1>3 DEF ListOK
<1>5. a \in DOMAIN ob /\ a # t
  BY <1>4 DEF Arrays, Lists
<1>6. a \in Pos /\ ob[t].kids \in Seq(RefOrNull)
  BY <1>1, <1>2, <1>5, ValueFields
<1>7. <<t, 1>> \notin kv
  BY <1>5
<1>8. 1 \in DOMAIN ob[t].kids /\ 1 \in Pos
  BY <1>4, <1>6 DEF Pos
<1> DEFINE P == ElementPlaces(ob, Owners(ob), kv, a)
<1>9. <<t, 1>> \in P
  BY <1>1, <1>7, <1>8, PlaceIs
<1>10. IsFiniteSet(P) /\ Cardinality(P) \in Nat
  <2>1. Owners(ob) \in SUBSET DOMAIN ob
    BY DEF Owners
  <2> QED BY <1>2, <2>1, PlacesFinite
<1>11. Cardinality(P) # 0
  BY <1>9, <1>10, FS_EmptySet
<1>12. ob[a].ref_count > Releasing(td, a) /\ a \in Owners(ob)
  BY <1>6, <1>11, ReferredOwner
<1> QED BY <1>4, <1>6, <1>12

\* The values that are not freed stay as they are, but for their counts.
Persist(ob, tb, ob2, tb2) ==
  \A r \in Owners(ob) : /\ r \in DOMAIN ob2 /\ tb2[r] = tb[r]
                        /\ ob2[r].type = ob[r].type /\ ob2[r].kids = ob[r].kids /\ ob2[r].size = ob[r].size

\* A list of which an element is replaced or deleted.
LEMMA SlotHeld ==
  ASSUME NEW ob, NEW tb, NEW gl, NEW st, NEW lk, NEW td, NEW af, Graph(ob, tb, gl, st, lk, td, af),
         af.to \in {"store", "shift"}, NEW t, t = af.refs[2], NEW a, a = ob[t].kids[1]
  PROVE  /\ t \in Lists(ob) /\ t \in Owners(ob) /\ a \in Arrays(ob) /\ a \in Owners(ob)
         /\ a \in Pos /\ ob[a].ref_count > Releasing(td, a) /\ VacantElement(ob, af) = {<<a, af.at>>}
<1> DEFINE gv == VacantGlobal(af)
           kv == VacantElement(ob, af)
           h == Holding(af.refs)
<1>1. Pending(ob, tb, gl, gv, st, kv, lk, td, h) /\ Follows(ob, tb, gl, st, td, af)
  BY DEF Graph
<1>2. af.refs \in Seq(Pos) /\ SlotOK(ob, tb, af) /\ Len(af.refs) >= 2
  BY <1>1 DEF Follows, StoreOK, ShiftOK
<1>3. 2 \in DOMAIN af.refs /\ t \in Pos
  BY <1>2
<1>4. t \in Lists(ob)
  BY <1>2 DEF SlotOK
<1>5. h[t] >= 1
  <2>1. Occurrences(af.refs, af.refs[2]) >= 1
    BY <1>2, <1>3, OccFound
  <2>2. h[t] = Occurrences(af.refs, t)
    BY <1>2, <1>3, HoldingType
  <2> QED BY <2>1, <2>2
<1>6. kv = {<<a, af.at>>}
  BY DEF VacantElement
<1>7. \A p \in kv : p[1] = a
  BY <1>6
<1> HIDE DEF gv, kv, h
<1>8. t \in Owners(ob)
  BY <1>1, <1>3, <1>5, HeldOwner
<1>9. a \in Arrays(ob) /\ a \in Owners(ob) /\ a \in Pos /\ ob[a].ref_count > Releasing(td, a)
  BY <1>1, <1>3, <1>4, <1>5, <1>7, HeldList
<1> QED BY <1>4, <1>6, <1>8, <1>9 DEF kv

\* What follows is not disturbed.
LEMMA FollowsKept ==
  ASSUME NEW ob, NEW tb, NEW gl, NEW st, NEW lk, NEW td, NEW af, Graph(ob, tb, gl, st, lk, td, af), td # <<>>,
         NEW ob2, NEW tb2, NEW td2, Persist(ob, tb, ob2, tb2)
  PROVE  Follows(ob2, tb2, gl, st, td2, af) /\ VacantElement(ob2, af) = VacantElement(ob, af)
<1> DEFINE gv == VacantGlobal(af)
           kv == VacantElement(ob, af)
           h == Holding(af.refs)
<1>1. Pending(ob, tb, gl, gv, st, kv, lk, td, h) /\ Follows(ob, tb, gl, st, td, af)
  BY DEF Graph
<1>2. af.refs \in Seq(Pos) /\ af.to # "list" /\ af.to # "return"
  BY <1>1 DEF Follows
<1> HIDE DEF gv, kv, h
<1>3. ASSUME NEW j \in DOMAIN af.refs
      PROVE  af.refs[j] \in Owners(ob)
  <2> DEFINE x == af.refs[j]
  <2>1. x \in Pos
    BY <1>2
  <2>2. Occurrences(af.refs, af.refs[j]) >= 1
    BY <1>2, OccFound
  <2>3. h[x] = Occurrences(af.refs, x)
    BY <1>2, <2>1, HoldingType DEF h
  <2>4. h[x] >= 1
    BY <2>2, <2>3
  <2> HIDE DEF x
  <2>5. x \in Owners(ob)
    BY <1>1, <2>1, <2>4, HeldOwner
  <2> QED BY <2>5 DEF x
<1>4. ASSUME af.to \in {"global", "store"}
      PROVE  af.ref \in DOMAIN ob2 \ Arrays(ob2)
  <2>1. af.ref \in Owners(ob)
    <3>1. CASE af.to = "global"
      <4>1. af.refs = <<af.ref>>
        BY <1>1, <3>1 DEF Follows
      <4>2. 1 \in DOMAIN af.refs /\ af.refs[1] = af.ref
        BY <4>1
      <4> QED BY <1>3, <4>2
    <3>2. CASE af.to = "store"
      <4>1. Len(af.refs) = 3 /\ af.refs[3] = af.ref
        BY <1>1, <3>2 DEF Follows, StoreOK
      <4>2. 3 \in DOMAIN af.refs
        BY <1>2, <4>1
      <4> QED BY <1>3, <4>1, <4>2
    <3> QED BY <1>4, <3>1, <3>2
  <2>2. af.ref \in DOMAIN ob \ Arrays(ob)
    BY <1>1, <1>4 DEF Follows
  <2> QED BY <2>1, <2>2 DEF Persist, Arrays
<1> DEFINE t == af.refs[2]
           a == ob[t].kids[1]
<1>5. ASSUME af.to \in {"store", "shift"}
      PROVE  /\ t \in Lists(ob2) /\ ob2[t].kids[1] = a /\ ob2[t].size = ob[t].size /\ tb2[a] = tb[a]
             /\ ob2[a].kids = ob[a].kids
  <2>1. t \in Lists(ob) /\ t \in Owners(ob) /\ a \in Owners(ob)
    BY <1>5, SlotHeld
  <2> HIDE DEF a
  <2>2. t \in Lists(ob2) /\ ob2[t].kids = ob[t].kids /\ ob2[t].size = ob[t].size /\ tb2[a] = tb[a] /\ ob2[a].kids = ob[a].kids
    BY <2>1 DEF Persist, Lists
  <2> QED BY <2>2 DEF a
<1>6. VacantElement(ob2, af) = VacantElement(ob, af)
  BY <1>5 DEF VacantElement
<1>7. ASSUME af.to \in {"store", "shift"}, SlotOK(ob, tb, af)
      PROVE  SlotOK(ob2, tb2, af)
  BY <1>5, <1>7 DEF SlotOK
<1>8. ASSUME af.to = "store"
      PROVE  StoreOK(ob2, tb2, af)
  <2>1. StoreOK(ob, tb, af)
    BY <1>1, <1>8 DEF Follows
  <2> QED BY <1>5, <1>7, <1>8, <2>1 DEF StoreOK
<1>9. ASSUME af.to = "shift"
      PROVE  ShiftOK(ob2, tb2, af)
  <2>1. ShiftOK(ob, tb, af)
    BY <1>1, <1>9 DEF Follows
  <2> QED BY <1>5, <1>7, <1>9, <2>1 DEF ShiftOK
<1>10. Follows(ob2, tb2, gl, st, td2, af)
  BY <1>1, <1>2, <1>4, <1>8, <1>9 DEF Follows
<1> QED BY <1>6, <1>10

\* The state in which a call is made.
LEMMA CallState ==
  ASSUME IInv, NEW do \in {"decref", "free"}, Calling(do)
  PROVE  /\ Memory(heap, ref_table, free_list, memory_pool, memory_size, FALSE) /\ status = "ok"
         /\ Graph(Objects(heap, ref_table), ref_table, global_vars, stack, leaked, todo, after)
         /\ todo # <<>> /\ Head(todo).do = do
<1>1. status = "ok" /\ todo # <<>> /\ Head(todo).do = do
  BY DEF Calling
<1>2. ~Gathering
  <2> SUFFICES ASSUME Gathering PROVE FALSE
    OBVIOUS
  <2>1. todo \in Seq(CopyType)
    BY DEF Gathering, Collected
  <2>2. Head(todo) \in CopyType
    BY <1>1, <2>1
  <2> QED BY <1>1, <2>2 DEF CopyType
<1> QED BY <1>1, <1>2 DEF IInv, Evaluating

\* A call is done: the state with its effects on the values and the calls left.
LEMMA CallDone ==
  ASSUME NEW ob, NEW tb, NEW gl, NEW st, NEW lk, NEW td, NEW af, Graph(ob, tb, gl, st, lk, td, af), td # <<>>,
         NEW ob2, NEW tb2, NEW td2, Persist(ob, tb, ob2, tb2),
         Pending(ob2, tb2, gl, VacantGlobal(af), st, VacantElement(ob, af), lk, td2, Holding(af.refs))
  PROVE  Graph(ob2, tb2, gl, st, lk, td2, af)
<1>1. Follows(ob2, tb2, gl, st, td2, af) /\ VacantElement(ob2, af) = VacantElement(ob, af)
  BY FollowsKept
<1> QED BY <1>1 DEF Graph

\* The vacant place is in an array that is not released.
LEMMA VacantKept ==
  ASSUME NEW ob, NEW tb, NEW gl, NEW st, NEW lk, NEW td, NEW af, Graph(ob, tb, gl, st, lk, td, af),
         NEW p \in VacantElement(ob, af)
  PROVE  p[1] \in Arrays(ob) /\ p[1] \in Pos /\ ob[p[1]].ref_count > Releasing(td, p[1]) /\ ob[p[1]].ref_count > 0
<1>1. af.to \in {"store", "shift"}
  BY DEF VacantElement
<1> DEFINE t == af.refs[2]
           a == ob[t].kids[1]
<1>2. a \in Arrays(ob) /\ a \in Owners(ob) /\ a \in Pos /\ ob[a].ref_count > Releasing(td, a) /\ VacantElement(ob, af) = {<<a, af.at>>}
  BY <1>1, SlotHeld
<1> HIDE DEF a
<1>3. p[1] = a
  BY <1>2
<1>4. ob[a].ref_count > 0
  BY <1>2 DEF Owners
<1> QED BY <1>2, <1>3, <1>4

\* decref leaves everything but counts alone.
LEMMA PersistLess ==
  ASSUME NEW ob, NEW tb, Values(ob), NEW x \in DOMAIN ob, ob[x].ref_count >= 1
  PROVE  Persist(ob, tb, Less(ob, x), tb)
<1>1. Alike(ob, Less(ob, x))
  BY LessType
<1> QED BY <1>1 DEF Alike, Persist, Owners

\* One call of decref.
LEMMA StepDecref ==
  ASSUME IInv, Decref
  PROVE  IInv'
<1> DEFINE ob == Objects(heap, ref_table)
           r == Head(todo).ref
           gv == VacantGlobal(after)
           kv == VacantElement(ob, after)
           h == Holding(after.refs)
<1>1. Calling("decref") /\ SameProgram /\ ref_table' = ref_table /\ free_list' = free_list /\ after' = after
  BY DEF Decref
<1>2. /\ Memory(heap, ref_table, free_list, memory_pool, memory_size, FALSE) /\ status = "ok"
      /\ Graph(ob, ref_table, global_vars, stack, leaked, todo, after) /\ todo # <<>> /\ Head(todo).do = "decref"
  BY <1>1, CallState
<1>3. Pending(ob, ref_table, global_vars, gv, stack, kv, leaked, todo, h)
  BY <1>2 DEF Graph
<1>4. SamePool /\ global_vars' = global_vars /\ stack' = stack /\ leaked' = leaked
  BY <1>1 DEF SameProgram
<1>5. todo \in Seq(ReleaseType) /\ Values(ob)
  BY <1>3 DEF Pending, Typed
<1>6. r \in RefOrNull /\ Head(todo) = Step("decref", r)
  <2>1. Head(todo) \in ReleaseType /\ Head(todo) = Step(Head(todo).do, Head(todo).ref)
    BY <1>2, <1>5, NextCall
  <2>2. Head(todo).ref \in RefOrNull
    BY <2>1 DEF ReleaseType, RefOrNull
  <2> QED BY <1>2, <2>1, <2>2
<1>7. r # TOMBSTONE_REF
  BY <1>6 DEF RefOrNull, Pos, NULL_REF, TOMBSTONE_REF
<1>8. Tail(todo) \in Seq(ReleaseType)
  BY <1>2, <1>5, NextCall
<1>o. DOMAIN ob = Live(ref_table)
  BY DEF Objects
<1> HIDE DEF ob, gv, kv, h, r
<1>r. r = Head(todo).ref
  BY DEF r
<1>9. CASE r = NULL_REF
  <2>1. heap' = heap /\ status' = status /\ todo' = Tail(todo)
    BY <1>9, <1>r DEF Decref
  <2>2. Pending(ob, ref_table, global_vars, gv, stack, kv, leaked, Tail(todo), h)
    BY <1>2, <1>3, <1>9, <1>r, DecrefNull
  <2>3. Persist(ob, ref_table, ob, ref_table)
    BY DEF Persist, Owners
  <2>4. Graph(ob, ref_table, global_vars, stack, leaked, Tail(todo), after)
    BY <1>2, <2>2, <2>3, CallDone DEF gv, kv, h
  <2>5. Graph(ob, ref_table', global_vars', stack', leaked', todo', after') /\ ob = Objects(heap', ref_table')
    BY <1>1, <1>4, <2>1, <2>4 DEF ob
  <2>6. Memory(heap', ref_table', free_list', memory_pool, memory_size, FALSE)
    BY <1>1, <1>2, <2>1
  <2> QED BY <1>2, <1>4, <2>1, <2>5, <2>6, NextState
<1>10. CASE r # NULL_REF
  <2>1. r \in DOMAIN ob /\ r \in Pos /\ ob[r].ref_count >= 1 /\ Releasing(todo, r) >= 1 /\ Releasing(todo, r) <= ob[r].ref_count
    BY <1>2, <1>3, <1>10, <1>r, DecrefLive
  <2>2. r \in Live(ref_table)
    BY <1>o, <2>1
  <2>3. Valid(r) /\ deref(r) = ob[r]
    BY <1>2, <2>2, ValidIs DEF ob
  <2> DEFINE td2 == (IF deref(r).ref_count > 1 THEN <<>> ELSE Releases(r)) \o Tail(todo)
             ob2 == Less(ob, r)
  <2>4. heap' = Uncounted(heap, ref_table[r]) /\ status' = status /\ todo' = td2
    BY <1>7, <1>10, <1>r, <2>3 DEF Decref, Uncounted
  <2>5. Memory(heap', ref_table, free_list, memory_pool, memory_size, FALSE) /\ Objects(heap', ref_table) = ob2
    BY <1>2, <2>2, <2>4, MemoryLess DEF ob
  <2>6. ob[r].ref_count \in Nat /\ ob[r].kids \in Seq(RefOrNull)
    BY <1>5, <2>1, ValueFields
  <2>7. Persist(ob, ref_table, ob2, ref_table)
    BY <1>5, <2>1, PersistLess
  <2>8. Pending(ob2, ref_table, global_vars, gv, stack, kv, leaked, td2, h)
    <3>1. CASE ob[r].ref_count > 1
      <4>1. td2 = Tail(todo)
        <5>1. <<>> \o Tail(todo) = Tail(todo)
          BY <1>8
        <5> QED BY <2>3, <3>1, <5>1
      <4> HIDE DEF td2
      <4>2. Pending(Less(ob, r), ref_table, global_vars, gv, stack, kv, leaked, Tail(todo), h)
        BY <1>2, <1>3, <1>10, <1>r, <3>1, DecrefMore
      <4> QED BY <4>1, <4>2
    <3>2. CASE ~(ob[r].ref_count > 1)
      <4>1. Queued(ob[r].kids, r, Tail(todo), td2)
        BY <2>3, <3>2 DEF Queued, Releases
      <4>2. ob[r].ref_count <= 1
        BY <2>6, <3>2
      <4>3. ASSUME NEW p \in kv
            PROVE  p[1] # r
        <5>1. ob[p[1]].ref_count > Releasing(todo, p[1]) /\ p[1] \in Pos
          BY <1>2, <4>3, VacantKept DEF kv
        <5>2. Releasing(todo, r) \in Nat
          BY <1>3, <2>1, PendingTerms
        <5> QED BY <2>1, <2>6, <4>2, <5>1, <5>2
      <4> HIDE DEF td2
      <4>4. Pending(Less(ob, r), ref_table, global_vars, gv, stack, kv, leaked, td2, h)
        BY <1>2, <1>3, <1>10, <1>r, <4>1, <4>2, <4>3, DecrefLast
      <4> QED BY <4>4
    <3> QED BY <3>1, <3>2
  <2> HIDE DEF td2, ob2
  <2>9. Graph(ob2, ref_table, global_vars, stack, leaked, td2, after)
    BY <1>2, <2>7, <2>8, CallDone DEF gv, kv, h
  <2>10. Graph(ob2, ref_table', global_vars', stack', leaked', todo', after') /\ ob2 = Objects(heap', ref_table')
    BY <1>1, <1>4, <2>4, <2>5, <2>9
  <2>11. Memory(heap', ref_table', free_list', memory_pool, memory_size, FALSE)
    BY <1>1, <2>5
  <2> QED BY <1>2, <1>4, <2>4, <2>10, <2>11, NextState
<1> QED BY <1>9, <1>10

\* One call of mm_free.
LEMMA StepFree ==
  ASSUME IInv, Free
  PROVE  IInv' /\ Objects(heap', ref_table') = Dropping(Objects(heap, ref_table), Head(todo).ref)
<1> DEFINE ob == Objects(heap, ref_table)
           r == Head(todo).ref
           a == ref_table[r]
           gv == VacantGlobal(after)
           kv == VacantElement(ob, after)
           h == Holding(after.refs)
           ob2 == Dropping(ob, r)
<1>1. /\ Calling("free") /\ SameProgram /\ heap' = Without(heap, {a}) /\ ref_table' = [ref_table EXCEPT ![r] = NULL]
      /\ free_list' = mm_free(free_list, a, heap[a].value_size) /\ todo' = Tail(todo) /\ after' = after /\ status' = status
  BY DEF Free
<1>2. /\ Memory(heap, ref_table, free_list, memory_pool, memory_size, FALSE) /\ status = "ok"
      /\ Graph(ob, ref_table, global_vars, stack, leaked, todo, after) /\ todo # <<>> /\ Head(todo).do = "free"
  BY <1>1, CallState
<1>3. Pending(ob, ref_table, global_vars, gv, stack, kv, leaked, todo, h)
  BY <1>2 DEF Graph
<1>4. SamePool /\ global_vars' = global_vars /\ stack' = stack /\ leaked' = leaked
  BY <1>1 DEF SameProgram
<1>o. DOMAIN ob = Live(ref_table)
  BY DEF Objects
<1>5. free_list' = <<SpanOf(heap, a)>> \o free_list
  BY <1>1 DEF mm_free, SpanOf
<1> HIDE DEF ob, gv, kv, h, r
<1>r. r = Head(todo).ref
  BY DEF r
<1>6. r \in Pos /\ r \in DOMAIN ob /\ ob[r].ref_count = 0
  BY <1>2, <1>3, <1>r, FreeLive
<1>7. r \in Live(ref_table)
  BY <1>6, <1>o
<1> DEFINE hp2 == heap'
           tb2 == ref_table'
           fl2 == free_list'
<1>s. hp2 = Without(heap, {ref_table[r]}) /\ tb2 = [ref_table EXCEPT ![r] = NULL] /\ fl2 = <<SpanOf(heap, ref_table[r])>> \o free_list
  BY <1>1, <1>5
<1> HIDE DEF hp2, tb2, fl2
<1>m. Memory(heap, ref_table, free_list, memory_pool, memory_size, FALSE)
  BY <1>2
<1>d. Discards(heap, ref_table, free_list, r, hp2, tb2, fl2)
  BY <1>s DEF Discards
<1>f. Discarded(heap, ref_table, memory_pool, memory_size, r, hp2, tb2, fl2)
  BY <1>m, <1>d, <1>7, MemoryFreed
<1>8. Memory(heap', ref_table', free_list', memory_pool, memory_size, FALSE)
  BY <1>f DEF hp2, tb2, fl2, Discarded
<1>9. Objects(heap', ref_table') = ob2 /\ \A s \in DOMAIN ob : s # r => ref_table'[s] = ref_table[s]
  BY <1>f DEF ob, hp2, tb2, Discarded
<1>g. Objects(heap', ref_table') = Dropping(Objects(heap, ref_table), Head(todo).ref)
  BY <1>9 DEF ob, r
<1>10. \A p \in kv : p[1] \in Arrays(ob)
  BY <1>2, VacantKept DEF kv
<1>11. Pending(ob2, ref_table', global_vars, gv, stack, kv, leaked, Tail(todo), h)
  BY <1>2, <1>3, <1>9, <1>10, <1>r, Freed
<1>12. Persist(ob, ref_table, ob2, ref_table')
  <2>1. \A s \in Owners(ob) : s \in DOMAIN ob /\ s # r
    BY <1>6 DEF Owners
  <2> QED BY <1>9, <2>1 DEF Persist, Dropping
<1> HIDE DEF ob2
<1>13. Graph(ob2, ref_table', global_vars, stack, leaked, Tail(todo), after)
  BY <1>2, <1>11, <1>12, CallDone DEF gv, kv, h
<1>14. Graph(ob2, ref_table', global_vars', stack', leaked', todo', after') /\ ob2 = Objects(heap', ref_table')
  BY <1>1, <1>4, <1>9, <1>13
<1> QED BY <1>1, <1>2, <1>4, <1>8, <1>14, <1>g, NextState

-----------------------------------------------------------------------------
(* Collections. *)

\* The half of the pool.
LEMMA HalfType == Half \in Pos /\ Half \in Nat
<1>1. PoolSize \in Nat /\ PoolSize > 3 * Header /\ Header \in Nat /\ Header >= 1
  BY RefsAssumption, HeaderAssumption
<1>2. PoolSize >= 2
  BY <1>1
<1>3. PoolSize \div 2 \in Nat /\ PoolSize \div 2 >= 1
  BY <1>1, <1>2
<1> QED BY <1>3 DEF Half, Pos

\* The state of a collection.
LEMMA GatherState ==
  ASSUME IInv, status = "ok", Calling("copy") \/ Resuming("sweep")
  PROVE  /\ Memory(heap, ref_table, free_list, memory_pool, memory_size, TRUE)
         /\ Collected(Objects(heap, ref_table), Home(ref_table, memory_pool, memory_size), ref_table, global_vars, todo)
         /\ stack = <<>> /\ leaked = <<>> /\ after = SweepNext /\ f \in BOOLEAN /\ PoolIs(memory_pool, memory_size)
<1>1. ~Evaluating
  <2> SUFFICES ASSUME Evaluating PROVE FALSE
    OBVIOUS
  <2>1. Graph(Objects(heap, ref_table), ref_table, global_vars, stack, leaked, todo, after)
    BY DEF Evaluating
  <2>2. CASE Calling("copy")
    <3>1. todo # <<>> /\ Head(todo).do = "copy"
      BY <2>2 DEF Calling
    <3>2. todo \in Seq(ReleaseType)
      BY <2>1 DEF Graph, Pending
    <3>3. Head(todo) \in ReleaseType
      BY <3>1, <3>2
    <3> QED BY <3>1, <3>3 DEF ReleaseType
  <2>3. CASE Resuming("sweep")
    BY <2>1, <2>3, GraphTo DEF Resuming
  <2> QED BY <2>2, <2>3
<1>2. f \in BOOLEAN /\ PoolIs(memory_pool, memory_size) /\ Gathering
  BY <1>1 DEF IInv
<1> QED BY <1>2 DEF Gathering

\* The next one.
LEMMA GatherNext ==
  ASSUME status' = "ok", f' \in BOOLEAN, PoolIs(memory_pool', memory_size'), NEW ob, ob = Objects(heap', ref_table'),
         NEW in, in = Home(ref_table', memory_pool', memory_size'),
         Memory(heap', ref_table', free_list', memory_pool', memory_size', TRUE),
         Collected(ob, in, ref_table', global_vars', todo'), stack' = <<>>, leaked' = <<>>, after' = SweepNext
  PROVE  IInv'
<1>1. Gathering'
  BY DEF Gathering, SweepNext, Then
<1>2. status' # "asserted"
  OBVIOUS
<1>3. PoolIs(memory_pool, memory_size)'
  BY DEF PoolIs, Half
<1> QED BY <1>1, <1>2, <1>3 DEF IInv

\* A collection begins, with nothing on the stack of the evaluator.
LEMMA StepGc ==
  ASSUME IInv, Gc, NestedGc = FALSE
  PROVE  IInv'
<1> DEFINE ob == Objects(heap, ref_table)
           none == {}
           st == <<>>
           td == Steps("copy", RefsOf(global_vars))
           l2 == NextHalf
           n2 == Half
<1>1. /\ Idle /\ Depth = 0 /\ f' = ~f /\ memory_pool' = l2 /\ memory_size' = n2 /\ free_list' = mm_init(l2, n2)
      /\ leaked' = <<>> /\ todo' = td /\ after' = SweepNext
      /\ heap' = heap /\ ref_table' = ref_table /\ global_vars' = global_vars /\ stack' = stack
  BY DEF Gc, Ready, SweepNext
<1>2. status' = IF ToSpaceClear THEN "ok" ELSE "corrupt"
  BY DEF Gc
<1>3. CASE ~ToSpaceClear
  BY <1>2, <1>3 DEF IInv
<1>4. CASE ToSpaceClear
  <2>1. Memory(heap, ref_table, free_list, memory_pool, memory_size, FALSE) /\ Settled(ob, ref_table, global_vars, none, stack, none, leaked, Zero)
    BY <1>1, IdleState
  <2>2. stack = st
    <3>1. stack \in Seq(FrameType)
      BY <2>1 DEF Settled, Typed
    <3> QED BY <1>1, <3>1 DEF Depth
  <2>3. Settled(ob, ref_table, global_vars, {}, <<>>, {}, leaked, Zero)
    BY <2>1, <2>2
  <2>4. l2 \in Nat /\ n2 \in Pos /\ PoolIs(l2, n2)
    BY HalfType DEF NextHalf, PoolIs
  <2>5. \A a \in DOMAIN heap : a + heap[a].value_size <= l2 \/ a >= l2 + n2
    BY <1>4 DEF ToSpaceClear
  <2>6. f' \in BOOLEAN
    BY <1>1
  <2>o. ob = Objects(heap', ref_table')
    BY <1>1
  <2> HIDE DEF l2, n2, ob, td
  <2>7. Memory(heap, ref_table, mm_init(l2, n2), l2, n2, TRUE) /\ Home(ref_table, l2, n2) = {}
    BY <2>1, <2>4, <2>5, MemoryFlip
  <2>8. Collected(ob, {}, ref_table, global_vars, td)
    BY <2>3, CollectStart DEF td
  <2> DEFINE in == Home(ref_table, l2, n2)
  <2>9. Collected(ob, in, ref_table, global_vars, td)
    BY <2>7, <2>8
  <2>10. in = Home(ref_table', memory_pool', memory_size')
    BY <1>1
  <2> HIDE DEF in
  <2>11. Memory(heap', ref_table', free_list', memory_pool', memory_size', TRUE)
    BY <1>1, <2>7
  <2>12. Collected(ob, in, ref_table', global_vars', todo') /\ stack' = <<>>
    BY <1>1, <2>2, <2>9
  <2>13. status' = "ok" /\ PoolIs(memory_pool', memory_size')
    BY <1>1, <1>2, <1>4, <2>4
  <2> QED BY <1>1, <2>6, <2>10, <2>11, <2>12, <2>13, <2>o, GatherNext
<1> QED BY <1>3, <1>4

\* gc() is about to return.
LEMMA ReturnGraph ==
  ASSUME NEW ob, NEW tb, NEW gl, NEW lk, NEW af, af = Then("return", 0, NULL, 0, NONE_REF, <<>>),
         Settled(ob, tb, gl, {}, <<>>, {}, lk, Zero)
  PROVE  Graph(ob, tb, gl, <<>>, lk, <<>>, af)
<1> DEFINE none == {}
           st == <<>>
<1>1. af.to = "return" /\ af.ref = NONE_REF /\ af.refs = <<>>
  BY DEF Then
<1>2. VacantGlobal(af) = {} /\ VacantElement(ob, af) = {}
  BY <1>1 DEF VacantGlobal, VacantElement
<1>3. Holding(af.refs) = Zero
  BY <1>1, NothingIs
<1>4. Follows(ob, tb, gl, <<>>, <<>>, af)
  <2>1. <<>> \in Seq(Pos)
    OBVIOUS
  <2> QED BY <1>1, <2>1 DEF Follows
<1>5. Settled(ob, tb, gl, none, st, none, lk, Zero)
  OBVIOUS
<1> HIDE DEF none, st
<1>6. Pending(ob, tb, gl, none, st, none, lk, <<>>, Zero)
  BY <1>5, SettledPending, ZeroType
<1> QED BY <1>2, <1>3, <1>4, <1>6 DEF Graph, none, st

\* A collection ends.
LEMMA StepSweep ==
  ASSUME IInv, Sweep
  PROVE  IInv'
<1> DEFINE ob == Objects(heap, ref_table)
           in == Home(ref_table, memory_pool, memory_size)
           ob2 == Objects(heap', ref_table')
           hp2 == heap'
           tb2 == ref_table'
           af == Then("return", 0, NULL, 0, NONE_REF, <<>>)
<1>1. Resuming("sweep") /\ after' = af /\ SameProgram /\ free_list' = free_list /\ todo' = todo /\ status' = status
  BY DEF Sweep
<1>2. status = "ok" /\ todo = <<>>
  BY <1>1 DEF Resuming
<1>3. /\ Memory(heap, ref_table, free_list, memory_pool, memory_size, TRUE)
      /\ Collected(ob, in, ref_table, global_vars, <<>>) /\ stack = <<>> /\ leaked = <<>>
  BY <1>1, <1>2, GatherState
<1>4. Sweeps(heap, ref_table, memory_pool, memory_size, hp2, tb2)
  BY DEF Sweep, Sweeps, is_pool_address, InPool
<1>5. SamePool /\ global_vars' = global_vars /\ stack' = stack /\ leaked' = leaked
  BY <1>1 DEF SameProgram
<1>6. af = Then("return", 0, NULL, 0, NONE_REF, <<>>)
  OBVIOUS
<1> HIDE DEF hp2, tb2, af
<1>7. Memory(hp2, tb2, free_list, memory_pool, memory_size, FALSE) /\ Objects(hp2, tb2) = Kept(ob, in)
  <2>1. SweptTo(heap, ref_table, free_list, memory_pool, memory_size, hp2, tb2)
    BY <1>3, <1>4, MemorySwept
  <2> QED BY <2>1 DEF SweptTo
<1> HIDE DEF ob, in
<1>8. Settled(Kept(ob, in), tb2, global_vars, {}, <<>>, {}, <<>>, Zero)
  BY <1>3, Swept
<1>9. Settled(ob2, tb2, global_vars, {}, <<>>, {}, leaked, Zero)
  BY <1>3, <1>7, <1>8 DEF hp2, tb2
<1> HIDE DEF ob2
<1>10. Graph(ob2, tb2, global_vars, <<>>, leaked, <<>>, af)
  BY <1>6, <1>9, ReturnGraph
<1>11. Graph(ob2, ref_table', global_vars', stack', leaked', todo', after') /\ ob2 = Objects(heap', ref_table')
  BY <1>1, <1>2, <1>3, <1>5, <1>10 DEF tb2, ob2
<1>12. Memory(heap', ref_table', free_list', memory_pool, memory_size, FALSE)
  BY <1>1, <1>7 DEF hp2, tb2
<1> QED BY <1>1, <1>2, <1>5, <1>11, <1>12, NextState

\* A value with a count of one.
LEMMA CopiedType ==
  ASSUME NEW v \in ValueType
  PROVE  Copied(v) \in ValueType /\ Copied(v).value_size = v.value_size
BY DEF Copied, ValueType

\* The same references with the same contents.
SameValues(ob, ob2) == DOMAIN ob2 = DOMAIN ob /\ \A q \in DOMAIN ob : SameContents(ob2[q], ob[q])

\* Counting or copying a value changes its count at most.
LEMMA SameValuesIs ==
  ASSUME NEW ob, NEW r \in DOMAIN ob, Values(ob)
  PROVE  SameValues(ob, ob) /\ SameValues(ob, More(ob, r)) /\ SameValues(ob, Moved(ob, r))
<1>1. DOMAIN More(ob, r) = DOMAIN ob /\ DOMAIN Moved(ob, r) = DOMAIN ob
  BY DEF More, Moved
<1>2. \A q \in DOMAIN ob : q # r => More(ob, r)[q] = ob[q] /\ Moved(ob, r)[q] = ob[q]
  BY DEF More, Moved
<1>3. SameContents(More(ob, r)[r], ob[r])
  <2>1. ob[r] \in ValueType
    BY ValueFields
  <2>2. More(ob, r)[r] = [ob[r] EXCEPT !.ref_count = @ + 1]
    BY DEF More
  <2> QED BY <2>1, <2>2 DEF SameContents, ValueType
<1>4. SameContents(Moved(ob, r)[r], ob[r])
  <2>1. ob[r] \in ValueType
    BY ValueFields
  <2>2. Moved(ob, r)[r] = [ob[r] EXCEPT !.ref_count = 1]
    BY DEF Moved, Copied
  <2> QED BY <2>1, <2>2 DEF SameContents, ValueType
<1>5. \A q : SameContents(ob[q], ob[q])
  BY DEF SameContents
<1> QED BY <1>1, <1>2, <1>3, <1>4, <1>5 DEF SameValues

\* operate_global.
LEMMA StepCopy ==
  ASSUME IInv, Copy
  PROVE  IInv' /\ SameValues(Objects(heap, ref_table), Objects(heap', ref_table'))
<1> DEFINE ob == Objects(heap, ref_table)
           ob2 == Objects(heap', ref_table')
           in == Home(ref_table, memory_pool, memory_size)
           in2 == Home(ref_table', memory_pool', memory_size')
           r == Head(todo).ref
           m == deref(r).value_size
           c == CarvedFrom(free_list, m)
<1>1. Calling("copy") /\ SameProgram /\ after' = after
  BY DEF Copy
<1>2. status = "ok" /\ todo # <<>>
  BY <1>1 DEF Calling
<1>3. /\ Memory(heap, ref_table, free_list, memory_pool, memory_size, TRUE)
      /\ Collected(ob, in, ref_table, global_vars, todo)
      /\ stack = <<>> /\ leaked = <<>> /\ after = SweepNext /\ f \in BOOLEAN /\ PoolIs(memory_pool, memory_size)
  BY <1>1, <1>2, GatherState
<1>4. /\ memory_pool' = memory_pool /\ memory_size' = memory_size /\ f' = f
      /\ global_vars' = global_vars /\ stack' = stack /\ leaked' = leaked
  BY <1>1 DEF SameProgram, SamePool
<1>5. f' \in BOOLEAN /\ PoolIs(memory_pool', memory_size') /\ stack' = <<>> /\ leaked' = <<>> /\ after' = SweepNext
  BY <1>1, <1>3, <1>4
<1>6. r \in RefOrNull /\ r # TOMBSTONE_REF
  <2>1. todo \in Seq(CopyType)
    BY <1>3 DEF Collected
  <2>2. r \in RefOrNull
    BY <1>2, <2>1, NextCopy
  <2> QED BY <2>2 DEF RefOrNull, Pos, NULL_REF, TOMBSTONE_REF
<1>7. memory_pool \in Nat /\ memory_size \in Nat
  BY <1>3, MemoryObjects
<1>8. CASE r = NULL_REF
  <2>1. heap' = heap /\ ref_table' = ref_table /\ free_list' = free_list /\ status' = status /\ todo' = Tail(todo)
    BY <1>8 DEF Copy, SameMemory
  <2>2. ob2 = ob /\ in2 = in
    BY <1>4, <2>1
  <2>v. SameValues(ob, ob2)
    BY <2>2 DEF SameValues, SameContents
  <2> HIDE DEF ob, in, r
  <2>3. Collected(ob, in, ref_table, global_vars, Tail(todo))
    BY <1>2, <1>3, <1>8, CopyNull DEF r
  <2>4. Memory(heap', ref_table', free_list', memory_pool', memory_size', TRUE)
    BY <1>3, <1>4, <2>1
  <2>5. Collected(ob2, in2, ref_table', global_vars', todo') /\ status' = "ok"
    BY <1>2, <1>4, <2>1, <2>2, <2>3
  <2> HIDE DEF ob2
  <2> QED BY <1>5, <2>4, <2>5, <2>v, GatherNext DEF ob2, ob
<1>9. CASE r # NULL_REF /\ Valid(r)
  <2>1. heap' = Counted(heap, ref_table[r]) /\ todo' = Tail(todo) /\ ref_table' = ref_table /\ free_list' = free_list /\ status' = status
    BY <1>6, <1>9 DEF Copy
  <2>2. r \in DOMAIN ref_table /\ InPool(ref_table[r], memory_pool, memory_size)
    BY <1>9 DEF Valid, is_pool_address, InPool
  <2>3. ref_table[r] # NULL
    BY <1>7, <2>2 DEF InPool, NULL
  <2>4. r \in Live(ref_table) /\ r \in in
    BY <2>2, <2>3 DEF Live, Home
  <2>5. Memory(heap', ref_table, free_list, memory_pool, memory_size, TRUE) /\ ob2 = More(ob, r)
    BY <1>3, <2>1, <2>4, MemoryCounted
  <2>6. in2 = in
    BY <1>4, <2>1
  <2>r. r = Head(todo).ref
    OBVIOUS
  <2> HIDE DEF ob, ob2, in, in2, r
  <2>7. Collected(ob2, in, ref_table, global_vars, Tail(todo))
    BY <1>2, <1>3, <2>4, <2>5, <2>r, CopyAgain
  <2>8. Memory(heap', ref_table', free_list', memory_pool', memory_size', TRUE)
    BY <1>4, <2>1, <2>5
  <2>v. SameValues(ob, ob2)
    <3>1. Values(ob) /\ r \in DOMAIN ob
      BY <1>3, <2>4 DEF Collected
    <3> QED BY <2>5, <3>1, SameValuesIs
  <2>9. Collected(ob2, in2, ref_table', global_vars', todo') /\ status' = "ok"
    BY <1>2, <1>4, <2>1, <2>6, <2>7
  <2> QED BY <1>5, <2>8, <2>9, <2>v, GatherNext DEF ob2, in2, ob
<1>10. CASE r # NULL_REF /\ ~Valid(r) /\ (r \notin DOMAIN ref_table \/ ref_table[r] = NULL \/ ~Fits(m))
  <2>1. status' = "crashed" /\ heap' = heap /\ ref_table' = ref_table
    BY <1>6, <1>10 DEF Copy
  <2>2. SameValues(ob, ob2)
    BY <2>1 DEF SameValues, SameContents
  <2> QED BY <2>1, <2>2 DEF IInv
<1>11. CASE r # NULL_REF /\ ~Valid(r) /\ ~(r \notin DOMAIN ref_table \/ ref_table[r] = NULL \/ ~Fits(m))
  <2> DEFINE v == Copied(deref(r))
             td2 == Steps("copy", deref(r).kids) \o Tail(todo)
             i == BestFit(free_list, m)
             fl2 == LeftOver(free_list, m)
             hp2 == heap'
             tb2 == ref_table'
  <2>1. /\ hp2 = Placed(heap, c.addr, v) /\ tb2 = [ref_table EXCEPT ![r] = c.addr]
        /\ free_list' = fl2 /\ todo' = td2 /\ status' = status
    BY <1>6, <1>11 DEF Copy
  <2>2. r \in Live(ref_table) /\ LargeEnough(free_list, m) # {}
    BY <1>11 DEF Live, Fits
  <2>3. r \notin in
    BY <1>11, <2>2 DEF Home, Valid, is_pool_address, InPool, Live
  <2>4. deref(r) = heap[ref_table[r]] /\ deref(r) = ob[r] /\ deref(r) \in ValueType
    <3>1. heap[ref_table[r]] \in ValueType
      BY <1>3, <2>2, MemoryAt
    <3> QED BY <2>2, <3>1 DEF deref, Objects
  <2>5. m \in Pos /\ v \in ValueType /\ v.value_size = m
    BY <2>4, CopiedType DEF ValueType
  <2>6. free_list \in Seq(BlockType) /\ FreeApart(free_list)
    BY <1>3 DEF Memory, PoolOK
  <2>7. CopyQueued(ob[r].kids, Tail(todo), td2)
    BY <2>4 DEF CopyQueued
  <2>8. v = Copied(heap[ref_table[r]])
    BY <2>4
  <2>r. r = Head(todo).ref /\ ob2 = Objects(hp2, tb2) /\ i = BestFit(free_list, m) /\ c = CarvedFrom(free_list, m) /\ fl2 = LeftOver(free_list, m)
    OBVIOUS
  <2> HIDE DEF m, c, i, fl2, v, td2, hp2, tb2, r
  <2>9. Taken(free_list, m, i, c, fl2) /\ FreeApart(fl2)
    BY <2>2, <2>5, <2>6, <2>r, TakenBlock
  <2>10. Allocates(heap, free_list, m, i, c, fl2, v, hp2, TRUE)
    BY <2>1, <2>5, <2>9 DEF Allocates
  <2>11. Moves(heap, ref_table, r, c, hp2, tb2, v)
    BY <2>1, <2>8 DEF Moves
  <2>12. MovedTo(heap, ref_table, memory_pool, memory_size, r, hp2, tb2, fl2)
    BY <1>3, <2>2, <2>3, <2>10, <2>11, MemoryMoved
  <2>13. Memory(hp2, tb2, fl2, memory_pool, memory_size, TRUE) /\ ob2 = Moved(ob, r) /\ Home(tb2, memory_pool, memory_size) = in \cup {r}
    BY <2>12, <2>r DEF MovedTo
  <2> HIDE DEF ob, ob2, in
  <2>14. Collected(Moved(ob, r), in \cup {r}, tb2, global_vars, td2)
    BY <1>2, <1>3, <1>11, <2>3, <2>7, <2>r, CopyFirst
  <2>v. SameValues(ob, ob2)
    <3>1. Values(ob) /\ r \in DOMAIN ob
      BY <1>3, <2>2 DEF Collected, ob, Objects
    <3> QED BY <2>13, <3>1, SameValuesIs
  <2>15. in2 = in \cup {r}
    BY <1>4, <2>13 DEF tb2
  <2>16. Memory(heap', ref_table', free_list', memory_pool', memory_size', TRUE)
    BY <1>4, <2>1, <2>13 DEF hp2, tb2
  <2> HIDE DEF in2
  <2>17. Collected(ob2, in2, ref_table', global_vars', todo') /\ status' = "ok"
    BY <1>2, <1>4, <2>1, <2>13, <2>14, <2>15 DEF tb2
  <2> QED BY <1>5, <2>16, <2>17, <2>v, GatherNext DEF ob2, in2, ob
<1> QED BY <1>8, <1>9, <1>10, <1>11

-----------------------------------------------------------------------------
(* The first state. *)

\* The pool of three values without elements, and the free block behind them.
LEMMA InitPool ==
  ASSUME NEW hp, NEW fl, NEW n \in Nat, n > 3 * Header,
         hp \in [{0, Header, 2 * Header} -> ValueType],
         \A a \in DOMAIN hp : hp[a].value_size = Header,
         fl = <<Block(3 * Header, n - 3 * Header)>>
  PROVE  PoolOK(hp, fl, 0, n, FALSE)
<1>1. Header \in Pos /\ Header \in Nat /\ Header >= 1
  BY HeaderAssumption DEF Pos
<1>2. DOMAIN hp = {0, Header, 2 * Header} /\ HeapType(hp)
  BY <1>1 DEF HeapType
<1>3. \A a \in DOMAIN hp : SpanOf(hp, a).addr = a /\ SpanOf(hp, a).size = Header
  BY DEF SpanOf, Block
<1> DEFINE b == Block(3 * Header, n - 3 * Header)
<1>4. b.addr = 3 * Header /\ b.size = n - 3 * Header /\ b \in BlockType
  BY <1>1 DEF Block, BlockType, Pos
<1>5. fl \in Seq(BlockType) /\ DOMAIN fl = {1} /\ fl[1] = b /\ Len(fl) = 1
  BY <1>4
<1> HIDE DEF b
<1>6. \A a, c \in DOMAIN hp : a = c \/ Apart(SpanOf(hp, a), SpanOf(hp, c))
  BY <1>1, <1>2, <1>3 DEF Apart
<1>7. \A a \in DOMAIN hp : Apart(SpanOf(hp, a), b) /\ Inside(SpanOf(hp, a), 0, n)
  BY <1>1, <1>2, <1>3, <1>4 DEF Apart, Inside
<1>8. Inside(b, 0, n)
  BY <1>1, <1>4 DEF Inside
<1>9. Lost(hp, fl, 0, n) = {}
  <2> SUFFICES ASSUME NEW w \in 0 .. 0 + n - 1, \A a \in DOMAIN hp : w \notin Words(SpanOf(hp, a)), w \notin Words(b)
               PROVE  FALSE
    BY <1>5 DEF Lost
  <2>1. \A a \in DOMAIN hp : ~(a <= w /\ w <= a + Header - 1)
    BY <1>3 DEF Words
  <2>2. ~(3 * Header <= w /\ w <= 3 * Header + (n - 3 * Header) - 1)
    BY <1>4 DEF Words
  <2> QED BY <1>1, <1>2, <2>1, <2>2
<1>10. Cardinality(Lost(hp, fl, 0, n)) <= Header
  <2>1. Cardinality({}) = 0
    BY FS_EmptySet
  <2>2. Cardinality(Lost(hp, fl, 0, n)) = 0
    BY <1>9, <2>1
  <2> QED BY <1>1, <2>2
<1>11. FreeApart(fl)
  BY <1>5 DEF FreeApart
<1> QED BY <1>2, <1>5, <1>6, <1>7, <1>8, <1>10, <1>11 DEF PoolOK

\* The three globals that refer to them.
LEMMA InitGraph ==
  ASSUME NEW ob, NEW tb, NEW gl, ob \in [1 .. 3 -> ValueType],
         \A r \in 1 .. 3 : ob[r].kids = <<>> /\ ob[r].ref_count = 1 /\ ob[r].type \in {"none", "bool"},
         gl = [i \in 1 .. 3 |-> [name |-> Singletons[i], ref |-> i]]
  PROVE  Settled(ob, tb, gl, {}, <<>>, {}, <<>>, Zero)
<1> DEFINE none == {}
           nil == <<>>
<1>1. DOMAIN ob = 1 .. 3 /\ Values(ob)
  <2> DEFINE hi == 3
  <2>1. hi \in Int
    OBVIOUS
  <2> HIDE DEF hi
  <2>2. IsFiniteSet(1 .. hi)
    BY <2>1, FS_Interval
  <2> USE DEF hi
  <2> QED BY <2>2 DEF Values, Pos
<1>2. DOMAIN gl = 1 .. 3 /\ \A i \in 1 .. 3 : gl[i].ref = i /\ gl[i].name = Singletons[i]
  OBVIOUS
<1>3. gl \in Seq(GlobalType)
  <2>1. \A i \in 1 .. 3 : Singletons[i] \in {"None", "True", "False"}
    BY DEF Singletons
  <2>2. \A i \in 1 .. 3 : [name |-> Singletons[i], ref |-> i] \in GlobalType
    BY <2>1 DEF GlobalType, Pos
  <2>3. gl \in [1 .. 3 -> GlobalType]
    BY <2>2
  <2> QED BY <2>3
<1>4. Typed(ob, gl, none, nil, nil, Zero)
  <2>1. nil \in Seq(FrameType) /\ nil \in Seq(Pos)
    OBVIOUS
  <2> QED BY <1>1, <1>3, <2>1, ZeroType DEF Typed
<1>5. Lists(ob) = {} /\ Arrays(ob) = {}
  BY <1>1 DEF Lists, Arrays
<1>6. Shape(ob, tb, gl, nil, none)
  <2>1. Private(ob, gl, nil) /\ Fixed(gl)
    BY <1>2, <1>5 DEF Private, Fixed
  <2>2. DOMAIN nil = {}
    OBVIOUS
  <2> QED BY <1>5, <2>1, <2>2 DEF Shape
<1>7. ASSUME NEW r \in Pos PROVE Count(ob, r) = References(ob, DOMAIN ob, gl, none, nil, none, nil, Zero, r)
  <2> DEFINE A == GlobalPlaces(gl, none, r)
             B == ElementPlaces(ob, DOMAIN ob, none, r)
  <2>1. B = {}
    BY <1>1 DEF ElementPlaces
  <2>2. RefsOf(nil) = nil /\ Occurrences(nil, r) = 0
    BY OccEmpty DEF RefsOf
  <2>3. Held(nil, r) = 0
    BY <2>2 DEF Held
  <2>4. A = {i \in 1 .. 3 : i = r}
    BY <1>2 DEF GlobalPlaces
  <2>5. Zero[r] = 0
    BY ZeroType
  <2>6. Cardinality(B) = 0
    BY <2>1, FS_EmptySet
  <2>7. Cardinality(A) = IF r \in 1 .. 3 THEN 1 ELSE 0
    <3>1. CASE r \in 1 .. 3
      <4>1. A = {r}
        BY <2>4, <3>1
      <4> QED BY <3>1, <4>1, FS_Singleton
    <3>2. CASE r \notin 1 .. 3
      <4>1. A = {}
        BY <2>4, <3>2
      <4> QED BY <3>2, <4>1, FS_EmptySet
    <3> QED BY <3>1, <3>2
  <2>8. Count(ob, r) = IF r \in 1 .. 3 THEN 1 ELSE 0
    BY <1>1 DEF Count
  <2> QED BY <2>2, <2>3, <2>5, <2>6, <2>7, <2>8 DEF References
<1>8. \A r \in DOMAIN ob : ob[r].ref_count >= 1
  BY <1>1
<1> QED BY <1>4, <1>6, <1>7, <1>8 DEF Settled

\* The first state satisfies the invariant.
LEMMA InitInv ==
  ASSUME Init
  PROVE  IInv
<1> DEFINE ob == Objects(heap, ref_table)
           low == 0
           none == {}
           nil == <<>>
<1>1. /\ memory_pool = low /\ memory_size = PoolSize /\ free_list = <<Block(3 * Header, PoolSize - 3 * Header)>>
      /\ f = FALSE /\ ref_table = <<0, Header, 2 * Header>>
      /\ global_vars = [i \in 1 .. 3 |-> [name |-> Singletons[i], ref |-> i]]
      /\ stack = nil /\ leaked = nil /\ todo = nil /\ after = Nothing /\ status = "ok"
  BY DEF Init
<1>2. heap = [a \in {0, Header, 2 * Header} |-> Value(IF a = 0 THEN "none" ELSE "bool", Header, <<>>, 0)]
  BY DEF Init
<1>3. Header \in Pos /\ Header \in Nat /\ Header >= 1 /\ PoolSize \in Nat /\ PoolSize > 3 * Header
  BY HeaderAssumption, RefsAssumption DEF Pos
<1>4. \A t \in {"none", "bool"} : /\ Value(t, Header, <<>>, 0) \in ValueType
                                  /\ Value(t, Header, <<>>, 0).type = t
                                  /\ Value(t, Header, <<>>, 0).kids = <<>>
                                  /\ Value(t, Header, <<>>, 0).ref_count = 1
                                  /\ Value(t, Header, <<>>, 0).value_size = Header
  BY <1>3 DEF Value, ValueType
<1>5. /\ DOMAIN heap = {0, Header, 2 * Header} /\ heap \in [{0, Header, 2 * Header} -> ValueType]
      /\ \A a \in DOMAIN heap : /\ heap[a].value_size = Header /\ heap[a].kids = <<>> /\ heap[a].ref_count = 1
                                /\ heap[a].type \in {"none", "bool"}
  BY <1>2, <1>4
<1>6. DOMAIN ref_table = 1 .. 3 /\ ref_table[1] = 0 /\ ref_table[2] = Header /\ ref_table[3] = 2 * Header
  BY <1>1
<1>7. Live(ref_table) = 1 .. 3
  BY <1>3, <1>6 DEF Live, NULL
<1>8. DOMAIN ob = 1 .. 3 /\ \A r \in 1 .. 3 : ref_table[r] \in DOMAIN heap /\ ob[r] = heap[ref_table[r]]
  BY <1>5, <1>6, <1>7 DEF Objects
<1>9. ob \in [1 .. 3 -> ValueType]
  <2>1. ob = [r \in 1 .. 3 |-> ob[r]]
    BY <1>7 DEF Objects
  <2> HIDE DEF ob
  <2> QED BY <1>5, <1>8, <2>1
<1>10. PoolOK(heap, free_list, low, PoolSize, FALSE)
  BY <1>1, <1>3, <1>5, InitPool
<1>11. TableOK(heap, ref_table, low, PoolSize)
  <2>1. ref_table \in Seq(Address)
    BY <1>1, <1>3 DEF Address
  <2>2. \A r, s \in 1 .. 3 : ref_table[r] = ref_table[s] => r = s
    BY <1>3, <1>6
  <2>3. \A a \in DOMAIN heap : \E r \in 1 .. 3 : ref_table[r] = a
    BY <1>5, <1>6
  <2> QED BY <1>7, <1>8, <2>1, <2>2, <2>3 DEF TableOK
<1>12. \A r \in 1 .. 3 : ob[r].kids = <<>> /\ ob[r].ref_count = 1 /\ ob[r].type \in {"none", "bool"}
  BY <1>5, <1>8
<1> HIDE DEF ob, low
<1>13. Settled(ob, ref_table, global_vars, none, nil, none, nil, Zero)
  BY <1>1, <1>9, <1>12, InitGraph
<1>14. Graph(ob, ref_table, global_vars, stack, leaked, todo, after)
  BY <1>1, <1>13, IdleGraph
<1>15. Memory(heap, ref_table, free_list, memory_pool, memory_size, FALSE)
  BY <1>1, <1>10, <1>11 DEF Memory
<1>16. Evaluating
  BY <1>14, <1>15 DEF Evaluating, ob
<1>17. PoolIs(memory_pool, memory_size)
  <2>1. Half \in Nat /\ Half # 0
    BY <1>3 DEF Half
  <2> QED BY <1>1, <2>1 DEF PoolIs, low
<1> QED BY <1>1, <1>16, <1>17 DEF IInv

\* No step of the program leaves it, as long as gc() is not called inside a larger
\* expression.
LEMMA StepInv ==
  ASSUME IInv, [Next]_vars, NestedGc = FALSE
  PROVE  IInv'
<1>1. CASE EvalInt
  BY <1>1, StepEvalInt
<1>2. CASE EvalSingleton
  BY <1>2, StepEvalSingleton
<1>3. ASSUME NEW n \in Names, EvalName(n) PROVE IInv'
  BY <1>3, StepEvalName
<1>4. ASSUME NEW len \in Lens, EvalList(len) PROVE IInv'
  BY <1>4, StepEvalList
<1>5. CASE NewList
  BY <1>5, StepNewList
<1>6. CASE ElementDone
  BY <1>6, StepElementDone
<1>7. CASE EvalBuiltin
  BY <1>7, StepEvalBuiltin
<1>8. CASE EvalUnary
  BY <1>8, StepEvalUnary
<1>9. CASE EvalAndOr
  BY <1>9, StepEvalAndOr
<1>10. CASE EvalSubscript
  BY <1>10, StepEvalSubscript
<1>11. CASE Gc
  BY <1>11, StepGc
<1>12. CASE GcReturn
  BY <1>12, StepGcReturn
<1>13. CASE Reevaluate
  BY <1>13, StepReevaluate
<1>r. CASE Refused
  BY <1>r, StepRefused
<1>c. CASE EvalCall
  BY <1>c, StepEvalCall
<1>14. ASSUME NEW n \in Names, AssignName(n) PROVE IInv'
  BY <1>14, StepAssignName
<1>15. ASSUME NEW n \in Names, DelName(n) PROVE IInv'
  BY <1>15, StepDelName
<1>16. CASE SetGlobal
  BY <1>16, StepSetGlobal
<1>17. CASE DropGlobal
  BY <1>17, StepDropGlobal
<1>18. CASE AssignSubscript
  BY <1>18, StepAssignSubscript
<1>19. CASE SetElement
  BY <1>19, StepSetElement
<1>20. CASE DelSubscript
  BY <1>20, StepDelSubscript
<1>21. CASE DelElement
  BY <1>21, StepDelElement
<1>22. CASE ExprStmt
  BY <1>22, StepExprStmt
<1>23. CASE Decref
  BY <1>23, StepDecref
<1>24. CASE Free
  BY <1>24, StepFree
<1>25. CASE Copy
  BY <1>25, StepCopy
<1>26. CASE Sweep
  BY <1>26, StepSweep
<1>27. CASE UNCHANGED vars
  BY <1>27 DEF vars, IInv, Evaluating, Gathering
<1>28. CASE Expr
  BY <1>1, <1>2, <1>3, <1>4, <1>5, <1>6, <1>7, <1>8, <1>9, <1>10, <1>11, <1>12, <1>13, <1>r, <1>c, <1>28 DEF Expr
<1>29. CASE Stmt
  BY <1>14, <1>15, <1>16, <1>17, <1>18, <1>19, <1>20, <1>21, <1>22, <1>29 DEF Stmt
<1> QED BY <1>23, <1>24, <1>25, <1>26, <1>27, <1>28, <1>29 DEF Next

\* The inductive invariant holds in every state.
LEMMA AlwaysInv ==
  ASSUME NestedGc = FALSE
  PROVE  Spec => []IInv
<1>1. Init => IInv
  BY InitInv
<1>2. IInv /\ [Next]_vars => IInv'
  BY StepInv
<1> QED BY <1>1, <1>2, PTL DEF Spec

-----------------------------------------------------------------------------
(* What the invariant says of the program. *)

\* Between two operations everything refers to values of the table.
LEMMA IdleLive ==
  ASSUME IInv, Idle
  PROVE  /\ GlobalRefs \cup StackRefs \subseteq LiveRefs
         /\ \A r \in LiveRefs : ref_table[r] \in DOMAIN heap /\ KidsOf(r) \subseteq LiveRefs
<1> DEFINE ob == Objects(heap, ref_table)
           none == {}
<1>1. /\ Memory(heap, ref_table, free_list, memory_pool, memory_size, FALSE)
      /\ Settled(ob, ref_table, global_vars, none, stack, none, leaked, Zero)
  BY IdleState
<1>2. DOMAIN ob = LiveRefs /\ Live(ref_table) = LiveRefs
  BY DEF Objects, Live, LiveRefs
<1>3. ASSUME NEW r \in LiveRefs PROVE ref_table[r] \in DOMAIN heap /\ ob[r] = deref(r)
  BY <1>1, <1>2, ValidIs
<1>n. none = {}
  OBVIOUS
<1> HIDE DEF ob, none
<1>4. \A i \in DOMAIN global_vars : global_vars[i].ref \in DOMAIN ob
  BY <1>1, <1>n, GlobalLive
<1>5. \A p \in DOMAIN stack : stack[p].ref \in DOMAIN ob
  BY <1>1, StackLive
<1>6. ASSUME NEW r \in LiveRefs PROVE KidsOf(r) \subseteq LiveRefs
  <2>1. ASSUME NEW k \in DOMAIN ob[r].kids, ob[r].kids[k] # NULL_REF PROVE ob[r].kids[k] \in DOMAIN ob
    <3>1. <<r, k>> \notin none /\ r \in DOMAIN ob
      BY <1>2, <1>n
    <3> QED BY <1>1, <2>1, <3>1, ElementLive
  <2> QED BY <1>2, <1>3, <2>1 DEF KidsOf
<1> QED BY <1>2, <1>3, <1>4, <1>5, <1>6 DEF GlobalRefs, StackRefs

\* The invariant implies that no reference dangles.
LEMMA InvNoDangling ==
  ASSUME IInv, status = "ok"
  PROVE  NoDangling
<1>2. ASSUME Idle, NEW a \in DOMAIN heap
      PROVE  \E r \in LiveRefs : ref_table[r] = a /\ \A s \in LiveRefs : ref_table[s] = a => s = r
  <2>1. Memory(heap, ref_table, free_list, memory_pool, memory_size, FALSE)
    BY <1>2, IdleState
  <2>2. TableOK(heap, ref_table, memory_pool, memory_size) /\ PoolOK(heap, free_list, memory_pool, memory_size, FALSE)
    BY <2>1 DEF Memory
  <2>3. HeapType(heap) /\ memory_pool \in Nat /\ memory_size \in Nat /\ Inside(SpanOf(heap, a), memory_pool, memory_size)
    BY <2>2 DEF PoolOK
  <2>4. SpanOf(heap, a).addr = a /\ SpanOf(heap, a).size \in Pos /\ a \in Nat
    BY <2>3, SpanType
  <2>5. InPool(a, memory_pool, memory_size)
    BY <2>3, <2>4 DEF InPool, Inside, Pos
  <2>6. \E r \in Live(ref_table) : ref_table[r] = a
    BY <2>2, <2>5 DEF TableOK
  <2>7. \A r, s \in Live(ref_table) : ref_table[r] = ref_table[s] => r = s
    BY <2>2 DEF TableOK
  <2> QED BY <2>6, <2>7 DEF Live, LiveRefs
<1> QED BY <1>2, IdleLive DEF NoDangling

\* The places of a reference are the references of its account.
LEMMA InvRefCount ==
  ASSUME IInv
  PROVE  RefCountExact
<1> SUFFICES ASSUME Idle, NEW r \in LiveRefs
             PROVE  deref(r).ref_count = Places(r) + Occurrences(leaked, r)
  BY DEF RefCountExact
<1> DEFINE ob == Objects(heap, ref_table)
           none == {}
           G == GlobalPlaces(global_vars, none, r)
           E == ElementPlaces(ob, DOMAIN ob, none, r)
<1>1. /\ Memory(heap, ref_table, free_list, memory_pool, memory_size, FALSE)
      /\ Settled(ob, ref_table, global_vars, none, stack, none, leaked, Zero)
  BY IdleState
<1>2. DOMAIN ob = LiveRefs /\ Live(ref_table) = LiveRefs
  BY DEF Objects, Live, LiveRefs
<1>3. \A o \in LiveRefs : ob[o] = deref(o) /\ o \in Pos
  <2> SUFFICES ASSUME NEW o \in LiveRefs PROVE ob[o] = deref(o) /\ o \in Pos
    OBVIOUS
  <2>1. ob[o] = deref(o)
    BY <1>1, <1>2, ValidIs
  <2>2. DOMAIN ob \subseteq Pos
    BY <1>1 DEF Settled, Typed, Values
  <2> QED BY <1>2, <2>1, <2>2
<1>4. Values(ob) /\ Typed(ob, global_vars, none, stack, leaked, Zero)
  BY <1>1 DEF Settled, Typed
<1>5. G = {i \in DOMAIN global_vars : global_vars[i].ref = r}
  BY DEF GlobalPlaces
<1>6. Occurrences(RefsOf(global_vars), r) = Cardinality(G)
  <2>1. {i \in DOMAIN RefsOf(global_vars) : RefsOf(global_vars)[i] = r} = G
    BY <1>5 DEF RefsOf
  <2> QED BY <2>1 DEF Occurrences
<1>7. E = KidPlaces(r)
  <2>1. \A o \in LiveRefs : ob[o].kids \in Seq(RefOrNull)
    <3> HIDE DEF ob
    <3> QED BY <1>2, <1>4, ValueFields
  <2>2. \A o \in LiveRefs : DOMAIN deref(o).kids \subseteq Pos
    BY <1>3, <2>1 DEF Pos
  <2>3. E = {p \in LiveRefs \X Pos : p[2] \in DOMAIN deref(p[1]).kids /\ deref(p[1]).kids[p[2]] = r}
    <3> HIDE DEF ob
    <3> QED BY <1>2, <1>3 DEF ElementPlaces
  <2> HIDE DEF E, ob
  <2>4. ASSUME NEW p \in E PROVE p \in KidPlaces(r)
    <3>1. p = <<p[1], p[2]>> /\ p[1] \in LiveRefs /\ p[2] \in {i \in DOMAIN deref(p[1]).kids : deref(p[1]).kids[i] = r}
      BY <2>3
    <3> QED BY <3>1 DEF KidPlaces
  <2>5. ASSUME NEW p \in KidPlaces(r) PROVE p \in E
    <3>1. PICK o \in LiveRefs : p \in {<<o, j>> : j \in {i \in DOMAIN deref(o).kids : deref(o).kids[i] = r}}
      BY DEF KidPlaces
    <3>2. PICK j \in DOMAIN deref(o).kids : deref(o).kids[j] = r /\ p = <<o, j>>
      BY <3>1
    <3> QED BY <2>2, <2>3, <3>2
  <2> QED BY <2>4, <2>5
<1>8. r \in Pos /\ Count(ob, r) = ob[r].ref_count /\ ob[r] = deref(r)
  BY <1>2, <1>3 DEF Count
<1> HIDE DEF ob, none
<1>9. Count(ob, r) = References(ob, DOMAIN ob, global_vars, none, stack, none, leaked, Zero, r)
  BY <1>1, <1>8 DEF Settled
<1>10. Count(ob, r) = Cardinality(G) + Held(stack, r) + Cardinality(E) + Occurrences(leaked, r) + Zero[r]
  BY <1>9 DEF References, G, E
<1>11. /\ Cardinality(G) \in Nat /\ Held(stack, r) \in Nat /\ Cardinality(E) \in Nat /\ Occurrences(leaked, r) \in Nat
  BY <1>4, <1>8, Terms DEF G, E
<1>12. Zero[r] = 0
  BY <1>8, ZeroType
<1> HIDE DEF G, E
<1>13. Places(r) = Cardinality(G) + Held(stack, r) + Cardinality(E)
  BY <1>6, <1>7 DEF Places, Held
<1> QED BY <1>8, <1>10, <1>11, <1>12, <1>13

\* A value is as TypeOK says.
LEMMA ValueTyped ==
  ASSUME NEW v \in ValueType
  PROVE  /\ v.type \in {"none", "bool", "int", "list", "array"}
         /\ v.ref_count \in Nat /\ v.value_size \in Nat \ {0} /\ v.size \in Nat /\ v.kids \in Seq(Int)
<1>1. v.kids \in Seq(RefOrNull)
  BY DEF ValueType
<1>i. \A x \in RefOrNull : x \in Int
  BY DEF RefOrNull, Pos, NULL_REF
<1>2. v.kids \in Seq(Int)
  <2> DEFINE s == v.kids
  <2>1. s \in Seq(RefOrNull)
    BY <1>1
  <2> HIDE DEF s
  <2>a. Len(s) \in Nat /\ s = [i \in 1 .. Len(s) |-> s[i]] /\ \A i \in 1 .. Len(s) : s[i] \in RefOrNull
    BY <2>1
  <2>2. s \in [1 .. Len(s) -> Int] /\ Len(s) \in Nat
    BY <1>i, <2>a
  <2>3. s \in Seq(Int)
    BY <2>2
  <2> QED BY <2>3 DEF s
<1> QED BY <1>2 DEF ValueType, Pos

\* The pool in use, while it works.
LEMMA InvMemory ==
  ASSUME IInv, status = "ok"
  PROVE  /\ \E col \in BOOLEAN : /\ Memory(heap, ref_table, free_list, memory_pool, memory_size, col)
                                 /\ (col => Collecting)
         /\ f \in BOOLEAN /\ PoolIs(memory_pool, memory_size)
         /\ stack \in Seq(FrameType) /\ leaked \in Seq(Pos)
<1>1. f \in BOOLEAN /\ PoolIs(memory_pool, memory_size) /\ (Evaluating \/ Gathering)
  BY DEF IInv
<1>2. CASE Evaluating
  <2>1. Graph(Objects(heap, ref_table), ref_table, global_vars, stack, leaked, todo, after)
    BY <1>2 DEF Evaluating
  <2>2. ~Collecting
    BY <2>1, GraphTo DEF Collecting
  <2>3. stack \in Seq(FrameType) /\ leaked \in Seq(Pos)
    BY <2>1 DEF Graph, Pending, Typed
  <2>4. Memory(heap, ref_table, free_list, memory_pool, memory_size, FALSE)
    BY <1>2 DEF Evaluating
  <2> QED BY <1>1, <2>2, <2>3, <2>4
<1>3. CASE Gathering
  <2>1. Memory(heap, ref_table, free_list, memory_pool, memory_size, TRUE)
    BY <1>3 DEF Gathering
  <2>2. Collecting
    BY <1>3 DEF Gathering, Collecting, SweepNext, Then
  <2>3. stack \in Seq(FrameType) /\ leaked \in Seq(Pos)
    BY <1>3 DEF Gathering
  <2> QED BY <1>1, <2>1, <2>2, <2>3
<1> QED BY <1>1, <1>2, <1>3

\* The pool in use is the whole pool or one of its halves.
LEMMA PoolSizes ==
  ASSUME NEW lo, NEW n, PoolIs(lo, n)
  PROVE  <<lo, n>> \in {<<0, PoolSize>>, <<0, Half>>, <<Half, Half>>}
BY DEF PoolIs

\* The invariant implies the types.
LEMMA InvTypes ==
  ASSUME IInv, status = "ok"
  PROVE  TypeOK
<1>1. PICK col \in BOOLEAN : Memory(heap, ref_table, free_list, memory_pool, memory_size, col)
  BY InvMemory
<1>2. f \in BOOLEAN /\ PoolIs(memory_pool, memory_size) /\ stack \in Seq(FrameType) /\ leaked \in Seq(Pos)
  BY InvMemory
<1>3. HeapType(heap)
  BY <1>1 DEF Memory, PoolOK
<1>4. ASSUME NEW a \in DOMAIN heap
      PROVE  /\ heap[a].type \in {"none", "bool", "int", "list", "array"}
             /\ heap[a].ref_count \in Nat /\ heap[a].value_size \in Nat \ {0} /\ heap[a].size \in Nat
             /\ heap[a].kids \in Seq(Int)
  <2>1. heap[a] \in ValueType
    BY <1>3, SpanType
  <2> QED BY <2>1, ValueTyped
<1>5. \A r \in DOMAIN ref_table : ref_table[r] = NULL \/ ref_table[r] \in DOMAIN heap
  BY <1>1 DEF Memory, TableOK, Live
<1>6. \A i \in DOMAIN stack : stack[i].kind \in {"ref", "list"} /\ stack[i].ref \in Nat
  <2>1. \A i \in DOMAIN stack : stack[i] \in FrameType
    BY <1>2
  <2> QED BY <2>1 DEF FrameType, Pos
<1>7. leaked \in Seq(Nat)
  BY <1>2 DEF Pos
<1>8. <<memory_pool, memory_size>> \in {<<0, PoolSize>>, <<0, Half>>, <<Half, Half>>}
  BY <1>2, PoolSizes
<1> QED BY <1>2, <1>4, <1>5, <1>6, <1>7, <1>8 DEF TypeOK

\* A block of the pool lies apart from no block that shares its words.
LEMMA ApartSelf ==
  ASSUME NEW b \in BlockType
  PROVE  ~Apart(b, b)
BY DEF Apart, BlockType, Pos

\* Lying apart is symmetric.
LEMMA ApartSym ==
  ASSUME NEW b, NEW c, Apart(b, c)
  PROVE  Apart(c, b)
BY DEF Apart

\* The invariant implies that the pool is sound, at every step.
LEMMA InvPool ==
  ASSUME IInv, status = "ok"
  PROVE  PoolSound
<1> DEFINE pool   == Block(memory_pool, memory_size)
           blocks == Blocks \cup FreeBlocks
<1>1. PICK col \in BOOLEAN : Memory(heap, ref_table, free_list, memory_pool, memory_size, col) /\ (col => Collecting)
  BY InvMemory
<1>2. PoolOK(heap, free_list, memory_pool, memory_size, col)
  BY <1>1 DEF Memory
<1>3. HeapType(heap) /\ free_list \in Seq(BlockType) /\ memory_pool \in Nat /\ memory_size \in Nat
  BY <1>2 DEF PoolOK
<1>4. \A a \in DOMAIN heap : SpanOf(heap, a) \in BlockType
  BY <1>3, SpanType
<1>5. Blocks = {SpanOf(heap, a) : a \in DOMAIN heap}
  BY DEF Blocks, SpanOf
<1>6. \A i \in DOMAIN free_list : free_list[i] \in BlockType
  BY <1>3
<1>7. \A b \in blocks : b \in BlockType
  BY <1>4, <1>5, <1>6 DEF FreeBlocks
<1>8. \A b, c \in Blocks : b = c \/ Apart(b, c)
  BY <1>2, <1>5 DEF PoolOK
<1>9. \A b \in Blocks, c \in FreeBlocks : Apart(b, c)
  BY <1>2, <1>5 DEF PoolOK, FreeBlocks
<1>10. \A i, j \in DOMAIN free_list : i = j \/ Apart(free_list[i], free_list[j])
  BY <1>2 DEF PoolOK, FreeApart
<1>11. \A b, c \in FreeBlocks : b = c \/ Apart(b, c)
  BY <1>10 DEF FreeBlocks
<1>12. \A b, c \in blocks : b = c \/ Apart(b, c)
  BY <1>8, <1>9, <1>11, ApartSym
<1>13. Blocks \cap FreeBlocks = {}
  BY <1>7, <1>9, ApartSelf
<1>14. \A i, j \in DOMAIN free_list : free_list[i] = free_list[j] => i = j
  BY <1>6, <1>10, ApartSelf
<1>15. ASSUME NEW b \in blocks
       PROVE  \/ memory_pool <= b.addr /\ b.addr + b.size <= memory_pool + memory_size
              \/ Collecting /\ b \in Blocks /\ Apart(b, pool)
  <2>1. CASE b \in FreeBlocks
    BY <1>2, <2>1 DEF PoolOK, FreeBlocks, Inside
  <2>2. CASE b \in Blocks
    <3>1. Inside(b, memory_pool, memory_size) \/ (col /\ Apart(b, pool))
      BY <1>2, <1>5, <2>2 DEF PoolOK
    <3> QED BY <1>1, <2>2, <3>1 DEF Inside
  <2> QED BY <2>1, <2>2
<1>16. Words(pool) \ UNION {Words(b) : b \in blocks} = Lost(heap, free_list, memory_pool, memory_size)
  <2>1. Words(pool) = memory_pool .. memory_pool + memory_size - 1
    BY DEF Words, Block
  <2>2. \A w : w \in UNION {Words(b) : b \in blocks}
               <=> (\E a \in DOMAIN heap : w \in Words(SpanOf(heap, a))) \/ \E i \in DOMAIN free_list : w \in Words(free_list[i])
    BY <1>5 DEF FreeBlocks
  <2> HIDE DEF pool, blocks
  <2> QED BY <2>1, <2>2 DEF Lost
<1>17. Cardinality(Words(pool) \ UNION {Words(b) : b \in blocks}) <= Header
  <2>1. Cardinality(Lost(heap, free_list, memory_pool, memory_size)) <= Header
    BY <1>2 DEF PoolOK
  <2> HIDE DEF pool, blocks
  <2> QED BY <1>16, <2>1
<1>18. TypeOK
  BY InvTypes
<1> QED BY <1>12, <1>13, <1>14, <1>15, <1>17, <1>18 DEF PoolSound

-----------------------------------------------------------------------------
(* What a set of references reaches. *)

\* It consists of values and contains those the set refers to.
LEMMA ReachFrom ==
  ASSUME NEW R
  PROVE  Reach(R) \subseteq LiveRefs /\ R \cap LiveRefs \subseteq Reach(R)
BY DEF Reach

\* Every closed set that contains these contains it.
LEMMA ReachLeast ==
  ASSUME NEW R, NEW T \in SUBSET LiveRefs, R \cap LiveRefs \subseteq T, Closed(T)
  PROVE  Reach(R) \subseteq T
<1> DEFINE from == R \cap LiveRefs
<1> SUFFICES ASSUME NEW r \in Reach(R), r \notin T PROVE FALSE
  OBVIOUS
<1>1. \A S \in SUBSET (LiveRefs \ (from \cup {r})) : ~Closed(from \cup S)
  BY DEF Reach
<1> DEFINE S == T \ from
<1>2. S \in SUBSET (LiveRefs \ (from \cup {r})) /\ from \cup S = T
  OBVIOUS
<1> HIDE DEF S, from
<1> QED BY <1>1, <1>2

\* It is closed.
LEMMA ReachClosed ==
  ASSUME NEW R
  PROVE  Closed(Reach(R))
<1> DEFINE from == R \cap LiveRefs
<1> SUFFICES ASSUME NEW r \in Reach(R), NEW k \in KidsOf(r) \cap LiveRefs, k \notin Reach(R) PROVE FALSE
  BY DEF Closed
<1>1. PICK S \in SUBSET (LiveRefs \ (from \cup {k})) : Closed(from \cup S)
  BY DEF Reach
<1>2. k \notin from
  BY ReachFrom
<1> DEFINE T == from \cup S
<1>3. T \in SUBSET LiveRefs /\ R \cap LiveRefs \subseteq T /\ Closed(T) /\ k \notin T
  BY <1>1, <1>2
<1> HIDE DEF T
<1>4. r \in T
  BY <1>3, ReachLeast
<1> QED BY <1>3, <1>4 DEF Closed

\* What refers to a value reaches all that the value reaches.
LEMMA ReachMore ==
  ASSUME NEW R, NEW Q, R \cap LiveRefs \subseteq Reach(Q)
  PROVE  Reach(R) \subseteq Reach(Q)
<1>1. Reach(Q) \in SUBSET LiveRefs
  BY ReachFrom
<1> QED BY <1>1, ReachLeast, ReachClosed

\* Among values there is one that reaches the most.
LEMMA MostReach ==
  ASSUME NEW D \in SUBSET LiveRefs, D # {}, IsFiniteSet(LiveRefs)
  PROVE  \E d \in D : \A e \in D : Reach({d}) \subseteq Reach({e}) => Reach({e}) = Reach({d})
<1> DEFINE N == Cardinality(LiveRefs)
           C == [d \in D |-> Cardinality(Reach({d}))]
           S == {N - C[d] : d \in D}
<1>1. \A d \in D : Reach({d}) \subseteq LiveRefs
  BY ReachFrom
<1>2. \A d \in D : IsFiniteSet(Reach({d})) /\ C[d] <= N /\ C[d] \in Nat
  <2> SUFFICES ASSUME NEW d \in D PROVE IsFiniteSet(Reach({d})) /\ C[d] <= N /\ C[d] \in Nat
    OBVIOUS
  <2> DEFINE A == Reach({d})
  <2>1. A \in SUBSET LiveRefs
    BY <1>1
  <2> HIDE DEF A
  <2>2. IsFiniteSet(A) /\ Cardinality(A) <= Cardinality(LiveRefs)
    BY <2>1, FS_Subset
  <2>3. Cardinality(A) \in Nat
    BY <2>2, FS_CardinalityType
  <2> QED BY <2>2, <2>3 DEF A
<1>3. N \in Nat
  BY FS_CardinalityType
<1>a. \A d \in D : C[d] <= N /\ C[d] \in Nat
  BY <1>2
<1> HIDE DEF N, C
<1>4. S \in SUBSET Nat /\ S # {}
  BY <1>3, <1>a
<1>5. PICK m \in S : \A n \in S : m <= n
  <2> HIDE DEF S
  <2> QED BY <1>4, LeastNat
<1>6. PICK d \in D : m = N - C[d]
  BY <1>5
<1>7. ASSUME NEW e \in D PROVE C[e] <= C[d]
  <2>1. N - C[d] <= N - C[e]
    BY <1>5, <1>6
  <2>2. C[d] \in Nat /\ C[e] \in Nat
    BY <1>a
  <2> QED BY <1>3, <2>1, <2>2
<1>8. ASSUME NEW e \in D, Reach({d}) \subseteq Reach({e}) PROVE Reach({e}) = Reach({d})
  <2> DEFINE A == Reach({d})
             B == Reach({e})
  <2>1. IsFiniteSet(B) /\ A \in SUBSET B /\ Cardinality(B) <= Cardinality(A)
        /\ Cardinality(A) \in Nat /\ Cardinality(B) \in Nat
    BY <1>2, <1>7, <1>8 DEF C
  <2> HIDE DEF A, B
  <2>2. Cardinality(A) <= Cardinality(B) /\ (Cardinality(A) = Cardinality(B) => A = B)
    BY <2>1, FS_Subset
  <2>3. A = B
    BY <2>1, <2>2
  <2> QED BY <2>3 DEF A, B
<1> QED BY <1>8

\* A value that only other values refer to is an element of one.
LEMMA IdleParent ==
  ASSUME IInv, Idle, NEW d \in LiveRefs, d \notin GlobalRefs \cup StackRefs,
         \A i \in DOMAIN leaked : leaked[i] # d
  PROVE  \E p \in LiveRefs : d \in KidsOf(p)
<1> DEFINE ob == Objects(heap, ref_table)
           none == {}
           G == GlobalPlaces(global_vars, none, d)
           E == ElementPlaces(ob, DOMAIN ob, none, d)
<1>1. /\ Memory(heap, ref_table, free_list, memory_pool, memory_size, FALSE)
      /\ Settled(ob, ref_table, global_vars, none, stack, none, leaked, Zero)
  BY IdleState
<1>2. DOMAIN ob = LiveRefs /\ Live(ref_table) = LiveRefs
  BY DEF Objects, Live, LiveRefs
<1>3. \A o \in LiveRefs : ob[o] = deref(o) /\ o \in Pos
  <2> SUFFICES ASSUME NEW o \in LiveRefs PROVE ob[o] = deref(o) /\ o \in Pos
    OBVIOUS
  <2>1. ob[o] = deref(o)
    BY <1>1, <1>2, ValidIs
  <2>2. DOMAIN ob \subseteq Pos
    BY <1>1 DEF Settled, Typed, Values
  <2> QED BY <1>2, <2>1, <2>2
<1>4. Typed(ob, global_vars, none, stack, leaked, Zero) /\ leaked \in Seq(Pos) /\ stack \in Seq(FrameType)
  BY <1>1 DEF Settled, Typed
<1>5. G = {}
  BY DEF GlobalPlaces, GlobalRefs
<1>6. Occurrences(leaked, d) = 0
  BY <1>4, OccZero
<1>7. Held(stack, d) = 0
  <2>1. RefsOf(stack) \in Seq(Pos) /\ DOMAIN RefsOf(stack) = DOMAIN stack /\ \A q \in DOMAIN stack : RefsOf(stack)[q] = stack[q].ref
    BY <1>4, Frames
  <2>2. \A i \in DOMAIN RefsOf(stack) : RefsOf(stack)[i] # d
    BY <2>1 DEF StackRefs
  <2> QED BY <2>1, <2>2, OccZero DEF Held
<1>8. Cardinality(G) = 0
  BY <1>5, FS_EmptySet
<1>9. Zero[d] = 0
  BY <1>3, ZeroType
<1> HIDE DEF ob, none
<1>10. Count(ob, d) = References(ob, DOMAIN ob, global_vars, none, stack, none, leaked, Zero, d) /\ Count(ob, d) = ob[d].ref_count
       /\ ob[d].ref_count >= 1
  BY <1>1, <1>2, <1>3 DEF Settled, Count
<1>11. Count(ob, d) = Cardinality(G) + Held(stack, d) + Cardinality(E) + Occurrences(leaked, d) + Zero[d]
  BY <1>10 DEF References, G, E
<1>12. Cardinality(E) \in Nat
  BY <1>2, <1>3, <1>4, Terms DEF E
<1> HIDE DEF G, E
<1>13. Cardinality(E) >= 1
  BY <1>6, <1>7, <1>8, <1>9, <1>10, <1>11, <1>12
<1>14. E # {}
  <2>1. Cardinality({}) = 0
    BY FS_EmptySet
  <2> QED BY <1>13, <2>1
<1>15. PICK q : q \in E
  BY <1>14
<1>16. q[1] \in LiveRefs /\ q[2] \in DOMAIN ob[q[1]].kids /\ ob[q[1]].kids[q[2]] = d
  BY <1>2, <1>15 DEF E, ElementPlaces
<1>17. d \in KidsOf(q[1])
  BY <1>3, <1>16 DEF KidsOf, Pos, NULL_REF, TOMBSTONE_REF
<1> QED BY <1>16, <1>17

\* The invariant implies that only cycles and leaked counts keep garbage alive: of
\* the garbage that hangs off neither, take a value that reaches the most.  Another
\* piece of such garbage refers to it and reaches no more, so it reaches itself.
LEMMA InvCycles ==
  ASSUME IInv
  PROVE  OnlyCyclesLeak
<1> DEFINE roots   == GlobalRefs \cup StackRefs
           garbage == LiveRefs \ Reach(roots)
           origins == {c \in garbage : (\E i \in DOMAIN leaked : leaked[i] = c) \/ c \in Reach(KidsOf(c))}
           D       == garbage \ Reach(origins)
<1> SUFFICES ASSUME Idle, D # {} PROVE FALSE
  BY DEF OnlyCyclesLeak
<1>1. roots \subseteq LiveRefs /\ \A r \in LiveRefs : KidsOf(r) \subseteq LiveRefs
  BY IdleLive
<1>2. IsFiniteSet(LiveRefs)
  <2>1. Settled(Objects(heap, ref_table), ref_table, global_vars, {}, stack, {}, leaked, Zero)
    BY IdleState
  <2>2. Values(Objects(heap, ref_table)) /\ DOMAIN Objects(heap, ref_table) = LiveRefs
    BY <2>1 DEF Settled, Typed, Objects, Live, LiveRefs
  <2> QED BY <2>2 DEF Values
<1>3. D \in SUBSET LiveRefs
  OBVIOUS
<1>4. ASSUME NEW d \in D PROVE \E p \in D : d \in KidsOf(p)
  <2>1. d \in LiveRefs /\ d \notin Reach(roots) /\ d \notin Reach(origins)
    OBVIOUS
  <2>2. d \notin roots
    BY <1>1, <2>1, ReachFrom
  <2>3. d \notin origins
    BY <2>1, ReachFrom
  <2>4. \A i \in DOMAIN leaked : leaked[i] # d
    BY <2>1, <2>3
  <2> HIDE DEF roots
  <2>5. PICK p \in LiveRefs : d \in KidsOf(p)
    BY <2>1, <2>2, <2>4, IdleParent DEF roots
  <2> HIDE DEF origins
  <2>6. p \notin Reach(roots) /\ p \notin Reach(origins)
    BY <2>1, <2>5, ReachClosed DEF Closed
  <2> QED BY <2>5, <2>6
<1>5. ASSUME NEW p \in D PROVE p \notin Reach(KidsOf(p))
  <2>1. p \notin origins
    BY ReachFrom
  <2> QED BY <2>1
<1> HIDE DEF D
<1>6. PICK d \in D : \A e \in D : Reach({d}) \subseteq Reach({e}) => Reach({e}) = Reach({d})
  BY <1>2, <1>3, MostReach
<1>7. PICK p \in D : d \in KidsOf(p)
  BY <1>4
<1>8. p \in LiveRefs /\ d \in LiveRefs /\ p \in Reach({p})
  BY <1>3, ReachFrom
<1>9. d \in Reach({p}) /\ d \in Reach(KidsOf(p))
  BY <1>7, <1>8, ReachClosed, ReachFrom DEF Closed
<1>10. Reach({d}) \subseteq Reach({p}) /\ Reach({d}) \subseteq Reach(KidsOf(p))
  BY <1>9, ReachMore
<1>11. p \in Reach({d})
  BY <1>6, <1>8, <1>10
<1> QED BY <1>5, <1>10, <1>11

-----------------------------------------------------------------------------
(* Steps that belong to no collection. *)

\* What the evaluator is doing then.
Outside ==
  /\ status = "ok"
  /\ \/ Idle \/ Calling("decref") \/ Calling("free")
     \/ \E to \in {"list", "return", "pending", "refused", "global", "drop", "store", "shift"} : Resuming(to)

\* Values keep their size and get no room for elements, new ones are longer than a
\* header: None, True and False remain the only ones that are not.
Steady(ob, ob2) ==
  \A r \in DOMAIN ob2 :
    IF r \in DOMAIN ob
    THEN ob2[r].value_size = ob[r].value_size /\ (ob[r].kids = <<>> => ob2[r].kids = <<>>)
    ELSE ob2[r].value_size > Header
Effect ==
  \/ status' = "asserted"
  \/ status' = "ok" /\ Steady(Objects(heap, ref_table), Objects(heap', ref_table'))

\* Such a step leaves the pool and begins no collection.
Elsewhere == Outside /\ SamePool /\ Effect /\ (after' = after \/ after'.to # "sweep")

\* The state of such a step.
LEMMA OutsideState ==
  ASSUME IInv, Outside
  PROVE  /\ after.to # "sweep" /\ status = "ok"
         /\ Memory(heap, ref_table, free_list, memory_pool, memory_size, FALSE)
<1>1. status = "ok"
  BY DEF Outside
<1>2. after.to # "sweep"
  <2>1. CASE Idle
    BY <2>1, NothingIs DEF Idle
  <2>2. CASE Calling("decref") \/ Calling("free")
    <3> SUFFICES ASSUME after.to = "sweep" PROVE FALSE
      OBVIOUS
    <3>1. ~Evaluating
      BY GraphTo DEF Evaluating
    <3>2. Gathering
      BY <1>1, <3>1 DEF IInv
    <3>3. todo \in Seq(CopyType)
      BY <3>2 DEF Gathering, Collected
    <3>4. todo # <<>> /\ Head(todo).do \in {"decref", "free"}
      BY <2>2 DEF Calling
    <3>5. Head(todo) \in CopyType
      BY <3>3, <3>4
    <3> QED BY <3>4, <3>5 DEF CopyType
  <2>3. CASE \E to \in {"list", "return", "pending", "refused", "global", "drop", "store", "shift"} : Resuming(to)
    BY <2>3 DEF Resuming
  <2> QED BY <2>1, <2>2, <2>3 DEF Outside
<1> QED BY <1>1, <1>2, BusyState

\* While a collection is under way, only it makes steps.
LEMMA ElsewhereQuiet ==
  ASSUME IInv, Elsewhere
  PROVE  ~Collecting
BY OutsideState DEF Elsewhere, Collecting

\* What follows an operation.
LEMMA ThenTo ==
  /\ \A to, at, array, size, ref, refs : Then(to, at, array, size, ref, refs).to = to
  /\ Nothing.to = "nothing" /\ StillPending.to = "pending"
BY DEF Then, Nothing, StillPending

\* Values at the same addresses that change neither size nor, without elements, that.
Gentle(hp, hp2) ==
  /\ DOMAIN hp2 = DOMAIN hp
  /\ \A a \in DOMAIN hp : hp2[a].value_size = hp[a].value_size /\ (hp[a].kids = <<>> => hp2[a].kids = <<>>)

\* The values of the same table.
LEMMA GentleSteady ==
  ASSUME Memory(heap, ref_table, free_list, memory_pool, memory_size, FALSE), ref_table' = ref_table,
         Gentle(heap, heap')
  PROVE  Steady(Objects(heap, ref_table), Objects(heap', ref_table'))
<1>1. \A r \in Live(ref_table) : ref_table[r] \in DOMAIN heap
  BY DEF Memory, TableOK
<1> QED BY <1>1 DEF Steady, Gentle, Objects

\* Values that are assigned to.
LEMMA GentleIs ==
  ASSUME NEW hp, HeapType(hp), NEW a
  PROVE  /\ Gentle(hp, hp) /\ Gentle(hp, Counted(hp, a))
         /\ Gentle(hp, [hp EXCEPT ![a].ref_count = IF @ > 0 THEN @ - 1 ELSE @])
         /\ Gentle(hp, [hp EXCEPT ![a].size = @ - 1])
         /\ \A kids : (hp[a].kids = <<>> => kids = <<>>) => Gentle(hp, [hp EXCEPT ![a].kids = kids])
<1>1. \A b \in DOMAIN hp : hp[b] \in ValueType
  BY DEF HeapType
<1>2. Gentle(hp, hp)
  BY DEF Gentle
<1>3. ASSUME NEW v, v.value_size = hp[a].value_size, hp[a].kids = <<>> => v.kids = <<>>
      PROVE  Gentle(hp, [hp EXCEPT ![a] = v])
  BY <1>3 DEF Gentle
<1>4. CASE a \notin DOMAIN hp
  <2>1. \A v : [hp EXCEPT ![a] = v] = hp
    BY <1>4 DEF HeapType
  <2> QED BY <1>2, <2>1 DEF Counted
<1>5. CASE a \in DOMAIN hp
  <2> DEFINE v == hp[a]
  <2>1. v \in ValueType
    BY <1>1, <1>5
  <2>2. \A n : /\ [v EXCEPT !.ref_count = n].value_size = v.value_size /\ [v EXCEPT !.ref_count = n].kids = v.kids
               /\ [v EXCEPT !.size = n].value_size = v.value_size /\ [v EXCEPT !.size = n].kids = v.kids
               /\ [v EXCEPT !.kids = n].value_size = v.value_size /\ [v EXCEPT !.kids = n].kids = n
    <3> HIDE DEF v
    <3> QED BY <2>1 DEF ValueType
  <2>3. Gentle(hp, Counted(hp, a))
    BY <1>3, <2>2 DEF Counted
  <2>4. Gentle(hp, [hp EXCEPT ![a].ref_count = IF @ > 0 THEN @ - 1 ELSE @])
    BY <1>3, <2>2
  <2>5. Gentle(hp, [hp EXCEPT ![a].size = @ - 1])
    BY <1>3, <2>2
  <2>6. \A kids : (hp[a].kids = <<>> => kids = <<>>) => Gentle(hp, [hp EXCEPT ![a].kids = kids])
    BY <1>3, <2>2
  <2> QED BY <1>2, <2>3, <2>4, <2>5, <2>6
<1> QED BY <1>4, <1>5

\* An element is assigned to, or moves up.
LEMMA GentleKids ==
  ASSUME NEW hp, HeapType(hp), NEW a, NEW k
  PROVE  /\ \A r : Gentle(hp, [hp EXCEPT ![a].kids[k] = r])
         /\ \A n : Gentle(hp, [hp EXCEPT ![a].kids = Shifted(@, k, n)])
<1>1. ASSUME NEW r PROVE Gentle(hp, [hp EXCEPT ![a].kids[k] = r])
  <2> DEFINE kids == [hp[a].kids EXCEPT ![k] = r]
  <2>1. hp[a].kids = <<>> => kids = <<>>
    OBVIOUS
  <2>2. [hp EXCEPT ![a].kids[k] = r] = [hp EXCEPT ![a].kids = kids]
    OBVIOUS
  <2> HIDE DEF kids
  <2> QED BY <2>1, <2>2, GentleIs
<1>2. ASSUME NEW n PROVE Gentle(hp, [hp EXCEPT ![a].kids = Shifted(@, k, n)])
  <2> DEFINE kids == Shifted(hp[a].kids, k, n)
  <2>1. hp[a].kids = <<>> => kids = <<>>
    BY DEF Shifted
  <2>2. [hp EXCEPT ![a].kids = Shifted(@, k, n)] = [hp EXCEPT ![a].kids = kids]
    OBVIOUS
  <2> HIDE DEF kids
  <2> QED BY <2>1, <2>2, GentleIs
<1> QED BY <1>1, <1>2

\* A value is assigned to, or counted.
LEMMA GentleEffect ==
  ASSUME IInv, Outside, Gentle(heap, heap'), ref_table' = ref_table, status' \in {"ok", "asserted"}
  PROVE  Effect
<1>1. Memory(heap, ref_table, free_list, memory_pool, memory_size, FALSE)
  BY OutsideState
<1> QED BY <1>1, GentleSteady DEF Effect

\* The memory is left alone or a value counted.
LEMMA CountEffect ==
  ASSUME IInv, Outside, SameMemory \/ \E r : incref(r)
  PROVE  Effect
<1>1. HeapType(heap) /\ status = "ok"
  BY OutsideState DEF Memory, PoolOK
<1>2. CASE SameMemory
  BY <1>1, <1>2, GentleIs, GentleEffect DEF SameMemory
<1>3. ASSUME NEW r, incref(r) PROVE Effect
  <2>1. Gentle(heap, heap') /\ ref_table' = ref_table /\ status' \in {"ok", "asserted"}
    BY <1>1, <1>3, GentleIs DEF incref
  <2> QED BY <2>1, GentleEffect
<1> QED BY <1>2, <1>3

\* A value is made.
LEMMA MakeEffect ==
  ASSUME IInv, Outside, NEW m \in Nat, m > Header, Fits(m), NEW type \in {"int", "list", "array"},
         NEW kids \in Seq(RefOrNull), NEW size \in Nat, make_ref(type, m, kids, size)
  PROVE  Effect
<1> DEFINE c == CarvedFrom(free_list, m)
           v == Value(type, c.size, kids, size)
           i == BestFit(free_list, m)
           fl2 == LeftOver(free_list, m)
<1>h. Header \in Nat /\ Header >= 1
  BY HeaderAssumption
<1>p. m \in Pos
  BY <1>h DEF Pos
<1>1. Memory(heap, ref_table, free_list, memory_pool, memory_size, FALSE) /\ m \in Pos /\ status = "ok"
  BY <1>p, OutsideState
<1>c. c = CarvedFrom(free_list, m) /\ v = Value(type, c.size, kids, size) /\ i = BestFit(free_list, m) /\ fl2 = LeftOver(free_list, m)
      /\ v.value_size = c.size
  BY DEF Value
<1>2. free_list \in Seq(BlockType) /\ FreeApart(free_list) /\ LargeEnough(free_list, m) # {}
  BY <1>1 DEF Memory, PoolOK, Fits
<1> HIDE DEF c, v, i, fl2
<1>3. Taken(free_list, m, i, c, fl2)
  BY <1>1, <1>2, <1>c, TakenBlock
<1>4. c.size \in Nat /\ c.size >= m
  <2>1. free_list[i] \in BlockType /\ free_list[i].size >= m /\ c \in BlockType
        /\ c.size = IF Splits(free_list[i], m) THEN m ELSE free_list[i].size
    BY <1>2, <1>3 DEF Taken
  <2> QED BY <2>1 DEF BlockType, Pos
<1>5. MakesRef(m, v, c) /\ status' = status
  BY <1>1, <1>c, MakesRefIs
<1>6. Objects(heap', ref_table') = Adding(Objects(heap, ref_table), NewRef, v) /\ NewRef \notin DOMAIN Objects(heap, ref_table)
  BY <1>1, <1>5, MakeStep
<1>7. v.value_size > Header
  BY <1>h, <1>4, <1>c
<1> DEFINE ob == Objects(heap, ref_table)
           n == NewRef
<1>8. Steady(ob, Adding(ob, n, v))
  <2>1. n \notin DOMAIN ob
    BY <1>6
  <2> HIDE DEF ob, n
  <2> QED BY <1>7, <2>1 DEF Steady, Adding
<1> QED BY <1>1, <1>5, <1>6, <1>8 DEF Effect

\* An integer, a list or an array is made.
LEMMA MadeEffect ==
  ASSUME IInv, Outside
  PROVE  /\ Fits(IntWords) /\ make_ref("int", IntWords, <<>>, 0) => Effect
         /\ \A len \in Lens :
              Fits(ArrayWords(len)) /\ make_ref("array", ArrayWords(len), NoRefs(len), len) => Effect
<1>h. Header \in Nat /\ Header >= 1
  BY HeaderAssumption
<1>1. ASSUME Fits(IntWords), make_ref("int", IntWords, <<>>, 0) PROVE Effect
  <2> DEFINE m == IntWords
             kids == <<>>
             size == 0
  <2>1. m \in Nat /\ m > Header /\ kids \in Seq(RefOrNull) /\ size \in Nat
    BY <1>h DEF IntWords
  <2>2. Fits(m) /\ make_ref("int", m, kids, size)
    BY <1>1
  <2> HIDE DEF m, kids, size
  <2> QED BY <2>1, <2>2, MakeEffect
<1>2. ASSUME NEW len \in Lens, Fits(ArrayWords(len)), make_ref("array", ArrayWords(len), NoRefs(len), len)
      PROVE  Effect
  <2> DEFINE m == ArrayWords(len)
             kids == NoRefs(len)
  <2>l. len \in Nat
    BY RefsAssumption
  <2>1. m \in Nat /\ m > Header
    BY <1>h, <2>l DEF ArrayWords
  <2>2. kids \in Seq(RefOrNull)
    BY <2>l, NoRefsIs
  <2>3. Fits(m) /\ make_ref("array", m, kids, len)
    BY <1>2
  <2> HIDE DEF m, kids
  <2> QED BY <2>1, <2>2, <2>3, <2>l, MakeEffect
<1> QED BY <1>1, <1>2

\* A list is made: its elements are the references held.
LEMMA ListEffect ==
  ASSUME IInv, Outside, Resuming("list"), Fits(ListWords), make_ref("list", ListWords, after.refs, after.size)
  PROVE  Effect
<1> DEFINE m == ListWords
           kids == after.refs
           size == after.size
<1>h. Header \in Nat /\ Header >= 1
  BY HeaderAssumption
<1>1. m \in Nat /\ m > Header
  BY <1>h DEF ListWords
<1>2. Follows(Objects(heap, ref_table), ref_table, global_vars, stack, <<>>, after) /\ after.to = "list"
  BY ResumeState DEF Resuming
<1>3. kids = <<after.ref>> /\ after.ref \in DOMAIN Objects(heap, ref_table)
      /\ size = Len(Objects(heap, ref_table)[after.ref].kids)
  BY <1>2 DEF Follows, ArrayOK, Arrays
<1>4. Values(Objects(heap, ref_table))
  BY OutsideState, MemoryObjects
<1> DEFINE ob == Objects(heap, ref_table)
<1>5. after.ref \in Pos /\ size \in Nat
  <2>1. Values(ob) /\ after.ref \in DOMAIN ob /\ size = Len(ob[after.ref].kids)
    BY <1>3, <1>4
  <2> HIDE DEF ob
  <2>2. after.ref \in Pos /\ ob[after.ref].kids \in Seq(RefOrNull)
    BY <2>1, ValueFields
  <2> QED BY <2>1, <2>2
<1>6. kids \in Seq(RefOrNull)
  BY <1>3, <1>5 DEF RefOrNull
<1>7. Fits(m) /\ make_ref("list", m, kids, size)
  OBVIOUS
<1> HIDE DEF m, kids, size
<1> QED BY <1>1, <1>5, <1>6, <1>7, MakeEffect

\* An expression that is evaluated while an exception is pending.
LEMMA DropEffect ==
  ASSUME IInv, Outside, Drop
  PROVE  Effect
BY CountEffect, MadeEffect DEF Drop

\* An element is stored.
LEMMA StoreEffect ==
  ASSUME IInv, Outside, Quiet, StoreElement
  PROVE  Effect
<1>1. status' = status /\ ref_table' = ref_table /\ status = "ok"
  BY StoredElement, OutsideState
<1>2. HeapType(heap)
  BY OutsideState DEF Memory, PoolOK
<1> DEFINE a == Top(1).array
           k == Top(1).idx + 1
           e == Top(0).ref
<1>3. heap' = [heap EXCEPT ![a].kids[k] = e] \/ heap' = heap
  BY DEF StoreElement
<1> HIDE DEF a, k, e
<1>4. Gentle(heap, heap')
  <2>1. Gentle(heap, [heap EXCEPT ![a].kids[k] = e]) /\ Gentle(heap, heap)
    BY <1>2, GentleIs, GentleKids
  <2> QED BY <1>3, <2>1
<1> QED BY <1>1, <1>4, GentleEffect

\* Between two operations, and in one that resumes.
LEMMA OutsideIs ==
  /\ Idle => Outside
  /\ Calling("decref") \/ Calling("free") => Outside
  /\ \A to \in {"list", "return", "pending", "refused", "global", "drop", "store", "shift"} :
       Resuming(to) => Outside
BY DEF Outside, Idle, Calling, Resuming

\* An exception leaves the pool.
LEMMA RaiseElsewhere ==
  ASSUME IInv, Outside, NEW held, NEW frames, Raise(held, frames)
  PROVE  Elsewhere
<1>1. Effect /\ SamePool
  BY CountEffect DEF Raise, Unwind
<1>2. after'.to # "sweep"
  BY ThenTo DEF Raise, Unwind
<1> QED BY <1>1, <1>2 DEF Elsewhere

\* The evaluator goes on.
LEMMA ContinueElsewhere ==
  ASSUME Outside, Effect, NEW frames, NEW steps, NEW next, Continue(frames, steps, next), next.to # "sweep"
  PROVE  Elsewhere
BY DEF Continue, Elsewhere

\* It goes on with a new integer, or with a singleton, or an assertion fails.
LEMMA ResultElsewhere ==
  ASSUME IInv, Outside, NEW refs
  PROVE  /\ \A next : NewInt(refs, next) /\ next.to # "sweep" => Elsewhere
         /\ \A r : Singleton(refs, r) => Elsewhere
         /\ Asserted => Elsewhere
<1>1. ASSUME NEW next, NewInt(refs, next), next.to # "sweep" PROVE Elsewhere
  BY <1>1, MadeEffect, ContinueElsewhere, RaiseElsewhere DEF NewInt
<1>2. ASSUME NEW r, Singleton(refs, r) PROVE Elsewhere
  BY <1>2, CountEffect, ContinueElsewhere, ThenTo DEF Singleton
<1>3. Asserted => Elsewhere
  BY DEF Asserted, SameProgram, Effect, Elsewhere
<1> QED BY <1>1, <1>2, <1>3

\* Expressions.
LEMMA ExprElsewhere ==
  ASSUME IInv, Expr
  PROVE  Gc \/ Elsewhere
<1>1. CASE EvalInt
  <2>1. Outside
    BY <1>1, OutsideIs DEF EvalInt, Ready
  <2> QED BY <1>1, <2>1, MadeEffect, ContinueElsewhere, RaiseElsewhere, ThenTo DEF EvalInt
<1>2. CASE EvalSingleton
  <2>1. Outside
    BY <1>2, OutsideIs DEF EvalSingleton, Ready
  <2> QED BY <1>2, <2>1, CountEffect, ContinueElsewhere, ThenTo DEF EvalSingleton
<1>3. ASSUME NEW n \in Names, EvalName(n) PROVE Elsewhere
  <2>1. Outside
    BY <1>3, OutsideIs DEF EvalName, Ready
  <2> QED BY <1>3, <2>1, CountEffect, ContinueElsewhere, RaiseElsewhere, ThenTo DEF EvalName
<1>4. ASSUME NEW len \in Lens, EvalList(len) PROVE Elsewhere
  <2>1. Outside
    BY <1>4, OutsideIs DEF EvalList, Ready
  <2> QED BY <1>4, <2>1, MadeEffect, ContinueElsewhere, RaiseElsewhere, ThenTo DEF EvalList
<1>5. CASE NewList
  <2>1. Outside /\ Resuming("list")
    BY <1>5, OutsideIs DEF NewList
  <2> QED BY <1>5, <2>1, ListEffect, ContinueElsewhere, RaiseElsewhere, ThenTo DEF NewList
<1>6. CASE ElementDone
  <2>1. Outside /\ Quiet
    BY <1>6, OutsideIs, IdleQuiet DEF ElementDone
  <2> QED BY <1>6, <2>1, StoreEffect, ContinueElsewhere, ThenTo DEF ElementDone
<1>7. CASE EvalBuiltin
  <2>1. Outside
    BY <1>7, OutsideIs DEF EvalBuiltin
  <2> QED BY <1>7, <2>1, ResultElsewhere, RaiseElsewhere, ThenTo DEF EvalBuiltin, bool_ref
<1>8. CASE EvalUnary
  <2>1. Outside
    BY <1>8, OutsideIs DEF EvalUnary
  <2> QED BY <1>8, <2>1, ResultElsewhere, RaiseElsewhere, ThenTo DEF EvalUnary
<1>9. CASE Refused
  <2>1. Resuming("refused") /\ Outside
    BY <1>9, OutsideIs DEF Refused
  <2>2. Quiet
    BY <2>1 DEF Resuming, Quiet
  <2>3. Effect
    BY <1>9, <2>1, <2>2, CountEffect, StoreEffect DEF Refused
  <2>4. SamePool /\ after'.to # "sweep"
    BY <1>9, ThenTo DEF Refused, Unwind, Continue
  <2> QED BY <2>1, <2>3, <2>4 DEF Elsewhere
<1>10. CASE EvalCall
  <2>1. Outside /\ Drop /\ SamePool /\ after'.to # "sweep"
    BY <1>10, OutsideIs, ThenTo DEF EvalCall, Ready, Unwind
  <2> QED BY <2>1, DropEffect DEF Elsewhere
<1>11. CASE EvalAndOr
  <2>1. Outside
    BY <1>11, OutsideIs DEF EvalAndOr
  <2> QED BY <1>11, <2>1, CountEffect, ContinueElsewhere, ThenTo DEF EvalAndOr
<1>12. CASE EvalSubscript
  <2>1. Outside
    BY <1>12, OutsideIs DEF EvalSubscript
  <2> QED BY <1>12, <2>1, CountEffect, ResultElsewhere, ContinueElsewhere, RaiseElsewhere, ThenTo DEF EvalSubscript
<1>13. CASE GcReturn
  <2>1. Outside
    BY <1>13, OutsideIs DEF GcReturn
  <2> QED BY <1>13, <2>1, CountEffect, ContinueElsewhere, ThenTo DEF GcReturn
<1>14. CASE Reevaluate
  <2>1. Outside /\ Drop /\ SamePool /\ after'.to # "sweep"
    BY <1>14, OutsideIs, ThenTo DEF Reevaluate, Unwind
  <2> QED BY <2>1, DropEffect DEF Elsewhere
<1> QED BY <1>1, <1>2, <1>3, <1>4, <1>5, <1>6, <1>7, <1>8, <1>9, <1>10, <1>11, <1>12, <1>13, <1>14 DEF Expr

\* A heap with one count more.
LEMMA CountedType ==
  ASSUME NEW hp, HeapType(hp), NEW a
  PROVE  HeapType(Counted(hp, a))
<1>1. CASE a \notin DOMAIN hp
  <2>1. Counted(hp, a) = hp
    BY <1>1 DEF HeapType, Counted
  <2> QED BY <2>1
<1>2. CASE a \in DOMAIN hp
  <2>1. hp[a] \in ValueType
    BY <1>2 DEF HeapType
  <2>2. [hp[a] EXCEPT !.ref_count = @ + 1] \in ValueType
    BY <2>1 DEF ValueType
  <2> QED BY <2>2 DEF Counted, HeapType
<1> QED BY <1>1, <1>2

\* Statements.
LEMMA StmtElsewhere ==
  ASSUME IInv, Stmt
  PROVE  Elsewhere
<1>1. ASSUME NEW n \in Names, AssignName(n) PROVE Elsewhere
  <2>1. Outside
    BY <1>1, OutsideIs DEF AssignName
  <2>2. SamePool /\ after'.to # "sweep"
    <3>1. ASSUME NEW i, NEW r, after' = Then("global", i, NULL, 0, r, <<r>>) PROVE after'.to # "sweep"
      <4> DEFINE to == "global"
      <4>1. after' = Then(to, i, NULL, 0, r, <<r>>) /\ to # "sweep"
        BY <3>1
      <4> HIDE DEF to
      <4> QED BY <4>1, ThenTo
    <3>2. after' = Nothing => after'.to # "sweep"
      BY ThenTo
    <3> QED BY <1>1, <3>1, <3>2 DEF AssignName
  <2> QED BY <1>1, <2>1, <2>2, CountEffect DEF AssignName, Elsewhere
<1>2. ASSUME NEW n \in Names, DelName(n) PROVE Elsewhere
  <2>1. Outside
    BY <1>2, OutsideIs DEF DelName
  <2>2. CASE Raise(<<>>, stack)
    BY <2>1, <2>2, RaiseElsewhere
  <2>3. ASSUME NEW i, NEW frames, NEW steps, SameMemory,
               Continue(frames, steps, Then("drop", i, NULL, 0, NULL_REF, <<>>))
        PROVE  Elsewhere
    BY <2>1, <2>3, CountEffect, ContinueElsewhere, ThenTo
  <2> QED BY <1>2, <2>2, <2>3 DEF DelName
<1>3. CASE SetGlobal
  <2>1. Outside
    BY <1>3, OutsideIs DEF SetGlobal
  <2>2. SamePool /\ after'.to # "sweep"
    BY <1>3, ThenTo DEF SetGlobal
  <2> QED BY <1>3, <2>1, <2>2, CountEffect DEF SetGlobal, NewValue, Elsewhere
<1>4. CASE DropGlobal
  <2>1. Outside
    BY <1>4, OutsideIs DEF DropGlobal
  <2>2. SamePool /\ after'.to # "sweep"
    BY <1>4, ThenTo DEF DropGlobal
  <2> QED BY <1>4, <2>1, <2>2, CountEffect DEF DropGlobal, Elsewhere
<1>5. CASE AssignSubscript
  <2>1. Outside
    BY <1>5, OutsideIs DEF AssignSubscript
  <2>2. CASE Raise(<<>>, stack)
    BY <2>1, <2>2, RaiseElsewhere
  <2>3. ASSUME NEW k, NEW a, NEW r, NEW refs, NEW frames, NEW steps, SameMemory,
               Continue(frames, steps, Then("store", k, a, 0, r, refs))
        PROVE  Elsewhere
    BY <2>1, <2>3, CountEffect, ContinueElsewhere, ThenTo
  <2> QED BY <1>5, <2>2, <2>3 DEF AssignSubscript
<1>6. CASE SetElement
  <2> DEFINE a == ref_table[after.ref]
             b == after.array
             hp == Counted(heap, a)
  <2>1. Outside /\ ref_table' = ref_table
    BY <1>6, OutsideIs DEF SetElement
  <2>2. HeapType(heap) /\ status = "ok"
    BY <2>1, OutsideState DEF Memory, PoolOK
  <2>3. \/ heap' = [hp EXCEPT ![b].kids[after.at] = after.ref] /\ status' = status
        \/ heap' = heap /\ status' = "asserted"
    BY <1>6 DEF SetElement
  <2>4. HeapType(hp)
    BY <2>2, CountedType
  <2> HIDE DEF hp, a, b
  <2>5. Gentle(heap, heap) /\ Gentle(heap, hp) /\ Gentle(hp, [hp EXCEPT ![b].kids[after.at] = after.ref])
    BY <2>2, <2>4, GentleIs, GentleKids DEF hp
  <2>6. Gentle(heap, heap')
    BY <2>3, <2>5 DEF Gentle
  <2>7. Effect
    BY <2>1, <2>2, <2>3, <2>6, GentleEffect
  <2> QED BY <1>6, <2>1, <2>7, ContinueElsewhere, ThenTo DEF SetElement
<1>7. CASE DelSubscript
  <2>1. Outside
    BY <1>7, OutsideIs DEF DelSubscript
  <2>2. HeapType(heap) /\ status = "ok"
    BY <2>1, OutsideState DEF Memory, PoolOK
  <2>3. CASE Raise(<<>>, stack)
    BY <2>1, <2>3, RaiseElsewhere
  <2>4. CASE ~Raise(<<>>, stack)
    <3> DEFINE a == ref_table[Top(1).ref]
    <3>1. heap' = [heap EXCEPT ![a].size = @ - 1] /\ ref_table' = ref_table /\ status' = status
      BY <1>7, <2>4 DEF DelSubscript
    <3> HIDE DEF a
    <3>2. Gentle(heap, [heap EXCEPT ![a].size = @ - 1])
      BY <2>2, GentleIs
    <3>3. Effect
      BY <2>1, <2>2, <3>1, <3>2, GentleEffect
    <3>4. ASSUME NEW k, NEW b, NEW n, NEW refs, NEW frames, NEW steps,
                 Continue(frames, steps, Then("shift", k, b, n, NULL_REF, refs))
          PROVE  Elsewhere
      BY <2>1, <3>3, <3>4, ContinueElsewhere, ThenTo
    <3> QED BY <1>7, <2>4, <3>4 DEF DelSubscript
  <2> QED BY <2>3, <2>4
<1>8. CASE DelElement
  <2>1. Outside /\ ref_table' = ref_table /\ status' = status
    BY <1>8, OutsideIs DEF DelElement
  <2>2. HeapType(heap) /\ status = "ok"
    BY <2>1, OutsideState DEF Memory, PoolOK
  <2> DEFINE a == after.array
             k == after.at
             n == after.size
  <2>3. heap' = [heap EXCEPT ![a].kids = Shifted(@, k, n)]
    BY <1>8 DEF DelElement
  <2> HIDE DEF a, k, n
  <2>4. Gentle(heap, [heap EXCEPT ![a].kids = Shifted(@, k, n)])
    BY <2>2, GentleKids
  <2>5. Effect
    BY <2>1, <2>2, <2>3, <2>4, GentleEffect
  <2> QED BY <1>8, <2>1, <2>5, ContinueElsewhere, ThenTo DEF DelElement
<1>9. CASE ExprStmt
  <2>1. Outside /\ SameMemory /\ SamePool /\ after' = after
    BY <1>9, OutsideIs DEF ExprStmt
  <2> QED BY <2>1, CountEffect DEF Elsewhere
<1> QED BY <1>1, <1>2, <1>3, <1>4, <1>5, <1>6, <1>7, <1>8, <1>9 DEF Stmt

\* The steps of the program that are no part of a collection.
LEMMA ElsewhereIs ==
  ASSUME IInv, Next
  PROVE  Gc \/ Copy \/ Sweep \/ Elsewhere
<1>1. CASE Decref
  <2>1. Outside /\ ref_table' = ref_table /\ SamePool /\ after' = after
    BY <1>1, OutsideIs DEF Decref, SameProgram
  <2>2. HeapType(heap) /\ status = "ok"
    BY <2>1, OutsideState DEF Memory, PoolOK
  <2> DEFINE a == ref_table[Head(todo).ref]
  <2>3. /\ heap' = heap \/ heap' = [heap EXCEPT ![a].ref_count = IF @ > 0 THEN @ - 1 ELSE @]
        /\ status' \in {"ok", "asserted"}
    BY <1>1, <2>2 DEF Decref
  <2> HIDE DEF a
  <2>4. Gentle(heap, heap) /\ Gentle(heap, [heap EXCEPT ![a].ref_count = IF @ > 0 THEN @ - 1 ELSE @])
    BY <2>2, GentleIs
  <2>5. Gentle(heap, heap')
    BY <2>3, <2>4
  <2>6. Effect
    BY <2>1, <2>3, <2>5, GentleEffect
  <2> QED BY <2>1, <2>6 DEF Elsewhere
<1>2. CASE Free
  <2>1. Outside /\ SamePool /\ after' = after /\ status' = status /\ status = "ok"
    BY <1>2, OutsideIs DEF Free, SameProgram, Outside
  <2>2. Objects(heap', ref_table') = Dropping(Objects(heap, ref_table), Head(todo).ref)
    BY <1>2, StepFree
  <2> DEFINE ob == Objects(heap, ref_table)
             r == Head(todo).ref
  <2>3. Steady(ob, Dropping(ob, r))
    <3> HIDE DEF ob, r
    <3> QED BY DEF Steady, Dropping
  <2>4. Effect
    BY <2>1, <2>2, <2>3 DEF Effect
  <2> QED BY <2>1, <2>4 DEF Elsewhere
<1> QED BY <1>1, <1>2, ExprElsewhere, StmtElsewhere DEF Next

-----------------------------------------------------------------------------
(* Collections find room: what is still to be copied fits into what is left of *)
(* the new half, as long as the values that are no longer than a header come   *)
(* first.  None, True and False do: they are the first globals.                *)

\* The half that values are copied from, and those that are still to be copied.
Other(lo) == IF lo = 0 THEN Half ELSE 0
Waiting(tb, lo) == Live(tb) \ Home(tb, lo, Half)

\* S stands for the words that were copied: they and the words to be copied are
\* apart, and the new half has room for the rest or, but for less than a header, is full.
Leaves(hp, tb, fl, lo, S) ==
  /\ S \in SUBSET (Other(lo) .. Other(lo) + Half - 1)
  /\ \A r \in Waiting(tb, lo) : S \cap Words(SpanOf(hp, tb[r])) = {}
  /\ \/ \E b \in BlockType : fl = <<b>> /\ b.size + Cardinality(S) = Half
     \/ fl = <<>> /\ Cardinality(S) + Header >= Half /\ (1 .. 3) \cap Waiting(tb, lo) = {}
\* The first k globals are copied, the others of the three are next.
First(k, tb, fl, lo, td) ==
  /\ \A i \in 1 .. 3 : i \in Waiting(tb, lo) <=> i > k
  /\ k < 3 => Len(fl) = 1 /\ fl[1].size = Half - k * Header /\ Len(td) >= 3 - k
  /\ \A i \in 1 .. 3 : i + k <= 3 => td[i].ref = i + k
Room(hp, tb, fl, lo, td) ==
  /\ \A r \in Waiting(tb, lo) : Inside(SpanOf(hp, tb[r]), Other(lo), Half)
  /\ \E S : Leaves(hp, tb, fl, lo, S)
  /\ \E k \in 0 .. 3 : First(k, tb, fl, lo, td)

\* None, True and False are as short as a header, nothing else is.
Sized(ob) ==
  /\ 1 .. 3 \subseteq DOMAIN ob
  /\ \A r \in DOMAIN ob : IF r \in 1 .. 3 THEN ob[r].value_size = Header /\ ob[r].kids = <<>>
                                          ELSE ob[r].value_size > Header
\* f tells which half is in use, once one is.
Link ==
  /\ memory_size = Half => memory_pool = IF f THEN Half ELSE 0
  /\ memory_size # Half => ~f

\* The invariant of collections.
GcInv ==
  /\ status = "ok" /\ Link /\ Sized(Objects(heap, ref_table))
  /\ Collecting => memory_size = Half /\ Room(heap, ref_table, free_list, memory_pool, todo)

\* Half a pool of even size.
LEMMA HalfIs == PoolSize = 2 * Half /\ Half \in Nat /\ Half >= 1 /\ Header \in Nat /\ Header >= 1
<1>1. PoolSize \in Nat /\ PoolSize % 2 = 0
  BY RefsAssumption
<1>2. PoolSize = 2 * (PoolSize \div 2)
  BY <1>1
<1>3. Half \in Nat /\ Half >= 1
  BY HalfType DEF Pos
<1> QED BY <1>2, <1>3, HeaderAssumption DEF Half

\* A block of a half and words of it that are apart.
LEMMA WordsFit ==
  ASSUME NEW lo \in Nat, NEW S \in SUBSET (lo .. lo + Half - 1), NEW b \in BlockType, Inside(b, lo, Half),
         S \cap Words(b) = {}
  PROVE  /\ S \cup Words(b) \in SUBSET (lo .. lo + Half - 1)
         /\ Cardinality(S \cup Words(b)) = Cardinality(S) + b.size
         /\ Cardinality(S) + b.size <= Half /\ Cardinality(S) \in Nat
<1> DEFINE W == Words(b)
           hi == lo + Half - 1
           H == lo .. hi
           n == b.addr + b.size - 1
<1>1. Half \in Nat /\ Half >= 1
  BY HalfIs
<1>2. b.addr \in Nat /\ b.size \in Nat /\ b.size >= 1
  BY DEF BlockType, Pos
<1>3. lo <= b.addr /\ b.addr + b.size <= lo + Half
  BY DEF Inside
<1>4. lo \in Int /\ hi \in Int /\ n \in Int /\ b.addr \in Int /\ ~(lo > hi) /\ ~(b.addr > n)
  BY <1>1, <1>2
<1>5. W = b.addr .. n
  BY DEF Words
<1>6. W \subseteq H
  BY <1>1, <1>2, <1>3, <1>5
<1>a. hi - lo + 1 = Half /\ n - b.addr + 1 = b.size
  BY <1>1, <1>2
<1>n. S \in SUBSET H
  OBVIOUS
<1> HIDE DEF hi, n
<1>7. IsFiniteSet(H) /\ Cardinality(H) = Half
  BY <1>4, <1>a, FS_Interval
<1>8. IsFiniteSet(W) /\ Cardinality(W) = b.size
  BY <1>4, <1>5, <1>a, FS_Interval
<1> HIDE DEF H, W
<1>9. IsFiniteSet(S)
  BY <1>7, <1>n, FS_Subset
<1>10. Cardinality(S) \in Nat
  BY <1>9, FS_CardinalityType
<1>11. S \cap W = {} /\ Cardinality({}) = 0
  BY FS_EmptySet DEF W
<1>12. Cardinality(S \cup W) = Cardinality(S) + Cardinality(W) - Cardinality(S \cap W)
  BY <1>8, <1>9, FS_Union
<1>13. Cardinality(S \cup W) = Cardinality(S) + b.size
  BY <1>2, <1>8, <1>10, <1>11, <1>12
<1>14. S \cup W \subseteq H
  BY <1>6, <1>n
<1>15. Cardinality(S \cup W) <= Half
  BY <1>7, <1>14, FS_Subset
<1> QED BY <1>10, <1>13, <1>14, <1>15 DEF H, W, hi

\* A list of one block.
LEMMA OneBlock ==
  ASSUME NEW b \in BlockType, NEW m \in Pos, NEW fl, fl = <<b>>
  PROVE  /\ LargeEnough(fl, m) # {} <=> b.size >= m
         /\ b.size >= m =>
              /\ BestFit(fl, m) = 1 /\ CarvedFrom(fl, m).addr = b.addr
              /\ LeftOver(fl, m) = IF Splits(b, m) THEN <<Rest(b, m)>> ELSE <<>>
<1>1. DOMAIN fl = {1} /\ fl[1] = b /\ Len(fl) = 1
  OBVIOUS
<1>2. LargeEnough(fl, m) = IF b.size >= m THEN {1} ELSE {}
  BY <1>1 DEF LargeEnough
<1>3. ASSUME b.size >= m
      PROVE  /\ BestFit(fl, m) = 1 /\ CarvedFrom(fl, m).addr = b.addr
             /\ LeftOver(fl, m) = IF Splits(b, m) THEN <<Rest(b, m)>> ELSE <<>>
  <2>1. LargeEnough(fl, m) = {1}
    BY <1>2, <1>3
  <2>2. BestFit(fl, m) = 1
    BY <2>1 DEF BestFit
  <2>3. CarvedFrom(fl, m).addr = b.addr
    BY <1>1, <2>2 DEF CarvedFrom, Carved, Block
  <2>4. Splits(b, m) => LeftOver(fl, m) = <<Rest(b, m)>>
    <3>1. [fl EXCEPT ![1] = Rest(b, m)] = <<Rest(b, m)>>
      OBVIOUS
    <3> QED BY <1>1, <2>2, <3>1 DEF LeftOver
  <2>5. ~Splits(b, m) => LeftOver(fl, m) = <<>>
    <3>1. RemoveAt(fl, 1) = <<>>
      BY <1>1 DEF RemoveAt
    <3> QED BY <1>1, <2>2, <3>1 DEF LeftOver
  <2> QED BY <2>2, <2>3, <2>4, <2>5
<1> QED BY <1>2, <1>3

-----------------------------------------------------------------------------
(* No collection fails. *)

\* The evaluator always has None, True and False.
LEMMA FixedLive ==
  ASSUME NEW ob, NEW tb, NEW gl, NEW st, NEW lk, NEW td, NEW af, Graph(ob, tb, gl, st, lk, td, af)
  PROVE  1 .. 3 \subseteq DOMAIN ob
<1> DEFINE gv == VacantGlobal(af)
           kv == VacantElement(ob, af)
           h == Holding(af.refs)
<1>1. Pending(ob, tb, gl, gv, st, kv, lk, td, h)
  BY DEF Graph
<1> HIDE DEF gv, kv, h
<1> SUFFICES ASSUME NEW i \in 1 .. 3 PROVE i \in DOMAIN ob
  OBVIOUS
<1>2. gl \in Seq(GlobalType) /\ i \notin gv /\ Fixed(gl)
  BY <1>1 DEF Pending, Typed, Shape
<1>3. i \in DOMAIN gl /\ gl[i].ref = i
  BY <1>2 DEF Fixed
<1>4. Cardinality(GlobalPlaces(gl, gv, i)) >= 1
  BY <1>2, <1>3, GlobalFound
<1>5. i \in Pos
  BY DEF Pos
<1>6. /\ Cardinality(GlobalPlaces(gl, gv, i)) \in Nat /\ Held(st, i) \in Nat
      /\ Cardinality(ElementPlaces(ob, Owners(ob), kv, i)) \in Nat
      /\ Occurrences(lk, i) \in Nat /\ h[i] \in Nat /\ Count(ob, i) \in Nat
      /\ Releasing(td, i) \in Nat
      /\ Count(ob, i) = Cardinality(GlobalPlaces(gl, gv, i)) + Held(st, i)
                        + Cardinality(ElementPlaces(ob, Owners(ob), kv, i))
                        + Occurrences(lk, i) + h[i] + Releasing(td, i)
  BY <1>1, <1>5, PendingTerms
<1>7. Count(ob, i) # 0
  BY <1>4, <1>6
<1> QED BY <1>7 DEF Count

\* So it does after a step that does not end in a collection.
LEMMA FixedNext ==
  ASSUME IInv', status' = "ok", after'.to # "sweep"
  PROVE  1 .. 3 \subseteq DOMAIN Objects(heap', ref_table')
<1>1. SweepNext.to = "sweep" /\ SweepNext' = SweepNext
  BY DEF SweepNext, Then
<1>2. ~Gathering'
  BY <1>1 DEF Gathering
<1>3. Evaluating'
  BY <1>2 DEF IInv
<1>4. Graph(Objects(heap', ref_table'), ref_table', global_vars', stack', leaked', todo', after')
  BY <1>3 DEF Evaluating
<1> QED BY <1>4, FixedLive

\* In the first state the pool is the whole one.
LEMMA InitGc ==
  ASSUME Init
  PROVE  GcInv
<1> DEFINE ob == Objects(heap, ref_table)
<1>1. Header \in Nat /\ Header >= 1 /\ PoolSize \in Nat /\ PoolSize = 2 * Half /\ Half \in Nat /\ Half >= 1
  BY HalfIs, RefsAssumption
<1>2. memory_size = PoolSize /\ f = FALSE /\ status = "ok" /\ after = Nothing /\ ref_table = <<0, Header, 2 * Header>>
  BY DEF Init
<1>3. Link
  BY <1>1, <1>2 DEF Link
<1>4. ~Collecting
  BY <1>2, NothingIs DEF Collecting
<1>5. /\ DOMAIN heap = {0, Header, 2 * Header}
      /\ \A a \in DOMAIN heap : heap[a].value_size = Header /\ heap[a].kids = <<>>
  BY DEF Init, Value
<1>6. DOMAIN ref_table = 1 .. 3 /\ \A r \in 1 .. 3 : ref_table[r] \in DOMAIN heap /\ ref_table[r] # NULL
  <2>1. ref_table[1] = 0 /\ ref_table[2] = Header /\ ref_table[3] = 2 * Header /\ DOMAIN ref_table = 1 .. 3
    BY <1>2
  <2> QED BY <1>1, <1>5, <2>1 DEF NULL
<1>7. DOMAIN ob = 1 .. 3 /\ \A r \in 1 .. 3 : ob[r] = heap[ref_table[r]]
  BY <1>6 DEF Objects, Live
<1> HIDE DEF ob
<1>8. Sized(ob)
  BY <1>5, <1>6, <1>7 DEF Sized
<1> QED BY <1>2, <1>3, <1>4, <1>8 DEF GcInv, ob

\* Steps of the evaluator.
LEMMA ElsewhereGc ==
  ASSUME IInv, GcInv, IInv', Elsewhere
  PROVE  GcInv'
<1> DEFINE ob == Objects(heap, ref_table)
           ob2 == Objects(heap', ref_table')
<1>1. SamePool /\ Effect /\ (after' = after \/ after'.to # "sweep")
  BY DEF Elsewhere
<1>2. status' # "asserted"
  BY DEF IInv
<1>3. status' = "ok" /\ Steady(ob, ob2)
  BY <1>1, <1>2 DEF Effect
<1>4. after'.to # "sweep" /\ ~Collecting'
  BY <1>1, ElsewhereQuiet DEF Collecting
<1>5. 1 .. 3 \subseteq DOMAIN ob2
  BY <1>3, <1>4, FixedNext
<1>6. Link'
  BY <1>1 DEF GcInv, Link, SamePool, Half
<1>7. Sized(ob)
  BY DEF GcInv
<1>h. Header' = Header
  OBVIOUS
<1> HIDE DEF ob, ob2
<1>8. Sized(ob2)
  <2> SUFFICES ASSUME NEW r \in DOMAIN ob2
               PROVE  IF r \in 1 .. 3 THEN ob2[r].value_size = Header /\ ob2[r].kids = <<>> ELSE ob2[r].value_size > Header
    BY <1>5 DEF Sized
  <2>1. CASE r \in DOMAIN ob
    BY <1>3, <1>7, <2>1 DEF Sized, Steady
  <2>2. CASE r \notin DOMAIN ob
    BY <1>3, <1>7, <2>2 DEF Sized, Steady
  <2> QED BY <2>1, <2>2
<1> QED BY <1>3, <1>4, <1>6, <1>8 DEF GcInv, ob2, Sized, Objects, Live

\* A collection ends.
LEMMA SweepGc ==
  ASSUME IInv, GcInv, IInv', Sweep
  PROVE  GcInv'
<1> DEFINE ob == Objects(heap, ref_table)
           in == Home(ref_table, memory_pool, memory_size)
           hp2 == heap'
           tb2 == ref_table'
           ob2 == Objects(hp2, tb2)
<1>1. Resuming("sweep") /\ SamePool /\ status' = status /\ after' = Then("return", 0, NULL, 0, NONE_REF, <<>>)
  BY DEF Sweep, SameProgram
<1>2. status' = "ok" /\ after'.to # "sweep" /\ ~Collecting'
  BY <1>1, ThenTo DEF Resuming, Collecting
<1>3. 1 .. 3 \subseteq DOMAIN ob2
  BY <1>2, FixedNext
<1>4. Link'
  BY <1>1 DEF GcInv, Link, SamePool, Half
<1>5. Memory(heap, ref_table, free_list, memory_pool, memory_size, TRUE)
  BY <1>1, GatherState DEF Resuming
<1>6. Sweeps(heap, ref_table, memory_pool, memory_size, hp2, tb2)
  BY DEF Sweep, Sweeps, is_pool_address, InPool
<1>7. Sized(ob)
  BY DEF GcInv
<1> HIDE DEF hp2, tb2
<1>8. SweptTo(heap, ref_table, free_list, memory_pool, memory_size, hp2, tb2)
  BY <1>5, <1>6, MemorySwept
<1>9. ob2 = Kept(ob, in) /\ in \subseteq DOMAIN ob
  BY <1>8 DEF SweptTo, Home, Objects
<1> HIDE DEF ob, ob2, in
<1>10. Sized(ob2)
  BY <1>3, <1>7, <1>9 DEF Sized, Kept
<1> QED BY <1>2, <1>4, <1>10 DEF GcInv, ob2, hp2, tb2, Sized, Objects, Live

\* A collection begins: what is in use fits into the other half.
LEMMA StartGc ==
  ASSUME IInv, GcInv, Gc, NestedGc = FALSE, LateGc = FALSE
  PROVE  GcInv'
<1> DEFINE ob == Objects(heap, ref_table)
           none == {}
           l2 == NextHalf
           td == Steps("copy", RefsOf(global_vars))
           fl == mm_init(l2, Half)
<1>1. /\ Idle /\ f' = ~f /\ memory_pool' = l2 /\ memory_size' = Half /\ free_list' = fl /\ todo' = td
      /\ heap' = heap /\ ref_table' = ref_table /\ global_vars' = global_vars
      /\ status' = (IF ToSpaceClear THEN "ok" ELSE "corrupt") /\ (memory_size = Half \/ ToSpaceClear)
  BY DEF Gc, Ready
<1>2. /\ Memory(heap, ref_table, free_list, memory_pool, memory_size, FALSE)
      /\ Settled(ob, ref_table, global_vars, none, stack, none, leaked, Zero)
  BY <1>1, IdleState
<1>3. status = "ok" /\ f \in BOOLEAN /\ PoolIs(memory_pool, memory_size)
  BY <1>1 DEF IInv, Idle
<1>4. Half \in Nat /\ Half >= 1 /\ PoolSize = 2 * Half /\ PoolSize \in Nat /\ Header \in Nat /\ Header >= 1
  BY HalfIs
<1>5. l2 = (IF f THEN 0 ELSE Half) /\ l2 \in Nat
  BY <1>4 DEF NextHalf
<1>6. Link /\ Sized(ob)
  BY DEF GcInv
<1>7. HeapType(heap)
  BY <1>2 DEF Memory, PoolOK
<1>8. ASSUME NEW a \in DOMAIN heap
      PROVE  /\ Inside(SpanOf(heap, a), Other(l2), Half)
             /\ a + heap[a].value_size <= l2 \/ a >= l2 + Half
  <2>1. /\ SpanOf(heap, a).addr = a /\ SpanOf(heap, a).size = heap[a].value_size /\ a \in Nat
        /\ heap[a].value_size \in Nat /\ heap[a].value_size >= 1
    BY <1>7, SpanType DEF Pos
  <2>2. memory_pool <= a /\ a + heap[a].value_size <= memory_pool + memory_size
    <3>1. Inside(SpanOf(heap, a), memory_pool, memory_size)
      BY <1>2 DEF Memory, PoolOK
    <3> QED BY <2>1, <3>1 DEF Inside
  <2>3. CASE memory_size = Half
    <3>1. memory_pool = (IF f THEN Half ELSE 0) /\ Other(l2) = memory_pool
      BY <1>3, <1>4, <1>5, <1>6, <2>3 DEF Link, Other
    <3>2. a + heap[a].value_size <= l2 \/ a >= l2 + Half
      BY <1>3, <1>4, <1>5, <2>1, <2>2, <2>3, <3>1
    <3> QED BY <2>1, <2>2, <2>3, <3>1, <3>2 DEF Inside
  <2>4. CASE memory_size # Half
    <3>1. f = FALSE /\ l2 = Half /\ memory_pool = 0 /\ memory_size = 2 * Half /\ Other(l2) = 0
      BY <1>3, <1>4, <1>5, <1>6, <2>4 DEF Link, Other, PoolIs
    <3>2. a + heap[a].value_size <= l2 \/ a >= l2 + Half
      BY <1>1, <2>4, <3>1 DEF ToSpaceClear, NextHalf
    <3>3. a + heap[a].value_size <= Half
      BY <1>4, <2>1, <2>2, <3>1, <3>2
    <3> QED BY <1>4, <2>1, <3>1, <3>2, <3>3 DEF Inside
  <2> QED BY <2>3, <2>4
<1>9. ToSpaceClear
  BY <1>8 DEF ToSpaceClear
<1>10. status' = "ok"
  BY <1>1, <1>9
<1>11. Link'
  <2>1. memory_size' = Half' /\ memory_pool' = IF f' THEN Half' ELSE 0
    BY <1>1, <1>3, <1>5 DEF Half
  <2> QED BY <2>1 DEF Link
<1>12. Home(ref_table, l2, Half) = {}
  BY <1>2, <1>5, <1>8, HalfType, MemoryFlip
<1>13. Waiting(ref_table, l2) = Live(ref_table)
  BY <1>12 DEF Waiting
<1>14. 1 .. 3 \subseteq Live(ref_table)
  BY <1>6 DEF Sized, Objects
<1>15. /\ fl[1] = Block(l2, Half) /\ Len(fl) = 1 /\ fl = <<Block(l2, Half)>>
       /\ Block(l2, Half) \in BlockType /\ Block(l2, Half).size = Half
  BY <1>4, <1>5 DEF mm_init, Block, BlockType, Pos
<1>16. global_vars \in Seq(GlobalType) /\ Fixed(global_vars)
  BY <1>2 DEF Settled, Typed, Shape
<1>17. /\ RefsOf(global_vars) \in Seq(RefOrNull) /\ DOMAIN RefsOf(global_vars) = DOMAIN global_vars
       /\ \A i \in DOMAIN global_vars : RefsOf(global_vars)[i] = global_vars[i].ref
  BY <1>16, GlobalCalls
<1>18. /\ td \in Seq(CopyType) /\ DOMAIN td = DOMAIN global_vars
       /\ \A i \in DOMAIN global_vars : td[i].ref = global_vars[i].ref
  BY <1>17, CopySteps
<1>a. \A r \in Live(ref_table) : ref_table[r] \in DOMAIN heap
  BY <1>2 DEF Memory, TableOK
<1> HIDE DEF fl, td, l2, ob
<1>19. First(0, ref_table, fl, l2, td)
  <2>1. \A i \in 1 .. 3 : i \in DOMAIN td /\ td[i].ref = i
    BY <1>16, <1>18 DEF Fixed
  <2>2. Len(td) >= 3
    <3>1. 3 \in DOMAIN td
      BY <2>1
    <3> QED BY <1>18, <3>1
  <2>3. fl[1].size = Half - 0 * Header /\ Len(td) >= 3 - 0
    BY <1>4, <1>15, <2>2
  <2>4. \A i \in 1 .. 3 : i \in Waiting(ref_table, l2) <=> i > 0
    BY <1>13, <1>14
  <2>5. \A i \in 1 .. 3 : i + 0 <= 3 => td[i].ref = i + 0
    BY <2>1
  <2> QED BY <1>15, <2>3, <2>4, <2>5 DEF First
<1>20. Leaves(heap, ref_table, fl, l2, {})
  <2>1. Cardinality({}) = 0
    BY FS_EmptySet
  <2>2. \E b \in BlockType : fl = <<b>> /\ b.size + Cardinality({}) = Half
    BY <1>4, <1>15, <2>1
  <2> QED BY <2>2 DEF Leaves
<1>21. Room(heap, ref_table, fl, l2, td)
  <2>1. \A r \in Waiting(ref_table, l2) : Inside(SpanOf(heap, ref_table[r]), Other(l2), Half)
    BY <1>8, <1>13, <1>a
  <2>2. \E S : Leaves(heap, ref_table, fl, l2, S)
    BY <1>20
  <2>3. \E k \in 0 .. 3 : First(k, ref_table, fl, l2, td)
    BY <1>19
  <2> QED BY <2>1, <2>2, <2>3 DEF Room
<1>22. Room(heap, ref_table, free_list, memory_pool, todo)'
  BY <1>1, <1>21 DEF Room, Leaves, First, Waiting, Other, Half, Home, Live, InPool
<1>23. Sized(Objects(heap, ref_table))'
  BY <1>1, <1>6 DEF Sized, ob, Objects, Live
<1>24. (memory_size = Half)'
  BY <1>1 DEF Half
<1> QED BY <1>10, <1>11, <1>22, <1>23, <1>24 DEF GcInv

\* A value that is already copied leaves the room as it is.
LEMMA RoomKept ==
  ASSUME NEW hp, NEW tb, NEW fl, NEW lo, NEW td, Room(hp, tb, fl, lo, td),
         td \in Seq(CopyType), td # <<>>, Head(td).ref \notin Waiting(tb, lo),
         NEW hp2, \A r \in Waiting(tb, lo) : hp2[tb[r]].value_size = hp[tb[r]].value_size
  PROVE  Room(hp2, tb, fl, lo, Tail(td))
<1>1. \A r \in Waiting(tb, lo) : SpanOf(hp2, tb[r]) = SpanOf(hp, tb[r])
  BY DEF SpanOf
<1>2. PICK S : Leaves(hp, tb, fl, lo, S)
  BY DEF Room
<1>3. Leaves(hp2, tb, fl, lo, S)
  BY <1>1, <1>2 DEF Leaves
<1>4. PICK k \in 0 .. 3 : First(k, tb, fl, lo, td)
  BY DEF Room
<1>5. k = 3
  <2> SUFFICES ASSUME k < 3 PROVE FALSE
    BY <1>4
  <2>1. k + 1 \in 1 .. 3 /\ 1 \in 1 .. 3 /\ 1 + k <= 3 /\ k + 1 > k
    BY <1>4
  <2>2. td[1].ref = 1 + k /\ k + 1 \in Waiting(tb, lo)
    BY <1>4, <2>1 DEF First
  <2>3. Head(td) = td[1] /\ 1 + k = k + 1
    BY <1>4
  <2> QED BY <2>2, <2>3
<1>6. First(k, tb, fl, lo, Tail(td))
  BY <1>4, <1>5 DEF First
<1>7. \A r \in Waiting(tb, lo) : Inside(SpanOf(hp2, tb[r]), Other(lo), Half)
  BY <1>1 DEF Room
<1> QED BY <1>3, <1>4, <1>6, <1>7 DEF Room

\* Blocks that lie apart have no word in common.
LEMMA WordsApart ==
  ASSUME NEW b \in BlockType, NEW c \in BlockType, Apart(b, c)
  PROVE  Words(b) \cap Words(c) = {}
<1>1. b.addr \in Nat /\ b.size \in Nat /\ c.addr \in Nat /\ c.size \in Nat
  BY DEF BlockType, Pos
<1>2. b.addr + b.size <= c.addr \/ c.addr + c.size <= b.addr
  BY DEF Apart
<1> SUFFICES ASSUME NEW w, w \in Words(b), w \in Words(c) PROVE FALSE
  OBVIOUS
<1>3. w \in b.addr .. b.addr + b.size - 1 /\ w \in c.addr .. c.addr + c.size - 1
  BY DEF Words
<1> QED BY <1>1, <1>2, <1>3

\* Block b is what is left of the new half, and has room for the block s.
Suits(fl, lo, S, s, b) ==
  /\ fl = <<b>> /\ b.size + Cardinality(S) = Half /\ b.size >= s.size
  /\ S \cup Words(s) \in SUBSET (Other(lo) .. Other(lo) + Half - 1)
  /\ Cardinality(S \cup Words(s)) = Cardinality(S) + s.size /\ Cardinality(S) \in Nat

\* The value of the next call can be copied ...
LEMMA RoomFits ==
  ASSUME NEW hp, NEW tb, NEW fl, NEW lo, NEW td, Room(hp, tb, fl, lo, td), lo \in {0, Half},
         HeapType(hp), NEW r \in Waiting(tb, lo), tb[r] \in DOMAIN hp,
         r \notin 1 .. 3 => hp[tb[r]].value_size > Header,
         NEW S, Leaves(hp, tb, fl, lo, S)
  PROVE  \E b \in BlockType : Suits(fl, lo, S, SpanOf(hp, tb[r]), b)
<1> DEFINE s == SpanOf(hp, tb[r])
           m == hp[tb[r]].value_size
           l2 == Other(lo)
           W == Words(s)
<1>1. s \in BlockType /\ s.size = m /\ m \in Nat
  BY SpanType DEF Pos
<1>2. Half \in Nat /\ Header \in Nat /\ l2 \in Nat
  BY HalfIs DEF Other
<1>3. Inside(s, l2, Half)
  BY DEF Room
<1>4. S \in SUBSET (l2 .. l2 + Half - 1) /\ S \cap W = {}
  BY DEF Leaves
<1> HIDE DEF s, l2, m
<1>5. /\ S \cup W \in SUBSET (l2 .. l2 + Half - 1) /\ Cardinality(S \cup W) = Cardinality(S) + m
      /\ Cardinality(S) + m <= Half /\ Cardinality(S) \in Nat
  BY <1>1, <1>2, <1>3, <1>4, WordsFit
<1>6. ASSUME fl = <<>>, Cardinality(S) + Header >= Half, (1 .. 3) \cap Waiting(tb, lo) = {} PROVE FALSE
  <2>1. m > Header
    BY <1>6 DEF m
  <2> QED BY <1>1, <1>2, <1>5, <1>6, <2>1
<1>7. PICK b \in BlockType : fl = <<b>> /\ b.size + Cardinality(S) = Half
  BY <1>6 DEF Leaves
<1>8. b.size >= m
  <2>1. b.size \in Nat
    BY DEF BlockType, Pos
  <2> QED BY <1>1, <1>2, <1>5, <1>7, <2>1
<1>9. Suits(fl, lo, S, s, b)
  BY <1>1, <1>5, <1>7, <1>8 DEF Suits, l2
<1> QED BY <1>9 DEF s

\* What is left of a free block when its front is carved off is a block again.
LEMMA RestIsBlock ==
  ASSUME NEW b \in BlockType, NEW m \in Nat
  PROVE  b.size - m > Header => Rest(b, m) \in BlockType /\ Rest(b, m).size = b.size - m
<1>1. Header \in Nat
  BY HalfIs
<1>2. b.addr \in Nat /\ b.size \in Nat
  BY DEF BlockType, Pos
<1>3. b.size - m > Header => b.size - m \in Pos /\ b.addr + m \in Nat
  BY <1>1, <1>2 DEF Pos
<1> QED BY <1>3 DEF Rest, Block, BlockType

\* ... and then there is room for the rest.
LEMMA RoomCopied ==
  ASSUME NEW hp, NEW tb, NEW fl, NEW lo, NEW td, Room(hp, tb, fl, lo, td), lo \in {0, Half}, PoolSize > 6 * Header,
         HeapType(hp), NEW r \in Waiting(tb, lo), \A q \in Waiting(tb, lo) : tb[q] \in DOMAIN hp,
         td \in Seq(CopyType), td # <<>>, Head(td).ref = r,
         NEW kids \in Seq(RefOrNull), NEW m, m = hp[tb[r]].value_size,
         IF r \in 1 .. 3 THEN m = Header /\ kids = <<>> ELSE m > Header,
         \A q \in Waiting(tb, lo) \ {r} : Apart(SpanOf(hp, tb[r]), SpanOf(hp, tb[q])),
         NEW hp2, NEW tb2, Waiting(tb2, lo) = Waiting(tb, lo) \ {r},
         \A q \in Waiting(tb, lo) \ {r} : tb2[q] = tb[q] /\ hp2[tb[q]] = hp[tb[q]]
  PROVE  Room(hp2, tb2, LeftOver(fl, m), lo, Steps("copy", kids) \o Tail(td))
<1> DEFINE W == Words(SpanOf(hp, tb[r]))
           fl2 == LeftOver(fl, m)
           td2 == Steps("copy", kids) \o Tail(td)
           wt == Waiting(tb, lo)
           wt2 == Waiting(tb2, lo)
<1>n. /\ Half \in Nat /\ Half >= 1 /\ Header \in Nat /\ Header >= 1 /\ PoolSize = 2 * Half /\ Half > 3 * Header
      /\ m \in Nat /\ m \in Pos
  <2>1. m \in Pos
    BY SpanType
  <2> QED BY <2>1, HalfIs DEF Pos
<1>1. PICK S : Leaves(hp, tb, fl, lo, S)
  BY DEF Room
<1>s. PICK b \in BlockType : Suits(fl, lo, S, SpanOf(hp, tb[r]), b)
  <2>1. r \notin 1 .. 3 => hp[tb[r]].value_size > Header
    OBVIOUS
  <2>2. \E b \in BlockType : Suits(fl, lo, S, SpanOf(hp, tb[r]), b)
    BY <1>1, <2>1, RoomFits
  <2> QED BY <2>2
<1>2. /\ fl = <<b>> /\ b.size + Cardinality(S) = Half /\ b.size >= m
      /\ S \cup W \in SUBSET (Other(lo) .. Other(lo) + Half - 1)
      /\ Cardinality(S \cup W) = Cardinality(S) + m /\ Cardinality(S) \in Nat
  BY <1>s DEF Suits, SpanOf, Block
<1>f. fl = <<b>> /\ m \in Pos /\ b.size >= m
  BY <1>n, <1>2
<1>3. fl2 = IF Splits(b, m) THEN <<Rest(b, m)>> ELSE <<>>
  <2> HIDE DEF fl2
  <2>1. b.size >= m => LeftOver(fl, m) = IF Splits(b, m) THEN <<Rest(b, m)>> ELSE <<>>
    BY <1>f, OneBlock
  <2> QED BY <1>f, <2>1 DEF fl2
<1>4. PICK k \in 0 .. 3 : First(k, tb, fl, lo, td)
  BY DEF Room
<1>5. b.size \in Nat /\ b.addr \in Nat
  BY DEF BlockType, Pos
<1>6. Splits(b, m) <=> b.size - m > Header
  BY DEF Splits
<1>7. Splits(b, m) => Rest(b, m) \in BlockType /\ Rest(b, m).size = b.size - m
  BY <1>n, <1>6, RestIsBlock
<1>8. \A q \in wt2 : SpanOf(hp2, tb2[q]) = SpanOf(hp, tb[q]) /\ q \in wt \ {r}
  BY DEF SpanOf
<1>9. \A q \in wt2 : Inside(SpanOf(hp2, tb2[q]), Other(lo), Half)
  BY <1>8 DEF Room
<1>10. \A q \in wt2 : (S \cup W) \cap Words(SpanOf(hp2, tb2[q])) = {}
  <2> SUFFICES ASSUME NEW q \in wt2 PROVE (S \cup W) \cap Words(SpanOf(hp, tb[q])) = {}
    BY <1>8
  <2>1. S \cap Words(SpanOf(hp, tb[q])) = {}
    BY <1>1, <1>8 DEF Leaves
  <2> DEFINE s == SpanOf(hp, tb[r])
             t == SpanOf(hp, tb[q])
  <2>2. s \in BlockType /\ t \in BlockType /\ Apart(s, t)
    BY <1>8, SpanType
  <2> HIDE DEF s, t
  <2>3. Words(s) \cap Words(t) = {}
    BY <2>2, WordsApart
  <2> QED BY <2>1, <2>3 DEF s, t
<1>11. r \in 1 .. 3 => k < 3 /\ r = k + 1 /\ m = Header /\ kids = <<>>
  <2>1. CASE k = 3
    BY <1>4, <2>1 DEF First
  <2>2. CASE k < 3
    <3>1. td[1].ref = 1 + k
      <4>1. 1 \in 1 .. 3 /\ 1 + k <= 3
        BY <1>4, <2>2
      <4> QED BY <1>4, <4>1 DEF First
    <3>2. Head(td) = td[1]
      OBVIOUS
    <3> QED BY <1>4, <2>2, <3>1, <3>2
  <2> QED BY <1>4, <2>1, <2>2
<1>12. k < 3 => r = k + 1 /\ r \in 1 .. 3
  <2> SUFFICES ASSUME k < 3 PROVE r = k + 1 /\ r \in 1 .. 3
    OBVIOUS
  <2>1. td[1].ref = 1 + k
    <3>1. 1 \in 1 .. 3 /\ 1 + k <= 3
      BY <1>4
    <3> QED BY <1>4, <3>1 DEF First
  <2>2. Head(td) = td[1]
    OBVIOUS
  <2> QED BY <1>4, <2>1, <2>2
<1>l. /\ \A i \in 1 .. 3 : i \in wt <=> i > k
      /\ k < 3 => Len(fl) = 1 /\ fl[1].size = Half - k * Header /\ Len(td) >= 3 - k
      /\ \A i \in 1 .. 3 : i + k <= 3 => td[i].ref = i + k
  BY <1>4 DEF First
<1>t. kids = <<>> => td2 = Tail(td)
  <2> SUFFICES ASSUME kids = <<>> PROVE td2 = Tail(td)
    OBVIOUS
  <2>1. Steps("copy", kids) = <<>> /\ Tail(td) \in Seq(CopyType)
    BY DEF Steps
  <2> QED BY <2>1
<1> HIDE DEF fl2, td2, wt, wt2
<1>w. wt2 = wt \ {r}
  BY DEF wt, wt2
<1>13. \E j \in 0 .. 3 : First(j, tb2, fl2, lo, td2)
  <2>1. CASE k = 3
    <3>1. \A i \in 1 .. 3 : i \in wt2 <=> i > 3
      BY <1>l, <1>w, <2>1
    <3>2. First(3, tb2, fl2, lo, td2)
      BY <3>1 DEF First, wt2
    <3> QED BY <3>2
  <2>2. CASE k < 3
    <3> DEFINE j == k + 1
    <3>1. j \in 0 .. 3 /\ r = j /\ r \in 1 .. 3 /\ m = Header /\ kids = <<>> /\ k \in 0 .. 2
      BY <1>4, <1>11, <1>12, <2>2
    <3>2. \A i \in 1 .. 3 : i \in wt2 <=> i > j
      BY <1>l, <1>w, <3>1
    <3>3. td2 = Tail(td) /\ td2 \in Seq(CopyType) /\ Len(td2) = Len(td) - 1 /\ \A i \in 1 .. Len(td2) : td2[i] = td[i + 1]
      BY <1>t, <3>1
    <3>4. b.size = Half - k * Header /\ Len(td) >= 3 - k
      BY <1>2, <1>l, <2>2
    <3>5. ASSUME j < 3
          PROVE  Len(fl2) = 1 /\ fl2[1].size = Half - j * Header /\ Len(td2) >= 3 - j
      <4>1. k = 0 \/ k = 1
        BY <3>1, <3>5
      <4>2. b.size - m > Header /\ b.size - m = Half - j * Header
        BY <1>n, <1>5, <3>1, <3>4, <4>1
      <4>3. fl2 = <<Rest(b, m)>>
        BY <1>3, <1>6, <4>2 DEF fl2
      <4>4. Len(fl2) = 1 /\ fl2[1].size = Half - j * Header
        BY <1>6, <1>7, <4>2, <4>3
      <4>5. Len(td2) >= 3 - j
        BY <3>1, <3>3, <3>4
      <4> QED BY <4>4, <4>5
    <3>6. ASSUME NEW i \in 1 .. 3, i + j <= 3 PROVE td2[i].ref = i + j
      <4>1. i + 1 \in 1 .. 3 /\ (i + 1) + k <= 3 /\ (i + 1) + k = i + j
        BY <3>1, <3>6
      <4>2. td[i + 1].ref = i + j
        BY <1>l, <4>1
      <4>3. i \in 1 .. Len(td2)
        BY <3>1, <3>3, <3>4, <3>6
      <4> QED BY <3>3, <4>2, <4>3
    <3>7. First(j, tb2, fl2, lo, td2)
      BY <3>2, <3>5, <3>6 DEF First, wt2
    <3> QED BY <3>1, <3>7
  <2> QED BY <1>4, <2>1, <2>2
<1>14. Leaves(hp2, tb2, fl2, lo, S \cup W)
  <2>1. CASE Splits(b, m)
    <3>1. fl2 = <<Rest(b, m)>> /\ Rest(b, m) \in BlockType /\ Rest(b, m).size + Cardinality(S \cup W) = Half
      BY <1>n, <1>2, <1>3, <1>5, <1>7, <2>1 DEF fl2
    <3>2. \E c \in BlockType : fl2 = <<c>> /\ c.size + Cardinality(S \cup W) = Half
      BY <3>1
    <3> QED BY <1>2, <1>10, <3>2 DEF Leaves, wt2
  <2>2. CASE ~Splits(b, m)
    <3>1. fl2 = <<>> /\ Cardinality(S \cup W) + Header >= Half
      <4> DEFINE cs == Cardinality(S)
                 cu == Cardinality(S \cup W)
      <4>0. ~(b.size - m > Header)
        BY <1>6, <2>2
      <4>1. cs \in Nat /\ b.size + cs = Half /\ cu = cs + m
        BY <1>2
      <4> HIDE DEF cs, cu
      <4> DEFINE x == b.size
      <4>x. x \in Nat /\ ~(x - m > Header) /\ x + cs = Half
        BY <1>5, <4>0, <4>1
      <4>n. m \in Nat /\ Header \in Nat /\ Half \in Nat /\ cs \in Nat /\ cu = cs + m
        BY <1>n, <4>1
      <4> HIDE DEF x
      <4>2. cu + Header >= Half
        BY <4>n, <4>x
      <4>3. fl2 = <<>>
        BY <1>3, <2>2
      <4> QED BY <4>2, <4>3 DEF cu
    <3>2. (1 .. 3) \cap wt2 = {}
      <4>1. CASE k = 3
        BY <1>l, <1>w, <4>1
      <4>2. CASE k = 2
        BY <1>l, <1>w, <1>12, <4>2
      <4>3. CASE k = 0 \/ k = 1
        <5>1. b.size = Half - k * Header /\ m = Header
          BY <1>2, <1>l, <1>11, <1>12, <4>3
        <5>2. b.size - m > Header
          BY <1>n, <1>5, <4>3, <5>1
        <5> QED BY <1>6, <2>2, <5>2
      <4> QED BY <1>4, <4>1, <4>2, <4>3
    <3> QED BY <1>2, <1>10, <3>1, <3>2 DEF Leaves, wt2
  <2> QED BY <2>1, <2>2
<1>15. Room(hp2, tb2, fl2, lo, td2)
  BY <1>9, <1>13, <1>14 DEF Room, wt2
<1> QED BY <1>15 DEF fl2, td2

\* operate_global finds an entry and room.
LEMMA CopyGc ==
  ASSUME IInv, GcInv, Copy, PoolSize > 6 * Header
  PROVE  GcInv'
<1> DEFINE ob == Objects(heap, ref_table)
           ob2 == Objects(heap', ref_table')
           lo == memory_pool
           in == Home(ref_table, lo, Half)
           wt == Waiting(ref_table, lo)
           r == Head(todo).ref
           m == deref(r).value_size
           hp2 == heap'
           tb2 == ref_table'
<1>1. Calling("copy") /\ SamePool /\ after' = after /\ status = "ok" /\ todo # <<>>
  BY DEF Copy, SameProgram, Calling
<1>2. /\ Memory(heap, ref_table, free_list, memory_pool, memory_size, TRUE)
      /\ Collected(ob, Home(ref_table, memory_pool, memory_size), ref_table, global_vars, todo)
      /\ after = SweepNext /\ PoolIs(memory_pool, memory_size)
  BY <1>1, GatherState
<1>3. Collecting
  BY <1>2, ThenTo DEF Collecting, SweepNext
<1>4. memory_size = Half /\ Room(heap, ref_table, free_list, lo, todo) /\ Link /\ Sized(ob)
  BY <1>3 DEF GcInv
<1>5. Collected(ob, in, ref_table, global_vars, todo)
  BY <1>2, <1>4
<1>6. /\ Link' /\ memory_pool' = lo /\ (memory_size = Half)'
  BY <1>1, <1>4 DEF Link, SamePool, Half
<1>7. Sized(ob2)
  <2>1. SameValues(ob, ob2)
    BY StepCopy
  <2> HIDE DEF ob, ob2
  <2> QED BY <1>4, <2>1 DEF Sized, SameValues, SameContents
<1>8. todo \in Seq(CopyType) /\ Values(ob) /\ DOMAIN ob = Live(ref_table) /\ HeapType(heap) /\ lo \in {0, Half}
      /\ lo \in Nat /\ Half \in Nat /\ Half >= 1
  <2>1. todo \in Seq(CopyType) /\ Values(ob)
    BY <1>5 DEF Collected
  <2>2. DOMAIN ob = Live(ref_table) /\ HeapType(heap) /\ lo \in Nat
    BY <1>2, MemoryObjects
  <2> QED BY <1>2, <2>1, <2>2, HalfIs DEF PoolIs
<1>9. r = NULL_REF \/ r \in DOMAIN ob
  BY <1>1, <1>5, CopyLive
<1>10. r \in RefOrNull /\ r # TOMBSTONE_REF
  <2>1. r \in RefOrNull
    BY <1>1, <1>8, NextCopy
  <2> QED BY <2>1 DEF RefOrNull, Pos, NULL_REF, TOMBSTONE_REF
<1>11. ASSUME NEW q \in wt
       PROVE  /\ q \in Live(ref_table) /\ q \in Pos /\ ref_table[q] \in DOMAIN heap /\ ref_table[q] \in Nat
              /\ ob[q] = heap[ref_table[q]] /\ ob[q] \in ValueType /\ ~InPool(ref_table[q], lo, Half)
  <2>1. q \in Live(ref_table) /\ ~InPool(ref_table[q], lo, Half)
    BY DEF Waiting, Home
  <2> QED BY <1>2, <2>1, MemoryObjects
<1>12. ASSUME NEW td2, NEW fl2, Room(hp2, tb2, fl2, lo, td2), status' = "ok", free_list' = fl2, todo' = td2
       PROVE  GcInv'
  <2>1. Room(heap, ref_table, free_list, memory_pool, todo)'
    BY <1>6, <1>12 DEF Room, Leaves, First, Waiting, Other, Half, Home, Live, InPool
  <2>2. Sized(Objects(heap, ref_table))'
    BY <1>7 DEF Sized, Objects, Live
  <2> QED BY <1>6, <1>12, <2>1, <2>2 DEF GcInv
<1>13. CASE r \notin wt /\ (r = NULL_REF \/ Valid(r))
  <2>1. /\ status' = "ok" /\ todo' = Tail(todo) /\ tb2 = ref_table /\ free_list' = free_list
        /\ hp2 = heap \/ hp2 = Counted(heap, ref_table[r])
    BY <1>1, <1>10, <1>13 DEF Copy, SameMemory
  <2>2. \A q \in wt : hp2[ref_table[q]].value_size = heap[ref_table[q]].value_size
    <3>1. Gentle(heap, hp2)
      <4>1. Gentle(heap, heap) /\ Gentle(heap, Counted(heap, ref_table[r]))
        BY <1>8, GentleIs
      <4> QED BY <2>1, <4>1
    <3> HIDE DEF hp2, wt
    <3> QED BY <1>11, <3>1 DEF Gentle
  <2> HIDE DEF hp2, tb2, r
  <2>3. Room(hp2, ref_table, free_list, lo, Tail(todo))
    BY <1>1, <1>4, <1>8, <1>13, <2>2, RoomKept DEF r
  <2> QED BY <1>12, <2>1, <2>3
<1>14. CASE r \in wt
  <2> DEFINE c == CarvedFrom(free_list, m)
             kids == deref(r).kids
             i == BestFit(free_list, m)
             fl2 == LeftOver(free_list, m)
             v == Copied(deref(r))
             td2 == Steps("copy", kids) \o Tail(todo)
  <2>1. /\ r \in Live(ref_table) /\ r \in Pos /\ ref_table[r] \in DOMAIN heap /\ ref_table[r] \in Nat
        /\ ob[r] = heap[ref_table[r]] /\ ob[r] \in ValueType /\ ~InPool(ref_table[r], lo, Half)
    BY <1>11, <1>14
  <2>2. deref(r) = ob[r] /\ m = heap[ref_table[r]].value_size /\ kids \in Seq(RefOrNull)
    BY <2>1 DEF deref, ValueType
  <2>3. IF r \in 1 .. 3 THEN m = Header /\ kids = <<>> ELSE m > Header
    BY <1>4, <1>8, <2>1, <2>2 DEF Sized
  <2>4. \A q \in wt \ {r} : Apart(SpanOf(heap, ref_table[r]), SpanOf(heap, ref_table[q]))
    <3> SUFFICES ASSUME NEW q \in wt \ {r}
                 PROVE  Apart(SpanOf(heap, ref_table[r]), SpanOf(heap, ref_table[q]))
      OBVIOUS
    <3>1. q \in Live(ref_table) /\ ref_table[q] \in DOMAIN heap
      BY <1>11
    <3>2. ref_table[q] # ref_table[r]
      BY <1>2, <2>1, <3>1 DEF Memory, TableOK
    <3> QED BY <1>2, <2>1, <3>1, <3>2 DEF Memory, PoolOK
  <2>5. r # NULL_REF /\ ~Valid(r) /\ r \in DOMAIN ref_table /\ ref_table[r] # NULL
    <3>1. ~Valid(r)
      BY <1>4, <2>1 DEF Valid, is_pool_address, InPool
    <3> QED BY <2>1, <3>1 DEF Live, NULL_REF, Pos
  <2>r. r = Head(todo).ref /\ \A q \in wt : ref_table[q] \in DOMAIN heap
    BY <1>11
  <2>w. \A q \in wt : q \in Live(ref_table)
    BY <1>11
  <2>t. td2 = Steps("copy", kids) \o Tail(todo)
    OBVIOUS
  <2>6. ASSUME Fits(m)
        PROVE  /\ hp2 = Placed(heap, c.addr, v) /\ tb2 = [ref_table EXCEPT ![r] = c.addr]
               /\ status' = "ok" /\ free_list' = fl2 /\ todo' = td2
    BY <1>1, <1>10, <2>5, <2>6 DEF Copy
  <2>7. LargeEnough(free_list, m) # {}
    <3>1. PICK S : Leaves(heap, ref_table, free_list, lo, S)
      BY <1>4 DEF Room
    <3>2. r \notin 1 .. 3 => heap[ref_table[r]].value_size > Header
      BY <2>2, <2>3
    <3> DEFINE span == SpanOf(heap, ref_table[r])
    <3>3. span.size = m
      BY <2>2 DEF SpanOf, Block
    <3>4. \E b \in BlockType : Suits(free_list, lo, S, span, b)
      <4> HIDE DEF r, m, lo
      <4> QED BY <1>4, <1>8, <1>14, <2>1, <3>1, <3>2, RoomFits
    <3> HIDE DEF span
    <3>5. PICK b \in BlockType : Suits(free_list, lo, S, span, b)
      BY <3>4
    <3>6. free_list = <<b>> /\ b.size >= m
      BY <3>3, <3>5 DEF Suits
    <3>7. m \in Pos
      BY <2>1, <2>2 DEF ValueType
    <3> HIDE DEF m
    <3> QED BY <3>6, <3>7, OneBlock
  <2>8. /\ hp2 = Placed(heap, c.addr, v) /\ tb2 = [ref_table EXCEPT ![r] = c.addr]
        /\ status' = "ok" /\ free_list' = fl2 /\ todo' = td2
    BY <2>6, <2>7 DEF Fits
  <2>9. free_list \in Seq(BlockType) /\ FreeApart(free_list) /\ PoolOK(heap, free_list, lo, Half, TRUE)
    BY <1>2, <1>4 DEF Memory, PoolOK
  <2>10. m \in Pos /\ v \in ValueType /\ v.value_size = m
    BY <2>1, <2>2, CopiedType DEF ValueType
  <2>c. i = BestFit(free_list, m) /\ c = CarvedFrom(free_list, m) /\ fl2 = LeftOver(free_list, m)
    OBVIOUS
  <2> HIDE DEF c, i, fl2, v, m, kids, td2, r, hp2, tb2, lo, wt, in
  <2>11. Taken(free_list, m, i, c, fl2) /\ FreeApart(fl2)
    BY <2>7, <2>9, <2>10, <2>c, TakenBlock
  <2>12. Allocates(heap, free_list, m, i, c, fl2, v, hp2, TRUE)
    BY <2>8, <2>10, <2>11 DEF Allocates
  <2>13. c.addr \notin DOMAIN heap /\ c.addr \in Nat /\ lo <= c.addr /\ c.addr < lo + Half
    BY <2>9, <2>12, PoolAlloc
  <2>14. Waiting(tb2, lo) = wt \ {r} /\ \A q \in wt \ {r} : tb2[q] = ref_table[q] /\ hp2[ref_table[q]] = heap[ref_table[q]]
    <3> DEFINE a == c.addr
    <3>1. a \in Nat /\ a # NULL /\ InPool(a, lo, Half) /\ a \notin DOMAIN heap
      BY <2>13 DEF InPool, NULL
    <3> HIDE DEF a
    <3>2. DOMAIN tb2 = DOMAIN ref_table /\ tb2[r] = a /\ \A q \in DOMAIN ref_table : q # r => tb2[q] = ref_table[q]
      BY <2>5, <2>8 DEF a
    <3>3. Live(tb2) = Live(ref_table) /\ Home(tb2, lo, Half) = in \cup {r}
      BY <2>1, <3>1, <3>2 DEF Live, Home, in
    <3>4. Waiting(tb2, lo) = wt \ {r}
      BY <3>3 DEF Waiting, wt, in
    <3>5. \A q \in wt \ {r} : tb2[q] = ref_table[q]
      BY <2>w, <3>2 DEF Live
    <3>6. \A q \in wt \ {r} : hp2[ref_table[q]] = heap[ref_table[q]]
      BY <2>8, <2>r, <3>1 DEF Placed, a
    <3> QED BY <3>4, <3>5, <3>6
  <2>15. Room(hp2, tb2, LeftOver(free_list, m), lo, Steps("copy", kids) \o Tail(todo))
    <3> DEFINE w2 == Waiting(ref_table, lo)
    <3>1. /\ Room(heap, ref_table, free_list, lo, todo) /\ lo \in {0, Half} /\ HeapType(heap) /\ r \in w2
          /\ todo \in Seq(CopyType) /\ todo # <<>> /\ Head(todo).ref = r
          /\ kids \in Seq(RefOrNull) /\ m = heap[ref_table[r]].value_size
      BY <1>1, <1>4, <1>8, <1>14, <2>2, <2>r DEF wt
    <3>2. /\ \A q \in w2 : ref_table[q] \in DOMAIN heap
          /\ \A q \in w2 \ {r} : Apart(SpanOf(heap, ref_table[r]), SpanOf(heap, ref_table[q]))
      BY <2>4, <2>r DEF wt
    <3>3. /\ Waiting(tb2, lo) = w2 \ {r}
          /\ \A q \in w2 \ {r} : tb2[q] = ref_table[q] /\ hp2[ref_table[q]] = heap[ref_table[q]]
      BY <2>14 DEF wt
    <3> QED BY <2>3, <3>1, <3>2, <3>3, RoomCopied
  <2>16. Room(hp2, tb2, fl2, lo, td2)
    BY <2>15, <2>c, <2>t
  <2> QED BY <1>12, <2>8, <2>16
<1>15. r \in wt \/ (r \notin wt /\ (r = NULL_REF \/ Valid(r)))
  <2>1. CASE r = NULL_REF
    <3>1. r \notin Pos
      BY <2>1 DEF NULL_REF, Pos
    <3> QED BY <1>11, <2>1, <3>1
  <2>2. CASE r # NULL_REF
    <3>1. r \in Live(ref_table)
      BY <1>8, <1>9, <2>2
    <3>2. CASE InPool(ref_table[r], lo, Half)
      <4>1. Valid(r)
        BY <1>4, <3>1, <3>2 DEF Valid, is_pool_address, InPool, Live
      <4>2. r \notin wt
        BY <1>11, <3>2
      <4> QED BY <4>1, <4>2
    <3>3. CASE ~InPool(ref_table[r], lo, Half)
      BY <3>1, <3>3 DEF Waiting, Home
    <3> QED BY <3>2, <3>3
  <2> QED BY <2>1, <2>2
<1> QED BY <1>13, <1>14, <1>15

\* No step of a program that makes its first collection in time fails.
LEMMA StepGcInv ==
  ASSUME IInv, GcInv, IInv', [Next]_vars, NestedGc = FALSE, LateGc = FALSE, PoolSize > 6 * Header
  PROVE  GcInv'
<1>1. CASE UNCHANGED vars
  BY <1>1 DEF vars, GcInv, Link, Sized, Room, Leaves, First, Waiting, Other, Half, Home, Live, InPool, Objects, Collecting
<1>2. CASE Next
  BY <1>2, ElsewhereIs, ElsewhereGc, StartGc, CopyGc, SweepGc
<1> QED BY <1>1, <1>2

\* So none ever does.
LEMMA AlwaysGc ==
  ASSUME NestedGc = FALSE, LateGc = FALSE, PoolSize > 6 * Header
  PROVE  Spec => [](IInv /\ GcInv)
<1>1. Init => IInv /\ GcInv
  BY InitInv, InitGc
<1>2. IInv /\ GcInv /\ [Next]_vars => IInv' /\ GcInv'
  BY StepInv, StepGcInv
<1> QED BY <1>1, <1>2, PTL DEF Spec

-----------------------------------------------------------------------------
(* A collection keeps exactly what the globals reach. *)

\* The set of the values that are copied when no call is left.
LEMMA ReachCopied ==
  ASSUME NEW in, Collected(Objects(heap, ref_table), in, ref_table, global_vars, <<>>)
  PROVE  in = Reach(GlobalRefs)
<1> DEFINE ob == Objects(heap, ref_table)
<1>1. /\ RootedIn(global_vars, in) /\ ClosedIn(ob, in) /\ in \in SUBSET DOMAIN ob
      /\ \A S \in SUBSET DOMAIN ob : RootedIn(global_vars, S) /\ ClosedIn(ob, S) => in \subseteq S
  BY CopiedAll
<1>2. DOMAIN ob = LiveRefs /\ \A r \in LiveRefs : ob[r] = deref(r)
  BY DEF Objects, Live, LiveRefs, deref
<1>3. Values(ob) /\ ClosedIn(ob, DOMAIN ob)
  BY DEF Collected
<1> HIDE DEF ob
<1>4. \A r \in LiveRefs : r \in Pos
  BY <1>2, <1>3, ValueFields
<1>5. ASSUME NEW S \in SUBSET LiveRefs
      PROVE  ClosedIn(ob, S) <=> Closed(S)
  <2>1. \A r \in LiveRefs : KidsOf(r) \cap LiveRefs = {ob[r].kids[j] : j \in DOMAIN ob[r].kids} \ {NULL_REF}
    <3> SUFFICES ASSUME NEW r \in LiveRefs
                 PROVE  KidsOf(r) \cap LiveRefs = {ob[r].kids[j] : j \in DOMAIN ob[r].kids} \ {NULL_REF}
      OBVIOUS
    <3>1. \A j \in DOMAIN ob[r].kids : ob[r].kids[j] \in LiveRefs \cup {NULL_REF}
      BY <1>2, <1>3 DEF ClosedIn
    <3>2. NULL_REF \notin LiveRefs /\ TOMBSTONE_REF \notin LiveRefs
      BY <1>4 DEF NULL_REF, TOMBSTONE_REF, Pos
    <3>3. KidsOf(r) = {ob[r].kids[j] : j \in DOMAIN ob[r].kids} \ {NULL_REF, TOMBSTONE_REF}
      BY <1>2 DEF KidsOf
    <3> QED BY <3>1, <3>2, <3>3
  <2> QED BY <2>1 DEF ClosedIn, Closed
<1>6. GlobalRefs \subseteq in
  BY <1>1 DEF RootedIn, GlobalRefs
<1>7. Reach(GlobalRefs) \subseteq in
  BY <1>1, <1>2, <1>5, <1>6, ReachLeast
<1>8. in \subseteq Reach(GlobalRefs)
  <2> DEFINE T == Reach(GlobalRefs)
  <2>1. T \in SUBSET LiveRefs /\ Closed(T) /\ GlobalRefs \subseteq T
    BY <1>1, <1>2, <1>6, ReachFrom, ReachClosed
  <2> HIDE DEF T
  <2>2. ClosedIn(ob, T) /\ RootedIn(global_vars, T) /\ T \in SUBSET DOMAIN ob
    BY <1>2, <1>5, <2>1 DEF RootedIn, GlobalRefs
  <2> QED BY <1>1, <2>2 DEF T
<1> QED BY <1>7, <1>8

\* What GcExact says of a step.
GcStep ==
  /\ f' # f \/ Collecting =>
       /\ status' = "ok"
       /\ \A r \in LiveRefs \cap LiveRefs' : SameContents(heap'[ref_table'[r]], heap[ref_table[r]])
  /\ Collecting => LiveRefs' = IF after' = after THEN LiveRefs ELSE Reach(GlobalRefs)

\* The invariants imply it of every step.
LEMMA StepGcExact ==
  ASSUME IInv, GcInv', Next
  PROVE  GcStep
<1>0. status' = "ok"
  BY DEF GcInv
<1>1. CASE Elsewhere
  <2>1. f' = f /\ ~Collecting
    BY <1>1, ElsewhereQuiet DEF Elsewhere, SamePool
  <2> QED BY <2>1 DEF GcStep
<1>2. CASE Gc
  <2>1. Idle /\ heap' = heap /\ ref_table' = ref_table
    BY <1>2 DEF Gc, Ready
  <2>2. ~Collecting
    BY <2>1 DEF Idle, Collecting, Nothing, Then
  <2> QED BY <1>0, <2>1, <2>2 DEF GcStep, SameContents
<1>3. CASE Copy
  <2> DEFINE ob == Objects(heap, ref_table)
             ob2 == Objects(heap', ref_table')
  <2>1. after' = after /\ SameValues(ob, ob2)
    BY <1>3, StepCopy DEF Copy
  <2>2. /\ DOMAIN ob = LiveRefs /\ DOMAIN ob2 = LiveRefs'
        /\ \A r \in LiveRefs : ob[r] = heap[ref_table[r]]
        /\ \A r \in LiveRefs' : ob2[r] = heap'[ref_table'[r]]
    BY DEF Objects, Live, LiveRefs
  <2> HIDE DEF ob, ob2
  <2>3. LiveRefs' = LiveRefs
    BY <2>1, <2>2 DEF SameValues
  <2>4. \A r \in LiveRefs \cap LiveRefs' : SameContents(heap'[ref_table'[r]], heap[ref_table[r]])
    BY <2>1, <2>2 DEF SameValues
  <2> QED BY <1>0, <2>1, <2>3, <2>4 DEF GcStep
<1>4. CASE Sweep
  <2> DEFINE in == Home(ref_table, memory_pool, memory_size)
             hp2 == heap'
             tb2 == ref_table'
  <2>1. Resuming("sweep") /\ status = "ok" /\ todo = <<>> /\ after.to = "sweep"
    BY <1>4 DEF Sweep, Resuming
  <2>2. /\ Memory(heap, ref_table, free_list, memory_pool, memory_size, TRUE)
        /\ Collected(Objects(heap, ref_table), in, ref_table, global_vars, todo)
    BY <2>1, GatherState
  <2>3. in = Reach(GlobalRefs)
    <3> HIDE DEF in
    <3> QED BY <2>1, <2>2, ReachCopied
  <2>4. Sweeps(heap, ref_table, memory_pool, memory_size, hp2, tb2)
    BY <1>4 DEF Sweep, Sweeps, is_pool_address, InPool
  <2>5. LiveRefs' = Live(tb2)
    BY DEF LiveRefs, Live
  <2>6. after'.to = "return"
    BY <1>4 DEF Sweep, Then
  <2>l. LiveRefs = Live(ref_table)
    BY DEF LiveRefs, Live
  <2> HIDE DEF hp2, tb2
  <2>7. SweptTo(heap, ref_table, free_list, memory_pool, memory_size, hp2, tb2)
    BY <2>2, <2>4, MemorySwept
  <2>8. in = Live(tb2) /\ \A r \in Live(tb2) : tb2[r] = ref_table[r]
    BY <2>7 DEF SweptTo
  <2>9. ASSUME NEW r \in Live(tb2) PROVE hp2[tb2[r]] = heap[ref_table[r]]
    <3>1. r \in Live(ref_table) /\ InPool(ref_table[r], memory_pool, memory_size) /\ tb2[r] = ref_table[r]
      BY <2>8 DEF Home
    <3>2. ref_table[r] \in DOMAIN heap
      BY <2>2, <3>1 DEF Memory, TableOK
    <3>3. hp2[ref_table[r]] = heap[ref_table[r]]
      BY <2>4, <3>1, <3>2 DEF Sweeps, Without, InPool
    <3> QED BY <3>1, <3>3
  <2>10. \A r \in LiveRefs \cap LiveRefs' : SameContents(heap'[ref_table'[r]], heap[ref_table[r]])
    BY <2>5, <2>9 DEF SameContents, hp2, tb2
  <2> HIDE DEF in
  <2>11. LiveRefs' = Reach(GlobalRefs)
    BY <2>3, <2>5, <2>8
  <2>12. after' # after
    BY <2>1, <2>6
  <2> QED BY <1>0, <2>10, <2>11, <2>12 DEF GcStep
<1> QED BY <1>1, <1>2, <1>3, <1>4, ElsewhereIs

-----------------------------------------------------------------------------
(* The theorems.  The evaluator keeps its own references outside the roots of  *)
(* the collector, mm_init writes over whatever is in the half a collection     *)
(* copies into, and operate_global does not ask whether there was room.  So    *)
(* they are about programs that call gc() as a statement of its own, call it   *)
(* first when the second half of the pool is free, and run on a pool either    *)
(* half of which holds more than None, True and False: for these they exempt   *)
(* no state, since the status is always "ok".                                  *)
Orderly == NestedGc = FALSE /\ LateGc = FALSE /\ PoolSize > 6 * Header

\* The invariants hold in every state.
LEMMA AlwaysBoth ==
  ASSUME Orderly
  PROVE  Spec => [](IInv /\ GcInv)
BY AlwaysGc DEF Orderly

\* No reference dangles: no assertion of deref fails, no collection overwrites a
\* value or runs out of room, and between two operations what globals, C locals and
\* values refer to is in the table (refs.c).
THEOREM NothingDangles ==
  ASSUME Orderly
  PROVE  Spec => []NoDangling
<1>1. IInv /\ GcInv => NoDangling
  BY InvNoDangling DEF GcInv
<1> QED BY <1>1, AlwaysBoth, PTL

\* Every count is the number of places that refer to the value, and the counts that
\* were lost: by bodies of if and while, by a refused len() and by what is computed
\* while an exception is pending (incref and decref of refs.c).
THEOREM ReferencesCounted ==
  ASSUME Orderly
  PROVE  Spec => []RefCountExact
<1>1. IInv /\ GcInv => RefCountExact
  BY InvRefCount
<1> QED BY <1>1, AlwaysBoth, PTL

\* In every state, those in the middle of a release or a collection included, values
\* and free blocks of the pool do not overlap and at most Header words of it are lost
\* (mm_malloc, mm_free and the collection).
THEOREM PoolAlwaysSound ==
  ASSUME Orderly
  PROVE  Spec => []PoolSound
<1>1. IInv /\ GcInv => PoolSound
  BY InvPool DEF GcInv
<1> QED BY <1>1, AlwaysBoth, PTL

\* Only cycles and lost counts keep garbage alive (decref of refs.c).
THEOREM GarbageIsCyclic ==
  ASSUME Orderly
  PROVE  Spec => []OnlyCyclesLeak
<1>1. IInv /\ GcInv => OnlyCyclesLeak
  BY InvCycles
<1> QED BY <1>1, AlwaysBoth, PTL

\* A collection keeps exactly what the globals reach, unchanged: it overwrites no
\* value that it has still to copy and finds room for every copy (gc and
\* operate_global of refs.c).
THEOREM CollectionsExact ==
  ASSUME Orderly
  PROVE  Spec => GcExact
<1>1. IInv /\ GcInv /\ (IInv /\ GcInv)' /\ [Next]_vars => [GcStep]_vars
  BY StepGcExact
<1>2. [][GcStep]_vars => GcExact
  BY DEF GcStep, GcExact
<1> QED BY <1>1, <1>2, AlwaysBoth, PTL DEF Spec
=============================================================================
