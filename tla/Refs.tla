-------------------------------- MODULE Refs --------------------------------
(***************************************************************************)
(* References, reference counting and the copying collector of Subpython   *)
(* (project05 refs.c, eval_refs.c, eval_list.c and the reference traffic   *)
(* of eval.c) over the pool of mm.c.                                       *)
(*                                                                         *)
(* The program being interpreted is the environment: each action of Expr   *)
(* and Stmt is one AST node the evaluator may be asked to evaluate next.   *)
(* `stack' holds the references that live in C locals of the active eval_* *)
(* calls; they are not roots of the collector.  Releasing and copying are  *)
(* recursive in C: `todo' lists the calls that are still to be made, and   *)
(* `after' what the operation does when they have returned.  Nothing else  *)
(* happens before it is done.  Integer values are abstract: an index is    *)
(* any position.  References count from 1.                                 *)
(***************************************************************************)
EXTENDS Pool, FiniteSets

CONSTANTS
  Names,        \* identifiers the program uses
  PoolSize,     \* actual_size, in words
  Lens,         \* lengths of its list literals
  Results,      \* which of None, True and False its expressions evaluate to
  MaxStack,     \* bound on the depth of its expressions and the lost counts together
  MaxRefs,      \* bound on the values it has at a time
  MaxLeaks,     \* bound on the counts it loses between collections
  NestedGc,     \* does it call gc() inside larger expressions?
  LateGc        \* may its first gc() find values in the second half of the pool?

\* init_refs and eval_init: None, True and False, bound to their names, which
\* are keywords of the scanner.
Singletons == <<"None", "True", "False">>

ASSUME RefsAssumption ==
  /\ PoolSize \in Nat /\ PoolSize % 2 = 0 /\ PoolSize > 3 * Header
  /\ Lens \subseteq Nat /\ Results \subseteq 1 .. 3
  /\ MaxStack \in Nat /\ MaxRefs \in Nat /\ MaxLeaks \in Nat
  /\ NestedGc \in BOOLEAN /\ LateGc \in BOOLEAN
  /\ \A i \in 1 .. 3 : Singletons[i] \notin Names

VARIABLES
  f,            \* which half the last collection copied into
  ref_table,    \* address of each reference's value, or NULL
  global_vars,  \* the globals, in order of definition
  stack,        \* references held by the evaluator
  leaked,       \* references with a count that nothing will give back
  todo,         \* calls of decref, mm_free and operate_global still to be made
  after,        \* what the operation does next
  status        \* "ok", "asserted" once an assertion of deref fails, "crashed" once
                \* NULL is written to, "corrupt" once a value is overwritten

vars == <<memory_pool, memory_size, free_list, heap,
          f, ref_table, global_vars, stack, leaked, todo, after, status>>

NULL          == -1     \* no address
NULL_REF      == -1
TOMBSTONE_REF == -2
NONE_REF      == 1
TRUE_REF      == 2
FALSE_REF     == 3

IntWords      == Header + 1
ListWords     == Header + 2
ArrayWords(n) == Header + 1 + (n + 1) \div 2      \* references are half words

Value(type, words, kids, size) ==
  [type |-> type, ref_count |-> 1, value_size |-> words, kids |-> kids, size |-> size]

Fits(n) == LargeEnough(free_list, n) # {}

\* The assertions of deref, and what it returns.
Valid(r) == r \in DOMAIN ref_table /\ is_pool_address(ref_table[r])
deref(r) == heap[ref_table[r]]

RefsOf(seq) == [i \in DOMAIN seq |-> seq[i].ref]

-----------------------------------------------------------------------------
(* The operation under way. *)

Step(do, r)   == [do |-> do, ref |-> r]
Steps(do, refs) == [i \in DOMAIN refs |-> Step(do, refs[i])]

\* What follows: an operation on a place `at' of the globals or of an array, with
\* the references the C functions still hold and will release.
Then(to, at, array, size, ref, refs) ==
  [to |-> to, at |-> at, array |-> array, size |-> size, ref |-> ref, refs |-> refs]
Nothing == Then("nothing", 0, NULL, 0, NULL_REF, <<>>)

Idle         == status = "ok" /\ todo = <<>> /\ after = Nothing
Calling(do)  == status = "ok" /\ todo # <<>> /\ Head(todo).do = do
Resuming(to) == status = "ok" /\ todo = <<>> /\ after.to = to

SamePool   == UNCHANGED <<memory_pool, memory_size, f>>
SameMemory == UNCHANGED <<heap, ref_table, free_list, status>>
SameProgram == SamePool /\ UNCHANGED <<global_vars, stack, leaked>>

\* The evaluator goes on with this stack, these calls and what follows them.
Continue(newStack, steps, next) ==
  /\ stack' = newStack /\ todo' = steps /\ after' = next
  /\ SamePool /\ UNCHANGED <<global_vars, leaked>>

-----------------------------------------------------------------------------
(* make_ref and reference counting. *)

\* The first unused slot, or a new one.
assign_reference(table) ==
  LET unused == {r \in DOMAIN table : table[r] = NULL}
  IN  IF unused = {} THEN Len(table) + 1 ELSE Min(unused)

NewRef == assign_reference(ref_table)

\* A value v enters the heap at address a.
Placed(hp, a, v) == [b \in DOMAIN hp \cup {a} |-> IF b = a THEN v ELSE hp[b]]

\* The references of a new array.
NoRefs(len) == [i \in 1 .. len |-> NULL_REF]

\* make_ref, when there is room.
make_ref(type, n, kids, size) ==
  LET block == CarvedFrom(free_list, n)
  IN  /\ heap' = Placed(heap, block.addr, Value(type, block.size, kids, size))
      /\ free_list' = LeftOver(free_list, n)
      /\ ref_table' = IF NewRef > Len(ref_table) THEN Append(ref_table, block.addr)
                      ELSE [ref_table EXCEPT ![NewRef] = block.addr]
      /\ UNCHANGED status

Counted(hp, a) == [hp EXCEPT ![a].ref_count = @ + 1]

incref(r) ==
  /\ IF Valid(r) THEN heap' = Counted(heap, ref_table[r]) /\ status' = status
                 ELSE heap' = heap /\ status' = "asserted"
  /\ UNCHANGED <<ref_table, free_list>>

\* decref of the next reference: the value loses a count, and with its last one
\* what it refers to is released before the value itself.  Mutant: the children of
\* a freed value keep their counts.
Releases_shallow(r) == <<Step("free", r)>>
Releases(r) == Steps("decref", deref(r).kids) \o <<Step("free", r)>>

Decref ==
  LET r == Head(todo).ref
  IN  /\ Calling("decref")
      /\ IF r \in {NULL_REF, TOMBSTONE_REF} THEN heap' = heap /\ status' = status /\ todo' = Tail(todo)
         ELSE IF ~Valid(r) THEN heap' = heap /\ status' = "asserted" /\ todo' = todo
         ELSE /\ heap' = [heap EXCEPT ![ref_table[r]].ref_count = IF @ > 0 THEN @ - 1 ELSE @]
              /\ status' = status
              /\ todo' = (IF deref(r).ref_count > 1 THEN <<>> ELSE Releases(r)) \o Tail(todo)
      /\ SameProgram /\ UNCHANGED <<ref_table, free_list, after>>

Without(hp, gone) == [a \in DOMAIN hp \ gone |-> hp[a]]

\* The end of decref: the slot and the block of a value without references.
Free ==
  LET r == Head(todo).ref
      a == ref_table[r]
  IN  /\ Calling("free")
      /\ heap' = Without(heap, {a})
      /\ ref_table' = [ref_table EXCEPT ![r] = NULL]
      /\ free_list' = mm_free(free_list, a, heap[a].value_size)
      /\ todo' = Tail(todo)
      /\ SameProgram /\ UNCHANGED <<after, status>>

-----------------------------------------------------------------------------
(* Collection: copy what the globals reach into the other half. *)

\* The half the next collection copies into.  mm_init writes a free block over
\* it: a value that lives there is lost.
Half     == PoolSize \div 2
NextHalf == IF f THEN 0 ELSE Half
ToSpaceClear ==
  \A a \in DOMAIN heap : a + heap[a].value_size <= NextHalf \/ a >= NextHalf + Half

\* The copy of a value, counted once.  Mutants: its old count is kept; only its
\* header is copied.
Copied_counted(v) == v
Copied_header(v)  == [v EXCEPT !.ref_count = 1, !.kids = <<>>, !.size = 0]
Copied(v) == [v EXCEPT !.ref_count = 1]

\* operate_global of the next reference: a value already in the new half is
\* counted, any other copied, and then what it refers to.  Neither the entry nor
\* what mm_malloc returns is compared with NULL.
Copy ==
  LET r == Head(todo).ref
      n == deref(r).value_size
      a == CarvedFrom(free_list, n).addr
  IN  /\ Calling("copy")
      /\ IF r \in {NULL_REF, TOMBSTONE_REF} THEN SameMemory /\ todo' = Tail(todo)
         ELSE IF Valid(r)
         THEN /\ heap' = Counted(heap, ref_table[r]) /\ todo' = Tail(todo)
              /\ UNCHANGED <<ref_table, free_list, status>>
         ELSE IF r \notin DOMAIN ref_table \/ ref_table[r] = NULL \/ ~Fits(n)
         THEN status' = "crashed" /\ UNCHANGED <<heap, ref_table, free_list, todo>>
         ELSE /\ heap' = Placed(heap, a, Copied(deref(r)))
              /\ ref_table' = [ref_table EXCEPT ![r] = a]
              /\ free_list' = LeftOver(free_list, n)
              /\ todo' = Steps("copy", deref(r).kids) \o Tail(todo)
              /\ UNCHANGED status
      /\ SameProgram /\ UNCHANGED after

\* What was not copied is forgotten.
Sweep ==
  /\ Resuming("sweep")
  /\ heap' = Without(heap, {a \in DOMAIN heap : ~is_pool_address(a)})
  /\ ref_table' = [r \in DOMAIN ref_table |->
                     IF is_pool_address(ref_table[r]) THEN ref_table[r] ELSE NULL]
  /\ after' = Then("return", 0, NULL, 0, NONE_REF, <<>>)
  /\ SameProgram /\ UNCHANGED <<free_list, todo, status>>

-----------------------------------------------------------------------------
(* The evaluator. *)

RefFrame(r) == [kind |-> "ref", ref |-> r]
\* A list literal under construction; `array' is the C pointer val_array.
ListFrame(r, array, len, idx) ==
  [kind |-> "list", ref |-> r, array |-> array, len |-> len, idx |-> idx]

Depth   == Len(stack)
Top(k)  == stack[Depth - k]                       \* k-th frame from the top
Done(k) == Depth > k /\ Top(k).kind = "ref"
Pop(k)  == SubSeq(stack, 1, Depth - k)
Pushed(frames, r) == Append(frames, RefFrame(r))

NamedIndex(n) == {i \in DOMAIN global_vars : global_vars[i].name = n}

\* An exception: the current eval_* call releases `held', and every active one what
\* it holds.  A while goes on after its body: with the exception still pending its
\* condition is evaluated once more, which is followed while it may lose a count.
StillPending == Then("pending", 0, NULL, 0, NULL_REF, <<>>)
Unwind(held, frames) ==
  /\ stack' = <<>> /\ todo' = Steps("decref", held \o RefsOf(Reverse(frames)))
  /\ after' \in {Nothing, StillPending} /\ (after' = StillPending => Len(leaked') < MaxLeaks)
  /\ SamePool /\ UNCHANGED global_vars

Raise(held, frames) == SameMemory /\ UNCHANGED leaked /\ Unwind(held, frames)

\* An expression that is evaluated while an exception is pending: its first leaf,
\* or the array of a list literal, is computed and nobody releases it.
NamedRefs == {global_vars[i].ref : i \in UNION {NamedIndex(n) : n \in Names}}
Drop ==
  \/ SameMemory /\ UNCHANGED leaked
  \/ /\ Len(leaked) < MaxLeaks
     /\ \/ \E r \in Results \cup NamedRefs : incref(r) /\ leaked' = Append(leaked, r)
        \/ /\ NewRef <= MaxRefs /\ leaked' = Append(leaked, NewRef)
           /\ \/ Fits(IntWords) /\ make_ref("int", IntWords, <<>>, 0)
              \/ \E len \in Lens : /\ Fits(ArrayWords(len))
                                  /\ make_ref("array", ArrayWords(len), NoRefs(len), len)

\* The condition of a while whose body raised an exception, and then that of the
\* while around it.
Reevaluate ==
  /\ Resuming("pending")
  /\ Drop /\ Unwind(<<>>, <<>>)

\* The bound on the depth: one less for each count that was lost.
Ready == Idle /\ Depth + Len(leaked) < MaxStack

EvalInt ==
  /\ Ready /\ NewRef <= MaxRefs
  /\ IF Fits(IntWords)
     THEN make_ref("int", IntWords, <<>>, 0) /\ Continue(Pushed(stack, NewRef), <<>>, Nothing)
     ELSE Raise(<<>>, stack)

EvalSingleton ==
  Ready /\ \E r \in Results : incref(r) /\ Continue(Pushed(stack, r), <<>>, Nothing)

EvalName(n) ==
  /\ Ready
  /\ \/ NamedIndex(n) = {} /\ Raise(<<>>, stack)
     \/ \E i \in NamedIndex(n) :
          incref(global_vars[i].ref) /\ Continue(Pushed(stack, global_vars[i].ref), <<>>, Nothing)

\* eval_literal_list up to the first element: the array ...
EvalList(len) ==
  LET words == ArrayWords(len)
  IN  /\ Ready /\ Cardinality(DOMAIN heap) + 2 <= MaxRefs
      /\ IF Fits(words)
         THEN /\ make_ref("array", words, NoRefs(len), len)
              /\ Continue(stack, <<>>, Then("list", 0, CarvedFrom(free_list, words).addr,
                                            len, NewRef, <<NewRef>>))
         ELSE Raise(<<>>, stack)

\* ... and the list.
NewList ==
  /\ Resuming("list")
  /\ IF Fits(ListWords)
     THEN /\ make_ref("list", ListWords, after.refs, after.size)
          /\ Continue(Append(stack, IF after.size = 0 THEN RefFrame(NewRef)
                                    ELSE ListFrame(NewRef, after.array, after.size, 0)),
                      <<>>, Nothing)
     ELSE Raise(after.refs, stack)

IsList(r) == Valid(r) /\ deref(r).type = "list"
IsInt(r)  == Valid(r) /\ deref(r).type = "int"
ArrayOf(r) == ref_table[deref(r).kids[1]]
Element(r, i) == heap[ArrayOf(r)].kids[i]

\* An element is evaluated: it is stored through val_array.
Filling(l) == IF l.idx + 1 = l.len THEN RefFrame(l.ref) ELSE ListFrame(l.ref, l.array, l.len, l.idx + 1)

StoreElement ==
  LET l == Top(1)
  IN  /\ Done(0) /\ Depth > 1 /\ l.kind = "list"
      /\ IF IsList(l.ref) /\ ArrayOf(l.ref) = l.array
         THEN heap' = [heap EXCEPT ![l.array].kids[l.idx + 1] = Top(0).ref] /\ status' = status
         ELSE heap' = heap /\ status' = "corrupt"
      /\ UNCHANGED <<ref_table, free_list>>

ElementDone == Idle /\ StoreElement /\ Continue(Append(Pop(2), Filling(Top(1))), <<>>, Nothing)

\* The operands `refs', topmost last, give way to a new integer if there is room,
\* or to a singleton.
NewInt(refs, next) ==
  /\ NewRef <= MaxRefs
  /\ IF Fits(IntWords)
     THEN /\ make_ref("int", IntWords, <<>>, 0)
          /\ Continue(Pushed(Pop(Len(refs)), NewRef), Steps("decref", refs), next)
     ELSE Raise(refs, Pop(Len(refs)))

Singleton(refs, result) ==
  incref(result) /\ Continue(Pushed(Pop(Len(refs)), result), Steps("decref", refs), Nothing)

bool_ref(refs) == \E result \in Results \cap {TRUE_REF, FALSE_REF} : Singleton(refs, result)

\* An assertion of deref fails.
Asserted == status' = "asserted" /\ UNCHANGED <<heap, ref_table, free_list, todo, after>> /\ SameProgram

\* Arithmetic or a comparison; operands of other types are an error.
EvalBuiltin ==
  LET l == Top(1).ref
      r == Top(0).ref
  IN  /\ Idle /\ Done(0) /\ Done(1)
      /\ IF Valid(l) /\ Valid(r)
         THEN \/ bool_ref(<<l, r>>)
              \/ IF IsInt(l) /\ IsInt(r) THEN NewInt(<<l, r>>, Nothing) ELSE Raise(<<l, r>>, Pop(2))
         ELSE Asserted

\* not, - and +, and calls of bool, print and len with one argument; a call may be
\* refused.  len() makes its integer even when ref_len has raised an exception.
EvalUnary ==
  LET r == Top(0).ref
  IN  /\ Idle /\ Done(0)
      /\ \/ \E result \in Results : Singleton(<<r>>, result)
         \/ (IsList(r) \/ IsInt(r)) /\ NewInt(<<r>>, Nothing)
         \/ Len(leaked) < MaxLeaks /\ ~IsList(r) /\ NewInt(<<r>>, Then("refused", 0, NULL, 0, NULL_REF, <<>>))
         \/ Raise(<<r>>, Pop(1))

\* That integer on top of the stack beside the exception.  Most callers see the
\* exception and return; a list literal has stored it as an element by then and
\* releases it with the list; the REPL releases it if the call is all there is.
Refused ==
  /\ Resuming("refused")
  /\ \/ SameMemory /\ leaked' = Append(leaked, Top(0).ref) /\ Unwind(<<>>, Pop(1))
     \/ StoreElement /\ UNCHANGED leaked /\ Unwind(<<>>, Append(Pop(2), Filling(Top(1))))
     \/ Depth = 1 /\ SameMemory /\ Continue(<<>>, Steps("decref", <<Top(0).ref>>), Nothing)

\* A call of something that is not a function.  If it is not even a name, the
\* exception is pending when the first argument is evaluated.
EvalCall == Ready /\ Drop /\ Unwind(<<>>, stack)

\* and, or: the left operand decides, or is dropped for the right one.
EvalAndOr ==
  /\ Idle /\ Done(0)
  /\ SameMemory /\ Continue(Pop(1), Steps("decref", <<Top(0).ref>>), Nothing)

\* The position an index expression selects; none if out of bounds.
Positions(t) == 1 .. deref(t).size

EvalSubscript ==
  LET t == Top(1).ref
      i == Top(0).ref
  IN  /\ Idle /\ Done(0) /\ Done(1)
      /\ IF Valid(t) /\ Valid(i)
         THEN \/ Raise(<<t, i>>, Pop(2))
              \/ /\ IsList(t) /\ IsInt(i)
                 /\ \E k \in Positions(t) :
                      /\ incref(Element(t, k))
                      /\ Continue(Pushed(Pop(2), Element(t, k)), Steps("decref", <<t, i>>), Nothing)
         ELSE Asserted

\* gc(): eval_call_gc.  Every count is computed anew.
Gc ==
  /\ Ready
  /\ NestedGc \/ Depth = 0
  /\ LateGc \/ memory_size = Half \/ ToSpaceClear
  /\ f' = ~f /\ memory_pool' = NextHalf /\ memory_size' = Half
  /\ free_list' = mm_init(NextHalf, Half)
  /\ status' = IF ToSpaceClear THEN "ok" ELSE "corrupt"
  /\ leaked' = <<>>
  /\ todo' = Steps("copy", RefsOf(global_vars))
  /\ after' = Then("sweep", 0, NULL, 0, NULL_REF, <<>>)
  /\ UNCHANGED <<heap, ref_table, global_vars, stack>>

\* It returns None.
GcReturn == Resuming("return") /\ incref(after.ref) /\ Continue(Pushed(stack, after.ref), <<>>, Nothing)

-----------------------------------------------------------------------------
(* Statements. *)

\* globals_set: an existing name loses its old value first.
AssignName(n) ==
  LET r == Top(0).ref
  IN  /\ Idle /\ Depth = 1 /\ Done(0)
      /\ \/ /\ NamedIndex(n) = {}
            /\ incref(r) /\ global_vars' = Append(global_vars, [name |-> n, ref |-> r])
            /\ todo' = Steps("decref", <<r>>) /\ after' = Nothing
         \/ \E i \in NamedIndex(n) :
              /\ SameMemory /\ UNCHANGED global_vars
              /\ todo' = Steps("decref", <<global_vars[i].ref>>)
              /\ after' = Then("global", i, NULL, 0, r, <<r>>)
      /\ stack' = <<>> /\ SamePool /\ UNCHANGED leaked

\* Mutant: the new value is not counted.
NewValue_uncounted(r) == SameMemory
NewValue(r) == incref(r)

SetGlobal ==
  /\ Resuming("global")
  /\ NewValue(after.ref) /\ global_vars' = [global_vars EXCEPT ![after.at].ref = after.ref]
  /\ todo' = Steps("decref", after.refs) /\ after' = Nothing
  /\ SamePool /\ UNCHANGED <<stack, leaked>>

DelName(n) ==
  /\ Idle /\ Depth = 0
  /\ \/ NamedIndex(n) = {} /\ Raise(<<>>, stack)
     \/ \E i \in NamedIndex(n) :
          /\ SameMemory
          /\ Continue(stack, Steps("decref", <<global_vars[i].ref>>),
                      Then("drop", i, NULL, 0, NULL_REF, <<>>))

DropGlobal ==
  /\ Resuming("drop")
  /\ global_vars' = RemoveAt(global_vars, after.at) /\ after' = Nothing
  /\ SameMemory /\ SamePool /\ UNCHANGED <<stack, leaked, todo>>

\* list_subscr_set
AssignSubscript ==
  LET r == Top(2).ref
      t == Top(1).ref
      i == Top(0).ref
  IN  /\ Idle /\ Depth = 3 /\ Done(0) /\ Done(1) /\ Done(2)
      /\ \/ Raise(<<>>, stack)
         \/ /\ IsList(t) /\ IsInt(i)
            /\ \E k \in Positions(t) :
                 /\ SameMemory
                 /\ Continue(<<>>, Steps("decref", <<Element(t, k)>>),
                             Then("store", k, ArrayOf(t), 0, r, <<i, t, r>>))

SetElement ==
  LET r == after.ref
  IN  /\ Resuming("store")
      /\ IF Valid(r)
         THEN /\ heap' = [Counted(heap, ref_table[r]) EXCEPT ![after.array].kids[after.at] = r]
              /\ status' = status
         ELSE heap' = heap /\ status' = "asserted"
      /\ Continue(stack, Steps("decref", after.refs), Nothing)
      /\ UNCHANGED <<ref_table, free_list>>

\* list_subscr_del: the list is one shorter at once.
DelSubscript ==
  LET t == Top(1).ref
      i == Top(0).ref
  IN  /\ Idle /\ Depth = 2 /\ Done(0) /\ Done(1)
      /\ \/ Raise(<<>>, stack)
         \/ /\ IsList(t) /\ IsInt(i)
            /\ \E k \in Positions(t) :
                 /\ heap' = [heap EXCEPT ![ref_table[t]].size = @ - 1]
                 /\ Continue(<<>>, Steps("decref", <<Element(t, k)>>),
                             Then("shift", k, ArrayOf(t), deref(t).size, NULL_REF, <<i, t>>))
                 /\ UNCHANGED <<ref_table, free_list, status>>

\* The later elements move up, the freed slot is cleared.
Shifted(kids, k, size) ==
  [j \in DOMAIN kids |-> IF j >= k /\ j < size THEN kids[j + 1]
                         ELSE IF j = size THEN NULL_REF ELSE kids[j]]

DelElement ==
  /\ Resuming("shift")
  /\ heap' = [heap EXCEPT ![after.array].kids = Shifted(@, after.at, after.size)]
  /\ Continue(stack, Steps("decref", after.refs), Nothing)
  /\ UNCHANGED <<ref_table, free_list, status>>

\* The result of an expression statement is released by the sequence or the
\* REPL, but not when the statement is the body of an if or a while.
ExprStmt ==
  LET r == Top(0).ref
  IN  /\ Idle /\ Depth = 1 /\ Done(0)
      /\ SameMemory /\ SamePool
      /\ \/ todo' = Steps("decref", <<r>>) /\ UNCHANGED leaked
         \/ todo' = todo /\ Len(leaked) < MaxLeaks /\ leaked' = Append(leaked, r)
      /\ stack' = <<>> /\ UNCHANGED <<global_vars, after>>

-----------------------------------------------------------------------------
Init ==
  /\ memory_pool = 0 /\ memory_size = PoolSize
  /\ free_list = <<Block(3 * Header, PoolSize - 3 * Header)>>
  /\ heap = [a \in {0, Header, 2 * Header} |->
               Value(IF a = 0 THEN "none" ELSE "bool", Header, <<>>, 0)]
  /\ f = FALSE
  /\ ref_table = <<0, Header, 2 * Header>>
  /\ global_vars = [i \in 1 .. 3 |-> [name |-> Singletons[i], ref |-> i]]
  /\ stack = <<>> /\ leaked = <<>> /\ todo = <<>> /\ after = Nothing
  /\ status = "ok"

Expr ==
  \/ EvalInt \/ EvalSingleton
  \/ \E n \in Names : EvalName(n)
  \/ \E len \in Lens : EvalList(len)
  \/ NewList \/ ElementDone \/ EvalBuiltin \/ EvalUnary \/ Refused \/ EvalCall \/ EvalAndOr \/ EvalSubscript
  \/ Gc \/ GcReturn \/ Reevaluate

Stmt ==
  \/ \E n \in Names : AssignName(n) \/ DelName(n)
  \/ SetGlobal \/ DropGlobal
  \/ AssignSubscript \/ SetElement \/ DelSubscript \/ DelElement \/ ExprStmt

Next == Expr \/ Stmt \/ Decref \/ Free \/ Copy \/ Sweep

Spec == Init /\ [][Next]_vars

-----------------------------------------------------------------------------
(* Properties. *)

Blocks == {Block(a, heap[a].value_size) : a \in DOMAIN heap}
Collecting == after.to = "sweep"

\* Types: the table maps references to values or NULL, the evaluator holds real
\* references, the pool in use is the whole pool or one of its halves.
TypeOK ==
  /\ f \in BOOLEAN /\ status \in {"ok", "asserted", "crashed", "corrupt"}
  /\ <<memory_pool, memory_size>> \in {<<0, PoolSize>>, <<0, Half>>, <<Half, Half>>}
  /\ \A a \in DOMAIN heap :
       /\ heap[a].type \in {"none", "bool", "int", "list", "array"}
       /\ heap[a].ref_count \in Nat /\ heap[a].value_size \in Nat \ {0} /\ heap[a].size \in Nat
       /\ heap[a].kids \in Seq(Int)
  /\ \A r \in DOMAIN ref_table : ref_table[r] = NULL \/ ref_table[r] \in DOMAIN heap
  /\ \A i \in DOMAIN stack : stack[i].kind \in {"ref", "list"} /\ stack[i].ref \in Nat
  /\ leaked \in Seq(Nat)

LiveRefs == {r \in DOMAIN ref_table : ref_table[r] # NULL}
KidsOf(r) == {deref(r).kids[j] : j \in DOMAIN deref(r).kids} \ {NULL_REF, TOMBSTONE_REF}
GlobalRefs == {global_vars[i].ref : i \in DOMAIN global_vars}
StackRefs  == {stack[i].ref : i \in DOMAIN stack}

\* How many places refer to r: globals, C locals of the evaluator, other values.
Occurrences(s, r) == Cardinality({i \in DOMAIN s : s[i] = r})
KidPlaces(r) == UNION {{<<o, j>> : j \in {i \in DOMAIN deref(o).kids : deref(o).kids[i] = r}} : o \in LiveRefs}
Places(r) ==
  Occurrences(RefsOf(global_vars), r) + Occurrences(RefsOf(stack), r) + Cardinality(KidPlaces(r))

\* No reference dangles: no assertion of deref ever fails, no value is overwritten
\* and no copy fails, and between two operations what a global, a C local or another
\* value refers to is in the table, whose entries are the values of the pool, each
\* under one reference.
NoDangling ==
  /\ status = "ok"
  /\ Idle =>
       /\ GlobalRefs \cup StackRefs \subseteq LiveRefs
       /\ \A r \in LiveRefs : ref_table[r] \in DOMAIN heap /\ KidsOf(r) \subseteq LiveRefs
       /\ \A a \in DOMAIN heap : \E r \in LiveRefs :
            ref_table[r] = a /\ \A s \in LiveRefs : ref_table[s] = a => s = r

\* ref_count is "the number of places this value is currently referenced", and one
\* more for each count that was lost: for a result the body of an if or a while
\* leaves, for the integer of a refused len(), for a value that is computed while
\* an exception is pending.  Values may live too long, but none is freed too early.
RefCountExact ==
  Idle => \A r \in LiveRefs : deref(r).ref_count = Places(r) + Occurrences(leaked, r)

\* At every step, those of a release and of a collection included, values and free
\* blocks do not overlap and lie in the pool, except for the values that are being
\* copied out of the other half, and all but a few words of it are accounted for:
\* copying into the last free block loses what is too small to split off, and
\* nothing else is ever lost.
FreeBlocks == {free_list[i] : i \in DOMAIN free_list}
Apart(b, c) == b.addr + b.size <= c.addr \/ c.addr + c.size <= b.addr
PoolSound ==
  LET pool   == Block(memory_pool, memory_size)
      blocks == Blocks \cup FreeBlocks
  IN  /\ TypeOK
      /\ \A b, c \in blocks : b = c \/ Apart(b, c)
      /\ Blocks \cap FreeBlocks = {}
      /\ \A i, j \in DOMAIN free_list : free_list[i] = free_list[j] => i = j
      /\ \A b \in blocks :
           \/ memory_pool <= b.addr /\ b.addr + b.size <= memory_pool + memory_size
           \/ Collecting /\ b \in Blocks /\ Apart(b, pool)
      /\ Cardinality(Words(pool) \ UNION {Words(b) : b \in blocks}) <= Header

\* What a set of references reaches: every set that contains it and is closed
\* under references does.
Closed(S) == \A r \in S : KidsOf(r) \cap LiveRefs \subseteq S
Reach(refs) ==
  LET from == refs \cap LiveRefs
  IN  from \cup {r \in LiveRefs : \A S \in SUBSET (LiveRefs \ (from \cup {r})) : ~Closed(from \cup S)}

\* Reference counting leaves only cyclic garbage and what lost counts keep: a value
\* the program cannot reach any more hangs off a cycle, or off a result of the body
\* of an if or a while, the integer of a refused len() or a value that was computed
\* while an exception was pending.
OnlyCyclesLeak ==
  LET garbage == LiveRefs \ Reach(GlobalRefs \cup StackRefs)
      origins == {c \in garbage : (\E i \in DOMAIN leaked : leaked[i] = c) \/ c \in Reach(KidsOf(c))}
  IN  Idle => garbage \subseteq Reach(origins)

\* A collection keeps exactly what the globals reach, under the same references
\* and with the same contents: it never overwrites a value that it has still to copy
\* and never runs out of room.
SameContents(new, old) ==
  /\ new.type = old.type /\ new.kids = old.kids
  /\ new.size = old.size /\ new.value_size = old.value_size
GcExact ==
  [][/\ f' # f \/ Collecting =>
          /\ status' = "ok"
          /\ \A r \in LiveRefs \cap LiveRefs' : SameContents(heap'[ref_table'[r]], heap[ref_table[r]])
     /\ Collecting => LiveRefs' = IF after' = after THEN LiveRefs ELSE Reach(GlobalRefs)]_vars
=============================================================================
