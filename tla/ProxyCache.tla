----------------------------- MODULE ProxyCache -----------------------------
(***************************************************************************)
(* The response cache of the web proxy (project07 cache.c).                *)
(*                                                                         *)
(* handle_request makes a cache of its own for every request, so a cache   *)
(* only ever sees one key: one bin of the hash table is used, and all its  *)
(* nodes carry the same growing buffer.  Nodes are numbered in the order   *)
(* malloc returns them.  Memory errors end the process: it is built with   *)
(* the address sanitizer (Makefile, clang-with-asan).                      *)
(***************************************************************************)
EXTENDS Integers, Sequences

CONSTANTS MAX_CACHE_SIZE, MAX_OBJECT_SIZE

\* 1 MB and 100 KB in the code: a full cache holds several objects.
ASSUME CacheAssumption ==
  /\ MAX_CACHE_SIZE \in Nat /\ MAX_OBJECT_SIZE \in Nat \ {0}
  /\ 2 * MAX_OBJECT_SIZE <= MAX_CACHE_SIZE

NIL == 0

init_node  == [prev |-> NIL, next |-> NIL, hash_table_next |-> NIL]

\* `head' is the local of cache_insert, `ok' turns false at a use after free.
init_cache ==
  [size |-> 0, lock |-> FALSE, front |-> NIL, back |-> NIL, arr |-> NIL,
   nodes |-> <<>>, freed |-> {}, head |-> NIL, ok |-> TRUE]

Allocated(c, n) == n \in DOMAIN c.nodes \ c.freed

\* contains: the bin is empty when it is called, before the first insertion.
contains(c) == c.arr # NIL

-----------------------------------------------------------------------------
(* cache_insert: lock, make a node, give up or evict, link, unlock, enqueue. *)

TooBig(len)  == len >= MAX_OBJECT_SIZE

Full(c, len) == c.size + len >= MAX_CACHE_SIZE

\* A thread that holds the lock already gets EDEADLK and goes on.
EnterInsert(c) ==
  [c EXCEPT !.lock = TRUE, !.nodes = Append(@, init_node), !.head = c.arr]

\* queue->back stays where it is.
dequeue(c) ==
  LET temp == c.nodes[c.back].prev
  IN  IF c.back = NIL THEN c
      ELSE IF c.front = c.back THEN [c EXCEPT !.front = NIL]
      ELSE IF temp = NIL THEN c
      ELSE [c EXCEPT !.nodes[temp].next = NIL]

\* The head of the bin is freed, whichever node the queue gave up; what is
\* subtracted is the length its buffer has now.
cache_remove(c, len) ==
  IF ~Allocated(c, c.back) THEN [c EXCEPT !.ok = FALSE]
  ELSE [dequeue(c) EXCEPT !.freed = @ \cup {c.arr}, !.arr = NIL, !.size = @ - len]

\* The end of the chain that starts at head.
ChainEnd(c) ==
  CHOOSE n \in ({c.head} \cup {c.nodes[m].hash_table_next : m \in DOMAIN c.nodes}) \ {NIL} :
    c.nodes[n].hash_table_next = NIL

AddToBin(c, n) ==
  IF c.head = NIL THEN [c EXCEPT !.arr = n]
  ELSE IF ~Allocated(c, c.head) THEN [c EXCEPT !.ok = FALSE]
  ELSE [c EXCEPT !.nodes[ChainEnd(c)].hash_table_next = n]

\* Mutant: the old front keeps no link to the node before it.
enqueue_single(c, n) ==
  IF c.back = NIL THEN [c EXCEPT !.front = n, !.back = n]
  ELSE [c EXCEPT !.nodes[n].next = c.front, !.front = n]
enqueue(c, n) ==
  IF c.back = NIL THEN [c EXCEPT !.front = n, !.back = n]
  ELSE IF ~Allocated(c, c.front) THEN [c EXCEPT !.ok = FALSE]
  ELSE [c EXCEPT !.nodes[n].next = c.front, !.nodes[c.front].prev = n, !.front = n]

\* The node ends up in front of the queue, so that queue_update has nothing to do.
LeaveInsert(c, len) ==
  LET n      == Len(c.nodes)
      linked == AddToBin(c, n)
  IN  IF ~linked.ok THEN linked
      ELSE enqueue([linked EXCEPT !.size = @ + len, !.lock = FALSE], n)
=============================================================================
