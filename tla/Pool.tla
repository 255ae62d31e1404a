-------------------------------- MODULE Pool --------------------------------
(***************************************************************************)
(* The memory pool of the Subpython interpreter (project05 mm.c): an       *)
(* explicit, singly linked free list, best fit, splits, no coalescing.     *)
(*                                                                         *)
(* The unit is the 8-byte word.  A free block is a record [addr, size] of  *)
(* the list; a value in use is an entry of `heap' with its value_size.     *)
(***************************************************************************)
EXTENDS Integers, Sequences, SequencesExt

CONSTANT Header       \* sizeof(value_t) and sizeof(free_value_t), in words

ASSUME HeaderAssumption == Header \in Nat \ {0}

VARIABLES
  memory_pool,        \* first word of the pool in use
  memory_size,        \* its length
  free_list,          \* the free blocks, in list order
  heap                \* the values, by address

poolVars == <<memory_pool, memory_size, free_list, heap>>

Block(addr, size) == [addr |-> addr, size |-> size]

\* mm_init: the whole pool is one free block.
mm_init(addr, size) == <<Block(addr, size)>>

LargeEnough(list, n) == {i \in DOMAIN list : list[i].size >= n}

\* The first of the smallest blocks that are large enough.
BestFit(list, n) ==
  CHOOSE i \in LargeEnough(list, n) :
    \A j \in LargeEnough(list, n) \ {i} :
      list[i].size < list[j].size \/ (list[i].size = list[j].size /\ i < j)

Splits(block, n) == block.size - n > Header

\* The value mm_malloc returns and the list it leaves.  Mutant: the rest of a
\* split block starts one word early.
Carved(block, n) == IF Splits(block, n) THEN Block(block.addr, n) ELSE block
Rest_early(block, n) == Block(block.addr + n - 1, block.size - n)
Rest(block, n)   == Block(block.addr + n, block.size - n)

CarvedFrom(list, n) == Carved(list[BestFit(list, n)], n)
LeftOver(list, n) ==
  LET i == BestFit(list, n)
  IN  IF Splits(list[i], n) THEN [list EXCEPT ![i] = Rest(list[i], n)]
                            ELSE RemoveAt(list, i)

\* mm_free pushes the block in front of the list.
mm_free(list, addr, size) == <<Block(addr, size)>> \o list

is_pool_address(addr) == addr >= memory_pool /\ addr < memory_pool + memory_size

\* The words of a block.
Words(b) == b.addr .. b.addr + b.size - 1
=============================================================================
