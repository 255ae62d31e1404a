------------------------------- MODULE Arena ---------------------------------
(***************************************************************************)
(* The arena of Subpython's syntax trees (project05 arena.c): blocks of    *)
(* memory out of which nodes are cut one after the other and which are     *)
(* freed together.                                                         *)
(***************************************************************************)
EXTENDS Integers, Sequences

CONSTANT DEFAULT_BLOCK_SIZE     \* 8192 bytes in the code

ASSUME ArenaAssumption == DEFAULT_BLOCK_SIZE \in Nat

ALIGNMENT == 8

\* `chunks' is what arena_malloc has returned so far, which only properties read.
NoArena == [blocks |-> <<>>, chunks |-> {}]
block_new(size) == [size |-> size, allocated |-> 0]
arena_new == [blocks |-> <<block_new(DEFAULT_BLOCK_SIZE)>>, chunks |-> {}]

\* Mutant: truncated instead of rounded up.
Aligned_down(size) == (size \div ALIGNMENT) * ALIGNMENT
Aligned(size) == ((size + ALIGNMENT - 1) \div ALIGNMENT) * ALIGNMENT

\* The blocks among which the newest has room for n bytes.
WithRoom(blocks, n) ==
  IF blocks[Len(blocks)].allocated + n > blocks[Len(blocks)].size
  THEN Append(blocks, block_new(IF n > DEFAULT_BLOCK_SIZE THEN n ELSE DEFAULT_BLOCK_SIZE))
  ELSE blocks

arena_malloc(a, size) ==
  LET blocks == WithRoom(a.blocks, Aligned(size))
      last   == Len(blocks)
      start  == blocks[last].allocated
  IN  [blocks |-> [blocks EXCEPT ![last].allocated = start + Aligned(size)],
       chunks |-> a.chunks \cup {[block |-> last, lo |-> start, size |-> size]}]

-----------------------------------------------------------------------------
Blocks(a) ==
  \A b \in DOMAIN a.blocks : a.blocks[b].allocated \in 0 .. a.blocks[b].size

Inside(a) ==
  \A c \in a.chunks : /\ c.block \in DOMAIN a.blocks /\ c.lo % ALIGNMENT = 0
                      /\ c.lo + c.size <= a.blocks[c.block].allocated

Apart(a) ==
  \A c, d \in a.chunks :
    c # d /\ c.block = d.block => c.lo + c.size <= d.lo \/ d.lo + d.size <= c.lo
=============================================================================
