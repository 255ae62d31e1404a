------------------------------ MODULE HeapSpec ------------------------------
(***************************************************************************)
(* What a memory allocator promises its client, whatever it does inside:   *)
(* each live index owns a run of consecutive words of the heap, aligned,   *)
(* long enough, and disjoint from every other index's run; a run moves or  *)
(* disappears only when its own index is reallocated or freed.  The client *)
(* may look at every index's run (`region') and at nothing else.           *)
(***************************************************************************)
EXTENDS Integers

CONSTANTS Ids, Sizes, HeapWords

VARIABLE region     \* the words each index owns

\* The 16-byte aligned runs of n words.
Runs(n) == {p .. p + n - 1 : p \in {q \in HeapWords : q % 2 = 0 /\ q + n - 1 \in HeapWords}}

Apart(r, id) == \A other \in Ids \ {id} : region[other] \cap r = {}

AInit == region = [id \in Ids |-> {}]

\* malloc and calloc
Allocate(id, n) ==
  /\ region[id] = {}
  /\ \E r \in Runs(n) :
       /\ Apart(r, id)
       /\ region' = [region EXCEPT ![id] = r]

\* realloc: first the common prefix is live at the new place, then all of it
Move(id, n) ==
  /\ region[id] # {}
  /\ \E r \in Runs(n) :
       /\ Apart(r, id)
       /\ region' = [region EXCEPT ![id] = r]

Release(id) == region' = [region EXCEPT ![id] = {}]

ANext ==
  \E id \in Ids :
    \/ Release(id)
    \/ \E n \in Sizes : Allocate(id, n) \/ Move(id, n)

ASpec == AInit /\ [][ANext]_region
=============================================================================
