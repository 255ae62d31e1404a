-------------------------------- MODULE Dict --------------------------------
(***************************************************************************)
(* A Subpython dictionary (project05 eval_dict.c): linear probing in two   *)
(* parallel arrays of references, with tombstones and doubling.            *)
(*                                                                         *)
(* A key is a reference; references to equal values are equal keys.  A     *)
(* probe may reach the word behind the key array.  If that word is a       *)
(* reference that differs from the key, probing goes on; otherwise the     *)
(* search ends outside the array (a match, a mark or a failed assertion)   *)
(* and nothing is said of the dictionary from then on: it is lost.         *)
(***************************************************************************)
EXTENDS Integers, FiniteSets, SequencesExt

CONSTANTS
  Keys,          \* references used as subscripts
  Values,        \* references stored
  ValueOf,       \* the value each subscript refers to
  Hash,          \* hash of each such value
  Unhashable,    \* values without a hash: lists and dictionaries
  MinCapacity,   \* capacity of an empty literal, 16 in the code
  Capacities     \* bound: the capacities for which the pool may have room

ASSUME DictAssumption ==
  /\ Keys \subseteq Nat /\ Values \subseteq Nat
  /\ Capacities \subseteq Nat \ {0, 1} /\ MinCapacity \in Capacities
  /\ \A c, limit \in Capacities : 2 * c <= limit => 2 * c \in Capacities
  /\ \A k \in Keys : ValueOf[k] \in Unhashable \/ Hash[ValueOf[k]] \in Nat

VARIABLES
  dict,          \* the dictionary
  reply          \* what the last operation gave or raised

vars == <<dict, reply>>

NULL_REF      == -1
TOMBSTONE_REF == -2
Marks         == {NULL_REF, TOMBSTONE_REF}

make_reference_refarray(capacity) == [i \in 0 .. capacity - 1 |-> NULL_REF]

\* `held' counts the references the arrays own; `exc' is the pending exception;
\* `lost' is set when a search ends behind the key array.
make_reference_dict ==
  [keys |-> make_reference_refarray(MinCapacity),
   values |-> make_reference_refarray(MinCapacity),
   size |-> 0, occupied |-> 0,
   held |-> [r \in Keys \cup Values |-> 0], exc |-> "none", lost |-> FALSE]

Capacity(d) == Cardinality(DOMAIN d.keys)
ref_eq(k, l) == ValueOf[k] = ValueOf[l]
Hashable(k) == ValueOf[k] \notin Unhashable

incref(d, r) == IF r \in Marks THEN d ELSE [d EXCEPT !.held[r] = @ + 1]
decref(d, r) == IF r \in Marks THEN d ELSE [d EXCEPT !.held[r] = @ - 1]

-----------------------------------------------------------------------------
(* Probing. *)

\* The idx-th slot that is looked at.
Probe(bucket, idx, capacity) ==
  LET current == bucket + idx IN IF current > capacity THEN current - capacity ELSE current

\* Does the search for k end at a slot that holds key?  Mutant: tombstones end
\* every search.
Ends_tombstone(key, k, skip_tombstones) == key \in Marks \/ ref_eq(k, key)
Ends(key, k, skip_tombstones) ==
  \/ key = NULL_REF
  \/ key = TOMBSTONE_REF /\ ~skip_tombstones
  \/ key \notin Marks /\ ref_eq(k, key)

\* The first slot at which the search ends, or -1; `capacity' if it ends behind
\* the array.
keys_find(keys, k, skip_tombstones, differs) ==
  LET capacity == Cardinality(DOMAIN keys)
      slot(idx) == Probe(Hash[ValueOf[k]] % capacity, idx, capacity)
      ends(idx) == IF slot(idx) = capacity THEN ~differs
                   ELSE Ends(keys[slot(idx)], k, skip_tombstones)
      found == {idx \in 0 .. capacity - 1 : ends(idx)}
  IN  IF found = {} THEN -1 ELSE slot(Min(found))

Find(d, k, skip, differs) == keys_find(d.keys, k, skip, differs)
Outside(d, idx) == idx = Capacity(d)
Occupied(d, idx) == idx >= 0 /\ d.keys[idx] # NULL_REF

-----------------------------------------------------------------------------
(* Doubling.  `limit' is the largest capacity for which there is room now.   *)

\* A live entry of the old arrays is put into the new ones and counted.
Move(n, k, v, differs) ==
  LET idx == Find(n, k, FALSE, differs)
  IN  IF Outside(n, idx) THEN [n EXCEPT !.lost = TRUE]
      ELSE incref(incref([n EXCEPT !.keys[idx] = k, !.values[idx] = v], k), v)

\* The new arrays after n slots of the old ones.
Fresh(d) ==
  [d EXCEPT !.keys = make_reference_refarray(2 * Capacity(d)),
            !.values = make_reference_refarray(2 * Capacity(d))]
MoveSlot(n, d, i, differs) ==
  IF d.keys[i] \in Marks THEN n ELSE Move(n, d.keys[i], d.values[i], differs)
Moved(d, differs) ==
  LET moved[n \in 0 .. Capacity(d)] ==
        IF n = 0 THEN Fresh(d) ELSE MoveSlot(moved[n - 1], d, n - 1, differs)
  IN  moved

\* The old arrays go, and give back what their first n slots own.
DropSlot(n, d, i) == decref(decref(n, d.keys[i]), d.values[i])
Dropped(d, start) ==
  LET dropped[n \in 0 .. Capacity(d)] ==
        IF n = 0 THEN start ELSE DropSlot(dropped[n - 1], d, n - 1)
  IN  dropped

dict_upsize(d, limit, differs) ==
  IF 2 * Capacity(d) > limit THEN [d EXCEPT !.exc = "MemoryError"]
  ELSE [Dropped(d, Moved(d, differs)[Capacity(d)])[Capacity(d)] EXCEPT !.occupied = d.size]

dict_maybe_upsize(d, limit, differs) ==
  IF d.occupied * 2 >= Capacity(d) THEN dict_upsize(d, limit, differs) ELSE d

-----------------------------------------------------------------------------
(* Operations. *)

\* The value of an existing entry gives way to v.
Overwrite(d, idx, v) ==
  [incref(decref(d, d.values[idx]), v) EXCEPT !.values[idx] = v]

\* A new entry in an empty slot or a tombstone.  Mutants: every new entry counts
\* as occupied; the key is not counted.
Insert_tombstone(d, idx, k, v) ==
  [incref(incref(decref(decref(d, d.keys[idx]), d.values[idx]), k), v) EXCEPT
     !.size = @ + 1, !.occupied = @ + 1, !.keys[idx] = k, !.values[idx] = v]
Insert_uncounted(d, idx, k, v) ==
  [incref(decref(decref(d, d.keys[idx]), d.values[idx]), v) EXCEPT
     !.size = @ + 1, !.occupied = IF d.keys[idx] = NULL_REF THEN @ + 1 ELSE @,
     !.keys[idx] = k, !.values[idx] = v]
Insert(d, idx, k, v) ==
  [incref(incref(decref(decref(d, d.keys[idx]), d.values[idx]), k), v) EXCEPT
     !.size = @ + 1, !.occupied = IF d.keys[idx] = NULL_REF THEN @ + 1 ELSE @,
     !.keys[idx] = k, !.values[idx] = v]

\* dict_subscr_set for a key that has no entry, in a slot of keys_find.
SetNew(d, idx, k, v, limit, differs) ==
  IF Outside(d, idx) THEN [d EXCEPT !.lost = TRUE]
  ELSE dict_maybe_upsize(Insert(d, idx, k, v), limit, differs)

\* Without a slot the array is doubled and the call repeated, which returns at
\* once if the doubling raised an exception.
dict_subscr_set(d, k, v, limit, differs) ==
  LET old == Find(d, k, TRUE, differs)
      new == Find(d, k, FALSE, differs)
      e   == dict_upsize(d, limit, differs)
  IN  IF ~Hashable(k) THEN [d EXCEPT !.exc = "TypeError"]
      ELSE IF Outside(d, old) THEN [d EXCEPT !.lost = TRUE]
      ELSE IF Occupied(d, old) THEN Overwrite(d, old, v)
      ELSE IF new >= 0 THEN SetNew(d, new, k, v, limit, differs)
      ELSE IF e.exc # "none" \/ e.lost THEN e
      ELSE SetNew(e, Find(e, k, FALSE, differs), k, v, limit, differs)

Removed(d, idx) ==
  [decref(decref(d, d.keys[idx]), d.values[idx]) EXCEPT
     !.size = @ - 1, !.keys[idx] = TOMBSTONE_REF, !.values[idx] = NULL_REF]

dict_subscr_del(d, k, differs) ==
  LET idx == Find(d, k, TRUE, differs)
  IN  IF ~Hashable(k) THEN [d EXCEPT !.exc = "TypeError"]
      ELSE IF Outside(d, idx) THEN [d EXCEPT !.lost = TRUE]
      ELSE IF Occupied(d, idx) THEN Removed(d, idx)
      ELSE [d EXCEPT !.exc = "KeyError"]

\* What is returned is counted; whoever asked for it releases it later.
dict_subscr_get(d, k, differs) ==
  LET idx == Find(d, k, TRUE, differs)
  IN  IF ~Hashable(k) THEN [d EXCEPT !.exc = "TypeError"]
      ELSE IF Outside(d, idx) THEN [d EXCEPT !.lost = TRUE]
      ELSE IF Occupied(d, idx) THEN incref(d, d.values[idx])
      ELSE [d EXCEPT !.exc = "KeyError"]

\* dict_eq: equal sizes, and every entry of l has its like in r.  Each stored
\* reference stands for a value of its own.  Mutant: sizes are not compared.
dict_eq_subset(l, r) ==
  \A i \in DOMAIN l.keys :
    l.keys[i] \notin Marks =>
      LET ridx == Find(r, l.keys[i], TRUE, TRUE)
      IN  Occupied(r, ridx) /\ l.values[i] = r.values[ridx]
dict_eq(l, r) ==
  /\ l.size = r.size
  /\ \A i \in DOMAIN l.keys :
       l.keys[i] \notin Marks =>
         LET ridx == Find(r, l.keys[i], TRUE, TRUE)
         IN  Occupied(r, ridx) /\ l.values[i] = r.values[ridx]

-----------------------------------------------------------------------------
(* The program: any sequence of operations on one dictionary.  The exception   *)
(* of an operation is reported and cleared before the next statement.        *)

Reply(e, v) == [error |-> e, value |-> v]

\* The operation ends in d with the value v, with an exception, or not at all.
Finish(d, v) ==
  /\ dict' = [d EXCEPT !.exc = "none"]
  /\ reply' = IF d.lost THEN reply
              ELSE IF d.exc # "none" THEN Reply(d.exc, NULL_REF) ELSE Reply("none", v)

Get(k) ==
  /\ ~dict.lost
  /\ \E differs \in BOOLEAN :
       LET d == dict_subscr_get(dict, k, differs)
           v == dict.values[Find(dict, k, TRUE, differs)]
       IN  IF d.exc = "none" /\ ~d.lost THEN Finish(decref(d, v), v) ELSE Finish(d, NULL_REF)

Set(k, v) ==
  /\ ~dict.lost
  /\ \E differs \in BOOLEAN, limit \in Capacities :
       LET d == dict_subscr_set(dict, k, v, limit, differs)
       IN  Finish(IF d.lost THEN [dict EXCEPT !.lost = TRUE] ELSE d, NULL_REF)

Del(k) ==
  /\ ~dict.lost
  /\ \E differs \in BOOLEAN : Finish(dict_subscr_del(dict, k, differs), NULL_REF)

Init == dict = make_reference_dict /\ reply = Reply("none", NULL_REF)

Next == \E k \in Keys : Get(k) \/ Del(k) \/ \E v \in Values : Set(k, v)

Spec == Init /\ [][Next]_vars

-----------------------------------------------------------------------------
(* Properties. *)

Entries(d) == {i \in DOMAIN d.keys : d.keys[i] \notin Marks}
Map(d) == {<<ValueOf[d.keys[i]], d.values[i]>> : i \in Entries(d)}

\* Types: two arrays of the same capacity, a doubling of the first one, that
\* hold references or marks.
TypeOK ==
  /\ DOMAIN dict.keys = DOMAIN dict.values
  /\ Capacity(dict) \in Capacities
  /\ \A i \in DOMAIN dict.keys : dict.keys[i] \in Keys \cup Marks
  /\ \A i \in DOMAIN dict.values : dict.values[i] \in Values \cup {NULL_REF}

\* size is the number of elements, and occupied the number of slots in use with
\* tombstones, through every mix of insertion into tombstones, deletion, doubling
\* and failed doubling.
SlotsCounted ==
  /\ TypeOK
  /\ dict.size = Cardinality(Entries(dict))
  /\ dict.occupied = Cardinality({i \in DOMAIN dict.keys : dict.keys[i] # NULL_REF})

\* The dictionary owns one count of a key or a value for each slot that holds it:
\* nothing is leaked or released twice, also when the arrays are replaced.
CountsExact ==
  \A r \in Keys \cup Values :
    dict.held[r] = Cardinality({i \in DOMAIN dict.keys : dict.keys[i] = r})
                   + Cardinality({i \in DOMAIN dict.values : dict.values[i] = r})

\* An insertion that reports no error leaves at least half of the slots empty,
\* so that the next search for a missing key ends at one.
RoomToProbe ==
  [][dict'.size > dict.size /\ reply'.error = "none" =>
       2 * dict'.occupied <= Capacity(dict')]_vars

\* dict_eq compares contents: it holds between the dictionary and one built
\* from the same entries in any order, and not if an entry is missing.
Rebuilt(order) ==
  FoldLeft(LAMBDA d, i : dict_subscr_set(d, dict.keys[i], dict.values[i], Max(Capacities), TRUE),
           make_reference_dict, order)
EqIsEquality ==
  ~dict.lost =>
    \A order \in SetToSeqs(Entries(dict)) :
      LET r == Rebuilt(order)
          s == Rebuilt(SubSeq(order, 2, Len(order)))
      IN  /\ dict_eq(dict, r) /\ dict_eq(r, dict)
          /\ order # <<>> => ~dict_eq(dict, s) /\ ~dict_eq(s, dict)

\* The hash table implements the map of DictSpec, and keeps room to probe.
Abstract == INSTANCE DictSpec WITH
  Vals <- {ValueOf[k] : k \in Keys}, map <- Map(dict), none <- NULL_REF, alive <- ~dict.lost
ImplementsMap == Abstract!Spec /\ RoomToProbe

\* capacity is "the number of references that can be stored in this array": no
\* search goes behind it.
ProbesInBounds == ~dict.lost
=============================================================================
