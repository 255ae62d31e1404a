------------------------------ MODULE MCDriver ------------------------------
(* Traces in which blocks of different sizes are allocated, moved, shrunk,     *)
(* freed and reallocated from and to nothing, and files that cannot be read.   *)
EXTENDS Driver

a(index, size) == [type |-> "a", index |-> index, size |-> size]
r(index, size) == [type |-> "r", index |-> index, size |-> size]
f(index)       == [type |-> "f", index |-> index]

File(weight, ids, ops, ignore, lines) ==
  [weight |-> weight, num_ids |-> ids, num_ops |-> ops, ignore_ranges |-> ignore, lines |-> lines]

Moves   == File(1, 2, 5, 0, <<a(0, 1), a(1, 4), r(0, 3), f(1), f(-1)>>)
Nothing == File(0, 2, 5, 0, <<r(1, 2), a(0, 1), r(1, 0), f(1), f(0)>>)
Ignored == File(1, 2, 4, 1, <<a(0, 2), r(1, 3), f(0), f(1)>>)
Heavy   == File(2, 1, 1, 0, <<a(0, 1)>>)
Long    == File(1, 1, 1, 0, <<a(0, 1), f(0)>>)
Short   == File(1, 1, 3, 0, <<a(0, 1), f(0)>>)
Bogus   == File(1, 1, 2, 0, <<a(0, 1), [type |-> "x"]>>)

MCTraceLists == {<<Moves, Ignored>>, <<Nothing>>, <<Ignored, Long>>, <<Heavy>>, <<Long, Short>>, <<Bogus>>}

Options == {"f", "c", "t", "l", "d0", "D", "h", "?"}
MCCommandLines == {<<>>} \cup {<<x>> : x \in Options} \cup {<<"D", "c">>, <<"t", "f">>, <<"c", "t">>, <<"l", "D">>}
MCCycles == {1, 2, 5}
MCStarts == {3, 15}
=============================================================================
