------------------------------- MODULE MCDict -------------------------------
(* References 1 and 2 refer to equal values; 1, 2 and 3 fall into the last of    *)
(* four slots, 4 into the one before and 5 into the first, so that four entries  *)
(* can fill them all; 6 refers to a list.                                        *)
EXTENDS Dict

MCValueOf == <<"a", "a", "b", "c", "d", "list">>
MCHash == [v \in {"a", "b", "c", "d"} |-> CASE v = "a" -> 3 [] v = "b" -> 7 [] v = "c" -> 2 [] v = "d" -> 8]
=============================================================================
