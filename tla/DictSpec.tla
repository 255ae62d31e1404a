------------------------------ MODULE DictSpec ------------------------------
(***************************************************************************)
(* What a Subpython dictionary promises: a finite map that looks up,       *)
(* assigns and deletes by the value of a key.  An operation that reports a *)
(* memory error has either done its work or left the map alone.            *)
(***************************************************************************)
CONSTANTS Vals,         \* values a key can have
          Unhashable,   \* those that cannot be a key
          Values,       \* what is stored
          none          \* no value

VARIABLES map,          \* set of <<key value, stored value>>
          reply,        \* what the last operation reported
          alive         \* false once the interpreter is gone

vars == <<map, reply, alive>>

Ok(v)  == [error |-> "none", value |-> v]
Err(e) == [error |-> e, value |-> none]

Bound(k) == {p \in map : p[1] = k}

Get(k) ==
  /\ alive /\ UNCHANGED <<map, alive>>
  /\ \/ k \in Unhashable /\ reply' = Err("TypeError")
     \/ k \notin Unhashable /\ Bound(k) = {} /\ reply' = Err("KeyError")
     \/ \E p \in Bound(k) : reply' = Ok(p[2])

Set(k, v) ==
  /\ alive /\ UNCHANGED alive
  /\ \/ k \in Unhashable /\ reply' = Err("TypeError") /\ UNCHANGED map
     \/ /\ k \notin Unhashable
        /\ reply' \in {Ok(none), Err("MemoryError")}
        /\ map' = (map \ Bound(k)) \cup {<<k, v>>}
     \/ /\ k \notin Unhashable /\ Bound(k) = {}
        /\ reply' = Err("MemoryError") /\ UNCHANGED map

Del(k) ==
  /\ alive /\ UNCHANGED alive
  /\ \/ k \in Unhashable /\ reply' = Err("TypeError") /\ UNCHANGED map
     \/ k \notin Unhashable /\ Bound(k) = {} /\ reply' = Err("KeyError") /\ UNCHANGED map
     \/ Bound(k) # {} /\ reply' = Ok(none) /\ map' = map \ Bound(k)

Crash == alive /\ alive' = FALSE /\ UNCHANGED <<map, reply>>

Init == map = {} /\ reply = Ok(none) /\ alive = TRUE

Next == Crash \/ \E k \in Vals : Get(k) \/ Del(k) \/ \E v \in Values : Set(k, v)

Spec == Init /\ [][Next]_vars
=============================================================================
