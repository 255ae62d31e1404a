------------------------------- MODULE MCRefs -------------------------------
(* Model checking of Refs with one identifier and a pool of forty words or   *)
(* so: a list with its array and a few more values next to the singletons.   *)
EXTENDS Refs
=============================================================================
