------------------------------ MODULE MCProxy -------------------------------
(* Proxy with one or two connections.                                       *)
EXTENDS Proxy

CONSTANTS c1, c2

\* The first response fills its cache, the second is too long to be cached.
MCMaxChunks == [c \in Conns |-> IF c = c1 THEN 4 ELSE 1]
MCChunkLens == [c \in Conns |-> IF c = c1 THEN {1} ELSE {5}]
=============================================================================
