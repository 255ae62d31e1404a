------------------------------ MODULE MCMalloc ------------------------------
(* Malloc on a heap of fourteen words with two or three block indices.      *)
EXTENDS Malloc
=============================================================================
