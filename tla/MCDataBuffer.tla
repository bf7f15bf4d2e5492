------------------------------ MODULE MCDataBuffer -----------------------------
(***************************************************************************)
(* DataBuffer with its threads and handles interchangeable: the            *)
(* specification only compares them, and only invariants are checked.      *)
(***************************************************************************)
EXTENDS DataBuffer, TLC

Interchangeable == Permutations(Thread) \cup Permutations(Handle)
================================================================================
