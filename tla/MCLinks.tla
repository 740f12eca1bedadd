------------------------------ MODULE MCLinks ------------------------------
(* Small instances of Links for TLC. *)
EXTENDS Links, TLC

Workers == Permutations(Worker)
=============================================================================
