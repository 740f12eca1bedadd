------------------------------ MODULE MCPoints -------------------------------
(* Small instances of Points for TLC. *)
EXTENDS Points, TLC

\* A success, a failure that costs points.
MCDelta == {2, -1}

Ids == Permutations(Request) \cup Permutations(Worker)
=============================================================================
