---------------------------- MODULE MCConfinement ----------------------------
(* Small instances of Confinement for TLC. *)
EXTENDS Confinement, TLC

\* One extension and one reduction.
MCEffect == {1, -1}

MCRelease == {Null, 1}

Ids == Permutations(Session) \cup Permutations(Assignment) \cup Permutations(Worker)
=============================================================================
