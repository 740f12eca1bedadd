--------------------------- MODULE MCPlaySessions ---------------------------
(* Small instances of PlaySessions for TLC. *)
EXTENDS PlaySessions, TLC

Ids == Permutations(Session) \cup Permutations(Checkin) \cup Permutations(Viewer)
       \cup Permutations(Worker) \cup Permutations(Channel)
=============================================================================
