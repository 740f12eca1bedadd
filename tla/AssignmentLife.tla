--------------------------- MODULE AssignmentLife ---------------------------
(***************************************************************************)
(* What an assignment that asks for no proof promises its parties            *)
(* (docs/08-punishments-and-rewards.md; Assignments implements it): it is     *)
(* settled at most once, in the same instant its points are booked and the    *)
(* row that follows from it is created, and it never changes again.  What is  *)
(* revoked has no consequence.  Rows that ask for a proof only come into      *)
(* being here, as the consequence of others; they make no such promise.       *)
(***************************************************************************)
EXTENDS Naturals

CONSTANT Assignment

VARIABLES
    stage,      \* per assignment, where it stands
    points,     \* how many entries of the points ledger it has caused
    followUps   \* the assignments that were created as its consequence

life == <<stage, points, followUps>>

Beginnings == {"open", "applied", "proof"}
Outcomes == {"completed", "failed"}

Init ==
    /\ stage = [a \in Assignment |-> "none"]
    /\ points = [a \in Assignment |-> 0]
    /\ followUps = [a \in Assignment |-> {}]

\* Made by the keyholder, by a reward, a rule, or as the consequence of a proof.
Begin(a, kind) ==
    /\ stage[a] = "none"
    /\ stage' = [stage EXCEPT ![a] = kind]
    /\ UNCHANGED <<points, followUps>>

Revoke(a) ==
    /\ stage[a] = "open"
    /\ stage' = [stage EXCEPT ![a] = "revoked"]
    /\ UNCHANGED <<points, followUps>>

Booked(a) == points' = points \/ points' = [points EXCEPT ![a] = 1]

Settle(a, outcome) ==
    /\ stage[a] = "open"
    /\ stage' = [stage EXCEPT ![a] = outcome]
    /\ Booked(a)
    /\ UNCHANGED followUps

\* The follow-up c begins with the settlement.
SettleAndFollow(a, outcome, c, kind) ==
    /\ stage[a] = "open"
    /\ stage[c] = "none"
    /\ stage' = [stage EXCEPT ![a] = outcome, ![c] = kind]
    /\ Booked(a)
    /\ followUps' = [followUps EXCEPT ![a] = {c}]

Next ==
    \/ \E a \in Assignment, kind \in Beginnings : Begin(a, kind)
    \/ \E a \in Assignment : Revoke(a)
    \/ \E a \in Assignment, outcome \in Outcomes : Settle(a, outcome)
    \/ \E a, c \in Assignment, outcome \in Outcomes, kind \in Beginnings :
          SettleAndFollow(a, outcome, c, kind)

Spec == Init /\ [][Next]_life
=============================================================================
