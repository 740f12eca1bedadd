---------------------------- MODULE PointsAccount ----------------------------
(***************************************************************************)
(* What the points of a link promise (docs/01-data-model.md; Points           *)
(* implements it): every entry moves the account at once and by the whole of  *)
(* it, a request keeps the price it was made at, and it is decided once, in   *)
(* the instant the price is paid and the reward granted.                      *)
(***************************************************************************)
EXTENDS Integers

CONSTANTS
    Request,
    Cost,       \* what rewards may be asked for
    Delta       \* what tasks and the keyholder may give or take

VARIABLES
    points,     \* may be overdrawn
    claim,      \* per request, where it stands
    price,      \* per request, what it was made at
    grants      \* per request, how many times the reward was given

account == <<points, claim, price, grants>>

Init ==
    /\ points = 0
    /\ claim = [r \in Request |-> "absent"]
    /\ price = [r \in Request |-> 0]
    /\ grants = [r \in Request |-> 0]

Enter(delta) ==
    /\ points' = points + delta
    /\ UNCHANGED <<claim, price, grants>>

Ask(r, cost) ==
    /\ claim[r] = "absent"
    /\ claim' = [claim EXCEPT ![r] = "pending"]
    /\ price' = [price EXCEPT ![r] = cost]
    /\ UNCHANGED <<points, grants>>

Approve(r) ==
    /\ claim[r] = "pending"
    /\ claim' = [claim EXCEPT ![r] = "approved"]
    /\ points' = points - price[r]
    /\ grants' = [grants EXCEPT ![r] = 1]
    /\ UNCHANGED price

Deny(r) ==
    /\ claim[r] = "pending"
    /\ claim' = [claim EXCEPT ![r] = "denied"]
    /\ UNCHANGED <<points, price, grants>>

Next ==
    \/ \E delta \in Delta : Enter(delta)
    \/ \E r \in Request, cost \in Cost : Ask(r, cost)
    \/ \E r \in Request : Approve(r) \/ Deny(r)

Spec == Init /\ [][Next]_account
=============================================================================
