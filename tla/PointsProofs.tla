----------------------------- MODULE PointsProofs -----------------------------
(***************************************************************************)
(* Proofs about Points, for every set of requests, rewards and workers and  *)
(* every cost and delta.                                                    *)
(***************************************************************************)
EXTENDS Points, FiniteSetTheorems, NaturalsInduction, WellFoundedInduction, TLAPS

-----------------------------------------------------------------------------
(* The ledger only grows, by one row at its end.                            *)

\* What one INSERT does to the table: the new row comes last, no other changes.
LEMMA InsertedAtEnd ==
    ASSUME ledger \in Seq(Rows), NEW d \in Int, NEW why \in Reasons,
           NEW r \in Request \cup {NoRequest}, Inserted(d, why, r)
    PROVE  /\ ledger' \in Seq(Rows)
           /\ DOMAIN ledger' = DOMAIN ledger \cup {Len(ledger) + 1}
           /\ Len(ledger) + 1 \notin DOMAIN ledger
           /\ \A i \in DOMAIN ledger : ledger'[i] = ledger[i]
           /\ ledger'[Len(ledger) + 1] = [delta |-> d, reason |-> why, request |-> r]
<1> DEFINE new == [delta |-> d, reason |-> why, request |-> r]
<1>1. new \in Rows
  BY DEF Rows
<1>2. ledger' = Append(ledger, new)
  BY DEF Inserted
<1> HIDE DEF new
<1>3. /\ Append(ledger, new) \in Seq(Rows)
      /\ Len(Append(ledger, new)) = Len(ledger) + 1
      /\ \A i \in 1..Len(ledger) : Append(ledger, new)[i] = ledger[i]
      /\ Append(ledger, new)[Len(ledger) + 1] = new
  BY <1>1
<1>4. DOMAIN ledger = 1..Len(ledger) /\ Len(ledger) \in Nat
  OBVIOUS
<1>5. DOMAIN ledger' = 1..(Len(ledger) + 1)
  BY <1>2, <1>3
<1>6. 1..(Len(ledger) + 1) = 1..Len(ledger) \cup {Len(ledger) + 1}
  BY <1>4
<1>7. QED
  BY <1>2, <1>3, <1>4, <1>5, <1>6 DEF new

-----------------------------------------------------------------------------
(* Types.  A request in flight follows the reward it read and charges the   *)
(* cost it read, so the invariant says what those are.                      *)

JobsArePriced ==
    \A w \in Worker :
        /\ job[w].step \in {"price", "funds", "insert"} => job[w].reward \in Reward
        /\ job[w].step \in {"funds", "insert"} => job[w].delta \in Nat

TInv == TypeOK /\ JobsArePriced

LEMMA TInvInit == Init => TInv
<1> SUFFICES ASSUME Init PROVE TInv
  OBVIOUS
<1>1. ledger \in Seq(Rows)
  BY DEF Init
<1>2. reward \in [Reward -> Rewards]
  <2>1. {[cost |-> c, active |-> TRUE] : c \in Cost \cup {Null}} \subseteq Rewards
    <3> SUFFICES ASSUME NEW c \in Cost \cup {Null}
                 PROVE  [cost |-> c, active |-> TRUE] \in Rewards
      OBVIOUS
    <3>1. c \in Nat \cup {Null}
      BY PointsAssumption
    <3>2. QED
      BY <3>1 DEF Rewards
  <2>2. reward \in [Reward -> {[cost |-> c, active |-> TRUE] : c \in Cost \cup {Null}}]
    BY DEF Init
  <2>3. QED
    BY <2>1, <2>2
<1>3. request \in [Request -> Requests] /\ granted \in [Request -> Nat]
  BY DEF Init, Requests
<1>4. job \in [Worker -> Jobs] /\ JobsArePriced
  BY DEF Init, Jobs, Idle, JobsArePriced
<1>5. enabled \in BOOLEAN
  BY DEF Init
<1>6. balance \in Int /\ cut \in Int
  BY DEF Init
<1>7. TypeOK
  BY <1>1, <1>2, <1>3, <1>4, <1>5, <1>6 DEF TypeOK
<1>8. QED
  BY <1>4, <1>7 DEF TInv

\* A write of the ledger and the balance that leaves the jobs alone.
LEMMA AwardTInv ==
    ASSUME TInv, NEW d \in Int, NEW why \in Reasons, NEW r \in Request \cup {NoRequest},
           Award(d, why, r), UNCHANGED <<enabled, reward, job, cut>>,
           request' \in [Request -> Requests], granted' \in [Request -> Nat]
    PROVE  TInv'
<1>1. ledger' \in Seq(Rows)
  BY InsertedAtEnd DEF Award, TInv, TypeOK
<1>2. balance' \in Int
  BY DEF Award, TInv, TypeOK
<1>3. QED
  BY <1>1, <1>2 DEF TInv, TypeOK, JobsArePriced

LEMMA TInvNext == TInv /\ [Next]_vars => TInv'
<1> SUFFICES ASSUME TInv, [Next]_vars PROVE TInv'
  OBVIOUS
<1> USE PointsAssumption
<1>1. CASE PatchLinkSettings
  BY <1>1 DEF PatchLinkSettings, SetSettings, TInv, TypeOK, JobsArePriced
<1>2. ASSUME NEW t \in Reward, NEW c \in Cost \cup {Null}, NEW b \in BOOLEAN, EditReward(t, c, b)
      PROVE  TInv'
  BY <1>2 DEF EditReward, TInv, TypeOK, JobsArePriced, Rewards
<1>3. ASSUME NEW d \in Delta, AwardIfEnabled(d) PROVE TInv'
  BY <1>3, AwardTInv DEF AwardIfEnabled, TInv, TypeOK, Reasons
<1>4. ASSUME NEW r \in Request, Approve(r) PROVE TInv'
  <2>1. request[r] \in Requests /\ granted[r] \in Nat
    BY DEF TInv, TypeOK
  <2>2. -request[r].cost \in Int
    BY <2>1 DEF Requests
  <2>3. request' \in [Request -> Requests]
    BY <1>4, <2>1 DEF Approve, TInv, TypeOK, Requests
  <2>4. granted' \in [Request -> Nat]
    BY <1>4, <2>1 DEF Approve, TInv, TypeOK
  <2>5. QED
    BY <1>4, <2>2, <2>3, <2>4, AwardTInv DEF Approve, Reasons
<1>5. ASSUME NEW r \in Request, Deny(r) PROVE TInv'
  BY <1>5 DEF Deny, TInv, TypeOK, JobsArePriced, Requests
<1>6. ASSUME NEW w \in Worker, NEW d \in Delta, AdjustCheck(w, d) PROVE TInv'
  BY <1>6 DEF AdjustCheck, TInv, TypeOK, JobsArePriced, Jobs, Idle
<1>7. ASSUME NEW w \in Worker, AdjustInsert(w) PROVE TInv'
  <2>1. job[w].delta \in Int
    BY DEF TInv, TypeOK, Jobs
  <2>2. ledger' \in Seq(Rows)
    BY <1>7, <2>1, InsertedAtEnd DEF AdjustInsert, TInv, TypeOK, Reasons
  <2>3. job' \in [Worker -> Jobs]
    BY <1>7 DEF AdjustInsert, TInv, TypeOK, Jobs
  <2>4. JobsArePriced'
    BY <1>7 DEF AdjustInsert, TInv, TypeOK, Jobs, JobsArePriced
  <2>5. QED
    BY <1>7, <2>2, <2>3, <2>4 DEF AdjustInsert, TInv, TypeOK
<1>8. ASSUME NEW w \in Worker, AdjustBalance(w) PROVE TInv'
  <2>1. balance' \in Int
    BY <1>8 DEF AdjustBalance, TInv, TypeOK, Jobs
  <2>2. job' \in [Worker -> Jobs] /\ JobsArePriced'
    BY <1>8 DEF AdjustBalance, TInv, TypeOK, Jobs, Idle, JobsArePriced
  <2>3. QED
    BY <1>8, <2>1, <2>2 DEF AdjustBalance, TInv, TypeOK
<1>9. ASSUME NEW w \in Worker, NEW t \in Reward, RedeemCheck(w, t) PROVE TInv'
  BY <1>9 DEF RedeemCheck, TInv, TypeOK, JobsArePriced, Jobs, Idle
<1>10. ASSUME NEW w \in Worker, RedeemPrice(w) PROVE TInv'
  <2> DEFINE t == reward[job[w].reward]
  <2>1. job[w].reward \in Reward
    BY <1>10 DEF RedeemPrice, TInv, JobsArePriced
  <2>2. t \in Rewards
    BY <2>1 DEF TInv, TypeOK
  <2>3. CASE t.active /\ t.cost # Null
    <3>1. t.cost \in Nat
      BY <2>2, <2>3 DEF Rewards
    <3> DEFINE j == [step |-> "funds", delta |-> t.cost, reward |-> job[w].reward]
    <3>2. job' = [job EXCEPT ![w] = j]
      BY <1>10, <2>3 DEF RedeemPrice, TInv, TypeOK, Jobs
    <3>3. job' \in [Worker -> Jobs] /\ JobsArePriced'
      <4>1. j \in Jobs /\ j.step = "funds" /\ j.reward \in Reward /\ j.delta \in Nat
        BY <2>1, <3>1 DEF Jobs
      <4> HIDE DEF j
      <4>2. QED
        BY <3>2, <4>1 DEF TInv, TypeOK, JobsArePriced
    <3>4. QED
      BY <1>10, <3>3 DEF RedeemPrice, TInv, TypeOK
  <2>4. CASE ~(t.active /\ t.cost # Null)
    <3>1. job' = [job EXCEPT ![w] = Idle]
      BY <1>10, <2>4 DEF RedeemPrice
    <3>2. job' \in [Worker -> Jobs] /\ JobsArePriced'
      BY <3>1 DEF TInv, TypeOK, Jobs, Idle, JobsArePriced
    <3>3. QED
      BY <1>10, <3>2 DEF RedeemPrice, TInv, TypeOK
  <2>5. QED
    BY <2>3, <2>4
<1>11. ASSUME NEW w \in Worker, RedeemFunds(w) PROVE TInv'
  <2>1. CASE balance < job[w].delta
    <3>1. job' = [job EXCEPT ![w] = Idle]
      BY <1>11, <2>1 DEF RedeemFunds
    <3>2. job' \in [Worker -> Jobs] /\ JobsArePriced'
      BY <3>1 DEF TInv, TypeOK, Jobs, Idle, JobsArePriced
    <3>3. QED
      BY <1>11, <3>2 DEF RedeemFunds, TInv, TypeOK
  <2>2. CASE ~(balance < job[w].delta)
    <3>1. job[w].reward \in Reward /\ job[w].delta \in Nat
      BY <1>11 DEF RedeemFunds, TInv, JobsArePriced
    <3>2. job' = [job EXCEPT ![w].step = "insert"]
      BY <1>11, <2>2 DEF RedeemFunds
    <3>3. job' \in [Worker -> Jobs] /\ JobsArePriced'
      BY <3>1, <3>2 DEF TInv, TypeOK, Jobs, JobsArePriced
    <3>4. QED
      BY <1>11, <3>3 DEF RedeemFunds, TInv, TypeOK
  <2>3. QED
    BY <2>1, <2>2
<1>12. ASSUME NEW w \in Worker, NEW r \in Request, RedeemInsert(w, r) PROVE TInv'
  <2>1. job[w].reward \in Reward /\ job[w].delta \in Nat
    BY <1>12 DEF RedeemInsert, TInv, JobsArePriced
  <2>2. request' \in [Request -> Requests]
    BY <1>12, <2>1 DEF RedeemInsert, TInv, TypeOK, Requests
  <2>3. job' \in [Worker -> Jobs] /\ JobsArePriced'
    BY <1>12 DEF RedeemInsert, TInv, TypeOK, Jobs, Idle, JobsArePriced
  <2>4. QED
    BY <1>12, <2>2, <2>3 DEF RedeemInsert, TInv, TypeOK
<1>13. ASSUME NEW w \in Worker, Abort(w) PROVE TInv'
  <2>1. cut' \in Int
    BY <1>13 DEF Abort, TInv, TypeOK, Jobs
  <2>2. job' \in [Worker -> Jobs] /\ JobsArePriced'
    BY <1>13 DEF Abort, TInv, TypeOK, Jobs, Idle, JobsArePriced
  <2>3. QED
    BY <1>13, <2>1, <2>2 DEF Abort, TInv, TypeOK
<1>14. CASE UNCHANGED vars
  BY <1>14 DEF vars, TInv, TypeOK, JobsArePriced
<1>15. QED
  BY <1>1, <1>2, <1>3, <1>4, <1>5, <1>6, <1>7, <1>8, <1>9, <1>10, <1>11, <1>12, <1>13, <1>14
     DEF Next, Route, AdjustPoints, Redeem, DecideRedemptionRequest

\* Every reachable state is well typed; in particular no request in flight charges
\* a cost that is NULL, whenever the reward is edited.
THEOREM TypeCorrect == Spec => []TypeOK
<1>1. Spec => []TInv
  BY TInvInit, TInvNext, PTL DEF Spec
<1>2. TInv => TypeOK
  BY DEF TInv
<1>3. QED
  BY <1>1, <1>2, PTL

-----------------------------------------------------------------------------
(* A redemption is settled once.                                            *)

RowsOf(r) == {i \in DOMAIN ledger : ledger[i].request = r}

Settled(r) ==
    /\ \A i \in RowsOf(r) : ledger[i].delta = -request[r].cost
    /\ \A i, j \in RowsOf(r) : i = j
    /\ RowsOf(r) # {} <=> request[r].status = "approved"
    /\ granted[r] = IF request[r].status = "approved" THEN 1 ELSE 0

LEMMA RedeemedIsSettled == RedeemedOnce <=> \A r \in Request : Settled(r)
BY DEF RedeemedOnce, Settled, RowsOf

\* An INSERT for one request leaves the rows of every other as they were.
LEMMA RowsAfterInsert ==
    ASSUME ledger \in Seq(Rows), NEW d \in Int, NEW why \in Reasons,
           NEW q \in Request \cup {NoRequest}, Inserted(d, why, q), NEW r \in Request
    PROVE  /\ r # q => RowsOf(r)' = RowsOf(r)
           /\ r = q => RowsOf(r)' = RowsOf(r) \cup {Len(ledger) + 1}
           /\ \A i \in RowsOf(r) : ledger'[i] = ledger[i]
<1>1. /\ DOMAIN ledger' = DOMAIN ledger \cup {Len(ledger) + 1}
      /\ Len(ledger) + 1 \notin DOMAIN ledger
      /\ \A i \in DOMAIN ledger : ledger'[i] = ledger[i]
      /\ ledger'[Len(ledger) + 1] = [delta |-> d, reason |-> why, request |-> q]
  BY InsertedAtEnd
<1>2. ledger'[Len(ledger) + 1].request = q
  BY <1>1
<1>3. QED
  BY <1>1, <1>2 DEF RowsOf

\* What leaves the request, its assignments and its rows alone leaves it settled.
LEMMA StillSettled ==
    ASSUME NEW r \in Request, Settled(r), request'[r] = request[r],
           granted'[r] = granted[r], RowsOf(r)' = RowsOf(r),
           \A i \in RowsOf(r) : ledger'[i] = ledger[i]
    PROVE  Settled(r)'
BY DEF Settled

RInv == TInv /\ \A r \in Request : Settled(r)

LEMMA RInvInit == Init => RInv
<1> SUFFICES ASSUME Init, NEW r \in Request PROVE Settled(r)
  BY TInvInit DEF RInv
<1>1. RowsOf(r) = {}
  BY DEF Init, RowsOf
<1>2. request[r].status = "absent" /\ granted[r] = 0
  BY DEF Init
<1>3. QED
  BY <1>1, <1>2 DEF Settled

\* A row of no request: every request keeps what it had.
LEMMA OtherRowSettles ==
    ASSUME RInv, NEW d \in Int, NEW why \in Reasons, Inserted(d, why, NoRequest),
           UNCHANGED <<request, granted>>
    PROVE  \A r \in Request : Settled(r)'
<1> SUFFICES ASSUME NEW r \in Request PROVE Settled(r)'
  OBVIOUS
<1>1. r # NoRequest
  BY PointsAssumption
<1>2. /\ RowsOf(r)' = RowsOf(r)
      /\ \A i \in RowsOf(r) : ledger'[i] = ledger[i]
  BY <1>1, RowsAfterInsert DEF RInv, TInv, TypeOK
<1>3. QED
  BY <1>2, StillSettled DEF RInv

LEMMA RInvNext == RInv /\ [Next]_vars => RInv'
<1> SUFFICES ASSUME RInv, [Next]_vars PROVE \A r \in Request : Settled(r)'
  BY TInvNext DEF RInv
<1> USE DEF RInv
<1>0. TypeOK
  BY DEF TInv
<1>1. ASSUME NEW d \in Delta, AwardIfEnabled(d) PROVE \A r \in Request : Settled(r)'
  <2>1. d \in Int
    BY PointsAssumption
  <2>2. QED
    BY <1>1, <2>1, OtherRowSettles DEF AwardIfEnabled, Award, Reasons
<1>2. ASSUME NEW w \in Worker, AdjustInsert(w) PROVE \A r \in Request : Settled(r)'
  <2>1. job[w].delta \in Int
    BY <1>0 DEF TypeOK, Jobs
  <2>2. QED
    BY <1>2, <2>1, OtherRowSettles DEF AdjustInsert, Reasons
<1>3. ASSUME NEW q \in Request, Approve(q), NEW r \in Request PROVE Settled(r)'
  <2> DEFINE new == Len(ledger) + 1
             cost == request[q].cost
  <2>1. cost \in Nat /\ -cost \in Int
    BY <1>0 DEF TypeOK, Requests
  <2>2. Inserted(-cost, "redemption", q)
    BY <1>3 DEF Approve, Award
  <2>3. CASE r # q
    <3>1. request'[r] = request[r] /\ granted'[r] = granted[r]
      BY <1>0, <1>3, <2>3 DEF Approve, TypeOK
    <3>2. /\ RowsOf(r)' = RowsOf(r)
          /\ \A i \in RowsOf(r) : ledger'[i] = ledger[i]
      BY <1>0, <2>1, <2>2, <2>3, RowsAfterInsert DEF TypeOK, Reasons
    <3>3. QED
      BY <3>1, <3>2, StillSettled
  <2>4. CASE r = q
    <3>1. RowsOf(q) = {} /\ granted[q] = 0
      BY <1>3 DEF Approve, Settled
    <3>2. RowsOf(q)' = {new}
      BY <1>0, <2>1, <2>2, <3>1, RowsAfterInsert DEF TypeOK, Reasons
    <3>3. ledger'[new].delta = -cost
      <4>1. ledger'[new] = [delta |-> -cost, reason |-> "redemption", request |-> q]
        BY <1>0, <2>1, <2>2, InsertedAtEnd DEF TypeOK, Reasons
      <4>2. QED
        BY <4>1
    <3>4. request'[q].status = "approved" /\ request'[q].cost = cost
      BY <1>0, <1>3 DEF Approve, TypeOK, Requests
    <3>5. granted'[q] = 1
      BY <1>0, <1>3, <3>1 DEF Approve, TypeOK
    <3>6. QED
      BY <2>4, <3>2, <3>3, <3>4, <3>5 DEF Settled
  <2>5. QED
    BY <2>3, <2>4
<1>4. ASSUME NEW q \in Request, Deny(q), NEW r \in Request PROVE Settled(r)'
  <2>1. request'[r].cost = request[r].cost
    BY <1>0, <1>4 DEF Deny, TypeOK, Requests
  <2>2. request'[r].status = "approved" <=> request[r].status = "approved"
    BY <1>0, <1>4 DEF Deny, TypeOK, Requests
  <2>3. RowsOf(r)' = RowsOf(r) /\ ledger' = ledger /\ granted' = granted
    BY <1>4 DEF Deny, RowsOf
  <2>4. QED
    BY <2>1, <2>2, <2>3 DEF Settled
<1>5. ASSUME NEW w \in Worker, NEW q \in Request, RedeemInsert(w, q), NEW r \in Request
      PROVE  Settled(r)'
  <2>1. RowsOf(r)' = RowsOf(r) /\ ledger' = ledger /\ granted' = granted
    BY <1>5 DEF RedeemInsert, RowsOf
  <2>2. CASE r # q
    <3>1. request'[r] = request[r]
      BY <1>0, <1>5, <2>2 DEF RedeemInsert, TypeOK
    <3>2. QED
      BY <2>1, <3>1, StillSettled
  <2>3. CASE r = q
    <3>1. RowsOf(r) = {} /\ granted[r] = 0
      BY <1>5, <2>3 DEF RedeemInsert, Settled
    <3>2. request'[r].status = "pending"
      BY <1>0, <1>5, <2>3 DEF RedeemInsert, TypeOK
    <3>3. QED
      BY <2>1, <3>1, <3>2 DEF Settled
  <2>4. QED
    BY <2>2, <2>3
<1>6. ASSUME UNCHANGED <<ledger, request, granted>> PROVE \A r \in Request : Settled(r)'
  BY <1>6 DEF Settled, RowsOf
<1>7. CASE PatchLinkSettings
  BY <1>6, <1>7 DEF PatchLinkSettings, SetSettings
<1>8. ASSUME NEW t \in Reward, NEW c \in Cost \cup {Null}, NEW b \in BOOLEAN, EditReward(t, c, b)
      PROVE  \A r \in Request : Settled(r)'
  BY <1>6, <1>8 DEF EditReward
<1>9. ASSUME NEW w \in Worker, \/ \E d \in Delta : AdjustCheck(w, d)
                               \/ AdjustBalance(w)
                               \/ \E t \in Reward : RedeemCheck(w, t)
                               \/ RedeemPrice(w)
                               \/ RedeemFunds(w)
                               \/ Abort(w)
      PROVE  \A r \in Request : Settled(r)'
  <2>1. UNCHANGED <<ledger, request, granted>>
    BY <1>9 DEF AdjustCheck, AdjustBalance, RedeemCheck, RedeemPrice, RedeemFunds, Abort
  <2>2. QED
    BY <1>6, <2>1
<1>10. CASE UNCHANGED vars
  BY <1>6, <1>10 DEF vars
<1>11. QED
  BY <1>1, <1>2, <1>3, <1>4, <1>5, <1>7, <1>8, <1>9, <1>10 DEF Next, Route, AdjustPoints, Redeem, DecideRedemptionRequest

\* However many requests are made, decided again and decided at once, an approved
\* one has exactly one ledger row and one assignment, and no other has any.
THEOREM RedeemedExactlyOnce == Spec => []RedeemedOnce
<1>1. Spec => []RInv
  BY RInvInit, RInvNext, PTL DEF Spec
<1>2. RInv => RedeemedOnce
  BY RedeemedIsSettled DEF RInv
<1>3. QED
  BY <1>1, <1>2, PTL

-----------------------------------------------------------------------------
(* Points switched off.                                                     *)

EarnsNothing ==
    ~enabled /\ ledger' # ledger =>
        \/ \E r \in Request : request[r].status = "pending" /\ request'[r].status = "approved"
        \/ \E w \in Worker : job[w].step = "adjust" /\ job'[w].step = "balance"

LEMMA DisabledStep == TInv /\ [Next]_vars => EarnsNothing
<1> SUFFICES ASSUME TInv, [Next]_vars, ~enabled, ledger' # ledger
             PROVE  \/ \E r \in Request : /\ request[r].status = "pending"
                                          /\ request'[r].status = "approved"
                    \/ \E w \in Worker : job[w].step = "adjust" /\ job'[w].step = "balance"
  BY DEF EarnsNothing
<1>1. \/ \E r \in Request : Approve(r)
      \/ \E w \in Worker : AdjustInsert(w)
  BY DEF Next, Route, AdjustPoints, Redeem, DecideRedemptionRequest, vars, PatchLinkSettings, SetSettings, EditReward, AwardIfEnabled, Deny, AdjustCheck,
         AdjustBalance, RedeemCheck, RedeemPrice, RedeemFunds, RedeemInsert, Abort
<1>2. ASSUME NEW r \in Request, Approve(r)
      PROVE  request[r].status = "pending" /\ request'[r].status = "approved"
  BY <1>2 DEF Approve, TInv, TypeOK, Requests
<1>3. ASSUME NEW w \in Worker, AdjustInsert(w)
      PROVE  job[w].step = "adjust" /\ job'[w].step = "balance"
  BY <1>3 DEF AdjustInsert, TInv, TypeOK, Jobs
<1>4. QED
  BY <1>1, <1>2, <1>3

\* No step of a task writes points while they are switched off.
THEOREM DisabledWritesNothing == Spec => DisabledEarnsNothing
<1>1. Spec => []TInv
  BY TInvInit, TInvNext, PTL DEF Spec
<1>2. TInv /\ [Next]_vars => [EarnsNothing]_vars
  BY DisabledStep
<1>3. Spec => [][EarnsNothing]_vars
  BY <1>1, <1>2, PTL DEF Spec
<1>4. QED
  BY <1>3 DEF DisabledEarnsNothing, EarnsNothing
-----------------------------------------------------------------------------
(* Sums over finite sets, for the balance.                                   *)

LEMMA LeastExists ==
    ASSUME NEW S \in SUBSET Nat, S # {}
    PROVE  \E m \in S : \A n \in S : m <= n
<1> DEFINE R == {p \in Nat \X Nat : p[1] < p[2]}
<1>1. IsWellFoundedOn(R, Nat)
  BY NatLessThanWellFounded DEF OpToRel
<1>2. PICK m \in S : \A n \in S : ~(<<n, m>> \in R)
  BY <1>1, WFMin
<1>3. \A n \in S : ~(n < m)
  BY <1>2
<1>4. QED
  BY <1>3

\* A set of numbers with the successor of each of its members, and zero, is Nat.
LEMMA Induction ==
    ASSUME NEW P, 0 \in P, \A n \in Nat : n \in P => n + 1 \in P
    PROVE  \A n \in Nat : n \in P
<1> DEFINE N == Nat \ P
<1> SUFFICES ASSUME N # {} PROVE FALSE
  OBVIOUS
<1>1. PICK m \in N : \A n \in N : m <= n
  BY LeastExists
<1>2. m # 0 /\ m - 1 \in Nat /\ m - 1 \notin N
  BY <1>1
<1>3. QED
  BY <1>1, <1>2

(* What SumFunctionOnSet adds up.  Its definition picks an order; these      *)
(* lemmas show that no order matters.                                        *)

Any(s) == CHOOSE x \in s : TRUE
Adds(f, S, g) == g = [s \in SUBSET S |-> IF s = {} THEN 0 ELSE f[Any(s)] + g[s \ {Any(s)}]]

LEMMA SumUnfolds ==
    ASSUME NEW f, NEW S
    PROVE  SumFunctionOnSet(f, S) = (CHOOSE g : Adds(f, S, g))[S]
BY DEF SumFunctionOnSet, FoldFunctionOnSet, MapThenFoldSet, Adds, Any

LEMMA OneLess ==
    ASSUME NEW s, IsFiniteSet(s), NEW x \in s
    PROVE  /\ IsFiniteSet(s \ {x}) /\ Cardinality(s) \in Nat \ {0}
           /\ Cardinality(s \ {x}) = Cardinality(s) - 1
<1>1. IsFiniteSet(s \ {x}) /\ Cardinality(s \ {x}) = IF x \in s THEN Cardinality(s) - 1 ELSE Cardinality(s)
  BY FS_RemoveElement, Zenon
<1>2. Cardinality(s) \in Nat /\ Cardinality(s \ {x}) \in Nat
  BY <1>1, FS_CardinalityType
<1>3. QED
  BY <1>1, <1>2

\* The function the definition picks exists: it is built up by size.
LEMMA AddsExists ==
    ASSUME NEW f, NEW S, IsFiniteSet(S)
    PROVE  \E g : Adds(f, S, g)
<1> DEFINE Upto(n) == {s \in SUBSET S : Cardinality(s) <= n}
           Sums(n, g) == g = [s \in Upto(n) |-> IF s = {} THEN 0 ELSE f[Any(s)] + g[s \ {Any(s)}]]
           P == {n \in Nat : \E g : Sums(n, g)}
<1>1. \A s \in SUBSET S : IsFiniteSet(s) /\ Cardinality(s) \in Nat /\ Cardinality(s) <= Cardinality(S)
  BY FS_Subset, FS_CardinalityType
<1>2. \A s \in SUBSET S : s # {} => /\ Any(s) \in s /\ s \ {Any(s)} \in SUBSET S
                                    /\ Cardinality(s \ {Any(s)}) = Cardinality(s) - 1
  <2> SUFFICES ASSUME NEW s \in SUBSET S, s # {}
               PROVE  /\ Any(s) \in s /\ s \ {Any(s)} \in SUBSET S
                      /\ Cardinality(s \ {Any(s)}) = Cardinality(s) - 1
    OBVIOUS
  <2>1. Any(s) \in s
    BY DEF Any
  <2>2. QED
    BY <1>1, <2>1, OneLess
<1>3. 0 \in P
  <2> DEFINE g == [s \in Upto(0) |-> 0]
  <2>1. \A s \in Upto(0) : s = {}
    BY <1>1, FS_EmptySet
  <2>2. Sums(0, g)
    BY <2>1
  <2>3. QED
    BY <2>2
<1>4. ASSUME NEW n \in Nat, n \in P PROVE n + 1 \in P
  <2>1. PICK g : Sums(n, g)
    BY <1>4
  <2> DEFINE h == [s \in Upto(n + 1) |-> IF s = {} THEN 0 ELSE f[Any(s)] + g[s \ {Any(s)}]]
  <2>2. \A s \in Upto(n) : s \in Upto(n + 1) /\ h[s] = g[s]
    <3> SUFFICES ASSUME NEW s \in Upto(n) PROVE s \in Upto(n + 1) /\ h[s] = g[s]
      OBVIOUS
    <3>1. s \in Upto(n + 1)
      BY <1>1
    <3>2. g[s] = IF s = {} THEN 0 ELSE f[Any(s)] + g[s \ {Any(s)}]
      BY <2>1
    <3>3. QED
      BY <3>1, <3>2
  <2>3. \A s \in Upto(n + 1) : s # {} => s \ {Any(s)} \in Upto(n)
    BY <1>1, <1>2
  <2>4. \A s \in Upto(n + 1) : h[s] = IF s = {} THEN 0 ELSE f[Any(s)] + h[s \ {Any(s)}]
    BY <2>2, <2>3
  <2>5. Sums(n + 1, h)
    <3> DEFINE k == [s \in Upto(n + 1) |-> IF s = {} THEN 0 ELSE f[Any(s)] + h[s \ {Any(s)}]]
    <3>1. \A s \in Upto(n + 1) : h[s] = k[s]
      BY <2>4
    <3>2. h = k
      BY <3>1
    <3>3. QED
      BY <3>2
  <2>6. PICK k : k = h
    OBVIOUS
  <2>7. Sums(n + 1, k)
    BY <2>5, <2>6, Zenon
  <2> HIDE DEF h, Sums
  <2>8. QED
    BY <2>7
<1>5. Cardinality(S) \in P
  <2> HIDE DEF P
  <2>1. \A n \in Nat : n \in P
    BY <1>3, <1>4, Induction
  <2>2. QED
    BY <1>1, <2>1
<1>6. Upto(Cardinality(S)) = SUBSET S
  BY <1>1
<1>7. PICK g : Sums(Cardinality(S), g)
  BY <1>5
<1>8. Adds(f, S, g)
  BY <1>6, <1>7 DEF Adds
<1>9. QED
  BY <1>8

\* Two functions that agree on a set, each with its own sums, have the same sum.
LEMMA AddsAgree ==
    ASSUME NEW f, NEW g, NEW S, NEW T, NEW a, NEW b, Adds(f, S, a), Adds(g, T, b),
           NEW U \in SUBSET (S \cap T), IsFiniteSet(U), \A x \in U : f[x] = g[x]
    PROVE  a[U] = b[U]
<1> DEFINE P == {n \in Nat : \A s \in SUBSET U : Cardinality(s) = n => a[s] = b[s]}
<1>1. \A s \in SUBSET U : IsFiniteSet(s) /\ Cardinality(s) \in Nat /\ (Cardinality(s) = 0 <=> s = {})
  BY FS_Subset, FS_CardinalityType, FS_EmptySet
<1>2. \A s \in SUBSET U : /\ a[s] = IF s = {} THEN 0 ELSE f[Any(s)] + a[s \ {Any(s)}]
                          /\ b[s] = IF s = {} THEN 0 ELSE g[Any(s)] + b[s \ {Any(s)}]
  BY DEF Adds
<1>3. 0 \in P
  BY <1>1, <1>2
<1>4. ASSUME NEW n \in Nat, n \in P PROVE n + 1 \in P
  <2> SUFFICES ASSUME NEW s \in SUBSET U, Cardinality(s) = n + 1 PROVE a[s] = b[s]
    OBVIOUS
  <2>1. s # {} /\ Any(s) \in s
    BY <1>1 DEF Any
  <2>2. s \ {Any(s)} \in SUBSET U /\ Cardinality(s \ {Any(s)}) = n
    BY <1>1, <2>1, OneLess
  <2>3. a[s \ {Any(s)}] = b[s \ {Any(s)}]
    BY <1>4, <2>2
  <2>4. QED
    BY <1>2, <2>1, <2>3
<1>5. Cardinality(U) \in P
  <2> HIDE DEF P
  <2>1. \A n \in Nat : n \in P
    BY <1>3, <1>4, Induction
  <2>2. QED
    BY <1>1, <2>1
<1>6. QED
  BY <1>5

\* The sum over nothing is zero.
LEMMA SumOfNone == ASSUME NEW f PROVE SumFunctionOnSet(f, {}) = 0
<1> DEFINE g == CHOOSE g : Adds(f, {}, g)
<1>1. Adds(f, {}, g)
  BY AddsExists, FS_EmptySet
<1> HIDE DEF g
<1>2. g[{}] = 0
  BY <1>1 DEF Adds
<1>3. QED
  BY <1>2, SumUnfolds DEF g

\* The sum depends on what is added and on nothing else.
LEMMA SumSame ==
    ASSUME NEW f, NEW g, NEW S, IsFiniteSet(S), \A x \in S : f[x] = g[x]
    PROVE  SumFunctionOnSet(f, S) = SumFunctionOnSet(g, S)
<1>1. PICK a : Adds(f, S, a) /\ a = CHOOSE h : Adds(f, S, h)
  BY AddsExists
<1>2. PICK b : Adds(g, S, b) /\ b = CHOOSE h : Adds(g, S, h)
  BY AddsExists
<1>3. a[S] = b[S]
  BY <1>1, <1>2, AddsAgree
<1>4. QED
  BY <1>1, <1>2, <1>3, SumUnfolds

\* The sum by the order the definition picks.
LEMMA SumPicks ==
    ASSUME NEW f, NEW S, IsFiniteSet(S), S # {}
    PROVE  Any(S) \in S /\ SumFunctionOnSet(f, S) = f[Any(S)] + SumFunctionOnSet(f, S \ {Any(S)})
<1> DEFINE R == S \ {Any(S)}
<1>1. IsFiniteSet(R)
  BY FS_Subset
<1>2. PICK a : Adds(f, S, a) /\ a = CHOOSE h : Adds(f, S, h)
  BY AddsExists
<1>3. PICK b : Adds(f, R, b) /\ b = CHOOSE h : Adds(f, R, h)
  BY <1>1, AddsExists
<1>4. a[R] = b[R]
  BY <1>1, <1>2, <1>3, AddsAgree
<1>5. a[S] = f[Any(S)] + a[R]
  BY <1>2 DEF Adds
<1>6. QED
  BY <1>2, <1>3, <1>4, <1>5, SumUnfolds DEF Any

\* Any member may be added last.
LEMMA SumInt ==
    ASSUME NEW f, NEW S, IsFiniteSet(S), \A x \in S : f[x] \in Int
    PROVE  SumFunctionOnSet(f, S) \in Int
<1> DEFINE P == {n \in Nat : \A s \in SUBSET S : Cardinality(s) = n => SumFunctionOnSet(f, s) \in Int}
<1>1. \A s \in SUBSET S : IsFiniteSet(s) /\ Cardinality(s) \in Nat /\ (Cardinality(s) = 0 <=> s = {})
  BY FS_Subset, FS_CardinalityType, FS_EmptySet
<1>2. 0 \in P
  BY <1>1, SumOfNone
<1>3. ASSUME NEW n \in Nat, n \in P PROVE n + 1 \in P
  <2> SUFFICES ASSUME NEW s \in SUBSET S, Cardinality(s) = n + 1
               PROVE  SumFunctionOnSet(f, s) \in Int
    OBVIOUS
  <2>1. s # {} /\ IsFiniteSet(s)
    BY <1>1
  <2>2. Any(s) \in s /\ SumFunctionOnSet(f, s) = f[Any(s)] + SumFunctionOnSet(f, s \ {Any(s)})
    BY <2>1, SumPicks
  <2>3. s \ {Any(s)} \in SUBSET S /\ Cardinality(s \ {Any(s)}) = n
    BY <2>1, <2>2, OneLess
  <2>4. QED
    BY <1>3, <2>2, <2>3
<1>4. Cardinality(S) \in P
  <2> HIDE DEF P
  <2>1. \A n \in Nat : n \in P
    BY <1>2, <1>3, Induction
  <2>2. QED
    BY <1>1, <2>1
<1>5. QED
  BY <1>4

LEMMA SumSplits ==
    ASSUME NEW f, NEW S, IsFiniteSet(S), \A x \in S : f[x] \in Int, NEW y \in S
    PROVE  SumFunctionOnSet(f, S) = f[y] + SumFunctionOnSet(f, S \ {y})
<1> DEFINE Sum(s) == SumFunctionOnSet(f, s)
           P == {n \in Nat : \A s \in SUBSET S : Cardinality(s) = n =>
                                \A x \in s : Sum(s) = f[x] + Sum(s \ {x})}
<1>1. \A s \in SUBSET S : IsFiniteSet(s) /\ Cardinality(s) \in Nat /\ (Cardinality(s) = 0 <=> s = {})
  BY FS_Subset, FS_CardinalityType, FS_EmptySet
<1>2. \A s \in SUBSET S : Sum(s) \in Int
  BY <1>1, SumInt
<1>3. 0 \in P
  BY <1>1
<1>4. ASSUME NEW n \in Nat, n \in P PROVE n + 1 \in P
  <2> SUFFICES ASSUME NEW s \in SUBSET S, Cardinality(s) = n + 1, NEW x \in s
               PROVE  Sum(s) = f[x] + Sum(s \ {x})
    OBVIOUS
  <2>1. PICK c : c = Any(s)
    OBVIOUS
  <2>2. c \in s /\ Sum(s) = f[c] + Sum(s \ {c})
    BY <1>1, <2>1, SumPicks
  <2>3. CASE x = c
    BY <2>2, <2>3
  <2>4. CASE x # c
    <3>1. /\ s \ {c} \in SUBSET S /\ Cardinality(s \ {c}) = n /\ x \in s \ {c}
          /\ s \ {x} \in SUBSET S /\ Cardinality(s \ {x}) = n /\ c \in s \ {x}
      BY <1>1, <2>2, <2>4, OneLess
    <3>2. Sum(s \ {c}) = f[x] + Sum((s \ {c}) \ {x}) /\ Sum(s \ {x}) = f[c] + Sum((s \ {x}) \ {c})
      BY <1>4, <3>1
    <3>3. (s \ {c}) \ {x} = (s \ {x}) \ {c} /\ (s \ {c}) \ {x} \in SUBSET S
      OBVIOUS
    <3>4. PICK r \in Int : r = Sum((s \ {c}) \ {x}) /\ r = Sum((s \ {x}) \ {c})
      BY <1>2, <3>3
    <3>5. PICK p \in Int, q \in Int : p = f[c] /\ q = f[x]
      BY <2>2
    <3>6. Sum(s) = p + (q + r) /\ Sum(s \ {x}) = p + r
      BY <2>2, <3>2, <3>4, <3>5
    <3>7. p + (q + r) = q + (p + r)
      BY <3>4, <3>5
    <3>8. QED
      BY <3>5, <3>6, <3>7
  <2>5. QED
    BY <2>3, <2>4
<1>5. Cardinality(S) \in P
  <2> HIDE DEF P
  <2>1. \A n \in Nat : n \in P
    BY <1>3, <1>4, Induction
  <2>2. QED
    BY <1>1, <2>1
<1>6. QED
  BY <1>5

-----------------------------------------------------------------------------
(* The balance.                                                              *)

\* The adjustments in flight are finitely many, since each began.
BInv == TInv /\ IsFiniteSet(Adjusting) /\ BalanceIsLedger

\* An INSERT adds its delta to the sum of the ledger.
LEMMA InsertedAdds ==
    ASSUME ledger \in Seq(Rows), NEW d \in Int, NEW why \in Reasons,
           NEW r \in Request \cup {NoRequest}, Inserted(d, why, r)
    PROVE  Total \in Int /\ Total' = Total + d
<1> DEFINE n == Len(ledger) + 1
<1>1. PICK S, T : S = DOMAIN ledger /\ T = DOMAIN ledger'
  OBVIOUS
<1>2. PICK f, g : /\ f = [i \in DOMAIN ledger |-> ledger[i].delta]
                  /\ g = [i \in DOMAIN ledger' |-> ledger'[i].delta]
  OBVIOUS
<1>3. Total = SumFunctionOnSet(f, S) /\ Total' = SumFunctionOnSet(g, T)
  BY <1>1, <1>2 DEF Total, SumFunction
<1>4. /\ T = S \cup {n} /\ n \notin S
      /\ \A i \in S : ledger'[i] = ledger[i]
      /\ ledger'[n] = [delta |-> d, reason |-> why, request |-> r]
  BY <1>1, InsertedAtEnd
<1>5. S = 1..Len(ledger) /\ IsFiniteSet(S) /\ \A i \in S : ledger[i] \in Rows
  BY <1>1, FS_Interval
<1>6. IsFiniteSet(T)
  BY <1>4, <1>5, FS_AddElement
<1>7. (\A i \in S : f[i] \in Int /\ g[i] = f[i]) /\ g[n] = d
  BY <1>1, <1>2, <1>4, <1>5 DEF Rows
<1>8. \A i \in T : g[i] \in Int
  BY <1>4, <1>7
<1>9. T \ {n} = S /\ n \in T
  BY <1>4
<1>10. SumFunctionOnSet(g, T) = d + SumFunctionOnSet(g, S)
  BY <1>6, <1>7, <1>8, <1>9, SumSplits
<1>11. SumFunctionOnSet(g, S) = SumFunctionOnSet(f, S) /\ SumFunctionOnSet(f, S) \in Int
  BY <1>5, <1>7, SumSame, SumInt
<1>12. QED
  BY <1>3, <1>10, <1>11

LEMMA TotalInt == ASSUME TypeOK PROVE Total \in Int
<1>1. PICK S, f : S = DOMAIN ledger /\ f = [i \in DOMAIN ledger |-> ledger[i].delta]
  OBVIOUS
<1>2. S = 1..Len(ledger) /\ IsFiniteSet(S) /\ \A i \in S : ledger[i] \in Rows
  BY <1>1, FS_Interval DEF TypeOK
<1>3. \A i \in S : f[i] \in Int
  BY <1>1, <1>2 DEF Rows
<1>4. SumFunctionOnSet(f, S) \in Int
  BY <1>2, <1>3, SumInt
<1>5. QED
  BY <1>1, <1>4 DEF Total, SumFunction

\* What is owed to the balance, before and after a step: F and G are the deltas of the
\* jobs, S and T those that adjust.
LEMMA InFlightIs ==
    ASSUME TypeOK, TypeOK', IsFiniteSet(Adjusting)
    PROVE  \E F, G, S, T :
              /\ F \in [Worker -> Int] /\ G \in [Worker -> Int]
              /\ \A w \in Worker : F[w] = job[w].delta /\ G[w] = job'[w].delta
              /\ S = Adjusting /\ T = Adjusting' /\ IsFiniteSet(S)
              /\ S \subseteq Worker /\ T \subseteq Worker
              /\ InFlight = SumFunctionOnSet(F, S) /\ InFlight' = SumFunctionOnSet(G, T)
              /\ InFlight \in Int
<1>1. PICK F, G : /\ F = [w \in Worker |-> job[w].delta]
                  /\ G = [w \in Worker |-> job'[w].delta]
  OBVIOUS
<1>2. PICK S, T : S = Adjusting /\ T = Adjusting'
  OBVIOUS
<1>3. S \subseteq Worker /\ T \subseteq Worker
  BY <1>2 DEF Adjusting
<1>4. F \in [Worker -> Int] /\ G \in [Worker -> Int]
  BY <1>1 DEF TypeOK, Jobs
<1>5. InFlight = SumFunctionOnSet(F, S) /\ InFlight' = SumFunctionOnSet(G, T)
  BY <1>1, <1>2 DEF InFlight
<1>6. InFlight \in Int
  BY <1>2, <1>3, <1>4, <1>5, SumInt
<1>7. QED
  BY <1>1, <1>2, <1>3, <1>4, <1>5, <1>6

\* A step that begins and ends no adjustment.
LEMMA InFlightKept ==
    ASSUME TypeOK, TypeOK', IsFiniteSet(Adjusting), Adjusting' = Adjusting,
           \A w \in Adjusting : job'[w].delta = job[w].delta
    PROVE  IsFiniteSet(Adjusting') /\ InFlight \in Int /\ InFlight' = InFlight
<1>1. PICK F, G, S, T :
              /\ F \in [Worker -> Int] /\ G \in [Worker -> Int]
              /\ \A w \in Worker : F[w] = job[w].delta /\ G[w] = job'[w].delta
              /\ S = Adjusting /\ T = Adjusting' /\ IsFiniteSet(S)
              /\ S \subseteq Worker /\ T \subseteq Worker
              /\ InFlight = SumFunctionOnSet(F, S) /\ InFlight' = SumFunctionOnSet(G, T)
              /\ InFlight \in Int
  BY InFlightIs
<1>2. T = S /\ \A w \in S : F[w] = G[w]
  BY <1>1
<1>3. SumFunctionOnSet(F, S) = SumFunctionOnSet(G, S)
  BY <1>1, <1>2, SumSame
<1>4. QED
  BY <1>1, <1>2, <1>3

\* An INSERT of an adjustment: its delta is owed to the balance from now on.
LEMMA InFlightGrows ==
    ASSUME TypeOK, TypeOK', IsFiniteSet(Adjusting), NEW w \in Worker,
           w \notin Adjusting, Adjusting' = Adjusting \cup {w},
           \A v \in Adjusting \cup {w} : job'[v].delta = job[v].delta
    PROVE  IsFiniteSet(Adjusting') /\ InFlight \in Int /\ InFlight' = InFlight + job[w].delta
<1>1. PICK F, G, S, T :
              /\ F \in [Worker -> Int] /\ G \in [Worker -> Int]
              /\ \A v \in Worker : F[v] = job[v].delta /\ G[v] = job'[v].delta
              /\ S = Adjusting /\ T = Adjusting' /\ IsFiniteSet(S)
              /\ S \subseteq Worker /\ T \subseteq Worker
              /\ InFlight = SumFunctionOnSet(F, S) /\ InFlight' = SumFunctionOnSet(G, T)
              /\ InFlight \in Int
  BY InFlightIs
<1>2. T = S \cup {w} /\ w \in T /\ T \ {w} = S /\ \A v \in T : F[v] = G[v]
  BY <1>1
<1>3. IsFiniteSet(T)
  BY <1>1, <1>2, FS_AddElement
<1>4. \A v \in T : G[v] \in Int
  BY <1>1
<1>5. SumFunctionOnSet(G, T) = G[w] + SumFunctionOnSet(G, S)
  BY <1>2, <1>3, <1>4, SumSplits
<1>6. SumFunctionOnSet(F, S) = SumFunctionOnSet(G, S)
  BY <1>1, <1>2, SumSame
<1>7. G[w] = job[w].delta /\ job[w].delta \in Int
  BY <1>1, <1>2
<1>8. QED
  BY <1>1, <1>3, <1>5, <1>6, <1>7

\* The end of an adjustment past its INSERT.
LEMMA InFlightShrinks ==
    ASSUME TypeOK, TypeOK', IsFiniteSet(Adjusting), NEW w \in Adjusting,
           Adjusting' = Adjusting \ {w},
           \A v \in Adjusting \ {w} : job'[v].delta = job[v].delta
    PROVE  IsFiniteSet(Adjusting') /\ InFlight \in Int /\ InFlight' = InFlight - job[w].delta
<1>1. PICK F, G, S, T :
              /\ F \in [Worker -> Int] /\ G \in [Worker -> Int]
              /\ \A v \in Worker : F[v] = job[v].delta /\ G[v] = job'[v].delta
              /\ S = Adjusting /\ T = Adjusting' /\ IsFiniteSet(S)
              /\ S \subseteq Worker /\ T \subseteq Worker
              /\ InFlight = SumFunctionOnSet(F, S) /\ InFlight' = SumFunctionOnSet(G, T)
              /\ InFlight \in Int
  BY InFlightIs
<1>2. T = S \ {w} /\ w \in S /\ \A v \in T : F[v] = G[v]
  BY <1>1
<1>3. IsFiniteSet(T)
  BY <1>1, <1>2, FS_Subset
<1>4. SumFunctionOnSet(F, S) = F[w] + SumFunctionOnSet(F, T)
  BY <1>1, <1>2, SumSplits
<1>5. SumFunctionOnSet(F, T) = SumFunctionOnSet(G, T) /\ SumFunctionOnSet(F, T) \in Int
  BY <1>1, <1>2, <1>3, SumSame, SumInt
<1>6. F[w] = job[w].delta /\ job[w].delta \in Int
  BY <1>1, <1>2
<1>7. QED
  BY <1>1, <1>3, <1>4, <1>5, <1>6

LEMMA BInvInit == Init => BInv
<1> SUFFICES ASSUME Init PROVE BInv
  OBVIOUS
<1>1. TInv
  BY TInvInit
<1>2. Adjusting = {}
  BY DEF Init, Adjusting, Idle
<1>3. DOMAIN ledger = {}
  BY DEF Init
<1>4. Total = 0 /\ InFlight = 0
  BY <1>2, <1>3, SumOfNone DEF Total, InFlight, SumFunction
<1>5. QED
  BY <1>1, <1>2, <1>4, FS_EmptySet DEF Init, BInv, BalanceIsLedger

\* Rows and their balance in one transaction: a task, or an approved redemption.
LEMMA AwardBalances ==
    ASSUME BInv, TypeOK', NEW d \in Int, NEW why \in Reasons, NEW r \in Request \cup {NoRequest},
           Award(d, why, r), UNCHANGED <<job, cut>>
    PROVE  IsFiniteSet(Adjusting') /\ BalanceIsLedger'
<1>1. TypeOK /\ IsFiniteSet(Adjusting) /\ balance \in Int /\ cut \in Int
  BY DEF BInv, TInv, TypeOK
<1>2. Total \in Int /\ Total' = Total + d /\ balance' = balance + d
  BY <1>1, InsertedAdds DEF Award, TypeOK
<1>3. IsFiniteSet(Adjusting') /\ InFlight \in Int /\ InFlight' = InFlight
  BY <1>1, InFlightKept DEF Adjusting
<1>4. QED
  BY <1>1, <1>2, <1>3 DEF BInv, BalanceIsLedger

\* A step that writes no points.
LEMMA QuietBalances ==
    ASSUME BInv, TypeOK', UNCHANGED <<balance, ledger, cut>>, Adjusting' = Adjusting,
           \A w \in Adjusting : job'[w].delta = job[w].delta
    PROVE  IsFiniteSet(Adjusting') /\ BalanceIsLedger'
<1>1. TypeOK /\ IsFiniteSet(Adjusting)
  BY DEF BInv, TInv
<1>2. IsFiniteSet(Adjusting') /\ InFlight' = InFlight
  BY <1>1, InFlightKept
<1>3. Total' = Total
  BY DEF Total
<1>4. QED
  BY <1>2, <1>3 DEF BInv, BalanceIsLedger

LEMMA BInvNext == BInv /\ [Next]_vars => BInv'
<1> SUFFICES ASSUME BInv, [Next]_vars PROVE BInv'
  OBVIOUS
<1>0. TInv' /\ TypeOK' /\ TypeOK /\ TInv /\ IsFiniteSet(Adjusting)
  BY TInvNext DEF BInv, TInv
<1> SUFFICES IsFiniteSet(Adjusting') /\ BalanceIsLedger'
  BY <1>0 DEF BInv
<1>1. /\ balance \in Int /\ cut \in Int /\ job \in [Worker -> Jobs]
      /\ \A w \in Worker : job[w].delta \in Int
  BY <1>0 DEF TypeOK, Jobs
<1>2. CASE UNCHANGED <<balance, ledger, job, cut>>
  BY <1>0, <1>2, QuietBalances DEF Adjusting
<1>3. CASE PatchLinkSettings \/ UNCHANGED vars
  BY <1>2, <1>3 DEF PatchLinkSettings, SetSettings, vars
<1>4. ASSUME NEW t \in Reward, NEW c \in Cost \cup {Null}, NEW b \in BOOLEAN, EditReward(t, c, b)
      PROVE  IsFiniteSet(Adjusting') /\ BalanceIsLedger'
  BY <1>2, <1>4 DEF EditReward
<1>5. ASSUME NEW r \in Request, Deny(r) PROVE IsFiniteSet(Adjusting') /\ BalanceIsLedger'
  BY <1>2, <1>5 DEF Deny
<1>6. ASSUME NEW d \in Delta, AwardIfEnabled(d) PROVE IsFiniteSet(Adjusting') /\ BalanceIsLedger'
  <2>1. d \in Int
    BY PointsAssumption
  <2>2. QED
    BY <1>0, <1>6, <2>1, AwardBalances DEF AwardIfEnabled, Reasons
<1>7. ASSUME NEW r \in Request, Approve(r) PROVE IsFiniteSet(Adjusting') /\ BalanceIsLedger'
  <2>1. -request[r].cost \in Int
    BY <1>0 DEF TypeOK, Requests
  <2>2. QED
    BY <1>0, <1>7, <2>1, AwardBalances DEF Approve, Reasons
\* A redemption request, or an adjustment before its INSERT, is no adjustment in flight.
<1>8. ASSUME NEW w \in Worker, job[w].step # "balance", job'[w].step # "balance",
             \A v \in Worker \ {w} : job'[v] = job[v], UNCHANGED <<balance, ledger, cut>>
      PROVE  IsFiniteSet(Adjusting') /\ BalanceIsLedger'
  <2>1. Adjusting' = Adjusting /\ \A v \in Adjusting : job'[v].delta = job[v].delta
    BY <1>8 DEF Adjusting
  <2>2. QED
    BY <1>0, <1>8, <2>1, QuietBalances
<1>9. ASSUME NEW w \in Worker, \/ \E d \in Delta : AdjustCheck(w, d)
                               \/ \E t \in Reward : RedeemCheck(w, t)
                               \/ RedeemPrice(w)
                               \/ RedeemFunds(w)
                               \/ \E r \in Request : RedeemInsert(w, r)
      PROVE  IsFiniteSet(Adjusting') /\ BalanceIsLedger'
  <2>1. UNCHANGED <<balance, ledger, cut>> /\ \A v \in Worker \ {w} : job'[v] = job[v]
    BY <1>1, <1>9 DEF AdjustCheck, RedeemCheck, RedeemPrice, RedeemFunds, RedeemInsert
  <2>2. job[w].step # "balance"
    <3>1. Idle.step # "balance"
      BY DEF Idle
    <3>2. job[w] = Idle \/ job[w].step \in {"price", "funds", "insert"}
      BY <1>9 DEF AdjustCheck, RedeemCheck, RedeemPrice, RedeemFunds, RedeemInsert
    <3>3. QED
      BY <3>1, <3>2
  <2>3. job'[w].step # "balance"
    <3>1. CASE \E d \in Delta : AdjustCheck(w, d)
      BY <1>1, <3>1 DEF AdjustCheck, Idle
    <3>2. CASE \E t \in Reward : RedeemCheck(w, t)
      BY <1>1, <3>2 DEF RedeemCheck, Idle
    <3>3. CASE RedeemPrice(w)
      BY <1>1, <3>3 DEF RedeemPrice, Idle, Jobs
    <3>4. CASE RedeemFunds(w)
      BY <1>1, <3>4 DEF RedeemFunds, Idle, Jobs
    <3>5. CASE \E r \in Request : RedeemInsert(w, r)
      BY <1>1, <3>5 DEF RedeemInsert, Idle
    <3>6. QED
      BY <1>9, <3>1, <3>2, <3>3, <3>4, <3>5
  <2>4. QED
    BY <1>8, <2>1, <2>2, <2>3
<1>10. ASSUME NEW w \in Worker, AdjustInsert(w) PROVE IsFiniteSet(Adjusting') /\ BalanceIsLedger'
  <2>1. /\ job'[w].step = "balance" /\ job'[w].delta = job[w].delta /\ job[w].step = "adjust"
        /\ \A v \in Worker \ {w} : job'[v] = job[v]
        /\ UNCHANGED <<balance, cut>>
    BY <1>1, <1>10 DEF AdjustInsert, Jobs
  <2>2. /\ w \notin Adjusting /\ Adjusting' = Adjusting \cup {w}
        /\ \A v \in Adjusting \cup {w} : job'[v].delta = job[v].delta
    BY <2>1 DEF Adjusting
  <2>3. IsFiniteSet(Adjusting') /\ InFlight \in Int /\ InFlight' = InFlight + job[w].delta
    BY <1>0, <2>2, InFlightGrows
  <2>4. Total \in Int /\ Total' = Total + job[w].delta
    BY <1>0, <1>1, <1>10, InsertedAdds DEF AdjustInsert, TypeOK, Reasons
  <2>5. QED
    BY <1>1, <2>1, <2>3, <2>4 DEF BInv, BalanceIsLedger
\* The UPDATE pays what is owed, or the handler dies and it stays owed for ever.
<1>11. ASSUME NEW w \in Adjusting, job' = [job EXCEPT ![w] = Idle], ledger' = ledger,
              balance' + cut' = balance + cut + job[w].delta, balance' \in Int, cut' \in Int
       PROVE  IsFiniteSet(Adjusting') /\ BalanceIsLedger'
  <2>1. w \in Worker /\ job'[w].step # "balance" /\ \A v \in Worker \ {w} : job'[v] = job[v]
    BY <1>1, <1>11 DEF Adjusting, Idle
  <2>2. Adjusting' = Adjusting \ {w} /\ \A v \in Adjusting \ {w} : job'[v].delta = job[v].delta
    BY <2>1 DEF Adjusting
  <2>3. IsFiniteSet(Adjusting') /\ InFlight \in Int /\ InFlight' = InFlight - job[w].delta
    BY <1>0, <2>2, InFlightShrinks
  <2>4. Total' = Total /\ Total \in Int
    BY <1>0, <1>11, TotalInt DEF Total
  <2>5. job[w].delta \in Int
    BY <1>1, <2>1
  <2>6. balance + InFlight + cut = Total
    BY DEF BInv, BalanceIsLedger
  <2>7. balance' + InFlight' + cut' = Total'
    BY <1>1, <1>11, <2>3, <2>4, <2>5, <2>6
  <2>8. QED
    BY <2>3, <2>7 DEF BalanceIsLedger
<1>12. ASSUME NEW w \in Worker, AdjustBalance(w) PROVE IsFiniteSet(Adjusting') /\ BalanceIsLedger'
  <2>1. w \in Adjusting /\ job[w].delta \in Int
    BY <1>1, <1>12 DEF AdjustBalance, Adjusting
  <2>2. /\ job' = [job EXCEPT ![w] = Idle] /\ ledger' = ledger /\ cut' = cut
        /\ balance' = balance + job[w].delta
    BY <1>12 DEF AdjustBalance
  <2>3. /\ balance' + cut' = balance + cut + job[w].delta
        /\ balance' \in Int /\ cut' \in Int
    BY <1>1, <2>1, <2>2
  <2>4. QED
    BY <1>11, <2>1, <2>2, <2>3
<1>13. ASSUME NEW w \in Worker, Abort(w) PROVE IsFiniteSet(Adjusting') /\ BalanceIsLedger'
  <2>1. CASE job[w].step = "balance"
    <3>1. w \in Adjusting /\ job[w].delta \in Int
      BY <1>1, <2>1 DEF Adjusting
    <3>2. /\ job' = [job EXCEPT ![w] = Idle] /\ ledger' = ledger /\ balance' = balance
          /\ cut' = cut + job[w].delta
      BY <1>13, <2>1 DEF Abort
    <3>3. /\ balance' + cut' = balance + cut + job[w].delta
          /\ balance' \in Int /\ cut' \in Int
      BY <1>1, <3>1, <3>2
    <3>4. QED
      BY <1>11, <3>1, <3>2, <3>3
  <2>2. CASE job[w].step # "balance"
    <3>1. /\ cut' = cut /\ UNCHANGED <<balance, ledger>> /\ job'[w].step # "balance"
          /\ \A v \in Worker \ {w} : job'[v] = job[v]
      BY <1>1, <1>13, <2>2 DEF Abort, Idle
    <3>2. QED
      BY <1>8, <2>2, <3>1
  <2>3. QED
    BY <2>1, <2>2
<1>14. QED
  BY <1>3, <1>4, <1>5, <1>6, <1>7, <1>9, <1>10, <1>12, <1>13
     DEF Next, Route, AdjustPoints, Redeem, DecideRedemptionRequest

\* BalanceIsLedger, for any number of workers, requests and ledger rows and any deltas:
\* the cached balance is the sum of the ledger but for the manual adjustments caught
\* between their two statements, and those that died there.
THEOREM BalanceIsAlwaysLedger == Spec => []BalanceIsLedger
<1>1. BInv => BalanceIsLedger
  BY DEF BInv
<1>2. QED
  BY <1>1, BInvInit, BInvNext, PTL DEF Spec

\* LedgerAgrees: the ledger's rows add up to the balance, and those of a request are what
\* its decision says, in every reachable state.
THEOREM LedgerAlwaysAgrees == Spec => []LedgerAgrees
<1>1. BalanceIsLedger /\ RedeemedOnce => LedgerAgrees
  BY DEF LedgerAgrees
<1>2. QED
  BY <1>1, BalanceIsAlwaysLedger, RedeemedExactlyOnce, PTL

-----------------------------------------------------------------------------
(* The refinement: Points implements PointsAccount.  What a handler is about  *)
(* to write was given or quoted to it.                                        *)

Quoted ==
    /\ \A t \in Reward : reward[t].cost \in Cost \cup {Null}
    /\ \A w \in Worker :
          /\ job[w].step \in {"adjust", "balance"} => job[w].delta \in Delta
          /\ job[w].step \in {"funds", "insert"} => job[w].delta \in Cost

AccountInv == RInv /\ BInv /\ Quoted

LEMMA QuotedInit == Init => Quoted
<1> SUFFICES ASSUME Init PROVE Quoted
  OBVIOUS
<1>1. ASSUME NEW t \in Reward PROVE reward[t].cost \in Cost \cup {Null}
  <2>1. reward[t] \in {[cost |-> c, active |-> TRUE] : c \in Cost \cup {Null}}
    BY DEF Init
  <2>2. QED
    BY <2>1
<1>2. \A w \in Worker : job[w].step = "idle"
  BY DEF Init, Idle
<1>3. QED
  BY <1>1, <1>2 DEF Quoted

LEMMA QuotedNext == TInv /\ Quoted /\ [Next]_vars => Quoted'
<1> SUFFICES ASSUME TInv, Quoted, [Next]_vars PROVE Quoted'
  OBVIOUS
<1>0. job \in [Worker -> Jobs] /\ reward \in [Reward -> Rewards] /\ JobsArePriced
  BY DEF TInv, TypeOK
<1>1. ASSUME UNCHANGED <<reward, job>> PROVE Quoted'
  BY <1>1 DEF Quoted
<1>2. CASE UNCHANGED vars
  BY <1>1, <1>2 DEF vars
<1>3. CASE PatchLinkSettings
  BY <1>1, <1>3 DEF PatchLinkSettings
<1>4. ASSUME NEW t \in Reward, NEW c \in Cost \cup {Null}, NEW b \in BOOLEAN, EditReward(t, c, b)
      PROVE  Quoted'
  BY <1>0, <1>4 DEF EditReward, Quoted, Rewards
<1>5. ASSUME NEW d \in Delta, AwardIfEnabled(d) PROVE Quoted'
  BY <1>1, <1>5 DEF AwardIfEnabled
<1>6. ASSUME NEW r \in Request, Approve(r) \/ Deny(r) PROVE Quoted'
  BY <1>1, <1>6 DEF Approve, Deny
\* One worker goes on, with what it was given or quoted.
<1>7. ASSUME NEW w \in Worker, reward' = reward, \A v \in Worker \ {w} : job'[v] = job[v],
             job'[w].step \in {"adjust", "balance"} => job'[w].delta \in Delta,
             job'[w].step \in {"funds", "insert"} => job'[w].delta \in Cost
      PROVE  Quoted'
  BY <1>7 DEF Quoted
<1>8. ASSUME NEW w \in Worker, reward' = reward, job' = [job EXCEPT ![w] = Idle] PROVE Quoted'
  <2>1. job'[w].step = "idle" /\ \A v \in Worker \ {w} : job'[v] = job[v]
    BY <1>0, <1>8 DEF Idle
  <2>2. QED
    BY <1>7, <1>8, <2>1
<1>9. ASSUME NEW w \in Worker, AdjustPoints(w) PROVE Quoted'
  <2>1. CASE \E d \in Delta : AdjustCheck(w, d)
    <3>1. reward' = reward /\ \A v \in Worker \ {w} : job'[v] = job[v]
      BY <1>0, <2>1 DEF AdjustCheck
    <3>2. job'[w].step = "adjust" /\ job'[w].delta \in Delta
      BY <1>0, <2>1 DEF AdjustCheck, Idle
    <3>3. QED
      BY <1>7, <3>1, <3>2
  <2>2. CASE AdjustInsert(w)
    <3>1. reward' = reward /\ \A v \in Worker \ {w} : job'[v] = job[v]
      BY <1>0, <2>2 DEF AdjustInsert
    <3>2. job'[w].step = "balance" /\ job'[w].delta \in Delta
      BY <1>0, <2>2 DEF AdjustInsert, Jobs, Quoted
    <3>3. QED
      BY <1>7, <3>1, <3>2
  <2>3. CASE AdjustBalance(w)
    BY <1>8, <2>3 DEF AdjustBalance
  <2>4. QED
    BY <1>9, <2>1, <2>2, <2>3 DEF AdjustPoints
<1>10. ASSUME NEW w \in Worker, Redeem(w) PROVE Quoted'
  <2>1. CASE \E t \in Reward : RedeemCheck(w, t)
    <3>1. reward' = reward /\ \A v \in Worker \ {w} : job'[v] = job[v]
      BY <1>0, <2>1 DEF RedeemCheck
    <3>2. job'[w].step = "price"
      BY <1>0, <2>1 DEF RedeemCheck, Idle
    <3>3. QED
      BY <1>7, <3>1, <3>2
  <2>2. CASE RedeemPrice(w)
    <3>1. CASE job' = [job EXCEPT ![w] = Idle]
      BY <1>8, <2>2, <3>1 DEF RedeemPrice
    <3>2. ASSUME NEW c, c = reward[job[w].reward].cost, c # Null,
                 job' = [job EXCEPT ![w].step = "funds", ![w].delta = c]
          PROVE  Quoted'
      <4>1. c \in Cost
        BY <1>0, <2>2, <3>2 DEF RedeemPrice, JobsArePriced, Quoted
      <4>2. job'[w].step = "funds" /\ job'[w].delta = c
        BY <1>0, <3>2 DEF Jobs
      <4>3. reward' = reward /\ \A v \in Worker \ {w} : job'[v] = job[v]
        BY <1>0, <2>2, <3>2 DEF RedeemPrice
      <4>4. QED
        BY <1>7, <4>1, <4>2, <4>3
    <3>3. QED
      BY <2>2, <3>1, <3>2 DEF RedeemPrice
  <2>3. CASE RedeemFunds(w)
    <3>1. CASE job' = [job EXCEPT ![w] = Idle]
      BY <1>8, <2>3, <3>1 DEF RedeemFunds
    <3>2. CASE job' = [job EXCEPT ![w].step = "insert"]
      <4>1. job'[w].step = "insert" /\ job'[w].delta \in Cost
        BY <1>0, <2>3, <3>2 DEF RedeemFunds, Jobs, Quoted
      <4>2. reward' = reward /\ \A v \in Worker \ {w} : job'[v] = job[v]
        BY <1>0, <2>3, <3>2 DEF RedeemFunds
      <4>3. QED
        BY <1>7, <4>1, <4>2
    <3>3. QED
      BY <2>3, <3>1, <3>2 DEF RedeemFunds
  <2>4. CASE \E r \in Request : RedeemInsert(w, r)
    BY <1>8, <2>4 DEF RedeemInsert
  <2>5. QED
    BY <1>10, <2>1, <2>2, <2>3, <2>4 DEF Redeem
<1>11. ASSUME NEW w \in Worker, Abort(w) PROVE Quoted'
  BY <1>8, <1>11 DEF Abort
<1>12. QED
  BY <1>2, <1>3, <1>4, <1>5, <1>6, <1>9, <1>10, <1>11
     DEF Next, Route, DecideRedemptionRequest

LEMMA AccountInvInit == Init => AccountInv
BY RInvInit, BInvInit, QuotedInit DEF AccountInv

LEMMA AccountInvNext == AccountInv /\ [Next]_vars => AccountInv'
BY RInvNext, BInvNext, QuotedNext DEF AccountInv, RInv

\* What moves neither the ledger nor a request is not seen.
LEMMA QuietAccount ==
    ASSUME BalanceIsLedger, BalanceIsLedger', UNCHANGED <<ledger, request, granted>>
    PROVE  UNCHANGED Account!account
<1>1. Total' = Total
  BY DEF Total
<1>2. (balance + InFlight + cut)' = balance + InFlight + cut
  BY <1>1 DEF BalanceIsLedger
<1>3. QED
  BY <1>2 DEF Account!account

\* An INSERT for a task or an adjustment is an entry, its UPDATE run or not.
LEMMA EnterAccount ==
    ASSUME TypeOK, BalanceIsLedger, BalanceIsLedger', NEW d \in Delta, NEW why \in Reasons,
           Inserted(d, why, NoRequest), UNCHANGED <<request, granted>>
    PROVE  Account!Next
<1>1. d \in Int
  BY PointsAssumption
<1>2. Total' = Total + d
  BY <1>1, InsertedAdds DEF TypeOK
<1>3. (balance + InFlight + cut)' = (balance + InFlight + cut) + d
  BY <1>2 DEF BalanceIsLedger
<1>4. Account!Enter(d)
  BY <1>3 DEF Account!Enter
<1>5. QED
  BY <1>4 DEF Account!Next

LEMMA AskAccount ==
    ASSUME AccountInv, BalanceIsLedger', NEW w \in Worker, NEW r \in Request, RedeemInsert(w, r)
    PROVE  Account!Next
<1>1. request \in [Request -> Requests] /\ BalanceIsLedger
  BY DEF AccountInv, BInv, TInv, TypeOK
<1>2. PICK cost \in Cost : cost = job[w].delta
  BY DEF AccountInv, Quoted, RedeemInsert
<1>3. /\ request[r].status = "absent"
      /\ request'[r].status = "pending" /\ request'[r].cost = cost
      /\ \A q \in Request \ {r} : request'[q] = request[q]
      /\ UNCHANGED <<ledger, granted>>
  BY <1>1, <1>2 DEF RedeemInsert
<1>4. /\ [q \in Request |-> request'[q].status]
            = [[q \in Request |-> request[q].status] EXCEPT ![r] = "pending"]
      /\ [q \in Request |-> request'[q].cost]
            = [[q \in Request |-> request[q].cost] EXCEPT ![r] = cost]
  BY <1>3
<1>5. (balance + InFlight + cut)' = balance + InFlight + cut
  BY <1>1, <1>3 DEF BalanceIsLedger, Total
<1>6. Account!Ask(r, cost)
  BY <1>3, <1>4, <1>5 DEF Account!Ask
<1>7. QED
  BY <1>2, <1>6 DEF Account!Next

LEMMA DecideAccount ==
    ASSUME AccountInv, BalanceIsLedger', NEW r \in Request, Approve(r) \/ Deny(r)
    PROVE  Account!Next
<1>1. TypeOK /\ request \in [Request -> Requests] /\ granted \in [Request -> Nat] /\ BalanceIsLedger
  BY DEF AccountInv, BInv, TInv, TypeOK
<1>2. request[r].status = "pending" /\ granted[r] = 0 /\ request[r].cost \in Nat
  BY <1>1 DEF AccountInv, RInv, Settled, Approve, Deny, Requests
\* The row changes its status, and nothing else.
<1>3. ASSUME NEW st \in {"approved", "denied"}, request' = [request EXCEPT ![r].status = st]
      PROVE  /\ [q \in Request |-> request'[q].status]
                   = [[q \in Request |-> request[q].status] EXCEPT ![r] = st]
             /\ [q \in Request |-> request'[q].cost] = [q \in Request |-> request[q].cost]
  <2>1. request'[r].status = st /\ request'[r].cost = request[r].cost
    BY <1>1, <1>3 DEF Requests
  <2>2. \A q \in Request \ {r} : request'[q] = request[q]
    BY <1>1, <1>3
  <2>3. QED
    BY <2>1, <2>2
<1>4. CASE Approve(r)
  <2>1. Inserted(-request[r].cost, "redemption", r)
    BY <1>4 DEF Approve, Award
  <2>2. Total \in Int /\ Total' = Total + (-request[r].cost)
    BY <1>1, <1>2, <2>1, InsertedAdds DEF TypeOK, Reasons
  <2>3. (balance + InFlight + cut)' = (balance + InFlight + cut) - request[r].cost
    BY <1>1, <1>2, <2>2 DEF BalanceIsLedger
  <2>4. granted' = [granted EXCEPT ![r] = 1]
    BY <1>1, <1>2, <1>4 DEF Approve
  <2>5. request' = [request EXCEPT ![r].status = "approved"]
    BY <1>4 DEF Approve
  <2>6. Account!Approve(r)
    BY <1>2, <1>3, <2>3, <2>4, <2>5 DEF Account!Approve
  <2>7. QED
    BY <2>6 DEF Account!Next
<1>5. CASE Deny(r)
  <2>1. (balance + InFlight + cut)' = balance + InFlight + cut
    BY <1>1, <1>5 DEF BalanceIsLedger, Total, Deny
  <2>2. request' = [request EXCEPT ![r].status = "denied"] /\ granted' = granted
    BY <1>5 DEF Deny
  <2>3. Account!Deny(r)
    BY <1>2, <1>3, <2>1, <2>2 DEF Account!Deny
  <2>4. QED
    BY <2>3 DEF Account!Next
<1>6. QED
  BY <1>4, <1>5

LEMMA AccountInit == Init => Account!Init
<1> SUFFICES ASSUME Init PROVE Account!Init
  OBVIOUS
<1>1. BalanceIsLedger /\ DOMAIN ledger = {}
  BY BInvInit DEF BInv, Init
<1>2. Total = 0
  BY <1>1, SumOfNone DEF Total, SumFunction
<1>3. balance + InFlight + cut = 0
  BY <1>1, <1>2 DEF BalanceIsLedger
<1>4. QED
  BY <1>3 DEF Init, Account!Init

LEMMA AccountNext == AccountInv /\ [Next]_vars => [Account!Next]_Account!account
<1> SUFFICES ASSUME AccountInv, [Next]_vars PROVE Account!Next \/ UNCHANGED Account!account
  OBVIOUS
<1>1. TypeOK /\ BalanceIsLedger /\ BalanceIsLedger'
  BY BInvNext DEF AccountInv, BInv, TInv
<1>2. ASSUME UNCHANGED <<ledger, request, granted>> PROVE UNCHANGED Account!account
  BY <1>1, <1>2, QuietAccount
<1>3. CASE UNCHANGED vars \/ PatchLinkSettings
  BY <1>2, <1>3 DEF vars, PatchLinkSettings
<1>4. ASSUME NEW t \in Reward, NEW c \in Cost \cup {Null}, NEW b \in BOOLEAN, EditReward(t, c, b)
      PROVE  UNCHANGED Account!account
  BY <1>2, <1>4 DEF EditReward
<1>5. ASSUME NEW d \in Delta, AwardIfEnabled(d) PROVE Account!Next
  BY <1>1, <1>5, EnterAccount DEF AwardIfEnabled, Award, Reasons
<1>6. ASSUME NEW r \in Request, Approve(r) \/ Deny(r) PROVE Account!Next
  BY <1>1, <1>6, DecideAccount
<1>7. ASSUME NEW w \in Worker, AdjustInsert(w) PROVE Account!Next
  <2>1. job[w].delta \in Delta
    BY <1>7 DEF AccountInv, Quoted, AdjustInsert
  <2>2. QED
    BY <1>1, <1>7, <2>1, EnterAccount DEF AdjustInsert, Reasons
<1>8. ASSUME NEW w \in Worker, NEW r \in Request, RedeemInsert(w, r) PROVE Account!Next
  BY <1>1, <1>8, AskAccount
<1>9. ASSUME NEW w \in Worker, \/ \E d \in Delta : AdjustCheck(w, d)
                               \/ AdjustBalance(w)
                               \/ \E t \in Reward : RedeemCheck(w, t)
                               \/ RedeemPrice(w)
                               \/ RedeemFunds(w)
                               \/ Abort(w)
      PROVE  UNCHANGED Account!account
  <2>1. UNCHANGED <<ledger, request, granted>>
    BY <1>9 DEF AdjustCheck, AdjustBalance, RedeemCheck, RedeemPrice, RedeemFunds, Abort
  <2>2. QED
    BY <1>2, <2>1
<1>10. QED
  BY <1>3, <1>4, <1>5, <1>6, <1>7, <1>8, <1>9
     DEF Next, Route, AdjustPoints, Redeem, DecideRedemptionRequest

\* PointsAreKept: however many adjustments are caught between their statements and however
\* rewards are edited under their requests, what the ledger, the balance and the requests
\* do together is what PointsAccount does.
THEOREM PointsAlwaysKept == Spec => PointsAreKept
<1>1. AccountInv /\ [Next]_vars => [Account!Next]_Account!account
  BY AccountNext
<1>2. Spec => Account!Spec
  BY <1>1, AccountInvInit, AccountInvNext, AccountInit, PTL DEF Spec, Account!Spec
<1>3. QED
  BY <1>2 DEF PointsAreKept

=============================================================================
