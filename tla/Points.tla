-------------------------------- MODULE Points --------------------------------
(***************************************************************************)
(* The points of one link: src/domain/points.rs and src/api/points.rs.      *)
(*                                                                         *)
(* Every write goes through award(), an INSERT into the ledger and an UPDATE*)
(* of the cached balance.  Task resolutions and redemption decisions call   *)
(* it in a transaction (one step here); the keyholder's manual adjustment   *)
(* has none, and neither has a redemption request, so they are several.     *)
(***************************************************************************)
EXTENDS Integers, Sequences, FiniteSets, Functions

CONSTANTS
    Request,        \* ids of rows of reward_redemption_requests
    Reward,         \* reward templates of the keyholder
    Worker,         \* pool threads of adjustments and redemption requests
    NoRequest, NoReward,
    Null,           \* SQL NULL: the reward cannot be redeemed
    Cost,           \* points_cost values
    Delta,          \* points of a task resolution or an adjustment
    MaxLedger       \* bound of the number of ledger rows

ASSUME PointsAssumption ==
    /\ NoRequest \notin Request
    /\ NoReward \notin Reward
    /\ Cost \subseteq Nat
    /\ Null \notin Nat
    /\ Delta \subseteq Int
    /\ MaxLedger \in Nat

VARIABLES
    enabled,    \* keyholder_submissive_links.points_enabled
    balance,    \* keyholder_submissive_links.points_balance
    ledger,     \* table point_transactions, in the order of insertion
    reward,     \* the redeemable part of reward_punishment_templates
    request,    \* table reward_redemption_requests
    granted,    \* the requests of the assignments made from a redemption
    job,        \* per worker: the handler in flight and what it has read
    cut         \* history: the deltas of ledger rows whose UPDATE never ran

vars == <<enabled, balance, ledger, reward, request, granted, job, cut>>

Reasons == {"task", "manual_adjustment", "redemption"}
Rows == [delta : Int, reason : Reasons, request : Request \cup {NoRequest}]
Rewards == [cost : Nat \cup {Null}, active : BOOLEAN]
Requests == [status : {"absent", "pending", "approved", "denied"}, cost : Nat,
             reward : Reward \cup {NoReward}]
Jobs == [step : {"idle", "adjust", "balance", "price", "funds", "insert"},
         delta : Int, reward : Reward \cup {NoReward}]
Idle == [step |-> "idle", delta |-> 0, reward |-> NoReward]

TypeOK ==
    /\ enabled \in BOOLEAN
    /\ balance \in Int
    /\ ledger \in Seq(Rows)
    /\ reward \in [Reward -> Rewards]
    /\ request \in [Request -> Requests]
    /\ granted \in [Request -> Nat]
    /\ job \in [Worker -> Jobs]
    /\ cut \in Int

Init ==
    /\ enabled = FALSE
    /\ balance = 0
    /\ ledger = <<>>
    /\ reward \in [Reward -> {[cost |-> c, active |-> TRUE] : c \in Cost \cup {Null}}]
    /\ request = [r \in Request |-> [status |-> "absent", cost |-> 0, reward |-> NoReward]]
    /\ granted = [r \in Request |-> 0]
    /\ job = [w \in Worker |-> Idle]
    /\ cut = 0

Inserted(delta, reason, r) ==
    /\ Len(ledger) < MaxLedger
    /\ ledger' = Append(ledger, [delta |-> delta, reason |-> reason, request |-> r])

Award(delta, reason, r) ==
    /\ Inserted(delta, reason, r)
    /\ balance' = balance + delta

-----------------------------------------------------------------------------
(* Settings, the catalog, and what a resolved task earns or costs.          *)

SetSettings(e) == enabled' = e

\* patch_link_settings: a body without points_enabled switches them off.
PatchLinkSettings ==
    /\ \E e \in BOOLEAN : SetSettings(e)
    /\ UNCHANGED <<balance, ledger, reward, request, granted, job, cut>>

EditReward(t, cost, active) ==
    /\ reward' = [reward EXCEPT ![t] = [cost |-> cost, active |-> active]]
    /\ UNCHANGED <<enabled, balance, ledger, request, granted, job, cut>>

\* Mutant of AwardIfEnabled: award() is called without the switch.
AwardAlways(delta) ==
    /\ Award(delta, "task", NoRequest)
    /\ UNCHANGED <<enabled, reward, request, granted, job, cut>>

AwardIfEnabled(delta) ==
    /\ enabled
    /\ Award(delta, "task", NoRequest)
    /\ UNCHANGED <<enabled, reward, request, granted, job, cut>>

-----------------------------------------------------------------------------
(* manual_adjustment: check, INSERT, UPDATE.                                *)

AdjustCheck(w, delta) ==
    /\ job[w] = Idle
    /\ enabled
    /\ job' = [job EXCEPT ![w] = [Idle EXCEPT !.step = "adjust", !.delta = delta]]
    /\ UNCHANGED <<enabled, balance, ledger, reward, request, granted, cut>>

AdjustInsert(w) ==
    /\ job[w].step = "adjust"
    /\ Inserted(job[w].delta, "manual_adjustment", NoRequest)
    /\ job' = [job EXCEPT ![w].step = "balance"]
    /\ UNCHANGED <<enabled, balance, reward, request, granted, cut>>

AdjustBalance(w) ==
    /\ job[w].step = "balance"
    /\ balance' = balance + job[w].delta
    /\ job' = [job EXCEPT ![w] = Idle]
    /\ UNCHANGED <<enabled, ledger, reward, request, granted, cut>>

-----------------------------------------------------------------------------
(* request_redemption: three reads, then the INSERT.                        *)

RedeemCheck(w, t) ==
    /\ job[w] = Idle
    /\ enabled
    /\ job' = [job EXCEPT ![w] = [Idle EXCEPT !.step = "price", !.reward = t]]
    /\ UNCHANGED <<enabled, balance, ledger, reward, request, granted, cut>>

\* Mutant of RedeemPrice: a reward without a cost is let through.
RedeemUnpriced(w) ==
    LET t == reward[job[w].reward] IN
    /\ job[w].step = "price"
    /\ IF t.active
       THEN job' = [job EXCEPT ![w].step = "funds", ![w].delta = t.cost]
       ELSE job' = [job EXCEPT ![w] = Idle]
    /\ UNCHANGED <<enabled, balance, ledger, reward, request, granted, cut>>

RedeemPrice(w) ==
    LET t == reward[job[w].reward] IN
    /\ job[w].step = "price"
    /\ IF t.active /\ t.cost # Null
       THEN job' = [job EXCEPT ![w].step = "funds", ![w].delta = t.cost]
       ELSE job' = [job EXCEPT ![w] = Idle]
    /\ UNCHANGED <<enabled, balance, ledger, reward, request, granted, cut>>

RedeemFunds(w) ==
    /\ job[w].step = "funds"
    /\ IF balance < job[w].delta
       THEN job' = [job EXCEPT ![w] = Idle]
       ELSE job' = [job EXCEPT ![w].step = "insert"]
    /\ UNCHANGED <<enabled, balance, ledger, reward, request, granted, cut>>

RedeemInsert(w, r) ==
    /\ job[w].step = "insert"
    /\ request[r].status = "absent"
    /\ request' = [request EXCEPT ![r] = [status |-> "pending", cost |-> job[w].delta,
                                          reward |-> job[w].reward]]
    /\ job' = [job EXCEPT ![w] = Idle]
    /\ UNCHANGED <<enabled, balance, ledger, reward, granted, cut>>

\* Mutants of Approve: the points are taken without a ledger row; a denial may
\* be overturned.
ApproveUnlogged(r) ==
    /\ request[r].status = "pending"
    /\ granted' = [granted EXCEPT ![r] = @ + 1]
    /\ balance' = balance - request[r].cost
    /\ request' = [request EXCEPT ![r].status = "approved"]
    /\ UNCHANGED <<enabled, ledger, reward, job, cut>>
ApproveDenied(r) ==
    /\ request[r].status \in {"pending", "denied"}
    /\ granted' = [granted EXCEPT ![r] = @ + 1]
    /\ Award(-request[r].cost, "redemption", r)
    /\ request' = [request EXCEPT ![r].status = "approved"]
    /\ UNCHANGED <<enabled, reward, job, cut>>

\* decide_redemption, a transaction: neither the switch, the price nor the
\* balance is looked at again.
Approve(r) ==
    /\ request[r].status = "pending"
    /\ granted' = [granted EXCEPT ![r] = @ + 1]
    /\ Award(-request[r].cost, "redemption", r)
    /\ request' = [request EXCEPT ![r].status = "approved"]
    /\ UNCHANGED <<enabled, reward, job, cut>>

Deny(r) ==
    /\ request[r].status = "pending"
    /\ request' = [request EXCEPT ![r].status = "denied"]
    /\ UNCHANGED <<enabled, balance, ledger, reward, granted, job, cut>>

\* A statement fails, or the process stops.
Abort(w) ==
    /\ job[w] # Idle
    /\ cut' = cut + (IF job[w].step = "balance" THEN job[w].delta ELSE 0)
    /\ job' = [job EXCEPT ![w] = Idle]
    /\ UNCHANGED <<enabled, balance, ledger, reward, request, granted>>

-----------------------------------------------------------------------------
(* The handlers, with the steps between which others run.                   *)

AdjustPoints(w) ==
    \/ \E d \in Delta : AdjustCheck(w, d)
    \/ AdjustInsert(w)
    \/ AdjustBalance(w)

Redeem(w) ==
    \/ \E t \in Reward : RedeemCheck(w, t)
    \/ RedeemPrice(w)
    \/ RedeemFunds(w)
    \/ \E r \in Request : RedeemInsert(w, r)

DecideRedemptionRequest(r) == Approve(r) \/ Deny(r)

Route(w) ==
    \/ AdjustPoints(w)
    \/ Redeem(w)
    \/ \E r \in Request : DecideRedemptionRequest(r)

Next ==
    \/ PatchLinkSettings
    \/ \E t \in Reward, c \in Cost \cup {Null}, b \in BOOLEAN : EditReward(t, c, b)
    \/ \E d \in Delta : AwardIfEnabled(d)
    \/ \E w \in Worker : Route(w) \/ Abort(w)

Spec == Init /\ [][Next]_vars

-----------------------------------------------------------------------------
(* Properties.                                                              *)

Total == SumFunction([i \in DOMAIN ledger |-> ledger[i].delta])

\* Adjustments between their INSERT and their UPDATE.
Adjusting == {w \in Worker : job[w].step = "balance"}
InFlight == SumFunctionOnSet([w \in Worker |-> job[w].delta], Adjusting)

\* The cached balance is the sum of the ledger ("kept in sync transactionally on
\* every insert"), but for manual adjustments between their two statements and
\* for those that died there: the one caller without a transaction is the only
\* way the two can drift apart, and by exactly its delta.
BalanceIsLedger == balance + InFlight + cut = Total

\* A redemption is settled once: an approved request has exactly one ledger row,
\* of the cost that was asked when the request was made, and one assignment; any
\* other request has neither.
RedeemedOnce ==
    \A r \in Request :
        LET rows == {i \in DOMAIN ledger : ledger[i].request = r} IN
        /\ \A i \in rows : ledger[i].delta = -request[r].cost
        /\ \A i, j \in rows : i = j
        /\ rows # {} <=> request[r].status = "approved"
        /\ granted[r] = IF request[r].status = "approved" THEN 1 ELSE 0

\* The ledger is the truth about both: the balance (points::award) and what was
\* redeemed (points::decide_redemption), whatever is cut short or decided at once.
LedgerAgrees == BalanceIsLedger /\ RedeemedOnce

\* Action property: with points switched off a task resolution writes nothing;
\* the ledger grows only by a decision on a request made while they were on, or
\* by an adjustment that had passed its check.
DisabledEarnsNothing ==
    [][~enabled /\ ledger' # ledger =>
          \/ \E r \in Request : request[r].status = "pending" /\ request'[r].status = "approved"
          \/ \E w \in Worker : job[w].step = "adjust" /\ job'[w].step = "balance"]_vars

-----------------------------------------------------------------------------
(* What the points promise.                                                 *)

Account == INSTANCE PointsAccount WITH
    points <- balance + InFlight + cut,
    claim <- [r \in Request |-> request[r].status],
    price <- [r \in Request |-> request[r].cost],
    grants <- granted

\* Refinement: with an adjustment counted from its INSERT on (whether its UPDATE is
\* still to run or never ran), points move in one step, by the whole of an entry, and
\* a request is decided once and for all at the price it was made at, whatever
\* edits of the reward, adjustments, decisions and crashes overlap.
PointsAreKept == Account!Spec
=============================================================================
