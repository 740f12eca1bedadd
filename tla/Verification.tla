---------------------------- MODULE Verification ----------------------------
(***************************************************************************)
(* Verification codes and proof submissions of one link:                    *)
(* src/domain/verification/{codes,policy}.rs, submit and review of          *)
(* src/domain/proofs/mod.rs, and the issuance tick of src/main.rs.          *)
(*                                                                         *)
(* request_on_demand and the tick look for a live code and insert one with  *)
(* no transaction; submit loads the code before it stores the files and     *)
(* opens the transaction that inserts the submission and consumes the code. *)
(***************************************************************************)
EXTENDS Integers, FiniteSets

CONSTANTS
    Code,           \* ids of rows of verification_codes
    Submission,     \* ids of rows of proof_submissions, purpose 'verification'
    Policy,         \* the policies a keyholder may set
    DefaultPolicy,  \* the on-demand policy a new link has
    Worker,         \* pool threads of the submissive's requests
    NoCode, NoSubmission,
    Null,           \* SQL NULL, for times
    Day,            \* the length of a day, in ticks of the issuance task
    Window,         \* the hash-derived minute of random_within_window, by day
    Requester,      \* bound: the workers that may also ask for a code
    MaxTime         \* bound of the clock

Kinds == {"on_demand_only", "interval_hours", "fixed_times_daily", "random_within_window"}
Daily == {"fixed_times_daily", "random_within_window"}

\* every: the interval; times: the minutes of the day; onDemand: allow_on_demand.
Policies == [kind : Kinds, every : Nat, times : SUBSET Nat, onDemand : BOOLEAN,
             ttl : Nat, grace : Nat]

ASSUME VerificationAssumption ==
    /\ NoCode \notin Code
    /\ NoSubmission \notin Submission
    /\ Null \notin Int
    /\ \A p \in Policy : p.kind \in Kinds /\ p.every \in Nat /\ p.onDemand \in BOOLEAN
                         /\ p.ttl \in Nat /\ p.grace \in Nat
    /\ DefaultPolicy \in Policy
    /\ Day \in Nat \ {0}
    /\ Requester \subseteq Worker /\ IsFiniteSet(Requester)
    /\ MaxTime \in Nat

VARIABLES
    now,        \* the wall clock
    policy,     \* the link's row of verification_policies
    code,       \* table verification_codes
    sub,        \* table proof_submissions
    tick,       \* the issuance task: what its tick has read
    job         \* per worker: the handler in flight and what it has read

vars == <<now, policy, code, sub, tick, job>>

\* by (history): the kind of policy the tick issued it under, or "request".
AbsentCode == [issued |-> Null, expires |-> Null, consumedBy |-> NoSubmission,
               by |-> "request"]
AbsentSub == [status |-> "absent", code |-> NoCode, redoOf |-> NoSubmission]
IdleTick == [step |-> "idle", last |-> Null, policy |-> DefaultPolicy]
IdleJob == [step |-> "idle", ttl |-> 0, code |-> NoCode, redoOf |-> NoSubmission]

TypeOK ==
    /\ now \in Nat
    /\ policy \in Policy
    /\ code \in [Code -> [issued : Nat \cup {Null}, expires : Nat \cup {Null},
                          consumedBy : Submission \cup {NoSubmission},
                          by : Kinds \cup {"request"}]]
    /\ sub \in [Submission ->
                   [status : {"absent", "pending", "verified", "redo", "failed"},
                    code : Code \cup {NoCode},
                    redoOf : Submission \cup {NoSubmission}]]
    /\ tick \in [step : {"idle", "selected", "insert"}, last : Nat \cup {Null},
                 policy : Policy]
    /\ job \in [Worker ->
                   [step : {"idle", "insert", "commit"}, ttl : Nat,
                    code : Code \cup {NoCode}, redoOf : Submission \cup {NoSubmission}]]

Init ==
    /\ now = Day - 1
    /\ policy = DefaultPolicy
    /\ code = [c \in Code |-> AbsentCode]
    /\ sub = [s \in Submission |-> AbsentSub]
    /\ tick = IdleTick
    /\ job = [w \in Worker |-> IdleJob]

Issued == {c \in Code : code[c].issued # Null}
Live(c) ==
    /\ code[c].issued # Null
    /\ code[c].consumedBy = NoSubmission
    /\ code[c].expires > now
NoneLive == \A c \in Code : ~Live(c)

\* insert: c is a fresh id.
Insert(c, ttl, by) ==
    /\ c \notin Issued
    /\ code' = [code EXCEPT ![c] = [issued |-> now, expires |-> now + ttl,
                                    consumedBy |-> NoSubmission, by |-> by]]

SetForLink(p) == policy' = p

\* put_policy replaces the whole row: codes and reads in flight keep the old one.
PutPolicy ==
    /\ \E p \in Policy : SetForLink(p)
    /\ UNCHANGED <<now, code, sub, tick, job>>

-----------------------------------------------------------------------------
(* Issuing codes.                                                           *)

AllowsOnDemand(p) == p.kind = "on_demand_only" \/ p.onDemand

RequestCheck(w) ==
    /\ w \in Requester
    /\ job[w].step = "idle"
    /\ NoneLive
    /\ AllowsOnDemand(policy)
    /\ job' = [job EXCEPT ![w] = [IdleJob EXCEPT !.step = "insert", !.ttl = policy.ttl]]
    /\ UNCHANGED <<now, policy, code, sub, tick>>

RequestInsert(w, c) ==
    /\ job[w].step = "insert"
    /\ Insert(c, job[w].ttl, "request")
    /\ job' = [job EXCEPT ![w] = IdleJob]
    /\ UNCHANGED <<now, policy, sub, tick>>

RequestCode(w) == RequestCheck(w) \/ \E c \in Code : RequestInsert(w, c)

DayOf(t) == t \div Day

\* The minutes of the day a daily policy names: those of its list, or the one
\* random_window_target_seconds derives from the link and the date.
TargetMinutes(p) == IF p.kind = "fixed_times_daily" THEN p.times ELSE {Window[DayOf(now)]}

\* Mutant of IsDue: due in every matching minute, whatever was issued that day.
IsDueAgain(p, last) ==
    \/ /\ p.kind = "interval_hours"
       /\ last = Null \/ now - last >= p.every
    \/ p.kind \in Daily /\ now % Day \in TargetMinutes(p)

\* is_due: by interval since the last code, or, for the daily kinds, within the
\* minute and if no code was issued yet that day.
IsDue(p, last) ==
    \/ /\ p.kind = "interval_hours"
       /\ last = Null \/ now - last >= p.every
    \/ /\ p.kind \in Daily
       /\ now % Day \in TargetMinutes(p)
       /\ last = Null \/ DayOf(last) < DayOf(now)

\* The tick's SELECT: the last code of the link, unless the link is paused or over or the
\* oversight is.  Each may change at any time and is read nowhere else: the link is then
\* passed over, which is no step.
IssueSelect ==
    /\ tick.step = "idle"
    /\ tick' = [tick EXCEPT !.step = "selected",
                            !.last = IF Issued = {} THEN Null
                                     ELSE CHOOSE t \in {code[c].issued : c \in Issued} :
                                            \A c \in Issued : t >= code[c].issued]
    /\ UNCHANGED <<now, policy, code, sub, job>>

IssueDecide ==
    /\ tick.step = "selected"
    /\ tick' = IF NoneLive /\ IsDue(policy, tick.last)
               THEN [IdleTick EXCEPT !.step = "insert", !.policy = policy]
               ELSE IdleTick
    /\ UNCHANGED <<now, policy, code, sub, job>>

IssueInsert(c) ==
    /\ tick.step = "insert"
    /\ Insert(c, tick.policy.ttl, tick.policy.kind)
    /\ tick' = IdleTick
    /\ UNCHANGED <<now, policy, sub, job>>

-----------------------------------------------------------------------------
(* Submitting and reviewing a proof.                                        *)

Redeemable(c) ==
    /\ code[c].issued # Null
    /\ code[c].consumedBy = NoSubmission
    /\ code[c].expires + policy.grace > now

\* c = NoCode: an unscheduled note; r = NoSubmission: not a redo.
SubmitLoad(w, c, r) ==
    /\ job[w].step = "idle"
    /\ c # NoCode => Redeemable(c)
    /\ r # NoSubmission => sub[r].status = "redo"
    /\ job' = [job EXCEPT ![w] = [IdleJob EXCEPT !.step = "commit", !.code = c, !.redoOf = r]]
    /\ UNCHANGED <<now, policy, code, sub, tick>>

\* Mutant of SubmitCommit: the code is not consumed with the insert.
SubmitWithoutConsuming(w, s) ==
    /\ job[w].step = "commit"
    /\ sub[s].status = "absent"
    /\ sub' = [sub EXCEPT ![s] = [status |-> "pending", code |-> job[w].code,
                                  redoOf |-> job[w].redoOf]]
    /\ job' = [job EXCEPT ![w] = IdleJob]
    /\ UNCHANGED <<now, policy, code, tick>>

\* consume does not ask that the code is unconsumed.
Consume(c, s) == code' = [code EXCEPT ![c].consumedBy = s]

SubmitCommit(w, s) ==
    LET c == job[w].code IN
    /\ job[w].step = "commit"
    /\ sub[s].status = "absent"
    /\ sub' = [sub EXCEPT ![s] = [status |-> "pending", code |-> c,
                                  redoOf |-> job[w].redoOf]]
    /\ IF c = NoCode THEN UNCHANGED code ELSE Consume(c, s)
    /\ job' = [job EXCEPT ![w] = IdleJob]
    /\ UNCHANGED <<now, policy, tick>>

\* A file is not stored, or the transaction fails: the code stays unconsumed.
Abandon(w) ==
    /\ job[w].step # "idle"
    /\ job' = [job EXCEPT ![w] = IdleJob]
    /\ UNCHANGED <<now, policy, code, sub, tick>>

SubmitProof(w) ==
    \/ \E c \in Code \cup {NoCode}, r \in Submission \cup {NoSubmission} : SubmitLoad(w, c, r)
    \/ \E s \in Submission : SubmitCommit(w, s)
    \/ Abandon(w)

\* Mutant of Review: it writes the status of an assignment.
ReviewAsAssignment(s, verdict) ==
    /\ sub[s].status = "pending"
    /\ sub' = [sub EXCEPT ![s].status = IF verdict = "verified" THEN "completed" ELSE verdict]
    /\ UNCHANGED <<now, policy, code, tick, job>>

Review(s, verdict) ==
    /\ sub[s].status = "pending"
    /\ sub' = [sub EXCEPT ![s].status = verdict]
    /\ UNCHANGED <<now, policy, code, tick, job>>

ReviewSubmission == \E s \in Submission, v \in {"verified", "redo", "failed"} : Review(s, v)

-----------------------------------------------------------------------------
Tick ==
    /\ now < MaxTime
    /\ now' = now + 1
    /\ UNCHANGED <<policy, code, sub, tick, job>>

\* The process stops: the tick and the requests in flight are lost.
Crash ==
    /\ tick' = IdleTick
    /\ job' = [w \in Worker |-> IdleJob]
    /\ UNCHANGED <<now, policy, code, sub>>

\* The routers of api/verification.rs and api/proofs.rs: the routes that write.
VerificationRoutes == PutPolicy \/ \E w \in Worker : RequestCode(w)
ProofRoutes == (\E w \in Worker : SubmitProof(w)) \/ ReviewSubmission

Next ==
    \/ VerificationRoutes
    \/ ProofRoutes
    \/ IssueSelect \/ IssueDecide \/ (\E c \in Code : IssueInsert(c))
    \/ Tick
    \/ Crash

Spec == Init /\ [][Next]_vars

-----------------------------------------------------------------------------
(* Properties.                                                              *)

\* The check for a live code is not atomic with the insert, but the number of
\* live codes stays bounded: each thread and the tick can slip in one each, so
\* codes cannot be stockpiled beyond that.
LiveCodesBounded ==
    Cardinality({c \in Code : Live(c)}) <= Cardinality(Requester) + 1

\* The schedule never issues early: a code of a daily policy comes on a later day
\* than every code the tick issued before it, whatever policies were set and codes
\* requested in between, and however long the tick takes.  (An interval of zero may
\* follow a daily code at once, so only two daily codes may not share an instant.)
DailyCodesOnDifferentDays ==
    \A c, d \in Issued :
        /\ c # d
        /\ code[c].by # "request"
        /\ code[d].by \in Daily
        /\ \/ code[c].issued < code[d].issued
           \/ code[c].by \in Daily /\ code[c].issued = code[d].issued
        => DayOf(code[c].issued) < DayOf(code[d].issued)

\* No request and no tick makes more codes than the policy allows, at once or in a day.
CodesBounded == LiveCodesBounded /\ DailyCodesOnDifferentDays

\* A submission that cites a code has consumed it, and a consumed code names a
\* submission that cites it: the two writes cannot come apart, whatever the crash.
CodesAndSubmissionsAgree ==
    /\ \A s \in Submission : sub[s].code # NoCode => code[sub[s].code].consumedBy # NoSubmission
    /\ \A c \in Code : code[c].consumedBy # NoSubmission => sub[code[c].consumedBy].code = c

\* A redo answers a submission that is, and stays, in 'redo', though its status is
\* read before the files are stored: following redo_of_submission_id never ends at
\* a submission that was settled.
RedoAnswersRedo ==
    \A s \in Submission :
        sub[s].redoOf # NoSubmission => sub[sub[s].redoOf].status = "redo"

\* What a submission refers to, its code and the one it redoes, bears it out for ever.
SubmissionsAgree == CodesAndSubmissionsAgree /\ RedoAnswersRedo

\* docs/04-verification-workflow.md: "a code can never be double-consumed even
\* under concurrent requests".
CodeConsumedOnce ==
    \A c \in Code : Cardinality({s \in Submission : sub[s].code = c}) <= 1
=============================================================================
