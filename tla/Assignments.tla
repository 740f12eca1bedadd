----------------------------- MODULE Assignments -----------------------------
(***************************************************************************)
(* The life of the rows of table `assignments` of ONE keyholder/submissive *)
(* link: src/domain/rewards_punishments/assignments.rs, the part of        *)
(* src/domain/proofs/mod.rs that decides a submission, and the oversight   *)
(* pause of src/domain/links/mod.rs that freezes and shifts the deadlines.  *)
(*                                                                         *)
(* Atomicity.  Every handler runs on a pool thread (`spawn_blocking`) with *)
(* a pooled SQLite connection.  A function that opens a transaction is one *)
(* action here: SQLite runs it serializably or rolls it back, and a roll   *)
(* back changes nothing.  A function without one is one action per         *)
(* statement, and what it read is kept in the worker's `job`.              *)
(***************************************************************************)
EXTENDS Integers, FiniteSets

CONSTANTS
    Assignment,     \* ids of rows of `assignments` that may come to exist
    Submission,     \* ids of rows of `proof_submissions` for task proofs
    Template,       \* merged (request, catalog template) descriptions
    Worker,         \* blocking-pool threads serving requests
    NoAssignment, NoSubmission, NoTemplate,
    Form,           \* kind/effect_kind/completion_type of a template
    Secs,           \* default_deadline_seconds
    Scored,         \* points_delta IS NOT NULL (points enabled on the link)
    OnSuccess,      \* on_success_template_id
    OnFailure,      \* on_failure_template_id
    Requests,       \* bound: the multi-statement handlers a worker serves
    MaxTime         \* bound of the clock

Edits == {"edit_deadline", "edit_escalation"}
TaskForms == {"acknowledge_only", "proof_required"}     \* kind = 'task'
Forms == TaskForms \cup {"grant", "immediate"}          \* reward/punishment

ASSUME ConstantsAssumption ==
    /\ NoAssignment \notin Assignment
    /\ NoSubmission \notin Submission
    /\ NoTemplate \notin Template
    /\ Form \in [Template -> Forms]
    /\ Secs \in [Template -> Nat]
    /\ Scored \in [Template -> BOOLEAN]
    /\ OnSuccess \in [Template -> Template \cup {NoTemplate}]
    /\ OnFailure \in [Template -> Template \cup {NoTemplate}]
    /\ Requests \in [Worker -> SUBSET (Edits \cup {"submit", "oversight"})]
    /\ MaxTime \in Nat

VARIABLES
    now,        \* the wall clock, in the unit of the deadlines
    row,        \* table assignments
    sub,        \* table proof_submissions, purpose = 'punishment_completion'
    awards,     \* number of points_ledger rows that cite an assignment
    autoFailed, \* assignments with an `assignment.auto_failed` audit entry
    paused,     \* keyholder_submissive_links.oversight_paused_at
    todo,       \* the sweeper's `overdue` list, what is left of it
    job,        \* per worker: the handler in flight and what it has read
    shifted     \* history: total shift of the deadlines for the latest pause

vars == <<now, row, sub, awards, autoFailed, paused, todo, job, shifted>>

Null == -1      \* SQL NULL, for timestamps

Status == {"assigned", "acknowledged", "proof_submitted",
           "completed", "failed", "revoked", "applied"}
Rows == [status : Status \cup {"absent"}, form : Forms,
         deadline : Nat \cup {Null}, scored : BOOLEAN,
         onSuccess : Template \cup {NoTemplate},
         onFailure : Template \cup {NoTemplate},
         from : Assignment \cup {NoAssignment},
         proof : Submission \cup {NoSubmission}, left : Int]
Subs == [status : {"absent", "pending", "verified", "redo", "failed"},
         of : Assignment \cup {NoAssignment}]
Jobs == [op : {"idle", "submit", "edit_deadline", "edit_escalation",
               "resume_shift", "resume_clear"},
         on : Assignment \cup {NoAssignment}, elapsed : Nat]

AbsentRow == [status |-> "absent", form |-> "grant", deadline |-> Null,
              scored |-> FALSE, onSuccess |-> NoTemplate,
              onFailure |-> NoTemplate, from |-> NoAssignment,
              proof |-> NoSubmission, left |-> 0]
AbsentSub == [status |-> "absent", of |-> NoAssignment]
Idle == [op |-> "idle", on |-> NoAssignment, elapsed |-> 0]

TypeOK ==
    /\ now \in Nat
    /\ row \in [Assignment -> Rows]
    /\ sub \in [Submission -> Subs]
    /\ awards \in [Assignment -> Nat]
    /\ autoFailed \in SUBSET Assignment
    /\ paused \in Nat \cup {Null}
    /\ todo \in SUBSET Assignment
    /\ job \in [Worker -> Jobs]
    /\ shifted \in Nat

Init ==
    /\ now = 0
    /\ row = [a \in Assignment |-> AbsentRow]
    /\ sub = [s \in Submission |-> AbsentSub]
    /\ awards = [a \in Assignment |-> 0]
    /\ autoFailed = {}
    /\ paused = Null
    /\ todo = {}
    /\ job = [w \in Worker |-> Idle]
    /\ shifted = 0

-----------------------------------------------------------------------------
(* Creating a row, and what settling one writes.                            *)

IsTask(a) == row[a].form \in TaskForms

\* The row `create` inserts for template t.  Field `left` is history: the
\* unpaused time the submissive still has (see Tick).
NewRow(t, parent) ==
    [status |-> IF Form[t] = "immediate" THEN "applied" ELSE "assigned",
     form |-> Form[t],
     deadline |-> IF Form[t] \in TaskForms THEN now + Secs[t] ELSE Null,
     scored |-> Scored[t],
     onSuccess |-> OnSuccess[t], onFailure |-> OnFailure[t],
     from |-> parent, proof |-> NoSubmission, left |-> Secs[t]]

\* Row a moves to status st and, when the chain names a template, a fresh
\* row c is created from it (`escalate`) in the same transaction.
SettleAndEscalate(a, st, t, c) ==
    IF t = NoTemplate
    THEN row' = [row EXCEPT ![a].status = st]
    ELSE /\ row[c].status = "absent"
         /\ row' = [row EXCEPT ![a].status = st, ![c] = NewRow(t, a)]

\* points::award_if_enabled citing row a.
Award(a) ==
    awards' = IF row[a].scored THEN [awards EXCEPT ![a] = @ + 1] ELSE awards

Create(a, t) ==
    /\ row[a].status = "absent"
    /\ row' = [row EXCEPT ![a] = NewRow(t, NoAssignment)]
    /\ UNCHANGED <<now, sub, awards, autoFailed, paused, todo, job, shifted>>

Acknowledge(a) ==
    /\ row[a].status = "assigned"
    /\ row[a].form \in {"acknowledge_only", "grant"}
    /\ row' = [row EXCEPT ![a].status = "acknowledged"]
    /\ UNCHANGED <<now, sub, awards, autoFailed, paused, todo, job, shifted>>

\* resolve, new_status = "completed"
Complete(a, c) ==
    /\ row[a].status = "acknowledged"
    /\ SettleAndEscalate(a, "completed", row[a].onSuccess, c)
    /\ IF IsTask(a) THEN Award(a) ELSE UNCHANGED awards
    /\ UNCHANGED <<now, sub, autoFailed, paused, todo, job, shifted>>

\* Mutant of Revoke: it has no status guard.
RevokeAnyStatus(a) ==
    /\ row[a].status # "absent"
    /\ row' = [row EXCEPT ![a].status = "revoked"]
    /\ UNCHANGED <<now, sub, awards, autoFailed, paused, todo, job, shifted>>

\* resolve, new_status = "revoked"
Revoke(a) ==
    /\ row[a].status \in {"assigned", "acknowledged", "proof_submitted"}
    /\ row' = [row EXCEPT ![a].status = "revoked"]
    /\ UNCHANGED <<now, sub, awards, autoFailed, paused, todo, job, shifted>>

-----------------------------------------------------------------------------
(* Proof of a task: submit_proof reads the row before it stores the files   *)
(* and opens its transaction; review_proof is one transaction.              *)

MaySubmit(a) ==
    /\ row[a].form = "proof_required"
    /\ row[a].status = "assigned"
    /\ now <= row[a].deadline

SubmitCheck(w, a) ==
    /\ "submit" \in Requests[w]
    /\ job[w] = Idle
    /\ MaySubmit(a)
    /\ job' = [job EXCEPT ![w] = [op |-> "submit", on |-> a, elapsed |-> 0]]
    /\ UNCHANGED <<now, row, sub, awards, autoFailed, paused, todo, shifted>>

SubmitCommit(w, s) ==
    /\ job[w].op = "submit"
    /\ sub[s].status = "absent"
    /\ sub' = [sub EXCEPT ![s] = [status |-> "pending", of |-> job[w].on]]
    /\ row' = [row EXCEPT ![job[w].on].status = "proof_submitted",
                          ![job[w].on].proof = s]
    /\ job' = [job EXCEPT ![w] = Idle]
    /\ UNCHANGED <<now, awards, autoFailed, paused, todo, shifted>>

\* Mutant of ReviewVerified: no check that the submission is still pending.
ReviewVerifiedAgain(s, c) ==
    LET a == sub[s].of IN
    /\ sub[s].status # "absent"
    /\ sub' = [sub EXCEPT ![s].status = "verified"]
    /\ SettleAndEscalate(a, "completed", row[a].onSuccess, c)
    /\ Award(a)
    /\ UNCHANGED <<now, autoFailed, paused, todo, job, shifted>>

ReviewVerified(s, c) ==
    LET a == sub[s].of IN
    /\ sub[s].status = "pending"
    /\ sub' = [sub EXCEPT ![s].status = "verified"]
    /\ SettleAndEscalate(a, "completed", row[a].onSuccess, c)
    /\ Award(a)
    /\ UNCHANGED <<now, autoFailed, paused, todo, job, shifted>>

ReviewFailed(s, c) ==
    LET a == sub[s].of IN
    /\ sub[s].status = "pending"
    /\ sub' = [sub EXCEPT ![s].status = "failed"]
    /\ SettleAndEscalate(a, "failed", row[a].onFailure, c)
    /\ Award(a)
    /\ UNCHANGED <<now, autoFailed, paused, todo, job, shifted>>

\* Mutant of ReviewRedo: the task goes back to 'assigned'.
ReviewRedoReassigns(s) ==
    /\ sub[s].status = "pending"
    /\ sub' = [sub EXCEPT ![s].status = "redo"]
    /\ row' = [row EXCEPT ![sub[s].of].status = "assigned"]
    /\ UNCHANGED <<now, awards, autoFailed, paused, todo, job, shifted>>

ReviewRedo(s) ==
    /\ sub[s].status = "pending"
    /\ sub' = [sub EXCEPT ![s].status = "redo"]
    /\ UNCHANGED <<now, row, awards, autoFailed, paused, todo, job, shifted>>

-----------------------------------------------------------------------------
(* Editing an open row: a SELECT of the status, then an UPDATE by id.       *)

Editable == {"assigned", "proof_submitted"}

EditCheck(w, a, op) ==
    /\ job[w] = Idle
    /\ row[a].status \in Editable
    /\ job' = [job EXCEPT ![w] = [op |-> op, on |-> a, elapsed |-> 0]]
    /\ UNCHANGED <<now, row, sub, awards, autoFailed, paused, todo, shifted>>

\* The allowance is redefined: `left` no longer measures it.
EditDeadline(w, d) ==
    /\ job[w].op = "edit_deadline"
    /\ row' = [row EXCEPT ![job[w].on].deadline = d, ![job[w].on].left = -1]
    /\ job' = [job EXCEPT ![w] = Idle]
    /\ UNCHANGED <<now, sub, awards, autoFailed, paused, todo, shifted>>

EditEscalation(w, t) ==
    /\ job[w].op = "edit_escalation"
    /\ row' = [row EXCEPT ![job[w].on].onFailure = t]
    /\ job' = [job EXCEPT ![w] = Idle]
    /\ UNCHANGED <<now, sub, awards, autoFailed, paused, todo, shifted>>

-----------------------------------------------------------------------------
(* Oversight pause.  Pausing is one guarded UPDATE of the link; resuming    *)
(* reads the pause, shifted every open deadline, then clears the pause.      *)

PauseOversight ==
    /\ \E w \in Worker : "oversight" \in Requests[w]
    /\ paused = Null
    /\ paused' = now
    /\ shifted' = 0
    /\ UNCHANGED <<now, row, sub, awards, autoFailed, todo, job>>

\* Mutant of ResumeRead: the operands of the subtraction are swapped.
ResumeReadSwapped(w) ==
    /\ "oversight" \in Requests[w]
    /\ job[w] = Idle
    /\ paused # Null
    /\ shifted <= MaxTime
    /\ job' = [job EXCEPT ![w] = [op |-> "resume_shift", on |-> NoAssignment,
                                  elapsed |-> paused - now]]
    /\ UNCHANGED <<now, row, sub, awards, autoFailed, paused, todo, shifted>>

ResumeRead(w) ==
    /\ "oversight" \in Requests[w]
    /\ job[w] = Idle
    /\ paused # Null
    /\ shifted <= MaxTime        \* bound: a repeated shift has no limit
    /\ job' = [job EXCEPT ![w] = [op |-> "resume_shift", on |-> NoAssignment,
                                  elapsed |-> now - paused]]
    /\ UNCHANGED <<now, row, sub, awards, autoFailed, paused, todo, shifted>>

ShiftedBy(r, d) ==
    IF r.status \in Editable /\ r.deadline # Null
    THEN [r EXCEPT !.deadline = @ + d] ELSE r

ResumeShift(w) ==
    /\ job[w].op = "resume_shift"
    /\ row' = [a \in Assignment |-> ShiftedBy(row[a], job[w].elapsed)]
    /\ job' = [job EXCEPT ![w].op = "resume_clear"]
    /\ shifted' = shifted + job[w].elapsed
    /\ UNCHANGED <<now, sub, awards, autoFailed, paused, todo>>

ResumeClear(w) ==
    /\ job[w].op = "resume_clear"
    /\ paused' = Null
    /\ job' = [job EXCEPT ![w] = Idle]
    /\ UNCHANGED <<now, row, sub, awards, autoFailed, todo, shifted>>

-----------------------------------------------------------------------------
(* The deadline sweeper: one SELECT, then one transaction per row found.    *)

Overdue(a) == IsTask(a) /\ row[a].status = "assigned" /\ row[a].deadline < now

\* Mutants of SweepSelect: the paused link is not left out; an off-by-one.
SweepSelectPaused ==
    /\ todo = {}
    /\ \E a \in Assignment : Overdue(a)
    /\ todo' = {a \in Assignment : Overdue(a)}
    /\ UNCHANGED <<now, row, sub, awards, autoFailed, paused, job, shifted>>
SweepSelectLate ==
    /\ todo = {}
    /\ paused = Null
    /\ todo' = {a \in Assignment : Overdue(a) /\ row[a].deadline + 1 < now}
    /\ todo' # {}
    /\ UNCHANGED <<now, row, sub, awards, autoFailed, paused, job, shifted>>

SweepSelect ==
    /\ todo = {}
    /\ paused = Null
    /\ \E a \in Assignment : Overdue(a)
    /\ todo' = {a \in Assignment : Overdue(a)}
    /\ UNCHANGED <<now, row, sub, awards, autoFailed, paused, job, shifted>>

\* Mutant of AutoFail: the UPDATE has no status guard.
AutoFailAnyStatus(a, c) ==
    /\ a \in todo
    /\ SettleAndEscalate(a, "failed", row[a].onFailure, c)
    /\ autoFailed' = autoFailed \cup {a}
    /\ Award(a)
    /\ todo' = todo \ {a}
    /\ UNCHANGED <<now, sub, paused, job, shifted>>

AutoFail(a, c) ==
    /\ a \in todo
    /\ row[a].status = "assigned"
    /\ SettleAndEscalate(a, "failed", row[a].onFailure, c)
    /\ autoFailed' = autoFailed \cup {a}
    /\ Award(a)
    /\ todo' = todo \ {a}
    /\ UNCHANGED <<now, sub, paused, job, shifted>>

\* The guarded UPDATE changed no row: the sweeper skips it.
SweepSkip(a) ==
    /\ a \in todo
    /\ row[a].status # "assigned"
    /\ todo' = todo \ {a}
    /\ UNCHANGED <<now, row, sub, awards, autoFailed, paused, job, shifted>>

\* A database error ends the tick (`?`); the rest waits for the next one.
SweepAbort ==
    /\ todo # {}
    /\ todo' = {}
    /\ UNCHANGED <<now, row, sub, awards, autoFailed, paused, job, shifted>>

Sweeper ==
    \/ SweepSelect
    \/ \E a, c \in Assignment : AutoFail(a, c)
    \/ \E a \in Assignment : SweepSkip(a)
    \/ SweepAbort

-----------------------------------------------------------------------------
(* Time and crashes.                                                        *)

\* An assigned row's allowance runs while oversight is not paused; while a
\* resume is under way it runs too, for its elapsed time is already read.
Running == paused = Null \/ \E w \in Worker : job[w].op \in {"resume_shift", "resume_clear"}

Aged(r) == IF r.status = "assigned" /\ Running THEN [r EXCEPT !.left = @ - 1] ELSE r

Tick ==
    /\ now < MaxTime
    /\ now' = now + 1
    /\ row' = [a \in Assignment |-> Aged(row[a])]
    /\ UNCHANGED <<sub, awards, autoFailed, paused, todo, job, shifted>>

\* The process stops and is started again: the tables survive, the requests
\* in flight and the sweeper's list do not.
Crash ==
    /\ todo' = {}
    /\ job' = [w \in Worker |-> Idle]
    /\ UNCHANGED <<now, row, sub, awards, autoFailed, paused, shifted>>

Request ==
    \/ \E a \in Assignment, t \in Template : Create(a, t)
    \/ \E a \in Assignment : Acknowledge(a) \/ Revoke(a)
    \/ \E a, c \in Assignment : Complete(a, c)
    \/ \E s \in Submission, c \in Assignment :
          ReviewVerified(s, c) \/ ReviewFailed(s, c)
    \/ \E s \in Submission : ReviewRedo(s)
    \/ PauseOversight

Handler(w) ==
    \/ \E a \in Assignment : SubmitCheck(w, a)
    \/ \E s \in Submission : SubmitCommit(w, s)
    \/ \E a \in Assignment, op \in Edits \cap Requests[w] :
          EditCheck(w, a, op)
    \/ \E d \in 0..MaxTime : EditDeadline(w, d)
    \/ \E t \in Template \cup {NoTemplate} : EditEscalation(w, t)
    \/ ResumeRead(w) \/ ResumeShift(w) \/ ResumeClear(w)

Next ==
    \/ Request
    \/ \E w \in Worker : Handler(w)
    \/ Sweeper
    \/ Tick
    \/ Crash

Spec == Init /\ [][Next]_vars

-----------------------------------------------------------------------------
(* Properties.                                                              *)

Children(a) == {c \in Assignment : row[c].from = a}
Decided(a) == {s \in Submission : sub[s].of = a /\ sub[s].status \in {"verified", "failed"}}

\* While a row is still 'assigned' nothing has happened to it: no proof, no
\* points, no escalation, no auto-failure.  No code path leads back to
\* 'assigned' (neither a redo nor a lost race), so the sweeper's guard on that
\* status is enough to never fail a task somebody has acted on.
AssignedIsUntouched ==
    \A a \in Assignment : row[a].status = "assigned" =>
        /\ awards[a] = 0
        /\ a \notin autoFailed
        /\ Children(a) = {}
        /\ \A s \in Submission : sub[s].of # a

\* A proof_required task reaches 'completed' through a verified submission
\* only: acknowledge and resolve (`completed` needs `acknowledged`) cannot get
\* it there, whatever races with them.
ProofTaskCompletedByVerification ==
    \A a \in Assignment :
        row[a].form = "proof_required" /\ row[a].status = "completed" =>
            \E s \in Submission : sub[s].of = a /\ sub[s].status = "verified"

\* A 'failed' task was either auto-failed on its deadline or has a submission
\* the keyholder judged 'failed' (docs/08 section 4: the two ways a task fails).
FailedHasACause ==
    \A a \in Assignment : row[a].status = "failed" =>
        \/ a \in autoFailed
        \/ \E s \in Submission : sub[s].of = a /\ sub[s].status = "failed"

\* A task in 'proof_submitted' links to a submission of its own that no one
\* has verified or failed: the keyholder's queue shows what the task waits for.
LinkedProofIsOpen ==
    \A a \in Assignment : row[a].status = "proof_submitted" =>
        /\ row[a].proof \in Submission
        /\ sub[row[a].proof].of = a
        /\ sub[row[a].proof].status \in {"pending", "redo"}

\* Without proof submissions the races cannot bite: such a row is settled
\* once, with at most one points entry and one escalation, and none when it
\* was revoked ("revoking isn't a resolution", docs/01-data-model.md).
SettledOnceWithoutProof ==
    \A a \in Assignment : row[a].form # "proof_required" =>
        /\ awards[a] <= 1
        /\ \A c, d \in Children(a) : c = d
        /\ (awards[a] > 0 \/ Children(a) # {}) => row[a].status \in {"completed", "failed"}

\* The points ledger agrees with the decisions taken, even when races decide
\* one task several times: one entry per auto-failure, per judged submission,
\* and per keyholder completion of an acknowledged task.
AwardsMatchDecisions ==
    \A a \in Assignment :
        awards[a] =
            IF row[a].scored /\ IsTask(a)
            THEN Cardinality(Decided(a)) + (IF a \in autoFailed THEN 1 ELSE 0)
                 + (IF row[a].form = "acknowledge_only" /\ row[a].status = "completed" THEN 1 ELSE 0)
            ELSE 0

\* No escalation without a decision: a row has at most as many children as
\* it was decided, so a chain cannot grow by itself.
EscalationsMatchDecisions ==
    \A a \in Assignment :
        Cardinality(Children(a)) <=
            Cardinality(Decided(a)) + (IF a \in autoFailed THEN 1 ELSE 0)
            + (IF row[a].form # "proof_required" /\ row[a].status = "completed" THEN 1 ELSE 0)

\* Whatever pauses, resumes, crashed resumes and sweeps come in between, a task
\* is auto-failed only after its whole allowance has run in unpaused time: a
\* pause never costs the submissive time.  (A deadline edit redefines the allowance,
\* and its row is not measured any more.  The allowance runs while a resume is in flight,
\* so a stale resume that clears a later pause is not held against the sweeper.)
AutoFailAfterAllowance == \A a \in autoFailed : row[a].left < 0

\* Every status is backed by what the parties did: 'assigned' by nothing yet, a proof
\* task's 'completed' by a verified proof, 'failed' by a judged proof or the deadline,
\* 'proof_submitted' by a proof somebody may still judge.
StatusIsBacked ==
    /\ AssignedIsUntouched
    /\ ProofTaskCompletedByVerification
    /\ FailedHasACause
    /\ LinkedProofIsOpen

\* Points and follow-up assignments come from decisions and from nothing else.
OutcomesMatchDecisions == AwardsMatchDecisions /\ EscalationsMatchDecisions

\* Action property: the sweeper fails only a task nobody has acted on at the
\* instant of the failure, however long ago it was selected.
AutoFailsOnlyUntouched ==
    [][\A a \in autoFailed' \ autoFailed :
          /\ row[a].status = "assigned"
          /\ \A s \in Submission : sub[s].of # a]_vars

-----------------------------------------------------------------------------
(* What the rows without a proof promise.                                   *)

WithoutProof(a) == row[a].form # "proof_required"

Stage(a) ==
    IF row[a].status = "absent" THEN "none"
    ELSE IF ~WithoutProof(a) THEN "proof"
    ELSE IF row[a].status \in {"assigned", "acknowledged"} THEN "open"
    ELSE row[a].status

PointsOf(a) == IF WithoutProof(a) THEN awards[a] ELSE 0
FollowUps(a) == IF WithoutProof(a) THEN Children(a) ELSE {}

Life == INSTANCE AssignmentLife WITH
    stage <- [a \in Assignment |-> Stage(a)],
    points <- [a \in Assignment |-> PointsOf(a)],
    followUps <- [a \in Assignment |-> FollowUps(a)]

\* Refinement: such a row is settled at most once, by one step that books its points
\* and creates its follow-up, and is final from then on, whatever submissions, edits,
\* sweeps and crashes overlap (resolve, review_proof, auto_fail_overdue).
SettlesOnceForAll == Life!Spec

-----------------------------------------------------------------------------
(* What the documents say and the code does not do.                         *)

\* docs/01-data-model.md: "a revoked task triggers neither escalation path".
RevokedTriggersNothing ==
    [][\A a \in Assignment : row[a].status = "revoked" =>
          \A c \in Assignment : row'[c].from = a => row[c].from = a]_vars

\* docs/04-verification-workflow.md: after a redo "the submissive submits
\* again via POST /submissive/assignments/{id}/proof".
RedoMayBeResubmitted ==
    \A a \in Assignment :
        /\ row[a].status \in {"assigned", "proof_submitted"}
        /\ row[a].proof # NoSubmission
        /\ now <= row[a].deadline
        /\ \A s \in Submission : sub[s].of = a => sub[s].status = "redo"
        => MaySubmit(a)

-----------------------------------------------------------------------------
(* Fairness: the sweeper is a loop of the server.  Its tick selects and goes *)
(* through the list; an abort or a crash only delays it, so a transaction    *)
(* that is attempted again and again is assumed to commit.  Requests, crashes*)
(* and the clock are not fair; the clock has a bound.                        *)

FairSpec ==
    /\ Spec
    /\ WF_vars(SweepSelect)
    /\ \A a \in Assignment :
          /\ SF_vars(\E c \in Assignment : AutoFail(a, c))
          /\ WF_vars(SweepSkip(a))

\* Liveness: a task that stays overdue on a link that stays unpaused leaves
\* 'assigned'.
OverdueIsSwept ==
    \A a \in Assignment : []<>(~Overdue(a) \/ paused # Null)
=============================================================================
