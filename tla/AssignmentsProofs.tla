-------------------------- MODULE AssignmentsProofs --------------------------
(***************************************************************************)
(* Proofs about Assignments, for every set of rows, submissions, templates *)
(* and workers: its invariants and action properties, and that it           *)
(* implements AssignmentLife.                                               *)
(***************************************************************************)
EXTENDS Assignments, FiniteSetTheorems, TLAPS

USE DEF Null

-----------------------------------------------------------------------------
(* Types of the rows written.                                               *)

\* The row `create` inserts is a row of the table.
LEMMA NewRowType ==
    ASSUME NEW t \in Template, NEW p \in Assignment \cup {NoAssignment}, now \in Nat
    PROVE  NewRow(t, p) \in Rows
<1>1. /\ Form[t] \in Forms /\ Secs[t] \in Nat /\ Scored[t] \in BOOLEAN
      /\ OnSuccess[t] \in Template \cup {NoTemplate}
      /\ OnFailure[t] \in Template \cup {NoTemplate}
  BY ConstantsAssumption
<1>2. (IF Form[t] = "immediate" THEN "applied" ELSE "assigned") \in Status \cup {"absent"}
  BY DEF Status
<1>3. (IF Form[t] \in TaskForms THEN now + Secs[t] ELSE Null) \in Nat \cup {Null}
  BY <1>1
<1>4. QED
  BY <1>1, <1>2, <1>3 DEF NewRow, Rows

\* Settling a row, with or without an escalation, keeps the table's type.
LEMMA SettleType ==
    ASSUME TypeOK, NEW a \in Assignment, NEW c \in Assignment,
           NEW st \in Status, NEW t \in Template \cup {NoTemplate},
           SettleAndEscalate(a, st, t, c)
    PROVE  row' \in [Assignment -> Rows]
<1>1. CASE t = NoTemplate
  BY <1>1 DEF SettleAndEscalate, TypeOK, Rows
<1>2. CASE t # NoTemplate
  <2>1. NewRow(t, a) \in Rows
    BY <1>2, NewRowType DEF TypeOK
  <2>2. [row EXCEPT ![a].status = st] \in [Assignment -> Rows]
    BY DEF TypeOK, Rows
  <2>3. QED
    BY <1>2, <2>1, <2>2 DEF SettleAndEscalate, TypeOK
<1>3. QED
  BY <1>1, <1>2

\* One more points entry, or none.
LEMMA AwardType ==
    ASSUME TypeOK, NEW a \in Assignment, Award(a)
    PROVE  awards' \in [Assignment -> Nat]
BY DEF Award, TypeOK

-----------------------------------------------------------------------------
(* What is true of every submission and of every handler in flight; without *)
(* it the type invariant is not inductive, for a review follows `of` and a  *)
(* handler follows `on`.                                                    *)

SubsHaveTasks ==
    \A s \in Submission :
        IF sub[s].status = "absent" THEN sub[s].of = NoAssignment
        ELSE sub[s].of \in Assignment /\ row[sub[s].of].form = "proof_required"

JobsHaveRows ==
    \A w \in Worker :
        /\ job[w].op = "submit" =>
              job[w].on \in Assignment /\ row[job[w].on].form = "proof_required"
        /\ job[w].op \in Edits =>
              job[w].on \in Assignment /\ row[job[w].on].status # "absent"

AbsentIsBlank == \A a \in Assignment : row[a].status = "absent" => row[a] = AbsentRow

TInv == TypeOK /\ SubsHaveTasks /\ JobsHaveRows /\ AbsentIsBlank /\ paused <= now

-----------------------------------------------------------------------------
(* One lemma per shape of step.                                             *)

\* A row keeps its form and does not vanish once it exists; a child of an
\* escalation is taken from the absent rows.
KeepsRows ==
    \A a \in Assignment : row[a].status # "absent" =>
        row'[a].form = row[a].form /\ row'[a].status # "absent"

LEMMA SettleKeepsRows ==
    ASSUME TypeOK, AbsentIsBlank, NEW a \in Assignment, NEW c \in Assignment,
           NEW st \in Status, NEW t \in Template \cup {NoTemplate},
           row[a].status # "absent", SettleAndEscalate(a, st, t, c)
    PROVE  KeepsRows /\ AbsentIsBlank'
<1>1. st # "absent"
  BY DEF Status
<1>2. CASE t = NoTemplate
  BY <1>1, <1>2 DEF SettleAndEscalate, TypeOK, Rows, KeepsRows, AbsentIsBlank, AbsentRow
<1>3. CASE t # NoTemplate
  <2>1. a # c /\ NewRow(t, a).status # "absent"
    BY <1>3 DEF SettleAndEscalate, NewRow
  <2>2. row' = [row EXCEPT ![a] = [row[a] EXCEPT !.status = st], ![c] = NewRow(t, a)]
    BY <1>3 DEF SettleAndEscalate
  <2>3. \A b \in Assignment : row'[b] = IF b = c THEN NewRow(t, a)
                                     ELSE IF b = a THEN [row[a] EXCEPT !.status = st]
                                     ELSE row[b]
    BY <2>1, <2>2 DEF TypeOK
  <2>4. row[c].status = "absent"
    BY <1>3 DEF SettleAndEscalate
  <2>5. row[a] \in Rows
    BY DEF TypeOK
  <2>6. [row[a] EXCEPT !.status = st].form = row[a].form
    BY <2>5 DEF Rows
  <2>7. [row[a] EXCEPT !.status = st].status # "absent"
    BY <2>5, <1>1 DEF Rows
  <2>8. KeepsRows
    BY <2>3, <2>4, <2>6, <2>7 DEF KeepsRows
  <2>9. AbsentIsBlank'
    BY <2>1, <2>3, <2>7 DEF AbsentIsBlank, AbsentRow
  <2>10. QED
    BY <2>8, <2>9
<1>4. QED
  BY <1>2, <1>3

\* Steps that only rewrite the table keep what submissions and handlers rely on.
LEMMA RowsKept ==
    ASSUME TInv, KeepsRows, AbsentIsBlank', UNCHANGED <<sub, job>>
    PROVE  SubsHaveTasks' /\ JobsHaveRows'
<1>1. \A a \in Assignment : row[a].form = "proof_required" => row[a].status # "absent"
  BY DEF TInv, AbsentIsBlank, AbsentRow
<1>2. QED
  BY <1>1 DEF TInv, KeepsRows, SubsHaveTasks, JobsHaveRows

LEMMA CreateTInv ==
    ASSUME TInv, NEW a \in Assignment, NEW t \in Template, Create(a, t)
    PROVE  TInv'
<1>1. NewRow(t, NoAssignment) \in Rows
  BY NewRowType DEF TInv, TypeOK
<1>2. \A b \in Assignment : row'[b] = IF b = a THEN NewRow(t, NoAssignment) ELSE row[b]
  BY DEF Create, TInv, TypeOK
<1>3. NewRow(t, NoAssignment).status # "absent"
  BY DEF NewRow
<1>4. KeepsRows /\ AbsentIsBlank'
  BY <1>2, <1>3 DEF Create, KeepsRows, AbsentIsBlank, TInv
<1>5. TypeOK'
  BY <1>1 DEF Create, TInv, TypeOK
<1>6. QED
  BY <1>4, <1>5, RowsKept DEF Create, TInv

\* A step that only moves row a to an existing status, and its variables.
LEMMA StatusTInv ==
    ASSUME TInv, NEW a \in Assignment, NEW st \in Status,
           row[a].status # "absent", row' = [row EXCEPT ![a].status = st],
           UNCHANGED <<now, sub, awards, autoFailed, paused, todo, job, shifted>>
    PROVE  TInv'
<1>1. SettleAndEscalate(a, st, NoTemplate, a)
  BY DEF SettleAndEscalate
<1>2. KeepsRows /\ AbsentIsBlank' /\ row' \in [Assignment -> Rows]
  BY <1>1, SettleKeepsRows, SettleType DEF TInv
<1>3. QED
  BY <1>2, RowsKept DEF TInv, TypeOK

LEMMA AcknowledgeTInv ==
    ASSUME TInv, NEW a \in Assignment, Acknowledge(a)
    PROVE  TInv'
BY StatusTInv DEF Acknowledge, Status

LEMMA RevokeTInv ==
    ASSUME TInv, NEW a \in Assignment, Revoke(a)
    PROVE  TInv'
BY StatusTInv DEF Revoke, Status

LEMMA CompleteTInv ==
    ASSUME TInv, NEW a \in Assignment, NEW c \in Assignment, Complete(a, c)
    PROVE  TInv'
<1>1. row[a].onSuccess \in Template \cup {NoTemplate} /\ row[a].status # "absent"
  BY DEF Complete, TInv, TypeOK, Rows
<1>2. KeepsRows /\ AbsentIsBlank' /\ row' \in [Assignment -> Rows]
  BY <1>1, SettleKeepsRows, SettleType DEF TInv, Complete, Status
<1>3. awards' \in [Assignment -> Nat]
  BY AwardType DEF Complete, TInv, TypeOK
<1>4. QED
  BY <1>2, <1>3, RowsKept DEF Complete, TInv, TypeOK

LEMMA AutoFailTInv ==
    ASSUME TInv, NEW a \in Assignment, NEW c \in Assignment, AutoFail(a, c)
    PROVE  TInv'
<1>1. row[a].onFailure \in Template \cup {NoTemplate} /\ row[a].status # "absent"
  BY DEF AutoFail, TInv, TypeOK, Rows
<1>2. KeepsRows /\ AbsentIsBlank' /\ row' \in [Assignment -> Rows]
  BY <1>1, SettleKeepsRows, SettleType DEF TInv, AutoFail, Status
<1>3. awards' \in [Assignment -> Nat]
  BY AwardType DEF AutoFail, TInv, TypeOK
<1>4. QED
  BY <1>2, <1>3, RowsKept DEF AutoFail, TInv, TypeOK

\* Judging a submission: what it relies on survives, for its task is kept.
LEMMA JudgeSubs ==
    ASSUME TInv, KeepsRows, AbsentIsBlank', NEW s \in Submission,
           NEW st \in {"verified", "failed", "redo"},
           sub[s].status = "pending", sub' = [sub EXCEPT ![s].status = st],
           UNCHANGED job
    PROVE  SubsHaveTasks' /\ JobsHaveRows' /\ sub' \in [Submission -> Subs]
<1>1. \A a \in Assignment : row[a].form = "proof_required" => row[a].status # "absent"
  BY DEF TInv, AbsentIsBlank, AbsentRow
<1>2. \A z \in Submission : /\ sub'[z].of = sub[z].of
                            /\ sub'[z].status = "absent" <=> sub[z].status = "absent"
  BY DEF TInv, TypeOK, Subs
<1>3. QED
  BY <1>1, <1>2 DEF TInv, TypeOK, Subs, KeepsRows, SubsHaveTasks, JobsHaveRows

LEMMA ReviewVerifiedTInv ==
    ASSUME TInv, NEW s \in Submission, NEW c \in Assignment, ReviewVerified(s, c)
    PROVE  TInv'
<1> DEFINE a == sub[s].of
<1>1. a \in Assignment /\ row[a].status # "absent"
  BY DEF ReviewVerified, TInv, SubsHaveTasks, AbsentIsBlank, AbsentRow
<1>2. row[a].onSuccess \in Template \cup {NoTemplate}
  BY <1>1 DEF TInv, TypeOK, Rows
<1>3. KeepsRows /\ AbsentIsBlank' /\ row' \in [Assignment -> Rows]
  BY <1>1, <1>2, SettleKeepsRows, SettleType DEF TInv, ReviewVerified, Status
<1>4. awards' \in [Assignment -> Nat]
  BY <1>1, AwardType DEF ReviewVerified, TInv
<1>5. SubsHaveTasks' /\ JobsHaveRows' /\ sub' \in [Submission -> Subs]
  BY <1>3, JudgeSubs DEF ReviewVerified
<1>6. QED
  BY <1>3, <1>4, <1>5 DEF ReviewVerified, TInv, TypeOK

LEMMA ReviewFailedTInv ==
    ASSUME TInv, NEW s \in Submission, NEW c \in Assignment, ReviewFailed(s, c)
    PROVE  TInv'
<1> DEFINE a == sub[s].of
<1>1. a \in Assignment /\ row[a].status # "absent"
  BY DEF ReviewFailed, TInv, SubsHaveTasks, AbsentIsBlank, AbsentRow
<1>2. row[a].onFailure \in Template \cup {NoTemplate}
  BY <1>1 DEF TInv, TypeOK, Rows
<1>3. KeepsRows /\ AbsentIsBlank' /\ row' \in [Assignment -> Rows]
  BY <1>1, <1>2, SettleKeepsRows, SettleType DEF TInv, ReviewFailed, Status
<1>4. awards' \in [Assignment -> Nat]
  BY <1>1, AwardType DEF ReviewFailed, TInv
<1>5. SubsHaveTasks' /\ JobsHaveRows' /\ sub' \in [Submission -> Subs]
  BY <1>3, JudgeSubs DEF ReviewFailed
<1>6. QED
  BY <1>3, <1>4, <1>5 DEF ReviewFailed, TInv, TypeOK

LEMMA ReviewRedoTInv ==
    ASSUME TInv, NEW s \in Submission, ReviewRedo(s)
    PROVE  TInv'
<1>1. KeepsRows /\ AbsentIsBlank'
  BY DEF ReviewRedo, KeepsRows, TInv, AbsentIsBlank
<1>2. SubsHaveTasks' /\ JobsHaveRows' /\ sub' \in [Submission -> Subs]
  BY <1>1, JudgeSubs DEF ReviewRedo
<1>3. QED
  BY <1>1, <1>2 DEF ReviewRedo, TInv, TypeOK

\* A handler that only records what it has read.
LEMMA JobTInv ==
    ASSUME TInv, NEW w \in Worker, NEW j \in Jobs, job' = [job EXCEPT ![w] = j],
           j.op = "submit" =>
              j.on \in Assignment /\ row[j.on].form = "proof_required",
           j.op \in Edits =>
              j.on \in Assignment /\ row[j.on].status # "absent",
           UNCHANGED <<now, row, sub, awards, autoFailed, todo, shifted>>,
           paused' \in {paused, Null}
    PROVE  TInv'
<1>1. \A v \in Worker : job'[v] = IF v = w THEN j ELSE job[v]
  BY DEF TInv, TypeOK
<1>2. JobsHaveRows'
  BY <1>1 DEF TInv, JobsHaveRows
<1>3. TypeOK' /\ paused' <= now'
  BY DEF TInv, TypeOK
<1>4. QED
  BY <1>2, <1>3 DEF TInv, SubsHaveTasks, AbsentIsBlank

LEMMA IdleType == Idle \in Jobs
BY DEF Idle, Jobs

LEMMA SubmitCheckTInv ==
    ASSUME TInv, NEW w \in Worker, NEW a \in Assignment, SubmitCheck(w, a)
    PROVE  TInv'
<1> DEFINE j == [op |-> "submit", on |-> a, elapsed |-> 0]
<1>1. j \in Jobs /\ j.on \in Assignment /\ row[j.on].form = "proof_required" /\ j.op \notin Edits
  BY DEF Jobs, SubmitCheck, MaySubmit, Edits
<1>2. QED
  BY <1>1, JobTInv DEF SubmitCheck

LEMMA EditCheckTInv ==
    ASSUME TInv, NEW w \in Worker, NEW a \in Assignment, NEW op \in Edits,
           EditCheck(w, a, op)
    PROVE  TInv'
<1> DEFINE j == [op |-> op, on |-> a, elapsed |-> 0]
<1>1. j \in Jobs /\ j.on = a /\ j.op # "submit" /\ row[a].status # "absent"
  BY DEF Jobs, EditCheck, Editable, Edits
<1>2. QED
  BY <1>1, JobTInv DEF EditCheck

LEMMA ResumeReadTInv ==
    ASSUME TInv, NEW w \in Worker, ResumeRead(w)
    PROVE  TInv'
<1> DEFINE j == [op |-> "resume_shift", on |-> NoAssignment, elapsed |-> now - paused]
<1>1. now - paused \in Nat
  BY DEF ResumeRead, TInv, TypeOK
<1>2. j \in Jobs /\ j.op # "submit" /\ j.op \notin Edits
  BY <1>1 DEF Jobs, Edits
<1>3. QED
  BY <1>2, JobTInv DEF ResumeRead

LEMMA ResumeClearTInv ==
    ASSUME TInv, NEW w \in Worker, ResumeClear(w)
    PROVE  TInv'
BY JobTInv, IdleType DEF ResumeClear, Idle, Edits

LEMMA SubmitCommitTInv ==
    ASSUME TInv, NEW w \in Worker, NEW s \in Submission, SubmitCommit(w, s)
    PROVE  TInv'
<1> DEFINE a == job[w].on
<1>1. a \in Assignment /\ row[a].form = "proof_required"
  BY DEF SubmitCommit, TInv, JobsHaveRows
<1>2. row[a].status # "absent"
  BY <1>1 DEF TInv, AbsentIsBlank, AbsentRow
<1> DEFINE r == [row[a] EXCEPT !.status = "proof_submitted", !.proof = s]
<1>3. r \in Rows /\ r.status = "proof_submitted" /\ r.form = "proof_required"
  <2>1. row[a] \in Rows
    BY <1>1 DEF TInv, TypeOK
  <2>2. r \in Rows /\ r.status = "proof_submitted" /\ r.form = row[a].form
    BY <2>1 DEF Rows, Status
  <2>3. QED
    BY <1>1, <2>2
<1>4. /\ row' \in [Assignment -> Rows]
      /\ row'[a].status = "proof_submitted" /\ row'[a].form = "proof_required"
      /\ \A b \in Assignment : b # a => row'[b] = row[b]
  <2>1. row' = [row EXCEPT ![a] = r]
    BY <1>1 DEF SubmitCommit, TInv, TypeOK
  <2>2. row \in [Assignment -> Rows]
    BY DEF TInv, TypeOK
  <2> HIDE DEF r
  <2>3. QED
    BY <1>1, <1>3, <2>1, <2>2
<1>5. \A b \in Assignment : row'[b].form = row[b].form /\
                            (row'[b].status = "absent" <=> row[b].status = "absent")
  BY <1>1, <1>2, <1>4
<1>6. AbsentIsBlank'
  BY <1>4 DEF TInv, AbsentIsBlank
<1>7. sub' \in [Submission -> Subs]
  BY <1>1 DEF SubmitCommit, TInv, TypeOK, Subs
<1>8. SubsHaveTasks'
  BY <1>1, <1>5 DEF SubmitCommit, TInv, TypeOK, SubsHaveTasks
<1>9. job' \in [Worker -> Jobs] /\ \A v \in Worker : job'[v] = IF v = w THEN Idle ELSE job[v]
  BY IdleType DEF SubmitCommit, TInv, TypeOK
<1>10. JobsHaveRows'
  BY <1>5, <1>9 DEF TInv, JobsHaveRows, Idle, Edits
<1>11. QED
  BY <1>4, <1>6, <1>7, <1>8, <1>9, <1>10 DEF SubmitCommit, TInv, TypeOK

\* An edit rewrites one field of a row that exists; its form and status stay.
LEMMA EditTInv ==
    ASSUME TInv, NEW w \in Worker, row' \in [Assignment -> Rows],
           job[w].op \in Edits,
           \A b \in Assignment : b # job[w].on => row'[b] = row[b],
           row'[job[w].on].form = row[job[w].on].form,
           row'[job[w].on].status = row[job[w].on].status,
           job' = [job EXCEPT ![w] = Idle],
           UNCHANGED <<now, sub, awards, autoFailed, paused, todo, shifted>>
    PROVE  TInv'
<1> DEFINE a == job[w].on
<1>1. a \in Assignment /\ row[a].status # "absent"
  BY DEF TInv, JobsHaveRows
<1>2. \A b \in Assignment : row'[b].form = row[b].form /\ row'[b].status = row[b].status
  OBVIOUS
<1>3. AbsentIsBlank' /\ SubsHaveTasks'
  BY <1>1, <1>2 DEF TInv, AbsentIsBlank, SubsHaveTasks
<1>4. job' \in [Worker -> Jobs] /\ \A v \in Worker : job'[v] = IF v = w THEN Idle ELSE job[v]
  BY IdleType DEF TInv, TypeOK
<1>5. JobsHaveRows'
  BY <1>2, <1>4 DEF TInv, JobsHaveRows, Idle, Edits
<1>6. QED
  BY <1>3, <1>4, <1>5 DEF TInv, TypeOK

\* A new deadline and no remembered allowance keep the type of a row.
LEMMA NewDeadlineType ==
    ASSUME NEW x \in Rows, NEW d \in Nat, NEW l \in Int
    PROVE  [x EXCEPT !.deadline = d, !.left = l] \in Rows
BY DEF Rows

LEMMA EditDeadlineTInv ==
    ASSUME TInv, NEW w \in Worker, NEW d \in 0..MaxTime, EditDeadline(w, d)
    PROVE  TInv'
<1> DEFINE a == job[w].on
<1> DEFINE r == [row[a] EXCEPT !.deadline = d, !.left = -1]
<1>1. job[w].op \in Edits
  BY DEF EditDeadline, Edits
<1>2. a \in Assignment
  BY <1>1 DEF TInv, JobsHaveRows
<1>3. row \in [Assignment -> Rows] /\ row[a] \in Rows
  BY <1>2 DEF TInv, TypeOK
<1>4. d \in Nat
  BY ConstantsAssumption
<1>5. r \in Rows /\ r.form = row[a].form /\ r.status = row[a].status
  <2>1. -1 \in Int
    OBVIOUS
  <2>2. r \in Rows
    BY <1>3, <1>4, <2>1, NewDeadlineType
  <2>3. r.form = row[a].form /\ r.status = row[a].status
    BY <1>3 DEF Rows
  <2>4. QED
    BY <2>2, <2>3
<1>6. row' = [row EXCEPT ![a] = r]
  BY DEF EditDeadline
<1> HIDE DEF r
<1>7. /\ row' \in [Assignment -> Rows]
      /\ row'[a].form = row[a].form
      /\ row'[a].status = row[a].status
      /\ \A b \in Assignment : b # a => row'[b] = row[b]
  BY <1>2, <1>3, <1>5, <1>6
<1>8. QED
  BY <1>1, <1>7, EditTInv DEF EditDeadline

LEMMA EditEscalationTInv ==
    ASSUME TInv, NEW w \in Worker, NEW t \in Template \cup {NoTemplate}, EditEscalation(w, t)
    PROVE  TInv'
<1>1. job[w].op \in Edits
  BY DEF EditEscalation, Edits
<1>2. job[w].on \in Assignment
  BY <1>1 DEF TInv, JobsHaveRows
<1>3. row' = [row EXCEPT ![job[w].on] = [row[job[w].on] EXCEPT !.onFailure = t]]
  BY DEF EditEscalation
<1>4. /\ row' \in [Assignment -> Rows]
      /\ row'[job[w].on].form = row[job[w].on].form
      /\ row'[job[w].on].status = row[job[w].on].status
      /\ \A b \in Assignment : b # job[w].on => row'[b] = row[b]
  BY <1>2, <1>3 DEF TInv, TypeOK, Rows
<1>5. QED
  BY <1>1, <1>4, EditTInv DEF EditEscalation

\* A bulk update of deadlines or allowances: form, status and every absent
\* row stay.
LEMMA BulkTInv ==
    ASSUME TypeOK, SubsHaveTasks, JobsHaveRows, AbsentIsBlank,
           \A b \in Assignment : row'[b].form = row[b].form /\ row'[b].status = row[b].status,
           \A b \in Assignment : row[b].status = "absent" => row'[b] = row[b],
           UNCHANGED sub,
           \A v \in Worker : job'[v].op \in Edits \cup {"submit"} => job'[v] = job[v]
    PROVE  SubsHaveTasks' /\ JobsHaveRows' /\ AbsentIsBlank'
<1>1. SubsHaveTasks' /\ AbsentIsBlank'
  BY DEF SubsHaveTasks, AbsentIsBlank
<1>2. JobsHaveRows'
  BY DEF JobsHaveRows
<1>3. QED
  BY <1>1, <1>2

LEMMA ResumeShiftTInv ==
    ASSUME TInv, NEW w \in Worker, ResumeShift(w)
    PROVE  TInv'
<1>1. job[w] \in Jobs /\ job[w].elapsed \in Nat
  BY DEF TInv, TypeOK, Jobs
<1>2. ASSUME NEW b \in Assignment
      PROVE  /\ ShiftedBy(row[b], job[w].elapsed) \in Rows
             /\ ShiftedBy(row[b], job[w].elapsed).form = row[b].form
             /\ ShiftedBy(row[b], job[w].elapsed).status = row[b].status
             /\ row[b].status = "absent" => ShiftedBy(row[b], job[w].elapsed) = row[b]
  BY <1>1 DEF ShiftedBy, TInv, TypeOK, Rows, Editable
<1>3. \A b \in Assignment : row'[b] = ShiftedBy(row[b], job[w].elapsed)
  BY DEF ResumeShift
<1>4. job' \in [Worker -> Jobs] /\ \A v \in Worker : v # w => job'[v] = job[v]
  BY DEF ResumeShift, TInv, TypeOK, Jobs
<1>5. job'[w].op = "resume_clear"
  BY <1>1 DEF ResumeShift, TInv, TypeOK, Jobs
<1>6. SubsHaveTasks' /\ JobsHaveRows' /\ AbsentIsBlank'
  BY <1>2, <1>3, <1>4, <1>5, BulkTInv DEF ResumeShift, TInv, Edits
<1>7. TypeOK'
  BY <1>1, <1>2, <1>4 DEF ResumeShift, TInv, TypeOK
<1>8. QED
  BY <1>6, <1>7 DEF ResumeShift, TInv

LEMMA TickTInv ==
    ASSUME TInv, Tick
    PROVE  TInv'
<1>1. ASSUME NEW b \in Assignment
      PROVE  /\ Aged(row[b]) \in Rows
             /\ Aged(row[b]).form = row[b].form
             /\ Aged(row[b]).status = row[b].status
             /\ row[b].status = "absent" => Aged(row[b]) = row[b]
  BY DEF Aged, TInv, TypeOK, Rows
<1>2. \A b \in Assignment : row'[b] = Aged(row[b])
  BY DEF Tick
<1>3. SubsHaveTasks' /\ JobsHaveRows' /\ AbsentIsBlank'
  BY <1>1, <1>2, BulkTInv DEF Tick, TInv
<1>4. TypeOK' /\ paused' <= now'
  BY <1>1 DEF Tick, TInv, TypeOK
<1>5. QED
  BY <1>3, <1>4 DEF TInv

\* The sweeper's list, the pause and a crash leave the tables alone.
LEMMA ControlTInv ==
    ASSUME TInv,
           \/ PauseOversight \/ SweepSelect \/ SweepAbort \/ Crash
           \/ \E a \in Assignment : SweepSkip(a)
    PROVE  TInv'
<1>1. CASE Crash
  BY <1>1, IdleType DEF Crash, TInv, TypeOK, SubsHaveTasks, JobsHaveRows,
                        AbsentIsBlank, Idle, Edits
<1>2. CASE PauseOversight
  BY <1>2 DEF PauseOversight, TInv, TypeOK, SubsHaveTasks, JobsHaveRows, AbsentIsBlank
<1>3. CASE SweepSelect \/ SweepAbort \/ \E a \in Assignment : SweepSkip(a)
  BY <1>3 DEF SweepSelect, SweepAbort, SweepSkip, TInv, TypeOK, SubsHaveTasks,
              JobsHaveRows, AbsentIsBlank
<1>4. QED
  BY <1>1, <1>2, <1>3

-----------------------------------------------------------------------------

LEMMA TInvInit == Init => TInv
BY DEF Init, TInv, TypeOK, SubsHaveTasks, JobsHaveRows, AbsentIsBlank, AbsentRow,
       AbsentSub, Idle, Rows, Subs, Jobs, Forms, Edits

LEMMA TInvNext == TInv /\ [Next]_vars => TInv'
<1> SUFFICES ASSUME TInv, [Next]_vars PROVE TInv'
  OBVIOUS
<1>1. CASE Request
  BY <1>1, CreateTInv, AcknowledgeTInv, RevokeTInv, CompleteTInv, ReviewVerifiedTInv,
     ReviewFailedTInv, ReviewRedoTInv, ControlTInv DEF Request
<1>2. ASSUME NEW w \in Worker, Handler(w) PROVE TInv'
  BY <1>2, SubmitCheckTInv, SubmitCommitTInv, EditCheckTInv, EditDeadlineTInv,
     EditEscalationTInv, ResumeReadTInv, ResumeShiftTInv, ResumeClearTInv DEF Handler
<1>3. CASE Sweeper
  BY <1>3, AutoFailTInv, ControlTInv DEF Sweeper
<1>4. CASE Tick
  BY <1>4, TickTInv
<1>5. CASE Crash
  BY <1>5, ControlTInv
<1>6. CASE UNCHANGED vars
  BY <1>6 DEF vars, TInv, TypeOK, SubsHaveTasks, JobsHaveRows, AbsentIsBlank
<1>7. QED
  BY <1>1, <1>2, <1>3, <1>4, <1>5, <1>6 DEF Next

\* Every submission and every handler in flight names a row that exists and,
\* for proofs, one that needs proof.
LEMMA TypeInvariant == Spec => []TInv
BY TInvInit, TInvNext, PTL DEF Spec

\* The tables, the sweeper's list and every handler in flight keep their types.
THEOREM TypeCorrect == Spec => []TypeOK
<1>1. TInv => TypeOK
  BY DEF TInv
<1>2. QED
  BY <1>1, TypeInvariant, PTL

-----------------------------------------------------------------------------
(* The safety invariant.  It is inductive only with what is true of rows    *)
(* that were never settled (OpenIsUntouched) and of which statuses a form   *)
(* can have (FormFits).                                                     *)

Open == {"absent", "assigned", "acknowledged", "applied"}

Untouched(a) ==
    /\ awards[a] = 0
    /\ a \notin autoFailed
    /\ \A c \in Assignment : row[c].from # a
    /\ \A s \in Submission : sub[s].of # a

OpenIsUntouched == \A a \in Assignment : row[a].status \in Open => Untouched(a)

FormFits ==
    \A a \in Assignment :
        /\ row[a].status = "acknowledged" => row[a].form # "proof_required"
        /\ row[a].status = "proof_submitted" => row[a].form = "proof_required"
        /\ row[a].status = "applied" <=> row[a].form = "immediate"

SInv == /\ OpenIsUntouched
        /\ FormFits
        /\ SettledOnceWithoutProof
        /\ FailedHasACause
        /\ ProofTaskCompletedByVerification
        /\ LinkedProofIsOpen

IInv == TInv /\ SInv

\* What settling row a leaves: a in status st, at most one new row, child of a.
LEMMA SettleEffect ==
    ASSUME TInv, NEW a \in Assignment, NEW c \in Assignment, NEW st \in Status,
           NEW t \in Template \cup {NoTemplate}, row[a].status # "absent",
           SettleAndEscalate(a, st, t, c)
    PROVE  /\ row'[a].status = st /\ row'[a].form = row[a].form
           /\ row'[a].from = row[a].from /\ row'[a].proof = row[a].proof
           /\ row'[a].scored = row[a].scored
           /\ \A b \in Assignment \ {a} :
                 \/ row'[b] = row[b]
                 \/ /\ b = c /\ row[b].status = "absent"
                    /\ row'[b].from = a
                    /\ row'[b].status \in {"assigned", "applied"}
                    /\ row'[b].status = "applied" <=> row'[b].form = "immediate"
<1>1. row[a] \in Rows /\ row \in [Assignment -> Rows]
  BY DEF TInv, TypeOK
<1> DEFINE r == [row[a] EXCEPT !.status = st]
<1>2. /\ r.status = st /\ r.form = row[a].form /\ r.from = row[a].from
      /\ r.proof = row[a].proof /\ r.scored = row[a].scored
  BY <1>1 DEF Rows
<1>3. CASE t = NoTemplate
  <2>1. row' = [row EXCEPT ![a] = r]
    BY <1>1, <1>3 DEF SettleAndEscalate
  <2> HIDE DEF r
  <2>2. QED
    BY <1>1, <1>2, <2>1
<1>4. CASE t # NoTemplate
  <2>1. row[c].status = "absent" /\ row' = [row EXCEPT ![a] = r, ![c] = NewRow(t, a)]
    BY <1>1, <1>4 DEF SettleAndEscalate
  <2>2. /\ NewRow(t, a).from = a /\ NewRow(t, a).status \in {"assigned", "applied"}
        /\ NewRow(t, a).status = "applied" <=> NewRow(t, a).form = "immediate"
    BY DEF NewRow
  <2> HIDE DEF r
  <2>3. QED
    BY <1>1, <1>2, <2>1, <2>2
<1>5. QED
  BY <1>3, <1>4

\* Settling a row preserves the safety invariant, given what its three callers
\* (resolve, review_proof, the sweeper) have checked or written besides.
LEMMA SettleSInv ==
    ASSUME IInv, TypeOK', NEW a \in Assignment, NEW c \in Assignment,
           NEW st \in {"completed", "failed"},
           NEW t \in Template \cup {NoTemplate}, row[a].status # "absent",
           SettleAndEscalate(a, st, t, c),
           row[a].form # "proof_required" => row[a].status \in {"assigned", "acknowledged"},
           awards'[a] <= awards[a] + 1,
           \A b \in Assignment \ {a} : awards'[b] = awards[b],
           autoFailed \subseteq autoFailed', autoFailed' \subseteq autoFailed \cup {a},
           \A s \in Submission : /\ sub'[s].of = sub[s].of
                                 /\ \/ sub'[s] = sub[s]
                                    \/ sub[s].of = a /\ sub[s].status = "pending",
           st = "failed" => \/ a \in autoFailed'
                            \/ \E s \in Submission : sub'[s].of = a /\ sub'[s].status = "failed",
           st = "completed" =>
              \/ row[a].form # "proof_required"
              \/ \E s \in Submission : sub'[s].of = a /\ sub'[s].status = "verified"
    PROVE  SInv'
<1>1. st \in Status
  BY DEF Status
<1>2. /\ row'[a].status = st /\ row'[a].form = row[a].form
      /\ row'[a].from = row[a].from /\ row'[a].proof = row[a].proof
      /\ \A b \in Assignment \ {a} :
            \/ row'[b] = row[b]
            \/ /\ b = c /\ row[b].status = "absent"
               /\ row'[b].from = a
               /\ row'[b].status \in {"assigned", "applied"}
               /\ row'[b].status = "applied" <=> row'[b].form = "immediate"
  BY <1>1, SettleEffect DEF IInv
<1>3. \A b \in Assignment \ {a} : \A d \in Assignment : row'[d].from = b => row[d].from = b
  BY <1>2
<1>4. OpenIsUntouched'
  BY <1>2, <1>3 DEF IInv, SInv, OpenIsUntouched, Untouched, Open
<1>5. FormFits'
  BY <1>2 DEF IInv, SInv, FormFits
<1>6. SettledOnceWithoutProof'
  <2> SUFFICES ASSUME NEW b \in Assignment, row'[b].form # "proof_required"
               PROVE  /\ awards'[b] <= 1
                      /\ \A d, e \in Assignment :
                            row'[d].from = b /\ row'[e].from = b => d = e
                      /\ (awards'[b] > 0 \/ \E d \in Assignment : row'[d].from = b)
                            => row'[b].status \in {"completed", "failed"}
    BY DEF SettledOnceWithoutProof, Children
  <2>1. CASE b = a
    <3>1. Untouched(a)
      BY <1>2, <2>1 DEF IInv, SInv, OpenIsUntouched, Open
    <3>2. \A d \in Assignment : row'[d].from = a => d = c
      BY <1>2, <3>1 DEF Untouched
    <3>3. QED
      BY <1>2, <2>1, <3>1, <3>2 DEF Untouched
  <2>2. CASE b # a /\ row'[b] = row[b]
    BY <1>2, <1>3, <2>2 DEF IInv, SInv, SettledOnceWithoutProof, Children
  <2>3. CASE b # a /\ row'[b] # row[b]
    <3>1. row[b].status = "absent" /\ awards'[b] = awards[b]
      BY <1>2, <2>3
    <3>2. Untouched(b)
      BY <3>1 DEF IInv, SInv, OpenIsUntouched, Open
    <3>3. QED
      BY <1>3, <2>3, <3>1, <3>2 DEF Untouched
  <2>4. QED
    BY <2>1, <2>2, <2>3
<1>7. FailedHasACause'
  BY <1>2 DEF IInv, SInv, FailedHasACause
<1>8. ProofTaskCompletedByVerification'
  BY <1>2 DEF IInv, SInv, ProofTaskCompletedByVerification
<1>9. LinkedProofIsOpen'
  BY <1>2 DEF IInv, SInv, LinkedProofIsOpen
<1>10. QED
  BY <1>4, <1>5, <1>6, <1>7, <1>8, <1>9 DEF SInv

LEMMA CompleteSInv ==
    ASSUME IInv, TypeOK', NEW a \in Assignment, NEW c \in Assignment, Complete(a, c)
    PROVE  SInv'
<1>1. /\ row[a].onSuccess \in Template \cup {NoTemplate}
      /\ row[a].form # "proof_required"
  BY DEF Complete, IInv, SInv, FormFits, TInv, TypeOK, Rows
<1>2. /\ awards'[a] <= awards[a] + 1
      /\ \A b \in Assignment \ {a} : awards'[b] = awards[b]
  BY DEF Complete, Award, IInv, TInv, TypeOK
<1>3. QED
  BY <1>1, <1>2, SettleSInv DEF Complete

LEMMA AwardStep ==
    ASSUME TypeOK, NEW a \in Assignment, Award(a)
    PROVE  /\ awards'[a] <= awards[a] + 1
           /\ \A b \in Assignment \ {a} : awards'[b] = awards[b]
BY DEF Award, TypeOK

LEMMA AutoFailSInv ==
    ASSUME IInv, TypeOK', NEW a \in Assignment, NEW c \in Assignment, AutoFail(a, c)
    PROVE  SInv'
<1>1. row[a].onFailure \in Template \cup {NoTemplate}
  BY DEF IInv, TInv, TypeOK, Rows
<1>2. /\ awards'[a] <= awards[a] + 1
      /\ \A b \in Assignment \ {a} : awards'[b] = awards[b]
  BY AwardStep DEF AutoFail, IInv, TInv
<1>3. QED
  BY <1>1, <1>2, SettleSInv DEF AutoFail

\* Judging submission s touches no other submission.
LEMMA JudgeStep ==
    ASSUME TypeOK, NEW s \in Submission, NEW st, sub[s].status = "pending",
           sub' = [sub EXCEPT ![s].status = st]
    PROVE  /\ sub'[s].of = sub[s].of /\ sub'[s].status = st
           /\ \A z \in Submission : /\ sub'[z].of = sub[z].of
                                    /\ \/ sub'[z] = sub[z]
                                       \/ sub[z].of = sub[s].of /\ sub[z].status = "pending"
<1>1. sub[s] \in Subs /\ sub' = [sub EXCEPT ![s] = [sub[s] EXCEPT !.status = st]]
  BY DEF TypeOK
<1> DEFINE r == [sub[s] EXCEPT !.status = st]
<1>2. r.of = sub[s].of /\ r.status = st
  BY <1>1 DEF Subs
<1>3. sub' = [sub EXCEPT ![s] = r]
  BY <1>1
<1> HIDE DEF r
<1>4. QED
  BY <1>2, <1>3 DEF TypeOK

LEMMA ReviewVerifiedSInv ==
    ASSUME IInv, TypeOK', NEW s \in Submission, NEW c \in Assignment, ReviewVerified(s, c)
    PROVE  SInv'
<1> DEFINE a == sub[s].of
<1>1. a \in Assignment /\ row[a].form = "proof_required" /\ row[a].status # "absent"
  BY DEF ReviewVerified, IInv, TInv, SubsHaveTasks, AbsentIsBlank, AbsentRow
<1>2. row[a].onSuccess \in Template \cup {NoTemplate}
  BY <1>1 DEF IInv, TInv, TypeOK, Rows
<1>3. /\ awards'[a] <= awards[a] + 1
      /\ \A b \in Assignment \ {a} : awards'[b] = awards[b]
  BY <1>1, AwardStep DEF ReviewVerified, IInv, TInv
<1>4. /\ sub'[s].of = a /\ sub'[s].status = "verified"
      /\ \A z \in Submission : /\ sub'[z].of = sub[z].of
                               /\ \/ sub'[z] = sub[z]
                                  \/ sub[z].of = a /\ sub[z].status = "pending"
  BY JudgeStep DEF ReviewVerified, IInv, TInv
<1>5. SettleAndEscalate(a, "completed", row[a].onSuccess, c) /\ autoFailed' = autoFailed
  BY DEF ReviewVerified
<1> HIDE DEF a
<1>6. QED
  BY <1>1, <1>2, <1>3, <1>4, <1>5, SettleSInv

LEMMA ReviewFailedSInv ==
    ASSUME IInv, TypeOK', NEW s \in Submission, NEW c \in Assignment, ReviewFailed(s, c)
    PROVE  SInv'
<1> DEFINE a == sub[s].of
<1>1. a \in Assignment /\ row[a].form = "proof_required" /\ row[a].status # "absent"
  BY DEF ReviewFailed, IInv, TInv, SubsHaveTasks, AbsentIsBlank, AbsentRow
<1>2. row[a].onFailure \in Template \cup {NoTemplate}
  BY <1>1 DEF IInv, TInv, TypeOK, Rows
<1>3. /\ awards'[a] <= awards[a] + 1
      /\ \A b \in Assignment \ {a} : awards'[b] = awards[b]
  BY <1>1, AwardStep DEF ReviewFailed, IInv, TInv
<1>4. /\ sub'[s].of = a /\ sub'[s].status = "failed"
      /\ \A z \in Submission : /\ sub'[z].of = sub[z].of
                               /\ \/ sub'[z] = sub[z]
                                  \/ sub[z].of = a /\ sub[z].status = "pending"
  BY JudgeStep DEF ReviewFailed, IInv, TInv
<1>5. SettleAndEscalate(a, "failed", row[a].onFailure, c) /\ autoFailed' = autoFailed
  BY DEF ReviewFailed
<1> HIDE DEF a
<1>6. QED
  BY <1>1, <1>2, <1>3, <1>4, <1>5, SettleSInv

\* A row is created without a parent; its id is fresh.
LEMMA CreateSInv ==
    ASSUME IInv, NEW a \in Assignment, NEW t \in Template, Create(a, t)
    PROVE  SInv'
<1> DEFINE r == NewRow(t, NoAssignment)
<1>1. \A b \in Assignment : row'[b] = IF b = a THEN r ELSE row[b]
  BY DEF Create, IInv, TInv, TypeOK
<1>2. /\ r.from = NoAssignment /\ r.status \in {"assigned", "applied"}
      /\ r.status = "applied" <=> r.form = "immediate"
  BY DEF NewRow
<1>3. Untouched(a) /\ row[a].status = "absent"
  BY DEF Create, IInv, SInv, OpenIsUntouched, Open
<1>4. UNCHANGED <<sub, awards, autoFailed>>
  BY DEF Create
<1> HIDE DEF r
<1>5. \A b, d \in Assignment : row'[d].from = b => row[d].from = b
  BY <1>1, <1>2, ConstantsAssumption
<1>6. Untouched(a)'
  BY <1>3, <1>4, <1>5 DEF Untouched
<1>7. OpenIsUntouched'
  BY <1>1, <1>4, <1>5, <1>6 DEF IInv, SInv, OpenIsUntouched, Untouched
<1>8. FormFits'
  BY <1>1, <1>2 DEF IInv, SInv, FormFits
<1>9. SettledOnceWithoutProof'
  <2> SUFFICES ASSUME NEW b \in Assignment, row'[b].form # "proof_required"
               PROVE  /\ awards'[b] <= 1
                      /\ \A d, e \in Assignment :
                            row'[d].from = b /\ row'[e].from = b => d = e
                      /\ (awards'[b] > 0 \/ \E d \in Assignment : row'[d].from = b)
                            => row'[b].status \in {"completed", "failed"}
    BY DEF SettledOnceWithoutProof, Children
  <2>1. CASE b = a
    BY <1>6, <2>1 DEF Untouched
  <2>2. CASE b # a
    BY <1>1, <1>4, <1>5, <2>2 DEF IInv, SInv, SettledOnceWithoutProof, Children
  <2>3. QED
    BY <2>1, <2>2
<1>10. FailedHasACause' /\ ProofTaskCompletedByVerification' /\ LinkedProofIsOpen'
  BY <1>1, <1>2, <1>4 DEF IInv, SInv, FailedHasACause, ProofTaskCompletedByVerification,
                          LinkedProofIsOpen
<1>11. QED
  BY <1>7, <1>8, <1>9, <1>10 DEF SInv

\* Acknowledging and revoking only move the status, and not to a settled one
\* that needs a cause.
LEMMA StatusSInv ==
    ASSUME IInv, NEW a \in Assignment, NEW st \in {"acknowledged", "revoked"},
           row' = [row EXCEPT ![a].status = st], UNCHANGED <<sub, awards, autoFailed>>,
           row[a].status \in {"assigned", "acknowledged", "proof_submitted"},
           st = "acknowledged" => row[a].status = "assigned" /\ row[a].form # "proof_required"
    PROVE  SInv'
<1> DEFINE r == [row[a] EXCEPT !.status = st]
<1>1. row[a] \in Rows /\ row' = [row EXCEPT ![a] = r]
  BY DEF IInv, TInv, TypeOK
<1>2. r.status = st /\ r.form = row[a].form /\ r.from = row[a].from /\ r.proof = row[a].proof
  BY <1>1 DEF Rows
<1> HIDE DEF r
<1>3. \A b \in Assignment : row'[b] = IF b = a THEN r ELSE row[b]
  BY <1>1 DEF IInv, TInv, TypeOK
<1>4. \A b \in Assignment : row'[b].from = row[b].from /\ row'[b].form = row[b].form
  BY <1>2, <1>3
<1>5. OpenIsUntouched'
  BY <1>2, <1>3, <1>4 DEF IInv, SInv, OpenIsUntouched, Untouched, Open
<1>6. FormFits'
  BY <1>2, <1>3 DEF IInv, SInv, FormFits
<1>7. SettledOnceWithoutProof'
  <2> SUFFICES ASSUME NEW b \in Assignment, row[b].form # "proof_required"
               PROVE  /\ awards[b] <= 1
                      /\ \A d, e \in Assignment : row[d].from = b /\ row[e].from = b => d = e
                      /\ (awards[b] > 0 \/ \E d \in Assignment : row[d].from = b)
                            => row'[b].status \in {"completed", "failed"}
    BY <1>4 DEF SettledOnceWithoutProof, Children
  <2>1. CASE b = a
    <3>1. Untouched(a)
      BY <2>1 DEF IInv, SInv, OpenIsUntouched, Open, FormFits
    <3>2. QED
      BY <2>1, <3>1 DEF Untouched
  <2>2. CASE b # a
    BY <1>3, <2>2 DEF IInv, SInv, SettledOnceWithoutProof, Children
  <2>3. QED
    BY <2>1, <2>2
<1>8. FailedHasACause' /\ ProofTaskCompletedByVerification' /\ LinkedProofIsOpen'
  BY <1>2, <1>3 DEF IInv, SInv, FailedHasACause, ProofTaskCompletedByVerification,
                    LinkedProofIsOpen
<1>9. QED
  BY <1>5, <1>6, <1>7, <1>8 DEF SInv

\* The commit of a submission moves its task, whatever its status was by then,
\* to 'proof_submitted' and links it to the new, pending submission.
LEMMA SubmitCommitSInv ==
    ASSUME IInv, NEW w \in Worker, NEW s \in Submission, SubmitCommit(w, s)
    PROVE  SInv'
<1> DEFINE a == job[w].on
<1> DEFINE r == [row[a] EXCEPT !.status = "proof_submitted", !.proof = s]
<1>1. a \in Assignment /\ row[a].form = "proof_required"
  BY DEF SubmitCommit, IInv, TInv, JobsHaveRows
<1>2. row[a] \in Rows /\ row' = [row EXCEPT ![a] = r]
  BY <1>1 DEF SubmitCommit, IInv, TInv, TypeOK
<1>3. /\ r.status = "proof_submitted" /\ r.form = row[a].form
      /\ r.from = row[a].from /\ r.proof = s
  BY <1>2 DEF Rows
<1>4. /\ sub' = [sub EXCEPT ![s] = [status |-> "pending", of |-> a]]
      /\ sub[s].status = "absent"
      /\ UNCHANGED <<awards, autoFailed>>
  BY DEF SubmitCommit
<1> HIDE DEF r, a
<1>5. \A b \in Assignment : row'[b] = IF b = a THEN r ELSE row[b]
  BY <1>2 DEF IInv, TInv, TypeOK
<1>6. \A b \in Assignment : row'[b].from = row[b].from /\ row'[b].form = row[b].form
  BY <1>3, <1>5
<1>7. \A z \in Submission : z # s => sub'[z] = sub[z]
  BY <1>4 DEF IInv, TInv, TypeOK
<1>8. sub'[s].of = a /\ sub'[s].status = "pending"
  BY <1>4 DEF IInv, TInv, TypeOK
<1>9. OpenIsUntouched'
  BY <1>3, <1>4, <1>5, <1>6, <1>7, <1>8 DEF IInv, SInv, OpenIsUntouched, Untouched, Open
<1>10. FormFits'
  BY <1>1, <1>3, <1>5 DEF IInv, SInv, FormFits
<1>11. SettledOnceWithoutProof'
  BY <1>1, <1>4, <1>5, <1>6 DEF IInv, SInv, SettledOnceWithoutProof, Children
<1>12. FailedHasACause' /\ ProofTaskCompletedByVerification'
  BY <1>3, <1>4, <1>5, <1>7 DEF IInv, SInv, FailedHasACause, ProofTaskCompletedByVerification
<1>13. LinkedProofIsOpen'
  BY <1>3, <1>4, <1>5, <1>7, <1>8 DEF IInv, SInv, LinkedProofIsOpen
<1>14. QED
  BY <1>9, <1>10, <1>11, <1>12, <1>13 DEF SInv

LEMMA ReviewRedoSInv ==
    ASSUME IInv, NEW s \in Submission, ReviewRedo(s)
    PROVE  SInv'
<1>1. /\ sub'[s].status = "redo"
      /\ \A z \in Submission : sub'[z].of = sub[z].of /\ (z = s \/ sub'[z] = sub[z])
  <2>1. /\ sub'[s].of = sub[s].of /\ sub'[s].status = "redo"
        /\ \A z \in Submission : sub'[z].of = sub[z].of
    BY JudgeStep DEF ReviewRedo, IInv, TInv
  <2>2. \A z \in Submission : z = s \/ sub'[z] = sub[z]
    BY DEF ReviewRedo, IInv, TInv, TypeOK
  <2>3. QED
    BY <2>1, <2>2
<1>2. UNCHANGED <<row, awards, autoFailed>> /\ sub[s].status = "pending"
  BY DEF ReviewRedo
<1>3. QED
  BY <1>1, <1>2 DEF IInv, SInv, OpenIsUntouched, Untouched, FormFits, Children,
                    SettledOnceWithoutProof, FailedHasACause,
                    ProofTaskCompletedByVerification, LinkedProofIsOpen

\* Steps that touch deadlines, allowances, escalation targets or no row at all.
Neutral ==
    /\ \A a \in Assignment :
          /\ row'[a].status = row[a].status /\ row'[a].form = row[a].form
          /\ row'[a].from = row[a].from /\ row'[a].proof = row[a].proof
          /\ row'[a].scored = row[a].scored
    /\ UNCHANGED <<sub, awards, autoFailed>>

LEMMA NeutralSInv ==
    ASSUME IInv, Neutral
    PROVE  SInv'
<1>1. OpenIsUntouched' /\ FormFits'
  BY DEF Neutral, IInv, SInv, OpenIsUntouched, Untouched, FormFits
<1>2. SettledOnceWithoutProof'
  BY DEF Neutral, IInv, SInv, SettledOnceWithoutProof, Children
<1>3. FailedHasACause' /\ ProofTaskCompletedByVerification' /\ LinkedProofIsOpen'
  BY DEF Neutral, IInv, SInv, FailedHasACause, ProofTaskCompletedByVerification,
         LinkedProofIsOpen
<1>4. QED
  BY <1>1, <1>2, <1>3 DEF SInv

\* Row a rewritten to a row that differs in its dates and escalations only.
LEMMA EditNeutral ==
    ASSUME TypeOK, NEW a \in Assignment, NEW r,
           row' = [row EXCEPT ![a] = r],
           r.status = row[a].status, r.form = row[a].form,
           r.from = row[a].from, r.proof = row[a].proof, r.scored = row[a].scored,
           UNCHANGED <<sub, awards, autoFailed>>
    PROVE  Neutral
BY DEF TypeOK, Neutral

LEMMA EditDeadlineNeutral ==
    ASSUME TInv, NEW w \in Worker, NEW d \in 0..MaxTime, EditDeadline(w, d)
    PROVE  Neutral
<1> DEFINE a == job[w].on
<1> DEFINE r == [row[a] EXCEPT !.deadline = d, !.left = -1]
<1>1. a \in Assignment
  BY DEF EditDeadline, Edits, TInv, JobsHaveRows
<1>2. row[a] \in Rows /\ row' = [row EXCEPT ![a] = r] /\ UNCHANGED <<sub, awards, autoFailed>>
  BY <1>1 DEF EditDeadline, TInv, TypeOK
<1>3. /\ r.status = row[a].status /\ r.form = row[a].form /\ r.from = row[a].from
      /\ r.proof = row[a].proof /\ r.scored = row[a].scored
  BY <1>2 DEF Rows
<1> HIDE DEF r, a
<1>4. QED
  BY <1>1, <1>2, <1>3, EditNeutral DEF TInv

LEMMA EditEscalationNeutral ==
    ASSUME TInv, NEW w \in Worker, NEW t \in Template \cup {NoTemplate}, EditEscalation(w, t)
    PROVE  Neutral
<1> DEFINE a == job[w].on
<1> DEFINE r == [row[a] EXCEPT !.onFailure = t]
<1>1. a \in Assignment
  BY DEF EditEscalation, Edits, TInv, JobsHaveRows
<1>2. row[a] \in Rows /\ row' = [row EXCEPT ![a] = r] /\ UNCHANGED <<sub, awards, autoFailed>>
  BY <1>1 DEF EditEscalation, TInv, TypeOK
<1>3. /\ r.status = row[a].status /\ r.form = row[a].form /\ r.from = row[a].from
      /\ r.proof = row[a].proof /\ r.scored = row[a].scored
  BY <1>2 DEF Rows
<1> HIDE DEF r, a
<1>4. QED
  BY <1>1, <1>2, <1>3, EditNeutral DEF TInv

LEMMA ResumeShiftNeutral ==
    ASSUME TInv, NEW w \in Worker, ResumeShift(w)
    PROVE  Neutral
BY DEF ResumeShift, ShiftedBy, TInv, TypeOK, Rows, Neutral

LEMMA TickNeutral ==
    ASSUME TInv, Tick
    PROVE  Neutral
BY DEF Tick, Aged, TInv, TypeOK, Rows, Neutral

LEMMA SInvNext == IInv /\ TypeOK' /\ [Next]_vars => SInv'
<1> SUFFICES ASSUME IInv, TypeOK', [Next]_vars PROVE SInv'
  OBVIOUS
<1>1. ASSUME NEW a \in Assignment, Acknowledge(a) PROVE SInv'
  BY <1>1, StatusSInv DEF Acknowledge
<1>2. ASSUME NEW a \in Assignment, Revoke(a) PROVE SInv'
  BY <1>2, StatusSInv DEF Revoke
<1>3. ASSUME PauseOversight PROVE SInv'
  BY <1>3, NeutralSInv DEF PauseOversight, Neutral
<1>4. CASE Request
  BY <1>1, <1>2, <1>3, <1>4, CreateSInv, CompleteSInv, ReviewVerifiedSInv,
     ReviewFailedSInv, ReviewRedoSInv DEF Request
<1>5. ASSUME NEW w \in Worker, Handler(w) PROVE SInv'
  <2>1. ASSUME NEW a \in Assignment, SubmitCheck(w, a) PROVE SInv'
    BY <2>1, NeutralSInv DEF SubmitCheck, Neutral
  <2>2. ASSUME NEW s \in Submission, SubmitCommit(w, s) PROVE SInv'
    BY <2>2, SubmitCommitSInv
  <2>3. ASSUME NEW a \in Assignment, NEW op \in Edits, EditCheck(w, a, op) PROVE SInv'
    BY <2>3, NeutralSInv DEF EditCheck, Neutral
  <2>4. ASSUME NEW d \in 0..MaxTime, EditDeadline(w, d) PROVE SInv'
    BY <2>4, EditDeadlineNeutral, NeutralSInv DEF IInv
  <2>5. ASSUME NEW t \in Template \cup {NoTemplate}, EditEscalation(w, t) PROVE SInv'
    BY <2>5, EditEscalationNeutral, NeutralSInv DEF IInv
  <2>6. CASE ResumeRead(w) \/ ResumeClear(w)
    BY <2>6, NeutralSInv DEF ResumeRead, ResumeClear, Neutral
  <2>7. CASE ResumeShift(w)
    BY <2>7, ResumeShiftNeutral, NeutralSInv DEF IInv
  <2>8. QED
    BY <1>5, <2>1, <2>2, <2>3, <2>4, <2>5, <2>6, <2>7 DEF Handler
<1>6. CASE Sweeper
  <2>1. ASSUME SweepSelect \/ SweepAbort \/ \E a \in Assignment : SweepSkip(a) PROVE SInv'
    BY <2>1, NeutralSInv DEF SweepSelect, SweepAbort, SweepSkip, Neutral
  <2>2. QED
    BY <1>6, <2>1, AutoFailSInv DEF Sweeper
<1>7. CASE Tick
  BY <1>7, TickNeutral, NeutralSInv DEF IInv
<1>8. CASE Crash
  BY <1>8, NeutralSInv DEF Crash, Neutral
<1>9. CASE UNCHANGED vars
  BY <1>9, NeutralSInv DEF vars, Neutral
<1>10. QED
  BY <1>4, <1>5, <1>6, <1>7, <1>8, <1>9 DEF Next

LEMMA SInvInit == Init => SInv
BY ConstantsAssumption DEF Init, SInv, OpenIsUntouched, Untouched, FormFits, Children, SettledOnceWithoutProof,
       FailedHasACause, ProofTaskCompletedByVerification, LinkedProofIsOpen,
       AbsentRow, AbsentSub

\* The inductive invariant holds in every reachable state.
LEMMA Invariant == Spec => []IInv
<1>1. Init => IInv
  BY TInvInit, SInvInit DEF IInv
<1>2. IInv /\ [Next]_vars => IInv'
  BY TInvNext, SInvNext DEF IInv, TInv
<1>3. QED
  BY <1>1, <1>2, PTL DEF Spec

\* Rows that need no proof are settled at most once, and revoking them has no
\* consequence.
THEOREM SettledOnce == Spec => []SettledOnceWithoutProof
<1>1. IInv => SettledOnceWithoutProof
  BY DEF IInv, SInv
<1>2. QED
  BY <1>1, Invariant, PTL

\* Whatever races, nothing has happened to an assigned row, a completed proof task has a
\* verified submission, a failed row has a cause, and a task that awaits review links to
\* an open submission.
THEOREM StatusIsAlwaysBacked == Spec => []StatusIsBacked
<1>1. IInv => AssignedIsUntouched
  BY DEF IInv, SInv, OpenIsUntouched, Untouched, Open, AssignedIsUntouched, Children
<1>2. IInv => StatusIsBacked
  BY <1>1 DEF IInv, SInv, StatusIsBacked
<1>3. QED
  BY <1>2, Invariant, PTL

-----------------------------------------------------------------------------
(* The sweeper.                                                             *)

\* Only AutoFail writes an auto-fail audit entry, and its guard on the status,
\* with OpenIsUntouched, says nobody has acted on the task.
THEOREM SweeperFailsOnlyUntouched == Spec => AutoFailsOnlyUntouched
<1> DEFINE P == \A a \in autoFailed' \ autoFailed :
                   /\ row[a].status = "assigned"
                   /\ \A s \in Submission : sub[s].of # a
<1>1. IInv /\ [Next]_vars => [P]_vars
  <2> SUFFICES ASSUME IInv, [Next]_vars, NEW a \in autoFailed' \ autoFailed
               PROVE  /\ row[a].status = "assigned"
                      /\ \A s \in Submission : sub[s].of # a
    OBVIOUS
  <2>1. ASSUME UNCHANGED autoFailed PROVE FALSE
    BY <2>1
  <2>2. CASE Request
    BY <2>1, <2>2 DEF Request, Create, Acknowledge, Revoke, Complete, ReviewVerified,
                      ReviewFailed, ReviewRedo, PauseOversight
  <2>3. ASSUME NEW w \in Worker, Handler(w) PROVE FALSE
    BY <2>1, <2>3 DEF Handler, SubmitCheck, SubmitCommit, EditCheck, EditDeadline,
                      EditEscalation, ResumeRead, ResumeShift, ResumeClear
  <2>4. CASE Sweeper
    <3>1. PICK b, c \in Assignment : AutoFail(b, c)
      BY <2>1, <2>4 DEF Sweeper, SweepSelect, SweepSkip, SweepAbort
    <3>2. a = b /\ row[a].status = "assigned"
      BY <3>1 DEF AutoFail
    <3>3. QED
      BY <3>1, <3>2 DEF IInv, SInv, OpenIsUntouched, Untouched, Open
  <2>5. CASE Tick \/ Crash \/ UNCHANGED vars
    BY <2>1, <2>5 DEF Tick, Crash, vars
  <2>6. QED
    BY <2>2, <2>3, <2>4, <2>5 DEF Next
<1>2. QED
  BY <1>1, Invariant, PTL DEF Spec, AutoFailsOnlyUntouched

-----------------------------------------------------------------------------
(* Points and follow-ups against decisions.  The two sums are kept for each *)
(* row by what a step adds to its decisions; the sweeper's list must name   *)
(* tasks only, for nothing but a task's decision is worth points.           *)

Decisions(a) ==
    Cardinality(Decided(a)) + (IF a \in autoFailed THEN 1 ELSE 0)
    + (IF row[a].form # "proof_required" /\ row[a].status = "completed" THEN 1 ELSE 0)

Balanced(a) ==
    /\ IsFiniteSet(Decided(a)) /\ IsFiniteSet(Children(a))
    /\ awards[a] = IF row[a].scored /\ IsTask(a) THEN Decisions(a) ELSE 0
    /\ Cardinality(Children(a)) <= Decisions(a)

ListsTasks == \A a \in todo : row[a].status # "absent" /\ IsTask(a)

OInv == ListsTasks /\ \A a \in Assignment : Balanced(a)

LEMMA DecisionsType ==
    ASSUME NEW a \in Assignment, IsFiniteSet(Decided(a))
    PROVE  Decisions(a) \in Nat
BY FS_CardinalityType DEF Decisions

\* A row nobody has acted on balances, for there is nothing on either side.
LEMMA UntouchedBalances ==
    ASSUME NEW a \in Assignment, Untouched(a)', row'[a].status # "completed"
    PROVE  Balanced(a)'
<1>1. Decided(a)' = {} /\ Children(a)' = {}
  BY DEF Untouched, Decided, Children
<1>2. Decisions(a)' = 0
  BY <1>1, FS_EmptySet DEF Untouched, Decisions
<1>3. QED
  BY <1>1, <1>2, FS_EmptySet DEF Untouched, Balanced

\* What a row's balance depends on, for a row that is not itself decided.
SameBalance(a) ==
    /\ row'[a].form = row[a].form /\ row'[a].scored = row[a].scored
    /\ row[a].form # "proof_required" =>
          (row'[a].status = "completed" <=> row[a].status = "completed")
    /\ Decided(a)' = Decided(a) /\ Children(a)' = Children(a)
    /\ awards'[a] = awards[a]
    /\ a \in autoFailed' <=> a \in autoFailed

LEMMA SameBalances ==
    ASSUME NEW a \in Assignment, Balanced(a), SameBalance(a)
    PROVE  Balanced(a)'
<1>1. Decisions(a)' = Decisions(a)
  BY DEF SameBalance, Decisions
<1>2. QED
  BY <1>1 DEF SameBalance, Balanced, IsTask

\* A step that adds one decision to row a, books it if it is worth points and adds at most
\* one follow-up keeps the balance.
LEMMA DecisionBalances ==
    ASSUME NEW a \in Assignment, NEW c \in Assignment, Balanced(a),
           IsFiniteSet(Decided(a))', Decisions(a)' = Decisions(a) + 1,
           row'[a].form = row[a].form, row'[a].scored = row[a].scored,
           awards'[a] = IF row[a].scored /\ IsTask(a) THEN awards[a] + 1 ELSE awards[a],
           Children(a)' \subseteq Children(a) \cup {c}
    PROVE  Balanced(a)'
<1>1. Decisions(a) \in Nat
  BY DecisionsType DEF Balanced
<1>2. /\ IsFiniteSet(Children(a)')
      /\ Cardinality(Children(a)') <= Cardinality(Children(a)) + 1
      /\ Cardinality(Children(a)) \in Nat /\ Cardinality(Children(a)') \in Nat
  <2>1. IsFiniteSet(Children(a))
    BY DEF Balanced
  <2>2. /\ IsFiniteSet(Children(a) \cup {c})
        /\ Cardinality(Children(a) \cup {c}) <= Cardinality(Children(a)) + 1
        /\ Cardinality(Children(a)) \in Nat
    <3>1. Cardinality(Children(a)) \in Nat
      BY <2>1, FS_CardinalityType
    <3>2. /\ IsFiniteSet(Children(a) \cup {c})
          /\ Cardinality(Children(a) \cup {c}) =
               IF c \in Children(a) THEN Cardinality(Children(a)) ELSE Cardinality(Children(a)) + 1
      BY <2>1, FS_AddElement, Zenon
    <3>3. QED
      BY <3>1, <3>2
  <2>3. /\ IsFiniteSet(Children(a)')
        /\ Cardinality(Children(a)') <= Cardinality(Children(a) \cup {c})
    BY <2>2, FS_Subset
  <2>4. Cardinality(Children(a)') \in Nat /\ Cardinality(Children(a) \cup {c}) \in Nat
    BY <2>2, <2>3, FS_CardinalityType
  <2>5. QED
    BY <2>2, <2>3, <2>4
<1>3. IsTask(a)' <=> IsTask(a)
  BY DEF IsTask
<1>4. Cardinality(Children(a)') <= Decisions(a)'
  BY <1>1, <1>2 DEF Balanced
<1>5. awards'[a] = IF row'[a].scored /\ IsTask(a)' THEN Decisions(a)' ELSE 0
  BY <1>3 DEF Balanced
<1>6. QED
  BY <1>2, <1>4, <1>5 DEF Balanced

\* The follow-ups after row a was settled: its own gain at most c, the others' none.
LEMMA SettleChildren ==
    ASSUME TInv, NEW a \in Assignment, NEW c \in Assignment, NEW st \in Status,
           NEW t \in Template \cup {NoTemplate}, row[a].status # "absent",
           SettleAndEscalate(a, st, t, c)
    PROVE  /\ Children(a)' \subseteq Children(a) \cup {c}
           /\ \A b \in Assignment \ {a} : Children(b)' = Children(b)
<1>1. /\ row'[a].from = row[a].from
      /\ \A b \in Assignment \ {a} :
            \/ row'[b] = row[b]
            \/ b = c /\ row[b].status = "absent" /\ row'[b].from = a
  BY SettleEffect
<1>2. \A b \in Assignment : row[b].status = "absent" => row[b].from = NoAssignment
  BY DEF TInv, AbsentIsBlank, AbsentRow
<1>3. QED
  BY <1>1, <1>2, ConstantsAssumption DEF Children

\* Settling row a keeps every balance, given what its callers have decided and booked.
LEMMA SettleOInv ==
    ASSUME IInv, OInv, IInv', NEW a \in Assignment, NEW c \in Assignment,
           NEW st \in {"completed", "failed"},
           NEW t \in Template \cup {NoTemplate}, row[a].status # "absent",
           SettleAndEscalate(a, st, t, c),
           \A b \in Assignment \ {a} : /\ awards'[b] = awards[b]
                                       /\ Decided(b)' = Decided(b)
                                       /\ b \in autoFailed' <=> b \in autoFailed,
           awards'[a] = IF row[a].scored /\ IsTask(a) THEN awards[a] + 1 ELSE awards[a],
           IsFiniteSet(Decided(a))', Decisions(a)' = Decisions(a) + 1,
           todo' \subseteq todo
    PROVE  OInv'
<1>1. st \in Status
  BY DEF Status
<1>2. /\ row'[a].status = st /\ row'[a].form = row[a].form
      /\ row'[a].scored = row[a].scored
      /\ \A b \in Assignment \ {a} :
            \/ row'[b] = row[b]
            \/ row[b].status = "absent" /\ row'[b].status \in {"assigned", "applied"}
  BY <1>1, SettleEffect DEF IInv
<1>3. /\ Children(a)' \subseteq Children(a) \cup {c}
      /\ \A b \in Assignment \ {a} : Children(b)' = Children(b)
  BY <1>1, SettleChildren DEF IInv
<1>4. Balanced(a)'
  BY <1>2, <1>3, DecisionBalances DEF OInv
<1>5. ASSUME NEW b \in Assignment \ {a} PROVE Balanced(b)'
  <2>1. CASE row'[b] = row[b]
    BY <1>3, <2>1, SameBalances DEF OInv, SameBalance
  <2>2. CASE row[b].status = "absent" /\ row'[b].status \in {"assigned", "applied"}
    <3>1. Untouched(b)'
      BY <2>2 DEF IInv, SInv, OpenIsUntouched, Open
    <3>2. QED
      BY <2>2, <3>1, UntouchedBalances
  <2>3. QED
    BY <1>2, <2>1, <2>2
<1>6. ListsTasks'
  BY <1>2 DEF OInv, ListsTasks, IsTask, IInv, TInv, TypeOK
<1>7. QED
  BY <1>4, <1>5, <1>6 DEF OInv

\* Completing an acknowledged row is one decision, worth points if it is a task.
LEMMA CompleteOInv ==
    ASSUME IInv, OInv, IInv', NEW a \in Assignment, NEW c \in Assignment, Complete(a, c)
    PROVE  OInv'
<1>1. /\ row[a].onSuccess \in Template \cup {NoTemplate} /\ row[a].form # "proof_required"
      /\ row[a].status = "acknowledged"
      /\ SettleAndEscalate(a, "completed", row[a].onSuccess, c)
      /\ UNCHANGED <<sub, autoFailed, todo>>
  BY DEF Complete, IInv, SInv, FormFits, TInv, TypeOK, Rows
<1>2. /\ awards'[a] = IF row[a].scored /\ IsTask(a) THEN awards[a] + 1 ELSE awards[a]
      /\ \A b \in Assignment \ {a} : awards'[b] = awards[b]
  BY DEF Complete, Award, IInv, TInv, TypeOK
<1>3. row'[a].status = "completed" /\ row'[a].form = row[a].form
  BY <1>1, SettleEffect DEF IInv, Status
<1>4. \A b \in Assignment : Decided(b)' = Decided(b)
  BY <1>1 DEF Decided
<1>5. Decisions(a)' = Decisions(a) + 1 /\ IsFiniteSet(Decided(a))'
  <2>1. IsFiniteSet(Decided(a)) /\ Decided(a)' = Decided(a)
    BY <1>4 DEF OInv, Balanced
  <2>2. Cardinality(Decided(a)) \in Nat
    BY <2>1, FS_CardinalityType
  <2>3. QED
    BY <1>1, <1>3, <2>1, <2>2 DEF Decisions
<1>6. QED
  BY <1>1, <1>2, <1>4, <1>5, SettleOInv

\* What award_if_enabled books for a task.
LEMMA AwardExact ==
    ASSUME TypeOK, NEW a \in Assignment, Award(a), IsTask(a)
    PROVE  /\ awards'[a] = IF row[a].scored /\ IsTask(a) THEN awards[a] + 1 ELSE awards[a]
           /\ \A b \in Assignment \ {a} : awards'[b] = awards[b]
BY DEF Award, TypeOK

\* An auto-failure is the first decision about its task.
LEMMA AutoFailOInv ==
    ASSUME IInv, OInv, IInv', NEW a \in Assignment, NEW c \in Assignment, AutoFail(a, c)
    PROVE  OInv'
<1>1. /\ row[a].onFailure \in Template \cup {NoTemplate}
      /\ row[a].status = "assigned" /\ IsTask(a) /\ a \notin autoFailed
      /\ SettleAndEscalate(a, "failed", row[a].onFailure, c)
      /\ autoFailed' = autoFailed \cup {a} /\ todo' \subseteq todo /\ UNCHANGED sub
  BY DEF AutoFail, IInv, SInv, OpenIsUntouched, Untouched, Open, TInv, TypeOK, Rows, OInv, ListsTasks
<1>2. /\ awards'[a] = IF row[a].scored /\ IsTask(a) THEN awards[a] + 1 ELSE awards[a]
      /\ \A b \in Assignment \ {a} : awards'[b] = awards[b]
  BY <1>1, AwardExact DEF AutoFail, IInv, TInv
<1>3. row'[a].status = "failed"
  BY <1>1, SettleEffect DEF IInv, Status
<1>4. \A b \in Assignment : Decided(b)' = Decided(b)
  BY <1>1 DEF Decided
<1>5. Decisions(a)' = Decisions(a) + 1 /\ IsFiniteSet(Decided(a))'
  <2>1. IsFiniteSet(Decided(a)) /\ Decided(a)' = Decided(a)
    BY <1>4 DEF OInv, Balanced
  <2>2. Cardinality(Decided(a)) \in Nat
    BY <2>1, FS_CardinalityType
  <2>3. QED
    BY <1>1, <1>3, <2>1, <2>2 DEF Decisions
<1>6. QED
  BY <1>1, <1>2, <1>4, <1>5, SettleOInv

\* A verdict on a pending submission adds it to the decided ones of its task, and to no
\* other row's.
LEMMA VerdictDecides ==
    ASSUME IInv, OInv, NEW s \in Submission, NEW st \in {"verified", "failed"},
           sub[s].status = "pending", sub' = [sub EXCEPT ![s].status = st],
           UNCHANGED autoFailed, NEW a \in Assignment, sub[s].of = a,
           row'[a].form = row[a].form, row[a].form = "proof_required"
    PROVE  /\ \A b \in Assignment \ {a} : Decided(b)' = Decided(b)
           /\ IsFiniteSet(Decided(a))' /\ Decisions(a)' = Decisions(a) + 1
<1>1. /\ sub'[s].of = a /\ sub'[s].status = st
      /\ \A z \in Submission \ {s} : sub'[z] = sub[z]
  BY JudgeStep DEF IInv, TInv, TypeOK
<1>2. \A b \in Assignment \ {a} : Decided(b)' = Decided(b)
  BY <1>1 DEF Decided
<1>3. Decided(a)' = Decided(a) \cup {s} /\ s \notin Decided(a)
  BY <1>1 DEF Decided
<1>4. IsFiniteSet(Decided(a)) /\ Cardinality(Decided(a)) \in Nat
  BY FS_CardinalityType DEF OInv, Balanced
<1>5. IsFiniteSet(Decided(a)') /\ Cardinality(Decided(a)') = Cardinality(Decided(a)) + 1
  BY <1>3, <1>4, FS_AddElement
<1>6. QED
  BY <1>2, <1>4, <1>5 DEF Decisions

LEMMA ReviewVerifiedOInv ==
    ASSUME IInv, OInv, IInv', NEW s \in Submission, NEW c \in Assignment, ReviewVerified(s, c)
    PROVE  OInv'
<1>1. PICK a \in Assignment : /\ sub[s].of = a /\ row[a].form = "proof_required"
                              /\ row[a].status # "absent" /\ IsTask(a)
  BY DEF ReviewVerified, IInv, TInv, SubsHaveTasks, AbsentIsBlank, AbsentRow, IsTask, TaskForms
<1>2. row[a].onSuccess \in Template \cup {NoTemplate}
  BY <1>1 DEF IInv, TInv, TypeOK, Rows
<1>3. /\ sub[s].status = "pending" /\ sub' = [sub EXCEPT ![s].status = "verified"]
      /\ SettleAndEscalate(a, "completed", row[a].onSuccess, c) /\ Award(a)
      /\ UNCHANGED <<autoFailed, todo>>
  BY <1>1 DEF ReviewVerified
<1>5. row'[a].form = row[a].form
  BY <1>1, <1>2, <1>3, SettleEffect DEF IInv, Status
<1>6. /\ \A b \in Assignment \ {a} : Decided(b)' = Decided(b)
      /\ IsFiniteSet(Decided(a))' /\ Decisions(a)' = Decisions(a) + 1
  BY <1>1, <1>3, <1>5, VerdictDecides
<1>7. /\ awards'[a] = IF row[a].scored /\ IsTask(a) THEN awards[a] + 1 ELSE awards[a]
      /\ \A b \in Assignment \ {a} : awards'[b] = awards[b]
  BY <1>1, <1>3, AwardExact DEF IInv, TInv
<1>8. QED
  BY <1>1, <1>2, <1>3, <1>6, <1>7, SettleOInv

LEMMA ReviewFailedOInv ==
    ASSUME IInv, OInv, IInv', NEW s \in Submission, NEW c \in Assignment, ReviewFailed(s, c)
    PROVE  OInv'
<1>1. PICK a \in Assignment : /\ sub[s].of = a /\ row[a].form = "proof_required"
                              /\ row[a].status # "absent" /\ IsTask(a)
  BY DEF ReviewFailed, IInv, TInv, SubsHaveTasks, AbsentIsBlank, AbsentRow, IsTask, TaskForms
<1>2. row[a].onFailure \in Template \cup {NoTemplate}
  BY <1>1 DEF IInv, TInv, TypeOK, Rows
<1>3. /\ sub[s].status = "pending" /\ sub' = [sub EXCEPT ![s].status = "failed"]
      /\ SettleAndEscalate(a, "failed", row[a].onFailure, c) /\ Award(a)
      /\ UNCHANGED <<autoFailed, todo>>
  BY <1>1 DEF ReviewFailed
<1>5. row'[a].form = row[a].form
  BY <1>1, <1>2, <1>3, SettleEffect DEF IInv, Status
<1>6. /\ \A b \in Assignment \ {a} : Decided(b)' = Decided(b)
      /\ IsFiniteSet(Decided(a))' /\ Decisions(a)' = Decisions(a) + 1
  BY <1>1, <1>3, <1>5, VerdictDecides
<1>7. /\ awards'[a] = IF row[a].scored /\ IsTask(a) THEN awards[a] + 1 ELSE awards[a]
      /\ \A b \in Assignment \ {a} : awards'[b] = awards[b]
  BY <1>1, <1>3, AwardExact DEF IInv, TInv
<1>8. QED
  BY <1>1, <1>2, <1>3, <1>6, <1>7, SettleOInv

\* A step that decides nothing: every row keeps its balance.
LEMMA UndecidedOInv ==
    ASSUME IInv, OInv, \A a \in Assignment : SameBalance(a),
           \A a \in Assignment : row[a].status # "absent" => row'[a].status # "absent",
           todo' \subseteq todo \cup {a \in Assignment : Overdue(a)}
    PROVE  OInv'
<1>1. \A a \in Assignment : Balanced(a)'
  BY SameBalances DEF OInv
<1>2. ListsTasks'
  BY DEF OInv, ListsTasks, IsTask, SameBalance, Overdue, IInv, TInv, TypeOK
<1>3. QED
  BY <1>1, <1>2 DEF OInv

\* Creating a row, acknowledging or revoking one, and handing in a proof.
LEMMA CreateOInv ==
    ASSUME IInv, OInv, IInv', NEW a \in Assignment, NEW t \in Template, Create(a, t)
    PROVE  OInv'
<1>1. /\ row[a].status = "absent" /\ row'[a].from = NoAssignment
      /\ row'[a].status \in {"assigned", "applied"}
      /\ \A b \in Assignment \ {a} : row'[b] = row[b]
  BY DEF Create, NewRow, IInv, TInv, TypeOK
<1>2. UNCHANGED <<sub, awards, autoFailed, todo>>
  BY DEF Create
<1>3. row[a].from = NoAssignment
  BY <1>1 DEF IInv, TInv, AbsentIsBlank, AbsentRow
<1>4. \A b \in Assignment : Decided(b)' = Decided(b) /\ Children(b)' = Children(b)
  BY <1>1, <1>2, <1>3 DEF Decided, Children
<1>5. Balanced(a)'
  <2>1. Untouched(a)'
    BY <1>1 DEF IInv, SInv, OpenIsUntouched, Open
  <2>2. QED
    BY <1>1, <2>1, UntouchedBalances
<1>6. ASSUME NEW b \in Assignment \ {a} PROVE Balanced(b)'
  BY <1>1, <1>2, <1>4, SameBalances DEF OInv, SameBalance
<1>7. ListsTasks'
  BY <1>1, <1>2 DEF OInv, ListsTasks, IsTask, IInv, TInv, TypeOK
<1>8. QED
  BY <1>5, <1>6, <1>7 DEF OInv

LEMMA StatusOInv ==
    ASSUME IInv, OInv, NEW a \in Assignment, NEW st \in {"acknowledged", "revoked"},
           row' = [row EXCEPT ![a].status = st],
           row[a].status \in {"assigned", "acknowledged", "proof_submitted"},
           UNCHANGED <<sub, awards, autoFailed, todo>>
    PROVE  OInv'
<1>1. /\ row'[a].status = st /\ row'[a].form = row[a].form
      /\ row'[a].from = row[a].from /\ row'[a].scored = row[a].scored
      /\ \A b \in Assignment \ {a} : row'[b] = row[b]
  BY DEF IInv, TInv, TypeOK, Rows
<1>2. \A b \in Assignment : Decided(b)' = Decided(b) /\ Children(b)' = Children(b)
  BY <1>1 DEF Decided, Children
<1>3. \A b \in Assignment : SameBalance(b)
  BY <1>1, <1>2 DEF SameBalance
<1>4. QED
  BY <1>1, <1>2, <1>3, UndecidedOInv

LEMMA SubmitCommitOInv ==
    ASSUME IInv, OInv, NEW w \in Worker, NEW s \in Submission, SubmitCommit(w, s)
    PROVE  OInv'
<1>1. PICK a \in Assignment : job[w].on = a /\ row[a].form = "proof_required"
  BY DEF SubmitCommit, IInv, TInv, JobsHaveRows
<1>2. row[a] \in Rows /\ row \in [Assignment -> Rows] /\ sub \in [Submission -> Subs]
  BY DEF IInv, TInv, TypeOK
<1>3. /\ sub[s].status = "absent" /\ sub'[s].status = "pending"
      /\ \A z \in Submission \ {s} : sub'[z] = sub[z]
      /\ UNCHANGED <<awards, autoFailed, todo>>
  BY <1>2 DEF SubmitCommit
<1>4. /\ row'[a].status = "proof_submitted" /\ row'[a].form = row[a].form
      /\ row'[a].from = row[a].from /\ row'[a].scored = row[a].scored
      /\ \A b \in Assignment \ {a} : row'[b] = row[b]
  BY <1>1, <1>2 DEF SubmitCommit, Rows
<1>5. \A b \in Assignment : Decided(b)' = Decided(b) /\ Children(b)' = Children(b)
  BY <1>3, <1>4 DEF Decided, Children
<1>6. \A b \in Assignment : SameBalance(b)
  BY <1>1, <1>3, <1>4, <1>5 DEF SameBalance
<1>7. QED
  BY <1>1, <1>3, <1>4, <1>5, <1>6, UndecidedOInv

LEMMA ReviewRedoOInv ==
    ASSUME IInv, OInv, NEW s \in Submission, ReviewRedo(s)
    PROVE  OInv'
<1>1. /\ sub[s].status = "pending" /\ sub'[s].status = "redo"
      /\ \A z \in Submission \ {s} : sub'[z] = sub[z]
      /\ UNCHANGED <<row, awards, autoFailed, todo>>
  BY DEF ReviewRedo, IInv, TInv, TypeOK, Subs
<1>2. \A b \in Assignment : Decided(b)' = Decided(b) /\ Children(b)' = Children(b)
  BY <1>1 DEF Decided, Children
<1>3. \A b \in Assignment : SameBalance(b)
  BY <1>1, <1>2 DEF SameBalance
<1>4. QED
  BY <1>1, <1>2, <1>3, UndecidedOInv

\* Steps that touch deadlines, allowances, escalation targets or no row at all; the
\* sweeper's list is renewed from overdue tasks.
LEMMA NeutralOInv ==
    ASSUME IInv, OInv, Neutral, todo' \subseteq todo \cup {a \in Assignment : Overdue(a)}
    PROVE  OInv'
<1>1. \A b \in Assignment : Decided(b)' = Decided(b) /\ Children(b)' = Children(b)
  BY DEF Neutral, Decided, Children
<1>2. \A b \in Assignment : SameBalance(b)
  BY <1>1 DEF Neutral, SameBalance
<1>3. QED
  BY <1>1, <1>2, UndecidedOInv DEF Neutral

LEMMA OInvInit == Init => OInv
<1> SUFFICES ASSUME Init, NEW a \in Assignment PROVE Balanced(a)
  BY DEF Init, OInv, ListsTasks
<1>1. Decided(a) = {} /\ Children(a) = {}
  BY ConstantsAssumption DEF Init, Decided, Children, AbsentRow, AbsentSub
<1>2. Decisions(a) = 0 /\ awards[a] = 0
  BY <1>1, FS_EmptySet DEF Init, Decisions, AbsentRow
<1>3. QED
  BY <1>1, <1>2, FS_EmptySet DEF Balanced

LEMMA OInvNext == IInv /\ OInv /\ IInv' /\ [Next]_vars => OInv'
<1> SUFFICES ASSUME IInv, OInv, IInv', [Next]_vars PROVE OInv'
  OBVIOUS
<1>1. ASSUME NEW a \in Assignment, Acknowledge(a) PROVE OInv'
  BY <1>1, StatusOInv DEF Acknowledge
<1>2. ASSUME NEW a \in Assignment, Revoke(a) PROVE OInv'
  BY <1>2, StatusOInv DEF Revoke
<1>3. ASSUME PauseOversight PROVE OInv'
  BY <1>3, NeutralOInv DEF PauseOversight, Neutral
<1>4. CASE Request
  BY <1>1, <1>2, <1>3, <1>4, CreateOInv, CompleteOInv, ReviewVerifiedOInv,
     ReviewFailedOInv, ReviewRedoOInv DEF Request
<1>5. ASSUME NEW w \in Worker, Handler(w) PROVE OInv'
  <2>1. ASSUME NEW a \in Assignment, SubmitCheck(w, a) PROVE OInv'
    BY <2>1, NeutralOInv DEF SubmitCheck, Neutral
  <2>2. ASSUME NEW s \in Submission, SubmitCommit(w, s) PROVE OInv'
    BY <2>2, SubmitCommitOInv
  <2>3. ASSUME NEW a \in Assignment, NEW op \in Edits, EditCheck(w, a, op) PROVE OInv'
    BY <2>3, NeutralOInv DEF EditCheck, Neutral
  <2>4. ASSUME NEW d \in 0..MaxTime, EditDeadline(w, d) PROVE OInv'
    BY <2>4, EditDeadlineNeutral, NeutralOInv DEF IInv, EditDeadline
  <2>5. ASSUME NEW t \in Template \cup {NoTemplate}, EditEscalation(w, t) PROVE OInv'
    BY <2>5, EditEscalationNeutral, NeutralOInv DEF IInv, EditEscalation
  <2>6. CASE ResumeRead(w) \/ ResumeClear(w)
    BY <2>6, NeutralOInv DEF ResumeRead, ResumeClear, Neutral
  <2>7. CASE ResumeShift(w)
    BY <2>7, ResumeShiftNeutral, NeutralOInv DEF IInv, ResumeShift
  <2>8. QED
    BY <1>5, <2>1, <2>2, <2>3, <2>4, <2>5, <2>6, <2>7 DEF Handler
<1>6. CASE Sweeper
  <2>1. ASSUME SweepSelect \/ SweepAbort \/ \E a \in Assignment : SweepSkip(a) PROVE OInv'
    BY <2>1, NeutralOInv DEF SweepSelect, SweepAbort, SweepSkip, Neutral
  <2>2. QED
    BY <1>6, <2>1, AutoFailOInv DEF Sweeper
<1>7. CASE Tick
  BY <1>7, TickNeutral, NeutralOInv DEF IInv, Tick
<1>8. CASE Crash
  BY <1>8, NeutralOInv DEF Crash, Neutral
<1>9. CASE UNCHANGED vars
  BY <1>9, NeutralOInv DEF vars, Neutral
<1>10. QED
  BY <1>4, <1>5, <1>6, <1>7, <1>8, <1>9 DEF Next

\* The ledger books each decision that is worth points exactly once, and no row has more
\* follow-ups than decisions, even when late submissions have one task judged again and again.
THEOREM OutcomesAlwaysMatch == Spec => []OutcomesMatchDecisions
<1>1. OInv => OutcomesMatchDecisions
  <2> SUFFICES ASSUME OInv PROVE AwardsMatchDecisions /\ EscalationsMatchDecisions
    BY DEF OutcomesMatchDecisions
  <2>1. \A a \in Assignment : Balanced(a)
    BY DEF OInv
  <2>2. AwardsMatchDecisions
    BY <2>1 DEF Balanced, Decisions, AwardsMatchDecisions, IsTask, TaskForms
  <2>3. EscalationsMatchDecisions
    BY <2>1 DEF Balanced, Decisions, EscalationsMatchDecisions
  <2>4. QED
    BY <2>2, <2>3
<1>2. IInv /\ OInv /\ IInv' /\ [Next]_vars => OInv'
  BY OInvNext
<1>3. QED
  BY <1>1, <1>2, OInvInit, Invariant, PTL DEF Spec

-----------------------------------------------------------------------------
(* The allowance.  Row field `left` counts what remains of it; the deadline *)
(* moves by jumps.  What ties them is the instant up to which the deadline  *)
(* already makes up for the pause: now when oversight runs or the shift is  *)
(* done, the start of the pause before, and in between what the resume read.*)

Measured(a) ==
    /\ paused = Null \/ (\E w \in Worker : job[w].op = "resume_clear") =>
          row[a].deadline >= row[a].left + now
    /\ \A w \in Worker : job[w].op = "resume_shift" =>
          row[a].deadline + job[w].elapsed >= row[a].left + now
    /\ paused # Null => row[a].deadline >= row[a].left + paused

AInv ==
    /\ \A a \in autoFailed \cup todo : row[a].left < 0
    /\ \A a \in Assignment :
          row[a].status = "assigned" /\ IsTask(a) /\ row[a].left >= 0 => Measured(a)

\* What a step that neither moves the clock nor the pause does to a row's allowance: the
\* row leaves 'assigned', is not measured any more, keeps what counts, or is new.
Ages(b) ==
    \/ row'[b].status # "assigned" /\ row'[b].left = row[b].left
    \/ row'[b].left = -1
    \/ /\ row'[b].status = row[b].status /\ row'[b].form = row[b].form
       /\ row'[b].deadline = row[b].deadline /\ row'[b].left = row[b].left
    \/ /\ row[b].status = "absent"
       /\ \E t \in Template, p \in Assignment \cup {NoAssignment} : row'[b] = NewRow(t, p)

\* Nobody begins to resume.
NoneResumes ==
    \A w \in Worker : job'[w].op \in {"resume_shift", "resume_clear"} => job'[w] = job[w]

\* A new row has its whole allowance before it, whatever pause it is created in.
LEMMA NewRowMeasured ==
    ASSUME TInv, NEW b \in Assignment, NEW t \in Template,
           NEW p \in Assignment \cup {NoAssignment}, row'[b] = NewRow(t, p),
           IsTask(b)', UNCHANGED <<now, paused>>, NoneResumes
    PROVE  Measured(b)'
<1>1. Secs[t] \in Nat /\ now \in Nat /\ paused \in Nat \cup {Null} /\ paused <= now
  BY ConstantsAssumption DEF TInv, TypeOK
<1>2. row'[b].deadline = now + Secs[t] /\ row'[b].left = Secs[t]
  BY DEF NewRow, IsTask
<1>3. \A w \in Worker : job[w].elapsed \in Nat
  BY DEF TInv, TypeOK, Jobs
<1>4. QED
  BY <1>1, <1>2, <1>3 DEF Measured, NoneResumes

LEMMA SteadyAInv ==
    ASSUME IInv, OInv, AInv, UNCHANGED <<now, paused>>, NoneResumes,
           \A b \in Assignment : Ages(b),
           autoFailed' \subseteq autoFailed \cup todo,
           \/ todo' \subseteq todo
           \/ paused = Null /\ todo' = {a \in Assignment : Overdue(a)} /\ UNCHANGED row
    PROVE  AInv'
<1>1. \A a \in autoFailed \cup todo : a \in Assignment /\ row[a].status # "absent"
  BY DEF IInv, SInv, OpenIsUntouched, Untouched, Open, TInv, TypeOK, OInv, ListsTasks
<1>2. \A a \in autoFailed \cup todo : row'[a].left < 0
  BY <1>1 DEF AInv, Ages
<1>3. ASSUME NEW a \in Assignment, Overdue(a), paused = Null PROVE row[a].left < 0
  BY <1>3 DEF AInv, Measured, Overdue, IInv, TInv, TypeOK, Rows
<1>4. \A a \in autoFailed' \cup todo' : row'[a].left < 0
  BY <1>2, <1>3
<1>5. ASSUME NEW b \in Assignment, row'[b].status = "assigned", IsTask(b)', row'[b].left >= 0
      PROVE  Measured(b)'
  <2>1. CASE /\ row'[b].status = row[b].status /\ row'[b].form = row[b].form
             /\ row'[b].deadline = row[b].deadline /\ row'[b].left = row[b].left
    <3>1. Measured(b)
      BY <1>5, <2>1 DEF AInv, IsTask
    <3>2. QED
      BY <2>1, <3>1 DEF Measured, NoneResumes
  <2>2. CASE \E t \in Template, p \in Assignment \cup {NoAssignment} : row'[b] = NewRow(t, p)
    BY <1>5, <2>2, NewRowMeasured DEF IInv
  <2>3. QED
    BY <1>5, <2>1, <2>2 DEF Ages
<1>6. QED
  BY <1>4, <1>5 DEF AInv

LEMMA SettleAges ==
    ASSUME TypeOK, NEW a \in Assignment, NEW c \in Assignment, NEW st \in {"completed", "failed"},
           NEW t \in Template \cup {NoTemplate}, SettleAndEscalate(a, st, t, c)
    PROVE  \A b \in Assignment : Ages(b)
<1> DEFINE r == [row[a] EXCEPT !.status = st]
<1>1. row[a] \in Rows /\ row \in [Assignment -> Rows]
  BY DEF TypeOK
<1>2. r.status = st /\ r.left = row[a].left
  BY <1>1 DEF Rows
<1>3. CASE t = NoTemplate
  <2>1. row' = [row EXCEPT ![a] = r]
    BY <1>1, <1>3 DEF SettleAndEscalate
  <2> HIDE DEF r
  <2>2. QED
    BY <1>1, <1>2, <2>1 DEF Ages
<1>4. CASE t # NoTemplate
  <2>1. row[c].status = "absent" /\ row' = [row EXCEPT ![a] = r, ![c] = NewRow(t, a)]
    BY <1>1, <1>4 DEF SettleAndEscalate
  <2> HIDE DEF r
  <2>2. \A b \in Assignment : row'[b] = IF b = c THEN NewRow(t, a) ELSE IF b = a THEN r ELSE row[b]
    BY <1>1, <2>1
  <2>3. QED
    BY <1>2, <1>4, <2>1, <2>2 DEF Ages
<1>5. QED
  BY <1>3, <1>4

LEMMA SettlingAInv ==
    ASSUME IInv, OInv, AInv, NEW a \in Assignment, NEW c \in Assignment,
           \/ Complete(a, c) \/ AutoFail(a, c)
           \/ \E s \in Submission : ReviewVerified(s, c) \/ ReviewFailed(s, c)
    PROVE  AInv'
<1>1. \A b \in Assignment : row[b].onSuccess \in Template \cup {NoTemplate}
                            /\ row[b].onFailure \in Template \cup {NoTemplate}
  BY DEF IInv, TInv, TypeOK, Rows
<1>2. \E b \in Assignment, st \in {"completed", "failed"}, t \in Template \cup {NoTemplate} :
          SettleAndEscalate(b, st, t, c)
  <2>1. CASE Complete(a, c)
    BY <1>1, <2>1 DEF Complete
  <2>2. CASE AutoFail(a, c)
    BY <1>1, <2>2 DEF AutoFail
  <2>3. ASSUME NEW s \in Submission, ReviewVerified(s, c) \/ ReviewFailed(s, c)
        PROVE  \E b \in Assignment, st \in {"completed", "failed"}, t \in Template \cup {NoTemplate} :
                  SettleAndEscalate(b, st, t, c)
    <3>1. sub[s].of \in Assignment
      BY <2>3 DEF ReviewVerified, ReviewFailed, IInv, TInv, SubsHaveTasks
    <3>2. QED
      BY <1>1, <2>3, <3>1 DEF ReviewVerified, ReviewFailed
  <2>4. QED
    BY <2>1, <2>2, <2>3
<1>3. \A b \in Assignment : Ages(b)
  BY <1>2, SettleAges DEF IInv, TInv
<1>4. /\ UNCHANGED <<now, paused, job>> /\ todo' \subseteq todo
      /\ autoFailed' \subseteq autoFailed \cup todo
  BY DEF Complete, AutoFail, ReviewVerified, ReviewFailed
<1>5. QED
  BY <1>3, <1>4, SteadyAInv DEF NoneResumes

\* The other steps that move neither the clock nor the pause.
LEMMA TableAInv ==
    ASSUME IInv, OInv, AInv,
           \/ \E a \in Assignment, t \in Template : Create(a, t)
           \/ \E a \in Assignment : Acknowledge(a) \/ Revoke(a)
           \/ \E s \in Submission : ReviewRedo(s)
           \/ SweepSelect \/ SweepAbort \/ \E a \in Assignment : SweepSkip(a)
           \/ Crash
    PROVE  AInv'
<1>1. ASSUME NEW a \in Assignment, NEW t \in Template, Create(a, t) PROVE AInv'
  <2>1. \A b \in Assignment : Ages(b)
    BY <1>1 DEF Create, Ages, IInv, TInv, TypeOK
  <2>2. QED
    BY <1>1, <2>1, SteadyAInv DEF Create, NoneResumes
<1>2. ASSUME NEW a \in Assignment, Acknowledge(a) \/ Revoke(a) PROVE AInv'
  <2>1. \A b \in Assignment : Ages(b)
    BY <1>2 DEF Acknowledge, Revoke, Ages, IInv, TInv, TypeOK, Rows
  <2>2. QED
    BY <1>2, <2>1, SteadyAInv DEF Acknowledge, Revoke, NoneResumes
<1>3. ASSUME NEW s \in Submission, ReviewRedo(s) PROVE AInv'
  BY <1>3, SteadyAInv DEF ReviewRedo, NoneResumes, Ages
<1>4. CASE SweepSelect \/ SweepAbort \/ \E a \in Assignment : SweepSkip(a)
  BY <1>4, SteadyAInv DEF SweepSelect, SweepAbort, SweepSkip, NoneResumes, Ages
<1>5. CASE Crash
  BY <1>5, SteadyAInv DEF Crash, NoneResumes, Ages, Idle
<1>6. QED
  BY <1>1, <1>2, <1>3, <1>4, <1>5

\* Handlers of proofs and edits.
LEMMA HandlerAInv ==
    ASSUME IInv, OInv, AInv, NEW w \in Worker,
           \/ \E a \in Assignment : SubmitCheck(w, a)
           \/ \E s \in Submission : SubmitCommit(w, s)
           \/ \E a \in Assignment, op \in Edits : EditCheck(w, a, op)
           \/ \E d \in 0..MaxTime : EditDeadline(w, d)
           \/ \E t \in Template \cup {NoTemplate} : EditEscalation(w, t)
    PROVE  AInv'
<1>1. job \in [Worker -> Jobs] /\ row \in [Assignment -> Rows]
  BY DEF IInv, TInv, TypeOK
<1>2. CASE \E a \in Assignment : SubmitCheck(w, a)
  <2>1. NoneResumes
    BY <1>1, <1>2 DEF SubmitCheck, NoneResumes
  <2>2. QED
    BY <1>2, <2>1, SteadyAInv DEF SubmitCheck, Ages
<1>3. CASE \E a \in Assignment, op \in Edits : EditCheck(w, a, op)
  <2>1. NoneResumes
    BY <1>1, <1>3 DEF EditCheck, NoneResumes, Edits
  <2>2. QED
    BY <1>3, <2>1, SteadyAInv DEF EditCheck, Ages
<1>4. ASSUME NEW s \in Submission, SubmitCommit(w, s) PROVE AInv'
  <2>1. NoneResumes
    BY <1>1, <1>4 DEF SubmitCommit, NoneResumes, Idle
  <2>2. \A b \in Assignment : Ages(b)
    <3>1. PICK a \in Assignment : job[w].on = a
      BY <1>4 DEF SubmitCommit, IInv, TInv, JobsHaveRows
    <3>2. /\ row'[a].status = "proof_submitted" /\ row'[a].left = row[a].left
          /\ \A b \in Assignment \ {a} : row'[b] = row[b]
      BY <1>1, <1>4, <3>1 DEF SubmitCommit, Rows
    <3>3. QED
      BY <3>2 DEF Ages
  <2>3. QED
    BY <1>4, <2>1, <2>2, SteadyAInv DEF SubmitCommit
<1>5. ASSUME NEW d \in 0..MaxTime, EditDeadline(w, d) PROVE AInv'
  <2>1. NoneResumes
    BY <1>1, <1>5 DEF EditDeadline, NoneResumes, Idle
  <2>2. \A b \in Assignment : Ages(b)
    <3>1. PICK a \in Assignment : job[w].on = a
      BY <1>5 DEF EditDeadline, Edits, IInv, TInv, JobsHaveRows
    <3>2. row'[a].left = -1 /\ \A b \in Assignment \ {a} : row'[b] = row[b]
      BY <1>1, <1>5, <3>1 DEF EditDeadline, Rows
    <3>3. QED
      BY <3>2 DEF Ages
  <2>3. QED
    BY <1>5, <2>1, <2>2, SteadyAInv DEF EditDeadline
<1>6. ASSUME NEW t \in Template \cup {NoTemplate}, EditEscalation(w, t) PROVE AInv'
  <2>1. NoneResumes
    BY <1>1, <1>6 DEF EditEscalation, NoneResumes, Idle
  <2>2. \A b \in Assignment : Ages(b)
    <3>1. PICK a \in Assignment : job[w].on = a
      BY <1>6 DEF EditEscalation, Edits, IInv, TInv, JobsHaveRows
    <3>2. /\ row'[a].status = row[a].status /\ row'[a].form = row[a].form
          /\ row'[a].deadline = row[a].deadline /\ row'[a].left = row[a].left
          /\ \A b \in Assignment \ {a} : row'[b] = row[b]
      BY <1>1, <1>6, <3>1 DEF EditEscalation, Rows
    <3>3. QED
      BY <3>2 DEF Ages
  <2>3. QED
    BY <1>6, <2>1, <2>2, SteadyAInv DEF EditEscalation
<1>7. QED
  BY <1>2, <1>3, <1>4, <1>5, <1>6

\* The pause and its end.  While it lasts the deadline lags behind by what has passed since
\* its start; the shift makes up for it before the pause is cleared.
LEMMA PauseAInv ==
    ASSUME IInv, AInv, PauseOversight
    PROVE  AInv'
<1>1. /\ paused = Null /\ paused' = now /\ now \in Nat
      /\ UNCHANGED <<now, row, job, autoFailed, todo>>
  BY DEF PauseOversight, IInv, TInv, TypeOK
<1>2. \A b \in Assignment : Measured(b) => Measured(b)'
  BY <1>1 DEF Measured
<1>3. QED
  BY <1>1, <1>2 DEF AInv, IsTask

LEMMA ResumeReadAInv ==
    ASSUME IInv, AInv, NEW w \in Worker, ResumeRead(w)
    PROVE  AInv'
<1>1. /\ paused # Null /\ paused \in Nat /\ now \in Nat
      /\ UNCHANGED <<now, row, paused, autoFailed, todo>>
  BY DEF ResumeRead, IInv, TInv, TypeOK
<1>2. /\ job'[w].op = "resume_shift" /\ job'[w].elapsed = now - paused
      /\ \A v \in Worker \ {w} : job'[v] = job[v]
  BY DEF ResumeRead, IInv, TInv, TypeOK
<1>3. \A b \in Assignment : row[b].deadline \in Int /\ row[b].left \in Int
  BY DEF IInv, TInv, TypeOK, Rows
<1>4. \A b \in Assignment : Measured(b) => Measured(b)'
  BY <1>1, <1>2, <1>3 DEF Measured
<1>5. QED
  BY <1>1, <1>4 DEF AInv, IsTask

LEMMA ResumeShiftAInv ==
    ASSUME IInv, AInv, NEW w \in Worker, ResumeShift(w)
    PROVE  AInv'
<1>1. /\ job[w].op = "resume_shift" /\ job[w].elapsed \in Nat
      /\ now \in Nat /\ paused \in Nat \cup {Null}
      /\ UNCHANGED <<now, paused, autoFailed, todo>>
  BY DEF ResumeShift, IInv, TInv, TypeOK, Jobs
<1>2. \A v \in Worker \ {w} : job'[v] = job[v]
  BY DEF ResumeShift, IInv, TInv, TypeOK
<1>3. job'[w].op = "resume_clear"
  BY DEF ResumeShift, IInv, TInv, TypeOK, Jobs
<1>4. ASSUME NEW b \in Assignment
      PROVE  /\ row[b].deadline \in Nat \cup {Null} /\ row[b].left \in Int
             /\ row'[b].status = row[b].status /\ row'[b].form = row[b].form
             /\ row'[b].left = row[b].left
             /\ row[b].status = "assigned" /\ row[b].deadline # Null =>
                   row'[b].deadline = row[b].deadline + job[w].elapsed
  BY <1>1 DEF ResumeShift, ShiftedBy, Editable, IInv, TInv, TypeOK, Rows
<1>5. ASSUME NEW b \in Assignment, row[b].status = "assigned", row[b].left >= 0, Measured(b)
      PROVE  Measured(b)'
  <2>1. row[b].deadline # Null
    BY <1>1, <1>4, <1>5 DEF Measured
  <2>2. row'[b].deadline = row[b].deadline + job[w].elapsed
    BY <1>4, <1>5, <2>1
  <2>3. row[b].deadline + job[w].elapsed >= row[b].left + now
    BY <1>1, <1>5 DEF Measured
  <2>4. \A v \in Worker : job'[v].op = "resume_shift" => v # w /\ job'[v] = job[v]
    BY <1>2, <1>3
  <2>5. \A v \in Worker : job[v].elapsed \in Nat
    BY DEF IInv, TInv, TypeOK, Jobs
  <2>6. QED
    BY <1>1, <1>4, <1>5, <2>2, <2>3, <2>4, <2>5 DEF Measured
<1>6. QED
  <2>1. \A a \in autoFailed' \cup todo' : row'[a].left < 0
    BY <1>1, <1>4 DEF AInv, IInv, TInv, TypeOK
  <2>2. QED
    BY <1>4, <1>5, <2>1 DEF AInv, IsTask

LEMMA ResumeClearAInv ==
    ASSUME IInv, AInv, NEW w \in Worker, ResumeClear(w)
    PROVE  AInv'
<1>1. /\ job[w].op = "resume_clear" /\ paused' = Null
      /\ UNCHANGED <<now, row, autoFailed, todo>>
      /\ \A v \in Worker \ {w} : job'[v] = job[v]
      /\ job'[w] = Idle
  BY DEF ResumeClear, IInv, TInv, TypeOK
<1>2. \A b \in Assignment : Measured(b) => Measured(b)'
  BY <1>1 DEF Measured, Idle
<1>3. QED
  BY <1>1, <1>2 DEF AInv, IsTask

\* The allowance of an assigned row runs exactly when the deadline stands still.
LEMMA TickAInv ==
    ASSUME IInv, AInv, Tick
    PROVE  AInv'
<1>1. /\ now \in Nat /\ now' = now + 1 /\ paused \in Nat \cup {Null}
      /\ UNCHANGED <<paused, job, autoFailed, todo>>
  BY DEF Tick, IInv, TInv, TypeOK
<1>2. ASSUME NEW b \in Assignment
      PROVE  /\ row'[b].status = row[b].status /\ row'[b].form = row[b].form
             /\ row'[b].deadline = row[b].deadline
             /\ row'[b].left = IF row[b].status = "assigned" /\ Running THEN row[b].left - 1
                               ELSE row[b].left
             /\ row[b].deadline \in Int /\ row[b].left \in Int
  BY DEF Tick, Aged, IInv, TInv, TypeOK, Rows
<1>3. \A v \in Worker : job[v].elapsed \in Nat
  BY DEF IInv, TInv, TypeOK, Jobs
<1>4. ASSUME NEW b \in Assignment, row[b].status = "assigned", Measured(b)
      PROVE  Measured(b)'
  <2>1. CASE Running
    BY <1>1, <1>2, <1>3, <1>4, <2>1 DEF Measured
  <2>2. CASE ~Running
    BY <1>1, <1>2, <1>3, <1>4, <2>2 DEF Measured, Running
  <2>3. QED
    BY <2>1, <2>2
<1>5. \A a \in autoFailed' \cup todo' : row'[a].left < 0
  BY <1>1, <1>2 DEF AInv, IInv, TInv, TypeOK
<1>6. ASSUME NEW b \in Assignment, row'[b].status = "assigned", IsTask(b)', row'[b].left >= 0
      PROVE  Measured(b)'
  <2>1. row[b].status = "assigned" /\ IsTask(b) /\ row[b].left >= 0
    BY <1>2, <1>6 DEF IsTask
  <2>2. QED
    BY <1>4, <2>1 DEF AInv
<1>7. QED
  BY <1>5, <1>6 DEF AInv

LEMMA AInvNext == IInv /\ OInv /\ AInv /\ [Next]_vars => AInv'
<1> SUFFICES ASSUME IInv, OInv, AInv, [Next]_vars PROVE AInv'
  OBVIOUS
<1>1. CASE Request
  BY <1>1, TableAInv, SettlingAInv, PauseAInv DEF Request
<1>2. ASSUME NEW w \in Worker, Handler(w) PROVE AInv'
  BY <1>2, HandlerAInv, ResumeReadAInv, ResumeShiftAInv, ResumeClearAInv DEF Handler
<1>3. CASE Sweeper
  BY <1>3, TableAInv, SettlingAInv DEF Sweeper
<1>4. CASE Tick \/ Crash
  BY <1>4, TickAInv, TableAInv
<1>5. CASE UNCHANGED vars
  BY <1>5 DEF vars, AInv, Measured, IsTask
<1>6. QED
  BY <1>1, <1>2, <1>3, <1>4, <1>5 DEF Next

\* No pause, however often it is begun, ended, interrupted or shifted for, costs the submissive
\* time: only a task whose whole allowance has run is auto-failed.
THEOREM AllowanceAlwaysRuns == Spec => []AutoFailAfterAllowance
<1>1. Init => AInv
  BY DEF Init, AInv, AbsentRow
<1>2. IInv /\ OInv /\ IInv' /\ [Next]_vars => OInv'
  BY OInvNext
<1>3. AInv => AutoFailAfterAllowance
  BY DEF AInv, AutoFailAfterAllowance
<1>4. QED
  BY <1>1, <1>2, <1>3, AInvNext, OInvInit, Invariant, PTL DEF Spec

-----------------------------------------------------------------------------
(* The refinement: Assignments implements AssignmentLife.  With the inductive *)
(* invariant, every step of the handlers, of the sweeper and of the clock is   *)
(* a step of the life of one row, or leaves all lives as they are.             *)

\* A step that keeps status, form and parent of every row, and the points, is a stutter.
LEMMA SameLife ==
    ASSUME \A a \in Assignment : /\ row'[a].status = row[a].status
                                 /\ row'[a].form = row[a].form
                                 /\ row'[a].from = row[a].from,
           UNCHANGED awards
    PROVE  UNCHANGED Life!life
<1>1. \A a \in Assignment : Stage(a)' = Stage(a)
  BY DEF Stage, WithoutProof
<1>2. \A a \in Assignment : PointsOf(a)' = PointsOf(a)
  BY DEF PointsOf, WithoutProof
<1>3. \A a \in Assignment : FollowUps(a)' = FollowUps(a)
  BY DEF FollowUps, WithoutProof, Children
<1>4. QED
  BY <1>1, <1>2, <1>3 DEF Life!life

LEMMA NeutralLife ==
    ASSUME Neutral
    PROVE  UNCHANGED Life!life
BY SameLife DEF Neutral

LEMMA CreateLife ==
    ASSUME IInv, NEW a \in Assignment, NEW t \in Template, Create(a, t)
    PROVE  Life!Next
<1> DEFINE r == NewRow(t, NoAssignment)
<1>1. \A b \in Assignment : row'[b] = IF b = a THEN r ELSE row[b]
  BY DEF Create, IInv, TInv, TypeOK
<1>2. /\ r.from = NoAssignment /\ r.status \in {"assigned", "applied"}
      /\ r.status = "applied" <=> r.form = "immediate"
  BY DEF NewRow
<1>3. row[a].status = "absent" /\ row[a].from = NoAssignment /\ UNCHANGED awards
  BY DEF Create, IInv, TInv, AbsentIsBlank, AbsentRow
<1>4. Untouched(a)
  BY <1>3 DEF IInv, SInv, OpenIsUntouched, Open
<1> HIDE DEF r
<1>5. Stage(a) = "none" /\ \A b \in Assignment \ {a} : Stage(b)' = Stage(b)
  BY <1>1, <1>3 DEF Stage, WithoutProof
<1>6. Stage(a)' \in Life!Beginnings
  BY <1>1, <1>2 DEF Stage, WithoutProof, Life!Beginnings
<1>7. \A b \in Assignment : PointsOf(b)' = PointsOf(b)
  BY <1>1, <1>3, <1>4 DEF PointsOf, WithoutProof, Untouched
<1>8. \A b \in Assignment : FollowUps(b)' = FollowUps(b)
  <2>1. \A b, c \in Assignment : row'[c].from = b <=> row[c].from = b
    BY <1>1, <1>2, <1>3
  <2>2. \A c \in Assignment : row[c].from # a
    BY <1>4 DEF Untouched
  <2>3. \A b \in Assignment : Children(b)' = Children(b)
    BY <2>1 DEF Children
  <2>4. Children(a) = {}
    BY <2>2 DEF Children
  <2>5. QED
    BY <1>1, <2>3, <2>4 DEF FollowUps, WithoutProof
<1>9. Life!Begin(a, Stage(a)')
  BY <1>5, <1>7, <1>8 DEF Life!Begin
<1>10. QED
  BY <1>6, <1>9 DEF Life!Next

LEMMA RevokeLife ==
    ASSUME IInv, NEW a \in Assignment, Revoke(a)
    PROVE  Life!Next \/ UNCHANGED Life!life
<1> DEFINE r == [row[a] EXCEPT !.status = "revoked"]
<1>1. row[a] \in Rows /\ \A b \in Assignment : row'[b] = IF b = a THEN r ELSE row[b]
  BY DEF Revoke, IInv, TInv, TypeOK
<1>2. r.status = "revoked" /\ r.form = row[a].form /\ r.from = row[a].from
  BY <1>1 DEF Rows
<1>3. UNCHANGED awards /\ row[a].status \in {"assigned", "acknowledged", "proof_submitted"}
  BY DEF Revoke
<1> HIDE DEF r
<1>4. \A b \in Assignment \ {a} : Stage(b)' = Stage(b)
  BY <1>1 DEF Stage, WithoutProof
<1>5. \A b \in Assignment : PointsOf(b)' = PointsOf(b) /\ FollowUps(b)' = FollowUps(b)
  BY <1>1, <1>2, <1>3 DEF PointsOf, FollowUps, WithoutProof, Children
<1>6. CASE WithoutProof(a)
  <2>1. Stage(a) = "open" /\ Stage(a)' = "revoked"
    BY <1>1, <1>2, <1>3, <1>6 DEF IInv, SInv, FormFits, Stage, WithoutProof
  <2>2. Life!Revoke(a)
    BY <1>4, <1>5, <2>1 DEF Life!Revoke
  <2>3. QED
    BY <2>2 DEF Life!Next
<1>7. CASE ~WithoutProof(a)
  <2>1. Stage(a)' = Stage(a)
    BY <1>1, <1>2, <1>3, <1>7 DEF Stage, WithoutProof
  <2>2. QED
    BY <1>4, <1>5, <2>1 DEF Life!life
<1>8. QED
  BY <1>6, <1>7

\* What settling row a does to the lives: to that of a, if it has one, and to that of the
\* row that is created, if one is.
LEMMA SettleLife ==
    ASSUME IInv, NEW a \in Assignment, NEW c \in Assignment,
           NEW st \in {"completed", "failed"},
           NEW t \in Template \cup {NoTemplate},
           SettleAndEscalate(a, st, t, c),
           row[a].status # "absent",
           WithoutProof(a) => row[a].status \in {"assigned", "acknowledged"},
           awards'[a] \in {awards[a], awards[a] + 1},
           \A b \in Assignment \ {a} : awards'[b] = awards[b]
    PROVE  Life!Next \/ UNCHANGED Life!life
<1>1. st \in Status
  BY DEF Status
<1>2. /\ row'[a].status = st /\ row'[a].form = row[a].form /\ row'[a].from = row[a].from
      /\ \A b \in Assignment \ {a} :
            \/ row'[b] = row[b]
            \/ /\ b = c /\ row[b].status = "absent"
               /\ row'[b].from = a
               /\ row'[b].status \in {"assigned", "applied"}
               /\ row'[b].status = "applied" <=> row'[b].form = "immediate"
  BY <1>1, SettleEffect DEF IInv
<1>3. \A b \in Assignment : row[b].status = "absent" =>
         awards[b] = 0 /\ Children(b) = {} /\ row[b].from = NoAssignment
  BY DEF IInv, SInv, OpenIsUntouched, Untouched, Open, Children, TInv, AbsentIsBlank, AbsentRow
<1>4. \A b \in Assignment \ {a} : Children(b)' = Children(b)
  <2>1. \A b \in Assignment \ {a}, d \in Assignment : row'[d].from = b <=> row[d].from = b
    BY <1>2, <1>3, ConstantsAssumption
  <2>2. QED
    BY <2>1 DEF Children
<1>5. \A b \in Assignment \ {a} : PointsOf(b)' = PointsOf(b)
  BY <1>2, <1>3 DEF PointsOf, WithoutProof
<1>6. \A b \in Assignment \ {a} : FollowUps(b)' = FollowUps(b)
  BY <1>2, <1>3, <1>4 DEF FollowUps, WithoutProof
<1>7. \A b \in Assignment \ {a} :
         \/ row'[b] = row[b] /\ Stage(b)' = Stage(b)
         \/ /\ b = c /\ Stage(b) = "none" /\ Stage(b)' \in Life!Beginnings
            /\ row'[b].from = a /\ row[b].status = "absent"
  BY <1>2 DEF Stage, WithoutProof, Life!Beginnings
<1>8. CASE WithoutProof(a)
  <2>1. Untouched(a)
    BY <1>8 DEF IInv, SInv, OpenIsUntouched, Open
  <2>2. Stage(a) = "open" /\ Stage(a)' = st
    BY <1>2, <1>8 DEF Stage, WithoutProof
  <2>3. PointsOf(a) = 0 /\ PointsOf(a)' \in {0, 1}
    BY <1>2, <1>8, <2>1 DEF PointsOf, WithoutProof, Untouched
  <2>4. Life!Booked(a)
    BY <1>5, <2>3 DEF Life!Booked
  <2>5. Children(a) = {}
    BY <2>1 DEF Children, Untouched
  <2>6. CASE \A b \in Assignment \ {a} : row'[b] = row[b]
    <3>1. \A b \in Assignment : row'[b].from = row[b].from
      BY <1>2, <2>6
    <3>2. FollowUps(a)' = FollowUps(a)
      BY <1>2, <3>1 DEF FollowUps, WithoutProof, Children
    <3>3. Life!Settle(a, st)
      BY <1>6, <1>7, <2>2, <2>4, <2>6, <3>2 DEF Life!Settle, Stage, WithoutProof
    <3>4. QED
      BY <3>3 DEF Life!Next, Life!Outcomes
  <2>7. ASSUME NEW b \in Assignment \ {a}, row'[b] # row[b]
        PROVE  Life!Next
    <3>1. /\ b = c /\ c # a /\ Stage(c) = "none" /\ Stage(c)' \in Life!Beginnings
          /\ row'[c].from = a
          /\ \A d \in Assignment \ {a, c} : row'[d] = row[d] /\ Stage(d)' = Stage(d)
      BY <1>7, <2>7
    <3>2. Children(a)' = {c}
      <4>1. \A d \in Assignment : row'[d].from = a <=> d = c
        BY <1>2, <2>1, <3>1 DEF Untouched
      <4>2. QED
        BY <4>1 DEF Children
    <3>3. FollowUps(a)' = {c}
      BY <1>2, <1>8, <3>2 DEF FollowUps, WithoutProof
    <3>4. Life!SettleAndFollow(a, st, c, Stage(c)')
      <4>1. [d \in Assignment |-> Stage(d)]' =
               [[d \in Assignment |-> Stage(d)] EXCEPT ![a] = st, ![c] = Stage(c)']
        BY <2>2, <3>1
      <4>2. [d \in Assignment |-> FollowUps(d)]' =
               [[d \in Assignment |-> FollowUps(d)] EXCEPT ![a] = {c}]
        BY <1>6, <3>3
      <4>3. QED
        BY <2>2, <2>4, <3>1, <4>1, <4>2 DEF Life!SettleAndFollow
    <3>5. QED
      BY <3>1, <3>4 DEF Life!Next, Life!Outcomes
  <2>8. QED
    BY <2>6, <2>7
<1>9. CASE ~WithoutProof(a)
  <2>1. /\ Stage(a)' = Stage(a) /\ PointsOf(a)' = PointsOf(a)
        /\ FollowUps(a)' = FollowUps(a)
    BY <1>2, <1>9 DEF Stage, PointsOf, FollowUps, WithoutProof, Status
  <2>2. CASE \A b \in Assignment \ {a} : row'[b] = row[b]
    BY <1>5, <1>6, <1>7, <2>1, <2>2 DEF Life!life, Stage, WithoutProof
  <2>3. ASSUME NEW b \in Assignment \ {a}, row'[b] # row[b]
        PROVE  Life!Next
    <3>1. /\ b = c /\ Stage(c) = "none" /\ Stage(c)' \in Life!Beginnings
          /\ \A d \in Assignment \ {c} : Stage(d)' = Stage(d)
      BY <1>7, <2>1, <2>3
    <3>2. Life!Begin(c, Stage(c)')
      BY <1>5, <1>6, <2>1, <3>1 DEF Life!Begin
    <3>3. QED
      BY <3>1, <3>2 DEF Life!Next
  <2>4. QED
    BY <2>2, <2>3
<1>10. QED
  BY <1>8, <1>9

LEMMA AwardOnce ==
    ASSUME TypeOK, NEW a \in Assignment, Award(a)
    PROVE  /\ awards'[a] \in {awards[a], awards[a] + 1}
           /\ \A b \in Assignment \ {a} : awards'[b] = awards[b]
BY DEF Award, TypeOK

LEMMA CompleteLife ==
    ASSUME IInv, NEW a \in Assignment, NEW c \in Assignment, Complete(a, c)
    PROVE  Life!Next \/ UNCHANGED Life!life
<1>1. row[a].onSuccess \in Template \cup {NoTemplate}
  BY DEF IInv, TInv, TypeOK, Rows
<1>2. /\ awards'[a] \in {awards[a], awards[a] + 1}
      /\ \A b \in Assignment \ {a} : awards'[b] = awards[b]
  BY AwardOnce DEF Complete, IInv, TInv
<1>3. QED
  BY <1>1, <1>2, SettleLife DEF Complete

LEMMA AutoFailLife ==
    ASSUME IInv, NEW a \in Assignment, NEW c \in Assignment, AutoFail(a, c)
    PROVE  Life!Next \/ UNCHANGED Life!life
<1>1. row[a].onFailure \in Template \cup {NoTemplate}
  BY DEF IInv, TInv, TypeOK, Rows
<1>2. /\ awards'[a] \in {awards[a], awards[a] + 1}
      /\ \A b \in Assignment \ {a} : awards'[b] = awards[b]
  BY AwardOnce DEF AutoFail, IInv, TInv
<1>3. QED
  BY <1>1, <1>2, SettleLife DEF AutoFail

\* A submission is always of a proof task, so its review settles no life.
LEMMA ReviewLife ==
    ASSUME IInv, NEW s \in Submission, NEW c \in Assignment,
           ReviewVerified(s, c) \/ ReviewFailed(s, c)
    PROVE  Life!Next \/ UNCHANGED Life!life
<1> DEFINE a == sub[s].of
<1>1. a \in Assignment /\ ~WithoutProof(a) /\ row[a].status # "absent"
  BY DEF ReviewVerified, ReviewFailed, IInv, TInv, SubsHaveTasks, AbsentIsBlank, AbsentRow,
         WithoutProof
<1>2. /\ row[a].onSuccess \in Template \cup {NoTemplate}
      /\ row[a].onFailure \in Template \cup {NoTemplate}
  BY <1>1 DEF IInv, TInv, TypeOK, Rows
<1>3. /\ awards'[a] \in {awards[a], awards[a] + 1}
      /\ \A b \in Assignment \ {a} : awards'[b] = awards[b]
  BY <1>1, AwardOnce DEF ReviewVerified, ReviewFailed, IInv, TInv
<1>4. QED
  BY <1>1, <1>2, <1>3, SettleLife DEF ReviewVerified, ReviewFailed

LEMMA SubmitLife ==
    ASSUME IInv, NEW w \in Worker, NEW s \in Submission, SubmitCommit(w, s)
    PROVE  UNCHANGED Life!life
<1> DEFINE a == job[w].on
<1> DEFINE r == [row[a] EXCEPT !.status = "proof_submitted", !.proof = s]
<1>1. a \in Assignment /\ ~WithoutProof(a) /\ row[a].status # "absent"
  BY DEF SubmitCommit, IInv, TInv, JobsHaveRows, AbsentIsBlank, AbsentRow, WithoutProof
<1>2. row[a] \in Rows /\ UNCHANGED awards
      /\ \A b \in Assignment : row'[b] = IF b = a THEN r ELSE row[b]
  BY <1>1 DEF SubmitCommit, IInv, TInv, TypeOK
<1>3. r.status = "proof_submitted" /\ r.form = row[a].form /\ r.from = row[a].from
  BY <1>2 DEF Rows
<1> HIDE DEF r, a
<1>4. \A b \in Assignment : Stage(b)' = Stage(b)
  BY <1>1, <1>2, <1>3 DEF Stage, WithoutProof
<1>5. \A b \in Assignment : PointsOf(b)' = PointsOf(b) /\ FollowUps(b)' = FollowUps(b)
  BY <1>2, <1>3 DEF PointsOf, FollowUps, WithoutProof, Children
<1>6. QED
  BY <1>4, <1>5 DEF Life!life

LEMMA LifeInit == Init => Life!Init
<1> SUFFICES ASSUME Init PROVE Life!Init
  OBVIOUS
<1>1. \A a \in Assignment : row[a] = AbsentRow /\ awards[a] = 0
  BY DEF Init
<1>2. \A a \in Assignment : Children(a) = {}
  BY <1>1, ConstantsAssumption DEF Children, AbsentRow
<1>3. QED
  BY <1>1, <1>2 DEF Life!Init, Stage, PointsOf, FollowUps, AbsentRow

LEMMA LifeNext == IInv /\ [Next]_vars => [Life!Next]_Life!life
<1> SUFFICES ASSUME IInv, [Next]_vars PROVE Life!Next \/ UNCHANGED Life!life
  OBVIOUS
<1>1. ASSUME NEW a \in Assignment, Acknowledge(a) PROVE UNCHANGED Life!life
  <2>1. /\ \A b \in Assignment : row'[b].form = row[b].form /\ row'[b].from = row[b].from
        /\ \A b \in Assignment \ {a} : row'[b].status = row[b].status
        /\ row[a].status = "assigned" /\ row'[a].status = "acknowledged"
        /\ UNCHANGED awards
    BY <1>1 DEF Acknowledge, IInv, TInv, TypeOK, Rows
  <2>2. \A b \in Assignment : Stage(b)' = Stage(b)
    BY <2>1 DEF Stage, WithoutProof
  <2>3. \A b \in Assignment : PointsOf(b)' = PointsOf(b) /\ FollowUps(b)' = FollowUps(b)
    BY <2>1 DEF PointsOf, FollowUps, WithoutProof, Children
  <2>4. QED
    BY <2>2, <2>3 DEF Life!life
<1>2. CASE Request
  <2>1. ASSUME PauseOversight \/ \E s \in Submission : ReviewRedo(s)
        PROVE  UNCHANGED Life!life
    BY <2>1, SameLife DEF PauseOversight, ReviewRedo
  <2>2. QED
    BY <1>1, <1>2, <2>1, CreateLife, RevokeLife, CompleteLife, ReviewLife DEF Request
<1>3. ASSUME NEW w \in Worker, Handler(w) PROVE UNCHANGED Life!life
  <2>1. ASSUME NEW s \in Submission, SubmitCommit(w, s) PROVE UNCHANGED Life!life
    BY <2>1, SubmitLife
  <2>2. ASSUME NEW d \in 0..MaxTime, EditDeadline(w, d) PROVE UNCHANGED Life!life
    BY <2>2, EditDeadlineNeutral, NeutralLife DEF IInv
  <2>3. ASSUME NEW t \in Template \cup {NoTemplate}, EditEscalation(w, t)
        PROVE  UNCHANGED Life!life
    BY <2>3, EditEscalationNeutral, NeutralLife DEF IInv
  <2>4. CASE ResumeShift(w)
    BY <2>4, ResumeShiftNeutral, NeutralLife DEF IInv
  <2>5. CASE \/ \E a \in Assignment : SubmitCheck(w, a)
             \/ \E a \in Assignment, op \in Edits : EditCheck(w, a, op)
             \/ ResumeRead(w) \/ ResumeClear(w)
    BY <2>5, SameLife DEF SubmitCheck, EditCheck, ResumeRead, ResumeClear
  <2>6. QED
    BY <1>3, <2>1, <2>2, <2>3, <2>4, <2>5 DEF Handler
<1>4. CASE Sweeper
  <2>1. ASSUME SweepSelect \/ SweepAbort \/ \E a \in Assignment : SweepSkip(a)
        PROVE  UNCHANGED Life!life
    BY <2>1, SameLife DEF SweepSelect, SweepAbort, SweepSkip
  <2>2. QED
    BY <1>4, <2>1, AutoFailLife DEF Sweeper
<1>5. CASE Tick
  BY <1>5, TickNeutral, NeutralLife DEF IInv
<1>6. CASE Crash \/ UNCHANGED vars
  BY <1>6, SameLife DEF Crash, vars
<1>7. QED
  BY <1>2, <1>3, <1>4, <1>5, <1>6 DEF Next

\* Assignments implements AssignmentLife: a row that asks for no proof is settled at most
\* once, by one step that books its points and creates its follow-up, and is final then.
THEOREM LivesAreKept == Spec => SettlesOnceForAll
<1>1. QED
  BY LifeInit, LifeNext, Invariant, PTL DEF Spec, SettlesOnceForAll, Life!Spec
=============================================================================
