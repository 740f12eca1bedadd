------------------------------ MODULE Recurring ------------------------------
(***************************************************************************)
(* Repeating tasks: src/domain/recurring_tasks.rs, its handlers in          *)
(* src/api/recurring_tasks.rs, the templates they spawn from                *)
(* (src/domain/rewards_punishments/templates.rs) and the sweep that rides   *)
(* on the deadline tick of src/main.rs.                                     *)
(*                                                                         *)
(* The sweep lists the rules that are due and then goes through its list,   *)
(* one transaction per rule; an edit reads a rule and writes every column   *)
(* of it back.  A spawned task is an ordinary row of assignments: its life  *)
(* is reduced to whether it is open, with the one way a settled row gets     *)
(* open again, a submission that read it before it was settled.             *)
(* A rule is made on a live link; no later step reads the link.             *)
(***************************************************************************)
EXTENDS Integers

CONSTANTS
    Rule,           \* ids of rows of recurring_task_rules
    Template,       \* ids of rows of reward_punishment_templates, kind 'task'
    Task,           \* ids of rows of assignments
    Worker,         \* pool threads that serve requests
    Schedules,      \* the pairs of recurrence_kind and recurrence_value in use
    NoSchedule,     \* a rule that has not been made, a field that is not in a request
    Edits,          \* the requests to edit a rule; {} is a field that is left out
    NoRule, NoTask,
    Day, Week,      \* 86 400 seconds, 7 days
    Edited,         \* bound: the rules that requests edit
    MaxTime         \* bound of the clock

VARIABLES
    now,        \* the wall clock
    template,   \* per template, whether it is active
    rule,       \* table recurring_task_rules
    task,       \* the spawned rows of assignments
    sweep,      \* the tick: its now_ts, the rules still to do, the one past its check
    job,        \* per worker, the handler in flight and what it has read
    last,       \* history: the schedule and the instant of a rule's last spawn
    strict,     \* history: rules that never allowed an overlap
    reopened    \* history: tasks that were settled and are open again

vars == <<now, template, rule, task, sweep, job, last, strict, reopened>>
tables == <<template, rule, task>>
history == <<last, strict, reopened>>

Kinds == {"interval_hours", "daily", "weekly_days"}

ASSUME RecurringAssumption ==
    /\ Schedules \subseteq [kind : Kinds, every : Nat \ {0}, time : Int, days : SUBSET Nat]
    /\ NoSchedule \notin Schedules
    /\ Edits \subseteq [schedule : Schedules \cup {NoSchedule},
                         overlap : SUBSET BOOLEAN, active : SUBSET BOOLEAN]
    /\ Template # {}
    /\ NoRule \notin Rule
    /\ NoTask \notin Task
    /\ Day \in Nat \ {0} /\ Week \in Nat \ {0}
    /\ Edited \subseteq Rule
    /\ MaxTime \in Nat

-----------------------------------------------------------------------------
(* The schedule.                                                            *)

\* The slot of a schedule i days after the day of from.
Slot(s, from, i) == from - (from % Day) + i * Day + s.time

\* Of the eight slots looked at, those that a schedule of weekdays asks for.
Fitting(s, from) ==
    {i \in 0..Week : /\ Slot(s, from, i) >= from
                     /\ (Slot(s, from, i) \div Day) % Week \in s.days}

\* Is there a next instant?  Where there is none a request is refused, a rule passed over.
Occurs(s, from) == s.kind = "weekly_days" => Fitting(s, from) # {}

\* The next instant a schedule asks for, at from or later.
NextOccurrence(s, from) ==
    CASE s.kind = "interval_hours" -> from + s.every
      [] s.kind = "daily" -> IF Slot(s, from, 0) >= from THEN Slot(s, from, 0) ELSE Slot(s, from, 1)
      [] s.kind = "weekly_days" ->
           Slot(s, from, CHOOSE i \in Fitting(s, from) : \A j \in Fitting(s, from) : i <= j)

\* What the API stores without a question, and what a schedule should be: a time
\* of the day and, for days of the week, one of them.
WellFormed(s) ==
    /\ s.kind # "interval_hours" => s.time \in 0..(Day - 1)
    /\ s.kind = "weekly_days" => s.days \cap (0..(Week - 1)) # {}

-----------------------------------------------------------------------------

Rules == [schedule : Schedules \cup {NoSchedule}, template : Template,
          overlap : BOOLEAN, active : BOOLEAN, next : Int]
Tasks == [rule : Rule \cup {NoRule}, status : {"absent", "assigned", "proof_submitted", "settled"}]
Jobs == [op : {"idle", "edit", "submit"}, rule : Rule \cup {NoRule}, row : Rules,
         task : Task \cup {NoTask}]
Listed == [id : Rule, row : Rules]
Last == [schedule : Schedules \cup {NoSchedule}, at : Nat]

Unmade(t) == [schedule |-> NoSchedule, template |-> t, overlap |-> FALSE, active |-> FALSE, next |-> 0]
AnyTemplate == CHOOSE t \in Template : TRUE
Idle == [op |-> "idle", rule |-> NoRule, row |-> Unmade(AnyTemplate), task |-> NoTask]
Waiting == [at |-> 0, todo |-> {}, checked |-> {}]
Never == [schedule |-> NoSchedule, at |-> 0]

TypeOK ==
    /\ now \in Nat
    /\ template \in [Template -> BOOLEAN]
    /\ rule \in [Rule -> Rules]
    /\ task \in [Task -> Tasks]
    /\ sweep \in [at : Nat, todo : SUBSET Listed, checked : SUBSET Listed]
    /\ job \in [Worker -> Jobs]
    /\ last \in [Rule -> Last]
    /\ strict \in SUBSET Rule
    /\ reopened \in SUBSET Task

Init ==
    /\ now = 0
    /\ template = [t \in Template |-> TRUE]
    /\ rule = [r \in Rule |-> Unmade(AnyTemplate)]
    /\ task = [k \in Task |-> [rule |-> NoRule, status |-> "absent"]]
    /\ sweep = Waiting
    /\ job = [w \in Worker |-> Idle]
    /\ last = [r \in Rule |-> Never]
    /\ strict = Rule
    /\ reopened = {}

Open(k) == task[k].status \in {"assigned", "proof_submitted"}
OpenOf(r) == {k \in Task : task[k].rule = r /\ Open(k)}
Free == {k \in Task : task[k].status = "absent"}
UnmadeRules == {r \in Rule : rule[r].schedule = NoSchedule}

\* Which of the unused ids an insertion takes makes no difference.
NewId(unused) == CHOOSE id \in unused : TRUE

-----------------------------------------------------------------------------
(* The keyholder's requests.                                                *)

InsertRule(t, s, overlap) ==
    LET r == NewId(UnmadeRules) IN
    /\ UnmadeRules # {}
    /\ rule' = [rule EXCEPT ![r] = [schedule |-> s, template |-> t, overlap |-> overlap,
                                    active |-> TRUE, next |-> NextOccurrence(s, now)]]
    /\ strict' = IF overlap THEN strict \ {r} ELSE strict
    /\ UNCHANGED <<now, template, task, sweep, job, last, reopened>>

CreateRule(t, s, overlap) == Occurs(s, now) /\ InsertRule(t, s, overlap)

\* Mutant of EditRead: without a schedule in the request the due time is lost.
EditReadUndated(w, r, e) ==
    /\ job[w] = Idle
    /\ rule[r].schedule # NoSchedule
    /\ job' = [job EXCEPT ![w] = [Idle EXCEPT !.op = "edit", !.rule = r, !.row =
         [rule[r] EXCEPT !.next = IF e.schedule = NoSchedule THEN NoSchedule
                                  ELSE NextOccurrence(e.schedule, now)]]]
    /\ UNCHANGED <<now, tables, sweep, history>>

\* update, as far as it computes: the row it will write.  A schedule that is not
\* in the request leaves the due time that was read.
EditRead(w, r, e) ==
    LET Field(new, old) == IF new = {} THEN old ELSE TRUE \in new
        row == rule[r]
    IN
    /\ job[w] = Idle
    /\ row.schedule # NoSchedule
    /\ e.schedule # NoSchedule => Occurs(e.schedule, now)
    /\ job' = [job EXCEPT ![w] = [Idle EXCEPT !.op = "edit", !.rule = r, !.row =
         [schedule |-> IF e.schedule = NoSchedule THEN row.schedule ELSE e.schedule,
          template |-> row.template,
          overlap |-> Field(e.overlap, row.overlap),
          active |-> Field(e.active, row.active),
          next |-> IF e.schedule = NoSchedule THEN row.next ELSE NextOccurrence(e.schedule, now)]]]
    /\ UNCHANGED <<now, tables, sweep, history>>

EditWrite(w) ==
    LET r == job[w].rule IN
    /\ job[w].op = "edit"
    /\ rule' = [rule EXCEPT ![r] = job[w].row]
    /\ strict' = IF job[w].row.overlap THEN strict \ {r} ELSE strict
    /\ last' = [last EXCEPT ![r] = IF job[w].row.next = rule[r].next THEN @ ELSE Never]
    /\ job' = [job EXCEPT ![w] = Idle]
    /\ UNCHANGED <<now, template, task, sweep, reopened>>

\* templates::update writes back the column active it read, or the one it was
\* asked for: either value, whatever it is by then.
EditTemplate(t) ==
    /\ template' = [template EXCEPT ![t] = ~@]
    /\ UNCHANGED <<now, rule, task, sweep, job, history>>

-----------------------------------------------------------------------------
(* The spawned tasks, after Assignments: settled by a decision, a verdict or *)
(* the deadline; a submission in flight makes the row open again.           *)

Settle(k) ==
    /\ Open(k)
    /\ task' = [task EXCEPT ![k].status = "settled"]
    /\ reopened' = reopened \ {k}
    /\ UNCHANGED <<now, template, rule, sweep, job, last, strict>>

SubmitCheck(w, k) ==
    /\ job[w] = Idle
    /\ task[k].status = "assigned"
    /\ job' = [job EXCEPT ![w] = [Idle EXCEPT !.op = "submit", !.task = k]]
    /\ UNCHANGED <<now, tables, sweep, history>>

SubmitCommit(w) ==
    LET k == job[w].task IN
    /\ job[w].op = "submit"
    /\ task' = [task EXCEPT ![k].status = "proof_submitted"]
    /\ reopened' = IF Open(k) THEN reopened ELSE reopened \cup {k}
    /\ job' = [job EXCEPT ![w] = Idle]
    /\ UNCHANGED <<now, template, rule, sweep, last, strict>>

-----------------------------------------------------------------------------
(* The sweep.                                                               *)

Due(r) == rule[r].active /\ rule[r].schedule # NoSchedule /\ rule[r].next <= now

SweepSelect ==
    /\ sweep = Waiting
    /\ \E r \in Rule : Due(r)
    /\ sweep' = [at |-> now, checked |-> {},
                 todo |-> {[id |-> r, row |-> rule[r]] : r \in {q \in Rule : Due(q)}}]
    /\ UNCHANGED <<now, tables, job, history>>

\* The next rule of the list is passed over, or left alone for this tick.
Done(entry) ==
    IF sweep.todo = {entry} THEN Waiting
    ELSE [sweep EXCEPT !.todo = @ \ {entry}, !.checked = {}]

Resumes(entry) == Occurs(entry.row.schedule, sweep.at + 1)

\* Mutant of SweepCheck: a task still open ends the tick.
SweepCheckBreaks(entry) ==
    /\ entry \in sweep.todo /\ sweep.checked = {}
    /\ sweep' = IF (entry.row.overlap \/ OpenOf(entry.id) = {}) /\ Resumes(entry)
                THEN [sweep EXCEPT !.checked = {entry}] ELSE Waiting
    /\ UNCHANGED <<now, tables, job, history>>

\* Mutant of SweepCheck: a task whose proof is in counts as done.
SweepCheckAssigned(entry) ==
    /\ entry \in sweep.todo /\ sweep.checked = {}
    /\ sweep' = IF /\ entry.row.overlap \/ \A k \in OpenOf(entry.id) : task[k].status # "assigned"
                   /\ Resumes(entry)
                THEN [sweep EXCEPT !.checked = {entry}] ELSE Done(entry)
    /\ UNCHANGED <<now, tables, job, history>>

\* Is a task of the rule still open, and is there a next instant?
SweepCheck(entry) ==
    /\ entry \in sweep.todo /\ sweep.checked = {}
    /\ sweep' = IF (entry.row.overlap \/ OpenOf(entry.id) = {}) /\ Resumes(entry)
                THEN [sweep EXCEPT !.checked = {entry}] ELSE Done(entry)
    /\ UNCHANGED <<now, tables, job, history>>

\* Mutant of Spawn: the next due time is looked for from this very second.
SpawnFromNow(entry) ==
    /\ entry \in sweep.checked
    /\ template[entry.row.template]
    /\ Free # {}
    /\ task' = [task EXCEPT ![NewId(Free)] = [rule |-> entry.id, status |-> "assigned"]]
    /\ rule' = [rule EXCEPT ![entry.id].next = NextOccurrence(entry.row.schedule, sweep.at)]
    /\ last' = [last EXCEPT ![entry.id] = [schedule |-> entry.row.schedule, at |-> sweep.at]]
    /\ sweep' = Done(entry)
    /\ UNCHANGED <<now, template, job, strict, reopened>>

\* One transaction: the task of the rule as it was listed, and when it is due next.
Spawn(entry) ==
    /\ entry \in sweep.checked
    /\ template[entry.row.template]
    /\ Free # {}
    /\ task' = [task EXCEPT ![NewId(Free)] = [rule |-> entry.id, status |-> "assigned"]]
    /\ rule' = [rule EXCEPT ![entry.id].next = NextOccurrence(entry.row.schedule, sweep.at + 1)]
    /\ last' = [last EXCEPT ![entry.id] = [schedule |-> entry.row.schedule, at |-> sweep.at]]
    /\ sweep' = Done(entry)
    /\ UNCHANGED <<now, template, job, strict, reopened>>

\* The template was deactivated: the due time stays, the rest of the list goes on.
SpawnFails(entry) ==
    /\ entry \in sweep.checked
    /\ ~template[entry.row.template]
    /\ sweep' = Done(entry)
    /\ UNCHANGED <<now, tables, job, history>>

\* Any other error of the database ends the tick.
SweepError ==
    /\ sweep # Waiting
    /\ sweep' = Waiting
    /\ UNCHANGED <<now, tables, job, history>>

Crash ==
    /\ sweep' = Waiting
    /\ job' = [w \in Worker |-> Idle]
    /\ UNCHANGED <<now, tables, history>>

Tick ==
    /\ now < MaxTime
    /\ now' = now + 1
    /\ UNCHANGED <<tables, sweep, job, history>>

-----------------------------------------------------------------------------

Request(w) ==
    \/ \E r \in Edited, e \in Edits : EditRead(w, r, e)
    \/ EditWrite(w)
    \/ \E k \in Task : SubmitCheck(w, k)
    \/ SubmitCommit(w)

Sweep ==
    \/ SweepSelect
    \/ \E entry \in sweep.todo : SweepCheck(entry) \/ Spawn(entry) \/ SpawnFails(entry)

Next ==
    \/ \E t \in Template, s \in Schedules, overlap \in BOOLEAN : CreateRule(t, s, overlap)
    \/ \E w \in Worker : Request(w)
    \/ \E t \in Template : EditTemplate(t)
    \/ \E k \in Task : Settle(k)
    \/ Sweep \/ SweepError \/ Crash \/ Tick

Spec == Init /\ [][Next]_vars

\* A tick ends where its list does.
Faultless == sweep # Waiting /\ sweep' = Waiting => Sweep

\* The sweep is a loop; errors and crashes come to an end.
FairSpec == Spec /\ WF_vars(Sweep) /\ <>[][Faultless]_vars

-----------------------------------------------------------------------------
(* Properties.                                                              *)

\* A rule that never allowed an overlap has one open task at most, other than
\* those a late submission opened again, however old the sweep's list is
\* (docs/06-future-extensions.md, section 14, the skip-if-open check).
OneOpenTask == \A r \in strict : \A j, k \in OpenOf(r) \ reopened : j = k

\* The reference: schedule s asks for a task after instant a and by instant b.
Asks(s, a, b) ==
    IF s.kind = "interval_hours" THEN b - a > s.every
    ELSE \E x \in (a + 1)..b : /\ x % Day = s.time
                               /\ s.kind = "weekly_days" => (x \div Day) % Week \in s.days

Spawns(r) == \E k \in Task : task[k].status = "absent" /\ task'[k].rule = r

\* Two spawns of a rule are apart what its schedule asks for, unless an edit moved
\* the due time in between (NextOccurrence and the sweep of recurring_tasks.rs).
SpawnsSpaced ==
    [][\A r \in Rule : Spawns(r) /\ last[r] # Never /\ WellFormed(last[r].schedule) =>
          Asks(last[r].schedule, last[r].at, sweep.at)]_vars

Spawnable(r) ==
    /\ Due(r) /\ template[rule[r].template]
    /\ Occurs(rule[r].schedule, now + 1)
    /\ rule[r].overlap \/ OpenOf(r) = {}
    /\ Free # {}

\* A rule that is due and may spawn does not stay so: rules whose template was
\* deactivated, whose task is still open or which were edited do not hold it up.
DueRuleSpawns == \A r \in Rule : []<>~Spawnable(r)
=============================================================================
