---------------------------- MODULE RecurringProofs ----------------------------
(***************************************************************************)
(* Proofs about Recurring, for any rules, templates, tasks and workers, any  *)
(* set of schedules and any length of the day and the week.                 *)
(*                                                                         *)
(* TypeOK is inductive alone.  OneOpenTask needs that the sweep's check of a *)
(* strict rule still holds when it spawns (OneInv), SpawnsSpaced that the    *)
(* due time of a rule, in the table and in the sweep's list, is the one its  *)
(* last spawn has set (DueInv), and what NextOccurrence computes             *)
(* (NextOccurrenceAsks).                                                    *)
(***************************************************************************)
EXTENDS Recurring, WellFoundedInduction, TLAPS

-----------------------------------------------------------------------------
(* The schedule.                                                            *)

LEMMA LeastExists ==
    ASSUME NEW S \in SUBSET Nat, S # {}
    PROVE  \E m \in S : \A n \in S : m <= n
<1> DEFINE R == {p \in Nat \X Nat : p[1] < p[2]}
<1>1. IsWellFoundedOn(R, Nat)
  BY NatLessThanWellFounded DEF OpToRel
<1>2. PICK m \in S : \A n \in S : ~(<<n, m>> \in R)
  BY <1>1, WFMin
<1>3. \A n \in S : ~(n < m)
  BY <1>2
<1>4. QED
  BY <1>3

LEMMA DivisionBy ==
    ASSUME NEW m \in Nat \ {0}, NEW y \in Int
    PROVE  /\ y \div m \in Int /\ y % m \in 0..(m - 1)
           /\ y = m * (y \div m) + (y % m)
OBVIOUS

LEMMA DivisionUnique ==
    ASSUME NEW m \in Nat \ {0}, NEW q \in Int, NEW r \in 0..(m - 1)
    PROVE  (q * m + r) % m = r /\ (q * m + r) \div m = q
<1> DEFINE x == q * m + r
<1>1. x \in Int
  OBVIOUS
<1>2. x = m * (x \div m) + (x % m) /\ x % m \in 0..(m - 1) /\ x \div m \in Int
  BY <1>1, DivisionBy
<1>3. QED
  BY <1>2

LEMMA SlotTime ==
    ASSUME NEW from \in Int, NEW i \in Int, NEW t \in 0..(Day - 1)
    PROVE  (from - (from % Day) + i * Day + t) % Day = t
<1> DEFINE q == from \div Day + i
<1>1. q \in Int /\ from - (from % Day) + i * Day = q * Day
  <2> DEFINE d == from \div Day
  <2>1. d \in Int /\ from = Day * d + (from % Day) /\ from % Day \in 0..(Day - 1)
    BY RecurringAssumption
  <2> HIDE DEF d
  <2>2. from - (from % Day) = d * Day
    BY <2>1, RecurringAssumption
  <2>3. d * Day + i * Day = (d + i) * Day
    BY <2>1, RecurringAssumption
  <2>4. QED
    BY <2>1, <2>2, <2>3 DEF d
<1>2. (q * Day + t) % Day = t
  BY <1>1, DivisionUnique, RecurringAssumption
<1>3. QED
  BY <1>1, <1>2

LEMMA SlotInt ==
    ASSUME NEW s \in Schedules, NEW from \in Int, NEW i \in Int
    PROVE  Slot(s, from, i) \in Int
BY RecurringAssumption DEF Slot

LEMMA FirstFitting ==
    ASSUME NEW s \in Schedules, NEW from \in Int, Fitting(s, from) # {},
           NEW first, first = CHOOSE i \in Fitting(s, from) : \A j \in Fitting(s, from) : i <= j
    PROVE  first \in Fitting(s, from) /\ \A j \in Fitting(s, from) : first <= j
<1> DEFINE F == Fitting(s, from)
<1>1. F \in SUBSET Nat
  BY RecurringAssumption DEF Fitting
<1> HIDE DEF F
<1>2. \E i \in F : \A j \in F : i <= j
  BY <1>1, LeastExists DEF F
<1>3. first = CHOOSE i \in F : \A j \in F : i <= j
  BY DEF F
<1>4. first \in F /\ \A j \in F : first <= j
  BY <1>2, <1>3
<1>5. QED
  BY <1>4 DEF F

LEMMA KindsOf ==
    ASSUME NEW s \in Schedules
    PROVE  /\ s.kind \in {"interval_hours", "daily", "weekly_days"}
           /\ s.every \in Nat \ {0} /\ s.time \in Int /\ s.days \in SUBSET Nat
BY RecurringAssumption DEF Kinds

\* The four ways a next instant comes about.
LEMMA NextOccurrenceIs ==
    ASSUME NEW s \in Schedules, NEW from \in Int, Occurs(s, from)
    PROVE  \/ s.kind = "interval_hours" /\ NextOccurrence(s, from) = from + s.every
           \/ /\ s.kind = "daily" /\ Slot(s, from, 0) >= from
              /\ NextOccurrence(s, from) = Slot(s, from, 0)
           \/ /\ s.kind = "daily" /\ ~(Slot(s, from, 0) >= from)
              /\ NextOccurrence(s, from) = Slot(s, from, 1)
           \/ /\ s.kind = "weekly_days"
              /\ \E i \in Fitting(s, from) : /\ NextOccurrence(s, from) = Slot(s, from, i)
                                             /\ \A j \in Fitting(s, from) : i <= j
<1>1. CASE s.kind = "interval_hours"
  BY <1>1 DEF NextOccurrence
<1>2. CASE s.kind = "daily"
  BY <1>2 DEF NextOccurrence
<1>3. CASE s.kind = "weekly_days"
  <2> DEFINE i == CHOOSE i \in Fitting(s, from) : \A j \in Fitting(s, from) : i <= j
  <2>1. i \in Fitting(s, from) /\ \A j \in Fitting(s, from) : i <= j
    BY <1>3, FirstFitting DEF Occurs
  <2>2. NextOccurrence(s, from) = Slot(s, from, i)
    BY <1>3 DEF NextOccurrence
  <2> HIDE DEF i
  <2>3. QED
    BY <1>3, <2>1, <2>2
<1>4. QED
  BY <1>1, <1>2, <1>3, KindsOf

LEMMA NextOccurrenceInt ==
    ASSUME NEW s \in Schedules, NEW from \in Int, Occurs(s, from)
    PROVE  NextOccurrence(s, from) \in Int
<1>1. \A i \in Fitting(s, from) : i \in Int
  BY RecurringAssumption DEF Fitting
<1>2. QED
  BY <1>1, NextOccurrenceIs, SlotInt, KindsOf

\* What the schedule asks for: an instant that has come after a spawn, by the reference
\* definition Asks.
LEMMA NextOccurrenceAsks ==
    ASSUME NEW s \in Schedules, WellFormed(s), NEW a \in Int, Occurs(s, a + 1), NEW b \in Int,
           NextOccurrence(s, a + 1) <= b
    PROVE  Asks(s, a, b)
<1> DEFINE x == NextOccurrence(s, a + 1)
<1>0. a + 1 \in Int /\ x \in Int
  BY NextOccurrenceInt
<1>1. CASE s.kind = "interval_hours"
  <2>1. x = a + 1 + s.every
    BY <1>0, <1>1, NextOccurrenceIs
  <2>2. QED
    BY <1>1, <2>1, KindsOf DEF Asks
<1>2. ASSUME s.kind # "interval_hours" PROVE s.time \in 0..(Day - 1)
  BY <1>2 DEF WellFormed
<1>3. CASE s.kind = "daily"
  <2>1. x \in {Slot(s, a + 1, 0), Slot(s, a + 1, 1)}
    BY <1>0, <1>3, NextOccurrenceIs
  <2>2. x % Day = s.time
    BY <1>0, <1>2, <1>3, <2>1, SlotTime DEF Slot
  <2>3. x >= a + 1
    <3>1. (a + 1) % Day \in 0..(Day - 1)
      BY RecurringAssumption
    <3>2. Slot(s, a + 1, 1) >= a + 1
      BY <1>2, <1>3, <3>1, RecurringAssumption DEF Slot
    <3>3. QED
      BY <1>0, <1>3, <3>2, NextOccurrenceIs
  <2>4. QED
    BY <1>0, <1>3, <2>2, <2>3 DEF Asks
<1>4. CASE s.kind = "weekly_days"
  <2>1. PICK i \in Fitting(s, a + 1) : x = Slot(s, a + 1, i)
    BY <1>0, <1>4, NextOccurrenceIs
  <2>2. i \in Int /\ x >= a + 1 /\ (x \div Day) % Week \in s.days
    BY <2>1, RecurringAssumption DEF Fitting
  <2>3. x % Day = s.time
    BY <1>0, <1>2, <1>4, <2>1, <2>2, SlotTime DEF Slot
  <2>4. QED
    BY <1>0, <1>4, <2>2, <2>3 DEF Asks
<1>5. QED
  BY <1>1, <1>3, <1>4, KindsOf

\* A schedule of days asks for a task at this instant.
AskedAt(s, y) ==
    /\ y % Day = s.time
    /\ s.kind = "weekly_days" => (y \div Day) % Week \in s.days

LEMMA DivisionOf ==
    ASSUME NEW y \in Int
    PROVE  /\ y \div Day \in Int /\ y % Day \in 0..(Day - 1)
           /\ y = Day * (y \div Day) + (y % Day)
BY DivisionBy, RecurringAssumption

LEMMA MultiplesOrdered ==
    ASSUME NEW m \in Int, NEW n \in Int
    PROVE  m <= n <=> m * Day <= n * Day
<1>1. m <= n => m * Day <= n * Day
  BY RecurringAssumption
<1>2. n + 1 <= m => (n + 1) * Day <= m * Day
  BY RecurringAssumption
<1>3. (n + 1) * Day = n * Day + Day
  BY RecurringAssumption
<1>4. QED
  BY <1>1, <1>2, <1>3, RecurringAssumption

LEMMA SlotsOrdered ==
    ASSUME NEW s \in Schedules, NEW from \in Int, NEW m \in Int, NEW n \in Int, m <= n
    PROVE  Slot(s, from, m) <= Slot(s, from, n)
<1>1. m * Day <= n * Day /\ m * Day \in Int /\ n * Day \in Int
  BY MultiplesOrdered, RecurringAssumption
<1>2. from % Day \in Int /\ s.time \in Int
  BY DivisionOf, KindsOf
<1>3. QED
  BY <1>1, <1>2 DEF Slot

\* An instant of the schedule is a slot, counted from any day.
LEMMA SlotOf ==
    ASSUME NEW s \in Schedules, NEW from \in Int, NEW y \in Int, y >= from, y % Day = s.time
    PROVE  LET i == y \div Day - from \div Day IN i \in Nat /\ y = Slot(s, from, i)
<1> DEFINE d == from \div Day
<1> DEFINE q == y \div Day
<1>1. /\ d \in Int /\ from = Day * d + (from % Day) /\ from % Day \in 0..(Day - 1)
      /\ q \in Int /\ y = Day * q + (y % Day) /\ y % Day \in 0..(Day - 1)
  BY DivisionOf
<1> HIDE DEF d, q
<1>2. q >= d
  <2> SUFFICES ASSUME q + 1 <= d PROVE FALSE
    BY <1>1
  <2>1. (q + 1) * Day <= d * Day /\ (q + 1) * Day = q * Day + Day
    BY <1>1, MultiplesOrdered, RecurringAssumption
  <2>2. QED
    BY <1>1, <2>1, RecurringAssumption
<1>3. from - (from % Day) = d * Day
  BY <1>1, RecurringAssumption
<1>4. d * Day + (q - d) * Day = q * Day
  BY <1>1, RecurringAssumption
<1>5. y = q * Day + s.time
  BY <1>1, RecurringAssumption
<1>6. QED
  BY <1>1, <1>2, <1>3, <1>4, <1>5 DEF Slot, d, q

\* next_occurrence computes "the next timestamp >= from satisfying this rule's schedule"
\* (its comment), for schedules of days: an instant at from or later that is asked for,
\* and none before it is.
THEOREM NextOccurrenceIsFirst ==
    ASSUME NEW s \in Schedules, WellFormed(s), s.kind # "interval_hours",
           NEW from \in Int, Occurs(s, from)
    PROVE  LET x == NextOccurrence(s, from) IN
           /\ x \in Int /\ x >= from /\ AskedAt(s, x)
           /\ \A y \in from..(x - 1) : ~AskedAt(s, y)
<1> DEFINE x == NextOccurrence(s, from)
<1>1. x \in Int /\ s.time \in 0..(Day - 1) /\ (from % Day) \in 0..(Day - 1)
  BY NextOccurrenceInt, DivisionOf DEF WellFormed
<1>2. \A y \in from..(x - 1) : y % Day = s.time =>
         /\ y \div Day - from \div Day \in Nat
         /\ y = Slot(s, from, y \div Day - from \div Day)
  BY <1>1, SlotOf
<1>3. CASE s.kind = "daily"
  <2>1. x \in {Slot(s, from, 0), Slot(s, from, 1)} /\ x % Day = s.time
    BY <1>1, <1>3, NextOccurrenceIs, SlotTime DEF Slot
  <2>2. Slot(s, from, 1) >= from
    BY <1>1, RecurringAssumption DEF Slot
  <2>3. x >= from /\ (Slot(s, from, 0) >= from => x = Slot(s, from, 0))
    BY <1>3, <2>2, NextOccurrenceIs
  <2>4. ASSUME NEW y \in from..(x - 1), y % Day = s.time PROVE FALSE
    <3> DEFINE i == y \div Day - from \div Day
    <3>1. i \in Nat /\ y = Slot(s, from, i)
      BY <1>2, <2>4
    <3> HIDE DEF i
    <3>2. CASE i = 0
      BY <1>1, <2>3, <2>4, <3>1, <3>2
    <3>3. CASE i >= 1
      <4>1. Slot(s, from, 1) <= Slot(s, from, i) /\ Slot(s, from, 0) <= Slot(s, from, i)
        BY <3>1, <3>3, SlotsOrdered
      <4>2. Slot(s, from, 1) \in Int /\ Slot(s, from, 0) \in Int
        BY SlotInt
      <4>3. QED
        BY <1>1, <2>1, <2>4, <3>1, <4>1, <4>2
    <3>4. QED
      BY <3>1, <3>2, <3>3
  <2>5. QED
    BY <1>1, <1>3, <2>1, <2>3, <2>4 DEF AskedAt
<1>4. CASE s.kind = "weekly_days"
  <2>1. PICK n \in Fitting(s, from) : x = Slot(s, from, n) /\ \A j \in Fitting(s, from) : n <= j
    BY <1>4, NextOccurrenceIs
  <2>2. n \in 0..Week /\ x >= from /\ (x \div Day) % Week \in s.days
    BY <2>1 DEF Fitting
  <2>3. x % Day = s.time
    <3>1. n \in Int
      BY <2>2, RecurringAssumption
    <3>2. Slot(s, from, n) % Day = s.time
      BY <1>1, <3>1, SlotTime DEF Slot
    <3>3. QED
      BY <2>1, <3>2
  <2>4. ASSUME NEW y \in from..(x - 1), AskedAt(s, y) PROVE FALSE
    <3> DEFINE i == y \div Day - from \div Day
    <3>1. i \in Nat /\ y = Slot(s, from, i)
      BY <1>2, <2>4 DEF AskedAt
    <3> HIDE DEF i
    <3>2. n <= i
      <4>1. CASE i \in 0..Week
        <5>1. i \in Fitting(s, from)
          BY <1>4, <2>4, <3>1, <4>1 DEF Fitting, AskedAt
        <5>2. QED
          BY <2>1, <5>1
      <4>2. CASE i \notin 0..Week
        BY <2>2, <3>1, <4>2, RecurringAssumption
      <4>3. QED
        BY <4>1, <4>2
    <3>3. n \in Int /\ i \in Int
      BY <2>2, <3>1, RecurringAssumption
    <3>4. x <= y
      BY <2>1, <3>1, <3>2, <3>3, SlotsOrdered
    <3>5. QED
      BY <1>1, <2>4, <3>4
  <2>5. QED
    BY <1>1, <1>4, <2>2, <2>3, <2>4 DEF AskedAt
<1>5. QED
  BY <1>3, <1>4, KindsOf

\* "A full week plus one extra day guarantees a match" (its comment): a well-formed schedule
\* always has a next instant, so that the sweep passes over no rule that has one.
THEOREM WeekGuaranteesMatch ==
    ASSUME NEW s \in Schedules, WellFormed(s), NEW from \in Int
    PROVE  Occurs(s, from)
<1> SUFFICES ASSUME s.kind = "weekly_days" PROVE Fitting(s, from) # {}
  BY DEF Occurs
<1>1. PICK day \in 0..(Week - 1) : day \in s.days
  BY DEF WellFormed
<1>2. s.time \in 0..(Day - 1)
  BY DEF WellFormed
<1> DEFINE d == from \div Day
<1>3. d \in Int /\ from = Day * d + (from % Day) /\ from % Day \in 0..(Day - 1)
  BY DivisionOf
<1> HIDE DEF d
\* The first day after from's own that is such a day of the week.
<1> DEFINE i == 1 + ((day - (d + 1)) % Week)
<1>4. i \in 1..Week /\ (d + i) % Week = day
  <2> DEFINE z == day - (d + 1)
  <2>1. z \in Int
    BY <1>1, <1>3
  <2> DEFINE c == z \div Week
  <2> DEFINE e == z % Week
  <2>2. z = Week * c + e /\ e \in 0..(Week - 1) /\ c \in Int
    BY <2>1, DivisionBy, RecurringAssumption
  <2> HIDE DEF c, e
  <2>3. i = 1 + e
    BY DEF e
  <2>4. d + i = (-c) * Week + day
    BY <1>1, <1>3, <2>2, <2>3, RecurringAssumption
  <2>5. ((-c) * Week + day) % Week = day
    <3>1. -c \in Int /\ Week \in Nat \ {0} /\ day \in 0..(Week - 1)
      BY <1>1, <2>2, RecurringAssumption
    <3>2. \A q \in Int : (q * Week + day) % Week = day
      BY <3>1, DivisionUnique
    <3>3. QED
      BY <3>1, <3>2
  <2>6. (d + i) % Week = day
    BY <2>4, <2>5
  <2>7. QED
    BY <2>2, <2>3, <2>6, RecurringAssumption
<1> HIDE DEF i
<1>5. Slot(s, from, i) = (d + i) * Day + s.time
  <2>1. from - (from % Day) = d * Day /\ d * Day + i * Day = (d + i) * Day
    BY <1>3, <1>4, RecurringAssumption
  <2>2. QED
    BY <2>1 DEF Slot
<1>6. Slot(s, from, i) >= from
  <2>1. (d + 1) * Day <= (d + i) * Day /\ (d + 1) * Day = d * Day + Day
    BY <1>3, <1>4, MultiplesOrdered, RecurringAssumption
  <2>2. QED
    BY <1>2, <1>3, <1>4, <1>5, <2>1, RecurringAssumption
<1>7. Slot(s, from, i) \div Day = d + i
  <2>1. d + i \in Int
    BY <1>3, <1>4, RecurringAssumption
  <2>2. ((d + i) * Day + s.time) \div Day = d + i
    BY <1>2, <2>1, DivisionUnique, RecurringAssumption
  <2>3. QED
    BY <1>5, <2>2
<1>8. i \in Fitting(s, from)
  BY <1>1, <1>4, <1>6, <1>7 DEF Fitting
<1>9. QED
  BY <1>8

-----------------------------------------------------------------------------
(* Type correctness.                                                        *)

LEMMA UnmadeType == /\ AnyTemplate \in Template
                    /\ \A t \in Template : Unmade(t) \in Rules
                    /\ Idle \in Jobs
<1>1. AnyTemplate \in Template
  BY RecurringAssumption DEF AnyTemplate
<1>2. \A t \in Template : Unmade(t) \in Rules
  BY DEF Unmade, Rules
<1>3. QED
  BY <1>1, <1>2 DEF Idle, Jobs

\* A rule that has been made has a schedule; a request to edit writes one, and the sweep
\* lists no other rule.
Made ==
    /\ \A w \in Worker : job[w].op = "edit" => job[w].rule \in Rule /\ job[w].row.schedule \in Schedules
    /\ \A w \in Worker : job[w].op = "submit" => job[w].task \in Task
    /\ \A entry \in sweep.todo \cup sweep.checked : entry.row.schedule \in Schedules
    /\ \A entry \in sweep.checked : Resumes(entry)

TInv == TypeOK /\ Made

LEMMA TInvInit == Init => TInv
BY UnmadeType DEF Init, TInv, Made, TypeOK, Tasks, Waiting, Never, Last, Idle

LEMMA NewIdOf == ASSUME NEW S, S # {} PROVE NewId(S) \in S
BY DEF NewId

\* The sweep's list only gets shorter.
LEMMA DoneType ==
    ASSUME TInv, NEW entry
    PROVE  /\ Done(entry) \in [at : Nat, todo : SUBSET Listed, checked : SUBSET Listed]
           /\ Done(entry).todo \subseteq sweep.todo \ {entry} /\ Done(entry).checked = {}
           /\ Done(entry) = Waiting \/ Done(entry).at = sweep.at
BY DEF TInv, TypeOK, Done, Waiting

LEMMA RuleWritten ==
    ASSUME TInv, NEW r, NEW row, r \in Rule => row \in Rules, rule' = [rule EXCEPT ![r] = row]
    PROVE  rule' \in [Rule -> Rules]
BY DEF TInv, TypeOK

LEMMA TaskWritten ==
    ASSUME TInv, NEW k, NEW row, k \in Task => row \in Tasks, task' = [task EXCEPT ![k] = row]
    PROVE  task' \in [Task -> Tasks]
BY DEF TInv, TypeOK

\* A worker ends its request.
LEMMA EndType ==
    ASSUME TInv, NEW w \in Worker, job' = [job EXCEPT ![w] = Idle]
    PROVE  /\ job' \in [Worker -> Jobs]
           /\ \A v \in Worker : job'[v].op = "edit" => job'[v] = job[v]
           /\ \A v \in Worker : job'[v].op = "submit" => job'[v] = job[v]
BY UnmadeType DEF TInv, TypeOK, Idle

LEMMA CreateType ==
    ASSUME TInv, NEW t \in Template, NEW s \in Schedules, NEW overlap \in BOOLEAN,
           CreateRule(t, s, overlap)
    PROVE  TInv'
<1> DEFINE row == [schedule |-> s, template |-> t, overlap |-> overlap,
                   active |-> TRUE, next |-> NextOccurrence(s, now)]
<1>1. row \in Rules
  BY NextOccurrenceInt DEF CreateRule, TInv, TypeOK, Rules
<1> HIDE DEF row
<1>2. rule' = [rule EXCEPT ![NewId(UnmadeRules)] = row]
  BY DEF CreateRule, InsertRule, row
<1>3. rule' \in [Rule -> Rules]
  BY <1>1, <1>2, RuleWritten
<1>4. strict' \in SUBSET Rule /\ UNCHANGED <<now, template, task, sweep, job, last, reopened>>
  BY DEF CreateRule, InsertRule, TInv, TypeOK
<1>5. QED
  BY <1>3, <1>4 DEF TInv, TypeOK, Made, Resumes

LEMMA EditType ==
    ASSUME TInv, NEW w \in Worker,
           (\E r \in Edited, e \in Edits : EditRead(w, r, e)) \/ EditWrite(w)
    PROVE  TInv'
<1>1. ASSUME NEW r \in Edited, NEW e \in Edits, EditRead(w, r, e) PROVE TInv'
  <2> DEFINE Field(new, old) == IF new = {} THEN old ELSE TRUE \in new
  <2> DEFINE sched == IF e.schedule = NoSchedule THEN rule[r].schedule ELSE e.schedule
  <2> DEFINE due == IF e.schedule = NoSchedule THEN rule[r].next ELSE NextOccurrence(e.schedule, now)
  <2> DEFINE row == [schedule |-> sched, template |-> rule[r].template,
                     overlap |-> Field(e.overlap, rule[r].overlap),
                     active |-> Field(e.active, rule[r].active), next |-> due]
  <2>1. r \in Rule /\ rule[r] \in Rules /\ e.schedule \in Schedules \cup {NoSchedule} /\ now \in Int
    BY RecurringAssumption DEF TInv, TypeOK
  <2>2. sched \in Schedules
    BY <1>1, <2>1 DEF EditRead, Rules
  <2>3. due \in Int
    BY <1>1, <2>1, NextOccurrenceInt DEF EditRead, Rules
  <2>4. Field(e.overlap, rule[r].overlap) \in BOOLEAN /\ Field(e.active, rule[r].active) \in BOOLEAN
    <3>1. \A new : (TRUE \in new) \in BOOLEAN
      OBVIOUS
    <3>2. rule[r].overlap \in BOOLEAN /\ rule[r].active \in BOOLEAN
      BY <2>1 DEF Rules
    <3>3. QED
      BY <3>2, <3>1, Zenon
  <2>5. row \in Rules
    BY <2>1, <2>2, <2>3, <2>4 DEF Rules
  <2>6. job' = [job EXCEPT ![w] = [Idle EXCEPT !.op = "edit", !.rule = r, !.row = row]]
    BY <1>1 DEF EditRead
  <2>7. row.schedule \in Schedules
    BY <2>2
  <2> HIDE DEF row
  <2>8. [Idle EXCEPT !.op = "edit", !.rule = r, !.row = row] \in Jobs
    BY <2>1, <2>5, UnmadeType DEF Jobs
  <2>9. job' \in [Worker -> Jobs]
    BY <2>6, <2>8 DEF TInv, TypeOK
  <2>10. \A v \in Worker : \/ job'[v] = job[v]
                           \/ job'[v].op = "edit" /\ job'[v].rule = r /\ job'[v].row = row
    BY <2>6, UnmadeType DEF TInv, TypeOK, Idle
  <2>11. UNCHANGED <<now, tables, sweep, history>>
    BY <1>1 DEF EditRead
  <2>12. QED
    BY <2>1, <2>7, <2>9, <2>10, <2>11 DEF TInv, TypeOK, Made, Resumes, tables, history
<1>2. CASE EditWrite(w)
  <2>1. rule' \in [Rule -> Rules]
    <3>1. job[w].row \in Rules
      BY DEF TInv, TypeOK, Jobs
    <3>2. QED
      BY <1>2, <3>1, RuleWritten DEF EditWrite
  <2>2. last' \in [Rule -> Last]
    BY <1>2 DEF EditWrite, TInv, TypeOK, Never, Last
  <2>3. job' = [job EXCEPT ![w] = Idle] /\ strict' \in SUBSET Rule
    BY <1>2 DEF EditWrite, TInv, TypeOK
  <2>4. UNCHANGED <<now, template, task, sweep, reopened>>
    BY <1>2 DEF EditWrite
  <2>5. QED
    BY <2>1, <2>2, <2>3, <2>4, EndType DEF TInv, TypeOK, Made, Resumes
<1>3. QED
  BY <1>1, <1>2

LEMMA TasksType ==
    ASSUME TInv,
           \/ \E k \in Task : Settle(k)
           \/ \E w \in Worker : (\E k \in Task : SubmitCheck(w, k)) \/ SubmitCommit(w)
    PROVE  TInv'
<1>1. ASSUME NEW k \in Task, Settle(k) PROVE TInv'
  <2>1. task' \in [Task -> Tasks]
    BY <1>1 DEF Settle, TInv, TypeOK, Tasks
  <2>2. QED
    BY <1>1, <2>1 DEF Settle, TInv, TypeOK, Made, Resumes
<1>2. ASSUME NEW w \in Worker, NEW k \in Task, SubmitCheck(w, k) PROVE TInv'
  <2> DEFINE j == [Idle EXCEPT !.op = "submit", !.task = k]
  <2>1. j \in Jobs /\ j.op = "submit" /\ j.task = k
    BY UnmadeType DEF Jobs
  <2>2. job' = [job EXCEPT ![w] = j] /\ UNCHANGED <<now, tables, sweep, history>>
    BY <1>2 DEF SubmitCheck
  <2> HIDE DEF j
  <2>3. QED
    BY <2>1, <2>2 DEF TInv, TypeOK, Made, Resumes, tables, history
<1>3. ASSUME NEW w \in Worker, SubmitCommit(w) PROVE TInv'
  <2>1. task' \in [Task -> Tasks]
    <3>1. job[w].task \in Task
      BY <1>3 DEF SubmitCommit, TInv, Made
    <3>2. task' = [task EXCEPT ![job[w].task].status = "proof_submitted"]
      BY <1>3 DEF SubmitCommit
    <3>3. QED
      BY <3>1, <3>2 DEF TInv, TypeOK, Tasks
  <2>2. reopened' \in SUBSET Task
    BY <1>3 DEF SubmitCommit, TInv, TypeOK, Made
  <2>3. job' = [job EXCEPT ![w] = Idle] /\ UNCHANGED <<now, template, rule, sweep, last, strict>>
    BY <1>3 DEF SubmitCommit
  <2>4. QED
    BY <2>1, <2>2, <2>3, EndType DEF TInv, TypeOK, Made, Resumes
<1>4. QED
  BY <1>1, <1>2, <1>3

\* The sweep passes an entry over.
LEMMA DoneSound ==
    ASSUME TInv, NEW entry, sweep' = Done(entry), UNCHANGED <<now, tables, job, history>>
    PROVE  TInv'
BY DoneType DEF TInv, TypeOK, Made, tables, history

LEMMA SweepType ==
    ASSUME TInv, Sweep \/ SweepError \/ Crash
    PROVE  TInv'
<1>1. CASE SweepSelect
  <2> DEFINE list == {[id |-> r, row |-> rule[r]] : r \in {q \in Rule : Due(q)}}
  <2>1. list \in SUBSET Listed /\ \A entry \in list : entry.row.schedule \in Schedules
    BY DEF TInv, TypeOK, Listed, Rules, Due
  <2>2. sweep' = [at |-> now, checked |-> {}, todo |-> list]
    BY <1>1 DEF SweepSelect
  <2> HIDE DEF list
  <2>3. QED
    BY <1>1, <2>1, <2>2 DEF SweepSelect, TInv, TypeOK, Made, tables, history
<1>2. ASSUME NEW entry \in sweep.todo, SweepCheck(entry) PROVE TInv'
  <2>1. CASE sweep' = [sweep EXCEPT !.checked = {entry}] /\ Resumes(entry)
    <3>1. sweep' \in [at : Nat, todo : SUBSET Listed, checked : SUBSET Listed]
      BY <2>1 DEF TInv, TypeOK
    <3>2. sweep'.todo = sweep.todo /\ sweep'.checked = {entry} /\ sweep'.at = sweep.at
      BY <2>1 DEF TInv, TypeOK
    <3>3. QED
      BY <1>2, <2>1, <3>1, <3>2 DEF SweepCheck, TInv, TypeOK, Made, Resumes, tables, history
  <2>2. CASE sweep' = Done(entry)
    BY <1>2, <2>2, DoneSound DEF SweepCheck
  <2>3. QED
    BY <1>2, <2>1, <2>2 DEF SweepCheck
<1>3. ASSUME NEW entry \in sweep.todo, Spawn(entry) PROVE TInv'
  <2> DEFINE next == NextOccurrence(entry.row.schedule, sweep.at + 1)
  <2>1. entry.id \in Rule /\ entry.row.schedule \in Schedules /\ sweep.at \in Nat
    BY DEF TInv, TypeOK, Made, Listed
  <2>2. next \in Int
    BY <1>3, <2>1, NextOccurrenceInt DEF Spawn, TInv, Made, Resumes
  <2>3. rule' = [rule EXCEPT ![entry.id] = [rule[entry.id] EXCEPT !.next = next]]
    BY <1>3 DEF Spawn
  <2> HIDE DEF next
  <2>4. rule' \in [Rule -> Rules]
    BY <2>1, <2>2, <2>3 DEF TInv, TypeOK, Rules
  <2>5. task' \in [Task -> Tasks]
    BY <1>3, <2>1 DEF Spawn, TInv, TypeOK, Tasks
  <2>6. last' \in [Rule -> Last]
    BY <1>3, <2>1 DEF Spawn, TInv, TypeOK, Last
  <2>7. QED
    BY <1>3, <2>4, <2>5, <2>6, DoneType DEF Spawn, TInv, TypeOK, Made
<1>4. ASSUME NEW entry \in sweep.todo, SpawnFails(entry) PROVE TInv'
  BY <1>4, DoneSound DEF SpawnFails
<1>5. CASE SweepError
  BY <1>5 DEF SweepError, Waiting, TInv, TypeOK, Made, tables, history
<1>6. CASE Crash
  BY <1>6, UnmadeType DEF Crash, Waiting, TInv, TypeOK, Made, tables, history, Idle
<1>7. QED
  BY <1>1, <1>2, <1>3, <1>4, <1>5, <1>6 DEF Sweep

LEMMA TInvNext == TInv /\ [Next]_vars => TInv'
<1> SUFFICES ASSUME TInv, [Next]_vars PROVE TInv'
  OBVIOUS
<1>1. ASSUME NEW t \in Template, EditTemplate(t) PROVE TInv'
  BY <1>1 DEF EditTemplate, TInv, TypeOK, Made, Resumes, history
<1>2. CASE Tick
  BY <1>2 DEF Tick, TInv, TypeOK, Made, Resumes, tables, history
<1>3. CASE UNCHANGED vars
  BY <1>3 DEF vars, TInv, TypeOK, Made, Resumes
<1>4. QED
  BY <1>1, <1>2, <1>3, CreateType, EditType, TasksType, SweepType DEF Next, Request

\* Every row, the sweep's list and every request in flight keep their types; what the sweep
\* and the handlers compute is an instant, whatever the schedule.
THEOREM RecurringTypeCorrect == Spec => []TypeOK
<1>1. TInv => TypeOK
  BY DEF TInv
<1>2. QED
  BY TInvInit, TInvNext, <1>1, PTL DEF Spec

-----------------------------------------------------------------------------
(* One open task.                                                           *)

\* The tasks that OneOpenTask counts.
Counted(r) == OpenOf(r) \ reopened

OneInv ==
    /\ \A r \in strict : ~rule[r].overlap
    /\ \A entry \in sweep.todo : entry.id \in strict => ~entry.row.overlap
    /\ \A entry \in sweep.checked : entry.id \in strict => Counted(entry.id) = {}
    /\ OneOpenTask

LEMMA OneInit == Init => OneInv
BY DEF Init, OneInv, OneOpenTask, OpenOf, Open, Unmade, Waiting

\* A step that spawns nothing, and makes no rule that is strict allow an overlap.
LEMMA OneKept ==
    ASSUME TInv, OneInv, strict' \subseteq strict,
           \A r \in strict' : rule'[r].overlap = rule[r].overlap \/ ~rule'[r].overlap,
           sweep'.todo \subseteq sweep.todo, sweep'.checked \subseteq sweep.checked,
           \A r \in strict' : Counted(r)' \subseteq Counted(r)
    PROVE  OneInv'
<1>1. \A r \in strict' : ~rule'[r].overlap
  BY DEF OneInv
<1>2. \A entry \in sweep'.checked : entry.id \in strict' => Counted(entry.id)' = {}
  BY DEF OneInv
<1>3. OneOpenTask'
  BY DEF OneInv, OneOpenTask, Counted
<1>4. QED
  BY <1>1, <1>2, <1>3 DEF OneInv

\* Same rules, same tasks.
LEMMA CountedKept ==
    ASSUME UNCHANGED <<task, reopened>>
    PROVE  \A r : Counted(r)' = Counted(r)
BY DEF Counted, OpenOf, Open

LEMMA SpawnOne ==
    ASSUME TInv, OneInv, NEW entry \in sweep.todo, Spawn(entry)
    PROVE  OneInv'
<1> DEFINE k == NewId(Free)
<1>1. k \in Task /\ task[k].status = "absent"
  BY NewIdOf DEF Spawn, Free
<1>2. task' = [task EXCEPT ![k] = [rule |-> entry.id, status |-> "assigned"]] /\ UNCHANGED <<strict, reopened>>
  BY DEF Spawn
<1> HIDE DEF k
<1>3. entry.id \in Rule /\ strict \subseteq Rule
  BY DEF TInv, TypeOK, Listed
<1>4. ASSUME NEW r \in strict, r # entry.id PROVE Counted(r)' \subseteq Counted(r)
  BY <1>1, <1>2, <1>4 DEF Counted, OpenOf, Open, TInv, TypeOK
<1>5. ASSUME entry.id \in strict PROVE Counted(entry.id)' \subseteq {k}
  <2>1. Counted(entry.id) = {}
    BY <1>5 DEF Spawn, OneInv
  <2>2. \A j \in Counted(entry.id)' : j # k => j \in Counted(entry.id)
    BY <1>2 DEF Counted, OpenOf, Open, TInv, TypeOK
  <2>3. QED
    BY <2>1, <2>2
<1>6. OneOpenTask'
  <2> SUFFICES ASSUME NEW r \in strict, NEW i \in Counted(r)', NEW j \in Counted(r)' PROVE i = j
    BY <1>2 DEF OneOpenTask, Counted
  <2>1. CASE r = entry.id
    BY <1>5, <2>1
  <2>2. CASE r # entry.id
    BY <1>4, <2>2 DEF OneInv, OneOpenTask, Counted
  <2>3. QED
    BY <2>1, <2>2
<1>7. sweep'.todo \subseteq sweep.todo /\ sweep'.checked = {}
  BY DoneType DEF Spawn
<1>8. \A r \in strict' : ~rule'[r].overlap
  <2>1. \A r \in strict : rule'[r].overlap = rule[r].overlap
    BY <1>3 DEF Spawn, TInv, TypeOK, Rules
  <2>2. QED
    BY <1>2, <2>1 DEF OneInv
<1>9. QED
  BY <1>2, <1>6, <1>7, <1>8 DEF OneInv

LEMMA OneNext == OneInv /\ TInv /\ [Next]_vars => OneInv'
<1> SUFFICES ASSUME OneInv, TInv, [Next]_vars PROVE OneInv'
  OBVIOUS
<1>1. ASSUME NEW t \in Template, NEW s \in Schedules, NEW overlap \in BOOLEAN, CreateRule(t, s, overlap)
      PROVE  OneInv'
  <2> DEFINE r == NewId(UnmadeRules)
  <2> DEFINE row == [schedule |-> s, template |-> t, overlap |-> overlap,
                     active |-> TRUE, next |-> NextOccurrence(s, now)]
  <2>1. rule' = [rule EXCEPT ![r] = row]
    BY <1>1 DEF CreateRule, InsertRule
  <2>2. row.overlap = overlap
    OBVIOUS
  <2>3. strict' = IF overlap THEN strict \ {r} ELSE strict
    BY <1>1 DEF CreateRule, InsertRule
  <2> HIDE DEF r, row
  <2>4. \A q \in strict' : rule'[q].overlap = rule[q].overlap \/ ~rule'[q].overlap
    BY <2>1, <2>2, <2>3 DEF TInv, TypeOK
  <2>5. UNCHANGED <<task, sweep, reopened>>
    BY <1>1 DEF CreateRule, InsertRule
  <2>6. QED
    BY <2>3, <2>4, <2>5, CountedKept, OneKept
<1>2. ASSUME NEW w \in Worker, EditWrite(w) PROVE OneInv'
  <2> DEFINE r == job[w].rule
  <2>1. strict' = IF job[w].row.overlap THEN strict \ {r} ELSE strict
    BY <1>2 DEF EditWrite
  <2>2. \A q \in strict' : rule'[q].overlap = rule[q].overlap \/ ~rule'[q].overlap
    BY <1>2, <2>1 DEF EditWrite, TInv, TypeOK
  <2>3. UNCHANGED <<task, sweep, reopened>>
    BY <1>2 DEF EditWrite
  <2>4. QED
    BY <2>1, <2>2, <2>3, CountedKept, OneKept
<1>3. ASSUME NEW k \in Task, Settle(k) PROVE OneInv'
  <2>1. \A r : Counted(r)' \subseteq Counted(r)
    BY <1>3 DEF Settle, Counted, OpenOf, Open, TInv, TypeOK, Tasks
  <2>2. UNCHANGED <<rule, sweep, strict>>
    BY <1>3 DEF Settle
  <2>3. QED
    BY <2>1, <2>2, OneKept
<1>4. ASSUME NEW w \in Worker, SubmitCommit(w) PROVE OneInv'
  <2>1. \A r : Counted(r)' \subseteq Counted(r)
    <3> DEFINE k == job[w].task
    <3>1. k \in Task
      BY <1>4 DEF SubmitCommit, TInv, Made
    <3>2. task' = [task EXCEPT ![k].status = "proof_submitted"]
          /\ reopened' = IF Open(k) THEN reopened ELSE reopened \cup {k}
      BY <1>4 DEF SubmitCommit
    <3> HIDE DEF k
    <3>3. \A j \in Task : /\ task'[j].rule = task[j].rule
                          /\ j # k => task'[j] = task[j]
      BY <3>1, <3>2 DEF TInv, TypeOK, Tasks
    <3>4. ASSUME NEW r, NEW j \in Counted(r)' PROVE j \in Counted(r)
      <4>1. j \in Task /\ task'[j].rule = r /\ j \notin reopened' /\ Open(j)'
        BY <3>4 DEF Counted, OpenOf
      <4>2. Open(j)
        BY <3>2, <3>3, <4>1 DEF Open
      <4>3. j \notin reopened
        BY <3>2, <4>1
      <4>4. QED
        BY <3>3, <4>1, <4>2, <4>3 DEF Counted, OpenOf
    <3>5. QED
      BY <3>4
  <2>2. UNCHANGED <<rule, sweep, strict>>
    BY <1>4 DEF SubmitCommit
  <2>3. QED
    BY <2>1, <2>2, OneKept
<1>5. CASE SweepSelect
  <2> DEFINE list == {[id |-> r, row |-> rule[r]] : r \in {q \in Rule : Due(q)}}
  <2>1. \A entry \in list : entry.id \in strict => ~entry.row.overlap
    BY DEF OneInv
  <2>2. sweep'.todo = list /\ sweep'.checked = {}
    BY <1>5 DEF SweepSelect
  <2>3. UNCHANGED <<rule, task, strict, reopened>>
    BY <1>5 DEF SweepSelect, tables, history
  <2> HIDE DEF list
  <2>4. OneOpenTask'
    BY <2>3 DEF OneInv, OneOpenTask, OpenOf, Open
  <2>5. QED
    BY <2>1, <2>2, <2>3, <2>4 DEF OneInv
<1>6. ASSUME NEW entry \in sweep.todo, SweepCheck(entry) PROVE OneInv'
  <2>1. UNCHANGED <<rule, task, strict, reopened>>
    BY <1>6 DEF SweepCheck, tables, history
  <2>2. CASE sweep' = [sweep EXCEPT !.checked = {entry}] /\ (entry.row.overlap \/ OpenOf(entry.id) = {})
    <3>1. sweep'.todo = sweep.todo /\ sweep'.checked = {entry}
      BY <2>2 DEF TInv, TypeOK
    <3>2. entry.id \in strict => Counted(entry.id)' = {}
      BY <2>1, <2>2, CountedKept DEF OneInv, Counted
    <3>3. OneOpenTask'
      BY <2>1 DEF OneInv, OneOpenTask, OpenOf, Open
    <3>4. QED
      BY <2>1, <3>1, <3>2, <3>3 DEF OneInv
  <2>3. CASE sweep' = Done(entry)
    BY <2>1, <2>3, DoneType, CountedKept, OneKept
  <2>4. QED
    BY <1>6, <2>2, <2>3 DEF SweepCheck
<1>7. ASSUME NEW entry \in sweep.todo, SpawnFails(entry) PROVE OneInv'
  BY <1>7, DoneType, CountedKept, OneKept DEF SpawnFails, tables, history
<1>8. CASE SweepError \/ Crash
  <2>1. sweep'.todo = {} /\ sweep'.checked = {} /\ UNCHANGED <<rule, task, strict, reopened>>
    BY <1>8 DEF SweepError, Crash, Waiting, tables, history
  <2>2. QED
    BY <2>1, CountedKept, OneKept
<1>9. ASSUME UNCHANGED <<rule, task, sweep, strict, reopened>> PROVE OneInv'
  BY <1>9, CountedKept, OneKept
<1>10. QED
  BY <1>1, <1>2, <1>3, <1>4, <1>5, <1>6, <1>7, <1>8, <1>9, SpawnOne
     DEF Next, Request, EditRead, SubmitCheck, EditTemplate, Sweep, Tick, tables, history, vars

\* The skip-if-open check holds however old the sweep's list is, and whatever is edited,
\* settled or submitted between the check and the spawn.
THEOREM AlwaysOneOpenTask == Spec => []OneOpenTask
<1>1. OneInv => OneOpenTask
  BY DEF OneInv
<1>2. QED
  BY TInvInit, TInvNext, OneInit, OneNext, <1>1, PTL DEF Spec

-----------------------------------------------------------------------------
(* The spawns are spaced.                                                   *)

\* After its last spawn, and unless an edit moved it since, a rule is due when its schedule
\* says: in the table, and before the sweep that has listed it.
Following(r) == NextOccurrence(last[r].schedule, last[r].at + 1)

DueInv ==
    /\ \A w \in Worker : job[w].op = "edit" => rule[job[w].rule].schedule \in Schedules
    /\ \A entry \in sweep.todo : rule[entry.id].schedule \in Schedules
    /\ \A r \in Rule : rule[r].schedule = NoSchedule => last[r] = Never
    /\ \A r \in Rule : last[r] # Never =>
          /\ last[r].schedule \in Schedules
          /\ Occurs(last[r].schedule, last[r].at + 1)
          /\ rule[r].next = Following(r)
    /\ \A entry \in sweep.todo : last[entry.id] # Never => Following(entry.id) <= sweep.at
    /\ \A e, f \in sweep.todo : e.id = f.id => e = f
    /\ sweep.checked \subseteq sweep.todo

LEMMA DueInit == Init => DueInv
BY DEF Init, DueInv, Unmade, Waiting, Idle

\* A step that writes neither rules nor their last spawn.
LEMMA DueKept ==
    ASSUME TInv, DueInv, UNCHANGED <<rule, last>>,
           \A w \in Worker : job'[w].op = "edit" => rule[job'[w].rule].schedule \in Schedules,
           sweep'.todo \subseteq sweep.todo, sweep'.checked \subseteq sweep'.todo,
           sweep'.todo # {} => sweep'.at = sweep.at
    PROVE  DueInv'
BY DEF DueInv, Following

LEMMA SpawnDue ==
    ASSUME TInv, DueInv, NEW entry \in sweep.todo, Spawn(entry)
    PROVE  DueInv'
<1> DEFINE r == entry.id
<1> DEFINE s == entry.row.schedule
<1>1. r \in Rule /\ s \in Schedules /\ sweep.at \in Nat /\ Occurs(s, sweep.at + 1)
  BY DEF Spawn, TInv, TypeOK, Made, Listed, Resumes
<1>2. \A q \in Rule : /\ rule'[q].schedule = rule[q].schedule
                      /\ q # r => rule'[q] = rule[q] /\ last'[q] = last[q]
  BY DEF Spawn, TInv, TypeOK, Rules
<1>3. last'[r] = [schedule |-> s, at |-> sweep.at] /\ rule'[r].next = NextOccurrence(s, sweep.at + 1)
  BY <1>1 DEF Spawn, TInv, TypeOK, Rules
<1>4. /\ sweep'.todo \subseteq sweep.todo \ {entry} /\ sweep'.checked = {}
      /\ sweep'.todo # {} => sweep'.at = sweep.at
  BY DoneType DEF Spawn, Waiting
<1>5. rule[r].schedule \in Schedules
  BY DEF DueInv
<1>6. job' = job
  BY DEF Spawn
<1>7. ASSUME NEW q \in Rule, last'[q] # Never
      PROVE  /\ last'[q].schedule \in Schedules
             /\ Occurs(last'[q].schedule, last'[q].at + 1)
             /\ rule'[q].next = Following(q)'
  BY <1>1, <1>2, <1>3, <1>7 DEF DueInv, Following
<1>8. ASSUME NEW f \in sweep'.todo, last'[f.id] # Never PROVE Following(f.id)' <= sweep'.at
  <2>1. f.id \in Rule /\ f.id # r
    BY <1>4 DEF DueInv, TInv, TypeOK, Listed
  <2>2. QED
    BY <1>2, <1>4, <1>8, <2>1 DEF DueInv, Following
<1>9. \A q \in Rule : rule'[q].schedule = NoSchedule => last'[q] = Never
  BY <1>2, <1>5, RecurringAssumption DEF DueInv
<1>10. /\ \A w \in Worker : job'[w].op = "edit" => rule'[job'[w].rule].schedule \in Schedules
       /\ \A f \in sweep'.todo : rule'[f.id].schedule \in Schedules
  BY <1>2, <1>4, <1>6 DEF DueInv, TInv, TypeOK, Made, Listed
<1>11. QED
  BY <1>4, <1>7, <1>8, <1>9, <1>10 DEF DueInv

LEMMA EditDue ==
    ASSUME TInv, DueInv, NEW w \in Worker, EditWrite(w)
    PROVE  DueInv'
<1> DEFINE r == job[w].rule
<1>1. r \in Rule /\ job[w].row.schedule \in Schedules /\ job[w].row \in Rules
  BY DEF EditWrite, TInv, TypeOK, Made, Jobs
<1>2. \A q \in Rule : q # r => rule'[q] = rule[q] /\ last'[q] = last[q]
  BY DEF EditWrite, TInv, TypeOK
<1>3. rule'[r].schedule \in Schedules
      /\ last'[r] = IF rule'[r].next = rule[r].next THEN last[r] ELSE Never
  BY <1>1 DEF EditWrite, TInv, TypeOK
<1>4. sweep' = sweep /\ \A v \in Worker : job'[v].op = "edit" => job'[v] = job[v]
  BY EndType DEF EditWrite
<1>5. ASSUME NEW q \in Rule
      PROVE  /\ rule[q].schedule \in Schedules => rule'[q].schedule \in Schedules
             /\ rule'[q].schedule = NoSchedule => last'[q] = Never
             /\ last'[q] # Never => last'[q] = last[q] /\ rule'[q].next = rule[q].next
  BY <1>2, <1>3, RecurringAssumption DEF DueInv
<1>6. \A v \in Worker : job'[v].op = "edit" => rule'[job'[v].rule].schedule \in Schedules
  BY <1>4, <1>5 DEF DueInv, TInv, Made
<1>7. \A entry \in sweep'.todo : rule'[entry.id].schedule \in Schedules
  BY <1>4, <1>5 DEF DueInv, TInv, TypeOK, Listed
<1>8. \A q \in Rule : last'[q] # Never =>
          /\ last'[q].schedule \in Schedules
          /\ Occurs(last'[q].schedule, last'[q].at + 1)
          /\ rule'[q].next = Following(q)'
  BY <1>5 DEF DueInv, Following
<1>9. \A entry \in sweep'.todo : last'[entry.id] # Never => Following(entry.id)' <= sweep'.at
  BY <1>4, <1>5 DEF DueInv, Following, TInv, TypeOK, Listed
<1>10. QED
  BY <1>4, <1>5, <1>6, <1>7, <1>8, <1>9 DEF DueInv

LEMMA CreateDue ==
    ASSUME TInv, DueInv, NEW t \in Template, NEW s \in Schedules, NEW overlap \in BOOLEAN,
           CreateRule(t, s, overlap)
    PROVE  DueInv'
<1> DEFINE r == NewId(UnmadeRules)
<1> DEFINE row == [schedule |-> s, template |-> t, overlap |-> overlap,
                   active |-> TRUE, next |-> NextOccurrence(s, now)]
<1>1. rule' = [rule EXCEPT ![r] = row] /\ UNCHANGED <<last, sweep, job>>
  BY DEF CreateRule, InsertRule
<1>2. r \in Rule /\ rule[r].schedule = NoSchedule
  BY NewIdOf DEF CreateRule, InsertRule, UnmadeRules
<1>3. row.schedule = s
  OBVIOUS
<1> HIDE DEF r, row
<1>4. last[r] = Never
  BY <1>2 DEF DueInv
<1>5. \A q \in Rule : q # r => rule'[q] = rule[q]
  BY <1>1 DEF TInv, TypeOK
<1>6. rule'[r].schedule \in Schedules
  BY <1>1, <1>2, <1>3 DEF TInv, TypeOK
<1>7. \A q \in Rule : rule[q].schedule \in Schedules => rule'[q].schedule \in Schedules
  BY <1>5, <1>6
<1>8. \A q \in Rule : last'[q] # Never =>
          /\ last'[q].schedule \in Schedules
          /\ Occurs(last'[q].schedule, last'[q].at + 1)
          /\ rule'[q].next = Following(q)'
  BY <1>1, <1>4, <1>5 DEF DueInv, Following
<1>9. \A q \in Rule : rule'[q].schedule = NoSchedule => last'[q] = Never
  BY <1>1, <1>4, <1>5 DEF DueInv
<1>10. /\ \A w \in Worker : job'[w].op = "edit" => rule'[job'[w].rule].schedule \in Schedules
       /\ \A entry \in sweep'.todo : rule'[entry.id].schedule \in Schedules
  BY <1>1, <1>7 DEF DueInv, TInv, TypeOK, Made, Listed
<1>11. \A entry \in sweep'.todo : last'[entry.id] # Never => Following(entry.id)' <= sweep'.at
  BY <1>1 DEF DueInv, Following
<1>12. QED
  BY <1>1, <1>8, <1>9, <1>10, <1>11 DEF DueInv

LEMMA SelectDue ==
    ASSUME TInv, DueInv, SweepSelect
    PROVE  DueInv'
<1> DEFINE list == {[id |-> r, row |-> rule[r]] : r \in {q \in Rule : Due(q)}}
<1>1. /\ sweep'.todo = list /\ sweep'.checked = {} /\ sweep'.at = now
      /\ UNCHANGED <<rule, last, job>>
  BY DEF SweepSelect, tables, history
<1>2. \A entry \in list : entry.id \in Rule /\ Due(entry.id) /\ entry.row = rule[entry.id]
  OBVIOUS
<1>3. \A e, f \in list : e.id = f.id => e = f
  OBVIOUS
<1> HIDE DEF list
<1>4. \A entry \in list : rule[entry.id].schedule \in Schedules
  BY <1>2 DEF Due, TInv, TypeOK, Rules
<1>5. \A entry \in list : last[entry.id] # Never => Following(entry.id) <= now
  BY <1>2 DEF Due, DueInv
<1>6. QED
  BY <1>1, <1>3, <1>4, <1>5 DEF DueInv, Following

LEMMA DueNext == DueInv /\ TInv /\ [Next]_vars => DueInv'
<1> SUFFICES ASSUME DueInv, TInv, [Next]_vars PROVE DueInv'
  OBVIOUS
<1>1. ASSUME NEW w \in Worker, NEW r \in Edited, NEW e \in Edits, EditRead(w, r, e) PROVE DueInv'
  <2>1. r \in Rule /\ rule[r].schedule \in Schedules
    BY <1>1, RecurringAssumption DEF EditRead, TInv, TypeOK, Rules
  <2>2. \A v \in Worker : job'[v] = job[v] \/ job'[v].rule = r
    BY <1>1 DEF EditRead, TInv, TypeOK, Idle
  <2>3. UNCHANGED <<rule, last, sweep>>
    BY <1>1 DEF EditRead, tables, history
  <2>4. QED
    BY <2>1, <2>2, <2>3, DueKept DEF DueInv
<1>2. ASSUME NEW w \in Worker, NEW k \in Task, SubmitCheck(w, k) PROVE DueInv'
  <2>1. \A v \in Worker : job'[v] = job[v] \/ job'[v].op = "submit"
    BY <1>2 DEF SubmitCheck, TInv, TypeOK, Idle
  <2>2. UNCHANGED <<rule, last, sweep>>
    BY <1>2 DEF SubmitCheck, tables, history
  <2>3. QED
    BY <2>1, <2>2, DueKept DEF DueInv
<1>3. ASSUME NEW w \in Worker, SubmitCommit(w) PROVE DueInv'
  <2>1. \A v \in Worker : job'[v].op = "edit" => job'[v] = job[v]
    BY <1>3, EndType DEF SubmitCommit
  <2>2. QED
    BY <1>3, <2>1, DueKept DEF SubmitCommit, DueInv
<1>4. ASSUME NEW entry \in sweep.todo, SweepCheck(entry) PROVE DueInv'
  <2>1. UNCHANGED <<rule, last, job>>
    BY <1>4 DEF SweepCheck, tables, history
  <2>2. CASE sweep' = [sweep EXCEPT !.checked = {entry}]
    <3>1. sweep'.todo = sweep.todo /\ sweep'.checked = {entry} /\ sweep'.at = sweep.at
      BY <2>2 DEF TInv, TypeOK
    <3>2. QED
      BY <2>1, <3>1, DueKept DEF DueInv
  <2>3. CASE sweep' = Done(entry)
    BY <2>1, <2>3, DoneType, DueKept DEF DueInv, Waiting
  <2>4. QED
    BY <1>4, <2>2, <2>3 DEF SweepCheck
<1>5. ASSUME NEW entry \in sweep.todo, SpawnFails(entry) PROVE DueInv'
  BY <1>5, DoneType, DueKept DEF SpawnFails, DueInv, Waiting, tables, history
<1>6. CASE SweepError
  BY <1>6, DueKept DEF SweepError, Waiting, DueInv, tables, history
<1>7. CASE Crash
  BY <1>7, DueKept DEF Crash, Waiting, Idle, DueInv, tables, history
<1>8. ASSUME UNCHANGED <<rule, last, job, sweep>> PROVE DueInv'
  BY <1>8, DueKept DEF DueInv
<1>9. QED
  BY <1>1, <1>2, <1>3, <1>4, <1>5, <1>6, <1>7, <1>8, CreateDue, EditDue, SelectDue, SpawnDue
     DEF Next, Request, EditTemplate, Settle, Sweep, Tick, tables, history, vars

\* A task that is not there belongs to no rule.
AbsentInv == \A k \in Task : task[k].status = "absent" => task[k].rule = NoRule

\* What a step that spawns nothing does to the tasks.
LEMMA TaskSteps ==
    ASSUME TInv, [Next]_vars
    PROVE  \/ \E entry \in sweep.todo : Spawn(entry)
           \/ \A k \in Task : /\ task'[k].rule = task[k].rule
                              /\ task'[k].status = "absent" => task[k].status = "absent"
<1>1. ASSUME NEW k \in Task, Settle(k)
      PROVE  \A j \in Task : /\ task'[j].rule = task[j].rule
                             /\ task'[j].status = "absent" => task[j].status = "absent"
  BY <1>1 DEF Settle, TInv, TypeOK, Tasks
<1>2. ASSUME NEW w \in Worker, SubmitCommit(w)
      PROVE  \A j \in Task : /\ task'[j].rule = task[j].rule
                             /\ task'[j].status = "absent" => task[j].status = "absent"
  BY <1>2 DEF SubmitCommit, TInv, TypeOK, Tasks
<1>3. QED
  BY <1>1, <1>2
     DEF Next, Request, CreateRule, InsertRule, EditRead, EditWrite, SubmitCheck, EditTemplate, Sweep,
         SweepSelect, SweepCheck, SpawnFails, SweepError, Crash, Tick, tables, vars

\* One task is inserted, of the rule of the entry.
LEMMA SpawnedTask ==
    ASSUME TInv, AbsentInv, NEW entry \in sweep.todo, Spawn(entry),
           NEW k \in Task, task[k].status = "absent"
    PROVE  \/ task'[k].rule = entry.id /\ task'[k].status = "assigned"
           \/ task'[k].rule = NoRule /\ task'[k].status = "absent"
BY DEF Spawn, TInv, TypeOK, AbsentInv

LEMMA AbsentInit == Init => AbsentInv
BY DEF Init, AbsentInv

LEMMA AbsentNext == AbsentInv /\ TInv /\ [Next]_vars => AbsentInv'
<1> SUFFICES ASSUME AbsentInv, TInv, [Next]_vars PROVE AbsentInv'
  OBVIOUS
<1>1. ASSUME NEW entry \in sweep.todo, Spawn(entry) PROVE AbsentInv'
  <2>1. \A k \in Task : task[k].status # "absent" => task'[k].status # "absent"
    BY <1>1 DEF Spawn, TInv, TypeOK
  <2>2. QED
    BY <1>1, <2>1, SpawnedTask DEF AbsentInv
<1>2. QED
  BY <1>1, TaskSteps DEF AbsentInv

LEMMA SpawnAsked ==
    ASSUME TInv, DueInv, AbsentInv, [Next]_vars,
           NEW r \in Rule, Spawns(r), last[r] # Never, WellFormed(last[r].schedule)
    PROVE  Asks(last[r].schedule, last[r].at, sweep.at)
<1>1. PICK k \in Task : task[k].status = "absent" /\ task'[k].rule = r
  BY DEF Spawns
<1>2. PICK entry \in sweep.todo : Spawn(entry)
  BY <1>1, TaskSteps, RecurringAssumption DEF AbsentInv
<1>3. entry.id = r
  BY <1>1, <1>2, SpawnedTask, RecurringAssumption
<1>4. /\ last[r].schedule \in Schedules /\ Occurs(last[r].schedule, last[r].at + 1)
      /\ NextOccurrence(last[r].schedule, last[r].at + 1) <= sweep.at
  BY <1>3 DEF DueInv, Following
<1>5. last[r].at \in Int /\ sweep.at \in Int
  BY DEF TInv, TypeOK, Last
<1>6. QED
  BY <1>4, <1>5, NextOccurrenceAsks

\* Two spawns of a rule are apart what its schedule asks for, whatever is edited while the
\* sweep goes through its list, and whatever errors and crashes cut it short.
THEOREM SpawnsAlwaysSpaced == Spec => SpawnsSpaced
<1> DEFINE Spaced == \A r \in Rule : Spawns(r) /\ last[r] # Never /\ WellFormed(last[r].schedule) =>
                        Asks(last[r].schedule, last[r].at, sweep.at)
<1>1. TInv /\ DueInv /\ AbsentInv /\ [Next]_vars => [Spaced]_vars
  BY SpawnAsked
<1>2. QED
  BY TInvInit, TInvNext, DueInit, DueNext, AbsentInit, AbsentNext, <1>1, PTL DEF Spec, SpawnsSpaced
=============================================================================
