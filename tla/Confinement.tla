----------------------------- MODULE Confinement -----------------------------
(***************************************************************************)
(* The devices and lock sessions of one submissive, the ledger of the       *)
(* changes of their release date, and the reminder that a clock still       *)
(* stands: src/domain/chastity, its handlers in src/api/chastity.rs,        *)
(* assignments::create where it applies a time extension or reduction.      *)
(*                                                                         *)
(* A handler looks up the link, then makes one call.  Nothing that call      *)
(* reads or writes is the link's, so the two are one step.  start, end and   *)
(* pause are one guarded statement each (the unique index on the open        *)
(* session guards start); resume and adjust_timer are transactions.          *)
(* apply_effect reads, updates and logs on its caller's connection: inside  *)
(* an escalation, a redemption or a verdict that is a transaction too       *)
(* (EffectInTransaction), but the keyholder's own POST of an assignment has *)
(* none, so there its four statements are four steps (Direct...).           *)
(***************************************************************************)
EXTENDS Integers, Sequences, FiniteSets, Functions

CONSTANTS
    Device,         \* ids of rows of chastity_devices
    Session,        \* ids of rows of confinement_sessions
    Assignment,     \* ids of assignments with an immediate effect
    Worker,         \* pool threads that create an assignment directly
    NoDevice, NoSession, NoAssignment,
    Null,           \* SQL NULL, for times
    Effect,         \* the seconds of extensions (> 0) and reductions (< 0)
    SelfReportAllowed,  \* the switch of the link: what FALSE allows, TRUE does too
    Release,        \* the release dates a session may be started with
    Interval,       \* STILL_PAUSED_THRESHOLD_SECS
    MaxTime,        \* bound of the clock
    MaxLedger       \* bound of the number of adjustments

ASSUME ConfinementAssumption ==
    /\ NoDevice \notin Device
    /\ NoSession \notin Session
    /\ Null \notin Int
    /\ NoAssignment \notin Assignment
    /\ Effect \subseteq Int
    /\ Release \subseteq Int \cup {Null}
    /\ SelfReportAllowed \in BOOLEAN
    /\ Interval \in Nat
    /\ MaxTime \in Nat
    /\ MaxLedger \in Nat

VARIABLES
    now,        \* the wall clock
    link,       \* the status of the link
    device,     \* table chastity_devices
    sess,       \* table confinement_sessions
    ledger,     \* table confinement_adjustments, in the order of insertion
    applied,    \* assignments inserted with status 'applied'
    job,        \* per worker: the direct assignment in flight
    reminded,   \* per session, when the last clock_still_paused notification was written
    todo,       \* the reminders the sweep is about to send
    torn,       \* history: sessions a direct assignment overwrote or left half done
    dry         \* history: assignments that found no open session or were cut short

locks == <<sess, ledger>>
sweep == <<reminded, todo>>
history == <<torn, dry>>
vars == <<now, link, device, locks, applied, job, sweep, history>>

Time == Int \cup {Null}

\* base (history): the release date before any adjustment; for a session
\* started open-ended, `now` when the first adjustment set one.
\* stopped (history): how long its clock has been paused since the release
\* date exists.
\* message: the pause carries one.
Sessions == [state : {"absent", "open", "ended"}, device : Device \cup {NoDevice},
             target : Time, pausedAt : Nat \cup {Null}, message : BOOLEAN,
             base : Time, stopped : Nat]
Reasons == {"manual", "clock_pause", "punishment_time_extension", "reward_time_reduction"}
Adjustments == [session : Session, delta : Int, reason : Reasons,
                cause : Assignment \cup {NoAssignment}, reviewed : BOOLEAN]
Jobs == [step : {"idle", "read", "update", "log"},
         cause : Assignment \cup {NoAssignment}, delta : Int,
         session : Session \cup {NoSession}, target : Time]

Idle == [step |-> "idle", cause |-> NoAssignment, delta |-> 0,
         session |-> NoSession, target |-> Null]

TypeOK ==
    /\ now \in Nat
    /\ link \in {"active", "paused", "ended"}
    /\ device \in [Device -> {"absent", "kept", "retired"}]
    /\ sess \in [Session -> Sessions]
    /\ ledger \in Seq(Adjustments)
    /\ applied \in SUBSET Assignment
    /\ job \in [Worker -> Jobs]
    /\ reminded \in [Session -> Nat \cup {Null}]
    /\ todo \in SUBSET Session
    /\ torn \in SUBSET Session
    /\ dry \in SUBSET Assignment

Init ==
    /\ now = 0
    /\ link = "active"
    /\ device = [d \in Device |-> "absent"]
    /\ sess = [s \in Session |->
                  [state |-> "absent", device |-> NoDevice, target |-> Null,
                   pausedAt |-> Null, message |-> FALSE, base |-> Null, stopped |-> 0]]
    /\ ledger = <<>>
    /\ applied = {}
    /\ job = [w \in Worker |-> Idle]
    /\ reminded = [s \in Session |-> Null]
    /\ todo = {}
    /\ torn = {}
    /\ dry = {}

Open(s) == sess[s].state = "open"
Paused(s) == sess[s].pausedAt # Null
NoneOpen == \A s \in Session : ~Open(s)

-----------------------------------------------------------------------------
(* The link and the devices.                                                *)

\* require_owned_submissive: the keyholder's link, active or paused.
Owned == link # "ended"

\* require_self_report_allowed.
SelfReport == link = "active" /\ SelfReportAllowed

\* patch_link: nothing makes a link active again.
ChangeLink(status) ==
    /\ <<link, status>> \in {<<"active", "paused">>, <<"active", "ended">>, <<"paused", "ended">>}
    /\ link' = status
    /\ UNCHANGED <<now, device, locks, applied, job, sweep, history>>

SetDevice(d, from, to) ==
    /\ device[d] = from
    /\ device' = [device EXCEPT ![d] = to]
    /\ UNCHANGED <<now, link, locks, applied, job, sweep, history>>

InsertDevice(d) == SetDevice(d, "absent", "kept")
AddDevice(d) == Owned /\ InsertDevice(d)

\* Once, and for good: a request that says it is not retired changes nothing.
Retire(d) == SetDevice(d, "kept", "retired")
RetireDevice(d) == Owned /\ Retire(d)

-----------------------------------------------------------------------------
(* The sessions.  The handlers that name one in their path act on the open   *)
(* one, whichever it is.                                                    *)

\* The foreign key wants a device, retired or not.
Start(s, d, target) ==
    /\ sess[s].state = "absent"
    /\ NoneOpen
    /\ device[d] # "absent"
    /\ sess' = [sess EXCEPT ![s].state = "open", ![s].device = d,
                            ![s].target = target, ![s].base = target]
    /\ UNCHANGED <<now, link, device, ledger, applied, job, sweep, history>>

StartSession(s, d, target) == Owned /\ Start(s, d, target)
SubmissiveStartSession(s, d, target) == SelfReport /\ Start(s, d, target)

End(s) ==
    /\ Open(s)
    /\ sess' = [sess EXCEPT ![s].state = "ended"]
    /\ UNCHANGED <<now, link, device, ledger, applied, job, sweep, history>>

EndSession(s) == Owned /\ End(s)
SubmissiveEndSession(s) == SelfReport /\ End(s)

\* Mutant of Pause: the statement does not ask for an open session.
PauseAnySession(s, message) ==
    /\ sess[s].state # "absent"
    /\ ~Paused(s)
    /\ sess' = [sess EXCEPT ![s].pausedAt = now, ![s].message = message]
    /\ UNCHANGED <<now, link, device, ledger, applied, job, sweep, history>>

Pause(s, message) ==
    /\ Open(s)
    /\ ~Paused(s)
    /\ sess' = [sess EXCEPT ![s].pausedAt = now, ![s].message = message]
    /\ UNCHANGED <<now, link, device, ledger, applied, job, sweep, history>>

\* Also the cascade of pause_oversight.
PauseSession(s, message) == Owned /\ Pause(s, message)

SetPauseMessage(s, message) ==
    /\ Open(s) /\ Paused(s)
    /\ sess' = [sess EXCEPT ![s].message = message]
    /\ UNCHANGED <<now, link, device, ledger, applied, job, sweep, history>>

UpdatePauseMessage(s, message) == Owned /\ SetPauseMessage(s, message)

Logged(s, delta, reason, cause, reviewed) ==
    /\ Len(ledger) < MaxLedger
    /\ ledger' = Append(ledger, [session |-> s, delta |-> delta, reason |-> reason,
                                 cause |-> cause, reviewed |-> reviewed])

\* Mutant of Resume: it logs for an open-ended session too.
ResumeAlwaysLogs(s) ==
    LET elapsed == now - sess[s].pausedAt IN
    /\ Open(s)
    /\ Paused(s)
    /\ sess' = [sess EXCEPT ![s].pausedAt = Null, ![s].message = FALSE,
                            ![s].target = IF @ = Null THEN Null ELSE @ + elapsed]
    /\ Logged(s, elapsed, "clock_pause", NoAssignment, TRUE)
    /\ UNCHANGED <<now, link, device, applied, job, sweep, history>>

Resume(s) ==
    LET elapsed == now - sess[s].pausedAt IN
    /\ Open(s)
    /\ Paused(s)
    /\ IF sess[s].target = Null
       THEN /\ sess' = [sess EXCEPT ![s].pausedAt = Null, ![s].message = FALSE]
            /\ UNCHANGED ledger
       ELSE /\ sess' = [sess EXCEPT ![s].pausedAt = Null, ![s].message = FALSE,
                                    ![s].target = @ + elapsed]
            /\ Logged(s, elapsed, "clock_pause", NoAssignment, TRUE)
    /\ UNCHANGED <<now, link, device, applied, job, sweep, history>>

ResumeSession(s) == Owned /\ Resume(s)

\* The row of session r moved by delta; an open-ended one starts from `now`.
Moved(r, delta) ==
    IF r.target = Null
    THEN [r EXCEPT !.target = now + delta, !.base = now,
                   !.stopped = IF r.pausedAt = Null THEN 0 ELSE now - r.pausedAt]
    ELSE [r EXCEPT !.target = @ + delta]

AdjustTimer(s, delta) ==
    /\ Open(s)
    /\ sess' = [sess EXCEPT ![s] = Moved(@, delta)]
    /\ Len(ledger) < MaxLedger
    /\ ledger' = Append([i \in DOMAIN ledger |->
                            [ledger[i] EXCEPT !.reviewed = @ \/ ledger[i].session = s]],
                        [session |-> s, delta |-> delta, reason |-> "manual",
                         cause |-> NoAssignment, reviewed |-> TRUE])
    /\ UNCHANGED <<now, link, device, applied, job, sweep, history>>

\* The handler adjust_timer.
TimerRequest(s, delta) == Owned /\ AdjustTimer(s, delta)

ReviewAdjustment(i) ==
    /\ i \in DOMAIN ledger
    /\ ~ledger[i].reviewed
    /\ ledger[i].reason = "punishment_time_extension"
    /\ ledger' = [ledger EXCEPT ![i].reviewed = TRUE]
    /\ UNCHANGED <<now, link, device, sess, applied, job, sweep, history>>

\* The adjustment is updated by its id, whichever session it belongs to.
ReviewTimerAdjustment(i) == Owned /\ ReviewAdjustment(i)

-----------------------------------------------------------------------------
(* Assignments with an immediate effect.                                    *)

\* Mutant of ReasonOf: the effect_kind is stored as it is.
ReasonIsKind(delta) == IF delta >= 0 THEN "time_extension" ELSE "time_reduction"

ReasonOf(delta) ==
    IF delta >= 0 THEN "punishment_time_extension" ELSE "reward_time_reduction"

\* system: the assignment is an escalation, left for the keyholder to review.
EffectInTransaction(a, delta, system) ==
    /\ a \notin applied
    /\ applied' = applied \cup {a}
    /\ \/ /\ NoneOpen
          /\ dry' = dry \cup {a}
          /\ UNCHANGED <<sess, ledger>>
       \/ \E s \in Session :
            /\ Open(s)
            /\ sess' = [sess EXCEPT ![s] = Moved(@, delta)]
            /\ Logged(s, delta, ReasonOf(delta), a, ~system)
            /\ UNCHANGED dry
    /\ UNCHANGED <<now, link, device, job, sweep, torn>>

DirectInsert(w, a, delta) ==
    /\ Owned
    /\ job[w].step = "idle"
    /\ a \notin applied
    /\ applied' = applied \cup {a}
    /\ job' = [job EXCEPT ![w] = [Idle EXCEPT !.step = "read", !.cause = a, !.delta = delta]]
    /\ UNCHANGED <<now, link, device, locks, sweep, history>>

DirectRead(w) ==
    /\ job[w].step = "read"
    /\ \/ /\ NoneOpen
          /\ job' = [job EXCEPT ![w] = Idle]
          /\ dry' = dry \cup {job[w].cause}
       \/ \E s \in Session :
            /\ Open(s)
            /\ job' = [job EXCEPT ![w].step = "update", ![w].session = s,
                                  ![w].target = sess[s].target]
            /\ UNCHANGED dry
    /\ UNCHANGED <<now, link, device, locks, applied, sweep, torn>>

\* Written by id, whatever has happened to the session since it was read.
DirectUpdate(w) ==
    LET s == job[w].session
        start == IF job[w].target = Null THEN now ELSE job[w].target
    IN
    /\ job[w].step = "update"
    /\ sess' = [sess EXCEPT ![s] = [Moved(@, job[w].delta) EXCEPT
                                        !.target = start + job[w].delta]]
    /\ torn' = IF Open(s) /\ sess[s].target = job[w].target THEN torn ELSE torn \cup {s}
    /\ job' = [job EXCEPT ![w].step = "log"]
    /\ UNCHANGED <<now, link, device, ledger, applied, sweep, dry>>

\* Mutant of DirectLog: the statement is tried again after it succeeded.
DirectLogAgain(w) ==
    /\ job[w].step = "log"
    /\ Logged(job[w].session, job[w].delta, ReasonOf(job[w].delta), job[w].cause, TRUE)
    /\ UNCHANGED <<now, link, device, sess, applied, job, sweep, history>>

DirectLog(w) ==
    /\ job[w].step = "log"
    /\ Logged(job[w].session, job[w].delta, ReasonOf(job[w].delta), job[w].cause, TRUE)
    /\ job' = [job EXCEPT ![w] = Idle]
    /\ UNCHANGED <<now, link, device, sess, applied, sweep, history>>

\* A statement fails, or the process stops: nothing else is in memory.
DirectAbort(w) ==
    /\ job[w].step # "idle"
    /\ torn' = IF job[w].step = "log" THEN torn \cup {job[w].session} ELSE torn
    /\ dry' = dry \cup {job[w].cause}
    /\ job' = [job EXCEPT ![w] = Idle]
    /\ UNCHANGED <<now, link, device, locks, applied, sweep>>

-----------------------------------------------------------------------------
(* The pass of the deadline tick that reminds the keyholder of a clock that   *)
(* stands.                                                                  *)

RemindedSince(s, time) == reminded[s] # Null /\ reminded[s] >= time

\* Mutant of StillPaused: the window of earlier reminders is left out.
StillPausedAgain(s) ==
    /\ Open(s) /\ Paused(s)
    /\ sess[s].pausedAt <= now - Interval
    /\ Owned

\* A session whose reminder is due now.
StillPaused(s) ==
    /\ Open(s) /\ Paused(s)
    /\ sess[s].pausedAt <= now - Interval
    /\ ~RemindedSince(s, now - Interval)
    /\ Owned

SelectReminders ==
    /\ todo = {}
    /\ todo' = {s \in Session : StillPaused(s)}
    /\ todo' # {}
    /\ UNCHANGED <<now, link, device, locks, applied, job, reminded, history>>

\* notify_sync for one of the sessions found, whatever has happened to it since.
Remind(s) ==
    /\ s \in todo
    /\ todo' = todo \ {s}
    /\ reminded' = [reminded EXCEPT ![s] = now]
    /\ UNCHANGED <<now, link, device, locks, applied, job, history>>

\* The process stops in between, or the insertion fails, which the tick ignores.
ReminderLost ==
    /\ todo # {}
    /\ todo' = {}
    /\ UNCHANGED <<now, link, device, locks, applied, job, reminded, history>>

-----------------------------------------------------------------------------
Tick ==
    /\ now < MaxTime
    /\ now' = now + 1
    /\ sess' = [s \in Session |->
           IF Open(s) /\ Paused(s) /\ sess[s].target # Null
           THEN [sess[s] EXCEPT !.stopped = @ + 1] ELSE sess[s]]
    /\ UNCHANGED <<link, device, ledger, applied, job, sweep, history>>

\* The routes of api/chastity.rs that change a device, a session or its ledger.
Route ==
    \/ \E d \in Device : AddDevice(d) \/ RetireDevice(d)
    \/ \E s \in Session, d \in Device, t \in Release :
          StartSession(s, d, t) \/ SubmissiveStartSession(s, d, t)
    \/ \E s \in Session : EndSession(s) \/ SubmissiveEndSession(s) \/ ResumeSession(s)
    \/ \E s \in Session, message \in BOOLEAN :
          PauseSession(s, message) \/ UpdatePauseMessage(s, message)
    \/ \E s \in Session, d \in Effect : TimerRequest(s, d)
    \/ \E i \in DOMAIN ledger : ReviewTimerAdjustment(i)

Direct(w) ==
    \/ \E a \in Assignment, d \in Effect : DirectInsert(w, a, d)
    \/ DirectRead(w) \/ DirectUpdate(w) \/ DirectLog(w) \/ DirectAbort(w)

Next ==
    \/ Route
    \/ \E status \in {"paused", "ended"} : ChangeLink(status)
    \/ \E a \in Assignment, d \in Effect, system \in BOOLEAN :
          EffectInTransaction(a, d, system)
    \/ \E w \in Worker : Direct(w)
    \/ SelectReminders \/ (\E s \in Session : Remind(s)) \/ ReminderLost
    \/ Tick

Spec == Init /\ [][Next]_vars

-----------------------------------------------------------------------------
(* Properties.                                                              *)

RowsOf(s, reasons) ==
    {i \in DOMAIN ledger : ledger[i].session = s /\ ledger[i].reason \in reasons}
Total(s, reasons) ==
    SumFunctionOnSet([i \in DOMAIN ledger |-> ledger[i].delta], RowsOf(s, reasons))

\* Direct assignments that have moved the date of s and have yet to log it.
Logging(s) == {w \in Worker : job[w].step = "log" /\ job[w].session = s}
Unlogged(s) == SumFunctionOnSet([w \in Worker |-> job[w].delta], Logging(s))

Explained(s) ==
    sess[s].target # Null =>
        sess[s].target = sess[s].base + Total(s, Reasons) + Unlogged(s)

\* docs/01-data-model.md: every change of the release date is logged.  The ledger
\* explains the date of every session, through any mixture of requests,
\* escalations, pauses and overlapping direct assignments, except where a direct
\* assignment overwrote a change made after its read or died before its log.
LedgerExplainsTarget == \A s \in Session \ torn : Explained(s)

\* Pauses are paid back exactly once: what the ledger has credited, plus the
\* pause still running, is the time the clock has stood still while there was a
\* release date to move.  The message of a pause leaves with it.
PauseIsCredited ==
    \A s \in Session :
        /\ Open(s) /\ sess[s].message => Paused(s)
        /\ sess[s].target # Null /\ Open(s) =>
            Total(s, {"clock_pause"})
            + (IF Paused(s) THEN now - sess[s].pausedAt ELSE 0) = sess[s].stopped

\* An applied assignment moves at most one session, once; and once it is done
\* it has moved one unless none was open or its handler was cut short.
AppliedOnce ==
    \A a \in Assignment :
        LET rows == {i \in DOMAIN ledger : ledger[i].cause = a} IN
        /\ Cardinality(rows) <= (IF a \in applied \ dry THEN 1 ELSE 0)
        /\ a \in applied \ dry /\ (\A w \in Worker : job[w].cause # a) => rows # {}

\* The ledger and the sessions agree, whatever overlaps: dates, pauses and effects.
LedgerIsExact == LedgerExplainsTarget /\ PauseIsCredited /\ AppliedOnce

\* The reminders of one session are more than the interval apart, though they are sent
\* after the look-up, and sent again when the tick died in between.
SpacedReminder(s) ==
    reminded[s] # Null /\ reminded'[s] # reminded[s] => reminded'[s] - reminded[s] > Interval

\* Action property: the release date of a session that has ended never moves, however late
\* the effects decided while it was open arrive (torn excepted), and nothing that was said
\* to the keyholder is said again too soon.
PastIsRespected ==
    [][\A s \in Session :
          /\ s \notin torn' /\ sess[s].state = "ended" => sess'[s] = sess[s]
          /\ SpacedReminder(s)]_vars
=============================================================================
