------------------------------- MODULE Links -------------------------------
(***************************************************************************)
(* One keyholder-submissive link: its status, the request to end it, the    *)
(* oversight pause, and the reminders the deadline tick sends about them    *)
(* (src/domain/links/mod.rs, its handlers in src/api/roster.rs and          *)
(* src/api/chastity.rs, and the tick of src/main.rs).                       *)
(*                                                                         *)
(* Every handler reads the link in one statement and writes it in another,  *)
(* on a connection without a transaction: a step each.                      *)
(***************************************************************************)
EXTENDS Integers

CONSTANTS
    Worker,         \* pool threads that serve requests
    Null,           \* SQL NULL
    EscalateAfter,  \* END_REQUEST_ESCALATION_THRESHOLD_SECS
    Interval,       \* END_REQUEST_REMINDER_INTERVAL_SECS, OVERSIGHT_STILL_PAUSED_THRESHOLD_SECS
    MaxTime         \* bound of the clock

ASSUME LinksAssumption ==
    /\ Null \notin Int
    /\ EscalateAfter \in Nat /\ Interval \in Nat
    /\ MaxTime \in Nat

VARIABLES
    now,        \* the wall clock
    link,       \* the row of keyholder_submissive_links
    reminded,   \* per kind, the time of the last reminder in notifications
    sweep,      \* the deadline tick: its pass, whether a reminder is due, its now_ts
    job         \* per worker: the write its handler has still to make

vars == <<now, link, reminded, sweep, job>>

Statuses == {"active", "paused", "ended"}
Reminders == {"end_request", "oversight"}
Time == Nat \cup {Null}
Writes == {"idle", "set_paused", "set_ended", "request", "withdraw", "decline", "pause",
           "resume", "message"}
Passes == {"escalate"} \cup Reminders

TypeOK ==
    /\ now \in Nat
    /\ link \in [status : Statuses, requestedAt : Time, escalatedAt : Time, pausedAt : Time,
                message : BOOLEAN]
    /\ reminded \in [Reminders -> Time]
    /\ sweep \in [at : Passes, due : BOOLEAN, ts : Nat]
    /\ job \in [Worker -> Writes]

SweepStart == [at |-> "escalate", due |-> FALSE, ts |-> 0]

\* create: redeeming an invite.
Init ==
    /\ now = 0
    /\ link = [status |-> "active", requestedAt |-> Null, escalatedAt |-> Null,
               pausedAt |-> Null, message |-> FALSE]
    /\ reminded = [k \in Reminders |-> Null]
    /\ sweep = SweepStart
    /\ job = [w \in Worker |-> "idle"]

\* active_or_paused_link_for_submissive, .._for_keyholder
Live == link.status \in {"active", "paused"}
Pending == link.requestedAt # Null
Paused == link.pausedAt # Null

-----------------------------------------------------------------------------
(* The handlers: what each reads, then what it writes.                      *)

Read(w, write) ==
    /\ job[w] = "idle"
    /\ Live
    /\ job' = [job EXCEPT ![w] = write]
    /\ UNCHANGED <<now, link, reminded, sweep>>

Write(w, write, row) ==
    /\ job[w] = write
    /\ link' = row
    /\ job' = [job EXCEPT ![w] = "idle"]
    /\ UNCHANGED <<now, reminded, sweep>>

\* Only forward transitions.
SetPausedCheck(w) == link.status = "active" /\ Read(w, "set_paused")
SetEndedCheck(w) == Read(w, "set_ended")

Unrequested == [link EXCEPT !.requestedAt = Null, !.escalatedAt = Null]

\* Mutant of SetPaused: it writes a status the table does not know.
SetPausedUnknown(w) == Write(w, "set_paused", [link EXCEPT !.status = "suspended"])

SetPaused(w) == Write(w, "set_paused", [link EXCEPT !.status = "paused"])
SetEnded(w) == Write(w, "set_ended", [Unrequested EXCEPT !.status = "ended"])

\* admin force-end-link: one statement, of another process.
ForceEndLink == link' = [link EXCEPT !.status = "ended"]
ForceEnd ==
    /\ Live
    /\ ForceEndLink
    /\ UNCHANGED <<now, reminded, sweep, job>>

RequestEndCheck(w) == ~Pending /\ Read(w, "request")
\* Mutant of RequestEnd: the mark of the request it replaces stays.
RequestEndMarked(w) == Write(w, "request", [link EXCEPT !.requestedAt = now])

RequestEnd(w) ==
    Write(w, "request", [link EXCEPT !.requestedAt = now, !.escalatedAt = Null])

\* Withdrawn by the submissive, declined by the keyholder.
WithdrawCheck(w) == Read(w, "withdraw")
Withdraw(w) == Write(w, "withdraw", IF Pending THEN Unrequested ELSE link)
DeclineCheck(w) == Pending /\ Read(w, "decline")
Decline(w) == Write(w, "decline", Unrequested)

\* The cascade into the confinement clock is Pause of Confinement, the shift of the
\* deadlines ResumeShift of Assignments.
PauseCheck(w) == Read(w, "pause")
PauseIfNot(w, m) ==
    Write(w, "pause", IF Paused THEN link ELSE [link EXCEPT !.pausedAt = now, !.message = m])
Pause(w) == \E m \in BOOLEAN : PauseIfNot(w, m)
ResumeCheck(w) == Paused /\ Read(w, "resume")
Resume(w) == Write(w, "resume", [link EXCEPT !.pausedAt = Null, !.message = FALSE])

SetMessage(w, m) ==
    Write(w, "message", IF Paused THEN [link EXCEPT !.message = m] ELSE link)
UpdateOversightPauseMessage(w) ==
    \/ Read(w, "message")
    \/ \E m \in BOOLEAN : SetMessage(w, m)

\* The requests of api/roster.rs, and those of api/chastity.rs about oversight.
PatchLink(w) ==
    \/ SetPausedCheck(w) \/ SetPaused(w)
    \/ SetEndedCheck(w) \/ SetEnded(w)
PostEndRequest(w) == RequestEndCheck(w) \/ RequestEnd(w)
DeleteEndRequest(w) == WithdrawCheck(w) \/ Withdraw(w)
DeclineEndRequest(w) == DeclineCheck(w) \/ Decline(w)
OversightPause(w) == PauseCheck(w) \/ Pause(w)
OversightResume(w) == ResumeCheck(w) \/ Resume(w)

RosterRoutes(w) ==
    PatchLink(w) \/ PostEndRequest(w) \/ DeleteEndRequest(w) \/ DeclineEndRequest(w)
OversightRoutes(w) ==
    OversightPause(w) \/ OversightResume(w) \/ UpdateOversightPauseMessage(w)
Handler(w) == RosterRoutes(w) \/ OversightRoutes(w)

-----------------------------------------------------------------------------
(* The link passes of the deadline tick.                                    *)

After(pass) ==
    CASE pass = "escalate" -> "end_request"
      [] pass = "end_request" -> "oversight"
      [] pass = "oversight" -> "escalate"
SweepOn == [SweepStart EXCEPT !.at = After(sweep.at)]

\* A request the tick is to escalate.
Ripe ==
    /\ Pending
    /\ link.escalatedAt = Null
    /\ link.requestedAt <= now - EscalateAfter

\* Mutant of Escalate: only for active links.
EscalateActive ==
    /\ sweep.at = "escalate"
    /\ link' = IF Ripe /\ link.status = "active" THEN [link EXCEPT !.escalatedAt = now] ELSE link
    /\ sweep' = [SweepOn EXCEPT !.ts = now]
    /\ UNCHANGED <<now, reminded, job>>

Escalate ==
    /\ sweep.at = "escalate"
    /\ link' = IF Ripe THEN [link EXCEPT !.escalatedAt = now] ELSE link
    /\ sweep' = [SweepOn EXCEPT !.ts = now]
    /\ UNCHANGED <<now, reminded, job>>

\* exists_for_related_entity_since
RemindedSince(k, t) == reminded[k] # Null /\ reminded[k] >= t

Outstanding(k) ==
    CASE k = "end_request" -> Pending /\ link.escalatedAt # Null
      [] k = "oversight" -> Paused /\ link.pausedAt <= now - Interval

\* The look back is from the start of the pass.
PassTime(k) == IF k = "end_request" THEN sweep.ts ELSE now
Due(k, t) == Outstanding(k) /\ ~RemindedSince(k, t - Interval)

\* Mutant of SelectReminder: it does not look for an earlier reminder.
SelectOutstanding(k) ==
    /\ sweep.at = k /\ ~sweep.due
    /\ sweep' = IF Outstanding(k) THEN [sweep EXCEPT !.due = TRUE] ELSE SweepOn
    /\ UNCHANGED <<now, link, reminded, job>>

SelectReminder(k) ==
    /\ sweep.at = k /\ ~sweep.due
    /\ sweep' = IF Due(k, PassTime(k)) THEN [sweep EXCEPT !.due = TRUE] ELSE SweepOn
    /\ UNCHANGED <<now, link, reminded, job>>

Remind(k) ==
    /\ sweep.at = k /\ sweep.due
    /\ reminded' = [reminded EXCEPT ![k] = now]
    /\ sweep' = SweepOn
    /\ UNCHANGED <<now, link, job>>

\* An error ends the pass, not the tick: the escalation and its reminder are one
\* pass, and the error of a notification is dropped.
SweepError ==
    /\ sweep' = IF sweep.at = "escalate" THEN [SweepStart EXCEPT !.at = "oversight"]
                ELSE SweepOn
    /\ UNCHANGED <<now, link, reminded, job>>

-----------------------------------------------------------------------------
Tick ==
    /\ now < MaxTime
    /\ now' = now + 1
    /\ UNCHANGED <<link, reminded, sweep, job>>

Crash ==
    /\ sweep' = SweepStart
    /\ job' = [w \in Worker |-> "idle"]
    /\ UNCHANGED <<now, link, reminded>>

Sweep ==
    \/ Escalate
    \/ \E k \in Reminders : SelectReminder(k) \/ Remind(k)

Faultless ==
    \/ \E w \in Worker : Handler(w)
    \/ ForceEnd
    \/ Sweep
    \/ Tick

Next == Faultless \/ SweepError \/ Crash

Spec == Init /\ [][Next]_vars

\* The tick is a loop of the server: it goes on as long as the server runs, and errors
\* and crashes come to an end.  Requests and the clock are not fair.
FairSpec ==
    /\ Spec
    /\ WF_vars(Sweep)
    /\ <>[][Faultless]_vars

-----------------------------------------------------------------------------
(* Properties.                                                              *)

\* An escalation mark always belongs to the request it stands beside: whatever
\* requests, withdrawals and refusals overlap, no request that is younger than the
\* threshold is shown as escalated, and none that is gone.
EscalatedRequestIsOld ==
    link.escalatedAt # Null =>
        /\ Pending
        /\ link.escalatedAt - link.requestedAt >= EscalateAfter

\* A message about a pause is there only beside the pause: an edit of it that crosses a
\* resume does not leave one for the next pause to show.
MessageOnlyWhilePaused == link.message => Paused

\* What the link shows beside a request, or beside a pause, is about that one.
MarksBelong == EscalatedRequestIsOld /\ MessageOnlyWhilePaused

\* Action property: two reminders about the same thing are more than the interval
\* apart, though the last one is looked up before the next is sent.
RemindersSpaced ==
    [][\A k \in Reminders :
          reminded'[k] # reminded[k] /\ reminded[k] # Null
             => reminded'[k] > reminded[k] + Interval]_vars

\* Liveness: an old request does not stay unescalated, and neither it nor an old
\* oversight pause stays without a fresh reminder, whatever errors and crashes come
\* in between and whatever was asked, withdrawn or resumed before.
NothingForgotten ==
    /\ []<>~Ripe
    /\ \A k \in Reminders : []<>~Due(k, now)

-----------------------------------------------------------------------------
(* What the documents say and the code does not do.                         *)

\* docs/03-api-design.md on the status: "only forward transitions; can't reopen an
\* ended link".
EndedIsFinal == [][link.status = "ended" => link'.status = "ended"]_vars
=============================================================================
