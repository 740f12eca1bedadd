----------------------------- MODULE LinksProofs -----------------------------
(***************************************************************************)
(* Proofs about Links, for any number of workers and any thresholds, and    *)
(* about Checkins, the check-ins and alerts of a link, for any number of     *)
(* rows, threads and requests.                                              *)
(*                                                                         *)
(* TypeOK and MarksBelong are inductive together: a handler's write leaves   *)
(* the marks sound whatever the link has become since its read (RowsSound).  *)
(* RemindersSpaced needs that what the tick found due is still due when it   *)
(* sends (SweepInv).                                                        *)
(***************************************************************************)
EXTENDS Links, Checkins, FiniteSetTheorems, TLAPS

\* What MarksBelong says, of any row.
MarksOf(row) ==
    /\ row.escalatedAt # Null =>
          /\ row.requestedAt # Null
          /\ row.escalatedAt - row.requestedAt >= EscalateAfter
    /\ row.message => row.pausedAt # Null

Rows == [status : Statuses, requestedAt : Time, escalatedAt : Time, pausedAt : Time,
         message : BOOLEAN]

LInv == TypeOK /\ MarksBelong

LEMMA MarksOfLink == MarksBelong <=> MarksOf(link)
BY DEF MarksBelong, EscalatedRequestIsOld, MessageOnlyWhilePaused, Pending, Paused, MarksOf

LEMMA RowsTyped == TypeOK => link \in Rows
BY DEF TypeOK, Rows

\* A sound row in the place of the link, by a handler or another process.
LEMMA RowsSound ==
    ASSUME TypeOK, NEW row \in Rows, MarksOf(row), link' = row,
           job' \in [Worker -> Writes], UNCHANGED <<now, reminded, sweep>>
    PROVE  LInv'
<1>1. TypeOK'
  BY DEF TypeOK, Rows
<1>2. MarksBelong'
  BY DEF MarksBelong, EscalatedRequestIsOld, MessageOnlyWhilePaused, Pending, Paused, MarksOf
<1>3. QED
  BY <1>1, <1>2 DEF LInv

LEMMA WriteSound ==
    ASSUME TypeOK, NEW w \in Worker, NEW write, NEW row \in Rows, MarksOf(row), Write(w, write, row)
    PROVE  LInv'
<1>1. job' \in [Worker -> Writes]
  BY DEF Write, TypeOK, Writes
<1>2. QED
  BY <1>1, RowsSound DEF Write

LEMMA ReadSound ==
    ASSUME LInv, NEW w \in Worker, NEW write \in Writes, Read(w, write)
    PROVE  LInv'
<1>1. job' \in [Worker -> Writes] /\ UNCHANGED <<link, now, reminded, sweep>>
  BY DEF Read, LInv, TypeOK
<1>2. link \in Rows /\ MarksOf(link)
  BY RowsTyped, MarksOfLink DEF LInv
<1>3. QED
  BY <1>1, <1>2, RowsSound DEF LInv

LEMMA InitSound == Init => LInv
BY LinksAssumption
   DEF Init, LInv, TypeOK, MarksBelong, EscalatedRequestIsOld, MessageOnlyWhilePaused, Time, Statuses,
       Reminders, Passes, Writes, SweepStart

-----------------------------------------------------------------------------
(* The handlers.                                                            *)

LEMMA PatchSound == ASSUME LInv, NEW w \in Worker, PatchLink(w) PROVE LInv'
<1>1. CASE SetPausedCheck(w) \/ SetEndedCheck(w)
  BY <1>1, ReadSound DEF SetPausedCheck, SetEndedCheck, Writes
<1>2. CASE SetPaused(w)
  <2> DEFINE row == [link EXCEPT !.status = "paused"]
  <2>1. row \in Rows /\ MarksOf(row)
    BY RowsTyped, MarksOfLink DEF LInv, Rows, Statuses, MarksOf
  <2>2. QED
    BY <1>2, <2>1, WriteSound DEF SetPaused, LInv
<1>3. CASE SetEnded(w)
  <2> DEFINE row == [Unrequested EXCEPT !.status = "ended"]
  <2>1. row \in Rows /\ MarksOf(row)
    BY RowsTyped, MarksOfLink DEF LInv, Rows, Statuses, MarksOf, Unrequested, Time
  <2>2. QED
    BY <1>3, <2>1, WriteSound DEF SetEnded, LInv
<1>4. QED
  BY <1>1, <1>2, <1>3 DEF PatchLink

LEMMA EndRequestSound ==
    ASSUME LInv, NEW w \in Worker,
           PostEndRequest(w) \/ DeleteEndRequest(w) \/ DeclineEndRequest(w)
    PROVE  LInv'
<1>1. CASE RequestEndCheck(w) \/ WithdrawCheck(w) \/ DeclineCheck(w)
  BY <1>1, ReadSound DEF RequestEndCheck, WithdrawCheck, DeclineCheck, Writes
<1>2. Unrequested \in Rows /\ MarksOf(Unrequested)
  BY RowsTyped, MarksOfLink DEF LInv, Rows, MarksOf, Unrequested, Time
<1>3. CASE RequestEnd(w)
  <2> DEFINE row == [link EXCEPT !.requestedAt = now, !.escalatedAt = Null]
  <2>1. row \in Rows /\ MarksOf(row)
    BY RowsTyped, MarksOfLink DEF LInv, TypeOK, Rows, MarksOf, Time
  <2>2. QED
    BY <1>3, <2>1, WriteSound DEF RequestEnd, LInv
<1>4. CASE Withdraw(w)
  <2>1. link \in Rows /\ MarksOf(link)
    BY RowsTyped, MarksOfLink DEF LInv
  <2>2. QED
    BY <1>2, <1>4, <2>1, WriteSound DEF Withdraw, LInv
<1>5. CASE Decline(w)
  BY <1>2, <1>5, WriteSound DEF Decline, LInv
<1>6. QED
  BY <1>1, <1>3, <1>4, <1>5 DEF PostEndRequest, DeleteEndRequest, DeclineEndRequest

LEMMA OversightSound == ASSUME LInv, NEW w \in Worker, OversightRoutes(w) PROVE LInv'
<1>1. link \in Rows /\ MarksOf(link) /\ now \in Nat
  BY RowsTyped, MarksOfLink DEF LInv, TypeOK
<1>2. CASE PauseCheck(w) \/ ResumeCheck(w) \/ Read(w, "message")
  BY <1>2, ReadSound DEF PauseCheck, ResumeCheck, Writes
<1>3. ASSUME NEW m \in BOOLEAN, PauseIfNot(w, m) PROVE LInv'
  <2> DEFINE row == IF Paused THEN link ELSE [link EXCEPT !.pausedAt = now, !.message = m]
  <2>1. row \in Rows /\ MarksOf(row)
    <3>1. now # Null /\ now \in Time
      BY <1>1, LinksAssumption DEF Time
    <3>2. CASE Paused
      BY <1>1, <3>2
    <3>3. CASE ~Paused
      <4>1. row = [link EXCEPT !.pausedAt = now, !.message = m]
        BY <3>3
      <4>2. row.pausedAt = now /\ row.requestedAt = link.requestedAt /\ row.escalatedAt = link.escalatedAt
        BY <1>1, <4>1 DEF Rows
      <4>3. row \in Rows
        BY <1>1, <3>1, <4>1 DEF Rows
      <4>4. QED
        BY <1>1, <3>1, <4>2, <4>3 DEF MarksOf
    <3>4. QED
      BY <3>2, <3>3
  <2>2. QED
    BY <1>3, <2>1, WriteSound DEF PauseIfNot, LInv
<1>4. CASE Resume(w)
  <2> DEFINE row == [link EXCEPT !.pausedAt = Null, !.message = FALSE]
  <2>1. row \in Rows /\ MarksOf(row)
    BY <1>1 DEF Rows, MarksOf, Time
  <2>2. QED
    BY <1>4, <2>1, WriteSound DEF Resume, LInv
<1>5. ASSUME NEW m \in BOOLEAN, SetMessage(w, m) PROVE LInv'
  <2> DEFINE row == IF Paused THEN [link EXCEPT !.message = m] ELSE link
  <2>1. row \in Rows /\ MarksOf(row)
    BY <1>1 DEF Rows, MarksOf, Paused
  <2>2. QED
    BY <1>5, <2>1, WriteSound DEF SetMessage, LInv
<1>6. QED
  BY <1>2, <1>3, <1>4, <1>5
     DEF OversightRoutes, OversightPause, OversightResume, UpdateOversightPauseMessage, Pause

-----------------------------------------------------------------------------
(* The deadline tick.                                                       *)

LEMMA SweepOnType == TypeOK => /\ SweepOn \in [at : Passes, due : BOOLEAN, ts : Nat]
                               /\ ~SweepOn.due /\ SweepOn.ts = 0
BY DEF TypeOK, SweepOn, SweepStart, After, Passes, Reminders

LEMMA EscalateSound == ASSUME LInv, Escalate PROVE LInv'
<1> DEFINE row == IF Ripe THEN [link EXCEPT !.escalatedAt = now] ELSE link
<1>1. link \in Rows /\ MarksOf(link) /\ now \in Nat
  BY RowsTyped, MarksOfLink DEF LInv, TypeOK
<1>2. row \in Rows
  BY <1>1 DEF Rows, Time
<1>3. MarksOf(row)
  <2>1. CASE Ripe
    <3>1. row = [link EXCEPT !.escalatedAt = now] /\ link.requestedAt \in Nat
      BY <1>1, <2>1 DEF Ripe, Pending, Rows, Time
    <3>2. link.requestedAt <= now - EscalateAfter
      BY <2>1 DEF Ripe
    <3>3. QED
      BY <1>1, <3>1, <3>2, LinksAssumption DEF MarksOf, Rows
  <2>2. CASE ~Ripe
    BY <1>1, <2>2
  <2>3. QED
    BY <2>1, <2>2
<1>4. [SweepOn EXCEPT !.ts = now] \in [at : Passes, due : BOOLEAN, ts : Nat]
  BY SweepOnType, <1>1 DEF LInv
<1>5. QED
  <2> HIDE DEF row
  <2>1. link' = row
    BY DEF Escalate, row
  <2>2. TypeOK'
    BY <1>2, <1>4, <2>1 DEF Escalate, LInv, TypeOK, Rows
  <2>3. MarksBelong'
    BY <1>3, <2>1
       DEF MarksBelong, EscalatedRequestIsOld, MessageOnlyWhilePaused, Pending, Paused, MarksOf
  <2>4. QED
    BY <2>2, <2>3 DEF LInv

\* The steps that leave the link alone.
LEMMA LinkKept ==
    ASSUME LInv, UNCHANGED link, TypeOK'
    PROVE  LInv'
BY DEF LInv, MarksBelong, EscalatedRequestIsOld, MessageOnlyWhilePaused, Pending, Paused

LEMMA ReminderSound ==
    ASSUME LInv, NEW k \in Reminders, SelectReminder(k) \/ Remind(k)
    PROVE  LInv'
<1>1. SweepOn \in [at : Passes, due : BOOLEAN, ts : Nat]
  BY SweepOnType DEF LInv
<1>2. [sweep EXCEPT !.due = TRUE] \in [at : Passes, due : BOOLEAN, ts : Nat]
  BY DEF LInv, TypeOK
<1>3. CASE SelectReminder(k)
  BY <1>1, <1>2, <1>3, LinkKept DEF SelectReminder, LInv, TypeOK
<1>4. CASE Remind(k)
  BY <1>1, <1>4, LinkKept DEF Remind, LInv, TypeOK, Time
<1>5. QED
  BY <1>3, <1>4

LEMMA FaultSound == ASSUME LInv, SweepError \/ Crash PROVE LInv'
<1>1. SweepStart \in [at : Passes, due : BOOLEAN, ts : Nat]
  BY DEF SweepStart, Passes
<1>2. CASE SweepError
  <2>1. [SweepStart EXCEPT !.at = "oversight"] \in [at : Passes, due : BOOLEAN, ts : Nat]
    BY DEF SweepStart, Passes, Reminders
  <2>2. QED
    BY <1>2, <2>1, SweepOnType, LinkKept DEF SweepError, LInv, TypeOK
<1>3. CASE Crash
  BY <1>1, <1>3, LinkKept DEF Crash, LInv, TypeOK, Writes
<1>4. QED
  BY <1>2, <1>3

LEMMA LInvNext == LInv /\ [Next]_vars => LInv'
<1> SUFFICES ASSUME LInv, [Next]_vars PROVE LInv'
  OBVIOUS
<1>1. ASSUME NEW w \in Worker, Handler(w) PROVE LInv'
  BY <1>1, PatchSound, EndRequestSound, OversightSound DEF Handler, RosterRoutes
<1>2. CASE ForceEnd
  <2> DEFINE row == [link EXCEPT !.status = "ended"]
  <2>1. row \in Rows /\ MarksOf(row)
    BY RowsTyped, MarksOfLink DEF LInv, Rows, MarksOf, Statuses
  <2>2. link' = row /\ job' \in [Worker -> Writes] /\ UNCHANGED <<now, reminded, sweep>>
    BY <1>2 DEF ForceEnd, ForceEndLink, LInv, TypeOK
  <2>3. QED
    BY <2>1, <2>2, RowsSound DEF LInv
<1>3. CASE Sweep
  BY <1>3, EscalateSound, ReminderSound DEF Sweep
<1>4. CASE Tick
  BY <1>4, LinkKept DEF Tick, LInv, TypeOK
<1>5. CASE UNCHANGED vars
  BY <1>5, LinkKept DEF vars, LInv, TypeOK
<1>6. QED
  BY <1>1, <1>2, <1>3, <1>4, <1>5, FaultSound DEF Next, Faultless

\* Every variable keeps its type: no handler, tick, error or crash leaves a status, a mark
\* or a pass of the tick the code does not know.
THEOREM LinksTypeCorrect == Spec => []TypeOK
<1>1. LInv => TypeOK
  BY DEF LInv
<1>2. QED
  BY InitSound, LInvNext, <1>1, PTL DEF Spec

\* Whatever requests, withdrawals and refusals overlap with one another and with the tick, an
\* escalation mark is of the request it stands beside, and a message of the pause.
THEOREM MarksAlwaysBelong == Spec => []MarksBelong
<1>1. LInv => MarksBelong
  BY DEF LInv
<1>2. QED
  BY InitSound, LInvNext, <1>1, PTL DEF Spec

-----------------------------------------------------------------------------
(* The reminders are spaced.                                                *)

\* What the tick has found due is due until it sends: nobody else reminds, and the clock
\* only moves away from the last reminder.
StaysDue ==
    sweep.due =>
        /\ sweep.at \in Reminders
        /\ reminded[sweep.at] # Null => reminded[sweep.at] + Interval < now

SweepInv == TypeOK /\ sweep.ts <= now /\ StaysDue

LEMMA SweepInit == Init => SweepInv
BY InitSound DEF LInv, Init, SweepInv, StaysDue, SweepStart

\* The handlers and the other processes do not touch the tick's state.
LEMMA OutsideSweep ==
    ASSUME NEW w \in Worker, Handler(w)
    PROVE  UNCHANGED <<now, reminded, sweep>>
BY DEF Handler, RosterRoutes, OversightRoutes, PatchLink, PostEndRequest, DeleteEndRequest,
       DeclineEndRequest, OversightPause, OversightResume, UpdateOversightPauseMessage,
       SetPausedCheck, SetPaused, SetEndedCheck, SetEnded, RequestEndCheck, RequestEnd,
       WithdrawCheck, Withdraw, DeclineCheck, Decline, PauseCheck, Pause, PauseIfNot, ResumeCheck,
       Resume, SetMessage, Read, Write

LEMMA SelectDue ==
    ASSUME SweepInv, NEW k \in Reminders, Due(k, PassTime(k))
    PROVE  reminded[k] # Null => reminded[k] + Interval < now
<1>1. PassTime(k) \in Nat /\ PassTime(k) <= now /\ now \in Nat /\ reminded[k] \in Time
  BY DEF SweepInv, TypeOK, PassTime
<1>2. reminded[k] # Null => reminded[k] \in Nat /\ ~(reminded[k] >= PassTime(k) - Interval)
  BY <1>1 DEF Due, RemindedSince, Time
<1>3. QED
  BY <1>1, <1>2, LinksAssumption

LEMMA SweepInvNext == SweepInv /\ LInv /\ [Next]_vars => SweepInv'
<1> SUFFICES ASSUME SweepInv, LInv, [Next]_vars PROVE SweepInv'
  OBVIOUS
<1>1. TypeOK'
  BY LInvNext DEF LInv
<1>2. now \in Nat /\ sweep.ts \in Nat /\ SweepOn.ts = 0 /\ ~SweepOn.due
  BY SweepOnType DEF SweepInv, TypeOK
<1>3. CASE UNCHANGED <<now, reminded, sweep>>
  BY <1>1, <1>3 DEF SweepInv, StaysDue
<1>4. CASE Escalate
  <2>1. sweep'.ts = now /\ ~sweep'.due /\ now' = now
    BY <1>2, <1>4 DEF Escalate, SweepOn, SweepStart
  <2>2. QED
    BY <1>1, <1>2, <2>1 DEF SweepInv, StaysDue
<1>5. ASSUME NEW k \in Reminders, SelectReminder(k) PROVE SweepInv'
  <2>1. CASE Due(k, PassTime(k))
    <3>1. sweep'.at = k /\ sweep'.ts = sweep.ts /\ UNCHANGED <<now, reminded>>
      BY <1>5, <2>1 DEF SelectReminder, SweepInv, TypeOK
    <3>2. QED
      BY <1>1, <2>1, <3>1, SelectDue DEF SweepInv, StaysDue
  <2>2. CASE ~Due(k, PassTime(k))
    <3>1. sweep' = SweepOn /\ now' = now
      BY <1>5, <2>2 DEF SelectReminder
    <3>2. QED
      BY <1>1, <1>2, <3>1 DEF SweepInv, StaysDue
  <2>3. QED
    BY <2>1, <2>2
<1>6. ASSUME NEW k \in Reminders, Remind(k) PROVE SweepInv'
  BY <1>1, <1>2, <1>6 DEF Remind, SweepInv, StaysDue
<1>7. CASE SweepError
  <2>1. sweep'.ts = 0 /\ ~sweep'.due /\ now' = now
    BY <1>2, <1>7 DEF SweepError, SweepStart
  <2>2. QED
    BY <1>1, <1>2, <2>1 DEF SweepInv, StaysDue
<1>8. CASE Crash
  BY <1>1, <1>2, <1>8 DEF Crash, SweepStart, SweepInv, StaysDue
<1>9. CASE Tick
  <2>1. now' = now + 1 /\ UNCHANGED <<reminded, sweep>>
    BY <1>9 DEF Tick
  <2>2. sweep.due /\ reminded[sweep.at] # Null => reminded[sweep.at] \in Nat
    BY DEF SweepInv, StaysDue, TypeOK, Time
  <2>3. QED
    BY <1>1, <1>2, <2>1, <2>2, LinksAssumption DEF SweepInv, StaysDue
<1>10. CASE UNCHANGED vars
  BY <1>3, <1>10 DEF vars
<1>11. CASE ForceEnd
  BY <1>3, <1>11 DEF ForceEnd
<1>12. QED
  BY <1>3, <1>4, <1>5, <1>6, <1>7, <1>8, <1>9, <1>10, <1>11, OutsideSweep DEF Next, Faultless, Sweep

\* A step of Links writes a reminder only in Remind, at the time it is due.
LEMMA ReminderStep ==
    ASSUME SweepInv, [Next]_vars, NEW k \in Reminders, reminded'[k] # reminded[k], reminded[k] # Null
    PROVE  reminded'[k] > reminded[k] + Interval
<1>1. PICK r \in Reminders : Remind(r)
  BY OutsideSweep
     DEF Next, Faultless, Sweep, Escalate, SelectReminder, ForceEnd, SweepError, Tick, Crash, vars
<1>2. r = k /\ reminded'[k] = now /\ sweep.due /\ sweep.at = k
  BY <1>1 DEF Remind, SweepInv, TypeOK
<1>3. reminded[k] \in Nat /\ now \in Nat /\ reminded[k] + Interval < now
  BY <1>2 DEF SweepInv, StaysDue, TypeOK, Time
<1>4. QED
  BY <1>2, <1>3, LinksAssumption

\* Two reminders about the same request, or the same pause, are more than the interval apart,
\* however the lookup and the sending are separated and whatever crashes in between.
THEOREM RemindersAlwaysSpaced == Spec => RemindersSpaced
<1> DEFINE Spaced == \A k \in Reminders :
                        reminded'[k] # reminded[k] /\ reminded[k] # Null
                           => reminded'[k] > reminded[k] + Interval
<1>1. SweepInv /\ [Next]_vars => [Spaced]_vars
  BY ReminderStep
<1>2. QED
  BY InitSound, LInvNext, SweepInit, SweepInvNext, <1>1, PTL DEF Spec, RemindersSpaced
-----------------------------------------------------------------------------
(* Check-ins and alerts.                                                    *)
(*                                                                         *)
(* RequestsInv says what a request in hand carries and that the rows it     *)
(* names are there; HearInv, who still has to announce an alert or tell its  *)
(* answer; TurnPart, what the request that has a check-in in hand still owes *)
(* the keyholder about it; PhotoPart and FieldsPart, why a photo may be      *)
(* missing.  Together they are inductive, and DropInv is their conjunction.  *)

\* What each kind of request carries, at each of its steps.
JobFits(j) ==
    /\ j.op = "idle" => j = Idle
    /\ j.op \in {"create", "patch"} <=> j.checkin # None
    /\ j.op = "create" => j.at \in {"attach", "reread", "notify"} /\ ~j.red
    /\ j.op = "patch" => j.at \in {"update", "reread", "notify"}
    /\ j.at = "update" => j.alert = None
    /\ j.op \in {"raise", "answer"} => j.alert # None
    /\ j.op = "raise" => j.at = "notify"
    /\ j.op = "answer" => j.at \in {"acknowledge", "resolve", "notify"}
    /\ j.op = "edit" => j.alert = None /\ j.at \in {"update", "delete", "insert"}

Bearing == {"create", "patch", "raise"}

\* How it stands to the rows: they are there, the alert is the check-in's own, and who
\* finds an alert acknowledged does not owe the answer.
JobStands(w) ==
    /\ request[w].checkin # None => Exists(request[w].checkin)
    /\ request[w].alert # None => alert[request[w].alert].raised
    /\ request[w].op \in Bearing /\ request[w].alert # None =>
          alert[request[w].alert].checkin = request[w].checkin
    /\ request[w].at = "acknowledge" =>
          request[w].red \/ alert[request[w].alert].acknowledged

JobsFit == \A w \in Thread : JobFits(request[w])
JobsStand == \A w \in Thread : JobStands(w)

\* An alert that was not raised belongs to no check-in.
BlankAlerts == \A a \in Alert : ~alert[a].raised => alert[a].checkin = None

RequestsInv == CheckinsTypeOK /\ JobsFit /\ JobsStand /\ BlankAlerts

OthersKept(w) == \A v \in Thread \ {w} : request'[v] = request[v]

LEMMA PutIs ==
    ASSUME CheckinsTypeOK, NEW w \in Thread, NEW j \in Jobs, request' = [request EXCEPT ![w] = j]
    PROVE  request' \in [Thread -> Jobs] /\ request'[w] = j /\ OthersKept(w)
BY DEF CheckinsTypeOK, OthersKept

LEMMA IdleFits == Idle \in Jobs /\ JobFits(Idle)
BY DEF Idle, Jobs, JobFits

LEMMA Distinct == \A x \in Checkin \cup Alert : x # None
BY CheckinsAssumption

\* The feed with one row more.
LEMMA NotedRaised ==
    ASSUME CheckinsTypeOK, NEW a \in Alert
    PROVE  /\ Noted("raised", a) \in [raised : [Alert -> Nat], seen : [Alert -> Nat], flag : [Checkin -> Nat]]
           /\ Noted("raised", a).raised[a] = feed.raised[a] + 1
           /\ \A b \in Alert \ {a} : Noted("raised", a).raised[b] = feed.raised[b]
           /\ Noted("raised", a).seen = feed.seen /\ Noted("raised", a).flag = feed.flag
<1> DEFINE notes == [feed.raised EXCEPT ![a] = @ + 1]
<1>1. Noted("raised", a) = [feed EXCEPT !.raised = notes]
  BY DEF CheckinsTypeOK, Noted
<1>2. /\ notes \in [Alert -> Nat] /\ notes[a] = feed.raised[a] + 1
      /\ \A x \in Alert \ {a} : notes[x] = feed.raised[x]
  BY DEF CheckinsTypeOK
<1> HIDE DEF notes
<1>3. QED
  BY <1>1, <1>2 DEF CheckinsTypeOK

LEMMA NotedSeen ==
    ASSUME CheckinsTypeOK, NEW a \in Alert
    PROVE  /\ Noted("seen", a) \in [raised : [Alert -> Nat], seen : [Alert -> Nat], flag : [Checkin -> Nat]]
           /\ Noted("seen", a).seen[a] = feed.seen[a] + 1
           /\ \A b \in Alert \ {a} : Noted("seen", a).seen[b] = feed.seen[b]
           /\ Noted("seen", a).raised = feed.raised /\ Noted("seen", a).flag = feed.flag
<1> DEFINE notes == [feed.seen EXCEPT ![a] = @ + 1]
<1>1. Noted("seen", a) = [feed EXCEPT !.seen = notes]
  BY DEF CheckinsTypeOK, Noted
<1>2. /\ notes \in [Alert -> Nat] /\ notes[a] = feed.seen[a] + 1
      /\ \A x \in Alert \ {a} : notes[x] = feed.seen[x]
  BY DEF CheckinsTypeOK
<1> HIDE DEF notes
<1>3. QED
  BY <1>1, <1>2 DEF CheckinsTypeOK

LEMMA NotedFlag ==
    ASSUME CheckinsTypeOK, NEW c \in Checkin
    PROVE  /\ Noted("flag", c) \in [raised : [Alert -> Nat], seen : [Alert -> Nat], flag : [Checkin -> Nat]]
           /\ Noted("flag", c).flag[c] = feed.flag[c] + 1
           /\ \A d \in Checkin \ {c} : Noted("flag", c).flag[d] = feed.flag[d]
           /\ Noted("flag", c).raised = feed.raised /\ Noted("flag", c).seen = feed.seen
<1> DEFINE notes == [feed.flag EXCEPT ![c] = @ + 1]
<1>1. Noted("flag", c) = [feed EXCEPT !.flag = notes]
  BY DEF CheckinsTypeOK, Noted
<1>2. /\ notes \in [Checkin -> Nat] /\ notes[c] = feed.flag[c] + 1
      /\ \A x \in Checkin \ {c} : notes[x] = feed.flag[x]
  BY DEF CheckinsTypeOK
<1> HIDE DEF notes
<1>3. QED
  BY <1>1, <1>2 DEF CheckinsTypeOK

\* A new alert, of check-in k or of none: the others stay as they are.
Born(b, k) ==
    /\ b \in Alert /\ ~alert[b].raised
    /\ alert'[b].raised /\ alert'[b].checkin = k
    /\ alert'[b].acknowledged = alert[b].acknowledged
    /\ \A a \in Alert \ {b} : alert'[a] = alert[a]

LEMMA TablesTyped ==
    CheckinsTypeOK =>
        /\ checkin \in [Checkin -> [color : Colors \cup {"absent"}, photo : BOOLEAN]]
        /\ alert \in [Alert -> [raised : BOOLEAN, acknowledged : BOOLEAN,
                               resolved : BOOLEAN, checkin : Checkin \cup {None}]]
BY DEF CheckinsTypeOK

LEMMA NewAlertIsNew == NewAlerts # {} => NewAlert \in Alert /\ ~alert[NewAlert].raised
BY DEF NewAlerts, NewAlert

LEMMA RaisedIs ==
    ASSUME CheckinsTypeOK, NEW c \in Checkin, NewAlerts # {}, alert' = Raised(c)
    PROVE  /\ Born(NewAlert, c)
           /\ alert' \in [Alert -> [raised : BOOLEAN, acknowledged : BOOLEAN,
                                    resolved : BOOLEAN, checkin : Checkin \cup {None}]]
<1>1. NewAlert \in Alert /\ ~alert[NewAlert].raised
  BY NewAlertIsNew
<1> DEFINE b == NewAlert
<1> HIDE DEF b
<1>2. b \in Alert /\ ~alert[b].raised
  BY <1>1 DEF b
<1>3. alert' = [alert EXCEPT ![b] = [@ EXCEPT !.raised = TRUE, !.checkin = c]]
  BY DEF Raised, b
<1>4. Born(b, c)
  BY <1>2, <1>3, TablesTyped DEF Born
<1>5. alert' \in [Alert -> [raised : BOOLEAN, acknowledged : BOOLEAN,
                            resolved : BOOLEAN, checkin : Checkin \cup {None}]]
  BY <1>2, <1>3, TablesTyped
<1>6. QED
  BY <1>4, <1>5 DEF b

\* What a transaction that stores a colour does to the rows.
Stored(c, color) ==
    /\ checkin'[c].color = color /\ checkin'[c].photo = checkin[c].photo
    /\ \A d \in Checkin \ {c} : checkin'[d] = checkin[d]
    /\ turns'[c] = IF color = "red" /\ ~Red(c) THEN turns[c] + 1 ELSE turns[c]
    /\ \A d \in Checkin \ {c} : turns'[d] = turns[d]
    /\ IF Raises(c, color) THEN Born(AlertFor(c, color), c)
       ELSE alert' = alert /\ AlertFor(c, color) = None

LEMMA StoreIs ==
    ASSUME CheckinsTypeOK, NEW c \in Checkin, NEW color \in Colors \cup {"absent"}, Store(c, color)
    PROVE  /\ Stored(c, color)
           /\ AlertFor(c, color) \in Alert \cup {None}
           /\ checkin' \in [Checkin -> [color : Colors \cup {"absent"}, photo : BOOLEAN]]
           /\ alert' \in [Alert -> [raised : BOOLEAN, acknowledged : BOOLEAN,
                                    resolved : BOOLEAN, checkin : Checkin \cup {None}]]
           /\ turns' \in [Checkin -> Nat]
<1>1. /\ checkin'[c].color = color /\ checkin'[c].photo = checkin[c].photo
      /\ \A d \in Checkin \ {c} : checkin'[d] = checkin[d]
      /\ checkin' \in [Checkin -> [color : Colors \cup {"absent"}, photo : BOOLEAN]]
  BY DEF Store, CheckinsTypeOK
<1>2. /\ turns'[c] = IF color = "red" /\ ~Red(c) THEN turns[c] + 1 ELSE turns[c]
      /\ \A d \in Checkin \ {c} : turns'[d] = turns[d]
      /\ turns' \in [Checkin -> Nat]
  <2>1. CASE color = "red" /\ ~Red(c)
    BY <2>1 DEF Store, CheckinsTypeOK
  <2>2. CASE ~(color = "red" /\ ~Red(c))
    BY <2>2 DEF Store, CheckinsTypeOK
  <2>3. QED
    BY <2>1, <2>2
<1>3. CASE Raises(c, color)
  <2>1. NewAlerts # {} /\ alert' = Raised(c) /\ AlertFor(c, color) = NewAlert
    BY <1>3 DEF Store, AlertFor
  <2>2. QED
    BY <1>1, <1>2, <1>3, <2>1, RaisedIs, NewAlertIsNew DEF Stored
<1>4. CASE ~Raises(c, color)
  BY <1>1, <1>2, <1>4 DEF Store, AlertFor, Stored, CheckinsTypeOK
<1>5. QED
  BY <1>3, <1>4

\* A request that is taken up, goes on to a step, or ends.
LEMMA TakeIs ==
    ASSUME CheckinsTypeOK, NEW w \in Thread, NEW j \in Jobs, Take(w, j)
    PROVE  /\ request' \in [Thread -> Jobs] /\ request'[w] = j /\ OthersKept(w)
           /\ request[w] = Idle /\ requests' \in 0..MaxRequests
<1>1. requests' \in 0..MaxRequests
  BY CheckinsAssumption DEF Take, CheckinsTypeOK
<1>2. QED
  BY <1>1, PutIs DEF Take

LEMMA ProceedIs ==
    ASSUME CheckinsTypeOK, NEW w \in Thread, NEW j \in Jobs, Proceed(w, j)
    PROVE  /\ request' \in [Thread -> Jobs] /\ request'[w] = j /\ OthersKept(w)
           /\ requests' \in 0..MaxRequests
BY PutIs DEF Proceed, CheckinsTypeOK

LEMMA GotoIs ==
    ASSUME CheckinsTypeOK, NEW w \in Thread, NEW step \in Steps, Goto(w, step)
    PROVE  /\ request' \in [Thread -> Jobs] /\ OthersKept(w) /\ requests' \in 0..MaxRequests
           /\ request'[w] = [request[w] EXCEPT !.at = step]
<1>1. [request[w] EXCEPT !.at = step] \in Jobs
  <2>1. request[w] \in Jobs /\ step \in Steps \cup {"idle"}
    BY DEF CheckinsTypeOK
  <2>2. QED
    BY <2>1 DEF Jobs
<1>2. QED
  BY <1>1, ProceedIs DEF Goto

LEMMA EndIs ==
    ASSUME CheckinsTypeOK, NEW w \in Thread, End(w)
    PROVE  /\ request' \in [Thread -> Jobs] /\ OthersKept(w) /\ requests' \in 0..MaxRequests
           /\ request'[w] = Idle
BY IdleFits, ProceedIs DEF End

\* What every step does to the rows that requests hold.
RowsGrow ==
    /\ \A c \in Checkin : Exists(c) => Exists(c)'
    /\ \A a \in Alert :
          /\ alert[a].raised => /\ alert'[a].raised /\ alert'[a].checkin = alert[a].checkin
                                /\ alert[a].acknowledged => alert'[a].acknowledged
          /\ ~alert'[a].raised => alert'[a].checkin = alert[a].checkin

LEMMA RowsKept == checkin' = checkin /\ alert' = alert => RowsGrow
BY DEF RowsGrow, Exists

LEMMA StoredGrow ==
    ASSUME NEW c \in Checkin, NEW color, color # "absent", Stored(c, color)
    PROVE  RowsGrow
<1>1. \A d \in Checkin : Exists(d) => Exists(d)'
  BY DEF Stored, Exists
<1>2. CASE Raises(c, color)
  BY <1>1, <1>2 DEF Stored, Born, RowsGrow
<1>3. CASE ~Raises(c, color)
  BY <1>1, <1>3 DEF Stored, RowsGrow
<1>4. QED
  BY <1>2, <1>3

\* One request moves over rows that grow: what it holds next is sound, and so is the rest.
LEMMA Moves ==
    ASSUME RequestsInv, CheckinsTypeOK', RowsGrow, NEW w \in Thread, OthersKept(w),
           JobFits(request'[w]), JobStands(w)'
    PROVE  RequestsInv'
<1>1. JobsFit'
  BY DEF RequestsInv, JobsFit, OthersKept
<1>2. ASSUME NEW v \in Thread, v # w PROVE JobStands(v)'
  <2>1. request'[v] = request[v] /\ JobStands(v) /\ request[v] \in Jobs /\ JobFits(request[v])
    BY <1>2 DEF RequestsInv, JobsStand, JobsFit, OthersKept, CheckinsTypeOK
  <2>2. request[v].checkin \in Checkin \cup {None} /\ request[v].alert \in Alert \cup {None}
    BY <2>1 DEF Jobs
  <2>3. request[v].at = "acknowledge" => request[v].alert # None
    BY <2>1 DEF JobFits, Idle, Jobs, Ops
  <2>4. QED
    BY <2>1, <2>2, <2>3 DEF JobStands, RowsGrow
<1>3. BlankAlerts'
  BY DEF RequestsInv, BlankAlerts, RowsGrow
<1>4. QED
  BY <1>1, <1>2, <1>3 DEF RequestsInv, JobsStand

\* A request that holds nothing, or only what it held before, stands.
LEMMA IdleStands == ASSUME NEW w, request'[w] = Idle PROVE JobFits(request'[w]) /\ JobStands(w)'
BY IdleFits DEF Idle, JobStands

LEMMA GoesOn ==
    ASSUME RequestsInv, RowsGrow, NEW w \in Thread, request'[w].checkin = request[w].checkin,
           request'[w].alert = request[w].alert, request'[w].op = request[w].op,
           request'[w].at # "acknowledge"
    PROVE  JobStands(w)'
<1>1. JobStands(w) /\ request[w] \in Jobs
  BY DEF RequestsInv, JobsStand, CheckinsTypeOK
<1>2. request[w].checkin \in Checkin \cup {None} /\ request[w].alert \in Alert \cup {None}
  BY <1>1 DEF Jobs
<1>3. QED
  BY <1>1, <1>2 DEF JobStands, RowsGrow

-----------------------------------------------------------------------------
(* Check-ins: the handlers, one by one.                                     *)

LEMMA InitRequests == CheckinsInit => RequestsInv
<1> SUFFICES ASSUME CheckinsInit PROVE RequestsInv
  OBVIOUS
<1>1. CreatingTemplate \in Jobs /\ JobFits(CreatingTemplate)
  BY DEF CreatingTemplate, Idle, Jobs, JobFits, Ops, Steps, Colors
<1>2. \A w \in Thread : request[w] \in {CreatingTemplate, Idle}
  BY DEF CheckinsInit
<1>3. request \in [Thread -> Jobs] /\ JobsFit
  BY <1>1, <1>2, IdleFits DEF CheckinsInit, JobsFit
<1>4. CheckinsTypeOK
  <2>1. template \in [escalate : BOOLEAN, rows : Nat]
    BY DEF CheckinsInit
  <2>2. requests \in 0..MaxRequests
    BY CheckinsAssumption DEF CheckinsInit
  <2>3. /\ standing \in {"active", "paused", "ended"}
        /\ turns \in [Checkin -> Nat] /\ torn \in BOOLEAN
        /\ raced = {} /\ lost = {} /\ refused = {} /\ excused = {}
    BY DEF CheckinsInit
  <2>4. checkin \in [Checkin -> [color : Colors \cup {"absent"}, photo : BOOLEAN]]
    BY DEF CheckinsInit
  <2>5. alert \in [Alert -> [raised : BOOLEAN, acknowledged : BOOLEAN,
                            resolved : BOOLEAN, checkin : Checkin \cup {None}]]
    BY DEF CheckinsInit
  <2>6. feed \in [raised : [Alert -> Nat], seen : [Alert -> Nat], flag : [Checkin -> Nat]]
    BY DEF CheckinsInit
  <2>7. QED
    BY <1>3, <2>1, <2>2, <2>3, <2>4, <2>5, <2>6 DEF CheckinsTypeOK
<1>5. JobsStand
  <2>1. \A w \in Thread : request[w].checkin = None /\ request[w].alert = None
                         /\ request[w].op \notin Bearing /\ request[w].at # "acknowledge"
    <3>1. /\ CreatingTemplate.checkin = None /\ CreatingTemplate.alert = None
          /\ CreatingTemplate.op = "edit" /\ CreatingTemplate.at = "insert"
      BY DEF CreatingTemplate, Idle
    <3>2. Idle.checkin = None /\ Idle.alert = None /\ Idle.op = "idle" /\ Idle.at = "idle"
      BY DEF Idle
    <3>3. QED
      BY <1>2, <3>1, <3>2 DEF Bearing
  <2>2. QED
    BY <2>1 DEF JobsStand, JobStands
<1>6. BlankAlerts
  BY DEF CheckinsInit, BlankAlerts
<1>7. QED
  BY <1>3, <1>4, <1>5, <1>6 DEF RequestsInv

\* What a request that has made a check-in holds.
Made(w, c, color, photo) ==
    /\ request'[w].op = "create" /\ request'[w].checkin = c /\ ~request'[w].red
    /\ request'[w].at = IF photo THEN "attach" ELSE "reread"
    /\ request'[w].alert = AlertFor(c, color)

LEMMA CreateIs ==
    ASSUME RequestsInv, NEW w \in Thread, NEW c \in Checkin, NEW color \in Colors,
           NEW photo \in BOOLEAN, Create(w, c, color, photo)
    PROVE  /\ RequestsInv' /\ OthersKept(w) /\ request[w] = Idle
           /\ Made(w, c, color, photo) /\ Stored(c, color)
<1> DEFINE j == [Idle EXCEPT !.op = "create", !.at = IF photo THEN "attach" ELSE "reread",
                             !.checkin = c, !.alert = AlertFor(c, color)]
<1>1. CheckinsTypeOK /\ color \in Colors \cup {"absent"} /\ color # "absent"
  BY DEF RequestsInv, Colors
<1>2. /\ Stored(c, color) /\ AlertFor(c, color) \in Alert \cup {None}
      /\ checkin' \in [Checkin -> [color : Colors \cup {"absent"}, photo : BOOLEAN]]
      /\ alert' \in [Alert -> [raised : BOOLEAN, acknowledged : BOOLEAN,
                               resolved : BOOLEAN, checkin : Checkin \cup {None}]]
      /\ turns' \in [Checkin -> Nat]
  BY <1>1, StoreIs DEF Create
<1>3. /\ j \in Jobs /\ j.op = "create" /\ j.at = IF photo THEN "attach" ELSE "reread"
      /\ j.checkin = c /\ j.alert = AlertFor(c, color) /\ ~j.red
  BY <1>2 DEF Idle, Jobs, Ops, Steps, Colors
<1>4. Take(w, j)
  BY DEF Create
<1>5. UNCHANGED <<standing, template, feed, raced, lost, refused, torn>>
      /\ excused' \in {excused, excused \cup {c}}
  BY DEF Create
<1> HIDE DEF j
<1>6. /\ request' \in [Thread -> Jobs] /\ request'[w] = j /\ OthersKept(w)
      /\ request[w] = Idle /\ requests' \in 0..MaxRequests
  BY <1>1, <1>3, <1>4, TakeIs
<1>7. Made(w, c, color, photo)
  BY <1>3, <1>6 DEF Made
<1>8. CheckinsTypeOK'
  BY <1>1, <1>2, <1>5, <1>6 DEF CheckinsTypeOK
<1>9. JobFits(j)
  BY <1>3, Distinct DEF JobFits
<1>10. JobStands(w)'
  <2>1. Exists(c)'
    BY <1>1, <1>2 DEF Stored, Exists
  <2>2. AlertFor(c, color) # None => alert'[AlertFor(c, color)].raised /\ alert'[AlertFor(c, color)].checkin = c
    BY <1>2 DEF Stored, Born
  <2>3. request'[w].at # "acknowledge"
    BY <1>7 DEF Made
  <2>4. QED
    BY <1>7, <2>1, <2>2, <2>3 DEF Made, JobStands
<1>11. QED
  BY <1>1, <1>2, <1>6, <1>7, <1>8, <1>9, <1>10, StoredGrow, Moves

LEMMA HolderOf ==
    ASSUME RequestsInv, NEW w \in Thread
    PROVE  /\ request[w] \in Jobs /\ JobFits(request[w]) /\ JobStands(w)
           /\ request[w].op \in {"create", "patch"} =>
                 request[w].checkin \in Checkin /\ Exists(request[w].checkin)
           /\ request[w].op \notin {"create", "patch"} => request[w].checkin = None
           /\ request[w].alert # None => request[w].alert \in Alert /\ alert[request[w].alert].raised
<1>1. request[w] \in Jobs /\ JobFits(request[w]) /\ JobStands(w)
  BY DEF RequestsInv, CheckinsTypeOK, JobsFit, JobsStand
<1>2. request[w].checkin \in Checkin \cup {None} /\ request[w].alert \in Alert \cup {None}
  BY <1>1 DEF Jobs
<1>3. QED
  BY <1>1, <1>2 DEF JobFits, JobStands

LEMMA AttachIs ==
    ASSUME RequestsInv, NEW w \in Thread, Attach(w)
    PROVE  /\ RequestsInv' /\ OthersKept(w) /\ request[w].op = "create"
           /\ request'[w] = [request[w] EXCEPT !.at = "reread"]
           /\ checkin'[request[w].checkin].photo
           /\ \A d \in Checkin : checkin'[d].color = checkin[d].color /\ (checkin[d].photo => checkin'[d].photo)
<1> DEFINE c == request[w].checkin
<1>1. CheckinsTypeOK /\ request[w].op = "create" /\ request[w] \in Jobs /\ JobFits(request[w])
      /\ c \in Checkin
  BY HolderOf DEF RequestsInv, Attach, At
<1>2. /\ request' \in [Thread -> Jobs] /\ OthersKept(w) /\ requests' \in 0..MaxRequests
      /\ request'[w] = [request[w] EXCEPT !.at = "reread"]
  BY <1>1, GotoIs DEF Attach, Steps
<1>3. checkin' = [checkin EXCEPT ![c].photo = TRUE]
      /\ UNCHANGED <<standing, template, alert, feed, history>>
  BY DEF Attach
<1> HIDE DEF c
<1>4. /\ checkin' \in [Checkin -> [color : Colors \cup {"absent"}, photo : BOOLEAN]]
      /\ checkin'[c].photo
      /\ \A d \in Checkin : checkin'[d].color = checkin[d].color /\ (checkin[d].photo => checkin'[d].photo)
  <2>1. checkin \in [Checkin -> [color : Colors \cup {"absent"}, photo : BOOLEAN]]
    BY <1>1, TablesTyped
  <2>2. QED
    BY <1>1, <1>3, <2>1
<1>5. CheckinsTypeOK'
  BY <1>1, <1>2, <1>3, <1>4 DEF CheckinsTypeOK, history
<1>6. RowsGrow
  BY <1>3, <1>4 DEF RowsGrow, Exists
<1>7. /\ request'[w].op = "create" /\ request'[w].at = "reread" /\ request'[w].red = request[w].red
      /\ request'[w].checkin = c /\ request'[w].alert = request[w].alert
  BY <1>1, <1>2 DEF Jobs, c
<1>8. JobFits(request'[w])
  BY <1>1, <1>7 DEF JobFits, c
<1>9. JobStands(w)'
  BY <1>1, <1>6, <1>7, GoesOn DEF c
<1>10. QED
  BY <1>1, <1>2, <1>4, <1>5, <1>6, <1>8, <1>9, Moves DEF c

\* A request that is over: what it held may be put among those cut short or refused.
LEMMA EndSound ==
    ASSUME RequestsInv, NEW w \in Thread, End(w), RowsGrow,
           feed' \in [raised : [Alert -> Nat], seen : [Alert -> Nat], flag : [Checkin -> Nat]],
           UNCHANGED <<standing, checkin, turns, raced, excused>>,
           template' \in [escalate : BOOLEAN, rows : Nat], torn' \in BOOLEAN,
           alert' = alert,
           lost' \subseteq Checkin \cup Alert, refused' \subseteq Checkin \cup Alert
    PROVE  RequestsInv' /\ OthersKept(w) /\ request'[w] = Idle
<1>1. CheckinsTypeOK
  BY DEF RequestsInv
<1>2. /\ request' \in [Thread -> Jobs] /\ OthersKept(w) /\ requests' \in 0..MaxRequests
      /\ request'[w] = Idle
  BY <1>1, EndIs
<1>3. CheckinsTypeOK'
  BY <1>1, <1>2 DEF CheckinsTypeOK
<1>4. QED
  BY <1>2, <1>3, IdleStands, Moves

LEMMA AbortIs ==
    ASSUME RequestsInv, NEW w \in Thread, Abort(w) \/ AttachRefused(w)
    PROVE  RequestsInv' /\ OthersKept(w) /\ request'[w] = Idle
<1>1. request[w] \in Jobs
  BY HolderOf
<1>2. {request[w].checkin, request[w].alert} \ {None} \subseteq Checkin \cup Alert
  BY <1>1 DEF Jobs
<1>3. End(w) /\ RowsGrow
  BY RowsKept DEF Abort, AttachRefused
<1>4. /\ UNCHANGED <<standing, checkin, turns, raced, excused, template, feed>> /\ alert' = alert
      /\ torn' \in BOOLEAN
      /\ lost' \subseteq Checkin \cup Alert /\ refused' \subseteq Checkin \cup Alert
  BY <1>2 DEF Abort, AttachRefused, RequestsInv, CheckinsTypeOK
<1>5. /\ feed \in [raised : [Alert -> Nat], seen : [Alert -> Nat], flag : [Checkin -> Nat]]
      /\ template \in [escalate : BOOLEAN, rows : Nat]
  BY DEF RequestsInv, CheckinsTypeOK
<1>6. QED
  BY <1>3, <1>4, <1>5, EndSound

LEMMA PatchReadIs ==
    ASSUME RequestsInv, NEW w \in Thread, NEW c \in Checkin, NEW color \in Colors \cup {"keep"},
           PatchRead(w, c, color)
    PROVE  /\ RequestsInv' /\ OthersKept(w) /\ request[w] = Idle
           /\ request'[w].op = "patch" /\ request'[w].at = "update" /\ request'[w].checkin = c
           /\ request'[w].alert = None /\ request'[w].red = Red(c)
<1> DEFINE j == [Idle EXCEPT !.op = "patch", !.at = "update",
                             !.checkin = c, !.color = color, !.red = Red(c)]
<1>1. CheckinsTypeOK /\ Exists(c) /\ Red(c) \in BOOLEAN
  BY DEF RequestsInv, PatchRead, Reachable, Red
<1>2. /\ j \in Jobs /\ j.op = "patch" /\ j.at = "update" /\ j.checkin = c /\ j.alert = None
      /\ j.red = Red(c)
  BY <1>1 DEF Idle, Jobs, Ops, Steps, Colors
<1>3. /\ Take(w, j) /\ raced' \in {raced, raced \cup {c}}
      /\ UNCHANGED <<standing, template, checkin, alert, feed, turns, lost, refused, torn, excused>>
  BY DEF PatchRead
<1> HIDE DEF j
<1>4. /\ request' \in [Thread -> Jobs] /\ request'[w] = j /\ OthersKept(w)
      /\ request[w] = Idle /\ requests' \in 0..MaxRequests
  BY <1>1, <1>2, <1>3, TakeIs
<1>5. CheckinsTypeOK'
  BY <1>1, <1>3, <1>4 DEF CheckinsTypeOK
<1>6. JobFits(request'[w])
  BY <1>2, <1>4, Distinct DEF JobFits
<1>7. RowsGrow /\ JobStands(w)'
  BY <1>1, <1>2, <1>3, <1>4, RowsKept DEF JobStands, Exists
<1>8. QED
  BY <1>2, <1>4, <1>5, <1>6, <1>7, Moves

LEMMA PatchUpdateIs ==
    ASSUME RequestsInv, NEW w \in Thread, PatchUpdate(w)
    PROVE  \E c \in Checkin, color \in Colors :
              /\ RequestsInv' /\ OthersKept(w) /\ Stored(c, color)
              /\ request[w].checkin = c /\ request[w].op = "patch" /\ request[w].at = "update"
              /\ request'[w].op = "patch" /\ request'[w].at = "reread" /\ request'[w].checkin = c
              /\ request'[w].alert = AlertFor(c, color) /\ request'[w].red = request[w].red
<1>1. PICK c \in Checkin : c = request[w].checkin /\ Exists(c)
  BY HolderOf DEF PatchUpdate, At
<1>2. /\ CheckinsTypeOK /\ request[w].op = "patch" /\ request[w].at = "update"
      /\ request[w] \in Jobs /\ JobFits(request[w])
  BY HolderOf DEF RequestsInv, PatchUpdate, At
<1>3. PICK color \in Colors :
         color = IF request[w].color = "keep" THEN checkin[c].color ELSE request[w].color
  <2>1. checkin[c].color \in Colors /\ request[w].color \in Colors \cup {"keep"}
    BY <1>2, <1>1 DEF Exists, CheckinsTypeOK, Jobs
  <2>2. QED
    BY <2>1
<1> DEFINE j == [request[w] EXCEPT !.at = "reread", !.color = "keep", !.alert = AlertFor(c, color)]
<1>4. /\ Store(c, color) /\ Proceed(w, j)
      /\ UNCHANGED <<standing, template, feed, raced, lost, refused, torn, excused>>
  BY <1>3, <1>1 DEF PatchUpdate
<1>5. color \in Colors \cup {"absent"} /\ color # "absent"
  BY <1>3 DEF Colors
<1>6. /\ Stored(c, color) /\ AlertFor(c, color) \in Alert \cup {None}
      /\ checkin' \in [Checkin -> [color : Colors \cup {"absent"}, photo : BOOLEAN]]
      /\ alert' \in [Alert -> [raised : BOOLEAN, acknowledged : BOOLEAN,
                               resolved : BOOLEAN, checkin : Checkin \cup {None}]]
      /\ turns' \in [Checkin -> Nat]
  BY <1>2, <1>4, <1>5, StoreIs
<1>7. /\ j \in Jobs /\ j.op = "patch" /\ j.at = "reread"
      /\ j.checkin = c /\ j.alert = AlertFor(c, color) /\ j.red = request[w].red
  BY <1>2, <1>6, <1>1 DEF Jobs, Steps, Colors
<1> HIDE DEF j
<1>8. request' \in [Thread -> Jobs] /\ request'[w] = j /\ OthersKept(w) /\ requests' \in 0..MaxRequests
  BY <1>2, <1>4, <1>7, ProceedIs
<1>9. CheckinsTypeOK'
  BY <1>2, <1>4, <1>6, <1>8 DEF CheckinsTypeOK
<1>10. JobFits(request'[w])
  BY <1>2, <1>7, <1>8, Distinct DEF JobFits
<1>11. JobStands(w)'
  <2>1. Exists(c)'
    BY <1>5, <1>6 DEF Stored, Exists
  <2>2. AlertFor(c, color) # None => alert'[AlertFor(c, color)].raised /\ alert'[AlertFor(c, color)].checkin = c
    BY <1>6 DEF Stored, Born
  <2>3. QED
    BY <1>7, <1>8, <2>1, <2>2 DEF JobStands
<1>12. RequestsInv'
  BY <1>2, <1>5, <1>6, <1>8, <1>9, <1>10, <1>11, StoredGrow, Moves
<1>13. QED
  BY <1>2, <1>3, <1>6, <1>7, <1>8, <1>12, <1>1

LEMMA RereadIs ==
    ASSUME RequestsInv, NEW w \in Thread, request[w].op \in {"create", "patch"}, Reread(w)
    PROVE  /\ RequestsInv' /\ OthersKept(w) /\ request[w].at = "reread"
           /\ request'[w].op = request[w].op /\ request'[w].at = "notify"
           /\ request'[w].checkin = request[w].checkin /\ request'[w].alert = request[w].alert
           /\ request'[w].red = request[w].red
           /\ request'[w].color = checkin[request[w].checkin].color
<1> DEFINE j == [request[w] EXCEPT !.at = "notify", !.color = checkin[request[w].checkin].color]
<1>1. /\ CheckinsTypeOK /\ request[w] \in Jobs /\ JobFits(request[w])
      /\ request[w].checkin \in Checkin /\ Exists(request[w].checkin)
  BY HolderOf DEF RequestsInv
<1>2. checkin[request[w].checkin].color \in Colors
  BY <1>1 DEF Exists, CheckinsTypeOK
<1>3. /\ j \in Jobs /\ j.op = request[w].op /\ j.at = "notify" /\ j.checkin = request[w].checkin
      /\ j.alert = request[w].alert /\ j.red = request[w].red
      /\ j.color = checkin[request[w].checkin].color
  BY <1>1, <1>2 DEF Jobs, Steps
<1>4. /\ request[w].at = "reread" /\ Proceed(w, j)
      /\ UNCHANGED <<standing, template, checkin, alert, feed, history>>
  BY DEF Reread
<1> HIDE DEF j
<1>5. request' \in [Thread -> Jobs] /\ request'[w] = j /\ OthersKept(w) /\ requests' \in 0..MaxRequests
  BY <1>1, <1>3, <1>4, ProceedIs
<1>6. CheckinsTypeOK'
  BY <1>1, <1>4, <1>5 DEF CheckinsTypeOK, history
<1>7. JobFits(request'[w])
  BY <1>1, <1>3, <1>4, <1>5 DEF JobFits
<1>8. RowsGrow
  BY <1>4, RowsKept
<1>9. JobStands(w)'
  BY <1>3, <1>5, <1>8, GoesOn
<1>10. QED
  BY <1>3, <1>4, <1>5, <1>6, <1>7, <1>8, <1>9, Moves

\* What the announcement of a check-in is.
LEMMA AnnouncementTyped ==
    ASSUME RequestsInv, NEW w \in Thread, request[w].op \in {"create", "patch"}
    PROVE  Announcement(w) \in [raised : [Alert -> Nat], seen : [Alert -> Nat], flag : [Checkin -> Nat]]
<1>1. CheckinsTypeOK
  BY DEF RequestsInv
<1>2. CASE request[w].alert # None
  BY <1>1, <1>2, HolderOf, NotedRaised DEF Announcement
<1>3. CASE request[w].alert = None /\ request[w].color = "red" /\ ~request[w].red
  BY <1>1, <1>3, HolderOf, NotedFlag DEF Announcement
<1>4. CASE request[w].alert = None /\ ~(request[w].color = "red" /\ ~request[w].red)
  BY <1>1, <1>4 DEF Announcement, CheckinsTypeOK
<1>5. QED
  BY <1>2, <1>3, <1>4

LEMMA TellsIs ==
    ASSUME RequestsInv, NEW w \in Thread, Notify(w) \/ TellKeyholder(w) \/ TellSubmissive(w)
    PROVE  RequestsInv' /\ OthersKept(w) /\ request'[w] = Idle
<1>1. CheckinsTypeOK /\ template \in [escalate : BOOLEAN, rows : Nat] /\ torn \in BOOLEAN
      /\ lost \subseteq Checkin \cup Alert /\ refused \subseteq Checkin \cup Alert
  BY DEF RequestsInv, CheckinsTypeOK
<1>2. End(w) /\ RowsGrow /\ UNCHANGED <<standing, template, checkin, alert, history>>
  BY RowsKept DEF Notify, TellKeyholder, TellSubmissive
<1>3. feed' \in [raised : [Alert -> Nat], seen : [Alert -> Nat], flag : [Checkin -> Nat]]
  <2>1. CASE Notify(w)
    BY <2>1, AnnouncementTyped DEF Notify
  <2>2. CASE TellKeyholder(w)
    <3>1. request[w].alert \in Alert
      BY <2>2, HolderOf DEF TellKeyholder, At, JobFits
    <3>2. QED
      BY <1>1, <2>2, <3>1, NotedRaised DEF TellKeyholder
  <2>3. CASE TellSubmissive(w)
    <3>1. request[w].alert \in Alert
      BY <2>3, HolderOf DEF TellSubmissive, At, JobFits
    <3>2. QED
      BY <1>1, <2>3, <3>1, NotedSeen DEF TellSubmissive, CheckinsTypeOK
  <2>4. QED
    BY <2>1, <2>2, <2>3
<1>4. QED
  BY <1>1, <1>2, <1>3, EndSound DEF history

\* Steps that no request takes, or none that is over.
LEMMA StaysSound ==
    ASSUME RequestsInv, RowsGrow, CheckinsTypeOK', request' = request
    PROVE  RequestsInv'
<1>1. JobsFit'
  BY DEF RequestsInv, JobsFit
<1>2. ASSUME NEW v \in Thread PROVE JobStands(v)'
  <2>1. request'[v] = request[v] /\ JobStands(v) /\ JobFits(request[v]) /\ request[v] \in Jobs
    BY HolderOf
  <2>2. request[v].checkin \in Checkin \cup {None} /\ request[v].alert \in Alert \cup {None}
    BY <2>1 DEF Jobs
  <2>3. request[v].at = "acknowledge" => request[v].alert # None
    BY <2>1 DEF JobFits, Idle, Jobs, Ops
  <2>4. QED
    BY <2>1, <2>2, <2>3 DEF JobStands, RowsGrow
<1>3. BlankAlerts'
  BY DEF RequestsInv, BlankAlerts, RowsGrow
<1>4. QED
  BY <1>1, <1>2, <1>3 DEF RequestsInv, JobsStand

LEMMA SetPhotoIs ==
    ASSUME RequestsInv, NEW c \in Checkin, NEW photo \in BOOLEAN, SetPhoto(c, photo)
    PROVE  /\ RequestsInv' /\ request' = request
           /\ checkin'[c].photo = photo
           /\ \A d \in Checkin : checkin'[d].color = checkin[d].color
           /\ \A d \in Checkin \ {c} : checkin'[d] = checkin[d]
<1>1. CheckinsTypeOK
  BY DEF RequestsInv
<1>2. /\ checkin' \in [Checkin -> [color : Colors \cup {"absent"}, photo : BOOLEAN]]
      /\ checkin'[c].photo = photo
      /\ \A d \in Checkin : checkin'[d].color = checkin[d].color
      /\ \A d \in Checkin \ {c} : checkin'[d] = checkin[d]
  BY <1>1 DEF SetPhoto, CheckinsTypeOK
<1>3. requests' \in 0..MaxRequests
  BY <1>1, CheckinsAssumption DEF SetPhoto, CheckinsTypeOK
<1>4. /\ UNCHANGED <<standing, template, alert, feed, request, turns, raced, lost, refused, torn>>
      /\ excused' \in {excused, excused \cup {c}}
  BY DEF SetPhoto
<1>5. CheckinsTypeOK'
  BY <1>1, <1>2, <1>3, <1>4 DEF CheckinsTypeOK
<1>6. RowsGrow
  BY <1>2, <1>4 DEF RowsGrow, Exists
<1>7. QED
  BY <1>2, <1>4, <1>5, <1>6, StaysSound

LEMMA RaiseIs ==
    ASSUME RequestsInv, NEW w \in Thread, Raise(w)
    PROVE  \E b \in Alert :
              /\ RequestsInv' /\ OthersKept(w) /\ request[w] = Idle /\ Born(b, None)
              /\ request'[w].op = "raise" /\ request'[w].at = "notify"
              /\ request'[w].checkin = None /\ request'[w].alert = b
<1>1. CheckinsTypeOK /\ NewAlerts # {}
  BY DEF RequestsInv, Raise
<1>2. PICK b \in Alert : b = NewAlert /\ ~alert[b].raised
  BY <1>1, NewAlertIsNew
<1> DEFINE j == [Idle EXCEPT !.op = "raise", !.at = "notify", !.alert = b]
<1>3. alert[b].checkin = None
  BY <1>2 DEF RequestsInv, BlankAlerts
<1>4. /\ alert' = [alert EXCEPT ![b].raised = TRUE] /\ Take(w, j)
      /\ UNCHANGED <<standing, template, checkin, feed, history>>
  BY <1>2 DEF Raise
<1>5. /\ alert' \in [Alert -> [raised : BOOLEAN, acknowledged : BOOLEAN,
                               resolved : BOOLEAN, checkin : Checkin \cup {None}]]
      /\ Born(b, None)
  <2>1. alert \in [Alert -> [raised : BOOLEAN, acknowledged : BOOLEAN,
                            resolved : BOOLEAN, checkin : Checkin \cup {None}]]
    BY <1>1, TablesTyped
  <2>2. alert' = [alert EXCEPT ![b] = [alert[b] EXCEPT !.raised = TRUE]]
    BY <1>4
  <2>3. /\ [alert[b] EXCEPT !.raised = TRUE].raised
        /\ [alert[b] EXCEPT !.raised = TRUE].checkin = None
        /\ [alert[b] EXCEPT !.raised = TRUE].acknowledged = alert[b].acknowledged
        /\ [alert[b] EXCEPT !.raised = TRUE] \in
              [raised : BOOLEAN, acknowledged : BOOLEAN, resolved : BOOLEAN, checkin : Checkin \cup {None}]
    BY <1>3, <2>1
  <2>4. QED
    BY <1>2, <2>1, <2>2, <2>3 DEF Born
<1>6. j \in Jobs /\ j.op = "raise" /\ j.at = "notify" /\ j.checkin = None /\ j.alert = b
  BY DEF Idle, Jobs, Ops, Steps, Colors
<1> HIDE DEF j
<1>7. /\ request' \in [Thread -> Jobs] /\ request'[w] = j /\ OthersKept(w)
      /\ request[w] = Idle /\ requests' \in 0..MaxRequests
  BY <1>1, <1>4, <1>6, TakeIs
<1>8. CheckinsTypeOK'
  BY <1>1, <1>4, <1>5, <1>7 DEF CheckinsTypeOK, history
<1>9. JobFits(request'[w])
  BY <1>6, <1>7, Distinct DEF JobFits
<1>10. RowsGrow
  BY <1>4, <1>5 DEF RowsGrow, Born, Exists
<1>11. JobStands(w)'
  BY <1>5, <1>6, <1>7 DEF JobStands, Born
<1>12. QED
  BY <1>5, <1>6, <1>7, <1>8, <1>9, <1>10, <1>11, Moves

LEMMA AnswerReadIs ==
    ASSUME RequestsInv, NEW w \in Thread, NEW a \in Alert,
           NEW acknowledge \in BOOLEAN, NEW resolve \in BOOLEAN, AnswerRead(w, a, acknowledge, resolve)
    PROVE  /\ RequestsInv' /\ OthersKept(w) /\ request[w] = Idle
           /\ request'[w].op = "answer" /\ request'[w].checkin = None
<1> DEFINE j == [Idle EXCEPT !.op = "answer", !.alert = a,
                             !.at = IF acknowledge THEN "acknowledge" ELSE "resolve",
                             !.red = acknowledge /\ ~alert[a].acknowledged,
                             !.todo = IF resolve THEN {"resolve"} ELSE {}]
<1>1. CheckinsTypeOK /\ alert[a].raised /\ alert[a].acknowledged \in BOOLEAN
  BY DEF RequestsInv, CheckinsTypeOK, AnswerRead, Owned
<1>2. /\ j \in Jobs /\ j.op = "answer" /\ j.checkin = None /\ j.alert = a
      /\ j.at = IF acknowledge THEN "acknowledge" ELSE "resolve"
      /\ j.red = (acknowledge /\ ~alert[a].acknowledged)
  BY <1>1 DEF Idle, Jobs, Ops, Steps, Colors
<1>3. Take(w, j) /\ UNCHANGED <<standing, template, checkin, alert, feed, history>>
  BY DEF AnswerRead
<1> HIDE DEF j
<1>4. /\ request' \in [Thread -> Jobs] /\ request'[w] = j /\ OthersKept(w)
      /\ request[w] = Idle /\ requests' \in 0..MaxRequests
  BY <1>1, <1>2, <1>3, TakeIs
<1>5. CheckinsTypeOK'
  BY <1>1, <1>3, <1>4 DEF CheckinsTypeOK, history
<1>6. JobFits(request'[w])
  BY <1>2, <1>4, Distinct DEF JobFits
<1>7. RowsGrow /\ JobStands(w)'
  BY <1>1, <1>2, <1>3, <1>4, RowsKept DEF JobStands, Bearing
<1>8. QED
  BY <1>2, <1>4, <1>5, <1>6, <1>7, Moves

\* An answer that writes a column of the alert: nothing else of the alert changes.
Marks(a) ==
    /\ alert' \in [Alert -> [raised : BOOLEAN, acknowledged : BOOLEAN,
                             resolved : BOOLEAN, checkin : Checkin \cup {None}]]
    /\ \A b \in Alert : /\ alert'[b].raised = alert[b].raised /\ alert'[b].checkin = alert[b].checkin
                        /\ alert[b].acknowledged => alert'[b].acknowledged
                        /\ b # a => alert'[b] = alert[b]

LEMMA AnswerStep ==
    ASSUME RequestsInv, NEW w \in Thread, NEW step \in {"resolve", "notify"}, request[w].op = "answer",
           Marks(request[w].alert), Goto(w, step), UNCHANGED <<standing, template, checkin, feed, history>>
    PROVE  /\ RequestsInv' /\ OthersKept(w)
           /\ request'[w].op = "answer" /\ request'[w].red = request[w].red
           /\ request'[w].checkin = None /\ request'[w].alert = request[w].alert
<1>1. /\ CheckinsTypeOK /\ request[w] \in Jobs /\ JobFits(request[w]) /\ request[w].checkin = None
      /\ step \in Steps
  BY HolderOf DEF RequestsInv, Steps
<1>2. /\ request' \in [Thread -> Jobs] /\ OthersKept(w) /\ requests' \in 0..MaxRequests
      /\ request'[w] = [request[w] EXCEPT !.at = step]
  BY <1>1, GotoIs
<1>3. /\ request'[w].op = "answer" /\ request'[w].at = step /\ request'[w].red = request[w].red
      /\ request'[w].checkin = None /\ request'[w].alert = request[w].alert
  BY <1>1, <1>2 DEF Jobs
<1>4. CheckinsTypeOK'
  BY <1>1, <1>2 DEF CheckinsTypeOK, history, Marks
<1>5. JobFits(request'[w])
  BY <1>1, <1>3, Distinct DEF JobFits
<1>6. RowsGrow
  BY DEF RowsGrow, Marks, Exists
<1>7. JobStands(w)'
  BY <1>1, <1>3, <1>6, GoesOn
<1>8. QED
  BY <1>2, <1>3, <1>4, <1>5, <1>6, <1>7, Moves

LEMMA MarkingIs ==
    ASSUME RequestsInv, NEW w \in Thread, Acknowledge(w) \/ Resolve(w)
    PROVE  /\ RequestsInv' /\ OthersKept(w) /\ request[w].op = "answer" /\ Marks(request[w].alert)
           /\ request'[w].op = "answer" /\ request'[w].red = request[w].red
           /\ request'[w].checkin = None /\ request'[w].alert = request[w].alert
<1>1. request[w].op = "answer" /\ UNCHANGED <<standing, template, checkin, feed, history>>
  BY DEF Acknowledge, Resolve, At
<1>2. request[w].alert \in Alert
  BY <1>1, HolderOf DEF JobFits
<1>3. Marks(request[w].alert)
  <2> DEFINE a == request[w].alert
  <2>1. \/ alert' = [alert EXCEPT ![a].acknowledged = TRUE]
        \/ alert' = [alert EXCEPT ![a].resolved = TRUE]
    BY DEF Acknowledge, Resolve
  <2> HIDE DEF a
  <2>2. a \in Alert
    BY <1>2 DEF a
  <2>3. alert \in [Alert -> [raised : BOOLEAN, acknowledged : BOOLEAN,
                            resolved : BOOLEAN, checkin : Checkin \cup {None}]]
    BY DEF RequestsInv, CheckinsTypeOK
  <2>4. CASE alert' = [alert EXCEPT ![a].acknowledged = TRUE]
    BY <2>2, <2>3, <2>4 DEF Marks, a
  <2>5. CASE alert' = [alert EXCEPT ![a].resolved = TRUE]
    BY <2>2, <2>3, <2>5 DEF Marks, a
  <2>6. QED
    BY <2>1, <2>4, <2>5
<1>4. Goto(w, "resolve") \/ Goto(w, "notify")
  BY DEF Acknowledge, Resolve
<1>5. QED
  BY <1>1, <1>3, <1>4, AnswerStep

LEMMA EditIs ==
    ASSUME RequestsInv, NEW w \in Thread, PatchTemplate(w)
    PROVE  /\ RequestsInv' /\ OthersKept(w) /\ request[w].op \in {"idle", "edit"}
           /\ request'[w].op \in {"idle", "edit"}
           /\ UNCHANGED <<checkin, alert, feed, turns, raced, lost, refused, excused>>
<1>1. CheckinsTypeOK /\ request[w] \in Jobs /\ JobFits(request[w])
  BY HolderOf DEF RequestsInv
<1>2. CASE \E escalate, fields \in BOOLEAN : EditRead(w, escalate, fields)
  <2>1. PICK escalate \in BOOLEAN, fields \in BOOLEAN : EditRead(w, escalate, fields)
    BY <1>2
  <2> DEFINE j == [Idle EXCEPT !.op = "edit", !.at = "update", !.escalate = escalate,
                               !.todo = IF fields THEN {"fields"} ELSE {}]
  <2>2. j \in Jobs /\ j.op = "edit" /\ j.at = "update" /\ j.checkin = None /\ j.alert = None
    BY DEF Idle, Jobs, Ops, Steps, Colors
  <2>3. Take(w, j) /\ UNCHANGED <<standing, template, checkin, alert, feed, history>>
    BY <2>1 DEF EditRead
  <2> HIDE DEF j
  <2>4. /\ request' \in [Thread -> Jobs] /\ request'[w] = j /\ OthersKept(w)
        /\ request[w] = Idle /\ requests' \in 0..MaxRequests
    BY <1>1, <2>2, <2>3, TakeIs
  <2>5. CheckinsTypeOK'
    BY <1>1, <2>3, <2>4 DEF CheckinsTypeOK, history
  <2>6. JobFits(request'[w]) /\ RowsGrow /\ JobStands(w)'
    BY <2>2, <2>3, <2>4, RowsKept DEF JobFits, JobStands
  <2>7. RequestsInv' /\ request[w].op = "idle"
    BY <2>4, <2>5, <2>6, Moves DEF Idle
  <2>8. QED
    BY <2>2, <2>3, <2>4, <2>7 DEF history
<1>3. ASSUME NEW step \in {"delete", "insert"}, request[w].op = "edit", Goto(w, step),
             template' \in [escalate : BOOLEAN, rows : Nat],
             UNCHANGED <<standing, checkin, alert, feed, history>>
      PROVE  RequestsInv' /\ OthersKept(w) /\ request'[w].op = "edit"
  <2>1. step \in Steps
    BY DEF Steps
  <2>2. /\ request' \in [Thread -> Jobs] /\ OthersKept(w) /\ requests' \in 0..MaxRequests
        /\ request'[w] = [request[w] EXCEPT !.at = step]
    BY <1>1, <1>3, <2>1, GotoIs
  <2>3. /\ request'[w].op = "edit" /\ request'[w].at = step
        /\ request'[w].checkin = request[w].checkin /\ request'[w].alert = request[w].alert
    BY <1>1, <1>3, <2>2 DEF Jobs
  <2>4. CheckinsTypeOK'
    BY <1>1, <1>3, <2>2 DEF CheckinsTypeOK, history
  <2>5. JobFits(request'[w])
    BY <1>1, <1>3, <2>3 DEF JobFits
  <2>6. RowsGrow
    BY <1>3, RowsKept
  <2>7. JobStands(w)'
    BY <1>3, <2>3, <2>6, GoesOn
  <2>8. QED
    BY <2>2, <2>3, <2>4, <2>5, <2>6, <2>7, Moves
<1>4. ASSUME request[w].op = "edit", End(w), template' \in [escalate : BOOLEAN, rows : Nat], torn' \in BOOLEAN,
             UNCHANGED <<standing, checkin, alert, feed, turns, raced, lost, refused, excused>>
      PROVE  RequestsInv' /\ OthersKept(w) /\ request'[w].op = "idle"
  <2>1. /\ feed' \in [raised : [Alert -> Nat], seen : [Alert -> Nat], flag : [Checkin -> Nat]]
        /\ lost' \subseteq Checkin \cup Alert /\ refused' \subseteq Checkin \cup Alert /\ RowsGrow
    BY <1>1, <1>4, RowsKept DEF CheckinsTypeOK
  <2>2. RequestsInv' /\ OthersKept(w) /\ request'[w] = Idle
    BY <1>4, <2>1, EndSound
  <2>3. QED
    BY <2>2 DEF Idle
<1>5. template \in [escalate : BOOLEAN, rows : Nat] /\ torn \in BOOLEAN /\ request[w].escalate \in BOOLEAN
  BY <1>1 DEF CheckinsTypeOK, Jobs
<1>6. CASE EditUpdate(w)
  <2>1. /\ request[w].op = "edit" /\ UNCHANGED <<standing, checkin, alert, feed, history>>
        /\ template' = [template EXCEPT !.escalate = request[w].escalate]
        /\ Goto(w, "delete") \/ End(w)
    BY <1>6 DEF EditUpdate, At
  <2>2. template' \in [escalate : BOOLEAN, rows : Nat]
    BY <1>5, <2>1
  <2>3. QED
    BY <1>3, <1>4, <1>5, <2>1, <2>2 DEF history
<1>7. CASE DeleteFields(w)
  <2>1. /\ request[w].op = "edit" /\ UNCHANGED <<standing, checkin, alert, feed, history>>
        /\ template' = [template EXCEPT !.rows = 0] /\ Goto(w, "insert")
    BY <1>7 DEF DeleteFields, At
  <2>2. template' \in [escalate : BOOLEAN, rows : Nat]
    BY <1>5, <2>1
  <2>3. QED
    BY <1>3, <2>1, <2>2 DEF history
<1>8. CASE InsertField(w)
  <2>1. /\ request[w].op = "edit" /\ torn' = FALSE
        /\ UNCHANGED <<standing, checkin, alert, feed, turns, raced, lost, refused, excused>>
        /\ template' = [template EXCEPT !.rows = template.rows + 1] /\ End(w)
    BY <1>8 DEF InsertField, At
  <2>2. template' \in [escalate : BOOLEAN, rows : Nat]
    BY <1>5, <2>1
  <2>3. QED
    BY <1>4, <2>1, <2>2
<1>9. QED
  BY <1>2, <1>6, <1>7, <1>8 DEF PatchTemplate

LEMMA OutsideIs ==
    ASSUME RequestsInv, UNCHANGED checkinsVars \/ \E status \in {"paused", "ended"} : ChangeLink(status)
    PROVE  RequestsInv' /\ UNCHANGED <<template, checkin, alert, feed, requests, request, history>>
<1>1. /\ UNCHANGED <<template, checkin, alert, feed, requests, request, history>>
      /\ standing' \in {"active", "paused", "ended"}
  BY DEF ChangeLink, checkinsVars, history, RequestsInv, CheckinsTypeOK
<1>2. CheckinsTypeOK'
  BY <1>1 DEF RequestsInv, CheckinsTypeOK, history
<1>3. QED
  BY <1>1, <1>2, RowsKept, StaysSound

-----------------------------------------------------------------------------
(* Check-ins: any step.                                                     *)

\* The steps of a request, the ones that take no argument.
Moving(w) ==
    \/ Attach(w) \/ Abort(w) \/ AttachRefused(w) \/ PatchUpdate(w)
    \/ request[w].op \in {"create", "patch"} /\ Reread(w)
    \/ Notify(w) \/ Raise(w) \/ TellKeyholder(w)
    \/ Acknowledge(w) \/ Resolve(w) \/ TellSubmissive(w) \/ PatchTemplate(w)

LEMMA StepCases ==
    ASSUME [CheckinsNext]_checkinsVars
    PROVE  \/ \E w \in Thread : Moving(w)
           \/ \E w \in Thread, c \in Checkin, color \in Colors, photo \in BOOLEAN :
                 Create(w, c, color, photo)
           \/ \E w \in Thread, c \in Checkin, color \in Colors \cup {"keep"} : PatchRead(w, c, color)
           \/ \E w \in Thread, a \in Alert, acknowledge, resolve \in BOOLEAN :
                 AnswerRead(w, a, acknowledge, resolve)
           \/ \E c \in Checkin, photo \in BOOLEAN : SetPhoto(c, photo)
           \/ UNCHANGED checkinsVars \/ \E status \in {"paused", "ended"} : ChangeLink(status)
<1>1. ASSUME NEW w \in Thread, PostCheckin(w)
      PROVE  \/ \E c \in Checkin, color \in Colors, photo \in BOOLEAN : Create(w, c, color, photo)
             \/ Moving(w)
  <2>1. CASE \E c \in Checkin, p \in Parsed :
                CreateForKeyholder(w, c, p.color, p.photo) \/ CreateOwn(w, c, p.color, p.photo)
    <3>1. PICK c \in Checkin, p \in Parsed : Create(w, c, p.color, p.photo)
      BY <2>1 DEF CreateForKeyholder, CreateOwn
    <3>2. p.color \in Colors /\ p.photo \in BOOLEAN
      BY DEF Parsed
    <3>3. QED
      BY <3>1, <3>2
  <2>2. CASE Attach(w) \/ AttachRefused(w) \/ (request[w].op = "create" /\ (Reread(w) \/ Notify(w)))
    BY <2>2 DEF Moving
  <2>3. QED
    BY <1>1, <2>1, <2>2 DEF PostCheckin
<1>2. ASSUME NEW w \in Thread, PatchCheckin(w)
      PROVE  \/ \E c \in Checkin, color \in Colors \cup {"keep"} : PatchRead(w, c, color)
             \/ Moving(w)
  BY <1>2 DEF PatchCheckin, Moving
<1>3. ASSUME NEW w \in Thread, SafetyRoutes(w)
      PROVE  \/ \E a \in Alert, acknowledge, resolve \in BOOLEAN : AnswerRead(w, a, acknowledge, resolve)
             \/ Moving(w)
  BY <1>3 DEF SafetyRoutes, PostSafetyAlert, PatchSafetyAlert, Moving
<1>4. ASSUME NEW w \in Thread, PatchTemplate(w) \/ Abort(w) PROVE Moving(w)
  BY <1>4 DEF Moving
<1>5. ASSUME NEW c \in Checkin, UploadPhoto(c) \/ DeletePhoto(c)
      PROVE  \E photo \in BOOLEAN : SetPhoto(c, photo)
  BY <1>5 DEF UploadPhoto, DeletePhoto
<1>6. QED
  BY <1>1, <1>2, <1>3, <1>4, <1>5 DEF CheckinsNext, CheckinRoutes

LEMMA RequestsInvNext == RequestsInv /\ [CheckinsNext]_checkinsVars => RequestsInv'
<1> SUFFICES ASSUME RequestsInv, [CheckinsNext]_checkinsVars PROVE RequestsInv'
  OBVIOUS
<1>1. ASSUME NEW w \in Thread, Moving(w) PROVE RequestsInv'
  BY <1>1, AttachIs, AbortIs, PatchUpdateIs, RereadIs, TellsIs, RaiseIs, MarkingIs, EditIs DEF Moving
<1>2. QED
  BY <1>1, StepCases, CreateIs, PatchReadIs, AnswerReadIs, SetPhotoIs, OutsideIs

\* No request, however it ends, leaves a variable outside its type.
THEOREM CheckinsTypeCorrect == CheckinsSpec => []CheckinsTypeOK
<1>1. RequestsInv => CheckinsTypeOK
  BY DEF RequestsInv
<1>2. QED
  BY InitRequests, RequestsInvNext, <1>1, PTL DEF CheckinsSpec

-----------------------------------------------------------------------------
(* Check-ins: who announces an alert.                                       *)

Bears(w, a) == request[w].alert = a /\ request[w].op \in Bearing

\* An alert that was not raised was not announced; one that was has been announced once, or is
\* in the hands of the one request that will announce it.
AlertPart(a) ==
    /\ ~alert[a].raised => feed.raised[a] = 0
    /\ feed.raised[a] \in {0, 1}
    /\ \A v, w \in Thread : Bears(v, a) /\ Bears(w, a) => v = w
    /\ \A w \in Thread : Bears(w, a) => feed.raised[a] = 0
    /\ alert[a].raised /\ a \notin lost \cup refused =>
          feed.raised[a] = 1 \/ \E w \in Thread : Bears(w, a)

LEMMA AlertStill ==
    ASSUME NEW a \in Alert, AlertPart(a), alert'[a].raised = alert[a].raised,
           feed'.raised[a] = feed.raised[a],
           \A v \in Thread : Bears(v, a)' => Bears(v, a),
           \A v \in Thread : Bears(v, a) => Bears(v, a)' \/ a \in lost' \cup refused',
           lost \subseteq lost', refused \subseteq refused'
    PROVE  AlertPart(a)'
BY DEF AlertPart

LEMMA AlertBorn ==
    ASSUME RequestsInv, NEW a \in Alert, AlertPart(a), NEW k, Born(a, k), NEW w \in Thread, OthersKept(w),
           Bears(w, a)', feed'.raised[a] = feed.raised[a]
    PROVE  AlertPart(a)'
<1>1. \A v \in Thread : v # w => ~Bears(v, a)'
  BY HolderOf, Distinct DEF Born, Bears, OthersKept
<1>2. feed'.raised[a] = 0 /\ alert'[a].raised
  BY DEF AlertPart, Born
<1>3. QED
  BY <1>1, <1>2 DEF AlertPart

LEMMA AlertTold ==
    ASSUME NEW a \in Alert, AlertPart(a), NEW w \in Thread, Bears(w, a), OthersKept(w), ~Bears(w, a)',
           alert[a].raised, alert'[a].raised, feed'.raised[a] = feed.raised[a] + 1
    PROVE  AlertPart(a)'
<1>1. \A v \in Thread : ~Bears(v, a)'
  BY DEF AlertPart, Bears, OthersKept
<1>2. feed'.raised[a] = 1
  BY DEF AlertPart
<1>3. QED
  BY <1>1, <1>2 DEF AlertPart

\* A step of one request that leaves the alert and its rows alone, while the request neither
\* takes the alert up nor lays it down.
LEMMA AlertAside ==
    ASSUME NEW a \in Alert, AlertPart(a), NEW w \in Thread, OthersKept(w), Bears(w, a)' <=> Bears(w, a),
           alert'[a].raised = alert[a].raised, feed'.raised[a] = feed.raised[a],
           lost' = lost, refused' = refused
    PROVE  AlertPart(a)'
<1>1. \A v \in Thread : Bears(v, a)' <=> Bears(v, a)
  BY DEF Bears, OthersKept
<1>2. QED
  BY <1>1, AlertStill

\* A request that stores a colour takes up the alert it raises, and holds none before.
LEMMA AlertOfStore ==
    ASSUME RequestsInv, NEW a \in Alert, AlertPart(a), NEW w \in Thread, OthersKept(w),
           NEW c \in Checkin, NEW color, Stored(c, color),
           ~Bears(w, a), request'[w].alert = AlertFor(c, color), request'[w].op \in Bearing,
           UNCHANGED <<feed, lost, refused>>
    PROVE  AlertPart(a)'
<1>1. CASE Raises(c, color) /\ a = AlertFor(c, color)
  <2>1. Born(a, c) /\ Bears(w, a)'
    BY <1>1 DEF Stored, Bears
  <2>2. QED
    BY <2>1, AlertBorn
<1>2. CASE Raises(c, color) /\ a # AlertFor(c, color)
  <2>1. alert'[a] = alert[a] /\ ~Bears(w, a)'
    BY <1>2 DEF Stored, Born, Bears
  <2>2. QED
    BY <2>1, AlertAside
<1>3. CASE ~Raises(c, color)
  <2>1. alert' = alert /\ ~Bears(w, a)'
    BY <1>3, Distinct DEF Stored, Bears
  <2>2. QED
    BY <2>1, AlertAside
<1>4. QED
  BY <1>1, <1>2, <1>3

LEMMA IdleBears == ASSUME NEW w, NEW a \in Alert, request[w] = Idle PROVE ~Bears(w, a)
BY DEF Bears, Idle, Bearing

LEMMA EndsBearing == ASSUME NEW w, NEW a \in Alert, request'[w] = Idle PROVE ~Bears(w, a)'
BY DEF Bears, Idle, Bearing

LEMMA AlertMoves ==
    ASSUME RequestsInv, NEW a \in Alert, AlertPart(a), NEW w \in Thread, Moving(w)
    PROVE  AlertPart(a)'
<1>1. CASE Attach(w)
  <2>1. request'[w] = [request[w] EXCEPT !.at = "reread"] /\ OthersKept(w) /\ request[w] \in Jobs
    BY <1>1, AttachIs, HolderOf
  <2>2. Bears(w, a)' <=> Bears(w, a)
    BY <2>1 DEF Bears, Jobs
  <2>3. QED
    BY <1>1, <2>1, <2>2, AlertAside DEF Attach, history
<1>2. CASE Abort(w) \/ AttachRefused(w)
  <2>1. request'[w] = Idle /\ OthersKept(w)
    BY <1>2, AbortIs
  <2>2. Bears(w, a) => a \in lost' \cup refused'
    BY <1>2, Distinct DEF Abort, AttachRefused, Bears
  <2>3. \A v \in Thread : v # w => (Bears(v, a)' <=> Bears(v, a))
    BY <2>1 DEF Bears, OthersKept
  <2>4. UNCHANGED <<alert, feed>> /\ lost \subseteq lost' /\ refused \subseteq refused'
    BY <1>2 DEF Abort, AttachRefused
  <2>5. ~Bears(w, a)'
    BY <2>1, EndsBearing
  <2>6. QED
    BY <2>2, <2>3, <2>4, <2>5, AlertStill
<1>3. CASE PatchUpdate(w)
  <2>1. PICK c \in Checkin, color \in Colors :
              /\ OthersKept(w) /\ Stored(c, color) /\ request[w].op = "patch" /\ request[w].at = "update"
              /\ request'[w].op = "patch" /\ request'[w].alert = AlertFor(c, color)
    BY <1>3, PatchUpdateIs
  <2>2. ~Bears(w, a)
    BY <2>1, HolderOf, Distinct DEF Bears, JobFits
  <2>3. request'[w].op \in Bearing /\ UNCHANGED <<feed, lost, refused>>
    BY <1>3, <2>1 DEF Bearing, PatchUpdate
  <2>4. QED
    BY <2>1, <2>2, <2>3, AlertOfStore
<1>4. CASE request[w].op \in {"create", "patch"} /\ Reread(w)
  <2>1. /\ OthersKept(w) /\ request'[w].op = request[w].op /\ request'[w].alert = request[w].alert
    BY <1>4, RereadIs
  <2>2. Bears(w, a)' <=> Bears(w, a)
    BY <2>1 DEF Bears
  <2>3. QED
    BY <1>4, <2>1, <2>2, AlertAside DEF Reread, history
<1>5. CASE Notify(w) \/ TellKeyholder(w) \/ TellSubmissive(w)
  <2>1. request'[w] = Idle /\ OthersKept(w) /\ UNCHANGED <<alert, history>>
    BY <1>5, TellsIs DEF Notify, TellKeyholder, TellSubmissive
  <2>2. ~Bears(w, a)' /\ lost' = lost /\ refused' = refused /\ CheckinsTypeOK
    BY <2>1, EndsBearing DEF history, RequestsInv
  <2>3. Bears(w, a) => feed' = Noted("raised", a)
    BY <1>5, Distinct DEF Bears, Bearing, Notify, TellKeyholder, TellSubmissive, Announcement, At
  <2>4. ~Bears(w, a) => feed'.raised[a] = feed.raised[a]
    <3>1. CASE TellSubmissive(w)
      <4>1. request[w].alert \in Alert
        BY <3>1, HolderOf DEF TellSubmissive, At, JobFits
      <4>2. QED
        BY <2>2, <3>1, <4>1, NotedSeen DEF TellSubmissive
    <3>2. CASE TellKeyholder(w)
      <4>1. request[w].alert \in Alert /\ Bears(w, request[w].alert) /\ feed' = Noted("raised", request[w].alert)
        BY <3>2, HolderOf DEF TellKeyholder, At, JobFits, Bears, Bearing
      <4>2. QED
        BY <2>2, <4>1, NotedRaised
    <3>3. CASE Notify(w)
      <4>1. request[w].op \in {"create", "patch"} /\ feed' = Announcement(w) /\ request[w].checkin \in Checkin
        BY <3>3, HolderOf DEF Notify
      <4>2. CASE request[w].alert # None
        <5>1. request[w].alert \in Alert /\ Bears(w, request[w].alert) /\ feed' = Noted("raised", request[w].alert)
          BY <4>1, <4>2, HolderOf DEF Announcement, Bears, Bearing
        <5>2. QED
          BY <2>2, <5>1, NotedRaised
      <4>3. CASE request[w].alert = None
        <5>1. feed' \in {feed, Noted("flag", request[w].checkin)}
          BY <4>1, <4>3 DEF Announcement
        <5>2. QED
          BY <2>2, <4>1, <5>1, NotedFlag
      <4>4. QED
        BY <4>2, <4>3
    <3>4. QED
      BY <1>5, <3>1, <3>2, <3>3
  <2>5. CASE Bears(w, a)
    <3>1. alert[a].raised
      BY <2>5, HolderOf, Distinct DEF Bears
    <3>2. feed'.raised[a] = feed.raised[a] + 1
      BY <2>2, <2>3, <2>5, NotedRaised
    <3>3. QED
      BY <2>1, <2>2, <2>5, <3>1, <3>2, AlertTold
  <2>6. CASE ~Bears(w, a)
    BY <2>1, <2>2, <2>4, <2>6, AlertAside
  <2>7. QED
    BY <2>5, <2>6
<1>6. CASE Raise(w)
  <2>1. PICK b \in Alert :
              /\ OthersKept(w) /\ request[w] = Idle /\ Born(b, None)
              /\ request'[w].op = "raise" /\ request'[w].alert = b
    BY <1>6, RaiseIs
  <2>2. UNCHANGED <<feed, lost, refused>> /\ ~Bears(w, a)
    BY <1>6, <2>1, IdleBears DEF Raise, history
  <2>3. CASE a = b
    <3>1. Bears(w, a)'
      BY <2>1, <2>3 DEF Bears, Bearing
    <3>2. QED
      BY <2>1, <2>2, <2>3, <3>1, AlertBorn
  <2>4. CASE a # b
    <3>1. ~Bears(w, a)' /\ alert'[a] = alert[a]
      BY <2>1, <2>4 DEF Bears, Born
    <3>2. QED
      BY <2>1, <2>2, <3>1, AlertAside
  <2>5. QED
    BY <2>3, <2>4
<1>7. CASE Acknowledge(w) \/ Resolve(w)
  <2>1. /\ OthersKept(w) /\ request[w].op = "answer" /\ request'[w].op = "answer" /\ Marks(request[w].alert)
        /\ UNCHANGED <<feed, history>>
    BY <1>7, MarkingIs DEF Acknowledge, Resolve
  <2>2. ~Bears(w, a) /\ ~Bears(w, a)' /\ alert'[a].raised = alert[a].raised
    BY <2>1 DEF Bears, Bearing, Marks
  <2>3. QED
    BY <2>1, <2>2, AlertAside DEF history
<1>8. CASE PatchTemplate(w)
  <2>1. /\ OthersKept(w) /\ request[w].op \in {"idle", "edit"} /\ request'[w].op \in {"idle", "edit"}
        /\ UNCHANGED <<alert, feed, lost, refused>>
    BY <1>8, EditIs
  <2>2. ~Bears(w, a) /\ ~Bears(w, a)'
    BY <2>1 DEF Bears, Bearing
  <2>3. QED
    BY <2>1, <2>2, AlertAside
<1>9. QED
  BY <1>1, <1>2, <1>3, <1>4, <1>5, <1>6, <1>7, <1>8 DEF Moving

LEMMA AlertPartNext ==
    ASSUME RequestsInv, [CheckinsNext]_checkinsVars, NEW a \in Alert, AlertPart(a)
    PROVE  AlertPart(a)'
<1>1. ASSUME NEW w \in Thread, NEW c \in Checkin, NEW color \in Colors, NEW photo \in BOOLEAN,
             Create(w, c, color, photo)
      PROVE  AlertPart(a)'
  <2>1. /\ OthersKept(w) /\ Stored(c, color) /\ request'[w].alert = AlertFor(c, color)
        /\ request'[w].op \in Bearing /\ ~Bears(w, a)
    BY <1>1, CreateIs, IdleBears DEF Made, Bearing
  <2>2. QED
    BY <1>1, <2>1, AlertOfStore DEF Create
<1>2. ASSUME NEW w \in Thread, NEW c \in Checkin, NEW color \in Colors \cup {"keep"}, PatchRead(w, c, color)
      PROVE  AlertPart(a)'
  <2>1. OthersKept(w) /\ ~Bears(w, a) /\ request'[w].alert = None
    BY <1>2, PatchReadIs, IdleBears
  <2>2. ~Bears(w, a)'
    BY <2>1, Distinct DEF Bears
  <2>3. QED
    BY <1>2, <2>1, <2>2, AlertAside DEF PatchRead
<1>3. ASSUME NEW w \in Thread, NEW b \in Alert, NEW acknowledge \in BOOLEAN, NEW resolve \in BOOLEAN,
             AnswerRead(w, b, acknowledge, resolve)
      PROVE  AlertPart(a)'
  <2>1. OthersKept(w) /\ ~Bears(w, a) /\ request'[w].op = "answer"
    BY <1>3, AnswerReadIs, IdleBears
  <2>2. ~Bears(w, a)'
    BY <2>1 DEF Bears, Bearing
  <2>3. QED
    BY <1>3, <2>1, <2>2, AlertAside DEF AnswerRead, history
<1>4. CASE UNCHANGED <<alert, feed, request, lost, refused>>
  BY <1>4 DEF AlertPart, Bears
<1>5. ASSUME NEW c \in Checkin, NEW photo \in BOOLEAN, SetPhoto(c, photo) PROVE AlertPart(a)'
  BY <1>4, <1>5 DEF SetPhoto
<1>6. CASE UNCHANGED checkinsVars \/ \E status \in {"paused", "ended"} : ChangeLink(status)
  BY <1>4, <1>6, OutsideIs DEF history
<1>7. QED
  BY <1>1, <1>2, <1>3, <1>5, <1>6, AlertMoves, StepCases

-----------------------------------------------------------------------------
(* Check-ins: who tells the submissive of an answer.                        *)

Answers(w, a) == request[w].alert = a /\ request[w].op = "answer" /\ request[w].red

AnswerPart(a) ==
    alert[a].acknowledged /\ a \notin lost => feed.seen[a] > 0 \/ \E w \in Thread : Answers(w, a)

LEMMA AnswerStill ==
    ASSUME NEW a \in Alert, AnswerPart(a), alert'[a].acknowledged => alert[a].acknowledged,
           feed'.seen[a] = feed.seen[a], lost \subseteq lost',
           \A v \in Thread : Answers(v, a) => Answers(v, a)' \/ a \in lost'
    PROVE  AnswerPart(a)'
BY DEF AnswerPart

LEMMA AnswerAside ==
    ASSUME NEW a \in Alert, AnswerPart(a), NEW w \in Thread, OthersKept(w),
           Answers(w, a) => Answers(w, a)', alert'[a].acknowledged => alert[a].acknowledged,
           feed'.seen[a] = feed.seen[a], lost \subseteq lost'
    PROVE  AnswerPart(a)'
<1>1. \A v \in Thread : Answers(v, a) => Answers(v, a)'
  BY DEF Answers, OthersKept
<1>2. QED
  BY <1>1, AnswerStill

LEMMA StoredAnswers ==
    ASSUME NEW a \in Alert, NEW c \in Checkin, NEW color, Stored(c, color)
    PROVE  alert'[a].acknowledged = alert[a].acknowledged
<1>1. CASE Raises(c, color)
  BY <1>1 DEF Stored, Born
<1>2. CASE ~Raises(c, color)
  BY <1>2 DEF Stored
<1>3. QED
  BY <1>1, <1>2

LEMMA AnnouncementSeen ==
    ASSUME RequestsInv, NEW w \in Thread, Notify(w) \/ TellKeyholder(w)
    PROVE  feed'.seen = feed.seen /\ request[w].op # "answer"
<1>1. CheckinsTypeOK
  BY DEF RequestsInv
<1>2. CASE TellKeyholder(w)
  <2>1. request[w].alert \in Alert /\ request[w].op = "raise"
    BY <1>2, HolderOf DEF TellKeyholder, At, JobFits
  <2>2. QED
    BY <1>1, <1>2, <2>1, NotedRaised DEF TellKeyholder
<1>3. CASE Notify(w)
  <2>1. request[w].op \in {"create", "patch"} /\ feed' = Announcement(w) /\ request[w].checkin \in Checkin
    BY <1>3, HolderOf DEF Notify
  <2>2. CASE request[w].alert # None
    <3>1. request[w].alert \in Alert /\ feed' = Noted("raised", request[w].alert)
      BY <2>1, <2>2, HolderOf DEF Announcement
    <3>2. QED
      BY <1>1, <2>1, <3>1, NotedRaised
  <2>3. CASE request[w].alert = None
    <3>1. feed' \in {feed, Noted("flag", request[w].checkin)}
      BY <2>1, <2>3 DEF Announcement
    <3>2. QED
      BY <1>1, <2>1, <3>1, NotedFlag
  <2>4. QED
    BY <2>2, <2>3
<1>4. QED
  BY <1>2, <1>3

LEMMA AnswerMoves ==
    ASSUME RequestsInv, NEW a \in Alert, AnswerPart(a), NEW w \in Thread, Moving(w)
    PROVE  AnswerPart(a)'
<1>1. CASE Attach(w)
  <2>1. OthersKept(w) /\ request[w].op = "create"
    BY <1>1, AttachIs
  <2>2. QED
    BY <1>1, <2>1, AnswerAside DEF Attach, Answers, history
<1>2. CASE Abort(w) \/ AttachRefused(w)
  <2>1. OthersKept(w)
    BY <1>2, AbortIs
  <2>2. Answers(w, a) => a \in lost'
    BY <1>2, Distinct DEF Abort, AttachRefused, Answers, At
  <2>3. \A v \in Thread : v # w => (Answers(v, a)' <=> Answers(v, a))
    BY <2>1 DEF Answers, OthersKept
  <2>4. UNCHANGED <<alert, feed>> /\ lost \subseteq lost'
    BY <1>2 DEF Abort, AttachRefused
  <2>5. QED
    BY <2>2, <2>3, <2>4, AnswerStill
<1>3. CASE PatchUpdate(w)
  <2>1. PICK c \in Checkin, color \in Colors :
              OthersKept(w) /\ Stored(c, color) /\ request[w].op = "patch"
    BY <1>3, PatchUpdateIs
  <2>2. ~Answers(w, a) /\ UNCHANGED <<feed, lost>>
    BY <1>3, <2>1 DEF Answers, PatchUpdate
  <2>3. QED
    BY <2>1, <2>2, StoredAnswers, AnswerAside
<1>4. CASE request[w].op \in {"create", "patch"} /\ Reread(w)
  <2>1. OthersKept(w) /\ ~Answers(w, a)
    BY <1>4, RereadIs DEF Answers
  <2>2. QED
    BY <1>4, <2>1, AnswerAside DEF Reread, history
<1>5. CASE Notify(w) \/ TellKeyholder(w)
  <2>1. OthersKept(w) /\ UNCHANGED <<alert, history>> /\ feed'.seen = feed.seen /\ ~Answers(w, a)
    BY <1>5, TellsIs, AnnouncementSeen DEF Notify, TellKeyholder, Answers
  <2>2. QED
    BY <2>1, AnswerAside DEF history
<1>6. CASE TellSubmissive(w)
  <2>1. OthersKept(w) /\ UNCHANGED <<alert, history>> /\ CheckinsTypeOK
    BY <1>6, TellsIs DEF TellSubmissive, RequestsInv
  <2>2. request[w].alert \in Alert /\ feed' = IF request[w].red THEN Noted("seen", request[w].alert) ELSE feed
    BY <1>6, HolderOf DEF TellSubmissive, At, JobFits
  <2>3. CASE Answers(w, a)
    <3>1. feed'.seen[a] = feed.seen[a] + 1 /\ feed.seen[a] \in Nat
      BY <2>1, <2>2, <2>3, NotedSeen DEF Answers, CheckinsTypeOK
    <3>2. QED
      BY <3>1 DEF AnswerPart
  <2>4. CASE ~Answers(w, a) /\ a # request[w].alert
    <3>1. feed'.seen[a] = feed.seen[a]
      BY <2>1, <2>2, <2>4, NotedSeen
    <3>2. QED
      BY <2>1, <2>4, <3>1, AnswerAside DEF history
  <2>5. CASE ~Answers(w, a) /\ a = request[w].alert
    <3>1. feed' = feed
      BY <1>6, <2>2, <2>5 DEF Answers, TellSubmissive, At
    <3>2. QED
      BY <2>1, <2>5, <3>1, AnswerAside DEF history
  <2>6. QED
    BY <2>3, <2>4, <2>5
<1>7. CASE Raise(w)
  <2>1. PICK b \in Alert : OthersKept(w) /\ request[w] = Idle /\ Born(b, None)
    BY <1>7, RaiseIs
  <2>2. UNCHANGED <<feed, lost>> /\ ~Answers(w, a) /\ alert'[a].acknowledged = alert[a].acknowledged
    BY <1>7, <2>1 DEF Raise, history, Answers, Idle, Born
  <2>3. QED
    BY <2>1, <2>2, AnswerAside
<1>8. CASE Acknowledge(w) \/ Resolve(w)
  <2>1. /\ OthersKept(w) /\ request[w].op = "answer" /\ request'[w].op = "answer"
        /\ Marks(request[w].alert) /\ request'[w].red = request[w].red
        /\ request'[w].alert = request[w].alert /\ UNCHANGED <<feed, history>>
        /\ request[w].alert \in Alert
    BY <1>8, MarkingIs, HolderOf DEF Acknowledge, Resolve, JobFits
  <2>2. Answers(w, a) <=> Answers(w, a)'
    BY <2>1 DEF Answers
  <2>3. CASE alert'[a].acknowledged => alert[a].acknowledged
    BY <2>1, <2>2, <2>3, AnswerAside DEF history
  <2>4. CASE alert'[a].acknowledged /\ ~alert[a].acknowledged
    <3>1. a = request[w].alert
      BY <2>1, <2>4 DEF Marks
    <3>2. request[w].at = "acknowledge"
      <4>1. CASE Resolve(w)
        <5>1. alert' = [alert EXCEPT ![a].resolved = TRUE]
          BY <3>1, <4>1 DEF Resolve
        <5>2. alert'[a].acknowledged = alert[a].acknowledged
          BY <5>1 DEF RequestsInv, CheckinsTypeOK
        <5>3. QED
          BY <2>4, <5>2
      <4>2. QED
        BY <1>8, <4>1 DEF Acknowledge, At
    <3>3. Answers(w, a)
      BY <2>1, <2>4, <3>1, <3>2, HolderOf DEF JobStands, Answers
    <3>4. QED
      BY <2>2, <3>3 DEF AnswerPart
  <2>5. QED
    BY <2>3, <2>4
<1>9. CASE PatchTemplate(w)
  <2>1. OthersKept(w) /\ ~Answers(w, a) /\ UNCHANGED <<alert, feed, lost>>
    BY <1>9, EditIs DEF Answers
  <2>2. QED
    BY <2>1, AnswerAside
<1>10. QED
  BY <1>1, <1>2, <1>3, <1>4, <1>5, <1>6, <1>7, <1>8, <1>9 DEF Moving

LEMMA AnswerPartNext ==
    ASSUME RequestsInv, [CheckinsNext]_checkinsVars, NEW a \in Alert, AnswerPart(a)
    PROVE  AnswerPart(a)'
<1>1. ASSUME NEW w \in Thread, NEW c \in Checkin, NEW color \in Colors, NEW photo \in BOOLEAN,
             Create(w, c, color, photo)
      PROVE  AnswerPart(a)'
  <2>1. OthersKept(w) /\ Stored(c, color) /\ ~Answers(w, a)
    BY <1>1, CreateIs DEF Answers, Idle
  <2>2. QED
    BY <1>1, <2>1, StoredAnswers, AnswerAside DEF Create
<1>2. ASSUME NEW w \in Thread, NEW c \in Checkin, NEW color \in Colors \cup {"keep"}, PatchRead(w, c, color)
      PROVE  AnswerPart(a)'
  <2>1. OthersKept(w) /\ ~Answers(w, a)
    BY <1>2, PatchReadIs DEF Answers, Idle
  <2>2. QED
    BY <1>2, <2>1, AnswerAside DEF PatchRead
<1>3. ASSUME NEW w \in Thread, NEW b \in Alert, NEW acknowledge \in BOOLEAN, NEW resolve \in BOOLEAN,
             AnswerRead(w, b, acknowledge, resolve)
      PROVE  AnswerPart(a)'
  <2>1. OthersKept(w) /\ ~Answers(w, a)
    BY <1>3, AnswerReadIs DEF Answers, Idle
  <2>2. QED
    BY <1>3, <2>1, AnswerAside DEF AnswerRead, history
<1>4. CASE UNCHANGED <<alert, feed, request, lost>>
  BY <1>4 DEF AnswerPart, Answers
<1>5. ASSUME NEW c \in Checkin, NEW photo \in BOOLEAN, SetPhoto(c, photo) PROVE AnswerPart(a)'
  BY <1>4, <1>5 DEF SetPhoto
<1>6. CASE UNCHANGED checkinsVars \/ \E status \in {"paused", "ended"} : ChangeLink(status)
  BY <1>4, <1>6, OutsideIs DEF history
<1>7. QED
  BY <1>1, <1>2, <1>3, <1>5, <1>6, AnswerMoves, StepCases

\* Every alert is with the keyholder once and, acknowledged, with the submissive.
LEMMA HeardByBoth ==
    ASSUME RequestsInv, \A a \in Alert : AlertPart(a) /\ AnswerPart(a)
    PROVE  KeyholderHears /\ SubmissiveHears
<1>1. ASSUME NEW a \in Alert, alert[a].raised, a \notin lost \cup refused
      PROVE  feed.raised[a] + Cardinality(Carriers(a, {"create", "patch", "raise"})) = 1
  <2> DEFINE bearers == Carriers(a, {"create", "patch", "raise"})
  <2>1. bearers = {w \in Thread : Bears(w, a)}
    BY DEF Carriers, Bears, Bearing
  <2>2. CASE \E w \in Thread : Bears(w, a)
    <3>1. PICK w \in Thread : Bears(w, a)
      BY <2>2
    <3>2. bearers = {w} /\ feed.raised[a] = 0
      BY <2>1, <3>1 DEF AlertPart
    <3>3. Cardinality(bearers) = 1
      BY <3>2, FS_Singleton
    <3>4. QED
      BY <3>2, <3>3
  <2>3. CASE ~\E w \in Thread : Bears(w, a)
    <3>1. bearers = {} /\ feed.raised[a] = 1
      BY <1>1, <2>1, <2>3 DEF AlertPart
    <3>2. Cardinality(bearers) = 0
      BY <3>1, FS_EmptySet
    <3>3. QED
      BY <3>1, <3>2
  <2>4. QED
    BY <2>2, <2>3
<1>2. KeyholderHears
  BY <1>1 DEF KeyholderHears
<1>3. SubmissiveHears
  BY DEF SubmissiveHears, AnswerPart, Answers, Carriers
<1>4. QED
  BY <1>2, <1>3

-----------------------------------------------------------------------------
(* Check-ins: what the keyholder is told of one.                            *)

Numbered(A, r) == UNION {{<<a, n>> : n \in 1..r[a]} : a \in A}
Once(A, r) == {a \in A : r[a] = 1}

\* Notices that are at most one for each alert are as many as the alerts they are about.
LEMMA Tally ==
    ASSUME NEW A, IsFiniteSet(A), NEW r, \A a \in A : r[a] \in {0, 1}
    PROVE  /\ IsFiniteSet(Once(A, r)) /\ Cardinality(Once(A, r)) \in Nat
           /\ Cardinality(Numbered(A, r)) = Cardinality(Once(A, r))
<1> DEFINE told == {a \in A : r[a] = 1}
           notices == UNION {{<<a, n>> : n \in 1..r[a]} : a \in A}
<1>1. IsFiniteSet(told)
  BY FS_Subset
<1>2. ASSUME NEW p \in notices PROVE p \in told \X {1}
  <2>1. PICK a \in A : p \in {<<a, n>> : n \in 1..r[a]}
    OBVIOUS
  <2>2. PICK n \in 1..r[a] : p = <<a, n>>
    BY <2>1
  <2>3. r[a] = 1 /\ n = 1
    BY <2>2
  <2>4. QED
    BY <2>2, <2>3
<1>3. ASSUME NEW p \in told \X {1} PROVE p \in notices
  <2>1. PICK a \in told : p = <<a, 1>>
    OBVIOUS
  <2>2. a \in A /\ 1 \in 1..r[a]
    BY <2>1
  <2>3. QED
    BY <2>1, <2>2
<1>4. notices = told \X {1}
  BY <1>2, <1>3
<1> HIDE DEF told, notices
<1>5. IsFiniteSet({1}) /\ Cardinality({1}) = 1
  BY FS_Singleton
<1>6. Cardinality(told) \in Nat
  BY <1>1, FS_CardinalityType
<1>7. Cardinality(told \X {1}) = Cardinality(told) * 1
  BY <1>1, <1>5, FS_Product
<1>8. notices = Numbered(A, r) /\ told = Once(A, r)
  BY DEF told, notices, Numbered, Once
<1>9. QED
  BY <1>1, <1>4, <1>6, <1>7, <1>8

Announced(c) == {a \in AlertsOf(c) : feed.raised[a] = 1}

HearInv == RequestsInv /\ \A a \in Alert : AlertPart(a) /\ AnswerPart(a)

LEMMA HearInvNext == HearInv /\ [CheckinsNext]_checkinsVars => HearInv'
BY RequestsInvNext, AlertPartNext, AnswerPartNext DEF HearInv

LEMMA InitHear == CheckinsInit => HearInv
<1> SUFFICES ASSUME CheckinsInit PROVE HearInv
  OBVIOUS
<1>1. ASSUME NEW a \in Alert PROVE AlertPart(a) /\ AnswerPart(a)
  <2>1. ~alert[a].raised /\ ~alert[a].acknowledged /\ feed.raised[a] = 0
    BY DEF CheckinsInit
  <2>2. \A w \in Thread : request[w].alert = None
    BY DEF CheckinsInit, CreatingTemplate, Idle
  <2>3. QED
    BY <2>1, <2>2, Distinct DEF AlertPart, AnswerPart, Bears
<1>2. QED
  BY <1>1, InitRequests DEF HearInv

LEMMA ToldIs ==
    ASSUME HearInv, NEW c \in Checkin
    PROVE  /\ Told(c) = Cardinality(Announced(c)) + feed.flag[c]
           /\ IsFiniteSet(Announced(c)) /\ Cardinality(Announced(c)) \in Nat /\ feed.flag[c] \in Nat
<1>1. IsFiniteSet(AlertsOf(c)) /\ AlertsOf(c) \subseteq Alert
  BY CheckinsAssumption, FS_Subset DEF AlertsOf
<1>2. \A a \in AlertsOf(c) : feed.raised[a] \in {0, 1}
  BY <1>1 DEF HearInv, AlertPart
<1>3. feed.flag[c] \in Nat
  BY DEF HearInv, RequestsInv, CheckinsTypeOK
<1>4. Notices(c) = Numbered(AlertsOf(c), feed.raised)
  BY DEF Notices, Numbered
<1>5. Announced(c) = Once(AlertsOf(c), feed.raised)
  BY DEF Announced, Once
<1>6. /\ IsFiniteSet(Announced(c)) /\ Cardinality(Announced(c)) \in Nat
      /\ Cardinality(Notices(c)) = Cardinality(Announced(c))
  BY <1>1, <1>2, <1>4, <1>5, Tally
<1>7. QED
  BY <1>3, <1>6 DEF Told

LEMMA ToldIsNext ==
    ASSUME HearInv', NEW c \in Checkin
    PROVE  /\ Told(c)' = Cardinality(Announced(c)') + feed'.flag[c]
           /\ IsFiniteSet(Announced(c)') /\ Cardinality(Announced(c)') \in Nat /\ feed'.flag[c] \in Nat
<1>1. IsFiniteSet(AlertsOf(c)') /\ AlertsOf(c)' \subseteq Alert
  BY CheckinsAssumption, FS_Subset DEF AlertsOf
<1>2. \A a \in AlertsOf(c)' : feed'.raised[a] \in {0, 1}
  BY <1>1 DEF HearInv, AlertPart
<1>3. feed'.flag[c] \in Nat
  BY DEF HearInv, RequestsInv, CheckinsTypeOK
<1>4. Notices(c)' = Numbered(AlertsOf(c)', feed'.raised)
  BY DEF Notices, Numbered
<1>5. Announced(c)' = Once(AlertsOf(c)', feed'.raised)
  BY DEF Announced, Once
<1>6. /\ IsFiniteSet(Announced(c)') /\ Cardinality(Announced(c)') \in Nat
      /\ Cardinality(Notices(c)') = Cardinality(Announced(c)')
  BY <1>1, <1>2, <1>4, <1>5, Tally
<1>7. QED
  BY <1>3, <1>6 DEF Told

\* Alerts that stay with their check-ins, and rows that stay as many.
SameAlerts == \A a \in Alert : alert'[a].raised = alert[a].raised /\ alert'[a].checkin = alert[a].checkin

LEMMA ToldKept ==
    ASSUME HearInv, HearInv', NEW c \in Checkin, SameAlerts, feed'.raised = feed.raised,
           feed'.flag[c] = feed.flag[c]
    PROVE  Told(c)' = Told(c)
<1>1. Announced(c)' = Announced(c)
  BY DEF Announced, AlertsOf, SameAlerts
<1>2. QED
  BY <1>1, ToldIs, ToldIsNext

LEMMA ToldBorn ==
    ASSUME HearInv, HearInv', NEW c \in Checkin, NEW b, NEW k, Born(b, k), feed' = feed
    PROVE  Told(c)' = Told(c)
<1>1. feed.raised[b] = 0
  BY DEF Born, HearInv, AlertPart
<1>2. Announced(c)' = Announced(c)
  BY <1>1 DEF Announced, AlertsOf, Born
<1>3. QED
  BY <1>2, ToldIs, ToldIsNext

LEMMA ToldStored ==
    ASSUME HearInv, HearInv', NEW c \in Checkin, NEW d \in Checkin, NEW color, Stored(d, color), feed' = feed
    PROVE  Told(c)' = Told(c)
<1>1. CASE Raises(d, color)
  BY <1>1, ToldBorn DEF Stored
<1>2. CASE ~Raises(d, color)
  <2>1. SameAlerts
    BY <1>2 DEF Stored, SameAlerts
  <2>2. QED
    BY <2>1, ToldKept
<1>3. QED
  BY <1>1, <1>2

\* The announcement of an alert: its check-in is told of once more, the others are not.
LEMMA ToldRaised ==
    ASSUME HearInv, HearInv', NEW c \in Checkin, NEW a \in Alert, alert[a].raised, feed.raised[a] = 0,
           alert' = alert, feed' = Noted("raised", a)
    PROVE  Told(c)' = IF alert[a].checkin = c THEN Told(c) + 1 ELSE Told(c)
<1>1. /\ feed'.raised[a] = 1 /\ \A b \in Alert \ {a} : feed'.raised[b] = feed.raised[b]
      /\ feed'.flag[c] = feed.flag[c]
  BY NotedRaised DEF HearInv, RequestsInv
<1>2. CASE alert[a].checkin = c
  <2>1. Announced(c)' = Announced(c) \cup {a} /\ a \notin Announced(c)
    BY <1>1, <1>2 DEF Announced, AlertsOf
  <2>2. IsFiniteSet(Announced(c)) /\ Cardinality(Announced(c)) \in Nat
    BY ToldIs
  <2>3. Cardinality(Announced(c)') = Cardinality(Announced(c)) + 1
    BY <2>1, <2>2, FS_AddElement
  <2>4. QED
    BY <1>1, <1>2, <2>2, <2>3, ToldIs, ToldIsNext
<1>3. CASE alert[a].checkin # c
  <2>1. Announced(c)' = Announced(c)
    BY <1>1, <1>3 DEF Announced, AlertsOf
  <2>2. QED
    BY <1>1, <1>3, <2>1, ToldIs, ToldIsNext
<1>4. QED
  BY <1>2, <1>3

LEMMA ToldFlag ==
    ASSUME HearInv, HearInv', NEW c \in Checkin, NEW d \in Checkin, alert' = alert, feed' = Noted("flag", d)
    PROVE  Told(c)' = IF c = d THEN Told(c) + 1 ELSE Told(c)
<1>1. /\ feed'.raised = feed.raised
      /\ feed'.flag[c] = IF c = d THEN feed.flag[c] + 1 ELSE feed.flag[c]
  BY NotedFlag DEF HearInv, RequestsInv
<1>2. Announced(c)' = Announced(c)
  BY <1>1 DEF Announced, AlertsOf
<1>3. QED
  BY <1>1, <1>2, ToldIs, ToldIsNext

-----------------------------------------------------------------------------
(* Check-ins: each turn is told once.                                       *)

Holds(w, c) == request[w].checkin = c

\* A request that holds c will still tell the keyholder of it: it has its alert, or its edit
\* turned c red, or will find it red.
Owes(w, c) ==
    /\ request[w].at # "update"
    /\ \/ request[w].alert # None
       \/ request[w].at = "notify" /\ request[w].color = "red" /\ ~request[w].red
       \/ request[w].at # "notify" /\ Red(c) /\ ~request[w].red

\* A check-in that no two requests had in hand at once has been told of as often as it turned
\* red, but for what its one holder owes.
Squared(c) ==
    /\ \A v, w \in Thread : Holds(v, c) /\ Holds(w, c) => v = w
    /\ ~Busy(c) => turns[c] = Told(c)
    /\ \A w \in Thread : Holds(w, c) =>
          /\ request[w].at = "update" => (request[w].red <=> Red(c))
          /\ turns[c] = IF Owes(w, c) THEN Told(c) + 1 ELSE Told(c)

TurnPart(c) == c \notin raced \cup lost \cup refused => Squared(c)

Marked == raced \subseteq raced' /\ lost \subseteq lost' /\ refused \subseteq refused'

\* The request of the step has to do with other check-ins.
LEMMA TurnAside ==
    ASSUME NEW c \in Checkin, TurnPart(c), Marked, NEW w \in Thread, OthersKept(w),
           ~Holds(w, c), ~Holds(w, c)',
           Told(c)' = Told(c), turns'[c] = turns[c], Red(c)' <=> Red(c)
    PROVE  TurnPart(c)'
<1>1. \A v \in Thread : Holds(v, c)' => v # w /\ request'[v] = request[v] /\ Holds(v, c)
  BY DEF OthersKept, Holds
<1>2. \A v \in Thread : Holds(v, c) => Holds(v, c)'
  BY DEF OthersKept, Holds
<1>3. Busy(c)' <=> Busy(c)
  BY <1>1, <1>2 DEF Busy, Holds
<1>4. \A v \in Thread : Holds(v, c)' => (Owes(v, c)' <=> Owes(v, c))
  BY <1>1 DEF Owes
<1>5. Squared(c) => Squared(c)'
  BY <1>1, <1>3, <1>4 DEF Squared
<1>6. QED
  BY <1>5 DEF TurnPart, Marked

\* It has c in hand before and after, past the transaction of an edit.
LEMMA TurnGoesOn ==
    ASSUME NEW c \in Checkin, TurnPart(c), Marked, NEW w \in Thread, OthersKept(w),
           Holds(w, c), Holds(w, c)', request'[w].at # "update",
           Squared(c) => turns'[c] = IF Owes(w, c)' THEN Told(c)' + 1 ELSE Told(c)'
    PROVE  TurnPart(c)'
<1>1. Squared(c) => \A v \in Thread : Holds(v, c)' => v = w
  BY DEF Squared, OthersKept, Holds
<1>2. Squared(c) => Squared(c)'
  BY <1>1 DEF Squared, Busy, Holds
<1>3. QED
  BY <1>2 DEF TurnPart, Marked

\* It takes up c, which nobody has in hand.
LEMMA TurnTakenUp ==
    ASSUME NEW c \in Checkin, TurnPart(c), Marked, NEW w \in Thread, OthersKept(w), ~Busy(c), Holds(w, c)',
           request'[w].at = "update" => (request'[w].red <=> Red(c)'),
           turns[c] = Told(c) => turns'[c] = IF Owes(w, c)' THEN Told(c)' + 1 ELSE Told(c)'
    PROVE  TurnPart(c)'
<1>1. \A v \in Thread : Holds(v, c)' => v = w
  BY DEF OthersKept, Holds, Busy
<1>2. Squared(c) => Squared(c)'
  BY <1>1 DEF Squared, Busy, Holds
<1>3. QED
  BY <1>2 DEF TurnPart, Marked

\* It lays c down, with nothing owed any more.
LEMMA TurnLaidDown ==
    ASSUME NEW c \in Checkin, TurnPart(c), Marked, NEW w \in Thread, OthersKept(w), Holds(w, c), ~Holds(w, c)',
           Squared(c) => turns'[c] = Told(c)'
    PROVE  TurnPart(c)'
<1>1. Squared(c) => \A v \in Thread : ~Holds(v, c)'
  BY DEF Squared, OthersKept, Holds
<1>2. Squared(c) => Squared(c)'
  BY <1>1 DEF Squared, Busy, Holds
<1>3. QED
  BY <1>2 DEF TurnPart, Marked

LEMMA NotHeld ==
    ASSUME NEW c \in Checkin, NEW w
    PROVE  /\ request[w].checkin = None => ~Holds(w, c)
           /\ request'[w].checkin = None => ~Holds(w, c)'
           /\ request[w] = Idle => ~Holds(w, c)
           /\ request'[w] = Idle => ~Holds(w, c)'
BY Distinct DEF Holds, Idle

LEMMA TurnCreate ==
    ASSUME HearInv, HearInv', NEW c \in Checkin, TurnPart(c), NEW w \in Thread, NEW d \in Checkin,
           NEW color \in Colors, NEW photo \in BOOLEAN, Create(w, d, color, photo)
    PROVE  TurnPart(c)'
<1>1. /\ OthersKept(w) /\ request[w] = Idle /\ Made(w, d, color, photo) /\ Stored(d, color)
      /\ UNCHANGED <<feed, raced, lost, refused>> /\ ~Exists(d)
  BY CreateIs DEF HearInv, Create
<1>2. Told(c)' = Told(c) /\ Told(c) \in Nat /\ Marked
  BY <1>1, ToldStored, ToldIs DEF Marked
<1>3. CASE c # d
  <2>1. ~Holds(w, c) /\ ~Holds(w, c)' /\ turns'[c] = turns[c] /\ (Red(c)' <=> Red(c))
    BY <1>1, <1>3, NotHeld DEF Made, Holds, Stored, Red
  <2>2. QED
    BY <1>1, <1>2, <2>1, TurnAside
<1>4. CASE c = d
  <2>1. ~Busy(c)
    BY <1>1, <1>4, HolderOf, Distinct DEF HearInv, Busy
  <2>2. ~Red(c)
    BY <1>1, <1>4 DEF Exists, Red
  <2>3. Holds(w, c)' /\ request'[w].at \in {"attach", "reread"} /\ ~request'[w].red
        /\ request'[w].alert = AlertFor(c, color)
    BY <1>1, <1>4 DEF Made, Holds
  <2>4. turns'[c] = IF color = "red" THEN turns[c] + 1 ELSE turns[c]
    BY <1>1, <1>4, <2>2 DEF Stored
  <2>5. Red(c)' <=> color = "red"
    BY <1>1, <1>4 DEF Stored, Red
  <2>6. color # "red" => AlertFor(c, color) = None
    BY DEF AlertFor, Raises
  <2>7. Owes(w, c)' <=> color = "red"
    BY <2>3, <2>5, <2>6 DEF Owes
  <2>8. QED
    BY <1>1, <1>2, <2>1, <2>3, <2>4, <2>7, TurnTakenUp
<1>5. QED
  BY <1>3, <1>4

LEMMA TurnUpdate ==
    ASSUME HearInv, HearInv', NEW c \in Checkin, TurnPart(c), NEW w \in Thread, PatchUpdate(w)
    PROVE  TurnPart(c)'
<1>1. PICK d \in Checkin, color \in Colors :
              /\ OthersKept(w) /\ Stored(d, color)
              /\ request[w].checkin = d /\ request[w].at = "update"
              /\ request'[w].at = "reread" /\ request'[w].checkin = d
              /\ request'[w].alert = AlertFor(d, color) /\ request'[w].red = request[w].red
  BY PatchUpdateIs DEF HearInv
<1>2. UNCHANGED <<feed, raced, lost, refused>>
  BY DEF PatchUpdate
<1>3. Told(c)' = Told(c) /\ Told(c) \in Nat /\ Marked
  BY <1>1, <1>2, ToldStored, ToldIs DEF Marked
<1>4. CASE c # d
  <2>1. ~Holds(w, c) /\ ~Holds(w, c)' /\ turns'[c] = turns[c] /\ (Red(c)' <=> Red(c))
    BY <1>1, <1>4 DEF Holds, Stored, Red
  <2>2. QED
    BY <1>1, <1>3, <2>1, TurnAside
<1>5. CASE c = d
  <2>1. Holds(w, c) /\ Holds(w, c)' /\ request'[w].at # "update" /\ ~Owes(w, c)
    BY <1>1, <1>5 DEF Holds, Owes
  <2>2. turns'[c] = IF color = "red" /\ ~Red(c) THEN turns[c] + 1 ELSE turns[c]
    BY <1>1, <1>5 DEF Stored
  <2>3. Red(c)' <=> color = "red"
    BY <1>1, <1>5 DEF Stored, Red
  <2>4. AlertFor(c, color) # None => color = "red" /\ ~Red(c)
    BY DEF AlertFor, Raises
  <2>5. Squared(c) => (request[w].red <=> Red(c)) /\ turns[c] = Told(c)
    BY <1>1, <2>1 DEF Squared
  <2>6. Squared(c) => (Owes(w, c)' <=> color = "red" /\ ~Red(c))
    BY <1>1, <1>5, <2>3, <2>4, <2>5 DEF Owes
  <2>7. QED
    BY <1>1, <1>3, <2>1, <2>2, <2>5, <2>6, TurnGoesOn
<1>6. QED
  BY <1>4, <1>5

LEMMA TurnNotify ==
    ASSUME HearInv, HearInv', NEW c \in Checkin, TurnPart(c), NEW w \in Thread, Notify(w)
    PROVE  TurnPart(c)'
<1>1. PICK d \in Checkin : request[w].checkin = d
  BY HolderOf DEF Notify, HearInv
<1>2. /\ RequestsInv /\ request'[w] = Idle /\ OthersKept(w) /\ request[w].op \in {"create", "patch"}
      /\ request[w].at = "notify" /\ feed' = Announcement(w)
      /\ UNCHANGED <<checkin, alert, history>>
  BY TellsIs DEF Notify, HearInv
<1>3. /\ ~Holds(w, c)' /\ (Holds(w, c) <=> c = d) /\ Marked /\ turns' = turns /\ Red(c)' = Red(c)
      /\ Told(c) \in Nat
  BY <1>1, <1>2, NotHeld, ToldIs DEF Holds, Marked, history, Red
<1>4. Told(c)' = IF c = d /\ Owes(w, c) THEN Told(c) + 1 ELSE Told(c)
  <2>1. CASE request[w].alert # None
    <3>1. PICK a \in Alert : a = request[w].alert /\ alert[a].raised
      BY <1>2, <2>1, HolderOf
    <3>2. Bears(w, a) /\ alert[a].checkin = d
      BY <1>1, <1>2, <2>1, <3>1, HolderOf DEF Bears, Bearing, JobStands
    <3>3. feed.raised[a] = 0 /\ feed' = Noted("raised", a)
      BY <1>2, <2>1, <3>1, <3>2 DEF HearInv, AlertPart, Announcement
    <3>4. Told(c)' = IF alert[a].checkin = c THEN Told(c) + 1 ELSE Told(c)
      BY <1>2, <3>1, <3>3, ToldRaised
    <3>5. Owes(w, c)
      BY <1>2, <2>1 DEF Owes
    <3>6. QED
      BY <3>2, <3>4, <3>5
  <2>2. CASE request[w].alert = None /\ request[w].color = "red" /\ ~request[w].red
    <3>1. feed' = Noted("flag", d) /\ Owes(w, c)
      BY <1>1, <1>2, <2>2 DEF Announcement, Owes
    <3>2. QED
      BY <1>2, <3>1, ToldFlag
  <2>3. CASE request[w].alert = None /\ ~(request[w].color = "red" /\ ~request[w].red)
    <3>1. feed' = feed /\ ~Owes(w, c) /\ SameAlerts
      BY <1>2, <2>3 DEF Announcement, Owes, SameAlerts
    <3>2. QED
      BY <3>1, ToldKept
  <2>4. QED
    BY <2>1, <2>2, <2>3
<1>5. CASE c # d
  BY <1>2, <1>3, <1>4, <1>5, TurnAside
<1>6. CASE c = d
  <2>1. Squared(c) => turns'[c] = Told(c)'
    BY <1>3, <1>4, <1>6 DEF Squared
  <2>2. QED
    BY <1>2, <1>3, <1>6, <2>1, TurnLaidDown
<1>7. QED
  BY <1>5, <1>6

LEMMA TurnGoing ==
    ASSUME HearInv, HearInv', NEW c \in Checkin, TurnPart(c), NEW w \in Thread,
           Attach(w) \/ (request[w].op \in {"create", "patch"} /\ Reread(w))
    PROVE  TurnPart(c)'
<1>1. PICK d \in Checkin : request[w].checkin = d
  BY HolderOf DEF Attach, At, HearInv
<1>2. /\ OthersKept(w) /\ request'[w].checkin = d /\ (c = d => (Owes(w, c)' <=> Owes(w, c)))
      /\ request'[w].at # "update" /\ UNCHANGED <<alert, feed, history>> /\ (Red(c)' <=> Red(c))
  <2>1. CASE Attach(w)
    <3>1. /\ OthersKept(w) /\ request[w].op = "create" /\ request[w] \in Jobs /\ request[w].at = "attach"
          /\ request'[w] = [request[w] EXCEPT !.at = "reread"]
          /\ checkin'[c].color = checkin[c].color /\ UNCHANGED <<alert, feed, history>>
      BY <2>1, AttachIs, HolderOf DEF HearInv, Attach, At
    <3>2. /\ request'[w].at = "reread" /\ request'[w].checkin = d /\ request'[w].alert = request[w].alert
          /\ request'[w].red = request[w].red
      BY <1>1, <3>1 DEF Jobs
    <3>3. Red(c)' <=> Red(c)
      BY <3>1 DEF Red
    <3>4. QED
      BY <3>1, <3>2, <3>3 DEF Owes
  <2>2. CASE request[w].op \in {"create", "patch"} /\ Reread(w)
    <3>1. /\ OthersKept(w) /\ request[w].at = "reread" /\ request'[w].at = "notify"
          /\ request'[w].checkin = d /\ request'[w].alert = request[w].alert
          /\ request'[w].red = request[w].red /\ request'[w].color = checkin[d].color
          /\ UNCHANGED <<alert, feed, history, checkin>>
      BY <1>1, <2>2, RereadIs DEF HearInv, Reread
    <3>2. QED
      BY <3>1 DEF Owes, Red
  <2>3. QED
    BY <2>1, <2>2
<1>3. Told(c)' = Told(c) /\ Told(c) \in Nat /\ Marked /\ turns' = turns
  BY <1>2, ToldKept, ToldIs DEF Marked, history, SameAlerts
<1>4. CASE c # d
  <2>1. ~Holds(w, c) /\ ~Holds(w, c)'
    BY <1>1, <1>2, <1>4 DEF Holds
  <2>2. QED
    BY <1>2, <1>3, <2>1, TurnAside
<1>5. CASE c = d
  <2>1. Holds(w, c) /\ Holds(w, c)'
    BY <1>1, <1>2, <1>5 DEF Holds
  <2>2. Squared(c) => turns'[c] = IF Owes(w, c)' THEN Told(c)' + 1 ELSE Told(c)'
    BY <1>2, <1>3, <1>5, <2>1 DEF Squared
  <2>3. QED
    BY <1>2, <1>3, <2>1, <2>2, TurnGoesOn
<1>6. QED
  BY <1>4, <1>5

LEMMA TurnMoves ==
    ASSUME HearInv, HearInv', NEW c \in Checkin, TurnPart(c), NEW w \in Thread, Moving(w)
    PROVE  TurnPart(c)'
<1> USE DEF HearInv
<1>1. CASE Abort(w) \/ AttachRefused(w)
  <2>1. request'[w] = Idle /\ OthersKept(w)
    BY <1>1, AbortIs
  <2>2. /\ UNCHANGED <<checkin, alert, feed, turns>> /\ Marked /\ SameAlerts
        /\ Holds(w, c) => c \in lost' \cup refused'
    BY <1>1, Distinct DEF Abort, AttachRefused, Marked, SameAlerts, Holds
  <2>3. CASE Holds(w, c)
    BY <2>2, <2>3 DEF TurnPart
  <2>4. CASE ~Holds(w, c)
    <3>1. ~Holds(w, c)' /\ Told(c)' = Told(c) /\ Red(c)' = Red(c)
      BY <2>1, <2>2, NotHeld, ToldKept DEF Red
    <3>2. QED
      BY <2>1, <2>2, <2>4, <3>1, TurnAside
  <2>5. QED
    BY <2>3, <2>4
<1>2. ASSUME OthersKept(w), ~Holds(w, c), ~Holds(w, c)', Told(c)' = Told(c),
             UNCHANGED <<checkin, turns, raced, lost, refused>>
      PROVE  TurnPart(c)'
  <2>1. Marked /\ turns'[c] = turns[c] /\ Red(c)' = Red(c)
    BY <1>2 DEF Marked, Red
  <2>2. QED
    BY <1>2, <2>1, TurnAside
<1>3. CASE TellKeyholder(w)
  <2>1. /\ OthersKept(w) /\ request'[w] = Idle /\ request[w].op = "raise"
        /\ UNCHANGED <<checkin, alert, history>> /\ request[w].checkin = None
    BY <1>3, TellsIs, HolderOf DEF TellKeyholder, At
  <2>2. PICK a \in Alert : a = request[w].alert /\ alert[a].raised
    BY <2>1, HolderOf DEF JobFits
  <2>3. Bears(w, a) /\ alert[a].checkin = None
    BY <2>1, <2>2, HolderOf, Distinct DEF Bears, Bearing, JobStands
  <2>4. feed.raised[a] = 0 /\ feed' = Noted("raised", a)
    BY <1>3, <2>2, <2>3 DEF AlertPart, TellKeyholder
  <2>5. Told(c)' = Told(c)
    BY <2>1, <2>2, <2>3, <2>4, ToldRaised, Distinct
  <2>6. QED
    BY <1>2, <2>1, <2>5, NotHeld DEF history
<1>4. CASE TellSubmissive(w)
  <2>1. /\ OthersKept(w) /\ request'[w] = Idle /\ request[w].op = "answer"
        /\ UNCHANGED <<checkin, alert, history>> /\ request[w].checkin = None
        /\ request[w].alert \in Alert
    BY <1>4, TellsIs, HolderOf DEF TellSubmissive, At, JobFits
  <2>2. feed'.raised = feed.raised /\ feed'.flag = feed.flag /\ SameAlerts
    BY <1>4, <2>1, NotedSeen DEF TellSubmissive, SameAlerts, RequestsInv
  <2>3. Told(c)' = Told(c)
    BY <2>2, ToldKept
  <2>4. QED
    BY <1>2, <2>1, <2>3, NotHeld DEF history
<1>5. CASE Raise(w)
  <2>1. PICK b \in Alert :
              OthersKept(w) /\ request[w] = Idle /\ Born(b, None) /\ request'[w].checkin = None
    BY <1>5, RaiseIs
  <2>2. UNCHANGED <<checkin, feed, history>>
    BY <1>5 DEF Raise
  <2>3. Told(c)' = Told(c)
    BY <2>1, <2>2, ToldBorn
  <2>4. QED
    BY <1>2, <2>1, <2>2, <2>3, NotHeld DEF history
<1>6. CASE Acknowledge(w) \/ Resolve(w)
  <2>1. /\ OthersKept(w) /\ request[w].op = "answer" /\ request'[w].checkin = None
        /\ Marks(request[w].alert) /\ UNCHANGED <<checkin, feed, history>> /\ request[w].checkin = None
    BY <1>6, MarkingIs, HolderOf DEF Acknowledge, Resolve
  <2>2. Told(c)' = Told(c)
    BY <2>1, ToldKept DEF Marks, SameAlerts
  <2>3. QED
    BY <1>2, <2>1, <2>2, NotHeld DEF history
<1>7. CASE PatchTemplate(w)
  <2>1. /\ OthersKept(w) /\ request[w].op \in {"idle", "edit"} /\ request'[w].op \in {"idle", "edit"}
        /\ UNCHANGED <<checkin, alert, feed, turns, raced, lost, refused>>
    BY <1>7, EditIs
  <2>2. request[w].checkin = None
    BY <2>1, HolderOf
  <2>3. request'[w].checkin = None
    BY <2>1 DEF RequestsInv, JobsFit, JobFits
  <2>4. Told(c)' = Told(c)
    BY <2>1, ToldKept DEF SameAlerts
  <2>5. QED
    BY <1>2, <2>1, <2>2, <2>3, <2>4, NotHeld
<1>8. QED
  BY <1>1, <1>3, <1>4, <1>5, <1>6, <1>7, TurnUpdate, TurnGoing, TurnNotify DEF Moving

LEMMA TurnPartNext ==
    ASSUME HearInv, HearInv', [CheckinsNext]_checkinsVars, NEW c \in Checkin, TurnPart(c)
    PROVE  TurnPart(c)'
<1> USE DEF HearInv
<1>1. ASSUME NEW w \in Thread, NEW d \in Checkin, NEW color \in Colors \cup {"keep"}, PatchRead(w, d, color)
      PROVE  TurnPart(c)'
  <2>1. /\ OthersKept(w) /\ request[w] = Idle /\ request'[w].at = "update" /\ request'[w].checkin = d
        /\ request'[w].red = Red(d)
    BY <1>1, PatchReadIs
  <2>2. /\ UNCHANGED <<checkin, alert, feed, turns, lost, refused>> /\ SameAlerts
        /\ raced' = IF Busy(d) THEN raced \cup {d} ELSE raced
    BY <1>1 DEF PatchRead, SameAlerts
  <2>3. Told(c)' = Told(c) /\ Marked /\ Red(c)' = Red(c)
    BY <2>2, ToldKept DEF Marked, Red
  <2>4. CASE c # d
    <3>1. ~Holds(w, c) /\ ~Holds(w, c)'
      BY <2>1, <2>4, NotHeld DEF Holds
    <3>2. QED
      BY <2>1, <2>2, <2>3, <3>1, TurnAside
  <2>5. CASE c = d /\ Busy(c)
    BY <2>2, <2>5 DEF TurnPart
  <2>6. CASE c = d /\ ~Busy(c)
    <3>1. Holds(w, c)' /\ ~Owes(w, c)' /\ (request'[w].red <=> Red(c)')
      BY <2>1, <2>3, <2>6 DEF Holds, Owes
    <3>2. QED
      BY <2>1, <2>2, <2>3, <2>6, <3>1, TurnTakenUp
  <2>7. QED
    BY <2>4, <2>5, <2>6
<1>2. ASSUME NEW w \in Thread, NEW b \in Alert, NEW acknowledge \in BOOLEAN, NEW resolve \in BOOLEAN,
             AnswerRead(w, b, acknowledge, resolve)
      PROVE  TurnPart(c)'
  <2>1. OthersKept(w) /\ request[w] = Idle /\ request'[w].checkin = None
    BY <1>2, AnswerReadIs
  <2>2. UNCHANGED <<checkin, alert, feed, history>> /\ SameAlerts
    BY <1>2 DEF AnswerRead, SameAlerts
  <2>3. /\ Told(c)' = Told(c) /\ Marked /\ Red(c)' = Red(c) /\ turns'[c] = turns[c]
        /\ ~Holds(w, c) /\ ~Holds(w, c)'
    BY <2>1, <2>2, ToldKept, NotHeld DEF Marked, Red, history
  <2>4. QED
    BY <2>1, <2>3, TurnAside
<1>3. ASSUME UNCHANGED <<alert, feed, request, turns, raced, lost, refused>>, checkin'[c].color = checkin[c].color
      PROVE  TurnPart(c)'
  <2>1. SameAlerts
    BY <1>3 DEF SameAlerts
  <2>2. Told(c)' = Told(c) /\ (Red(c)' <=> Red(c)) /\ (Busy(c)' <=> Busy(c))
    BY <1>3, <2>1, ToldKept DEF Red, Busy
  <2>3. \A v \in Thread : (Owes(v, c)' <=> Owes(v, c)) /\ (Holds(v, c)' <=> Holds(v, c))
    BY <1>3, <2>2 DEF Owes, Holds
  <2>4. Squared(c) => Squared(c)'
    BY <1>3, <2>2, <2>3 DEF Squared
  <2>5. QED
    BY <1>3, <2>4 DEF TurnPart
<1>4. ASSUME NEW d \in Checkin, NEW photo \in BOOLEAN, SetPhoto(d, photo) PROVE TurnPart(c)'
  BY <1>3, <1>4, SetPhotoIs DEF SetPhoto
<1>5. CASE UNCHANGED checkinsVars \/ \E status \in {"paused", "ended"} : ChangeLink(status)
  BY <1>3, <1>5, OutsideIs DEF history
<1>6. QED
  BY <1>1, <1>2, <1>4, <1>5, TurnCreate, TurnMoves, StepCases

-----------------------------------------------------------------------------
(* Check-ins: the required photo.                                           *)

\* The fields are there, unless somebody has yet to put them back or failed to.
FieldsPart == template.rows = 0 => torn \/ Replacing

PhotoPart(c) ==
    Exists(c) => \/ checkin[c].photo
                 \/ c \in excused \cup lost \cup refused
                 \/ \E w \in Thread : Holds(w, c) /\ At(w, "create", "attach")

LEMMA IdleOp == Idle.op = "idle"
BY DEF Idle

LEMMA FieldsNext ==
    ASSUME RequestsInv, [CheckinsNext]_checkinsVars, FieldsPart
    PROVE  FieldsPart'
<1>1. ASSUME NEW w \in Thread, OthersKept(w), template' = template, torn \/ At(w, "edit", "insert") => torn' \/ At(w, "edit", "insert")'
      PROVE  FieldsPart'
  <2>1. \A v \in Thread : v # w => (At(v, "edit", "insert")' <=> At(v, "edit", "insert"))
    BY <1>1 DEF OthersKept, At
  <2>2. QED
    BY <1>1, <2>1 DEF FieldsPart, Replacing
<1>2. ASSUME NEW w \in Thread, OthersKept(w), request[w].op # "edit", template' = template, torn' = torn
      PROVE  FieldsPart'
  BY <1>1, <1>2 DEF At
<1>3. ASSUME NEW w \in Thread, PatchTemplate(w) PROVE FieldsPart'
  <2>1. OthersKept(w) /\ CheckinsTypeOK /\ request[w] \in Jobs
    BY <1>3, EditIs, HolderOf DEF RequestsInv
  <2>2. CASE \E escalate, fields \in BOOLEAN : EditRead(w, escalate, fields)
    <3>1. request[w].op # "edit" /\ template' = template /\ torn' = torn
      BY <2>2 DEF EditRead, Take, Idle, history
    <3>2. QED
      BY <1>2, <2>1, <3>1
  <2>3. CASE EditUpdate(w)
    <3>1. template'.rows = template.rows /\ torn' = torn /\ ~At(w, "edit", "insert")
      BY <2>1, <2>3 DEF EditUpdate, CheckinsTypeOK, history, At
    <3>2. \A v \in Thread : v # w => (At(v, "edit", "insert")' <=> At(v, "edit", "insert"))
      BY <2>1 DEF OthersKept, At
    <3>3. QED
      BY <3>1, <3>2 DEF FieldsPart, Replacing
  <2>4. CASE DeleteFields(w)
    <3>1. request'[w] = [request[w] EXCEPT !.at = "insert"] /\ request[w].op = "edit"
      BY <2>1, <2>4, GotoIs DEF DeleteFields, Steps, At
    <3>2. At(w, "edit", "insert")'
      BY <2>1, <3>1 DEF At, Jobs
    <3>3. QED
      BY <3>2 DEF FieldsPart, Replacing
  <2>5. CASE InsertField(w)
    <3>1. template'.rows = template.rows + 1 /\ template.rows \in Nat
      BY <2>1, <2>5 DEF InsertField, CheckinsTypeOK
    <3>2. QED
      BY <3>1 DEF FieldsPart
  <2>6. QED
    BY <1>3, <2>2, <2>3, <2>4, <2>5 DEF PatchTemplate
<1>4. ASSUME NEW w \in Thread, Moving(w) PROVE FieldsPart'
  <2>1. CASE Attach(w) \/ PatchUpdate(w) \/ Raise(w) \/ Acknowledge(w) \/ Resolve(w)
             \/ (request[w].op \in {"create", "patch"} /\ Reread(w))
    <3>1. OthersKept(w)
      BY <2>1, AttachIs, PatchUpdateIs, RaiseIs, MarkingIs, RereadIs
    <3>2. request[w].op # "edit" /\ template' = template /\ torn' = torn
      BY <2>1 DEF Attach, PatchUpdate, Raise, Take, Idle, Acknowledge, Resolve, Reread, At, history
    <3>3. QED
      BY <1>2, <3>1, <3>2
  <2>2. CASE Notify(w) \/ TellKeyholder(w) \/ TellSubmissive(w) \/ AttachRefused(w)
    <3>1. OthersKept(w)
      BY <2>2, TellsIs, AbortIs
    <3>2. request[w].op # "edit" /\ template' = template /\ torn' = torn
      BY <2>2 DEF Notify, TellKeyholder, TellSubmissive, AttachRefused, At, history
    <3>3. QED
      BY <1>2, <3>1, <3>2
  <2>3. CASE Abort(w)
    <3>1. OthersKept(w) /\ template' = template /\ torn' = (torn \/ At(w, "edit", "insert"))
      BY <2>3, AbortIs DEF Abort
    <3>2. QED
      BY <1>1, <3>1
  <2>4. QED
    BY <1>3, <1>4, <2>1, <2>2, <2>3 DEF Moving
<1>5. ASSUME NEW w \in Thread, NEW c \in Checkin, NEW color \in Colors, NEW photo \in BOOLEAN,
             Create(w, c, color, photo)
      PROVE  FieldsPart'
  <2>1. OthersKept(w) /\ request[w].op # "edit" /\ template' = template /\ torn' = torn
    BY <1>5, CreateIs, IdleOp DEF Create
  <2>2. QED
    BY <1>2, <2>1
<1>6. ASSUME NEW w \in Thread, NEW c \in Checkin, NEW color \in Colors \cup {"keep"}, PatchRead(w, c, color)
      PROVE  FieldsPart'
  <2>1. OthersKept(w) /\ request[w].op # "edit" /\ template' = template /\ torn' = torn
    BY <1>6, PatchReadIs, IdleOp DEF PatchRead
  <2>2. QED
    BY <1>2, <2>1
<1>7. ASSUME NEW w \in Thread, NEW a \in Alert, NEW acknowledge \in BOOLEAN, NEW resolve \in BOOLEAN,
             AnswerRead(w, a, acknowledge, resolve)
      PROVE  FieldsPart'
  <2>1. OthersKept(w) /\ request[w].op # "edit" /\ template' = template /\ torn' = torn
    BY <1>7, AnswerReadIs, IdleOp DEF AnswerRead, history
  <2>2. QED
    BY <1>2, <2>1
<1>8. CASE UNCHANGED <<template, request, torn>>
  BY <1>8 DEF FieldsPart, Replacing, At
<1>9. ASSUME NEW c \in Checkin, NEW photo \in BOOLEAN, SetPhoto(c, photo) PROVE FieldsPart'
  BY <1>8, <1>9 DEF SetPhoto
<1>10. CASE UNCHANGED checkinsVars \/ \E status \in {"paused", "ended"} : ChangeLink(status)
  BY <1>8, <1>10, OutsideIs DEF history
<1>11. QED
  BY <1>4, <1>5, <1>6, <1>7, <1>9, <1>10, StepCases

\* The photo of c, its excuses and the request that is storing it stay.
LEMMA PhotoStill ==
    ASSUME NEW c \in Checkin, PhotoPart(c), Exists(c)' => Exists(c), checkin[c].photo => checkin'[c].photo,
           excused \subseteq excused', lost \subseteq lost', refused \subseteq refused',
           \A w \in Thread : Holds(w, c) /\ At(w, "create", "attach") =>
               \/ Holds(w, c)' /\ At(w, "create", "attach")'
               \/ checkin'[c].photo \/ c \in lost' \cup refused'
    PROVE  PhotoPart(c)'
BY DEF PhotoPart

LEMMA PhotoAside ==
    ASSUME NEW c \in Checkin, PhotoPart(c), NEW w \in Thread, OthersKept(w),
           Holds(w, c) => ~At(w, "create", "attach"),
           Exists(c)' => Exists(c), checkin[c].photo => checkin'[c].photo,
           excused \subseteq excused', lost \subseteq lost', refused \subseteq refused'
    PROVE  PhotoPart(c)'
<1>1. \A v \in Thread : Holds(v, c) /\ At(v, "create", "attach") => Holds(v, c)' /\ At(v, "create", "attach")'
  BY DEF OthersKept, Holds, At
<1>2. QED
  BY <1>1, PhotoStill

LEMMA PhotoMoves ==
    ASSUME RequestsInv, NEW c \in Checkin, PhotoPart(c), NEW w \in Thread, Moving(w)
    PROVE  PhotoPart(c)'
<1>1. CASE Attach(w)
  <2>1. /\ OthersKept(w) /\ checkin'[request[w].checkin].photo
        /\ \A d \in Checkin : checkin'[d].color = checkin[d].color /\ (checkin[d].photo => checkin'[d].photo)
    BY <1>1, AttachIs
  <2>2. Exists(c)' => Exists(c)
    BY <2>1 DEF Exists
  <2>3. UNCHANGED <<excused, lost, refused>>
    BY <1>1 DEF Attach, history
  <2>4. \A v \in Thread : Holds(v, c) /\ At(v, "create", "attach") =>
               \/ Holds(v, c)' /\ At(v, "create", "attach")'
               \/ checkin'[c].photo
    BY <2>1 DEF OthersKept, Holds, At
  <2>5. QED
    BY <2>1, <2>2, <2>3, <2>4, PhotoStill
<1>2. CASE Abort(w) \/ AttachRefused(w)
  <2>1. OthersKept(w)
    BY <1>2, AbortIs
  <2>2. /\ UNCHANGED <<checkin, excused>> /\ lost \subseteq lost' /\ refused \subseteq refused'
        /\ Holds(w, c) => c \in lost' \cup refused'
    BY <1>2, Distinct DEF Abort, AttachRefused, Holds
  <2>3. \A v \in Thread : Holds(v, c) /\ At(v, "create", "attach") =>
               \/ Holds(v, c)' /\ At(v, "create", "attach")'
               \/ c \in lost' \cup refused'
    BY <2>1, <2>2 DEF OthersKept, Holds, At
  <2>4. QED
    BY <2>2, <2>3, PhotoStill DEF Exists
<1>3. CASE PatchUpdate(w)
  <2>1. PICK d \in Checkin, color \in Colors :
              /\ OthersKept(w) /\ Stored(d, color) /\ request[w].checkin = d /\ request[w].op = "patch"
    BY <1>3, PatchUpdateIs
  <2>2. Exists(d)
    BY <2>1, HolderOf
  <2>3. (Exists(c)' => Exists(c)) /\ (checkin[c].photo => checkin'[c].photo)
    BY <2>1, <2>2 DEF Stored, Exists
  <2>4. ~At(w, "create", "attach") /\ UNCHANGED <<excused, lost, refused>>
    BY <1>3, <2>1 DEF At, PatchUpdate
  <2>5. QED
    BY <2>1, <2>3, <2>4, PhotoAside
<1>4. ASSUME OthersKept(w), ~At(w, "create", "attach"), checkin' = checkin, UNCHANGED <<excused, lost, refused>>
      PROVE  PhotoPart(c)'
  BY <1>4, PhotoAside DEF Exists
<1>5. CASE request[w].op \in {"create", "patch"} /\ Reread(w)
  BY <1>4, <1>5, RereadIs DEF Reread, At, history
<1>6. CASE Notify(w) \/ TellKeyholder(w) \/ TellSubmissive(w)
  BY <1>4, <1>6, TellsIs DEF Notify, TellKeyholder, TellSubmissive, At, history
<1>7. CASE Raise(w)
  <2>1. OthersKept(w) /\ request[w] = Idle
    BY <1>7, RaiseIs
  <2>2. QED
    BY <1>4, <1>7, <2>1 DEF Raise, At, Idle, history
<1>8. CASE Acknowledge(w) \/ Resolve(w)
  BY <1>4, <1>8, MarkingIs DEF Acknowledge, Resolve, At, history
<1>9. CASE PatchTemplate(w)
  BY <1>4, <1>9, EditIs DEF At
<1>10. QED
  BY <1>1, <1>2, <1>3, <1>5, <1>6, <1>7, <1>8, <1>9 DEF Moving

LEMMA PhotoPartNext ==
    ASSUME RequestsInv, [CheckinsNext]_checkinsVars, FieldsPart, NEW c \in Checkin, PhotoPart(c)
    PROVE  PhotoPart(c)'
<1>1. ASSUME NEW w \in Thread, NEW d \in Checkin, NEW color \in Colors, NEW photo \in BOOLEAN,
             Create(w, d, color, photo)
      PROVE  PhotoPart(c)'
  <2>1. /\ OthersKept(w) /\ request[w] = Idle /\ Made(w, d, color, photo) /\ Stored(d, color)
        /\ ~(template.rows > 0 /\ ~photo)
        /\ excused' = IF torn \/ Replacing THEN excused \cup {d} ELSE excused
        /\ UNCHANGED <<lost, refused>>
    BY <1>1, CreateIs DEF Create, MissingRequiredField
  <2>2. CASE c # d
    <3>1. (Exists(c)' => Exists(c)) /\ (checkin[c].photo => checkin'[c].photo) /\ ~At(w, "create", "attach")
      BY <2>1, <2>2 DEF Stored, Exists, At, Idle
    <3>2. QED
      BY <2>1, <3>1, PhotoAside
  <2>3. CASE c = d /\ photo
    <3>1. Holds(w, c)' /\ At(w, "create", "attach")'
      BY <2>1, <2>3 DEF Made, Holds, At
    <3>2. QED
      BY <3>1 DEF PhotoPart
  <2>4. CASE c = d /\ ~photo
    <3>1. template.rows = 0
      BY <2>1, <2>4 DEF RequestsInv, CheckinsTypeOK
    <3>2. c \in excused'
      BY <2>1, <2>4, <3>1 DEF FieldsPart
    <3>3. QED
      BY <3>2 DEF PhotoPart
  <2>5. QED
    BY <2>2, <2>3, <2>4
<1>2. ASSUME NEW w \in Thread, OthersKept(w), request[w] = Idle, checkin' = checkin, UNCHANGED <<excused, lost, refused>>
      PROVE  PhotoPart(c)'
  BY <1>2, PhotoAside DEF Exists, At, Idle
<1>3. ASSUME NEW w \in Thread, NEW d \in Checkin, NEW color \in Colors \cup {"keep"}, PatchRead(w, d, color)
      PROVE  PhotoPart(c)'
  BY <1>2, <1>3, PatchReadIs DEF PatchRead
<1>4. ASSUME NEW w \in Thread, NEW a \in Alert, NEW acknowledge \in BOOLEAN, NEW resolve \in BOOLEAN,
             AnswerRead(w, a, acknowledge, resolve)
      PROVE  PhotoPart(c)'
  BY <1>2, <1>4, AnswerReadIs DEF AnswerRead, history
<1>5. ASSUME NEW d \in Checkin, NEW photo \in BOOLEAN, SetPhoto(d, photo) PROVE PhotoPart(c)'
  <2>1. /\ checkin'[d].photo = photo
        /\ \A e \in Checkin : checkin'[e].color = checkin[e].color
        /\ \A e \in Checkin \ {d} : checkin'[e] = checkin[e]
        /\ request' = request /\ UNCHANGED <<lost, refused>>
        /\ excused' = IF photo THEN excused ELSE excused \cup {d}
    BY <1>5, SetPhotoIs DEF SetPhoto
  <2>2. Exists(c)' => Exists(c)
    BY <2>1 DEF Exists
  <2>3. CASE c = d /\ ~photo
    BY <2>1, <2>3 DEF PhotoPart
  <2>4. CASE c # d \/ photo
    <3>1. checkin[c].photo => checkin'[c].photo
      BY <2>1, <2>4
    <3>2. QED
      BY <2>1, <2>2, <3>1, PhotoStill DEF Holds, At
  <2>5. QED
    BY <2>3, <2>4
<1>6. CASE UNCHANGED checkinsVars \/ \E status \in {"paused", "ended"} : ChangeLink(status)
  <2>1. UNCHANGED <<checkin, request, excused, lost, refused>>
    BY <1>6, OutsideIs DEF history
  <2>2. QED
    BY <2>1 DEF PhotoPart, Exists, Holds, At
<1>7. QED
  BY <1>1, <1>3, <1>4, <1>5, <1>6, PhotoMoves, StepCases

DropInv ==
    /\ HearInv
    /\ \A c \in Checkin : TurnPart(c) /\ PhotoPart(c)
    /\ FieldsPart

LEMMA InitDrop == CheckinsInit => DropInv
<1> SUFFICES ASSUME CheckinsInit PROVE DropInv
  OBVIOUS
<1>1. HearInv
  BY InitHear
<1>2. FieldsPart
  <2>1. PICK w \in Thread : request[w] = CreatingTemplate
    BY DEF CheckinsInit
  <2>2. At(w, "edit", "insert")
    BY <2>1 DEF At, CreatingTemplate, Idle
  <2>3. QED
    BY <2>2 DEF FieldsPart, Replacing
<1>3. ASSUME NEW c \in Checkin PROVE TurnPart(c) /\ PhotoPart(c)
  <2>1. ~Exists(c) /\ turns[c] = 0 /\ feed.flag[c] = 0
    BY DEF CheckinsInit, Exists
  <2>2. \A w \in Thread : request[w].checkin = None
    BY DEF CheckinsInit, CreatingTemplate, Idle
  <2>3. Announced(c) = {}
    <3>1. \A a \in Alert : ~alert[a].raised
      BY DEF CheckinsInit
    <3>2. QED
      BY <3>1 DEF Announced, AlertsOf
  <2>4. Told(c) = 0
    BY <1>1, <2>1, <2>3, ToldIs, FS_EmptySet
  <2>5. TurnPart(c)
    BY <2>1, <2>2, <2>4, Distinct DEF TurnPart, Squared, Holds
  <2>6. QED
    BY <2>1, <2>5 DEF PhotoPart
<1>4. QED
  BY <1>1, <1>2, <1>3 DEF DropInv

LEMMA DropInvNext == DropInv /\ [CheckinsNext]_checkinsVars => DropInv'
<1> SUFFICES ASSUME DropInv, [CheckinsNext]_checkinsVars PROVE DropInv'
  OBVIOUS
<1>1. HearInv /\ HearInv' /\ RequestsInv
  BY HearInvNext DEF DropInv, HearInv
<1>2. FieldsPart'
  BY <1>1, FieldsNext DEF DropInv
<1>3. QED
  BY <1>1, <1>2, TurnPartNext, PhotoPartNext DEF DropInv

LEMMA DropInvImplies == DropInv => NothingIsDropped
<1> SUFFICES ASSUME DropInv PROVE NothingIsDropped
  OBVIOUS
<1>1. KeyholderHears /\ SubmissiveHears
  BY HeardByBoth DEF DropInv, HearInv
<1>2. ToldOncePerTurn
  BY DEF ToldOncePerTurn, DropInv, TurnPart, Squared
<1>3. RequiredPhotoOrCause
  BY DEF RequiredPhotoOrCause, DropInv, PhotoPart, Holds
<1>4. QED
  BY <1>1, <1>2, <1>3 DEF NothingIsDropped, AlertsAreHeard

\* Whatever requests overlap and wherever they are cut short, an alert is announced once and
\* its answer told, a check-in that one request at a time had in hand is told to be red as often
\* as it turned red, and a required photo is there or its absence has one of the named causes.
THEOREM NothingEverDropped == CheckinsSpec => []NothingIsDropped
BY InitDrop, DropInvNext, DropInvImplies, PTL DEF CheckinsSpec

-----------------------------------------------------------------------------
(* Check-ins: an alert for each turn.                                       *)

Follows(c) ==
    Cardinality(AlertsOf(c)' \ AlertsOf(c)) =
        IF Red(c)' /\ ~Red(c) /\ template.escalate THEN 1 ELSE 0

LEMMA FollowsNothing ==
    ASSUME NEW c \in Checkin, SameAlerts, checkin'[c].color = checkin[c].color
    PROVE  Follows(c)
<1>1. AlertsOf(c)' \ AlertsOf(c) = {} /\ (Red(c)' <=> Red(c))
  BY DEF SameAlerts, AlertsOf, Red
<1>2. QED
  BY <1>1, FS_EmptySet DEF Follows

LEMMA FollowsStore ==
    ASSUME NEW c \in Checkin, NEW d \in Checkin, NEW color, Stored(d, color)
    PROVE  Follows(c)
<1>1. CASE Raises(d, color) /\ c = d
  <2>1. PICK b \in Alert : Born(b, c)
    BY <1>1 DEF Stored, Born
  <2>2. AlertsOf(c)' \ AlertsOf(c) = {b}
    BY <2>1 DEF Born, AlertsOf
  <2>3. Red(c)' /\ ~Red(c) /\ template.escalate
    BY <1>1 DEF Raises, Stored, Red
  <2>4. QED
    BY <2>2, <2>3, FS_Singleton DEF Follows
<1>2. CASE Raises(d, color) /\ c # d
  <2>1. PICK b \in Alert : Born(b, d)
    BY <1>2 DEF Stored, Born
  <2>2. AlertsOf(c)' \ AlertsOf(c) = {}
    BY <1>2, <2>1 DEF Born, AlertsOf
  <2>3. Red(c)' <=> Red(c)
    BY <1>2 DEF Stored, Red
  <2>4. QED
    BY <2>2, <2>3, FS_EmptySet DEF Follows
<1>3. CASE ~Raises(d, color)
  <2>1. AlertsOf(c)' \ AlertsOf(c) = {}
    BY <1>3 DEF Stored, AlertsOf
  <2>2. ~(Red(c)' /\ ~Red(c) /\ template.escalate)
    BY <1>3 DEF Stored, Red, Raises
  <2>3. QED
    BY <2>1, <2>2, FS_EmptySet DEF Follows
<1>4. QED
  BY <1>1, <1>2, <1>3

LEMMA FollowsStep ==
    ASSUME RequestsInv, [CheckinsNext]_checkinsVars, NEW c \in Checkin
    PROVE  Follows(c)
<1>1. ASSUME checkin' = checkin, alert' = alert PROVE Follows(c)
  BY <1>1, FollowsNothing DEF SameAlerts
<1>2. ASSUME NEW w \in Thread, Moving(w) PROVE Follows(c)
  <2>1. CASE Attach(w)
    BY <2>1, AttachIs, FollowsNothing DEF Attach, SameAlerts
  <2>2. CASE PatchUpdate(w)
    BY <2>2, PatchUpdateIs, FollowsStore
  <2>3. CASE Raise(w)
    <3>1. PICK b \in Alert : Born(b, None)
      BY <2>3, RaiseIs
    <3>2. AlertsOf(c)' \ AlertsOf(c) = {} /\ checkin' = checkin
      BY <2>3, <3>1, Distinct DEF Raise, Born, AlertsOf
    <3>3. QED
      BY <3>2, FS_EmptySet DEF Follows, Red
  <2>4. CASE Acknowledge(w) \/ Resolve(w)
    <3>1. SameAlerts /\ checkin' = checkin
      BY <2>4, MarkingIs DEF Acknowledge, Resolve, Marks, SameAlerts
    <3>2. QED
      BY <3>1, FollowsNothing
  <2>5. CASE PatchTemplate(w)
    BY <1>1, <2>5, EditIs
  <2>6. QED
    BY <1>1, <1>2, <2>1, <2>2, <2>3, <2>4, <2>5
       DEF Moving, Abort, AttachRefused, Reread, Notify, TellKeyholder, TellSubmissive
<1>3. ASSUME NEW w \in Thread, NEW d \in Checkin, NEW color \in Colors, NEW photo \in BOOLEAN,
             Create(w, d, color, photo)
      PROVE  Follows(c)
  BY <1>3, CreateIs, FollowsStore
<1>4. ASSUME NEW d \in Checkin, NEW photo \in BOOLEAN, SetPhoto(d, photo) PROVE Follows(c)
  BY <1>4, SetPhotoIs, FollowsNothing DEF SetPhoto, SameAlerts
<1>5. CASE UNCHANGED checkinsVars \/ \E status \in {"paused", "ended"} : ChangeLink(status)
  BY <1>1, <1>5, OutsideIs
<1>6. QED
  BY <1>1, <1>2, <1>3, <1>4, <1>5, StepCases DEF PatchRead, AnswerRead

\* A check-in raises one alert in the step that turns it red under a template that escalates,
\* and none in any other: not on a second edit, and not for another check-in.
THEOREM AlertsAlwaysFollowRed == CheckinsSpec => AlertsFollowRed
<1> DEFINE Step == \A c \in Checkin :
                      Cardinality(AlertsOf(c)' \ AlertsOf(c)) =
                          IF Red(c)' /\ ~Red(c) /\ template.escalate THEN 1 ELSE 0
<1>1. RequestsInv /\ [CheckinsNext]_checkinsVars => [Step]_checkinsVars
  BY FollowsStep DEF Follows
<1>2. QED
  BY InitRequests, RequestsInvNext, <1>1, PTL DEF CheckinsSpec, AlertsFollowRed
=============================================================================
