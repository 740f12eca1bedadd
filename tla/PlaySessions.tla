----------------------------- MODULE PlaySessions -----------------------------
(***************************************************************************)
(* Play sessions, their check-in slots and the live stream of check-ins:    *)
(* src/domain/play_sessions.rs, src/api/play_sessions.rs, the check-in      *)
(* handlers of src/api/checkins.rs and the channels of src/live.rs.         *)
(*                                                                         *)
(* start, end, complete and cancel read the status and write it by id in    *)
(* two statements; a check-in is committed before its slot is looked up,    *)
(* and the slot is filled by a further statement.  Events are published     *)
(* after the commit, to channels kept in memory.  Judging is a transaction. *)
(***************************************************************************)
EXTENDS Naturals, Sequences, FiniteSets

CONSTANTS
    Session,        \* ids of rows of play_sessions
    Checkin,        \* ids of rows of checkins
    Viewer,         \* connections to checkin_stream
    Worker,         \* pool threads of the other handlers
    Channel,        \* broadcast channels, in memory
    NoSession, NoCheckin, NoChannel,
    Capacity,       \* CHANNEL_CAPACITY, the events a channel remembers
    MaxSlots,       \* bound of planned duration / check-in interval
    MaxConsequences \* bound of the assignments made by judgements

ASSUME PlaySessionsAssumption ==
    /\ NoSession \notin Session
    /\ NoCheckin \notin Checkin
    /\ NoChannel \notin Channel
    /\ Capacity \in Nat \ {0}
    /\ MaxSlots \in Nat
    /\ MaxConsequences \in Nat

VARIABLES
    session,    \* table play_sessions
    slots,      \* table play_session_checkin_schedule: per session, the check-ins in its slots
    checkin,    \* related_play_session_id of the rows of checkins
    given,      \* the assignments made by judgements, in the order of insertion
    channel,    \* PlaySessionStreams.channels: the channel registered for a session
    viewer,     \* per connection: its handler or its open stream
    job         \* per worker: the handler in flight and what it has read

vars == <<session, slots, checkin, given, channel, viewer, job>>

Statuses == {"absent", "scheduled", "in_progress", "pending_judgement", "completed", "cancelled"}
Sessions == [status : Statuses, started : BOOLEAN, ended : BOOLEAN,
             reward : Nat, punishment : Nat]        \* 0 is NULL
Consequences == [kind : {"reward", "punishment"}, of : Session]
Events == {"checkin_update", "session_ended"}
Viewers == [stage : {"new", "checked", "open", "closed"}, of : Session \cup {NoSession},
            on : Channel \cup {NoChannel}, queue : Seq(Events)]
Ops == {"start", "end", "complete", "cancel"}
Jobs == [op : Ops \cup {"idle", "find_slot", "fill_slot", "publish"},
         of : Session \cup {NoSession}, checkin : Checkin \cup {NoCheckin},
         slot : Nat, event : Events]

Idle == [op |-> "idle", of |-> NoSession, checkin |-> NoCheckin,
         slot |-> 0, event |-> "checkin_update"]
Unopened == [stage |-> "new", of |-> NoSession, on |-> NoChannel, queue |-> <<>>]
Gone == [Unopened EXCEPT !.stage = "closed"]

TypeOK ==
    /\ session \in [Session -> Sessions]
    /\ slots \in [Session -> Seq(Checkin \cup {NoCheckin})]
    /\ checkin \in [Checkin -> Session \cup {NoSession}]
    /\ given \in Seq(Consequences)
    /\ channel \in [Session -> Channel \cup {NoChannel}]
    /\ viewer \in [Viewer -> Viewers]
    /\ \A v \in Viewer : Len(viewer[v].queue) <= Capacity
    /\ job \in [Worker -> Jobs]

Init ==
    /\ session = [s \in Session |-> [status |-> "absent", started |-> FALSE, ended |-> FALSE,
                                     reward |-> 0, punishment |-> 0]]
    /\ slots = [s \in Session |-> <<>>]
    /\ checkin = [c \in Checkin |-> NoSession]
    /\ given = <<>>
    /\ channel = [s \in Session |-> NoChannel]
    /\ viewer = [v \in Viewer |-> Unopened]
    /\ job = [w \in Worker |-> Idle]

-----------------------------------------------------------------------------
(* The sessions.                                                            *)

\* One slot per whole interval in the planned duration; 0 is none given.
SlotCount(duration, interval) == IF interval > 0 THEN duration \div interval ELSE 0

\* Running once it has a start, waiting for its judgement once it has an end too.
StatusAtCreation(started, ended) ==
    IF started /\ ended THEN "pending_judgement"
    ELSE IF started THEN "in_progress" ELSE "scheduled"

\* The times are the keyholder's: an end without a start is recorded as well.
Create(s, started, ended, n) ==
    /\ session[s].status = "absent"
    /\ session' = [session EXCEPT ![s].status = StatusAtCreation(started, ended),
                                  ![s].started = started,
                                  ![s].ended = ended]
    /\ slots' = [slots EXCEPT ![s] = [i \in 1..n |-> NoCheckin]]
    /\ UNCHANGED <<checkin, given, channel, viewer, job>>

\* The statuses each request finds acceptable.
From == [start |-> {"scheduled"}, end |-> {"in_progress"}, complete |-> {"pending_judgement"},
         cancel |-> {"scheduled", "in_progress"}]

\* Mutant of Check: end is allowed before the start.
CheckLax(w, op, s) ==
    /\ job[w] = Idle
    /\ session[s].status \in From[op] \cup (IF op = "end" THEN {"scheduled"} ELSE {})
    /\ job' = [job EXCEPT ![w] = [Idle EXCEPT !.op = op, !.of = s]]
    /\ UNCHANGED <<session, slots, checkin, given, channel, viewer>>

Check(w, op, s) ==
    /\ job[w] = Idle
    /\ session[s].status \in From[op]
    /\ job' = [job EXCEPT ![w] = [Idle EXCEPT !.op = op, !.of = s]]
    /\ UNCHANGED <<session, slots, checkin, given, channel, viewer>>

Publishing(s, event) == [Idle EXCEPT !.op = "publish", !.of = s, !.event = event]

Start(w) ==
    /\ job[w].op = "start"
    /\ session' = [session EXCEPT ![job[w].of].status = "in_progress",
                                  ![job[w].of].started = TRUE]
    /\ job' = [job EXCEPT ![w] = Idle]
    /\ UNCHANGED <<slots, checkin, given, channel, viewer>>

End(w) ==
    /\ job[w].op = "end"
    /\ session' = [session EXCEPT ![job[w].of].status = "pending_judgement",
                                  ![job[w].of].ended = TRUE]
    /\ job' = [job EXCEPT ![w] = Publishing(job[w].of, "session_ended")]
    /\ UNCHANGED <<slots, checkin, given, channel, viewer>>

Complete(w) ==
    /\ job[w].op = "complete"
    /\ session' = [session EXCEPT ![job[w].of].status = "completed"]
    /\ job' = [job EXCEPT ![w] = Idle]
    /\ UNCHANGED <<slots, checkin, given, channel, viewer>>

Cancel(w) ==
    /\ job[w].op = "cancel"
    /\ session' = [session EXCEPT ![job[w].of].status = "cancelled"]
    /\ job' = [job EXCEPT ![w] = Publishing(job[w].of, "session_ended")]
    /\ UNCHANGED <<slots, checkin, given, channel, viewer>>

-----------------------------------------------------------------------------
(* Judgement, refused for a completed session only.                         *)

\* The assignments of a judgement, the reward before the punishment.
Made(s, kinds) ==
    (IF "reward" \in kinds THEN <<[kind |-> "reward", of |-> s]>> ELSE <<>>) \o
    (IF "punishment" \in kinds THEN <<[kind |-> "punishment", of |-> s]>> ELSE <<>>)

\* Mutant of Judge: a second judgement leaves the session's links alone.
JudgeKeepsFirst(s, kinds) ==
    LET made == Made(s, kinds) IN
    /\ session[s].status \notin {"absent", "completed"}
    /\ kinds # {}
    /\ Len(given) + Len(made) <= MaxConsequences
    /\ given' = given \o made
    /\ session' = [session EXCEPT
         ![s].reward = IF "reward" \in kinds /\ @ = 0 THEN Len(given) + 1 ELSE @,
         ![s].punishment = IF "punishment" \in kinds /\ @ = 0 THEN Len(given) + Len(made) ELSE @]
    /\ UNCHANGED <<slots, checkin, channel, viewer, job>>

Judge(s, kinds) ==
    LET made == Made(s, kinds) IN
    /\ session[s].status \notin {"absent", "completed"}
    /\ kinds # {}
    /\ Len(given) + Len(made) <= MaxConsequences
    /\ given' = given \o made
    /\ session' = [session EXCEPT
         ![s].reward = IF "reward" \in kinds THEN Len(given) + 1 ELSE @,
         ![s].punishment = IF "punishment" \in kinds THEN Len(given) + Len(made) ELSE @]
    /\ UNCHANGED <<slots, checkin, channel, viewer, job>>

-----------------------------------------------------------------------------
(* Check-ins.  A check-in names its session freely, whatever its status.    *)

CreateCheckin(w, c, s) ==
    /\ job[w] = Idle
    /\ checkin[c] = NoSession
    /\ session[s].status # "absent"
    /\ checkin' = [checkin EXCEPT ![c] = s]
    /\ job' = [job EXCEPT ![w] = [Idle EXCEPT !.op = "find_slot", !.of = s, !.checkin = c]]
    /\ UNCHANGED <<session, slots, given, channel, viewer>>

Open(s) == {i \in DOMAIN slots[s] : slots[s][i] = NoCheckin}

\* The earliest open slot, if there is one.
FindSlot(w) ==
    LET s == job[w].of IN
    /\ job[w].op = "find_slot"
    /\ \/ /\ Open(s) = {}
          /\ job' = [job EXCEPT ![w] = Publishing(s, "checkin_update")]
       \/ \E i \in Open(s) :
            /\ \A j \in Open(s) : i <= j
            /\ job' = [job EXCEPT ![w].op = "fill_slot", ![w].slot = i]
    /\ UNCHANGED <<session, slots, checkin, given, channel, viewer>>

\* Mutant of FillSlot: the slot after the one that was found is filled.
FillNextSlot(w) ==
    /\ job[w].op = "fill_slot"
    /\ slots' = [slots EXCEPT ![job[w].of] =
                   [i \in DOMAIN @ |-> IF i = job[w].slot + 1 THEN job[w].checkin ELSE @[i]]]
    /\ job' = [job EXCEPT ![w] = Publishing(job[w].of, "checkin_update")]
    /\ UNCHANGED <<session, checkin, given, channel, viewer>>

\* The slot is written by id, open or not by now.
FillSlot(w) ==
    /\ job[w].op = "fill_slot"
    /\ slots' = [slots EXCEPT ![job[w].of][job[w].slot] = job[w].checkin]
    /\ job' = [job EXCEPT ![w] = Publishing(job[w].of, "checkin_update")]
    /\ UNCHANGED <<session, checkin, given, channel, viewer>>

\* An edit of a check-in, or of the photo or memo attached to it.
PatchCheckin(w, c) ==
    /\ job[w] = Idle
    /\ checkin[c] # NoSession
    /\ job' = [job EXCEPT ![w] = Publishing(checkin[c], "checkin_update")]
    /\ UNCHANGED <<session, slots, checkin, given, channel, viewer>>

-----------------------------------------------------------------------------
(* The live stream.                                                         *)

Receivers(n) == {v \in Viewer : viewer[v].stage = "open" /\ viewer[v].on = n}

\* Mutant of Sent: the channel has no bound.
SentUnbounded(queue, event) == Append(queue, event)

\* A broadcast channel forgets its oldest event when it is full; the receiver
\* is told that it lagged and goes on with the next.
Sent(queue, event) ==
    IF Len(queue) < Capacity THEN Append(queue, event) ELSE Append(Tail(queue), event)

\* Mutant of Publish: a channel is reaped once an event is sent.
PublishReaping(w) ==
    LET s == job[w].of IN
    /\ job[w].op = "publish"
    /\ viewer' = [v \in Viewer |->
                    IF v \in Receivers(channel[s])
                    THEN [viewer[v] EXCEPT !.queue = Sent(@, job[w].event)] ELSE viewer[v]]
    /\ channel' = [channel EXCEPT ![s] = NoChannel]
    /\ job' = [job EXCEPT ![w] = Idle]
    /\ UNCHANGED <<session, slots, checkin, given>>

\* Nothing without a channel; a channel without receivers is removed.
Publish(w) ==
    LET s == job[w].of IN
    /\ job[w].op = "publish"
    /\ viewer' = [v \in Viewer |->
                    IF v \in Receivers(channel[s])
                    THEN [viewer[v] EXCEPT !.queue = Sent(@, job[w].event)] ELSE viewer[v]]
    /\ channel' = [channel EXCEPT ![s] = IF Receivers(@) = {} THEN NoChannel ELSE @]
    /\ job' = [job EXCEPT ![w] = Idle]
    /\ UNCHANGED <<session, slots, checkin, given>>

ViewerCheck(v, s) ==
    /\ viewer[v].stage = "new"
    /\ session[s].status = "in_progress"
    /\ viewer' = [viewer EXCEPT ![v].stage = "checked", ![v].of = s]
    /\ UNCHANGED <<session, slots, checkin, given, channel, job>>

InUse == {channel[s] : s \in Session} \cup {viewer[v].on : v \in Viewer}

\* The channel of the session, or a new one.
Subscribe(v) ==
    LET s == viewer[v].of IN
    /\ viewer[v].stage = "checked"
    /\ \E n \in Channel :
         /\ IF channel[s] = NoChannel THEN n \notin InUse ELSE n = channel[s]
         /\ channel' = [channel EXCEPT ![s] = n]
         /\ viewer' = [viewer EXCEPT ![v].stage = "open", ![v].on = n]
    /\ UNCHANGED <<session, slots, checkin, given, job>>

\* An update is forwarded; the end of the session is forwarded and ends the stream.
Receive(v) ==
    /\ viewer[v].stage = "open"
    /\ viewer[v].queue # <<>>
    /\ \/ /\ Head(viewer[v].queue) = "session_ended"
          /\ viewer' = [viewer EXCEPT ![v] = Gone]
       \/ /\ Head(viewer[v].queue) = "checkin_update"
          /\ viewer' = [viewer EXCEPT ![v].queue = Tail(@)]
    /\ UNCHANGED <<session, slots, checkin, given, channel, job>>

\* A file cannot be stored, a statement fails, or the client has gone and its handler is dropped.
Abandon(w) ==
    /\ job[w] # Idle
    /\ job' = [job EXCEPT ![w] = Idle]
    /\ UNCHANGED <<session, slots, checkin, given, channel, viewer>>

\* The browser goes away.
Disconnect(v) ==
    /\ viewer[v].stage = "open"
    /\ viewer' = [viewer EXCEPT ![v] = Gone]
    /\ UNCHANGED <<session, slots, checkin, given, channel, job>>

\* The process stops and starts again: requests, streams and channels are gone.
Crash ==
    /\ job' = [w \in Worker |-> Idle]
    /\ channel' = [s \in Session |-> NoChannel]
    /\ viewer' = [v \in Viewer |-> IF viewer[v].stage = "new" THEN viewer[v] ELSE Gone]
    /\ UNCHANGED <<session, slots, checkin, given>>

-----------------------------------------------------------------------------

(* The routes: each handler, with the steps between which others run.        *)

CreateSession ==
    \E s \in Session, started \in BOOLEAN, ended \in BOOLEAN,
       duration \in 0..MaxSlots, interval \in 0..MaxSlots :
        Create(s, started, ended, SlotCount(duration, interval))

StartSession(w) == Start(w) \/ \E s \in Session : Check(w, "start", s)
EndSession(w) == End(w) \/ \E s \in Session : Check(w, "end", s)
CompleteSession(w) == Complete(w) \/ \E s \in Session : Check(w, "complete", s)
CancelSession(w) == Cancel(w) \/ \E s \in Session : Check(w, "cancel", s)
JudgeSession == \E s \in Session, kinds \in SUBSET {"reward", "punishment"} : Judge(s, kinds)

CreateOwn(w) ==
    \/ \E c \in Checkin, s \in Session : CreateCheckin(w, c, s)
    \/ FindSlot(w)
    \/ FillSlot(w)

Handler(w) ==
    \/ StartSession(w) \/ EndSession(w) \/ CompleteSession(w) \/ CancelSession(w)
    \/ CreateOwn(w)
    \/ \E c \in Checkin : PatchCheckin(w, c)
    \/ Publish(w)
    \/ Abandon(w)

CheckinStream(v) ==
    \/ \E s \in Session : ViewerCheck(v, s)
    \/ Subscribe(v) \/ Receive(v) \/ Disconnect(v)

Next ==
    \/ CreateSession
    \/ JudgeSession
    \/ \E w \in Worker : Handler(w)
    \/ \E v \in Viewer : CheckinStream(v)
    \/ Crash

Spec == Init /\ [][Next]_vars

-----------------------------------------------------------------------------
(* Properties.                                                              *)

\* Whatever stale requests do to the status, a session past its start has its
\* start, and one that waits for its judgement or is completed has its end too
\* (create, start, end and complete in play_sessions.rs).
TimesAgree ==
    \A s \in Session :
        /\ session[s].status \in {"in_progress", "pending_judgement", "completed"} => session[s].started
        /\ session[s].status \in {"pending_judgement", "completed"} => session[s].ended

\* The filled slots come before the open ones and hold different check-ins of
\* their own session, so "N of M done" never counts a check-in twice, even
\* when two check-ins find the same slot (fulfill_next_schedule_slot).
SlotsFillInOrder ==
    \A s \in Session : \A i \in DOMAIN slots[s] : slots[s][i] # NoCheckin =>
        /\ checkin[slots[s][i]] = s
        /\ \A j \in 1..(i - 1) : slots[s][j] \notin {NoCheckin, slots[s][i]}

\* However requests overlap, the times fit the status and the slots their check-ins.
RecordsAgree == TimesAgree /\ SlotsFillInOrder

Consequence(s, kind) == {i \in DOMAIN given : given[i] = [kind |-> kind, of |-> s]}
LastOf(I) == IF I = {} THEN 0 ELSE CHOOSE i \in I : \A j \in I : j <= i

\* A session and the assignments of its judgements refer to each other: the
\* session to the last reward and the last punishment that name it (judge).
ConsequencesLinkBack ==
    \A s \in Session :
        /\ session[s].reward = LastOf(Consequence(s, "reward"))
        /\ session[s].punishment = LastOf(Consequence(s, "punishment"))

\* An open stream listens to the registered channel of its own session and of
\* no other, so that reaping a channel never cuts a viewer off (live.rs).
StreamsRegistered ==
    \A v \in Viewer : viewer[v].stage = "open" =>
        \A s \in Session : channel[s] = viewer[v].on <=> s = viewer[v].of

Ending(s) == \E w \in Worker : /\ job[w].of = s /\ job[w].op = "publish"
                               /\ job[w].event = "session_ended"

-----------------------------------------------------------------------------
(* What the documents say and the code does not do.                          *)

\* The stream ends once the session leaves in_progress: an open stream is of a
\* running session, or its end is sent or about to be (docs/13-checkins.md,
\* section 5; checkin_stream in api/play_sessions.rs).
StreamsAreLive ==
    \A v \in Viewer : viewer[v].stage = "open" =>
        \/ session[viewer[v].of].status = "in_progress"
        \/ Ending(viewer[v].of)
        \/ \E i \in DOMAIN viewer[v].queue : viewer[v].queue[i] = "session_ended"
=============================================================================
