-------------------------- MODULE PlaySessionsProofs --------------------------
(***************************************************************************)
(* Proofs about PlaySessions, for any number of sessions, check-ins,        *)
(* viewers, workers and channels.                                           *)
(*                                                                         *)
(* TypeOK is inductive alone.  TimesAgree needs what a request in flight     *)
(* remembers of the status it read (TimesInv), StreamsRegistered that no     *)
(* two sessions share a channel (StreamInv), SlotsFillInOrder that a         *)
(* check-in in flight is in no slot yet (SlotInv).                           *)
(***************************************************************************)
EXTENDS PlaySessions, SequenceTheorems, TLAPS

-----------------------------------------------------------------------------
(* Type correctness.                                                        *)

LEMMA IdleType == Idle \in Jobs /\ \A s \in Session, e \in Events : Publishing(s, e) \in Jobs
BY DEF Idle, Jobs, Publishing, Ops, Events

LEMMA GoneType == Unopened \in Viewers /\ Gone \in Viewers /\ Len(Gone.queue) = 0
<1>1. <<>> \in Seq(Events) /\ Len(<<>>) = 0
  OBVIOUS
<1>2. Unopened \in Viewers
  BY <1>1 DEF Unopened, Viewers
<1>3. Gone = [stage |-> "closed", of |-> NoSession, on |-> NoChannel, queue |-> <<>>]
  BY DEF Gone, Unopened
<1>4. QED
  BY <1>1, <1>2, <1>3 DEF Viewers

LEMMA MadeType ==
    ASSUME NEW s \in Session, NEW kinds \in SUBSET {"reward", "punishment"}
    PROVE  Made(s, kinds) \in Seq(Consequences)
<1> DEFINE R == IF "reward" \in kinds THEN <<[kind |-> "reward", of |-> s]>> ELSE <<>>
<1> DEFINE P == IF "punishment" \in kinds THEN <<[kind |-> "punishment", of |-> s]>> ELSE <<>>
<1>1. [kind |-> "reward", of |-> s] \in Consequences /\ [kind |-> "punishment", of |-> s] \in Consequences
  BY DEF Consequences
<1>2. R \in Seq(Consequences)
  BY <1>1
<1>3. P \in Seq(Consequences)
  BY <1>1
<1>4. Made(s, kinds) = R \o P
  BY DEF Made
<1> HIDE DEF R, P
<1>5. QED
  BY <1>2, <1>3, <1>4

\* A row of play_sessions with one or two columns written.
LEMMA StatusType ==
    ASSUME NEW x \in Sessions, NEW t \in Statuses
    PROVE  [x EXCEPT !.status = t] \in Sessions /\ [x EXCEPT !.status = t].status = t
BY DEF Sessions

LEMMA StartedType ==
    ASSUME NEW x \in Sessions, NEW t \in Statuses
    PROVE  /\ [x EXCEPT !.status = t, !.started = TRUE] \in Sessions
           /\ [x EXCEPT !.status = t, !.started = TRUE].status = t
BY DEF Sessions

LEMMA EndedType ==
    ASSUME NEW x \in Sessions, NEW t \in Statuses
    PROVE  /\ [x EXCEPT !.status = t, !.ended = TRUE] \in Sessions
           /\ [x EXCEPT !.status = t, !.ended = TRUE].status = t
BY DEF Sessions

LEMMA CreatedType ==
    ASSUME NEW x \in Sessions, NEW t \in Statuses, NEW b \in BOOLEAN, NEW e \in BOOLEAN
    PROVE  [x EXCEPT !.status = t, !.started = b, !.ended = e] \in Sessions
BY DEF Sessions

LEMMA JudgedType ==
    ASSUME NEW x \in Sessions, NEW m \in Nat, NEW n \in Nat
    PROVE  /\ [x EXCEPT !.reward = m, !.punishment = n] \in Sessions
           /\ [x EXCEPT !.reward = m, !.punishment = n].status = x.status
BY DEF Sessions

LEMMA SentType ==
    ASSUME NEW q \in Seq(Events), NEW e \in Events, Len(q) <= Capacity
    PROVE  Sent(q, e) \in Seq(Events) /\ Len(Sent(q, e)) <= Capacity
BY PlaySessionsAssumption DEF Sent

\* A request is of a session once it has left the worker's pool.
JobsOfSessions == \A w \in Worker : job[w].op # "idle" => job[w].of \in Session
FillsSlot == \A w \in Worker : job[w].op = "fill_slot" => job[w].slot \in DOMAIN slots[job[w].of]
AbsentIsEmpty == \A s \in Session : session[s].status = "absent" => slots[s] = <<>>
ViewersOfSessions == \A v \in Viewer : viewer[v].stage \in {"checked", "open"} => viewer[v].of \in Session

TInv == TypeOK /\ JobsOfSessions /\ FillsSlot /\ AbsentIsEmpty /\ ViewersOfSessions

LEMMA TInvInit == Init => TInv
BY PlaySessionsAssumption, IdleType, GoneType
   DEF Init, TInv, TypeOK, JobsOfSessions, FillsSlot, AbsentIsEmpty, ViewersOfSessions, Sessions, Statuses,
       Idle, Unopened

LEMMA OpsAre == {"start", "end", "complete", "cancel"} \subseteq Ops
BY DEF Ops

LEMMA CreationStatus ==
    ASSUME NEW started \in BOOLEAN, NEW ended \in BOOLEAN
    PROVE  StatusAtCreation(started, ended) \in Statuses
BY DEF StatusAtCreation, Statuses

LEMMA SlotCountIsNat ==
    ASSUME NEW d \in 0..MaxSlots, NEW i \in 0..MaxSlots
    PROVE  SlotCount(d, i) \in Nat
<1>1. d \in Nat /\ i \in Nat
  BY PlaySessionsAssumption
<1>2. i > 0 => d \div i \in Nat
  BY <1>1
<1>3. QED
  BY <1>2 DEF SlotCount

\* A handler writes its worker's job and a session's row only.
LEMMA SessionWriteTInv ==
    ASSUME TInv, NEW w \in Worker, job[w].op # "idle",
           session' \in [Session -> Sessions],
           \A t \in Session : session'[t].status = "absent" => session[t].status = "absent",
           NEW j \in Jobs, job' = [job EXCEPT ![w] = j],
           j.op \in {"idle", "publish"}, j.op = "publish" => j.of \in Session,
           UNCHANGED <<slots, checkin, given, channel, viewer>>
    PROVE  TInv'
BY DEF TInv, TypeOK, JobsOfSessions, FillsSlot, AbsentIsEmpty, ViewersOfSessions

LEMMA TInvNext == TInv /\ [Next]_vars => TInv'
<1> SUFFICES ASSUME TInv, [Next]_vars PROVE TInv'
  OBVIOUS
<1> USE PlaySessionsAssumption
<1>1. ASSUME NEW s \in Session, NEW started \in BOOLEAN, NEW ended \in BOOLEAN, NEW n \in Nat,
             Create(s, started, ended, n)
      PROVE  TInv'
  <2>1. session' \in [Session -> Sessions]
    <3> DEFINE status == StatusAtCreation(started, ended)
    <3> DEFINE x == [session[s] EXCEPT !.status = status, !.started = started, !.ended = ended]
    <3>1. session[s] \in Sessions /\ status \in Statuses
      BY CreationStatus DEF TInv, TypeOK
    <3>2. session' = [session EXCEPT ![s] = x]
      BY <1>1 DEF Create, TInv, TypeOK
    <3> HIDE DEF status
    <3>3. x \in Sessions
      BY <3>1, CreatedType
    <3> HIDE DEF x
    <3>4. QED
      BY <3>2, <3>3 DEF TInv, TypeOK
  <2>2. slots' \in [Session -> Seq(Checkin \cup {NoCheckin})]
    <3>1. [i \in 1..n |-> NoCheckin] \in Seq(Checkin \cup {NoCheckin})
      OBVIOUS
    <3>2. QED
      BY <1>1, <3>1 DEF Create, TInv, TypeOK
  <2>3. QED
    <3>1. slots[s] = <<>>
      BY <1>1 DEF Create, TInv, AbsentIsEmpty
    <3>2. ASSUME NEW w \in Worker, job[w].op = "fill_slot" PROVE job[w].of # s
      BY <3>1, <3>2 DEF TInv, FillsSlot
    <3>3. \A t \in Session : t # s => session'[t] = session[t] /\ slots'[t] = slots[t]
      BY <1>1 DEF Create, TInv, TypeOK
    <3>4. session'[s].status # "absent"
      BY <1>1 DEF Create, StatusAtCreation, TInv, TypeOK, Sessions
    <3>5. FillsSlot' /\ AbsentIsEmpty' /\ JobsOfSessions' /\ ViewersOfSessions'
      BY <1>1, <3>2, <3>3, <3>4 DEF Create, TInv, JobsOfSessions, FillsSlot, AbsentIsEmpty, ViewersOfSessions
    <3>6. QED
      BY <1>1, <2>1, <2>2, <3>5 DEF Create, TInv, TypeOK
<1>2. ASSUME NEW s \in Session, NEW kinds \in SUBSET {"reward", "punishment"}, Judge(s, kinds)
      PROVE  TInv'
  <2>1. given' \in Seq(Consequences) /\ Len(given) \in Nat /\ Len(Made(s, kinds)) \in Nat
    BY <1>2, MadeType DEF Judge, TInv, TypeOK
  <2>2. session' \in [Session -> Sessions]
        /\ \A t \in Session : session'[t].status = session[t].status
    <3> DEFINE m == IF "reward" \in kinds THEN Len(given) + 1 ELSE session[s].reward
    <3> DEFINE k == IF "punishment" \in kinds THEN Len(given) + Len(Made(s, kinds))
                    ELSE session[s].punishment
    <3> DEFINE x == [session[s] EXCEPT !.reward = m, !.punishment = k]
    <3>1. session[s] \in Sessions
      BY DEF TInv, TypeOK
    <3>2. m \in Nat /\ k \in Nat /\ "absent" \in Statuses
      BY <2>1, <3>1 DEF Sessions, Statuses
    <3>3. session' = [session EXCEPT ![s] = x]
      BY <1>2 DEF Judge, TInv, TypeOK
    <3> HIDE DEF m, k
    <3>4. x \in Sessions /\ x.status = session[s].status
      BY <3>1, <3>2, JudgedType
    <3> HIDE DEF x
    <3>5. QED
      BY <3>3, <3>4 DEF TInv, TypeOK
  <2>3. QED
    BY <1>2, <2>1, <2>2 DEF Judge, TInv, TypeOK, JobsOfSessions, FillsSlot, AbsentIsEmpty, ViewersOfSessions
<1>3. ASSUME NEW w \in Worker, Handler(w) PROVE TInv'
  <2>1. ASSUME NEW s \in Session, NEW op \in Ops, Check(w, op, s) PROVE TInv'
    <3>1. [Idle EXCEPT !.op = op, !.of = s] \in Jobs
      BY IdleType DEF Idle, Jobs
    <3>2. QED
      BY <2>1, <3>1 DEF Check, TInv, TypeOK, JobsOfSessions, FillsSlot, AbsentIsEmpty, ViewersOfSessions, Ops, Idle
  <2>2. ASSUME NEW c \in Checkin, NEW s \in Session, CreateCheckin(w, c, s) PROVE TInv'
    <3>1. [Idle EXCEPT !.op = "find_slot", !.of = s, !.checkin = c] \in Jobs
      BY IdleType DEF Idle, Jobs
    <3>2. QED
      BY <2>2, <3>1 DEF CreateCheckin, TInv, TypeOK, JobsOfSessions, FillsSlot, AbsentIsEmpty, ViewersOfSessions, Idle
  <2>3. ASSUME NEW c \in Checkin, PatchCheckin(w, c) PROVE TInv'
    <3>1. checkin[c] \in Session /\ Publishing(checkin[c], "checkin_update") \in Jobs
      BY <2>3, IdleType DEF PatchCheckin, TInv, TypeOK, Events
    <3>2. QED
      BY <2>3, <3>1 DEF PatchCheckin, TInv, TypeOK, JobsOfSessions, FillsSlot, AbsentIsEmpty, ViewersOfSessions, Publishing, Idle
  <2>4. CASE Start(w)
    <3> DEFINE s == job[w].of
    <3> DEFINE x == [session[s] EXCEPT !.status = "in_progress", !.started = TRUE]
    <3>a. s \in Session /\ session[s] \in Sessions /\ "in_progress" \in Statuses
      BY <2>4 DEF Start, TInv, TypeOK, JobsOfSessions, Statuses
    <3>b. session' = [session EXCEPT ![s] = x]
      BY <2>4, <3>a DEF Start, TInv, TypeOK
    <3>c. x \in Sessions /\ x.status # "absent"
      BY <3>a, StartedType, ZenonT(60)
    <3> HIDE DEF x
    <3>1. session' \in [Session -> Sessions]
          /\ \A t \in Session : session'[t].status = "absent" => session[t].status = "absent"
      BY <3>a, <3>b, <3>c DEF TInv, TypeOK
    <3>2. QED
      BY <2>4, <3>1, IdleType, SessionWriteTInv DEF Start, Idle
  <2>5. CASE End(w)
    <3> DEFINE s == job[w].of
    <3> DEFINE x == [session[s] EXCEPT !.status = "pending_judgement", !.ended = TRUE]
    <3>a. s \in Session /\ session[s] \in Sessions /\ "pending_judgement" \in Statuses
      BY <2>5 DEF End, TInv, TypeOK, JobsOfSessions, Statuses
    <3>b. session' = [session EXCEPT ![s] = x]
      BY <2>5, <3>a DEF End, TInv, TypeOK
    <3>c. x \in Sessions /\ x.status # "absent"
      BY <3>a, EndedType, ZenonT(60)
    <3> HIDE DEF x
    <3>1. session' \in [Session -> Sessions] /\ job[w].of \in Session
          /\ \A t \in Session : session'[t].status = "absent" => session[t].status = "absent"
      BY <3>a, <3>b, <3>c DEF TInv, TypeOK
    <3>2. Publishing(job[w].of, "session_ended") \in Jobs
      BY <3>1, IdleType DEF Events
    <3>3. QED
      BY <2>5, <3>1, <3>2, SessionWriteTInv DEF End, Publishing, Idle
  <2>6. CASE Complete(w)
    <3> DEFINE s == job[w].of
    <3> DEFINE x == [session[s] EXCEPT !.status = "completed"]
    <3>a. s \in Session /\ session[s] \in Sessions /\ "completed" \in Statuses
      BY <2>6 DEF Complete, TInv, TypeOK, JobsOfSessions, Statuses
    <3>b. session' = [session EXCEPT ![s] = x]
      BY <2>6, <3>a DEF Complete, TInv, TypeOK
    <3>c. x \in Sessions /\ x.status # "absent"
      BY <3>a, StatusType
    <3> HIDE DEF x
    <3>1. session' \in [Session -> Sessions]
          /\ \A t \in Session : session'[t].status = "absent" => session[t].status = "absent"
      BY <3>a, <3>b, <3>c DEF TInv, TypeOK
    <3>2. QED
      BY <2>6, <3>1, IdleType, SessionWriteTInv DEF Complete, Idle
  <2>7. CASE Cancel(w)
    <3> DEFINE s == job[w].of
    <3> DEFINE x == [session[s] EXCEPT !.status = "cancelled"]
    <3>a. s \in Session /\ session[s] \in Sessions /\ "cancelled" \in Statuses
      BY <2>7 DEF Cancel, TInv, TypeOK, JobsOfSessions, Statuses
    <3>b. session' = [session EXCEPT ![s] = x]
      BY <2>7, <3>a DEF Cancel, TInv, TypeOK
    <3>c. x \in Sessions /\ x.status # "absent"
      BY <3>a, StatusType
    <3> HIDE DEF x
    <3>1. session' \in [Session -> Sessions] /\ job[w].of \in Session
          /\ \A t \in Session : session'[t].status = "absent" => session[t].status = "absent"
      BY <3>a, <3>b, <3>c DEF TInv, TypeOK
    <3>2. Publishing(job[w].of, "session_ended") \in Jobs
      BY <3>1, IdleType DEF Events
    <3>3. QED
      BY <2>7, <3>1, <3>2, SessionWriteTInv DEF Cancel, Publishing, Idle
  <2>8. CASE FindSlot(w)
    <3>1. job[w] \in Jobs /\ job[w].of \in Session /\ Open(job[w].of) \subseteq Nat
          /\ slots[job[w].of] \in Seq(Checkin \cup {NoCheckin})
      BY <2>8 DEF FindSlot, TInv, TypeOK, JobsOfSessions, Open
    <3>2. CASE job' = [job EXCEPT ![w] = Publishing(job[w].of, "checkin_update")]
      BY <2>8, <3>1, <3>2, IdleType
         DEF FindSlot, TInv, TypeOK, JobsOfSessions, FillsSlot, AbsentIsEmpty, ViewersOfSessions, Publishing, Idle, Events
    <3>3. ASSUME NEW i \in Open(job[w].of),
                 job' = [job EXCEPT ![w].op = "fill_slot", ![w].slot = i]
          PROVE  TInv'
      <4>1. [job[w] EXCEPT !.op = "fill_slot", !.slot = i] \in Jobs
        BY <3>1 DEF Jobs
      <4>2. job' = [job EXCEPT ![w] = [job[w] EXCEPT !.op = "fill_slot", !.slot = i]]
        BY <3>3 DEF TInv, TypeOK
      <4>3. i \in DOMAIN slots[job[w].of]
        BY DEF Open
      <4>4. QED
        BY <2>8, <3>1, <4>1, <4>2, <4>3
           DEF FindSlot, TInv, TypeOK, JobsOfSessions, FillsSlot, AbsentIsEmpty, ViewersOfSessions, Jobs
    <3>4. QED
      BY <2>8, <3>2, <3>3 DEF FindSlot
  <2>9. CASE FillSlot(w)
    <3> DEFINE s == job[w].of
    <3>1. s \in Session /\ slots[s] \in Seq(Checkin \cup {NoCheckin})
          /\ job[w].slot \in DOMAIN slots[s] /\ job[w].checkin \in Checkin \cup {NoCheckin}
      BY <2>9 DEF FillSlot, TInv, TypeOK, JobsOfSessions, FillsSlot, Jobs
    <3>2. [slots[s] EXCEPT ![job[w].slot] = job[w].checkin] \in Seq(Checkin \cup {NoCheckin})
      BY <3>1
    <3>3. slots' = [slots EXCEPT ![s] = [slots[s] EXCEPT ![job[w].slot] = job[w].checkin]]
      BY <2>9 DEF FillSlot
    <3>4. slots' \in [Session -> Seq(Checkin \cup {NoCheckin})]
          /\ \A t \in Session : DOMAIN slots'[t] = DOMAIN slots[t]
          /\ \A r \in Session : slots[r] = <<>> => slots'[r] = <<>>
      BY <3>1, <3>2, <3>3 DEF TInv, TypeOK
    <3>5. Publishing(s, "checkin_update") \in Jobs
      BY <3>1, IdleType DEF Events
    <3>6. QED
      BY <2>9, <3>1, <3>4, <3>5
         DEF FillSlot, TInv, TypeOK, JobsOfSessions, FillsSlot, AbsentIsEmpty, ViewersOfSessions, Publishing, Idle
  <2>10. CASE Publish(w)
    <3>1. job[w].event \in Events
      BY DEF TInv, TypeOK, Jobs
    <3>2. ASSUME NEW v \in Viewer
          PROVE  /\ [viewer[v] EXCEPT !.queue = Sent(@, job[w].event)] \in Viewers
                 /\ Len(Sent(viewer[v].queue, job[w].event)) <= Capacity
      BY <3>1, SentType DEF TInv, TypeOK, Viewers
    <3>3. viewer' \in [Viewer -> Viewers] /\ \A v \in Viewer : Len(viewer'[v].queue) <= Capacity
      BY <2>10, <3>2 DEF Publish, TInv, TypeOK, Viewers
    <3>4. ViewersOfSessions'
      BY <2>10 DEF Publish, TInv, TypeOK, ViewersOfSessions, Viewers
    <3>5. job' \in [Worker -> Jobs] /\ JobsOfSessions' /\ FillsSlot'
      BY <2>10, IdleType DEF Publish, TInv, TypeOK, JobsOfSessions, FillsSlot, Idle
    <3>6. channel' \in [Session -> Channel \cup {NoChannel}]
      BY <2>10 DEF Publish, TInv, TypeOK
    <3>7. QED
      BY <2>10, <3>3, <3>4, <3>5, <3>6 DEF Publish, TInv, TypeOK, AbsentIsEmpty
  <2>11. CASE Abandon(w)
    BY <2>11, IdleType DEF Abandon, TInv, TypeOK, JobsOfSessions, FillsSlot, AbsentIsEmpty, ViewersOfSessions, Idle
  <2>12. QED
    BY <1>3, <2>1, <2>2, <2>3, <2>4, <2>5, <2>6, <2>7, <2>8, <2>9, <2>10, <2>11, OpsAre
       DEF Handler, StartSession, EndSession, CompleteSession, CancelSession, CreateOwn
<1>4. ASSUME NEW v \in Viewer, CheckinStream(v) PROVE TInv'
  <2>1. ASSUME NEW s \in Session, ViewerCheck(v, s) PROVE TInv'
    <3>1. /\ viewer' = [viewer EXCEPT ![v].stage = "checked", ![v].of = s]
          /\ viewer \in [Viewer -> Viewers] /\ ViewersOfSessions
          /\ UNCHANGED <<session, slots, checkin, given, channel, job>>
      BY <2>1 DEF ViewerCheck, TInv, TypeOK
    <3>2. viewer' \in [Viewer -> Viewers] /\ \A u \in Viewer : viewer'[u].queue = viewer[u].queue
      BY <3>1 DEF Viewers
    <3>3. ViewersOfSessions'
      BY <3>1 DEF Viewers, ViewersOfSessions
    <3>4. QED
      BY <3>1, <3>2, <3>3 DEF TInv, TypeOK, JobsOfSessions, FillsSlot, AbsentIsEmpty
  <2>2. CASE Subscribe(v)
    <3>1. PICK n \in Channel : /\ channel' = [channel EXCEPT ![viewer[v].of] = n]
                              /\ viewer' = [viewer EXCEPT ![v].stage = "open", ![v].on = n]
      BY <2>2 DEF Subscribe
    <3> DEFINE y == [viewer[v] EXCEPT !.stage = "open", !.on = n]
    <3>2. viewer[v] \in Viewers /\ viewer[v].of \in Session
      BY <2>2 DEF Subscribe, TInv, TypeOK, ViewersOfSessions
    <3>3. y \in Viewers /\ y.of = viewer[v].of /\ y.queue = viewer[v].queue
      BY <3>2 DEF Viewers
    <3>4. viewer' = [viewer EXCEPT ![v] = y]
      BY <3>1 DEF TInv, TypeOK
    <3> HIDE DEF y
    <3>5. /\ viewer' \in [Viewer -> Viewers] /\ ViewersOfSessions'
          /\ \A u \in Viewer : Len(viewer'[u].queue) <= Capacity
      BY <3>2, <3>3, <3>4 DEF TInv, TypeOK, ViewersOfSessions
    <3>6. QED
      BY <2>2, <3>1, <3>5 DEF Subscribe, TInv, TypeOK, JobsOfSessions, FillsSlot, AbsentIsEmpty
  <2>3. CASE Receive(v)
    <3>1. viewer[v] \in Viewers /\ viewer[v].queue \in Seq(Events) /\ viewer[v].queue # <<>>
      BY <2>3 DEF Receive, TInv, TypeOK, Viewers
    <3>2. /\ Tail(viewer[v].queue) \in Seq(Events)
          /\ Len(Tail(viewer[v].queue)) <= Capacity
      <4>1. Len(viewer[v].queue) <= Capacity
        BY DEF TInv, TypeOK
      <4>2. QED
        BY <3>1, <4>1
    <3> DEFINE q == Tail(viewer[v].queue)
    <3> DEFINE y == [viewer[v] EXCEPT !.queue = q]
    <3>a. y \in Viewers /\ y.queue = q /\ y.stage = viewer[v].stage /\ y.of = viewer[v].of
      <4> HIDE DEF q
      <4>1. q \in Seq(Events)
        BY <3>2 DEF q
      <4>2. QED
        BY <3>1, <4>1 DEF Viewers
    <3>b. viewer' = [viewer EXCEPT ![v] = Gone] \/ viewer' = [viewer EXCEPT ![v] = y]
      BY <2>3 DEF Receive, TInv, TypeOK
    <3> HIDE DEF y
    <3>3. viewer' \in [Viewer -> Viewers] /\ \A u \in Viewer : Len(viewer'[u].queue) <= Capacity
      <4> HIDE DEF q
      <4>1. Gone \in Viewers /\ Len(Gone.queue) <= Capacity
        BY GoneType, PlaySessionsAssumption
      <4>2. y \in Viewers /\ Len(y.queue) <= Capacity
        BY <3>2, <3>a DEF q
      <4>3. QED
        BY <3>b, <4>1, <4>2, ZenonT(60) DEF TInv, TypeOK
    <3>4. ViewersOfSessions'
      BY <3>a, <3>b, ZenonT(60) DEF TInv, TypeOK, ViewersOfSessions, Gone, Unopened
    <3>5. QED
      BY <2>3, <3>3, <3>4 DEF Receive, TInv, TypeOK, JobsOfSessions, FillsSlot, AbsentIsEmpty
  <2>4. CASE Disconnect(v)
    BY <2>4, GoneType DEF Disconnect, TInv, TypeOK, JobsOfSessions, FillsSlot, AbsentIsEmpty, ViewersOfSessions, Gone, Unopened
  <2>5. QED
    BY <1>4, <2>1, <2>2, <2>3, <2>4 DEF CheckinStream
<1>5. CASE Crash
  BY <1>5, GoneType, IdleType
     DEF Crash, TInv, TypeOK, JobsOfSessions, FillsSlot, AbsentIsEmpty, ViewersOfSessions, Gone, Unopened, Idle
<1>6. CASE UNCHANGED vars
  BY <1>6 DEF vars, TInv, TypeOK, JobsOfSessions, FillsSlot, AbsentIsEmpty, ViewersOfSessions
<1>7. QED
  BY <1>1, <1>2, <1>3, <1>4, <1>5, <1>6, SlotCountIsNat DEF Next, CreateSession, JudgeSession

LEMMA Typed == Spec => []TInv
BY TInvInit, TInvNext, PTL DEF Spec

\* Every reachable state has the declared types, and no channel ever holds more
\* events than its capacity (live.rs, CHANNEL_CAPACITY).
THEOREM TypeCorrect == Spec => []TypeOK
BY Typed, PTL DEF TInv

-----------------------------------------------------------------------------
(* Starts and ends.                                                         *)

\* What a request in flight read is still true of the times, if not of the status.
PastReads == \A w \in Worker :
    /\ job[w].op = "end" => session[job[w].of].started
    /\ job[w].op = "complete" => session[job[w].of].started /\ session[job[w].of].ended
AbsentHasNoTimes == \A s \in Session :
    session[s].status = "absent" => ~session[s].started /\ ~session[s].ended

TimesInv == TimesAgree /\ PastReads /\ AbsentHasNoTimes

LEMMA TimesInit == Init => TimesInv
BY DEF Init, TimesInv, TimesAgree, PastReads, AbsentHasNoTimes, Idle

\* A step that writes no session and starts no end and no complete.
LEMMA TimesKept ==
    ASSUME TimesInv, UNCHANGED session,
           \A v \in Worker : job'[v] = job[v] \/ job'[v].op \notin {"end", "complete"}
    PROVE  TimesInv'
BY DEF TimesInv, TimesAgree, PastReads, AbsentHasNoTimes

\* A step of worker w that writes the row of its session.
LEMMA TimesWritten ==
    ASSUME TInv, TimesInv, NEW w \in Worker, job[w].op # "idle",
           NEW x \in Sessions, session' = [session EXCEPT ![job[w].of] = x],
           x.status # "absent",
           session[job[w].of].started => x.started,
           session[job[w].of].ended => x.ended,
           x.status \in {"in_progress", "pending_judgement", "completed"} => x.started,
           x.status \in {"pending_judgement", "completed"} => x.ended,
           NEW j, job' = [job EXCEPT ![w] = j], j.op \notin {"end", "complete"}
    PROVE  TimesInv'
<1> DEFINE s == job[w].of
<1>1. s \in Session
  BY DEF TInv, JobsOfSessions
<1>2. session'[s] = x /\ \A t \in Session : t # s => session'[t] = session[t]
  BY <1>1 DEF TInv, TypeOK
<1>3. job'[w] = j /\ \A v \in Worker : v # w => job'[v] = job[v]
  BY DEF TInv, TypeOK
<1>4. TimesAgree' /\ AbsentHasNoTimes'
  BY <1>2 DEF TimesInv, TimesAgree, AbsentHasNoTimes
<1>5. PastReads'
  <2> SUFFICES ASSUME NEW v \in Worker
               PROVE  /\ job'[v].op = "end" => session'[job'[v].of].started
                      /\ job'[v].op = "complete" =>
                            session'[job'[v].of].started /\ session'[job'[v].of].ended
    BY DEF PastReads
  <2>1. CASE v = w
    BY <1>3, <2>1
  <2>2. CASE v # w /\ job[v].of = s
    BY <1>2, <1>3, <2>2 DEF TimesInv, PastReads
  <2>3. CASE v # w /\ job[v].of # s
    <3>1. job[v].op \in {"end", "complete"} => job[v].of \in Session
      BY DEF TInv, JobsOfSessions
    <3>2. QED
      BY <1>2, <1>3, <2>3, <3>1 DEF TimesInv, PastReads
  <2>4. QED
    BY <2>1, <2>2, <2>3
<1>6. QED
  BY <1>4, <1>5 DEF TimesInv

LEMMA TimesNext == TInv /\ TimesInv /\ [Next]_vars => TimesInv'
<1> SUFFICES ASSUME TInv, TimesInv, [Next]_vars PROVE TimesInv'
  OBVIOUS
<1>1. ASSUME NEW s \in Session, NEW started \in BOOLEAN, NEW ended \in BOOLEAN, NEW n \in Nat,
             Create(s, started, ended, n)
      PROVE  TimesInv'
  <2>1. /\ session'[s].status = StatusAtCreation(started, ended)
        /\ session'[s].started = started
        /\ session'[s].ended = ended
    BY <1>1 DEF Create, TInv, TypeOK, Sessions
  <2>2. \A t \in Session : t # s => session'[t] = session[t]
    BY <1>1 DEF Create, TInv, TypeOK
  <2>3. ~session[s].started /\ ~session[s].ended
    BY <1>1 DEF Create, TimesInv, AbsentHasNoTimes
  <2>4. TimesAgree' /\ AbsentHasNoTimes'
    BY <2>1, <2>2 DEF StatusAtCreation, TimesInv, TimesAgree, AbsentHasNoTimes
  <2>5. PastReads'
    <3>1. \A w \in Worker : job'[w] = job[w] /\ (job[w].op \in {"end", "complete"} => job[w].of \in Session)
      BY <1>1 DEF Create, TInv, JobsOfSessions
    <3>2. QED
      BY <2>2, <2>3, <3>1 DEF TimesInv, PastReads
  <2>6. QED
    BY <2>4, <2>5 DEF TimesInv
<1>2. ASSUME NEW s \in Session, NEW kinds \in SUBSET {"reward", "punishment"}, Judge(s, kinds)
      PROVE  TimesInv'
  <2>1. \A t \in Session : /\ session'[t].status = session[t].status
                           /\ session'[t].started = session[t].started
                           /\ session'[t].ended = session[t].ended
    BY <1>2 DEF Judge, TInv, TypeOK, Sessions
  <2>2. \A w \in Worker : job'[w] = job[w] /\ (job[w].op \in {"end", "complete"} => job[w].of \in Session)
    BY <1>2 DEF Judge, TInv, JobsOfSessions
  <2>3. TimesAgree' /\ AbsentHasNoTimes'
    BY <2>1 DEF TimesInv, TimesAgree, AbsentHasNoTimes
  <2>4. PastReads'
    BY <2>1, <2>2 DEF TimesInv, PastReads
  <2>5. QED
    BY <2>3, <2>4 DEF TimesInv
<1>3. ASSUME NEW w \in Worker, Handler(w) PROVE TimesInv'
  <2>1. ASSUME NEW s \in Session, NEW op \in Ops, Check(w, op, s) PROVE TimesInv'
    <3>1. job'[w].op = op /\ job'[w].of = s /\ \A v \in Worker : v # w => job'[v] = job[v]
      BY <2>1 DEF Check, TInv, TypeOK, Idle
    <3>2. /\ op = "end" => session[s].started
          /\ op = "complete" => session[s].started /\ session[s].ended
      BY <2>1 DEF Check, From, TimesInv, TimesAgree
    <3>3. UNCHANGED session
      BY <2>1 DEF Check
    <3>4. PastReads'
      BY <3>1, <3>2, <3>3 DEF TimesInv, PastReads
    <3>5. QED
      BY <3>3, <3>4 DEF TimesInv, TimesAgree, AbsentHasNoTimes
  <2>2. ASSUME NEW c \in Checkin, NEW s \in Session, CreateCheckin(w, c, s) PROVE TimesInv'
    BY <2>2, TimesKept DEF CreateCheckin, TInv, TypeOK, Idle
  <2>3. ASSUME NEW c \in Checkin, PatchCheckin(w, c) PROVE TimesInv'
    BY <2>3, TimesKept DEF PatchCheckin, TInv, TypeOK, Publishing, Idle
  <2>4. CASE FindSlot(w) \/ FillSlot(w) \/ Publish(w)
    <3>1. \A v \in Worker : v # w => job'[v] = job[v]
      BY <2>4 DEF FindSlot, FillSlot, Publish, TInv, TypeOK
    <3>2. job'[w].op \in {"fill_slot", "publish", "idle"}
      <4>1. \A t, e : Publishing(t, e).op = "publish"
        BY DEF Publishing, Idle
      <4>2. job[w] \in Jobs /\ job \in [Worker -> Jobs]
        BY DEF TInv, TypeOK
      <4>3. CASE FindSlot(w)
        <5>1. ASSUME NEW i \in Nat, job' = [job EXCEPT ![w].op = "fill_slot", ![w].slot = i]
              PROVE  job'[w].op = "fill_slot"
          BY <4>2, <5>1 DEF Jobs
        <5>2. Open(job[w].of) \subseteq Nat
          BY <4>3 DEF FindSlot, Open, TInv, TypeOK, JobsOfSessions
        <5>3. CASE job' = [job EXCEPT ![w] = Publishing(job[w].of, "checkin_update")]
          BY <4>1, <4>2, <5>3
        <5>4. QED
          BY <4>3, <5>1, <5>2, <5>3 DEF FindSlot
      <4>4. CASE FillSlot(w)
        BY <4>1, <4>2, <4>4 DEF FillSlot
      <4>5. CASE Publish(w)
        BY <4>2, <4>5 DEF Publish, Idle
      <4>6. QED
        BY <2>4, <4>3, <4>4, <4>5
    <3>3. QED
      BY <2>4, <3>1, <3>2, TimesKept DEF FindSlot, FillSlot, Publish
  <2>5. CASE Start(w)
    <3> DEFINE x == [session[job[w].of] EXCEPT !.status = "in_progress", !.started = TRUE]
    <3>1. job[w].of \in Session /\ session[job[w].of] \in Sessions /\ "in_progress" \in Statuses
      BY <2>5 DEF Start, TInv, TypeOK, JobsOfSessions, Statuses
    <3>2. x \in Sessions
      BY <3>1, StartedType
    <3>3. x.status = "in_progress" /\ x.started /\ (x.ended <=> session[job[w].of].ended)
      BY <3>1 DEF Sessions
    <3>4. session' = [session EXCEPT ![job[w].of] = x]
      BY <2>5, <3>1 DEF Start, TInv, TypeOK
    <3>5. job' = [job EXCEPT ![w] = Idle] /\ Idle.op = "idle" /\ job[w].op # "idle"
      BY <2>5 DEF Start, Idle
    <3> HIDE DEF x
    <3>6. QED
      BY <3>2, <3>3, <3>4, <3>5, TimesWritten
  <2>6. CASE End(w)
    <3> DEFINE x == [session[job[w].of] EXCEPT !.status = "pending_judgement", !.ended = TRUE]
    <3>1. job[w].of \in Session /\ session[job[w].of] \in Sessions /\ "pending_judgement" \in Statuses
      BY <2>6 DEF End, TInv, TypeOK, JobsOfSessions, Statuses
    <3>2. x \in Sessions
      BY <3>1, EndedType
    <3>3. x.status = "pending_judgement" /\ x.ended /\ (x.started <=> session[job[w].of].started)
      BY <3>1 DEF Sessions
    <3>4. session' = [session EXCEPT ![job[w].of] = x]
      BY <2>6, <3>1 DEF End, TInv, TypeOK
    <3> DEFINE j == Publishing(job[w].of, "session_ended")
    <3>5. job' = [job EXCEPT ![w] = j] /\ j.op = "publish" /\ job[w].op = "end"
      BY <2>6 DEF End, Publishing, Idle
    <3>6. session[job[w].of].started
      BY <3>5 DEF TimesInv, PastReads
    <3> HIDE DEF x, j
    <3>7. QED
      BY <3>2, <3>3, <3>4, <3>5, <3>6, TimesWritten
  <2>7. CASE Complete(w)
    <3> DEFINE x == [session[job[w].of] EXCEPT !.status = "completed"]
    <3>1. job[w].of \in Session /\ session[job[w].of] \in Sessions /\ "completed" \in Statuses
      BY <2>7 DEF Complete, TInv, TypeOK, JobsOfSessions, Statuses
    <3>2. x \in Sessions
      BY <3>1, StatusType
    <3>3. /\ x.status = "completed"
          /\ x.started <=> session[job[w].of].started
          /\ x.ended <=> session[job[w].of].ended
      BY <3>1 DEF Sessions
    <3>4. session' = [session EXCEPT ![job[w].of] = x]
      BY <2>7, <3>1 DEF Complete, TInv, TypeOK
    <3>5. job' = [job EXCEPT ![w] = Idle] /\ Idle.op = "idle" /\ job[w].op = "complete"
      BY <2>7 DEF Complete, Idle
    <3>6. session[job[w].of].ended /\ session[job[w].of].started
      BY <3>1, <3>5 DEF TimesInv, PastReads, TimesAgree
    <3> HIDE DEF x
    <3>7. QED
      BY <3>2, <3>3, <3>4, <3>5, <3>6, TimesWritten
  <2>8. CASE Cancel(w)
    <3> DEFINE x == [session[job[w].of] EXCEPT !.status = "cancelled"]
    <3>1. job[w].of \in Session /\ session[job[w].of] \in Sessions /\ "cancelled" \in Statuses
      BY <2>8 DEF Cancel, TInv, TypeOK, JobsOfSessions, Statuses
    <3>2. x \in Sessions
      BY <3>1, StatusType
    <3>3. /\ x.status = "cancelled"
          /\ x.started <=> session[job[w].of].started
          /\ x.ended <=> session[job[w].of].ended
      BY <3>1 DEF Sessions
    <3>4. session' = [session EXCEPT ![job[w].of] = x]
      BY <2>8, <3>1 DEF Cancel, TInv, TypeOK
    <3> DEFINE j == Publishing(job[w].of, "session_ended")
    <3>5. job' = [job EXCEPT ![w] = j] /\ j.op = "publish" /\ job[w].op = "cancel"
      BY <2>8 DEF Cancel, Publishing, Idle
    <3> HIDE DEF x, j
    <3>6. QED
      BY <3>2, <3>3, <3>4, <3>5, TimesWritten
  <2>9. CASE Abandon(w)
    BY <2>9, TimesKept DEF Abandon, TInv, TypeOK, Idle
  <2>10. QED
    BY <1>3, <2>1, <2>2, <2>3, <2>4, <2>5, <2>6, <2>7, <2>8, <2>9, OpsAre
       DEF Handler, StartSession, EndSession, CompleteSession, CancelSession, CreateOwn
<1>4. CASE \E v \in Viewer : CheckinStream(v)
  BY <1>4, TimesKept DEF CheckinStream, ViewerCheck, Subscribe, Receive, Disconnect
<1>5. CASE Crash
  BY <1>5, TimesKept DEF Crash, Idle
<1>6. CASE UNCHANGED vars
  BY <1>6, TimesKept DEF vars
<1>7. QED
  BY <1>1, <1>2, <1>3, <1>4, <1>5, <1>6, SlotCountIsNat DEF Next, CreateSession, JudgeSession

\* Whatever requests overlap, a session past its start has its start, and one that
\* waits for its judgement or is completed has its end (start, end, complete).
THEOREM TimesAlwaysAgree == Spec => []TimesAgree
<1>1. Init => TInv /\ TimesInv
  BY TInvInit, TimesInit
<1>2. (TInv /\ TimesInv) /\ [Next]_vars => (TInv /\ TimesInv)'
  BY TInvNext, TimesNext
<1>3. TimesInv => TimesAgree
  BY DEF TimesInv
<1>4. QED
  BY <1>1, <1>2, <1>3, PTL DEF Spec

-----------------------------------------------------------------------------
(* Streams and channels.                                                    *)

OpenHasChannel == \A v \in Viewer :
    /\ viewer[v].stage = "open" => viewer[v].on # NoChannel
    /\ viewer[v].stage # "open" => viewer[v].on = NoChannel
ChannelsDistinct == \A s, t \in Session : channel[s] = channel[t] /\ channel[s] # NoChannel => s = t

StreamInv == StreamsRegistered /\ OpenHasChannel /\ ChannelsDistinct

LEMMA StreamInit == Init => StreamInv
BY DEF Init, StreamInv, StreamsRegistered, OpenHasChannel, ChannelsDistinct, Unopened

\* A step of one viewer that leaves the channels alone.
LEMMA StreamKept ==
    ASSUME StreamInv, UNCHANGED channel,
           \A v \in Viewer :
               \/ /\ viewer'[v].stage = viewer[v].stage
                  /\ viewer'[v].of = viewer[v].of
                  /\ viewer'[v].on = viewer[v].on
               \/ viewer'[v].stage # "open" /\ viewer'[v].on = NoChannel
    PROVE  StreamInv'
BY DEF StreamInv, StreamsRegistered, OpenHasChannel, ChannelsDistinct

LEMMA StreamNext == TInv /\ StreamInv /\ [Next]_vars => StreamInv'
<1> SUFFICES ASSUME TInv, StreamInv, [Next]_vars PROVE StreamInv'
  OBVIOUS
<1>1. ASSUME UNCHANGED <<channel, viewer>> PROVE StreamInv'
  BY <1>1, StreamKept
<1>2. ASSUME NEW w \in Worker, Publish(w) PROVE StreamInv'
  <2> DEFINE s == job[w].of
  <2>1. s \in Session
    BY <1>2 DEF Publish, TInv, JobsOfSessions
  <2>2. \A v \in Viewer : /\ viewer'[v].stage = viewer[v].stage
                          /\ viewer'[v].of = viewer[v].of
                          /\ viewer'[v].on = viewer[v].on
    BY <1>2 DEF Publish, TInv, TypeOK, Viewers
  <2>3. CASE Receivers(channel[s]) = {}
    <3>1. channel' = [channel EXCEPT ![s] = NoChannel]
      BY <1>2, <2>3 DEF Publish, TInv, TypeOK
    <3>2. \A v \in Viewer : viewer[v].stage = "open" => viewer[v].on # channel[s]
      BY <2>3 DEF Receivers
    <3>3. QED
      <4>1. channel'[s] = NoChannel /\ \A t \in Session : t # s => channel'[t] = channel[t]
        BY <2>1, <3>1 DEF TInv, TypeOK
      <4>2. \A v \in Viewer : viewer[v].stage = "open" => viewer[v].of # s
        BY <2>1, <3>2 DEF StreamInv, StreamsRegistered
      <4>3. StreamsRegistered'
        BY <2>2, <4>1, <4>2 DEF StreamInv, StreamsRegistered, OpenHasChannel
      <4>4. OpenHasChannel' /\ ChannelsDistinct'
        BY <2>2, <4>1 DEF StreamInv, OpenHasChannel, ChannelsDistinct
      <4>5. QED
        BY <4>3, <4>4 DEF StreamInv
  <2>4. CASE Receivers(channel[s]) # {}
    <3>1. channel' = channel
      BY <1>2, <2>1, <2>4 DEF Publish, TInv, TypeOK
    <3>2. QED
      BY <2>2, <3>1, StreamKept
  <2>5. QED
    BY <2>3, <2>4
<1>3. ASSUME NEW w \in Worker, Handler(w) PROVE StreamInv'
  BY <1>1, <1>2, <1>3
     DEF Handler, StartSession, EndSession, CompleteSession, CancelSession, CreateOwn, Abandon,
         Check, CreateCheckin, PatchCheckin, Start, End, Complete, Cancel, FindSlot, FillSlot
<1>4. ASSUME NEW v \in Viewer, CheckinStream(v) PROVE StreamInv'
  <2>1. ASSUME NEW s \in Session, ViewerCheck(v, s) PROVE StreamInv'
    <3>1. /\ viewer'[v].stage = "checked" /\ viewer'[v].on = viewer[v].on
          /\ \A u \in Viewer : u # v => viewer'[u] = viewer[u]
      BY <2>1 DEF ViewerCheck, TInv, TypeOK, Viewers
    <3>2. viewer[v].on = NoChannel
      BY <2>1 DEF ViewerCheck, StreamInv, OpenHasChannel
    <3>3. QED
      BY <2>1, <3>1, <3>2, StreamKept DEF ViewerCheck
  <2>2. CASE Subscribe(v)
    <3> DEFINE s == viewer[v].of
    <3>1. s \in Session
      BY <2>2 DEF Subscribe, TInv, ViewersOfSessions
    <3>2. PICK n \in Channel :
            /\ IF channel[s] = NoChannel THEN n \notin InUse ELSE n = channel[s]
            /\ channel' = [channel EXCEPT ![s] = n]
            /\ viewer' = [viewer EXCEPT ![v].stage = "open", ![v].on = n]
      BY <2>2 DEF Subscribe
    <3>3. /\ viewer'[v].stage = "open" /\ viewer'[v].on = n /\ viewer'[v].of = s
          /\ \A u \in Viewer : u # v => viewer'[u] = viewer[u]
      BY <3>2 DEF TInv, TypeOK, Viewers
    <3>4. channel'[s] = n /\ \A t \in Session : t # s => channel'[t] = channel[t]
      BY <3>1, <3>2 DEF TInv, TypeOK
    <3>5. n # NoChannel
      BY PlaySessionsAssumption
    <3>6. \A t \in Session : t # s => channel[t] # n
      BY <3>1, <3>2, <3>5 DEF InUse, StreamInv, ChannelsDistinct
    <3>7. \A u \in Viewer : viewer[u].stage = "open" /\ viewer[u].on = n => viewer[u].of = s
      BY <3>1, <3>2 DEF InUse, StreamInv, StreamsRegistered
    <3>8. \A u \in Viewer : viewer[u].stage = "open" /\ viewer[u].of = s => viewer[u].on = n
      BY <3>1, <3>2 DEF StreamInv, StreamsRegistered, OpenHasChannel
    <3>9. StreamsRegistered'
      <4> SUFFICES ASSUME NEW u \in Viewer, viewer'[u].stage = "open", NEW t \in Session
                   PROVE  channel'[t] = viewer'[u].on <=> t = viewer'[u].of
        BY DEF StreamsRegistered
      <4>1. CASE u = v
        BY <3>3, <3>4, <3>6, <4>1
      <4>2. CASE u # v /\ t = s
        BY <3>1, <3>3, <3>4, <3>7, <3>8, <4>2
      <4>3. CASE u # v /\ t # s
        BY <3>3, <3>4, <4>3 DEF StreamInv, StreamsRegistered
      <4>4. QED
        BY <4>1, <4>2, <4>3
    <3>10. OpenHasChannel' /\ ChannelsDistinct'
      BY <3>1, <3>3, <3>4, <3>5, <3>6 DEF StreamInv, OpenHasChannel, ChannelsDistinct
    <3>11. QED
      BY <3>9, <3>10 DEF StreamInv
  <2>3. CASE Receive(v) \/ Disconnect(v)
    <3>1. \A u \in Viewer : u # v => viewer'[u] = viewer[u]
      BY <2>3 DEF Receive, Disconnect, TInv, TypeOK
    <3>2. \/ viewer'[v].stage # "open" /\ viewer'[v].on = NoChannel
          \/ /\ viewer'[v].stage = viewer[v].stage
             /\ viewer'[v].of = viewer[v].of
             /\ viewer'[v].on = viewer[v].on
      BY <2>3 DEF Receive, Disconnect, TInv, TypeOK, Viewers, Gone, Unopened
    <3>3. QED
      BY <2>3, <3>1, <3>2, StreamKept DEF Receive, Disconnect
  <2>4. QED
    BY <1>4, <2>1, <2>2, <2>3 DEF CheckinStream
<1>5. CASE Crash
  <2>1. \A v \in Viewer : viewer'[v].stage # "open" /\ viewer'[v].on = NoChannel
    BY <1>5 DEF Crash, StreamInv, OpenHasChannel, Gone, Unopened
  <2>2. \A s \in Session : channel'[s] = NoChannel
    BY <1>5 DEF Crash
  <2>3. QED
    BY <2>1, <2>2 DEF StreamInv, StreamsRegistered, OpenHasChannel, ChannelsDistinct
<1>6. QED
  BY <1>1, <1>3, <1>4, <1>5 DEF Next, CreateSession, Create, JudgeSession, Judge, vars

\* An open stream listens to the registered channel of its own session and of
\* no other: publishing removes a channel only when nobody listens (live.rs).
THEOREM StreamsStayRegistered == Spec => []StreamsRegistered
<1>1. Init => TInv /\ StreamInv
  BY TInvInit, StreamInit
<1>2. (TInv /\ StreamInv) /\ [Next]_vars => (TInv /\ StreamInv)'
  BY TInvNext, StreamNext
<1>3. StreamInv => StreamsRegistered
  BY DEF StreamInv
<1>4. QED
  BY <1>1, <1>2, <1>3, PTL DEF Spec

-----------------------------------------------------------------------------
(* Slots.                                                                   *)

Filling(w) == job[w].op \in {"find_slot", "fill_slot"}

\* A check-in whose slot is being looked up is of the job's session, is in no
\* slot and is in no other job; the slots before the one that was found are filled.
FillingIsNew ==
    /\ \A w \in Worker : Filling(w) =>
         /\ job[w].checkin \in Checkin
         /\ checkin[job[w].checkin] = job[w].of
         /\ \A i \in DOMAIN slots[job[w].of] : slots[job[w].of][i] # job[w].checkin
    /\ \A w \in Worker : job[w].op = "fill_slot" =>
         \A i \in 1..(job[w].slot - 1) : slots[job[w].of][i] # NoCheckin
    /\ \A v, w \in Worker : Filling(v) /\ Filling(w) /\ v # w => job[v].checkin # job[w].checkin

SlotInv == SlotsFillInOrder /\ FillingIsNew

LEMMA SlotInit == Init => SlotInv
BY DEF Init, SlotInv, SlotsFillInOrder, FillingIsNew, Filling, Idle

\* A step that writes neither slots nor check-ins and starts no filling.
LEMMA SlotsKept ==
    ASSUME SlotInv, UNCHANGED <<slots, checkin>>,
           \A w \in Worker : job'[w] = job[w] \/ job'[w].op \notin {"find_slot", "fill_slot"}
    PROVE  SlotInv'
BY DEF SlotInv, SlotsFillInOrder, FillingIsNew, Filling

\* The only step of a job that keeps the job's check-in: the slot is found.
LEMMA FindSlotKeeps ==
    ASSUME TInv, NEW w \in Worker, NEW i \in Nat,
           job' = [job EXCEPT ![w].op = "fill_slot", ![w].slot = i]
    PROVE  /\ job'[w].op = "fill_slot" /\ job'[w].slot = i
           /\ job'[w].of = job[w].of /\ job'[w].checkin = job[w].checkin
           /\ \A v \in Worker : v # w => job'[v] = job[v]
BY DEF TInv, TypeOK, Jobs

LEMMA SlotNext == TInv /\ SlotInv /\ [Next]_vars => SlotInv'
<1> SUFFICES ASSUME TInv, SlotInv, [Next]_vars PROVE SlotInv'
  OBVIOUS
<1> USE PlaySessionsAssumption
<1>a. \A t, e : Publishing(t, e).op = "publish"
  BY DEF Publishing, Idle
<1>1. ASSUME NEW s \in Session, NEW started \in BOOLEAN, NEW ended \in BOOLEAN, NEW n \in Nat,
             Create(s, started, ended, n)
      PROVE  SlotInv'
  <2>1. slots[s] = <<>>
    BY <1>1 DEF Create, TInv, AbsentIsEmpty
  <2>2. \A i \in DOMAIN slots'[s] : slots'[s][i] = NoCheckin
    BY <1>1 DEF Create, TInv, TypeOK
  <2>3. \A t \in Session : t # s => slots'[t] = slots[t]
    BY <1>1 DEF Create, TInv, TypeOK
  <2>4. SlotsFillInOrder'
    BY <1>1, <2>2, <2>3 DEF Create, SlotInv, SlotsFillInOrder
  <2>5. \A w \in Worker : /\ job'[w] = job[w]
                          /\ Filling(w) => job[w].of \in Session
                          /\ job[w].op = "fill_slot" => job[w].of # s
    BY <1>1, <2>1 DEF Create, TInv, JobsOfSessions, FillsSlot, Filling
  <2>6. FillingIsNew'
    <3>1. UNCHANGED <<checkin, job>>
      BY <1>1 DEF Create
    <3>2. ASSUME NEW w \in Worker, Filling(w)
          PROVE  \A i \in DOMAIN slots'[job[w].of] : slots'[job[w].of][i] # job[w].checkin
      <4>1. job[w].of \in Session /\ job[w].checkin \in Checkin
        BY <2>5, <3>2 DEF SlotInv, FillingIsNew
      <4>2. CASE job[w].of = s
        BY <2>2, <4>1, <4>2
      <4>3. CASE job[w].of # s
        BY <2>3, <3>2, <4>1, <4>3 DEF SlotInv, FillingIsNew
      <4>4. QED
        BY <4>2, <4>3
    <3>3. ASSUME NEW w \in Worker, job[w].op = "fill_slot"
          PROVE  \A i \in 1..(job[w].slot - 1) : slots'[job[w].of][i] # NoCheckin
      <4>1. job[w].of \in Session /\ job[w].of # s
        BY <2>5, <3>3 DEF Filling
      <4>2. QED
        BY <2>3, <3>3, <4>1 DEF SlotInv, FillingIsNew
    <3>4. QED
      BY <3>1, <3>2, <3>3 DEF SlotInv, FillingIsNew, Filling
  <2>7. QED
    BY <2>4, <2>6 DEF SlotInv
<1>2. ASSUME NEW w \in Worker, Handler(w) PROVE SlotInv'
  <2>1. ASSUME NEW s \in Session, NEW op \in Ops, Check(w, op, s) PROVE SlotInv'
    BY <2>1, SlotsKept DEF Check, TInv, TypeOK, Idle, Ops
  <2>2. ASSUME NEW c \in Checkin, NEW s \in Session, CreateCheckin(w, c, s) PROVE SlotInv'
    <3>1. /\ job'[w].op = "find_slot" /\ job'[w].checkin = c /\ job'[w].of = s
          /\ \A v \in Worker : v # w => job'[v] = job[v]
      BY <2>2 DEF CreateCheckin, TInv, TypeOK, Idle
    <3>2. checkin'[c] = s /\ \A d \in Checkin : d # c => checkin'[d] = checkin[d]
      BY <2>2 DEF CreateCheckin, TInv, TypeOK
    <3>3. \A t \in Session : \A i \in DOMAIN slots[t] : slots[t][i] # c
      BY <2>2 DEF CreateCheckin, SlotInv, SlotsFillInOrder
    <3>4. \A v \in Worker : Filling(v) => job[v].checkin # c
      BY <2>2 DEF CreateCheckin, SlotInv, FillingIsNew, TInv, JobsOfSessions, Filling
    <3>5. UNCHANGED slots
      BY <2>2 DEF CreateCheckin
    <3>6. \A t \in Session : \A i \in DOMAIN slots[t] : slots[t][i] \in Checkin \cup {NoCheckin}
      BY DEF TInv, TypeOK
    <3>7. SlotsFillInOrder'
      BY <3>2, <3>3, <3>5, <3>6 DEF SlotInv, SlotsFillInOrder
    <3>8. FillingIsNew'
      <4>1. \A v \in Worker : v # w /\ Filling(v)' => Filling(v) /\ job[v].checkin # c
        BY <3>1, <3>4 DEF Filling
      <4>2. \A v \in Worker : Filling(v)' =>
              /\ job'[v].checkin \in Checkin
              /\ checkin'[job'[v].checkin] = job'[v].of
              /\ \A i \in DOMAIN slots[job'[v].of] : slots[job'[v].of][i] # job'[v].checkin
        BY <3>1, <3>2, <3>3, <4>1 DEF SlotInv, FillingIsNew
      <4>3. \A v \in Worker : job'[v].op = "fill_slot" =>
              \A i \in 1..(job'[v].slot - 1) : slots[job'[v].of][i] # NoCheckin
        BY <3>1 DEF SlotInv, FillingIsNew
      <4>4. \A u, v \in Worker : Filling(u)' /\ Filling(v)' /\ u # v => job'[u].checkin # job'[v].checkin
        BY <3>1, <4>1 DEF SlotInv, FillingIsNew
      <4>5. QED
        BY <3>5, <4>2, <4>3, <4>4 DEF FillingIsNew
    <3>9. QED
      BY <3>7, <3>8 DEF SlotInv
  <2>3. ASSUME NEW c \in Checkin, PatchCheckin(w, c) PROVE SlotInv'
    BY <1>a, <2>3, SlotsKept DEF PatchCheckin, TInv, TypeOK
  <2>4. CASE Start(w) \/ End(w) \/ Complete(w) \/ Cancel(w)
    BY <1>a, <2>4, SlotsKept DEF Start, End, Complete, Cancel, TInv, TypeOK, Idle
  <2>5. CASE Publish(w)
    BY <2>5, SlotsKept DEF Publish, TInv, TypeOK, Idle
  <2>6. CASE FindSlot(w)
    <3> DEFINE s == job[w].of
    <3>1. s \in Session /\ slots[s] \in Seq(Checkin \cup {NoCheckin}) /\ Filling(w)
      BY <2>6 DEF FindSlot, TInv, TypeOK, JobsOfSessions, Filling
    <3>2. CASE job' = [job EXCEPT ![w] = Publishing(s, "checkin_update")]
      BY <1>a, <2>6, <3>2, SlotsKept DEF FindSlot, TInv, TypeOK
    <3>3. ASSUME NEW i \in Open(s), \A j \in Open(s) : i <= j,
                 job' = [job EXCEPT ![w].op = "fill_slot", ![w].slot = i]
          PROVE  SlotInv'
      <4>1. i \in DOMAIN slots[s] /\ i \in Nat
        BY <3>1 DEF Open
      <4>2. \A j \in 1..(i - 1) : slots[s][j] # NoCheckin
        <5>1. \A j \in 1..(i - 1) : j \in DOMAIN slots[s] /\ ~(i <= j)
          BY <3>1, <4>1
        <5>2. QED
          BY <3>3, <5>1 DEF Open
      <4>3. /\ job'[w].op = "fill_slot" /\ job'[w].slot = i
            /\ job'[w].of = s /\ job'[w].checkin = job[w].checkin
            /\ \A v \in Worker : v # w => job'[v] = job[v]
        BY <3>3, <4>1, FindSlotKeeps
      <4>4. UNCHANGED <<slots, checkin>>
        BY <2>6 DEF FindSlot
      <4>5. \A v \in Worker : Filling(v)' => Filling(v) /\ job'[v].checkin = job[v].checkin
                                             /\ job'[v].of = job[v].of
        BY <3>1, <4>3 DEF Filling
      <4>6. \A v \in Worker : job'[v].op = "fill_slot" =>
              \A j \in 1..(job'[v].slot - 1) : slots[job'[v].of][j] # NoCheckin
        BY <4>2, <4>3 DEF SlotInv, FillingIsNew
      <4>7. FillingIsNew'
        BY <4>4, <4>5, <4>6 DEF SlotInv, FillingIsNew
      <4>8. QED
        BY <4>4, <4>7 DEF SlotInv, SlotsFillInOrder
    <3>4. QED
      BY <2>6, <3>2, <3>3 DEF FindSlot
  <2>7. CASE FillSlot(w)
    <3> DEFINE s == job[w].of
    <3> DEFINE k == job[w].slot
    <3> DEFINE c == job[w].checkin
    <3>1. s \in Session /\ slots[s] \in Seq(Checkin \cup {NoCheckin}) /\ k \in DOMAIN slots[s]
          /\ Filling(w)
      BY <2>7 DEF FillSlot, TInv, TypeOK, JobsOfSessions, FillsSlot, Filling
    <3>2. /\ c \in Checkin /\ checkin[c] = s
          /\ \A i \in DOMAIN slots[s] : slots[s][i] # c
          /\ \A j \in 1..(k - 1) : slots[s][j] # NoCheckin
      BY <2>7, <3>1 DEF FillSlot, SlotInv, FillingIsNew
    <3>3. /\ DOMAIN slots'[s] = DOMAIN slots[s]
          /\ slots'[s][k] = c
          /\ \A i \in DOMAIN slots[s] : i # k => slots'[s][i] = slots[s][i]
          /\ \A t \in Session : t # s => slots'[t] = slots[t]
      BY <2>7, <3>1 DEF FillSlot, TInv, TypeOK
    <3>4. job'[w].op = "publish" /\ \A v \in Worker : v # w => job'[v] = job[v]
      BY <1>a, <2>7 DEF FillSlot, TInv, TypeOK
    <3>5. UNCHANGED checkin
      BY <2>7 DEF FillSlot
    <3>6. DOMAIN slots[s] = 1..Len(slots[s]) /\ Len(slots[s]) \in Nat /\ k \in Nat
      BY <3>1
    <3> HIDE DEF s, k, c
    <3>7. ASSUME NEW i \in DOMAIN slots'[s], slots'[s][i] # NoCheckin
          PROVE  /\ checkin'[slots'[s][i]] = s
                 /\ \A j \in 1..(i - 1) : slots'[s][j] \notin {NoCheckin, slots'[s][i]}
      <4>1. \A j \in 1..(i - 1) : j \in DOMAIN slots[s] /\ j # i
        BY <3>3, <3>6
      <4>2. CASE i = k
        BY <3>2, <3>3, <3>5, <4>1, <4>2
      <4>3. CASE i # k
        <5>1. slots'[s][i] = slots[s][i] /\ i \in DOMAIN slots[s]
          BY <3>3, <4>3
        <5>2. /\ checkin[slots[s][i]] = s
              /\ \A j \in 1..(i - 1) : slots[s][j] \notin {NoCheckin, slots[s][i]}
          BY <3>1, <3>7, <5>1 DEF SlotInv, SlotsFillInOrder
        <5>3. \A j \in 1..(i - 1) : slots'[s][j] = slots[s][j] \/ slots'[s][j] = c
          BY <3>3, <4>1
        <5>4. c # NoCheckin /\ c # slots[s][i]
          BY <3>2, <5>1
        <5>5. QED
          BY <3>5, <5>1, <5>2, <5>3, <5>4
      <4>4. QED
        BY <4>2, <4>3
    <3>8. SlotsFillInOrder'
      BY <3>3, <3>5, <3>7 DEF SlotInv, SlotsFillInOrder
    <3>9. ASSUME NEW v \in Worker, Filling(v)'
          PROVE  /\ v # w /\ Filling(v) /\ job'[v] = job[v] /\ job[v].of \in Session
                 /\ \A i \in DOMAIN slots'[job[v].of] : slots'[job[v].of][i] # job[v].checkin
      <4>1. v # w /\ Filling(v) /\ job'[v] = job[v] /\ job[v].of \in Session
        BY <3>4, <3>9 DEF Filling, TInv, JobsOfSessions
      <4>2. /\ job[v].checkin # c
            /\ \A i \in DOMAIN slots[job[v].of] : slots[job[v].of][i] # job[v].checkin
        BY <3>1, <4>1 DEF SlotInv, FillingIsNew, c
      <4>3. QED
        BY <3>3, <4>1, <4>2
    <3>10. ASSUME NEW v \in Worker, job'[v].op = "fill_slot"
           PROVE  \A i \in 1..(job'[v].slot - 1) : slots'[job'[v].of][i] # NoCheckin
      <4>1. v # w /\ job'[v] = job[v] /\ job[v].op = "fill_slot" /\ job[v].of \in Session
            /\ job[v].slot \in DOMAIN slots[job[v].of]
        BY <3>4, <3>10 DEF TInv, JobsOfSessions, FillsSlot
      <4>2. \A i \in 1..(job[v].slot - 1) : slots[job[v].of][i] # NoCheckin
        BY <4>1 DEF SlotInv, FillingIsNew
      <4>3. CASE job[v].of # s
        BY <3>3, <4>1, <4>2, <4>3
      <4>4. CASE job[v].of = s
        <5>1. \A i \in 1..(job[v].slot - 1) : i \in DOMAIN slots[s]
          BY <3>6, <4>1, <4>4
        <5>2. c # NoCheckin
          BY <3>2
        <5>3. QED
          BY <3>3, <4>1, <4>2, <4>4, <5>1, <5>2
      <4>5. QED
        BY <4>3, <4>4
    <3>11. FillingIsNew'
      <4>1. \A u, v \in Worker : Filling(u)' /\ Filling(v)' /\ u # v => job'[u].checkin # job'[v].checkin
        BY <3>9 DEF SlotInv, FillingIsNew
      <4>2. \A v \in Worker : Filling(v)' =>
              /\ job'[v].checkin \in Checkin
              /\ checkin'[job'[v].checkin] = job'[v].of
              /\ \A i \in DOMAIN slots'[job'[v].of] : slots'[job'[v].of][i] # job'[v].checkin
        BY <3>5, <3>9 DEF SlotInv, FillingIsNew
      <4>3. QED
        BY <3>10, <4>1, <4>2 DEF FillingIsNew
    <3>12. QED
      BY <3>8, <3>11 DEF SlotInv
  <2>8. CASE Abandon(w)
    BY <2>8, SlotsKept DEF Abandon, TInv, TypeOK, Idle
  <2>9. QED
    BY <1>2, <2>1, <2>2, <2>3, <2>4, <2>5, <2>6, <2>7, <2>8, OpsAre
       DEF Handler, StartSession, EndSession, CompleteSession, CancelSession, CreateOwn
<1>3. CASE Crash
  BY <1>3, SlotsKept DEF Crash, Idle
<1>4. QED
  BY <1>1, <1>2, <1>3, SlotCountIsNat, SlotsKept
     DEF Next, CreateSession, Judge, JudgeSession, CheckinStream, ViewerCheck, Subscribe, Receive, Disconnect, vars

\* The filled slots come first and hold different check-ins of their own
\* session, also when two check-ins find the same slot (fulfill_next_schedule_slot).
THEOREM SlotsAlwaysInOrder == Spec => []SlotsFillInOrder
<1>1. Init => TInv /\ SlotInv
  BY TInvInit, SlotInit
<1>2. (TInv /\ SlotInv) /\ [Next]_vars => (TInv /\ SlotInv)'
  BY TInvNext, SlotNext
<1>3. SlotInv => SlotsFillInOrder
  BY DEF SlotInv
<1>4. QED
  BY <1>1, <1>2, <1>3, PTL DEF Spec

\* Times and slots together: whatever requests overlap, a session that waits for its
\* judgement has its end, and its filled slots come first, each with its own check-in.
THEOREM RecordsAlwaysAgree == Spec => []RecordsAgree
BY TimesAlwaysAgree, SlotsAlwaysInOrder, PTL DEF RecordsAgree

-----------------------------------------------------------------------------
(* Judgements.  Assignments are only ever appended, so the last one of a    *)
(* session and a kind changes with the judgement that appends one.          *)

LEMMA LastIs ==
    ASSUME NEW I \in SUBSET Nat, NEW x \in I, \A j \in I : j <= x
    PROVE  LastOf(I) = x
<1> DEFINE y == CHOOSE i \in I : \A j \in I : j <= i
<1>1. y \in I /\ \A j \in I : j <= y
  OBVIOUS
<1>2. LastOf(I) = y
  BY DEF LastOf
<1> HIDE DEF y
<1>3. y = x
  BY <1>1
<1>4. QED
  BY <1>2, <1>3

\* What a judgement appends: a reward, a punishment, or a reward and then a punishment.
LEMMA MadeIs ==
    ASSUME NEW s \in Session, NEW kinds \in SUBSET {"reward", "punishment"}, kinds # {}
    PROVE  LET made == Made(s, kinds)
               reward == [kind |-> "reward", of |-> s]
               punishment == [kind |-> "punishment", of |-> s]
           IN  \/ kinds = {"reward"} /\ made = <<reward>>
               \/ kinds = {"punishment"} /\ made = <<punishment>>
               \/ /\ kinds = {"reward", "punishment"}
                  /\ Len(made) = 2 /\ made[1] = reward /\ made[2] = punishment
<1> DEFINE reward == [kind |-> "reward", of |-> s]
           punishment == [kind |-> "punishment", of |-> s]
<1>1. kinds = {"reward"} \/ kinds = {"punishment"} \/ kinds = {"reward", "punishment"}
  OBVIOUS
<1>2. CASE kinds = {"reward"}
  BY <1>2 DEF Made
<1>3. CASE kinds = {"punishment"}
  BY <1>3 DEF Made
<1>4. CASE kinds = {"reward", "punishment"}
  <2>1. Made(s, kinds) = <<reward>> \o <<punishment>>
    BY <1>4 DEF Made
  <2> HIDE DEF reward, punishment
  <2>2. LET both == <<reward>> \o <<punishment>>
        IN  Len(both) = 2 /\ both[1] = reward /\ both[2] = punishment
    OBVIOUS
  <2>3. /\ Len(Made(s, kinds)) = 2 /\ Made(s, kinds)[1] = reward
        /\ Made(s, kinds)[2] = punishment
    BY <2>1, <2>2
  <2>4. QED
    BY <1>4, <2>3 DEF reward, punishment
<1>5. QED
  BY <1>1, <1>2, <1>3, <1>4

\* The consequences after a judgement of session s.
LEMMA GivenGrows ==
    ASSUME TypeOK, NEW s \in Session, NEW kinds \in SUBSET {"reward", "punishment"}, kinds # {},
           given' = given \o Made(s, kinds), NEW z \in Session, NEW k \in {"reward", "punishment"}
    PROVE  Consequence(z, k)' =
              Consequence(z, k) \cup
                (IF z = s /\ k \in kinds
                 THEN {IF k = "reward" THEN Len(given) + 1 ELSE Len(given) + Len(Made(s, kinds))}
                 ELSE {})
<1> DEFINE n == Len(given)
           made == Made(s, kinds)
           reward == [kind |-> "reward", of |-> s]
           punishment == [kind |-> "punishment", of |-> s]
<1>1. given \in Seq(Consequences) /\ n \in Nat /\ DOMAIN given = 1..n
  BY DEF TypeOK
<1>2. reward # punishment /\ reward \in Consequences /\ punishment \in Consequences
  BY DEF Consequences
<1>3. \A i \in 1..n : given[i] \in Consequences
  BY <1>1
<1>4. [kind |-> k, of |-> z] = reward <=> z = s /\ k = "reward"
  OBVIOUS
<1>5. [kind |-> k, of |-> z] = punishment <=> z = s /\ k = "punishment"
  OBVIOUS
<1> HIDE DEF reward, punishment
<1>6. \/ kinds = {"reward"} /\ made = <<reward>>
      \/ kinds = {"punishment"} /\ made = <<punishment>>
      \/ /\ kinds = {"reward", "punishment"}
         /\ Len(made) = 2 /\ made[1] = reward /\ made[2] = punishment
  BY MadeIs DEF reward, punishment
<1>7. given' = given \o made /\ made \in Seq(Consequences)
  BY MadeType
<1> HIDE DEF made
<1>8. CASE kinds = {"reward"} /\ made = <<reward>>
  <2>1. /\ DOMAIN given' = 1..(n + 1) /\ given'[n + 1] = reward
        /\ \A i \in 1..n : given'[i] = given[i]
    BY <1>1, <1>2, <1>7, <1>8
  <2>2. QED
    BY <1>1, <1>4, <1>8, <2>1 DEF Consequence, made
<1>9. CASE kinds = {"punishment"} /\ made = <<punishment>>
  <2>1. /\ DOMAIN given' = 1..(n + 1) /\ given'[n + 1] = punishment /\ Len(made) = 1
        /\ \A i \in 1..n : given'[i] = given[i]
    BY <1>1, <1>2, <1>7, <1>9
  <2>2. QED
    BY <1>1, <1>5, <1>9, <2>1 DEF Consequence, made
<1>10. CASE /\ kinds = {"reward", "punishment"}
            /\ Len(made) = 2 /\ made[1] = reward /\ made[2] = punishment
  <2> HIDE DEF n
  <2>1. /\ DOMAIN given' = 1..(n + 2) /\ given'[n + 1] = made[1] /\ given'[n + 2] = made[2]
        /\ \A i \in 1..n : given'[i] = given[i]
    <3>1. /\ given' \in Seq(Consequences) /\ Len(given') = n + 2
          /\ \A i \in 1..(n + 2) : given'[i] = IF i <= n THEN given[i] ELSE made[i - n]
      <4>1. made \in Seq(Consequences) /\ given \in Seq(Consequences)
        BY <1>1, <1>7
      <4>2. /\ given \o made \in Seq(Consequences) /\ Len(given \o made) = Len(given) + Len(made)
            /\ \A i \in 1..(Len(given) + Len(made)) :
                  (given \o made)[i] = IF i <= Len(given) THEN given[i] ELSE made[i - Len(given)]
        BY ONLY <4>1, ConcatProperties
      <4>3. QED
        BY <1>7, <1>10, <4>2 DEF n
    <3>2. n \in Nat
      BY <1>1 DEF n
    <3>3. DOMAIN given' = 1..(n + 2)
      BY <3>1, <3>2
    <3>4. /\ n + 1 \in 1..(n + 2) /\ n + 2 \in 1..(n + 2) /\ 1..n \subseteq 1..(n + 2)
          /\ (n + 1) - n = 1 /\ (n + 2) - n = 2
      BY <3>2
    <3>5. ~(n + 1 <= n) /\ ~(n + 2 <= n) /\ \A i \in 1..n : i <= n
      BY <3>2
    <3>6. given'[n + 1] = made[(n + 1) - n] /\ given'[n + 2] = made[(n + 2) - n]
      BY ONLY <3>1, <3>4, <3>5
    <3>7. \A i \in 1..n : given'[i] = given[i]
      BY ONLY <3>1, <3>4, <3>5
    <3>8. given'[n + 1] = made[1] /\ given'[n + 2] = made[2]
      BY ONLY <3>4, <3>6
    <3>9. QED
      BY ONLY <3>3, <3>7, <3>8
  <2>2. QED
    BY <1>1, <1>4, <1>5, <1>10, <2>1 DEF Consequence, made, n
<1>11. QED
  BY <1>6, <1>8, <1>9, <1>10

LEMMA LinkBackJudged ==
    ASSUME TypeOK, ConsequencesLinkBack, NEW s \in Session,
           NEW kinds \in SUBSET {"reward", "punishment"}, Judge(s, kinds)
    PROVE  ConsequencesLinkBack'
<1> DEFINE n == Len(given)
           m == Len(Made(s, kinds))
<1>1. kinds # {} /\ given' = given \o Made(s, kinds)
  BY DEF Judge
<1>2. n \in Nat /\ \A z \in Session, k \in {"reward", "punishment"} : Consequence(z, k) \subseteq 1..n
  BY DEF TypeOK, Consequence
<1>3. m \in Nat \ {0}
  <2>1. Len(Made(s, kinds)) = 1 \/ Len(Made(s, kinds)) = 2
    <3> DEFINE made == Made(s, kinds)
    <3>1. \/ made = <<[kind |-> "reward", of |-> s]>>
          \/ made = <<[kind |-> "punishment", of |-> s]>>
          \/ Len(made) = 2
      BY <1>1, MadeIs
    <3> HIDE DEF made
    <3>2. Len(made) = 1 \/ Len(made) = 2
      BY <3>1
    <3>3. QED
      BY <3>2 DEF made
  <2>2. QED
    BY <2>1
<1>4. /\ session'[s].reward = IF "reward" \in kinds THEN n + 1 ELSE session[s].reward
      /\ session'[s].punishment = IF "punishment" \in kinds THEN n + m ELSE session[s].punishment
      /\ \A z \in Session \ {s} : session'[z] = session[z]
  <2> DEFINE x == IF "reward" \in kinds THEN n + 1 ELSE session[s].reward
             y == IF "punishment" \in kinds THEN n + m ELSE session[s].punishment
             r == [session[s] EXCEPT !.reward = x, !.punishment = y]
  <2>1. session[s] \in Sessions /\ session' = [session EXCEPT ![s] = r]
    BY DEF Judge, TypeOK
  <2> HIDE DEF x, y
  <2>2. r.reward = x /\ r.punishment = y
    BY <2>1 DEF Sessions
  <2> HIDE DEF r
  <2>3. session'[s] = r /\ \A z \in Session \ {s} : session'[z] = session[z]
    BY <2>1 DEF TypeOK
  <2>4. QED
    BY <2>2, <2>3 DEF x, y
<1>5. ASSUME NEW z \in Session, NEW k \in {"reward", "punishment"}
      PROVE  LastOf(Consequence(z, k)') =
               IF z = s /\ k \in kinds THEN IF k = "reward" THEN n + 1 ELSE n + m
               ELSE LastOf(Consequence(z, k))
  <2> DEFINE x == IF k = "reward" THEN n + 1 ELSE n + m
  <2>1. Consequence(z, k)' = Consequence(z, k) \cup (IF z = s /\ k \in kinds THEN {x} ELSE {})
    BY <1>1, GivenGrows
  <2>2. CASE z = s /\ k \in kinds
    <3>1. x \in Nat /\ x > n
      BY <1>2, <1>3
    <3> HIDE DEF x
    <3>2. Consequence(z, k)' \in SUBSET Nat /\ x \in Consequence(z, k)'
          /\ \A j \in Consequence(z, k)' : j <= x
      BY <1>2, <2>1, <2>2, <3>1
    <3>3. LastOf(Consequence(z, k)') = x
      BY <3>2, LastIs
    <3>4. QED
      BY <2>2, <3>3 DEF x
  <2>3. CASE ~(z = s /\ k \in kinds)
    BY <2>1, <2>3
  <2>4. QED
    BY <2>2, <2>3
<1> HIDE DEF n, m
<1>6. ASSUME NEW z \in Session
      PROVE  /\ session'[z].reward = LastOf(Consequence(z, "reward")')
             /\ session'[z].punishment = LastOf(Consequence(z, "punishment")')
  BY <1>4, <1>5 DEF ConsequencesLinkBack
<1>7. QED
  BY <1>6 DEF ConsequencesLinkBack, LastOf

\* Nothing but a judgement appends an assignment or writes a link of a session.
LEMMA LinkBackNext == TInv /\ ConsequencesLinkBack /\ [Next]_vars => ConsequencesLinkBack'
<1> SUFFICES ASSUME TInv, ConsequencesLinkBack, [Next]_vars PROVE ConsequencesLinkBack'
  OBVIOUS
<1> DEFINE Keeps == /\ given' = given
                    /\ \A s \in Session : /\ session'[s].reward = session[s].reward
                                          /\ session'[s].punishment = session[s].punishment
<1>1. ASSUME Keeps PROVE ConsequencesLinkBack'
  BY <1>1 DEF ConsequencesLinkBack, Consequence
<1>2. CASE CreateSession
  <2>1. Keeps
    BY <1>2 DEF CreateSession, Create, TInv, TypeOK, Sessions
  <2>2. QED
    BY <1>1, <2>1
<1>3. CASE JudgeSession
  BY <1>3, LinkBackJudged DEF JudgeSession, TInv
<1>4. ASSUME NEW w \in Worker, Handler(w) PROVE ConsequencesLinkBack'
  <2>1. CASE Start(w) \/ End(w) \/ Complete(w) \/ Cancel(w)
    <3>1. job[w].of \in Session
      BY <2>1 DEF Start, End, Complete, Cancel, Ops, TInv, JobsOfSessions
    <3>2. CASE Start(w)
      BY <1>1, <2>1, <3>1, <3>2 DEF Start, TInv, TypeOK, Sessions
    <3>3. CASE End(w)
      BY <1>1, <2>1, <3>1, <3>3 DEF End, TInv, TypeOK, Sessions
    <3>4. CASE Complete(w)
      BY <1>1, <2>1, <3>1, <3>4 DEF Complete, TInv, TypeOK, Sessions
    <3>5. CASE Cancel(w)
      BY <1>1, <2>1, <3>1, <3>5 DEF Cancel, TInv, TypeOK, Sessions
    <3>6. QED
      BY <2>1, <3>2, <3>3, <3>4, <3>5
  <2>2. CASE UNCHANGED <<given, session>>
    BY <1>1, <2>2
  <2>3. QED
    BY <1>4, <2>1, <2>2 DEF Handler, StartSession, EndSession, CompleteSession, CancelSession, Check,
       CreateOwn, CreateCheckin, FindSlot, FillSlot, PatchCheckin, Publish, Abandon
<1>5. CASE Crash \/ UNCHANGED vars \/ \E v \in Viewer : CheckinStream(v)
  <2>1. UNCHANGED <<given, session>>
    BY <1>5 DEF Crash, vars, CheckinStream, ViewerCheck, Subscribe, Receive, Disconnect
  <2>2. QED
    BY <1>1, <2>1
<1>6. QED
  BY <1>2, <1>3, <1>4, <1>5 DEF Next

\* A session links to the last reward and the last punishment its judgements made, however
\* often it is judged and whatever stale requests write its status in between.
THEOREM ConsequencesAlwaysLinkBack == Spec => []ConsequencesLinkBack
<1>1. Init => ConsequencesLinkBack
  <2> SUFFICES ASSUME Init, NEW s \in Session, NEW k \in {"reward", "punishment"}
               PROVE  LastOf(Consequence(s, k)) = 0
    BY DEF Init, ConsequencesLinkBack
  <2>1. DOMAIN given = {}
    BY DEF Init
  <2>2. Consequence(s, k) = {}
    BY <2>1 DEF Consequence
  <2>3. QED
    BY <2>2 DEF LastOf
<1>2. QED
  BY <1>1, Typed, LinkBackNext, PTL DEF Spec
=============================================================================
