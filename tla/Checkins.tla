------------------------------ MODULE Checkins ------------------------------
(***************************************************************************)
(* Check-ins and the alerts they raise: templates and check-ins            *)
(* (src/domain/checkins.rs, src/api/checkins.rs), safety alerts            *)
(* (src/domain/safety/mod.rs, src/api/safety.rs) and the notification rows *)
(* written after them (src/notify.rs).  One link, one template.            *)
(*                                                                         *)
(* create_checkin and update_checkin are transactions; what follows them,  *)
(* the attachments and the notification, is not, and an edit of the        *)
(* template never is.  Of the required fields only one matters, a photo.   *)
(* A template of a link keeps its id, so "template not found" is left out. *)
(***************************************************************************)
EXTENDS Integers, FiniteSets

CONSTANTS
    Checkin,        \* ids of rows of checkins
    Alert,          \* ids of rows of safety_alerts
    None,
    Thread,         \* pool threads that serve requests
    MaxRequests     \* bound: the requests of a behaviour

ASSUME CheckinsAssumption ==
    /\ None \notin Checkin \cup Alert
    /\ IsFiniteSet(Checkin) /\ IsFiniteSet(Alert) /\ IsFiniteSet(Thread)
    /\ MaxRequests \in Nat

VARIABLES
    standing,       \* the status of the link
    template,       \* auto_escalate_on_red, and how many rows ask for the photo
    checkin,        \* table checkins: colour and photo
    alert,          \* table safety_alerts
    feed,           \* table notifications: rows per alert or check-in and type
    requests,       \* how many requests have come
    request,        \* per worker, the request in flight and what it holds
    turns,          \* history: how often a check-in turned red
    raced,          \* history: check-ins that two requests had in hand at once
    lost,           \* history: alerts and check-ins whose request was cut short
    refused,        \* history: those whose photo could not be stored
    torn,           \* history: the last edit of the fields was cut short
    excused         \* history: check-ins made while the fields were being replaced or
                    \*          torn, or whose photo was deleted

checkinsVars == <<standing, template, checkin, alert, feed, requests, request,
                  turns, raced, lost, refused, torn, excused>>
history == <<turns, raced, lost, refused, torn, excused>>

Colors == {"green", "red"}
Ops == {"create", "patch", "raise", "answer", "edit"}
Steps == {"attach", "reread", "notify", "update", "acknowledge", "resolve", "delete", "insert"}

Jobs == [op : Ops \cup {"idle"}, at : Steps \cup {"idle"},
         checkin : Checkin \cup {None}, alert : Alert \cup {None},
         color : Colors \cup {"keep"}, red : BOOLEAN,
         escalate : BOOLEAN, todo : SUBSET {"fields", "resolve"}]

Idle == [op |-> "idle", at |-> "idle", checkin |-> None, alert |-> None,
         color |-> "keep", red |-> FALSE, escalate |-> FALSE, todo |-> {}]

CheckinsTypeOK ==
    /\ standing \in {"active", "paused", "ended"}
    /\ template \in [escalate : BOOLEAN, rows : Nat]
    /\ checkin \in [Checkin -> [color : Colors \cup {"absent"}, photo : BOOLEAN]]
    /\ alert \in [Alert -> [raised : BOOLEAN, acknowledged : BOOLEAN,
                            resolved : BOOLEAN, checkin : Checkin \cup {None}]]
    /\ feed \in [raised : [Alert -> Nat], seen : [Alert -> Nat], flag : [Checkin -> Nat]]
    /\ requests \in 0..MaxRequests
    /\ request \in [Thread -> Jobs]
    /\ turns \in [Checkin -> Nat]
    /\ raced \subseteq Checkin /\ excused \subseteq Checkin
    /\ torn \in BOOLEAN
    /\ lost \subseteq Checkin \cup Alert /\ refused \subseteq Checkin \cup Alert

\* create_template has inserted the template, and goes on with its fields.
CreatingTemplate == [Idle EXCEPT !.op = "edit", !.at = "insert"]

CheckinsInit ==
    /\ standing = "active"
    /\ template \in [escalate : BOOLEAN, rows : {0}]
    /\ checkin = [c \in Checkin |-> [color |-> "absent", photo |-> FALSE]]
    /\ alert = [a \in Alert |-> [raised |-> FALSE, acknowledged |-> FALSE,
                                 resolved |-> FALSE, checkin |-> None]]
    /\ feed = [raised |-> [a \in Alert |-> 0], seen |-> [a \in Alert |-> 0],
               flag |-> [c \in Checkin |-> 0]]
    /\ requests = 0
    /\ \E maker \in Thread :
           request = [w \in Thread |-> IF w = maker THEN CreatingTemplate ELSE Idle]
    /\ turns = [c \in Checkin |-> 0]
    /\ raced = {} /\ lost = {} /\ refused = {} /\ torn = FALSE /\ excused = {}

Exists(c) == checkin[c].color # "absent"
Red(c) == checkin[c].color = "red"
Busy(c) == \E w \in Thread : request[w].checkin = c
NewAlerts == {a \in Alert : ~alert[a].raised}
NewAlert == CHOOSE a \in NewAlerts : TRUE

\* A request comes to an idle worker, which takes it up as j.
Take(w, j) ==
    /\ request[w] = Idle
    /\ requests < MaxRequests /\ requests' = requests + 1
    /\ request' = [request EXCEPT ![w] = j]

At(w, op, step) == request[w].op = op /\ request[w].at = step
Proceed(w, j) == request' = [request EXCEPT ![w] = j] /\ UNCHANGED requests
Goto(w, step) == Proceed(w, [request[w] EXCEPT !.at = step])
End(w) == Proceed(w, Idle)

\* What notify leaves in the feed: a row, and a push that nothing reads back.
Noted(type, id) == [feed EXCEPT ![type][id] = @ + 1]

\* The fields of the template are gone and not yet back.
Replacing == \E w \in Thread : At(w, "edit", "insert")

\* The rows of safety_alerts a transaction that turns c red leaves.
Raised(c) == [alert EXCEPT ![NewAlert] = [@ EXCEPT !.raised = TRUE, !.checkin = c]]

\* The alert that a change of c to the colour raises, or None.
Raises(c, color) == color = "red" /\ ~Red(c) /\ template.escalate
AlertFor(c, color) == IF Raises(c, color) THEN NewAlert ELSE None

\* The rows of c and of its alert, as the transaction of a create or update leaves them.
Store(c, color) ==
    /\ Raises(c, color) => NewAlerts # {}
    /\ checkin' = [checkin EXCEPT ![c].color = color]
    /\ alert' = IF Raises(c, color) THEN Raised(c) ELSE alert
    /\ turns' = IF color = "red" /\ ~Red(c) THEN [turns EXCEPT ![c] = @ + 1] ELSE turns

-----------------------------------------------------------------------------
(* Check-ins.                                                                *)

\* What parse_checkin_multipart makes of a form; a form it can not read is refused.
Parsed == [color : Colors, photo : BOOLEAN]

MissingRequiredField(photo) == template.rows > 0 /\ ~photo

\* The transaction of create_checkin, for a request with or without a photo.
Create(w, c, color, photo) ==
    /\ ~Exists(c)
    /\ ~MissingRequiredField(photo)
    /\ Store(c, color)
    /\ Take(w, [Idle EXCEPT !.op = "create",
                           !.at = IF photo THEN "attach" ELSE "reread",
                           !.checkin = c, !.alert = AlertFor(c, color)])
    /\ excused' = IF torn \/ Replacing THEN excused \cup {c} ELSE excused
    /\ UNCHANGED <<standing, template, feed, raced, lost, refused, torn>>

\* create_for_keyholder and create_own: over which links a check-in is taken.
CreateForKeyholder(w, c, color, photo) == standing # "ended" /\ Create(w, c, color, photo)
CreateOwn(w, c, color, photo) == standing = "active" /\ Create(w, c, color, photo)

\* storage::store and set_photo, after the commit.
Attach(w) ==
    /\ At(w, "create", "attach")
    /\ checkin' = [checkin EXCEPT ![request[w].checkin].photo = TRUE]
    /\ Goto(w, "reread")
    /\ UNCHANGED <<standing, template, alert, feed, history>>

\* store can not decode the bytes: the handler answers BAD_PHOTO.
AttachRefused(w) ==
    /\ At(w, "create", "attach")
    /\ refused' = refused \cup ({request[w].checkin, request[w].alert} \ {None})
    /\ End(w)
    /\ UNCHANGED <<standing, template, checkin, alert, feed, turns, raced, lost, torn, excused>>

\* require_reachable_checkin: either party may, whatever became of the link.
Reachable(c) == Exists(c)

\* patch_checkin up to was_red.
PatchRead(w, c, color) ==
    /\ Reachable(c)
    /\ raced' = IF Busy(c) THEN raced \cup {c} ELSE raced
    /\ Take(w, [Idle EXCEPT !.op = "patch", !.at = "update",
                           !.checkin = c, !.color = color, !.red = Red(c)])
    /\ UNCHANGED <<standing, template, checkin, alert, feed, turns, lost, refused, torn, excused>>

\* Mutant of PatchUpdate: the colour of the first read decides about the alert.
PatchUpdateStale(w) ==
    /\ At(w, "patch", "update")
    /\ LET c == request[w].checkin
           color == IF request[w].color = "keep" THEN checkin[c].color ELSE request[w].color
           raises == color = "red" /\ ~request[w].red /\ template.escalate
       IN /\ raises => NewAlerts # {}
          /\ checkin' = [checkin EXCEPT ![c].color = color]
          /\ alert' = IF raises THEN Raised(c) ELSE alert
          /\ turns' = IF color = "red" /\ ~Red(c) THEN [turns EXCEPT ![c] = @ + 1] ELSE turns
          /\ Proceed(w, [request[w] EXCEPT !.at = "reread", !.color = "keep",
                                       !.alert = IF raises THEN NewAlert ELSE None])
    /\ UNCHANGED <<standing, template, feed, raced, lost, refused, torn, excused>>

\* Mutant of PatchUpdate: a colour the request leaves out is written all the same.
PatchUpdateBlank(w) ==
    /\ At(w, "patch", "update")
    /\ Store(request[w].checkin, request[w].color)
    /\ Proceed(w, [request[w] EXCEPT !.at = "reread", !.color = "keep",
                                 !.alert = AlertFor(request[w].checkin, request[w].color)])
    /\ UNCHANGED <<standing, template, feed, raced, lost, refused, torn, excused>>

\* The transaction of update_checkin.
PatchUpdate(w) ==
    /\ At(w, "patch", "update")
    /\ LET c == request[w].checkin
           color == IF request[w].color = "keep" THEN checkin[c].color ELSE request[w].color
       IN /\ Store(c, color)
          /\ Proceed(w, [request[w] EXCEPT !.at = "reread", !.color = "keep",
                                       !.alert = AlertFor(c, color)])
    /\ UNCHANGED <<standing, template, feed, raced, lost, refused, torn, excused>>

\* get_checkin after the change: the row the notification is about.
Reread(w) ==
    /\ request[w].at = "reread"
    /\ Proceed(w, [request[w] EXCEPT !.at = "notify", !.color = checkin[request[w].checkin].color])
    /\ UNCHANGED <<standing, template, checkin, alert, feed, history>>

\* Mutant of Announcement: an edit that found the check-in red says nothing.
AnnouncementOnTurn(w) ==
    LET j == request[w] IN
    IF j.op # "create" /\ j.red THEN feed
    ELSE IF j.alert # None THEN Noted("raised", j.alert)
    ELSE IF j.color = "red" THEN Noted("flag", j.checkin)
    ELSE feed

\* What notify_checkin_submitted and the end of patch_checkin add for the keyholder
\* (that a check-in which is not red was submitted is left out).
Announcement(w) ==
    LET j == request[w] IN
    IF j.alert # None THEN Noted("raised", j.alert)
    ELSE IF j.color = "red" /\ ~j.red THEN Noted("flag", j.checkin)
    ELSE feed

Notify(w) ==
    /\ request[w].op \in {"create", "patch"} /\ request[w].at = "notify"
    /\ feed' = Announcement(w)
    /\ End(w)
    /\ UNCHANGED <<standing, template, checkin, alert, history>>

SetPhoto(c, photo) ==
    /\ Reachable(c) /\ checkin[c].photo # photo
    /\ requests < MaxRequests /\ requests' = requests + 1
    /\ checkin' = [checkin EXCEPT ![c].photo = photo]
    /\ excused' = IF photo THEN excused ELSE excused \cup {c}
    /\ UNCHANGED <<standing, template, alert, feed, request, turns, raced, lost, refused, torn>>

UploadPhoto(c) == SetPhoto(c, TRUE)
DeletePhoto(c) == SetPhoto(c, FALSE)

-----------------------------------------------------------------------------
(* Safety alerts.                                                            *)

\* raise_safety_alert, the submissive's own: over an active link, and not while it is paused.
Raise(w) ==
    /\ standing = "active" /\ NewAlerts # {}
    /\ alert' = [alert EXCEPT ![NewAlert].raised = TRUE]
    /\ Take(w, [Idle EXCEPT !.op = "raise", !.at = "notify", !.alert = NewAlert])
    /\ UNCHANGED <<standing, template, checkin, feed, history>>

TellKeyholder(w) ==
    /\ At(w, "raise", "notify")
    /\ feed' = Noted("raised", request[w].alert)
    /\ End(w)
    /\ UNCHANGED <<standing, template, checkin, alert, history>>

\* keyholder_owns_alert: by its link, which may have ended.
Owned(a) == alert[a].raised

\* patch_safety_alert reads the alert; it acknowledges it, resolves it, or both.
AnswerRead(w, a, acknowledge, resolve) ==
    /\ Owned(a) /\ (acknowledge \/ resolve)
    /\ Take(w, [Idle EXCEPT !.op = "answer", !.alert = a,
                           !.at = IF acknowledge THEN "acknowledge" ELSE "resolve",
                           !.red = acknowledge /\ ~alert[a].acknowledged,
                           !.todo = IF resolve THEN {"resolve"} ELSE {}])
    /\ UNCHANGED <<standing, template, checkin, alert, feed, history>>

\* UPDATE ... WHERE acknowledged_at IS NULL.
Acknowledge(w) ==
    /\ At(w, "answer", "acknowledge")
    /\ alert' = [alert EXCEPT ![request[w].alert].acknowledged = TRUE]
    /\ Goto(w, IF request[w].todo # {} THEN "resolve" ELSE "notify")
    /\ UNCHANGED <<standing, template, checkin, feed, history>>

\* UPDATE ... WHERE resolved_at IS NULL.
Resolve(w) ==
    /\ At(w, "answer", "resolve")
    /\ alert' = [alert EXCEPT ![request[w].alert].resolved = TRUE]
    /\ Goto(w, "notify")
    /\ UNCHANGED <<standing, template, checkin, feed, history>>

TellSubmissive(w) ==
    /\ At(w, "answer", "notify")
    /\ feed' = IF request[w].red THEN Noted("seen", request[w].alert) ELSE feed
    /\ End(w)
    /\ UNCHANGED <<standing, template, checkin, alert, history>>

-----------------------------------------------------------------------------
(* The template.                                                             *)

\* update_template reads the row; what the request leaves out is written back.
EditRead(w, escalate, fields) ==
    /\ Take(w, [Idle EXCEPT !.op = "edit", !.at = "update",
                           !.escalate = escalate,
                           !.todo = IF fields THEN {"fields"} ELSE {}])
    /\ UNCHANGED <<standing, template, checkin, alert, feed, history>>

EditUpdate(w) ==
    /\ At(w, "edit", "update")
    /\ template' = [template EXCEPT !.escalate = request[w].escalate]
    /\ IF request[w].todo # {} THEN Goto(w, "delete") ELSE End(w)
    /\ UNCHANGED <<standing, checkin, alert, feed, history>>

\* replace_fields: the rows go first, and come back one by one.
DeleteFields(w) ==
    /\ At(w, "edit", "delete")
    /\ template' = [template EXCEPT !.rows = 0]
    /\ Goto(w, "insert")
    /\ UNCHANGED <<standing, checkin, alert, feed, history>>

InsertField(w) ==
    /\ At(w, "edit", "insert")
    /\ template' = [template EXCEPT !.rows = @ + 1]
    /\ torn' = FALSE
    /\ End(w)
    /\ UNCHANGED <<standing, checkin, alert, feed, turns, raced, lost, refused, excused>>

-----------------------------------------------------------------------------
\* A database error, a notification that can not be written, or the process ends.
Abort(w) ==
    /\ request[w] # Idle
    /\ lost' = lost \cup ({request[w].checkin, request[w].alert} \ {None})
    /\ torn' = (torn \/ At(w, "edit", "insert"))
    /\ End(w)
    /\ UNCHANGED <<standing, template, checkin, alert, feed, turns, raced, refused, excused>>

\* set_status: nothing makes a link active again.
ChangeLink(status) ==
    /\ <<standing, status>> \in {<<"active", "paused">>, <<"active", "ended">>, <<"paused", "ended">>}
    /\ standing' = status
    /\ UNCHANGED <<template, checkin, alert, feed, requests, request, history>>

PostSafetyAlert(w) == Raise(w) \/ TellKeyholder(w)
PatchSafetyAlert(w) ==
    \/ \E a \in Alert, acknowledge, resolve \in BOOLEAN : AnswerRead(w, a, acknowledge, resolve)
    \/ Acknowledge(w) \/ Resolve(w) \/ TellSubmissive(w)
SafetyRoutes(w) == PostSafetyAlert(w) \/ PatchSafetyAlert(w)

PatchTemplate(w) ==
    \/ \E escalate, fields \in BOOLEAN : EditRead(w, escalate, fields)
    \/ EditUpdate(w) \/ DeleteFields(w) \/ InsertField(w)
PostCheckin(w) ==
    \/ \E c \in Checkin, p \in Parsed :
          CreateForKeyholder(w, c, p.color, p.photo) \/ CreateOwn(w, c, p.color, p.photo)
    \/ Attach(w) \/ AttachRefused(w)
    \/ request[w].op = "create" /\ (Reread(w) \/ Notify(w))
PatchCheckin(w) ==
    \/ \E c \in Checkin, color \in Colors \cup {"keep"} : PatchRead(w, c, color)
    \/ PatchUpdate(w)
    \/ request[w].op = "patch" /\ (Reread(w) \/ Notify(w))
CheckinRoutes(w) == PatchTemplate(w) \/ PostCheckin(w) \/ PatchCheckin(w)

CheckinsNext ==
    \/ \E w \in Thread : CheckinRoutes(w) \/ SafetyRoutes(w) \/ Abort(w)
    \/ \E c \in Checkin : UploadPhoto(c) \/ DeletePhoto(c)
    \/ \E status \in {"paused", "ended"} : ChangeLink(status)

CheckinsSpec == CheckinsInit /\ [][CheckinsNext]_checkinsVars

-----------------------------------------------------------------------------
(* Properties.                                                               *)

AlertsOf(c) == {a \in Alert : alert[a].raised /\ alert[a].checkin = c}
Carriers(a, ops) == {w \in Thread : request[w].alert = a /\ request[w].op \in ops}

\* What the keyholder was told of c being red: the rows about its alerts, and its red flags.
Notices(c) == UNION {{<<a, n>> : n \in 1..feed.raised[a]} : a \in AlertsOf(c)}
Told(c) == Cardinality(Notices(c)) + feed.flag[c]

\* A check-in raises an alert exactly when it turns red under a template that escalates
\* (update_checkin: an edit of a red check-in raises none), in the same step.
AlertsFollowRed ==
    [][\A c \in Checkin :
          Cardinality(AlertsOf(c)' \ AlertsOf(c)) =
              IF Red(c)' /\ ~Red(c) /\ template.escalate THEN 1 ELSE 0]_checkinsVars

\* Every alert is announced to the keyholder once (handlers notify after the commit), unless
\* the request that raised it was cut short or refused its photo.
KeyholderHears ==
    \A a \in Alert : alert[a].raised /\ a \notin lost \cup refused =>
        feed.raised[a] + Cardinality(Carriers(a, {"create", "patch", "raise"})) = 1

\* An acknowledged alert is told to the submissive at least once, whichever of the requests
\* that acknowledge it at the same time is first (patch_safety_alert).
SubmissiveHears ==
    \A a \in Alert : alert[a].acknowledged /\ a \notin lost =>
        feed.seen[a] > 0 \/ \E w \in Carriers(a, {"answer"}) : request[w].red

\* A check-in that no two requests had in hand at once is told to be red as often as it
\* turned red: by its alert or by a red flag, and never by both.
ToldOncePerTurn ==
    \A c \in Checkin : ~Busy(c) /\ c \notin raced \cup lost \cup refused =>
        Told(c) = turns[c]

\* Whatever requests overlap, who must hear of a red check-in or of an answer hears of it.
AlertsAreHeard == KeyholderHears /\ SubmissiveHears /\ ToldOncePerTurn

\* A check-in of a template that requires a photo has one, except when it was made while
\* the template's fields were being replaced or after a replacement that was cut short, when
\* its request failed after the commit, or when the photo was deleted.
RequiredPhotoOrCause ==
    \A c \in Checkin : Exists(c) =>
        \/ checkin[c].photo
        \/ c \in excused \cup lost \cup refused
        \/ \E w \in Thread : request[w].checkin = c /\ At(w, "create", "attach")

\* What a check-in owes is there, the alert that is heard and the photo, or the request that
\* left it out was cut short or refused.
NothingIsDropped == AlertsAreHeard /\ RequiredPhotoOrCause

=============================================================================
