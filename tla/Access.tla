-------------------------------- MODULE Access --------------------------------
(***************************************************************************)
(* Who reads what: the handlers of src/api that answer with rows and change   *)
(* none.  Each is one request in several statements on one connection: the    *)
(* credential is resolved (src/auth/session.rs, src/domain/api_tokens.rs),    *)
(* role and scope are tested on the copy, the link is looked up                *)
(* (src/domain/links/mod.rs), a catalog's setting is read, the rows are       *)
(* listed.  Between two of them links are paused and ended, settings and      *)
(* credentials change, and rows are added.                                    *)
(*                                                                         *)
(* A handler is the record of what it demands: the roles it admits, the scope *)
(* it wants of a token ("none" for none, "session" for no token at all), and  *)
(* by which lookup it reaches the rows.  A row is known by whose it is (a      *)
(* submissive, or the keyholder for a catalog) and by how their link stood    *)
(* when it was recorded; which table it is in is left out.                    *)
(***************************************************************************)
EXTENDS Integers, FiniteSets, TLC

CONSTANTS
    Keyholder, Submissive,      \* the users, by role
    Scopes                      \* the scopes a token may have in the run

User == Keyholder \cup Submissive
Roles == {"keyholder", "submissive"}
Reaches == {"own", "linked", "party", "toy", "feed", "ever", "status", "active", "open", "keyholder", "catalog"}
When == {"first", "linked", "after"}
Nobody == "nobody"

Demands ==
    {"none", "session", "read:submissives", "read:catalog", "read:proof-submissions", "read:safety-alerts",
     "manage:invites"}

ASSUME AccessAssumption ==
    /\ Keyholder \cap Submissive = {} /\ Nobody \notin User
    /\ Scopes \subseteq Demands \ {"none", "session"}

VARIABLES
    keeper,     \* per submissive, the keyholder of the link the invite made
    link,       \* its status
    shown,      \* its setting catalog_visible_to_submissive
    rows,       \* what is recorded
    credential, \* the one in use: a session or a token
    request         \* the request in flight and what it read

accessVars == <<keeper, link, shown, rows, credential, request>>

RoleOf(u) == IF u \in Keyholder THEN "keyholder" ELSE "submissive"
Kept(u) == {s \in Submissive : keeper[s] = u}
With(status) == {s \in Submissive : link[s] = status}

Route(roles, scope, reach) == [roles |-> roles, scope |-> scope, reach |-> reach]

NoCredential == [user |-> Nobody, token |-> FALSE, scopes |-> {}]

\* The fields after found are history: whose link was ended, and whose was
\* active, all through the request, the rows it came upon, and the values the
\* setting of the caller's own link had since.
NoRequest == [step |-> "idle", by |-> Nobody, route |-> Route({}, "none", "own"), on |-> Nobody,
         found |-> {}, answer |-> {}, over |-> {}, steady |-> {}, before |-> {}, settings |-> {}]

AccessTypeOK ==
    /\ keeper \in [Submissive -> Keyholder]
    /\ link \in [Submissive -> {"active", "paused", "ended"}]
    /\ shown \in [Submissive -> BOOLEAN]
    /\ rows \subseteq [of : User, when : When]
    /\ credential.user \in User \cup {Nobody}
    /\ credential.token => credential.user \in Keyholder    \* tokens are a keyholder's
    /\ credential.scopes \subseteq Scopes
    /\ request.step \in {"idle", "lookup", "setting", "list", "answered"}
    /\ request.by \in User \cup {Nobody} /\ request.on \in User \cup {Nobody}
    /\ request.route \in [roles : SUBSET Roles, scope : Demands, reach : Reaches]
    /\ request.found \subseteq User
    /\ request.answer \subseteq rows /\ request.before \subseteq rows
    /\ request.over \subseteq Submissive /\ request.steady \subseteq Submissive
    /\ request.settings \subseteq BOOLEAN

AccessInit ==
    /\ keeper \in [Submissive -> Keyholder]
    /\ link = [s \in Submissive |-> "active"]
    /\ shown = [s \in Submissive |-> TRUE]
    /\ rows = [of : User, when : {"first"}]
    /\ credential = NoCredential
    /\ request = NoRequest

-----------------------------------------------------------------------------
(* The handlers, by file.                                                    *)

Of(role, scope, reach) == Route({role}, scope, reach)

\* require_owned_submissive; a submissive's own devices and sessions need no link.
ListDevicesForKeyholder == Of("keyholder", "read:submissives", "linked")
ListOwnDevices == Of("submissive", "none", "own")
StatusForKeyholder == Of("keyholder", "read:submissives", "linked")
OwnStatus == Of("submissive", "none", "own")
ListAllTimerAdjustments == Of("submissive", "none", "own")
ListTimerAdjustments == Of("submissive", "none", "own")
SessionHistoryForKeyholder == Of("keyholder", "read:submissives", "linked")
OwnSessionHistory == Of("submissive", "none", "own")
ChastityReads ==
    {ListDevicesForKeyholder, ListOwnDevices, StatusForKeyholder, OwnStatus, ListAllTimerAdjustments,
     ListTimerAdjustments, SessionHistoryForKeyholder, OwnSessionHistory}

\* Play sessions and check-ins ask no scope of a token; by id, either party's.
ListPlans == Of("keyholder", "none", "own")
ListPlansForSubmissive == Of("submissive", "none", "catalog")
PlaySessionsForKeyholder == Of("keyholder", "none", "linked")
ListOwnPlaySessions == Of("submissive", "none", "active")
GetSession == Route(Roles, "none", "party")
ListFormsForKeyholder == Of("keyholder", "none", "own")
ListFormsForSubmissive == Of("submissive", "none", "catalog")
CheckinsForKeyholder == Of("keyholder", "none", "linked")
ListOwnCheckins == Of("submissive", "none", "active")
DownloadPhoto == Route(Roles, "none", "party")
DownloadAudio == Route(Roles, "none", "party")
PlayReads ==
    {ListPlans, ListPlansForSubmissive, PlaySessionsForKeyholder, ListOwnPlaySessions, GetSession,
     ListFormsForKeyholder, ListFormsForSubmissive, CheckinsForKeyholder, ListOwnCheckins, DownloadPhoto,
     DownloadAudio}

\* A submission is its submissive's own whatever became of the link.
OwnSubmissions == Of("submissive", "none", "own")
OwnSubmissionDetail == Of("submissive", "none", "party")
SubmissionsForKeyholder == Of("keyholder", "read:proof-submissions", "linked")
SubmissionFeed == Of("keyholder", "read:proof-submissions", "feed")
SubmissionDetailForKeyholder == Of("keyholder", "read:proof-submissions", "party")
PolicyForKeyholder == Of("keyholder", "read:submissives", "linked")
OwnPolicy == Of("submissive", "none", "active")
CurrentCode == Of("submissive", "none", "active")
CodeHistory == Of("keyholder", "read:submissives", "linked")
ProofReads ==
    {OwnSubmissions, OwnSubmissionDetail, SubmissionsForKeyholder, SubmissionFeed,
     SubmissionDetailForKeyholder, PolicyForKeyholder, OwnPolicy, CurrentCode, CodeHistory}

AssignmentsForKeyholder == Of("keyholder", "read:submissives", "linked")
AssignmentFeed == Of("keyholder", "read:submissives", "feed")
AssignmentDetail == Of("keyholder", "read:submissives", "party")
OwnAssignments == Of("submissive", "none", "active")
PointsForKeyholder == Of("keyholder", "read:submissives", "linked")
PointsOwn == Of("submissive", "none", "active")
ListRedemptionRequests == Of("keyholder", "read:submissives", "feed")
ListRules == Of("keyholder", "read:submissives", "linked")
ListTemplates == Of("keyholder", "read:catalog", "own")
ListTemplatesForSubmissive == Of("submissive", "none", "catalog")
ListSafetyAlerts == Of("keyholder", "read:safety-alerts", "feed")
WorkReads ==
    {AssignmentsForKeyholder, AssignmentFeed, AssignmentDetail, OwnAssignments, PointsForKeyholder, PointsOwn,
     ListRedemptionRequests, ListRules, ListTemplates, ListTemplatesForSubmissive, ListSafetyAlerts}

ToysForKeyholder == Of("keyholder", "read:submissives", "linked")
ListOwnToys == Of("submissive", "none", "own")
DownloadToyPhoto == Route(Roles, "read:submissives", "toy")
OwnProfile == Route(Roles, "none", "own")
ProfileForKeyholder == Of("keyholder", "read:submissives", "linked")
KeyholderProfile == Of("submissive", "none", "keyholder")
ListItems == Of("keyholder", "none", "own")
OwnStats == Of("submissive", "none", "open")
StatsForKeyholder == Of("keyholder", "read:submissives", "linked")
PersonReads ==
    {ToysForKeyholder, ListOwnToys, DownloadToyPhoto, OwnProfile, ProfileForKeyholder, KeyholderProfile,
     ListItems, OwnStats, StatsForKeyholder}

\* The roster is of the status asked for; the audit log and the pending requests
\* to end are of every link there was.
Roster == Of("keyholder", "read:submissives", "status")
ListEndRequests == Of("keyholder", "none", "ever")
OwnEndRequest == Of("submissive", "none", "own")
AuditLog == Of("keyholder", "none", "ever")
Me == Route(Roles, "none", "own")
ListSessions == Route(Roles, "session", "own")
TwoFactorStatus == Route(Roles, "none", "own")
ListTokens == Of("keyholder", "none", "own")
ListInvites == Of("keyholder", "manage:invites", "own")
ListNotifications == Route(Roles, "none", "own")
ListPushSubscriptions == Route(Roles, "none", "own")
AccountReads ==
    {Roster, ListEndRequests, OwnEndRequest, AuditLog, Me, ListSessions, TwoFactorStatus, ListTokens,
     ListInvites, ListNotifications, ListPushSubscriptions}

Routes == ChastityReads \cup PlayReads \cup ProofReads \cup WorkReads \cup PersonReads \cup AccountReads

-----------------------------------------------------------------------------
(* The credential.                                                           *)

\* Bound: no other credential is used before the request is answered.
Unused == credential = NoCredential /\ request = NoRequest

\* A login; the extractor resolves a live session only.
IssueSession ==
    /\ Unused
    /\ \E u \in User : credential' = [user |-> u, token |-> FALSE, scopes |-> {}]
    /\ UNCHANGED <<keeper, link, shown, rows, request>>

\* Mutant of IssueToken: anyone may have one.
IssueTokenToAll ==
    /\ Unused
    /\ \E u \in User, held \in SUBSET Scopes : credential' = [user |-> u, token |-> TRUE, scopes |-> held]
    /\ UNCHANGED <<keeper, link, shown, rows, request>>

IssueToken ==
    /\ Unused
    /\ \E k \in Keyholder, held \in SUBSET Scopes : credential' = [user |-> k, token |-> TRUE, scopes |-> held]
    /\ UNCHANGED <<keeper, link, shown, rows, request>>

Revoke(token) ==
    /\ credential # NoCredential /\ credential.token = token
    /\ credential' = NoCredential
    /\ UNCHANGED <<keeper, link, shown, rows, request>>

RevokeSession == Revoke(FALSE)
RevokeToken == Revoke(TRUE)

RequireRole(route) == RoleOf(credential.user) \in route.roles
RequireScope(route) == credential.token => route.scope \in credential.scopes \cup {"none"}

\* CurrentUser: from here on the request has its own copy of who asks.
\* on: the submissive the path names, or whose row its id is.
Arrive ==
    /\ request = NoRequest
    /\ credential # NoCredential
    /\ \E route \in Routes :
          /\ RequireRole(route) /\ RequireScope(route)
          /\ \E on \in (IF route.reach \in {"linked", "party", "toy"} THEN Submissive ELSE {credential.user}) :
                request' = [NoRequest EXCEPT
                               !.step = "lookup", !.by = credential.user, !.route = route, !.on = on,
                               !.over = With("ended"), !.steady = With("active"), !.before = rows,
                               !.settings = {shown[s] : s \in {credential.user} \cap Submissive}]
    /\ UNCHANGED <<keeper, link, shown, rows, credential>>

-----------------------------------------------------------------------------
(* The lookups: whose rows the statements that follow may list.              *)

ActiveLinkForSubmissive(u) == {u} \cap With("active")
ActiveOrPausedLinkForSubmissive(u) == {u} \cap (With("active") \cup With("paused"))

\* Mutant of ActiveLinkIdsForKeyholder: query_row, one link.
OneActiveLink(u) == IF Kept(u) \cap With("active") = {} THEN {}
                    ELSE {CHOOSE s \in Kept(u) \cap With("active") : TRUE}

ActiveLinkIdsForKeyholder(u) == Kept(u) \cap With("active")

\* Mutant of ActiveOrPausedLinkForKeyholder: whatever its status.
LinkForKeyholder(u, s) == Kept(u) \cap {s}

ActiveOrPausedLinkForKeyholder(u, s) == Kept(u) \cap {s} \cap (With("active") \cup With("paused"))

\* links::parties, then the caller is one of them.
IsParty(u, s) == u \in {s, keeper[s]}

Reply(answer) == [request EXCEPT !.step = "answered", !.answer = answer]
Found(users) == IF users = {} THEN Reply({}) ELSE [request EXCEPT !.step = "list", !.found = users]

LookingUp(reach) ==
    /\ request.step = "lookup" /\ request.route.reach = reach
    /\ UNCHANGED <<keeper, link, shown, rows, credential>>

LookupOwn == LookingUp("own") /\ request' = Found({request.by})
LookupLinked ==
    /\ LookingUp("linked")
    /\ request' = Found(ActiveOrPausedLinkForKeyholder(request.by, request.on))
LookupParty == LookingUp("party") /\ request' = Found({s \in {request.on} : IsParty(request.by, s)})
\* require_reachable_toy: one's own, or over a link that has not ended.
LookupToy ==
    /\ LookingUp("toy")
    /\ request' = Found(IF RoleOf(request.by) = "submissive" THEN {request.by} \cap {request.on}
                        ELSE ActiveOrPausedLinkForKeyholder(request.by, request.on))

LookupFeed == LookingUp("feed") /\ request' = Found(ActiveLinkIdsForKeyholder(request.by))
LookupActive == LookingUp("active") /\ request' = Found(ActiveLinkForSubmissive(request.by))
LookupOpen == LookingUp("open") /\ request' = Found(ActiveOrPausedLinkForSubmissive(request.by))

\* The two in one statement with their lists, which no other can divide.
LookupEver == LookingUp("ever") /\ request' = Reply({r \in rows : r.of \in Kept(request.by)})
LookupStatus ==
    /\ LookingUp("status")
    /\ \E status \in {"active", "paused", "ended"} :
          request' = Reply({r \in rows : r.of \in Kept(request.by) \cap With(status) /\ r.when = "first"})

LookupKeyholder ==
    /\ LookingUp("keyholder")
    /\ request' = Found({keeper[s] : s \in ActiveOrPausedLinkForSubmissive(request.by)})

LookupCatalog ==
    /\ LookingUp("catalog")
    /\ request' = IF ActiveLinkForSubmissive(request.by) = {} THEN Reply({})
                   ELSE [request EXCEPT !.step = "setting"]

\* settings_for_link, then parties.
ReadSetting ==
    /\ request.step = "setting"
    /\ request' = IF shown[request.by] THEN Found({keeper[request.by]}) ELSE Reply({})
    /\ UNCHANGED <<keeper, link, shown, rows, credential>>

Lookup ==
    \/ LookupOwn \/ LookupLinked \/ LookupParty \/ LookupToy \/ LookupFeed \/ LookupActive
    \/ LookupOpen \/ LookupEver \/ LookupStatus \/ LookupKeyholder \/ LookupCatalog

\* The rows of the links found.
ListRows ==
    /\ request.step = "list" /\ request.route.reach \notin {"party", "toy"}
    /\ request' = Reply({r \in rows : r.of \in request.found})
    /\ UNCHANGED <<keeper, link, shown, rows, credential>>

\* The one row the id names.
GetRow ==
    /\ request.step = "list" /\ request.route.reach \in {"party", "toy"}
    /\ \E r \in rows : r.of \in request.found /\ request' = Reply({r})
    /\ UNCHANGED <<keeper, link, shown, rows, credential>>

Done ==
    /\ request.step = "answered"
    /\ request' = NoRequest
    /\ UNCHANGED <<keeper, link, shown, rows, credential>>

-----------------------------------------------------------------------------
(* Meanwhile.                                                                *)

\* Forward; but the status was read before it is written, and a pause that began
\* earlier reopens a link that has ended since (Links).
SetStatus ==
    /\ \E s \in Submissive, status \in {"paused", "ended"} :
          /\ status # link[s]
          /\ link' = [link EXCEPT ![s] = status]
          /\ request' = [request EXCEPT !.over = IF status = "ended" THEN @ ELSE @ \ {s},
                                        !.steady = @ \ {s}]
    /\ UNCHANGED <<keeper, shown, rows, credential>>

\* The link, not ended, was looked up by an earlier statement.
SetSettings ==
    /\ \E s \in Submissive :
          /\ shown' = [shown EXCEPT ![s] = ~@]
          /\ request' = IF request.by = s THEN [request EXCEPT !.settings = @ \cup {~shown[s]}]
                         ELSE request
    /\ UNCHANGED <<keeper, link, rows, credential>>

\* A row of s, by any of the handlers the other modules have.
Record ==
    /\ \E s \in Submissive : rows' = rows \cup {[of |-> s, when |-> IF link[s] = "ended" THEN "after" ELSE "linked"]}
    /\ rows' # rows
    /\ UNCHANGED <<keeper, link, shown, credential, request>>

AccessNext ==
    \/ IssueSession \/ IssueToken \/ RevokeSession \/ RevokeToken
    \/ Arrive \/ Lookup \/ ReadSetting \/ ListRows \/ GetRow \/ Done
    \/ SetStatus \/ SetSettings \/ Record

AccessSpec == AccessInit /\ [][AccessNext]_accessVars

-----------------------------------------------------------------------------
(* Properties.                                                               *)

Answered(reaches) == request.step = "answered" /\ request.route.reach \in reaches
Whose == {r.of : r \in request.answer}

\* Whatever is changed while a request is served, it answers with rows of the
\* caller, of submissives the caller keeps, or of the caller's keyholder; a list over
\* the link has none of a submissive whose link was over all the while, and a
\* catalog is shown only if it was visible at some moment of the request
\* (src/domain/links/mod.rs:62-84, src/api/templates.rs:106-110).
AnswersAreScoped ==
    /\ request.step = "answered" =>
          \A u \in Whose : u = request.by \/ u \in Kept(request.by) \/ request.by \in Kept(u)
    /\ Answered({"linked", "feed", "active", "open", "keyholder", "catalog"}) =>
          /\ Whose \cap request.over = {}
          /\ request.by \in request.over => request.answer = {}
    /\ Answered({"catalog"}) /\ request.answer # {} => TRUE \in request.settings

\* Whose rows the caller has a claim to from the request's beginning to its end.
Entitled ==
    CASE request.route.reach = "own" -> {request.by}
      [] request.route.reach = "linked" -> Kept(request.by) \cap {request.on} \cap request.steady
      [] request.route.reach = "feed" -> Kept(request.by) \cap request.steady
      [] request.route.reach = "ever" -> Kept(request.by)
      [] request.route.reach \in {"active", "open"} -> {request.by} \cap request.steady
      [] request.route.reach = "keyholder" -> {keeper[s] : s \in {request.by} \cap request.steady}
      [] request.route.reach = "catalog" ->
            IF request.settings = {TRUE} THEN {keeper[s] : s \in {request.by} \cap request.steady} ELSE {}
      [] OTHER -> {}

\* A list leaves nothing out: every row that was there when the request came, of
\* everyone whose link was active from then to the answer, is in it, whatever
\* becomes of the other links meanwhile (src/domain/links/mod.rs:50-60).
AnswersAreComplete ==
    request.step = "answered" => {r \in request.before : r.of \in Entitled} \subseteq request.answer

-----------------------------------------------------------------------------
(* What the documents say and the code does not do.                          *)

\* docs/02-roles-and-permissions.md:115-118: once the link has ended the former
\* keyholder sees nothing the submissive does after it.  By its id a check-in, an
\* assignment, a submission or a play session is read over a link in any status, and
\* the audit log is of every link.
NothingLateForTheFormer ==
    request.step = "answered" =>
        \A r \in request.answer : r.when = "after" => r.of \notin Kept(request.by) \cap request.over
=============================================================================
