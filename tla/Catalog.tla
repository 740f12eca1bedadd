------------------------------- MODULE Catalog -------------------------------
(***************************************************************************)
(* What the parties write down: a toy and the request to remove it           *)
(* (src/domain/toys.rs, src/api/toys.rs), their profiles                     *)
(* (src/domain/profiles.rs, src/api/profiles.rs), a reward template           *)
(* (src/domain/rewards_punishments/templates.rs, src/api/templates.rs), the   *)
(* catalog of limits and the ratings of it (src/domain/limits.rs,             *)
(* src/api/limits.rs), a plan for play sessions (src/domain/play_sessions.rs) *)
(* and an API token (src/domain/api_tokens.rs).  One link.                   *)
(*                                                                         *)
(* All the edits but the token's have one shape: read the row, put the fields *)
(* of the request over it, write every column back, in two statements; the    *)
(* token's is the one statement.  Two columns stand                          *)
(* for all: "text" for any, "mark" for the one a rule reads (the photo of a   *)
(* toy, the limits of a profile, the active flag of an item).  In a template  *)
(* "text" is its effect, 1 for time_extension, and "mark" the seconds that    *)
(* this effect needs, which no request can take away.                        *)
(***************************************************************************)
EXTENDS Integers, FiniteSets

CONSTANTS
    Item,           \* the keyholder's own rows of limit_items
    Seed,           \* the rows every deployment has, which nobody edits
    Thread,         \* pool threads that serve requests
    MaxRequests     \* bound: the requests of a behaviour

ASSUME CatalogAssumption ==
    /\ Item \cap Seed = {}
    /\ {"toy", "template", "plan", "token", "keyholder", "submissive"} \cap (Item \cup Seed) = {}
    /\ MaxRequests \in Nat

VARIABLES
    link,       \* the status of the link
    exists,     \* the records that were created
    row,        \* per record, its columns
    notes,      \* keyholder_notes of the submissive's profile
    toy,        \* retirement_requested_at and retired_at of the toy
    rating,     \* per party, its row of the ratings of an item
    told,       \* the keyholder has the notification of the pending removal request
    request,        \* per worker, the request in flight and what it read
    requests,   \* how many requests have come
    given,      \* history: per record and column, what was last asked for
    said,       \* history: per party and item, the rating last asked for
    crossed,    \* history: records two edits of which overlapped
    late,       \* history: the toy was retired while a removal request was in flight
    silent      \* history: a removal request was recorded and its handler cut short

catalogVars == <<link, exists, row, notes, toy, rating, told, request, requests, given, said, crossed, late, silent>>

Party == {"keyholder", "submissive"}
Records == {"toy", "template", "plan", "token"} \cup Party \cup Item     \* a party's record is its profile
Columns == {"text", "mark"}
Rows == [Columns -> {0, 1}]
Blank == [c \in Columns |-> 0]
Ratings == {"none", "hard", "okay"}

\* What a request names: the columns of its domain.
Edits == UNION {[named -> {0, 1}] : named \in SUBSET Columns}
Lists == UNION {[items -> Ratings] : items \in SUBSET (Item \cup Seed)}

Idle == [op |-> "idle", record |-> "toy", seen |-> Blank, edit |-> <<>>, list |-> <<>>]

CatalogTypeOK ==
    /\ link \in {"active", "paused", "ended"}
    /\ exists \subseteq Records
    /\ row \in [Records -> Rows]
    /\ notes \in {0, 1}
    /\ toy \in [requested : BOOLEAN, retired : BOOLEAN]
    /\ rating \in [Party -> [Item \cup Seed -> Ratings]]
    /\ told \in BOOLEAN
    /\ \A w \in Thread :
          /\ request[w].op \in {"idle", "edit", "remove", "tell", "list", "answer"}
          /\ request[w].record \in Records
          /\ request[w].seen \in Rows
          /\ request[w].edit \in Edits
          /\ request[w].list \in Lists
    /\ requests \in 0..MaxRequests
    /\ given \in [Records -> Rows]
    /\ said \in [Party -> [Item \cup Seed -> Ratings]]
    /\ crossed \subseteq Records
    /\ late \in BOOLEAN /\ silent \in BOOLEAN

\* The profiles come with the accounts.
CatalogInit ==
    /\ link = "active"
    /\ exists = Party
    /\ row = [r \in Records |-> Blank]
    /\ notes = 0
    /\ toy = [requested |-> FALSE, retired |-> FALSE]
    /\ rating = [p \in Party |-> [i \in Item \cup Seed |-> "none"]]
    /\ told = FALSE
    /\ request = [w \in Thread |-> Idle]
    /\ requests = 0
    /\ given = row /\ said = rating
    /\ crossed = {} /\ late = FALSE /\ silent = FALSE

Reachable == link # "ended"
Listed == Seed \cup {i \in Item \cap exists : row[i]["mark"] = 1}
Count == requests < MaxRequests /\ requests' = requests + 1

\* A request that reads before it acts: worker w takes it up as j.
Take(w, j) == request[w] = Idle /\ Count /\ request' = [request EXCEPT ![w] = j]
End(w) == request' = [request EXCEPT ![w] = Idle] /\ UNCHANGED requests

\* A template of a reward that extends the time says by how much.
Valid(r) == r["text"] = 1 => r["mark"] = 1

\* The columns of r, but as edit has those it names.
Over(edit, r) == [c \in Columns |-> IF c \in DOMAIN edit THEN edit[c] ELSE r[c]]

\* Mutant of Merge: a field left out is blank.
MergeBlank(edit, seen) == Over(edit, Blank)

\* unwrap_or over each field.
Merge(edit, seen) == Over(edit, seen)

-----------------------------------------------------------------------------
(* The rows.                                                                 *)

Create(record, r) ==
    /\ Count
    /\ record \notin exists
    /\ exists' = exists \cup {record}
    /\ row' = [row EXCEPT ![record] = r]
    /\ given' = [given EXCEPT ![record] = r]
    /\ UNCHANGED <<link, notes, toy, rating, told, request, said, crossed, late, silent>>

\* A toy is added by the submissive or, over the link, the keyholder.
CreateToy == Create("toy", Blank)
CreateOwnToy == CreateToy
CreateToyForKeyholder == Reachable /\ CreateToy

\* templates::create: validated first.
InsertTemplate(r) == Valid(r) /\ Create("template", r)
CreateTemplate == \E r \in Rows : InsertTemplate(r)

\* play_sessions::create_template: whatever the request says.
InsertPlan(r) == Create("plan", r)
CreatePlan == \E r \in Rows : InsertPlan(r)

\* Mutant of InsertItem: the flag is left out of the INSERT.
InsertItemBare(i) == Create(i, [c \in {"text"} |-> 0])

\* limits::create_item: active.
InsertItem(i) == Create(i, [Blank EXCEPT !["mark"] = 1])

CreateItem == \E i \in Item : InsertItem(i)

InsertToken(r) == Create("token", r)
CreateToken == \E r \in Rows : InsertToken(r)

\* api_tokens::update: COALESCE over the columns, in one statement.
UpdateToken(edit) ==
    /\ "token" \in exists
    /\ Count
    /\ row' = [row EXCEPT !["token"] = Merge(edit, @)]
    /\ given' = [given EXCEPT !["token"] = Over(edit, @)]
    /\ UNCHANGED <<link, exists, notes, toy, rating, told, request, said, crossed, late, silent>>
PatchToken == \E edit \in Edits : UpdateToken(edit)

\* The handler reads the row to find out whose it is, and the domain function reads it again.
Read(w, record, edit) ==
    /\ record \in exists
    /\ Take(w, [Idle EXCEPT !.op = "edit", !.record = record,
                            !.seen = row[record], !.edit = edit])
    /\ crossed' = IF \E v \in Thread : request[v].op = "edit" /\ request[v].record = record
                  THEN crossed \cup {record} ELSE crossed
    /\ UNCHANGED <<link, exists, row, notes, toy, rating, told, given, said, late, silent>>

\* patch_toy, by either party, also of a retired toy.
PatchToy(w, by, value) ==
    /\ by = "keyholder" => Reachable
    /\ Read(w, "toy", [c \in {"text"} |-> value])

\* upload_photo, once the file is stored.
UploadPhoto(w, by) ==
    /\ by = "keyholder" => Reachable
    /\ Read(w, "toy", [c \in {"mark"} |-> 1])

DeletePhoto(w, by) ==
    /\ by = "keyholder" => Reachable
    /\ Read(w, "toy", [c \in {"mark"} |-> 0])

\* patch_own_profile.
PatchProfile(w, by, edit) == Read(w, by, edit)

\* patch_keyholder_notes: the one column of that profile its owner's edits leave alone.
UpdateKeyholderNotes(value) == notes' = value
WriteNotes(value) ==
    /\ Reachable
    /\ Count
    /\ UpdateKeyholderNotes(value)
    /\ UNCHANGED <<link, exists, row, toy, rating, told, request, given, said, crossed, late, silent>>

\* patch_template: the seconds can be given and not taken away.
PatchTemplate(w, edit) ==
    /\ "mark" \in DOMAIN edit => edit["mark"] = 1
    /\ Read(w, "template", edit)

\* patch_template of api/play_sessions.rs: nothing is validated.
PatchPlan(w, edit) == Read(w, "plan", edit)

\* patch_item: the keyholder's own items only.
PatchItem(w, i, edit) == i \in Item /\ Read(w, i, edit)

\* The UPDATE of every column.
Write(w, record) ==
    /\ request[w].op = "edit" /\ request[w].record = record
    /\ row' = [row EXCEPT ![record] = Merge(request[w].edit, request[w].seen)]
    /\ given' = [given EXCEPT ![record] = Over(request[w].edit, @)]
    /\ End(w)
    /\ UNCHANGED <<link, exists, notes, toy, rating, told, said, crossed, late, silent>>

UpdateToy(w) == Write(w, "toy")
UpdatePlan(w) == Write(w, "plan")
UpdateKeyholderProfile(w) == Write(w, "keyholder")
UpdateSubmissiveProfile(w) == Write(w, "submissive")
UpdateItem(w) == \E i \in Item : Write(w, i)

\* Mutant of UpdateTemplate: the named fields are validated, the merged row is not.
UpdateTemplateLax(w) == Valid(Merge(request[w].edit, [Blank EXCEPT !["mark"] = 1])) /\ Write(w, "template")

\* templates::update validates the row it is about to write.
UpdateTemplate(w) == Valid(Merge(request[w].edit, request[w].seen)) /\ Write(w, "template")

-----------------------------------------------------------------------------
(* Removal of the toy.                                                       *)

\* request_removal up to its test of the row.
RemovalRead(w) ==
    /\ "toy" \in exists
    /\ ~toy.retired /\ ~toy.requested
    /\ Take(w, [Idle EXCEPT !.op = "remove"])
    /\ UNCHANGED <<link, exists, row, notes, toy, rating, told, given, said, crossed, late, silent>>

\* The UPDATE, by id.
RemovalWrite(w) ==
    /\ request[w].op = "remove"
    /\ toy' = [toy EXCEPT !.requested = TRUE]
    /\ told' = FALSE
    /\ request' = [request EXCEPT ![w].op = "tell"]
    /\ UNCHANGED <<link, exists, row, notes, rating, requests, given, said, crossed, late, silent>>

\* The keyholder is looked up by the active link: there may be none, and the answer is an error.
RemovalTold(w) ==
    /\ request[w].op = "tell"
    /\ told' = (told \/ link = "active")
    /\ silent' = (silent \/ link # "active")
    /\ End(w)
    /\ UNCHANGED <<link, exists, row, notes, toy, rating, given, said, crossed, late>>

\* The transaction of retire, with or without a request, also of a retired toy.
RetireRow == toy' = [requested |-> FALSE, retired |-> TRUE]

Retire ==
    /\ Reachable /\ "toy" \in exists
    /\ RetireRow
    /\ late' = (late \/ \E w \in Thread : request[w].op = "remove")
    /\ silent' = FALSE
    /\ UNCHANGED <<link, exists, row, notes, rating, told, request, requests, given, said, crossed>>

\* The transaction of decline_removal.
DeclineRow == toy.requested /\ toy' = [toy EXCEPT !.requested = FALSE]

DeclineRemoval ==
    /\ Reachable
    /\ DeclineRow
    /\ silent' = FALSE
    /\ UNCHANGED <<link, exists, row, notes, rating, told, request, requests, given, said, crossed, late>>

-----------------------------------------------------------------------------
(* Ratings of limits.                                                        *)

\* Mutant of Rate: a conflict does nothing.
RateOnce(party, i, value) ==
    /\ i \in Seed \cup exists
    /\ Count
    /\ rating' = [rating EXCEPT ![party][i] = IF @ = "none" \/ value = "none" THEN value ELSE @]
    /\ said' = [said EXCEPT ![party][i] = value]
    /\ UNCHANGED <<link, exists, row, notes, toy, told, request, given, crossed, late, silent>>

\* One statement, the upsert of a rating or its deletion: any item, active or not.
Rate(party, i, value) ==
    /\ i \in Seed \cup exists
    /\ Count
    /\ rating' = [rating EXCEPT ![party][i] = value]
    /\ said' = [said EXCEPT ![party][i] = value]
    /\ UNCHANGED <<link, exists, row, notes, toy, told, request, given, crossed, late, silent>>

DeleteRating(i) == Rate("submissive", i, "none")
UpsertKeyholderRating(i, value) == value # "none" /\ Rate("keyholder", i, value)
DeleteKeyholderRating(i) == Rate("keyholder", i, "none")

SetRating(i) == \E value \in Ratings \ {"none"} : Rate("submissive", i, value)
ClearRating(i) == DeleteRating(i)
SetKeyholderRating(i) == \E value \in Ratings : UpsertKeyholderRating(i, value)
ClearKeyholderRating(i) == DeleteKeyholderRating(i)

\* The first query of a list: the active items.
ListItems(w, party) ==
    /\ Take(w, [Idle EXCEPT !.op = "list", !.record = party, !.list = [i \in Listed |-> "none"]])
    /\ UNCHANGED <<link, exists, row, notes, toy, rating, told, given, said, crossed, late, silent>>

\* list_own_items, and the keyholder's look at it.
ListOwnItems(w) == link = "active" /\ ListItems(w, "submissive")
ListRatingsForKeyholder(w) == Reachable /\ ListItems(w, "submissive")
ListKeyholderItems(w) == ListItems(w, "keyholder")

\* The second query: the party's ratings.
Paired(party, items) == [i \in items |-> rating[party][i]]

AddRatings(w) ==
    /\ request[w].op = "list"
    /\ request' = [request EXCEPT ![w].op = "answer",
                                  ![w].list = Paired(request[w].record, DOMAIN request[w].list)]
    /\ UNCHANGED <<link, exists, row, notes, toy, rating, told, requests, given, said, crossed, late, silent>>

-----------------------------------------------------------------------------
\* An answer goes out, a template's edit is refused, or the request is cut short.
Leave(w) ==
    /\ request[w] # Idle
    /\ silent' = (silent \/ request[w].op = "tell")
    /\ End(w)
    /\ UNCHANGED <<link, exists, row, notes, toy, rating, told, given, said, crossed, late>>

\* set_status: nothing makes a link active again.
ChangeLink(status) ==
    /\ <<link, status>> \in {<<"active", "paused">>, <<"active", "ended">>, <<"paused", "ended">>}
    /\ link' = status
    /\ UNCHANGED <<exists, row, notes, toy, rating, told, request, requests, given, said, crossed, late, silent>>

RemoveToy(w) == RemovalRead(w) \/ RemovalWrite(w) \/ RemovalTold(w)
ToyRoutes(w) ==
    \/ CreateOwnToy \/ CreateToyForKeyholder
    \/ \E by \in Party : \/ \E value \in {0, 1} : PatchToy(w, by, value)
                         \/ UploadPhoto(w, by) \/ DeletePhoto(w, by)
    \/ UpdateToy(w)
    \/ RemoveToy(w) \/ Retire \/ DeclineRemoval

ProfileRoutes(w) ==
    \/ \E by \in Party, edit \in Edits : PatchProfile(w, by, edit)
    \/ UpdateKeyholderProfile(w) \/ UpdateSubmissiveProfile(w)
    \/ \E value \in {0, 1} : WriteNotes(value)

TemplateRoutes(w) ==
    \/ CreateTemplate
    \/ \E edit \in Edits : PatchTemplate(w, edit)
    \/ UpdateTemplate(w)

PlanRoutes(w) ==
    \/ CreatePlan
    \/ \E edit \in Edits : PatchPlan(w, edit)
    \/ UpdatePlan(w)

LimitRoutes(w) ==
    \/ CreateItem
    \/ \E i \in Item, edit \in Edits : PatchItem(w, i, edit)
    \/ UpdateItem(w)
    \/ \E i \in Item \cup Seed : \/ SetRating(i) \/ ClearRating(i)
                               \/ SetKeyholderRating(i) \/ ClearKeyholderRating(i)
    \/ ListOwnItems(w) \/ ListRatingsForKeyholder(w) \/ ListKeyholderItems(w)
    \/ AddRatings(w)

TokenRoutes == CreateToken \/ PatchToken

CatalogNext ==
    \/ \E w \in Thread :
          \/ ToyRoutes(w) \/ ProfileRoutes(w) \/ TemplateRoutes(w) \/ PlanRoutes(w)
          \/ LimitRoutes(w)
          \/ Leave(w)
    \/ TokenRoutes
    \/ \E status \in {"paused", "ended"} : ChangeLink(status)

CatalogSpec == CatalogInit /\ [][CatalogNext]_catalogVars

-----------------------------------------------------------------------------
(* Properties.                                                               *)

\* An edit changes what it names and keeps the rest (toys::update, profiles, limits), unless
\* two edits of the row overlapped: then the second write takes the first one back.
EditsKeepTheRest == \A r \in exists \ crossed : row[r] = given[r]

\* The template is one that create would accept, whatever edits of it overlap: each of them
\* was validated over what it read, and writes all of that (templates::update).
TemplateStaysValid == "template" \in exists => Valid(row["template"])

EditsAreSound == EditsKeepTheRest /\ TemplateStaysValid

\* No request is pending on a retired toy, unless one was being made when it was retired
\* (retire clears it); and the keyholder knows of a pending one, unless its handler was
\* cut short or found no active link.
RemovalsAreSettled ==
    /\ toy.requested /\ toy.retired => late
    /\ toy.requested => told \/ silent \/ \E w \in Thread : request[w].op = "tell"

\* What the requests leave in the rows is what they asked for, edit by edit and removal
\* by removal.
RowsAreSound == EditsAreSound /\ RemovalsAreSettled

\* A list that is answered gives each of its items the rating its party last asked for: an
\* item never shows as not discussed, or okay, that has been rated as a hard limit.
ListsAreCurrent ==
    [][\A w \in Thread : request[w].op = "list" /\ request'[w].op = "answer" =>
          \A i \in DOMAIN request'[w].list : request'[w].list[i] = said[request[w].record][i]]_catalogVars

=============================================================================
