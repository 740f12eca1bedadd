# A formal model of owners-cock-ledger

The repository is a Rust web server (axum, SQLite through an r2d2 pool) in which a
*keyholder* sets tasks, rewards, punishments, verification codes and a lock clock for a
*submissive*. Its rules are about who may still change what, and when. Requests run on
pool threads, four background loops run beside them, and only some of the handlers open a
transaction. This directory models those rules in TLA+, checks them with TLC on small
instances and proves some of them with TLAPS for every instance.

Paths below are relative to the repository.

## 1. How the program runs

* Every HTTP handler does its database work in `spawn_blocking`, on a connection taken
  from a pool. Any number of handlers run at once.
* SQLite executes one writer at a time. A function that opens a transaction either runs
  as if alone or is rolled back; a function that does not is a sequence of statements, and
  other requests run between them. This difference is where most of the hazards are.
* `src/main.rs` spawns loops: the deadline tick every 60 s (auto-failure of overdue tasks,
  confinement and oversight reminders, end-request escalation, recurring tasks), and the
  code issuance tick. Each pass logs its error and leaves the rest to the next tick. Its
  subcommands (`force-end-link`, `unlock-account`, ...) are processes of their own on the
  same database.
* The process may stop anywhere. The tables survive, everything else is lost.

So throughout: *a transaction is one action; a function without one is one action per
statement (adjacent reads that nothing can come between to any effect are merged); what a
handler has read lives in a per-worker `job`; a crash empties the jobs and leaves the
tables*.

## 2. Inventory

| component | state | operations | hard behaviour | module |
|---|---|---|---|---|
| Assignments (`domain/rewards_punishments/assignments.rs`, `api/assignments.rs`) | rows of `assignments`: status, deadline, templates of escalation, linked proof | create, acknowledge, resolve (complete, revoke), submit proof, review proof, edit deadline and escalation, auto-failure by the sweeper | proof submission and edits check, then write by id; sweeper works on a list read earlier; resumption of oversight shifts every deadline | `Assignments` |
| Proofs (`domain/proofs/mod.rs`) | `proof_submissions`: status, code, redo chain | submit, review | the code and the submission to redo are read before the files are stored | `Assignments` (task proofs), `Verification` (code proofs) |
| Verification (`domain/verification/`) | `verification_policies`, `verification_codes` | set policy, request a code, issuance tick, consume | look-up and insertion of a code are separate; daily schedules | `Verification` |
| Devices and confinement (`domain/chastity/`, `api/chastity.rs`) | devices; the open session, its release date and pause; ledger of adjustments | add, retire; start, end, pause, resume, adjust, review, by either party; effects of assignments; the reminder of a standing clock | `apply_effect` on a bare connection; paused time paid back once; a path that names a session acts on the open one | `Confinement` |
| Points (`domain/points.rs`) | balance, ledger, redemption requests | award, adjust, redeem, decide, switch | adjustment and redemption without a transaction; the switch and the price change in between | `Points` |
| Links (`domain/links/mod.rs`, `api/roster.rs`) | status, end request, escalation mark, oversight pause and its message, reminders | set status, force end, request / withdraw / decline an end, pause / resume oversight, escalate, remind | check and write apart; a reminder must neither be lost nor repeated | `Links` |
| Recurring tasks (`domain/recurring_tasks.rs`) | rules, next run, spawned task | create, edit, pause, sweep | the sweep works on rules read earlier, and must not be held up by one that cannot spawn | `Recurring` |
| Play sessions and their stream (`domain/play_sessions.rs`, `api/play_sessions.rs`, `live.rs`) | session status, start, end and links; check-in slots; broadcast channels in memory | create, start, end, judge, complete, cancel; publish, subscribe, receive | status read, then updated by id; two check-ins find one slot; events published after the commit, past a viewer about to subscribe | `PlaySessions` |
| Check-ins and safety alerts (`domain/checkins.rs`, `api/checkins.rs`, `domain/safety/`, `api/safety.rs`) | templates and their fields, check-ins, attachments, alerts, notifications of them | edit a template, create and edit a check-in, raise and answer an alert | the alert is committed with the colour and announced later; fields are replaced without a transaction | `Checkins` |
| Accounts (`domain/users`, `domain/two_factor.rs`, `domain/password_reset.rs`, `domain/invites`, `auth/session.rs`, `api/auth.rs`) | failure counter, lock, sessions, second factor, recovery codes, challenges, reset tokens, invites | redeem an invite, log in, verify, set up and remove the second factor, change and reset the password, log out, administer | authorised once, then statement by statement; a slow password hash between a read and a write | `Accounts` |
| Toys, profiles, limits, templates, plans, tokens | one row each, ratings per party, the removal request of a toy | create, edit, retire, decline, rate, list | edits read a row, merge and write every column | `Catalog` |
| Reading: roster, statistics, audit log, feeds and every other list (`api/*.rs`) | none of its own | 70 reading handlers | who asks, over which link, is looked up by an earlier statement than the rows | `Access` |
| Push, mail, storage, backup, pages | files, subscriptions | dispatch, render | input and output around the rules | not modelled (section 9) |

How the components interact. Settling a task (a decision, a verdict or the sweeper)
awards points and escalates, and an escalation may be a new task or an immediate effect on
the confinement clock, all in the settling transaction. A redemption decision creates an
assignment; a recurring rule spawns one. An oversight pause stops the sweeper and the
issuance tick and pauses the confinement clock; its end shifts the deadlines. Ending a link
leaves its rows where they are. A check-in fills a slot of the play session it names and may
raise an alert, and a judgement makes assignments that refer back to the session. An invite
makes an account and its link. The components share mutable state through the tables only,
but for the channels of `live.rs`, which handlers of check-ins and play sessions publish to
and open pages listen to.

`PROJECT.json` lists each component with its sources and, under `hazards`, each place
where this code can go wrong in a way a test would hardly reach.

## 3. The modules and how they correspond to the code

Actions bear the names of the functions they translate; the definitions named `...Routes`
are the routers of `api/`, and list the routes that write. `map` in `PROJECT.json` gives the
lines of every definition.

### Assignments, AssignmentLife

One link. `row`, `sub`, `awards` and `autoFailed` are the tables (the last is the audit
entry `assignment.auto_failed`); `paused` is `oversight_paused_at`; `todo` is the list of
the sweeper, `job` what each handler has read. `NewRow` is the insertion of `create`,
`SettleAndEscalate` the guarded update plus `escalate`, `Award` is `award_if_enabled`.
`Complete` and `Revoke` are `resolve`; `SubmitCheck` and `SubmitCommit` are `submit_proof`
before and after the files are stored; `Review*` are `review_proof`; `EditCheck` and the
two edits are the pairs of statements of `edit_deadline` and `edit_escalation`;
`PauseOversight`, `ResumeRead`, `ResumeShift` and `ResumeClear` are the statements of
`links::pause_oversight` and `resume_oversight`; `SweepSelect`, `AutoFail`, `SweepSkip`
and `SweepAbort` are one tick of the sweeper. Points enabled or not, deadlines and
escalations of a template are constants. `left` and `shifted` are history.

`AssignmentLife` is the abstract specification: a row that asks for no proof is begun,
settled at most once, with its points and its follow-up in the same step, and never changes
again; a revoked one has no consequence. `Assignments` is mapped to it by `Stage`,
`PointsOf` and `FollowUps` (rows that ask for a proof are only begun), and
`SettlesOnceForAll` is that it implements it.

### Confinement

The devices and all sessions of one submissive, and the status of the link. Each handler
looks up the link and makes one call that neither reads nor writes the link: the two
commute with whatever changes the link in between, so they are one step. `Start`, `End`,
`Pause` are single guarded statements, `Resume` and `AdjustTimer` transactions; the
`Submissive...` actions are the self-reporting routes. An effect inside an escalation, a
verdict or a redemption is `EffectInTransaction`; the effect of the keyholder's own `POST
.../assignments` runs on a bare connection and is `DirectInsert`, `DirectRead`,
`DirectUpdate`, `DirectLog`, which `DirectAbort` may cut short. `SelectReminders`, `Remind`
and `ReminderLost` are the still-paused pass of the deadline tick. `base`, `stopped`, `torn`
and `dry` are history: where the date started, how long the clock stood still, which
sessions a direct effect damaged, which effects found nothing to act on.

### Points, PointsAccount

One link. `Inserted` and `Award` are `award`; `AdjustCheck`, `AdjustInsert` and
`AdjustBalance` are `manual_adjustment` statement by statement; `RedeemCheck`,
`RedeemPrice`, `RedeemFunds` and `RedeemInsert` are `request_redemption`; `Approve` and
`Deny` are the transaction `decide_redemption`; `PatchLinkSettings` is the switch.
`granted` counts the assignments made from a request; `cut` (history) sums the adjustments
that died between their two statements. `PointsAccount` is what the points promise: an account that
entries move at once and whole, and requests decided once at the price they were made at. `Points`
implements it, with `points` the balance completed by the adjustments whose `UPDATE` is still to
run (`InFlight`) or never ran (`cut`).

### Verification

One link, with minutes as ticks and a day of two of them. `RequestCheck` and
`RequestInsert` are `request_on_demand`; `IssueSelect`, `IssueDecide` and `IssueInsert` are
the statements of the issuance tick for this link; `SubmitLoad` is `submit` up to the
storage of the files and `SubmitCommit` its transaction; `Review` is the verdict.
`IsDue` translates `is_due` for the four kinds of policy. The status of the link and the
oversight pause are read by `IssueSelect` alone and may change at any time: a link that is
passed over is a step the model need not take, so neither is a variable. The text of a code is left out.
`ttl`, `grace` and the interval are naturals: the API stores any number, and only
non-negative ones make a code that is ever live.

### Links

One link. Every handler is a `...Check` (resolving the link, testing it) followed by the
write. `ForceEnd` is the admin command, in a process of its own. `Escalate`,
`SelectReminder` and `Remind` are the passes of the deadline tick with the times they read:
the end-request pass looks back from its own start (`PassTime`). `SweepError` ends a pass,
`Crash` the process.

### PlaySessions

Any number of sessions. `session`, `slots` and `checkin` are the tables, `given` the
assignments made by judgements, in the order of insertion; `channel` is the map of
`PlaySessionStreams`, `viewer` the connections to `checkin_stream` with the events they
have not read, `job` the handlers. `Check` reads the status for `start`, `end`, `complete`
or `cancel`, and `Start`, `End`, `Complete`, `Cancel` are their updates; the last part of
`end` and `cancel` is `Publish`. `Create` (of a planned, a running or a past session) and
`Judge` are transactions. A check-in is `CreateCheckin`, then `FindSlot` and `FillSlot` (the
two statements of `fulfill_next_schedule_slot`), then `Publish`; `PatchCheckin` is an edit,
or an attachment, up to its `Publish`. `ViewerCheck` and `Subscribe` are the two halves of
`checkin_stream`, `Receive` one turn of its loop, `Disconnect` the browser leaving.
`Abandon` is a request that fails half-way. A `Crash` empties the channels and the streams
too. The payload of an event and the text of the creation form are left out.

### Recurring

Any number of rules. `SweepSelect` is the list of due rules, `SweepCheck` the look for an
open task, `Spawn` the transaction with the new due time, `SpawnFails` the deactivated
template, `SweepError` any other error; `EditRead` and `EditWrite` are `update`.
`NextOccurrence` translates the three schedules, with a day and a week of constant length,
and `Occurs` the case in which it finds no instant: a request that asks for such a schedule is
refused, and the sweep passes over a rule that has come to one (`Resumes`).
A spawned task is reduced to whether it is open. `last`, `strict` and `reopened` are
history: the last spawn of a rule, the rules that never allowed an overlap, the tasks that a
late submission opened again.

### Accounts

One account from its invite on. A request of a session is `Ask` (the extractor, which
resolves the session) and then its statements; a login is `LoginRead` (the row, and the
verdict on the password), `LoginFailed` or `LoginClears`, `LoginFactor`, `LoginChallenge` or
`Open`; `VerifyRead`, `CheckCode`, `SpendCode`, `VerifyProved` and `VerifyRefused` are
`verify_challenge`; `Setup`, `ConfirmCheck`, `ConfirmCommit`, `DisableFactor`,
`DisableCodes`, `Regenerate` the second factor; `ChangeRead`, `ChangeCommit`, `RedeemReset`
the passwords; `Unlock`, `AdminDisable`, `IssueReset` the administrator. A password or a code
is right or wrong. `late` and `guarded` are history.

### Checkins

One link and one template of check-ins with one required field, a photo. `Create` and
`PatchUpdate` are transactions (with the alert in them); `Attach`, `Reread` and `Notify...`
follow outside. `DeleteFields` and `InsertField` are `replace_fields`. `AnswerRead`,
`Acknowledge`, `Resolve` and `TellSubmissive` are `patch_safety_alert`. `Abort` is an error
or a crash anywhere. The history says which requests overlapped, were cut short or refused.

### Catalog

The records people write down: a toy, two profiles, a reward template, items of the limits,
a plan, a token, each with two columns standing for all. All the edits but the token's are
`Read` (with the request's fields), then `Write` of `Merge`; `UpdateTemplate` validates what
it writes. The removal of a toy is `RemovalRead`, `RemovalWrite`, `RemovalTold`, against
`RetireRow` and `DeclineRow`. The lists of limits are two queries, `ListItems` and
`AddRatings`.

### Access

Every handler that only reads, as a record of its roles, its scope and the lookup by which
it reaches rows (`reach`); a request `Arrive`s with a credential, does its `Lookup`, and
lists (`ListRows`, `GetRow`) by what it found, while links are paused, ended and (see
section 6) reopened, settings change, rows are added and the credential is revoked. A row is
known by whose it is and by whether its link was over when it was recorded.

## 4. Abstractions common to all

* Time is a number; the clock never goes back. Only differences and order matter.
* Ids are model values; an insertion takes an id nobody has.
* Notifications and audit rows are left out, except those a handler reads again
  (`reminded`) or a property needs (`autoFailed`, `feed`, `told`).
* Who may call a handler is modelled for the reading handlers (`Access`) and, where the link
  decides it, in `Confinement`, `Checkins` and `Catalog`. Elsewhere every action is the
  action of somebody who may take it.
* A request that is refused changes nothing, so it is not a step.

## 5. The runs

`tlc -config X.cfg MCX` for each line (`AssignmentsFair.cfg` goes with `MCAssignments`).
Bounds are constants named in each module. The type invariant (`TypeOK`; `AccessTypeOK`,
`CatalogTypeOK` and `CheckinsTypeOK` in the modules whose names are prefixed, see section 7), where
listed in the configuration, is not repeated.

| run | question and properties | bounds | distinct states |
|---|---|---|---|
| Assignments | Does every status have the submission or audit entry that explains it (`StatusIsBacked`), every point and escalation a decision (`OutcomesMatchDecisions`)? Do rows without a proof live as `AssignmentLife` says (`SettlesOnceForAll`)? | 2 rows, 2 submissions, 4 templates (one of each form, chains of two), 2 concurrent submissions, escalation edits, 2 clock values | 754 000 |
| AssignmentsFair | Does a pause or a new deadline ever cost the submissive time (`AutoFailAfterAllowance`)? Is an overdue task failed in the end (`OverdueIsSwept`)? | 1 row, 2 submissions, oversight pauses, deadline edits, 4 clock values, `FairSpec` | 179 000 |
| Confinement | Does the ledger explain the release date, is every pause credited once and every effect applied once (`LedgerIsExact`)? Is an ended session left alone, and are reminders spaced (`PastIsRespected`)? | 1 device, 1 session, 2 assignments of either sign, 1 direct assignment at a time against everything else, 2 adjustments, 3 clock values | 3 271 000 |
| Points | Is the ledger the truth (`LedgerAgrees`): is the balance its sum (`BalanceIsLedger`), a redemption settled once (`RedeemedOnce`)? Does a switched-off link write points (`DisabledEarnsNothing`)? Do the points move as `PointsAccount` says (`PointsAreKept`)? | 2 requests, 1 reward, 2 prices and NULL, 2 workers, 3 ledger rows | 1 150 000 |
| Verification | How many codes may be live, and are daily codes a day apart (`CodesBounded`)? Do codes, submissions and redo chains agree (`SubmissionsAgree`)? | 3 codes, 2 submissions, 3 kinds of policy set at any time, 2 submissions at a time, one of whose workers also requests codes, and the tick; the last minute of a day and the first of the next | 2 243 000 |
| Links | Does an escalation mark, or a message, belong to what it stands beside (`MarksBelong`)? Are reminders spaced (`RemindersSpaced`) and none forgotten (`NothingForgotten`)? | 2 workers, escalation after 2 ticks, reminders after 1, 4 clock values, `FairSpec` | 869 000 |
| PlaySessions | With stale requests about: do times fit the status and slots fill in order with different check-ins (`RecordsAgree`), do the session's links follow its last judgement (`ConsequencesLinkBack`), is a stream ever cut off from its channel (`StreamsRegistered`)? | 1 session, 2 check-ins, 2 slots, 2 consequences, 2 viewers, 2 workers, 2 channels of capacity 2 | 532 000 |
| Recurring | Is there one open task per rule (`OneOpenTask`), are spawns a schedule apart (`SpawnsSpaced`), does a due rule spawn whatever the others do (`DueRuleSpawns`)? | 2 rules, one of them edited, 2 tasks, a schedule of both days of a two-day week, days of 2 ticks, 3 clock values, `FairSpec` | 621 000 |
| Accounts | Is there a session without the second factor the account had, or unlimited guessing (`LoginIsGuarded`)? Does a new password end the sessions (`SessionsEnd`)? | 2 requests at a time (one of them with a session or the administrator's), 2 sessions, 1 each of code, challenge, reset, invite; threshold and attempts 1, 3 failures, 2 passwords, 2 clock values | 2 039 000 |
| Checkins | Is every red check-in and every answer heard of, once, and every required photo there, unless a request was cut short or refused (`NothingIsDropped`)? Do alerts follow red (`AlertsFollowRed`)? | 1 check-in, 2 alerts, 2 requests at a time, 4 in all | 2 103 000 |
| Catalog | Do edits keep what they do not name and templates stay valid, removals end settled (`RowsAreSound`)? Do lists show what was true while they ran (`ListsAreCurrent`)? | each record, an own and a seeded item, 2 requests at a time, 4 in all | 1 139 000 |
| Access | Does an answer hold only what its caller may see (`AnswersAreScoped`), and all of it (`AnswersAreComplete`)? | 2 keyholders, 2 submissives kept by either, 2 scopes, one request of any handler at a time | 2 733 000 |

Why the bounds are enough. Each race the code can have is between a check and a write of
one handler and the whole of another, so two workers (or one and a background loop)
produce it; the tables need two rows for a parent and its escalation, two submissions for
a second proof or a redo, and one more code than the bound that is claimed. The clocks run
past every threshold of the instance (a deadline, a reminder interval, the end of a day).
In `Confinement` one direct assignment overlaps every whole action, and a second one in
flight could only do to it what those do. The policy `random_within_window` differs from
`fixed_times_daily` in the minute it chooses only and is left out of the instance. One
play session is enough for the run since its handlers touch no other session; channels of
several sessions are covered by the theorem about them. A reading request is affected by others only
through the tables, so one at a time is enough in `Access`. Every action of every module fires
in some run, and every property is violated when a plausible bug is put in the code it
depends on (`mutants` in `PROJECT.json`; the mutated operators stand beside the originals in
the modules). Symmetry is used only where no liveness property is checked. `Accounts`,
`Catalog`, `Checkins` and `Confinement` switch the deadlock check off: when the requests of
the instance are used up, nothing is left to do.

The liveness properties and their fairness:

* `OverdueIsSwept` (`AssignmentsFair`) under `FairSpec`: the sweeper is a loop, so its
  selection and the skipping of rows are weakly fair. A transaction on a listed row may be
  interrupted by an error or a crash, but these do not follow one upon the other for ever,
  so `AutoFail` is strongly fair. Requests and the clock are not fair.
* `NothingForgotten` (`Links`) and `DueRuleSpawns` (`Recurring`) under the `FairSpec` of
  their modules: the tick is a loop (weak fairness of `Sweep`) and errors and crashes come
  to an end (`<>[][Faultless]`). Requests, templates that are deactivated and the clock are
  not fair. `NothingForgotten` has three conjuncts, about the escalation and the two
  reminders; `DueRuleSpawns` is about each rule, so one that cannot spawn must not hold up
  the list.

## 6. What the runs show beyond the properties

Statements of the documents that the code does not keep. Each of the first six stands as a
definition at the end of its module, outside the runs; put in place of the properties of the
run's configuration, TLC finds it violated.

1. `RevokedTriggersNothing` (`Assignments`): a review of the pending proof of a *revoked*
   task still settles it, awards points and escalates (`docs/01-data-model.md`).
2. `RedoMayBeResubmitted` (`Assignments`, configuration `AssignmentsFair`): after a *redo*
   the task stays `proof_submitted`, which `submit_proof` refuses; the resubmission of
   `docs/04-verification-workflow.md:205-209` is impossible.
3. `CodeConsumedOnce` (`Verification`): two submissions that read one code can both
   consume it (`docs/04-verification-workflow.md:98`); `consume` in
   `src/domain/verification/codes.rs:168-175` does not ask that it is unconsumed.
4. `EndedIsFinal` (`Links`): a pause of a link overtaken by its end brings an ended link
   back as paused (`docs/03-api-design.md:86`).
5. `StreamsAreLive` (`PlaySessions`): a page that checks the status of a play session just
   before its end, and subscribes just after the end was published, keeps a stream that
   nothing closes (`docs/13-checkins.md:183`).
6. `NothingLateForTheFormer` (`Access`): a former keyholder reads by id, over an ended link,
   what was recorded after its end (`docs/02-roles-and-permissions.md:115-118`), while the
   lists of what came before, which section 4 of that document leaves readable, are refused.

Met while modelling, and part of the model's behaviour:

* `docs/01-data-model.md` says that every change of the release date is logged, in the
  transaction of the assignment that causes it. The effect of a direct assignment runs on a
  bare connection, so a change can be overwritten or go unlogged: these are the sessions in
  `torn`, and `LedgerIsExact` shows that there is no other exception.
* The session id in the path of the confinement routes is ignored, so an end that comes late
  ends the next session; an open session cannot be ended by the keyholder once the link has
  ended; a session may be started with a retired device.
* `PATCH` of a link's settings without `points_enabled` turns points off (the default of
  the deserializer).
* A safety alert is refused on a paused link (against `docs/03-api-design.md:216`), and the
  alert of a check-in whose photo cannot be decoded is raised and never announced (against
  `docs/09-notifications.md:89`). A request to remove a toy on a paused link is recorded,
  answered with an error and never announced.
* `judge` accepts a cancelled play session, `end` a planned one created with an end and
  no start; two check-ins that find the same slot leave one of them in no slot; a late
  request may revive a cancelled session or reopen a completed one (`RecordsAgree` says what
  survives).
* The second of two fixed times of one day never gets a code; two resumes at once may clear a
  pause they did not shift the deadlines by; `force_end` leaves the end request and the
  pause, so the reminders go on; recurring rules of ended or paused links go on spawning;
  `next_occurrence` accepts times outside the day.
* Redeeming an invite always makes a new account; `force_disable_for_user` is two
  statements, and a crash leaves recovery codes without a factor; overlapping attempts pass
  the limits on passwords and one-time codes by one each (`LoginIsGuarded`).
* Attachments and timer adjustments are looked up by the second id of the path alone.
* Push messages go out one after the other (`src/notify.rs:165`), not in parallel as
  `docs/09-notifications.md:134` has it.

## 7. What is proved

`tlapm` checks each proof to the last leaf, for every value of the constants that the
assumption at the head of the module allows: null values are no ids or numbers; effects, prices,
deltas and release dates are integers; intervals, limits and lifetimes are naturals, with
positive ones where the code has a positive constant (`LOCKOUT_DURATION_SECS`, the attempts, the
capacity of a channel, the length of a day and a week). Some ask for finite sets, since a property
or its proof counts: `AccountsAssumption` takes finitely many workers, and at least one,
`VerificationAssumption` finitely many that ask for codes, `CheckinsAssumption` finitely many
check-ins, alerts and threads.

Every safety property of every run is stated by a theorem. The theorems about a component are in
one module, and in each the argument is the same: an inductive invariant, which TLC has checked on
the run's instance before, one lemma per action or shape of action, and a last step in temporal
logic. Three of these modules are about two components each: the names that would clash are
prefixed in the second of the two (`CheckinsSpec` beside the `Spec` of `Links`, `CatalogSpec` beside
that of `Verification`, `AccessSpec` beside that of `Accounts`); the two have no state in common.

**AssignmentsProofs.** `TypeOK` is not inductive: a review follows `sub[s].of` to a row and
a handler follows `job[w].on`, so `TInv` adds that a submission has a row that needs a
proof (`SubsHaveTasks`), that a handler in flight has a row of the kind and form it
checked (`JobsHaveRows`), and that a row that does not exist is blank. `TInvInit` and
`TInvNext` give `TypeCorrect`. The safety invariants need one another: a row may be settled
only because it was open, and was open only because nothing had happened to it. `SInv` is
their conjunction with `OpenIsUntouched` (an open row has no point, escalation,
auto-failure or decision) and `FormFits` (which forms have which statuses). It is carried
through every action by one lemma about `SettleAndEscalate` (`SettleSInv`), which the
completion, the verdicts and the auto-failure share, and one (`NeutralSInv`) for the steps
that change no status. From `IInv == TInv /\ SInv`:

* `SettledOnce`, `StatusIsAlwaysBacked`: invariants;
* `SweeperFailsOnlyUntouched`: an action property;
* `OutcomesAlwaysMatch`, through `OInv`: the points of a row are its decisions, counted
  (`Balanced`), and no row has more children than it has decisions; the rows the sweep lists
  are tasks (`ListsTasks`);
* `AllowanceAlwaysRuns`, through `AInv`: an assigned row has its deadline no earlier than what
  is left of its allowance, reckoned from the instant its deadline already makes up for the
  pause (`Measured`: from now, from the start of the pause, or from what a resume in flight has
  read), and neither a failed row nor a listed one has any left;
* `LivesAreKept`: `Assignments` implements `AssignmentLife`. `LifeInit` maps the initial
  states, `LifeNext` maps every step to one of `Life!Next` or to a stutter, with one lemma per
  action that begins, revokes or settles a row (`CreateLife`, `RevokeLife`, `CompleteLife`,
  `AutoFailLife`; the reviews of proofs are the beginnings of their follow-ups, `ReviewLife`)
  and `NeutralLife` for the rest.

**ConfinementProofs.** `Control` adds to `TypeOK` that no pause begins after now, that a message
has its pause and a date the one it started from (`SessionsSound`), and that a direct assignment
in flight writes to a session that was started and logs for one that has a date (`JobsSound`):
`ConfinementTypeCorrect`. With `TodoSound` (a reminder that waits to be sent is still due) it gives
the action property `PastIsAlwaysRespected`. `LedgerIsAlwaysExact` is carried by `LInv`. Its
`BooksSound` compares the row of each session with three sums: of its rows of the ledger, of those
that credit a pause, and of what direct assignments have applied and not yet logged. Each statement
is reduced to what it adds to these sums (`TotalGains`, `UnloggedGrows`, `UnloggedShrinks`) and to
what it makes of the row (`MovedBooks`), and `BooksStep` puts the two together. Its `EffectsSound`
says that an assignment neither cut short nor without a session is held by exactly one worker or
one row.

**PointsProofs.** `TInv` adds to `TypeOK` that a redemption in flight has a reward and a
price that was not NULL when it was read (`JobsArePriced`). `TypeCorrect` follows, and with
it that an edit of the reward under a request cannot make it charge NULL.
`RedeemedExactlyOnce` carries the property, request by request (`Settled`), through the
insertion of a row of that request, of another one or of none (`RowsAfterInsert`).
`DisabledWritesNothing` is the action property. `BalanceIsAlwaysLedger` needs only that the
adjustments in flight are finitely many (`BInv`), and what a sum over a finite set is;
with `RedeemedExactlyOnce` it makes `LedgerAlwaysAgrees`.
`PointsAlwaysKept` is the second refinement, of `PointsAccount`: with the balance known to be the
ledger's sum, a step moves the points of the abstract account exactly when it inserts a row of the
ledger (`EnterAccount`, `DecideAccount`; `AskAccount` and `QuietAccount` for the others). It does so
by a delta that was given to the handler, and a request is made at a cost that was quoted to it
(`Quoted`); `RInv` has that the reward had not been granted before.

What a sum is cannot be read off its definition, which recurses over the set in an order it does
not say. The first part of `PointsProofs` and of `ConfinementProofs` (the same lemmas; a proof
cannot cite those of another component's module without its state) shows by induction on the number
of elements that there is one function with that recursion, whatever its domain (`AddsExists`,
`AddsAgree`), that a sum is of integers an integer (`SumInt`), and that any element may be taken
out first (`SumSplits`). The induction itself is `Induction`, shown by the least counterexample
(`LeastExists`) since the library's is out of the provers' reach.

**LinksProofs.** `MarksAlwaysBelong`: `LInv` is the property with the type, because every write
tests the row it writes and the marks are cleared with what they belong to (`RowsSound`,
`WriteSound`). `RemindersAlwaysSpaced` is the action property; `SweepInv` says that what the pass
found due is still due when it sends (`StaysDue`), for only the tick itself writes reminders.

The same module proves `Checkins`. `RequestsInv` says what a request carries at each of its steps
(`JobsFit`), that the rows it names are there (`JobsStand`) and that what was not raised is blank
(`BlankAlerts`): `CheckinsTypeCorrect`. `NothingEverDropped` is about what is still owed. An alert
that was raised and not yet announced is borne by exactly one request (`AlertPart`), an answer not
yet told by some request (`AnswerPart`), a photo not yet there by the request that creates the
check-in (`PhotoPart`), a field not yet put back by an edit under way (`FieldsPart`); and as long as
no two requests had a check-in in hand at once, it turned red as often as the keyholder was told,
once more while its one holder owes the message (`TurnPart`). Each disjunct is handed on from step
to step, or the history records why it is not. The keyholder's messages are counted as one set of
alerts and times; `Tally` says what one more adds to it. `AlertsAlwaysFollowRed` is the action
property, from `RequestsInv` alone.

**VerificationProofs.** `Dated` (no code is of the future, and there is a latest one) makes
`TypeOK` inductive. `SubmissionsAlwaysAgree` needs that what a handler loaded can still be cited
when it commits (`LoadsBornOut`): a redo stays a redo, a code stays issued. `CodesAlwaysBounded`
has two parts. `LiveInv` counts with the live codes those that threads are about to insert.
`DailyInv` says that after the tick has decided on a daily code, those it has issued are all of an
earlier day. An interval of zero may issue a code in the very minute of a daily one it replaces, and
nothing in the table then tells which was first: the property compares two codes of one instant
only if both are daily.

The same module proves `Catalog`. `CatInv` says of an edit in flight that, unless the history has
its record among those whose edits overlapped, it is the only one of that record and the row is
still as it read it (`EditsInHand`), so what it merges is what the row holds; of a request to remove
the toy that a retirement since its test has been recorded (`RemovalPart`); and that the ratings in
the table are the last that each party asked for. From it `CatalogTypeCorrect`, `RowsAlwaysSound`
and the action property `ListsAlwaysCurrent`. The template needs nothing of this: what an edit
writes was validated whole, whatever row it had merged into.

**PlaySessionsProofs.** `TInv` adds to `TypeOK` that a request in flight has a session and
the slot it found, and gives `TypeCorrect`, the bound of the queues included.
`TimesAlwaysAgree` needs `TimesInv`: a request in flight remembers a status that has since
changed, and what it may rely on (a session once found running was started, one found
waiting has its end) must itself survive the other requests. `StreamsStayRegistered` needs
`StreamInv`: no two sessions share a channel, and a stream holds a channel while it is open and
only then. `SlotsAlwaysInOrder` needs `SlotInv`: a check-in in flight is in no slot
and in no other worker's hands, and every slot before the one a worker found is filled, however
late it writes. `RecordsAlwaysAgree` combines the two. `ConsequencesAlwaysLinkBack` follows the
last assignment of a session, a choice over a sequence, through the appends that make it another
one or leave it.

**RecurringProofs.** Two theorems about the function itself: `NextOccurrenceIsFirst` (it returns
an instant the schedule asks for, and none is asked for before it) and `WeekGuaranteesMatch` (the
days it looks at are enough, as its comment says). In the run there is one kind of schedule; these
are about all. `TInv` adds to `TypeOK` that rules the sweep lists and requests in flight have
schedules (`Made`). `AlwaysOneOpenTask` needs `OneInv`: a rule the sweep has checked has no open
task that counts, until it spawns. `SpawnsAlwaysSpaced` needs `DueInv`: a rule, and a rule as the
sweep has it on its list, is not due before what its schedule asks for after its last spawn; and
`AbsentInv`, that a spawn is recognised by the task it makes.

**AccountsProofs.** `TypeOK` is inductive alone, and `SessionsAlwaysEnd` follows from it.
`FactorAlwaysGuards` needs `GuardInv`: while a guarded login runs, the factor is on. The limits
are counts of workers: `LockInv` adds the attempts made since the lock to the logins still on
their way to be counted, `GuessInv` those made at a challenge to the guesses in flight, and each
step moves a worker from one to the other. With the three, `LoginAlwaysGuarded`.

The same module proves `Access`, for any users, scopes and rows. `ReadsInv` describes a request
between its statements: whom its lookup may have found (`Scoped`) and whom it cannot have missed
(`Entitled`), measured against what held throughout the request rather than against the tables as
they are now (`StepSound`). What changes under it only takes links from those that were over, or
active, all along and adds to the settings it has seen (`Advances`), so both survive to the answer:
`ReadsTypeCorrect`, `AnswersAlwaysScoped`, `AnswersAlwaysComplete`.

Only model-checked: the liveness properties `OverdueIsSwept`, `NothingForgotten` and
`DueRuleSpawns`, since fairness and ENABLED are beyond the provers here. They hold on the instances
of their runs.

## 8. Plan

Each list is in order of importance.

Modules and composition
1. `Push`: subscriptions and the sequential dispatch of a notification to devices, with
   endpoints that are gone and a crash between the row and the message.
2. `Oversight`: the pause across `Links`, `Assignments`, `Confinement` and `Verification`
   together, with two resumes at once.
3. `Recurring` composed with `Assignments` through `AssignmentLife`.

Abstract specifications and refinements
1. `Clock`: a release date that only logged adjustments move, implemented by `Confinement`
   without direct effects. `LedgerIsExact` already says what the date adds up to; the refinement
   would add that it moves in one step with its row.
2. A code from its issue to the submission that cites it, implemented by `Verification`.

Theorems: the refinements above. No safety property of a run is left without one.

## 9. Not modelled

* **Push dispatch and mail**: the rows of notifications are modelled where a rule or a
  property depends on them; the messages sent after them change no table but that of
  subscriptions.
* **Database, migrations, storage of files**: SQLite is taken as serializable transactions
  and atomic statements. Files are stored before the row that names them, so a failure
  leaves a file nobody refers to and never a row without a file.
* **Web pages** (`src/web`): server-rendered; every change goes through the handlers of
  `api/`.
* **Statistics**: whose they are is in `Access`; the sums are computed by queries, and no
  rule reads them.
* **Audit log**: appended and never read to decide; who may read it is in `Access`, the
  wording is left out.
* **Backup, restore, heartbeats**: file copies and log lines around the server.
* The strength of passwords, hashes and tokens is outside the subject, and so are
  `last_used_at`, `last_seen_at` and the texts people write.
