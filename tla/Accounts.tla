------------------------------ MODULE Accounts ------------------------------
(***************************************************************************)
(* One account: the invite that makes it (src/domain/invites/mod.rs), login  *)
(* and lockout (src/domain/users/mod.rs, src/api/auth.rs), its sessions      *)
(* (src/auth/session.rs), the second factor (src/domain/two_factor.rs) and   *)
(* password resets (src/domain/password_reset.rs).                          *)
(*                                                                         *)
(* A request is authorised once, by the session it came with, and then runs  *)
(* one statement at a time: what it has read may be out of date when it      *)
(* writes.  A password or a code is right or wrong; of a secret only         *)
(* matters whether it is confirmed, of a set of recovery codes one code.     *)
(* users.disabled_at is not modelled: nothing sets it.                      *)
(***************************************************************************)
EXTENDS Integers, FiniteSets

CONSTANTS
    Session,        \* ids of rows of sessions
    Code,           \* ids of rows of two_factor_recovery_codes
    Challenge,      \* ids of rows of two_factor_login_challenges
    Reset,          \* ids of rows of password_reset_tokens
    Invite,         \* ids of rows of invites, all for the one e-mail address
    Worker,         \* pool threads that serve requests
    NoSession, NoId,
    Threshold,      \* LOCKOUT_THRESHOLD
    MaxAttempts,    \* CHALLENGE_MAX_ATTEMPTS
    LockTime, ChallengeTime, SessionTime, ResetTime, InviteTime,
    Desk,           \* bound: the workers that serve a session or the administrator
    MaxFails,       \* bound: failures in a row
    MaxPasswords,   \* bound: the passwords the account has
    MaxTime         \* bound of the clock

ASSUME AccountsAssumption ==
    /\ NoSession \notin Session
    /\ NoId \notin Code \cup Challenge
    /\ IsFiniteSet(Worker) /\ Worker # {}
    /\ Threshold \in Nat \ {0} /\ MaxAttempts \in Nat \ {0}
    /\ LockTime \in Nat \ {0}
    /\ \A t \in {ChallengeTime, SessionTime, ResetTime, InviteTime} : t \in Nat
    /\ Desk \subseteq Worker
    /\ MaxFails \in Nat /\ MaxPasswords \in Nat /\ MaxTime \in Nat

VARIABLES
    now,        \* the wall clock
    user,       \* the row of users: how many passwords it has had, failures, lock
    session,    \* table sessions
    factor,     \* the row of two_factor_credentials
    code,       \* table two_factor_recovery_codes
    challenge,  \* table two_factor_login_challenges
    reset,      \* table password_reset_tokens
    invite,     \* table invites
    job,        \* per worker, the request in flight and what it holds
    late,       \* history: failures recorded while the account was locked
    guarded     \* history: logins under way since before which the factor is on

vars == <<now, user, session, factor, code, challenge, reset, invite, job,
          late, guarded>>
tokens == <<reset, invite>>
second == <<factor, code, challenge>>
history == <<late, guarded>>

SessionOps == {"logout", "revoke", "change", "setup", "confirm", "disable", "regenerate"}
Steps == {"asked", "failed", "checked", "cleared", "challenge", "open",
          "code", "spend", "proved", "refused", "teardown", "commit"}

Rows(states) == [state : states, until : Nat]
Jobs == [op : SessionOps \cup {"idle", "login", "verify", "redeem"}, at : Steps \cup {"idle"},
         session : Session \cup {NoSession}, id : Code \cup Challenge \cup {NoId},
         code : Code \cup {NoId}]

Idle == [op |-> "idle", at |-> "idle", session |-> NoSession, id |-> NoId, code |-> NoId]
Absent == [state |-> "absent", until |-> 0]

\* A row that can not be used again: when it would have expired is not read again.
Gone(state) == [state |-> state, until |-> 0]
NoChallenge == [state |-> "absent", until |-> 0, attempts |-> 0]

TypeOK ==
    /\ now \in Nat
    /\ user \in [password : Nat, count : Nat, locked : Nat]
    /\ session \in [Session -> [state : {"absent", "live", "revoked"}, until : Nat]]
    /\ factor \in {"none", "pending", "confirmed"}
    /\ code \in [Code -> {"absent", "unused", "used"}]
    /\ challenge \in [Challenge -> [state : {"absent", "live"}, until : Nat, attempts : Nat]]
    /\ reset \in [Reset -> Rows({"absent", "issued", "consumed"})]
    /\ invite \in [Invite -> Rows({"absent", "open", "used", "deleted"})]
    /\ job \in [Worker -> Jobs]
    /\ late \in Nat
    /\ guarded \in SUBSET Worker

Init ==
    /\ now = 0
    /\ user = [password |-> 0, count |-> 0, locked |-> 0]
    /\ session = [s \in Session |-> [state |-> "absent", until |-> 0]]
    /\ factor = "none"
    /\ code = [c \in Code |-> "absent"]
    /\ challenge = [h \in Challenge |-> NoChallenge]
    /\ reset = [t \in Reset |-> Absent]
    /\ invite = [i \in Invite |-> Absent]
    /\ job = [w \in Worker |-> Idle]
    /\ late = 0 /\ guarded = {}

Exists == user.password > 0
Live(s) == session[s].state = "live"
Locked == user.locked > now
NewId(rows) == CHOOSE id \in {i \in DOMAIN rows : rows[i].state = "absent"} : TRUE
HasNew(rows) == \E i \in DOMAIN rows : rows[i].state = "absent"

At(w, op, step) == job[w].op = op /\ job[w].at = step
Goto(w, step) == job' = [job EXCEPT ![w].at = step]
End(w) == job' = [job EXCEPT ![w] = Idle]

\* revoke_all and revoke_all_except.
RevokeAllBut(kept) ==
    [s \in Session |-> IF Live(s) /\ s \notin kept THEN Gone("revoked")
                       ELSE session[s]]

-----------------------------------------------------------------------------
(* Invites.                                                                  *)

\* The keyholder makes one out, for someone who has no account.
CreateInvite(i) ==
    /\ ~Exists
    /\ invite[i].state = "absent"
    /\ invite' = [invite EXCEPT ![i] = [state |-> "open", until |-> now + InviteTime]]
    /\ UNCHANGED <<now, user, session, second, reset, job, history>>

RevokeInvite(i) ==
    /\ invite[i].state = "open"
    /\ invite' = [invite EXCEPT ![i] = Gone("deleted")]
    /\ UNCHANGED <<now, user, session, second, reset, job, history>>

NewUser == user' = [password |-> 1, count |-> 0, locked |-> 0]

\* One transaction makes the account and its link; the session follows it.
RedeemInvite(w, i) ==
    /\ job[w] = Idle
    /\ invite[i].state = "open" /\ invite[i].until > now
    /\ ~Exists
    /\ NewUser
    /\ invite' = [invite EXCEPT ![i] = Gone("used")]
    /\ job' = [job EXCEPT ![w] = [Idle EXCEPT !.op = "redeem", !.at = "open"]]
    /\ UNCHANGED <<now, session, second, reset, history>>

-----------------------------------------------------------------------------
(* Login.                                                                    *)

\* login up to the verdict on the row it read.
LoginRead(w, right) ==
    /\ job[w] = Idle
    /\ Exists /\ ~Locked
    /\ job' = [job EXCEPT ![w] = [Idle EXCEPT !.op = "login",
                                  !.at = IF right THEN "checked" ELSE "failed"]]
    /\ guarded' = IF factor = "confirmed" THEN guarded \cup {w} ELSE guarded \ {w}
    /\ UNCHANGED <<now, user, session, second, tokens, late>>

\* Mutant of LoginFailed: the attempts that are left are counted.
LoginFailedDown(w) ==
    LET count == user.count - 1 IN
    /\ At(w, "login", "failed")
    /\ user' = [user EXCEPT !.count = count, !.locked = IF count = 0 THEN now + LockTime ELSE @]
    /\ late' = IF Locked THEN late + 1 ELSE 0
    /\ guarded' = guarded \ {w}
    /\ End(w)
    /\ UNCHANGED <<now, session, second, tokens>>

\* record_failed_login: one statement counts and locks.
LoginFailed(w) ==
    LET count == user.count + 1 IN
    /\ At(w, "login", "failed")
    /\ count <= MaxFails
    /\ user' = [user EXCEPT !.count = count,
                            !.locked = IF count >= Threshold THEN now + LockTime ELSE @]
    /\ late' = IF Locked THEN late + 1 ELSE 0
    /\ guarded' = guarded \ {w}
    /\ End(w)
    /\ UNCHANGED <<now, session, second, tokens>>

LoginClears(w) ==
    /\ At(w, "login", "checked")
    /\ user' = [user EXCEPT !.count = 0, !.locked = 0]
    /\ late' = 0
    /\ Goto(w, "cleared")
    /\ UNCHANGED <<now, session, second, tokens, guarded>>

LoginFactor(w) ==
    /\ At(w, "login", "cleared")
    /\ Goto(w, IF factor = "confirmed" THEN "challenge" ELSE "open")
    /\ UNCHANGED <<now, user, session, second, tokens, history>>

LoginChallenge(w) ==
    /\ At(w, "login", "challenge")
    /\ \E h \in Challenge :
         /\ challenge[h] = NoChallenge /\ \A v \in Worker : job[v].id # h
         /\ challenge' = [challenge EXCEPT ![h] =
                            [state |-> "live", until |-> now + ChallengeTime, attempts |-> 0]]
    /\ guarded' = guarded \ {w}
    /\ End(w)
    /\ UNCHANGED <<now, user, session, factor, code, tokens, late>>

\* session::create, the last statement of a login, a challenge and a redeemed invite.
Open(w) ==
    /\ job[w].at = "open"
    /\ HasNew(session)
    /\ session' = [session EXCEPT ![NewId(session)] =
                     [state |-> "live", until |-> now + SessionTime]]
    /\ guarded' = guarded \ {w}
    /\ End(w)
    /\ UNCHANGED <<now, user, second, tokens, late>>

\* admin unlock-account.
Unlock ==
    /\ Exists
    /\ user' = [user EXCEPT !.count = 0, !.locked = 0]
    /\ late' = 0
    /\ UNCHANGED <<now, session, second, tokens, job, guarded>>

-----------------------------------------------------------------------------
(* The second factor.                                                        *)

\* verify_challenge as far as it looks at the challenge.
VerifyRead(w, h) ==
    /\ job[w] = Idle
    /\ challenge[h].state = "live"
    /\ IF challenge[h].until < now \/ challenge[h].attempts >= MaxAttempts
       THEN /\ challenge' = [challenge EXCEPT ![h] = NoChallenge]
            /\ job' = job
       ELSE /\ challenge' = challenge
            /\ job' = [job EXCEPT ![w] = [Idle EXCEPT !.op = "verify", !.at = "code", !.id = h]]
    /\ UNCHANGED <<now, user, session, factor, code, tokens, history>>

\* verify_code, for a request of any kind: a code of the device, which counts when
\* the factor is confirmed, a recovery code read as unused, or neither.
CheckCode(w) ==
    /\ job[w].at = "code"
    /\ \/ factor = "confirmed" /\ Goto(w, "proved")
       \/ Goto(w, "refused")
       \/ \E c \in Code : /\ code[c] = "unused"
                          /\ job' = [job EXCEPT ![w].at = "spend", ![w].code = c]
    /\ UNCHANGED <<now, user, session, second, tokens, history>>

\* The update by id finds no row when the code has been deleted meanwhile.
SpendCode(w) ==
    LET c == job[w].code IN
    /\ job[w].at = "spend"
    /\ code' = [code EXCEPT ![c] = IF @ = "absent" THEN @ ELSE "used"]
    /\ job' = [job EXCEPT ![w].at = "proved", ![w].code = NoId]
    /\ UNCHANGED <<now, user, session, factor, challenge, tokens, history>>

VerifyProved(w) ==
    /\ At(w, "verify", "proved")
    /\ challenge' = [challenge EXCEPT ![job[w].id] = NoChallenge]
    /\ job' = [job EXCEPT ![w].at = "open", ![w].id = NoId]
    /\ UNCHANGED <<now, user, session, factor, code, tokens, history>>

VerifyRefused(w) ==
    LET h == job[w].id IN
    /\ At(w, "verify", "refused")
    /\ challenge' = [challenge EXCEPT ![h].attempts = IF challenge[h].state = "live" THEN @ + 1 ELSE @]
    /\ End(w)
    /\ UNCHANGED <<now, user, session, factor, code, tokens, history>>

\* Mutant of Setup: the upsert replaces a confirmed secret as well.
SetupAlways(w) ==
    /\ At(w, "setup", "asked")
    /\ factor' = "pending"
    /\ End(w)
    /\ UNCHANGED <<now, user, session, code, challenge, tokens, history>>

Setup(w) ==
    /\ At(w, "setup", "asked")
    /\ factor' = IF factor = "confirmed" THEN factor ELSE "pending"
    /\ End(w)
    /\ UNCHANGED <<now, user, session, code, challenge, tokens, history>>

\* confirm: the code is checked against the pending secret before the transaction.
ConfirmCheck(w) ==
    /\ At(w, "confirm", "asked")
    /\ IF factor = "pending" THEN Goto(w, "commit") \/ End(w) ELSE End(w)
    /\ UNCHANGED <<now, user, session, second, tokens, history>>

Deleted == [c \in Code |-> "absent"]

\* The code issued after what rows holds: an id that is in no table and in no hand.
Issued(rows) ==
    {[rows EXCEPT ![c] = "unused"] : c \in {d \in Code :
        rows[d] = "absent" /\ \A w \in Worker : job[w].code # d}}

ConfirmCommit(w) ==
    /\ At(w, "confirm", "commit")
    /\ factor' = IF factor = "none" THEN factor ELSE "confirmed"
    /\ code' \in Issued(code)
    /\ End(w)
    /\ UNCHANGED <<now, user, session, challenge, tokens, history>>

\* disable and regenerate: the password is right or wrong, the factor on or off.
ProofAsked(w) ==
    /\ At(w, "disable", "asked") \/ At(w, "regenerate", "asked")
    /\ IF factor = "confirmed" THEN Goto(w, "code") \/ End(w) ELSE End(w)
    /\ UNCHANGED <<now, user, session, second, tokens, history>>

ProofRefused(w) ==
    /\ At(w, "disable", "refused") \/ At(w, "regenerate", "refused")
    /\ End(w)
    /\ UNCHANGED <<now, user, session, second, tokens, history>>

\* force_disable_for_user: two statements.
DisableFactor(w) ==
    /\ At(w, "disable", "proved")
    /\ factor' = "none"
    /\ guarded' = {}
    /\ Goto(w, "teardown")
    /\ UNCHANGED <<now, user, session, code, challenge, tokens, late>>

DisableCodes(w) ==
    /\ At(w, "disable", "teardown")
    /\ code' = Deleted
    /\ End(w)
    /\ UNCHANGED <<now, user, session, factor, challenge, tokens, history>>

\* admin disable-2fa: another process, which needs no proof.
AdminDisable(w) ==
    /\ job[w] = Idle
    /\ Exists
    /\ job' = [job EXCEPT ![w] = [Idle EXCEPT !.op = "disable", !.at = "proved"]]
    /\ UNCHANGED <<now, user, session, second, tokens, history>>

Regenerate(w) ==
    /\ At(w, "regenerate", "proved")
    /\ code' \in Issued(Deleted)
    /\ End(w)
    /\ UNCHANGED <<now, user, session, factor, challenge, tokens, history>>

-----------------------------------------------------------------------------
(* Sessions and passwords.                                                   *)

\* resolve of session.rs.
Resolved(s) == Live(s) /\ session[s].until >= now

\* The extractor resolves the session; the handler runs later, and some need the session.
Ask(w, s, op) ==
    /\ job[w] = Idle
    /\ Resolved(s)
    /\ job' = [job EXCEPT ![w] = [Idle EXCEPT !.op = op, !.at = "asked",
                 !.session = IF op \in {"logout", "revoke", "change"} THEN s ELSE @]]
    /\ UNCHANGED <<now, user, session, second, tokens, history>>

\* logout: revoke sets revoked_at of the caller's session.
Logout(w) ==
    /\ At(w, "logout", "asked")
    /\ session' = [session EXCEPT ![job[w].session] = Gone("revoked")]
    /\ End(w)
    /\ UNCHANGED <<now, user, second, tokens, history>>

\* delete_session of any session of the account, revoke_sessions of all the others.
RevokeSessions(w) ==
    /\ At(w, "revoke", "asked")
    /\ session' \in {RevokeAllBut(Session \ {s}) : s \in Session}
                      \cup {RevokeAllBut({job[w].session})}
    /\ End(w)
    /\ UNCHANGED <<now, user, second, tokens, history>>

ChangeRead(w) ==
    /\ At(w, "change", "asked")
    /\ user.password < MaxPasswords
    /\ Goto(w, "commit") \/ End(w)
    /\ UNCHANGED <<now, user, session, second, tokens, history>>

\* Mutant of ChangeCommit: the sessions are revoked when the password is asked for.
ChangeCommitOnly(w) ==
    /\ At(w, "change", "commit")
    /\ user' = [user EXCEPT !.password = @ + 1]
    /\ session' = session
    /\ End(w)
    /\ UNCHANGED <<now, second, tokens, history>>

ChangeCommit(w) ==
    /\ At(w, "change", "commit")
    /\ user' = [user EXCEPT !.password = @ + 1]
    /\ session' = RevokeAllBut({job[w].session})
    /\ End(w)
    /\ UNCHANGED <<now, second, tokens, history>>

\* admin reset-password.
IssueReset ==
    /\ Exists /\ HasNew(reset)
    /\ reset' = [reset EXCEPT ![NewId(reset)] = [state |-> "issued", until |-> now + ResetTime]]
    /\ UNCHANGED <<now, user, session, second, invite, job, history>>

\* redeem of password_reset.rs: one transaction.
RedeemReset(t) ==
    /\ reset[t].state = "issued" /\ reset[t].until > now
    /\ user.password < MaxPasswords
    /\ user' = [user EXCEPT !.password = @ + 1]
    /\ reset' = [reset EXCEPT ![t] = Gone("consumed")]
    /\ session' = RevokeAllBut({})
    /\ UNCHANGED <<now, second, invite, job, history>>

-----------------------------------------------------------------------------

Crash ==
    /\ job # [w \in Worker |-> Idle]
    /\ job' = [w \in Worker |-> Idle]
    /\ guarded' = {}
    /\ UNCHANGED <<now, user, session, second, tokens, late>>

Tick ==
    /\ now < MaxTime
    /\ now' = now + 1
    /\ late' = IF user.locked > now' THEN late ELSE 0
    /\ UNCHANGED <<user, session, second, tokens, job, guarded>>

\* The requests of api/invites.rs.
PostRedemption(w) ==
    \/ \E i \in Invite : RedeemInvite(w, i)
    \/ job[w].op = "redeem" /\ Open(w)
DeleteInvite == \E i \in Invite : RevokeInvite(i)
Invites ==
    \/ \E i \in Invite : CreateInvite(i)
    \/ DeleteInvite
    \/ \E w \in Worker : PostRedemption(w)

\* The requests of api/auth.rs, and the administrator's that take several steps.
Login(w) ==
    \/ \E right \in BOOLEAN : LoginRead(w, right)
    \/ LoginFailed(w) \/ LoginClears(w) \/ LoginFactor(w) \/ LoginChallenge(w)
    \/ job[w].op = "login" /\ Open(w)

VerifyTwoFactor(w) ==
    \/ \E h \in Challenge : VerifyRead(w, h)
    \/ job[w].op = "verify" /\ (CheckCode(w) \/ SpendCode(w) \/ Open(w))
    \/ VerifyProved(w) \/ VerifyRefused(w)

AskFor(w, op) == w \in Desk /\ \E s \in Session : Ask(w, s, op)
Proof(w, op) ==
    /\ job[w].op = op
    /\ ProofAsked(w) \/ CheckCode(w) \/ SpendCode(w) \/ ProofRefused(w)

TwoFactorSetup(w) == AskFor(w, "setup") \/ Setup(w)
TwoFactorConfirm(w) == AskFor(w, "confirm") \/ ConfirmCheck(w) \/ ConfirmCommit(w)
TwoFactorDisable(w) ==
    \/ AskFor(w, "disable") \/ Proof(w, "disable")
    \/ DisableFactor(w) \/ DisableCodes(w)
RegenerateRecoveryCodes(w) ==
    AskFor(w, "regenerate") \/ Proof(w, "regenerate") \/ Regenerate(w)

PostLogout(w) == AskFor(w, "logout") \/ Logout(w)
DeleteSessions(w) == AskFor(w, "revoke") \/ RevokeSessions(w)
ChangePassword(w) == AskFor(w, "change") \/ ChangeRead(w) \/ ChangeCommit(w)
RedeemPasswordReset == \E t \in Reset : RedeemReset(t)

AuthRoutes(w) ==
    \/ Login(w) \/ VerifyTwoFactor(w)
    \/ TwoFactorSetup(w) \/ TwoFactorConfirm(w) \/ TwoFactorDisable(w)
    \/ RegenerateRecoveryCodes(w)
    \/ PostLogout(w) \/ DeleteSessions(w) \/ ChangePassword(w)

Administrator ==
    \/ IssueReset \/ Unlock
    \/ \E w \in Desk : AdminDisable(w)

Next ==
    \/ Invites
    \/ \E w \in Worker : AuthRoutes(w)
    \/ RedeemPasswordReset
    \/ Administrator
    \/ Crash \/ Tick

Spec == Init /\ [][Next]_vars

-----------------------------------------------------------------------------
(* Properties.                                                              *)

\* While an account is locked only attempts that read it before can still count:
\* one per other worker, however often they prolong the lock; and a counter at the
\* threshold has set one (05-security-and-privacy.md, section 2; users/mod.rs).
LockoutHolds ==
    /\ user.count >= Threshold => user.locked > 0
    /\ late <= Cardinality(Worker) - 1

\* A login during which the second factor was on throughout does not open a session
\* by the password alone, whatever is set up, confirmed or regenerated meanwhile
\* (10-operations.md, section 2; login and setup).
FactorGuardsLogin ==
    \A w \in Worker : At(w, "login", "open") => w \notin guarded

\* A change of the password ends every session in the same step, but for that of
\* the one who changed it, and a session that has ended stays so, whatever the
\* requests in flight (10-operations.md, sections 1 and 5).
SessionsEnd ==
    [][ /\ \A s \in Session : session[s].state = "revoked" => session'[s].state = "revoked"
        /\ Exists /\ user'.password # user.password =>
             \A s \in Session : session'[s].state = "live" =>
               \E w \in Worker : At(w, "change", "commit") /\ job[w].session = s ]_vars

\* A challenge takes the attempts it should, and one more per request under way
\* when it took the last (two_factor.rs, CHALLENGE_MAX_ATTEMPTS).
AttemptsBounded ==
    \A h \in Challenge : challenge[h].attempts <= MaxAttempts + Cardinality(Worker) - 1

\* Overlapping attempts pass the limits on guessing, of passwords and of one-time codes,
\* by one each at most.
GuessesBounded == LockoutHolds /\ AttemptsBounded

\* No session without the second factor the account had, and no unlimited guessing of it or
\* of the password (10-operations.md, sections 1 and 2).
LoginIsGuarded == FactorGuardsLogin /\ GuessesBounded
=============================================================================
