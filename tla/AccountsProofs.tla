---------------------------- MODULE AccountsProofs ----------------------------
(***************************************************************************)
(* Proofs about Accounts, for any number of sessions, codes, challenges,    *)
(* resets, invites and workers.                                             *)
(*                                                                         *)
(* TypeOK is inductive alone, and SessionsEnd follows from it.  The guard of *)
(* the second factor needs that a guarded login finds it on (GuardInv); the  *)
(* lockout that each of the workers counts for one attempt, made or still    *)
(* to make (LockInv), and the attempts at a challenge likewise (GuessInv).   *)
(*                                                                         *)
(* And about Access, the reads of those who have accounts: what each        *)
(* statement has left in the request, and that it stays so while links and   *)
(* settings change under it (ReadsInv), gives both its properties.          *)
(***************************************************************************)
EXTENDS Accounts, Access, FiniteSetTheorems, TLAPS

-----------------------------------------------------------------------------
(* Type correctness.                                                        *)

Users == [password : Nat, count : Nat, locked : Nat]
SessionRows == [state : {"absent", "live", "revoked"}, until : Nat]
ChallengeRows == [state : {"absent", "live"}, until : Nat, attempts : Nat]
Ops == SessionOps \cup {"idle", "login", "verify", "redeem"}

LEMMA IdleType == Idle \in Jobs
BY DEF Idle, Jobs

\* A request that begins: its worker was idle.
LEMMA StartType ==
    ASSUME TypeOK, NEW w \in Worker, NEW op \in Ops, NEW step \in Steps
    PROVE  [job EXCEPT ![w] = [Idle EXCEPT !.op = op, !.at = step]] \in [Worker -> Jobs]
<1>1. [Idle EXCEPT !.op = op, !.at = step] \in Jobs
  BY IdleType DEF Jobs, Ops
<1>2. QED
  BY <1>1 DEF TypeOK

LEMMA GotoType ==
    ASSUME TypeOK, NEW w \in Worker, NEW step \in Steps, Goto(w, step)
    PROVE  job' \in [Worker -> Jobs]
<1>1. [job[w] EXCEPT !.at = step] \in Jobs
  <2>1. job[w] \in Jobs
    BY DEF TypeOK
  <2>2. QED
    BY <2>1 DEF Jobs
<1>2. QED
  BY <1>1 DEF TypeOK, Goto

LEMMA EndType ==
    ASSUME TypeOK, NEW w \in Worker, End(w)
    PROVE  job' \in [Worker -> Jobs]
BY IdleType DEF TypeOK, End

LEMMA RevokeType == TypeOK => \A kept : RevokeAllBut(kept) \in [Session -> SessionRows]
BY DEF TypeOK, RevokeAllBut, SessionRows, Gone

LEMMA TypeInit == Init => TypeOK
BY IdleType DEF Init, TypeOK, Rows, Absent, NoChallenge

LEMMA OpenType ==
    ASSUME TypeOK, NEW w \in Worker, Open(w)
    PROVE  TypeOK'
<1>1. [state |-> "live", until |-> now + SessionTime] \in SessionRows
  BY AccountsAssumption DEF TypeOK, SessionRows
<1>2. session' \in [Session -> SessionRows]
  BY <1>1 DEF Open, TypeOK, SessionRows
<1>3. job' \in [Worker -> Jobs]
  BY EndType DEF Open
<1>4. QED
  BY <1>2, <1>3 DEF Open, TypeOK, SessionRows, second, tokens

LEMMA InviteType ==
    ASSUME TypeOK, Invites
    PROVE  TypeOK'
<1>1. ASSUME NEW i \in Invite, CreateInvite(i) \/ RevokeInvite(i) PROVE TypeOK'
  <2>1. [state |-> "open", until |-> now + InviteTime] \in Rows({"absent", "open", "used", "deleted"})
    BY AccountsAssumption DEF TypeOK, Rows
  <2>2. Gone("deleted") \in Rows({"absent", "open", "used", "deleted"})
    BY DEF Gone, Rows
  <2>3. invite' \in [Invite -> Rows({"absent", "open", "used", "deleted"})]
    BY <1>1, <2>1, <2>2 DEF CreateInvite, RevokeInvite, TypeOK
  <2>4. QED
    BY <1>1, <2>3 DEF CreateInvite, RevokeInvite, TypeOK, second, history
<1>2. ASSUME NEW w \in Worker, NEW i \in Invite, RedeemInvite(w, i) PROVE TypeOK'
  <2>1. Gone("used") \in Rows({"absent", "open", "used", "deleted"})
    BY DEF Gone, Rows
  <2>2. job' \in [Worker -> Jobs]
    BY <1>2, StartType DEF RedeemInvite, Ops, Steps
  <2>3. invite' \in [Invite -> Rows({"absent", "open", "used", "deleted"})]
    BY <1>2, <2>1 DEF RedeemInvite, TypeOK
  <2>4. QED
    BY <1>2, <2>2, <2>3 DEF RedeemInvite, NewUser, TypeOK, second, history
<1>3. QED
  BY <1>1, <1>2, OpenType DEF Invites, DeleteInvite, PostRedemption

LEMMA LoginType ==
    ASSUME TypeOK, NEW w \in Worker, Login(w)
    PROVE  TypeOK'
<1>1. ASSUME NEW right \in BOOLEAN, LoginRead(w, right) PROVE TypeOK'
  <2> DEFINE step == IF right THEN "checked" ELSE "failed"
  <2>1. step \in Steps /\ "login" \in Ops
    BY DEF Steps, Ops
  <2> HIDE DEF step
  <2>2. [job EXCEPT ![w] = [Idle EXCEPT !.op = "login", !.at = step]] \in [Worker -> Jobs]
    BY <2>1, StartType
  <2>3. job' \in [Worker -> Jobs]
    BY <1>1, <2>2 DEF LoginRead, step
  <2>4. guarded' \in SUBSET Worker
    BY <1>1 DEF LoginRead, TypeOK
  <2>5. QED
    BY <1>1, <2>3, <2>4 DEF LoginRead, TypeOK, second, tokens
<1>2. CASE LoginFailed(w)
  <2>1. user' \in Users
    <3> DEFINE count == user.count + 1
    <3> DEFINE lock == IF count >= Threshold THEN now + LockTime ELSE user.locked
    <3>1. count \in Nat /\ lock \in Nat /\ user \in Users
      BY AccountsAssumption DEF TypeOK, Users
    <3>2. user' = [user EXCEPT !.count = count, !.locked = lock]
      BY <1>2 DEF LoginFailed
    <3> HIDE DEF count, lock
    <3>3. QED
      BY <3>1, <3>2 DEF Users
  <2>2. late' \in Nat /\ guarded' \in SUBSET Worker
    BY <1>2 DEF LoginFailed, TypeOK
  <2>3. job' \in [Worker -> Jobs]
    BY <1>2, EndType DEF LoginFailed
  <2>4. QED
    BY <1>2, <2>1, <2>2, <2>3 DEF LoginFailed, TypeOK, Users, second, tokens
<1>3. CASE LoginClears(w)
  <2>1. job' \in [Worker -> Jobs]
    BY <1>3, GotoType DEF LoginClears, Steps
  <2>2. QED
    BY <1>3, <2>1 DEF LoginClears, TypeOK, second, tokens
<1>4. CASE LoginFactor(w)
  <2>1. job' \in [Worker -> Jobs]
    BY <1>4, GotoType DEF LoginFactor, Steps
  <2>2. QED
    BY <1>4, <2>1 DEF LoginFactor, TypeOK, second, tokens, history
<1>5. CASE LoginChallenge(w)
  <2>1. [state |-> "live", until |-> now + ChallengeTime, attempts |-> 0] \in ChallengeRows
    BY AccountsAssumption DEF TypeOK, ChallengeRows
  <2>2. challenge' \in [Challenge -> ChallengeRows]
    BY <1>5, <2>1 DEF LoginChallenge, TypeOK, ChallengeRows
  <2>3. job' \in [Worker -> Jobs]
    BY <1>5, EndType DEF LoginChallenge
  <2>4. QED
    BY <1>5, <2>2, <2>3 DEF LoginChallenge, TypeOK, ChallengeRows, tokens
<1>6. CASE Open(w)
  BY <1>6, OpenType
<1>7. QED
  BY <1>1, <1>2, <1>3, <1>4, <1>5, <1>6 DEF Login

LEMMA ChallengeType ==
    ASSUME TypeOK, NEW h, NEW row \in ChallengeRows, challenge' = [challenge EXCEPT ![h] = row]
    PROVE  challenge' \in [Challenge -> ChallengeRows]
BY DEF TypeOK, ChallengeRows

\* The proof of a second factor, for a request of any kind.
LEMMA CodeType ==
    ASSUME TypeOK, NEW w \in Worker, CheckCode(w) \/ SpendCode(w)
    PROVE  TypeOK'
<1>1. ASSUME NEW step \in Steps, NEW c \in Code \cup {NoId}
      PROVE  [job EXCEPT ![w].at = step, ![w].code = c] \in [Worker -> Jobs]
  <2>1. [job[w] EXCEPT !.at = step, !.code = c] \in Jobs
    <3>1. job[w] \in Jobs
      BY DEF TypeOK
    <3>2. QED
      BY <3>1 DEF Jobs
  <2>2. QED
    BY <2>1 DEF TypeOK
<1>2. CASE CheckCode(w)
  <2>1. job' \in [Worker -> Jobs]
    <3>1. CASE Goto(w, "proved") \/ Goto(w, "refused")
      BY <3>1, GotoType DEF Steps
    <3>2. ASSUME NEW c \in Code, job' = [job EXCEPT ![w].at = "spend", ![w].code = c]
          PROVE  job' \in [Worker -> Jobs]
      BY <1>1, <3>2 DEF Steps
    <3>3. QED
      BY <1>2, <3>1, <3>2 DEF CheckCode
  <2>2. QED
    BY <1>2, <2>1 DEF CheckCode, TypeOK, second, tokens, history
<1>3. CASE SpendCode(w)
  <2>1. job' \in [Worker -> Jobs]
    BY <1>1, <1>3 DEF SpendCode, Steps
  <2>2. code' \in [Code -> {"absent", "unused", "used"}]
    BY <1>3 DEF SpendCode, TypeOK
  <2>3. QED
    BY <1>3, <2>1, <2>2 DEF SpendCode, TypeOK, tokens, history
<1>4. QED
  BY <1>2, <1>3

LEMMA VerifyType ==
    ASSUME TypeOK, NEW w \in Worker, VerifyTwoFactor(w)
    PROVE  TypeOK'
<1>1. NoChallenge \in ChallengeRows
  BY DEF NoChallenge, ChallengeRows
<1>2. ASSUME NEW h \in Challenge, VerifyRead(w, h) PROVE TypeOK'
  <2>1. [Idle EXCEPT !.op = "verify", !.at = "code", !.id = h] \in Jobs
    BY IdleType DEF Jobs, Steps
  <2>2. job' \in [Worker -> Jobs]
    BY <1>2, <2>1 DEF VerifyRead, TypeOK
  <2>3. challenge' \in [Challenge -> ChallengeRows]
    BY <1>1, <1>2, ChallengeType DEF VerifyRead, TypeOK, ChallengeRows
  <2>4. QED
    BY <1>2, <2>2, <2>3 DEF VerifyRead, TypeOK, ChallengeRows, tokens, history
<1>3. CASE VerifyProved(w)
  <2>1. challenge' \in [Challenge -> ChallengeRows]
    BY <1>1, <1>3, ChallengeType DEF VerifyProved
  <2>2. [job[w] EXCEPT !.at = "open", !.id = NoId] \in Jobs
    <3>1. job[w] \in Jobs
      BY DEF TypeOK
    <3>2. QED
      BY <3>1 DEF Jobs, Steps
  <2>3. job' \in [Worker -> Jobs]
    BY <1>3, <2>2 DEF VerifyProved, TypeOK
  <2>4. QED
    BY <1>3, <2>1, <2>3 DEF VerifyProved, TypeOK, ChallengeRows, tokens, history
<1>4. CASE VerifyRefused(w)
  <2>1. challenge' \in [Challenge -> ChallengeRows]
    <3> DEFINE h == job[w].id
    <3> DEFINE n == IF challenge[h].state = "live" THEN challenge[h].attempts + 1
                    ELSE challenge[h].attempts
    <3>1. challenge' = [challenge EXCEPT ![h].attempts = n]
      BY <1>4 DEF VerifyRefused
    <3>2. h \in Challenge => n \in Nat
      BY DEF TypeOK
    <3> HIDE DEF h, n
    <3>3. h \in Challenge => [challenge[h] EXCEPT !.attempts = n] \in ChallengeRows
      BY <3>2 DEF TypeOK, ChallengeRows
    <3>4. QED
      BY <3>1, <3>3 DEF TypeOK, ChallengeRows
  <2>2. job' \in [Worker -> Jobs]
    BY <1>4, EndType DEF VerifyRefused
  <2>3. QED
    BY <1>4, <2>1, <2>2 DEF VerifyRefused, TypeOK, ChallengeRows, tokens, history
<1>5. QED
  BY <1>2, <1>3, <1>4, CodeType, OpenType DEF VerifyTwoFactor

\* A request of a session begins.
LEMMA AskType ==
    ASSUME TypeOK, NEW w \in Worker, NEW op \in SessionOps, AskFor(w, op)
    PROVE  TypeOK'
<1>1. PICK s \in Session : Ask(w, s, op)
  BY DEF AskFor
<1> DEFINE kept == IF op \in {"logout", "revoke", "change"} THEN s ELSE Idle.session
<1>2. kept \in Session \cup {NoSession}
  BY DEF Idle
<1>3. [Idle EXCEPT !.op = op, !.at = "asked", !.session = kept] \in Jobs
  BY <1>2, IdleType, ZenonT(60) DEF Jobs, Steps
<1>4. job' = [job EXCEPT ![w] = [Idle EXCEPT !.op = op, !.at = "asked", !.session = kept]]
  BY <1>1 DEF Ask, Idle
<1>5. job' \in [Worker -> Jobs]
  BY <1>3, <1>4 DEF TypeOK
<1>6. QED
  BY <1>1, <1>5 DEF Ask, TypeOK, second, tokens, history

LEMMA IssuedType == TypeOK => \A r \in Issued(code) \cup Issued(Deleted) : r \in [Code -> {"absent", "unused", "used"}]
BY DEF TypeOK, Issued, Deleted

LEMMA FactorType ==
    ASSUME TypeOK, NEW w \in Worker,
           TwoFactorSetup(w) \/ TwoFactorConfirm(w) \/ TwoFactorDisable(w) \/ RegenerateRecoveryCodes(w)
    PROVE  TypeOK'
<1>1. ASSUME NEW op \in SessionOps, AskFor(w, op) PROVE TypeOK'
  BY <1>1, AskType
<1>2. ASSUME End(w) \/ Goto(w, "commit") \/ Goto(w, "code") \/ Goto(w, "teardown")
      PROVE  job' \in [Worker -> Jobs]
  BY <1>2, EndType, GotoType DEF Steps
<1>3. CASE Setup(w)
  BY <1>2, <1>3 DEF Setup, TypeOK, tokens, history
<1>4. CASE ConfirmCheck(w)
  BY <1>2, <1>4 DEF ConfirmCheck, TypeOK, second, tokens, history
<1>5. CASE ConfirmCommit(w)
  BY <1>2, <1>5, IssuedType DEF ConfirmCommit, TypeOK, tokens, history
<1>6. CASE ProofAsked(w)
  BY <1>2, <1>6 DEF ProofAsked, TypeOK, second, tokens, history
<1>7. CASE ProofRefused(w)
  BY <1>2, <1>7 DEF ProofRefused, TypeOK, second, tokens, history
<1>8. CASE DisableFactor(w)
  BY <1>2, <1>8 DEF DisableFactor, TypeOK, tokens
<1>9. CASE DisableCodes(w)
  BY <1>2, <1>9 DEF DisableCodes, Deleted, TypeOK, tokens, history
<1>10. CASE Regenerate(w)
  BY <1>2, <1>10, IssuedType DEF Regenerate, TypeOK, tokens, history
<1>11. ASSUME NEW op, Proof(w, op) PROVE TypeOK'
  BY <1>6, <1>7, <1>11, CodeType DEF Proof
<1>12. QED
  BY <1>1, <1>3, <1>4, <1>5, <1>8, <1>9, <1>10, <1>11
     DEF TwoFactorSetup, TwoFactorConfirm, TwoFactorDisable, RegenerateRecoveryCodes, SessionOps

LEMMA SessionsType ==
    ASSUME TypeOK, NEW w \in Worker, PostLogout(w) \/ DeleteSessions(w) \/ ChangePassword(w)
    PROVE  TypeOK'
<1>1. ASSUME NEW op \in SessionOps, AskFor(w, op) PROVE TypeOK'
  BY <1>1, AskType
<1>2. CASE Logout(w)
  <2>1. session' \in [Session -> SessionRows]
    BY <1>2 DEF Logout, TypeOK, SessionRows, Gone
  <2>2. job' \in [Worker -> Jobs]
    BY <1>2, EndType DEF Logout
  <2>3. QED
    BY <1>2, <2>1, <2>2 DEF Logout, TypeOK, SessionRows, second, tokens, history
<1>3. CASE RevokeSessions(w)
  <2>1. session' \in [Session -> SessionRows]
    BY <1>3, RevokeType DEF RevokeSessions
  <2>2. job' \in [Worker -> Jobs]
    BY <1>3, EndType DEF RevokeSessions
  <2>3. QED
    BY <1>3, <2>1, <2>2 DEF RevokeSessions, TypeOK, SessionRows, second, tokens, history
<1>4. CASE ChangeRead(w)
  <2>1. job' \in [Worker -> Jobs]
    BY <1>4, EndType, GotoType DEF ChangeRead, Steps
  <2>2. QED
    BY <1>4, <2>1 DEF ChangeRead, TypeOK, second, tokens, history
<1>5. CASE ChangeCommit(w)
  <2>1. session' \in [Session -> SessionRows]
    BY <1>5, RevokeType DEF ChangeCommit
  <2>2. job' \in [Worker -> Jobs] /\ user' \in Users
    BY <1>5, EndType DEF ChangeCommit, TypeOK, Users
  <2>3. QED
    BY <1>5, <2>1, <2>2 DEF ChangeCommit, TypeOK, SessionRows, Users, second, tokens, history
<1>6. QED
  BY <1>1, <1>2, <1>3, <1>4, <1>5 DEF PostLogout, DeleteSessions, ChangePassword, SessionOps

LEMMA ResetType ==
    ASSUME TypeOK, RedeemPasswordReset \/ IssueReset
    PROVE  TypeOK'
<1> DEFINE R == Rows({"absent", "issued", "consumed"})
<1>1. ASSUME NEW t \in Reset, RedeemReset(t) PROVE TypeOK'
  <2>1. Gone("consumed") \in R
    BY DEF Gone, Rows
  <2>2. reset' \in [Reset -> R] /\ user' \in Users
    BY <1>1, <2>1 DEF RedeemReset, TypeOK, Users
  <2>3. session' \in [Session -> SessionRows]
    BY <1>1, RevokeType DEF RedeemReset
  <2>4. QED
    BY <1>1, <2>2, <2>3 DEF RedeemReset, TypeOK, SessionRows, Users, second, history
<1>2. CASE IssueReset
  <2>1. [state |-> "issued", until |-> now + ResetTime] \in R
    BY AccountsAssumption DEF TypeOK, Rows
  <2>2. reset' \in [Reset -> R]
    BY <1>2, <2>1 DEF IssueReset, TypeOK
  <2>3. QED
    BY <1>2, <2>2 DEF IssueReset, TypeOK, second, history
<1>3. QED
  BY <1>1, <1>2 DEF RedeemPasswordReset

LEMMA TypeNext == TypeOK /\ [Next]_vars => TypeOK'
<1> SUFFICES ASSUME TypeOK, [Next]_vars PROVE TypeOK'
  OBVIOUS
<1>1. ASSUME NEW w \in Worker, AuthRoutes(w) PROVE TypeOK'
  BY <1>1, LoginType, VerifyType, FactorType, SessionsType DEF AuthRoutes
<1>2. CASE Unlock
  BY <1>2 DEF Unlock, TypeOK, second, tokens
<1>3. ASSUME NEW w \in Desk, AdminDisable(w) PROVE TypeOK'
  <2>1. job' \in [Worker -> Jobs]
    BY <1>3, StartType, AccountsAssumption DEF AdminDisable, Ops, SessionOps, Steps
  <2>2. QED
    BY <1>3, <2>1 DEF AdminDisable, TypeOK, second, tokens, history
<1>4. CASE Crash
  BY <1>4, IdleType DEF Crash, TypeOK, second, tokens
<1>5. CASE Tick
  BY <1>5 DEF Tick, TypeOK, second, tokens
<1>6. CASE UNCHANGED vars
  BY <1>6 DEF vars, TypeOK
<1>7. QED
  BY <1>1, <1>2, <1>3, <1>4, <1>5, <1>6, InviteType, ResetType DEF Next, Administrator

\* Every row, and every request in flight, keeps its type.
THEOREM AccountsTypeCorrect == Spec => []TypeOK
BY TypeInit, TypeNext, PTL DEF Spec

-----------------------------------------------------------------------------
(* Sessions end with the password.                                          *)

\* The sessions and the password change by six steps only.
LEMMA SessionSteps ==
    ASSUME TypeOK, [Next]_vars
    PROVE  \/ UNCHANGED session /\ user'.password = user.password
           \/ \E w \in Worker : Open(w) \/ Logout(w) \/ RevokeSessions(w) \/ ChangeCommit(w)
           \/ \E w \in Worker, i \in Invite : RedeemInvite(w, i)
           \/ \E t \in Reset : RedeemReset(t)
<1> DEFINE Stays == UNCHANGED session /\ user'.password = user.password
<1>1. ASSUME NEW w \in Worker, NEW op, AskFor(w, op) \/ Proof(w, op) PROVE Stays
  BY <1>1 DEF AskFor, Ask, Proof, ProofAsked, CheckCode, SpendCode, ProofRefused
<1>2. CASE Invites
  BY <1>2 DEF Invites, DeleteInvite, PostRedemption, CreateInvite, RevokeInvite
<1>3. ASSUME NEW w \in Worker, Login(w)
      PROVE  Stays \/ Open(w)
  BY <1>3 DEF Login, LoginRead, LoginFailed, LoginClears, LoginFactor, LoginChallenge, TypeOK
<1>4. ASSUME NEW w \in Worker, VerifyTwoFactor(w)
      PROVE  Stays \/ Open(w)
  BY <1>4 DEF VerifyTwoFactor, VerifyRead, CheckCode, SpendCode, VerifyProved, VerifyRefused
<1>5. ASSUME NEW w \in Worker,
             TwoFactorSetup(w) \/ TwoFactorConfirm(w) \/ TwoFactorDisable(w) \/ RegenerateRecoveryCodes(w)
      PROVE  Stays
  BY <1>1, <1>5 DEF TwoFactorSetup, TwoFactorConfirm, TwoFactorDisable, RegenerateRecoveryCodes,
       Setup, ConfirmCheck, ConfirmCommit, DisableFactor, DisableCodes, Regenerate
<1>6. ASSUME NEW w \in Worker, PostLogout(w) \/ DeleteSessions(w) \/ ChangePassword(w)
      PROVE  Stays \/ Logout(w) \/ RevokeSessions(w) \/ ChangeCommit(w)
  BY <1>1, <1>6 DEF PostLogout, DeleteSessions, ChangePassword, ChangeRead
<1>7. CASE Administrator \/ Crash \/ Tick \/ UNCHANGED vars
  BY <1>7 DEF Administrator, IssueReset, Unlock, AdminDisable, Crash, Tick, vars, TypeOK
<1>8. QED
  BY <1>2, <1>3, <1>4, <1>5, <1>6, <1>7 DEF Next, AuthRoutes, RedeemPasswordReset

LEMMA RevokedLive ==
    ASSUME NEW kept, NEW s \in Session
    PROVE  /\ session[s].state = "revoked" => RevokeAllBut(kept)[s].state = "revoked"
           /\ RevokeAllBut(kept)[s].state = "live" => s \in kept
BY DEF RevokeAllBut, Gone, Live

\* What SessionsEnd says of a step.
SessionsEndStep ==
    /\ \A s \in Session : session[s].state = "revoked" => session'[s].state = "revoked"
    /\ Exists /\ user'.password # user.password =>
         \A s \in Session : session'[s].state = "live" =>
           \E w \in Worker : At(w, "change", "commit") /\ job[w].session = s

LEMMA SessionsEndHolds == TypeOK /\ [Next]_vars => SessionsEndStep
<1> SUFFICES ASSUME TypeOK, [Next]_vars PROVE SessionsEndStep
  OBVIOUS
<1>1. CASE UNCHANGED session /\ user'.password = user.password
  BY <1>1 DEF SessionsEndStep
<1>2. ASSUME NEW w \in Worker, Open(w) PROVE SessionsEndStep
  <2> DEFINE new == NewId(session)
  <2>1. session[new].state = "absent"
    BY <1>2 DEF Open, HasNew, NewId
  <2>2. user' = user
    BY <1>2 DEF Open
  <2>3. \A s \in Session : s # new => session'[s] = session[s]
    BY <1>2 DEF Open, TypeOK
  <2>4. QED
    BY <2>1, <2>2, <2>3 DEF SessionsEndStep
<1>3. ASSUME NEW w \in Worker, Logout(w) PROVE SessionsEndStep
  BY <1>3 DEF Logout, Gone, TypeOK, SessionsEndStep
<1>4. ASSUME NEW w \in Worker, RevokeSessions(w) PROVE SessionsEndStep
  BY <1>4, RevokedLive DEF RevokeSessions, SessionsEndStep
<1>5. ASSUME NEW w \in Worker, ChangeCommit(w) PROVE SessionsEndStep
  BY <1>5, RevokedLive DEF ChangeCommit, SessionsEndStep
<1>6. ASSUME NEW w \in Worker, NEW i \in Invite, RedeemInvite(w, i) PROVE SessionsEndStep
  BY <1>6 DEF RedeemInvite, SessionsEndStep
<1>7. ASSUME NEW t \in Reset, RedeemReset(t) PROVE SessionsEndStep
  BY <1>7, RevokedLive DEF RedeemReset, SessionsEndStep
<1>8. QED
  BY <1>1, <1>2, <1>3, <1>4, <1>5, <1>6, <1>7, SessionSteps

\* A change of the password ends every session but the changer's, and what has ended stays so.
THEOREM SessionsAlwaysEnd == Spec => SessionsEnd
<1>1. TypeOK /\ [Next]_vars => [SessionsEndStep]_vars
  BY SessionsEndHolds
<1>2. QED
  BY TypeInit, TypeNext, <1>1, PTL DEF Spec, SessionsEnd, SessionsEndStep

-----------------------------------------------------------------------------
(* What a step does to the requests in flight.                              *)

\* No attempt, session by password or guess at a challenge of v that was not there.
NothingBegins(v) ==
    /\ At(v, "login", "failed")' => At(v, "login", "failed")
    /\ At(v, "login", "open")' => At(v, "login", "open")
    /\ \A h \in Challenge : (job[v].op = "verify" /\ job[v].id = h)'
                               => job[v].op = "verify" /\ job[v].id = h

LEMMA KeptBegins ==
    ASSUME NEW v, job'[v] = job[v]
    PROVE  NothingBegins(v)
BY DEF NothingBegins, At

LEMMA IdleBegins ==
    ASSUME NEW v, job'[v] = Idle
    PROVE  NothingBegins(v)
BY DEF NothingBegins, At, Idle

LEMMA EndBegins ==
    ASSUME TypeOK, NEW w \in Worker, End(w)
    PROVE  \A v \in Worker : NothingBegins(v)
BY KeptBegins, IdleBegins DEF TypeOK, End

LEMMA GotoBegins ==
    ASSUME TypeOK, NEW w \in Worker, NEW step, Goto(w, step), step # "failed",
           job[w].op = "login" => step # "open"
    PROVE  \A v \in Worker : NothingBegins(v)
<1>1. \A v \in Worker \ {w} : job'[v] = job[v]
  BY DEF TypeOK, Goto
<1>2. job'[w].op = job[w].op /\ job'[w].at = step /\ job'[w].id = job[w].id
  BY DEF TypeOK, Jobs, Goto
<1>3. NothingBegins(w)
  BY <1>2 DEF NothingBegins, At
<1>4. QED
  BY <1>1, <1>3, KeptBegins

LEMMA StartBegins ==
    ASSUME TypeOK, NEW w \in Worker, NEW j \in Jobs, job' = [job EXCEPT ![w] = j],
           j.op \notin {"login", "verify"}
    PROVE  \A v \in Worker : NothingBegins(v)
<1>1. \A v \in Worker \ {w} : job'[v] = job[v]
  BY DEF TypeOK
<1>2. job'[w] = j
  BY DEF TypeOK
<1>3. NothingBegins(w)
  BY <1>2 DEF NothingBegins, At
<1>4. QED
  BY <1>1, <1>3, KeptBegins

LEMMA CodeBegins ==
    ASSUME TypeOK, NEW w \in Worker, CheckCode(w) \/ SpendCode(w)
    PROVE  \A v \in Worker : NothingBegins(v)
<1>1. ASSUME NEW step \in {"spend", "proved"}, NEW c, job' = [job EXCEPT ![w].at = step, ![w].code = c]
      PROVE  \A v \in Worker : NothingBegins(v)
  <2>1. \A v \in Worker \ {w} : job'[v] = job[v]
    BY <1>1 DEF TypeOK
  <2>2. job'[w].op = job[w].op /\ job'[w].at = step /\ job'[w].id = job[w].id
    BY <1>1 DEF TypeOK, Jobs
  <2>3. NothingBegins(w)
    BY <2>2 DEF NothingBegins, At
  <2>4. QED
    BY <2>1, <2>3, KeptBegins
<1>2. QED
  BY <1>1, GotoBegins DEF CheckCode, SpendCode

LEMMA AskBegins ==
    ASSUME TypeOK, NEW w \in Worker, NEW op \in SessionOps, AskFor(w, op)
    PROVE  \A v \in Worker : NothingBegins(v)
<1>1. PICK s \in Session : Ask(w, s, op)
  BY DEF AskFor
<1> DEFINE kept == IF op \in {"logout", "revoke", "change"} THEN s ELSE Idle.session
<1> DEFINE j == [Idle EXCEPT !.op = op, !.at = "asked", !.session = kept]
<1>2. kept \in Session \cup {NoSession}
  BY DEF Idle
<1>3. j \in Jobs /\ j.op = op
  BY <1>2, IdleType, ZenonT(60) DEF Jobs, Steps
<1>4. job' = [job EXCEPT ![w] = j]
  BY <1>1 DEF Ask, Idle
<1> HIDE DEF j
<1>5. QED
  BY <1>3, <1>4, StartBegins DEF SessionOps

\* The three steps that begin something, and all the others.
LEMMA JobSteps ==
    ASSUME TypeOK, [Next]_vars
    PROVE  \/ \E w \in Worker, right \in BOOLEAN : LoginRead(w, right)
           \/ \E w \in Worker : LoginFactor(w)
           \/ \E w \in Worker, h \in Challenge : VerifyRead(w, h)
           \/ \A v \in Worker : NothingBegins(v)
<1> DEFINE None == \A v \in Worker : NothingBegins(v)
<1>0. job' = job => None
  BY KeptBegins
<1>1. ASSUME NEW w \in Worker, End(w) \/ Goto(w, "commit") \/ Goto(w, "code") \/ Goto(w, "teardown")
                               \/ Goto(w, "cleared")
      PROVE  None
  BY <1>1, EndBegins, GotoBegins
<1>2. CASE Invites
  <2>1. ASSUME NEW w \in Worker, NEW i \in Invite, RedeemInvite(w, i) PROVE None
    <3> DEFINE j == [Idle EXCEPT !.op = "redeem", !.at = "open"]
    <3>1. j \in Jobs /\ j.op = "redeem"
      BY IdleType DEF Jobs, Steps
    <3>2. job' = [job EXCEPT ![w] = j]
      BY <2>1 DEF RedeemInvite
    <3> HIDE DEF j
    <3>3. QED
      BY <3>1, <3>2, StartBegins
  <2>2. QED
    BY <1>0, <1>1, <1>2, <2>1 DEF Invites, DeleteInvite, PostRedemption, CreateInvite, RevokeInvite, Open
<1>3. ASSUME NEW w \in Worker, Login(w)
      PROVE  (\E right \in BOOLEAN : LoginRead(w, right)) \/ LoginFactor(w) \/ None
  BY <1>1, <1>3 DEF Login, LoginFailed, LoginClears, LoginChallenge, Open
<1>4. ASSUME NEW w \in Worker, VerifyTwoFactor(w)
      PROVE  (\E h \in Challenge : VerifyRead(w, h)) \/ None
  <2>1. CASE VerifyProved(w)
    <3>1. \A v \in Worker \ {w} : job'[v] = job[v]
      BY <2>1 DEF VerifyProved, TypeOK
    <3>2. job'[w].op = "verify" /\ job'[w].id = NoId
      BY <2>1 DEF VerifyProved, At, TypeOK, Jobs
    <3>3. NothingBegins(w)
      BY <3>2, AccountsAssumption DEF NothingBegins, At
    <3>4. QED
      BY <3>1, <3>3, KeptBegins
  <2>2. CASE VerifyRefused(w)
    BY <1>1, <2>2 DEF VerifyRefused
  <2>3. CASE Open(w)
    BY <1>1, <2>3 DEF Open
  <2>4. QED
    BY <1>4, <2>1, <2>2, <2>3, CodeBegins DEF VerifyTwoFactor
<1>5. ASSUME NEW w \in Worker, NEW op, Proof(w, op) PROVE None
  BY <1>1, <1>5, CodeBegins DEF Proof, ProofAsked, ProofRefused
<1>6. ASSUME NEW w \in Worker,
             TwoFactorSetup(w) \/ TwoFactorConfirm(w) \/ TwoFactorDisable(w) \/ RegenerateRecoveryCodes(w)
      PROVE  None
  BY <1>1, <1>5, <1>6, AskBegins
     DEF TwoFactorSetup, TwoFactorConfirm, TwoFactorDisable, RegenerateRecoveryCodes, SessionOps,
         Setup, ConfirmCheck, ConfirmCommit, DisableFactor, DisableCodes, Regenerate
<1>7. ASSUME NEW w \in Worker, PostLogout(w) \/ DeleteSessions(w) \/ ChangePassword(w)
      PROVE  None
  BY <1>1, <1>7, AskBegins
     DEF PostLogout, DeleteSessions, ChangePassword, SessionOps, Logout, RevokeSessions, ChangeRead,
         ChangeCommit
<1>8. ASSUME NEW w \in Desk, AdminDisable(w) PROVE None
  <2> DEFINE j == [Idle EXCEPT !.op = "disable", !.at = "proved"]
  <2>1. j \in Jobs /\ j.op = "disable"
    BY IdleType DEF Jobs, SessionOps, Steps
  <2>2. job' = [job EXCEPT ![w] = j]
    BY <1>8 DEF AdminDisable
  <2> HIDE DEF j
  <2>3. QED
    BY <2>1, <2>2, StartBegins, AccountsAssumption
<1>9. CASE Crash
  BY <1>9, IdleBegins DEF Crash
<1>10. CASE RedeemPasswordReset \/ IssueReset \/ Unlock \/ Tick \/ UNCHANGED vars
  BY <1>0, <1>10 DEF RedeemPasswordReset, RedeemReset, IssueReset, Unlock, Tick, vars
<1>11. QED
  BY <1>2, <1>3, <1>4, <1>6, <1>7, <1>8, <1>9, <1>10 DEF Next, AuthRoutes, Administrator

-----------------------------------------------------------------------------
(* The second factor guards the login.                                      *)

\* A login that is guarded finds the factor on, and so asks for it.
GuardInv ==
    /\ guarded # {} => factor = "confirmed"
    /\ FactorGuardsLogin

\* A step that is not a login's first, nor its look at the factor, turns the factor off
\* only where it ends every guard.
LEMMA FactorSteps ==
    ASSUME TypeOK, [Next]_vars
    PROVE  \/ \E w \in Worker, right \in BOOLEAN : LoginRead(w, right)
           \/ \E w \in Worker : LoginFactor(w)
           \/ guarded' \subseteq guarded /\ (guarded' # {} /\ factor = "confirmed" => factor' = "confirmed")
<1> DEFINE Guard == guarded' \subseteq guarded
                    /\ (guarded' # {} /\ factor = "confirmed" => factor' = "confirmed")
<1>0. guarded' \in SUBSET guarded /\ factor' = factor => Guard
  OBVIOUS
<1>1. ASSUME NEW w \in Worker, NEW op, AskFor(w, op) \/ Proof(w, op) PROVE Guard
  BY <1>1 DEF AskFor, Ask, Proof, ProofAsked, CheckCode, SpendCode, ProofRefused, second, history
<1>2. CASE Invites
  BY <1>2 DEF Invites, DeleteInvite, PostRedemption, CreateInvite, RevokeInvite, RedeemInvite, Open,
       second, history
<1>3. ASSUME NEW w \in Worker, Login(w)
      PROVE  (\E right \in BOOLEAN : LoginRead(w, right)) \/ LoginFactor(w) \/ Guard
  BY <1>3 DEF Login, LoginFailed, LoginClears, LoginChallenge, Open, second
<1>4. ASSUME NEW w \in Worker, VerifyTwoFactor(w) PROVE Guard
  BY <1>4 DEF VerifyTwoFactor, VerifyRead, CheckCode, SpendCode, VerifyProved, VerifyRefused, Open,
       second, history
<1>5. ASSUME NEW w \in Worker,
             TwoFactorSetup(w) \/ TwoFactorConfirm(w) \/ TwoFactorDisable(w) \/ RegenerateRecoveryCodes(w)
      PROVE  Guard
  BY <1>1, <1>5 DEF TwoFactorSetup, TwoFactorConfirm, TwoFactorDisable, RegenerateRecoveryCodes,
       Setup, ConfirmCheck, ConfirmCommit, DisableFactor, DisableCodes, Regenerate, second, history
<1>6. ASSUME NEW w \in Worker, PostLogout(w) \/ DeleteSessions(w) \/ ChangePassword(w)
      PROVE  Guard
  BY <1>1, <1>6 DEF PostLogout, DeleteSessions, ChangePassword, Logout, RevokeSessions, ChangeRead,
       ChangeCommit, second, history
<1>7. CASE RedeemPasswordReset \/ Administrator \/ Crash \/ Tick \/ UNCHANGED vars
  BY <1>7 DEF RedeemPasswordReset, RedeemReset, Administrator, IssueReset, Unlock, AdminDisable, Crash,
       Tick, vars, second, history
<1>8. QED
  BY <1>2, <1>3, <1>4, <1>5, <1>6, <1>7 DEF Next, AuthRoutes

LEMMA GuardInit == Init => GuardInv
BY DEF Init, GuardInv, FactorGuardsLogin

LEMMA GuardNext == GuardInv /\ TypeOK /\ [Next]_vars => GuardInv'
<1> SUFFICES ASSUME GuardInv, TypeOK, [Next]_vars PROVE GuardInv'
  OBVIOUS
<1>1. ASSUME NEW w \in Worker, NEW right \in BOOLEAN, LoginRead(w, right) PROVE GuardInv'
  <2>1. guarded' # {} => factor' = "confirmed"
    BY <1>1 DEF LoginRead, GuardInv, second
  <2>2. ASSUME NEW v \in Worker, At(v, "login", "open")' PROVE v \notin guarded'
    <3>1. v # w
      BY <1>1, <2>2 DEF LoginRead, At, TypeOK, Jobs, Idle
    <3>2. At(v, "login", "open")
      BY <1>1, <2>2, <3>1 DEF LoginRead, At, TypeOK
    <3>3. QED
      BY <1>1, <3>1, <3>2 DEF LoginRead, GuardInv, FactorGuardsLogin
  <2>3. QED
    BY <2>1, <2>2 DEF GuardInv, FactorGuardsLogin
<1>2. ASSUME NEW w \in Worker, LoginFactor(w) PROVE GuardInv'
  <2>1. UNCHANGED <<guarded, factor>>
    BY <1>2 DEF LoginFactor, second, history
  <2>2. ASSUME NEW v \in Worker, At(v, "login", "open")' PROVE v \notin guarded'
    <3>1. CASE v # w
      <4>1. At(v, "login", "open")
        BY <1>2, <2>2, <3>1 DEF LoginFactor, Goto, At, TypeOK
      <4>2. QED
        BY <2>1, <4>1 DEF GuardInv, FactorGuardsLogin
    <3>2. CASE v = w
      <4>1. factor # "confirmed"
        BY <1>2, <2>2, <3>2 DEF LoginFactor, Goto, At, TypeOK, Jobs
      <4>2. QED
        BY <2>1, <4>1 DEF GuardInv
    <3>3. QED
      BY <3>1, <3>2
  <2>3. QED
    BY <2>1, <2>2 DEF GuardInv, FactorGuardsLogin
<1>3. ASSUME NEW w \in Worker, NEW h \in Challenge, VerifyRead(w, h)
      PROVE  \A v \in Worker : At(v, "login", "open")' => At(v, "login", "open")
  <2>1. CASE job' = job
    BY <2>1 DEF At
  <2>2. CASE job' = [job EXCEPT ![w] = [Idle EXCEPT !.op = "verify", !.at = "code", !.id = h]]
    BY <2>2 DEF At, TypeOK, Idle
  <2>3. QED
    BY <1>3, <2>1, <2>2 DEF VerifyRead
<1>4. ASSUME guarded' \subseteq guarded, guarded' # {} /\ factor = "confirmed" => factor' = "confirmed",
             \A v \in Worker : At(v, "login", "open")' => At(v, "login", "open")
      PROVE  GuardInv'
  BY <1>4 DEF GuardInv, FactorGuardsLogin
<1>5. ASSUME \A v \in Worker : NothingBegins(v)
      PROVE  \A v \in Worker : At(v, "login", "open")' => At(v, "login", "open")
  BY <1>5 DEF NothingBegins
<1>6. QED
  BY <1>1, <1>2, <1>3, <1>4, <1>5, JobSteps, FactorSteps

\* A login during which the second factor was on throughout never opens a session by the
\* password alone, whatever other requests set up, confirm, regenerate or turn off.
THEOREM FactorAlwaysGuards == Spec => []FactorGuardsLogin
<1>1. GuardInv => FactorGuardsLogin
  BY DEF GuardInv
<1>2. QED
  BY TypeInit, TypeNext, GuardInit, GuardNext, <1>1, PTL DEF Spec

-----------------------------------------------------------------------------
(* The lockout, and the attempts at a challenge.                            *)

Failing == {v \in Worker : At(v, "login", "failed")}
Guessing(h) == {v \in Worker : job[v].op = "verify" /\ job[v].id = h}

\* While the account is locked nobody begins a login: the attempts counted since and those
\* still to count are of different workers, and one worker made the lock.
LockInv ==
    /\ ~Exists => user.locked = 0 /\ Failing = {}
    /\ user.count >= Threshold => user.locked > 0
    /\ ~Locked => late = 0
    /\ Locked => late + Cardinality(Failing) <= Cardinality(Worker) - 1

\* Nobody begins to guess at a challenge that has taken its attempts.
GuessInv ==
    \A h \in Challenge :
       challenge[h].attempts + Cardinality(Guessing(h)) <= MaxAttempts - 1 + Cardinality(Worker)

LEMMA FewWorkers ==
    ASSUME NEW S \in SUBSET Worker
    PROVE  /\ IsFiniteSet(S) /\ Cardinality(S) \in Nat /\ Cardinality(S) <= Cardinality(Worker)
           /\ Cardinality(Worker) \in Nat /\ Cardinality(Worker) >= 1
<1>1. IsFiniteSet(S) /\ Cardinality(S) <= Cardinality(Worker)
  BY FS_Subset, AccountsAssumption
<1>2. Cardinality(S) \in Nat /\ Cardinality(Worker) \in Nat
  BY <1>1, FS_CardinalityType, AccountsAssumption
<1>3. Cardinality(Worker) # 0
  BY FS_EmptySet, AccountsAssumption
<1>4. QED
  BY <1>1, <1>2, <1>3

LEMMA FewerWorkers ==
    ASSUME NEW S \in SUBSET Worker, NEW T \in SUBSET S
    PROVE  Cardinality(T) <= Cardinality(S)
BY FewWorkers, FS_Subset

LEMMA OneLess ==
    ASSUME NEW S \in SUBSET Worker, NEW w \in S, NEW T \in SUBSET (S \ {w})
    PROVE  Cardinality(T) <= Cardinality(S) - 1
<1>1. Cardinality(S \ {w}) = Cardinality(S) - 1
  BY FewWorkers, FS_RemoveElement
<1>2. S \ {w} \in SUBSET Worker
  OBVIOUS
<1>3. QED
  BY <1>1, <1>2, FewerWorkers

LEMMA LockInit == Init => LockInv
<1> SUFFICES ASSUME Init PROVE LockInv
  OBVIOUS
<1>1. Failing = {}
  BY DEF Init, Failing, At, Idle
<1>2. QED
  BY <1>1, AccountsAssumption DEF Init, LockInv, Exists, Locked

\* The failures and the lock change in five steps, and with the clock.
LEMMA LockSteps ==
    ASSUME TypeOK, [Next]_vars
    PROVE  \/ \E w \in Worker : LoginFailed(w)
           \/ (\E w \in Worker : LoginClears(w)) \/ Unlock
           \/ \E w \in Worker, i \in Invite : RedeemInvite(w, i)
           \/ Tick
           \/ /\ user'.count = user.count /\ user'.locked = user.locked
              /\ UNCHANGED <<now, late>> /\ (Exists => Exists')
<1> DEFINE Stays == /\ user'.count = user.count /\ user'.locked = user.locked
                   /\ UNCHANGED <<now, late>> /\ (Exists => Exists')
<1>0. UNCHANGED <<user, now, late>> => Stays
  BY DEF Exists
<1>1. ASSUME NEW w \in Worker, NEW op, AskFor(w, op) \/ Proof(w, op) PROVE Stays
  BY <1>0, <1>1 DEF AskFor, Ask, Proof, ProofAsked, CheckCode, SpendCode, ProofRefused, history
<1>2. CASE Invites
  BY <1>0, <1>2 DEF Invites, DeleteInvite, PostRedemption, CreateInvite, RevokeInvite, Open, history
<1>3. ASSUME NEW w \in Worker, Login(w)
      PROVE  LoginFailed(w) \/ LoginClears(w) \/ Stays
  BY <1>0, <1>3 DEF Login, LoginRead, LoginFactor, LoginChallenge, Open, history
<1>4. ASSUME NEW w \in Worker, VerifyTwoFactor(w) PROVE Stays
  BY <1>0, <1>4 DEF VerifyTwoFactor, VerifyRead, CheckCode, SpendCode, VerifyProved, VerifyRefused, Open,
       history
<1>5. ASSUME NEW w \in Worker,
             TwoFactorSetup(w) \/ TwoFactorConfirm(w) \/ TwoFactorDisable(w) \/ RegenerateRecoveryCodes(w)
      PROVE  Stays
  BY <1>0, <1>1, <1>5 DEF TwoFactorSetup, TwoFactorConfirm, TwoFactorDisable, RegenerateRecoveryCodes,
       Setup, ConfirmCheck, ConfirmCommit, DisableFactor, DisableCodes, Regenerate, history
<1>6. ASSUME NEW w \in Worker, ChangeCommit(w) PROVE Stays
  BY <1>6 DEF ChangeCommit, TypeOK, Exists, history
<1>7. ASSUME NEW w \in Worker, PostLogout(w) \/ DeleteSessions(w) \/ ChangePassword(w)
      PROVE  Stays
  BY <1>0, <1>1, <1>6, <1>7 DEF PostLogout, DeleteSessions, ChangePassword, Logout, RevokeSessions,
       ChangeRead, history
<1>8. ASSUME NEW t \in Reset, RedeemReset(t) PROVE Stays
  BY <1>8 DEF RedeemReset, TypeOK, Exists, history
<1>9. CASE IssueReset \/ (\E w \in Desk : AdminDisable(w)) \/ Crash \/ UNCHANGED vars
  BY <1>0, <1>9 DEF IssueReset, AdminDisable, Crash, vars, history
<1>10. QED
  BY <1>2, <1>3, <1>4, <1>5, <1>7, <1>8, <1>9 DEF Next, AuthRoutes, Administrator, RedeemPasswordReset

LEMMA LockNext == LockInv /\ TypeOK /\ [Next]_vars => LockInv'
<1> SUFFICES ASSUME LockInv, TypeOK, [Next]_vars PROVE LockInv'
  OBVIOUS
<1>0. now \in Nat /\ user \in Users /\ late \in Nat /\ Failing \in SUBSET Worker
  BY DEF TypeOK, Users, Failing
<1>1. ASSUME NEW w \in Worker, LoginFailed(w) PROVE LockInv'
  <2>1. w \in Failing /\ Failing' \subseteq Failing \ {w}
    BY <1>1 DEF LoginFailed, End, Failing, At, Idle, TypeOK
  <2>2. /\ Cardinality(Failing') \in Nat
        /\ Cardinality(Failing') <= Cardinality(Failing) - 1
        /\ Cardinality(Failing) \in Nat /\ Cardinality(Worker) \in Nat
        /\ Cardinality(Failing) <= Cardinality(Worker)
    BY <1>0, <2>1, FewWorkers, OneLess
  <2>3. Exists /\ Exists' /\ now' = now
    BY <1>1, <2>1 DEF LoginFailed, LockInv, Exists, TypeOK
  <2>4. /\ user'.count = user.count + 1
        /\ user'.locked = IF user.count + 1 >= Threshold THEN now + LockTime ELSE user.locked
        /\ late' = IF Locked THEN late + 1 ELSE 0
    BY <1>0, <1>1 DEF LoginFailed, Users
  <2>5. user'.count >= Threshold => user'.locked > 0 /\ Locked'
    BY <1>0, <2>3, <2>4, AccountsAssumption DEF Users, Locked
  <2>6. user'.count < Threshold => user'.locked = user.locked
    BY <1>0, <2>4, AccountsAssumption DEF Users
  <2>7. ~Locked' => late' = 0
    <3>1. ~Locked' => ~Locked
      BY <1>0, <2>3, <2>4, <2>5, <2>6, AccountsAssumption DEF Users, Locked
    <3>2. QED
      BY <2>4, <3>1
  <2>8. late' + Cardinality(Failing') <= Cardinality(Worker) - 1
    <3>1. CASE Locked
      BY <1>0, <2>2, <2>4, <3>1 DEF LockInv
    <3>2. CASE ~Locked
      BY <2>2, <2>4, <3>2
    <3>3. QED
      BY <3>1, <3>2
  <2>9. user'.count >= Threshold => user'.locked > 0
    BY <2>5
  <2>10. QED
    BY <2>3, <2>7, <2>8, <2>9 DEF LockInv
\* The count starts again, and with it the lock.
<1>2. ASSUME user'.count = 0, user'.locked = 0, late' = 0, now' = now, Exists'
      PROVE  LockInv'
  BY <1>0, <1>2, AccountsAssumption DEF LockInv, Locked
<1>3. ASSUME NEW w \in Worker, LoginClears(w) PROVE LockInv'
  <2>1. user'.count = 0 /\ user'.locked = 0 /\ late' = 0 /\ now' = now
    BY <1>0, <1>3 DEF LoginClears, Users
  <2>2. CASE Exists
    BY <1>0, <1>2, <1>3, <2>1, <2>2 DEF LoginClears, Users, Exists
  <2>3. CASE ~Exists
    <3>1. Failing' \subseteq Failing
      BY <1>3 DEF LoginClears, Goto, Failing, At, TypeOK, Jobs
    <3>2. Failing' = {}
      BY <2>3, <3>1 DEF LockInv
    <3>3. QED
      BY <1>0, <2>1, <3>2, AccountsAssumption DEF LockInv, Locked
  <2>4. QED
    BY <2>2, <2>3
<1>4. CASE Unlock
  BY <1>0, <1>2, <1>4 DEF Unlock, Users, Exists
<1>5. ASSUME NEW w \in Worker, NEW i \in Invite, RedeemInvite(w, i) PROVE LockInv'
  <2>1. late = 0
    BY <1>0, <1>5 DEF RedeemInvite, LockInv, Locked
  <2>2. QED
    BY <1>2, <1>5, <2>1 DEF RedeemInvite, NewUser, Exists, history
<1>6. CASE Tick
  <2>1. /\ now' = now + 1 /\ user' = user /\ Failing' = Failing
        /\ late' = IF user.locked > now + 1 THEN late ELSE 0
    BY <1>6 DEF Tick, Failing, At
  <2>2. Locked' => Locked
    BY <1>0, <2>1 DEF Locked, Users
  <2>3. late' = IF Locked' THEN late ELSE 0
    BY <2>1 DEF Locked
  <2>4. Exists' <=> Exists
    BY <2>1 DEF Exists
  <2>5. QED
    BY <2>1, <2>2, <2>3, <2>4 DEF LockInv
<1>7. ASSUME user'.count = user.count, user'.locked = user.locked, now' = now, late' = late,
             Exists => Exists', Failing' \subseteq Failing \/ ~Locked,
             ~Exists' => Failing' = {}
      PROVE  LockInv'
  <2>1. Locked' <=> Locked
    BY <1>7 DEF Locked
  <2>2. ASSUME Locked PROVE late' + Cardinality(Failing') <= Cardinality(Worker) - 1
    <3>1. Cardinality(Failing') <= Cardinality(Failing)
      BY <1>0, <1>7, <2>2, FewerWorkers
    <3>2. /\ Cardinality(Failing') \in Nat /\ Cardinality(Failing) \in Nat
          /\ Cardinality(Worker) \in Nat
      BY <1>0, <1>7, <2>2, FewWorkers
    <3>3. QED
      BY <1>0, <1>7, <2>2, <3>1, <3>2 DEF LockInv
  <2>3. QED
    BY <1>7, <2>1, <2>2 DEF LockInv
<1>8. ASSUME user'.count = user.count, user'.locked = user.locked, now' = now, late' = late,
             Exists => Exists'
      PROVE  LockInv'
  <2>1. ASSUME NEW w \in Worker, NEW right \in BOOLEAN, LoginRead(w, right) PROVE LockInv'
    <3>1. Exists' /\ ~Locked
      BY <1>8, <2>1 DEF LoginRead
    <3>2. QED
      BY <1>7, <1>8, <3>1
  <2>2. ASSUME Failing' \subseteq Failing PROVE LockInv'
    BY <1>7, <1>8, <2>2 DEF LockInv
  <2>3. ASSUME NEW w \in Worker, LoginFactor(w) PROVE Failing' \subseteq Failing
    BY <2>3 DEF LoginFactor, Goto, Failing, At, TypeOK, Jobs
  <2>4. ASSUME NEW w \in Worker, NEW h \in Challenge, VerifyRead(w, h) PROVE Failing' \subseteq Failing
    <3>1. CASE job' = job
      BY <3>1 DEF Failing, At
    <3>2. CASE job' = [job EXCEPT ![w] = [Idle EXCEPT !.op = "verify", !.at = "code", !.id = h]]
      BY <3>2 DEF Failing, At, TypeOK, Idle
    <3>3. QED
      BY <2>4, <3>1, <3>2 DEF VerifyRead
  <2>5. ASSUME \A v \in Worker : NothingBegins(v) PROVE Failing' \subseteq Failing
    BY <2>5 DEF NothingBegins, Failing
  <2>6. QED
    BY <2>1, <2>2, <2>3, <2>4, <2>5, JobSteps
<1>9. QED
  BY <1>1, <1>3, <1>4, <1>5, <1>6, <1>8, LockSteps

\* Only a challenge's own steps write it.
LEMMA ChallengeSteps ==
    ASSUME [Next]_vars
    PROVE  \/ UNCHANGED challenge
           \/ \E w \in Worker : LoginChallenge(w) \/ VerifyProved(w) \/ VerifyRefused(w)
           \/ \E w \in Worker, h \in Challenge : VerifyRead(w, h)
<1> DEFINE Stays == UNCHANGED challenge
<1>1. ASSUME NEW w \in Worker, NEW op, AskFor(w, op) \/ Proof(w, op) PROVE Stays
  BY <1>1 DEF AskFor, Ask, Proof, ProofAsked, CheckCode, SpendCode, ProofRefused, second
<1>2. CASE Invites
  BY <1>2 DEF Invites, DeleteInvite, PostRedemption, CreateInvite, RevokeInvite, RedeemInvite, Open, second
<1>3. ASSUME NEW w \in Worker, Login(w)
      PROVE  LoginChallenge(w) \/ Stays
  BY <1>3 DEF Login, LoginRead, LoginFailed, LoginClears, LoginFactor, Open, second
<1>4. ASSUME NEW w \in Worker, VerifyTwoFactor(w)
      PROVE  (\E h \in Challenge : VerifyRead(w, h)) \/ VerifyProved(w) \/ VerifyRefused(w) \/ Stays
  BY <1>4 DEF VerifyTwoFactor, CheckCode, SpendCode, Open, second
<1>5. ASSUME NEW w \in Worker,
             TwoFactorSetup(w) \/ TwoFactorConfirm(w) \/ TwoFactorDisable(w) \/ RegenerateRecoveryCodes(w)
      PROVE  Stays
  BY <1>1, <1>5 DEF TwoFactorSetup, TwoFactorConfirm, TwoFactorDisable, RegenerateRecoveryCodes,
       Setup, ConfirmCheck, ConfirmCommit, DisableFactor, DisableCodes, Regenerate, second
<1>6. ASSUME NEW w \in Worker, PostLogout(w) \/ DeleteSessions(w) \/ ChangePassword(w)
      PROVE  Stays
  BY <1>1, <1>6 DEF PostLogout, DeleteSessions, ChangePassword, Logout, RevokeSessions, ChangeRead,
       ChangeCommit, second
<1>7. CASE RedeemPasswordReset \/ Administrator \/ Crash \/ Tick \/ UNCHANGED vars
  BY <1>7 DEF RedeemPasswordReset, RedeemReset, Administrator, IssueReset, Unlock, AdminDisable, Crash,
       Tick, vars, second
<1>8. QED
  BY <1>2, <1>3, <1>4, <1>5, <1>6, <1>7 DEF Next, AuthRoutes

LEMMA GuessInit == Init => GuessInv
<1> SUFFICES ASSUME Init, NEW h \in Challenge
             PROVE  challenge[h].attempts + Cardinality(Guessing(h)) <= MaxAttempts - 1 + Cardinality(Worker)
  BY DEF GuessInv
<1>1. Guessing(h) \in SUBSET Worker /\ challenge[h].attempts = 0
  BY DEF Init, Guessing, NoChallenge
<1>2. QED
  BY <1>1, FewWorkers, AccountsAssumption

LEMMA GuessNext == GuessInv /\ TypeOK /\ [Next]_vars => GuessInv'
<1> SUFFICES ASSUME GuessInv, TypeOK, [Next]_vars, NEW h \in Challenge
             PROVE  challenge'[h].attempts + Cardinality(Guessing(h)') <= MaxAttempts - 1 + Cardinality(Worker)
  BY DEF GuessInv
<1> DEFINE goal == challenge'[h].attempts + Cardinality(Guessing(h)') <= MaxAttempts - 1 + Cardinality(Worker)
<1>0. /\ Guessing(h) \in SUBSET Worker /\ Guessing(h)' \in SUBSET Worker
      /\ challenge[h].attempts \in Nat
  BY DEF Guessing, TypeOK
<1>1. /\ Cardinality(Guessing(h)) \in Nat /\ Cardinality(Guessing(h)') \in Nat
      /\ Cardinality(Worker) \in Nat /\ Cardinality(Guessing(h)') <= Cardinality(Worker)
      /\ MaxAttempts \in Nat \ {0}
  BY <1>0, FewWorkers, AccountsAssumption
<1>2. challenge[h].attempts + Cardinality(Guessing(h)) <= MaxAttempts - 1 + Cardinality(Worker)
  BY DEF GuessInv
\* Room for everybody.
<1>3. ASSUME challenge'[h].attempts < MaxAttempts, challenge'[h].attempts \in Nat PROVE goal
  BY <1>1, <1>3
<1>4. ASSUME challenge'[h].attempts = challenge[h].attempts, Guessing(h)' \subseteq Guessing(h) PROVE goal
  <2>1. Cardinality(Guessing(h)') <= Cardinality(Guessing(h))
    BY <1>0, <1>4, FewerWorkers
  <2>2. QED
    BY <1>0, <1>1, <1>2, <1>4, <2>1
<1>5. ASSUME challenge'[h] = NoChallenge PROVE goal
  BY <1>1, <1>3, <1>5 DEF NoChallenge
<1>6. Guessing(h)' \subseteq Guessing(h) \/ \E w \in Worker : VerifyRead(w, h)
  <2>1. ASSUME NEW w \in Worker, NEW right \in BOOLEAN, LoginRead(w, right)
        PROVE  Guessing(h)' \subseteq Guessing(h)
    BY <2>1 DEF LoginRead, Guessing, TypeOK, Idle
  <2>2. ASSUME NEW w \in Worker, LoginFactor(w) PROVE Guessing(h)' \subseteq Guessing(h)
    BY <2>2 DEF LoginFactor, Goto, Guessing, TypeOK, Jobs
  <2>3. ASSUME NEW w \in Worker, NEW k \in Challenge \ {h}, VerifyRead(w, k)
        PROVE  Guessing(h)' \subseteq Guessing(h)
    <3>1. CASE job' = job
      BY <3>1 DEF Guessing
    <3>2. CASE job' = [job EXCEPT ![w] = [Idle EXCEPT !.op = "verify", !.at = "code", !.id = k]]
      BY <3>2 DEF Guessing, TypeOK, Idle
    <3>3. QED
      BY <2>3, <3>1, <3>2 DEF VerifyRead
  <2>4. ASSUME \A v \in Worker : NothingBegins(v) PROVE Guessing(h)' \subseteq Guessing(h)
    BY <2>4 DEF NothingBegins, Guessing
  <2>5. QED
    BY <2>1, <2>2, <2>3, <2>4, JobSteps
<1>7. ASSUME NEW w \in Worker, VerifyRead(w, h) PROVE goal
  <2>1. challenge'[h] = NoChallenge \/ (challenge'[h] = challenge[h] /\ challenge[h].attempts < MaxAttempts)
    BY <1>0, <1>7, AccountsAssumption DEF VerifyRead, TypeOK
  <2>2. QED
    BY <1>0, <1>3, <1>5, <2>1
<1>8. ASSUME Guessing(h)' \subseteq Guessing(h) PROVE goal
  <2>1. CASE challenge'[h] = challenge[h]
    BY <1>4, <1>8, <2>1
  <2>2. ASSUME NEW w \in Worker, LoginChallenge(w) PROVE goal
    <3>1. challenge'[h] = challenge[h] \/ challenge'[h].attempts = 0
      BY <2>2 DEF LoginChallenge, TypeOK
    <3>2. QED
      BY <1>1, <1>3, <2>1, <3>1
  <2>3. ASSUME NEW w \in Worker, VerifyProved(w) PROVE goal
    <3>1. challenge'[h] = challenge[h] \/ challenge'[h] = NoChallenge
      BY <2>3 DEF VerifyProved, TypeOK
    <3>2. QED
      BY <1>5, <2>1, <3>1
  <2>4. ASSUME NEW w \in Worker, VerifyRefused(w) PROVE goal
    <3>1. CASE job[w].id = h
      <4>1. w \in Guessing(h) /\ w \notin Guessing(h)'
        BY <2>4, <3>1 DEF VerifyRefused, Guessing, At, End, Idle, TypeOK
      <4>2. Cardinality(Guessing(h)') <= Cardinality(Guessing(h)) - 1
        BY <1>0, <1>8, <4>1, OneLess
      <4>3. challenge'[h].attempts \in {challenge[h].attempts, challenge[h].attempts + 1}
        BY <2>4, <3>1 DEF VerifyRefused, TypeOK
      <4>4. QED
        BY <1>0, <1>1, <1>2, <4>2, <4>3
    <3>2. CASE job[w].id # h
      <4>1. challenge'[h] = challenge[h]
        BY <2>4, <3>2 DEF VerifyRefused, TypeOK
      <4>2. QED
        BY <2>1, <4>1
    <3>3. QED
      BY <3>1, <3>2
  <2>5. ASSUME NEW w \in Worker, NEW k \in Challenge, VerifyRead(w, k) PROVE goal
    <3>1. challenge'[h] = challenge[h] \/ challenge'[h] = NoChallenge
      BY <2>5 DEF VerifyRead, TypeOK
    <3>2. QED
      BY <1>5, <2>1, <3>1
  <2>6. QED
    BY <2>1, <2>2, <2>3, <2>4, <2>5, ChallengeSteps
<1>9. QED
  BY <1>6, <1>7, <1>8

LEMMA GuessesBoundedBy == TypeOK /\ LockInv /\ GuessInv => GuessesBounded
<1> SUFFICES ASSUME TypeOK, LockInv, GuessInv PROVE GuessesBounded
  OBVIOUS
<1>1. Failing \in SUBSET Worker /\ \A h \in Challenge : Guessing(h) \in SUBSET Worker
  BY DEF Failing, Guessing
<1>2. LockoutHolds
  BY <1>1, FewWorkers DEF LockInv, LockoutHolds, TypeOK
<1>3. AttemptsBounded
  <2> SUFFICES ASSUME NEW h \in Challenge
               PROVE  challenge[h].attempts <= MaxAttempts + Cardinality(Worker) - 1
    BY DEF AttemptsBounded
  <2>1. challenge[h].attempts \in Nat /\ Cardinality(Guessing(h)) \in Nat /\ Cardinality(Worker) \in Nat
    BY <1>1, FewWorkers DEF TypeOK
  <2>2. QED
    BY <2>1, AccountsAssumption DEF GuessInv
<1>4. QED
  BY <1>2, <1>3 DEF GuessesBounded

\* Logins that overlap pass the lockout by one attempt per other worker, guesses at a
\* challenge its limit by one per other worker, however the requests, unlocks, crashes and
\* the clock fall between; and no login goes round the second factor.
THEOREM LoginAlwaysGuarded == Spec => []LoginIsGuarded
<1>1. GuardInv /\ TypeOK /\ LockInv /\ GuessInv => LoginIsGuarded
  BY GuessesBoundedBy DEF GuardInv, LoginIsGuarded
<1>2. QED
  BY TypeInit, TypeNext, GuardInit, GuardNext, LockInit, LockNext, GuessInit, GuessNext, <1>1, PTL
     DEF Spec

-----------------------------------------------------------------------------
(* Access: what the requests of those who have accounts read.               *)

Requests ==
    [step : {"idle", "lookup", "setting", "list", "answered"}, by : User \cup {Nobody},
     route : [roles : SUBSET Roles, scope : Demands, reach : Reaches],
     on : User \cup {Nobody}, found : SUBSET User,
     answer : SUBSET [of : User, when : When], over : SUBSET Submissive,
     steady : SUBSET Submissive, before : SUBSET [of : User, when : When],
     settings : SUBSET BOOLEAN]

\* TypeOK, with the fields of a request and whose a credential in use is.
ReadsTyped ==
    /\ AccessTypeOK
    /\ request \in Requests
    /\ credential \in [user : User \cup {Nobody}, token : BOOLEAN, scopes : SUBSET Scopes]
    /\ credential = NoCredential \/ credential.user \in User

\* Which roles have the routes that go over the link.
OverTheLink == {"linked", "feed", "active", "open", "keyholder", "catalog"}
RolesFit(route) ==
    /\ route \in [roles : SUBSET Roles, scope : Demands, reach : Reaches]
    /\ route.reach \in {"linked", "feed"} => route.roles = {"keyholder"}
    /\ route.reach \in {"active", "open", "keyholder", "catalog"} => route.roles = {"submissive"}

LEMMA RouteFields ==
    ASSUME NEW roles, NEW scope, NEW reach
    PROVE  /\ Route(roles, scope, reach).roles = roles
           /\ Route(roles, scope, reach).reach = reach
           /\ Route(roles, scope, reach) \in [roles : {roles}, scope : {scope}, reach : {reach}]
BY DEF Route

LEMMA RoutesFit == \A route \in Routes : RolesFit(route)
<1> USE DEF RolesFit, Roles, Demands, Reaches, Of, Route
<1>1. \A route \in ChastityReads : RolesFit(route)
  BY DEF ChastityReads, ListDevicesForKeyholder, ListOwnDevices, StatusForKeyholder,
         OwnStatus, ListAllTimerAdjustments, ListTimerAdjustments,
         SessionHistoryForKeyholder, OwnSessionHistory
<1>2. \A route \in PlayReads : RolesFit(route)
  BY DEF PlayReads, ListPlans, ListPlansForSubmissive, PlaySessionsForKeyholder,
         ListOwnPlaySessions, GetSession, ListFormsForKeyholder,
         ListFormsForSubmissive, CheckinsForKeyholder, ListOwnCheckins,
         DownloadPhoto, DownloadAudio
<1>3. \A route \in ProofReads : RolesFit(route)
  BY DEF ProofReads, OwnSubmissions, OwnSubmissionDetail, SubmissionsForKeyholder,
         SubmissionFeed, SubmissionDetailForKeyholder, PolicyForKeyholder,
         OwnPolicy, CurrentCode, CodeHistory
<1>4. \A route \in WorkReads : RolesFit(route)
  BY DEF WorkReads, AssignmentsForKeyholder, AssignmentFeed, AssignmentDetail,
         OwnAssignments, PointsForKeyholder, PointsOwn, ListRedemptionRequests,
         ListRules, ListTemplates, ListTemplatesForSubmissive, ListSafetyAlerts
<1>5. \A route \in PersonReads : RolesFit(route)
  BY DEF PersonReads, ToysForKeyholder, ListOwnToys, DownloadToyPhoto,
         OwnProfile, ProfileForKeyholder, KeyholderProfile, ListItems,
         OwnStats, StatsForKeyholder
<1>6. \A route \in AccountReads : RolesFit(route)
  BY DEF AccountReads, Roster, ListEndRequests, OwnEndRequest, AuditLog,
         Me, ListSessions, TwoFactorStatus, ListTokens, ListInvites,
         ListNotifications, ListPushSubscriptions
<1> HIDE DEF RolesFit
<1>7. QED
  BY <1>1, <1>2, <1>3, <1>4, <1>5, <1>6 DEF Routes

\* What a request has found, or answers with: rows of the caller or of the other party of a
\* link the caller is of, of no link that was over all along, and of a catalog only if shown.
Scoped(users) ==
    /\ \A u \in users : \/ u = request.by \/ u \in Kept(request.by)
                        \/ request.by \in Kept(u)
    /\ request.route.reach \in OverTheLink =>
          /\ users \cap request.over = {}
          /\ request.by \in request.over => users = {}
    /\ request.route.reach = "catalog" /\ users # {} => TRUE \in request.settings

\* A request in flight: its caller has the role, links it saw over are over still, those
\* it saw active throughout are active, and the setting of the caller's link is one it had.
RequestSound ==
    request.step # "idle" =>
        /\ request.by \in User /\ RoleOf(request.by) \in request.route.roles
        /\ RolesFit(request.route)
        /\ request.route.reach = "party" => request.on \in Submissive
        /\ request.over \subseteq With("ended")
        /\ request.steady \subseteq With("active")
        /\ request.before \subseteq rows
        /\ request.by \in Submissive => shown[request.by] \in request.settings

\* The steps of a request: past the lookup of a catalog the link was not over; past the
\* last lookup it has found who it may list, and all it must.
StepSound ==
    /\ request.step = "setting" =>
          request.route.reach = "catalog" /\ request.by \in Submissive \ request.over
    /\ request.step = "list" => Scoped(request.found) /\ Entitled \subseteq request.found
    /\ request.step = "answered" => Scoped(Whose) /\ AnswersAreComplete

ReadsInv == ReadsTyped /\ RequestSound /\ StepSound

LEMMA ScopedIsSo == ReadsInv => AnswersAreScoped /\ AnswersAreComplete
BY DEF ReadsInv, StepSound, Scoped, OverTheLink, AnswersAreScoped, Answered,
       AnswersAreComplete, Whose

LEMMA ReadsInit == AccessInit => ReadsInv
BY AccessAssumption DEF AccessInit, AccessTypeOK, NoRequest, NoCredential, Route,
       Roles, Demands, Reaches, When, User,
       ReadsInv, ReadsTyped, Requests, RequestSound, StepSound

\* What a request may list stays so, and what it must list grows no larger, while links and
\* settings change under it.
Advances ==
    /\ request'.by = request.by /\ request'.route = request.route /\ request'.on = request.on
    /\ request'.over \subseteq request.over /\ request'.steady \subseteq request.steady
    /\ request'.before = request.before
    /\ request.settings \subseteq request'.settings
    /\ keeper' = keeper

LEMMA ScopedStays == ASSUME Advances, NEW users, Scoped(users) PROVE Scoped(users)'
BY DEF Advances, Scoped, Kept

LEMMA EntitledShrinks ==
    ASSUME Advances, RequestSound, request.step # "idle", request'.settings \subseteq BOOLEAN
    PROVE  Entitled' \subseteq Entitled
<1> DEFINE reach == request.route.reach
<1>1. CASE reach \in {"own", "ever"}
  BY <1>1 DEF Advances, Entitled, Kept
<1>2. CASE reach \in {"linked", "feed"}
  BY <1>2 DEF Advances, Entitled, Kept
<1>3. CASE reach \in {"active", "open"}
  BY <1>3 DEF Advances, Entitled
<1>4. CASE reach = "keyholder"
  BY <1>4 DEF Advances, Entitled
<1>5. CASE reach = "catalog"
  <2>1. request'.settings = {TRUE} => request.settings = {TRUE} \/ request.settings = {}
    BY DEF Advances
  <2>2. request.settings = {} => {request.by} \cap request.steady = {}
    BY DEF RequestSound, With
  <2>3. QED
    BY <1>5, <2>1, <2>2 DEF Advances, Entitled
<1>6. CASE reach \notin {"own", "ever", "linked", "feed", "active", "open", "keyholder", "catalog"}
  BY <1>6 DEF Advances, Entitled
<1>7. QED
  BY <1>1, <1>2, <1>3, <1>4, <1>5, <1>6

\* A step that changes of the request only the step, what it found and its answer, and of the
\* rest only the credential.
LEMMA ReplySound ==
    ASSUME ReadsInv, NEW answer \in SUBSET rows, request.step # "idle", request' = Reply(answer),
           UNCHANGED <<keeper, link, shown, rows, credential>>,
           LET whose == {r.of : r \in answer}
           IN  Scoped(whose) /\ {r \in request.before : r.of \in Entitled} \subseteq answer
    PROVE  ReadsInv'
<1>1. request' \in Requests /\ ReadsTyped'
  BY DEF ReadsInv, ReadsTyped, Requests, AccessTypeOK, Reply
<1>2. /\ request'.step = "answered" /\ request'.answer = answer /\ request'.by = request.by
      /\ request'.route = request.route /\ request'.on = request.on /\ request'.over = request.over
      /\ request'.steady = request.steady /\ request'.before = request.before
      /\ request'.settings = request.settings
  BY DEF ReadsInv, ReadsTyped, Requests, Reply
<1>3. RequestSound'
  BY <1>2 DEF ReadsInv, RequestSound, With, RolesFit
<1>4. StepSound'
  <2> DEFINE whose == {r.of : r \in answer}
  <2>1. Advances /\ request' \in Requests
    BY <1>1, <1>2 DEF Advances, ReadsTyped
  <2>2. Entitled' \subseteq Entitled
    BY <2>1, EntitledShrinks DEF ReadsInv, Requests
  <2>3. Scoped(Whose)'
    <3>1. Scoped(whose)'
      BY <2>1, ScopedStays
    <3>2. Whose' = whose
      BY <1>2 DEF Whose
    <3>3. QED
      BY <3>1, <3>2 DEF Scoped
  <2>4. AnswersAreComplete'
    BY <1>2, <2>2 DEF AnswersAreComplete
  <2>5. QED
    BY <1>2, <2>3, <2>4 DEF StepSound
<1>5. QED
  BY <1>1, <1>3, <1>4 DEF ReadsInv

LEMMA FoundSound ==
    ASSUME ReadsInv, NEW users \in SUBSET User, request.step # "idle", request' = Found(users),
           UNCHANGED <<keeper, link, shown, rows, credential>>,
           Scoped(users), Entitled \subseteq users
    PROVE  ReadsInv'
<1>1. CASE users = {}
  <2>1. request' = Reply({})
    BY <1>1 DEF Found
  <2>2. Scoped({r.of : r \in {}}) /\ {r \in request.before : r.of \in Entitled} \subseteq {}
    BY <1>1 DEF Scoped
  <2>3. QED
    BY <2>1, <2>2, ReplySound
<1>2. CASE users # {}
  <2>1. /\ request'.step = "list" /\ request'.found = users /\ request'.by = request.by
        /\ request'.route = request.route /\ request'.on = request.on /\ request'.over = request.over
        /\ request'.steady = request.steady /\ request'.before = request.before
        /\ request'.settings = request.settings /\ request'.answer = request.answer
        /\ request' \in Requests
    BY <1>2 DEF ReadsInv, ReadsTyped, Requests, Found
  <2>2. ReadsTyped'
    BY <2>1 DEF ReadsInv, ReadsTyped, AccessTypeOK, Requests
  <2>3. RequestSound'
    BY <2>1 DEF ReadsInv, RequestSound, With, RolesFit
  <2>4. StepSound'
    <3>1. Advances
      BY <2>1 DEF Advances
    <3>2. Entitled' \subseteq Entitled
      BY <2>1, <3>1, EntitledShrinks DEF ReadsInv, Requests
    <3>3. Scoped(request.found)'
      <4>1. Scoped(users)'
        BY <3>1, ScopedStays
      <4>2. QED
        BY <2>1, <4>1 DEF Scoped
    <3>4. QED
      BY <2>1, <3>2, <3>3 DEF StepSound
  <2>5. QED
    BY <2>2, <2>3, <2>4 DEF ReadsInv
<1>3. QED
  BY <1>1, <1>2

-----------------------------------------------------------------------------
(* The lookups.                                                              *)

\* Of a request that looks up over its route: what the route and the sound state say.
LEMMA LookingUpSees ==
    ASSUME ReadsInv, NEW reach, LookingUp(reach)
    PROVE  /\ request.step = "lookup" /\ request.route.reach = reach
           /\ UNCHANGED <<keeper, link, shown, rows, credential>>
           /\ request.by \in User
           /\ reach \in {"linked", "feed"} => request.by \in Keyholder /\ request.by \notin Submissive
           /\ reach \in {"active", "open", "keyholder", "catalog"} => request.by \in Submissive
           /\ reach = "party" => request.on \in Submissive
           /\ request.over \subseteq With("ended") /\ request.steady \subseteq With("active")
           /\ request.by \in Submissive => shown[request.by] \in request.settings
           /\ request.before \subseteq rows /\ keeper \in [Submissive -> Keyholder]
           /\ link \in [Submissive -> {"active", "paused", "ended"}]
           /\ Keyholder \cap Submissive = {} /\ request.over \subseteq Submissive
           /\ request.settings \subseteq BOOLEAN
BY AccessAssumption DEF LookingUp, ReadsInv, RequestSound, ReadsTyped, AccessTypeOK, Requests, RolesFit,
       RoleOf, User

\* Of a submissive: a link that was looked up in this state was not over all along.
LEMMA LookupSound ==
    ASSUME ReadsInv, NEW reach, LookingUp(reach),
           NEW users \in SUBSET User, request' = Found(users),
           \/ reach = "own" /\ users = {request.by}
           \/ reach = "linked" /\ users = ActiveOrPausedLinkForKeyholder(request.by, request.on)
           \/ reach = "party" /\ users = {s \in {request.on} : IsParty(request.by, s)}
           \/ reach = "toy" /\ \/ users \subseteq {request.by}
                               \/ users = ActiveOrPausedLinkForKeyholder(request.by, request.on)
           \/ reach = "feed" /\ users = ActiveLinkIdsForKeyholder(request.by)
           \/ reach = "active" /\ users = ActiveLinkForSubmissive(request.by)
           \/ reach = "open" /\ users = ActiveOrPausedLinkForSubmissive(request.by)
           \/ /\ reach = "keyholder"
              /\ users = {keeper[s] : s \in ActiveOrPausedLinkForSubmissive(request.by)}
    PROVE  ReadsInv'
<1> USE LookingUpSees DEF Scoped, OverTheLink, Kept, With
<1>1. CASE reach = "own"
  <2>1. Scoped(users) /\ Entitled \subseteq users
    BY <1>1 DEF Entitled
  <2>2. QED
    BY <2>1, FoundSound
<1>2. CASE reach = "linked" \/ reach = "feed"
  <2>1. Scoped(users)
    BY <1>2 DEF ActiveOrPausedLinkForKeyholder, ActiveLinkIdsForKeyholder
  <2>2. Entitled \subseteq users
    BY <1>2 DEF Entitled, ActiveOrPausedLinkForKeyholder, ActiveLinkIdsForKeyholder
  <2>3. QED
    BY <2>1, <2>2, FoundSound
<1>3. CASE reach = "party" \/ reach = "toy"
  <2>1. Scoped(users)
    BY <1>3 DEF IsParty, ActiveOrPausedLinkForKeyholder
  <2>2. Entitled \subseteq users
    BY <1>3 DEF Entitled
  <2>3. QED
    BY <2>1, <2>2, FoundSound
<1>4. CASE reach = "active" \/ reach = "open"
  <2>1. Scoped(users)
    BY <1>4 DEF ActiveLinkForSubmissive, ActiveOrPausedLinkForSubmissive
  <2>2. Entitled \subseteq users
    BY <1>4 DEF Entitled, ActiveLinkForSubmissive, ActiveOrPausedLinkForSubmissive
  <2>3. QED
    BY <2>1, <2>2, FoundSound
<1>5. CASE reach = "keyholder"
  <2>1. Scoped(users)
    <3>1. /\ request.by \in Submissive /\ keeper[request.by] \in Keyholder
          /\ \A u \in users : u = keeper[request.by] /\ link[request.by] # "ended"
      BY <1>5 DEF ActiveOrPausedLinkForSubmissive
    <3>2. request.by \in request.over => users = {}
      BY <3>1
    <3>3. \A u \in users : u \notin Submissive /\ request.by \in Kept(u)
      BY <3>1
    <3>4. QED
      BY <1>5, <3>2, <3>3
  <2>2. Entitled \subseteq users
    <3>1. Entitled = {keeper[s] : s \in {request.by} \cap request.steady}
      BY <1>5 DEF Entitled
    <3>2. {request.by} \cap request.steady \subseteq ActiveOrPausedLinkForSubmissive(request.by)
      BY <1>5 DEF ActiveOrPausedLinkForSubmissive
    <3>3. QED
      BY <1>5, <3>1, <3>2
  <2>3. QED
    BY <2>1, <2>2, FoundSound
<1>6. QED
  BY <1>1, <1>2, <1>3, <1>4, <1>5

\* The two that look up and list in one statement.
LEMMA OneStatementSound ==
    ASSUME ReadsInv, LookupEver \/ LookupStatus
    PROVE  ReadsInv'
<1>1. PICK answer \in SUBSET rows :
          /\ request' = Reply(answer)
          /\ UNCHANGED <<keeper, link, shown, rows, credential>>
          /\ request.step = "lookup" /\ request.route.reach \in {"ever", "status"}
          /\ \A r \in answer : r.of \in Kept(request.by)
          /\ request.route.reach = "ever" => answer = {r \in rows : r.of \in Kept(request.by)}
  <2>1. CASE LookupEver
    <3> DEFINE all == {r \in rows : r.of \in Kept(request.by)}
    <3>1. request' = Reply(all) /\ LookingUp("ever")
      BY <2>1 DEF LookupEver
    <3>2. all \in SUBSET rows /\ \A r \in all : r.of \in Kept(request.by)
      OBVIOUS
    <3> HIDE DEF all
    <3>3. request.step = "lookup" /\ request.route.reach = "ever"
      BY <3>1 DEF LookingUp
    <3>4. QED
      BY <3>1, <3>2, <3>3 DEF LookingUp, all
  <2>2. CASE LookupStatus
    <3> DEFINE some(st) == {r \in rows : r.of \in Kept(request.by) \cap With(st) /\ r.when = "first"}
    <3>1. PICK st \in {"active", "paused", "ended"} : request' = Reply(some(st))
      BY <2>2 DEF LookupStatus
    <3>2. some(st) \in SUBSET rows /\ \A r \in some(st) : r.of \in Kept(request.by)
      OBVIOUS
    <3>3. LookingUp("status")
      BY <2>2 DEF LookupStatus
    <3> HIDE DEF some
    <3>4. QED
      BY <3>1, <3>2, <3>3 DEF LookingUp
  <2>3. QED
    BY <2>1, <2>2
<1>2. Scoped({r.of : r \in answer})
  BY <1>1 DEF Scoped, OverTheLink
<1>3. {r \in request.before : r.of \in Entitled} \subseteq answer
  BY <1>1 DEF Entitled, ReadsInv, RequestSound
<1>4. QED
  BY <1>1, <1>2, <1>3, ReplySound

\* A catalog is looked up in two statements.
LEMMA CatalogSound ==
    ASSUME ReadsInv, LookupCatalog \/ ReadSetting
    PROVE  ReadsInv'
<1>1. CASE LookupCatalog
  <2>1. /\ request.step = "lookup" /\ request.route.reach = "catalog" /\ request.by \in Submissive
        /\ UNCHANGED <<keeper, link, shown, rows, credential>>
        /\ request.over \subseteq With("ended") /\ request.steady \subseteq With("active")
    BY <1>1, LookingUpSees DEF LookupCatalog, LookingUp
  <2>2. CASE ActiveLinkForSubmissive(request.by) = {}
    <3>1. request' = Reply({})
      BY <1>1, <2>2 DEF LookupCatalog
    <3>2. Entitled = {}
      BY <2>1, <2>2 DEF Entitled, ActiveLinkForSubmissive
    <3>3. Scoped({r.of : r \in {}}) /\ {r \in request.before : r.of \in Entitled} \subseteq {}
      BY <3>2 DEF Scoped
    <3>4. QED
      BY <2>1, <3>1, <3>3, ReplySound
  <2>3. CASE ActiveLinkForSubmissive(request.by) # {}
    <3>1. /\ request' = [request EXCEPT !.step = "setting"] /\ request' \in Requests
          /\ request'.step = "setting" /\ request'.by = request.by /\ request'.route = request.route
          /\ request'.on = request.on /\ request'.over = request.over
          /\ request'.steady = request.steady /\ request'.before = request.before
          /\ request'.settings = request.settings /\ request'.answer = request.answer
          /\ request'.found = request.found
      BY <1>1, <2>3 DEF LookupCatalog, ReadsInv, ReadsTyped, Requests
    <3>2. ReadsTyped'
      BY <2>1, <3>1 DEF ReadsInv, ReadsTyped, AccessTypeOK, Requests
    <3>3. RequestSound'
      BY <2>1, <3>1 DEF ReadsInv, RequestSound, With, RolesFit
    <3>4. request.by \notin request.over
      BY <2>1, <2>3 DEF ActiveLinkForSubmissive, With
    <3>5. StepSound'
      BY <2>1, <3>1, <3>4 DEF StepSound
    <3>6. QED
      BY <3>2, <3>3, <3>5 DEF ReadsInv
  <2>4. QED
    BY <2>2, <2>3
<1>2. CASE ReadSetting
  <2>1. /\ request.step = "setting" /\ UNCHANGED <<keeper, link, shown, rows, credential>>
        /\ request.route.reach = "catalog" /\ request.by \in Submissive \ request.over
        /\ shown[request.by] \in request.settings /\ keeper[request.by] \in Keyholder
        /\ shown[request.by] \in BOOLEAN /\ request.over \subseteq Submissive
        /\ Keyholder \cap Submissive = {}
    BY <1>2, AccessAssumption DEF ReadSetting, ReadsInv, StepSound, RequestSound, ReadsTyped, AccessTypeOK
  <2>2. CASE shown[request.by]
    <3>1. request' = Found({keeper[request.by]})
      BY <1>2, <2>2 DEF ReadSetting
    <3>2. TRUE \in request.settings
      BY <2>1, <2>2
    <3>3. Scoped({keeper[request.by]})
      BY <2>1, <3>2 DEF Scoped, Kept
    <3>4. Entitled \subseteq {keeper[request.by]}
      BY <2>1 DEF Entitled
    <3>5. {keeper[request.by]} \in SUBSET User
      BY <2>1 DEF User
    <3>6. QED
      BY <2>1, <3>1, <3>3, <3>4, <3>5, FoundSound
  <2>3. CASE ~shown[request.by]
    <3>1. request' = Reply({})
      BY <1>2, <2>3 DEF ReadSetting
    <3>2. FALSE \in request.settings
      BY <2>1, <2>3
    <3>3. Entitled = {}
      BY <2>1, <3>2 DEF Entitled
    <3>4. Scoped({r.of : r \in {}}) /\ {r \in request.before : r.of \in Entitled} \subseteq {}
      BY <3>3 DEF Scoped
    <3>5. QED
      BY <2>1, <3>1, <3>4, ReplySound
  <2>4. QED
    BY <2>2, <2>3
<1>3. QED
  BY <1>1, <1>2

LEMMA LookupsSound ==
    ASSUME ReadsInv, Lookup
    PROVE  ReadsInv'
<1>1. ReadsTyped /\ Keyholder \cap Submissive = {}
  BY AccessAssumption DEF ReadsInv
<1>2. CASE LookupOwn
  <2>1. {request.by} \in SUBSET User
    BY <1>2, LookingUpSees DEF LookupOwn
  <2>2. QED
    BY <1>2, <2>1, LookupSound DEF LookupOwn
<1>3. CASE LookupLinked \/ LookupFeed
  <2>1. /\ ActiveOrPausedLinkForKeyholder(request.by, request.on) \in SUBSET User
        /\ ActiveLinkIdsForKeyholder(request.by) \in SUBSET User
    BY DEF ActiveOrPausedLinkForKeyholder, ActiveLinkIdsForKeyholder, Kept, User
  <2>2. QED
    BY <1>3, <2>1, LookupSound DEF LookupLinked, LookupFeed
<1>4. CASE LookupParty
  <2>1. request.on \in Submissive
    BY <1>4, LookingUpSees DEF LookupParty
  <2>2. {s \in {request.on} : IsParty(request.by, s)} \in SUBSET User
    BY <2>1 DEF User
  <2>3. QED
    BY <1>4, <2>2, LookupSound DEF LookupParty
<1>5. CASE LookupToy
  <2>1. PICK users : /\ request' = Found(users) /\ LookingUp("toy")
                     /\ \/ users = {request.by} \cap {request.on}
                        \/ users = ActiveOrPausedLinkForKeyholder(request.by, request.on)
    BY <1>5 DEF LookupToy
  <2>2. users \in SUBSET User
    BY <2>1, LookingUpSees DEF ActiveOrPausedLinkForKeyholder, Kept, User
  <2>3. QED
    BY <2>1, <2>2, LookupSound
<1>6. CASE LookupActive \/ LookupOpen
  <2>1. /\ ActiveLinkForSubmissive(request.by) \in SUBSET User
        /\ ActiveOrPausedLinkForSubmissive(request.by) \in SUBSET User
    BY DEF ActiveLinkForSubmissive, ActiveOrPausedLinkForSubmissive, With, User
  <2>2. QED
    BY <1>6, <2>1, LookupSound DEF LookupActive, LookupOpen
<1>7. CASE LookupKeyholder
  <2>1. {keeper[s] : s \in ActiveOrPausedLinkForSubmissive(request.by)} \in SUBSET User
    BY <1>1 DEF ActiveOrPausedLinkForSubmissive, With, User, ReadsTyped, AccessTypeOK
  <2>2. QED
    BY <1>7, <2>1, LookupSound DEF LookupKeyholder
<1>8. QED
  BY <1>2, <1>3, <1>4, <1>5, <1>6, <1>7, OneStatementSound, CatalogSound DEF Lookup

-----------------------------------------------------------------------------
(* The other steps.                                                          *)

\* A step under which the request goes on with what it had.
LEMMA AdvanceSound ==
    ASSUME ReadsInv, ReadsTyped', Advances, request'.step = request.step, request'.found = request.found,
           request'.answer = request.answer, rows \subseteq rows',
           request'.over \subseteq With("ended")', request'.steady \subseteq With("active")',
           request.step # "idle" /\ request.by \in Submissive => shown'[request.by] \in request'.settings
    PROVE  ReadsInv'
<1>1. CASE request.step = "idle"
  BY <1>1 DEF ReadsInv, RequestSound, StepSound
<1>2. CASE request.step # "idle"
  <2>1. RequestSound'
    BY <1>2 DEF Advances, ReadsInv, RequestSound, RolesFit
  <2>2. Entitled' \subseteq Entitled
    BY <1>2, EntitledShrinks DEF ReadsInv, ReadsTyped, Requests
  <2>3. ASSUME request.step = "list" PROVE Scoped(request.found)' /\ Entitled' \subseteq request'.found
    <3>1. PICK users : users = request.found
      OBVIOUS
    <3>2. Scoped(users)'
      BY <2>3, <3>1, ScopedStays DEF ReadsInv, StepSound
    <3>3. QED
      BY <2>2, <2>3, <3>1, <3>2 DEF ReadsInv, StepSound, Scoped
  <2>4. ASSUME request.step = "answered" PROVE Scoped(Whose)' /\ AnswersAreComplete'
    <3>1. PICK users : users = Whose
      OBVIOUS
    <3>2. Scoped(users)'
      BY <2>4, <3>1, ScopedStays DEF ReadsInv, StepSound
    <3>3. Whose' = users
      BY <3>1 DEF Whose
    <3>4. AnswersAreComplete'
      BY <2>2, <2>4 DEF Advances, ReadsInv, StepSound, AnswersAreComplete
    <3>5. QED
      BY <3>2, <3>3, <3>4 DEF Scoped
  <2>5. request.step = "setting" =>
           request'.route.reach = "catalog" /\ request'.by \in Submissive \ request'.over
    BY DEF Advances, ReadsInv, StepSound
  <2>6. StepSound'
    BY <2>3, <2>4, <2>5 DEF StepSound
  <2>7. QED
    BY <2>1, <2>6 DEF ReadsInv
<1>3. QED
  BY <1>1, <1>2

\* Whatever the step, the links it saw are as the request has them.
LEMMA SightsHold ==
    ASSUME ReadsInv, request.step # "idle"
    PROVE  request.over \subseteq With("ended") /\ request.steady \subseteq With("active")
BY DEF ReadsInv, RequestSound

LEMMA RequestStays ==
    ASSUME ReadsInv, ReadsTyped', UNCHANGED <<keeper, link, shown, rows, request>>
    PROVE  ReadsInv'
<1>1. CASE request.step = "idle"
  BY <1>1 DEF ReadsInv, RequestSound, StepSound
<1>2. CASE request.step # "idle"
  <2>1. Advances
    BY DEF Advances
  <2>2. request'.over \subseteq With("ended")' /\ request'.steady \subseteq With("active")'
    BY <1>2, SightsHold DEF With
  <2>3. request.by \in Submissive => shown'[request.by] \in request'.settings
    BY <1>2 DEF ReadsInv, RequestSound
  <2>4. QED
    BY <2>1, <2>2, <2>3, AdvanceSound
<1>3. QED
  BY <1>1, <1>2

LEMMA CredentialSound ==
    ASSUME ReadsInv, IssueSession \/ IssueToken \/ RevokeSession \/ RevokeToken
    PROVE  ReadsInv'
<1>1. UNCHANGED <<keeper, link, shown, rows, request>>
  BY DEF IssueSession, IssueToken, RevokeSession, RevokeToken, Revoke
<1>2. /\ credential' \in [user : User \cup {Nobody}, token : BOOLEAN, scopes : SUBSET Scopes]
      /\ credential' = NoCredential \/ credential'.user \in User
      /\ credential'.token => credential'.user \in Keyholder
  <2>1. CASE IssueSession
    <3>1. PICK u \in User : credential' = [user |-> u, token |-> FALSE, scopes |-> {}]
      BY <2>1 DEF IssueSession
    <3>2. QED
      BY <3>1
  <2>2. CASE IssueToken
    <3>1. PICK k \in Keyholder, held \in SUBSET Scopes :
             credential' = [user |-> k, token |-> TRUE, scopes |-> held]
      BY <2>2 DEF IssueToken
    <3>2. QED
      BY <3>1 DEF User
  <2>3. CASE RevokeSession \/ RevokeToken
    <3>1. credential' = NoCredential
      BY <2>3 DEF RevokeSession, RevokeToken, Revoke
    <3>2. QED
      BY <3>1 DEF NoCredential
  <2>4. QED
    BY <2>1, <2>2, <2>3
<1>3. ReadsTyped'
  BY <1>1, <1>2 DEF ReadsInv, ReadsTyped, AccessTypeOK, Requests
<1>4. QED
  BY <1>1, <1>3, RequestStays

LEMMA ArriveSound ==
    ASSUME ReadsInv, Arrive
    PROVE  ReadsInv'
<1>1. /\ credential.user \in User /\ ReadsTyped
      /\ UNCHANGED <<keeper, link, shown, rows, credential>>
  BY DEF ReadsInv, ReadsTyped, Arrive
<1>2. PICK route \in Routes, on \in Submissive \cup {credential.user} :
         /\ RequireRole(route)
         /\ on \in (IF route.reach \in {"linked", "party", "toy"} THEN Submissive ELSE {credential.user})
         /\ request' = [NoRequest EXCEPT
                           !.step = "lookup", !.by = credential.user, !.route = route, !.on = on,
                           !.over = With("ended"), !.steady = With("active"), !.before = rows,
                           !.settings = {shown[s] : s \in {credential.user} \cap Submissive}]
  BY DEF Arrive
<1>3. /\ request'.step = "lookup" /\ request'.by = credential.user /\ request'.route = route
      /\ request'.on = on /\ request'.found = {} /\ request'.answer = {}
      /\ request'.over = With("ended") /\ request'.steady = With("active")
      /\ request'.before = rows
      /\ request'.settings = {shown[s] : s \in {credential.user} \cap Submissive}
  BY <1>2 DEF NoRequest
<1>4. RolesFit(route) /\ on \in User
  BY <1>1, <1>2, RoutesFit DEF User
<1>5. request' \in Requests
  <2>1. /\ {shown[s] : s \in {credential.user} \cap Submissive} \in SUBSET BOOLEAN
        /\ With("ended") \in SUBSET Submissive /\ With("active") \in SUBSET Submissive
        /\ rows \in SUBSET [of : User, when : When]
    BY <1>1 DEF ReadsTyped, AccessTypeOK, With
  <2>2. QED
    BY <1>1, <1>2, <1>4, <2>1 DEF Requests, NoRequest, RolesFit
<1>6. ReadsTyped'
  BY <1>1, <1>3, <1>5 DEF ReadsTyped, AccessTypeOK, Requests
<1>7. RequestSound'
  BY <1>1, <1>2, <1>3, <1>4 DEF RequestSound, RequireRole, With, RoleOf, RolesFit
<1>8. StepSound'
  BY <1>3 DEF StepSound
<1>9. QED
  BY <1>6, <1>7, <1>8 DEF ReadsInv

LEMMA ListSound ==
    ASSUME ReadsInv, ListRows \/ GetRow
    PROVE  ReadsInv'
<1>1. PICK answer \in SUBSET rows :
         /\ request' = Reply(answer) /\ request.step = "list"
         /\ UNCHANGED <<keeper, link, shown, rows, credential>>
         /\ \A r \in answer : r.of \in request.found
         /\ \/ answer = {r \in rows : r.of \in request.found}
            \/ request.route.reach \in {"party", "toy"}
  <2>1. CASE ListRows
    BY <2>1 DEF ListRows
  <2>2. CASE GetRow
    <3>1. PICK r \in rows : r.of \in request.found /\ request' = Reply({r})
      BY <2>2 DEF GetRow
    <3>2. QED
      BY <2>2, <3>1 DEF GetRow
  <2>3. QED
    BY <2>1, <2>2
<1>2. Scoped(request.found) /\ Entitled \subseteq request.found /\ request.before \subseteq rows
  BY <1>1 DEF ReadsInv, StepSound, RequestSound
<1>3. Scoped({r.of : r \in answer})
  BY <1>1, <1>2 DEF Scoped
<1>4. {r \in request.before : r.of \in Entitled} \subseteq answer
  <2>1. request.route.reach \in {"party", "toy"} => Entitled = {}
    BY DEF Entitled
  <2>2. QED
    BY <1>1, <1>2, <2>1
<1>5. QED
  BY <1>1, <1>3, <1>4, ReplySound

LEMMA DoneSound ==
    ASSUME ReadsInv, request' = NoRequest,
           UNCHANGED <<keeper, link, shown, rows, credential>>
    PROVE  ReadsInv'
<1>1. request' \in Requests /\ request'.step = "idle" /\ request'.answer = {} /\ request'.before = {}
  BY DEF Requests, NoRequest, Route, Roles, Demands, Reaches
<1>2. ReadsTyped'
  BY <1>1 DEF ReadsInv, ReadsTyped, AccessTypeOK, Requests
<1>3. QED
  BY <1>1, <1>2 DEF ReadsInv, RequestSound, StepSound

-----------------------------------------------------------------------------
(* Meanwhile.                                                                *)

LEMMA MeanwhileSound ==
    ASSUME ReadsInv, SetStatus \/ SetSettings \/ Record
    PROVE  ReadsInv'
<1>1. ReadsTyped /\ ReadsTyped /\ request \in Requests /\ AccessTypeOK
  BY DEF ReadsInv, ReadsTyped
<1>2. CASE SetStatus
  <2>1. PICK s \in Submissive, to \in {"paused", "ended"} :
           /\ to # link[s] /\ link' = [link EXCEPT ![s] = to]
           /\ request' = [request EXCEPT !.over = IF to = "ended" THEN @ ELSE @ \ {s},
                                         !.steady = @ \ {s}]
           /\ UNCHANGED <<keeper, shown, rows, credential>>
    BY <1>2 DEF SetStatus
  <2>2. /\ request' \in Requests /\ request'.step = request.step /\ request'.by = request.by
        /\ request'.route = request.route /\ request'.on = request.on /\ request'.found = request.found
        /\ request'.answer = request.answer /\ request'.before = request.before
        /\ request'.settings = request.settings /\ request'.steady = request.steady \ {s}
        /\ request'.over = IF to = "ended" THEN request.over ELSE request.over \ {s}
    BY <1>1, <2>1 DEF Requests
  <2>3. \A q \in Submissive : link'[q] = IF q = s THEN to ELSE link[q]
    BY <1>1, <2>1 DEF AccessTypeOK
  <2>4. Advances /\ ReadsTyped'
    BY <1>1, <2>1, <2>2 DEF Advances, ReadsTyped, AccessTypeOK, Requests
  <2>5. CASE request.step = "idle"
    BY <2>2, <2>4, <2>5 DEF ReadsInv, RequestSound, StepSound
  <2>6. CASE request.step # "idle"
    <3>1. request'.over \subseteq With("ended")' /\ request'.steady \subseteq With("active")'
      BY <2>2, <2>3, <2>6, SightsHold DEF With
    <3>2. request.by \in Submissive => shown'[request.by] \in request'.settings
      BY <2>1, <2>2, <2>6 DEF ReadsInv, RequestSound
    <3>3. QED
      BY <2>1, <2>2, <2>4, <3>1, <3>2, AdvanceSound
  <2>7. QED
    BY <2>5, <2>6
<1>3. CASE SetSettings
  <2>1. PICK s \in Submissive :
           /\ shown' = [shown EXCEPT ![s] = ~@]
           /\ request' = IF request.by = s THEN [request EXCEPT !.settings = @ \cup {~shown[s]}] ELSE request
           /\ UNCHANGED <<keeper, link, rows, credential>>
    BY <1>3 DEF SetSettings
  <2>2. /\ request' \in Requests /\ request'.step = request.step /\ request'.by = request.by
        /\ request'.route = request.route /\ request'.on = request.on /\ request'.found = request.found
        /\ request'.answer = request.answer /\ request'.before = request.before
        /\ request'.steady = request.steady /\ request'.over = request.over
        /\ request'.settings = IF request.by = s THEN request.settings \cup {~shown[s]} ELSE request.settings
    BY <1>1, <2>1 DEF Requests, AccessTypeOK
  <2>3. \A q \in Submissive : shown'[q] = IF q = s THEN ~shown[s] ELSE shown[q]
    BY <1>1, <2>1 DEF AccessTypeOK
  <2>4. Advances /\ ReadsTyped'
    <3>1. shown' \in [Submissive -> BOOLEAN]
      BY <1>1, <2>1 DEF AccessTypeOK
    <3>2. QED
      BY <1>1, <2>1, <2>2, <3>1 DEF Advances, ReadsTyped, AccessTypeOK, Requests
  <2>5. CASE request.step = "idle"
    BY <2>2, <2>4, <2>5 DEF ReadsInv, RequestSound, StepSound
  <2>6. CASE request.step # "idle"
    <3>1. request'.over \subseteq With("ended")' /\ request'.steady \subseteq With("active")'
      BY <2>1, <2>2, <2>6, SightsHold DEF With
    <3>2. request.by \in Submissive => shown'[request.by] \in request'.settings
      BY <2>2, <2>3, <2>6 DEF ReadsInv, RequestSound
    <3>3. QED
      BY <2>1, <2>2, <2>4, <3>1, <3>2, AdvanceSound
  <2>7. QED
    BY <2>5, <2>6
<1>4. CASE Record
  <2>1. PICK s \in Submissive, when \in When : rows' = rows \cup {[of |-> s, when |-> when]}
    BY <1>4 DEF Record, When
  <2>2. UNCHANGED <<keeper, link, shown, credential, request>>
    BY <1>4 DEF Record
  <2>3. rows' \subseteq [of : User, when : When] /\ rows \subseteq rows'
    BY <1>1, <2>1 DEF AccessTypeOK, User
  <2>4. ReadsTyped'
    BY <1>1, <2>2, <2>3 DEF ReadsTyped, AccessTypeOK, Requests
  <2>5. CASE request.step = "idle"
    BY <2>2, <2>4, <2>5 DEF ReadsInv, RequestSound, StepSound
  <2>6. CASE request.step # "idle"
    <3>1. Advances
      BY <2>2 DEF Advances
    <3>2. request'.over \subseteq With("ended")' /\ request'.steady \subseteq With("active")'
      BY <2>2, <2>6, SightsHold DEF With
    <3>3. request.by \in Submissive => shown'[request.by] \in request'.settings
      BY <2>2, <2>6 DEF ReadsInv, RequestSound
    <3>4. QED
      BY <2>2, <2>3, <2>4, <3>1, <3>2, <3>3, AdvanceSound
  <2>7. QED
    BY <2>5, <2>6
<1>5. QED
  BY <1>2, <1>3, <1>4

LEMMA ReadsNext == ReadsInv /\ [AccessNext]_accessVars => ReadsInv'
<1> SUFFICES ASSUME ReadsInv, [AccessNext]_accessVars PROVE ReadsInv'
  OBVIOUS
<1>1. CASE Done
  BY <1>1, DoneSound DEF Done
<1>2. CASE UNCHANGED accessVars
  <2>1. ReadsTyped'
    BY <1>2 DEF accessVars, ReadsInv, ReadsTyped, AccessTypeOK
  <2>2. QED
    BY <1>2, <2>1, RequestStays DEF accessVars
<1>3. QED
  BY <1>1, <1>2, CredentialSound, ArriveSound, LookupsSound, CatalogSound, ListSound, MeanwhileSound
  DEF AccessNext

-----------------------------------------------------------------------------
\* Every reachable state is well typed: what a request holds of links, rows and settings is of
\* the links, rows and settings there are, for any users and scopes.
THEOREM ReadsTypeCorrect == AccessSpec => []AccessTypeOK
<1>1. ReadsInv => AccessTypeOK
  BY DEF ReadsInv, ReadsTyped
<1>2. QED
  BY <1>1, ReadsInit, ReadsNext, PTL DEF AccessSpec

\* No answer has a row of anyone but the caller, the submissives the caller keeps and the
\* caller's keyholder, none over a link that was over all along, and no catalog that was hidden
\* throughout, whatever links and settings change between the statements of a request.
THEOREM AnswersAlwaysScoped == AccessSpec => []AnswersAreScoped
BY ScopedIsSo, ReadsInit, ReadsNext, PTL DEF AccessSpec

\* A list leaves out no row that was there when the request came, of anyone whose link was
\* active from then to the answer.
THEOREM AnswersAlwaysComplete == AccessSpec => []AnswersAreComplete
BY ScopedIsSo, ReadsInit, ReadsNext, PTL DEF AccessSpec
=============================================================================
