------------------------- MODULE VerificationProofs -------------------------
(***************************************************************************)
(* Proofs about Verification, for any number of codes, submissions, workers  *)
(* and policies, and any day.                                                *)
(*                                                                         *)
(* TypeOK is inductive with Dated: the tick's SELECT takes the latest issue  *)
(* time, which exists because no code is dated after the clock.  Live codes  *)
(* are bounded by counting what is checked but not yet inserted (LiveInv);   *)
(* daily codes are apart because what the tick has read bounds every code    *)
(* the tick has made, until it inserts the next (DailyInv); submissions      *)
(* agree because what a handler cites stays issued and stays in 'redo'       *)
(* between its load and its commit (SubInv).                                 *)
(*                                                                         *)
(* And about Catalog: RowsAreSound needs that an edit no other has overlapped *)
(* is over the row as it is (EditsInHand) and that a removal in flight found  *)
(* the toy there (RemovalPart); ListsAreCurrent, that the ratings are what    *)
(* was last asked for.                                                      *)
(***************************************************************************)
EXTENDS Verification, Catalog, FiniteSetTheorems, TLAPS

CodeRows == [issued : Nat \cup {Null}, expires : Nat \cup {Null},
             consumedBy : Submission \cup {NoSubmission}, by : Kinds \cup {"request"}]
SubRows == [status : {"absent", "pending", "verified", "redo", "failed"},
            code : Code \cup {NoCode}, redoOf : Submission \cup {NoSubmission}]
Ticks == [step : {"idle", "selected", "insert"}, last : Nat \cup {Null}, policy : Policy]
Jobs == [step : {"idle", "insert", "commit"}, ttl : Nat,
         code : Code \cup {NoCode}, redoOf : Submission \cup {NoSubmission}]

\* No code is dated after the clock, each expires, and one of them is the latest.
Dated ==
    /\ \A c \in Issued : code[c].issued <= now /\ code[c].expires \in Nat
    /\ Issued # {} => \E c \in Issued : \A d \in Issued : code[c].issued >= code[d].issued

VInv == TypeOK /\ Dated


LEMMA NextForms ==
    ASSUME Next
    PROVE  \/ PutPolicy \/ Tick \/ Crash \/ IssueSelect \/ IssueDecide
           \/ \E w \in Worker : RequestCheck(w) \/ Abandon(w)
           \/ \E w \in Worker, c \in Code : RequestInsert(w, c)
           \/ \E c \in Code : IssueInsert(c)
           \/ \E w \in Worker, c \in Code \cup {NoCode}, r \in Submission \cup {NoSubmission} :
                 SubmitLoad(w, c, r)
           \/ \E w \in Worker, s \in Submission : SubmitCommit(w, s)
           \/ \E s \in Submission, v \in {"verified", "redo", "failed"} : Review(s, v)
BY DEF Next, VerificationRoutes, ProofRoutes, RequestCode, SubmitProof, ReviewSubmission

-----------------------------------------------------------------------------
(* What the statements on verification_codes and the handlers' reads do.     *)

LEMMA IdlesTyped == IdleTick \in Ticks /\ IdleJob \in Jobs
BY VerificationAssumption DEF IdleTick, IdleJob, Ticks, Jobs

LEMMA Typed ==
    TypeOK <=> /\ now \in Nat /\ policy \in Policy
               /\ code \in [Code -> CodeRows] /\ sub \in [Submission -> SubRows]
               /\ tick \in Ticks /\ job \in [Worker -> Jobs]
BY DEF TypeOK, CodeRows, SubRows, Ticks, Jobs

LEMMA TypedNext ==
    ASSUME now' \in Nat, policy' \in Policy, code' \in [Code -> CodeRows],
           sub' \in [Submission -> SubRows], tick' \in Ticks, job' \in [Worker -> Jobs]
    PROVE  TypeOK'
BY DEF TypeOK, CodeRows, SubRows, Ticks, Jobs

\* An insert dates its code now and touches no other.
LEMMA InsertDates ==
    ASSUME VInv, NEW c \in Code, NEW ttl \in Nat, NEW by \in Kinds \cup {"request"},
           Insert(c, ttl, by), now' = now
    PROVE  /\ code' \in [Code -> CodeRows]
           /\ c \notin Issued /\ Issued' = Issued \cup {c}
           /\ code'[c] = [issued |-> now, expires |-> now + ttl, consumedBy |-> NoSubmission,
                          by |-> by]
           /\ \A d \in Code \ {c} : code'[d] = code[d]
           /\ Dated'
<1> DEFINE entry == [issued |-> now, expires |-> now + ttl, consumedBy |-> NoSubmission, by |-> by]
<1>1. now \in Nat /\ now # Null /\ code \in [Code -> CodeRows]
  BY Typed, VerificationAssumption DEF VInv
<1>2. entry \in CodeRows /\ entry.issued = now /\ entry.expires \in Nat
  BY <1>1 DEF CodeRows
<1>3. code' = [code EXCEPT ![c] = entry] /\ c \notin Issued
  BY DEF Insert
<1> HIDE DEF entry
<1>4. /\ code' \in [Code -> CodeRows] /\ code'[c] = entry
      /\ \A d \in Code \ {c} : code'[d] = code[d]
  BY <1>1, <1>2, <1>3
<1>5. Issued' = Issued \cup {c}
  BY <1>1, <1>2, <1>4 DEF Issued
<1>6. \A d \in Issued : code'[d] = code[d] /\ code[d].issued \in Nat
  BY <1>1, <1>3, <1>4 DEF Issued, CodeRows
<1>7. \A d \in Issued' : /\ code'[c].issued >= code'[d].issued
                         /\ code'[d].issued <= now' /\ code'[d].expires \in Nat
  BY <1>1, <1>2, <1>4, <1>5, <1>6 DEF VInv, Dated
<1>8. Dated'
  BY <1>5, <1>7 DEF Dated
<1>9. QED
  BY <1>3, <1>4, <1>5, <1>8 DEF entry

\* Consuming a code leaves it issued, at the same time and by the same hand.
LEMMA ConsumeKeeps ==
    ASSUME VInv, NEW c \in Code, NEW s \in Submission, Consume(c, s), now' = now
    PROVE  /\ code' \in [Code -> CodeRows]
           /\ code'[c].consumedBy = s
           /\ \A d \in Code \ {c} : code'[d] = code[d]
           /\ \A d \in Code : /\ code'[d].issued = code[d].issued
                              /\ code'[d].by = code[d].by
                              /\ code'[d].expires = code[d].expires
           /\ Issued' = Issued
           /\ Dated'
<1>1. now \in Nat /\ code \in [Code -> CodeRows]
  BY Typed DEF VInv
<1>2. code' = [code EXCEPT ![c].consumedBy = s]
  BY DEF Consume
<1>3. /\ code' \in [Code -> CodeRows] /\ code'[c].consumedBy = s
      /\ \A d \in Code \ {c} : code'[d] = code[d]
  BY <1>1, <1>2 DEF CodeRows
<1>4. \A d \in Code : /\ code'[d].issued = code[d].issued /\ code'[d].by = code[d].by
                      /\ code'[d].expires = code[d].expires
  BY <1>1, <1>2 DEF CodeRows
<1>5. Issued' = Issued
  BY <1>4 DEF Issued
<1>6. Dated'
  BY <1>4, <1>5 DEF VInv, Dated, Issued
<1>7. QED
  BY <1>3, <1>4, <1>5, <1>6

\* A step that leaves the codes alone keeps their dates in the past.
LEMMA DatesKept ==
    ASSUME VInv, code' = code, now' \in Nat, now' >= now
    PROVE  Dated'
<1>1. now \in Nat /\ code \in [Code -> CodeRows] /\ Issued' = Issued
  BY Typed DEF VInv, Issued
<1>2. \A c \in Issued : code[c].issued \in Nat
  BY <1>1 DEF Issued, CodeRows
<1>3. QED
  BY <1>1, <1>2 DEF VInv, Dated

\* The tick's SELECT returns a time no code was issued after, or NULL if there is none.
LEMMA SelectReads ==
    ASSUME VInv, IssueSelect
    PROVE  /\ tick' \in Ticks /\ tick'.step = "selected"
           /\ tick'.policy = tick.policy
           /\ Issued # {} => /\ tick'.last \in Nat
                             /\ \A c \in Issued : code[c].issued <= tick'.last
<1>1. now \in Nat /\ code \in [Code -> CodeRows] /\ tick \in Ticks
  BY Typed DEF VInv
<1>2. \A c \in Issued : code[c].issued \in Nat
  BY <1>1 DEF Issued, CodeRows
<1> DEFINE Latest(t) == \A c \in Issued : t >= code[c].issued
           times == {code[c].issued : c \in Issued}
           last == IF Issued = {} THEN Null ELSE CHOOSE t \in times : Latest(t)
<1>3. Issued # {} => \E t \in times : Latest(t)
  BY DEF VInv, Dated
<1>4. Issued # {} => last \in times /\ Latest(last)
  BY <1>3
<1>5. tick' = [tick EXCEPT !.step = "selected", !.last = last]
  BY DEF IssueSelect
<1>6. Issued # {} => last \in Nat /\ \A c \in Issued : code[c].issued <= last
  <2> SUFFICES ASSUME Issued # {} PROVE last \in Nat /\ \A c \in Issued : code[c].issued <= last
    OBVIOUS
  <2>1. last \in times /\ Latest(last)
    BY <1>4
  <2>2. last \in Nat
    BY <1>2, <2>1
  <2>3. QED
    BY <1>2, <2>1, <2>2
<1>7. last \in Nat \cup {Null}
  BY <1>6
<1> HIDE DEF last
<1>8. QED
  BY <1>1, <1>5, <1>6, <1>7 DEF Ticks

-----------------------------------------------------------------------------
(* TypeOK, with the dates.                                                   *)

LEMMA InitTyped == Init => VInv
<1> SUFFICES ASSUME Init PROVE VInv
  OBVIOUS
<1>1. AbsentCode \in CodeRows /\ AbsentCode.issued = Null /\ AbsentSub \in SubRows
  BY DEF AbsentCode, AbsentSub, CodeRows, SubRows
<1>2. now \in Nat
  BY VerificationAssumption DEF Init
<1>3. TypeOK
  BY <1>1, <1>2, IdlesTyped, Typed, VerificationAssumption DEF Init
<1>4. Issued = {}
  BY <1>1 DEF Init, Issued
<1>5. QED
  BY <1>3, <1>4 DEF VInv, Dated

LEMMA NextTyped == VInv /\ [Next]_vars => VInv'
<1> SUFFICES ASSUME VInv, [Next]_vars PROVE VInv'
  OBVIOUS
<1> USE DEF VInv
<1>1. /\ now \in Nat /\ policy \in Policy
      /\ code \in [Code -> CodeRows] /\ sub \in [Submission -> SubRows]
      /\ tick \in Ticks /\ job \in [Worker -> Jobs]
  BY Typed
<1>2. \A p \in Policy : p.kind \in Kinds /\ p.ttl \in Nat
  BY VerificationAssumption
\* A step that writes no code.
<1>3. ASSUME code' = code, now' \in Nat, now' >= now, policy' \in Policy,
             sub' \in [Submission -> SubRows], tick' \in Ticks, job' \in [Worker -> Jobs]
      PROVE  VInv'
  BY <1>1, <1>3, DatesKept, TypedNext
<1>4. CASE PutPolicy
  BY <1>1, <1>3, <1>4 DEF PutPolicy, SetForLink
<1>5. CASE Tick
  BY <1>1, <1>3, <1>5 DEF Tick
<1>6. CASE Crash
  BY <1>1, <1>3, <1>6, IdlesTyped DEF Crash
<1>7. CASE IssueSelect
  BY <1>1, <1>3, <1>7, SelectReads DEF IssueSelect
<1>8. CASE IssueDecide
  <2>1. [IdleTick EXCEPT !.step = "insert", !.policy = policy] \in Ticks
    BY <1>1, IdlesTyped DEF Ticks
  <2>2. tick' \in Ticks
    BY <1>8, <2>1, IdlesTyped DEF IssueDecide
  <2>3. QED
    BY <1>1, <1>3, <1>8, <2>2 DEF IssueDecide
<1>9. ASSUME NEW w \in Worker, RequestCheck(w) PROVE VInv'
  <2> DEFINE j == [IdleJob EXCEPT !.step = "insert", !.ttl = policy.ttl]
  <2>1. j \in Jobs
    BY <1>1, <1>2, IdlesTyped DEF Jobs
  <2> HIDE DEF j
  <2>2. job' \in [Worker -> Jobs]
    BY <1>1, <1>9, <2>1 DEF RequestCheck, j
  <2>3. QED
    BY <1>1, <1>3, <1>9, <2>2 DEF RequestCheck
<1>10. ASSUME NEW w \in Worker, Abandon(w) PROVE VInv'
  BY <1>1, <1>3, <1>10, IdlesTyped DEF Abandon
<1>11. ASSUME NEW w \in Worker, NEW c \in Code \cup {NoCode},
              NEW r \in Submission \cup {NoSubmission}, SubmitLoad(w, c, r)
       PROVE  VInv'
  <2> DEFINE j == [IdleJob EXCEPT !.step = "commit", !.code = c, !.redoOf = r]
  <2>1. j \in Jobs
    BY <1>1, IdlesTyped DEF Jobs
  <2> HIDE DEF j
  <2>2. job' \in [Worker -> Jobs]
    BY <1>1, <1>11, <2>1 DEF SubmitLoad, j
  <2>3. QED
    BY <1>1, <1>3, <1>11, <2>2 DEF SubmitLoad
<1>12. ASSUME NEW s \in Submission, NEW v \in {"verified", "redo", "failed"}, Review(s, v)
       PROVE  VInv'
  <2>1. sub' \in [Submission -> SubRows]
    BY <1>1, <1>12 DEF Review, SubRows
  <2>2. QED
    BY <1>1, <1>3, <1>12, <2>1 DEF Review
<1>13. ASSUME NEW w \in Worker, NEW c \in Code, RequestInsert(w, c) PROVE VInv'
  <2>1. job[w].ttl \in Nat /\ Insert(c, job[w].ttl, "request") /\ now' = now
    BY <1>1, <1>13 DEF RequestInsert, Jobs
  <2>2. code' \in [Code -> CodeRows] /\ Dated'
    BY <2>1, InsertDates
  <2>3. job' \in [Worker -> Jobs] /\ UNCHANGED <<now, policy, sub, tick>>
    BY <1>1, <1>13, IdlesTyped DEF RequestInsert
  <2>4. QED
    BY <1>1, <2>2, <2>3, TypedNext
<1>14. ASSUME NEW c \in Code, IssueInsert(c) PROVE VInv'
  <2>1. tick.policy \in Policy
    BY <1>1 DEF Ticks
  <2>2. code' \in [Code -> CodeRows] /\ Dated'
    BY <1>2, <1>14, <2>1, InsertDates DEF IssueInsert
  <2>3. QED
    BY <1>1, <1>14, <2>2, IdlesTyped, TypedNext DEF IssueInsert
<1>15. ASSUME NEW w \in Worker, NEW s \in Submission, SubmitCommit(w, s) PROVE VInv'
  <2> DEFINE entry == [status |-> "pending", code |-> job[w].code, redoOf |-> job[w].redoOf]
  <2>1. entry \in SubRows /\ job[w].code \in Code \cup {NoCode}
    BY <1>1 DEF Jobs, SubRows
  <2> HIDE DEF entry
  <2>2. sub' \in [Submission -> SubRows]
    BY <1>1, <1>15, <2>1 DEF SubmitCommit, entry
  <2>3. job' \in [Worker -> Jobs] /\ UNCHANGED <<now, policy, tick>>
    BY <1>1, <1>15, IdlesTyped DEF SubmitCommit
  <2>4. code' \in [Code -> CodeRows] /\ Dated'
    <3>1. CASE job[w].code = NoCode
      BY <1>1, <1>15, <2>3, <3>1, DatesKept DEF SubmitCommit
    <3>2. CASE job[w].code # NoCode
      BY <1>15, <2>1, <2>3, <3>2, ConsumeKeeps DEF SubmitCommit
    <3>3. QED
      BY <3>1, <3>2
  <2>5. QED
    BY <1>1, <2>2, <2>3, <2>4, TypedNext
<1>16. CASE UNCHANGED vars
  BY <1>1, <1>3, <1>16 DEF vars
<1>17. QED
  BY <1>4, <1>5, <1>6, <1>7, <1>8, <1>9, <1>10, <1>11, <1>12, <1>13, <1>14, <1>15, <1>16, NextForms

\* The rows of both tables, the policy, the tick and the handlers keep their
\* types: above all, the tick's SELECT always finds the latest code.
THEOREM VerificationTypeCorrect == Spec => []TypeOK
<1>1. VInv => TypeOK
  BY DEF VInv
<1>2. QED
  BY <1>1, InitTyped, NextTyped, PTL DEF Spec
-----------------------------------------------------------------------------
(* Codes and submissions agree.                                              *)

Consumed == {c \in Code : code[c].consumedBy # NoSubmission}

\* What was loaded to be cited can still be cited when the handler commits: the
\* code is issued, the submission it redoes is in 'redo'.  A consumed code was
\* issued, so that no insert takes its id; an absent submission cites nothing.
LoadsBornOut ==
    \A w \in Worker : job[w].step = "commit" =>
        /\ job[w].code # NoCode => job[w].code \in Issued
        /\ job[w].redoOf # NoSubmission => sub[job[w].redoOf].status = "redo"
AbsentCiteNothing ==
    \A s \in Submission : sub[s].status = "absent" =>
        sub[s].code = NoCode /\ sub[s].redoOf = NoSubmission

SubInv == SubmissionsAgree /\ LoadsBornOut /\ AbsentCiteNothing /\ Consumed \subseteq Issued

LEMMA InitSub == Init => SubInv
<1> SUFFICES ASSUME Init PROVE SubInv
  OBVIOUS
<1>1. \A c \in Code : code[c].consumedBy = NoSubmission
  BY DEF Init, AbsentCode
<1>2. \A s \in Submission : sub[s].code = NoCode /\ sub[s].redoOf = NoSubmission
  BY DEF Init, AbsentSub
<1>3. \A w \in Worker : job[w].step = "idle"
  BY DEF Init, IdleJob
<1>4. QED
  BY <1>1, <1>2, <1>3 DEF SubInv, SubmissionsAgree, CodesAndSubmissionsAgree, RedoAnswersRedo,
     LoadsBornOut, AbsentCiteNothing, Consumed

\* A step that neither consumes a code nor writes a submission, and starts no commit.
LEMMA QuietSub ==
    ASSUME VInv, SubInv, sub' = sub, Issued \subseteq Issued',
           \A c \in Code : code'[c].consumedBy = code[c].consumedBy,
           \A w \in Worker : job'[w].step = "commit" => job'[w] = job[w]
    PROVE  SubInv'
<1>1. code \in [Code -> CodeRows] /\ sub \in [Submission -> SubRows] /\ job \in [Worker -> Jobs]
  BY Typed DEF VInv
<1>2. SubmissionsAgree'
  BY <1>1 DEF SubInv, SubmissionsAgree, CodesAndSubmissionsAgree, RedoAnswersRedo, SubRows
<1>3. LoadsBornOut' /\ AbsentCiteNothing'
  BY <1>1 DEF SubInv, LoadsBornOut, AbsentCiteNothing
<1>4. Consumed' \subseteq Issued'
  BY DEF SubInv, Consumed
<1>5. QED
  BY <1>2, <1>3, <1>4 DEF SubInv

\* An insert takes the id of no consumed code.
LEMMA InsertSub ==
    ASSUME VInv, SubInv, NEW c \in Code, NEW ttl \in Nat, NEW by \in Kinds \cup {"request"},
           Insert(c, ttl, by), now' = now, sub' = sub,
           \A w \in Worker : job'[w].step = "commit" => job'[w] = job[w]
    PROVE  SubInv'
<1>1. /\ c \notin Issued /\ Issued' = Issued \cup {c}
      /\ code'[c] = [issued |-> now, expires |-> now + ttl, consumedBy |-> NoSubmission,
                     by |-> by]
      /\ \A d \in Code \ {c} : code'[d] = code[d]
  BY InsertDates
<1>2. code[c].consumedBy = NoSubmission
  BY <1>1 DEF SubInv, Consumed
<1>3. QED
  BY <1>1, <1>2, QuietSub

LEMMA LoadSub ==
    ASSUME VInv, SubInv, NEW w \in Worker, NEW c \in Code \cup {NoCode},
           NEW r \in Submission \cup {NoSubmission}, SubmitLoad(w, c, r)
    PROVE  SubInv'
<1>1. job \in [Worker -> Jobs] /\ UNCHANGED <<code, sub>> /\ Issued' = Issued
  BY Typed DEF VInv, SubmitLoad, Issued
<1>2. c # NoCode => c \in Issued
  BY DEF SubmitLoad, Redeemable, Issued
<1>3. r # NoSubmission => sub[r].status = "redo"
  BY DEF SubmitLoad
<1>4. job'[w].code = c /\ job'[w].redoOf = r /\ \A v \in Worker \ {w} : job'[v] = job[v]
  BY <1>1 DEF SubmitLoad, IdleJob
<1>5. LoadsBornOut'
  BY <1>1, <1>2, <1>3, <1>4 DEF SubInv, LoadsBornOut
<1>6. SubmissionsAgree' /\ AbsentCiteNothing' /\ Consumed' \subseteq Issued'
  BY <1>1 DEF SubInv, SubmissionsAgree, CodesAndSubmissionsAgree, RedoAnswersRedo,
     AbsentCiteNothing, Consumed
<1>7. QED
  BY <1>5, <1>6 DEF SubInv

\* The commit: the new submission cites what its handler loaded, and the code it
\* cites names it, whatever submission the code named before.
LEMMA CommitSub ==
    ASSUME VInv, SubInv, NEW w \in Worker, NEW s \in Submission, SubmitCommit(w, s)
    PROVE  SubInv'
<1> DEFINE entry == [status |-> "pending", code |-> job[w].code, redoOf |-> job[w].redoOf]
<1>1. /\ code \in [Code -> CodeRows] /\ sub \in [Submission -> SubRows] /\ job \in [Worker -> Jobs]
      /\ now' = now
  BY Typed DEF VInv, SubmitCommit
<1>2. PICK c \in Code \cup {NoCode} : c = job[w].code
  BY <1>1 DEF Jobs
<1>3. PICK r \in Submission \cup {NoSubmission} : r = job[w].redoOf
  BY <1>1 DEF Jobs
<1>4. /\ sub'[s] = [status |-> "pending", code |-> c, redoOf |-> r]
      /\ \A q \in Submission \ {s} : sub'[q] = sub[q]
  BY <1>1, <1>2, <1>3 DEF SubmitCommit
<1>5. sub[s].status = "absent" /\ sub[s].code = NoCode
  BY DEF SubmitCommit, SubInv, AbsentCiteNothing
<1>6. /\ c # NoCode => c \in Issued
      /\ r # NoSubmission => sub[r].status = "redo" /\ r # s
  BY <1>2, <1>3, <1>5 DEF SubInv, LoadsBornOut, SubmitCommit
<1>7. /\ Issued' = Issued
      /\ \A d \in Code : code'[d].consumedBy = IF d = c THEN s ELSE code[d].consumedBy
  <2>1. CASE c = NoCode
    BY <1>2, <2>1, VerificationAssumption DEF SubmitCommit, Issued
  <2>2. CASE c # NoCode
    BY <1>1, <1>2, <2>2, ConsumeKeeps DEF SubmitCommit
  <2>3. QED
    BY <2>1, <2>2
\* No code named s before, for s cited none.
<1>8. \A d \in Code : code[d].consumedBy # s
  BY <1>5, VerificationAssumption DEF SubInv, SubmissionsAgree, CodesAndSubmissionsAgree
<1>9. CodesAndSubmissionsAgree'
  <2>1. ASSUME NEW q \in Submission, sub'[q].code # NoCode
        PROVE  code'[sub'[q].code].consumedBy # NoSubmission
    <3>1. CASE q = s
      BY <1>4, <1>7, <2>1, <3>1, VerificationAssumption
    <3>2. CASE q # s
      <4>1. sub'[q] = sub[q] /\ sub[q].code \in Code
        BY <1>1, <1>4, <2>1, <3>2 DEF SubRows
      <4>2. code[sub[q].code].consumedBy # NoSubmission
        BY <2>1, <4>1 DEF SubInv, SubmissionsAgree, CodesAndSubmissionsAgree
      <4>3. QED
        BY <1>7, <4>1, <4>2, VerificationAssumption
    <3>3. QED
      BY <3>1, <3>2
  <2>2. ASSUME NEW d \in Code, code'[d].consumedBy # NoSubmission
        PROVE  sub'[code'[d].consumedBy].code = d
    <3>1. CASE d = c
      BY <1>4, <1>7, <3>1
    <3>2. CASE d # c
      <4>1. code'[d].consumedBy = code[d].consumedBy /\ code[d].consumedBy \in Submission \ {s}
        BY <1>1, <1>7, <1>8, <2>2, <3>2 DEF CodeRows
      <4>2. sub[code[d].consumedBy].code = d
        BY <2>2, <4>1 DEF SubInv, SubmissionsAgree, CodesAndSubmissionsAgree
      <4>3. QED
        BY <1>4, <4>1, <4>2
    <3>3. QED
      BY <3>1, <3>2
  <2>3. QED
    BY <2>1, <2>2 DEF CodesAndSubmissionsAgree
<1>10. \A q \in Submission : sub[q].status = "redo" => sub'[q] = sub[q]
  BY <1>4, <1>5
<1>11. RedoAnswersRedo'
  <2> SUFFICES ASSUME NEW q \in Submission, sub'[q].redoOf # NoSubmission
               PROVE  sub'[sub'[q].redoOf].status = "redo"
    BY DEF RedoAnswersRedo
  <2>1. CASE q = s
    BY <1>3, <1>4, <1>6, <1>10, <2>1
  <2>2. CASE q # s
    <3>1. sub'[q] = sub[q] /\ sub[q].redoOf \in Submission
      BY <1>1, <1>4, <2>2 DEF SubRows
    <3>2. sub[sub[q].redoOf].status = "redo"
      BY <3>1 DEF SubInv, SubmissionsAgree, RedoAnswersRedo
    <3>3. QED
      BY <1>10, <3>1, <3>2
  <2>3. QED
    BY <2>1, <2>2
<1>12. \A v \in Worker : job'[v].step = "commit" => job'[v] = job[v]
  BY <1>1 DEF SubmitCommit, IdleJob
<1>13. LoadsBornOut'
  <2> SUFFICES ASSUME NEW v \in Worker, job'[v].step = "commit"
               PROVE  /\ job'[v].code # NoCode => job'[v].code \in Issued'
                      /\ job'[v].redoOf # NoSubmission => sub'[job'[v].redoOf].status = "redo"
    BY DEF LoadsBornOut
  <2>1. job'[v] = job[v] /\ job[v].redoOf \in Submission \cup {NoSubmission}
    BY <1>1, <1>12 DEF Jobs
  <2>2. /\ job[v].code # NoCode => job[v].code \in Issued
        /\ job[v].redoOf # NoSubmission => sub[job[v].redoOf].status = "redo"
    BY <2>1 DEF SubInv, LoadsBornOut
  <2>3. QED
    BY <1>7, <1>10, <2>1, <2>2
<1>14. AbsentCiteNothing'
  BY <1>4 DEF SubInv, AbsentCiteNothing
<1>15. Consumed' \subseteq Issued'
  BY <1>6, <1>7, VerificationAssumption DEF SubInv, Consumed
<1>16. QED
  BY <1>9, <1>11, <1>13, <1>14, <1>15 DEF SubInv, SubmissionsAgree

\* A review settles pending submissions only: one in 'redo' stays there.
LEMMA ReviewSub ==
    ASSUME VInv, SubInv, NEW s \in Submission, NEW v \in {"verified", "redo", "failed"}, Review(s, v)
    PROVE  SubInv'
<1>1. /\ sub \in [Submission -> SubRows] /\ job \in [Worker -> Jobs]
      /\ UNCHANGED <<code, job>> /\ Issued' = Issued /\ Consumed' = Consumed
  BY Typed DEF VInv, Review, Issued, Consumed
<1>2. /\ sub[s].status = "pending"
      /\ \A q \in Submission : /\ sub'[q].code = sub[q].code /\ sub'[q].redoOf = sub[q].redoOf
                               /\ q # s => sub'[q] = sub[q]
      /\ sub'[s].status = v
  BY <1>1 DEF Review, SubRows
<1>3. \A q \in Submission : sub[q].status = "redo" => sub'[q].status = "redo"
  BY <1>2
<1>4. CodesAndSubmissionsAgree'
  <2>1. code \in [Code -> CodeRows]
    BY Typed DEF VInv
  <2>2. \A c \in Code : code[c].consumedBy # NoSubmission => code[c].consumedBy \in Submission
    BY <2>1 DEF CodeRows
  <2>3. QED
    BY <1>1, <1>2, <2>2 DEF SubInv, SubmissionsAgree, CodesAndSubmissionsAgree
<1>5. RedoAnswersRedo'
  <2>1. \A q \in Submission : sub[q].redoOf # NoSubmission => sub[q].redoOf \in Submission
    BY <1>1 DEF SubRows
  <2>2. QED
    BY <1>2, <1>3, <2>1 DEF SubInv, SubmissionsAgree, RedoAnswersRedo
<1>6. LoadsBornOut'
  <2>1. \A w \in Worker : job[w].redoOf # NoSubmission => job[w].redoOf \in Submission
    BY <1>1 DEF Jobs
  <2>2. QED
    BY <1>1, <1>3, <2>1 DEF SubInv, LoadsBornOut
<1>7. AbsentCiteNothing'
  <2>1. \A q \in Submission : sub'[q].status = "absent" => sub[q].status = "absent"
    BY <1>2
  <2>2. QED
    BY <1>2, <2>1 DEF SubInv, AbsentCiteNothing
<1>8. QED
  BY <1>1, <1>4, <1>5, <1>6, <1>7 DEF SubInv, SubmissionsAgree

LEMMA NextSub == VInv /\ SubInv /\ [Next]_vars => SubInv'
<1> SUFFICES ASSUME VInv, SubInv, [Next]_vars PROVE SubInv'
  OBVIOUS
<1>1. tick \in Ticks /\ job \in [Worker -> Jobs]
  BY Typed DEF VInv
<1>2. \A p \in Policy : p.kind \in Kinds /\ p.ttl \in Nat
  BY VerificationAssumption
\* A step that writes neither table.
<1>3. ASSUME UNCHANGED <<code, sub>>, \A w \in Worker : job'[w].step = "commit" => job'[w] = job[w]
      PROVE  SubInv'
  BY <1>3, QuietSub DEF Issued
<1>4. CASE PutPolicy \/ Tick \/ IssueSelect \/ IssueDecide \/ UNCHANGED vars
  BY <1>3, <1>4 DEF PutPolicy, Tick, IssueSelect, IssueDecide, vars
<1>5. CASE Crash
  BY <1>3, <1>5 DEF Crash, IdleJob
<1>6. ASSUME NEW w \in Worker, RequestCheck(w) \/ Abandon(w) PROVE SubInv'
  <2>1. \A v \in Worker : job'[v].step = "commit" => job'[v] = job[v]
    <3>1. CASE RequestCheck(w)
      BY <1>1, <3>1 DEF RequestCheck, IdleJob
    <3>2. CASE Abandon(w)
      BY <1>1, <3>2 DEF Abandon, IdleJob
    <3>3. QED
      BY <1>6, <3>1, <3>2
  <2>2. QED
    BY <1>3, <1>6, <2>1 DEF RequestCheck, Abandon
<1>7. ASSUME NEW w \in Worker, NEW c \in Code, RequestInsert(w, c) PROVE SubInv'
  <2>1. \A v \in Worker : job'[v].step = "commit" => job'[v] = job[v]
    BY <1>1, <1>7 DEF RequestInsert, IdleJob
  <2>2. job[w].ttl \in Nat
    BY <1>1 DEF Jobs
  <2>3. QED
    BY <1>7, <2>1, <2>2, InsertSub DEF RequestInsert
<1>8. ASSUME NEW c \in Code, IssueInsert(c) PROVE SubInv'
  <2>1. tick.policy \in Policy
    BY <1>1 DEF Ticks
  <2>2. QED
    BY <1>2, <1>8, <2>1, InsertSub DEF IssueInsert
<1>9. QED
  BY <1>4, <1>5, <1>6, <1>7, <1>8, LoadSub, CommitSub, ReviewSub, NextForms

\* SubmissionsAgree, for any number of codes, submissions and workers: a cited code
\* is consumed and a consumed code is cited back, a redo answers a submission in
\* 'redo', though both were read before the transaction and a code may be consumed
\* by two handlers in turn.
THEOREM SubmissionsAlwaysAgree == Spec => []SubmissionsAgree
<1>1. Init => VInv /\ SubInv
  BY InitTyped, InitSub
<1>2. VInv /\ SubInv /\ [Next]_vars => (VInv /\ SubInv)'
  BY NextTyped, NextSub
<1>3. SubInv => SubmissionsAgree
  BY DEF SubInv
<1>4. QED
  BY <1>1, <1>2, <1>3, PTL DEF Spec

-----------------------------------------------------------------------------
(* Daily codes.                                                              *)

\* The codes the tick issued.
Scheduled == {c \in Issued : code[c].by # "request"}

\* What the tick's SELECT returned is no earlier than any code it issued; once it has
\* decided on a daily code, they are all of an earlier day, and stay so.
DailyInv ==
    /\ DailyCodesOnDifferentDays
    /\ tick.step = "selected" =>
          \A c \in Scheduled : tick.last # Null /\ code[c].issued <= tick.last
    /\ tick.step = "insert" /\ tick.policy.kind \in Daily =>
          \A c \in Scheduled : DayOf(code[c].issued) < DayOf(now)

LEMMA DaysOrdered ==
    ASSUME NEW t \in Nat, NEW u \in Nat, t <= u
    PROVE  DayOf(t) \in Int /\ DayOf(u) \in Int /\ DayOf(t) <= DayOf(u)
<1> DEFINE a == t \div Day
           b == u \div Day
<1>1. Day \in Nat \ {0}
  BY VerificationAssumption
<1>2. a \in Int /\ t % Day \in 0..(Day - 1) /\ t = Day * a + (t % Day)
  BY <1>1
<1>3. b \in Int /\ u % Day \in 0..(Day - 1) /\ u = Day * b + (u % Day)
  BY <1>1
<1> HIDE DEF a, b
<1>4. a <= b
  <2> SUFFICES ASSUME b + 1 <= a PROVE FALSE
    BY <1>2, <1>3
  <2>1. Day * (b + 1) <= Day * a /\ Day * (b + 1) = Day * b + Day
    BY <1>1, <1>2, <1>3
  <2>2. QED
    BY <1>1, <1>2, <1>3, <2>1
<1>5. QED
  BY <1>2, <1>3, <1>4 DEF a, b, DayOf

LEMMA ScheduledDated ==
    ASSUME VInv, NEW c \in Scheduled
    PROVE  c \in Code /\ c \in Issued /\ code[c].issued \in Nat /\ code[c].issued <= now /\ now \in Nat
BY Typed DEF VInv, Dated, Scheduled, Issued, CodeRows

LEMMA InitDaily == Init => DailyInv
BY DEF Init, DailyInv, DailyCodesOnDifferentDays, Issued, Scheduled, AbsentCode, IdleTick

\* A step that issues no code and does not advance the tick.
LEMMA QuietDaily ==
    ASSUME VInv, DailyInv, now' \in Nat, now' >= now,
           \A c \in Code : code'[c].issued = code[c].issued /\ code'[c].by = code[c].by,
           tick'.step # "idle" => tick' = tick, tick' \in Ticks
    PROVE  DailyInv'
<1>1. Issued' = Issued /\ Scheduled' = Scheduled /\ Issued \subseteq Code
  BY DEF Issued, Scheduled
<1>2. DailyCodesOnDifferentDays'
  BY <1>1 DEF DailyInv, DailyCodesOnDifferentDays, DayOf
<1>3. ASSUME tick'.step = "selected", NEW c \in Scheduled
      PROVE  tick'.last # Null /\ code'[c].issued <= tick'.last
  BY <1>1, <1>3, ScheduledDated DEF DailyInv
<1>4. ASSUME tick'.step = "insert", tick'.policy.kind \in Daily, NEW c \in Scheduled
      PROVE  DayOf(code'[c].issued) < DayOf(now')
  <2>1. DayOf(code[c].issued) < DayOf(now)
    BY <1>4 DEF DailyInv
  <2>2. code[c].issued \in Nat /\ code[c].issued <= now /\ now \in Nat /\ c \in Code
    BY <1>4, ScheduledDated
  <2>3. /\ DayOf(code[c].issued) \in Int /\ DayOf(now) \in Int
        /\ DayOf(now') \in Int /\ DayOf(now) <= DayOf(now')
    BY <2>2, DaysOrdered
  <2>4. code'[c].issued = code[c].issued
    BY <2>2
  <2>5. QED
    BY <2>1, <2>3, <2>4
<1>5. QED
  BY <1>1, <1>2, <1>3, <1>4 DEF DailyInv

\* A code a request asked for is no code of the schedule.
LEMMA RequestDaily ==
    ASSUME VInv, DailyInv, NEW w \in Worker, NEW c \in Code, RequestInsert(w, c)
    PROVE  DailyInv'
<1>1. job[w].ttl \in Nat /\ UNCHANGED <<now, tick>> /\ Insert(c, job[w].ttl, "request")
  BY Typed DEF VInv, Jobs, RequestInsert
<1>2. /\ c \notin Issued /\ Issued' = Issued \cup {c}
      /\ code'[c] = [issued |-> now, expires |-> now + job[w].ttl, consumedBy |-> NoSubmission,
                     by |-> "request"]
      /\ \A d \in Code \ {c} : code'[d] = code[d]
  BY <1>1, InsertDates
<1>3. Scheduled' = Scheduled /\ \A d \in Scheduled : code'[d] = code[d]
  BY <1>2 DEF Scheduled, Issued
<1>4. DailyCodesOnDifferentDays'
  <2> SUFFICES ASSUME NEW d \in Issued', NEW e \in Issued', d # e, code'[d].by # "request",
                      code'[e].by \in Daily,
                      \/ code'[d].issued < code'[e].issued
                      \/ code'[d].by \in Daily /\ code'[d].issued = code'[e].issued
               PROVE  DayOf(code'[d].issued) < DayOf(code'[e].issued)
    BY DEF DailyCodesOnDifferentDays, DayOf
  <2>1. d # c /\ e # c
    BY <1>2 DEF Daily
  <2>2. d \in Issued /\ e \in Issued /\ code'[d] = code[d] /\ code'[e] = code[e]
    BY <1>2, <2>1 DEF Issued
  <2>3. QED
    BY <2>2 DEF DailyInv, DailyCodesOnDifferentDays
<1>5. QED
  BY <1>1, <1>3, <1>4 DEF DailyInv, DayOf

LEMMA SelectDaily == ASSUME VInv, DailyInv, IssueSelect PROVE DailyInv'
<1>1. tick'.step = "selected" /\ UNCHANGED <<code, now>> /\ Issued' = Issued /\ Scheduled' = Scheduled
  BY SelectReads DEF IssueSelect, Issued, Scheduled
<1>2. \A c \in Scheduled : tick'.last # Null /\ code[c].issued <= tick'.last
  <2> SUFFICES ASSUME NEW c \in Scheduled
               PROVE  tick'.last # Null /\ code[c].issued <= tick'.last
    OBVIOUS
  <2>1. c \in Issued
    BY DEF Scheduled
  <2>2. tick'.last \in Nat /\ code[c].issued <= tick'.last
    BY <2>1, SelectReads
  <2>3. QED
    BY <2>2, VerificationAssumption
<1>3. DailyCodesOnDifferentDays'
  BY <1>1 DEF DailyInv, DailyCodesOnDifferentDays, DayOf
<1>4. QED
  BY <1>1, <1>2, <1>3 DEF DailyInv

\* is_due lets a daily code through only on a later day than the one the tick read.
LEMMA DecideDaily == ASSUME VInv, DailyInv, IssueDecide PROVE DailyInv'
<1>1. /\ UNCHANGED <<code, now>> /\ Issued' = Issued /\ Scheduled' = Scheduled
      /\ tick.step = "selected" /\ tick \in Ticks /\ now \in Nat
  BY Typed DEF VInv, IssueDecide, Issued, Scheduled
<1>2. DailyCodesOnDifferentDays'
  BY <1>1 DEF DailyInv, DailyCodesOnDifferentDays, DayOf
<1>3. tick'.step # "selected"
  BY DEF IssueDecide, IdleTick
<1>4. ASSUME tick'.step = "insert", tick'.policy.kind \in Daily, NEW c \in Scheduled
      PROVE  DayOf(code[c].issued) < DayOf(now)
  <2>1. NoneLive /\ IsDue(policy, tick.last) /\ tick'.policy = policy
    BY <1>4 DEF IssueDecide, IdleTick
  <2>2. tick.last # Null /\ code[c].issued <= tick.last /\ code[c].issued \in Nat /\ tick.last \in Nat
    BY <1>1, ScheduledDated DEF DailyInv, Ticks
  <2>3. DayOf(tick.last) < DayOf(now)
    BY <1>4, <2>1, <2>2 DEF IsDue, Daily
  <2>4. /\ DayOf(code[c].issued) \in Int /\ DayOf(tick.last) \in Int /\ DayOf(now) \in Int
        /\ DayOf(code[c].issued) <= DayOf(tick.last)
    BY <1>1, <2>2, DaysOrdered
  <2>5. QED
    BY <2>3, <2>4
<1>5. QED
  BY <1>1, <1>2, <1>3, <1>4 DEF DailyInv

\* The tick's insert: every code of the schedule is of an earlier day, if this one
\* is daily; and this one, dated now, is earlier than none of them.
LEMMA IssueDaily == ASSUME VInv, DailyInv, NEW c \in Code, IssueInsert(c) PROVE DailyInv'
<1>1. /\ tick \in Ticks /\ now \in Nat /\ tick'.step = "idle" /\ now' = now
      /\ tick.policy.kind \in Kinds /\ tick.policy.ttl \in Nat
  BY Typed, VerificationAssumption DEF VInv, IssueInsert, IdleTick, Ticks
<1>2. PICK kind \in Kinds, ttl \in Nat : kind = tick.policy.kind /\ ttl = tick.policy.ttl
  BY <1>1
<1>3. /\ c \notin Issued /\ Issued' = Issued \cup {c}
      /\ code'[c] = [issued |-> now, expires |-> now + ttl, consumedBy |-> NoSubmission,
                     by |-> kind]
      /\ \A d \in Code \ {c} : code'[d] = code[d]
  BY <1>1, <1>2, InsertDates DEF IssueInsert
<1>4. \A d \in Issued : code'[d] = code[d]
  BY <1>3 DEF Issued
<1>5. \A d \in Scheduled : code[d].issued \in Nat /\ code[d].issued <= now
  BY ScheduledDated
<1>6. kind \in Daily => \A d \in Scheduled : DayOf(code[d].issued) < DayOf(now)
  BY <1>2 DEF IssueInsert, DailyInv
<1>7. DailyCodesOnDifferentDays'
  <2> SUFFICES ASSUME NEW d \in Issued', NEW e \in Issued', d # e, code'[d].by # "request",
                      code'[e].by \in Daily,
                      \/ code'[d].issued < code'[e].issued
                      \/ code'[d].by \in Daily /\ code'[d].issued = code'[e].issued
               PROVE  DayOf(code'[d].issued) < DayOf(code'[e].issued)
    BY DEF DailyCodesOnDifferentDays, DayOf
  <2>1. code'[c].issued = now /\ code'[c].by = kind
    BY <1>3
  <2>2. CASE e = c
    <3>1. d \in Scheduled /\ code'[d] = code[d]
      BY <1>3, <1>4, <2>2 DEF Scheduled
    <3>2. QED
      BY <1>6, <2>1, <2>2, <3>1
  <2>3. CASE d = c
    <3>1. e \in Scheduled /\ code'[e] = code[e]
      BY <1>3, <1>4, <2>3 DEF Scheduled, Daily
    <3>2. code[e].issued \in Nat /\ code[e].issued <= now /\ now \in Nat
      BY <1>1, <1>5, <3>1
    <3>3. kind \in Daily /\ code[e].issued = now
      BY <2>1, <2>3, <3>1, <3>2
    <3>4. DayOf(now) < DayOf(now) /\ DayOf(now) \in Int
      BY <1>6, <3>1, <3>3, <3>2, DaysOrdered
    <3>5. QED
      BY <3>4
  <2>4. CASE d # c /\ e # c
    <3>1. d \in Issued /\ e \in Issued /\ code'[d] = code[d] /\ code'[e] = code[e]
      BY <1>3, <1>4, <2>4
    <3>2. QED
      BY <3>1 DEF DailyInv, DailyCodesOnDifferentDays
  <2>5. QED
    BY <2>2, <2>3, <2>4
<1>8. QED
  BY <1>1, <1>7 DEF DailyInv

LEMMA NextDaily == VInv /\ DailyInv /\ [Next]_vars => DailyInv'
<1> SUFFICES ASSUME VInv, DailyInv, [Next]_vars PROVE DailyInv'
  OBVIOUS
<1>1. now \in Nat /\ tick \in Ticks /\ job \in [Worker -> Jobs]
  BY Typed DEF VInv
<1>2. ASSUME code' = code, now' \in Nat, now' >= now, tick' = tick \/ tick' = IdleTick
      PROVE  DailyInv'
  BY <1>1, <1>2, QuietDaily, IdlesTyped DEF IdleTick
<1>3. CASE PutPolicy \/ UNCHANGED vars
  BY <1>1, <1>2, <1>3 DEF PutPolicy, vars
<1>4. CASE Tick \/ Crash
  BY <1>1, <1>2, <1>4 DEF Tick, Crash
<1>5. ASSUME NEW w \in Worker, RequestCheck(w) \/ Abandon(w) PROVE DailyInv'
  BY <1>1, <1>2, <1>5 DEF RequestCheck, Abandon
<1>6. ASSUME NEW w \in Worker, NEW c \in Code \cup {NoCode},
             NEW r \in Submission \cup {NoSubmission}, SubmitLoad(w, c, r)
      PROVE  DailyInv'
  BY <1>1, <1>2, <1>6 DEF SubmitLoad
<1>7. ASSUME NEW s \in Submission, NEW v \in {"verified", "redo", "failed"}, Review(s, v)
      PROVE  DailyInv'
  BY <1>1, <1>2, <1>7 DEF Review
<1>8. ASSUME NEW w \in Worker, NEW s \in Submission, SubmitCommit(w, s) PROVE DailyInv'
  <2>1. UNCHANGED <<now, tick>> /\ job[w].code \in Code \cup {NoCode}
    BY <1>1, <1>8 DEF SubmitCommit, Jobs
  <2>2. CASE job[w].code = NoCode
    BY <1>1, <1>2, <1>8, <2>1, <2>2 DEF SubmitCommit
  <2>3. CASE job[w].code # NoCode
    <3>1. \A d \in Code : code'[d].issued = code[d].issued /\ code'[d].by = code[d].by
      BY <1>8, <2>1, <2>3, ConsumeKeeps DEF SubmitCommit
    <3>2. QED
      BY <1>1, <2>1, <3>1, QuietDaily
  <2>4. QED
    BY <2>2, <2>3
<1>9. QED
  BY <1>3, <1>4, <1>5, <1>6, <1>7, <1>8, RequestDaily, SelectDaily, DecideDaily, IssueDaily, NextForms

-----------------------------------------------------------------------------
(* Live codes.                                                               *)

LiveCodes == {c \in Code : Live(c)}
\* Who has found no live code and has yet to insert one.
Asking == {w \in Worker : job[w].step = "insert"}
Ticking == IF tick.step = "insert" THEN 1 ELSE 0

\* Each that has checked counts for the code it will insert.
LiveInv ==
    /\ IsFiniteSet(LiveCodes)
    /\ Asking \subseteq Requester
    /\ Cardinality(LiveCodes) + Cardinality(Asking) + Ticking <= Cardinality(Requester) + 1

LEMMA Counted ==
    ASSUME NEW S, S \subseteq Requester
    PROVE  /\ IsFiniteSet(S) /\ Cardinality(S) \in Nat /\ Cardinality(Requester) \in Nat
           /\ Cardinality(S) <= Cardinality(Requester)
<1>1. IsFiniteSet(Requester)
  BY VerificationAssumption
<1>2. IsFiniteSet(S) /\ Cardinality(S) <= Cardinality(Requester)
  BY <1>1, FS_Subset
<1>3. QED
  BY <1>1, <1>2, FS_CardinalityType

LEMMA LiveIfNone == NoneLive <=> LiveCodes = {}
BY DEF NoneLive, LiveCodes

LEMMA InitLive == Init => LiveInv
<1> SUFFICES ASSUME Init PROVE LiveInv
  OBVIOUS
<1>1. LiveCodes = {}
  BY DEF Init, LiveCodes, Live, AbsentCode
<1>2. Asking = {} /\ Ticking = 0
  BY DEF Init, Asking, Ticking, IdleJob, IdleTick
<1>3. IsFiniteSet({}) /\ Cardinality({}) = 0
  BY FS_EmptySet
<1>4. Cardinality(Requester) \in Nat
  BY Counted
<1>5. QED
  BY <1>1, <1>2, <1>3, <1>4 DEF LiveInv

\* A step that makes no code live and starts no insert.
LEMMA QuietLive ==
    ASSUME LiveInv, LiveCodes' \subseteq LiveCodes, Asking' \subseteq Asking,
           tick'.step = "insert" => tick.step = "insert"
    PROVE  LiveInv'
<1> DEFINE L == Cardinality(LiveCodes)
           A == Cardinality(Asking)
<1>1. PICK T : T = LiveCodes'
  OBVIOUS
<1>2. PICK B : B = Asking'
  OBVIOUS
<1>3. IsFiniteSet(T) /\ Cardinality(T) <= L
  BY <1>1, FS_Subset DEF LiveInv
<1>4. L \in Nat /\ Cardinality(T) \in Nat
  BY <1>3, FS_CardinalityType DEF LiveInv
<1>5. B \subseteq Requester /\ Cardinality(B) <= A
  <2>1. IsFiniteSet(Asking)
    BY Counted DEF LiveInv
  <2>2. QED
    BY <1>2, <2>1, FS_Subset DEF LiveInv
<1>6. A \in Nat /\ Cardinality(B) \in Nat /\ Cardinality(Requester) \in Nat
  BY <1>5, Counted DEF LiveInv
<1>7. Cardinality(T) + Cardinality(B) + Ticking' <= Cardinality(Requester) + 1
  <2>1. Ticking \in {0, 1} /\ Ticking' \in {0, 1} /\ Ticking' <= Ticking
    BY DEF Ticking
  <2>2. L + A + Ticking <= Cardinality(Requester) + 1
    BY DEF LiveInv
  <2> HIDE DEF L, A
  <2>3. QED
    BY <1>3, <1>4, <1>5, <1>6, <2>1, <2>2
<1>8. QED
  BY <1>1, <1>2, <1>3, <1>5, <1>7 DEF LiveInv

\* A check that found no live code.
LEMMA CheckedLive ==
    ASSUME LiveInv, NoneLive, LiveCodes' = LiveCodes, Asking' \subseteq Requester
    PROVE  LiveInv'
<1>1. PICK B : B = Asking'
  OBVIOUS
<1>2. LiveCodes' = {} /\ IsFiniteSet({}) /\ Cardinality({}) = 0
  BY LiveIfNone, FS_EmptySet
<1>3. /\ Cardinality(B) \in Nat /\ Cardinality(Requester) \in Nat
      /\ Cardinality(B) <= Cardinality(Requester)
  BY <1>1, Counted
<1>4. Ticking' \in {0, 1}
  BY DEF Ticking
<1>5. 0 + Cardinality(B) + Ticking' <= Cardinality(Requester) + 1
  BY <1>3, <1>4
<1>6. QED
  BY <1>1, <1>2, <1>5 DEF LiveInv

\* The one code a check made room for.
LEMMA InsertLive ==
    ASSUME LiveInv, NEW c \in Code, LiveCodes' \subseteq LiveCodes \cup {c},
           \/ /\ \E w \in Asking : Asking' = Asking \ {w}
              /\ tick' = tick
           \/ Asking' = Asking /\ tick.step = "insert" /\ tick'.step # "insert"
    PROVE  LiveInv'
<1> DEFINE L == Cardinality(LiveCodes)
           A == Cardinality(Asking)
<1>1. PICK T : T = LiveCodes'
  OBVIOUS
<1>2. PICK B : B = Asking'
  OBVIOUS
<1>3. IsFiniteSet(LiveCodes \cup {c}) /\ Cardinality(LiveCodes \cup {c}) \in {L, L + 1} /\ L \in Nat
  <2>1. IsFiniteSet(LiveCodes) /\ L \in Nat
    BY FS_CardinalityType DEF LiveInv
  <2>2. /\ IsFiniteSet(LiveCodes \cup {c})
        /\ Cardinality(LiveCodes \cup {c}) = IF c \in LiveCodes THEN L ELSE L + 1
    BY <2>1, FS_AddElement, Zenon
  <2>3. QED
    BY <2>1, <2>2
<1>4. IsFiniteSet(T) /\ Cardinality(T) <= Cardinality(LiveCodes \cup {c})
  BY <1>1, <1>3, FS_Subset
<1>5. Cardinality(T) \in Nat /\ Cardinality(T) <= L + 1
  <2>1. Cardinality(T) \in Nat
    BY <1>4, FS_CardinalityType
  <2> HIDE DEF L
  <2>2. QED
    BY <1>3, <1>4, <2>1
<1>6. IsFiniteSet(Asking) /\ A \in Nat /\ Cardinality(Requester) \in Nat
  BY Counted DEF LiveInv
<1>7. B \subseteq Requester /\ Cardinality(B) + Ticking' = A + Ticking - 1
  <2>1. ASSUME NEW w \in Asking, B = Asking \ {w}, tick' = tick
        PROVE  B \subseteq Requester /\ Cardinality(B) + Ticking' = A + Ticking - 1
    <3>1. Cardinality(B) = A - 1
      <4>1. Cardinality(Asking \ {w}) = IF w \in Asking THEN A - 1 ELSE A
        BY <1>6, FS_RemoveElement, Zenon
      <4>2. QED
        BY <2>1, <4>1
    <3>2. Ticking' = Ticking /\ Ticking \in Nat
      BY <2>1 DEF Ticking
    <3> HIDE DEF A
    <3>3. QED
      BY <1>6, <2>1, <3>1, <3>2 DEF LiveInv
  <2>2. CASE Asking' = Asking /\ tick.step = "insert" /\ tick'.step # "insert"
    <3>1. Ticking' = 0 /\ Ticking = 1 /\ B = Asking
      BY <1>2, <2>2 DEF Ticking
    <3>2. QED
      BY <1>6, <3>1 DEF LiveInv
  <2>3. QED
    BY <1>2, <2>1, <2>2
<1>8. Cardinality(T) + Cardinality(B) + Ticking' <= Cardinality(Requester) + 1
  <2>1. L + A + Ticking <= Cardinality(Requester) + 1
    BY DEF LiveInv
  <2>2. Ticking \in Nat /\ Ticking' \in Nat /\ Cardinality(B) \in Nat
    BY <1>7, Counted DEF Ticking
  <2> HIDE DEF L, A
  <2>3. QED
    BY <1>3, <1>5, <1>6, <1>7, <2>1, <2>2
<1>9. QED
  BY <1>1, <1>2, <1>4, <1>7, <1>8 DEF LiveInv

LEMMA NextLive == VInv /\ LiveInv /\ [Next]_vars => LiveInv'
<1> SUFFICES ASSUME VInv, LiveInv, [Next]_vars PROVE LiveInv'
  OBVIOUS
<1>1. /\ now \in Nat /\ code \in [Code -> CodeRows]
      /\ tick \in Ticks /\ job \in [Worker -> Jobs]
  BY Typed DEF VInv
<1>2. \A p \in Policy : p.kind \in Kinds /\ p.ttl \in Nat
  BY VerificationAssumption
\* A step that issues no code, only lets them expire or be consumed, and checks for none.
<1>3. ASSUME now' \in Nat, now' >= now,
             \A c \in Code : /\ code'[c].issued = code[c].issued
                             /\ code'[c].expires = code[c].expires
                             /\ code'[c].consumedBy = NoSubmission
                                => code[c].consumedBy = NoSubmission,
             \A w \in Worker : job'[w].step = "insert" => job[w].step = "insert",
             tick'.step = "insert" => tick.step = "insert"
      PROVE  LiveInv'
  <2>1. LiveCodes' \subseteq LiveCodes
    <3> SUFFICES ASSUME NEW c \in LiveCodes' PROVE c \in LiveCodes
      OBVIOUS
    <3>1. c \in Code /\ Live(c)'
      BY DEF LiveCodes
    <3>2. code[c].issued # Null /\ code[c].consumedBy = NoSubmission /\ code[c].expires > now'
      BY <1>3, <3>1 DEF Live
    <3>3. code[c].expires \in Nat
      BY <3>1, <3>2 DEF VInv, Dated, Issued
    <3>4. QED
      BY <1>1, <1>3, <3>1, <3>2, <3>3 DEF LiveCodes, Live
  <2>2. Asking' \subseteq Asking
    BY <1>3 DEF Asking
  <2>3. QED
    BY <1>3, <2>1, <2>2, QuietLive
<1>4. CASE PutPolicy \/ UNCHANGED vars
  BY <1>1, <1>3, <1>4 DEF PutPolicy, vars
<1>5. CASE Tick \/ Crash
  BY <1>1, <1>3, <1>5 DEF Tick, Crash, IdleTick, IdleJob
<1>6. CASE IssueSelect
  BY <1>1, <1>3, <1>6, SelectReads DEF IssueSelect
<1>7. ASSUME NEW w \in Worker, Abandon(w) PROVE LiveInv'
  BY <1>1, <1>3, <1>7 DEF Abandon, IdleJob
<1>8. ASSUME NEW w \in Worker, NEW c \in Code \cup {NoCode},
             NEW r \in Submission \cup {NoSubmission}, SubmitLoad(w, c, r)
      PROVE  LiveInv'
  BY <1>1, <1>3, <1>8 DEF SubmitLoad, IdleJob
<1>9. ASSUME NEW s \in Submission, NEW v \in {"verified", "redo", "failed"}, Review(s, v)
      PROVE  LiveInv'
  BY <1>1, <1>3, <1>9 DEF Review
<1>10. ASSUME NEW w \in Worker, NEW s \in Submission, SubmitCommit(w, s) PROVE LiveInv'
  <2>1. /\ UNCHANGED <<now, tick>> /\ job[w].code \in Code \cup {NoCode}
        /\ \A v \in Worker : job'[v].step = "insert" => job[v].step = "insert"
    BY <1>1, <1>10 DEF SubmitCommit, Jobs, IdleJob
  <2>2. CASE job[w].code = NoCode
    BY <1>1, <1>3, <1>10, <2>1, <2>2 DEF SubmitCommit
  <2>3. CASE job[w].code # NoCode
    <3>1. PICK c \in Code : c = job[w].code
      BY <2>1, <2>3
    <3>2. /\ code'[c].consumedBy = s /\ \A d \in Code \ {c} : code'[d] = code[d]
          /\ \A d \in Code : code'[d].issued = code[d].issued /\ code'[d].expires = code[d].expires
      BY <1>10, <2>1, <2>3, <3>1, ConsumeKeeps DEF SubmitCommit
    <3>3. \A d \in Code : code'[d].consumedBy = NoSubmission => code[d].consumedBy = NoSubmission
      BY <3>2, VerificationAssumption
    <3>4. QED
      BY <1>1, <1>3, <2>1, <3>2, <3>3
  <2>4. QED
    BY <2>2, <2>3
<1>11. ASSUME NEW w \in Worker, RequestCheck(w) PROVE LiveInv'
  <2>1. LiveCodes' = LiveCodes /\ w \in Requester /\ NoneLive
    BY <1>11 DEF RequestCheck, LiveCodes, Live
  <2>2. \A v \in Worker \ {w} : job'[v] = job[v]
    BY <1>1, <1>11 DEF RequestCheck
  <2>3. Asking' \subseteq Requester
    BY <2>1, <2>2 DEF LiveInv, Asking
  <2>4. QED
    BY <2>1, <2>3, CheckedLive
<1>12. CASE IssueDecide
  <2>1. LiveCodes' = LiveCodes /\ Asking' = Asking
    BY <1>12 DEF IssueDecide, LiveCodes, Live, Asking
  <2>2. CASE NoneLive
    BY <2>1, <2>2, CheckedLive DEF LiveInv
  <2>3. CASE ~NoneLive
    BY <1>12, <2>1, <2>3, QuietLive DEF IssueDecide, IdleTick
  <2>4. QED
    BY <2>2, <2>3
\* An insert makes one code live at most.
<1>13. ASSUME NEW c \in Code, NEW ttl \in Nat, NEW by \in Kinds \cup {"request"},
              Insert(c, ttl, by), now' = now
       PROVE  LiveCodes' \subseteq LiveCodes \cup {c}
  <2>1. \A d \in Code \ {c} : code'[d] = code[d]
    BY <1>13, InsertDates
  <2>2. QED
    BY <1>13, <2>1 DEF LiveCodes, Live
<1>14. ASSUME NEW w \in Worker, NEW c \in Code, RequestInsert(w, c) PROVE LiveInv'
  <2>1. job[w].ttl \in Nat /\ UNCHANGED <<now, tick>> /\ Insert(c, job[w].ttl, "request")
    BY <1>1, <1>14 DEF Jobs, RequestInsert
  <2>2. LiveCodes' \subseteq LiveCodes \cup {c}
    BY <1>13, <2>1
  <2>3. w \in Asking /\ Asking' = Asking \ {w}
    BY <1>1, <1>14 DEF RequestInsert, Asking, IdleJob
  <2>4. QED
    BY <2>1, <2>2, <2>3, InsertLive
<1>15. ASSUME NEW c \in Code, IssueInsert(c) PROVE LiveInv'
  <2>1. tick.policy \in Policy
    BY <1>1 DEF Ticks
  <2>2. LiveCodes' \subseteq LiveCodes \cup {c}
    BY <1>2, <1>13, <1>15, <2>1 DEF IssueInsert
  <2>3. Asking' = Asking /\ tick.step = "insert" /\ tick'.step # "insert"
    BY <1>15 DEF IssueInsert, Asking, IdleTick
  <2>4. QED
    BY <2>2, <2>3, InsertLive
<1>16. QED
  BY <1>4, <1>5, <1>6, <1>7, <1>8, <1>9, <1>10, <1>11, <1>12, <1>14, <1>15, NextForms

\* CodesBounded, for any number of workers and codes, and policies of any kind and
\* interval: requests and ticks never leave more live codes than there are threads that
\* ask, and one; and the schedule's daily codes fall on days of their own.
THEOREM CodesAlwaysBounded == Spec => []CodesBounded
<1>1. Init => VInv /\ DailyInv /\ LiveInv
  BY InitTyped, InitDaily, InitLive
<1>2. VInv /\ DailyInv /\ LiveInv /\ [Next]_vars => (VInv /\ DailyInv /\ LiveInv)'
  BY NextTyped, NextDaily, NextLive
<1>3. VInv /\ DailyInv /\ LiveInv => CodesBounded
  <2> SUFFICES ASSUME VInv, DailyInv, LiveInv PROVE CodesBounded
    OBVIOUS
  <2>1. Cardinality(LiveCodes) \in Nat
    BY FS_CardinalityType DEF LiveInv
  <2>2. Cardinality(Asking) \in Nat /\ Cardinality(Requester) \in Nat
    BY Counted DEF LiveInv
  <2>3. Cardinality(LiveCodes) <= Cardinality(Requester) + 1
    BY <2>1, <2>2 DEF LiveInv, Ticking
  <2>4. QED
    BY <2>3 DEF CodesBounded, LiveCodesBounded, LiveCodes, DailyInv
<1>4. QED
  BY <1>1, <1>2, <1>3, PTL DEF Spec


-----------------------------------------------------------------------------
(* Catalog: the records the parties keep.                                   *)

CatOps == {"idle", "edit", "remove", "tell", "list", "answer"}
CatJobs ==
    [op : CatOps, record : Records, seen : Rows, edit : Edits, list : Lists]

\* TypeOK but for the requests in flight.
Tables ==
    /\ link \in {"active", "paused", "ended"}
    /\ exists \subseteq Records
    /\ row \in [Records -> Rows]
    /\ notes \in {0, 1}
    /\ toy \in [requested : BOOLEAN, retired : BOOLEAN]
    /\ rating \in [Party -> [Item \cup Seed -> Ratings]]
    /\ told \in BOOLEAN
    /\ requests \in 0..MaxRequests
    /\ given \in [Records -> Rows]
    /\ said \in [Party -> [Item \cup Seed -> Ratings]]
    /\ crossed \subseteq Records
    /\ late \in BOOLEAN /\ silent \in BOOLEAN

\* A list in flight is of a party's ratings.
JobsAreOfParties ==
    /\ request \in [Thread -> CatJobs]
    /\ \A w \in Thread : request[w].op = "list" => request[w].record \in Party

\* An edit in flight is of a record there is, and of no token; unless edits of the record
\* overlapped, it is the only one and the row is still as it read it.
Editing(w, r) == request[w].op = "edit" /\ request[w].record = r
EditsInHand ==
    \A w \in Thread : request[w].op = "edit" =>
        /\ request[w].record \in exists \ {"token"}
        /\ request[w].record \notin crossed =>
              /\ request[w].seen = row[request[w].record]
              /\ \A v \in Thread : Editing(v, request[w].record) => v = w

RowsPart == EditsInHand /\ EditsAreSound

\* A request to remove the toy tested that it was not retired.
RemovalPart ==
    /\ RemovalsAreSettled
    /\ \A w \in Thread : request[w].op = "remove" /\ toy.retired => late

CatInv == Tables /\ JobsAreOfParties /\ RowsPart /\ RemovalPart /\ rating = said

LEMMA CatTypeOK == Tables /\ JobsAreOfParties => CatalogTypeOK
BY DEF Tables, JobsAreOfParties, CatJobs, CatOps, CatalogTypeOK

LEMMA CatSound == CatInv => CatalogTypeOK /\ RowsAreSound
BY CatTypeOK DEF CatInv, RowsPart, RemovalPart, RowsAreSound

\* The blank row and the request of an idle worker.
LEMMA BlankIsRow == Blank \in Rows
BY DEF Blank, Rows

LEMMA MergedIsRow ==
    ASSUME NEW edit \in Edits, NEW r \in Rows
    PROVE  Merge(edit, r) \in Rows /\ Merge(edit, r) = Over(edit, r)
<1>1. PICK named \in SUBSET Columns : edit \in [named -> {0, 1}]
  BY DEF Edits
<1>2. QED
  BY <1>1 DEF Merge, Over, Rows

LEMMA NamedIsEdit ==
    ASSUME NEW named \in SUBSET Columns, NEW edit \in [named -> {0, 1}]
    PROVE  edit \in Edits
BY DEF Edits

LEMMA PairedIsList ==
    ASSUME NEW items \in SUBSET (Item \cup Seed), NEW list \in [items -> Ratings]
    PROVE  list \in Lists
BY DEF Lists

LEMMA IdleIsJob == Idle \in CatJobs /\ Idle.op = "idle"
<1>1. <<>> \in [{} -> {0, 1}] /\ <<>> \in [{} -> Ratings]
  OBVIOUS
<1>2. <<>> \in Edits /\ <<>> \in Lists
  BY <1>1, NamedIsEdit, PairedIsList
<1>3. QED
  BY <1>2, BlankIsRow DEF Idle, CatJobs, CatOps, Records

LEMMA CatInit == CatalogInit => CatInv
<1> SUFFICES ASSUME CatalogInit PROVE CatInv
  OBVIOUS
<1>1. Tables
  <2>1. row \in [Records -> Rows] /\ given = row
    BY BlankIsRow DEF CatalogInit
  <2>2. rating \in [Party -> [Item \cup Seed -> Ratings]] /\ said = rating
    BY DEF CatalogInit, Ratings
  <2>3. exists \subseteq Records /\ requests \in 0..MaxRequests
    BY CatalogAssumption DEF CatalogInit, Records
  <2>4. QED
    BY <2>1, <2>2, <2>3 DEF CatalogInit, Tables
<1>2. JobsAreOfParties
  BY IdleIsJob DEF CatalogInit, JobsAreOfParties
<1>3. RowsPart
  BY IdleIsJob DEF CatalogInit, RowsPart, EditsInHand, EditsAreSound, EditsKeepTheRest,
                   TemplateStaysValid, Party
<1>4. RemovalPart /\ rating = said
  BY IdleIsJob DEF CatalogInit, RemovalPart, RemovalsAreSettled
<1>5. QED
  BY <1>1, <1>2, <1>3, <1>4 DEF CatInv

-----------------------------------------------------------------------------
(* What a step leaves alone stays sound.                                     *)

\* Thread w goes on as j.
Puts(w, j) == request' = [request EXCEPT ![w] = j]

LEMMA PutIs ==
    ASSUME JobsAreOfParties, NEW w \in Thread, NEW j, Puts(w, j)
    PROVE  \A v \in Thread : request'[v] = IF v = w THEN j ELSE request[v]
BY DEF JobsAreOfParties, Puts

LEMMA PutTyped ==
    ASSUME JobsAreOfParties, NEW w \in Thread, NEW j \in CatJobs, Puts(w, j),
           j.op = "list" => j.record \in Party
    PROVE  JobsAreOfParties'
BY DEF JobsAreOfParties, Puts

\* No edit is taken up.
LEMMA RowsStay ==
    ASSUME RowsPart, UNCHANGED <<exists, row, given, crossed>>,
           \A v \in Thread : request'[v].op = "edit" => request'[v] = request[v]
    PROVE  RowsPart'
BY DEF RowsPart, EditsInHand, Editing, EditsAreSound, EditsKeepTheRest, TemplateStaysValid

\* No removal is taken up, and none recorded is left untold silently.
LEMMA RemovalsStay ==
    ASSUME RemovalPart, UNCHANGED <<toy, late, told>>, silent => silent',
           \A v \in Thread : request'[v].op = "remove" => request[v].op = "remove",
           silent' \/ \A v \in Thread : request[v].op = "tell" => request'[v].op = "tell"
    PROVE  RemovalPart'
BY DEF RemovalPart, RemovalsAreSettled

-----------------------------------------------------------------------------
(* The rows.                                                                 *)

LEMMA CountIs == ASSUME Tables, Count PROVE requests' \in 0..MaxRequests
BY CatalogAssumption DEF Tables, Count

\* A record is made, or one that no request in flight may be editing is edited in one statement.
LEMMA CreateSound ==
    ASSUME CatInv, NEW record \in Records, NEW r \in Rows,
           record = "template" => Valid(r), Create(record, r)
    PROVE  CatInv'
<1>1. Tables'
  BY CountIs DEF CatInv, Tables, Create
<1>2. JobsAreOfParties'
  BY DEF CatInv, JobsAreOfParties, Create
<1>3. \A q \in exists' : /\ row'[q] = IF q = record THEN r ELSE row[q]
                         /\ given'[q] = IF q = record THEN r ELSE given[q]
  BY <1>1 DEF CatInv, Tables, Create
<1>4. EditsInHand'
  BY <1>3 DEF CatInv, RowsPart, EditsInHand, Editing, Create
<1>5. EditsAreSound'
  <2>1. EditsKeepTheRest'
    BY <1>3 DEF CatInv, RowsPart, EditsAreSound, EditsKeepTheRest, Create
  <2>2. TemplateStaysValid'
    BY <1>3 DEF CatInv, RowsPart, EditsAreSound, TemplateStaysValid, Create, Valid
  <2>3. QED
    BY <2>1, <2>2 DEF EditsAreSound
<1>6. RemovalPart'
  BY RemovalsStay DEF CatInv, Create
<1>7. QED
  BY <1>1, <1>2, <1>4, <1>5, <1>6 DEF CatInv, RowsPart, Create

LEMMA PatchTokenSound ==
    ASSUME CatInv, NEW edit \in Edits, UpdateToken(edit)
    PROVE  CatInv'
<1>1. "token" \in exists /\ "token" \in Records
  BY DEF UpdateToken, Records
<1>2. /\ Merge(edit, row["token"]) \in Rows /\ Over(edit, given["token"]) \in Rows
      /\ Merge(edit, row["token"]) = Over(edit, row["token"])
  BY <1>1, MergedIsRow DEF CatInv, Tables
<1>3. \A q \in Records :
         /\ row'[q] = IF q = "token" THEN Merge(edit, row["token"]) ELSE row[q]
         /\ given'[q] = IF q = "token" THEN Over(edit, given["token"]) ELSE given[q]
  BY DEF CatInv, Tables, UpdateToken
<1>4. Tables'
  <2>1. row' \in [Records -> Rows] /\ given' \in [Records -> Rows]
    BY <1>2 DEF CatInv, Tables, UpdateToken
  <2>2. QED
    BY <2>1, CountIs DEF CatInv, Tables, UpdateToken
<1>5. JobsAreOfParties'
  BY DEF CatInv, JobsAreOfParties, UpdateToken
<1>6. EditsInHand'
  BY <1>3 DEF CatInv, RowsPart, EditsInHand, Editing, Tables, UpdateToken
<1>7. EditsAreSound'
  <2>1. EditsKeepTheRest'
    BY <1>2, <1>3 DEF CatInv, Tables, RowsPart, EditsAreSound, EditsKeepTheRest, UpdateToken
  <2>2. "template" # "token" /\ "template" \in Records
    BY DEF Records
  <2>3. TemplateStaysValid'
    BY <1>3, <2>2 DEF CatInv, RowsPart, EditsAreSound, TemplateStaysValid, UpdateToken, Valid
  <2>4. QED
    BY <2>1, <2>3 DEF EditsAreSound
<1>8. RemovalPart'
  BY RemovalsStay DEF CatInv, UpdateToken
<1>9. QED
  BY <1>4, <1>5, <1>6, <1>7, <1>8 DEF CatInv, RowsPart, UpdateToken

\* An edit reads its row; if another of the record is in flight, they overlap.
LEMMA ReadSound ==
    ASSUME CatInv, NEW w \in Thread, NEW record \in Records \ {"token"},
           NEW edit \in Edits, Read(w, record, edit)
    PROVE  CatInv'
<1> DEFINE j == [Idle EXCEPT !.op = "edit", !.record = record, !.seen = row[record], !.edit = edit]
<1>1. /\ j \in CatJobs /\ j.op = "edit" /\ j.record = record /\ j.seen = row[record]
      /\ row[record] \in Rows
  BY IdleIsJob DEF CatInv, Tables, CatJobs, CatOps
<1>2. /\ record \in exists /\ request[w] = Idle /\ Puts(w, j) /\ Count
      /\ UNCHANGED <<link, exists, row, notes, toy, rating, told, given, said, late, silent>>
  BY DEF Read, Take, Puts
<1> HIDE DEF j
<1>3. \A v \in Thread : request'[v] = IF v = w THEN j ELSE request[v]
  BY <1>2, PutIs DEF CatInv
<1>4. /\ crossed \subseteq crossed' /\ crossed' \subseteq Records
      /\ crossed' \subseteq crossed \cup {record}
      /\ record \notin crossed' => \A v \in Thread : ~Editing(v, record)
  BY DEF CatInv, Tables, Read, Editing
<1>5. Tables'
  BY <1>2, <1>4, CountIs DEF CatInv, Tables
<1>6. JobsAreOfParties'
  BY <1>1, <1>2, PutTyped DEF CatInv
<1>7. EditsInHand'
  <2> SUFFICES ASSUME NEW u \in Thread, request'[u].op = "edit"
               PROVE  /\ request'[u].record \in exists' \ {"token"}
                      /\ request'[u].record \notin crossed' =>
                            /\ request'[u].seen = row'[request'[u].record]
                            /\ \A v \in Thread : Editing(v, request[u].record)' => v = u
    BY DEF EditsInHand, Editing
  <2>1. CASE u = w
    <3>1. request'[u] = j
      BY <1>3, <2>1
    <3>2. record \notin crossed' => \A v \in Thread : Editing(v, record)' => v = w
      BY <1>3, <1>4 DEF Editing
    <3>3. QED
      BY <1>1, <1>2, <2>1, <3>1, <3>2 DEF Editing
  <2>2. CASE u # w
    <3>1. request'[u] = request[u]
      BY <1>3, <2>2
    <3>2. request[u].record \notin crossed' => request[u].record # record
      BY <1>4, <3>1 DEF Editing
    <3>3. \A v \in Thread : v # w /\ Editing(v, request[u].record)' => Editing(v, request[u].record)
      BY <1>3, <3>1 DEF Editing
    <3>4. ~(record # request[u].record /\ Editing(w, request[u].record)')
      BY <1>1, <1>3, <3>1 DEF Editing
    <3>5. QED
      BY <1>2, <1>4, <3>1, <3>2, <3>3, <3>4 DEF CatInv, RowsPart, EditsInHand
  <2>3. QED
    BY <2>1, <2>2
<1>8. EditsAreSound'
  BY <1>2, <1>4 DEF CatInv, RowsPart, EditsAreSound, EditsKeepTheRest, TemplateStaysValid
<1>9. RemovalPart'
  <2>1. \A v \in Thread : request'[v].op = "remove" => request[v].op = "remove"
    BY <1>1, <1>3
  <2>2. \A v \in Thread : request[v].op = "tell" => request'[v].op = "tell"
    BY <1>2, <1>3, IdleIsJob
  <2>3. QED
    BY <1>2, <2>1, <2>2, RemovalsStay DEF CatInv
<1>10. QED
  BY <1>2, <1>5, <1>6, <1>7, <1>8, <1>9 DEF CatInv, RowsPart

\* The write of an edit that no other overlapped leaves what it read, but for what it names.
LEMMA WriteSound ==
    ASSUME CatInv, NEW w \in Thread, NEW record \in Records, Write(w, record),
           record = "template" => Valid(Merge(request[w].edit, request[w].seen))
    PROVE  CatInv'
<1>1. /\ Editing(w, record) /\ record \in exists /\ Puts(w, Idle)
      /\ UNCHANGED <<link, exists, notes, toy, rating, told, said, crossed, late, silent, requests>>
  BY DEF CatInv, RowsPart, EditsInHand, Editing, Puts, Write, End
<1>2. request[w].edit \in Edits /\ request[w].seen \in Rows /\ given[record] \in Rows
  BY DEF CatInv, Tables, JobsAreOfParties, CatJobs
<1> DEFINE merged == Merge(request[w].edit, request[w].seen)
           asked == Over(request[w].edit, given[record])
<1>3. merged \in Rows /\ asked \in Rows /\ merged = Over(request[w].edit, request[w].seen)
  BY <1>2, MergedIsRow
<1>4. row' = [row EXCEPT ![record] = merged] /\ given' = [given EXCEPT ![record] = asked]
  BY DEF Write
<1> HIDE DEF merged, asked
<1>5. Tables'
  BY <1>1, <1>3, <1>4 DEF CatInv, Tables
<1>6. JobsAreOfParties'
  BY <1>1, IdleIsJob, PutTyped DEF CatInv
<1>7. \A q \in Records : /\ row'[q] = IF q = record THEN merged ELSE row[q]
                         /\ given'[q] = IF q = record THEN asked ELSE given[q]
  BY <1>4 DEF CatInv, Tables
<1>8. \A v \in Thread : request'[v] = IF v = w THEN Idle ELSE request[v]
  BY <1>1, PutIs DEF CatInv
<1>9. EditsInHand'
  <2> SUFFICES ASSUME NEW u \in Thread, request'[u].op = "edit"
               PROVE  /\ request'[u].record \in exists' \ {"token"}
                      /\ request'[u].record \notin crossed' =>
                            /\ request'[u].seen = row'[request'[u].record]
                            /\ \A v \in Thread : Editing(v, request[u].record)' => v = u
    BY DEF EditsInHand, Editing
  <2>1. u # w /\ request'[u] = request[u]
    BY <1>8, IdleIsJob
  <2>2. request[u].record \notin crossed => record # request[u].record
    BY <1>1, <2>1 DEF CatInv, RowsPart, EditsInHand, Editing
  <2>3. \A v \in Thread : Editing(v, request[u].record)' => Editing(v, request[u].record)
    BY <1>8, <2>1, IdleIsJob DEF Editing
  <2>4. QED
    BY <1>1, <1>7, <2>1, <2>2, <2>3 DEF CatInv, Tables, RowsPart, EditsInHand
<1>10. EditsAreSound'
  <2>1. record \notin crossed => merged = asked
    BY <1>1, <1>3 DEF asked, CatInv, RowsPart, EditsInHand, Editing, EditsAreSound, EditsKeepTheRest
  <2>2. EditsKeepTheRest'
    BY <1>1, <1>7, <2>1 DEF CatInv, Tables, RowsPart, EditsAreSound, EditsKeepTheRest
  <2>3. TemplateStaysValid'
    <3>1. row'["template"] = IF "template" = record THEN merged ELSE row["template"]
      BY <1>7 DEF Records
    <3>2. QED
      BY <1>1, <3>1 DEF merged, CatInv, RowsPart, EditsAreSound, TemplateStaysValid, Valid
  <2>4. QED
    BY <2>2, <2>3 DEF EditsAreSound
<1>11. RemovalPart'
  <2>1. \A v \in Thread : request'[v].op = "remove" => request[v].op = "remove"
    BY <1>8, IdleIsJob
  <2>2. \A v \in Thread : request[v].op = "tell" => request'[v].op = "tell"
    BY <1>1, <1>8 DEF Editing
  <2>3. QED
    BY <1>1, <2>1, <2>2, RemovalsStay DEF CatInv
<1>12. QED
  BY <1>1, <1>5, <1>6, <1>9, <1>10, <1>11 DEF CatInv, RowsPart

\* A worker goes on with no edit, and no row is touched.
LEMMA NoEditSound ==
    ASSUME CatInv, NEW w \in Thread, NEW j \in CatJobs, Puts(w, j),
           j.op # "edit", j.op = "list" => j.record \in Party,
           UNCHANGED <<link, exists, row, notes, rating, given, said, crossed>>,
           toy' \in [requested : BOOLEAN, retired : BOOLEAN], told' \in BOOLEAN, requests' \in 0..MaxRequests,
           late' \in BOOLEAN, silent' \in BOOLEAN, RemovalPart'
    PROVE  CatInv'
<1>1. Tables'
  BY DEF CatInv, Tables
<1>2. JobsAreOfParties'
  BY PutTyped DEF CatInv
<1>3. RowsPart'
  BY RowsStay, PutIs DEF CatInv
<1>4. QED
  BY <1>1, <1>2, <1>3 DEF CatInv

-----------------------------------------------------------------------------
(* Removal of the toy.                                                       *)

LEMMA RemovalReadSound ==
    ASSUME CatInv, NEW w \in Thread, RemovalRead(w)
    PROVE  CatInv'
<1> DEFINE j == [Idle EXCEPT !.op = "remove"]
<1>1. j \in CatJobs /\ j.op = "remove"
  BY IdleIsJob DEF CatJobs, CatOps
<1>2. /\ ~toy.retired /\ ~toy.requested /\ request[w] = Idle /\ Puts(w, j) /\ Count
      /\ UNCHANGED <<link, exists, row, notes, toy, rating, told, given, said, crossed, late, silent>>
  BY DEF RemovalRead, Take, Puts
<1> HIDE DEF j
<1>3. RemovalPart'
  BY <1>2 DEF CatInv, RemovalPart, RemovalsAreSettled
<1>4. QED
  BY <1>1, <1>2, <1>3, CountIs, NoEditSound DEF CatInv, Tables

LEMMA RemovalWriteSound ==
    ASSUME CatInv, NEW w \in Thread, RemovalWrite(w)
    PROVE  CatInv'
<1> DEFINE j == [request[w] EXCEPT !.op = "tell"]
<1>1. j \in CatJobs /\ j.op = "tell"
  BY DEF CatInv, JobsAreOfParties, CatJobs, CatOps
<1>2. /\ request[w].op = "remove" /\ Puts(w, j) /\ ~told'
      /\ toy' = [toy EXCEPT !.requested = TRUE] /\ told' = FALSE
      /\ UNCHANGED <<link, exists, row, notes, rating, requests, given, said, crossed, late, silent>>
  BY DEF CatInv, JobsAreOfParties, RemovalWrite, Puts
<1> HIDE DEF j
<1>3. \A v \in Thread : request'[v] = IF v = w THEN j ELSE request[v]
  BY <1>2, PutIs DEF CatInv
<1>4. toy' \in [requested : BOOLEAN, retired : BOOLEAN] /\ toy'.retired = toy.retired
  BY <1>2 DEF CatInv, Tables
<1>5. RemovalPart'
  <2>1. toy.retired => late
    BY <1>2 DEF CatInv, RemovalPart
  <2>2. request'[w].op = "tell"
    BY <1>1, <1>3
  <2>3. QED
    BY <1>2, <1>4, <2>1, <2>2 DEF RemovalPart, RemovalsAreSettled
<1>6. QED
  BY <1>1, <1>2, <1>4, <1>5, NoEditSound DEF CatInv, Tables

LEMMA RemovalToldSound ==
    ASSUME CatInv, NEW w \in Thread, RemovalTold(w)
    PROVE  CatInv'
<1>1. /\ Puts(w, Idle) /\ told' = (told \/ link = "active") /\ silent' = (silent \/ link # "active")
      /\ UNCHANGED <<link, exists, row, notes, toy, rating, requests, given, said, crossed, late>>
  BY DEF RemovalTold, End, Puts
<1>2. told' \in BOOLEAN /\ silent' \in BOOLEAN /\ (told' \/ silent')
  BY <1>1 DEF CatInv, Tables
<1>3. \A v \in Thread : request'[v].op = "remove" => request[v].op = "remove"
  BY <1>1, PutIs, IdleIsJob DEF CatInv
<1>4. RemovalPart'
  BY <1>1, <1>2, <1>3 DEF CatInv, RemovalPart, RemovalsAreSettled
<1>5. QED
  BY <1>1, <1>2, <1>4, IdleIsJob, NoEditSound DEF CatInv, Tables

\* The keyholder's answers: nothing is requested of the toy any more.
LEMMA AnswerSound ==
    ASSUME CatInv, Retire \/ DeclineRemoval
    PROVE  CatInv'
<1>1. /\ UNCHANGED <<link, exists, row, notes, rating, told, request, requests, given, said, crossed>>
      /\ silent' = FALSE
  BY DEF Retire, DeclineRemoval
<1>2. /\ toy' \in [requested : BOOLEAN, retired : BOOLEAN] /\ ~toy'.requested
      /\ \/ late' = late /\ toy'.retired = toy.retired
         \/ late' = (late \/ \E w \in Thread : request[w].op = "remove")
  <2>1. CASE Retire
    BY <2>1 DEF Retire, RetireRow
  <2>2. CASE DeclineRemoval
    BY <2>2 DEF CatInv, Tables, DeclineRemoval, DeclineRow
  <2>3. QED
    BY <2>1, <2>2
<1>3. Tables'
  BY <1>1, <1>2 DEF CatInv, Tables
<1>4. RemovalPart'
  BY <1>1, <1>2 DEF CatInv, RemovalPart, RemovalsAreSettled
<1>5. QED
  BY <1>1, <1>3, <1>4, RowsStay DEF CatInv, JobsAreOfParties

-----------------------------------------------------------------------------
(* Ratings, and the other steps.                                             *)

LEMMA RateSound ==
    ASSUME CatInv, NEW party \in Party, NEW i \in Item \cup Seed,
           NEW value \in Ratings, Rate(party, i, value)
    PROVE  CatInv'
<1>1. /\ rating' = [rating EXCEPT ![party][i] = value] /\ said' = [said EXCEPT ![party][i] = value]
      /\ UNCHANGED <<link, exists, row, notes, toy, told, request, given, crossed, late, silent>>
      /\ requests' \in 0..MaxRequests
  BY CountIs DEF CatInv, Rate
<1>2. rating' = said' /\ rating' \in [Party -> [Item \cup Seed -> Ratings]]
  BY <1>1 DEF CatInv, Tables
<1>3. Tables'
  BY <1>1, <1>2 DEF CatInv, Tables
<1>4. QED
  BY <1>1, <1>2, <1>3, RowsStay, RemovalsStay DEF CatInv, JobsAreOfParties

LEMMA ListSound ==
    ASSUME CatInv, NEW w \in Thread, NEW party \in Party, ListItems(w, party)
    PROVE  CatInv'
<1> DEFINE j == [Idle EXCEPT !.op = "list", !.record = party, !.list = [i \in Listed |-> "none"]]
<1>1. [i \in Listed |-> "none"] \in Lists
  <2>1. Listed \in SUBSET (Item \cup Seed)
    BY DEF Listed
  <2>2. QED
    BY <2>1, PairedIsList DEF Ratings
<1>2. j \in CatJobs /\ j.op = "list" /\ j.record \in Party
  BY <1>1, IdleIsJob DEF CatJobs, CatOps, Records
<1>3. /\ request[w] = Idle /\ Puts(w, j) /\ Count
      /\ UNCHANGED <<link, exists, row, notes, toy, rating, told, given, said, crossed, late, silent>>
  BY DEF ListItems, Take, Puts
<1> HIDE DEF j
<1>4. \A v \in Thread : request'[v] = IF v = w THEN j ELSE request[v]
  BY <1>3, PutIs DEF CatInv
<1>5. RemovalPart'
  BY <1>2, <1>3, <1>4, IdleIsJob, RemovalsStay DEF CatInv
<1>6. QED
  BY <1>2, <1>3, <1>5, CountIs, NoEditSound DEF CatInv, Tables

LEMMA AddRatingsSound ==
    ASSUME CatInv, NEW w \in Thread, AddRatings(w)
    PROVE  /\ CatInv'
           /\ \A i \in DOMAIN request'[w].list : request'[w].list[i] = said[request[w].record][i]
<1> DEFINE items == DOMAIN request[w].list
           list == Paired(request[w].record, items)
           j == [request[w] EXCEPT !.op = "answer", !.list = list]
<1>1. request[w] \in CatJobs /\ request[w].op = "list" /\ request[w].record \in Party
  BY DEF CatInv, JobsAreOfParties, AddRatings
<1>2. items \in SUBSET (Item \cup Seed)
  BY <1>1 DEF CatJobs, Lists
<1>3. list \in Lists /\ list = [i \in items |-> said[request[w].record][i]]
  <2>1. list = [i \in items |-> rating[request[w].record][i]]
    BY DEF Paired
  <2>2. list \in [items -> Ratings]
    BY <1>1, <1>2, <2>1 DEF CatInv, Tables
  <2>3. QED
    BY <1>2, <2>1, <2>2, PairedIsList DEF CatInv
<1> HIDE DEF list
<1>4. j \in CatJobs /\ j.op = "answer" /\ j.list = list
  BY <1>1, <1>3 DEF CatJobs, CatOps
<1>5. /\ Puts(w, j)
      /\ UNCHANGED <<link, exists, row, notes, toy, rating, told, requests, given, said, crossed, late, silent>>
  BY DEF CatInv, JobsAreOfParties, AddRatings, Puts, list
<1> HIDE DEF j
<1>6. \A v \in Thread : request'[v] = IF v = w THEN j ELSE request[v]
  BY <1>5, PutIs DEF CatInv
<1>7. RemovalPart'
  BY <1>1, <1>4, <1>5, <1>6, RemovalsStay DEF CatInv
<1>8. CatInv'
  BY <1>4, <1>5, <1>7, NoEditSound DEF CatInv, Tables
<1>9. QED
  BY <1>3, <1>4, <1>6, <1>8

LEMMA LeaveSound ==
    ASSUME CatInv, NEW w \in Thread, Leave(w)
    PROVE  CatInv'
<1>1. /\ Puts(w, Idle) /\ silent' = (silent \/ request[w].op = "tell")
      /\ UNCHANGED <<link, exists, row, notes, toy, rating, told, requests, given, said, crossed, late>>
  BY DEF Leave, End, Puts
<1>2. \A v \in Thread : request'[v] = IF v = w THEN Idle ELSE request[v]
  BY <1>1, PutIs DEF CatInv
<1>3. RemovalPart'
  <2>1. silent' \/ \A v \in Thread : request[v].op = "tell" => request'[v].op = "tell"
    BY <1>1, <1>2
  <2>2. QED
    BY <1>1, <1>2, <2>1, IdleIsJob, RemovalsStay DEF CatInv
<1>4. silent' \in BOOLEAN
  BY <1>1 DEF CatInv, Tables
<1>5. QED
  BY <1>1, <1>3, <1>4, IdleIsJob, NoEditSound DEF CatInv, Tables

\* What touches no more than the link's status, the notes and the count.
LEMMA QuietSound ==
    ASSUME CatInv, link' \in {"active", "paused", "ended"}, notes' \in {0, 1}, requests' \in 0..MaxRequests,
           UNCHANGED <<exists, row, toy, rating, told, request, given, said, crossed, late, silent>>
    PROVE  CatInv'
BY RowsStay, RemovalsStay DEF CatInv, Tables, JobsAreOfParties

-----------------------------------------------------------------------------
(* Who calls them.                                                           *)

LEMMA MakeSound ==
    ASSUME CatInv,
           CreateToy \/ CreateTemplate \/ CreatePlan \/ CreateItem \/ CreateToken
    PROVE  CatInv'
<1>1. CASE CreateToy
  BY <1>1, CreateSound, BlankIsRow DEF CreateToy, Records
<1>2. CASE CreateTemplate
  BY <1>2, CreateSound DEF CreateTemplate, InsertTemplate, Records
<1>3. CASE CreatePlan
  BY <1>3, CreateSound DEF CreatePlan, InsertPlan, Records
<1>4. CASE CreateItem
  <2>1. PICK i \in Item : Create(i, [Blank EXCEPT !["mark"] = 1])
    BY <1>4 DEF CreateItem, InsertItem
  <2>2. i \in Records /\ i # "template" /\ [Blank EXCEPT !["mark"] = 1] \in Rows
    BY BlankIsRow, CatalogAssumption DEF Records, Rows
  <2>3. QED
    BY <2>1, <2>2, CreateSound
<1>5. CASE CreateToken
  BY <1>5, CreateSound DEF CreateToken, InsertToken, Records
<1>6. QED
  BY <1>1, <1>2, <1>3, <1>4, <1>5

LEMMA ToySound ==
    ASSUME CatInv, NEW w \in Thread, ToyRoutes(w)
    PROVE  CatInv'
<1>1. "toy" \in Records \ {"token"} /\ "toy" # "template"
  BY DEF Records
<1>2. CASE CreateOwnToy \/ CreateToyForKeyholder
  BY <1>2, MakeSound DEF CreateOwnToy, CreateToyForKeyholder
<1>3. ASSUME NEW by \in Party, \/ \E value \in {0, 1} : PatchToy(w, by, value)
                               \/ UploadPhoto(w, by) \/ DeletePhoto(w, by)
      PROVE  CatInv'
  <2>1. PICK edit \in Edits : Read(w, "toy", edit)
    <3>1. \A c \in Columns, value \in {0, 1} : [k \in {c} |-> value] \in Edits
      BY NamedIsEdit
    <3>2. QED
      BY <1>3, <3>1 DEF PatchToy, UploadPhoto, DeletePhoto, Columns
  <2>2. QED
    BY <1>1, <2>1, ReadSound
<1>4. CASE UpdateToy(w)
  BY <1>1, <1>4, WriteSound DEF UpdateToy
<1>5. CASE RemoveToy(w)
  BY <1>5, RemovalReadSound, RemovalWriteSound, RemovalToldSound DEF RemoveToy
<1>6. CASE Retire \/ DeclineRemoval
  BY <1>6, AnswerSound
<1>7. QED
  BY <1>2, <1>3, <1>4, <1>5, <1>6 DEF ToyRoutes

LEMMA ProfileSound ==
    ASSUME CatInv, NEW w \in Thread, ProfileRoutes(w)
    PROVE  CatInv'
<1>1. \A by \in Party : by \in Records \ {"token"} /\ by # "template"
  BY DEF Records, Party
<1>2. ASSUME NEW by \in Party, NEW edit \in Edits, PatchProfile(w, by, edit) PROVE CatInv'
  BY <1>1, <1>2, ReadSound DEF PatchProfile
<1>3. CASE UpdateKeyholderProfile(w) \/ UpdateSubmissiveProfile(w)
  BY <1>1, <1>3, WriteSound DEF UpdateKeyholderProfile, UpdateSubmissiveProfile, Party
<1>4. ASSUME NEW value \in {0, 1}, WriteNotes(value) PROVE CatInv'
  BY <1>4, CountIs, QuietSound DEF CatInv, Tables, WriteNotes, UpdateKeyholderNotes
<1>5. QED
  BY <1>2, <1>3, <1>4 DEF ProfileRoutes

LEMMA TemplateSound ==
    ASSUME CatInv, NEW w \in Thread, TemplateRoutes(w) \/ PlanRoutes(w)
    PROVE  CatInv'
<1>1. {"template", "plan"} \subseteq Records \ {"token"} /\ "plan" # "template"
  BY DEF Records
<1>2. CASE CreateTemplate \/ CreatePlan
  BY <1>2, MakeSound
<1>3. ASSUME NEW edit \in Edits, PatchTemplate(w, edit) \/ PatchPlan(w, edit) PROVE CatInv'
  BY <1>1, <1>3, ReadSound DEF PatchTemplate, PatchPlan
<1>4. CASE UpdateTemplate(w) \/ UpdatePlan(w)
  BY <1>1, <1>4, WriteSound DEF UpdateTemplate, UpdatePlan
<1>5. QED
  BY <1>2, <1>3, <1>4 DEF TemplateRoutes, PlanRoutes

LEMMA LimitSound ==
    ASSUME CatInv, NEW w \in Thread, LimitRoutes(w)
    PROVE  CatInv'
<1>1. \A i \in Item : i \in Records \ {"token"} /\ i # "template"
  BY CatalogAssumption DEF Records
<1>2. CASE CreateItem
  BY <1>2, MakeSound
<1>3. ASSUME NEW i \in Item, NEW edit \in Edits, PatchItem(w, i, edit) PROVE CatInv'
  BY <1>1, <1>3, ReadSound DEF PatchItem
<1>4. CASE UpdateItem(w)
  BY <1>1, <1>4, WriteSound DEF UpdateItem
<1>5. ASSUME NEW i \in Item \cup Seed,
             \/ SetRating(i) \/ ClearRating(i)
             \/ SetKeyholderRating(i) \/ ClearKeyholderRating(i)
      PROVE  CatInv'
  <2>1. PICK party \in Party, value \in Ratings : Rate(party, i, value)
    BY <1>5 DEF SetRating, ClearRating, SetKeyholderRating, ClearKeyholderRating,
                DeleteRating, UpsertKeyholderRating, DeleteKeyholderRating,
                Party, Ratings
  <2>2. QED
    BY <2>1, RateSound
<1>6. CASE ListOwnItems(w) \/ ListRatingsForKeyholder(w) \/ ListKeyholderItems(w)
  BY <1>6, ListSound DEF ListOwnItems, ListRatingsForKeyholder, ListKeyholderItems, Party
<1>7. CASE AddRatings(w)
  BY <1>7, AddRatingsSound
<1>8. QED
  BY <1>2, <1>3, <1>4, <1>5, <1>6, <1>7 DEF LimitRoutes

LEMMA CatNext == CatInv /\ [CatalogNext]_catalogVars => CatInv'
<1> SUFFICES ASSUME CatInv, [CatalogNext]_catalogVars PROVE CatInv'
  OBVIOUS
<1>1. CASE TokenRoutes
  BY <1>1, MakeSound, PatchTokenSound DEF TokenRoutes, PatchToken
<1>2. ASSUME NEW status \in {"paused", "ended"}, ChangeLink(status) PROVE CatInv'
  BY <1>2, QuietSound DEF ChangeLink, CatInv, Tables
<1>3. CASE UNCHANGED catalogVars
  BY <1>3, QuietSound DEF catalogVars, CatInv, Tables
<1>4. QED
  BY <1>1, <1>2, <1>3, ToySound, ProfileSound, TemplateSound, LimitSound, LeaveSound DEF CatalogNext

-----------------------------------------------------------------------------
(* Lists.                                                                    *)

\* A step that answers no list.
AnswersNone == \A v \in Thread : request'[v].op = "answer" => request'[v] = request[v]

LEMMA PutAnswersNone ==
    ASSUME CatInv, NEW w \in Thread, NEW j, j.op # "answer", Puts(w, j)
    PROVE  AnswersNone
BY PutIs DEF CatInv, AnswersNone

LEMMA ReadAnswersNone ==
    ASSUME CatInv, NEW w \in Thread, NEW record, NEW edit, Read(w, record, edit)
    PROVE  AnswersNone
<1> DEFINE j == [Idle EXCEPT !.op = "edit", !.record = record, !.seen = row[record], !.edit = edit]
<1>1. j.op = "edit"
  BY DEF Idle
<1>2. Puts(w, j)
  BY DEF Read, Take, Puts
<1> HIDE DEF j
<1>3. QED
  BY <1>1, <1>2, PutAnswersNone

LEMMA WriteAnswersNone ==
    ASSUME CatInv, NEW w \in Thread, NEW record, Write(w, record)
    PROVE  AnswersNone
<1>1. Puts(w, Idle)
  BY DEF Write, End, Puts
<1>2. QED
  BY <1>1, IdleIsJob, PutAnswersNone

LEMMA ToyAnswersNone == ASSUME CatInv, NEW w \in Thread, ToyRoutes(w) PROVE AnswersNone
<1>1. CASE CreateOwnToy \/ CreateToyForKeyholder \/ Retire \/ DeclineRemoval
  BY <1>1 DEF CreateOwnToy, CreateToyForKeyholder, CreateToy, Create, Retire,
              DeclineRemoval, AnswersNone
<1>2. ASSUME NEW by \in Party, \/ \E value \in {0, 1} : PatchToy(w, by, value)
                               \/ UploadPhoto(w, by) \/ DeletePhoto(w, by)
      PROVE  AnswersNone
  BY <1>2, ReadAnswersNone DEF PatchToy, UploadPhoto, DeletePhoto
<1>3. CASE UpdateToy(w)
  BY <1>3, WriteAnswersNone DEF UpdateToy
<1>4. CASE RemoveToy(w)
  <2>1. CASE RemovalRead(w)
    <3>1. Puts(w, [Idle EXCEPT !.op = "remove"])
      BY <2>1 DEF RemovalRead, Take, Puts
    <3>2. [Idle EXCEPT !.op = "remove"].op = "remove"
      BY DEF Idle
    <3>3. QED
      BY <3>1, <3>2, PutAnswersNone
  <2>2. CASE RemovalWrite(w)
    <3>1. Puts(w, [request[w] EXCEPT !.op = "tell"])
      BY <2>2 DEF CatInv, JobsAreOfParties, RemovalWrite, Puts
    <3>2. [request[w] EXCEPT !.op = "tell"].op = "tell"
      BY DEF CatInv, JobsAreOfParties, CatJobs
    <3>3. QED
      BY <3>1, <3>2, PutAnswersNone
  <2>3. CASE RemovalTold(w)
    BY <2>3, IdleIsJob, PutAnswersNone DEF RemovalTold, End, Puts
  <2>4. QED
    BY <1>4, <2>1, <2>2, <2>3 DEF RemoveToy
<1>5. QED
  BY <1>1, <1>2, <1>3, <1>4 DEF ToyRoutes

LEMMA ListAnswersNone ==
    ASSUME CatInv, NEW w \in Thread, NEW party, ListItems(w, party)
    PROVE  AnswersNone
<1> DEFINE j == [Idle EXCEPT !.op = "list", !.record = party, !.list = [i \in Listed |-> "none"]]
<1>1. j.op = "list"
  BY DEF Idle
<1>2. Puts(w, j)
  BY DEF ListItems, Take, Puts
<1> HIDE DEF j
<1>3. QED
  BY <1>1, <1>2, PutAnswersNone

LEMMA LimitAnswers ==
    ASSUME CatInv, NEW w \in Thread, LimitRoutes(w)
    PROVE  AnswersNone \/ AddRatings(w)
<1>1. CASE CreateItem
  BY <1>1 DEF CreateItem, InsertItem, Create, AnswersNone
<1>2. ASSUME NEW i \in Item \cup Seed,
             \/ SetRating(i) \/ ClearRating(i)
             \/ SetKeyholderRating(i) \/ ClearKeyholderRating(i)
      PROVE  AnswersNone
  BY <1>2 DEF SetRating, ClearRating, SetKeyholderRating, ClearKeyholderRating,
              DeleteRating, UpsertKeyholderRating, DeleteKeyholderRating, Rate, AnswersNone
<1>3. ASSUME NEW i \in Item, NEW edit \in Edits, PatchItem(w, i, edit) PROVE AnswersNone
  BY <1>3, ReadAnswersNone DEF PatchItem
<1>4. CASE UpdateItem(w)
  BY <1>4, WriteAnswersNone DEF UpdateItem
<1>5. CASE ListOwnItems(w) \/ ListRatingsForKeyholder(w) \/ ListKeyholderItems(w)
  BY <1>5, ListAnswersNone DEF ListOwnItems, ListRatingsForKeyholder, ListKeyholderItems
<1>6. QED
  BY <1>1, <1>2, <1>3, <1>4, <1>5 DEF LimitRoutes

\* The ratings of a list are those its party last asked for.
CurrentStep ==
    \A w \in Thread : request[w].op = "list" /\ request'[w].op = "answer" =>
        \A i \in DOMAIN request'[w].list : request'[w].list[i] = said[request[w].record][i]

LEMMA CatStep == CatInv /\ [CatalogNext]_catalogVars => CurrentStep
<1> SUFFICES ASSUME CatInv, [CatalogNext]_catalogVars PROVE CurrentStep
  OBVIOUS
<1>1. ASSUME AnswersNone PROVE CurrentStep
  BY <1>1 DEF AnswersNone, CurrentStep
<1>2. ASSUME NEW w \in Thread, ProfileRoutes(w) \/ TemplateRoutes(w) \/ PlanRoutes(w)
      PROVE  AnswersNone
  <2>1. CASE ProfileRoutes(w)
    BY <2>1, ReadAnswersNone, WriteAnswersNone
    DEF ProfileRoutes, PatchProfile, UpdateKeyholderProfile, UpdateSubmissiveProfile,
        WriteNotes, AnswersNone
  <2>2. CASE TemplateRoutes(w)
    BY <2>2, ReadAnswersNone, WriteAnswersNone
    DEF TemplateRoutes, CreateTemplate, InsertTemplate, Create, PatchTemplate,
        UpdateTemplate, AnswersNone
  <2>3. CASE PlanRoutes(w)
    BY <2>3, ReadAnswersNone, WriteAnswersNone
    DEF PlanRoutes, CreatePlan, InsertPlan, Create, PatchPlan, UpdatePlan,
        AnswersNone
  <2>4. QED
    BY <1>2, <2>1, <2>2, <2>3
<1>3. ASSUME NEW w \in Thread, LimitRoutes(w) PROVE CurrentStep
  <2>1. CASE AddRatings(w)
    <3>1. Puts(w, request'[w])
      BY <2>1 DEF CatInv, JobsAreOfParties, AddRatings, Puts
    <3>2. \A v \in Thread : v # w => request'[v] = request[v]
      BY <3>1, PutIs DEF CatInv
    <3>3. QED
      BY <2>1, <3>2, AddRatingsSound DEF CurrentStep
  <2>2. QED
    BY <1>1, <1>3, <2>1, LimitAnswers
<1>4. ASSUME NEW w \in Thread, Leave(w) PROVE AnswersNone
  BY <1>4, IdleIsJob, PutAnswersNone DEF Leave, End, Puts
<1>5. ASSUME TokenRoutes \/ \E status \in {"paused", "ended"} : ChangeLink(status) PROVE AnswersNone
  BY <1>5 DEF TokenRoutes, CreateToken, InsertToken, Create, PatchToken,
              UpdateToken, ChangeLink, AnswersNone
<1>6. ASSUME UNCHANGED catalogVars PROVE AnswersNone
  BY <1>6 DEF catalogVars, AnswersNone
<1>7. QED
  BY <1>1, <1>2, <1>3, <1>4, <1>5, <1>6, ToyAnswersNone DEF CatalogNext

-----------------------------------------------------------------------------
\* Every reachable state is well typed: what a request read, names and lists is of the columns
\* and the items there are, for any items and workers.
THEOREM CatalogTypeCorrect == CatalogSpec => []CatalogTypeOK
BY CatInit, CatNext, CatSound, PTL DEF CatalogSpec

\* An edit keeps what it does not name, unless two of the record overlapped; the template is
\* always one that create would accept, whatever edits of it overlap; and a request to remove
\* the toy is settled, or the history says why not.
THEOREM RowsAlwaysSound == CatalogSpec => []RowsAreSound
BY CatInit, CatNext, CatSound, PTL DEF CatalogSpec

\* A list that is answered shows of each item the rating its party last asked for, whatever is
\* rated and edited between its two queries.
THEOREM ListsAlwaysCurrent == CatalogSpec => ListsAreCurrent
<1>1. CatInv /\ [CatalogNext]_catalogVars => [CurrentStep]_catalogVars
  BY CatStep
<1>2. ListsAreCurrent <=> [][CurrentStep]_catalogVars
  BY DEF ListsAreCurrent, CurrentStep
<1>3. QED
  BY <1>1, <1>2, CatInit, CatNext, PTL DEF CatalogSpec
=============================================================================
