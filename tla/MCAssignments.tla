---------------------------- MODULE MCAssignments ----------------------------
(* Small instances of Assignments for TLC. *)
EXTENDS Assignments, TLC

CONSTANTS proof, ack, grant, leaf      \* templates

\* The leaf, where it is a template, ends the chains: of what the proof and the
\* acknowledged task do on failure, of what the others do on completion.
MCForm == [t \in Template |->
    CASE t = proof -> "proof_required"
      [] t = ack -> "acknowledge_only"
      [] t = grant -> "grant"
      [] t = leaf -> "immediate"]
MCSecs == [t \in Template |-> 0]
MCScored == [t \in Template |-> t \in {proof, ack, leaf}]
MCOnSuccess == [t \in Template |->
    IF t \in {ack, grant} /\ leaf \in Template THEN leaf ELSE NoTemplate]
MCOnFailure == [t \in Template |->
    IF t \in {proof, ack} /\ leaf \in Template THEN leaf ELSE NoTemplate]

\* What the two workers serve: besides submissions, edits of the deadline, of
\* the escalation, or the oversight pause.
CONSTANTS w1, w2
MCEscalations == w1 :> {"submit", "edit_escalation"} @@ w2 :> {"submit"}
MCPausing == w1 :> {"submit", "oversight"} @@ w2 :> {"edit_deadline"}

Ids == Permutations(Assignment) \cup Permutations(Submission)
=============================================================================
