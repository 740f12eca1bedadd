---------------------------- MODULE MCVerification ----------------------------
(* Small instances of Verification for TLC: a day of two ticks, over its end.  *)
EXTENDS Verification, TLC

\* Under the daily policy there is no grace: a code is past use once it has expired.
Of(kind) == [kind |-> kind, every |-> 1, times |-> {0, 1},
             onDemand |-> kind # "interval_hours", ttl |-> 1,
             grace |-> IF kind \in Daily THEN 0 ELSE 1]
MCDefault == Of("on_demand_only")
MCPolicies == {Of(k) : k \in Kinds \ {"random_within_window"}}
MCWindow == [d \in 0..4 |-> d % 2]

CodeIds == Permutations(Code) \cup Permutations(Submission)
=============================================================================
