------------------------------- MODULE Passes -------------------------------
(***************************************************************************)
(* What signed tokens promise to those who hand them out: a token can be   *)
(* used from the moment it is issued until it is spent, whether because it *)
(* was denied or because its time is over, and is never of use again.      *)
(***************************************************************************)
CONSTANT Pass

VARIABLES usable, spent

Init == usable = {} /\ spent = {}

IssueAndSpend(new, old) ==
    /\ new \subseteq Pass \ (usable \cup spent)
    /\ old \subseteq usable
    /\ usable' = (usable \cup new) \ old
    /\ spent' = spent \cup old

Next == \E new, old \in SUBSET Pass : IssueAndSpend(new, old)

Spec == Init /\ [][Next]_<<usable, spent>>
=============================================================================
