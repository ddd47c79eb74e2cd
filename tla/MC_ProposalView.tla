-------------------------- MODULE MC_ProposalView --------------------------
(* Model values for ProposalView.                                         *)
EXTENDS ProposalView

CONSTANTS q1, q2, q3, v1, v2, v3, empty, noprop

ThreeProps == {q1, q2, q3}

(* Every proposal has a name of its own.                                  *)
UniqueNames == [p \in ThreeProps |-> IF p = q1 THEN "alpha" ELSE IF p = q2 THEN "beta" ELSE "gamma"]

VoteIdsOf == [p \in ThreeProps |-> IF p = q1 THEN v1 ELSE IF p = q2 THEN v2 ELSE v3]

(* The table sorted on the name column.                                   *)
NameOrder == [p \in ThreeProps |-> IF p = q1 THEN 1 ELSE IF p = q2 THEN 2 ELSE 3]

EmptyText == ""

TwoFilters == {EmptyText, "al"}

(* "al" matches the row named alpha.                                      *)
FilterMatch == [f \in TwoFilters |-> IF f = "" THEN ThreeProps ELSE {q1}]
=============================================================================
