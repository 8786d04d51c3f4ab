----------------------------- MODULE MCRuleBook -----------------------------
(* Finite values for the constants of RuleBook.                            *)
EXTENDS RuleBook

CONSTANTS a1, a2, b1

\* Two event types of one token, and another token.
ThreeSlots == {a1, a2, b1}
TwoTokens == [r \in ThreeSlots |-> IF r = b1 THEN {b1} ELSE {a1, a2}]
=============================================================================
