--------------------------- MODULE MCAlertEngine ---------------------------
(* Finite values for the constants of AlertEngine.                         *)
EXTENDS AlertEngine

\* Every rule is of the same user and matches every whale.
OneOwner == [r \in Rules |-> CHOOSE u \in Users : TRUE]
AllMatch == [w \in Whales |-> Rules]
=============================================================================
