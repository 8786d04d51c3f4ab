-------------------------- MODULE MCAlertPipeline --------------------------
(* Finite values for the constants of AlertPipeline.                       *)
EXTENDS AlertPipeline

\* A rule of one user, and a swap it matches.
OneOwner == [r \in Rules |-> CHOOSE u \in Users : TRUE]
OneAsk   == [r \in Rules |-> 2]
OneWhale == [w \in {<<SWAP, 4>>} |-> 2]
AllMatch == [w \in Whales |-> Rules]
=============================================================================
