---------------------------- MODULE AlertLedger ----------------------------
(***************************************************************************)
(* What the alert engines promise together, however many of them run.      *)
(*                                                                         *)
(* A key is a rule and an on-chain action.  Messages about a key may reach *)
(* the user as long as the key is undecided; once it is decided its status *)
(* never changes and no further message is sent.  SENT is only recorded    *)
(* for a key the user did get a message about.                             *)
(***************************************************************************)
EXTENDS Naturals

CONSTANTS Keys, Undecided, Sent, Outcomes

VARIABLES
  decision,       \* the status recorded for each key, or Undecided
  messages        \* how many messages about each key reached the user

ledgerVars == <<decision, messages>>

Init ==
  /\ decision = [k \in Keys |-> Undecided]
  /\ messages = [k \in Keys |-> 0]

Tell(k) ==
  /\ decision[k] = Undecided
  /\ messages' = [messages EXCEPT ![k] = @ + 1]
  /\ UNCHANGED decision

\* Some undecided keys are decided together: one transaction commits.
Decide ==
  /\ decision' \in [Keys -> {Undecided} \cup Outcomes]
  /\ \A k \in Keys : decision[k] # Undecided => decision'[k] = decision[k]
  /\ \A k \in Keys : decision'[k] = Sent => messages[k] > 0
  /\ UNCHANGED messages

Next == Decide \/ \E k \in Keys : Tell(k)

Spec == Init /\ [][Next]_ledgerVars
=============================================================================
