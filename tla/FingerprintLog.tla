--------------------------- MODULE FingerprintLog ---------------------------
(***************************************************************************)
(* What the on-chain registry promises: a list of fingerprints that only   *)
(* grows, one for each alert hash, none of which ever changes.             *)
(***************************************************************************)
EXTENDS Sequences, Integers

CONSTANTS Hashes, Details      \* alert hashes, and what is stored with one

VARIABLE log

Entry(h, d) == [hash |-> h, details |-> d]

Fresh(h) == \A i \in 1..Len(log) : log[i].hash # h

Init == log = <<>>

Record(h, d) ==
  /\ Fresh(h)
  /\ log' = Append(log, Entry(h, d))

Next == \E h \in Hashes, d \in Details : Record(h, d)

Spec == Init /\ [][Next]_log
=============================================================================
