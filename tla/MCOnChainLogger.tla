--------------------------- MODULE MCOnChainLogger ---------------------------
(* Finite values for the constants of OnChainLogger.                       *)
EXTENDS OnChainLogger

CONSTANTS r1, r2, r3, h1, h2, short, long

\* Two rules matched one whale, a third one another.
ThreeRows == {r1, r2, r3}
TwoHashes == {h1, h2}

\* Token symbols: one that fits a slot with its length, one that takes a slot of its own.
Symbols == {short, long}

\* In thousands of gas, a new slot costs 22; an Alert has six fields.
FieldsGas == [p \in Payloads |-> IF p = long THEN 7 * 22 ELSE 6 * 22]

WhaleOf == [r \in ThreeRows |-> IF r = r3 THEN h2 ELSE h1]
SymbolOf == [r \in ThreeRows |-> IF r = r3 THEN long ELSE short]
=============================================================================
