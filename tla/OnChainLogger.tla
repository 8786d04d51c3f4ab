--------------------------- MODULE OnChainLogger ---------------------------
(***************************************************************************)
(* backend/alerts/onchain_logger.py: backend processes that share one      *)
(* reporter key send logAlert transactions to a node, which mines them on  *)
(* the contract AlertLogger.                                               *)
(*                                                                         *)
(* A row is a row of alert_history: the engine calls log_alert once for it *)
(* and stores the transaction hash it gets back (engine.py:117-119).       *)
(* _send makes two calls to the node in turn, for the nonce and for        *)
(* sending; other processes and the chain move between them.               *)
(***************************************************************************)
EXTENDS AlertLogger, FiniteSets

CONSTANTS
  Writers,        \* backend processes with ENABLE_ONCHAIN_LOGGING
  Reporter,       \* the account of ALERT_LOGGER_PRIVATE_KEY
  Rows,           \* rows of alert_history
  HashOf,         \* [Rows -> Hashes]: dedup_key of the row's whale
  PayloadOf,      \* [Rows -> Payloads]: symbol, value and transaction hash of the whale
  Prices,         \* gas prices the node may quote
  GasLimit,       \* "gas" of every transaction; it is not estimated
  None,
  MaxOwnerCalls   \* bound on the calls of the owner

ASSUME LoggerAssumption ==
  /\ Reporter \in Accounts
  /\ HashOf \in [Rows -> Hashes]
  /\ PayloadOf \in [Rows -> Payloads]
  /\ Prices \subseteq Nat
  /\ GasLimit \in Nat
  /\ None \notin Rows
  /\ MaxOwnerCalls \in Nat

VARIABLES
  ready,          \* whether a writer's contract object was built
  row,            \* the row a writer is working for
  nonce,          \* the nonce it has read, or -1
  todo,           \* rows log_alert was not yet called for
  recorded,       \* onchain_log_tx of each row
  pool,           \* transactions of the reporter that are not mined
  count,          \* transactions of the reporter that are mined
  ownerCalls,
  replaced,       \* history: transactions another one took the place of
  refused,        \* history: mined while the reporter was not authorized
  starved         \* history: mined with too little gas for a call that was in order

clientVars == <<ready, row, nonce, todo, recorded>>
nodeVars == <<pool, count, replaced, refused, starved>>
vars == <<contractVars, clientVars, nodeVars, ownerCalls>>

Transactions ==
  [nonce : Nat, hash : Hashes, payload : Payloads, gas : {GasLimit}, price : Prices]

Init ==
  /\ Constructor
  /\ ready = [w \in Writers |-> "unknown"]
  /\ row = [w \in Writers |-> None]
  /\ nonce = [w \in Writers |-> -1]
  /\ todo = Rows
  /\ recorded = [r \in Rows |-> {}]
  /\ pool = {} /\ count = 0
  /\ ownerCalls = 0
  /\ replaced = {} /\ refused = {} /\ starved = {}

-----------------------------------------------------------------------------
(* The client.                                                             *)

\* _ensure_ready: a failure to build the contract object disables the logger for
\* good; once it is built, it is used.
CallLogAlert(w, r) ==
  /\ row[w] = None /\ r \in todo
  /\ todo' = todo \ {r}
  /\ \/ /\ ready[w] # "no"
        /\ ready' = [ready EXCEPT ![w] = "yes"]
        /\ row' = [row EXCEPT ![w] = r]
     \/ /\ ready[w] # "yes"
        /\ ready' = [ready EXCEPT ![w] = "no"]
        /\ UNCHANGED row
  /\ UNCHANGED <<contractVars, nonce, recorded, nodeVars, ownerCalls>>

\* get_transaction_count counts mined transactions ("latest").
NonceAfterPool == count + Cardinality(pool) + 1      \* mutant: leaves a gap
NextNonce == count

ReadNonce(w) ==
  /\ row[w] # None /\ nonce[w] = -1
  /\ nonce' = [nonce EXCEPT ![w] = NextNonce]
  /\ UNCHANGED <<contractVars, ready, row, todo, recorded, nodeVars, ownerCalls>>

Return(w) ==
  /\ row' = [row EXCEPT ![w] = None]
  /\ nonce' = [nonce EXCEPT ![w] = -1]
  /\ UNCHANGED <<contractVars, ready, todo, count, refused, starved, ownerCalls>>

\* The node takes a transaction whose nonce was not mined, in the place of one
\* with the same nonce and a lower price.
Rivals(tx) == {other \in pool : other.nonce = tx.nonce}
Accepts(tx) ==
  /\ tx.nonce >= count
  /\ \A other \in Rivals(tx) : other.price < tx.price

\* build_transaction.
Transaction(w, g) ==
  [nonce |-> nonce[w], hash |-> HashOf[row[w]], payload |-> PayloadOf[row[w]],
   gas |-> GasLimit, price |-> g]

\* send_raw_transaction; the answer may be lost.
Send(w) ==
  /\ nonce[w] # -1
  /\ \E g \in Prices :
       LET tx == Transaction(w, g)
       IN /\ Accepts(tx)
          /\ pool' = (pool \ Rivals(tx)) \cup {tx}
          /\ replaced' = replaced \cup Rivals(tx)
          /\ \/ recorded' = [recorded EXCEPT ![row[w]] = {tx}]
             \/ UNCHANGED recorded
  /\ Return(w)

\* mutant: the hash is returned although sending failed
SendFailsRecorded(w) ==
  /\ nonce[w] # -1
  /\ \E g \in Prices : recorded' = [recorded EXCEPT ![row[w]] = {Transaction(w, g)}]
  /\ Return(w)
  /\ UNCHANGED <<pool, replaced>>
\* An RPC call raises, or the node refuses the transaction: log_alert gives None.
SendFails(w) ==
  /\ row[w] # None
  /\ Return(w)
  /\ UNCHANGED <<recorded, pool, replaced>>

-----------------------------------------------------------------------------
(* The chain.                                                              *)

OutOfGas(tx) == LogAlertGas(tx.payload) > tx.gas

\* A transaction that reverts uses up its nonce all the same; nobody asks for its receipt.
Mine(tx) ==
  /\ tx \in pool /\ tx.nonce = count
  /\ pool' = pool \ {tx}
  /\ count' = count + 1
  /\ \/ /\ ~OutOfGas(tx)
        /\ LogAlert(Reporter, tx.hash, tx.payload)
        /\ UNCHANGED <<refused, starved>>
     \/ /\ LogAlertReverts(Reporter, tx.hash)
        /\ refused' = IF OnlyAuthorized(Reporter) THEN refused ELSE refused \cup {tx}
        /\ UNCHANGED <<contractVars, starved>>
     \/ /\ ~LogAlertReverts(Reporter, tx.hash) /\ OutOfGas(tx)
        /\ starved' = starved \cup {tx}
        /\ UNCHANGED <<contractVars, refused>>
  /\ UNCHANGED <<clientVars, replaced, ownerCalls>>

NewBlock ==
  /\ Tick
  /\ UNCHANGED <<clientVars, nodeVars, ownerCalls>>

\* Calls of other accounts, one transaction each, with as much gas as they need.
OwnerCalls ==
  /\ ownerCalls < MaxOwnerCalls
  /\ ownerCalls' = ownerCalls + 1
  /\ \E a \in Accounts \ {Reporter} :
       \/ \E writer \in Accounts, ok \in BOOLEAN : SetAuthorized(a, writer, ok)
       \/ \E newOwner \in Accounts \cup {ZeroAddress} : TransferOwnership(a, newOwner)
       \/ \E h \in Hashes, p \in Payloads : LogAlert(a, h, p)
  /\ UNCHANGED <<clientVars, nodeVars>>

Next ==
  \/ \E w \in Writers :
       \/ \E r \in Rows : CallLogAlert(w, r)
       \/ ReadNonce(w) \/ Send(w) \/ SendFails(w)
  \/ \E tx \in pool : Mine(tx)
  \/ NewBlock
  \/ OwnerCalls

Spec == Init /\ [][Next]_vars

-----------------------------------------------------------------------------
(* Properties.                                                             *)

\* The contract, the client and the node keep their types.
TypeOK ==
  /\ ContractTypeOK
  /\ ready \in [Writers -> {"unknown", "yes", "no"}]
  /\ row \in [Writers -> Rows \cup {None}]
  /\ nonce \in [Writers -> Nat \cup {-1}]
  /\ todo \subseteq Rows
  /\ recorded \in [Rows -> SUBSET Transactions]
  /\ pool \subseteq Transactions /\ replaced \subseteq Transactions
  /\ refused \subseteq Transactions /\ starved \subseteq Transactions
  /\ count \in Nat /\ ownerCalls \in Nat

(* No transaction waits behind a nonce that was never sent: as _send asks   *)
(* for the number of mined transactions, each pending one can be mined next. *)
NoNonceGap == \A tx \in pool : tx.nonce = count

(* An onchain_log_tx is stored without waiting for a receipt.  What it can   *)
(* have come to: it is pending, or the fingerprint of the alert is in the   *)
(* registry, or this very transaction was replaced by another of its nonce,  *)
(* mined while the reporter was not authorized, or mined with too little    *)
(* gas.  One that was replaced is never mined after all.                    *)
LossesAreAccounted ==
  /\ \A r \in Rows : \A tx \in recorded[r] \ pool :
       Exists(HashOf[r]) \/ tx \in replaced \cup refused \cup starved
  /\ replaced \cap (pool \cup refused \cup starved) = {}
=============================================================================
