------------------------- MODULE OnChainLoggerProofs -------------------------
(***************************************************************************)
(* What the registry and its client promise for every number of backend    *)
(* processes, rows, hashes and accounts.                                   *)
(***************************************************************************)
EXTENDS OnChainLogger, TLAPS

(* The contract only moves by its own functions and the clock.              *)
ContractNext ==
  \/ \E a \in Accounts, h \in Hashes, p \in Payloads : LogAlert(a, h, p)
  \/ \E a, writer \in Accounts, ok \in BOOLEAN : SetAuthorized(a, writer, ok)
  \/ \E a \in Accounts, newOwner \in Accounts \cup {ZeroAddress} :
       TransferOwnership(a, newOwner)
  \/ Tick

LEMMA OnlyContractSteps ==
  pool \subseteq Transactions /\ [Next]_vars => [ContractNext]_contractVars
<1> SUFFICES ASSUME pool \subseteq Transactions, [Next]_vars
             PROVE  [ContractNext]_contractVars
  OBVIOUS
<1>1. ASSUME NEW w \in Writers, NEW r \in Rows, CallLogAlert(w, r)
      PROVE  UNCHANGED contractVars
  BY <1>1 DEF CallLogAlert
<1>2. ASSUME NEW w \in Writers, ReadNonce(w) \/ Send(w) \/ SendFails(w)
      PROVE  UNCHANGED contractVars
  BY <1>2 DEF ReadNonce, Send, SendFails, Return
<1>3. ASSUME NEW tx \in pool, Mine(tx)
      PROVE  [ContractNext]_contractVars
  <2>1. tx.hash \in Hashes /\ tx.payload \in Payloads
    BY DEF Transactions
  <2>2. LogAlert(Reporter, tx.hash, tx.payload) \/ UNCHANGED contractVars
    BY <1>3 DEF Mine
  <2>3. QED
    BY <2>1, <2>2, LoggerAssumption DEF LoggerAssumption, ContractNext
<1>4. CASE NewBlock
  BY <1>4 DEF NewBlock, ContractNext
<1>5. CASE OwnerCalls
  BY <1>5 DEF OwnerCalls, ContractNext
<1>6. CASE UNCHANGED vars
  BY <1>6 DEF vars
<1>7. QED
  BY <1>1, <1>2, <1>3, <1>4, <1>5, <1>6 DEF Next

-----------------------------------------------------------------------------
(* The contract.  That the hash of a new entry is on no list yet follows    *)
(* from the agreement of the mapping with the list.                         *)
ContractInv == ContractTypeOK /\ RegistryAgrees

LEMMA ContractInit == Constructor => ContractInv
BY ContractAssumption
   DEF ContractAssumption, Constructor, ContractInv, ContractTypeOK, RegistryAgrees, Unset,
       Exists

LEMMA LogStep ==
  ASSUME ContractInv, NEW a \in Accounts, NEW h \in Hashes, NEW p \in Payloads,
         LogAlert(a, h, p)
  PROVE  /\ ContractInv'
         /\ alertHashes' = Append(alertHashes, h)
         /\ \A i \in 1..Len(alertHashes) : alertHashes[i] # h
         /\ \A g \in Hashes \ {h} : alerts'[g] = alerts[g]
         /\ alerts'[h] \in Details
<1> DEFINE new == [payload |-> p, timestamp |-> now, reporter |-> a]
<1>1. new \in Details /\ now # 0
  BY ContractAssumption DEF ContractAssumption, ContractInv, ContractTypeOK, Details
<1>2. alerts' = [alerts EXCEPT ![h] = new] /\ ~Exists(h)
  BY DEF LogAlert
<1>3. /\ alerts' \in [Hashes -> Details \cup {Unset}]
      /\ alerts'[h] = new
      /\ \A g \in Hashes \ {h} : alerts'[g] = alerts[g]
  BY <1>1, <1>2 DEF ContractInv, ContractTypeOK
<1>4. /\ alertHashes' = Append(alertHashes, h)
      /\ totalAlerts' = totalAlerts + 1
      /\ UNCHANGED <<owner, authorized, now>>
  BY DEF LogAlert
<1>5. /\ alertHashes' \in Seq(Hashes)
      /\ Len(alertHashes') = Len(alertHashes) + 1
      /\ alertHashes'[Len(alertHashes) + 1] = h
      /\ \A i \in 1..Len(alertHashes) : alertHashes'[i] = alertHashes[i]
  BY <1>4 DEF ContractInv, ContractTypeOK
<1>6. \A i \in 1..Len(alertHashes) : alertHashes[i] # h
  BY <1>2 DEF ContractInv, RegistryAgrees
<1>7. ContractTypeOK'
  BY <1>3, <1>4, <1>5 DEF ContractInv, ContractTypeOK
<1>8. RegistryAgrees'
  <2>1. totalAlerts' = Len(alertHashes')
    BY <1>4, <1>5 DEF ContractInv, RegistryAgrees
  <2>2. ASSUME NEW g \in Hashes
        PROVE  Exists(g)' <=> \E i \in 1..Len(alertHashes') : alertHashes'[i] = g
    <3>1. CASE g = h
      <4>1. Exists(g)'
        BY <1>1, <1>3, <3>1 DEF Exists
      <4>2. Len(alertHashes) + 1 \in 1..Len(alertHashes')
        BY <1>5 DEF ContractInv, ContractTypeOK
      <4>3. QED
        BY <1>5, <3>1, <4>1, <4>2
    <3>2. CASE g # h
      <4>1. Exists(g)' <=> Exists(g)
        BY <1>3, <3>2 DEF Exists
      <4>2. (\E i \in 1..Len(alertHashes') : alertHashes'[i] = g)
              <=> (\E i \in 1..Len(alertHashes) : alertHashes[i] = g)
        BY <1>5, <3>2 DEF ContractInv, ContractTypeOK
      <4>3. QED
        BY <4>1, <4>2 DEF ContractInv, RegistryAgrees
    <3>3. QED
      BY <3>1, <3>2
  <2>3. \A i, j \in 1..Len(alertHashes') : alertHashes'[i] = alertHashes'[j] => i = j
    BY <1>5, <1>6 DEF ContractInv, ContractTypeOK, RegistryAgrees
  <2>4. QED
    BY <2>1, <2>2, <2>3 DEF RegistryAgrees
<1>9. QED
  BY <1>1, <1>3, <1>4, <1>6, <1>7, <1>8 DEF ContractInv

LEMMA ContractStep == ContractInv /\ [ContractNext]_contractVars => ContractInv'
<1> SUFFICES ASSUME ContractInv, [ContractNext]_contractVars
             PROVE  ContractInv'
  OBVIOUS
<1>1. ASSUME NEW a \in Accounts, NEW h \in Hashes, NEW p \in Payloads, LogAlert(a, h, p)
      PROVE  ContractInv'
  BY <1>1, LogStep
<1>2. ASSUME UNCHANGED <<alerts, alertHashes, totalAlerts>>, ContractTypeOK'
      PROVE  ContractInv'
  BY <1>2 DEF ContractInv, RegistryAgrees, Exists
<1>3. ASSUME NEW a \in Accounts, NEW writer \in Accounts, NEW ok \in BOOLEAN,
             SetAuthorized(a, writer, ok)
      PROVE  ContractInv'
  BY <1>2, <1>3 DEF ContractInv, ContractTypeOK, SetAuthorized
<1>4. ASSUME NEW a \in Accounts, NEW newOwner \in Accounts \cup {ZeroAddress},
             TransferOwnership(a, newOwner)
      PROVE  ContractInv'
  BY <1>2, <1>4 DEF ContractInv, ContractTypeOK, TransferOwnership, NewOwnerAllowed
<1>5. CASE Tick
  BY <1>2, <1>5 DEF ContractInv, ContractTypeOK, Tick
<1>6. CASE UNCHANGED contractVars
  BY <1>2, <1>6 DEF ContractInv, ContractTypeOK, contractVars
<1>7. QED
  BY <1>1, <1>3, <1>4, <1>5, <1>6 DEF ContractNext

-----------------------------------------------------------------------------
(* The client and the node.  A writer that has read a nonce has a row; the  *)
(* nonces it and the node know are numbers of mined transactions, past or   *)
(* present, so that the node can only accept the next one.                  *)
ClientTypeOK ==
  /\ ready \in [Writers -> {"unknown", "yes", "no"}]
  /\ row \in [Writers -> Rows \cup {None}]
  /\ nonce \in [Writers -> Nat \cup {-1}]
  /\ todo \subseteq Rows
  /\ recorded \in [Rows -> SUBSET Transactions]
  /\ pool \subseteq Transactions /\ replaced \subseteq Transactions
  /\ refused \subseteq Transactions /\ starved \subseteq Transactions
  /\ count \in Nat /\ ownerCalls \in Nat

NoncesInv ==
  /\ \A w \in Writers : nonce[w] # -1 => row[w] # None /\ nonce[w] <= count
  /\ NoNonceGap
  /\ \A tx, other \in pool : tx.nonce = other.nonce => tx = other

\* What the transaction of a row has come to.
RecordedInv ==
  \A r \in Rows : \A tx \in recorded[r] :
    /\ tx.hash = HashOf[r]
    /\ tx \in pool \cup replaced \cup refused \cup starved \/ Exists(tx.hash)

\* A transaction that was replaced stays below the price of the one that took its place
\* until a transaction of its nonce is mined.
FatesInv ==
  /\ replaced \cap (pool \cup refused \cup starved) = {}
  /\ \A tx \in refused \cup starved : tx.nonce < count
  /\ \A tx \in replaced :
       tx.nonce < count \/ \E other \in pool : other.nonce = tx.nonce /\ other.price > tx.price

LoggerInv == ContractInv /\ ClientTypeOK /\ NoncesInv /\ RecordedInv /\ FatesInv

LEMMA LoggerStep == LoggerInv /\ [Next]_vars => LoggerInv'
<1> SUFFICES ASSUME LoggerInv, [Next]_vars
             PROVE  LoggerInv'
  OBVIOUS
<1>1. [ContractNext]_contractVars /\ ContractInv'
  BY OnlyContractSteps, ContractStep DEF LoggerInv, ClientTypeOK
<1>2. \A h \in Hashes : Exists(h) => Exists(h)'
  <2>1. ASSUME NEW a \in Accounts, NEW g \in Hashes, NEW p \in Payloads, LogAlert(a, g, p)
        PROVE  \A h \in Hashes : Exists(h) => Exists(h)'
    <3>1. \A h \in Hashes \ {g} : alerts'[h] = alerts[h]
      BY <2>1, LogStep DEF LoggerInv
    <3>2. ~Exists(g)
      BY <2>1 DEF LogAlert
    <3>3. QED
      BY <3>1, <3>2 DEF Exists
  <2>2. CASE UNCHANGED alerts
    BY <2>2 DEF Exists
  <2>3. QED
    BY <1>1, <2>1, <2>2 DEF ContractNext, SetAuthorized, TransferOwnership, Tick, contractVars
<1>3. ASSUME UNCHANGED <<recorded, nodeVars>>, ClientTypeOK
      PROVE  RecordedInv' /\ FatesInv'
  <2>1. RecordedInv'
    BY <1>2, <1>3, LoggerAssumption
       DEF LoggerAssumption, LoggerInv, RecordedInv, ClientTypeOK, Transactions, nodeVars
  <2>2. FatesInv'
    BY <1>3 DEF LoggerInv, FatesInv, nodeVars
  <2>3. QED
    BY <2>1, <2>2
<1>4. ASSUME NEW w \in Writers, NEW r \in Rows, CallLogAlert(w, r)
      PROVE  LoggerInv'
  <2>1. ClientTypeOK'
    BY <1>4 DEF LoggerInv, ClientTypeOK, CallLogAlert, nodeVars
  <2>2. NoncesInv'
    BY <1>4, LoggerAssumption
       DEF LoggerAssumption, LoggerInv, ClientTypeOK, NoncesInv, NoNonceGap, CallLogAlert,
           nodeVars
  <2>3. QED
    BY <1>1, <1>3, <1>4, <2>1, <2>2 DEF LoggerInv, CallLogAlert
<1>5. ASSUME NEW w \in Writers, ReadNonce(w)
      PROVE  LoggerInv'
  <2>1. ClientTypeOK'
    BY <1>5 DEF LoggerInv, ClientTypeOK, ReadNonce, NextNonce, nodeVars
  <2>2. NoncesInv'
    BY <1>5 DEF LoggerInv, ClientTypeOK, NoncesInv, NoNonceGap, ReadNonce, NextNonce, nodeVars
  <2>3. QED
    BY <1>1, <1>3, <1>5, <2>1, <2>2 DEF LoggerInv, ReadNonce
<1>6. ASSUME NEW w \in Writers, Return(w)
      PROVE  /\ row' \in [Writers -> Rows \cup {None}]
             /\ nonce' \in [Writers -> Nat \cup {-1}]
             /\ \A v \in Writers : nonce'[v] # -1 => row'[v] # None /\ nonce'[v] <= count'
  BY <1>6 DEF LoggerInv, ClientTypeOK, NoncesInv, Return
<1>7. ASSUME NEW w \in Writers, SendFails(w)
      PROVE  LoggerInv'
  <2>1. ClientTypeOK'
    BY <1>6, <1>7 DEF LoggerInv, ClientTypeOK, SendFails, Return
  <2>2. NoncesInv'
    BY <1>6, <1>7 DEF LoggerInv, NoncesInv, NoNonceGap, SendFails, Return
  <2>3. QED
    BY <1>1, <1>3, <1>7, <2>1, <2>2 DEF LoggerInv, SendFails, Return, nodeVars
<1>8. ASSUME NEW w \in Writers, Send(w)
      PROVE  LoggerInv'
  <2>1. PICK g \in Prices :
          LET tx == Transaction(w, g)
          IN /\ Accepts(tx)
             /\ pool' = (pool \ Rivals(tx)) \cup {tx}
             /\ replaced' = replaced \cup Rivals(tx)
             /\ \/ recorded' = [recorded EXCEPT ![row[w]] = {tx}]
                \/ UNCHANGED recorded
    BY <1>8 DEF Send
  <2> DEFINE tx == Transaction(w, g)
  <2>2. nonce[w] # -1 /\ Return(w)
    BY <1>8 DEF Send
  <2>3. row[w] \in Rows /\ nonce[w] \in Nat /\ nonce[w] <= count
    BY <2>2 DEF LoggerInv, ClientTypeOK, NoncesInv
  <2>4. tx \in Transactions /\ tx.nonce = nonce[w] /\ tx.hash = HashOf[row[w]]
    BY <2>3, LoggerAssumption DEF LoggerAssumption, Transactions, Transaction
  <2>5. tx.nonce = count
    BY <2>1, <2>3, <2>4 DEF Accepts, LoggerInv, ClientTypeOK
  <2>6. pool = Rivals(tx) /\ pool' = {tx}
    BY <2>1, <2>5 DEF Rivals, LoggerInv, NoncesInv, NoNonceGap
  <2>7. replaced' = replaced \cup pool /\ UNCHANGED <<refused, starved, count>>
    BY <2>1, <2>2, <2>6 DEF Return
  <2>8. recorded' \in [Rows -> SUBSET Transactions]
    BY <2>1, <2>3, <2>4 DEF LoggerInv, ClientTypeOK
  <2>9. ClientTypeOK'
    BY <1>6, <2>2, <2>4, <2>6, <2>7, <2>8 DEF LoggerInv, ClientTypeOK, Return
  <2>10. NoncesInv'
    BY <1>6, <2>2, <2>5, <2>6 DEF NoncesInv, NoNonceGap, Return
  <2>11. RecordedInv'
    <3> SUFFICES ASSUME NEW r \in Rows, NEW t \in recorded'[r]
                 PROVE  /\ t.hash = HashOf[r]
                        /\ t \in (pool \cup replaced \cup refused \cup starved)' \/ Exists(t.hash)'
      BY DEF RecordedInv
    <3>2. CASE t \in recorded[r]
      <4>1. t.hash \in Hashes
        BY <3>2 DEF LoggerInv, ClientTypeOK, Transactions
      <4>2. /\ t.hash = HashOf[r]
            /\ t \in pool \cup replaced \cup refused \cup starved \/ Exists(t.hash)
        BY <3>2 DEF LoggerInv, RecordedInv
      <4>3. QED
        BY <1>2, <2>7, <4>1, <4>2
    <3>3. CASE t \notin recorded[r]
      <4>1. r = row[w] /\ t = tx
        BY <2>1, <2>3, <3>3 DEF LoggerInv, ClientTypeOK
      <4>2. QED
        BY <2>4, <2>6, <4>1
    <3>4. QED
      BY <3>2, <3>3
  <2>12. FatesInv'
    <3>1. \A other \in pool : other.nonce = count /\ other.price \in Nat /\ other.price < tx.price
      BY <2>1, <2>6, LoggerAssumption
         DEF Accepts, LoggerAssumption, LoggerInv, ClientTypeOK, Transactions, NoncesInv,
             NoNonceGap
    <3>2. tx.price \in Nat
      BY <2>4, LoggerAssumption DEF LoggerAssumption, Transactions
    <3>3. count \in Nat
      BY DEF LoggerInv, ClientTypeOK
    <3> HIDE DEF tx
    <3>4. tx \notin replaced
      <4>1. ~(tx.nonce < count)
        BY <2>5, <3>3
      <4>2. ASSUME NEW other \in pool, other.price > tx.price
            PROVE  FALSE
        BY <3>1, <3>2, <4>2
      <4>3. QED
        BY <4>1, <4>2 DEF LoggerInv, FatesInv
    <3>5. tx \notin pool
      BY <3>1, <3>2
    <3>6. ASSUME NEW t \in refused \cup starved
          PROVE  t \notin pool /\ t # tx
      BY <2>5, <3>1, <3>3, <3>6 DEF LoggerInv, FatesInv
    <3>7. (replaced \cap (pool \cup refused \cup starved) = {})'
      BY <2>6, <2>7, <3>4, <3>5, <3>6 DEF LoggerInv, FatesInv
    <3>8. ASSUME NEW t \in replaced \cup pool
          PROVE  t.nonce < count \/ (tx.nonce = t.nonce /\ tx.price > t.price)
      <4>1. CASE t \in pool
        BY <2>5, <3>1, <3>2, <4>1
      <4>2. CASE t \in replaced
        <5>1. t.nonce < count \/ \E other \in pool : other.nonce = t.nonce /\ other.price > t.price
          BY <4>2 DEF LoggerInv, FatesInv
        <5>2. t.price \in Nat
          BY <4>2, LoggerAssumption DEF LoggerAssumption, LoggerInv, ClientTypeOK, Transactions
        <5>3. QED
          BY <2>5, <3>1, <3>2, <5>1, <5>2
      <4>3. QED
        BY <4>1, <4>2
    <3>9. QED
      BY <2>6, <2>7, <3>7, <3>8 DEF LoggerInv, FatesInv
  <2>13. QED
    BY <1>1, <2>9, <2>10, <2>11, <2>12 DEF LoggerInv
<1>9. ASSUME NEW tx \in pool, Mine(tx)
      PROVE  LoggerInv'
  <2>1. tx \in Transactions /\ tx.nonce = count /\ pool = {tx} /\ pool' = {} /\ count' = count + 1
    BY <1>9 DEF Mine, LoggerInv, ClientTypeOK, NoncesInv, NoNonceGap
  <2>2. UNCHANGED clientVars /\ UNCHANGED <<replaced, ownerCalls>>
    BY <1>9 DEF Mine
  <2>3. /\ refused' \subseteq refused \cup {tx} /\ refused \subseteq refused'
        /\ starved' \subseteq starved \cup {tx} /\ starved \subseteq starved'
    BY <1>9 DEF Mine
  <2>4. ClientTypeOK'
    BY <2>1, <2>2, <2>3 DEF LoggerInv, ClientTypeOK, clientVars
  <2>5. NoncesInv'
    BY <2>1, <2>2 DEF LoggerInv, ClientTypeOK, NoncesInv, NoNonceGap, clientVars
  <2>6. RecordedInv'
    <3> SUFFICES ASSUME NEW r \in Rows, NEW t \in recorded'[r]
                 PROVE  /\ t.hash = HashOf[r]
                        /\ t \in (replaced \cup refused \cup starved)' \/ Exists(t.hash)'
      BY DEF RecordedInv
    <3>1. t \in recorded[r] /\ t.hash \in Hashes
      BY <2>2 DEF clientVars, LoggerInv, ClientTypeOK, Transactions
    <3>2. t.hash = HashOf[r] /\ (t \in pool \cup replaced \cup refused \cup starved \/ Exists(t.hash))
      BY <3>1 DEF LoggerInv, RecordedInv
    <3>3. CASE t \in replaced \cup refused \cup starved \/ Exists(t.hash)
      BY <1>2, <2>2, <2>3, <3>1, <3>2, <3>3
    <3>4. CASE t = tx /\ ~Exists(t.hash)
      <4>1. CASE LogAlert(Reporter, tx.hash, tx.payload)
        <5>1. alerts'[tx.hash] \in Details
          BY <2>1, <4>1, LogStep, LoggerAssumption DEF LoggerAssumption, LoggerInv, Transactions
        <5>2. Exists(tx.hash)'
          BY <5>1, ContractAssumption DEF ContractAssumption, Details, Exists
        <5>3. QED
          BY <3>2, <3>4, <5>2
      <4>2. CASE ~OnlyAuthorized(Reporter) /\ refused' = refused \cup {tx}
        BY <3>2, <3>4, <4>2
      <4>3. CASE starved' = starved \cup {tx}
        BY <3>2, <3>4, <4>3
      <4>4. QED
        BY <1>9, <3>4, <4>1, <4>2, <4>3 DEF Mine, LogAlertReverts
    <3>5. QED
      BY <2>1, <3>2, <3>3, <3>4
  <2>7. FatesInv'
    <3>1. count \in Nat /\ tx.nonce < count' /\ \A n \in Nat : n < count => n < count'
      BY <2>1 DEF LoggerInv, ClientTypeOK
    <3>2. \A t \in (refused \cup starved)' : t.nonce < count'
      <4>1. \A t \in refused \cup starved : t.nonce \in Nat /\ t.nonce < count
        BY DEF LoggerInv, ClientTypeOK, Transactions, FatesInv
      <4>2. QED
        BY <2>3, <3>1, <4>1
    <3>3. \A t \in replaced' : t.nonce < count'
      <4>1. \A t \in replaced : t.nonce \in Nat /\ (t.nonce < count \/ t.nonce = tx.nonce)
        BY <2>1 DEF LoggerInv, ClientTypeOK, Transactions, FatesInv
      <4>2. QED
        BY <2>2, <3>1, <4>1
    <3>4. (replaced \cap (pool \cup refused \cup starved) = {})'
      BY <2>1, <2>2, <2>3 DEF LoggerInv, FatesInv
    <3>5. QED
      BY <3>2, <3>3, <3>4 DEF FatesInv
  <2>8. QED
    BY <1>1, <2>4, <2>5, <2>6, <2>7 DEF LoggerInv
<1>10. CASE NewBlock \/ OwnerCalls
  <2>1. UNCHANGED <<clientVars, nodeVars>> /\ ownerCalls' \in Nat
    BY <1>10 DEF NewBlock, OwnerCalls, LoggerInv, ClientTypeOK
  <2>2. ClientTypeOK' /\ NoncesInv'
    BY <2>1 DEF LoggerInv, ClientTypeOK, NoncesInv, NoNonceGap, clientVars, nodeVars
  <2>3. RecordedInv' /\ FatesInv'
    BY <1>3, <2>1 DEF LoggerInv, clientVars
  <2>4. QED
    BY <1>1, <2>2, <2>3 DEF LoggerInv
<1>11. CASE UNCHANGED vars
  <2>1. ClientTypeOK' /\ NoncesInv'
    BY <1>11 DEF LoggerInv, ClientTypeOK, NoncesInv, NoNonceGap, vars, clientVars, nodeVars
  <2>2. RecordedInv' /\ FatesInv'
    BY <1>3, <1>11 DEF LoggerInv, vars, clientVars
  <2>3. QED
    BY <1>1, <2>1, <2>2 DEF LoggerInv
<1>12. QED
  BY <1>4, <1>5, <1>7, <1>8, <1>9, <1>10, <1>11 DEF Next

LEMMA LoggerInductive == Spec => []LoggerInv
<1>1. Init => LoggerInv
  <2> SUFFICES ASSUME Init
               PROVE  LoggerInv
    OBVIOUS
  <2>1. ContractInv
    BY ContractInit DEF Init
  <2>2. ClientTypeOK /\ NoncesInv /\ RecordedInv /\ FatesInv
    BY DEF Init, ClientTypeOK, NoncesInv, NoNonceGap, RecordedInv, FatesInv
  <2>3. QED
    BY <2>1, <2>2 DEF LoggerInv
<1>2. QED
  BY <1>1, LoggerStep, PTL DEF Spec

-----------------------------------------------------------------------------
(* The contract, the client and the node keep their types; the owner is     *)
(* never the zero address.                                                  *)
THEOREM TypeCorrect == Spec => []TypeOK
<1>1. LoggerInv => TypeOK
  BY DEF LoggerInv, ContractInv, ClientTypeOK, TypeOK
<1>2. QED
  BY <1>1, LoggerInductive, PTL

(* Mapping, list of hashes and counter of the contract always agree.        *)
THEOREM RegistryIsConsistent == Spec => []RegistryAgrees
<1>1. LoggerInv => RegistryAgrees
  BY DEF LoggerInv, ContractInv
<1>2. QED
  BY <1>1, LoggerInductive, PTL

(* No transaction of the reporter ever waits for a nonce nobody has sent.   *)
THEOREM NoGap == Spec => []NoNonceGap
<1>1. LoggerInv => NoNonceGap
  BY DEF LoggerInv, NoncesInv
<1>2. QED
  BY <1>1, LoggerInductive, PTL

(* An alert with an onchain_log_tx that is not pending has its fingerprint  *)
(* in the registry unless that very transaction was replaced by one of its  *)
(* nonce, mined without the reporter's authorization or with too little     *)
(* gas; and one that was replaced never reaches the chain.                  *)
THEOREM EveryLossHasACause == Spec => []LossesAreAccounted
<1>1. LoggerInv => LossesAreAccounted
  <2> SUFFICES ASSUME LoggerInv
               PROVE  LossesAreAccounted
    OBVIOUS
  <2>1. \A r \in Rows : \A tx \in recorded[r] \ pool :
          Exists(HashOf[r]) \/ tx \in replaced \cup refused \cup starved
    BY DEF LoggerInv, RecordedInv
  <2>2. QED
    BY <2>1 DEF LoggerInv, FatesInv, LossesAreAccounted
<1>2. QED
  BY <1>1, LoggerInductive, PTL

-----------------------------------------------------------------------------
(* The fixed gas limit.  The first alert of a registry sets two slots more  *)
(* from zero than any later one, and one that reverts leaves them at zero.  *)
FirstAlertGas(p) == CallGas + StructGas[p] + 3 * NewSlotGas

\* Whoever made the first entry, it was not the reporter.
FirstIsAnothers == alertHashes # <<>> => alerts[alertHashes[1]].reporter # Reporter

LEMMA MinedWithItsGas ==
  ASSUME LoggerInv, NEW tx \in pool, Mine(tx)
  PROVE  /\ tx.hash \in Hashes /\ tx.payload \in Payloads /\ tx.gas = GasLimit
         /\ LogAlertGas(tx.payload) \in Nat /\ GasLimit \in Nat
         /\ LogAlert(Reporter, tx.hash, tx.payload) => LogAlertGas(tx.payload) <= GasLimit
         /\ starved' # starved => LogAlertGas(tx.payload) > GasLimit
<1>1. tx.hash \in Hashes /\ tx.payload \in Payloads /\ tx.gas = GasLimit
  BY DEF LoggerInv, ClientTypeOK, Transactions
<1>2. LogAlertGas(tx.payload) \in Nat /\ GasLimit \in Nat
  BY <1>1, ContractAssumption, LoggerAssumption
     DEF ContractAssumption, LoggerAssumption, LogAlertGas
<1>3. LogAlert(Reporter, tx.hash, tx.payload) => ~OutOfGas(tx)
  <2>1. ASSUME LogAlert(Reporter, tx.hash, tx.payload)
        PROVE  alertHashes' # alertHashes
    <3>1. alertHashes' = Append(alertHashes, tx.hash) /\ alertHashes \in Seq(Hashes)
      BY <2>1 DEF LogAlert, LoggerInv, ContractInv, ContractTypeOK
    <3>2. QED
      BY <3>1
  <2>2. QED
    BY <2>1 DEF Mine, contractVars
<1>4. starved' # starved => OutOfGas(tx)
  BY DEF Mine
<1>5. QED
  BY <1>1, <1>2, <1>3, <1>4 DEF OutOfGas

(* When the gas limit does not pay a first alert, the reporter never makes  *)
(* the first entry of the registry: as each of its transactions reverts,    *)
(* the next one is a first alert again, and a registry nobody else writes   *)
(* to stays empty, however many alerts are stored with a transaction hash.  *)
THEOREM FirstAlertStarves ==
  ASSUME \A p \in Payloads : FirstAlertGas(p) > GasLimit
  PROVE  Spec => []FirstIsAnothers
<1>1. Init => FirstIsAnothers
  BY DEF Init, Constructor, FirstIsAnothers
<1>2. LoggerInv /\ FirstIsAnothers /\ [Next]_vars => FirstIsAnothers'
  <2> SUFFICES ASSUME LoggerInv, FirstIsAnothers, [Next]_vars
               PROVE  FirstIsAnothers'
    OBVIOUS
  <2>1. CASE UNCHANGED <<alerts, alertHashes>>
    BY <2>1 DEF FirstIsAnothers
  <2>2. ASSUME NEW a \in Accounts, NEW h \in Hashes, NEW p \in Payloads, LogAlert(a, h, p),
               alertHashes = <<>> => a # Reporter
        PROVE  FirstIsAnothers'
    <3>1. /\ alertHashes' = Append(alertHashes, h)
          /\ \A i \in 1..Len(alertHashes) : alertHashes[i] # h
          /\ \A g \in Hashes \ {h} : alerts'[g] = alerts[g]
          /\ alertHashes \in Seq(Hashes)
      BY <2>2, LogStep DEF LoggerInv, ContractInv, ContractTypeOK
    <3>2. CASE alertHashes = <<>>
      <4>1. alertHashes'[1] = h
        BY <3>1, <3>2
      <4>2. alerts'[h].reporter = a
        BY <2>2 DEF LogAlert, LoggerInv, ContractInv, ContractTypeOK
      <4>3. QED
        BY <2>2, <3>2, <4>1, <4>2 DEF FirstIsAnothers
    <3>3. CASE alertHashes # <<>>
      <4>1. 1 \in 1..Len(alertHashes) /\ alertHashes'[1] = alertHashes[1] /\ alertHashes[1] \in Hashes
        BY <3>1, <3>3
      <4>2. alerts'[alertHashes[1]] = alerts[alertHashes[1]]
        BY <3>1, <4>1
      <4>3. QED
        BY <3>3, <4>1, <4>2 DEF FirstIsAnothers
    <3>4. QED
      BY <3>2, <3>3
  <2>3. ASSUME NEW tx \in pool, Mine(tx)
        PROVE  FirstIsAnothers'
    <3>1. CASE LogAlert(Reporter, tx.hash, tx.payload)
      <4>1. LogAlertGas(tx.payload) <= GasLimit /\ FirstAlertGas(tx.payload) > GasLimit
        BY <2>3, <3>1, MinedWithItsGas
      <4>2. alertHashes = <<>> => LogAlertGas(tx.payload) = FirstAlertGas(tx.payload)
        <5>1. StructGas[tx.payload] \in Nat
          BY <2>3, MinedWithItsGas, ContractAssumption DEF ContractAssumption
        <5>2. QED
          BY <5>1, ContractAssumption DEF ContractAssumption, LogAlertGas, FirstAlertGas
      <4>3. LogAlertGas(tx.payload) \in Nat /\ GasLimit \in Nat
        BY <2>3, MinedWithItsGas
      <4>4. alertHashes # <<>>
        BY <4>1, <4>2, <4>3
      <4>5. QED
        BY <2>2, <2>3, <3>1, <4>4, MinedWithItsGas, LoggerAssumption DEF LoggerAssumption
    <3>2. CASE UNCHANGED contractVars
      BY <2>1, <3>2 DEF contractVars
    <3>3. QED
      BY <2>3, <3>1, <3>2 DEF Mine
  <2>4. CASE OwnerCalls
    BY <2>1, <2>2, <2>4 DEF OwnerCalls, SetAuthorized, TransferOwnership
  <2>5. QED
    BY <2>1, <2>3, <2>4
       DEF Next, CallLogAlert, ReadNonce, Send, SendFails, Return, NewBlock, Tick, vars,
           contractVars
<1>3. QED
  BY <1>1, <1>2, LoggerInductive, PTL DEF Spec

(* "records an immutable fingerprint of each alert" (onchain_logger.py:4),   *)
(* as far as the reporter's account can: an alert whose transaction was     *)
(* sent, was not replaced, and was mined while the reporter was authorized  *)
(* has its fingerprint in the registry.  The limit of 200,000 breaks it.    *)
EachSentAlertIsLogged ==
  \A r \in Rows : \A tx \in recorded[r] \ (pool \cup replaced \cup refused) :
    Exists(HashOf[r])

(* A gas limit that pays a first alert is enough for each: an alert whose   *)
(* transaction was sent, was not replaced and was mined while the reporter  *)
(* was authorized is then in the registry.                                  *)
THEOREM EnoughGasLogsEach ==
  ASSUME \A p \in Payloads : FirstAlertGas(p) <= GasLimit,
         ChangedSlotGas <= NewSlotGas
  PROVE  Spec => []EachSentAlertIsLogged
<1>1. Init => starved = {}
  BY DEF Init
<1>2. LoggerInv /\ starved = {} /\ [Next]_vars => (starved = {})'
  <2> SUFFICES ASSUME LoggerInv, starved = {}, [Next]_vars
               PROVE  starved' = starved
    OBVIOUS
  <2>1. ASSUME NEW tx \in pool, Mine(tx)
        PROVE  starved' = starved
    <3>1. LogAlertGas(tx.payload) <= FirstAlertGas(tx.payload)
      <4>1. StructGas[tx.payload] \in Nat
        BY <2>1, MinedWithItsGas, ContractAssumption DEF ContractAssumption
      <4>2. QED
        BY <4>1, ContractAssumption DEF ContractAssumption, LogAlertGas, FirstAlertGas
    <3>2. /\ FirstAlertGas(tx.payload) <= GasLimit
          /\ FirstAlertGas(tx.payload) \in Nat
      BY <2>1, MinedWithItsGas, ContractAssumption DEF ContractAssumption, FirstAlertGas
    <3>3. LogAlertGas(tx.payload) \in Nat /\ GasLimit \in Nat
      BY <2>1, MinedWithItsGas
    <3>4. ~(LogAlertGas(tx.payload) > GasLimit)
      BY <3>1, <3>2, <3>3
    <3>5. QED
      BY <2>1, <3>4, MinedWithItsGas
  <2>2. QED
    BY <2>1
       DEF Next, CallLogAlert, ReadNonce, Send, SendFails, Return, NewBlock, OwnerCalls,
           nodeVars, vars
<1>3. LoggerInv /\ starved = {} => EachSentAlertIsLogged
  BY DEF LoggerInv, RecordedInv, EachSentAlertIsLogged
<1>4. QED
  BY <1>1, <1>2, <1>3, LoggerInductive, PTL DEF Spec

-----------------------------------------------------------------------------
(* What the registry attributes to the reporter's key.  An alert is taken   *)
(* from todo before anything is sent for it, and its transaction carries    *)
(* its own hash.                                                            *)
Called(h) == \E r \in Rows \ todo : HashOf[r] = h

SourceInv ==
  /\ \A w \in Writers : row[w] \notin todo
  /\ \A tx \in pool : Called(tx.hash)
  /\ \A h \in Hashes : alerts[h].reporter = Reporter => Called(h)

LEMMA SourceInit == Init => SourceInv
<1> SUFFICES ASSUME Init
             PROVE  SourceInv
  OBVIOUS
<1>1. \A h \in Hashes : alerts[h].reporter = ZeroAddress
  BY DEF Init, Constructor, Unset
<1>2. Reporter # ZeroAddress
  BY LoggerAssumption, ContractAssumption DEF LoggerAssumption, ContractAssumption
<1>3. QED
  BY <1>1, <1>2, LoggerAssumption DEF LoggerAssumption, Init, SourceInv

LEMMA SourceStep == LoggerInv /\ SourceInv /\ [Next]_vars => SourceInv'
<1> SUFFICES ASSUME LoggerInv, SourceInv, [Next]_vars
             PROVE  SourceInv'
  OBVIOUS
<1>1. ASSUME UNCHANGED <<alerts, row, pool, todo>>
      PROVE  SourceInv'
  BY <1>1 DEF SourceInv, Called
<1>2. None \notin Rows /\ todo \subseteq Rows /\ row \in [Writers -> Rows \cup {None}]
  BY LoggerAssumption DEF LoggerAssumption, LoggerInv, ClientTypeOK
<1>3. ASSUME NEW w \in Writers, Return(w)
      PROVE  todo' = todo /\ \A v \in Writers : row'[v] \notin todo'
  BY <1>2, <1>3 DEF Return, SourceInv
<1>4. ASSUME NEW w \in Writers, NEW r \in Rows, CallLogAlert(w, r)
      PROVE  SourceInv'
  <2>1. todo' = todo \ {r} /\ UNCHANGED <<alerts, pool>>
    BY <1>4 DEF CallLogAlert, contractVars, nodeVars
  <2>2. \A v \in Writers : row'[v] \notin todo'
    BY <1>2, <1>4, <2>1 DEF CallLogAlert, SourceInv
  <2>3. \A h : Called(h) => Called(h)'
    BY <2>1 DEF Called
  <2>4. QED
    BY <2>1, <2>2, <2>3 DEF SourceInv
<1>5. ASSUME NEW w \in Writers, ReadNonce(w)
      PROVE  SourceInv'
  BY <1>1, <1>5 DEF ReadNonce, contractVars, nodeVars
<1>6. ASSUME NEW w \in Writers, SendFails(w)
      PROVE  SourceInv'
  <2>1. UNCHANGED <<alerts, pool, todo>>
    BY <1>6 DEF SendFails, Return, contractVars
  <2>2. QED
    BY <1>3, <1>6, <2>1 DEF SendFails, SourceInv, Called
<1>7. ASSUME NEW w \in Writers, Send(w)
      PROVE  SourceInv'
  <2>1. Return(w) /\ nonce[w] # -1
    BY <1>7 DEF Send
  <2>2. UNCHANGED <<alerts, todo>>
    BY <2>1 DEF Return, contractVars
  <2>3. row[w] \in Rows \ todo
    BY <1>2, <2>1 DEF SourceInv, LoggerInv, NoncesInv
  <2>4. \A tx \in pool' : tx \in pool \/ tx.hash = HashOf[row[w]]
    BY <1>7 DEF Send, Transaction
  <2>5. \A tx \in pool' : Called(tx.hash)'
    BY <2>2, <2>3, <2>4 DEF SourceInv, Called
  <2>6. QED
    BY <1>3, <2>1, <2>2, <2>5 DEF SourceInv, Called
<1>8. ASSUME NEW a \in Accounts, NEW h \in Hashes, NEW p \in Payloads, LogAlert(a, h, p),
             a = Reporter => Called(h), UNCHANGED todo
      PROVE  \A g \in Hashes : alerts'[g].reporter = Reporter => Called(g)'
  <2>1. alerts'[h].reporter = a
    BY <1>8 DEF LogAlert, LoggerInv, ContractInv, ContractTypeOK
  <2>2. \A g \in Hashes \ {h} : alerts'[g] = alerts[g]
    BY <1>8, LogStep DEF LoggerInv
  <2>3. QED
    BY <1>8, <2>1, <2>2 DEF SourceInv, Called
<1>9. ASSUME NEW tx \in pool, Mine(tx)
      PROVE  SourceInv'
  <2>1. pool' \subseteq pool /\ UNCHANGED <<row, todo>>
    BY <1>9 DEF Mine, clientVars
  <2>2. tx.hash \in Hashes /\ tx.payload \in Payloads /\ Called(tx.hash)
    BY DEF LoggerInv, ClientTypeOK, Transactions, SourceInv
  <2>3. LogAlert(Reporter, tx.hash, tx.payload) \/ UNCHANGED alerts
    BY <1>9 DEF Mine, contractVars
  <2>4. \A g \in Hashes : alerts'[g].reporter = Reporter => Called(g)'
    <3>1. CASE UNCHANGED alerts
      BY <2>1, <3>1 DEF SourceInv, Called
    <3>2. CASE LogAlert(Reporter, tx.hash, tx.payload)
      BY <1>8, <2>1, <2>2, <3>2, LoggerAssumption DEF LoggerAssumption
    <3>3. QED
      BY <2>3, <3>1, <3>2
  <2>5. QED
    BY <2>1, <2>4 DEF SourceInv, Called
<1>10. CASE NewBlock
  BY <1>1, <1>10 DEF NewBlock, Tick, clientVars, nodeVars
<1>11. CASE OwnerCalls
  <2>1. UNCHANGED <<row, todo, pool>>
    BY <1>11 DEF OwnerCalls, clientVars, nodeVars
  <2>2. ASSUME NEW a \in Accounts \ {Reporter}, NEW h \in Hashes, NEW p \in Payloads,
               LogAlert(a, h, p)
        PROVE  SourceInv'
    BY <1>8, <2>1, <2>2 DEF SourceInv, Called
  <2>3. CASE UNCHANGED alerts
    BY <1>1, <2>1, <2>3
  <2>4. QED
    BY <1>11, <2>2, <2>3 DEF OwnerCalls, SetAuthorized, TransferOwnership
<1>12. CASE UNCHANGED vars
  BY <1>1, <1>12 DEF vars, contractVars, clientVars, nodeVars
<1>13. QED
  BY <1>4, <1>5, <1>6, <1>7, <1>9, <1>10, <1>11, <1>12 DEF Next

(* The reporter's key vouches only for alerts of the system: an entry of    *)
(* the registry that names the reporter has the dedup_key of a row of       *)
(* alert_history that log_alert was called for, whatever was lost, replaced *)
(* or sent twice, and whatever other writers logged.                        *)
THEOREM NothingInvented ==
  Spec => [](\A h \in Hashes : alerts[h].reporter = Reporter =>
               \E r \in Rows \ todo : HashOf[r] = h)
<1>1. LoggerInv /\ SourceInv /\ [Next]_vars => SourceInv'
  BY SourceStep
<1>2. SourceInv => \A h \in Hashes : alerts[h].reporter = Reporter =>
                     \E r \in Rows \ todo : HashOf[r] = h
  BY DEF SourceInv, Called
<1>3. QED
  BY <1>1, <1>2, SourceInit, LoggerInductive, PTL DEF Spec

-----------------------------------------------------------------------------
(* Whoever calls what, the registry grows by one fingerprint of a new hash  *)
(* and never changes one.                                                   *)
THEOREM LogImplemented == Spec => ImplementsLog
<1>1. Init => Log!Init
  BY DEF Init, Constructor, Log!Init, RegistryLog
<1>2. LoggerInv /\ [Next]_vars => [Log!Next]_RegistryLog
  <2> SUFFICES ASSUME LoggerInv, [Next]_vars
               PROVE  [Log!Next]_RegistryLog
    OBVIOUS
  <2>1. [ContractNext]_contractVars
    BY OnlyContractSteps DEF LoggerInv, ClientTypeOK
  <2>2. ASSUME NEW a \in Accounts, NEW h \in Hashes, NEW p \in Payloads, LogAlert(a, h, p)
        PROVE  Log!Next
    <3>1. /\ alertHashes' = Append(alertHashes, h)
          /\ \A i \in 1..Len(alertHashes) : alertHashes[i] # h
          /\ \A g \in Hashes \ {h} : alerts'[g] = alerts[g]
          /\ alerts'[h] \in Details
      BY <2>2, LogStep DEF LoggerInv
    <3>2. alertHashes \in Seq(Hashes)
      BY DEF LoggerInv, ContractInv, ContractTypeOK
    <3>3. /\ Len(RegistryLog) = Len(alertHashes)
          /\ \A i \in 1..Len(alertHashes) :
               RegistryLog[i] = [hash |-> alertHashes[i], details |-> alerts[alertHashes[i]]]
      BY <3>2 DEF RegistryLog
    <3>4. Log!Fresh(h)
      <4>1. \A i \in 1..Len(RegistryLog) : RegistryLog[i].hash # h
        <5> TAKE i \in 1..Len(RegistryLog)
        <5>1. i \in 1..Len(alertHashes)
          BY <3>3
        <5>2. RegistryLog[i].hash = alertHashes[i]
          <6>1. RegistryLog[i] = [hash |-> alertHashes[i], details |-> alerts[alertHashes[i]]]
            BY <3>3, <5>1
          <6>2. QED
            BY <6>1
        <5>3. alertHashes[i] # h
          BY <3>1, <5>1
        <5>4. QED
          BY <5>2, <5>3
      <4>2. QED
        BY <4>1 DEF Log!Fresh
    <3>5. RegistryLog' = Append(RegistryLog, Log!Entry(h, alerts'[h]))
      BY <3>1, <3>2, <3>3 DEF RegistryLog, Log!Entry
    <3>6. QED
      BY <3>1, <3>4, <3>5 DEF Log!Next, Log!Record
  <2>3. CASE UNCHANGED <<alerts, alertHashes>>
    BY <2>3 DEF RegistryLog
  <2>4. QED
    BY <2>1, <2>2, <2>3 DEF ContractNext, SetAuthorized, TransferOwnership, Tick, contractVars
<1>3. QED
  BY <1>1, <1>2, LoggerInductive, PTL DEF Spec, ImplementsLog, Log!Spec
=============================================================================
