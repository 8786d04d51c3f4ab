---------------------------- MODULE AlertLogger ----------------------------
(***************************************************************************)
(* The contract contracts/AlertLogger.sol.  A call that reverts changes    *)
(* nothing; a call that succeeds is one step.                              *)
(*                                                                         *)
(* token, amountUsd and txHash of an alert are one payload; block.timestamp *)
(* is the clock now, which only moves forward and is never 0.              *)
(***************************************************************************)
EXTENDS Integers, Sequences

CONSTANTS
  Accounts,       \* addresses that can call
  Deployer,
  ZeroAddress,
  Hashes,         \* values of alertHash
  Payloads,
  NoPayload,
  Times,          \* values of block.timestamp
  CallGas,        \* gas of logAlert without what it stores: intrinsic gas, event, ...
  StructGas,      \* [Payloads -> Nat]: of storing the fields of an Alert
  NewSlotGas,     \* of setting a slot of storage that was zero
  ChangedSlotGas  \* of setting one that was not

ASSUME ContractAssumption ==
  /\ Deployer \in Accounts /\ ZeroAddress \notin Accounts
  /\ NoPayload \notin Payloads
  /\ Times \subseteq Nat \ {0}
  /\ CallGas \in Nat /\ NewSlotGas \in Nat /\ ChangedSlotGas \in Nat
  /\ StructGas \in [Payloads -> Nat]

VARIABLES owner, authorized, alerts, alertHashes, totalAlerts, now

contractVars == <<owner, authorized, alerts, alertHashes, totalAlerts, now>>

Unset == [payload |-> NoPayload, timestamp |-> 0, reporter |-> ZeroAddress]

Constructor ==
  /\ owner = Deployer
  /\ authorized = {Deployer}
  /\ alerts = [h \in Hashes |-> Unset]
  /\ alertHashes = <<>>
  /\ totalAlerts = 0
  /\ now \in Times

-----------------------------------------------------------------------------
OnlyOwner(sender) == sender = owner
OnlyAuthorized(sender) == sender \in authorized

ExistsBelow(h) == alerts[h].timestamp > 1         \* mutant: misses the first block
Exists(h) == alerts[h].timestamp # 0

\* mutant: a second call for a hash overwrites what is stored
LogAlertOverwrites(sender, h, p) ==
  /\ OnlyAuthorized(sender)
  /\ alerts' = [alerts EXCEPT ![h] =
                  [payload |-> p, timestamp |-> now, reporter |-> sender]]
  /\ alertHashes' = IF Exists(h) THEN alertHashes ELSE Append(alertHashes, h)
  /\ totalAlerts' = IF Exists(h) THEN totalAlerts ELSE totalAlerts + 1
  /\ UNCHANGED <<owner, authorized, now>>
LogAlert(sender, h, p) ==
  /\ OnlyAuthorized(sender)
  /\ ~Exists(h)
  /\ alerts' = [alerts EXCEPT ![h] =
                  [payload |-> p, timestamp |-> now, reporter |-> sender]]
  /\ alertHashes' = Append(alertHashes, h)
  /\ totalAlerts' = totalAlerts + 1
  /\ UNCHANGED <<owner, authorized, now>>

\* What LogAlert costs its sender: an element of alertHashes is always a new slot; the
\* length of alertHashes and totalAlerts are new slots for the first alert only.
LogAlertGas(p) ==
  CallGas + StructGas[p] + NewSlotGas
    + (IF alertHashes = <<>> THEN 2 * NewSlotGas ELSE 2 * ChangedSlotGas)

LogAlertReverts(sender, h) == ~OnlyAuthorized(sender) \/ Exists(h)

SetAuthorized(sender, writer, ok) ==
  /\ OnlyOwner(sender)
  /\ authorized' = IF ok THEN authorized \cup {writer} ELSE authorized \ {writer}
  /\ UNCHANGED <<owner, alerts, alertHashes, totalAlerts, now>>

NewOwnerUnchecked(newOwner) == TRUE               \* mutant: any address
NewOwnerAllowed(newOwner) == newOwner # ZeroAddress

TransferOwnership(sender, newOwner) ==
  /\ OnlyOwner(sender)
  /\ NewOwnerAllowed(newOwner)
  /\ owner' = newOwner
  /\ UNCHANGED <<authorized, alerts, alertHashes, totalAlerts, now>>

Tick ==
  /\ now' \in {t \in Times : t > now}
  /\ UNCHANGED <<owner, authorized, alerts, alertHashes, totalAlerts>>

-----------------------------------------------------------------------------
(* Properties.                                                             *)

Details == [payload : Payloads, timestamp : Times, reporter : Accounts]

\* The storage of the contract has its declared types; the owner is never the
\* zero address.
ContractTypeOK ==
  /\ owner \in Accounts
  /\ authorized \subseteq Accounts
  /\ alerts \in [Hashes -> Details \cup {Unset}]
  /\ alertHashes \in Seq(Hashes)
  /\ totalAlerts \in Nat
  /\ now \in Times

(* AlertLogger.sol keeps an alert in three places: the mapping, the list of *)
(* hashes and the counter always agree, and no hash is listed twice.        *)
RegistryAgrees ==
  /\ totalAlerts = Len(alertHashes)
  /\ \A h \in Hashes : Exists(h) <=> \E i \in 1..Len(alertHashes) : alertHashes[i] = h
  /\ \A i, j \in 1..Len(alertHashes) : alertHashes[i] = alertHashes[j] => i = j

\* The registry as a reader of alertHashes and getAlert sees it.
RegistryLog ==
  [i \in 1..Len(alertHashes) |->
     [hash |-> alertHashes[i], details |-> alerts[alertHashes[i]]]]

Log == INSTANCE FingerprintLog WITH log <- RegistryLog

(* "Each alert is keyed by a unique alertHash and is immutable once written" *)
(* (AlertLogger.sol:7): whoever calls what, the registry only ever grows by  *)
(* one fingerprint of a new hash, and what is stored never changes.          *)
ImplementsLog == Log!Spec
=============================================================================
