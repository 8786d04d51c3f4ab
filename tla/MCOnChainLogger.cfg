\* Two backend processes with one reporter key, and the owner's calls.
\* Deadlock: nothing is left to do once every row was logged.
SPECIFICATION Spec
CONSTANTS
  Accounts = {owner0, stranger, reporter}
  Deployer = owner0
  ZeroAddress = zero
  short = short
  long = long
  Payloads <- Symbols
  StructGas <- FieldsGas
  CallGas = 27
  NewSlotGas = 22
  ChangedSlotGas = 5
  GasLimit = 200
  NoPayload = noPayload
  Writers = {worker, celery}
  Reporter = reporter
  r1 = r1
  r2 = r2
  r3 = r3
  h1 = h1
  h2 = h2
  Rows <- ThreeRows
  Hashes <- TwoHashes
  HashOf <- WhaleOf
  PayloadOf <- SymbolOf
  Prices = {1, 2}
  None = None
  Times = {1, 2}
  MaxOwnerCalls = 2
INVARIANTS TypeOK RegistryAgrees NoNonceGap LossesAreAccounted
PROPERTIES ImplementsLog
CHECK_DEADLOCK FALSE
