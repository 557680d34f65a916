SPECIFICATION Spec
CONSTANTS
  Variants = {"P2SH", "P2WSH", "P2WSH_P2SH"}
  MAX_ALLOWED_SIGNERS = 2
  LongDerivations = {"long"}
  Wallets = {"w1", "w2"}
  TestWallets = {"w2"}
  Names = {"n1", "n2"}
  Multisigs <- MCMultisigs
  Files <- MCFiles
  Descriptors <- MCDescriptors
  Uris <- MCUris
  MaxRecords = 1
  CounterMod = 3
  MaxCodes = 2
  MaxFaults = 1
  None = None
INVARIANTS RegisteredStays CodesNeverRepeat ExportRoundTrips
