SPECIFICATION HSpec
CONSTANTS
  m1 = m1
  m2 = m2
  k1 = k1
  k2 = k2
  empty = empty
  p1 = p1
  usb = usb
  internal = internal
  Mnemonics = {m1, m2}
  Passphrases = {empty, p1}
  EmptyPassphrase = empty
  AesKeys = {k1, k2}
  Sources = {usb, internal}
  SOURCE_INTERNAL = internal
  SOURCE_NONE = SOURCE_NONE
  None = None
  MaxFaults = 1
SYMMETRY Symmetric
INVARIANTS TypeOK AttemptsBounded UnlockedWalletIsStored EntropyIsTransient
           AttemptsRemainIfNoFault ThreeStrikesErase LockedToNetwork
PROPERTIES SavedWalletIsKept
