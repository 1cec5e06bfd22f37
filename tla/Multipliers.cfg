SPECIFICATION Spec
CONSTANTS
  Accounts <- MCAccounts
  Keys <- MCKeys
  KeysOf <- MCKeysOf
  Ratios = {1, 2}
  Bases <- MCBases
  LocalRatio <- MCLocalRatio
  Channels <- MCChannels
  Catalogues <- MCCatalogues
  MaxUpsets = 2
CHECK_DEADLOCK FALSE
INVARIANT CompleteSyncCleans
PROPERTY SnapshotKept
PROPERTY SourceKept
PROPERTY Converges
