CONSTANTS
  Nodes = {"a", "b"}
  c1 = c1
  c2 = c2
  c3 = c3
  Conns <- MCConns
  Address <- MCAddress
  Uuid <- MCUuid
  Default <- MCDefault
  Files <- MCFiles
  Cli <- MCCli
  Env <- MCEnv
  Patterns <- MCPatterns
  U16 <- MCU16
  Usize <- MCUsize
  UuidText <- MCUuidText
  SeedsText <- MCSeedsText
  Edits <- MCEdits
  MaxOps = 2
  MaxFaults = 1
  MaxStarts <- MCMaxStarts
SYMMETRY Symmetry
SPECIFICATION Spec
INVARIANTS TypeOK IdentityKept SavedWhenAlone ReloadedWhenAlone PropagationAgrees
CHECK_DEADLOCK FALSE
