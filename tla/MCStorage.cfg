SPECIFICATION StorageSpec
CONSTANTS
  Off = Off
  NoRequest = NoRequest
  Typed = {0, 300}
  Limit = 200000
  Order <- SomeLines
  Args <- AllArgs
  MaxInputs = 3
  MaxEdits = 3
  Writers = {"c", "d"}
  Kinds = {"export", "settings", "ranges", "xray"}
  Size = 2
  Before <- OldFiles
INVARIANTS StoreInv CommitInv SnapshotIsOneVersion ScanIsConfirmed
PROPERTIES KeepsBothSides
