CONSTANTS
  Value = {v1, v2}
  Rejected = {old}
  None = None
  Half = 4
  Unreliable = {}
SPECIFICATION StoreSpec
INVARIANTS
  SavedIsDurable
PROPERTY IsDurableRegister
