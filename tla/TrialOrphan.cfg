SPECIFICATION Spec
CONSTANTS
  Followers = {u}
  Binders = {b}
  NoUser = NoUser
  MaxBinds = 1
  MaxFaults = 0
INVARIANTS
  NoOrphanedClient
CHECK_DEADLOCK FALSE
