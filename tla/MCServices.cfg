CONSTANTS
  Procs = {p1, p2, p3}
  Keys = {k1, k2}
  Objs = {o1, o2, o3}
  NoObj = NoObj
  n1 = n1
  n2 = n2
  i1 = i1
  i2 = i2
  i3 = i3
  \* Two attempts to bind by two users, and two failures: an attempt can fail
  \* at its end while another one, or the cleanup, has begun.
  NoUser = NoUser
  Followers = {"u", "v"}
  Binders = {"a", "b"}
  MaxBinds = 2
  MaxTrialFaults = 2
  \* One trial an hour for three visitors; the clock runs for an hour.
  Visitors = {"x", "y", "z"}
  RateLimit = 1
  Hour = 4
  Second = 2
  LastRequest = 4
  \* Two nodes, one reset of both, and as many failures as nodes.
  Nodes = {n1, n2}
  Limit = 2
  Denominator = 2
  MaxCycles = 1
  MaxTrafficFaults = 2
  Leads <- MCLeads
  HalfTick = 2
  Interval = 2
  Expiries <- MCExpiries
  LastReminder = 14
  MaxReminderFaults = 2
  Inbounds = {i1, i2, i3}
  FlowOf <- MCFlowOf
  MaxTries = 2
  MaxCallFaults = 2
  MaxEdits = 1
  \* Two creators, of which one may meet a payment, a deletion or a change of
  \* the plan instead of the other, and two failures.
  Creators = {"a", "b"}
  Free = "free"
  Paid = "paid"
  PlanNodes <- MCPlanNodes
  MaxRetries = 0
  MaxFlows = 2
  MaxSubscriptionFaults = 2
  \* Two reads make a copy; four backups with two kept.
  Pages = 2
  Keep = 2
  MaxDays = 4
  MaxCommits = 2
  \* Two workers that panic three times in all, and two slots for updates.
  Workers = {"w", "x"}
  MaxHandlers = 2
  MaxBackoff = 2
  MaxUpdates = 3
  MaxPanics = 3
  MaxLaunches = 1
SPECIFICATION ServicesSpec
INVARIANTS
  TypesOK
  NoLeak
  BoundKeepsAccess
  HourlyLimit
  RemindedOnceInTime
  FullMembership
  RestoreLosesNothing
PROPERTIES
  ImplementsMutex
  StuckHolderDoesNotBlock
  ExpiredTrialGoes
  AccessRecovers
  ActiveIsServed
  WorksUntilStopped
CHECK_DEADLOCK FALSE
