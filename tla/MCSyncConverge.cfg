CONSTANTS
  c = c
  d = d
  n1 = n1
  n2 = n2
  free = free
  prem = prem
  Nodes = {n1, n2}
  Plans = {free, prem}
  FreePlan = free
  NoClient = NoClient
  Worker = w
  Callers = {c}
  Failures = {"retry", "hang"}
  Retirable = {}
  MaxRetries = 1
  MaxFlows = 2
  MaxFaults = 1
  MaxFlips = 0
  PlanNodes <- MCPlanNodes
  Flows <- PlanChanges
  Quiet <- LockedSteps
SPECIFICATION FairSpec
PROPERTIES
  Converges
