CONSTANTS
  c = c
  d = d
  n1 = n1
  n2 = n2
  free = free
  prem = prem
  Nodes = {n1, n2}
  Plans = {free, prem}
  FreePlan = free
  NoClient = NoClient
  Worker = w
  Callers = {c}
  Failures = {"retry", "hang"}
  Retirable = {}
  Quiet = {}
  MaxRetries = 2
  MaxFlows = 1
  MaxFaults = 1
  MaxFlips = 1
  PlanNodes <- MCPlanNodes
  Flows <- Reactivation
SPECIFICATION FairSpec
INVARIANTS
  TypeOK
PROPERTIES
  LadderEnds
  FailedNodeBlocksNoOther
