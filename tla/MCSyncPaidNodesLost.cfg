CONSTANTS
  c = c
  d = d
  n1 = n1
  n2 = n2
  free = free
  prem = prem
  Nodes = {n1, n2}
  Plans = {free, prem}
  FreePlan = free
  NoClient = NoClient
  Worker = w
  Callers = {c}
  Failures = {}
  Retirable = {}
  Quiet = {}
  MaxRetries = 1
  MaxFlows = 1
  MaxFaults = 0
  MaxFlips = 0
  PlanNodes <- MCPlanNodes
  Flows <- PlanChanges
SPECIFICATION FairSpec
PROPERTIES
  NodeSetConverges
