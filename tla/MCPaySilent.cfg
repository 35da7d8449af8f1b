SPECIFICATION FairSpec
CONSTANTS
  free = free
  premium = premium
  month = month
  FreePlan = free
  Plans <- MCPlans
  Products = {month}
  PlanOf <- MCPlanOf
  Duration <- MCDuration
  Orders <- MCOrders
  Txns = {t, u}
  NoOrder = NoOrder
  NoTxn = NoTxn
  NoTime = NoTime
  NoProduct = NoProduct
  Buyers = {b}
  Hooks = {h}
  Worker = w
  LinkTTL = 1
  SettlementGrace = 0
  PendingOrderGrace = 0
  MaxTime = 2
PROPERTIES NoSilentLoss
