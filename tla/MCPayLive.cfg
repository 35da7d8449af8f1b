SPECIFICATION FairSpec
CONSTANTS
  free = free
  premium = premium
  month = month
  FreePlan = free
  Plans <- MCPlans
  Products = {month}
  PlanOf <- MCPlanOf
  Duration <- MCDuration
  Orders <- MCOrders
  Txns = {t}
  NoOrder = NoOrder
  NoTxn = NoTxn
  NoTime = NoTime
  NoProduct = NoProduct
  Buyers = {b}
  Hooks = {h}
  Worker = w
  LinkTTL = 1
  SettlementGrace = 0
  PendingOrderGrace = 1
  MaxTime = 3
PROPERTIES LostCallbackRepaired
