SPECIFICATION Spec
CONSTANTS
  free = free
  premium = premium
  month = month
  FreePlan = free
  Plans <- MCPlans
  Products = {month}
  PlanOf <- MCPlanOf
  Duration <- MCDuration
  Orders <- MCOrders
  Txns = {t, u}
  NoOrder = NoOrder
  NoTxn = NoTxn
  NoTime = NoTime
  NoProduct = NoProduct
  Buyers = {a, b}
  Hooks = {h}
  Worker = w
  LinkTTL = 1
  SettlementGrace = 0
  PendingOrderGrace = 0
  MaxTime = 2
INVARIANTS TypeOK OneLivePayment PaidIsCharged  
 
SYMMETRY BuyersAreAlike
