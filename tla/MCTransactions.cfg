SPECIFICATION MCSpec
CONSTANTS
  c1 = c1
  c2 = c2
  nobody = nobody
  form = form
  request = request
  Clerks <- MCClerks
  Items <- MCItems
  Warehouses <- MCWarehouses
  Documents <- MCDocuments
  Opening <- MCOpening
  Goods <- MCGoods
  Main = 1
  Nobody = nobody
  MaxRows = 3
  Forms <- MCForms
  Requests <- MCRequests
  Openings <- MCOpenings
  Purchases <- MCPurchases
  Sales = {1}
  MaxEntries = 5
  shop = shop
  friend = friend
  p1 = p1
  p2 = p2
  g1 = g1
  g2 = g2
  cron = cron
  code1 = code1
  none = none
  nocode = nocode
  Workspaces <- MCShops
  Payments <- MCPayments
  NoCause = none
  TrialDays = 1
  GraceDays = 1
  DeletionDays = 9
  Buyer <- MCBuysTwo
  PlanDays <- MCPlanDays
  Codes <- MCCodes
  NoCode = nocode
  MaxUses <- MCAnyUses
  Referrer <- MCInvited
  Pages <- MCPages
  Job = cron
  RewardDays = 1
  NeverExpires <- MCNoOne
  ReminderDays <- MCReminders
  WarningDays = 1
  SettlementWindow = 1
  OwnerLess <- MCNoOne
  MaxNow = 0
  MaxFaults = 2
  Nights <- MCNoNights
SYMMETRY ClerksAlike
INVARIANT DocumentMovedItsLines
INVARIANT NumbersHaveNoGaps
INVARIANT DefaultIsOneActive
INVARIANT DeadlockHasCause
INVARIANT OpeningAsTyped
INVARIANT CorrectedHistory
INVARIANT DraftKeepsItem
INVARIANT ExpiryIsChainOfEvents
INVARIANT VerifiedIffExtended
INVARIANT CodeSpentOnceWithDays
INVARIANT ReferrerRewardedOnce
PROPERTY RetiredStaysEmpty
PROPERTY LedgerSpec
CHECK_DEADLOCK FALSE
