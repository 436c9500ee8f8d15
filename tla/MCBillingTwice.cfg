SPECIFICATION BillingSpec
CONSTANTS
  shop = shop
  friend = friend
  p1 = p1
  p2 = p2
  g1 = g1
  g2 = g2
  cron = cron
  code1 = code1
  none = none
  nocode = nocode
  Workspaces <- MCShop
  Payments <- MCOnePayment
  NoCause = none
  TrialDays = 1
  GraceDays = 1
  DeletionDays = 9
  Buyer <- MCBuysOne
  PlanDays <- MCPlanDays
  Codes <- MCNoCodes
  NoCode = nocode
  MaxUses <- MCNoUses
  Referrer <- MCNotInvited
  Pages <- MCPages
  Job = cron
  RewardDays = 1
  NeverExpires <- MCNoOne
  ReminderDays <- MCReminders
  WarningDays = 1
  SettlementWindow = 1
  OwnerLess <- MCNoOne
  MaxNow = 0
  MaxFaults = 0
  Nights <- MCNoNights
INVARIANT ExtendedOnce
CHECK_DEADLOCK FALSE
