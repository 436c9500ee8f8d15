SPECIFICATION FairSpec
CONSTANTS
  shop = shop
  friend = friend
  p1 = p1
  p2 = p2
  g1 = g1
  g2 = g2
  cron = cron
  code1 = code1
  none = none
  nocode = nocode
  Workspaces <- MCShop
  Payments <- MCPayments
  NoCause = none
  TrialDays = 1
  GraceDays = 1
  DeletionDays = 9
  Buyer <- MCBuysTwo
  PlanDays <- MCPlanDays
  Codes <- MCCodes
  NoCode = nocode
  MaxUses <- MCAnyUses
  Referrer <- MCNotInvited
  Pages <- MCOnePage
  Job = cron
  RewardDays = 1
  NeverExpires <- MCNoOne
  ReminderDays <- MCReminders
  WarningDays = 1
  SettlementWindow = 1
  OwnerLess <- MCShop
  MaxNow = 0
  MaxFaults = 0
  Nights <- MCEveryNight
PROPERTY OpenPaymentEnds
CHECK_DEADLOCK FALSE
