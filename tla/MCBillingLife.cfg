SPECIFICATION FairSpec
CONSTANTS
  shop = shop
  friend = friend
  p1 = p1
  p2 = p2
  g1 = g1
  g2 = g2
  cron = cron
  code1 = code1
  none = none
  nocode = nocode
  Workspaces <- MCShop
  Payments <- MCOnePayment
  NoCause = none
  TrialDays = 1
  GraceDays = 1
  DeletionDays = 3
  Buyer <- MCBuysOne
  PlanDays <- MCPlanDays
  Codes <- MCNoCodes
  NoCode = nocode
  MaxUses <- MCNoUses
  Referrer <- MCNotInvited
  Pages <- MCOnePage
  Job = cron
  RewardDays = 1
  NeverExpires <- MCNoOne
  ReminderDays <- MCReminders
  WarningDays = 1
  SettlementWindow = 9
  OwnerLess <- MCNoOne
  MaxNow = 4
  MaxFaults = 1
  Nights <- MCEveryNight
INVARIANT RemindersSentOnce
INVARIANT DeletedWasOverdue
INVARIANT PaidNeverWrittenOff
PROPERTY PaidGetsItsDays
CHECK_DEADLOCK FALSE
