SPECIFICATION MCSpec
CONSTANTS
  owner = owner
  nobody = nobody
  t1 = t1
  t2 = t2
  desktop = desktop
  q1 = q1
  q2 = q2
  m1 = m1
  m2 = m2
  topup1 = topup1
  p1 = p1
  p2 = p2
  Users <- MCUsers
  NoUser = nobody
  Tabs <- MCTabs
  Rows <- MCRows
  Browsers <- MCBrowsers
  BrowserOf <- MCBrowserOf
  Requests <- MCRequests
  TabOf <- MCTabOf
  FormTabs <- MCFormTabs
  MaxCalls = 2
  MaxEvents = 1
  Messages <- MCMessages
  Topups <- MCOneTopup
  Settlers <- MCSettlers
  Costs <- MCCosts
  Amounts <- MCAmounts
INVARIANT RenewalFailsForCause
INVARIANT ResetEndsSessionsAtRest
INVARIANT NeverOverdrawn
INVARIANT MessageAgreesWithLedger
INVARIANT RefundMatchesSend
INVARIANT TopupCreditedOnce
PROPERTY RequestsSettle
PROPERTY DisabledLosesAccess
PROPERTY CallsEnd
CHECK_DEADLOCK FALSE
