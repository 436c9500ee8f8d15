SPECIFICATION MCSpec
CONSTANTS
    a = a
    b = b
    ann = ann
    bob = bob
    f1 = f1
    f2 = f2
    f3 = f3
    none = none
    Callers <- MCPair
    OTP_SEND_LIMIT = 1
    OTP_MAX_ATTEMPTS = 1
    MaxCodes = 3
    Users <- MCUsers
    Owner = ann
    Cashiers <- MCPair
    Items = {1}
    Warehouses = {1}
    Documents = {1, 2}
    Opening <- MCOpening
    PartLists <- MCPartLists
    Totals = {0, 2}
    Amounts = {1, 2}
    NoInvoice = none
    Files <- MCFiles
    Requests <- MCPair
    NoFile = none
    MaxPhotos = 2
    Desks <- MCPair
    MaxUpdates = 3
    Exports <- MCPair
    Askers <- MCUsers
    NoExport = none
    Searches = {"", "ali"}
    Pages = {1, 2}
    Blank = ""
    MaxFlight = 2
    MaxSaves = 2
    Forms <- MCPair
    Photos <- MCUsers
    NoForm = none
    MaxMade = 2
SYMMETRY Alike
INVARIANT CodeOpensOnce
INVARIANT CeilingsHaveCause
INVARIANT PartsMatchStatus
INVARIANT PaidWasCollected
INVARIANT RowsHaveObjects
INVARIANT ToldOncePerMove
INVARIANT ReadyHasArchive
INVARIANT ShowsWhatIsAsked
INVARIANT WorkArrivesOnce
PROPERTY StandingIsTaken
CHECK_DEADLOCK FALSE
