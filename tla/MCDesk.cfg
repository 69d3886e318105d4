SPECIFICATION Spec
CONSTANTS
  Nothing = Nothing
  Modulus = 11
  PageHeight = 2
  MaxView = 2
  MaxReads = 2
  Adrift = FALSE
  MaxTxs = 2
  MaxNews = 3
  MaxBlocks = 1
  MaxErrors = 1
  Addresses = {a1, a2}
  MaxSessions = 2
  MaxEvents = 2
  Transfers = {r1, r2}
  Owners = {a1}
  Unknown = Unknown
  MaxNow = 2
  Payees = {a1}
  Number = Number
  Alias = Alias
  MaxForms = 3
  MaxInputs = 3
  MaxNested = 1
  Labels = {l1, l2}
  Bare = l1
  Trim <- CutToBare
  Recipients = {a1, a2}
  Proper = {a2}
  Payments = {Nothing, a2}
  DevLabel = l1
  DevFund = a2
  MaxItems = 2
  MaxDialogs = 2
  Amounts = {0, 6}
  Balances = {9, 12, 16}
  MinimalFees = {1, 2}
  Priorities = {1, 2}
  FlatFee = 1
  Rate = 4
  MaxNodeFee = 3
  Exact = 14
  MaxRecipients = 2
INVARIANTS
  TypeOK
  HistoryFollowsWallet
  CardsAgree
  FilterInForce
  FormIsOrder
  NumberShownIsAsked
  BookInOrder
  OrderPaid
PROPERTIES
  PagesKeepPromises
  HiddenRowsAppear
CHECK_DEADLOCK FALSE
