\* A transaction event reaches the model before walletOpened.
SPECIFICATION Spec
CONSTANTS
  MaxTxs = 1
  MaxNews = 1
  MaxHeight = 1
  MaxErrors = 0
INVARIANT OpensEmpty
CHECK_DEADLOCK FALSE
