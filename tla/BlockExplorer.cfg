SPECIFICATION Spec
CONSTANTS
  Capacity = 1
  Preloaded = 1
  MaxTop = 1
  Txs = {t1}
  MaxDepth = 2
  MaxAsks = 3
  MaxNews = 1
INVARIANTS
  TypeOK
  TokenAccounted
  OutcomesReturn
  BlockInHandLives
  ViewsShowNode
PROPERTY GuiComesBack
CHECK_DEADLOCK FALSE
