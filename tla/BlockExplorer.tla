---------------------------- MODULE BlockExplorer ----------------------------
(***************************************************************************)
(* The block chain explorer: BlockChainExplorerWorker (its own thread and  *)
(* block cache), its adapter, and the two models it feeds, BlockchainModel *)
(* and TransactionPoolModel, which live on the GUI thread.                 *)
(*                                                                         *)
(* A request of the GUI thread takes m_preloadSemaphore, posts an Impl to  *)
(* the worker and waits: getBlock blocks the thread, the others run a      *)
(* nested QEventLoop, in which the thread goes on dispatching events and   *)
(* painting, so that requests nest (`stack').  The Impl gives the token    *)
(* back and emits a completion signal; the lambda that stores the outcome  *)
(* and ends the loop is a functor of the worker object and therefore runs  *)
(* later, from the worker's own queue (`wq').                              *)
(***************************************************************************)
EXTENDS Integers, Sequences, FiniteSets, SequencesExt

CONSTANTS
  Capacity,   \* cost limit of m_blocksCache (QCache's default, 100)
  Preloaded,  \* PRELOADED_BLOCK_COUNT
  MaxTop,     \* highest block of the bounded chain
  Txs,        \* pool transactions
  MaxDepth,   \* nested requests
  MaxAsks,    \* requests of the GUI
  MaxNews     \* events of the node

ASSUME ExplorerAssumption ==
  /\ Capacity \in Nat \ {0} /\ Preloaded \in Nat /\ MaxTop \in Nat \ {0}
  /\ MaxDepth \in Nat /\ MaxAsks \in Nat /\ MaxNews \in Nat

VARIABLES
  sem,     \* available() of m_preloadSemaphore
  stack,   \* the requests the GUI thread is in, innermost first
  wq,      \* events posted to the worker thread
  job,     \* the Impl the worker thread is running, or NoJob
  cache,   \* keys of m_blocksCache, least recently used first
  hand,    \* the block data() has a pointer to, and whether it still exists
  node,    \* the node: top block, pool, synchronised, explorer initialised
  guiq,    \* explorer and node events posted to the GUI thread
  count,   \* NodeStateModel's last local block
  last,    \* BlockchainModel::m_lastLocalBlockIndex
  rows,    \* TransactionPoolModel::m_rowHashes
  shown,   \* keys of TransactionPoolModel::m_transactions
  synced,  \* TransactionPoolModel::m_isSynchronized
  dirty,   \* pool news since the last query was missed, or handled inside it,
           \* or the query was cut short by quit()
  quit,    \* quit(): no, loops being left, or the last shutdown
  cut,     \* the requests made up to the end of the loops quit() ended
  asks, news

vars == <<sem, stack, wq, job, cache, hand, node, guiq, count, last, rows,
          shown, synced, dirty, quit, cut, asks, news>>

Heights == 0..MaxTop
Invalid == MaxTop + 1          \* INVALID_BLOCK_HEIGHT, INVALID_BLOCK_INDEX
NoJob == [op |-> "none"]
NoBlock == [at |-> Invalid, valid |-> TRUE]
Waits == {"range", "list", "time"}   \* preloadBlocks: an interval, indexes or
                                    \* hashes, a period
Top == Head(stack)

\* The GUI thread is dispatching: in the application's loop or a nested one,
\* and after quit() in the loops of the last shutdown.
InLoop == /\ hand = NoBlock /\ quit # "unwind"
          /\ stack # <<>> => (Top.at = "loop" /\ ~Top.exit)

Live(i) == \E k \in DOMAIN stack: stack[k].id = i

Querying(s) == \E k \in DOMAIN s: s[k].op = "pool"

\* The elements of s that are in A, in order.
Kept(s, A) ==
  LET f[i \in 0..Len(s)] == IF i = 0 THEN <<>>
                            ELSE IF s[i] \in A THEN Append(f[i - 1], s[i])
                                               ELSE f[i - 1]
  IN  f[Len(s)]

\* Mutant: the cache has no limit.
PutUnbounded(c, hs) == Kept(c, Heights \ ToSet(hs)) \o hs

\* QCache::insert of distinct blocks and the evictions it makes: the last
\* Capacity blocks used are kept, the inserted ones being the last.
PutAll(c, hs) == LET d == Kept(c, Heights \ ToSet(hs)) \o hs
                 IN  IF Len(d) > Capacity
                     THEN SubSeq(d, Len(d) - Capacity + 1, Len(d)) ELSE d

\* QCache::object makes the block the last one used.
Use(c, h) == PutAll(c, <<h>>)

Frame(op, lo, hi, by) ==
  [id |-> asks + 1, op |-> op, lo |-> lo, hi |-> hi, by |-> by,
   at |-> IF op = "init" THEN "start" ELSE "lock", exit |-> FALSE,
   status |-> "none", got |-> <<>>, from |-> 0]

Request(f) == [what |-> "impl", op |-> f.op, id |-> f.id, lo |-> f.lo,
               hi |-> f.hi]

\* A request made on top of the frames s: the GUI enters the function.
Enter(s, f) == asks' = asks + 1 /\ stack' = <<f>> \o s
MayAsk == InLoop /\ Len(stack) < MaxDepth /\ asks < MaxAsks

Init ==
  /\ sem = 1 /\ stack = <<>> /\ wq = <<>> /\ job = NoJob
  /\ cache = <<>> /\ hand = NoBlock
  /\ node \in [top: {0, MaxTop - 1}, pool: {{}}, synced: BOOLEAN,
               inited: {FALSE}, life: {"new"}]
  /\ guiq = <<>> /\ count = 0 /\ last = Invalid
  /\ rows = <<>> /\ shown = {} /\ synced = FALSE /\ dirty = FALSE
  /\ quit = "no" /\ cut = 0 /\ asks = 0 /\ news = 0

-----------------------------------------------------------------------------
(* The GUI thread: a request from its first statement to its last.          *)

Waiting == stack # <<>> /\ hand = NoBlock
gui == <<cache, node, guiq, count, last, rows, shown, synced, dirty, quit, cut,
         news>>

\* SemaphoreLocker's constructor, then the request is posted.  getBlock waits
\* for the token at once; the others go on to run a QEventLoop.
Lock == /\ Waiting /\ Top.at = "lock" /\ sem = 1
        /\ sem' = 0
        /\ wq' = Append(wq, Request(Top))
        /\ stack' = [stack EXCEPT ![1].at =
                       IF Top.op = "block" THEN "wait" ELSE "start"]
        /\ UNCHANGED <<job, hand, asks>> /\ UNCHANGED gui

\* QEventLoop::exec forgets an exit() that came before it.  init() posts its
\* Impl here too: its loop is told by a signal queued to the GUI thread.
Exec == /\ Waiting /\ Top.at = "start" /\ quit # "unwind"
        /\ stack' = [stack EXCEPT ![1].at = "loop", ![1].exit = FALSE]
        /\ wq' = IF Top.op = "init" THEN Append(wq, Request(Top)) ELSE wq
        /\ UNCHANGED <<sem, job, hand, asks>> /\ UNCHANGED gui

\* A loop entered after quit() returns -1 at once.  (No handler that runs
\* then calls init.)
Refused == /\ Waiting /\ Top.at = "start" /\ Top.op # "init" /\ quit = "unwind"
           /\ stack' = [stack EXCEPT ![1].at = "wait"]
           /\ UNCHANGED <<sem, wq, job, hand, asks>> /\ UNCHANGED gui

\* Mutant: the loop is left before it is told to.
LeaveEarly == /\ Waiting /\ Top.at = "loop"
              /\ stack' = IF Top.op = "init" THEN Tail(stack)
                          ELSE [stack EXCEPT ![1].at = "wait"]
              /\ UNCHANGED <<sem, wq, job, hand, asks>> /\ UNCHANGED gui

\* Told to end by the lambda, by init()'s signal, or by quit().
LeaveLoop == /\ Waiting /\ Top.at = "loop" /\ Top.exit
             /\ stack' = IF Top.op = "init" THEN Tail(stack)
                         ELSE [stack EXCEPT ![1].at = "wait"]
             /\ UNCHANGED <<sem, wq, job, hand, asks>> /\ UNCHANGED gui

\* Mutant: getBlock goes on without waiting for the worker.
NotAwaited == Waiting /\ Top.at = "wait"

\* locker.wait(), disconnect and SemaphoreLocker's destructor: the token is
\* taken from the Impl and given back at once.
TokenBack == Waiting /\ Top.at = "wait" /\ sem = 1

\* getBlock returns what the cache holds now, and data() goes on to use it.
ReturnBlock ==
  /\ TokenBack /\ Top.op = "block"
  /\ stack' = Tail(stack)
  /\ IF Contains(cache, Top.lo)
     THEN /\ hand' = [at |-> Top.lo, valid |-> TRUE]
          /\ cache' = Use(cache, Top.lo)
     ELSE UNCHANGED <<hand, cache>>
  /\ UNCHANGED <<sem, wq, job, node, guiq, count, last, rows, shown, synced,
                 dirty, quit, cut, asks, news>>

\* A page, a filter, or the preload at the end of BlockchainModel's reset;
\* TransactionPoolModel is the next observer of the same signal.
ReturnPreload ==
  /\ TokenBack /\ Top.op \in Waits
  /\ IF Top.by = "model"
     THEN \/ /\ node.synced
             /\ rows' = <<>> /\ shown' = {} /\ synced' = TRUE
             /\ Enter(Tail(stack), Frame("pool", 0, 0, "init"))
             /\ dirty' = Querying(Tail(stack))
          \/ /\ ~node.synced
             /\ rows' = <<>> /\ shown' = {} /\ synced' = FALSE
             /\ stack' = Tail(stack) /\ UNCHANGED <<dirty, asks>>
     ELSE stack' = Tail(stack) /\ UNCHANGED <<rows, shown, synced, dirty, asks>>
  /\ UNCHANGED <<sem, wq, job, cache, hand, node, guiq, count, last, quit, cut, news>>

\* The pool query returns: blockchainSynchronized clears and fills the rows,
\* cryptoNoteAdapterInitCompleted had cleared them before it asked.
ReturnPool ==
  /\ TokenBack /\ Top.op = "pool"
  /\ stack' = Tail(stack)
  /\ IF Top.status = "ok"
     THEN /\ rows' = Reverse(Top.got) \o (IF Top.by = "sync" THEN <<>> ELSE rows)
          /\ shown' = ToSet(Top.got) \cup (IF Top.by = "sync" THEN {} ELSE shown)
          /\ UNCHANGED synced
     ELSE synced' = FALSE /\ UNCHANGED <<rows, shown>>
  /\ UNCHANGED <<sem, wq, job, cache, hand, node, guiq, count, last, dirty,
                 quit, cut, asks, news>>

\* data() is done with the block.
PutDown == /\ hand # NoBlock
           /\ hand' = NoBlock
           /\ UNCHANGED <<sem, stack, wq, job, asks>> /\ UNCHANGED gui

\* QCoreApplication::quit: every running loop is told to return 0, whatever its
\* request has come to; the frame's variables stay as they are.  The functor
\* still connected then finds the frame gone: undefined in the code, and
\* without effect here (Deliver).
Quit ==
  /\ InLoop /\ quit = "no"
  /\ quit' = "unwind"
  /\ stack' = [k \in DOMAIN stack |->
                 [stack[k] EXCEPT !.exit = TRUE, !.status = "ok"]]
  /\ dirty' = (dirty \/ Querying(stack))
  /\ UNCHANGED <<sem, wq, job, cache, hand, node, guiq, count, last, rows,
                 shown, synced, cut, asks, news>>

\* QCoreApplication::exec returns and prepareToQuit runs loops of its own.
LastShutdown ==
  /\ quit = "unwind" /\ stack = <<>> /\ hand = NoBlock
  /\ quit' = "last" /\ cut' = asks
  /\ UNCHANGED <<sem, stack, wq, job, cache, hand, node, guiq, count, last,
                 rows, shown, synced, dirty, asks, news>>

-----------------------------------------------------------------------------
(* The GUI thread: what it starts from an event loop.                       *)

Rest == <<sem, wq, job, node, guiq, count, rows, shown, synced, dirty, quit,
          cut, news>>

\* CryptoNoteAdapter calls init once the node is up; deinit takes the adapter
\* and the worker off their observers without a loop.
ExplorerInit ==
  /\ MayAsk /\ node.life = "new"
  /\ Enter(stack, Frame("init", 0, 0, "adapter"))
  /\ node' = [node EXCEPT !.life = "up"]
  /\ UNCHANGED <<sem, wq, job, cache, hand, guiq, count, last, rows, shown,
                 synced, dirty, quit, cut, news>>

ExplorerDeinit ==
  /\ InLoop /\ node.life = "up"
  /\ node' = [node EXCEPT !.inited = FALSE, !.life = "down"]
  /\ UNCHANGED <<sem, stack, wq, job, cache, hand, guiq, count, last, rows,
                 shown, synced, dirty, quit, cut, asks, news>>

\* BlockchainModel::cryptoNoteAdapterInitCompleted: a reset around a preload
\* of the blocks below the top.
InitCompleted ==
  /\ MayAsk /\ node.life # "none"
  /\ last' = count
  /\ Enter(stack, Frame("range",
             IF count < Preloaded THEN 0 ELSE count - Preloaded, count, "model"))
  /\ UNCHANGED <<cache, hand>> /\ UNCHANGED Rest

\* The same of a node without explorer, the first one or, after the loops of
\* deinit() and init(), the next: both models are emptied.
InitCompletedWithout ==
  /\ InLoop /\ stack = <<>> /\ guiq = <<>> /\ node.life \in {"new", "down"}
  /\ node' = [node EXCEPT !.life = "none"]
  /\ last' = Invalid /\ rows' = <<>> /\ shown' = {}
  /\ UNCHANGED <<sem, stack, wq, job, cache, hand, guiq, count, synced, dirty,
                 quit, cut, asks, news>>

\* A view reads a row: getBlock, which only waits if the block is not cached.
\* After quit() the window is hidden.
Paint == \E h \in Heights:
  /\ InLoop /\ quit = "no" /\ last # Invalid /\ h <= last
  /\ IF Contains(cache, h)
     THEN /\ hand' = [at |-> h, valid |-> TRUE]
          /\ cache' = Use(cache, h)
          /\ UNCHANGED <<stack, asks>>
     ELSE /\ MayAsk
          /\ Enter(stack, Frame("block", h, h, "view"))
          /\ UNCHANGED <<hand, cache>>
  /\ UNCHANGED last /\ UNCHANGED Rest

\* WindowedBlockModel's pages and FilteredBlockModel's searches.
Preload == \E op \in Waits, lo, hi \in Heights:
  /\ MayAsk /\ quit = "no" /\ node.life # "none"
  /\ (op = "range" => hi \in {lo, lo + 1}) /\ (op # "range" => lo = hi)
  /\ Enter(stack, Frame(op, lo, hi, IF op = "range" THEN "page" ELSE "filter"))
  /\ UNCHANGED <<cache, hand, last>> /\ UNCHANGED Rest

-----------------------------------------------------------------------------
(* The GUI thread: events.                                                  *)

Event(what) == /\ InLoop /\ guiq # <<>> /\ Head(guiq).what = what
               /\ guiq' = Tail(guiq)

\* init()'s loop gets initCompletedSignal.
OnInitDone ==
  /\ Event("inited")
  /\ stack' = [k \in DOMAIN stack |->
       IF stack[k].op = "init" THEN [stack[k] EXCEPT !.exit = TRUE] ELSE stack[k]]
  /\ UNCHANGED <<sem, wq, job, cache, hand, node, count, last, rows, shown,
                 synced, dirty, quit, cut, asks, news>>

\* Mutant: the next block alone adds no row.
TopSkipsOne ==
  /\ Event("top")
  /\ count' = Head(guiq).top
  /\ last' = IF last # Invalid /\ count' > last + 1 THEN count' ELSE last
  /\ UNCHANGED <<sem, stack, wq, job, cache, hand, node, rows, shown, synced,
                 dirty, quit, cut, asks, news>>

\* NodeStateModel::localBlockchainUpdated, then BlockchainModel's
\* nodeStateChanged, which only ever adds rows.
OnTop ==
  /\ Event("top")
  /\ count' = Head(guiq).top
  /\ last' = IF last # Invalid /\ count' > last THEN count' ELSE last
  /\ UNCHANGED <<sem, stack, wq, job, cache, hand, node, rows, shown, synced,
                 dirty, quit, cut, asks, news>>

\* TransactionPoolModel::poolUpdated.
OnPoolUpdated ==
  /\ Event("pool")
  /\ LET e == Head(guiq)
         new == Kept(e.add, Txs \ shown)
     IN  /\ rows' = Kept(Reverse(new) \o rows, Txs \ e.del)
         /\ shown' = (shown \cup ToSet(new)) \ e.del
  /\ dirty' = (dirty \/ Querying(stack))
  /\ UNCHANGED <<sem, stack, wq, job, cache, hand, node, count, last, synced,
                 quit, cut, asks, news>>

\* TransactionPoolModel::blockchainSynchronized.
OnSynchronized ==
  /\ Event("synced")
  /\ IF synced
     THEN UNCHANGED <<stack, synced, dirty, asks>>
     ELSE /\ synced' = TRUE
          /\ dirty' = Querying(stack)
          /\ Enter(stack, Frame("pool", 0, 0, "sync"))
  /\ UNCHANGED <<sem, wq, job, cache, hand, node, count, last, rows, shown,
                 quit, cut, news>>

-----------------------------------------------------------------------------
(* The worker thread.                                                       *)

Idle == job = NoJob /\ wq # <<>>

\* preloadBlocksImpl(min, max): the interval cut at the top, and the blocks of
\* it the cache lacks.  No block to load is a failure.
RangeTodo(r) == LET hi == IF r.hi < node.top THEN r.hi ELSE node.top
                IN  Kept([i \in 1..(IF hi < r.lo THEN 0 ELSE hi - r.lo + 1)
                            |-> r.lo + i - 1], Heights \ ToSet(cache))

\* preloadBlocksImpl(indexes) and (hashes) load what they are given, cached or
\* not; a block the node does not have is an exception.
ListTodo(r) == IF r.lo <= node.top THEN <<r.lo>> ELSE <<>>

\* An Impl begins: it reads the top and, under the read lock, the cache.
TakeJob ==
  /\ Idle /\ Head(wq).what = "impl"
  /\ wq' = Tail(wq)
  /\ LET r == Head(wq)
     IN  job' = [op |-> r.op, id |-> r.id, lo |-> r.lo, hi |-> r.hi,
                 todo |-> CASE r.op \in {"range", "block"} -> RangeTodo(r)
                            [] r.op = "list" -> ListTodo(r)
                            [] OTHER -> <<>>]
  /\ UNCHANGED <<sem, stack, hand, asks>> /\ UNCHANGED gui

\* The lambdas connected now: the preloads in a loop or past it.
Connected(op) == Kept(stack, {f \in ToSet(stack):
  f.at \in {"start", "loop", "wait"} /\ (IF op = "pool" THEN f.op = "pool"
                                                         ELSE f.op \in Waits)})

\* Mutant: an Impl ends without its signal.
EmitNothing(op, id, status, got) == wq' = wq

\* Emitting a completion signal posts one call per connected lambda.
Emit(op, id, status, got) ==
  wq' = wq \o [k \in DOMAIN Connected(op) |->
    [what |-> "call", to |-> Reverse(Connected(op))[k].id, from |-> id,
     status |-> status, got |-> got]]

\* Mutant: an Impl keeps the token.
KeepToken == sem' = sem /\ job' = NoJob

Release == sem' = sem + 1 /\ job' = NoJob

\* PRELOAD_FAIL: nothing to load, or the node threw.
FailPreload ==
  /\ job.op \in Waits \cup {"block"}
  /\ Emit("range", job.id, "fail", <<>>)
  /\ Release
  /\ UNCHANGED <<stack, hand, asks>> /\ UNCHANGED gui

\* The blocks arrive and are cached under the write lock; a block being read
\* is deleted when its key is inserted again or evicted.
LoadBlocks ==
  /\ job.op \in Waits \cup {"block"} /\ job.todo # <<>> /\ node.inited
  /\ cache' = PutAll(cache, job.todo)
  /\ hand' = [hand EXCEPT !.valid =
                hand = NoBlock \/ (@ /\ hand.at \notin ToSet(job.todo)
                                     /\ Contains(cache', hand.at))]
  /\ Emit("range", job.id, "ok", <<>>)
  /\ Release
  /\ UNCHANGED <<stack, node, guiq, count, last, rows, shown, synced, dirty,
                 quit, cut, asks, news>>

\* preloadBlocksImpl(begin, end): the blocks found are reported, not cached; no
\* block at all is a success too.
FindByTime ==
  /\ job.op = "time" /\ node.inited
  /\ Emit("range", job.id, "ok", <<>>)
  /\ Release
  /\ UNCHANGED <<stack, hand, asks>> /\ UNCHANGED gui

GetPoolState ==
  /\ job.op = "pool"
  /\ \/ Emit("pool", job.id, "fail", <<>>)
     \/ /\ node.inited
        /\ Emit("pool", job.id, "ok", SetToSeq(node.pool))
  /\ Release
  /\ UNCHANGED <<stack, hand, asks>> /\ UNCHANGED gui

\* initImpl: the explorer is initialised and the worker observes it, or not.
InitImpl ==
  /\ job.op = "init"
  /\ \E ok \in BOOLEAN:
       node' = [node EXCEPT !.inited = ok /\ node.life = "up"]
  /\ guiq' = Append(guiq, [what |-> "inited"])
  /\ job' = NoJob
  /\ UNCHANGED <<sem, stack, wq, cache, hand, count, last, rows, shown, synced,
                 dirty, quit, cut, asks, news>>

\* A lambda runs on the worker thread: it stores the outcome in the variables
\* of the frame it was made for and ends that frame's loop.
Deliver ==
  /\ Idle /\ Head(wq).what = "call"
  /\ wq' = Tail(wq)
  /\ LET c == Head(wq)
     IN  stack' = [k \in DOMAIN stack |->
           LET f == stack[k] IN
           IF f.id # c.to THEN f
           ELSE [f EXCEPT !.exit = TRUE,
                  !.from = IF f.at = "wait" THEN @ ELSE c.from,
                  !.status = IF f.at = "wait" THEN @ ELSE c.status,
                  !.got = IF c.status = "ok" THEN c.got ELSE @]]
  /\ UNCHANGED <<sem, job, hand, asks>> /\ UNCHANGED gui

-----------------------------------------------------------------------------
(* The node's threads.  The worker's signals are queued to the GUI thread   *)
(* once the adapter observes the worker and the worker the explorer.        *)

News == news < MaxNews /\ news' = news + 1
Heard == node.inited /\ node.life = "up"
Tell(e) == guiq' = IF Heard THEN Append(guiq, e) ELSE guiq
NodeRest == <<sem, stack, wq, job, cache, hand, count, last, rows, shown,
              synced, quit, cut, asks>>

NewTop == \E t \in Heights \ {node.top}:
  /\ News
  /\ node' = [node EXCEPT !.top = t]
  /\ guiq' = Append(guiq, [what |-> "top", top |-> t])
  /\ UNCHANGED dirty /\ UNCHANGED NodeRest

PoolChanges == \E t \in Txs:
  /\ News
  /\ node' = [node EXCEPT !.pool = IF t \in @ THEN @ \ {t} ELSE @ \cup {t}]
  /\ dirty' = (dirty \/ ~Heard)
  /\ Tell([what |-> "pool", add |-> IF t \in node.pool THEN <<>> ELSE <<t>>,
           del |-> IF t \in node.pool THEN {t} ELSE {}])
  /\ UNCHANGED NodeRest

Synchronized ==
  /\ News /\ ~node.synced
  /\ node' = [node EXCEPT !.synced = TRUE]
  /\ Tell([what |-> "synced"])
  /\ UNCHANGED dirty /\ UNCHANGED NodeRest

-----------------------------------------------------------------------------
Gui == \/ Lock \/ Exec \/ Refused \/ LeaveLoop \/ ReturnBlock \/ ReturnPreload
       \/ ReturnPool \/ PutDown \/ OnInitDone \/ OnTop \/ OnPoolUpdated
       \/ OnSynchronized \/ LastShutdown
Worker == \/ TakeJob \/ FailPreload \/ LoadBlocks \/ FindByTime
          \/ GetPoolState \/ InitImpl \/ Deliver
User == \/ ExplorerInit \/ ExplorerDeinit \/ InitCompleted
        \/ InitCompletedWithout \/ Paint \/ Preload \/ Quit
Node == NewTop \/ PoolChanges \/ Synchronized

Next == Gui \/ Worker \/ User \/ Node

\* Both threads run on, and a view that repaints does not keep the event loop
\* from the events queued before it.
Dispatch == OnInitDone \/ OnTop \/ OnPoolUpdated \/ OnSynchronized
Spec == Init /\ [][Next]_vars /\ WF_vars(Gui) /\ SF_vars(Dispatch) /\ WF_vars(Worker)

-----------------------------------------------------------------------------
(* Properties.                                                              *)

Outcomes == {"none", "ok", "fail"}
Frames == [id: Nat, op: Waits \cup {"block", "pool", "init"}, lo: Heights,
           hi: Heights, by: {"view", "page", "filter", "model", "init", "sync",
           "adapter"}, at: {"lock", "start", "loop", "wait"}, exit: BOOLEAN,
           status: Outcomes, got: Seq(Txs),
           from: Nat]

Requests == [what: {"impl"}, op: Waits \cup {"block", "pool", "init"}, id: Nat,
             lo: Heights, hi: Heights]
Calls == [what: {"call"}, to: Nat, from: Nat, status: {"ok", "fail"}, got: Seq(Txs)]
Jobs == [op: Waits \cup {"block", "pool", "init"}, id: Nat, lo: Heights,
         hi: Heights, todo: Seq(Heights)]
Events == [what: {"inited", "synced"}] \cup [what: {"top"}, top: Heights]
            \cup [what: {"pool"}, add: Seq(Txs), del: SUBSET Txs]

TypeOK ==
  /\ sem \in 0..1 /\ stack \in Seq(Frames)
  /\ wq \in Seq(Requests \cup Calls) /\ job \in {NoJob} \cup Jobs
  /\ node \in [top: Heights, pool: SUBSET Txs, synced: BOOLEAN,
               inited: BOOLEAN, life: {"new", "up", "down", "none"}]
  /\ guiq \in Seq(Events) /\ asks \in Nat /\ news \in 0..MaxNews
  /\ cache \in Seq(Heights) /\ Len(cache) <= Capacity
  /\ hand \in [at: 0..Invalid, valid: BOOLEAN]
  /\ count \in Heights /\ last \in 0..Invalid
  /\ rows \in Seq(Txs) /\ shown \in SUBSET Txs
  /\ synced \in BOOLEAN /\ dirty \in BOOLEAN
  /\ quit \in {"no", "unwind", "last"} /\ cut \in 0..asks

\* The semaphore's single token is free, in a request posted to the worker, or
\* in the Impl the worker runs: never lost, never doubled, whatever requests
\* nest.  SemaphoreUnlocker's Q_ASSERT(available() == 0) follows.
Carries(e) == e.what = "impl" /\ e.op # "init"
Working == job.op \notin {"none", "init"}
Holders == {k \in -1..Len(wq): IF k = -1 THEN sem > 0
                               ELSE IF k = 0 THEN Working ELSE Carries(wq[k])}
TokenAccounted == sem <= 1 /\ \E h \in Holders: Holders = {h}

\* A preload or pool query reports the outcome of its own request as long as
\* no other was made inside its loop (one that was overwrites it: every Impl
\* emits the same signal, and the lambda of the outer call is still connected).
OwnOutcome == \A k \in DOMAIN stack:
  LET f == stack[k] IN
  f.at = "wait" /\ f.op # "block" /\ f.id = asks => f.from = f.id

\* The lambda captures the frame's variables by reference.  A call left in the
\* worker's queue for a frame that has returned was posted by a request made
\* inside it, or its loop was ended by quit().
NoLateCall == \A k \in DOMAIN wq:
  LET e == wq[k] IN e.what = "call" /\ e.from = e.to /\ e.to > cut => Live(e.to)

\* Both, except while the loops that quit() ended are left: outcomes and late
\* calls never reach the wrong request.
OutcomesReturn == quit # "unwind" => OwnOutcome /\ NoLateCall

\* A block that data() reads outside every nested loop is not deleted under
\* it: getBlock reads the cache without m_cacheLock, and only the wait for the
\* worker keeps the writer away.
BlockInHandLives == stack = <<>> => hand.valid

\* getUserRole looks every row's hash up in the map.
RowsHaveData == ToSet(rows) = shown

\* With nothing queued and no update lost or handled inside the query, the
\* pool view shows each transaction of the pool once.
PoolShown ==
  (synced /\ ~dirty /\ Heard /\ ~Querying(stack)
     /\ \A k \in DOMAIN guiq: guiq[k].what # "pool") =>
  (shown = node.pool /\ IsInjective(rows))

\* The explorer has a row for every block NodeStateModel counts.
RowsCoverChain == last # Invalid => last >= count

\* The three together: what the two models show is what the node has told.
ViewsShowNode == RowsHaveData /\ PoolShown /\ RowsCoverChain

\* A request made in a nested loop never leaves the outer one waiting for ever:
\* the GUI gets back to the application's loop unless a lambda ran before the
\* loop it should end had begun, and its exit() was forgotten.
Deaf == \E k \in DOMAIN stack:
  LET f == stack[k] IN
  /\ f.at = "loop" /\ ~f.exit /\ f.op # "init" /\ f.status # "none"
GuiComesBack == stack # <<>> ~> (stack = <<>> \/ Deaf)
=============================================================================
