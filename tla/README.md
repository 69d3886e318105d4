# Karbo GUI: a TLA+ model

Karbo is the Qt wallet of the Karbovanets network: a GUI thread with windows
and models, a wallet thread, a node (in process or a remote daemon) and a block
explorer with a thread of its own, glued by queued signals, semaphores and
nested event loops.  What is hard in it is not any one function; it is what may
happen *inside* a call, while a nested `QEventLoop` dispatches other handlers,
and which thread touches what in which order.  This directory models that part
of the program, checks it with TLC on small instances and proves the main
invariants with TLAPS.

Paths below are relative to `src/src/`.

## Inventory

| Component | Sources | State | Operations | Hard part | Correct when |
|---|---|---|---|---|---|
| Wallet session | `CryptoNoteWrapper/WalletGreenAdapter`, `WalletGreenWorker`, `SemaphoreUtils` | `m_worker`, the thread it lives on, `m_walletSemaphore`, `m_isOpen`, `m_isSaved`, the wallet objects | `load`, `create*`, `save`, `exportWallet`, `changePassword`, addresses, transfers, user data, `close` | a token passed between two threads; lambdas that capture the caller's locals; nested loops; events posted across a close | the token has one holder, no lambda outlives its frame, every handler returns, nothing unsaved is taken for saved |
| Wallet life cycle | `IWalletAdapter.h` | open or not, observers told or not | `walletOpened`, `walletClosed` | told by queued calls while the wallet changes | at most one `walletOpened` per wallet, told closed when it is gone |
| Main window | `Gui/MainWindow/MainWindow.cpp` | opened or closed state, whether it observes the adapter | create, import, reset, close, encrypt, backup, ... | handlers made of several wallet operations, each of which may dispatch another handler | the menu offers what the session allows |
| Password form | `Gui/NoWallet/NoWalletFrame.cpp` | enabled, password field, file | `openWallet`, `loadWallet`, `okClicked` | opening is two events apart from asking for it | always usable again |
| Application | `Application/WalletApplication.cpp` | the init loop, reinitialisation | `initCryptoNoteAdapter`, `deinitCryptoNoteAdapter` | retries on an error of the node, shutdown | the wallet is saved and the node stopped |
| Node connection | `CryptoNoteWrapper/CryptoNoteAdapter`, `CommonNodeAdapter`, `ProxyRpcNode*`, `InProcessNode*` | the node adapter in place, its worker and thread, the search timer, the explorer kept | `init`, `deinit`, `onLocalDaemonNotFound`, `initCompleted`, the node's reports | a timer races the node's first answer, its reports and a lost connection; `init` and `deinit` nest in each other's loops; a replaced adapter still has calls in flight | one node at a time, one answer per `init`, both return |
| Blockchain explorer | `CryptoNoteWrapper/BlockChainExplorer{Adapter,Worker}`, `Models/BlockchainModel.cpp`, `TransactionPoolModel.cpp`, `Gui/BlockchainExplorer/*` | block cache, preload semaphore, the worker's queue, the rows of blocks and of the pool, the page shown | `preloadBlocks`, `getBlock`, `getPoolState`, the node's news, pages and filters | a token held across a nested loop in which the same requests are made again; a cache read without its lock; unsigned page arithmetic | the token is never lost, a request gets its own outcome, a block in use is not deleted, the models show what the node has told |
| View models | `Models/*` | rows of transactions, blocks, addresses | slots of the adapters' signals | rows computed from the size of a map filled by index, shown in batches by a timer | rows match the wallet |
| Transaction page | `Gui/Transactions/*` | the form of the filter, four proxy models, the rows each let through | choose an age, edit a period, search, all addresses, reset | a proxy evaluates a row when it changes, not when the clock does | the history shows what the form asks for |
| Current address | `Application/CurrentAddressState.cpp`, `Gui/AddressList/*`, `Models/AddressListModel.cpp` | the wallet's addresses, their copy, a card for each, the current one by index and by text | create, import, select, register an account number | four copies, and answers of the node that come after a row has changed | the copies agree, nothing is registered twice |
| Address book | `Application/AddressBookManager.cpp`, `Models/AddressBookModel.cpp`, `Gui/AddressBook/*`, `Gui/Options/*` | a JSON object, indexes of it by label and by address, the wallet's user data | add, edit, remove, donate, load, save | rows renumbered by hand; a payment request that arrives in a dialog's loop | the indexes agree with the list and the list with what is stored |
| Send form | `Gui/Send/*`, `OpenAlias/*` | the recipients on screen and in the list, their lookups, payment ID, the send button; amounts, the fee shown and the node's part of it | add, remove, type, look up, clear, confirm, a payment request, "send all", the priority | clearing dispatches events halfway; answers come late; two fees in one number, computed from amounts that pass through doubles | an order is what is on screen and costs no more than the balance |
| Settings | `Settings/*` | options in a file | getters, setters | the wallet's file is named by handlers that nest | the name is that of the wallet open |
| Amounts | `CryptoNoteAdapter.cpp` | none | `formatAmount`, `parseAmount` | exact both ways; what a double in between loses is the send form's | parse inverts format |
| Others | see `PROJECT.json` | | | presentation, cryptography of the core, platform code, vendored QR encoder | not modelled |

Interactions.  The GUI thread calls `WalletGreenAdapter`, which calls
`WalletGreenWorker` *on the GUI thread*; the worker spawns a lambda on the
dispatcher of the wallet thread and waits for it, either in a nested
`QEventLoop` (load, create, save, export, and `init`/`deinit`) or by blocking in
`QSemaphore::acquire` (everything else).  The wallet thread reports by emitting
signals that Qt posts to the GUI thread's queue; whichever loop of the GUI
thread is innermost dispatches them.  `close` detaches the observers, sets
`m_exitEvent` and runs a nested loop until the wallet thread says it has ended.
The explorer works the same way with a worker, a semaphore and a queue of its
own.  The node reports to `CryptoNoteAdapter`, which tells the wallet's, the
explorer's and the node's models; the address book is stored in the wallet's
user data; the send form, the cards and the history follow the wallet's signals
and the current address.

## Modules

* `WalletSession` - the wallet session with the handlers of `MainWindow`,
  `NoWalletFrame`, the models and `WalletApplication` that drive it, and the
  wallet file `Settings` name.
* `WalletLifecycle` - what an observer of `IWalletAdapter` may rely on.
  `WalletSession` implements it (`LifecycleSpec`).
* `MCWalletSession` - sets of actions and events for TLC.
* `NodeConnection` - how the wallet finds, starts, replaces and stops its node:
  `CryptoNoteAdapter`, `CommonNodeAdapter`, both kinds of worker, and the part of
  `WalletApplication` and `MainWindow` that drives them.
* `BlockExplorer` - the explorer's worker, its cache and the requests of the GUI
  nested in each other, with the block model and the pool model they feed.
* `BlockPages` - the filter, the window of rows and the page buttons over the
  block model, in unsigned arithmetic.
* `TransactionHistory` - from the wallet's transactions to the rows of the
  history: events, signals, the copy by index, the batches and their timer, and
  the state of synchronisation.
* `HistoryFilter` - the chain of filters over those rows and the form above it.
* `AddressCards` - the wallet's addresses, the list model, the cards and the
  current address; account numbers and their registration.
* `SendForm` - the recipients' frames, lookups, clearing, confirmation.
* `SendOrder` - the amounts and fees of that form and the order built from them.
* `AddressBook` - contacts, indexes, donation and own labels, and the dialogs
  that change them.
* `Desk` - the seven modules before it from `BlockPages` to `AddressBook`, which
  share no state: each behaviour follows one of them, so one run checks each on its
  own and a theorem about the desk is one about the part.  What a module sees of
  the others (the wallet's addresses, an open wallet, a row that changes) is an
  action of its own environment.
* `MCDesk` - constants of `Desk` for TLC.
* `WalletSession_proofs`, `WalletLifecycle_proofs`, `NodeConnection_proofs`,
  `BlockExplorer_proofs`, `ExplorerViews_proofs`, `DeskForms_proofs`,
  `DeskOrder_proofs`, `DeskLists_proofs` - the theorems.

`NodeConnection`, `BlockExplorer` and `TransactionHistory` take plain values as
constants, so their `.cfg` files need no MC module.

`WalletSession` and `NodeConnection` meet in
`WalletApplication::deinitCryptoNoteAdapter`, which saves and closes the wallet
and then stops the node.  Each has its half: in `WalletSession` the step after
`close` ends the handler, in `NodeConnection` `Reinit` and `MainReturns` find the
wallet already closed.  `TransactionHistory` takes over where `WalletSession`
has an event of kind `transaction`, and adds what its data do;
`BlockPages` stands on the rows of `BlockExplorer`.  What is left for a
composition is in the plan.

A definition whose comment begins with "Mutant:" is not part of a model: it is a
wrong form of the definition that follows, with which a property of the runs
must fail.

### How WalletSession corresponds to the code

| In the model | In the code |
|---|---|
| `stack`, `depth` | handlers on the GUI thread's call stack, innermost last; a frame's `todo` is the list of wallet operations its handler still makes, `at` the point within the current one |
| points `call`, `init`, `enter`, `loop`, `wait`, `held`, `opened`, `emit`, `locking`, `deinit` | about to call; in `init`'s loop; lambda spawned, `exec()` not yet entered; in the loop; in `locker.wait()`; holding the token again; event loop started, `walletOpened` not yet emitted; in `deleteAddress`'s emit; before `close`'s lock; in `deinit`'s loop |
| `queue` | events posted to the GUI thread (signals, `invokeMethod`, `quit`) |
| `sem` | `m_walletSemaphore.available()` |
| `task` | the lambda spawned by `remoteSpawn` that has not ended, with the frame whose locals it captured |
| `worker`, `session` | `m_worker != nullptr`, and which worker object |
| `wallet` | where `initImpl` is: `starting`, `ready`, `exiting` (`m_exitEvent` set), `stopped`, or no thread |
| `pump` | `startEventLoop`'s lambda is there to process wallet events |
| `observed`, `mainConnected` | who is in the observer lists |
| `isOpen`, `isSaved` | `m_isOpen`, `m_isSaved` |
| `dirty` | history: what was changed (`own`, `label`, `transfer`, `event`) that is not in the wallet file |
| `menuOpen`, `modelsOpen`, `formEnabled`, `asking` | what the main window, the models and the password form show |
| `named`, `chosen` | `Settings`' wallet file, `NoWalletFrame::m_walletFile` |
| `path` | history: the file of the wallet opened last |
| `locals` | `filePath` and `oldWalletFile` of each handler on the stack |
| `failed` | the assertion a debug build would have stopped at |
| `exiting` | `QCoreApplication::quit` has been called: `unwind` while the loops are left, `last` from `prepareToQuit` on |

*Quitting.*  `QApplication::quit` makes every running loop of the GUI thread
return 0, the innermost at once and the others when the handlers above them have
returned; a loop entered after it returns -1 without dispatching anything
(`Quit`, `EnterWorker`, `EnterLoop`).  Only then does `aboutToQuit` run
`prepareToQuit`, whose own nested loops dispatch events again
(`PrepareToQuit`).  While `reinitCryptoNoteAdapter` runs the window is disabled
(`WindowEnabled`), but `commitData` and the signal handler's quit still arrive.

*The wallet's file.*  `createWallet`, `importKey` and the others that make a
wallet name the new file in `Settings` before they create it and put the old
name back when that fails (`SetWalletFile`, `KeepNewName`, `RestoreName`);
loading names it afterwards.  `load`'s lambda captures `m_walletFile` by
reference and reads it when it runs (`FileOf`).  File names end in `.wallet`, as
the dialogs offer and append it, so that the suffixing of
`Settings::setWalletFile` changes nothing.  `restoreFromMnemonicSeed` reads the old
name before it closes the wallet and the other handlers after it; the model
reads it when it names the new one.

`Handler(a)` is what a user action does: the sequence of operations of that slot
in order, with the conditions under which the slot does nothing.  `On...`
actions dispatch the head of the queue to all its slots at once.  `Gui` has one
action per step of an operation on the GUI thread; `InitImpl`, `RunTask`,
`ProcessEvent` and `ExitImpl` are the wallet thread.

What is folded or left out:

* all `create*` variants share one sequence, which differs only in the call the
  lambda makes; likewise the getters (`get`), the two exports, and
  `sendTransaction` and `registerAccountNumber`, which lock and spawn the same
  way;
* a lambda's call succeeds or fails by choice; of the container only what kind of
  change the file lacks is kept;
* dialogs are a choice of the user, so a handler that the user cancels is one
  that is never started;
* the loop of `MainWindow::encryptWallet` that asks again after a wrong
  password is another `password` input;
* what `deleteAddress` does after `emit balanceUpdated` is never reached, see
  `NeverWedged` under the bounds;
* a deleted worker lives on until its thread's `deleteLater` runs; the model
  says a frame of it resumes safely until the next worker is made, and calls
  what follows `workerFreed`;
* the `processEvents` of the node adapter's shutdown, which follows the wallet's,
  is not part of this module; events a quit left in the queue are
  dispatched there, so `NoEventWithoutWorker` is asked only before a quit;
* after an assertion fails nothing more happens: in a release build the program
  would go on with undefined behaviour.

### How NodeConnection corresponds to the code

| In the model | In the code |
|---|---|
| `ad[a]` | the a-th `CommonNodeAdapter` created and its worker; `used` counts them |
| `.thread`, `.calls` | the worker's `QThread` (`leaving`: told to quit) and the calls queued for it |
| `.pc` | where the embedded worker is inside `initImpl` |
| `.node`, `.server`, `.stop`, `.inited` | `m_node`, `m_nodeServer`, the stop signal, the node's init has called back |
| `.explorer`, `.cached` | the explorer the worker made; the one `CommonNodeAdapter` keeps |
| `.worker`, `.connected`, `.watched` | `m_worker`; the worker's signals reach the adapter; the adapter's reach `CryptoNoteAdapter` |
| `current` | `m_nodeAdapter`, 0 when null |
| `timer`, `shots` | `m_autoConnectionTimerId`; the 100 ms timers of `initCompleted` that have not fired |
| `inbox` | signals queued for the GUI thread |
| `stack` | the calls of the GUI thread that wait, innermost first: the main loop, `init`'s loop, an RPC worker's wait, the wait for a thread (`join`), the port dialog, and the application function that called |
| a frame's `exit`, `why` | whether and how its loop was told to end; what goes on when it returns |
| `window` | the main window: not built, disabled by `showPreferences`, enabled, gone |
| `quitNow` | `quit()` was called and the main loop has not returned, so that a loop entered now returns at once |
| `answers` | `initCompletedSignal` emissions since `init` was called |
| `fault` | the assertion or null pointer that stopped the program |

`StartNode` is `init` with `initNode`, `StopNode` is `deinit` up to its first
wait.  What follows a wait is an action of its own, enabled when the frame is on
top and was told to end: `FirstSuccess`, `BindFailed` and `InitOver` after
`init`'s loop, `RpcWaitReturns` and `JoinReturns` in `deinit`, with `GoOn` for
what the caller does next.  `HandleInit`, `HandleReport`, `HandleLost` and
`HandleLoop` are the slots, in whatever loop is on top; `Worker(a)` is a thread.
The code always asks the adapter *in place*, not the one that sent the signal,
and so does the model.

What is folded or left out:

* saving and closing the wallet, which is `WalletSession`'s; here a change of
  connection only needs the node that owns the wallet adapter;
* peer count, local and known height are one `report`: the slots are the same;
* `INIT_DB_FAILED` and `INIT_DB_IN_USAGE`, which no worker ever sends, and the
  dialogs that only inform;
* the getters, except for what they assert (`HasNode`, `CanAskExplorer`), and
  account number queries, whose answers are in `SendForm` and `AddressCards`;
* whether a daemon is there is a choice: an RPC node answers, reports or loses
  its connection in any order; so is each stage of the embedded node's start;
* the user quits at most once, and changes the connection only while the window
  is enabled.

### How BlockExplorer and BlockPages correspond to the code

| In the model | In the code |
|---|---|
| `sem` | `m_preloadSemaphore.available()` |
| `stack` | the requests the GUI thread is in, innermost first: their operation, interval, caller, and where they are: before the lock, before `exec()`, in the loop, in the wait for the token |
| a frame's `exit`, `status`, `got`, `from` | its loop was told to end; the captured outcome and result, and which request's signal wrote them |
| `wq`, `job` | events posted to the worker thread; the `...Impl` it is running |
| `cache`, `hand` | the keys of `m_blocksCache` in the order of use; the block `data()` has a pointer to |
| `node` | the node's top block, pool and synchronisation, and whether its explorer was initialised |
| `guiq` | signals queued for the GUI thread |
| `count`, `last`, `rows`, `shown`, `synced` | `NodeStateModel`'s last block, `m_lastLocalBlockIndex`, `m_rowHashes`, the keys of `m_transactions`, `m_isSynchronized` |
| `dirty` | history: the pool changed unheard, its news was handled inside the query that reads it, or the query was cut short by `quit()` |
| `quit`, `cut` | `quit()` was not called, or its loops are being left (`unwind`), or `prepareToQuit` runs; history: the requests made up to the end of those loops |
| `tip`, `low`, `high` (`BlockPages`) | the block model's last row, `FilteredBlockModel`'s interval |
| `begin`, `size`, `view`, `prev`, `next` | `m_windowBegin`, `m_windowSize`, the room in the table, the intervals on the buttons |
| `reads` | the page functions in a nested loop of `preloadBlocks`, with what each will store when it is back |
| `astray`, a read's `stale` | history: the rows or the size changed under the window, or under what a function had computed |

`Lock`, `Exec` (or `Refused`), `LeaveLoop` and the `Return...` actions are one
request from its first statement to its last; `TakeJob`, the Impls and `Deliver`
are the worker. The completion signal is connected to a functor of the worker
object, which runs from the worker's own queue; every frame connected at the
time gets one call. `PutAll` is `QCache::insert` of the blocks an Impl brings,
with the evictions it makes, and `Use` is `QCache::object`; `Kept`, the elements
of a sequence that are in a set, is a recursive function and not `SelectSeq`, so
that it can be proved about. What a block, a transaction or a search contains is
left out; a preload by index or by hash, which do the same, is one operation,
`list`, of one block.  A node without explorer (`getBlockChainExplorerAdapter()`
returns null) is `InitCompletedWithout`.

`quit()` ends every running loop with the code 0, which the requests take for
success: a pool query cut short returns an empty pool (`Quit`).  A loop entered
while the others are being left returns -1 at once (`Refused`); the locker's wait
follows in either case.  What `quit()` does not end is the Impl: its signal is
posted to a functor that is still connected when the frame it captured is gone.
The functor then writes locals and calls a `QEventLoop` that no longer exist,
which is undefined; in the model the call has no effect, and `OutcomesReturn` says
which calls may come so.  `LastShutdown` is where `prepareToQuit` begins to
dispatch again.

In `BlockPages` heights are numbers modulo `Modulus`, which stands for 2^32, so
that a subtraction below zero wraps.  A page computes where the window will
begin (`NextPage`, `PrevPage`, `LastPage`), reads blocks in a nested loop
(`reads`), and stores the beginning it had computed (`PageTurned`); a search
reads and then sets the filter (`ApplyFilter`, `SearchDone`), which asks for the
last page; a reset asks for it twice, from the window and from the frame
(`ResetFilter`, `ResetTurned`). Only the button of the function is disabled
meanwhile, so every other one, a resize, new blocks and another node may come in
the loop.  As in the code, the texts on the buttons are out of date during the
loops of a reset, and a search by time that is reset in its loop keeps the range
it finds, after which "all" is no change.  The branches for a node without
explorer and `quit()` are left to `BlockExplorer`.

### How the other modules correspond to the code

Each variable names its member in the comment beside it; each action has the
name of the slot it translates.

| Module | State | Actions | Left out |
|---|---|---|---|
| `TransactionHistory` | the wallet's transactions and their versions; `raw`, the events its loop has not taken; `queue`, the signals; `m_transactions`, `m_lastVisibleTransactionIndex`, `m_showTransfers`, `m_isSynchronized`, `m_syncTimerId`; rows announced to views; `WalletStateModel` | the wallet's changes, `ProcessEvent` of the event loop, the slots of both models, the timer's `Tick`, opening and closing | cells, transfers, export; a batch is one transaction at a time |
| `HistoryFilter` | clock, rows with their times, the form, the current address, what each of the four proxies holds and which rows the two that look at the time let through | the form's slots, rows that change, blocks, the clock, closing | rows that the hash and the address filter let through: neither depends on time |
| `AddressCards` | the wallet's list, signals and queries on their way, `m_entries`, `m_cards` with number, selection and pending, `CurrentAddressState`, the address an import waits to select, the confirmation on screen, account numbers on the chain | create, import, click, register, confirm, the wallet's signals, the node's answers | `deleteAddress`, which blocks for ever (`WalletSession`), labels, menus |
| `SendForm` | the frames alive, `m_transfers`, the calls of `clearAll` and of the confirmation, the button, the payment ID, queries to the node | add, remove, deletion by the event loop, typing, both lookups and their timer, `clearAll` up to and after its `processEvents`, send, payment request, opening and closing | amounts and fees (`SendOrder`), the mixin; what the core makes of the order |
| `SendOrder` | the node paid, the minimal fee, amounts, slider, `m_nodeFee`, `m_feeSpin` and its minimum, the balance, the order asked about | the adapter's arrival, typing, removal, priority, "send all", send, the three ways to clear (a payment request does so on a closed wallet, too), the balance, the chain | a refused click changes nothing but an error mark; labels saved on the way (`AddressBook`), the donation's share; `enableManualFee`, which nothing calls |
| `AddressBook` | `m_addressBookObject` (contacts, donation, one own label), `m_addressIndexes`, `m_labelIndexes`, the user data, the model's row count, the dialogs on screen; which texts are valid addresses, and the payment IDs there were (`shadowed`) | add, edit, delete, options, payment requests, own labels, opening (with the development fund's contact) and closing; a payment ID may be any text, and so may the address of a request | `m_paymentIdIndexes`, which only colours a label; the format of the object |

## Runs

| Run | Question | Bounds | Result |
|---|---|---|---|
| `chaos` | does everything that must hold in any interleaving hold? | 2 user actions of any of the 19 kinds (`quit()` is one), 1 wallet event of any kind, 2 files, 5 nested handlers, `exit()` may be lost | 3.11 M states, holds |
| `calm` | does a patient user who only opens, uses and closes a wallet meet an assertion, a deadlock, a loop that does not end or a change that is not saved? | 4 actions, 2 events, `syncCompleted` aside | 231 k states, holds |
| `quit` | does `quit()`, whatever it interrupts, end the program with the wallet closed? | 3 actions, 1 event | 182 k states, holds |
| `label` | is a label written before a save saved by it? | 3 actions | violated: finding 1 |
| `sync` | does a wallet that is closed while it reports a completed synchronization meet an assertion? | 1 action, 1 event | violated: finding 4 |
| `node_all` | whatever the method, failure, timing and user: one node at a time, none left at the end? | 4 adapters, 2 reports, 4 methods, 4 failures, quit | 1.19 M states, holds |
| `node_fixed` | with a chosen method that works: no assertion, a node in place, `init` and `deinit` return? | 5 adapters, 3 reports | 4.5 k states, holds |
| `node_auto` | does the search for a local daemon answer once, and always? | 6 adapters, 4 reports | 6.5 k states, holds |
| `node_late` | is the node there when `init` has reported success? | 3 adapters | violated: finding 2 |
| `explorer` | do requests nested in each other's loops keep token, outcomes, blocks and models right, and return? | 3 requests, 2 of them nested, 2 blocks, a cache of 1, 1 pool transaction, 1 event of the node, `quit()` | 897 k states, holds |
| `desk` | do the parts of the window that share no state each keep their promises? | below | 1.10 M states, holds |
| `early` | is the history empty when `walletOpened` comes? | 1 transaction | violated: finding 3 |

`chaos` checks the types, `TokenHeldOnce`, `CapturedFrameAlive`,
`NoEventWithoutWorker`, `ModelsAgree`, `FormUsable`, `SettingsNameWallet` and
the implementation of `WalletLifecycle`; `calm` checks `NeverWedged`,
`NeverAborts`, `LoopHasWaker`, `HandlersReturn` (which by itself excuses a
thread that waits for itself and a failed assertion: the first two exclude them)
and `OwnChangesSaved` (a save that is skipped because `m_isSaved` is set forgets
no new wallet, password or address; labels, transfers and what the core reports
are not its subject); `quit` checks `EndsClosed` and `QuitEnds`. `node_all`
checks the types, `OneNode`, `OneWorker` and `EndedCleanly`; `node_fixed`
`NeverAborts`, `NodesUsable` (the window always has a node, and no worker's
thread ends with its node still there) and `AlwaysReturns` (`init` is answered,
`deinit` returns); `node_auto` `SearchSafe` (one answer for each `init`, and a
search given up only while its RPC node is in place) and `AlwaysReturns`.
`explorer` checks the types, `TokenAccounted`, `OutcomesReturn`,
`BlockInHandLives`, `ViewsShowNode` and `GuiComesBack`.  `OutcomesReturn` says
that a request returns the outcome of its own Impl, unless one made in its loop
overwrote it, and that a call which finds its frame gone belongs to a loop
another request or `quit()` ended; nothing is claimed of outcomes while the
loops that `quit()` ended are left.

`desk` checks, by part:

* history: `HistoryFollowsWallet` - every row has its transaction and its flag,
  the views were told of as many rows as there are, once all events are handled
  the copy is the wallet's list, and a synchronised history hides nothing;
  `HiddenRowsAppear` - rows held back while synchronising appear;
* filter: `FilterInForce` - the filters in force are those on screen, no row is
  missing that they let through, and a period shows nothing outside it;
* cards: `CardsAgree` - the lists, the cards and the current address, by index
  and by text, agree, and no address is registered again while its first
  registration is not confirmed;
* form: `FormIsOrder` - the frames on screen are those an order is built from,
  the button is offered for a complete form only, "send all" to a sole
  recipient only; `NumberShownIsAsked` - an answer replaces only the text that
  asked for it;
* order: `OrderPaid` - an order costs no more than the balance it was built from,
  the node's part and the network's are together the fee shown, the fee is that
  of the amounts shown whatever was typed, removed or cleared, and what "send
  all" sets can be sent;
* book: `BookInOrder` - lookups find what was asked and every contact is found,
  except for an address that was some contact's payment ID, donations go to a
  contact, what is stored is what is shown;
* pages: `PagesKeepPromises` - the window fits and a page shows blocks when there are
  any, unless the rows changed under it or it was computed for others (`astray`),
  and the buttons lead to the blocks they named when they were clicked, whatever
  page, block or equal search came in the loop.

*Bounds.*  `MaxDepth` = 5 is never the reason that something does not happen
with two actions: the deepest stack reached is 5.  (With the bound, `Push`
simply is not enabled on a full stack.)  Two actions are enough for every
conflict between two handlers, and one event for one that falls in between:
every action and every disjunct is reached.  `calm` begins with a wallet being
loaded, or none; four actions let a change, a save, another change and a second
save follow each other, or close the wallet and open it again.  `session` counts
the wallets opened and is bounded by the inputs.  Two files are the old one and
the new one of a handler; a third was never needed for two handlers to name
different ones.

`MaxAdapters` bounds how often a node is started.  An action that needs one or
two more is not enabled without them (`Reinit` and `PortAccepted` ask for two,
so that the search they may begin can still be given up), and the bound
therefore never leaves a wait without its end.  Four adapters hold a start, a
failed search, a change of connection and another failed search; `OneNode` was
also checked with five (15 M states).  `MaxReports` = 2 is a report and a lost
connection in either order, which is all the slots distinguish; the smaller runs
have more of both.

In `explorer` three requests are a request, one nested in its loop, and one
after either; a cache of one block evicts at the second; the chain of two blocks
makes an interval that is partly cached.  In `desk`, heights up to 2 and at most
2 rows give the window a first, a middle and a last page and one that is cut
short, and `MaxReads` 2 a page or a filter in the loop of another; a third only
repeats what the second does to the first.  `Modulus` 11 is the least number
that is more than twice the heights and rows together, so that what wraps is
told from what is there.  A window that is astray is not resized (`Adrift`),
because its size then wraps to any number at all; two transactions and three
events a batch with one row shown and one hidden; two addresses and two sessions
a registration that meets another wallet's answers; three frames a sole
recipient, a second one and the one a clear leaves; two contacts and two
dialogs, a contact added while another is edited, and of the two addresses one
is not valid and the other, the fund's, may be given as a payment ID.  In `SendOrder` a rate of 1/4 with
bounds 1 or 2 and 3 puts amounts at, between and above the bounds of the node's
fee (in the code 1/400, the minimal fee and 1 KRB), and `Exact` = 14 puts one of
three balances where a double no longer holds an amount (in the code above 15
digits: 1000 KRB).  The parts are checked side by side and not against each
other, because none reads another's state except through the events its module
has.

*Choices of a run.*  `Patient` makes the user act only when the GUI is idle.
Without it two overlapping requests to open a wallet end in an assertion
(below), which is why `NeverAborts` is asked of a patient user only.
`CalmActions` leaves out creating, importing and deleting: importing an invalid
key ends in an assertion, deleting an address deadlocks (both below), and
creating or importing over an open wallet ends in the same places.  `CalmEvents`
leaves out `syncCompleted`, which ends in an assertion or a deadlock when the wallet
is closed meanwhile (finding 4).  `Prompt` says
that the GUI has entered `exec()` before the lambda it spawned ends.  The code
does not guarantee this: `remoteSpawn` comes first, `exec()` clears the exit
flag, and a lambda that ends in between leaves the loop without a waker.  It is
assumed in `calm` so that the other ways to hang can be looked for; it is not
assumed in `chaos` or in any theorem.  `GuiComesBack` of the explorer, where the
same can happen, excuses exactly a loop whose `exit()` came too early (`Deaf`).

In `NodeConnection`, `Prompt` says that the node's first answer comes early in
the search timer's second, and that the user changes the connection only after
the explorer's 100 ms and in a loop that was not told to end.  The code does not
guarantee it (`node_late`), and `node_all` and the theorems do not assume it.
`node_fixed` leaves out the search, start failures and quit, `node_auto` start
failures, quit and the explorer, because each of them ends in an assertion that
is known (finding 2 and the list after the findings); `NeverAborts` is asked
of what is left.  `node_all` keeps them all, up to the assertion.

Some properties of the smaller modules are conditional where the code is known
not to keep them: a read of the wallet that failed (`lost`), the early event of
finding 3 (`fault`), a window whose rows changed and where no page was stored
since, or one that was computed before (`astray`), a page computed before a
filter, a size or a node changed in its loop (a read's `stale`), a deleted
lookup that was used (`dangling`), an event that `clearAll` dispatched
(`nested`), a minimal fee that changed since the fees were computed (`stale`,
`least`), a wallet opened in place of another (`reopened`), an edited contact
that equals one added meanwhile (`twins`), an address that was some contact's
payment ID (`shadowed`), pool news missed, or handled inside the query, or a
query that `quit()` cut short (`dirty`).  Each is a variable of the model that
says what happened, and the list below says how.

*Deadlock* is not checked: every model stops when its inputs are spent, and the
wallet and node models when an assertion fails.  That a thread waits for itself
is `NeverWedged`, that a wait ends `HandlersReturn`, `QuitEnds`, `AlwaysReturns`
and `GuiComesBack`.

*Fairness.*  `WF_vars(Dispatch \/ Gui \/ PrepareToQuit \/ Abort)`: Qt
dispatches the events posted to a running loop, a running thread goes on, and
`aboutToQuit` is emitted when the outermost loop has been left.
`WF_vars(Worker)`: the wallet thread's dispatcher runs what was spawned,
`initImpl` goes on.  The user and the network (`UserInput`, `ProcessEvent`) get
none.  In `NodeConnection`, likewise, what the GUI thread's loops hand out
(`Returns`, `Dispatch`, a due `TimerEvent` and `StartExplorer`) and each worker's
thread (`Worker(a)`) are weakly fair; the daemon (`RpcReport`), the user, his
answer to the port dialog and his `quit()` are not.  `BlockExplorer` has weak
fairness of both threads, and strong fairness of `Dispatch`: a view that repaints
again and again makes the loop ready and not ready in turn, and Qt does not pass
over the events posted before.  `TransactionHistory` has weak fairness of the
wallet's event loop, its thread's end, the slots and the repeating timer, which
needs a loop that runs and nothing else.

*What the runs do not claim.*  `NeverWedged` does not hold of every user action.
`WalletGreenWorker::deleteAddress` evaluates `getActualBalance()` for its signal
while its own locker still holds the token, so the GUI thread waits for itself;
and a queued slot that reads the wallet without asking `isOpen()` does the same
when it is dispatched in the nested loop of `init` or `deinit`;
`synchronizationCompleted` is one, and the only one a patient user meets
(finding 4).  With `Prompt` the runs say nothing of a lambda that ends before
its loop is entered.  The hazards in `PROJECT.json` name the lines.

### Findings

1. `setUserData` does not clear `m_isSaved`: a label changed after a save is lost
   (`label`).
2. The search timer is stopped before the RPC node is waited for; its first
   answer, handled in that wait, ends `init` with success for an embedded node
   that has not started, and the window reads a node that is not there
   (`node_late`).
3. The wallet's event loop is started before `walletOpened` is emitted: a
   transaction reported in between reaches the history first, which asserts that
   it is empty (`early`).
4. *Close wallet* stops observing the adapter (`MainWindow.cpp:1403`), but
   `WalletStateModel` passes `synchronizationCompleted` on to the window (500), whose
   slot reads the balance without asking whether the wallet is open (596).
   Dispatched in `deinit()`'s loop it waits for the token of the `close()` below
   it, or, when the wallet thread has deleted its objects, fails their assertion
   (`sync`).

Other ways to go wrong that the models contain.  No run isolates them; where a
property is named, it fails when the named run is changed as described.

The wallet session:

* `createWorker` asserts that there is no worker (`WalletGreenAdapter.cpp:351`);
  a second request to open, dispatched while the first is in `init`, breaks it:
  `NeverAborts` of `calm` with `Patient = FALSE`.
* `importKey` with an invalid key closes the wallet and leaves the menu as if it
  were open (`MainWindow.cpp:1200`); *Close wallet* then asserts (1401):
  `NeverAborts` of `calm` with `importBadKey`.
* `m_isSaved` is set after the nested loop of the save, so that a wallet event
  in between is forgotten: `SkippedSaveIsSaved` of `label` with `commitData` and
  every event.  So is a change that another handler makes in that loop, such as
  a new address: `OwnChangesSaved` of `calm` with `Patient = FALSE`.
  `sendTransaction` leaves `m_isSaved` to the core's event, so a save between
  the two is skipped.
* `save` takes the exit code of its loop for the result; `quit()` makes it 0
  before the result is known, so that a save that fails is marked saved and the
  last save of the program is skipped: `OwnChangesSaved`
  in the setting of `quit`, with at most one handler at a time.
* What is left in the queue when the last shutdown begins (`walletOpened`,
  `addressCreated`, `syncCompleted`, a request to load) is dispatched by the
  node's `processEvents`, without a worker.  `EndsClosed` is about the moment
  before.
* `load`'s lambda reads `m_walletFile` when it runs (`WalletGreenWorker.cpp:210`):
  a request to open another wallet during it changes the file it loads.
* A handler names a new file in `Settings` before it creates it: a quit in
  between leaves them naming a wallet that does not exist.  `importKey` and the
  restore from a seed close the open wallet without saving it.

The node:

* A change of connection that fails leaves the window enabled without a node
  (`WalletApplication.cpp:395` ignores the result); the next one, or the end of
  the program, asks the missing node for the wallet
  (`InProcessNodeWorker.cpp:240`): `NeverAborts` of `node_fixed` with a failure.
* The 100 ms timer of `initCompleted` goes through the adapter in place when it
  fires; a daemon lost within them makes that an embedded node that has not
  started: `NeverAborts` of `node_auto` with `Explorer = TRUE` (`startExplorer`).
* After `INIT_P2P_BIND_FAILED` the application asks a worker whose guard has
  already reset its node for the explorer: `NeverAborts` of `node_fixed` with
  that failure (`bindDeinit`).
* `quit()` ends the loop in which `ProxyRpcNodeWorker::deinit` waits for
  `deinitImpl`; the thread may then end with the node still there, which its
  destructor asserts against: `NodesUsable` of `node_fixed` with
  `CanQuit = TRUE`.
* `quit()` during a change of connection ends `init` before the new node is
  there, and the last `deinit` asks it for the wallet: `NeverAborts` of
  `node_auto` or `node_fixed` with `CanQuit = TRUE` (`quitWallet`).  If the new
  node got as far as having one, a search timer that `deinit` does not stop can
  fire in the loop of that last `deinit`; the `deinit` it starts drops the worker
  the other one goes on with (`deinitTwice`).

The explorer and the history:

* Every Impl emits the same signal and the lambda of an outer request is still
  connected: a request nested in the loop of another overwrites its outcome
  (`OwnOutcome` is about requests without one), and pool news handled inside the
  query is undone by its result (`dirty`).
* `quit()` during a request gives it the code of success: the pool is shown empty
  until the end, and the request's own call comes after its frame has returned
  (`cut`, `dirty`).
* A page is stored as it was computed before the loop that reads its blocks: a filter
  set, a window resized or a node changed in that loop leaves a window without a
  row, though there are blocks, until the next page is stored (`stale`, `astray`).
* A block pointer is read outside the cache's lock; inside a nested loop the
  block may be deleted under the reader (`BlockInHandLives` is about the others).
* A chain that becomes shorter leaves rows that are not there, and the window
  size is computed from a last row below its first: it wraps (`astray`).
* A failed read of the wallet leaves a hole in the indexes of the history, whose
  rows are counted by size (`lost`).

The window:

* `SendForm`: what `clearAll` dispatches may add a frame that stays on screen but
  not in the list, or a second request, or a second click on the list; a payment
  request received during the confirmation is wiped after sending.  A second
  alias lookup overwrites `m_dns`, the older one's end deletes the newer, and the
  next end uses what was deleted (`dangling`).  A late alias answer overwrites a
  newer text; two quick *Remove* clicks empty the list and its first is taken.
  An empty list counts as ready, so the button is enabled on a closed wallet; a
  recipient's payment ID stays for the next.
* `SendOrder`: "send all" computes the node's fee from the balance and leaves it
  to the amount's signal to compute the fees shown; clicked again, it leaves the
  amount as it is and the two apart, and with the slider at 1 the fee is then
  below the minimum and the send button does nothing, without a word.  So it does
  when the node's minimal fee has risen since the fees were computed.  `fee` is
  signed and compared with an unsigned minimum (`SendFrame.cpp:617`): should the
  fee shown fall below the node's part, which takes a minimal fee and a balance
  that change together, it passes as a huge one.  The spin box keeps the minimum
  of the last clear, so that after a fall of the minimal fee, and above what a
  double holds at any time, "send all" may ask for more than the balance.
  A flat node fee is zeroed when a wallet is closed and never read again, yet every
  later order has an entry of amount 0 for the node.  Who is paid is read once,
  when the window is made: after a change of connection the old node is still
  paid, or a new one is not.
* `AddressCards`: a failed or late answer erases a known account number; new cards
  are blank until the next refresh, and a click on one makes the current address
  empty, so that the history "for selected address only" shows all.  Closing
  forgets pending registrations, so a reopened wallet may register again.
* `AddressBook`: removing a contact takes its payment ID out of the index of the
  addresses and puts those of the rows behind into it.  A payment ID is checked
  neither in the dialog nor in a request, so it may be another contact's
  address, which then finds the wrong contact or none, and the empty address may
  be found: `BookInOrder` without its exception (`shadowed`); labels are looked
  up trimmed and stored as typed, so two may be equal; an edit is not rechecked
  against a contact added during its dialog (`twins`).  The development fund's
  contact is refused when its label is taken, yet the donation is set; deleting
  it brings it and the donation back at the next opening; the options, opened
  while nothing is flagged, enable a donation without an address.

## Proofs

`WalletSession_proofs` proves, for every `MaxDepth`, `MaxInputs`, `MaxEvents`,
every set of files, user actions and wallet events and both values of `Patient`
and `Prompt`, from `BoundsAssumption` and `ChoiceAssumption` alone:

* `TypeCorrect`: `Spec => []TypeOK`.
* `TokenAlwaysHeldOnce`: `Spec => []TokenHeldOnce`.
* `LambdaNeverOutlivesFrame`: `Spec => []CapturedFrameAlive`.

`TypeOK` is not inductive: the operations pushed by a handler must be known to
be operations, and the step of an operation must be one that has that step.
`TypeInv` adds this; the files' types are a lemma of their own
(`FilesTypeStep`), as nothing else depends on them.  `TokenHeldOnce` is not
inductive either: a frame that resumes takes the token again, and that nobody
else holds it follows only from who may be waiting.  `TokenInv` adds that

* a frame covered by another is in a nested loop, or is `deleteAddress` in its
  emit (`CoveredFramesLoop`), so that only the top frame takes steps;
* a frame on its way through a task has a wallet thread (`TransitHasWorker`);
* without a worker nobody holds anything (`NoWorkerNoToken`);
* the frame a lambda reports to is on the stack, waiting for it
  (`TaskFrameOnStack`).

`CapturedFrameAlive` rests on `TokenInv` and on where the wallet thread is: there
is one exactly while there is a worker (`WalletOfWorker`), and a wallet being
closed is held by the frame that closes it (`ClosingIsHeld`), so that whoever
gets the token finds the wallet of its own worker running.  It does not rest on
nested loops ending only when their work is done: `quit()` ends them early, and
the locker's wait is what keeps the frame in place.

TLC checked each part of these strengthenings as an invariant first.  The
proofs have one step per action, then a PTL step.

`WalletLifecycle_proofs` goes on from there, under the same two assumptions, to
what the session owes the observers of the adapter:

* `ClosedWalletIsSilent`: `Spec => []NoEventWithoutWorker`.
* `ProgramEndsClosed`: `Spec => []EndsClosed`.
* `PasswordIsAccepted`: `Spec => []FormUsable`.
* `ModelsFollowWallet`: `Spec => []ModelsAgree`.
* `SettingsFollowWallet`: `Spec => []SettingsNameWallet`.
* `SessionImplementsLifecycle`: `Spec => LifecycleSpec`, the refinement `chaos`
  checks.

None of these is inductive, and each says something about frames a nested loop has
buried.  `SessionInv` is their common ground: whatever lies below a handler that
opens or discards a wallet waits in a loop of an earlier worker
(`OpenerAboveStale`), the wallet thread starts and exits only while a frame waits
for it (`WalletFrames`), and a worker whose wallet is not open is being opened,
discarded or closed by some frame (`OpenedByFrame`).  On it stand five layers:

* `QueueInv`: `deinitCompleted` is the last thing the wallet thread posts and the
  loop of `deinit()` is left by nothing else, so when the worker is deleted the
  queue holds only `walletClosed` and requests to load.  It is claimed until
  `quit()`, which ends that loop early.
* `LastInv`: the last shutdown has one handler at the bottom, and it is done with
  its two operations exactly when the worker is gone.
* `FormInv`: while the form takes no input, one of its three answers is on the way
  or some frame will load the wallet.
* `ToldInv`: the models are told of a wallet only between its opening and its end;
  a `walletClosed` is never queued behind a later `walletOpened`, except where
  `quit()` has made sure that no handler left can open a wallet (`Hopeless`).
* `NameInv`: until `quit()`, whenever Settings do not name the wallet of last, some
  frame knows what is missing (`Owed`).  The frame that opens the wallet knows which
  file the lambda opened and which it will name or take back, before, in and after
  its loop; the frame that discards the worker knows whether the name was its own;
  the frame on top is about to create, or to name what it loaded.  `Shaped` says
  what the lists of operations guarantee: a file is named right before it is created
  and taken back right after the discard, and above a frame that opens a wallet
  nobody gets as far as closing one.  What breaks `Owed` is a handler nested in a
  create that names its own file over the first one's: it is on its way to
  `createWorker` with a worker there, as is a request to load posted meanwhile.
  `Doomed` is that state: until `quit()` nothing leads out of it but the assertion
  that stops the program.

The refinement maps each step of the session to one of the interface or to a
stutter, from `ToldInv`.

`NodeConnection_proofs` proves, for every `MaxAdapters` and `MaxReports`, all
methods, failures and both values of `Explorer`, `CanQuit` and `Prompt`, from
`ConnectionAssumption` alone:

* `TypeCorrect`: `Spec => []TypeOK`.
* `WorkerInPlace`: `Spec => []OneWorker`.
* `NodesExclusive`: `Spec => []OneNode`.
* `QuitLeavesNoThread`: `Spec => []EndedCleanly`.

`OneNode` is not inductive: nothing in it says that the threads of replaced
adapters are over when the next is started.  `OneWorker` says why they are: a
thread runs only for an adapter that has its worker, and only the one in place
has.  It is inductive with `TypeOK` and one fact of the stack, `Stacks`: a frame
that waits for an adapter names one, and a frame that returns to the application
has a frame below it.  `deinit` drops the worker
only when its thread is over, or the assertion of a second `deinit` stops the
program; that is the step the proof turns on, and neither the search timer nor
how loops end enters into it.  There is one lemma per action.

`EndedCleanly` speaks of the moment `prepareToQuit` returns, which nothing in
`OneNode` knows.  `EndInv` adds what the stack stands on: the frame at its bottom is
the start, the main loop or `prepareToQuit`, as the window tells (`Ground`), and a
frame that returns from `deinit` returns to the function of the application that
called it, so that the last frame to leave is the one that dropped the adapter.

`BlockExplorer_proofs` proves, for every size of the cache and of the preload, every
chain, set of transactions, depth, number of requests and of news, from
`ExplorerAssumption` alone (the cache has room for a block and the chain has a
second one):

* `TypeCorrect`: `Spec => []TypeOK`.
* `TokenIsAccounted`: `Spec => []TokenAccounted`.
* `BlockIsSafe`: `Spec => []BlockInHandLives`.
* `OutcomesAreReturned`: `Spec => []OutcomesReturn`.

`CoreInv` is the invariant of the first three.  `Shape` says that the requests
below the innermost are in their loops and older; `OneToken`, that the token is
in the semaphore, in the Impl at work or in exactly one request in the queue;
`Owners`, that the request that carries it has its frame on the stack, past the
lock. `BlockInHandLives` turns on the last: with the stack empty nobody owns a
request, so no Impl is at work that could delete a block.  `OutInv` is the
invariant of the fourth, frame by frame: a frame that has not been answered and
whose request is under way has nothing in the queue addressed to it; requests
under way are of the youngest frames; the newest frame, if answered, was
answered by its own request; and a call a frame's own request posted finds it
still waiting, because it comes before every other call to that frame
(`OwnFirst`) and a loop is left only when told to. `quit()` tells every loop, so
this (`OutBody`) is claimed except while those loops are left; it holds again
when the last one is, of the requests made since, and `cut` is the line between
those and the ones before, whose late calls are excused. `CallsKnown`, that no
call is for a request not yet made, carries the proof across.

The module begins with lemmas about the sequences the model uses, as `Kept` over a
sequence of any length needs induction.  The library's induction theorems take a
predicate, which the provers cannot instantiate; `SetInduction` states induction
for a set of numbers instead and follows from the well-foundedness of `<`.

`ExplorerViews_proofs` proves `ViewsFollowNode`: `Spec => []ViewsShowNode`.  Of its
three parts two are nearly inductive.  `PoolShown` compares the rows with the pool
only when nothing is on its way, so the invariant has to say what is true before:

* `InitOnce`: the explorer is initialised once, so that it is never heard without
  having been silent first;
* `NewsInv`: of each transaction, the last news in the queue says what the pool has;
* `ViewInv`: unless a query was cut short, an answer to a query, in the worker's
  queue or stored in its frame, and the rows when no query is under way, agree
  with the pool but for the transactions the queue still has news of (`Agrees`),
  and as long as no news was missed or handled inside a query there is only one
  query.


The three modules about the desk prove what each part promises, for every value of
the constants that meets the assumptions of `Desk`: payees, addresses, labels and
rows of any number, any amounts and rates, a chain of any length below the width of
its numbers.  `PartsKeepTheirTypes` (`Spec => []TypeOK`) is last, as it follows
from the invariants of the others.

`DeskForms_proofs`:

* `HistoryShowsWhatIsAsked`: `Spec => []FilterInForce`.  From `FilterAssumption`:
  the clock ticks at least once, and an unknown time is not a number.  What is
  shown is not inductive, because the period is not asked again of a row that the
  age let through before; `Filtered` says of each of the two proxies what it holds
  of the rows it was last asked about.
* `NumberShownAsAsked`: `Spec => []NumberShownIsAsked`.  From `FormAssumption`: an
  account number is neither an alias nor empty nor an address.  The invariant is
  the property of every frame, with the fields it has (`Faithful`); what carries it
  is that `StillAsked` compares the text before it is replaced.
* `FormStaysTheOrder`: `Spec => []FormIsOrder`.  The property speaks of the form at
  rest; `FormInv` says what holds inside the events that nest in `clearAll`:
  `Nesting`, which clears can be inside which; `Screen`, that a clear leaves only
  dying frames on screen; `Complete`, that the button is true to the list even
  then; `SoleOnly`, that "send all" and a recipient that cannot be removed mean a
  list of one.
* `PagesStayTrue`: `Spec => PagesKeepPromises`, two invariants and two action
  properties.  From `PagesAssumption`: heights and rows stay far below where a
  `quint32` wraps, which the subtractions of the code may still do.  `PagesInv`
  says that, until something is astray, a search leaves rows (`PagesSearched`)
  and a window with rows meets the interval they are (`PagesWindow`), and that
  each function in its loop will store a page that does, and that its button
  promised, unless it is stale (`Fresh`); what makes `Fresh` last is that every
  step that changes the rows' interval or the size marks the functions below it.

`DeskOrder_proofs`:

* `OrdersArePaidAsShown`: `Spec => []OrderPaid`.  From `OrderAssumption`: amounts
  and balances are not negative, minimal fees, priorities and rates are positive.
  The total is a recursive function; what a sum does to a sequence that grows
  or loses an element is proved once, from the well-foundedness of `<`
  (`NatInduced`), and the divisions of the node's fee are bounded by lemmas of
  their own.  `OrderInv` adds to the property what a form that is not ready has not
  (`Windowed`) and when the node is owed a fee (`NodeAsked`).
* `BookStaysInOrder`: `Spec => []BookInOrder`.  From `BookAssumption`: the empty
  text may be given as a payment ID, the development fund's address is valid,
  and a trimmed label is a label.  Nothing is assumed of which texts are
  addresses and which payment IDs.  `BookInv` keeps the indexes fit for the
  list, for every address that was no contact's payment ID (`Fit`), unique while
  no two contacts had one key (`Unique`), and the stored object the book on
  screen (`Stored`); a deletion shifts every row behind it, so `Fit` is proved
  of the rebuilt index rather than of the one before, and an edit or deletion
  holds a row that is still there because only dialogs that choose a contact are
  opened above it (`Dialogues`).

`DeskLists_proofs`:

* `CardsStayInOrder`: `Spec => []CardsAgree`.  From `CardsAssumption`: the empty
  text is no address.  Complete is only what no call is on the way for; so
  `CardsQueued` says what the queue still brings: the creations in it are the
  addresses behind the end of the copy, in order.  `CardsKnown` says that in
  the first session a card waits for every registration that is not confirmed, so
  that none is asked for again.
* `HistoryStaysTrue`: `Spec => []HistoryFollowsWallet`.  From `HistoryAssumption`.
  The copy stands behind two queues, the wallet's events and the signals read from
  them.  `HistCopied` says that for some `m` the copy holds the first `m`
  transactions, the signals bring the next ones in order and the events those after
  them (`Ordered`, `AllTold`), that a row differs from the wallet's only if one of
  the queues has an update of it (`Right`), and that a synchronised history ends
  with its last transaction.

*Only model-checked*: everything else.  `HandlersReturn`, `QuitEnds`,
`AlwaysReturns`, `GuiComesBack` and `HiddenRowsAppear` need fairness, which TLAPS
does not reach.  `NeverWedged`, `NeverAborts`, `LoopHasWaker`, `SearchSafe`,
`NodesUsable` and `OwnChangesSaved` hold under constants that are part of what
they claim (which handlers are offered, what the node may do), so that a theorem
about every value of the constants would be false.

## Plan

Done: `WalletSession` with `Settings`' file, `WalletLifecycle`,
`NodeConnection`, `BlockExplorer`, `BlockPages`, `TransactionHistory`,
`HistoryFilter`, `AddressCards`, `SendForm`, `SendOrder`, `AddressBook`.  Left,
in this order:

1. The composition of `WalletSession` and `NodeConnection` in
   `deinitCryptoNoteAdapter`, where the events a quit left in the wallet's queue
   are dispatched by the node's `processEvents`, and an abstract `INodeAdapter`
   (one answer per `init`, no report after `deinit`) that the second implements.
2. The dialogs that show a block or a transaction, which hold pointers into the
   explorer's cache across their own loops.

## Not modelled

Windows, dialogs, style, translation, delegates and sorting are presentation.
Cryptography, the wallet container, the protocol and the database are the core
library's, seen only through the calls made here.  Texts of amounts
(`formatAmount`, `parseAmount`) are exact decimals in both directions; the models
use the numbers.  `Settings`' options other than
the wallet file are stored and announced by setters of one statement.  The
network client of the update check, JSON-RPC (message classes of a server the
wallet does not start), the signal handlers, the platform directories and the
vendored QR encoder hold no state that these components share.

The definitions stand for about 13 % of the lines of C and C++ in the
repository.  Of the rest, more than a quarter is the QR encoder with its tests;
thousands of lines are widgets, delegates, cell texts and styles, generated or
written by hand, and most of the headers repeat interfaces.  Of the
sources that hold the program's own logic - `CryptoNoteWrapper`, the
application, the address book, the models, the pages and their frames - the
models cover the state changes; what is left there is what cells and labels say.
