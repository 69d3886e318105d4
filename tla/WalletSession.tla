--------------------------- MODULE WalletSession ---------------------------
(***************************************************************************)
(* One wallet session of Karbo: the GUI thread, which runs MainWindow and  *)
(* NoWalletFrame handlers on top of WalletGreenAdapter, and the wallet     *)
(* thread, which runs WalletGreenWorker::initImpl and the lambdas the GUI  *)
(* spawns on its dispatcher.  The two share m_walletSemaphore, the posted  *)
(* events of the GUI thread and the flags of WalletGreenWorker.            *)
(*                                                                         *)
(* The GUI thread is a stack of frames.  A frame is a handler on its way   *)
(* through a list of wallet operations; an operation that runs a nested    *)
(* QEventLoop (load, create, save, export, close) lets further posted      *)
(* events and user input be handled by frames above it, and can only go on *)
(* when these have returned.  The handlers also settle which wallet file    *)
(* Settings remember, the one the next start of the program opens.         *)
(***************************************************************************)
EXTENDS Naturals, Sequences

CONSTANTS
    MaxDepth,     \* bound: nested handlers on the GUI stack
    MaxInputs,    \* bound: user actions of a behaviour
    MaxEvents,    \* bound: wallet events of a behaviour
    UserActions,  \* the user actions offered
    CoreKinds,    \* the wallet events the core raises
    Files,        \* wallet files, *.wallet as the dialogs offer and append
    NoFile,       \* no wallet file yet
    Patient,      \* the user acts only while the GUI is idle
    Prompt        \* the GUI reaches exec() before the lambda it spawned ends

AllActions == {"openRecent", "unlock", "create", "import", "importBadKey",
               "reset", "closeWallet", "reinit", "commitData", "password",
               "createAddress", "importAddress", "deleteAddress", "contact",
               "backup", "read", "send", "register", "quit"}

AllCoreKinds == {"balance", "transaction", "progress", "syncCompleted"}

ASSUME BoundsAssumption ==
    /\ MaxDepth \in Nat \ {0}
    /\ MaxInputs \in Nat
    /\ MaxEvents \in Nat

ASSUME ChoiceAssumption ==
    /\ UserActions \subseteq AllActions
    /\ CoreKinds \subseteq AllCoreKinds
    /\ Patient \in BOOLEAN
    /\ Prompt \in BOOLEAN

VARIABLES
    stack,          \* frames of the GUI thread, 1..depth in use
    depth,
    queue,          \* events posted to the GUI thread, in order
    sem,            \* m_walletSemaphore.available()
    task,           \* the lambda spawned on the dispatcher and not yet ended
    worker,         \* WalletGreenAdapter::m_worker # nullptr
    wallet,         \* where the wallet thread is
    pump,           \* startEventLoop's lambda runs
    observed,       \* the adapter observes the worker
    session,        \* counts createWorker: which worker object is current
    isOpen,         \* WalletGreenWorker::m_isOpen
    isSaved,        \* WalletGreenWorker::m_isSaved
    dirty,          \* history: the changes that are not in the wallet file
    menuOpen,       \* MainWindow shows its opened state
    modelsOpen,     \* the other observers were told walletOpened
    formEnabled,    \* NoWalletFrame accepts input
    asking,         \* NoWalletFrame shows its password field
    mainConnected,  \* MainWindow observes the adapter
    failed,         \* the assertion that aborted the program, or "none"
    named,          \* Settings' wallet file
    chosen,         \* NoWalletFrame::m_walletFile
    path,           \* the file of the wallet opened last
    locals,         \* filePath and oldWalletFile of each handler on the stack
    exiting,        \* quit(): no, loops being left, or the last shutdown
    inputs, events  \* the user actions and wallet events spent so far

gui   == <<stack, depth>>
core  == <<sem, task>>
life  == <<worker, wallet, pump, observed, session>>
flags == <<isOpen, isSaved, dirty>>
view  == <<menuOpen, modelsOpen, formEnabled, asking, mainConnected>>
files == <<named, chosen, path, locals>>
spent == <<exiting, inputs, events>>
vars  == <<gui, queue, core, life, flags, view, failed, files, spent>>

-----------------------------------------------------------------------------
(* Frames, operations and events *)

OpenOps    == {"load", "create"}
SaveOps    == {"save", "saveKeys", "export"}
LoopOps    == OpenOps \cup SaveOps
BlockOps   == {"get", "changePassword", "createAddress", "deleteAddress",
               "sendTransaction"}
TaskOps    == SaveOps \cup BlockOps
DataOps    == {"getUserData", "setUserData"}
AdapterClose == {"close", "closeQuiet", "shutdownClose"}
CloseOps   == AdapterClose \cup {"discard"}
NamingOps  == {"nameNew", "nameOld", "nameChosen"}
OpeningOps == {"postLoad", "reopen", "restart"}
LocalOps   == NamingOps \cup OpeningOps \cup {"assertOpen", "askPassword"}
Ops        == LoopOps \cup BlockOps \cup DataOps \cup CloseOps \cup LocalOps
AdapterOps == TaskOps \cup DataOps \cup AdapterClose

Points  == {"call", "init", "enter", "loop", "wait", "held", "opened",
            "emit", "locking", "deinit"}
Holding == {"init", "held", "opened", "emit", "deinit"}
InLoops == {"init", "loop", "deinit"}

Kinds == AllCoreKinds \cup
         {"opened", "openError", "closed", "passwordChanged", "addressCreated",
          "addressDeleted", "initCompleted", "deinitCompleted", "loadRequest"}

Idle   == [todo |-> <<>>, at |-> "call", session |-> 0,
           exited |-> FALSE, ok |-> FALSE]
NoTask == [op |-> "none", frame |-> 0]
NoLocals == [file |-> NoFile, old |-> NoFile]

Top == stack[depth]
Op  == Head(Top.todo)
Alive == failed = "none"
Busy  == depth > 0
Calls(ops) ==
    Alive /\ Busy /\ Top.at = "call" /\ Top.todo # <<>> /\ Op \in ops
At(point)  == Alive /\ Busy /\ Top.at = point

Move(point) == stack' = [stack EXCEPT ![depth].at = point]
Continue(ops) ==
    stack' = [stack EXCEPT ![depth] = [Idle EXCEPT !.todo = ops]]
Finish == Continue(Tail(Top.todo))

Push(ops) ==
    IF ops = <<>>
      THEN UNCHANGED gui
      ELSE /\ depth < MaxDepth
           /\ depth' = depth + 1
           /\ stack' = [stack EXCEPT ![depth + 1] = [Idle EXCEPT !.todo = ops]]

Event(kind) == [kind |-> kind, session |-> session]
Post(kind)  == queue' = Append(queue, Event(kind))

HasWallet == wallet \in {"ready", "exiting"}
Open      == worker /\ isOpen

\* Some event loop dispatches.  After quit() no loop is run until all have been
\* left; then only those of the last shutdown are.
InLoop ==
    /\ Alive
    /\ exiting # "unwind"
    /\ exiting = "last" => Busy
    /\ Busy => Top.at \in InLoops

-----------------------------------------------------------------------------
(* User actions: the operations each MainWindow handler performs, in order *)

SaveAndCloseIfOpen == IF Open THEN <<"save", "closeQuiet">> ELSE <<>>

OpenRecentWallet == SaveAndCloseIfOpen \o <<"postLoad">>

OkClicked == IF ~menuOpen /\ formEnabled /\ asking THEN <<"load", "askPassword">> ELSE <<>>

CreateWallet ==
    SaveAndCloseIfOpen \o
        <<"nameNew", "create", "save", "assertOpen", "export", "get">>

\* importKey and restoreFromMnemonicSeed close without saving.
ImportKey ==
    (IF Open THEN <<"closeQuiet">> ELSE <<>>) \o <<"nameNew", "create", "save">>

ImportInvalidKey == IF Open THEN <<"closeQuiet">> ELSE <<>>

ResetWallet ==
    IF menuOpen THEN <<"assertOpen", "saveKeys", "closeQuiet", "reopen">>
                ELSE <<>>

CloseWalletUngated == <<"assertOpen", "save", "close">>
CloseWallet ==
    IF menuOpen THEN <<"assertOpen", "save", "close">> ELSE <<>>

KeepOpen == IF Open THEN <<"save">> ELSE <<>>
DeinitCryptoNoteAdapter == IF Open THEN <<"save", "shutdownClose">> ELSE <<>>
ReinitCryptoNoteAdapter == DeinitCryptoNoteAdapter \o <<"restart">>

CommitData == IF Open THEN <<"save">> ELSE <<>>

EncryptWallet == IF menuOpen THEN <<"changePassword", "export">> ELSE <<>>

CreateAddressRequested == IF Open THEN <<"createAddress">> ELSE <<>>

ImportAddressRequested ==
    IF Open THEN <<"get", "createAddress", "save">> ELSE <<>>

DeleteAddressFromCard == IF Open THEN <<"deleteAddress", "get">> ELSE <<>>

SetOwnAddressLabel == IF menuOpen THEN <<"setUserData">> ELSE <<>>

BackupWallet == IF menuOpen THEN <<"export">> ELSE <<>>

ExportKey == IF menuOpen THEN <<"get">> ELSE <<>>

SendClicked == IF menuOpen THEN <<"sendTransaction">> ELSE <<>>

\* WalletGreenWorker::registerAccountNumber reads the address and its keys.
RegisterAccountNumberFromCard ==
    IF Open THEN <<"get", "sendTransaction">> ELSE <<>>

Handler(a) ==
    [openRecent    |-> OpenRecentWallet,
     unlock        |-> OkClicked,
     create        |-> CreateWallet,
     import        |-> ImportKey,
     importBadKey  |-> ImportInvalidKey,
     reset         |-> ResetWallet,
     closeWallet   |-> CloseWallet,
     reinit        |-> ReinitCryptoNoteAdapter,
     commitData    |-> CommitData,
     password      |-> EncryptWallet,
     createAddress |-> CreateAddressRequested,
     importAddress |-> ImportAddressRequested,
     deleteAddress |-> DeleteAddressFromCard,
     contact       |-> SetOwnAddressLabel,
     backup        |-> BackupWallet,
     read          |-> ExportKey,
     send          |-> SendClicked,
     register      |-> RegisterAccountNumberFromCard,
     quit          |-> <<>>][a]

Offered ==
    /\ inputs < MaxInputs
    /\ inputs' = inputs + 1
    /\ exiting = "no"
    /\ InLoop
    /\ Patient => ~Busy /\ queue = <<>>

\* showPreferences disables the window until reinitCryptoNoteAdapter is done.
WindowEnabled ==
    \A i \in 1..depth :
        \A k \in DOMAIN stack[i].todo :
            stack[i].todo[k] \notin {"shutdownClose", "restart"}

\* The file the user picks: a recent one, or one that does not exist yet.
Pick(a) ==
    IF a \in {"openRecent", "create", "import"}
      THEN \E f \in Files :
             /\ a # "openRecent" => f # named
             /\ locals' = [locals EXCEPT ![depth + 1].file = f]
             /\ UNCHANGED <<named, chosen, path>>
      ELSE UNCHANGED files

UserInput(a) ==
    /\ Offered
    /\ WindowEnabled \/ a = "commitData"
    /\ Handler(a) # <<>>
    /\ Push(Handler(a))
    /\ Pick(a)
    /\ formEnabled' = (formEnabled /\ a # "unlock")
    /\ UNCHANGED <<queue, core, life, flags, menuOpen, modelsOpen, asking,
                   mainConnected, failed, exiting, events>>

\* QCoreApplication::quit: every running loop returns 0, at once for the loop
\* on top, for the others when the handlers above them have returned.
Quit ==
    /\ Offered
    /\ exiting' = "unwind"
    /\ stack' = [i \in DOMAIN stack |->
                   IF stack[i].at \in InLoops
                     THEN [stack[i] EXCEPT !.exited = TRUE, !.ok = TRUE]
                     ELSE stack[i]]
    /\ UNCHANGED <<depth, queue, core, life, flags, view, failed, files, events>>

\* WalletApplication::prepareToQuit, on aboutToQuit.
PrepareToQuit ==
    /\ Alive
    /\ ~Busy
    /\ exiting = "unwind"
    /\ exiting' = "last"
    /\ Push(DeinitCryptoNoteAdapter)
    /\ UNCHANGED <<queue, core, life, flags, view, failed, files, inputs, events>>

-----------------------------------------------------------------------------
(* Posted events, dispatched by whichever loop is innermost *)

Receive(kind) ==
    /\ InLoop
    /\ queue # <<>>
    /\ Head(queue).kind = kind
    /\ queue' = Tail(queue)
    /\ UNCHANGED <<core, life, flags, mainConnected, failed, files, spent>>

\* Every observer reads the wallet in its walletOpened slot, unguarded, and
\* AddressBookManager may convert an old address book on the way.
OnWalletOpened ==
    /\ Receive("opened")
    /\ \/ Push(<<"get", "getUserData">>)
       \/ Push(<<"get", "getUserData", "setUserData">>)
    /\ modelsOpen' = TRUE
    /\ menuOpen' = (menuOpen \/ mainConnected)
    /\ formEnabled' = TRUE
    /\ asking' = FALSE

OnWalletOpenError ==
    /\ Receive("openError")
    /\ menuOpen' = (menuOpen /\ ~mainConnected)
    /\ formEnabled' = TRUE
    /\ UNCHANGED <<gui, modelsOpen, asking>>

OnWalletClosed ==
    /\ Receive("closed")
    /\ modelsOpen' = FALSE
    /\ menuOpen' = (menuOpen /\ ~mainConnected)
    /\ formEnabled' = TRUE
    /\ UNCHANGED <<gui, asking>>

OnPasswordChanged ==
    /\ Receive("passwordChanged")
    /\ Push(IF mainConnected THEN <<"save">> ELSE <<>>)
    /\ UNCHANGED <<menuOpen, modelsOpen, formEnabled, asking>>

\* WalletStateModel passes the signal on to MainWindow whether or not MainWindow
\* observes the adapter; its slot reads the balance unguarded.
OnSynchronizationCompleted ==
    /\ Receive("syncCompleted")
    /\ Push(<<"get">>)
    /\ UNCHANGED <<menuOpen, modelsOpen, formEnabled, asking>>

\* AddressListModel::refreshBalances reads the wallet only when it is open.
ReadBalances == <<"get">>
RefreshBalances == IF Open THEN <<"get">> ELSE <<>>

OnBalance ==
    /\ \E kind \in {"balance", "transaction"} : Receive(kind)
    /\ Push(RefreshBalances)
    /\ UNCHANGED <<menuOpen, modelsOpen, formEnabled, asking>>

\* AddressListModel::addressCreated reads the new address's balance unguarded.
OnAddressCreated ==
    /\ Receive("addressCreated")
    /\ Push(<<"get">>)
    /\ UNCHANGED <<menuOpen, modelsOpen, formEnabled, asking>>

OnQuietEvent ==
    /\ \E kind \in {"progress", "addressDeleted"} : Receive(kind)
    /\ UNCHANGED <<gui, menuOpen, modelsOpen, formEnabled, asking>>

\* NoWalletFrame::loadWallet, invoked by a queued call.
OnLoadRequest ==
    /\ Receive("loadRequest")
    /\ Push(<<"load", "askPassword">>)
    /\ UNCHANGED <<menuOpen, modelsOpen, formEnabled, asking>>

\* The queued quit() of the QEventLoop in init() or deinit().
OnQuit(kind, point) ==
    /\ Receive(kind)
    /\ stack' = [i \in DOMAIN stack |->
                   IF stack[i].at = point /\ stack[i].session = Head(queue).session
                     THEN [stack[i] EXCEPT !.exited = TRUE]
                     ELSE stack[i]]
    /\ UNCHANGED <<depth, menuOpen, modelsOpen, formEnabled, asking>>

Dispatch ==
    \/ OnWalletOpened
    \/ OnWalletOpenError
    \/ OnWalletClosed
    \/ OnPasswordChanged
    \/ OnSynchronizationCompleted
    \/ OnBalance
    \/ OnAddressCreated
    \/ OnQuietEvent
    \/ OnLoadRequest
    \/ OnQuit("initCompleted", "init")
    \/ OnQuit("deinitCompleted", "deinit")

-----------------------------------------------------------------------------
(* Assertions of the code: a debug build aborts where one fails *)

CreateWorkerAsserts == Calls(OpenOps) /\ worker /\ failed' = "createWorker"
OpenAsserts         == Calls({"assertOpen"}) /\ ~Open /\ failed' = "notOpen"
WorkerAsserts       == Calls(AdapterOps) /\ ~worker /\ failed' = "noWorker"
WalletAsserts       ==
    /\ Calls(TaskOps \cup CloseOps) \/ (At("init") /\ Top.exited)
    /\ worker
    /\ ~HasWallet
    /\ failed' = "noWallet"

\* A frame of a deleted worker object resumes.
WorkerFreed ==
    /\ At("loop")
    /\ Top.exited
    /\ Top.session # session
    /\ failed' = "workerFreed"

Abort ==
    /\ \/ CreateWorkerAsserts
       \/ OpenAsserts
       \/ WorkerAsserts
       \/ WalletAsserts
       \/ WorkerFreed
    /\ UNCHANGED <<gui, queue, core, life, flags, view, files, spent>>

-----------------------------------------------------------------------------
(* Steps of the handler on top of the stack *)

Return ==
    /\ At("call")
    /\ Top.todo = <<>>
    /\ depth' = depth - 1
    /\ stack' = [stack EXCEPT ![depth] = Idle]
    /\ locals' = [locals EXCEPT ![depth] = NoLocals]
    /\ UNCHANGED <<queue, core, life, flags, view, failed, named, chosen, path,
                   spent>>

CheckOpen ==
    /\ Calls({"assertOpen"})
    /\ Open
    /\ Finish
    /\ UNCHANGED <<depth, queue, core, life, flags, view, failed, files, spent>>

\* NoWalletFrame::openWallet hides the password field and posts loadWallet.
OpenInForm(file) ==
    /\ Post("loadRequest")
    /\ asking' = FALSE
    /\ chosen' = file
    /\ UNCHANGED <<menuOpen, modelsOpen, formEnabled, mainConnected>>

PostLoad ==
    /\ Calls({"postLoad", "reopen"})
    /\ Finish
    /\ OpenInForm(IF Op = "postLoad" THEN locals[depth].file ELSE named)
    /\ UNCHANGED <<depth, core, life, flags, failed, named, path, locals, spent>>

\* The node is started again (NodeConnection); when that succeeds and the file
\* exists, MainWindow::cryptoNoteAdapterInitCompleted opens it.
Restart ==
    /\ Calls({"restart"})
    /\ Finish
    /\ \/ named # NoFile /\ OpenInForm(named)
       \/ UNCHANGED <<queue, view, chosen>>
    /\ UNCHANGED <<depth, core, life, flags, failed, named, path, locals, spent>>

\* Settings::setWalletFile, which also writes the file of the settings.
SetWalletFile ==
    /\ Calls(NamingOps)
    /\ Finish
    /\ named' = CASE Op = "nameNew" -> locals[depth].file
                  [] Op = "nameOld" -> locals[depth].old
                  [] Op = "nameChosen" -> chosen
    /\ locals' = IF Op = "nameNew" THEN [locals EXCEPT ![depth].old = named]
                                   ELSE locals
    /\ UNCHANGED <<depth, queue, core, life, flags, view, failed, chosen, path,
                   spent>>

\* NoWalletFrame::loadWallet after load() failed: a wrong password or not.
AskPassword ==
    /\ Calls({"askPassword"})
    /\ Finish
    /\ asking' \in {asking, TRUE}
    /\ UNCHANGED <<depth, queue, core, life, flags, menuOpen, modelsOpen,
                   formEnabled, mainConnected, failed, files, spent>>

\* QSemaphore: acquire blocks on 0, release adds one.
TakeTokenUnchecked == sem' = sem - 1
TakeToken == sem > 0 /\ sem' = sem - 1
GiveToken == sem' = sem + 1

\* A loop entered after quit() returns at once.
EnterWorker(point) ==
    stack' = [stack EXCEPT ![depth].at = point, ![depth].session = session,
                           ![depth].exited = exiting = "unwind"]

\* createWorker, then the SemaphoreLocker and init() of load and create.
BeginOpen ==
    /\ Calls(OpenOps)
    /\ ~worker
    /\ worker' = TRUE
    /\ observed' = TRUE
    /\ wallet' = "starting"
    /\ session' = session + 1
    /\ sem' = 0
    /\ stack' = [stack EXCEPT ![depth].at = "init",
                              ![depth].session = session + 1,
                              ![depth].exited = exiting = "unwind"]
    /\ isOpen' = FALSE
    /\ isSaved' = FALSE
    /\ dirty' = {}
    /\ UNCHANGED <<depth, queue, task, pump, view, failed, files, spent>>

SaveSkipped ==
    /\ Calls({"save"})
    /\ worker
    /\ HasWallet
    /\ isSaved
    /\ Finish
    /\ UNCHANGED <<depth, queue, core, life, flags, view, failed, files, spent>>

\* SemaphoreLocker(m_walletSemaphore), then remoteSpawn.
Acquire ==
    /\ Calls(TaskOps)
    /\ Op = "save" => ~isSaved
    /\ worker
    /\ HasWallet
    /\ TakeToken
    /\ task' = [op |-> Op, frame |-> depth]
    /\ EnterWorker(IF Op \in LoopOps THEN "enter" ELSE "wait")
    /\ UNCHANGED <<depth, queue, life, flags, view, failed, files, spent>>

\* What an operation changes in the container.
Changes(op) ==
    CASE op = "setUserData" -> {"label"}
      [] op = "sendTransaction" -> {"transfer"}
      [] op \in {"create", "changePassword", "createAddress", "deleteAddress"} ->
           {"own"}
      [] OTHER -> {}

\* setUserData does not touch m_isSaved.
AccessUserData ==
    /\ Calls(DataOps)
    /\ worker
    /\ sem > 0
    /\ dirty' = dirty \cup Changes(Op)
    /\ Finish
    /\ UNCHANGED <<depth, queue, core, life, isOpen, isSaved, view, failed, files, spent>>

\* WalletGreenAdapter::close: MainWindow and the adapter stop observing.
Detach ==
    /\ Calls(AdapterClose)
    /\ worker
    /\ HasWallet
    /\ observed' = FALSE
    /\ mainConnected' = (Op = "shutdownClose" /\ mainConnected)
    /\ EnterWorker("locking")
    /\ UNCHANGED <<depth, queue, core, worker, wallet, pump, session, flags,
                   menuOpen, modelsOpen, formEnabled, asking, failed, files, spent>>

CloseUnlocked == UNCHANGED sem
LockForClose == TakeToken

\* WalletGreenWorker::close up to the nested loop of deinit().
BeginClose ==
    /\ At("locking") \/ Calls({"discard"})
    /\ worker
    /\ HasWallet
    /\ LockForClose
    /\ isOpen' = FALSE
    /\ wallet' = "exiting"
    /\ EnterWorker("deinit")
    /\ UNCHANGED <<depth, queue, task, worker, pump, observed, session,
                   isSaved, dirty, view, failed, files, spent>>

\* QEventLoop::exec clears the exit flag: an exit() before it is lost.  After
\* quit() it returns -1.
EnterLoop ==
    /\ At("enter")
    /\ stack' = [stack EXCEPT ![depth].at = "loop", ![depth].ok = FALSE,
                              ![depth].exited = exiting = "unwind"]
    /\ UNCHANGED <<depth, queue, core, life, flags, view, failed, files, spent>>

LeaveInit ==
    /\ At("init")
    /\ Top.exited
    /\ HasWallet
    /\ task' = [op |-> Op, frame |-> depth]
    /\ EnterWorker("enter")
    /\ UNCHANGED <<depth, queue, sem, life, flags, view, failed, files, spent>>

LeaveLoop ==
    /\ At("loop")
    /\ Top.exited
    /\ Top.session = session
    /\ worker
    /\ Move("wait")
    /\ UNCHANGED <<depth, queue, core, life, flags, view, failed, files, spent>>

\* The wallet was closed above this frame; the old worker object still exists
\* (deleteLater), its semaphore is free and its result is returned.
LeaveClosedWorker ==
    /\ At("loop")
    /\ Top.exited
    /\ Top.session = session
    /\ ~worker
    /\ Finish
    /\ UNCHANGED <<depth, queue, core, life, flags, view, failed, files, spent>>

NoWait == UNCHANGED sem
LockerWait == TakeToken

AwaitToken ==
    /\ At("wait")
    /\ LockerWait
    /\ Move("held")
    /\ UNCHANGED <<depth, queue, task, life, flags, view, failed, files, spent>>

\* save, exportWallet, sendTransaction and the getters return; the locker
\* releases the token.  A transfer clears m_isSaved only by its event.
ReturnResult ==
    /\ At("held")
    /\ Op \in SaveOps \cup {"get", "sendTransaction"}
    /\ isSaved' = (isSaved \/ (Op = "save" /\ Top.ok))
    /\ GiveToken
    /\ Finish
    /\ UNCHANGED <<depth, queue, task, life, isOpen, dirty, view, failed, files, spent>>

KeepSaved == UNCHANGED isSaved
MarkUnsaved == isSaved' = FALSE

\* changePassword, createAddress.
ReturnMutation ==
    /\ At("held")
    /\ Op \in {"changePassword", "createAddress"}
    /\ GiveToken
    /\ IF Top.ok
         THEN /\ MarkUnsaved
              /\ Post(IF Op = "createAddress" THEN "addressCreated"
                                              ELSE "passwordChanged")
              /\ Finish
         ELSE /\ \/ Continue(<<>>)
                 \/ Op = "changePassword" /\ Finish
              /\ UNCHANGED <<isSaved, queue>>
    /\ UNCHANGED <<depth, task, life, isOpen, dirty, view, failed, files, spent>>

\* deleteAddress evaluates getActualBalance() while its locker is alive: the
\* getter above it never gets the token, so nothing follows "emit".
ReturnDeleted ==
    /\ At("held")
    /\ Op = "deleteAddress"
    /\ IF Top.ok
         THEN /\ MarkUnsaved
              /\ Post("addressDeleted")
              /\ depth < MaxDepth
              /\ depth' = depth + 1
              /\ stack' = [stack EXCEPT ![depth].at = "emit",
                             ![depth + 1] = [Idle EXCEPT !.todo = <<"get">>]]
              /\ UNCHANGED sem
         ELSE /\ GiveToken
              /\ Finish
              /\ UNCHANGED <<depth, isSaved, queue>>
    /\ UNCHANGED <<task, life, isOpen, dirty, view, failed, files, spent>>

\* The load or create lambda succeeded: events start before anyone is told.
StartEventLoop ==
    /\ At("held")
    /\ Op \in OpenOps
    /\ Top.ok
    /\ pump' = TRUE
    /\ Move("opened")
    /\ UNCHANGED <<depth, queue, core, worker, wallet, observed, session, flags,
                   view, failed, files, spent>>

EmitOpened ==
    /\ At("opened")
    /\ isOpen' = TRUE
    /\ Post("opened")
    /\ GiveToken
    /\ Continue(IF Op = "load" THEN <<"nameChosen">> ELSE Tail(Top.todo))
    /\ UNCHANGED <<depth, task, life, isSaved, dirty, view, failed, files, spent>>

ReportNothing == UNCHANGED queue
ReportOpenError == Post("openError")

\* createWallet and importKey restore oldWalletFile.
KeepNewName == <<"discard">>
RestoreName == <<"discard", "nameOld">>

\* Only load emits walletOpenErrorSignal; the adapter then deletes the worker.
OpenFailed ==
    /\ At("held")
    /\ Op \in OpenOps
    /\ ~Top.ok
    /\ GiveToken
    /\ IF Op = "load"
         THEN /\ ReportOpenError
              /\ Continue(<<"discard", "askPassword">>)
         ELSE /\ Continue(RestoreName)
              /\ UNCHANGED queue
    /\ UNCHANGED <<depth, task, life, flags, view, failed, files, spent>>

\* deinit() waits for deinitCompletedSignal, deleteWorker for the thread.
ThreadEnded == wallet = "stopped"
DeinitDone == Top.exited /\ wallet = "stopped"

\* The rest of WalletGreenWorker::close and of WalletGreenAdapter::deleteWorker.
WorkerGone ==
    /\ At("deinit")
    /\ DeinitDone
    /\ GiveToken
    /\ worker' = FALSE
    /\ wallet' = "none"
    /\ observed' = FALSE
    /\ isSaved' = FALSE
    /\ dirty' = {}
    /\ Finish
    /\ UNCHANGED <<depth, task, pump, session, isOpen, asking, failed, files, spent>>

TellNobody == UNCHANGED <<modelsOpen, formEnabled>>
TellClosed == modelsOpen' = FALSE /\ formEnabled' = TRUE

\* WalletGreenAdapter::close emits walletClosed to whoever observes it;
\* closeWallet then calls MainWindow::walletClosed itself.
EndClose ==
    /\ WorkerGone
    /\ Op \in AdapterClose
    /\ TellClosed
    /\ menuOpen' = (menuOpen /\ Op = "closeQuiet")
    /\ mainConnected' = TRUE
    /\ UNCHANGED queue

\* The worker's own walletClosedSignal reaches the adapter only when it is
\* emitted before deleteObjects disconnected the observers.
EndDiscard ==
    /\ WorkerGone
    /\ Op = "discard"
    /\ Post("closed") \/ UNCHANGED queue
    /\ UNCHANGED <<menuOpen, modelsOpen, formEnabled, mainConnected>>

Gui ==
    \/ Return
    \/ CheckOpen
    \/ PostLoad
    \/ Restart
    \/ SetWalletFile
    \/ AskPassword
    \/ BeginOpen
    \/ SaveSkipped
    \/ Acquire
    \/ AccessUserData
    \/ Detach
    \/ BeginClose
    \/ EnterLoop
    \/ LeaveInit
    \/ LeaveLoop
    \/ LeaveClosedWorker
    \/ AwaitToken
    \/ ReturnResult
    \/ ReturnMutation
    \/ ReturnDeleted
    \/ StartEventLoop
    \/ EmitOpened
    \/ OpenFailed
    \/ EndClose
    \/ EndDiscard

-----------------------------------------------------------------------------
(* The wallet thread *)

\* initImpl: createObjects, start, initCompletedSignal.
InitImpl ==
    /\ Alive
    /\ wallet = "starting"
    /\ wallet' = "ready"
    /\ Post("initCompleted")
    /\ UNCHANGED <<gui, core, worker, pump, observed, session, flags, view,
                   failed, files, spent>>

\* Which lambdas end with waitLoop.exit(errorCode), whatever their result.
ExitsOnSuccess(op, ok) == op \in LoopOps /\ ok
ExitsLoop(op, ok) == op \in LoopOps

\* What the caller learns: the others' errorCode is captured, that of exit()
\* only counts until exec() has returned.
Reported(op, at, ok, returned) ==
    IF op \in LoopOps /\ at = "wait" THEN returned ELSE ok

\* load's lambda captures m_walletFile by reference and reads it when it runs.
FileOf(t) == IF t.op = "load" THEN chosen ELSE locals[t.frame].file

\* A spawned lambda runs: its wallet call, waitLoop.exit, SemaphoreUnlocker.
RunTask ==
    /\ Alive
    /\ task # NoTask
    /\ HasWallet
    /\ Prompt => stack[task.frame].at # "enter"
    /\ \E ok \in BOOLEAN :
         /\ stack' = [stack EXCEPT
                        ![task.frame].ok =
                            Reported(task.op, stack[task.frame].at, ok, @),
                        ![task.frame].exited = @ \/ ExitsLoop(task.op, ok)]
         /\ dirty' = IF ~ok THEN dirty
                     ELSE IF task.op \in {"load", "save"} THEN {}
                     ELSE dirty \cup Changes(task.op)
         /\ path' = IF ok /\ task.op \in OpenOps THEN FileOf(task) ELSE path
    /\ GiveToken
    /\ task' = NoTask
    /\ UNCHANGED <<depth, queue, life, isOpen, isSaved, view, failed, named,
                   chosen, locals, spent>>

\* processEvent; the core's SYNC_COMPLETED leaves m_isSaved alone.
ProcessEvent(kind) ==
    /\ Alive
    /\ pump
    /\ events < MaxEvents
    /\ events' = events + 1
    /\ queue' = queue \o (IF ~observed THEN <<>>
                          ELSE IF kind = "transaction"
                            THEN <<Event("transaction"), Event("balance")>>
                            ELSE <<Event(kind)>>)
    /\ isSaved' = (isSaved /\ kind = "syncCompleted")
    /\ dirty' = dirty \cup (IF kind = "syncCompleted" THEN {} ELSE {"event"})
    /\ UNCHANGED <<gui, core, life, isOpen, view, failed, files, exiting, inputs>>

\* initImpl after m_exitEvent: stop, deinitCompletedSignal, deleteObjects.
ExitImpl ==
    /\ Alive
    /\ wallet = "exiting"
    /\ wallet' = "stopped"
    /\ pump' = FALSE
    /\ Post("deinitCompleted")
    /\ UNCHANGED <<gui, core, worker, observed, session, flags, view, failed,
                   files, spent>>

Worker == InitImpl \/ RunTask \/ ExitImpl

-----------------------------------------------------------------------------
Init ==
    /\ stack = [i \in 1..MaxDepth |-> Idle]
    /\ depth = 0
    /\ \/ named = NoFile /\ queue = <<>>
       \/ /\ named \in Files
          /\ queue = <<[kind |-> "loadRequest", session |-> 0]>>
    /\ chosen = named
    /\ path = named
    /\ locals = [i \in 1..MaxDepth |-> NoLocals]
    /\ sem = 1
    /\ task = NoTask
    /\ worker = FALSE
    /\ wallet = "none"
    /\ pump = FALSE
    /\ observed = FALSE
    /\ session = 0
    /\ isOpen = FALSE
    /\ isSaved = FALSE
    /\ dirty = {}
    /\ menuOpen = FALSE
    /\ modelsOpen = FALSE
    /\ formEnabled = TRUE
    /\ asking = FALSE
    /\ mainConnected = TRUE
    /\ failed = "none"
    /\ exiting = "no"
    /\ inputs = 0
    /\ events = 0

Environment ==
    \/ \E a \in UserActions : UserInput(a)
    \/ "quit" \in UserActions /\ Quit
    \/ \E kind \in CoreKinds : ProcessEvent(kind)

Next == Environment \/ Dispatch \/ Gui \/ PrepareToQuit \/ Worker \/ Abort

Spec == Init /\ [][Next]_vars

\* Qt keeps dispatching and both threads are scheduled; neither the user nor
\* the network owes the program anything.
Fairness ==
    /\ WF_vars(Dispatch \/ Gui \/ PrepareToQuit \/ Abort)
    /\ WF_vars(Worker)

FairSpec == Spec /\ Fairness

-----------------------------------------------------------------------------
(* Properties *)

Frames == 1..MaxDepth
Causes == {"own", "label", "transfer", "event"}
Failures == {"none", "createWorker", "notOpen", "noWorker", "noWallet",
             "workerFreed"}

Frame == [todo : Seq(Ops), at : Points, session : Nat,
          exited : BOOLEAN, ok : BOOLEAN]

Posted == [kind : Kinds, session : Nat]

FileNames == Files \cup {NoFile}

FilesTypeOK ==
    /\ named \in FileNames
    /\ chosen \in FileNames
    /\ path \in FileNames
    /\ locals \in [Frames -> [file : FileNames, old : FileNames]]

SessionTypeOK ==
    /\ stack \in [Frames -> Frame]
    /\ depth \in 0..MaxDepth
    /\ queue \in Seq(Posted)
    /\ sem \in Nat
    /\ task \in {NoTask} \cup [op : LoopOps \cup BlockOps, frame : Frames]
    /\ worker \in BOOLEAN
    /\ wallet \in {"none", "starting", "ready", "exiting", "stopped"}
    /\ pump \in BOOLEAN
    /\ observed \in BOOLEAN
    /\ session \in Nat
    /\ isOpen \in BOOLEAN
    /\ isSaved \in BOOLEAN
    /\ dirty \subseteq Causes
    /\ menuOpen \in BOOLEAN
    /\ modelsOpen \in BOOLEAN
    /\ formEnabled \in BOOLEAN
    /\ asking \in BOOLEAN
    /\ mainConnected \in BOOLEAN
    /\ failed \in Failures
    /\ exiting \in {"no", "unwind", "last"}
    /\ inputs \in 0..MaxInputs
    /\ events \in 0..MaxEvents

\* The type of every variable.
TypeOK == SessionTypeOK /\ FilesTypeOK

Holders == {i \in 1..depth : stack[i].at \in Holding}
HasTask == task # NoTask

\* SemaphoreUtils: whoever is about to release m_walletSemaphore is its one
\* holder (Q_ASSERT(available() == 0) in both destructors): a handler of the
\* GUI thread or the lambda it spawned, never both, never two nested handlers,
\* and a token that nobody holds is available.
TokenHeldOnce ==
    /\ \A i, j \in Holders : i = j
    /\ HasTask => Holders = {}
    /\ sem = IF HasTask \/ Holders # {} THEN 0 ELSE 1

\* A lambda captures its caller's locals by reference: while it has not ended,
\* the frame that spawned it is still on the stack, has not left its operation
\* and the wallet it works on exists.
CapturedFrameAlive ==
    HasTask =>
        /\ task.frame \in 1..depth
        /\ stack[task.frame].at \in {"enter", "loop", "wait"}
        /\ stack[task.frame].todo # <<>>
        /\ Head(stack[task.frame].todo) = task.op
        /\ stack[task.frame].session = session
        /\ wallet = "ready"

\* Nothing of a closed wallet is still on its way to the observers: after
\* deleteWorker only its walletClosed and requests to load are pending.
NoEventWithoutWorker ==
    ~worker /\ exiting = "no" =>
        \A i \in DOMAIN queue : queue[i].kind \in {"closed", "loadRequest"}

\* When the GUI is idle, the observers of the adapter show an open wallet
\* exactly when one is open.
ModelsAgree == ~Busy /\ queue = <<>> /\ Alive => (modelsOpen <=> Open)

\* When the GUI is idle, Settings name the wallet that is open, or was open last:
\* the next start opens it, and what is derived from the name (the list of recent
\* wallets, the backup of a password change, the old address book) is its own.
\* Handlers name a file before they create it and after they load it, and nest.
SettingsNameWallet ==
    ~Busy /\ queue = <<>> /\ Alive /\ exiting = "no" => named = path

\* When the GUI is idle, NoWalletFrame accepts a password again.
FormUsable == ~Busy /\ queue = <<>> /\ Alive => formEnabled

NeedsToken ==
    \/ Calls(TaskOps) /\ HasWallet /\ (Op = "save" => ~isSaved)
    \/ Calls(DataOps)
    \/ At("locking")
    \/ Calls({"discard"}) /\ HasWallet

\* The GUI thread blocks in SemaphoreLocker on a token that one of its own
\* frames holds.
Wedged == worker /\ NeedsToken /\ sem = 0 /\ ~HasTask

\* The GUI thread never waits for a token only itself could release.
NeverWedged == ~Wedged

\* No assertion of the code fails.
NeverAborts == Alive

\* The event loop of a save, load or export has somebody left to end it.
LoopHasWaker ==
    \A i \in 1..depth :
        stack[i].at = "loop" => stack[i].exited \/ (HasTask /\ task.frame = i)

\* Every handler returns, unless it waits for itself or an assertion failed.
HandlersReturn == Busy ~> (~Busy \/ Wedged \/ ~Alive)

\* The program has returned from exec() and done its last shutdown.
Ended == exiting = "last" /\ ~Busy /\ Alive

\* Whatever quit() interrupted, the program does not end with the wallet open
\* or its thread running.
EndsClosed == Ended => ~worker /\ wallet = "none" /\ ~HasTask

\* quit() ends the program, unless the GUI thread waits for itself or an
\* assertion fails.
QuitEnds == exiting = "unwind" ~> (Ended \/ Wedged \/ ~Alive)

\* A save that is skipped as "Wallet already saved" has nothing to save.
SkippedSaveIsSaved == [][SaveSkipped => dirty = {}]_vars

\* A save that is skipped so loses no wallet made, password or address of the
\* wallet: whatever handlers, failed saves and events of the core came between,
\* m_isSaved is cleared after the change and set by no save before it.
OwnChangesSaved == [][SaveSkipped => "own" \notin dirty]_vars

-----------------------------------------------------------------------------
(* The life cycle the session implements *)

Phase ==
    IF ~worker THEN "closed"
    ELSE IF isOpen THEN "open"
    ELSE IF wallet \in {"exiting", "stopped"} THEN "closing"
    ELSE "opening"

Lifecycle == INSTANCE WalletLifecycle WITH phase <- Phase, told <- modelsOpen

\* The session implements the life cycle.
LifecycleSpec == Lifecycle!Spec
=============================================================================
