--------------------------- MODULE NodeConnection ---------------------------
(***************************************************************************)
(* How the wallet finds, starts, replaces and stops its node.  The GUI     *)
(* thread runs CryptoNoteAdapter::init and deinit, which wait in nested    *)
(* event loops; each node adapter has a worker thread; an RPC node has a   *)
(* thread of its own that reports to the GUI thread through queued         *)
(* signals; a one second timer gives up the search for a local daemon.     *)
(* WalletApplication drives them: start, change of connection, quit.       *)
(*                                                                         *)
(* The wallet itself (open, save, close) is WalletSession.  Q_ASSERT is    *)
(* enabled, as in a debug build: a failing one stops the program, and so   *)
(* does a call through a null pointer.  The site is kept in `fault'.       *)
(***************************************************************************)
EXTENDS Naturals, Sequences, FiniteSets, SequencesExt

CONSTANTS
  MaxAdapters,   \* bound: node adapters one run of the program may create
  MaxReports,    \* bound: status reports the RPC nodes make in all
  Methods,       \* connection methods the settings may hold
  Failures,      \* statuses an embedded node's start may fail with
  Explorer,      \* Settings::isBlockchainExplorerEnabled
  CanQuit,       \* whether the user quits (once)
  Prompt         \* timing: a node's first answer comes early in the search
                 \* timer's second, so that the explorer timer's 100 ms end
                 \* before it and before the user changes the connection,
                 \* which happens in a loop that was not told to end

StartFailures == {"INIT_CORE_FAILED", "INIT_NET_NODE_FAILED",
                  "INIT_P2P_BIND_FAILED", "INIT_NODE_FAILED"}

ASSUME ConnectionAssumption ==
  /\ MaxAdapters \in Nat \ {0}
  /\ MaxReports \in Nat
  /\ Methods \subseteq {"AUTO", "EMBEDDED", "LOCAL", "REMOTE"}
  /\ Failures \subseteq StartFailures
  /\ Explorer \in BOOLEAN /\ CanQuit \in BOOLEAN /\ Prompt \in BOOLEAN

VARIABLES
  ad,        \* the node adapters, each with its worker, by order of creation
  used,      \* how many were created
  current,   \* m_nodeAdapter, 0 when null
  timer,     \* m_autoConnectionTimerId # -1
  shots,     \* explorer start timers (100 ms) that have not fired
  inbox,     \* calls queued for the GUI thread
  stack,     \* the frames of the GUI thread that wait, the innermost first
  method,    \* the connection method of the settings
  window,    \* the main window: "none" before initUi, then disabled or enabled,
             \* "hidden" once the program ends
  quitNow,   \* quit() was called and the main event loop has not returned
  quits,     \* quit() was called
  reports,   \* status reports made so far
  answers,   \* initCompletedSignal emissions since init() was last called
  fault      \* the assertion or null pointer that stopped the program

vars == <<ad, used, current, timer, shots, inbox, stack, method, window,
          quitNow, quits, reports, answers, fault>>

-----------------------------------------------------------------------------
(* Data.                                                                   *)

Adapters == 1 .. MaxAdapters
Statuses == {"INIT_SUCCESS"} \cup StartFailures
Places == {"idle", "core", "server", "node", "run", "guard"}

\* Where the program may stop, named for the function or what it wants.
Sites == {"none", "reinitWallet", "quitWallet", "initUi", "bindDeinit",
          "deinitTwice", "initTwice", "initCompleted", "uiReads", "report",
          "notFound", "startExplorer", "deinitImpl"}

\* A CommonNodeAdapter and its worker: kind, the worker's thread, the calls
\* queued for the worker, where it is inside initImpl, m_node, m_nodeServer,
\* the stop signal, whether the node's init has answered, the explorer the
\* worker made and the one CommonNodeAdapter keeps, m_worker, the worker's
\* connections to it, and whether CryptoNoteAdapter observes it.
Adapter ==
  [kind : {"none", "rpc", "inproc"},
   thread : {"off", "running", "leaving", "over"},
   calls : Seq({"initImpl", "deinitImpl"}), pc : Places,
   node : BOOLEAN, server : BOOLEAN, stop : BOOLEAN, inited : BOOLEAN,
   explorer : BOOLEAN, cached : BOOLEAN, worker : BOOLEAN,
   connected : BOOLEAN, watched : BOOLEAN]

NoAdapter ==
  [kind |-> "none", thread |-> "off", calls |-> <<>>, pc |-> "idle",
   node |-> FALSE, server |-> FALSE, stop |-> FALSE, inited |-> FALSE,
   explorer |-> FALSE, cached |-> FALSE, worker |-> FALSE,
   connected |-> FALSE, watched |-> FALSE]

\* new ...NodeAdapter, addObserver(this), init(): the worker is moved to its
\* started thread and initImpl is queued for it.
Fresh(kind) ==
  [NoAdapter EXCEPT !.kind = kind, !.thread = "running",
                    !.calls = <<"initImpl">>, !.worker = TRUE,
                    !.connected = TRUE, !.watched = TRUE]

\* Queued calls: the node's first answer, a report that the daemon is there
\* (peer count, local or known height), a lost connection, and the signal
\* that ends the wait loops open (at a stack depth up to n) when it was sent.
Event == [t : {"init", "report", "lost", "loop"}, a : Adapters,
          s : Statuses, n : Nat]
Signal(t, a, s, n) == [t |-> t, a |-> a, s |-> s, n |-> n]

\* Frames: main loop, init's loop, the RPC worker's wait loop, the loop that
\* waits for a worker's thread, the port dialog, and the application function
\* that called init or deinit.  exit says whether and how a loop was told to
\* end; why, what goes on when the frame returns.
Frame == [k : {"main", "initLoop", "rpcWait", "join", "dialog", "app"},
          a : {0} \cup Adapters,
          why : {"", "boot", "reinit", "quit", "notFound", "deinit"},
          exit : {"no", "done", "quit", "never", "bind"} \cup Statuses]
FrameOf(k, a, why, exit) == [k |-> k, a |-> a, why |-> why, exit |-> exit]

\* A QEventLoop entered after quit() returns at once, without an event.
Opened == IF quitNow THEN "never" ELSE "no"

-----------------------------------------------------------------------------
Init ==
  /\ ad = [a \in Adapters |-> NoAdapter]
  /\ used = 0 /\ current = 0 /\ timer = FALSE /\ shots = 0
  /\ inbox = <<>>
  /\ stack = <<FrameOf("app", 0, "boot", "no")>>
  /\ method \in Methods
  /\ window = "none" /\ quitNow = FALSE /\ quits = FALSE
  /\ reports = 0 /\ answers = 0 /\ fault = "none"

Alive == fault = "none" /\ stack # <<>>
Top == Head(stack)

\* The GUI thread is in a loop and can handle an event.
Looping == Alive /\ Top.k # "app" /\ Top.exit # "never"

\* The program stops at a failed assertion or a null pointer.
Fail(site) ==
  /\ fault' = site
  /\ UNCHANGED <<ad, used, current, timer, shots, inbox, stack, method,
                 window, quitNow, quits, reports, answers>>

\* m_node is there for the getters that assert it: getWalletAdapter,
\* getPeerCount and the others.  (A wallet adapter that CommonNodeAdapter kept
\* would be returned without its node; what its caller does next, asking for
\* the explorer and queueing deinitImpl, asserts the node all the same.)
HasNode(a) == a # 0 /\ ad[a].worker /\ ad[a].node

\* getBlockChainExplorerAdapter: the kept pointer, or else the worker's,
\* which asserts m_node.
CanAskExplorer(a) == a # 0 /\ ad[a].worker /\ (ad[a].cached \/ ad[a].node)
KeepExplorer(adv, a) == [adv EXCEPT ![a].cached = @ \/ adv[a].explorer]

-----------------------------------------------------------------------------
(* The GUI thread: starting and stopping a node.                           *)

\* CryptoNoteAdapter::init and initNode, called from the frames `below'.  The
\* Q_ASSERT that no adapter is in place is StartAllowed.
StartAllowed(place) == place = 0
StartNode(below, adv, m) ==
  /\ used < MaxAdapters
  /\ ad' = [adv EXCEPT ![used + 1] =
              Fresh(IF m = "EMBEDDED" THEN "inproc" ELSE "rpc")]
  /\ used' = used + 1
  /\ current' = used + 1
  /\ timer' = (timer \/ m = "AUTO")
  /\ method' = m
  /\ answers' = 0
  /\ stack' = <<FrameOf("initLoop", 0, "", Opened)>> \o below

\* InProcessNodeWorker::deinitImpl: the server is told to stop if there is one.
NeverAsked(n) == n.stop
AskedToStop(n) == n.stop \/ n.server

\* QThread::quit: the thread ends when its worker is back in the event loop.
Told(thread) == IF thread = "over" THEN thread ELSE "leaving"

\* CommonNodeAdapter::deinit up to its first wait.  The RPC worker queues
\* deinitImpl and waits in a loop; the embedded one sends the stop signal, and
\* the thread is told to quit.
StopNode(adv, a, why, opened, below) ==
  IF adv[a].kind = "rpc"
  THEN /\ ad' = [adv EXCEPT ![a] = [@ EXCEPT !.connected = FALSE,
                                             !.calls = Append(adv[a].calls, "deinitImpl")]]
       /\ stack' = <<FrameOf("rpcWait", a, why, opened)>> \o below
  ELSE /\ ad' = [adv EXCEPT ![a] = [@ EXCEPT !.connected = FALSE,
                                             !.stop = AskedToStop(adv[a]),
                                             !.thread = Told(adv[a].thread)]]
       /\ stack' = <<FrameOf("join", a, why, "no")>> \o below

\* WalletApplication::init calls initCryptoNoteAdapter.
Boot ==
  /\ Alive /\ Top.k = "app" /\ Top.why = "boot" /\ used = 0
  /\ StartNode(stack, ad, method)
  /\ UNCHANGED <<shots, inbox, window, quitNow, quits, reports, fault>>

\* MainWindow::showPreferences: the method, or its port or address, changed.
\* The window is disabled and reinitCryptoNoteAdapter closes the wallet and
\* stops the node.  (After quit() the preferences dialog returns at once.)
Reinit(m) ==
  /\ Looping /\ window = "enabled" /\ Top.k # "dialog" /\ ~quitNow
  /\ used + 2 <= MaxAdapters
  /\ Prompt => shots = 0 /\ Top.exit = "no"
  /\ m # method \/ m \in {"LOCAL", "REMOTE"}
  /\ IF ~HasNode(current) THEN Fail("reinitWallet")
     ELSE /\ window' = "disabled"
          /\ method' = m
          /\ StopNode(KeepExplorer(ad, current), current, "deinit", Opened,
                      <<FrameOf("app", 0, "reinit", "no")>> \o stack)
          /\ UNCHANGED <<used, current, timer, shots, inbox, quitNow, quits,
                         reports, answers, fault>>

\* quit(): every loop of the GUI thread is told to end with code 0.  An init
\* loop that already has its answer returns that 0, which is INIT_SUCCESS.
Quit ==
  /\ CanQuit /\ ~quits /\ Looping
  /\ quits' = TRUE /\ quitNow' = TRUE
  /\ stack' = [i \in DOMAIN stack |->
       IF stack[i].k \in {"app", "join"} THEN stack[i]
       ELSE IF stack[i].k = "initLoop" /\ stack[i].exit \in Statuses
            THEN [stack[i] EXCEPT !.exit = "INIT_SUCCESS"]
            ELSE [stack[i] EXCEPT !.exit = IF @ = "no" THEN "quit" ELSE @]]
  /\ UNCHANGED <<ad, used, current, timer, shots, inbox, method, window,
                 reports, answers, fault>>

\* The main loop returns and aboutToQuit calls prepareToQuit, which stops the
\* node as reinit does.
MainReturns ==
  /\ Alive /\ Top.k = "main" /\ Top.exit = "quit"
  /\ IF ~HasNode(current) THEN Fail("quitWallet")
     ELSE /\ quitNow' = FALSE /\ window' = "hidden"
          /\ StopNode(KeepExplorer(ad, current), current, "deinit", "no",
                      <<FrameOf("app", 0, "quit", "no")>>)
          /\ UNCHANGED <<used, current, timer, shots, inbox, method, quits,
                         reports, answers, fault>>

\* initCryptoNoteAdapter gives up: at start the program ends, after a change
\* of connection the main window goes on with whatever adapter is in place.
GiveUp(below) == IF Head(below).why = "boot" THEN <<>> ELSE Tail(below)

\* init() returns to initCryptoNoteAdapter.
Returned(s) == Alive /\ Top.k = "initLoop" /\ Top.exit = s
Caller == stack[2]

\* The first success builds the main window, whose models read the node, and
\* enters the main loop, which forgets an earlier quit().
FirstSuccess ==
  /\ Returned("INIT_SUCCESS") /\ Caller.why = "boot"
  /\ IF ~HasNode(current) THEN Fail("initUi")
     ELSE /\ stack' = <<FrameOf("main", 0, "", "no")>>
          /\ window' = "enabled" /\ quitNow' = FALSE
          /\ UNCHANGED <<ad, used, current, timer, shots, inbox, method, quits,
                         reports, answers, fault>>

\* The port is taken: the node is taken down before the user is asked.
BindFailed ==
  /\ Returned("INIT_P2P_BIND_FAILED")
  /\ IF ~CanAskExplorer(current) THEN Fail("bindDeinit")
     ELSE /\ StopNode(KeepExplorer(ad, current), current, "deinit", Opened,
               <<[Caller EXCEPT !.exit = "bind"]>> \o Tail(Tail(stack)))
          /\ UNCHANGED <<used, current, timer, shots, inbox, method, window,
                         quitNow, quits, reports, answers, fault>>

\* A change of connection is done, or init() failed or was cut short by quit().
InitOver ==
  /\ \/ /\ Returned("INIT_SUCCESS") /\ Caller.why # "boot"
        /\ stack' = Tail(Tail(stack))
     \/ /\ \E s \in ({"quit", "never"} \cup StartFailures) \ {"INIT_P2P_BIND_FAILED"} :
             Returned(s)
        /\ stack' = GiveUp(Tail(stack))
  /\ UNCHANGED <<ad, used, current, timer, shots, inbox, method, window,
                 quitNow, quits, reports, answers, fault>>

\* ProxyRpcNodeWorker::deinit stays in its loop until it is told to leave.
NotAwaited(f) == f.k = "rpcWait"
WaitOver(f) == f.exit # "no"

\* The worker's deinit returns and CommonNodeAdapter::deinit tells the thread
\* to quit; an inner deinit may have dropped the worker.
RpcWaitReturns ==
  /\ Alive /\ Top.k = "rpcWait" /\ WaitOver(Top)
  /\ IF ~ad[Top.a].worker THEN Fail("deinitTwice")
     ELSE /\ ad' = [ad EXCEPT ![Top.a].thread = Told(@)]
          /\ stack' = <<FrameOf("join", Top.a, Top.why, "no")>> \o Tail(stack)
          /\ UNCHANGED <<used, current, timer, shots, inbox, method, window,
                         quitNow, quits, reports, answers, fault>>

\* CommonNodeAdapter::deinit waits for the worker's thread, handling events,
\* and drops the worker; its caller drops the adapter.
Unwaited(a) == a \in Adapters
ThreadGone(a) == ad[a].thread = "over"
Dropped(a) == [ad EXCEPT ![a] = [@ EXCEPT !.worker = FALSE,
                                          !.cached = FALSE]]

\* What the caller does next: a failed search starts the embedded node at
\* once; deinit returns to the application, which ends, asks for another port
\* or calls init again.
GoOn(why, below, left) ==
  \/ /\ why = "notFound" /\ used < MaxAdapters
     /\ ad' = [left EXCEPT ![used + 1] = Fresh("inproc")]
     /\ used' = used + 1 /\ current' = used + 1
     /\ stack' = below
     /\ UNCHANGED <<timer, method, answers>>
  \/ /\ why = "deinit" /\ Head(below).why = "quit"
     /\ ad' = left /\ current' = 0 /\ stack' = <<>>
     /\ UNCHANGED <<used, timer, method, answers>>
  \/ /\ why = "deinit" /\ Head(below).exit = "bind"
     /\ ad' = left /\ current' = 0
     /\ stack' = <<FrameOf("dialog", 0, "", Opened)>>
                 \o (<<[Head(below) EXCEPT !.exit = "no"]>> \o Tail(below))
     /\ UNCHANGED <<used, timer, method, answers>>
  \/ /\ why = "deinit" /\ Head(below).why # "quit" /\ Head(below).exit # "bind"
     /\ StartNode(below, left, method)

JoinReturns ==
  /\ Alive /\ Top.k = "join" /\ ThreadGone(Top.a)
  /\ IF ~ad[Top.a].worker THEN Fail("deinitTwice")
     ELSE /\ GoOn(Top.why, Tail(stack), Dropped(Top.a))
          /\ UNCHANGED <<shots, inbox, window, quitNow, quits, reports, fault>>

\* P2pBindPortErrorDialog: with a new port init is called again.
PortAccepted ==
  /\ Looping /\ Top.k = "dialog" /\ Top.exit = "no"
  /\ used + 2 <= MaxAdapters
  /\ IF ~StartAllowed(current) THEN Fail("initTwice")
     ELSE /\ StartNode(Tail(stack), ad, method)
          /\ UNCHANGED <<shots, inbox, window, quitNow, quits, reports, fault>>

PortRejected ==
  /\ Alive /\ Top.k = "dialog"
  /\ stack' = GiveUp(Tail(stack))
  /\ UNCHANGED <<ad, used, current, timer, shots, inbox, method, window,
                 quitNow, quits, reports, answers, fault>>

-----------------------------------------------------------------------------
(* The GUI thread: signals and timers, handled in whatever loop is on top. *)

\* Q_EMIT initCompletedSignal: init's loop is told to end with the status,
\* the window is enabled, and on success the window's models read the node.
\* adv is ad as the handler leaves it.
Answer(adv, s) ==
  /\ stack' = [i \in DOMAIN stack |->
       IF stack[i].k = "initLoop" THEN [stack[i] EXCEPT !.exit = s]
                                  ELSE stack[i]]
  /\ ad' = adv
  /\ answers' = answers + 1
  /\ window' = IF window = "disabled" THEN "enabled" ELSE window
  /\ fault' = IF window # "none" /\ s = "INIT_SUCCESS" /\ ~HasNode(current)
              THEN "uiReads" ELSE fault

\* The adapter's own answer ends init() unless the search timer still runs.
AnswersAtOnce(kind, searching) == kind = "inproc" \/ searching \in BOOLEAN
AnswersNever(kind, searching) == kind = "inproc" /\ searching \in BOOLEAN
EndsInit(kind, searching) == kind = "inproc" \/ ~searching

\* CryptoNoteAdapter::initCompleted.  It asks the adapter in place, whichever
\* adapter sent the signal.
HandleInit(e) ==
  IF ~ad[e.a].watched
  THEN UNCHANGED <<ad, timer, shots, stack, window, answers, fault>>
  ELSE IF current = 0 \/ (e.s = "INIT_SUCCESS" /\ ~CanAskExplorer(current))
  THEN /\ fault' = "initCompleted"
       /\ UNCHANGED <<ad, timer, shots, stack, window, answers>>
  ELSE LET adv == IF e.s = "INIT_SUCCESS" THEN KeepExplorer(ad, current) ELSE ad
       IN  /\ shots' = shots + (IF e.s = "INIT_SUCCESS" /\ adv[current].cached
                                 THEN 1 ELSE 0)
           /\ timer' = timer
           /\ IF EndsInit(ad[current].kind, timer)
              THEN Answer([adv EXCEPT ![current].watched = FALSE], e.s)
              ELSE /\ ad' = adv
                   /\ UNCHANGED <<stack, window, answers, fault>>

\* peerCountUpdated, localBlockchainUpdated, lastKnownBlockHeightUpdated: the
\* local daemon answers, the search is over.
HandleReport(e) ==
  IF ad[e.a].watched /\ current # 0 /\ ad[current].kind = "rpc" /\ timer
  THEN /\ timer' = FALSE /\ shots' = shots
       /\ Answer([ad EXCEPT ![current].watched = FALSE], "INIT_SUCCESS")
  ELSE /\ fault' = IF ad[e.a].watched /\ current = 0 THEN "report" ELSE fault
       /\ UNCHANGED <<ad, timer, shots, stack, window, answers>>

\* onLocalDaemonNotFound: give up the RPC node.
NotFound ==
  IF current = 0
  THEN /\ fault' = "notFound"
       /\ UNCHANGED <<ad, timer, stack>>
  ELSE /\ timer' = FALSE
       /\ StopNode(ad, current, "notFound", Opened, stack)
       /\ fault' = fault

\* connectionStatusUpdated(false).
HandleLost(e) ==
  /\ UNCHANGED <<shots, window, answers>>
  /\ IF ad[e.a].watched /\ timer /\ (current = 0 \/ ad[current].kind = "rpc")
     THEN NotFound
     ELSE UNCHANGED <<ad, timer, stack, fault>>

\* deinitCompletedSignal ends the wait loops that were open, at a depth of the
\* stack up to n, when it was sent.
OpenBefore(i, n) == Len(stack) - i + 1 < n
OpenWhenSent(i, n) == Len(stack) - i < n

HandleLoop(e) ==
  /\ stack' = [i \in DOMAIN stack |->
       IF stack[i].k = "rpcWait" /\ stack[i].a = e.a /\ OpenWhenSent(i, e.n)
       THEN [stack[i] EXCEPT !.exit = "done"] ELSE stack[i]]
  /\ UNCHANGED <<ad, timer, shots, window, answers, fault>>

\* The GUI thread takes the next queued call.
Dispatch ==
  /\ Looping /\ inbox # <<>>
  /\ used < MaxAdapters \/ Head(inbox).t # "lost"
  /\ inbox' = Tail(inbox)
  /\ LET e == Head(inbox)
     IN  \/ e.t = "init" /\ HandleInit(e)
         \/ e.t = "report" /\ HandleReport(e)
         \/ e.t = "lost" /\ HandleLost(e)
         \/ e.t = "loop" /\ HandleLoop(e)
  /\ UNCHANGED <<used, current, method, quitNow, quits, reports>>

\* timerEvent, one second after the search began.  Under Prompt the node's
\* first answer was handled by then.
TimerEvent ==
  /\ Looping /\ timer /\ used < MaxAdapters
  /\ (Prompt /\ current # 0) =>
       shots = 0 /\ ad[current].inited /\ \A i \in DOMAIN inbox : inbox[i].t # "init"
  /\ NotFound
  /\ UNCHANGED <<used, current, shots, inbox, method, window, quitNow, quits,
                 reports, answers>>

\* The 100 ms timer starts the explorer of the adapter in place by now.
StartExplorer ==
  /\ Looping /\ shots > 0
  /\ shots' = shots - 1
  /\ LET adv == KeepExplorer(ad, current)
     IN  IF CanAskExplorer(current) /\ adv[current].cached
         THEN ad' = adv /\ fault' = fault
         ELSE fault' = "startExplorer" /\ ad' = ad
  /\ UNCHANGED <<used, current, timer, inbox, stack, method, window, quitNow,
                 quits, reports, answers>>

-----------------------------------------------------------------------------
(* The workers.                                                            *)

\* Signals reach the GUI thread's queue while the worker is connected.
Send(a, t, s) ==
  inbox' = IF ad[a].connected THEN Append(inbox, Signal(t, a, s, 0)) ELSE inbox

GuiUnchanged == UNCHANGED <<used, current, timer, shots, stack, method, window,
                            quitNow, quits, answers>>

WorkerAwake(a) ==
  Alive /\ ad[a].thread \in {"running", "leaving"} /\ ad[a].pc = "idle"

\* ProxyRpcNodeWorker::initImpl creates the node; the embedded worker goes on
\* to initCore.
InitImpl(a) ==
  /\ WorkerAwake(a) /\ ad[a].calls # <<>> /\ Head(ad[a].calls) = "initImpl"
  /\ ad' = [ad EXCEPT ![a] = [@ EXCEPT !.calls = Tail(ad[a].calls),
                                       !.node = (ad[a].kind = "rpc"),
                                       !.pc = IF ad[a].kind = "rpc" THEN "idle" ELSE "core"]]
  /\ GuiUnchanged /\ UNCHANGED <<inbox, reports, fault>>

\* ProxyRpcNodeWorker::deinitImpl.
DeinitImpl(a) ==
  /\ WorkerAwake(a) /\ ad[a].calls # <<>> /\ Head(ad[a].calls) = "deinitImpl"
  /\ IF ~ad[a].node THEN Fail("deinitImpl")
     ELSE /\ ad' = [ad EXCEPT ![a] = [@ EXCEPT !.calls = Tail(ad[a].calls),
                                               !.node = FALSE]]
          /\ inbox' = Append(inbox, Signal("loop", a, "INIT_SUCCESS", Len(stack)))
          /\ GuiUnchanged /\ UNCHANGED <<reports, fault>>

\* The RPC node's init calls back, on the node's thread, always with success:
\* the explorer is made and the first answer sent.
RpcInited(a) ==
  /\ Alive /\ ad[a].kind = "rpc" /\ ad[a].node /\ ~ad[a].inited
  /\ ad' = [ad EXCEPT ![a] = [@ EXCEPT !.inited = TRUE,
                                       !.explorer = Explorer]]
  /\ Send(a, "init", "INIT_SUCCESS")
  /\ GuiUnchanged /\ UNCHANGED <<reports, fault>>

\* The RPC node reports what the daemon says, or that it lost the daemon.
RpcReport(a) ==
  /\ Alive /\ ad[a].kind = "rpc" /\ ad[a].node /\ ad[a].inited
  /\ reports < MaxReports
  /\ reports' = reports + 1
  /\ \E t \in {"report", "lost"} : Send(a, t, "INIT_SUCCESS")
  /\ GuiUnchanged /\ UNCHANGED <<ad, fault>>

\* initCore, initNodeServer and initInProcessNode fail with these.
WithDbFailure(pc) == IF pc = "core" THEN {"INIT_DB_FAILED"} ELSE {}
FailuresAt(pc) ==
  Failures \cap CASE pc = "core" -> {"INIT_CORE_FAILED"}
                   [] pc = "server" -> {"INIT_NET_NODE_FAILED", "INIT_P2P_BIND_FAILED"}
                   [] pc = "node" -> {"INIT_NODE_FAILED"}

\* A stage of InProcessNodeWorker::initImpl fails: the status is sent and the
\* function returns through its guard.
StageFails(a) ==
  /\ Alive /\ ad[a].pc \in {"core", "server", "node"}
  /\ \E s \in FailuresAt(ad[a].pc) : Send(a, "init", s)
  /\ ad' = [ad EXCEPT ![a].pc = "guard"]
  /\ GuiUnchanged /\ UNCHANGED <<reports, fault>>

\* initCore makes the server and then the node; the server starts.
StageDone(a) ==
  /\ Alive /\ ad[a].pc \in {"core", "server"}
  /\ ad' = [ad EXCEPT ![a] = [@ EXCEPT !.pc = IF ad[a].pc = "core" THEN "server" ELSE "node",
                                       !.node = TRUE,
                                       !.server = TRUE]]
  /\ GuiUnchanged /\ UNCHANGED <<inbox, reports, fault>>

\* initImpl announces success after its last stage.
AfterFirstStage(pc) == pc = "core"
AfterLastStage(pc) == pc = "node"

\* The node is up: success is sent and the server runs.
NodeUp(a) ==
  /\ Alive /\ AfterLastStage(ad[a].pc)
  /\ ad' = [ad EXCEPT ![a] = [@ EXCEPT !.pc = "run",
                                       !.inited = TRUE,
                                       !.explorer = Explorer]]
  /\ Send(a, "init", "INIT_SUCCESS")
  /\ GuiUnchanged /\ UNCHANGED <<reports, fault>>

StopsByItself(n) == n.server
StopSeen(n) == n.stop

\* m_nodeServer->run() returns on the stop signal and everything shuts down.
ServerStops(a) ==
  /\ Alive /\ ad[a].pc = "run" /\ StopSeen(ad[a])
  /\ ad' = [ad EXCEPT ![a].pc = "guard"]
  /\ GuiUnchanged /\ UNCHANGED <<inbox, reports, fault>>

\* The guard of initImpl resets the node, the server and the core.
GuardResets(a) ==
  /\ Alive /\ ad[a].pc = "guard"
  /\ ad' = [ad EXCEPT ![a] = [@ EXCEPT !.pc = "idle",
                                       !.node = FALSE,
                                       !.server = FALSE]]
  /\ GuiUnchanged /\ UNCHANGED <<inbox, reports, fault>>

\* A thread told to quit ends when its worker is back in the event loop, even
\* if calls are still queued for it.
ThreadEnds(a) ==
  /\ WorkerAwake(a) /\ ad[a].thread = "leaving"
  /\ ad' = [ad EXCEPT ![a].thread = "over"]
  /\ GuiUnchanged /\ UNCHANGED <<inbox, reports, fault>>

-----------------------------------------------------------------------------
Returns == \/ MainReturns \/ FirstSuccess \/ BindFailed \/ InitOver
           \/ RpcWaitReturns \/ JoinReturns

Worker(a) ==
  \/ InitImpl(a) \/ DeinitImpl(a) \/ RpcInited(a) \/ StageFails(a)
  \/ StageDone(a) \/ NodeUp(a) \/ ServerStops(a) \/ GuardResets(a)
  \/ ThreadEnds(a)

Gui == Boot \/ Returns \/ Dispatch \/ TimerEvent \/ StartExplorer

User == Quit \/ PortAccepted \/ PortRejected \/ \E m \in Methods : Reinit(m)

Next ==
  \/ Gui \/ User
  \/ \E a \in Adapters : Worker(a) \/ RpcReport(a)

Spec == Init /\ [][Next]_vars

\* The GUI thread's loops hand out events, due timers and returns; worker
\* threads run.  Nothing is assumed of the user or of the daemon.
Fairness ==
  /\ WF_vars(Boot) /\ WF_vars(Returns) /\ WF_vars(Dispatch)
  /\ WF_vars(TimerEvent) /\ WF_vars(StartExplorer)
  /\ \A a \in Adapters : WF_vars(Worker(a))

FairSpec == Spec /\ Fairness

-----------------------------------------------------------------------------
(* Properties.                                                             *)

\* Every variable has its type.
TypeOK ==
  /\ ad \in [Adapters -> Adapter]
  /\ used \in 0 .. MaxAdapters /\ current \in 0 .. used
  /\ timer \in BOOLEAN /\ shots \in Nat
  /\ inbox \in Seq(Event) /\ stack \in Seq(Frame)
  /\ method \in Methods
  /\ window \in {"none", "disabled", "enabled", "hidden"}
  /\ quitNow \in BOOLEAN /\ quits \in BOOLEAN
  /\ reports \in 0 .. MaxReports /\ answers \in Nat
  /\ fault \in Sites

Running(a) == ad[a].thread \in {"running", "leaving"}

\* Whatever the daemon, the timer and the user do, two nodes never run at
\* once: they would open the same database and the same ports.
OneNode ==
  \A a, b \in Adapters : Running(a) /\ Running(b) => a = b

\* What makes it so: the adapter in place, and no other, has a worker, and a
\* thread runs only for a worker.
OneWorker ==
  \A a \in Adapters :
    /\ ad[a].worker <=> a = current
    /\ Running(a) => ad[a].worker

\* While the user can act in the main loop, the adapter in place has its node:
\* what every getter of the workers asserts.
NodeInUse ==
  Alive /\ Top.k = "main" /\ window = "enabled" => HasNode(current)

\* One call of init() gets one answer; a second one would make the models
\* observe and MainWindow open the wallet twice.
OneAnswer == answers <= 1

\* The search timer runs only while the RPC node it may give up is in place
\* and observed.
SearchHasDaemonNode ==
  timer /\ fault = "none" /\ stack # <<>> =>
    /\ current # 0
    /\ ad[current].kind = "rpc" /\ ad[current].worker
    /\ ad[current].watched

\* No assertion fails and no null pointer is used.
NeverAborts == fault = "none"

\* A worker whose thread has ended has shut its node down, as the assertion
\* of ~ProxyRpcNodeWorker requires.
NodeEndsWithThread ==
  \A a \in Adapters : ad[a].thread = "over" => ~ad[a].node

\* When prepareToQuit has run, no worker thread is left.
EndedCleanly ==
  stack = <<>> /\ window = "hidden" => \A a \in Adapters : ~Running(a)

\* When init() reported success, the window's models find a node to read.
UiAssertHolds == fault \notin {"initUi", "uiReads"}

Waits(k) == \E i \in DOMAIN stack : stack[i].k = k

\* init() always returns, whether or not a daemon answers.
InitAnswers == [](Waits("initLoop") => <>(~Waits("initLoop") \/ ~Alive))

\* deinit() always returns: every worker thread it waits for ends.
DeinitReturns ==
  [](Waits("join") \/ Waits("rpcWait") =>
       <>(~(Waits("join") \/ Waits("rpcWait")) \/ ~Alive))

\* With methods that work: the window always has a node to read, and a node is
\* shut down before its thread ends.
NodesUsable == NodeInUse /\ NodeEndsWithThread

\* The search for a local daemon never fails an assertion, is answered once and
\* is not given up but for its own node.
SearchSafe == NeverAborts /\ OneAnswer /\ SearchHasDaemonNode

\* Neither init() nor deinit() waits for ever.
AlwaysReturns == InitAnswers /\ DeinitReturns
=============================================================================
