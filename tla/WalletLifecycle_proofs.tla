----------------------- MODULE WalletLifecycle_proofs -----------------------
(***************************************************************************)
(* Proofs about what WalletSession promises the observers of the adapter,  *)
(* for every value of its constants: that it implements WalletLifecycle,   *)
(* that a closed wallet leaves no event behind, that an idle GUI shows the *)
(* wallet there is, accepts a password and has Settings name the wallet it *)
(* had last, and that the program ends with the wallet closed.             *)
(*                                                                         *)
(* The invariants are built in layers: which frames open and close wallets *)
(* (SessionInv), what may be left in the queue of posted events            *)
(* (QueueInv), what the last shutdown finds (LastInv), who will answer     *)
(* the password form (FormInv), what the observers were told (ToldInv) and *)
(* whom the name in Settings still waits for (NameInv).                    *)
(***************************************************************************)
EXTENDS WalletSession_proofs

-----------------------------------------------------------------------------
(* Shapes of steps.                                                        *)

SameFrame(i) ==
    /\ stack'[i].at = stack[i].at
    /\ stack'[i].todo = stack[i].todo
    /\ stack'[i].session = stack[i].session

\* The frames stay where they are, at most with a new handler above them.
Pushed(ops) ==
    /\ depth' \in {depth, depth + 1}
    /\ \A i \in 1..depth : SameFrame(i)
    /\ depth' = depth + 1 =>
         /\ stack'[depth + 1].at = "call"
         /\ stack'[depth + 1].session = 0
         /\ stack'[depth + 1].exited = FALSE
         /\ stack'[depth + 1].todo \in Seq(ops)
         /\ stack'[depth + 1].todo # <<>>

\* The frame on top, inside its operation, goes on from one point to another.
TopMoved(point) ==
    /\ Busy
    /\ OnlyTop
    /\ depth' = depth
    /\ stack'[depth].at = point
    /\ stack'[depth].todo = Top.todo

\* The frame on top is done with an operation and goes on with the others.
TopGoesOn(ops) ==
    /\ Busy
    /\ OnlyTop
    /\ depth' = depth
    /\ stack'[depth] = [Idle EXCEPT !.todo = ops]

\* What follows the first of two operations is the second.
LEMMA TailOfPair ==
    ASSUME NEW S, NEW a, NEW b \in S
    PROVE  /\ <<a, b>> # <<>> /\ Head(<<a, b>>) = a
           /\ Tail(<<a, b>>) \in Seq(S)
<1> DEFINE s == <<a, b>>
           T == {a, b}
<1>1. s \in Seq(T) /\ s # <<>> /\ Len(s) = 2 /\ s[1] = a /\ s[2] = b /\ Head(s) = a
  OBVIOUS
<1>2. b \in S
  OBVIOUS
<1> HIDE DEF s, T
<1>3. /\ Tail(s) \in Seq(T)
      /\ Len(Tail(s)) = Len(s) - 1
      /\ \A i \in 1..Len(Tail(s)) : Tail(s)[i] = s[i + 1]
  BY <1>1, HeadTailProperties
<1>4. Len(Tail(s)) = 1 /\ Tail(s)[1] = b
  BY <1>1, <1>3
<1>5. <<b>> \in Seq(T) /\ Len(<<b>>) = 1 /\ <<b>>[1] = b /\ <<b>> \in Seq(S)
  BY <1>2 DEF T
<1>6. Tail(s) = <<b>>
  <2>1. \A i \in 1..Len(Tail(s)) : Tail(s)[i] = <<b>>[i]
    BY <1>4, <1>5
  <2> QED
    BY <1>3, <1>4, <1>5, <2>1, SeqEqual
<1> QED
  BY <1>1, <1>5, <1>6 DEF s

LEMMA FramesBelow ==
    ASSUME TypeInv
    PROVE  /\ depth \in Nat
           /\ stack \in [Frames -> Frame]
           /\ \A i \in 1..depth : i \in Frames /\ stack[i] \in Frame
           /\ Busy => depth \in 1..depth /\ Top = stack[depth]
           /\ session \in Nat
BY BoundsAssumption DEF TypeInv, SessionTypeOK, Frames, Busy, Top

LEMMA PushedByHandler ==
    ASSUME TypeInv, NEW S, NEW ops \in Seq(S), Push(ops)
    PROVE  Pushed(S)
<1>1. CASE ops = <<>>
  BY <1>1, FramesBelow DEF Push, gui, Pushed, SameFrame
<1>2. CASE ops # <<>>
  <2>1. /\ depth + 1 \in Frames
        /\ depth' = depth + 1
        /\ stack' = [stack EXCEPT ![depth + 1] = [Idle EXCEPT !.todo = ops]]
    BY <1>2, BoundsAssumption DEF Push, TypeInv, SessionTypeOK, Frames
  <2>2. stack'[depth + 1] = [Idle EXCEPT !.todo = ops]
    BY <2>1, FramesBelow
  <2>3. /\ stack'[depth + 1].at = "call"
        /\ stack'[depth + 1].session = 0
        /\ stack'[depth + 1].exited = FALSE
        /\ stack'[depth + 1].todo = ops
    BY <2>2 DEF Idle
  <2>4. \A i \in 1..depth : stack'[i] = stack[i]
    BY <2>1, FramesBelow
  <2> QED
    BY <1>2, <2>1, <2>3, <2>4 DEF Pushed, SameFrame
<1> QED
  BY <1>1, <1>2

\* A step that keeps frames and depth.
LEMMA PushedNothing ==
    ASSUME TypeInv, depth' = depth, \A i \in 1..depth : SameFrame(i), NEW S
    PROVE  Pushed(S)
BY FramesBelow DEF Pushed

\* What the handlers of posted events ask for.
DispatchedOps == {"get", "getUserData", "setUserData", "save", "load", "askPassword"}

LEMMA DispatchShape ==
    ASSUME TypeInv, Dispatch
    PROVE  /\ \E kind : Receive(kind)
           /\ Pushed(DispatchedOps)
           /\ \A i \in 1..depth :
                stack'[i].exited =>
                    \/ stack[i].exited
                    \/ stack[i].at = "init"
                    \/ stack[i].at = "deinit" /\ Head(queue).kind = "deinitCompleted"
<1> DEFINE Kept == \A i \in 1..depth : stack'[i].exited = stack[i].exited
<1>1. ASSUME NEW ops \in Seq(DispatchedOps), Push(ops)
      PROVE  Pushed(DispatchedOps) /\ Kept
  <2>1. Pushed(DispatchedOps)
    BY <1>1, PushedByHandler
  <2>2. CASE ops = <<>>
    BY <1>1, <2>1, <2>2 DEF Push, gui
  <2>3. CASE ops # <<>>
    BY <1>1, <2>1, <2>3, FramesBelow DEF Push
  <2> QED
    BY <2>1, <2>2, <2>3
<1>2. UNCHANGED gui => Pushed(DispatchedOps) /\ Kept
  BY FramesBelow, PushedNothing DEF gui, SameFrame
<1>3. /\ <<>> \in Seq(DispatchedOps)
      /\ <<"get">> \in Seq(DispatchedOps)
      /\ <<"save">> \in Seq(DispatchedOps)
      /\ <<"get", "getUserData">> \in Seq(DispatchedOps)
      /\ <<"get", "getUserData", "setUserData">> \in Seq(DispatchedOps)
      /\ <<"load", "askPassword">> \in Seq(DispatchedOps)
  BY DEF DispatchedOps
<1>4. CASE OnWalletOpened
  BY <1>1, <1>3, <1>4 DEF OnWalletOpened
<1>5. CASE OnWalletOpenError \/ OnWalletClosed \/ OnQuietEvent
  BY <1>2, <1>5 DEF OnWalletOpenError, OnWalletClosed, OnQuietEvent
<1>6. CASE OnPasswordChanged \/ OnSynchronizationCompleted \/ OnBalance
  BY <1>1, <1>3, <1>6 DEF OnPasswordChanged, OnSynchronizationCompleted, OnBalance,
                          RefreshBalances
<1>7. CASE OnAddressCreated \/ OnLoadRequest
  BY <1>1, <1>3, <1>7 DEF OnAddressCreated, OnLoadRequest
<1>8. ASSUME NEW kind, NEW point, OnQuit(kind, point),
             point = "init" \/ (point = "deinit" /\ kind = "deinitCompleted")
      PROVE  /\ Receive(kind)
             /\ Pushed(DispatchedOps)
             /\ \A i \in 1..depth :
                  stack'[i].exited =>
                      \/ stack[i].exited
                      \/ stack[i].at = "init"
                      \/ stack[i].at = "deinit" /\ Head(queue).kind = "deinitCompleted"
  <2>1. Receive(kind) /\ depth' = depth /\ Head(queue).kind = kind
    BY <1>8 DEF OnQuit, Receive
  <2>2. \A i \in 1..depth :
          /\ SameFrame(i)
          /\ stack'[i].exited => stack[i].exited \/ stack[i].at = point
    BY <1>8, FramesBelow DEF OnQuit, SameFrame, Frame
  <2> QED
    BY <1>8, <2>1, <2>2, PushedNothing
<1> QED
  BY <1>4, <1>5, <1>6, <1>7, <1>8 DEF Dispatch
LEMMA PushedMore ==
    ASSUME NEW S, NEW T, S \subseteq T, Pushed(S)
    PROVE  Pushed(T)
BY SeqMonotonic DEF Pushed

\* What moves the wallet thread while the GUI's frames stay where they are.
WalletMoves ==
    \/ UNCHANGED <<wallet, pump>>
    \/ wallet = "starting" /\ wallet' = "ready" /\ pump' = pump
    \/ wallet = "exiting" /\ wallet' = "stopped" /\ pump' = FALSE

\* Every step but those of the handler on top leaves the frames, the worker
\* and its flag alone, at most with a new handler on top.
LEMMA OtherSteps ==
    ASSUME TypeInv, [Next]_vars
    PROVE  Gui \/ (Pushed(PlainOps) /\ UNCHANGED <<worker, session, isOpen>> /\ WalletMoves)
<1> DEFINE Goal == Pushed(PlainOps) /\ UNCHANGED <<worker, session, isOpen>> /\ WalletMoves
<1>1. UNCHANGED gui => Pushed(PlainOps)
  BY PushedNothing DEF gui, SameFrame
<1>2. UNCHANGED <<life, flags>> => UNCHANGED <<worker, session, isOpen>> /\ WalletMoves
  BY DEF life, flags, WalletMoves
<1>3. ASSUME NEW a \in UserActions, UserInput(a) PROVE Goal
  <2>1. Handler(a) \in Seq(PlainOps)
    BY HandlerPlain, ChoiceAssumption
  <2> QED
    BY <1>2, <1>3, <2>1, PushedByHandler DEF UserInput
<1>4. CASE Quit
  <2>1. \A i \in 1..depth : SameFrame(i)
    BY <1>4, QuitShape, FramesBelow DEF SameFrame
  <2>2. depth' = depth
    BY <1>4 DEF Quit
  <2>3. Pushed(PlainOps)
    BY <2>1, <2>2, PushedNothing
  <2> QED
    BY <1>2, <1>4, <2>3 DEF Quit
<1>5. ASSUME NEW kind \in CoreKinds, ProcessEvent(kind) PROVE Goal
  BY <1>1, <1>5 DEF ProcessEvent, life, WalletMoves
<1>6. CASE Dispatch
  <2>1. DispatchedOps \subseteq PlainOps
    BY PlainNames DEF DispatchedOps
  <2>2. PICK kind : Receive(kind)
    BY <1>6, DispatchShape
  <2>3. Pushed(PlainOps)
    BY <1>6, <2>1, DispatchShape, PushedMore
  <2> QED
    BY <1>2, <2>2, <2>3 DEF Receive
<1>7. CASE PrepareToQuit
  <2>1. DeinitCryptoNoteAdapter \in Seq(PlainOps)
    BY PlainNames DEF DeinitCryptoNoteAdapter
  <2> QED
    BY <1>2, <1>7, <2>1, PushedByHandler DEF PrepareToQuit
<1>8. CASE InitImpl
  BY <1>1, <1>8 DEF InitImpl, flags, WalletMoves
<1>9. CASE RunTask
  <2>1. \A i \in 1..depth : SameFrame(i)
    BY <1>9, FramesBelow DEF RunTask, SameFrame, Frame
  <2>2. depth' = depth
    BY <1>9 DEF RunTask
  <2>3. Pushed(PlainOps)
    BY <2>1, <2>2, PushedNothing
  <2> QED
    BY <1>9, <2>3 DEF RunTask, life, WalletMoves
<1>10. CASE ExitImpl
  BY <1>1, <1>10 DEF ExitImpl, flags, WalletMoves
<1>11. CASE Abort
  BY <1>1, <1>2, <1>11 DEF Abort
<1>12. CASE UNCHANGED vars
  BY <1>1, <1>2, <1>12 DEF vars
<1> QED
  BY <1>3, <1>4, <1>5, <1>6, <1>7, <1>8, <1>9, <1>10, <1>11, <1>12
     DEF Next, Environment, Worker

-----------------------------------------------------------------------------
(* Which frames open and close wallets.                                    *)

Doing(i, ops) == stack[i].todo # <<>> /\ Head(stack[i].todo) \in ops

\* The frame is opening the current wallet, or discards the one it failed to open.
Opener(i) ==
    stack[i].at # "call" /\ Doing(i, OpenOps) /\ stack[i].session = session
Discarder(i) == Doing(i, {"discard"})

\* Frames belong to the worker there is or to an earlier one, and only a frame
\* in the nested loop of a lambda can be of an earlier one.
SessionsCounted ==
    \A i \in 1..depth :
        /\ stack[i].session <= session
        /\ stack[i].at \notin {"call", "loop"} => stack[i].session = session

\* Whatever lies below a handler that opens or discards a wallet waits in a
\* loop of an earlier worker.
OpenerAboveStale ==
    \A i \in 1..depth : Opener(i) \/ Discarder(i) =>
        \A j \in 1..depth :
            j < i => stack[j].at = "loop" /\ stack[j].session # session

\* The wallet thread starts while a frame waits for it in init(), exits while
\* one waits in deinit(), and has its events pumped in between.
WalletFrames ==
    /\ wallet = "starting" => \E i \in 1..depth : stack[i].at = "init"
    /\ \A i \in 1..depth : stack[i].at = "deinit" => wallet \in {"exiting", "stopped"}
    /\ pump => wallet \in {"ready", "exiting"}

\* A wallet is open only while its thread runs and nobody opens or discards it;
\* one that is not open is being opened, discarded or closed by some frame.
OpenedByFrame ==
    /\ isOpen => wallet = "ready"
    /\ \A i \in 1..depth : stack[i].at = "opened" => Doing(i, OpenOps)
    /\ \A i \in 1..depth : Opener(i) \/ Discarder(i) => ~isOpen
    /\ worker /\ ~isOpen =>
         \E i \in 1..depth : Opener(i) \/ Discarder(i) \/ stack[i].at = "deinit"

\* Discarding is what a handler does first, and little comes after it.
DiscardComesFirst ==
    \A i \in 1..depth : stack[i].todo # <<>> =>
        /\ Tail(stack[i].todo) \in Seq(PlainOps)
        /\ Discarder(i) =>
             /\ stack[i].at \in {"call", "deinit"}
             /\ Tail(stack[i].todo) \in Seq({"nameOld", "askPassword"})

SessionParts ==
    /\ SessionsCounted
    /\ OpenerAboveStale
    /\ WalletFrames
    /\ OpenedByFrame
    /\ DiscardComesFirst

SessionInv == CaptureInv /\ SessionParts

LEMMA SessionTypes ==
    ASSUME SessionInv
    PROVE  TypeInv /\ TokenInv /\ CaptureInv
BY DEF SessionInv, CaptureInv, TokenInv

LEMMA SessionPushed ==
    ASSUME SessionInv, Pushed(PlainOps), UNCHANGED <<worker, session, isOpen>>,
           WalletMoves
    PROVE  SessionParts'
<1>1. TypeInv /\ depth \in Nat /\ session \in Nat
  BY SessionTypes, FramesBelow
<1>2. \A i \in 1..depth : /\ i \in 1..depth'
                          /\ Opener(i)' = Opener(i)
                          /\ Discarder(i)' = Discarder(i)
  BY <1>1 DEF Pushed, SameFrame, Opener, Discarder, Doing
<1>3. \A i \in 1..depth' : i \notin 1..depth =>
        /\ i = depth + 1 /\ depth' = depth + 1
        /\ stack'[i].at = "call" /\ stack'[i].session = 0
        /\ stack'[i].todo \in Seq(PlainOps) /\ stack'[i].todo # <<>>
  BY <1>1 DEF Pushed
<1>4. \A i \in 1..depth' : i \notin 1..depth => ~Opener(i)' /\ ~Discarder(i)'
  <2> SUFFICES ASSUME NEW i \in 1..depth', i \notin 1..depth
               PROVE  ~Opener(i)' /\ ~Discarder(i)'
    OBVIOUS
  <2>1. Head(stack'[i].todo) \in PlainOps
    BY <1>3, HeadTailProperties
  <2> QED
    BY <1>3, <2>1 DEF Opener, Discarder, Doing, PlainOps
<1>5. SessionsCounted'
  BY <1>1, <1>3 DEF SessionInv, SessionParts, SessionsCounted, Pushed, SameFrame
<1>6. OpenerAboveStale'
  BY <1>1, <1>2, <1>4 DEF SessionInv, SessionParts, OpenerAboveStale, Pushed, SameFrame
<1>7. WalletFrames'
  BY <1>1, <1>2, <1>3
     DEF SessionInv, SessionParts, WalletFrames, Pushed, SameFrame, WalletMoves
<1>8. OpenedByFrame'
  BY <1>1, <1>2, <1>3, <1>4
     DEF SessionInv, SessionParts, OpenedByFrame, Pushed, SameFrame, WalletMoves, Doing
<1>9. DiscardComesFirst'
  BY <1>1, <1>2, <1>3, <1>4, HeadTailProperties
     DEF SessionInv, SessionParts, DiscardComesFirst, Pushed, SameFrame
<1> QED
  BY <1>5, <1>6, <1>7, <1>8, <1>9 DEF SessionParts

\* The frame on top, and those below it, as the invariant sees them.
LEMMA TopFacts ==
    ASSUME SessionInv, Busy
    PROVE  /\ depth \in Nat /\ session \in Nat /\ depth \in 1..depth
           /\ \A i \in 1..depth : i \in Frames /\ stack[i].session \in Nat
           /\ Top = stack[depth]
           /\ Op = Head(stack[depth].todo)
           /\ Top.at # "call" => Top.todo # <<>>
           /\ \A i \in 1..depth : i < depth => stack[i].at \in InLoops \cup {"emit"}
<1>1. TypeInv /\ TokenInv
  BY SessionTypes
<1> QED
  BY <1>1, FramesBelow, TopTodo DEF Op, TokenInv, TokenParts, CoveredFramesLoop, Frame

\* The holder of the token on top finds the wallet of its worker running.
LEMMA HolderRuns ==
    ASSUME SessionInv, Busy, Top.at \in {"held", "opened"}
    PROVE  /\ worker /\ wallet = "ready" /\ Top.session = session
           /\ \A i \in 1..depth : stack[i].at \notin {"init", "deinit"}
<1>1. worker /\ \A i \in 1..depth : i # depth => stack[i].at \notin Holding
  BY HolderFacts, SessionTypes DEF Holding
<1>2. \A i \in 1..depth : stack[i].at \notin {"init", "deinit"}
  BY <1>1, TopFacts DEF Holding
<1>3. wallet \notin {"none", "starting", "exiting", "stopped"}
  BY <1>1, <1>2
     DEF SessionInv, CaptureInv, CaptureParts, WalletOfWorker, ClosingIsHeld,
         SessionParts, WalletFrames
<1>4. wallet \in {"none", "starting", "ready", "exiting", "stopped"}
  BY SessionTypes DEF TypeInv, SessionTypeOK
<1> QED
  BY <1>1, <1>2, <1>3, <1>4, TopFacts DEF SessionInv, SessionParts, SessionsCounted

\* The top frame moves on inside an operation that neither starts nor ends a
\* wallet.
LEMMA SessionMoved ==
    ASSUME SessionInv, NEW point, TopMoved(point),
           point \notin {"call", "init", "deinit"},
           Top.at # "deinit",
           Top.at = "init" => wallet # "starting",
           point = "opened" => Op \in OpenOps,
           \/ stack'[depth].session = session
           \/ point = "loop" /\ stack'[depth].session = Top.session,
           Op \in OpenOps => Top.at # "call" /\ Top.session = stack'[depth].session,
           Top.at = "call" => Op # "discard",
           UNCHANGED <<worker, wallet, session, isOpen>>,
           pump' = pump \/ wallet = "ready"
    PROVE  SessionParts'
<1>1. /\ depth' = depth /\ Busy
      /\ \A i \in 1..depth : i # depth => stack'[i] = stack[i]
      /\ stack'[depth].at = point /\ stack'[depth].todo = Top.todo
  BY TopFacts DEF TopMoved, OnlyTop
<1>2. ~Discarder(depth)
  BY <1>1, TopFacts DEF SessionInv, SessionParts, DiscardComesFirst, Discarder, Doing
<1>3. \A i \in 1..depth : /\ Opener(i)' = Opener(i)
                          /\ Discarder(i)' = Discarder(i)
                          /\ stack'[i].todo = stack[i].todo
  BY <1>1, TopFacts DEF Opener, Discarder, Doing
<1>4. SessionsCounted'
  BY <1>1, TopFacts DEF SessionInv, SessionParts, SessionsCounted
<1>5. OpenerAboveStale'
  BY <1>1, <1>3, TopFacts DEF SessionInv, SessionParts, OpenerAboveStale
<1>6. WalletFrames'
  BY <1>1, TopFacts DEF SessionInv, SessionParts, WalletFrames
<1>7. OpenedByFrame'
  BY <1>1, <1>3, TopFacts DEF SessionInv, SessionParts, OpenedByFrame, Doing
<1>8. DiscardComesFirst'
  BY <1>1, <1>2, <1>3, TopFacts DEF SessionInv, SessionParts, DiscardComesFirst
<1> QED
  BY <1>4, <1>5, <1>6, <1>7, <1>8 DEF SessionParts

\* The top frame is done with an operation that neither starts nor ends a
\* wallet.
LEMMA SessionWentOn ==
    ASSUME SessionInv, NEW ops, TopGoesOn(ops), ops \in Seq(PlainOps),
           Top.at \notin {"init", "deinit"},
           ~worker \/ ~(Opener(depth) \/ Discarder(depth)),
           UNCHANGED <<worker, wallet, session, isOpen, pump>>
    PROVE  SessionParts'
<1>1. /\ depth' = depth /\ Busy
      /\ \A i \in 1..depth : i # depth => stack'[i] = stack[i]
      /\ stack'[depth].at = "call" /\ stack'[depth].todo = ops
      /\ stack'[depth].session = 0
  BY TopFacts DEF TopGoesOn, OnlyTop, Idle
<1>2. \A i \in 1..depth : i # depth => Opener(i)' = Opener(i) /\ Discarder(i)' = Discarder(i)
  BY <1>1, TopFacts DEF Opener, Discarder, Doing
<1>3. ops # <<>> => Head(ops) \in PlainOps /\ Tail(ops) \in Seq(PlainOps)
  BY HeadTailProperties
<1>4. ~Opener(depth)' /\ ~Discarder(depth)'
  BY <1>1, <1>3 DEF Opener, Discarder, Doing, PlainOps
<1>5. SessionsCounted'
  BY <1>1, TopFacts DEF SessionInv, SessionParts, SessionsCounted
<1>6. OpenerAboveStale'
  BY <1>1, <1>2, <1>4, TopFacts DEF SessionInv, SessionParts, OpenerAboveStale
<1>7. WalletFrames'
  BY <1>1, TopFacts DEF SessionInv, SessionParts, WalletFrames
<1>8. OpenedByFrame'
  BY <1>1, <1>2, <1>4, TopFacts DEF SessionInv, SessionParts, OpenedByFrame, Doing
<1>9. DiscardComesFirst'
  BY <1>1, <1>2, <1>3, <1>4, TopFacts DEF SessionInv, SessionParts, DiscardComesFirst
<1> QED
  BY <1>5, <1>6, <1>7, <1>8, <1>9 DEF SessionParts

\* The frame on top in full, after it went on, moved or entered the worker.
LEMMA TopShapes ==
    ASSUME TypeInv, Busy, depth' = depth
    PROVE  /\ \A ops : Continue(ops) => TopGoesOn(ops)
           /\ Finish => TopGoesOn(Tail(Top.todo))
           /\ \A point : Move(point) =>
                TopMoved(point) /\ stack'[depth].session = Top.session
           /\ \A point : EnterWorker(point) =>
                TopMoved(point) /\ stack'[depth].session = session
<1>1. \A ops : Continue(ops) => TopGoesOn(ops)
  BY TopSteps, FramesBelow DEF Continue, TopGoesOn
<1> QED
  BY <1>1, TopSteps DEF Finish, TopMoved

\* Opening starts a wallet: every frame below belongs to an earlier worker.
LEMMA SessionBeginOpen ==
    ASSUME SessionInv, TypeInv', BeginOpen
    PROVE  SessionParts'
<1>1. /\ Busy /\ ~worker /\ worker' /\ wallet' = "starting" /\ ~isOpen'
      /\ session' = session + 1 /\ depth' = depth /\ pump' = pump
      /\ Top.at = "call" /\ Top.todo # <<>> /\ Op \in OpenOps
  BY DEF BeginOpen, Calls
<1>2. /\ \A i \in 1..depth : i # depth => stack'[i] = stack[i]
      /\ stack'[depth].at = "init" /\ stack'[depth].todo = Top.todo
      /\ stack'[depth].session = session + 1
  <2>1. stack' = [stack EXCEPT ![depth].at = "init",
                               ![depth].session = session + 1,
                               ![depth].exited = exiting = "unwind"]
    BY DEF BeginOpen
  <2>2. depth \in Frames /\ stack \in [Frames -> Frame] /\ Top = stack[depth]
    BY <1>1, SessionTypes, TopFacts, FramesBelow
  <2> QED
    BY <2>1, <2>2, TopFacts, <1>1 DEF Frame
<1>3. \A i \in 1..depth : i # depth => i < depth /\ stack[i].at = "loop"
  <2>1. \A i \in 1..depth : stack[i].at \notin Holding
    BY <1>1 DEF SessionInv, CaptureInv, TokenInv, TokenParts, NoWorkerNoToken, Holders
  <2> QED
    BY <1>1, <2>1, TopFacts DEF InLoops, Holding
<1>4. \A i \in 1..depth : i # depth =>
        ~Opener(i)' /\ ~Discarder(i)' /\ stack'[i].session # session'
  BY <1>1, <1>2, <1>3, TopFacts
     DEF Opener, Discarder, Doing, SessionInv, SessionParts, SessionsCounted,
         DiscardComesFirst
<1>5. Opener(depth)' /\ ~Discarder(depth)'
  BY <1>1, <1>2, TopFacts DEF Opener, Discarder, Doing, OpenOps
<1>6. ~pump
  BY <1>1 DEF SessionInv, CaptureInv, CaptureParts, WalletOfWorker, SessionParts,
              WalletFrames
<1>7. SessionsCounted'
  <2>1. SessionsCounted
    BY DEF SessionInv, SessionParts
  <2> QED
    BY <1>1, <1>2, <1>3, <2>1, TopFacts DEF SessionsCounted
<1>8. OpenerAboveStale'
  BY <1>1, <1>2, <1>3, <1>4, TopFacts DEF OpenerAboveStale
<1>9. WalletFrames' /\ OpenedByFrame'
  BY <1>1, <1>2, <1>3, <1>4, <1>5, <1>6, TopFacts
     DEF WalletFrames, OpenedByFrame
<1>10. DiscardComesFirst'
  BY <1>1, <1>2, <1>4, <1>5, TopFacts DEF SessionInv, SessionParts, DiscardComesFirst
<1> QED
  BY <1>7, <1>8, <1>9, <1>10 DEF SessionParts

\* Closing the wallet, or discarding it.
LEMMA SessionBeginClose ==
    ASSUME SessionInv, BeginClose
    PROVE  SessionParts'
<1>1. /\ Busy /\ worker /\ worker' = worker /\ wallet' = "exiting" /\ ~isOpen'
      /\ session' = session /\ depth' = depth /\ EnterWorker("deinit")
      /\ Top.at = "locking" \/ (Top.at = "call" /\ Op = "discard")
  BY DEF BeginClose, At, Calls
<1>2. /\ \A i \in 1..depth : i # depth => stack'[i] = stack[i]
      /\ stack'[depth].at = "deinit" /\ stack'[depth].todo = Top.todo
      /\ stack'[depth].session = session
  BY <1>1, SessionTypes, TopFacts, TopSteps DEF OnlyTop
<1>3. \A i \in 1..depth : /\ Opener(i)' => Opener(i)
                          /\ Discarder(i)' = Discarder(i)
                          /\ stack'[i].todo = stack[i].todo
  BY <1>1, <1>2, TopFacts
     DEF Opener, Discarder, Doing, OpenOps, SessionInv, SessionParts, SessionsCounted
<1>4. SessionsCounted'
  BY <1>1, <1>2, TopFacts DEF SessionInv, SessionParts, SessionsCounted
<1>5. OpenerAboveStale'
  BY <1>1, <1>2, <1>3, TopFacts DEF SessionInv, SessionParts, OpenerAboveStale
<1>6. WalletFrames' /\ OpenedByFrame'
  BY <1>1, <1>2, <1>3, TopFacts
     DEF WalletFrames, OpenedByFrame, SessionInv, SessionParts, Doing
<1>7. DiscardComesFirst'
  BY <1>1, <1>2, <1>3, TopFacts DEF SessionInv, SessionParts, DiscardComesFirst
<1> QED
  BY <1>4, <1>5, <1>6, <1>7 DEF SessionParts

\* The worker is deleted.
LEMMA SessionWorkerGone ==
    ASSUME SessionInv, WorkerGone
    PROVE  SessionParts'
<1>1. /\ Busy /\ ~worker' /\ wallet = "stopped" /\ wallet' = "none"
      /\ UNCHANGED <<depth, session, pump, isOpen>>
      /\ Finish /\ Top.at = "deinit"
  BY DEF WorkerGone, DeinitDone, At
<1>2. /\ \A i \in 1..depth : i # depth => stack'[i] = stack[i]
      /\ stack'[depth].at = "call" /\ stack'[depth].todo = Tail(Top.todo)
      /\ stack'[depth].session = 0 /\ Top.todo # <<>>
  BY <1>1, SessionTypes, TopShapes, TopFacts DEF TopGoesOn, OnlyTop, Idle
<1>3. Tail(Top.todo) \in Seq(PlainOps)
  BY <1>1, <1>2, TopFacts DEF SessionInv, SessionParts, DiscardComesFirst
<1>4. ~isOpen /\ ~pump
  BY <1>1 DEF SessionInv, SessionParts, OpenedByFrame, WalletFrames
<1>5. \A i \in 1..depth : i # depth => stack[i].at \notin Holding
  BY <1>1, HolderFacts, SessionTypes DEF Holding
<1>6. Tail(Top.todo) # <<>> =>
        /\ Head(Tail(Top.todo)) \in PlainOps
        /\ Tail(Tail(Top.todo)) \in Seq(PlainOps)
  BY <1>3, HeadTailProperties
<1>7. /\ \A i \in 1..depth : i # depth =>
           Opener(i)' = Opener(i) /\ Discarder(i)' = Discarder(i)
      /\ ~Opener(depth)' /\ ~Discarder(depth)'
  BY <1>1, <1>2, <1>6, TopFacts DEF Opener, Discarder, Doing, PlainOps
<1>8. SessionsCounted'
  BY <1>1, <1>2, TopFacts DEF SessionInv, SessionParts, SessionsCounted
<1>9. OpenerAboveStale'
  BY <1>1, <1>2, <1>7, TopFacts DEF SessionInv, SessionParts, OpenerAboveStale
<1>10. WalletFrames' /\ OpenedByFrame'
  BY <1>1, <1>2, <1>4, <1>5, TopFacts
     DEF WalletFrames, OpenedByFrame, Holding, Doing, SessionInv, SessionParts
<1>11. DiscardComesFirst'
  BY <1>1, <1>2, <1>6, <1>7, TopFacts DEF SessionInv, SessionParts, DiscardComesFirst
<1> QED
  BY <1>8, <1>9, <1>10, <1>11 DEF SessionParts

\* The wallet is open, and the frame that opened it goes on.
LEMMA SessionEmitOpened ==
    ASSUME SessionInv, EmitOpened
    PROVE  SessionParts'
<1>1. /\ Busy /\ Top.at = "opened" /\ isOpen'
      /\ UNCHANGED <<depth, worker, wallet, session, pump>>
  BY DEF EmitOpened, At, life
<1>2. Top.todo # <<>> /\ Tail(Top.todo) \in Seq(PlainOps)
  BY <1>1, TopFacts DEF SessionInv, SessionParts, DiscardComesFirst
<1>3. PICK ops \in Seq(PlainOps) : Continue(ops)
  <2>1. <<"nameChosen">> \in Seq(PlainOps)
    BY PlainNames
  <2>2. CASE Op = "load"
    BY <2>1, <2>2 DEF EmitOpened
  <2>3. CASE Op # "load"
    BY <1>2, <2>3 DEF EmitOpened
  <2> QED
    BY <2>2, <2>3
<1>4. /\ \A i \in 1..depth : i # depth => stack'[i] = stack[i]
      /\ stack'[depth].at = "call" /\ stack'[depth].todo = ops
      /\ stack'[depth].session = 0
  <2>1. TopGoesOn(ops)
    BY <1>1, <1>3, SessionTypes, TopShapes
  <2> QED
    BY <2>1, TopFacts DEF TopGoesOn, OnlyTop, Idle
<1>5. Opener(depth) /\ wallet = "ready"
  <2>1. Opener(depth)
    BY <1>1, TopFacts, HolderRuns
       DEF Opener, SessionInv, SessionParts, OpenedByFrame
  <2>2. wallet = "ready"
    BY <1>1, HolderRuns
  <2> QED
    BY <2>1, <2>2
<1>6. ops # <<>> => Head(ops) \in PlainOps /\ Tail(ops) \in Seq(PlainOps)
  BY HeadTailProperties
<1>7. \A i \in 1..depth : i # depth =>
        /\ stack[i].at = "loop" /\ stack[i].session # session
        /\ ~Opener(i)' /\ ~Discarder(i)'
  <2>1. \A i \in 1..depth : i # depth => stack[i].at = "loop" /\ stack[i].session # session
    BY <1>1, <1>5, TopFacts DEF SessionInv, SessionParts, OpenerAboveStale
  <2>2. \A i \in 1..depth : i # depth => ~Discarder(i)
    BY <2>1, TopFacts DEF SessionInv, SessionParts, DiscardComesFirst, Discarder, Doing
  <2> QED
    BY <1>1, <1>4, <2>1, <2>2, TopFacts DEF Opener, Discarder, Doing
<1>8. ~Opener(depth)' /\ ~Discarder(depth)'
  BY <1>1, <1>4, <1>6 DEF Opener, Discarder, Doing, PlainOps
<1>9. SessionsCounted'
  BY <1>1, <1>4, TopFacts DEF SessionInv, SessionParts, SessionsCounted
<1>10. OpenerAboveStale' /\ OpenedByFrame' /\ WalletFrames'
  BY <1>1, <1>4, <1>5, <1>7, <1>8, TopFacts
     DEF SessionInv, SessionParts, OpenerAboveStale, OpenedByFrame, WalletFrames
<1>11. DiscardComesFirst'
  BY <1>1, <1>4, <1>6, <1>7, <1>8, TopFacts
     DEF SessionInv, SessionParts, DiscardComesFirst
<1> QED
  BY <1>9, <1>10, <1>11 DEF SessionParts

\* The wallet did not open: its frame has it discarded.
LEMMA SessionOpenFailed ==
    ASSUME SessionInv, OpenFailed
    PROVE  SessionParts' /\ Opener(depth)
<1>1. /\ Busy /\ Top.at = "held" /\ Op \in OpenOps
      /\ UNCHANGED <<depth, worker, wallet, session, pump, isOpen>>
  BY DEF OpenFailed, At, life, flags
<1>2. PICK ops : /\ Continue(ops)
                 /\ \/ ops = <<"discard", "askPassword">>
                    \/ ops = <<"discard", "nameOld">>
  BY DEF OpenFailed, RestoreName
<1>3. /\ ops # <<>> /\ Head(ops) = "discard"
      /\ Tail(ops) \in Seq({"nameOld", "askPassword"})
      /\ Tail(ops) \in Seq(PlainOps)
  <2>1. {"nameOld", "askPassword"} \subseteq PlainOps
    BY PlainNames
  <2>2. /\ ops # <<>> /\ Head(ops) = "discard"
        /\ Tail(ops) \in Seq({"nameOld", "askPassword"})
    BY <1>2, TailOfPair
  <2> QED
    BY <2>1, <2>2, SeqMonotonic
<1>4. /\ \A i \in 1..depth : i # depth => stack'[i] = stack[i]
      /\ stack'[depth].at = "call" /\ stack'[depth].todo = ops
      /\ stack'[depth].session = 0
  <2>1. TopGoesOn(ops)
    BY <1>1, <1>2, SessionTypes, TopShapes
  <2> QED
    BY <2>1, TopFacts DEF TopGoesOn, OnlyTop, Idle
<1>5. Opener(depth)
  BY <1>1, TopFacts, HolderRuns DEF Opener, Doing
<1>6. ~isOpen
  BY <1>1, <1>5, TopFacts DEF SessionInv, SessionParts, OpenedByFrame
<1>7. /\ \A i \in 1..depth : i # depth =>
           /\ stack[i].at = "loop" /\ stack[i].session # session
           /\ Opener(i)' = Opener(i) /\ Discarder(i)' = Discarder(i)
      /\ ~Opener(depth)' /\ Discarder(depth)'
  <2>1. \A i \in 1..depth : i # depth => stack[i].at = "loop" /\ stack[i].session # session
    BY <1>1, <1>5, TopFacts DEF SessionInv, SessionParts, OpenerAboveStale
  <2> QED
    BY <1>1, <1>3, <1>4, <2>1, TopFacts DEF Opener, Discarder, Doing
<1>8. SessionsCounted'
  BY <1>1, <1>4, TopFacts DEF SessionInv, SessionParts, SessionsCounted
<1>9. OpenerAboveStale' /\ WalletFrames'
  BY <1>1, <1>4, <1>7, TopFacts
     DEF SessionInv, SessionParts, OpenerAboveStale, WalletFrames
<1>10. OpenedByFrame'
  BY <1>1, <1>4, <1>6, <1>7, TopFacts
     DEF SessionInv, SessionParts, OpenedByFrame, Doing
<1>11. DiscardComesFirst'
  BY <1>1, <1>3, <1>4, <1>7, TopFacts
     DEF SessionInv, SessionParts, DiscardComesFirst
<1> QED
  BY <1>5, <1>8, <1>9, <1>10, <1>11 DEF SessionParts

\* deleteAddress asks for the balance above itself.
LEMMA SessionReturnDeleted ==
    ASSUME SessionInv, ReturnDeleted, Top.ok
    PROVE  SessionParts'
<1>1. /\ Busy /\ Top.at = "held" /\ Op = "deleteAddress" /\ depth + 1 \in Frames
      /\ depth' = depth + 1
      /\ UNCHANGED <<worker, wallet, session, pump, isOpen>>
  BY SessionTypes, FramesBelow, BoundsAssumption DEF ReturnDeleted, At, life, Frames
<1>2. /\ \A i \in 1..depth : i # depth => stack'[i] = stack[i]
      /\ stack'[depth].at = "emit" /\ stack'[depth].todo = Top.todo
      /\ stack'[depth].session = Top.session
      /\ stack'[depth + 1] = [Idle EXCEPT !.todo = <<"get">>]
  <2>1. depth \in Frames /\ stack \in [Frames -> Frame] /\ Top = stack[depth]
        /\ depth \in Nat /\ \A i \in 1..depth : i \in Frames /\ i # depth + 1
    BY <1>1, SessionTypes, TopFacts, FramesBelow
  <2>2. stack' = [stack EXCEPT ![depth].at = "emit",
                      ![depth + 1] = [Idle EXCEPT !.todo = <<"get">>]]
    BY DEF ReturnDeleted
  <2> QED
    BY <1>1, <2>1, <2>2 DEF Frame
<1>3. /\ stack'[depth + 1].at = "call" /\ stack'[depth + 1].session = 0
      /\ stack'[depth + 1].todo = <<"get">>
  BY <1>2 DEF Idle
<1>4. /\ Top.session = session
      /\ \A i \in 1..depth : /\ Opener(i)' = Opener(i)
                             /\ Discarder(i)' = Discarder(i)
                             /\ stack'[i].todo = stack[i].todo
      /\ \A i : i = depth + 1 => ~Opener(i)' /\ ~Discarder(i)'
  <2>1. Top.session = session
    BY <1>1, HolderRuns
  <2>2. \A i \in 1..depth : /\ Opener(i)' = Opener(i)
                            /\ Discarder(i)' = Discarder(i)
                            /\ stack'[i].todo = stack[i].todo
    BY <1>1, <1>2, TopFacts DEF Opener, Discarder, Doing
  <2>3. Head(<<"get">>) = "get"
    OBVIOUS
  <2>4. \A i : i = depth + 1 => ~Opener(i)' /\ ~Discarder(i)'
    BY <1>3, <2>3 DEF Opener, Discarder, Doing
  <2> QED
    BY <2>1, <2>2, <2>4
<1>5. /\ \A i \in 1..depth' : i \in 1..depth \/ i = depth + 1
      /\ \A i \in 1..depth : i \in 1..depth'
      /\ ~Opener(depth) /\ ~Discarder(depth)
  BY <1>1, TopFacts DEF Opener, Discarder, Doing, OpenOps
<1>6. SessionsCounted'
  <2>1. SessionsCounted
    BY DEF SessionInv, SessionParts
  <2>2. session \in Nat /\ \A i \in 1..depth : i = depth => stack[i] = Top
    BY <1>1, TopFacts
  <2>3. ASSUME NEW i \in 1..depth'
        PROVE  /\ stack'[i].session <= session'
               /\ stack'[i].at \notin {"call", "loop"} => stack'[i].session = session'
    <3>1. CASE i = depth + 1
      BY <1>1, <1>3, <2>2, <3>1
    <3>2. CASE i = depth
      BY <1>1, <1>2, <1>4, <2>2, <3>2
    <3>3. CASE i \in 1..depth /\ i # depth
      BY <1>1, <1>2, <2>1, <3>3 DEF SessionsCounted
    <3> QED
      BY <1>5, <3>1, <3>2, <3>3
  <2> QED
    BY <2>3 DEF SessionsCounted
<1>7. OpenerAboveStale'
  <2>1. OpenerAboveStale
    BY DEF SessionInv, SessionParts
  <2>2. \A i \in 1..depth' : Opener(i)' \/ Discarder(i)' =>
          i \in 1..depth /\ (Opener(i) \/ Discarder(i))
    BY <1>4, <1>5
  <2>3. \A i \in 1..depth, j \in 1..depth' : j < i => j \in 1..depth /\ j # depth
    BY <1>1, TopFacts
  <2> QED
    BY <1>1, <1>2, <2>1, <2>2, <2>3 DEF OpenerAboveStale
<1>8. WalletFrames'
  <2>1. \A i \in 1..depth' : stack'[i].at = "deinit" => i \in 1..depth /\ i # depth
    BY <1>2, <1>3, <1>5
  <2>2. \A i \in 1..depth : stack[i].at = "init" => stack'[i].at = "init"
    BY <1>1, <1>2, TopFacts
  <2> QED
    BY <1>1, <1>2, <1>5, <2>1, <2>2 DEF SessionInv, SessionParts, WalletFrames
<1>9. OpenedByFrame'
  <2>1. \A i \in 1..depth' :
          /\ Opener(i)' \/ Discarder(i)' => i \in 1..depth /\ (Opener(i) \/ Discarder(i))
          /\ stack'[i].at = "opened" => i \in 1..depth /\ i # depth
    BY <1>2, <1>3, <1>4, <1>5
  <2>2. \A i \in 1..depth :
          Opener(i) \/ Discarder(i) \/ stack[i].at = "deinit" =>
          Opener(i)' \/ Discarder(i)' \/ stack'[i].at = "deinit"
    BY <1>1, <1>2, <1>4, TopFacts
  <2>3. OpenedByFrame
    BY DEF SessionInv, SessionParts
  <2>4. \A i \in 1..depth' : stack'[i].at = "opened" => Doing(i, OpenOps)'
    BY <1>2, <2>1, <2>3 DEF OpenedByFrame, Doing
  <2> QED
    BY <1>1, <1>5, <2>1, <2>2, <2>3, <2>4 DEF OpenedByFrame
<1>10. DiscardComesFirst'
  <2>1. Tail(<<"get">>) \in Seq(PlainOps)
    BY PlainNames, HeadTailProperties
  <2>2. \A i \in 1..depth' : Discarder(i)' =>
          i \in 1..depth /\ i # depth /\ Discarder(i)
    BY <1>4, <1>5
  <2>3. DiscardComesFirst
    BY DEF SessionInv, SessionParts
  <2> QED
    BY <1>2, <1>3, <1>4, <1>5, <2>1, <2>2, <2>3 DEF DiscardComesFirst
<1> QED
  BY <1>6, <1>7, <1>8, <1>9, <1>10 DEF SessionParts

\* Leaving a handler, or finishing an operation that starts and ends no wallet.
LEMMA SessionReturn ==
    ASSUME SessionInv, Return
    PROVE  SessionParts'
<1>1. /\ Busy /\ Top.at = "call" /\ Top.todo = <<>> /\ depth' = depth - 1
      /\ UNCHANGED <<worker, wallet, session, isOpen, pump>>
      /\ stack' = [stack EXCEPT ![depth] = Idle]
  BY DEF Return, At, life, flags
<1>2. /\ \A i \in 1..depth' : i \in 1..depth /\ i # depth /\ stack'[i] = stack[i]
      /\ \A i \in 1..depth : i # depth => i \in 1..depth'
  BY <1>1, SessionTypes, TopFacts, FramesBelow
<1>3. ~Opener(depth) /\ ~Discarder(depth) /\ Top = stack[depth]
  BY <1>1, TopFacts DEF Opener, Discarder, Doing
<1>4. \A i \in 1..depth' : Opener(i)' = Opener(i) /\ Discarder(i)' = Discarder(i)
  BY <1>1, <1>2 DEF Opener, Discarder, Doing
<1>5. SessionsCounted' /\ OpenerAboveStale'
  BY <1>1, <1>2, <1>4 DEF SessionInv, SessionParts, SessionsCounted, OpenerAboveStale
<1>6. WalletFrames' /\ OpenedByFrame'
  BY <1>1, <1>2, <1>3, <1>4
     DEF SessionInv, SessionParts, WalletFrames, OpenedByFrame, Doing
<1>7. DiscardComesFirst'
  BY <1>2, <1>4 DEF SessionInv, SessionParts, DiscardComesFirst
<1> QED
  BY <1>5, <1>6, <1>7 DEF SessionParts

-----------------------------------------------------------------------------
(* What the steps of the handler on top do, seen from outside.             *)

Calm == UNCHANGED <<worker, wallet, session, isOpen, modelsOpen, formEnabled, exiting>>

\* Events of these kinds, at most, were posted.
Grew(kinds) ==
    /\ Len(queue') >= Len(queue)
    /\ \A k \in 1..Len(queue) : queue'[k] = queue[k]
    /\ \A k \in 1..Len(queue') : k > Len(queue) => queue'[k].kind \in kinds

\* The handler on top is done with an operation that starts and ends no wallet,
\* or finds its worker deleted.
GoesOn ==
    /\ Calm
    /\ pump' = pump
    /\ Top.todo # <<>>
    /\ Top.at \notin {"init", "deinit"}
    /\ \/ TopGoesOn(Tail(Top.todo))
       \/ TopGoesOn(<<>>) /\ Op \in {"changePassword", "createAddress"}
    /\ \/ Top.at # "loop" /\ Op \notin OpenOps \cup CloseOps
       \/ Top.at = "loop" /\ Top.session = session /\ ~worker
    /\ \/ Grew({"loadRequest"})
       \/ wallet = "ready" /\ Grew({"passwordChanged", "addressCreated"})

\* The handler on top moves on inside an operation.
MovesTo(point) ==
    /\ point \notin {"call", "init", "deinit"}
    /\ TopMoved(point)
    /\ point = "opened" => Op \in OpenOps
    /\ \/ stack'[depth].session = session
       \/ point = "loop" /\ stack'[depth].session = Top.session
    /\ Op \in OpenOps => Top.session = stack'[depth].session

Moves ==
    /\ Calm
    /\ queue' = queue
    /\ worker
    /\ pump' = pump \/ wallet = "ready"
    /\ Top.at # "deinit"
    /\ Top.at = "init" => wallet # "starting"
    /\ Top.at = "call" => Top.todo # <<>> /\ Op \notin OpenOps \cup {"discard"}
    /\ \E point : MovesTo(point)

LEMMA QueueGrows ==
    ASSUME TypeInv
    PROVE  /\ \A kinds : UNCHANGED queue => Grew(kinds)
           /\ \A kind \in Kinds : Post(kind) => Grew({kind})
<1>1. queue \in Seq(Posted) /\ Len(queue) \in Nat
  BY LenProperties DEF TypeInv, SessionTypeOK
<1>2. \A kinds : UNCHANGED queue => Grew(kinds)
  BY <1>1 DEF Grew
<1>3. ASSUME NEW kind \in Kinds, Post(kind) PROVE Grew({kind})
  <2>1. Event(kind) \in Posted /\ Event(kind).kind = kind
    BY DEF Event, Posted, TypeInv, SessionTypeOK
  <2>2. /\ Len(queue') = Len(queue) + 1
        /\ \A k \in 1..Len(queue) : queue'[k] = queue[k]
        /\ queue'[Len(queue) + 1] = Event(kind)
    BY <1>1, <1>3, <2>1, AppendProperties DEF Post
  <2> QED
    BY <1>1, <2>1, <2>2 DEF Grew
<1> QED
  BY <1>2, <1>3

LEMMA GrewMore ==
    ASSUME NEW kinds, NEW more, kinds \subseteq more, Grew(kinds)
    PROVE  Grew(more)
BY DEF Grew

\* Every step of the handler on top that is none of those named.
LEMMA GuiShape ==
    ASSUME SessionInv, Gui
    PROVE  \/ Return
           \/ GoesOn
           \/ Moves
           \/ ReturnDeleted /\ Top.ok
           \/ BeginOpen
           \/ BeginClose
           \/ EmitOpened
           \/ OpenFailed
           \/ EndClose
           \/ EndDiscard
<1>1. /\ \A point : At(point) => Busy /\ Top.at = point
      /\ \A ops : Calls(ops) => Busy /\ Top.at = "call" /\ Top.todo # <<>> /\ Op \in ops
  BY DEF At, Calls
<1>2. TypeInv /\ TokenInv
  BY SessionTypes
<1>3. Busy /\ Top.at # "call" => Top.todo # <<>>
  BY TopFacts
<1>4. /\ UNCHANGED <<life, flags, view, spent>> => Calm /\ pump' = pump
      /\ UNCHANGED <<life, isOpen, view, spent>> => Calm /\ pump' = pump
  BY DEF life, flags, view, spent, Calm
<1>5. /\ UNCHANGED queue => Grew({"loadRequest"})
      /\ Post("loadRequest") => Grew({"loadRequest"})
      /\ Post("passwordChanged") => Grew({"passwordChanged", "addressCreated"})
      /\ Post("addressCreated") => Grew({"passwordChanged", "addressCreated"})
  BY <1>2, QueueGrows, KindNames, GrewMore
<1>6. CASE CheckOpen \/ SetWalletFile \/ SaveSkipped \/ AccessUserData
  <2>1. /\ Busy /\ Top.at = "call" /\ Finish /\ Top.todo # <<>>
        /\ UNCHANGED <<depth, queue>> /\ Calm /\ pump' = pump
    BY <1>1, <1>4, <1>6 DEF CheckOpen, SetWalletFile, SaveSkipped, AccessUserData
  <2>2. Op \in {"assertOpen", "save"} \cup NamingOps \cup DataOps
    BY <1>1, <1>6 DEF CheckOpen, SetWalletFile, SaveSkipped, AccessUserData
  <2>3. Op \notin OpenOps \cup CloseOps
    BY <2>2 DEF OpenOps, CloseOps, AdapterClose, NamingOps, DataOps
  <2> QED
    BY <1>2, <1>5, <2>1, <2>3, TopShapes DEF GoesOn
<1>7. CASE AskPassword
  <2>1. /\ Busy /\ Top.at = "call" /\ Finish /\ Top.todo # <<>> /\ Op = "askPassword"
        /\ UNCHANGED <<depth, queue>> /\ Calm /\ pump' = pump
    BY <1>1, <1>7 DEF AskPassword, Calm, life, flags, spent
  <2>2. Op \notin OpenOps \cup CloseOps
    BY <2>1 DEF OpenOps, CloseOps, AdapterClose
  <2> QED
    BY <1>2, <1>5, <2>1, <2>2, TopShapes DEF GoesOn
<1>8. CASE PostLoad \/ Restart
  <2>1. /\ Busy /\ Top.at = "call" /\ Finish /\ Top.todo # <<>>
        /\ Op \in {"postLoad", "reopen", "restart"}
        /\ UNCHANGED depth
        /\ Post("loadRequest") \/ UNCHANGED queue
        /\ Calm /\ pump' = pump
    BY <1>1, <1>8 DEF PostLoad, Restart, OpenInForm, Calm, life, flags, view, spent
  <2>2. Op \notin OpenOps \cup CloseOps
    BY <2>1 DEF OpenOps, CloseOps, AdapterClose
  <2> QED
    BY <1>2, <1>5, <2>1, <2>2, TopShapes DEF GoesOn
<1>9. CASE Acquire \/ Detach
  <2>1. /\ Busy /\ Top.at = "call" /\ Top.todo # <<>> /\ worker
        /\ UNCHANGED <<depth, queue>> /\ Calm /\ pump' = pump
        /\ \E point \in {"enter", "wait", "locking"} : EnterWorker(point)
    BY <1>1, <1>9 DEF Acquire, Detach, Calm, life, flags, view, spent
  <2>2. Op \in TaskOps \cup AdapterClose
    BY <1>1, <1>9 DEF Acquire, Detach
  <2>3. Op \notin OpenOps \cup {"discard"}
    BY <2>2 DEF TaskOps, SaveOps, BlockOps, OpenOps, AdapterClose
  <2> QED
    BY <1>2, <2>1, <2>3, TopShapes DEF Moves, MovesTo
<1>10. CASE EnterLoop
  <2>1. /\ Busy /\ Top.at = "enter"
        /\ UNCHANGED <<depth, queue>> /\ Calm /\ pump' = pump
    BY <1>1, <1>4, <1>10 DEF EnterLoop
  <2>2. TopMoved("loop") /\ stack'[depth].session = Top.session
    BY <1>2, <1>10, <2>1, TopFacts, FramesBelow DEF EnterLoop, TopMoved, OnlyTop, Frame
  <2>3. worker
    BY <1>2, <2>1, TopFacts DEF TokenInv, TokenParts, TransitHasWorker
  <2> QED
    BY <2>1, <2>2, <2>3 DEF Moves, MovesTo
<1>11. CASE LeaveInit
  <2>1. /\ Busy /\ Top.at = "init" /\ HasWallet /\ EnterWorker("enter")
        /\ UNCHANGED <<depth, queue>> /\ Calm /\ pump' = pump
    BY <1>1, <1>4, <1>11 DEF LeaveInit
  <2>2. Top.session = session /\ worker
    <3>1. Top.session = session
      BY <2>1, TopFacts DEF SessionInv, SessionParts, SessionsCounted
    <3>2. worker
      BY <2>1, HolderFacts, SessionTypes DEF Holding
    <3> QED
      BY <3>1, <3>2
  <2> QED
    BY <1>2, <2>1, <2>2, TopShapes DEF Moves, MovesTo, HasWallet
<1>12. CASE LeaveLoop \/ AwaitToken
  <2>1. /\ Busy /\ Top.at \in {"loop", "wait"} /\ Top.session = session /\ worker
        /\ \E point \in {"wait", "held"} : Move(point)
        /\ UNCHANGED <<depth, queue>> /\ Calm /\ pump' = pump
    <3>1. CASE LeaveLoop
      BY <1>1, <1>4, <3>1 DEF LeaveLoop
    <3>2. CASE AwaitToken
      <4>1. /\ Busy /\ Top.at = "wait" /\ Move("held")
            /\ UNCHANGED <<depth, queue>> /\ Calm /\ pump' = pump
        BY <1>1, <1>4, <3>2 DEF AwaitToken
      <4>2. Top.session = session
        BY <4>1, TopFacts DEF SessionInv, SessionParts, SessionsCounted
      <4>3. worker
        BY <1>2, <4>1, TopFacts DEF TokenInv, TokenParts, TransitHasWorker
      <4> QED
        BY <4>1, <4>2, <4>3
    <3> QED
      BY <1>12, <3>1, <3>2
  <2> QED
    BY <1>2, <2>1, TopShapes DEF Moves, MovesTo
<1>13. CASE StartEventLoop
  <2>1. /\ Busy /\ Top.at = "held" /\ Op \in OpenOps /\ Move("opened")
        /\ UNCHANGED <<depth, queue>> /\ Calm
    BY <1>1, <1>13 DEF StartEventLoop, Calm, flags, view, spent
  <2>2. Top.session = session /\ wallet = "ready" /\ worker
    BY <2>1, HolderRuns
  <2> QED
    BY <1>2, <2>1, <2>2, TopShapes DEF Moves, MovesTo
<1>14. CASE LeaveClosedWorker
  <2>1. /\ Busy /\ Top.at = "loop" /\ ~worker /\ Finish /\ Top.session = session
        /\ UNCHANGED <<depth, queue>> /\ Calm /\ pump' = pump
    BY <1>1, <1>4, <1>14 DEF LeaveClosedWorker
  <2> QED
    BY <1>2, <1>3, <1>5, <2>1, TopShapes DEF GoesOn
<1>15. CASE ReturnResult \/ ReturnMutation \/ (ReturnDeleted /\ ~Top.ok)
  <2>1. /\ Busy /\ Top.at = "held" /\ UNCHANGED depth /\ Calm /\ pump' = pump
        /\ Finish \/ (Continue(<<>>) /\ Op \in {"changePassword", "createAddress"})
        /\ \/ UNCHANGED queue
           \/ Post("passwordChanged")
           \/ Post("addressCreated")
    <3>1. CASE ReturnResult
      BY <1>1, <1>4, <3>1 DEF ReturnResult
    <3>2. CASE ReturnMutation
      BY <1>1, <1>4, <3>2 DEF ReturnMutation
    <3>3. CASE ReturnDeleted /\ ~Top.ok
      BY <1>1, <1>4, <3>3 DEF ReturnDeleted
    <3> QED
      BY <1>15, <3>1, <3>2, <3>3
  <2>2. Op \in SaveOps \cup {"get", "sendTransaction", "changePassword",
                              "createAddress", "deleteAddress"}
    BY <1>15 DEF ReturnResult, ReturnMutation, ReturnDeleted
  <2>3. Op \notin OpenOps \cup CloseOps
    BY <2>2 DEF SaveOps, OpenOps, CloseOps, AdapterClose
  <2>4. wallet = "ready"
    BY <2>1, HolderRuns
  <2>5. /\ Finish => TopGoesOn(Tail(Top.todo))
        /\ Continue(<<>>) => TopGoesOn(<<>>)
    BY <1>2, <2>1, TopShapes
  <2> QED
    BY <1>3, <1>5, <2>1, <2>3, <2>4, <2>5 DEF GoesOn
<1> QED
  BY <1>6, <1>7, <1>8, <1>9, <1>10, <1>11, <1>12, <1>13, <1>14, <1>15 DEF Gui

\* A step of the handler on top keeps the wallet's frames in order.
LEMMA SessionGui ==
    ASSUME SessionInv, TypeInv', Gui
    PROVE  SessionParts'
<1>1. CASE GoesOn
  <2>1. /\ Busy /\ Top.todo # <<>> /\ Top.at \notin {"init", "deinit"}
        /\ UNCHANGED <<worker, wallet, session, isOpen, pump>>
    BY <1>1 DEF GoesOn, Calm, TopGoesOn
  <2>2. ~worker \/ ~(Opener(depth) \/ Discarder(depth))
    BY <1>1, <2>1, TopFacts DEF GoesOn, Opener, Discarder, Doing, CloseOps
  <2>3. Tail(Top.todo) \in Seq(PlainOps) /\ <<>> \in Seq(PlainOps)
    BY <2>1, TopFacts DEF SessionInv, SessionParts, DiscardComesFirst
  <2>4. PICK ops \in Seq(PlainOps) : TopGoesOn(ops)
    BY <1>1, <2>3 DEF GoesOn
  <2> QED
    BY <2>1, <2>2, <2>4, SessionWentOn
<1>2. CASE Moves
  <2>1. PICK point : MovesTo(point)
    BY <1>2 DEF Moves
  <2> QED
    BY <1>2, <2>1, SessionMoved DEF Moves, MovesTo, Calm
<1>3. CASE EndClose \/ EndDiscard
  BY <1>3, SessionWorkerGone DEF EndClose, EndDiscard
<1> QED
  BY <1>1, <1>2, <1>3, GuiShape, SessionReturn, SessionReturnDeleted, SessionBeginOpen,
     SessionBeginClose, SessionEmitOpened, SessionOpenFailed

LEMMA SessionStep == SessionInv /\ [Next]_vars => SessionInv'
<1> SUFFICES ASSUME SessionInv, [Next]_vars PROVE SessionInv'
  OBVIOUS
<1>1. CaptureInv'
  BY CaptureStep DEF SessionInv
<1>2. TypeInv /\ TypeInv'
  BY <1>1, SessionTypes DEF CaptureInv, TokenInv
<1>3. SessionParts'
  BY <1>2, OtherSteps, SessionPushed, SessionGui
<1> QED
  BY <1>1, <1>3 DEF SessionInv

LEMMA CaptureInit == Init => CaptureInv
BY TokenInit
   DEF Init, CaptureInv, CaptureParts, WalletOfWorker, ClosingIsHeld,
       CapturedFrameAlive, HasTask

LEMMA SessionInit == Init => SessionInv
BY CaptureInit
   DEF Init, SessionInv, SessionParts, SessionsCounted, OpenerAboveStale,
       WalletFrames, OpenedByFrame, DiscardComesFirst

-----------------------------------------------------------------------------
(* What is left in the queue of posted events.                             *)

QuietKinds == {"closed", "loadRequest"}
Quiet == \A k \in 1..Len(queue) : queue[k].kind \in QuietKinds

\* The wallet thread posts deinitCompleted as the last thing it does, and the
\* loop of deinit() is left only by that event: when the worker is deleted,
\* everything its wallet posted has been dispatched.
QueueParts ==
    /\ ~worker => Quiet
    /\ wallet # "stopped" =>
         \A k \in 1..Len(queue) : queue[k].kind # "deinitCompleted"
    /\ \A i \in 1..depth :
         stack[i].at = "deinit" /\ stack[i].exited => wallet = "stopped" /\ Quiet
    /\ \A j, k \in 1..Len(queue) :
         queue[j].kind = "deinitCompleted" /\ j < k => queue[k].kind \in QuietKinds

QueueInv == SessionInv /\ (exiting = "no" => QueueParts)

\* quit() is not taken back.
LEMMA ExitingOnward ==
    ASSUME [Next]_vars
    PROVE  /\ exiting' = "no" => exiting = "no"
           /\ exiting' # exiting => Quit \/ PrepareToQuit
<1>1. UNCHANGED spent => exiting' = exiting
  BY DEF spent
<1>2. CASE Environment
  BY <1>2 DEF Environment, UserInput, Offered, Quit, ProcessEvent
<1>3. CASE Dispatch
  <2>1. \A kind : Receive(kind) => UNCHANGED spent
    BY DEF Receive
  <2> QED
    BY <1>1, <1>3, <2>1
       DEF Dispatch, OnWalletOpened, OnWalletOpenError, OnWalletClosed,
           OnPasswordChanged, OnSynchronizationCompleted, OnBalance,
           OnAddressCreated, OnQuietEvent, OnLoadRequest, OnQuit
<1>4. CASE Gui
  BY <1>1, <1>4
     DEF Gui, Return, CheckOpen, PostLoad, Restart, SetWalletFile, AskPassword,
         BeginOpen, SaveSkipped, Acquire, AccessUserData, Detach, BeginClose,
         EnterLoop, LeaveInit, LeaveLoop, LeaveClosedWorker, AwaitToken,
         ReturnResult, ReturnMutation, ReturnDeleted, StartEventLoop, EmitOpened,
         OpenFailed, EndClose, EndDiscard, WorkerGone
<1>5. CASE PrepareToQuit
  BY <1>5 DEF PrepareToQuit
<1>6. CASE Worker \/ Abort \/ UNCHANGED vars
  BY <1>1, <1>6 DEF Worker, InitImpl, RunTask, ExitImpl, Abort, vars
<1> QED
  BY <1>2, <1>3, <1>4, <1>5, <1>6 DEF Next

\* Every event but the last of a wallet.
LEMMA LiveGrows ==
    ASSUME TypeInv,
           UNCHANGED queue \/ \E kind \in {"opened", "openError", "passwordChanged",
                                         "addressCreated", "addressDeleted",
                                         "initCompleted"} : Post(kind)
    PROVE  Grew(Kinds \ {"deinitCompleted"})
<1>1. CASE UNCHANGED queue
  BY <1>1, QueueGrows
<1>2. ASSUME NEW kind \in Kinds \ {"deinitCompleted"}, Post(kind)
      PROVE  Grew(Kinds \ {"deinitCompleted"})
  <2>1. Grew({kind})
    BY <1>2, QueueGrows
  <2> QED
    BY <1>2, <2>1, GrewMore
<1>3. {"opened", "openError", "passwordChanged", "addressCreated", "addressDeleted",
       "initCompleted"} \subseteq Kinds \ {"deinitCompleted"}
  BY KindNames
<1> QED
  BY <1>1, <1>2, <1>3

\* A step that ends no wallet and dispatches nothing.
LEMMA QueueKept ==
    ASSUME TypeInv, TypeInv', QueueParts,
           ~worker' => ~worker,
           wallet' = "stopped" <=> wallet = "stopped",
           \A i \in 1..depth' :
             stack'[i].at = "deinit" /\ stack'[i].exited =>
               i \in 1..depth /\ stack[i].at = "deinit" /\ stack[i].exited,
           \/ Grew(QuietKinds)
           \/ /\ worker'
              /\ wallet # "stopped"
              /\ Grew(Kinds \ {"deinitCompleted"})
    PROVE  QueueParts'
<1>1. Len(queue) \in Nat /\ Len(queue') \in Nat
  BY LenProperties DEF TypeInv, SessionTypeOK
<1>2. "deinitCompleted" \notin QuietKinds
  BY DEF QuietKinds
<1>3. CASE Grew(QuietKinds)
  <2>1. Quiet => Quiet'
    BY <1>1, <1>3 DEF Quiet, Grew
  <2>2. wallet # "stopped" =>
          \A k \in 1..Len(queue') : queue'[k].kind # "deinitCompleted"
    BY <1>1, <1>2, <1>3 DEF QueueParts, Grew
  <2>3. \A j, k \in 1..Len(queue') :
          queue'[j].kind = "deinitCompleted" /\ j < k => queue'[k].kind \in QuietKinds
    BY <1>1, <1>2, <1>3 DEF QueueParts, Grew
  <2> QED
    BY <2>1, <2>2, <2>3 DEF QueueParts
<1>4. CASE worker' /\ wallet # "stopped" /\ Grew(Kinds \ {"deinitCompleted"})
  <2>1. \A k \in 1..Len(queue') : queue'[k].kind # "deinitCompleted"
    BY <1>1, <1>4 DEF QueueParts, Grew
  <2>2. \A i \in 1..depth' : ~(stack'[i].at = "deinit" /\ stack'[i].exited)
    BY <1>4 DEF QueueParts
  <2> QED
    BY <1>4, <2>1, <2>2 DEF QueueParts
<1> QED
  BY <1>3, <1>4

\* Dispatching an event.
LEMMA QueueDispatch ==
    ASSUME TypeInv, TypeInv', QueueParts, Dispatch
    PROVE  QueueParts'
<1>1. PICK kind : Receive(kind)
  BY DispatchShape
<1>2. /\ queue # <<>> /\ queue' = Tail(queue)
      /\ UNCHANGED <<worker, wallet>>
  BY <1>1 DEF Receive, life
<1>3. /\ Len(queue) \in Nat /\ Len(queue') = Len(queue) - 1
      /\ \A k \in 1..Len(queue') : k + 1 \in 1..Len(queue) /\ queue'[k] = queue[k + 1]
      /\ Head(queue) = queue[1] /\ 1 \in 1..Len(queue)
  BY <1>2, HeadTailProperties, LenProperties, EmptySeq DEF TypeInv, SessionTypeOK
<1>4. Quiet => Quiet'
  BY <1>3 DEF Quiet
<1>5. queue[1].kind = "deinitCompleted" => Quiet'
  BY <1>3 DEF Quiet, QueueParts
<1>6. \A i \in 1..depth' :
        stack'[i].at = "deinit" /\ stack'[i].exited =>
          /\ i \in 1..depth /\ stack[i].at = "deinit"
          /\ stack[i].exited \/ queue[1].kind = "deinitCompleted"
  <2>1. \A i \in 1..depth' : i \in 1..depth \/ stack'[i].at = "call"
    <3>1. Pushed(DispatchedOps) /\ depth \in Nat
      BY DispatchShape, FramesBelow
    <3>2. \A i \in 1..depth' : i \in 1..depth \/ (i = depth + 1 /\ depth' = depth + 1)
      BY <3>1 DEF Pushed
    <3> QED
      BY <3>1, <3>2 DEF Pushed
  <2>2. \A i \in 1..depth : stack'[i].at = stack[i].at
    BY DispatchShape DEF Pushed, SameFrame
  <2> QED
    BY <1>3, <2>1, <2>2, DispatchShape
<1>7. queue[1].kind = "deinitCompleted" => wallet = "stopped"
  BY <1>3 DEF QueueParts
<1>8. \A i \in 1..depth' :
        stack'[i].at = "deinit" /\ stack'[i].exited => wallet = "stopped" /\ Quiet'
  BY <1>4, <1>5, <1>6, <1>7 DEF QueueParts
<1>9. wallet # "stopped" =>
        \A k \in 1..Len(queue') : queue'[k].kind # "deinitCompleted"
  BY <1>3 DEF QueueParts
<1>10. \A j, k \in 1..Len(queue') :
         queue'[j].kind = "deinitCompleted" /\ j < k => queue'[k].kind \in QuietKinds
  <2>1. \A j, k \in 1..Len(queue') : j < k => j + 1 < k + 1
    BY <1>3
  <2> QED
    BY <1>3, <2>1 DEF QueueParts
<1> QED
  BY <1>2, <1>4, <1>8, <1>9, <1>10 DEF QueueParts

\* The wallet thread says goodbye.
LEMMA QueueExit ==
    ASSUME SessionInv, QueueParts, ExitImpl
    PROVE  QueueParts'
<1>1. Len(queue) \in Nat /\ worker
  BY SessionTypes, LenProperties
     DEF ExitImpl, TypeInv, SessionTypeOK, CaptureInv, CaptureParts, WalletOfWorker
<1>2. /\ wallet = "exiting" /\ wallet' = "stopped" /\ worker' = worker
      /\ UNCHANGED <<stack, depth>>
  BY DEF ExitImpl, gui
<1>3. /\ Len(queue') = Len(queue) + 1
      /\ \A k \in 1..Len(queue) : queue'[k] = queue[k]
  <2>1. Event("deinitCompleted") \in Posted /\ queue \in Seq(Posted)
    BY SessionTypes, KindNames DEF Event, Posted, TypeInv, SessionTypeOK
  <2> QED
    BY <2>1, AppendProperties DEF ExitImpl, Post
<1>4. \A i \in 1..depth' : ~(stack'[i].at = "deinit" /\ stack'[i].exited)
  BY <1>2 DEF QueueParts
<1>5. \A j, k \in 1..Len(queue') :
        ~(queue'[j].kind = "deinitCompleted" /\ j < k)
  BY <1>1, <1>2, <1>3 DEF QueueParts
<1> QED
  BY <1>1, <1>2, <1>4, <1>5 DEF QueueParts

\* What the wallet thread posts for an event of the core.
LEMMA ProcessGrows ==
    ASSUME TypeInv, NEW kind \in AllCoreKinds, ProcessEvent(kind)
    PROVE  Grew({kind, "balance"})
<1>1. queue \in Seq(Posted) /\ Len(queue) \in Nat
  BY LenProperties DEF TypeInv, SessionTypeOK
<1>2. ASSUME NEW new \in Seq(Posted), queue' = queue \o new,
             \A k \in 1..Len(new) : new[k].kind \in {kind, "balance"}
      PROVE  Grew({kind, "balance"})
  <2>1. Len(new) \in Nat
    BY LenProperties
  <2>2. /\ Len(queue') = Len(queue) + Len(new)
        /\ \A k \in 1..Len(queue') :
             queue'[k] = IF k <= Len(queue) THEN queue[k] ELSE new[k - Len(queue)]
    BY <1>1, <1>2, ConcatProperties
  <2>3. \A k \in 1..Len(queue') : k > Len(queue) => k - Len(queue) \in 1..Len(new)
    BY <1>1, <2>1, <2>2
  <2> QED
    BY <1>1, <1>2, <2>1, <2>2, <2>3 DEF Grew
<1>3. \A k \in AllCoreKinds : Event(k) \in Posted /\ Event(k).kind = k
  BY KindNames DEF Event, Posted, TypeInv, SessionTypeOK
<1>4. \A k \in AllCoreKinds : /\ <<Event(k)>> \in Seq(Posted)
                              /\ Len(<<Event(k)>>) = 1 /\ <<Event(k)>>[1] = Event(k)
  BY <1>3
<1>5. <<>> \in Seq(Posted) /\ Len(<<>>) = 0
  BY EmptySeq
<1>6. CASE ~observed
  <2>1. queue' = queue \o <<>>
    BY <1>6 DEF ProcessEvent
  <2>2. \A k \in 1..Len(<<>>) : FALSE
    BY <1>5
  <2> QED
    BY <1>2, <1>5, <2>1, <2>2
<1>7. CASE observed /\ kind = "transaction"
  <2> DEFINE new == <<Event("transaction"), Event("balance")>>
  <2>1. queue' = queue \o new
    BY <1>7 DEF ProcessEvent
  <2>2. /\ Event("transaction") \in Posted /\ Event("transaction").kind = kind
        /\ Event("balance") \in Posted /\ Event("balance").kind = "balance"
    BY <1>3, <1>7 DEF AllCoreKinds
  <2>3. /\ new \in Seq(Posted) /\ Len(new) = 2
        /\ new[1] = Event("transaction") /\ new[2] = Event("balance")
    BY <2>2
  <2> HIDE DEF new
  <2>4. \A k \in 1..Len(new) : new[k].kind \in {kind, "balance"}
    BY <2>2, <2>3
  <2> QED
    BY <1>2, <2>1, <2>3, <2>4
<1>8. CASE observed /\ kind # "transaction"
  <2>1. queue' = queue \o <<Event(kind)>>
    BY <1>8 DEF ProcessEvent
  <2>2. \A k \in 1..Len(<<Event(kind)>>) : <<Event(kind)>>[k].kind \in {kind, "balance"}
    BY <1>3, <1>4
  <2> QED
    BY <1>2, <1>4, <2>1, <2>2
<1> QED
  BY <1>6, <1>7, <1>8

\* The worker is deleted when nothing it posted is left.
LEMMA QueueWorkerGone ==
    ASSUME SessionInv, TypeInv', QueueParts, EndClose \/ EndDiscard
    PROVE  QueueParts'
<1>1. /\ Busy /\ Top.at = "deinit" /\ Top.exited /\ ~worker' /\ wallet' = "none"
      /\ depth' = depth /\ Finish
      /\ UNCHANGED queue \/ Post("closed")
  BY DEF EndClose, EndDiscard, WorkerGone, DeinitDone, At
<1>2. Quiet
  BY <1>1, TopFacts DEF QueueParts
<1>3. Grew(QuietKinds)
  BY <1>1, SessionTypes, QueueGrows, KindNames, GrewMore DEF QuietKinds
<1>4. Len(queue) \in Nat /\ Len(queue') \in Nat
  BY SessionTypes, LenProperties DEF TypeInv, SessionTypeOK
<1>5. Quiet'
  BY <1>2, <1>3, <1>4 DEF Quiet, Grew
<1>6. \A i \in 1..depth' : stack'[i].at # "deinit"
  <2>1. \A i \in 1..depth : i # depth => stack[i].at # "deinit" /\ stack'[i] = stack[i]
    BY <1>1, HolderFacts, SessionTypes, TopSteps, TopFacts DEF Holding, OnlyTop
  <2>2. stack'[depth].at = "call"
    BY <1>1, SessionTypes, TopShapes DEF TopGoesOn, Idle
  <2> QED
    BY <1>1, <2>1, <2>2, TopFacts
<1>7. \A k \in 1..Len(queue') : queue'[k].kind # "deinitCompleted"
  BY <1>5 DEF Quiet, QuietKinds
<1> QED
  BY <1>1, <1>5, <1>6, <1>7 DEF QueueParts

\* The steps of the handler on top.
LEMMA QueueGui ==
    ASSUME SessionInv, TypeInv', QueueParts, exiting = "no", Gui
    PROVE  QueueParts'
<1> DEFINE NoNewExit ==
             \A i \in 1..depth' :
               stack'[i].at = "deinit" /\ stack'[i].exited =>
                 i \in 1..depth /\ stack[i].at = "deinit" /\ stack[i].exited
           Goal == NoNewExit => QueueParts'
<1>1. TypeInv /\ (worker <=> wallet # "none")
  BY SessionTypes DEF CaptureInv, CaptureParts, WalletOfWorker
<1>2. ASSUME Busy, OnlyTop, depth' = depth,
             stack'[depth].at # "deinit" \/ ~stack'[depth].exited
      PROVE  NoNewExit
  BY <1>2, TopFacts DEF OnlyTop
<1>3. ASSUME worker' = worker, wallet' = wallet,
             \/ Grew(QuietKinds)
             \/ wallet = "ready" /\ Grew(Kinds \ {"deinitCompleted"}),
             NoNewExit
      PROVE  QueueParts'
  BY <1>1, <1>3, QueueKept
<1>4. UNCHANGED queue => Grew(QuietKinds)
  BY <1>1, QueueGrows
<1>5. CASE Return
  <2>1. /\ UNCHANGED <<worker, wallet, queue>>
        /\ \A i \in 1..depth' : i \in 1..depth /\ stack'[i] = stack[i]
    BY <1>1, <1>5, FramesBelow DEF Return, At, life
  <2> QED
    BY <1>3, <1>4, <2>1
<1>6. CASE GoesOn
  <2>1. UNCHANGED <<worker, wallet>>
    BY <1>6 DEF GoesOn, Calm
  <2>2. Busy /\ OnlyTop /\ depth' = depth /\ stack'[depth].at # "deinit"
    BY <1>6 DEF GoesOn, TopGoesOn, Idle
  <2>3. \/ Grew(QuietKinds)
        \/ wallet = "ready" /\ Grew(Kinds \ {"deinitCompleted"})
    BY <1>6, GrewMore, KindNames DEF GoesOn, QuietKinds
  <2> QED
    BY <1>2, <1>3, <2>1, <2>2, <2>3
<1>7. CASE Moves
  <2>1. UNCHANGED <<worker, wallet, queue>>
    BY <1>7 DEF Moves, Calm
  <2>2. Busy /\ OnlyTop /\ depth' = depth /\ stack'[depth].at # "deinit"
    BY <1>7 DEF Moves, MovesTo, TopMoved
  <2> QED
    BY <1>2, <1>3, <1>4, <2>1, <2>2
<1>8. CASE ReturnDeleted /\ Top.ok
  <2>1. /\ Busy /\ Top.at = "held" /\ UNCHANGED <<worker, wallet>>
        /\ Post("addressDeleted") /\ depth' = depth + 1 /\ depth < MaxDepth
        /\ stack' = [stack EXCEPT ![depth].at = "emit",
                       ![depth + 1] = [Idle EXCEPT !.todo = <<"get">>]]
    BY <1>8 DEF ReturnDeleted, At, life
  <2>2. Grew(Kinds \ {"deinitCompleted"}) /\ wallet = "ready"
    BY <1>1, <2>1, LiveGrows, HolderRuns
  <2>3. stack \in [Frames -> Frame] /\ depth + 1 \in Frames /\ depth \in Frames
        /\ depth \in Nat
    BY <1>1, <2>1, FramesBelow, BoundsAssumption DEF Frames
  <2>4. /\ \A i \in 1..depth : i # depth => stack'[i] = stack[i]
        /\ stack'[depth].at = "emit" /\ stack'[depth + 1].at = "call"
    BY <2>1, <2>3, FramesBelow, <1>1 DEF Idle, Frame
  <2>5. NoNewExit
    BY <2>1, <2>3, <2>4
  <2> QED
    BY <1>3, <2>1, <2>2, <2>5
<1>9. CASE BeginOpen
  <2>1. /\ Busy /\ UNCHANGED <<depth, queue>> /\ worker' /\ wallet' = "starting"
        /\ ~worker
    BY <1>9 DEF BeginOpen, Calls
  <2>2. OnlyTop /\ stack'[depth].at = "init"
    BY <1>1, <1>9, <2>1, FramesBelow, TopInFrames DEF BeginOpen, OnlyTop, TypeInv, Frame
  <2> QED
    BY <1>1, <1>2, <1>4, <2>1, <2>2, QueueKept
<1>10. CASE BeginClose
  <2>1. /\ Busy /\ UNCHANGED <<depth, queue, worker>> /\ wallet' = "exiting"
        /\ HasWallet /\ EnterWorker("deinit")
    BY <1>10 DEF BeginClose, At, Calls
  <2>2. OnlyTop /\ ~stack'[depth].exited
    BY <1>1, <2>1, TopSteps, TopInFrames, FramesBelow DEF EnterWorker, TypeInv, Frame
  <2> QED
    BY <1>1, <1>2, <1>4, <2>1, <2>2, QueueKept DEF HasWallet
<1>11. CASE EmitOpened \/ OpenFailed
  <2>1. /\ Busy /\ UNCHANGED <<depth, worker, wallet>>
        /\ Top.at \in {"held", "opened"} /\ \E ops : Continue(ops)
        /\ \/ UNCHANGED queue
           \/ Post("opened")
           \/ Post("openError")
    BY <1>11 DEF EmitOpened, OpenFailed, At, life, ReportOpenError
  <2>2. OnlyTop /\ stack'[depth].at # "deinit"
    BY <1>1, <2>1, TopShapes DEF TopGoesOn, Idle
  <2>3. wallet = "ready"
    BY <2>1, HolderRuns
  <2>4. Grew(Kinds \ {"deinitCompleted"})
    BY <1>1, <2>1, QueueGrows, LiveGrows
  <2> QED
    BY <1>2, <1>3, <2>1, <2>2, <2>3, <2>4
<1>12. CASE EndClose \/ EndDiscard
  BY <1>12, QueueWorkerGone
<1> QED
  BY <1>5, <1>6, <1>7, <1>8, <1>9, <1>10, <1>11, <1>12, GuiShape

LEMMA QueueStep == QueueInv /\ [Next]_vars => QueueInv'
<1> SUFFICES ASSUME QueueInv, [Next]_vars PROVE QueueInv'
  OBVIOUS
<1>1. SessionInv /\ SessionInv' /\ TypeInv /\ TypeInv'
  <2>1. SessionInv /\ SessionInv'
    BY SessionStep DEF QueueInv
  <2> QED
    BY <2>1, SessionTypes DEF SessionInv, CaptureInv, TokenInv
<1> SUFFICES ASSUME exiting' = "no" PROVE QueueParts'
  BY <1>1 DEF QueueInv
<1>2. exiting = "no" /\ QueueParts /\ ~Quit /\ ~PrepareToQuit
  BY ExitingOnward DEF QueueInv, Quit, PrepareToQuit
<1>3. UNCHANGED queue => Grew(QuietKinds)
  BY <1>1, QueueGrows
<1>4. ASSUME UNCHANGED <<worker, wallet>>, Grew(QuietKinds),
             \A i \in 1..depth' :
               \/ /\ i \in 1..depth /\ stack'[i].at = stack[i].at
                  /\ stack[i].at = "deinit" => stack'[i].exited = stack[i].exited
               \/ stack'[i].at = "call"
      PROVE  QueueParts'
  BY <1>1, <1>2, <1>4, QueueKept
<1>5. ASSUME NEW a \in UserActions, UserInput(a) PROVE QueueParts'
  <2>1. UNCHANGED <<queue, worker, wallet>> /\ Push(Handler(a))
    BY <1>5 DEF UserInput, life
  <2>2. depth' = depth \/ (depth' = depth + 1 /\ stack'[depth + 1].at = "call")
    BY <1>1, <2>1, PushShape
  <2>3. \A i \in 1..depth : stack'[i] = stack[i]
    BY <1>1, <2>1, CaptureShape, SessionTypes
  <2>4. depth \in Nat
    BY <1>1, FramesBelow
  <2> QED
    BY <1>3, <1>4, <2>1, <2>2, <2>3, <2>4
<1>6. ASSUME NEW kind \in CoreKinds, ProcessEvent(kind) PROVE QueueParts'
  <2>1. UNCHANGED <<stack, depth, worker, wallet>> /\ pump
    BY <1>6 DEF ProcessEvent, gui, life
  <2>2. wallet \in {"ready", "exiting"} /\ worker
    BY <1>1, <2>1, SessionTypes
       DEF SessionInv, SessionParts, WalletFrames, CaptureInv, CaptureParts,
           WalletOfWorker
  <2>3. kind \in AllCoreKinds /\ {kind, "balance"} \subseteq Kinds \ {"deinitCompleted"}
    BY <1>6, ChoiceAssumption DEF AllCoreKinds, Kinds
  <2>4. Grew(Kinds \ {"deinitCompleted"})
    BY <1>1, <1>6, <2>3, ProcessGrows, GrewMore
  <2> QED
    BY <1>1, <1>2, <2>1, <2>2, <2>4, QueueKept
<1>7. CASE Dispatch
  BY <1>1, <1>2, <1>7, QueueDispatch
<1>8. CASE Gui
  BY <1>1, <1>2, <1>8, QueueGui
<1>9. CASE InitImpl
  <2>1. /\ UNCHANGED <<stack, depth, worker>> /\ wallet = "starting"
        /\ wallet' = "ready" /\ Post("initCompleted")
    BY <1>9 DEF InitImpl, gui
  <2>2. worker
    BY <1>1, <2>1, SessionTypes DEF CaptureInv, CaptureParts, WalletOfWorker
  <2>3. Grew(Kinds \ {"deinitCompleted"})
    BY <1>1, <2>1, QueueGrows, LiveGrows
  <2> QED
    BY <1>1, <1>2, <2>1, <2>2, <2>3, QueueKept
<1>10. CASE RunTask
  <2>1. UNCHANGED <<depth, queue, worker, wallet>> /\ HasTask
    BY <1>10 DEF RunTask, life, HasTask
  <2>2. task.frame \in 1..depth /\ stack[task.frame].at \in {"enter", "loop", "wait"}
    BY <1>1, <2>1, SessionTypes DEF TokenInv, TokenParts, TaskFrameOnStack
  <2>3. /\ \A i \in 1..depth : stack'[i].at = stack[i].at
        /\ \A i \in 1..depth : i # task.frame => stack'[i] = stack[i]
    BY <1>1, <1>10, FramesBelow DEF RunTask, Frame
  <2> QED
    BY <1>3, <1>4, <2>1, <2>2, <2>3
<1>11. CASE ExitImpl
  BY <1>1, <1>2, <1>11, QueueExit
<1>12. CASE Abort \/ UNCHANGED vars
  BY <1>3, <1>4, <1>12 DEF Abort, vars, gui, life
<1> QED
  BY <1>2, <1>5, <1>6, <1>7, <1>8, <1>9, <1>10, <1>11, <1>12
     DEF Next, Environment, Worker

LEMMA QueueInit == Init => QueueInv
<1> SUFFICES ASSUME Init PROVE QueueInv
  OBVIOUS
<1>1. \A k \in 1..Len(queue) : queue[k].kind = "loadRequest"
  BY DEF Init
<1> QED
  BY <1>1, SessionInit DEF Init, QueueInv, QueueParts, Quiet, QuietKinds

(***************************************************************************)
(* Nothing of a closed wallet is on its way to the observers: when         *)
(* WalletGreenAdapter::deleteWorker has returned, the posted events are at *)
(* most its own walletClosed and requests of NoWalletFrame to load.        *)
(***************************************************************************)
THEOREM ClosedWalletIsSilent == Spec => []NoEventWithoutWorker
<1>1. QueueInv => NoEventWithoutWorker
  <2> SUFFICES ASSUME QueueInv, ~worker, exiting = "no", NEW i \in DOMAIN queue
               PROVE  queue[i].kind \in {"closed", "loadRequest"}
    BY DEF NoEventWithoutWorker
  <2>1. i \in 1..Len(queue)
    BY SessionTypes, LenProperties DEF QueueInv, TypeInv, SessionTypeOK
  <2> QED
    BY <2>1 DEF QueueInv, QueueParts, Quiet, QuietKinds
<1> QED
  BY <1>1, QueueInit, QueueStep, PTL DEF Spec

-----------------------------------------------------------------------------
(* What the last shutdown finds and leaves.                                *)

ShutdownTodo == {<<"save", "shutdownClose">>, <<"shutdownClose">>, <<>>}

\* Below whatever the loops of the last shutdown dispatch, the one handler saves
\* and closes the wallet, and it is done with both exactly when the worker is
\* gone.
LastParts ==
    /\ depth = 0 => ~worker
    /\ depth > 0 => /\ stack[1].todo \in ShutdownTodo
                    /\ stack[1].todo = <<>> <=> ~worker
    /\ ~worker => depth <= 1
    /\ \A i \in 2..depth : stack[i].todo \in Seq(DispatchedOps)
    /\ \A i \in 1..depth : Doing(i, OpenOps) => stack[i].at = "call"

LastInv == SessionInv /\ (exiting = "last" => LastParts)

LEMMA ShutdownTail ==
    ASSUME NEW todo \in ShutdownTodo, todo # <<>>
    PROVE  \/ Head(todo) = "save" /\ Tail(todo) = <<"shutdownClose">>
           \/ Head(todo) = "shutdownClose" /\ Tail(todo) = <<>>
<1>1. CASE todo = <<"shutdownClose">>
  <2>1. todo \in Seq({"shutdownClose"}) /\ Len(todo) = 1 /\ todo # <<>> /\ Head(todo) = "shutdownClose"
    BY <1>1
  <2>2. Tail(todo) \in Seq({"shutdownClose"}) /\ Len(Tail(todo)) = 0
    BY <2>1, HeadTailProperties
  <2> QED
    BY <2>1, <2>2, EmptySeq
<1>2. CASE todo = <<"save", "shutdownClose">>
  <2> DEFINE T == {"save", "shutdownClose"}
             one == <<"shutdownClose">>
  <2>1. /\ todo \in Seq(T) /\ todo # <<>> /\ Len(todo) = 2
        /\ todo[2] = "shutdownClose" /\ Head(todo) = "save"
        /\ one \in Seq(T) /\ Len(one) = 1 /\ one[1] = "shutdownClose"
    BY <1>2
  <2> HIDE DEF one
  <2>2. /\ Tail(todo) \in Seq(T) /\ Len(Tail(todo)) = 1
        /\ \A i \in 1..Len(Tail(todo)) : Tail(todo)[i] = todo[i + 1]
    BY <2>1, HeadTailProperties
  <2>3. \A i \in 1..Len(Tail(todo)) : Tail(todo)[i] = one[i]
    <3>0. 1 \in 1..1 /\ \A i \in 1..1 : i = 1
      OBVIOUS
    <3>1. 1 \in 1..Len(Tail(todo)) /\ \A i \in 1..Len(Tail(todo)) : i = 1
      BY <2>2, <3>0, Zenon
    <3>2. Tail(todo)[1] = todo[1 + 1]
      BY <2>2, <3>1
    <3> QED
      BY <2>1, <3>1, <3>2
  <2>4. Tail(todo) = one
    BY <2>1, <2>2, <2>3, SeqEqual
  <2> QED
    BY <2>1, <2>4 DEF one
<1> QED
  BY <1>1, <1>2 DEF ShutdownTodo

\* The frames stay where they are.
LEMMA LastKept ==
    ASSUME SessionInv, LastParts, depth' = depth, worker' = worker,
           \A i \in 1..depth : SameFrame(i)
    PROVE  LastParts'
<1>1. depth \in Nat
  BY SessionTypes, FramesBelow
<1>2. \A i \in 1..depth : Doing(i, OpenOps)' = Doing(i, OpenOps)
  BY DEF SameFrame, Doing
<1>3. \A i \in 2..depth : i \in 1..depth
  BY <1>1
<1>4. depth > 0 => 1 \in 1..depth
  BY <1>1
<1> QED
  BY <1>1, <1>2, <1>3, <1>4 DEF LastParts, SameFrame

\* What the frame on top may be doing during the last shutdown.
LEMMA LastTop ==
    ASSUME SessionInv, LastParts, Busy, Top.todo # <<>>
    PROVE  /\ worker
           /\ Top.todo = stack[depth].todo
           /\ depth = 1 => /\ Top.todo \in ShutdownTodo
                           /\ Op \in {"save", "shutdownClose"}
           /\ depth # 1 => /\ depth \in 2..depth
                           /\ Op \in DispatchedOps
                           /\ Tail(Top.todo) \in Seq(DispatchedOps)
           /\ Op \in OpenOps => Top.at = "call"
<1>1. depth \in Nat /\ depth \in 1..depth /\ depth > 0 /\ Top = stack[depth]
      /\ Op = Head(stack[depth].todo)
  BY TopFacts DEF Busy
<1>2. worker
  <2>1. CASE depth = 1
    BY <1>1, <2>1 DEF LastParts
  <2>2. CASE depth # 1
    BY <1>1, <2>2 DEF LastParts
  <2> QED
    BY <2>1, <2>2
<1>3. depth = 1 => /\ Top.todo \in ShutdownTodo
                   /\ Op \in {"save", "shutdownClose"}
  <2>1. depth = 1 => Top.todo \in ShutdownTodo
    BY <1>1 DEF LastParts
  <2> QED
    BY <1>1, <2>1, ShutdownTail
<1>4. depth # 1 => /\ depth \in 2..depth
                   /\ Op \in DispatchedOps
                   /\ Tail(Top.todo) \in Seq(DispatchedOps)
  <2>1. depth # 1 => depth \in 2..depth
    BY <1>1
  <2>2. depth # 1 => Top.todo \in Seq(DispatchedOps)
    BY <1>1, <2>1 DEF LastParts
  <2> QED
    BY <1>1, <2>1, <2>2, HeadTailProperties
<1>5. Op \in OpenOps => Top.at = "call"
  BY <1>1 DEF LastParts, Doing
<1> QED
  BY <1>1, <1>2, <1>3, <1>4, <1>5

\* The frame on top changes, inside the last shutdown.
LEMMA LastMoved ==
    ASSUME SessionInv, LastParts, Busy, OnlyTop, depth' = depth,
           stack'[depth].at = "call" \/ Op \notin OpenOps \/ stack'[depth].todo # Top.todo,
           IF depth = 1
             THEN /\ stack'[depth].todo \in ShutdownTodo
                  /\ stack'[depth].todo = <<>> <=> ~worker'
             ELSE stack'[depth].todo \in Seq(DispatchedOps) /\ worker',
           stack'[depth].at = "call" \/ stack'[depth].todo = Top.todo
    PROVE  LastParts'
<1>1. depth \in Nat /\ depth \in 1..depth /\ depth > 0 /\ Top = stack[depth]
      /\ Op = Head(stack[depth].todo)
  BY TopFacts DEF Busy
<1>2. \A i \in 1..depth : i # depth => stack'[i] = stack[i]
  BY TopFacts DEF OnlyTop
<1>3. /\ stack'[1].todo \in ShutdownTodo
      /\ stack'[1].todo = <<>> <=> ~worker'
  <2>1. CASE depth = 1
    BY <2>1
  <2>2. CASE depth # 1
    <3>1. 1 \in 1..depth /\ ~(depth <= 1) /\ worker'
      BY <1>1, <2>2
    <3> QED
      BY <1>1, <1>2, <2>2, <3>1 DEF LastParts
  <2> QED
    BY <2>1, <2>2
<1>4. ~worker' => depth' <= 1
  BY <1>1
<1>5. \A i \in 2..depth' : stack'[i].todo \in Seq(DispatchedOps)
  BY <1>1, <1>2 DEF LastParts
<1>6. \A i \in 1..depth' : Doing(i, OpenOps)' => stack'[i].at = "call"
  BY <1>1, <1>2 DEF LastParts, Doing
<1> QED
  BY <1>1, <1>3, <1>4, <1>5, <1>6 DEF LastParts

LEMMA LastGui ==
    ASSUME SessionInv, LastParts, Gui
    PROVE  LastParts'
<1>1. Busy => /\ depth \in Nat /\ depth > 0 /\ depth \in 1..depth
              /\ Top = stack[depth]
  BY TopFacts DEF Busy
<1>2. CASE Return
  <2>1. /\ Busy /\ Top.todo = <<>> /\ depth' = depth - 1 /\ worker' = worker
        /\ \A i \in 1..depth' : i \in 1..depth /\ stack'[i] = stack[i]
    BY <1>2, SessionTypes, FramesBelow DEF Return, At, life
  <2>2. depth = 1 => ~worker
    BY <1>1, <2>1 DEF LastParts
  <2>3. depth # 1 => worker
    BY <1>1, <2>1 DEF LastParts
  <2> QED
    BY <1>1, <2>1, <2>2, <2>3 DEF LastParts, Doing
<1>3. CASE GoesOn
  <2>1. /\ Busy /\ OnlyTop /\ depth' = depth /\ stack'[depth].at = "call"
        /\ worker' = worker /\ Top.todo # <<>>
        /\ \/ stack'[depth].todo = Tail(Top.todo)
           \/ stack'[depth].todo = <<>> /\ Op \in {"changePassword", "createAddress"}
    BY <1>3 DEF GoesOn, TopGoesOn, Calm, Idle
  <2>2. worker /\ Op \notin CloseOps
    BY <1>3, <2>1, LastTop DEF GoesOn
  <2>3. depth = 1 => stack'[depth].todo = <<"shutdownClose">>
    <3>1. depth = 1 => Op = "save" /\ Top.todo \in ShutdownTodo
      BY <2>1, <2>2, LastTop DEF CloseOps, AdapterClose
    <3>2. depth = 1 => Tail(Top.todo) = <<"shutdownClose">>
      BY <2>1, <3>1, ShutdownTail DEF Op
    <3> QED
      BY <2>1, <3>1, <3>2
  <2>4. depth # 1 => stack'[depth].todo \in Seq(DispatchedOps)
    BY <2>1, LastTop, EmptySeq
  <2>5. <<"shutdownClose">> \in ShutdownTodo /\ <<"shutdownClose">> # <<>>
    BY DEF ShutdownTodo
  <2> QED
    BY <2>1, <2>2, <2>3, <2>4, <2>5, LastMoved
<1>4. ASSUME Busy, OnlyTop, depth' = depth, worker, worker' = worker, Op \notin OpenOps,
             stack'[depth].todo = Top.todo
      PROVE  LastParts'
  <2>1. depth = 1 => /\ stack'[depth].todo \in ShutdownTodo
                     /\ stack'[depth].todo = <<>> <=> ~worker'
    BY <1>1, <1>4 DEF LastParts
  <2>2. depth # 1 => stack'[depth].todo \in Seq(DispatchedOps)
    BY <1>1, <1>4 DEF LastParts
  <2> QED
    BY <1>4, <2>1, <2>2, LastMoved
<1>5. CASE Moves
  <2>1. /\ Busy /\ OnlyTop /\ depth' = depth /\ stack'[depth].todo = Top.todo
        /\ worker /\ worker' = worker
    BY <1>5 DEF Moves, MovesTo, TopMoved, Calm
  <2>2. Top.todo # <<>>
    BY <1>5, <2>1, TopFacts DEF Moves
  <2>3. Op \notin OpenOps
    BY <1>5, <2>1, <2>2, LastTop DEF Moves
  <2> QED
    BY <1>4, <2>1, <2>3
<1>6. CASE BeginClose
  <2>1. /\ Busy /\ UNCHANGED depth /\ EnterWorker("deinit") /\ worker /\ worker' = worker
        /\ \/ Top.at = "locking"
           \/ Top.at = "call" /\ Top.todo # <<>> /\ Op = "discard"
    BY <1>6 DEF BeginClose, At, Calls
  <2>2. Top.todo # <<>>
    BY <2>1, TopFacts
  <2>3. Op \notin OpenOps
    BY <2>1, <2>2, LastTop DEF OpenOps
  <2>4. OnlyTop /\ stack'[depth].todo = Top.todo
    BY <2>1, SessionTypes, TopSteps
  <2> QED
    BY <1>4, <2>1, <2>3, <2>4
<1>7. ~(ReturnDeleted /\ Top.ok)
  <2>1. ReturnDeleted => Busy /\ Top.at = "held" /\ Op = "deleteAddress"
    BY DEF ReturnDeleted, At
  <2> QED
    BY <2>1, LastTop, TopFacts DEF DispatchedOps
<1>8. ~BeginOpen
  <2>1. BeginOpen => Busy /\ Top.todo # <<>> /\ ~worker
    BY DEF BeginOpen, Calls
  <2> QED
    BY <2>1, LastTop
<1>9. ~EmitOpened /\ ~OpenFailed
  <2>1. EmitOpened \/ OpenFailed => Busy /\ Top.at \in {"opened", "held"} /\ Op \in OpenOps
    <3>1. EmitOpened => Busy /\ Top.at = "opened"
      BY DEF EmitOpened, At
    <3>2. EmitOpened => Op \in OpenOps
      BY <3>1, TopFacts DEF SessionInv, SessionParts, OpenedByFrame, Doing
    <3>3. OpenFailed => Busy /\ Top.at = "held" /\ Op \in OpenOps
      BY DEF OpenFailed, At
    <3> QED
      BY <3>1, <3>2, <3>3
  <2> QED
    BY <2>1, LastTop, TopFacts
<1>10. CASE EndClose \/ EndDiscard
  <2>1. /\ Busy /\ Top.at = "deinit" /\ depth' = depth /\ Finish /\ ~worker'
        /\ Op \in CloseOps
    BY <1>10 DEF EndClose, EndDiscard, WorkerGone, At, CloseOps
  <2>2. Top.todo # <<>>
    BY <2>1, TopFacts
  <2>3. depth = 1
    BY <2>1, <2>2, LastTop DEF DispatchedOps, CloseOps, AdapterClose
  <2>4. Tail(Top.todo) = <<>>
    <3>1. Op = "shutdownClose" /\ Top.todo \in ShutdownTodo
      BY <2>1, <2>2, <2>3, LastTop DEF CloseOps, AdapterClose
    <3> QED
      BY <2>2, <3>1, ShutdownTail DEF Op
  <2>5. OnlyTop /\ stack'[depth].at = "call" /\ stack'[depth].todo = <<>>
    BY <2>1, <2>4, SessionTypes, TopShapes DEF TopGoesOn, Idle
  <2>6. <<>> \in ShutdownTodo
    BY DEF ShutdownTodo
  <2> QED
    BY <2>1, <2>3, <2>5, <2>6, LastMoved
<1> QED
  BY <1>2, <1>3, <1>5, <1>6, <1>7, <1>8, <1>9, <1>10, GuiShape

\* quit() leaves all loops, then the last shutdown begins: with a wallet that
\* nobody else is opening or closing, or with none.
LEMMA LastBegins ==
    ASSUME SessionInv, PrepareToQuit
    PROVE  LastParts'
<1>1. /\ depth = 0 /\ worker' = worker /\ Push(DeinitCryptoNoteAdapter)
  BY SessionTypes, FramesBelow DEF PrepareToQuit, Busy, life
<1>2. worker => isOpen
  BY <1>1 DEF SessionInv, SessionParts, OpenedByFrame
<1>3. CASE Open
  <2>1. DeinitCryptoNoteAdapter = <<"save", "shutdownClose">>
    BY <1>3 DEF DeinitCryptoNoteAdapter
  <2>2. <<"save", "shutdownClose">> # <<>>
    OBVIOUS
  <2>3. /\ depth' = 1
        /\ stack' = [stack EXCEPT ![1] = [Idle EXCEPT !.todo = <<"save", "shutdownClose">>]]
    BY <1>1, <2>1, <2>2 DEF Push
  <2>4. stack'[1].todo = <<"save", "shutdownClose">> /\ stack'[1].at = "call"
    BY <2>3, SessionTypes, FramesBelow, BoundsAssumption DEF Idle, Frames
  <2> QED
    BY <1>1, <1>3, <2>2, <2>3, <2>4 DEF LastParts, ShutdownTodo, Open
<1>4. CASE ~Open
  <2>1. depth' = 0 /\ ~worker'
    BY <1>1, <1>2, <1>4 DEF DeinitCryptoNoteAdapter, Push, gui, Open
  <2> QED
    BY <2>1 DEF LastParts
<1> QED
  BY <1>3, <1>4

LEMMA LastDispatch ==
    ASSUME SessionInv, exiting = "last", LastParts, Dispatch
    PROVE  LastParts' /\ worker
<1>1. /\ Pushed(DispatchedOps) /\ worker' = worker
      /\ Busy /\ Top.at \in InLoops
  <2>1. PICK kind : Receive(kind)
    BY DispatchShape, SessionTypes
  <2> QED
    BY <2>1, DispatchShape, SessionTypes DEF Receive, InLoop, life
<1>2. worker
  BY <1>1, TopFacts, LastTop DEF InLoops
<1>3. depth \in Nat /\ depth > 0
  BY <1>1, TopFacts DEF Busy
<1>4. depth' \in {depth, depth + 1} /\ \A i \in 1..depth : SameFrame(i)
  BY <1>1 DEF Pushed
<1>5. \A i \in 2..depth' : stack'[i].todo \in Seq(DispatchedOps)
  <2>1. \A i \in 2..depth' : i \in 2..depth \/ (i = depth + 1 /\ depth' = depth + 1)
    BY <1>3, <1>4
  <2>2. \A i \in 2..depth : i \in 1..depth
    BY <1>3
  <2> QED
    BY <1>1, <2>1, <2>2 DEF LastParts, Pushed, SameFrame
<1>6. \A i \in 1..depth' : Doing(i, OpenOps)' => stack'[i].at = "call"
  <2>1. \A i \in 1..depth' : i \in 1..depth \/ (i = depth + 1 /\ depth' = depth + 1)
    BY <1>3, <1>4
  <2> QED
    BY <1>1, <2>1 DEF LastParts, Pushed, SameFrame, Doing
<1>7. /\ stack'[1].todo \in ShutdownTodo
      /\ stack'[1].todo = <<>> <=> ~worker'
  <2>1. 1 \in 1..depth
    BY <1>3
  <2> QED
    BY <1>1, <1>3, <1>4, <2>1 DEF LastParts, SameFrame
<1> QED
  BY <1>1, <1>2, <1>3, <1>4, <1>5, <1>6, <1>7 DEF LastParts

LEMMA LastStep == LastInv /\ [Next]_vars => LastInv'
<1> SUFFICES ASSUME LastInv, [Next]_vars PROVE LastInv'
  OBVIOUS
<1>1. SessionInv /\ SessionInv' /\ TypeInv
  <2>1. SessionInv /\ SessionInv'
    BY SessionStep DEF LastInv
  <2> QED
    BY <2>1, SessionTypes
<1> SUFFICES ASSUME exiting' = "last" PROVE LastParts'
  BY <1>1 DEF LastInv
<1>2. CASE PrepareToQuit
  BY <1>1, <1>2, LastBegins
<1>3. CASE ~PrepareToQuit
  <2>1. exiting = "last" /\ LastParts
    BY <1>3, ExitingOnward DEF LastInv, Quit
  <2>2. CASE Environment
    <3>1. PICK kind \in CoreKinds : ProcessEvent(kind)
      BY <2>1, <2>2 DEF Environment, UserInput, Quit, Offered
    <3>2. UNCHANGED <<stack, depth, worker>>
      BY <3>1 DEF ProcessEvent, gui, life
    <3> QED
      BY <1>1, <2>1, <3>2, LastKept DEF SameFrame
  <2>3. CASE Dispatch
    BY <1>1, <2>1, <2>3, LastDispatch
  <2>4. CASE Gui
    BY <1>1, <2>1, <2>4, LastGui
  <2>5. CASE RunTask
    <3>1. \A i \in 1..depth : SameFrame(i)
      BY <1>1, <2>5, FramesBelow DEF RunTask, SameFrame, Frame
    <3>2. UNCHANGED <<depth, worker>>
      BY <2>5 DEF RunTask, life
    <3> QED
      BY <1>1, <2>1, <3>1, <3>2, LastKept
  <2>6. CASE InitImpl \/ ExitImpl \/ Abort \/ UNCHANGED vars
    <3>1. UNCHANGED <<stack, depth, worker>>
      BY <2>6 DEF InitImpl, ExitImpl, Abort, vars, gui, life
    <3> QED
      BY <1>1, <2>1, <3>1, LastKept DEF SameFrame
  <2> QED
    BY <1>3, <2>2, <2>3, <2>4, <2>5, <2>6 DEF Next, Worker
<1> QED
  BY <1>2, <1>3

LEMMA LastInit == Init => LastInv
BY SessionInit DEF Init, LastInv

(***************************************************************************)
(* Wherever quit() interrupted it, the program ends with its wallet closed *)
(* and the wallet's thread gone: aboutToQuit comes when every handler has  *)
(* returned, so a wallet is then open or there is none, and the shutdown   *)
(* that WalletApplication::prepareToQuit runs closes it.                   *)
(***************************************************************************)
THEOREM ProgramEndsClosed == Spec => []EndsClosed
<1>1. LastInv => EndsClosed
  <2> SUFFICES ASSUME LastInv, Ended PROVE ~worker /\ wallet = "none" /\ ~HasTask
    BY DEF EndsClosed
  <2>1. SessionInv /\ depth = 0 /\ LastParts
    BY SessionTypes, FramesBelow DEF LastInv, Ended, Busy
  <2>2. ~worker
    BY <2>1 DEF LastParts
  <2> QED
    BY <2>1, <2>2, SessionTypes
       DEF CaptureInv, CaptureParts, WalletOfWorker, TokenInv, TokenParts,
           NoWorkerNoToken
<1> QED
  BY <1>1, LastInit, LastStep, PTL DEF Spec

-----------------------------------------------------------------------------
(* Who lets NoWalletFrame accept input again.                              *)

Queued(kind) == \E k \in 1..Len(queue) : queue[k].kind = kind

\* A handler that loads the wallet, not in a nested loop that outlived its worker.
Loader(i) ==
    /\ Doing(i, {"load"})
    /\ stack[i].at = "call" \/ (worker /\ stack[i].session = session)

\* NoWalletFrame waits for input only if somebody will answer what it asked for.
FormAnswered ==
    ~formEnabled =>
        \/ Queued("opened") \/ Queued("openError") \/ Queued("closed")
        \/ \E i \in 1..depth : Loader(i)

FormInv == SessionInv /\ FormAnswered

LEMMA QueuedKept ==
    ASSUME TypeInv, TypeInv'
    PROVE  /\ \A kinds : Grew(kinds) => \A kind : Queued(kind) => Queued(kind)'
           /\ \A kind \in Kinds : Post(kind) => Queued(kind)'
<1>1. Len(queue) \in Nat /\ Len(queue') \in Nat /\ queue \in Seq(Posted)
  BY LenProperties DEF TypeInv, SessionTypeOK
<1>2. \A kinds : Grew(kinds) => \A kind : Queued(kind) => Queued(kind)'
  BY <1>1 DEF Grew, Queued
<1>3. ASSUME NEW kind \in Kinds, Post(kind) PROVE Queued(kind)'
  <2>1. Event(kind) \in Posted /\ Event(kind).kind = kind
    BY DEF Event, Posted, TypeInv, SessionTypeOK
  <2>2. /\ Len(queue') = Len(queue) + 1
        /\ queue'[Len(queue) + 1] = Event(kind)
    BY <1>1, <1>3, <2>1, AppendProperties DEF Post
  <2>3. Len(queue) + 1 \in 1..Len(queue')
    BY <1>1, <2>2
  <2> QED
    BY <2>1, <2>2, <2>3 DEF Queued
<1> QED
  BY <1>2, <1>3

\* The first event is dispatched, the others stay.
LEMMA QueuedDispatch ==
    ASSUME TypeInv, NEW kind, Receive(kind)
    PROVE  /\ Len(queue) \in Nat /\ Len(queue') = Len(queue) - 1
           /\ 1 \in 1..Len(queue) /\ queue[1].kind = kind
           /\ \A k \in 1..Len(queue') : k + 1 \in 1..Len(queue) /\ queue'[k] = queue[k + 1]
           /\ \A other : other # kind /\ Queued(other) => Queued(other)'
<1>1. queue # <<>> /\ queue' = Tail(queue) /\ Head(queue).kind = kind
  BY DEF Receive
<1>2. /\ Len(queue) \in Nat /\ Len(queue') = Len(queue) - 1
      /\ \A k \in 1..Len(queue') : k + 1 \in 1..Len(queue) /\ queue'[k] = queue[k + 1]
      /\ Head(queue) = queue[1] /\ 1 \in 1..Len(queue)
  BY <1>1, HeadTailProperties, LenProperties, EmptySeq DEF TypeInv, SessionTypeOK
<1>3. ASSUME NEW other, other # kind, Queued(other) PROVE Queued(other)'
  <2>1. PICK k \in 1..Len(queue) : queue[k].kind = other
    BY <1>3 DEF Queued
  <2>2. k # 1
    BY <1>1, <1>2, <1>3, <2>1
  <2>3. k - 1 \in 1..Len(queue') /\ (k - 1) + 1 = k
    BY <1>2, <2>1, <2>2
  <2>4. queue'[k - 1] = queue[k]
    BY <1>2, <2>3
  <2> QED
    BY <2>1, <2>3, <2>4 DEF Queued
<1> QED
  BY <1>1, <1>2, <1>3

\* A step that takes nobody away who will answer.
LEMMA FormKept ==
    ASSUME FormAnswered, formEnabled' \in {formEnabled, TRUE},
           \A kind \in {"opened", "openError", "closed"} : Queued(kind) => Queued(kind)',
           \A i \in 1..depth : Loader(i) => i \in 1..depth' /\ Loader(i)'
    PROVE  FormAnswered'
BY DEF FormAnswered

LEMMA FormPushed ==
    ASSUME TypeInv, Pushed(PlainOps), UNCHANGED <<worker, session>>
    PROVE  \A i \in 1..depth : Loader(i) => i \in 1..depth' /\ Loader(i)'
<1>1. depth \in Nat
  BY FramesBelow
<1> QED
  BY <1>1 DEF Pushed, SameFrame, Loader, Doing

LEMMA FormGui ==
    ASSUME SessionInv, TypeInv', FormAnswered, Gui
    PROVE  FormAnswered'
<1>1. TypeInv
  BY SessionTypes
<1>2. /\ UNCHANGED queue => \A kind : Queued(kind) => Queued(kind)'
      /\ \A kinds : Grew(kinds) => \A kind : Queued(kind) => Queued(kind)'
  BY <1>1, QueuedKept DEF Queued
<1>3. Busy => \A i \in 1..depth : i # depth => stack[i].at # "call"
  <2>1. Busy => \A i \in 1..depth : i # depth => i < depth
    BY TopFacts
  <2> QED
    BY <2>1, TopFacts DEF InLoops
<1>4. CASE Return
  <2>1. /\ Busy /\ Top.todo = <<>> /\ UNCHANGED <<worker, session, queue, formEnabled>>
        /\ depth' = depth - 1 /\ stack' = [stack EXCEPT ![depth] = Idle]
    BY <1>4 DEF Return, At, life, view
  <2>2. \A i \in 1..depth : i # depth => i \in 1..depth' /\ stack'[i] = stack[i]
    BY <1>1, <2>1, TopFacts, FramesBelow
  <2>3. ~Loader(depth)
    BY <2>1, TopFacts DEF Loader, Doing
  <2>4. \A i \in 1..depth : Loader(i) => i \in 1..depth' /\ Loader(i)'
    BY <2>1, <2>2, <2>3 DEF Loader, Doing
  <2> QED
    BY <1>2, <2>1, <2>4, FormKept
<1>5. CASE GoesOn
  <2>1. /\ Busy /\ OnlyTop /\ depth' = depth
        /\ UNCHANGED <<worker, session, formEnabled>>
        /\ \E kinds : Grew(kinds)
    BY <1>5 DEF GoesOn, Calm, TopGoesOn
  <2>2. ~Loader(depth)
    BY <1>5, <2>1, TopFacts DEF GoesOn, Loader, Doing, OpenOps
  <2>3. \A i \in 1..depth : Loader(i) => i \in 1..depth' /\ Loader(i)'
    BY <2>1, <2>2, TopFacts DEF OnlyTop, Loader, Doing
  <2> QED
    BY <1>2, <2>1, <2>3, FormKept
<1>6. CASE Moves
  <2>1. /\ Busy /\ OnlyTop /\ depth' = depth /\ stack'[depth].todo = Top.todo
        /\ UNCHANGED <<worker, session, formEnabled, queue>>
    BY <1>6 DEF Moves, Calm, MovesTo, TopMoved
  <2>2. Op \in OpenOps => worker /\ Top.at # "call" /\ Top.session = stack'[depth].session
    BY <1>6, <2>1, TopFacts DEF Moves, MovesTo
  <2>3. Loader(depth) => Loader(depth)'
    BY <2>1, <2>2, TopFacts DEF Loader, Doing, OpenOps
  <2>4. \A i \in 1..depth : Loader(i) => i \in 1..depth' /\ Loader(i)'
    BY <2>1, <2>3, TopFacts DEF OnlyTop, Loader, Doing
  <2> QED
    BY <1>2, <2>1, <2>4, FormKept
<1>7. CASE ReturnDeleted /\ Top.ok
  <2>1. /\ Busy /\ Op = "deleteAddress" /\ depth' = depth + 1 /\ depth < MaxDepth
        /\ UNCHANGED <<worker, session, formEnabled>> /\ Post("addressDeleted")
        /\ stack' = [stack EXCEPT ![depth].at = "emit",
                       ![depth + 1] = [Idle EXCEPT !.todo = <<"get">>]]
    BY <1>7 DEF ReturnDeleted, At, life, view
  <2>2. \A i \in 1..depth : i # depth => i \in 1..depth' /\ stack'[i] = stack[i]
    BY <1>1, <2>1, TopFacts, FramesBelow
  <2>3. ~Loader(depth)
    BY <2>1, TopFacts DEF Loader, Doing
  <2>4. \A i \in 1..depth : Loader(i) => i \in 1..depth' /\ Loader(i)'
    BY <2>1, <2>2, <2>3 DEF Loader, Doing
  <2> QED
    BY <1>1, <1>2, <2>1, <2>4, FormKept, QueueGrows, KindNames
<1>8. CASE BeginOpen
  <2>1. /\ Busy /\ ~worker /\ worker' /\ session' = session + 1 /\ depth' = depth
        /\ UNCHANGED <<queue, formEnabled>>
        /\ stack' = [stack EXCEPT ![depth].at = "init",
                              ![depth].session = session + 1,
                              ![depth].exited = exiting = "unwind"]
    BY <1>8 DEF BeginOpen, Calls, view
  <2>2. stack'[depth].todo = stack[depth].todo /\ stack'[depth].session = session + 1
    BY <1>1, <2>1, FramesBelow DEF Frame
  <2>3. Loader(depth) => Loader(depth)'
    BY <2>1, <2>2 DEF Loader, Doing
  <2>4. \A i \in 1..depth : i # depth => ~Loader(i)
    BY <1>3, <2>1 DEF Loader
  <2> QED
    BY <1>2, <2>1, <2>3, <2>4, FormKept
<1>9. CASE BeginClose
  <2>1. /\ Busy /\ worker /\ EnterWorker("deinit") /\ depth' = depth
        /\ UNCHANGED <<queue, formEnabled, worker, session>>
    BY <1>9 DEF BeginClose, At, Calls, view
  <2>2. OnlyTop /\ stack'[depth].todo = Top.todo /\ stack'[depth].session = session
    BY <1>1, <2>1, TopSteps
  <2>3. Loader(depth) => Loader(depth)'
    BY <2>1, <2>2, TopFacts DEF Loader, Doing
  <2>4. \A i \in 1..depth : Loader(i) => i \in 1..depth' /\ Loader(i)'
    BY <2>1, <2>2, <2>3, TopFacts DEF OnlyTop, Loader, Doing
  <2> QED
    BY <1>2, <2>1, <2>4, FormKept
<1>10. CASE EmitOpened
  <2>1. Queued("opened")'
    BY <1>1, <1>10, QueuedKept, KindNames DEF EmitOpened
  <2> QED
    BY <2>1 DEF FormAnswered
<1>11. CASE OpenFailed
  <2>1. CASE Op = "load"
    <3>1. Queued("openError")'
      BY <1>1, <1>11, <2>1, QueuedKept, KindNames DEF OpenFailed, ReportOpenError
    <3> QED
      BY <3>1 DEF FormAnswered
  <2>2. CASE Op # "load"
    <3>1. /\ Busy /\ UNCHANGED <<queue, formEnabled>> /\ Opener(depth)
      BY <1>11, <2>2, SessionOpenFailed DEF OpenFailed, At, view
    <3>2. \A i \in 1..depth : ~Loader(i)
      <4>1. \A i \in 1..depth : i # depth => stack[i].at = "loop" /\ stack[i].session # session
        BY <3>1, TopFacts DEF SessionInv, SessionParts, OpenerAboveStale
      <4> QED
        BY <2>2, <3>1, <4>1, TopFacts DEF Loader, Doing
    <3> QED
      BY <1>2, <3>1, <3>2, FormKept
  <2> QED
    BY <2>1, <2>2
<1>12. CASE EndClose
  BY <1>12 DEF EndClose, TellClosed, FormAnswered
<1>13. CASE EndDiscard
  <2>1. /\ Busy /\ Op = "discard" /\ Top.todo # <<>> /\ UNCHANGED formEnabled
        /\ Post("closed") \/ UNCHANGED queue
    BY <1>13, TopFacts DEF EndDiscard, WorkerGone, At
  <2>2. Discarder(depth)
    BY <2>1, TopFacts DEF Discarder, Doing
  <2>3. \A i \in 1..depth : ~Loader(i)
    <3>1. \A i \in 1..depth : i # depth => stack[i].at = "loop" /\ stack[i].session # session
      BY <2>1, <2>2, TopFacts DEF SessionInv, SessionParts, OpenerAboveStale
    <3> QED
      BY <2>1, <3>1, TopFacts DEF Loader, Doing
  <2>4. \A kind : Queued(kind) => Queued(kind)'
    BY <1>1, <1>2, <2>1, QueueGrows, KindNames
  <2> QED
    BY <2>1, <2>3, <2>4, FormKept
<1> QED
  BY <1>4, <1>5, <1>6, <1>7, <1>8, <1>9, <1>10, <1>11, <1>12, <1>13, GuiShape

LEMMA FormDispatch ==
    ASSUME SessionInv, FormAnswered, Dispatch
    PROVE  FormAnswered'
<1>1. PICK kind : Receive(kind)
  BY DispatchShape, SessionTypes
<1>2. \A i \in 1..depth : Loader(i) => i \in 1..depth' /\ Loader(i)'
  <2>1. DispatchedOps \subseteq PlainOps
    BY PlainNames DEF DispatchedOps
  <2>2. Pushed(PlainOps) /\ UNCHANGED <<worker, session>>
    BY <1>1, <2>1, SessionTypes, DispatchShape, PushedMore DEF Receive, life
  <2> QED
    BY <2>2, SessionTypes, FormPushed
<1>3. CASE formEnabled'
  BY <1>3 DEF FormAnswered
<1>4. CASE ~formEnabled'
  <2>1. /\ ~OnWalletOpened /\ ~OnWalletOpenError /\ ~OnWalletClosed
    BY <1>4 DEF OnWalletOpened, OnWalletOpenError, OnWalletClosed
  <2>2. /\ UNCHANGED formEnabled
        /\ Head(queue).kind \notin {"opened", "openError", "closed"}
    BY <2>1
       DEF Dispatch, OnPasswordChanged, OnSynchronizationCompleted, OnBalance,
           OnAddressCreated, OnQuietEvent, OnLoadRequest, OnQuit, Receive
  <2>3. \A other \in {"opened", "openError", "closed"} : Queued(other) => Queued(other)'
    BY <1>1, <2>2, SessionTypes, QueuedDispatch DEF Receive
  <2> QED
    BY <1>2, <2>2, <2>3, FormKept
<1> QED
  BY <1>3, <1>4

LEMMA FormStep == FormInv /\ [Next]_vars => FormInv'
<1> SUFFICES ASSUME FormInv, [Next]_vars PROVE FormInv'
  OBVIOUS
<1>1. SessionInv /\ SessionInv' /\ TypeInv /\ TypeInv'
  <2>1. SessionInv /\ SessionInv'
    BY SessionStep DEF FormInv
  <2> QED
    BY <2>1, SessionTypes DEF SessionInv, CaptureInv, TokenInv
<1>2. FormAnswered
  BY DEF FormInv
<1> SUFFICES FormAnswered'
  BY <1>1 DEF FormInv
<1>3. ASSUME UNCHANGED formEnabled, \E kinds : Grew(kinds), ~Gui PROVE FormAnswered'
  <2>1. \A i \in 1..depth : Loader(i) => i \in 1..depth' /\ Loader(i)'
    BY <1>1, <1>3, OtherSteps, FormPushed
  <2>2. \A kind : Queued(kind) => Queued(kind)'
    BY <1>1, <1>3, QueuedKept
  <2> QED
    BY <1>2, <1>3, <2>1, <2>2, FormKept
<1>4. UNCHANGED queue => \E kinds : Grew(kinds)
  BY <1>1, QueueGrows
<1>5. CASE Gui
  BY <1>1, <1>2, <1>5, FormGui
<1>6. ASSUME NEW a \in UserActions, UserInput(a), ~Gui PROVE FormAnswered'
  <2>1. CASE a = "unlock"
    <3>1. /\ Handler(a) = OkClicked /\ Handler(a) # <<>> /\ Push(Handler(a))
      BY <1>6, <2>1 DEF UserInput, Handler
    <3>2. Handler(a) = <<"load", "askPassword">>
      BY <3>1 DEF OkClicked
    <3>3. /\ depth' = depth + 1 /\ depth + 1 \in Frames
          /\ stack' = [stack EXCEPT ![depth + 1] = [Idle EXCEPT !.todo = Handler(a)]]
      BY <1>1, <3>1, FramesBelow, BoundsAssumption DEF Push, Frames
    <3>4. /\ stack'[depth + 1].at = "call"
          /\ stack'[depth + 1].todo = <<"load", "askPassword">>
      BY <1>1, <3>2, <3>3, FramesBelow DEF Idle
    <3>5. <<"load", "askPassword">> # <<>> /\ Head(<<"load", "askPassword">>) = "load"
      OBVIOUS
    <3>6. stack'[depth + 1].todo # <<>> /\ Head(stack'[depth + 1].todo) \in {"load"}
      BY <3>4, <3>5
    <3>7. \A i : i = depth + 1 => Loader(i)'
      BY <3>4, <3>6 DEF Loader, Doing
    <3>8. depth + 1 \in 1..depth'
      BY <1>1, <3>3, FramesBelow
    <3> QED
      BY <3>7, <3>8 DEF FormAnswered
  <2>2. CASE a # "unlock"
    <3>1. UNCHANGED <<queue>> /\ formEnabled' = (formEnabled /\ TRUE)
      BY <1>6, <2>2 DEF UserInput
    <3>2. formEnabled' = formEnabled
      BY <1>1, <3>1 DEF TypeInv, SessionTypeOK
    <3> QED
      BY <1>3, <1>4, <1>6, <3>1, <3>2
  <2> QED
    BY <2>1, <2>2
<1>7. CASE Dispatch
  BY <1>1, <1>2, <1>7, FormDispatch
<1>8. CASE ~Gui /\ (Quit \/ PrepareToQuit \/ RunTask \/ Abort \/ UNCHANGED vars)
  <2>1. UNCHANGED <<queue, formEnabled>>
    BY <1>8 DEF Quit, PrepareToQuit, RunTask, Abort, vars, view
  <2> QED
    BY <1>3, <1>4, <1>8, <2>1
<1>9. CASE ~Gui /\ (InitImpl \/ ExitImpl)
  <2>1. UNCHANGED formEnabled /\ (Post("initCompleted") \/ Post("deinitCompleted"))
    BY <1>9 DEF InitImpl, ExitImpl, view
  <2> QED
    BY <1>1, <1>3, <1>9, <2>1, QueueGrows, KindNames
<1>10. ASSUME NEW kind \in CoreKinds, ProcessEvent(kind), ~Gui PROVE FormAnswered'
  BY <1>1, <1>3, <1>10, ProcessGrows, ChoiceAssumption DEF ProcessEvent, view
<1> QED
  BY <1>5, <1>6, <1>7, <1>8, <1>9, <1>10 DEF Next, Environment, Worker

(***************************************************************************)
(* When the GUI is idle, NoWalletFrame accepts a password: whoever took    *)
(* its input away has been answered by walletOpened, walletOpenError or    *)
(* walletClosed.                                                           *)
(***************************************************************************)
THEOREM PasswordIsAccepted == Spec => []FormUsable
<1>1. Init => FormInv
  BY SessionInit DEF Init, FormInv, FormAnswered
<1>2. FormInv => FormUsable
  <2> SUFFICES ASSUME FormInv, ~Busy, queue = <<>> PROVE formEnabled
    BY DEF FormUsable
  <2>1. depth = 0 /\ Len(queue) = 0
    BY SessionTypes, FramesBelow, EmptySeq DEF FormInv, Busy
  <2> QED
    BY <2>1 DEF FormInv, FormAnswered, Queued
<1> QED
  BY <1>1, <1>2, FormStep, PTL DEF Spec

-----------------------------------------------------------------------------
(* What the observers of the adapter were told.                            *)

\* A wallet they can be told of: it has been opened and is still there.
Tellable == worker /\ (isOpen \/ wallet \in {"exiting", "stopped"})

\* After a walletOpened there is no older walletClosed on the way.
InOrder ==
    \A j, k \in 1..Len(queue) :
        j < k /\ queue[j].kind = "opened" => queue[k].kind # "closed"

\* After quit() discarded a wallet, no handler left opens another one.
Hopeless ==
    /\ ~worker
    /\ \A i \in 1..depth :
         \/ stack[i].at = "loop" /\ stack[i].session # session
         \/ /\ i = depth
            /\ stack[i].at = "call"
            /\ stack[i].todo \in Seq({"nameOld", "askPassword"})

ToldOfOpen ==
    /\ modelsOpen => Tellable
    /\ \A i \in 1..depth : Discarder(i) => ~modelsOpen
    /\ modelsOpen => ~Queued("closed")
    /\ isOpen => modelsOpen \/ Queued("opened")

OpenedOnTheWay ==
    exiting = "no" /\ Queued("opened") =>
        Tellable /\ \A i \in 1..depth : ~Discarder(i)

\* The queue only matters while it is dispatched: quit() may leave walletClosed
\* after walletOpened, but then no loop runs any more.
OrderMatters ==
    \/ InOrder
    \/ exiting = "unwind" /\ Hopeless
    \/ exiting = "last" /\ depth = 0

ToldParts == ToldOfOpen /\ OpenedOnTheWay /\ OrderMatters

ToldInv == QueueInv /\ LastInv /\ ToldParts

LEMMA InOrderKept ==
    ASSUME TypeInv, TypeInv', NEW kinds, Grew(kinds), "closed" \notin kinds, InOrder
    PROVE  InOrder'
<1>1. Len(queue) \in Nat /\ Len(queue') \in Nat
  BY LenProperties DEF TypeInv, SessionTypeOK
<1> QED
  BY <1>1 DEF Grew, InOrder

LEMMA QueuedBefore ==
    ASSUME TypeInv, TypeInv', NEW kinds, Grew(kinds), NEW kind, kind \notin kinds
    PROVE  Queued(kind)' => Queued(kind)
<1>1. Len(queue) \in Nat /\ Len(queue') \in Nat
  BY LenProperties DEF TypeInv, SessionTypeOK
<1> QED
  BY <1>1 DEF Grew, Queued

\* A step that opens, closes and tells nothing.
LEMMA ToldKept ==
    ASSUME TypeInv, TypeInv', ToldParts, UNCHANGED <<modelsOpen, exiting>>,
           Tellable => Tellable',
           isOpen' => isOpen,
           \A i \in 1..depth' : Discarder(i)' => i \in 1..depth /\ Discarder(i),
           NEW kinds, Grew(kinds), "opened" \notin kinds, "closed" \notin kinds,
           exiting = "unwind" /\ Hopeless => Hopeless',
           exiting = "last" /\ depth = 0 => depth' = 0
    PROVE  ToldParts'
<1>1. /\ Queued("opened")' => Queued("opened")
      /\ Queued("closed")' => Queued("closed")
      /\ Queued("opened") => Queued("opened")'
  BY QueuedBefore, QueuedKept
<1>2. InOrder => InOrder'
  BY InOrderKept
<1>3. ToldOfOpen'
  BY <1>1 DEF ToldParts, ToldOfOpen
<1>4. OpenedOnTheWay'
  BY <1>1 DEF ToldParts, OpenedOnTheWay
<1>5. OrderMatters'
  BY <1>2 DEF ToldParts, OrderMatters
<1> QED
  BY <1>3, <1>4, <1>5 DEF ToldParts

\* The last shutdown discards no wallet and opens none.
LEMMA LastTellable ==
    ASSUME SessionInv, LastParts
    PROVE  /\ \A i \in 1..depth : ~Discarder(i)
           /\ worker => Tellable
<1>1. depth \in Nat
  BY SessionTypes, FramesBelow
<1>2. ASSUME NEW i \in 1..depth, Discarder(i) PROVE FALSE
  <2>1. stack[i].todo # <<>> /\ Head(stack[i].todo) = "discard"
    BY <1>2 DEF Discarder, Doing
  <2>2. CASE i = 1
    <3>1. stack[i].todo \in ShutdownTodo
      BY <1>1, <2>2 DEF LastParts
    <3> QED
      BY <2>1, <3>1, ShutdownTail
  <2>3. CASE i # 1
    <3>1. stack[i].todo \in Seq(DispatchedOps)
      BY <1>1, <2>3 DEF LastParts
    <3>2. Head(stack[i].todo) \in DispatchedOps
      BY <2>1, <3>1, HeadTailProperties
    <3> QED
      BY <2>1, <3>2 DEF DispatchedOps
  <2> QED
    BY <2>2, <2>3
<1>3. \A i \in 1..depth : ~Opener(i)
  BY DEF LastParts, Opener
<1>4. worker /\ ~isOpen => \E i \in 1..depth : stack[i].at = "deinit"
  BY <1>2, <1>3 DEF SessionInv, SessionParts, OpenedByFrame
<1>5. worker => Tellable
  BY <1>4 DEF Tellable, SessionInv, SessionParts, WalletFrames
<1> QED
  BY <1>2, <1>5

\* New handlers start by discarding nothing.
LEMMA DiscardersPushed ==
    ASSUME TypeInv, Pushed(PlainOps)
    PROVE  \A i \in 1..depth' : Discarder(i)' => i \in 1..depth /\ Discarder(i)
<1>1. depth \in Nat /\ depth' \in {depth, depth + 1}
  BY FramesBelow DEF Pushed
<1>2. \A i \in 1..depth : Discarder(i)' = Discarder(i)
  BY DEF Pushed, SameFrame, Discarder, Doing
<1>3. \A i : i = depth + 1 /\ depth' = depth + 1 => ~Discarder(i)'
  <2>1. depth' = depth + 1 => Head(stack'[depth + 1].todo) \in PlainOps
    BY HeadTailProperties DEF Pushed
  <2> QED
    BY <2>1 DEF Discarder, Doing, PlainOps
<1>4. \A i \in 1..depth' : i \in 1..depth \/ (i = depth + 1 /\ depth' = depth + 1)
  BY <1>1
<1> QED
  BY <1>2, <1>3, <1>4

\* Dispatching an event tells the observers of the wallet that is open.
LEMMA ToldDispatch ==
    ASSUME ToldInv, TypeInv', Dispatch
    PROVE  ToldParts'
<1>1. SessionInv /\ TypeInv /\ ToldParts
  BY SessionTypes DEF ToldInv, QueueInv
<1>2. PICK kind : Receive(kind)
  BY <1>1, DispatchShape
<1>3. /\ UNCHANGED <<worker, wallet, isOpen, exiting>>
      /\ exiting = "no" \/ (exiting = "last" /\ Busy)
  BY <1>1, <1>2 DEF Receive, life, flags, spent, InLoop, TypeInv, SessionTypeOK
<1>4. \A i \in 1..depth' : Discarder(i)' => i \in 1..depth /\ Discarder(i)
  <2>1. DispatchedOps \subseteq PlainOps
    BY PlainNames DEF DispatchedOps
  <2> QED
    BY <1>1, <2>1, DispatchShape, PushedMore, DiscardersPushed
<1>5. exiting = "last" => LastParts /\ worker
  BY <1>1, LastDispatch DEF ToldInv, LastInv
<1>6. Tellable' = Tellable
  BY <1>3 DEF Tellable
<1>7. /\ Len(queue) \in Nat /\ Len(queue') = Len(queue) - 1
      /\ 1 \in 1..Len(queue) /\ queue[1].kind = kind
      /\ \A k \in 1..Len(queue') : k + 1 \in 1..Len(queue) /\ queue'[k] = queue[k + 1]
      /\ \A other : other # kind /\ Queued(other) => Queued(other)'
  BY <1>1, <1>2, QueuedDispatch
<1>8. \A other : Queued(other)' => Queued(other)
  BY <1>7 DEF Queued
<1>9. InOrder /\ InOrder'
  <2>1. InOrder
    BY <1>1, <1>3, TopFacts DEF ToldParts, OrderMatters, Busy
  <2>2. \A j, k \in 1..Len(queue') : j < k => j + 1 < k + 1
    BY <1>7
  <2> QED
    BY <1>7, <2>1, <2>2 DEF InOrder
<1>10. OrderMatters'
  BY <1>9 DEF OrderMatters
<1>11. OpenedOnTheWay'
  BY <1>1, <1>3, <1>4, <1>6, <1>8 DEF ToldParts, OpenedOnTheWay
<1>12. ToldOfOpen'
  <2>1. CASE kind = "opened"
    <3>1. Queued("opened")
      BY <1>7, <2>1 DEF Queued
    <3>2. Tellable /\ \A i \in 1..depth : ~Discarder(i)
      BY <1>1, <1>3, <1>5, <3>1, LastTellable DEF ToldParts, OpenedOnTheWay
    <3>3. ~Queued("closed")'
      <4>1. \A k \in 1..Len(queue) : k # 1 => queue[k].kind # "closed"
        BY <1>7, <1>9, <2>1 DEF InOrder
      <4>2. \A k \in 1..Len(queue') : k + 1 # 1
        BY <1>7
      <4> QED
        BY <1>7, <4>1, <4>2 DEF Queued
    <3>4. modelsOpen'
      <4>1. OnWalletOpened
        BY <1>2, <2>1
           DEF Dispatch, OnWalletOpened, OnWalletOpenError, OnWalletClosed,
               OnPasswordChanged, OnSynchronizationCompleted, OnBalance,
               OnAddressCreated, OnQuietEvent, OnLoadRequest, OnQuit, Receive
      <4> QED
        BY <4>1 DEF OnWalletOpened
    <3> QED
      BY <1>4, <1>6, <3>2, <3>3, <3>4 DEF ToldOfOpen
  <2>2. CASE kind = "closed"
    <3>1. ~modelsOpen'
      <4>1. OnWalletClosed
        BY <1>2, <2>2
           DEF Dispatch, OnWalletOpened, OnWalletOpenError, OnWalletClosed,
               OnPasswordChanged, OnSynchronizationCompleted, OnBalance,
               OnAddressCreated, OnQuietEvent, OnLoadRequest, OnQuit, Receive
      <4> QED
        BY <4>1 DEF OnWalletClosed
    <3>2. Queued("closed")
      BY <1>7, <2>2 DEF Queued
    <3>3. isOpen => Queued("opened")'
      BY <1>1, <1>7, <2>2, <3>2 DEF ToldParts, ToldOfOpen
    <3> QED
      BY <1>3, <3>1, <3>3 DEF ToldOfOpen
  <2>3. CASE kind \notin {"opened", "closed"}
    <3>1. UNCHANGED modelsOpen
      BY <1>2, <2>3
         DEF Dispatch, OnWalletOpened, OnWalletOpenError, OnWalletClosed,
             OnPasswordChanged, OnSynchronizationCompleted, OnBalance,
             OnAddressCreated, OnQuietEvent, OnLoadRequest, OnQuit, Receive
    <3>2. Queued("opened") => Queued("opened")'
      BY <1>7, <2>3
    <3> QED
      BY <1>1, <1>3, <1>4, <1>6, <1>8, <3>1, <3>2 DEF ToldParts, ToldOfOpen
  <2> QED
    BY <2>1, <2>2, <2>3
<1> QED
  BY <1>10, <1>11, <1>12 DEF ToldParts

\* The wallet is open, and walletOpened is posted.
LEMMA ToldEmitOpened ==
    ASSUME ToldInv, TypeInv', EmitOpened
    PROVE  ToldParts'
<1>1. SessionInv /\ TypeInv /\ ToldParts
  BY SessionTypes DEF ToldInv, QueueInv
<1>2. /\ Busy /\ Top.at = "opened" /\ isOpen' /\ Post("opened")
      /\ UNCHANGED <<depth, worker, wallet, modelsOpen, exiting>>
  BY DEF EmitOpened, At, life, view, spent
<1>3. worker /\ Opener(depth)
  <2>1. worker /\ Top.session = session
    BY <1>1, <1>2, HolderRuns
  <2> QED
    BY <1>1, <1>2, <2>1, TopFacts DEF Opener, SessionInv, SessionParts, OpenedByFrame
<1>4. Tellable'
  BY <1>2, <1>3 DEF Tellable
<1>5. Queued("opened")'
  BY <1>1, <1>2, QueuedKept, KindNames
<1>6. Grew({"opened"})
  BY <1>1, <1>2, QueueGrows, KindNames
<1>7. Queued("closed")' => Queued("closed")
  BY <1>1, <1>6, QueuedBefore
<1>8. \A i \in 1..depth' : ~Discarder(i)'
  <2>1. \A i \in 1..depth : i # depth => ~Discarder(i) /\ stack'[i] = stack[i]
    <3>1. \A i \in 1..depth : i # depth => stack[i].at = "loop"
      BY <1>1, <1>2, <1>3, TopFacts DEF SessionInv, SessionParts, OpenerAboveStale
    <3>2. OnlyTop
      BY <1>1, <1>2, TopSteps DEF EmitOpened
    <3>3. \A i \in 1..depth : Discarder(i) => stack[i].at \in {"call", "deinit"}
      BY <1>1 DEF SessionInv, SessionParts, DiscardComesFirst, Discarder, Doing
    <3> QED
      BY <1>1, <1>2, <3>1, <3>2, <3>3, TopFacts DEF OnlyTop
  <2>2. PICK ops \in Seq(PlainOps) : Continue(ops)
    <3>1. Tail(Top.todo) \in Seq(PlainOps)
      BY <1>1, <1>2, TopFacts DEF SessionInv, SessionParts, DiscardComesFirst
    <3>2. <<"nameChosen">> \in Seq(PlainOps)
      BY PlainNames
    <3> QED
      BY <3>1, <3>2 DEF EmitOpened
  <2>3. TopGoesOn(ops)
    BY <1>1, <1>2, <2>2, TopShapes
  <2>4. stack'[depth].todo = ops
    BY <2>3 DEF TopGoesOn, Idle
  <2>5. ~Discarder(depth)'
    <3>1. ops # <<>> => Head(ops) \in PlainOps
      BY HeadTailProperties
    <3> QED
      BY <1>2, <2>4, <3>1 DEF Discarder, Doing, PlainOps
  <2> QED
    BY <1>2, <2>1, <2>5 DEF Discarder, Doing
<1>9. ToldOfOpen'
  BY <1>1, <1>2, <1>4, <1>5, <1>7, <1>8 DEF ToldParts, ToldOfOpen
<1>10. OpenedOnTheWay'
  BY <1>4, <1>8 DEF OpenedOnTheWay
<1>11. InOrder'
  <2>1. InOrder
    BY <1>1, <1>2, <1>3 DEF ToldParts, OrderMatters, Hopeless, Busy
  <2> QED
    BY <1>1, <1>6, <2>1, InOrderKept
<1> QED
  BY <1>9, <1>10, <1>11 DEF ToldParts, OrderMatters

\* The wallet did not open: nobody was told that it had.
LEMMA ToldOpenFailed ==
    ASSUME ToldInv, TypeInv', OpenFailed
    PROVE  ToldParts'
<1>1. SessionInv /\ TypeInv /\ ToldParts
  BY SessionTypes DEF ToldInv, QueueInv
<1>2. /\ Busy /\ Top.at = "held"
      /\ UNCHANGED <<depth, worker, wallet, isOpen, modelsOpen, exiting>>
      /\ Post("openError") \/ UNCHANGED queue
  BY DEF OpenFailed, At, life, flags, view, spent, ReportOpenError
<1>3. worker /\ ~Tellable
  <2>1. worker /\ wallet = "ready"
    BY <1>1, <1>2, HolderRuns
  <2>2. ~isOpen
    BY <1>1, <1>2, SessionOpenFailed, TopFacts DEF SessionInv, SessionParts, OpenedByFrame
  <2> QED
    BY <2>1, <2>2 DEF Tellable
<1>4. Grew({"openError"})
  BY <1>1, <1>2, QueueGrows, KindNames
<1>5. /\ Queued("closed")' => Queued("closed")
      /\ Queued("opened")' => Queued("opened")
  BY <1>1, <1>4, QueuedBefore
<1>6. ~modelsOpen /\ ~isOpen
  BY <1>1, <1>3 DEF ToldParts, ToldOfOpen, Tellable
<1>7. ToldOfOpen'
  BY <1>2, <1>6 DEF ToldOfOpen
<1>8. OpenedOnTheWay'
  BY <1>1, <1>2, <1>3, <1>5 DEF ToldParts, OpenedOnTheWay
<1>9. InOrder'
  <2>1. InOrder
    BY <1>1, <1>2, <1>3 DEF ToldParts, OrderMatters, Hopeless, Busy
  <2> QED
    BY <1>1, <1>4, <2>1, InOrderKept
<1> QED
  BY <1>7, <1>8, <1>9 DEF ToldParts, OrderMatters

\* The worker is gone: the observers were told, or never knew of its wallet.
LEMMA ToldWorkerGone ==
    ASSUME ToldInv, TypeInv', QueueInv', EndClose \/ EndDiscard
    PROVE  ToldParts'
<1>1. SessionInv /\ TypeInv /\ ToldParts
  BY SessionTypes DEF ToldInv, QueueInv
<1>2. /\ Busy /\ Top.at = "deinit" /\ Top.todo # <<>> /\ wallet = "stopped" /\ ~worker'
      /\ UNCHANGED <<depth, session, isOpen, exiting>> /\ Finish
  <2>1. WorkerGone
    BY DEF EndClose, EndDiscard
  <2> QED
    BY <1>1, <2>1, TopFacts DEF WorkerGone, DeinitDone, At, spent
<1>3. ~modelsOpen'
  <2>1. CASE EndClose
    BY <2>1 DEF EndClose, TellClosed
  <2>2. CASE EndDiscard
    <3>1. Discarder(depth) /\ UNCHANGED modelsOpen
      BY <1>1, <1>2, <2>2, TopFacts DEF EndDiscard, Discarder, Doing
    <3> QED
      BY <1>1, <1>2, <3>1, TopFacts DEF ToldParts, ToldOfOpen
  <2> QED
    BY <2>1, <2>2
<1>4. ~isOpen'
  BY <1>1, <1>2 DEF SessionInv, SessionParts, OpenedByFrame
<1>5. ToldOfOpen'
  BY <1>3, <1>4 DEF ToldOfOpen
<1>6. exiting' = "no" => ~Queued("opened")' /\ InOrder'
  BY <1>2 DEF QueueInv, QueueParts, Quiet, QuietKinds, Queued, InOrder
<1>7. OpenedOnTheWay'
  BY <1>6 DEF OpenedOnTheWay
<1>8. OrderMatters'
  <2>1. worker /\ InOrder
    <3>1. worker
      BY <1>1, <1>2, HolderFacts, SessionTypes DEF Holding
    <3> QED
      BY <1>1, <1>2, <3>1 DEF ToldParts, OrderMatters, Hopeless, Busy
  <2>2. CASE EndClose
    BY <2>1, <2>2 DEF EndClose, OrderMatters, InOrder
  <2>3. CASE EndDiscard
    <3>1. Op = "discard" /\ Discarder(depth)
      BY <1>1, <1>2, <2>3, TopFacts DEF EndDiscard, Discarder, Doing
    <3>2. CASE exiting = "no"
      BY <1>2, <1>6, <3>2 DEF OrderMatters
    <3>3. CASE exiting = "last"
      BY <1>1, <1>2, <3>1, <3>3, LastTellable, TopFacts DEF ToldInv, LastInv
    <3>4. CASE exiting = "unwind"
      <4>1. \A i \in 1..depth : i # depth => stack[i].at = "loop" /\ stack[i].session # session
        BY <1>1, <1>2, <3>1, TopFacts DEF SessionInv, SessionParts, OpenerAboveStale
      <4>2. Tail(Top.todo) \in Seq({"nameOld", "askPassword"})
        BY <1>1, <1>2, <3>1, TopFacts DEF SessionInv, SessionParts, DiscardComesFirst
      <4>3. OnlyTop /\ stack'[depth].at = "call" /\ stack'[depth].todo = Tail(Top.todo)
        BY <1>1, <1>2, TopShapes DEF TopGoesOn, Idle
      <4>4. \A i \in 1..depth : i # depth => stack'[i] = stack[i]
        BY <1>1, <1>2, <4>3, TopFacts DEF OnlyTop
      <4>5. Hopeless'
        BY <1>2, <4>1, <4>2, <4>3, <4>4 DEF Hopeless
      <4> QED
        BY <1>2, <3>4, <4>5 DEF OrderMatters
    <3> QED
      BY <1>1, <3>2, <3>3, <3>4 DEF TypeInv, SessionTypeOK
  <2> QED
    BY <2>2, <2>3
<1> QED
  BY <1>5, <1>7, <1>8 DEF ToldParts

LEMMA ToldGui ==
    ASSUME ToldInv, TypeInv', QueueInv', Gui
    PROVE  ToldParts'
<1>1. SessionInv /\ TypeInv /\ ToldParts
  BY SessionTypes DEF ToldInv, QueueInv
<1>2. Busy => /\ ~(exiting = "last" /\ depth = 0)
              /\ worker \/ Top.at # "call" => (Hopeless => Top.at = "loop" /\ Top.session # session)
              /\ Hopeless /\ Top.at = "call" => Top.todo \in Seq({"nameOld", "askPassword"})
  BY <1>1, TopFacts DEF Hopeless, Busy
<1>3. UNCHANGED queue => Grew({})
  BY <1>1, QueueGrows
<1>4. CASE Return
  <2>1. /\ Busy /\ Top.todo = <<>> /\ depth' = depth - 1
        /\ UNCHANGED <<worker, wallet, isOpen, session, queue, modelsOpen, exiting>>
        /\ \A i \in 1..depth' : i \in 1..depth /\ i # depth /\ stack'[i] = stack[i]
    BY <1>1, <1>4, FramesBelow DEF Return, At, life, flags, view, spent
  <2>2. \A i \in 1..depth' : Discarder(i)' => i \in 1..depth /\ Discarder(i)
    BY <2>1 DEF Discarder, Doing
  <2>3. Hopeless => Hopeless'
    BY <2>1 DEF Hopeless
  <2>4. Tellable' = Tellable
    BY <2>1 DEF Tellable
  <2> QED
    BY <1>1, <1>2, <1>3, <2>1, <2>2, <2>3, <2>4, ToldKept
<1>5. CASE GoesOn
  <2>1. /\ Busy /\ OnlyTop /\ depth' = depth /\ stack'[depth].at = "call"
        /\ UNCHANGED <<worker, wallet, isOpen, session, modelsOpen, exiting>>
        /\ Top.todo # <<>>
        /\ stack'[depth].todo \in {Tail(Top.todo), <<>>}
    BY <1>5 DEF GoesOn, Calm, TopGoesOn, Idle
  <2>2. stack'[depth].todo \in Seq(PlainOps)
    <3>1. Tail(Top.todo) \in Seq(PlainOps)
      BY <1>1, <2>1, TopFacts DEF SessionInv, SessionParts, DiscardComesFirst
    <3>2. <<>> \in Seq(PlainOps)
      BY EmptySeq
    <3> QED
      BY <2>1, <3>1, <3>2
  <2>3. ~Discarder(depth)'
    <3>1. stack'[depth].todo # <<>> => Head(stack'[depth].todo) \in PlainOps
      BY <2>2, HeadTailProperties
    <3> QED
      BY <2>1, <3>1 DEF Discarder, Doing, PlainOps
  <2>4. \A i \in 1..depth' : Discarder(i)' => i \in 1..depth /\ Discarder(i)
    BY <1>1, <2>1, <2>3, TopFacts DEF OnlyTop, Discarder, Doing
  <2>5. Hopeless => Hopeless'
    <3> SUFFICES ASSUME Hopeless PROVE Hopeless'
      OBVIOUS
    <3>1. Top.at = "call"
      BY <1>2, <1>5, <2>1 DEF GoesOn
    <3>2. stack'[depth].todo \in Seq({"nameOld", "askPassword"})
      BY <1>2, <2>1, <3>1, HeadTailProperties, EmptySeq
    <3>3. \A i \in 1..depth : i # depth => stack'[i] = stack[i]
      BY <1>1, <2>1, TopFacts DEF OnlyTop
    <3> QED
      BY <2>1, <3>2, <3>3 DEF Hopeless
  <2>6. Tellable' = Tellable
    BY <2>1 DEF Tellable
  <2>7. PICK kinds \in {{"loadRequest"}, {"passwordChanged", "addressCreated"}} : Grew(kinds)
    BY <1>5 DEF GoesOn
  <2>8. "opened" \notin kinds /\ "closed" \notin kinds
    OBVIOUS
  <2> QED
    BY <1>1, <1>2, <2>1, <2>4, <2>5, <2>6, <2>7, <2>8, ToldKept
<1>6. CASE Moves
  <2>1. /\ Busy /\ OnlyTop /\ depth' = depth /\ stack'[depth].todo = Top.todo
        /\ UNCHANGED <<worker, wallet, isOpen, session, modelsOpen, exiting, queue>>
        /\ worker
    BY <1>6 DEF Moves, Calm, MovesTo, TopMoved
  <2>2. \A i \in 1..depth' : Discarder(i)' => i \in 1..depth /\ Discarder(i)
    BY <1>1, <2>1, TopFacts DEF OnlyTop, Discarder, Doing
  <2>3. ~Hopeless /\ Tellable' = Tellable
    BY <2>1 DEF Hopeless, Tellable
  <2> QED
    BY <1>1, <1>2, <1>3, <2>1, <2>2, <2>3, ToldKept
<1>7. CASE ReturnDeleted /\ Top.ok
  <2>1. /\ Busy /\ Top.at = "held" /\ depth' = depth + 1 /\ depth < MaxDepth
        /\ UNCHANGED <<worker, wallet, isOpen, modelsOpen, exiting>>
        /\ Post("addressDeleted")
        /\ stack' = [stack EXCEPT ![depth].at = "emit",
                       ![depth + 1] = [Idle EXCEPT !.todo = <<"get">>]]
    BY <1>7 DEF ReturnDeleted, At, life, view, spent
  <2>2. depth + 1 \in Frames /\ depth \in Frames /\ depth \in Nat /\ depth # depth + 1
    BY <1>1, <2>1, FramesBelow, BoundsAssumption DEF Frames
  <2>3. /\ \A i \in 1..depth : stack'[i].todo = stack[i].todo
        /\ stack'[depth + 1].todo = <<"get">>
    <3>1. stack \in [Frames -> Frame] /\ \A i \in 1..depth : i \in Frames /\ i # depth + 1
      BY <1>1, <2>2, FramesBelow
    <3>2. \A i \in 1..depth : stack'[i].todo = stack[i].todo
      BY <2>1, <2>2, <3>1 DEF Frame
    <3>3. stack'[depth + 1] = [Idle EXCEPT !.todo = <<"get">>]
      BY <2>1, <2>2, <3>1
    <3> QED
      BY <3>2, <3>3 DEF Idle
  <2>4. Head(<<"get">>) = "get"
    OBVIOUS
  <2>5. \A i \in 1..depth' : Discarder(i)' => i \in 1..depth /\ Discarder(i)
    <3>1. \A i \in 1..depth' : i \in 1..depth \/ i = depth + 1
      BY <2>1, <2>2
    <3> QED
      BY <2>3, <2>4, <3>1 DEF Discarder, Doing
  <2>6. ~Hopeless
    BY <1>1, <2>1, HolderRuns DEF Hopeless
  <2>7. Tellable' = Tellable
    BY <2>1 DEF Tellable
  <2>8. Grew({"addressDeleted"})
    BY <1>1, <2>1, QueueGrows, KindNames
  <2> QED
    BY <1>1, <1>2, <2>1, <2>5, <2>6, <2>7, <2>8, ToldKept
<1>8. CASE BeginOpen
  <2>1. /\ Busy /\ Top.at = "call" /\ Top.todo # <<>> /\ Op \in OpenOps
        /\ ~worker /\ ~isOpen' /\ depth' = depth
        /\ UNCHANGED <<queue, modelsOpen, exiting>>
        /\ stack' = [stack EXCEPT ![depth].at = "init",
                              ![depth].session = session + 1,
                              ![depth].exited = exiting = "unwind"]
    BY <1>8 DEF BeginOpen, Calls, view, spent
  <2>2. \A i \in 1..depth : stack'[i].todo = stack[i].todo
    BY <1>1, <2>1, FramesBelow DEF Frame
  <2>3. \A i \in 1..depth' : Discarder(i)' => i \in 1..depth /\ Discarder(i)
    BY <2>1, <2>2 DEF Discarder, Doing
  <2>4. ~Hopeless
    BY <1>2, <2>1, HeadTailProperties DEF Op, OpenOps
  <2>5. ~Tellable
    BY <2>1 DEF Tellable
  <2> QED
    BY <1>1, <1>2, <1>3, <2>1, <2>3, <2>4, <2>5, ToldKept
<1>9. CASE BeginClose
  <2>1. /\ Busy /\ worker /\ worker' = worker /\ ~isOpen' /\ wallet' = "exiting"
        /\ depth' = depth /\ EnterWorker("deinit")
        /\ UNCHANGED <<queue, modelsOpen, exiting>>
    BY <1>9 DEF BeginClose, At, Calls, view, spent
  <2>2. OnlyTop /\ stack'[depth].todo = Top.todo
    BY <1>1, <2>1, TopSteps
  <2>3. \A i \in 1..depth' : Discarder(i)' => i \in 1..depth /\ Discarder(i)
    BY <1>1, <2>1, <2>2, TopFacts DEF OnlyTop, Discarder, Doing
  <2>4. ~Hopeless /\ Tellable'
    BY <2>1 DEF Hopeless, Tellable
  <2> QED
    BY <1>1, <1>2, <1>3, <2>1, <2>3, <2>4, ToldKept
<1> QED
  BY <1>1, <1>4, <1>5, <1>6, <1>7, <1>8, <1>9, GuiShape, ToldEmitOpened,
     ToldOpenFailed, ToldWorkerGone

LEMMA ToldStep == ToldInv /\ [Next]_vars => ToldInv'
<1> SUFFICES ASSUME ToldInv, [Next]_vars PROVE ToldInv'
  OBVIOUS
<1>1. QueueInv' /\ LastInv'
  BY QueueStep, LastStep DEF ToldInv
<1>2. SessionInv /\ SessionInv' /\ TypeInv /\ TypeInv' /\ ToldParts
  <2>1. SessionInv /\ SessionInv' /\ ToldParts
    BY <1>1 DEF ToldInv, QueueInv
  <2> QED
    BY <2>1, SessionTypes DEF SessionInv, CaptureInv, TokenInv
<1> SUFFICES ToldParts'
  BY <1>1 DEF ToldInv
<1>3. UNCHANGED queue => Grew({})
  BY <1>2, QueueGrows
<1>4. ASSUME ~Gui
      PROVE  /\ \A i \in 1..depth' : Discarder(i)' => i \in 1..depth /\ Discarder(i)
             /\ Tellable => Tellable'
             /\ isOpen' = isOpen
             /\ Hopeless /\ depth' = depth => Hopeless'
  <2>1. Pushed(PlainOps) /\ UNCHANGED <<worker, session, isOpen>> /\ WalletMoves
    BY <1>2, <1>4, OtherSteps
  <2>2. \A i \in 1..depth' : Discarder(i)' => i \in 1..depth /\ Discarder(i)
    BY <1>2, <2>1, DiscardersPushed
  <2>3. Tellable => Tellable'
    BY <2>1 DEF Tellable, WalletMoves
  <2>4. Hopeless /\ depth' = depth => Hopeless'
    BY <2>1 DEF Hopeless, Pushed, SameFrame
  <2> QED
    BY <2>1, <2>2, <2>3, <2>4
<1>5. ASSUME ~Gui, UNCHANGED <<modelsOpen, exiting>>, depth' = depth \/ exiting = "no",
             \E kinds : Grew(kinds) /\ "opened" \notin kinds /\ "closed" \notin kinds
      PROVE  ToldParts'
  <2>1. PICK kinds : Grew(kinds) /\ "opened" \notin kinds /\ "closed" \notin kinds
    BY <1>5
  <2> QED
    BY <1>2, <1>4, <1>5, <2>1, ToldKept
<1>6. CASE Gui
  BY <1>1, <1>2, <1>6, ToldGui
<1>7. CASE Dispatch
  BY <1>2, <1>7, ToldDispatch
<1>8. ASSUME NEW a \in UserActions, UserInput(a), ~Gui PROVE ToldParts'
  <2>1. exiting = "no" /\ UNCHANGED <<queue, modelsOpen, exiting>>
    BY <1>8 DEF UserInput, Offered
  <2> QED
    BY <1>3, <1>5, <1>8, <2>1
<1>9. ASSUME NEW kind \in CoreKinds, ProcessEvent(kind), ~Gui PROVE ToldParts'
  <2>1. UNCHANGED <<depth, modelsOpen, exiting>>
    BY <1>9 DEF ProcessEvent, gui, view
  <2>2. /\ kind \in AllCoreKinds
        /\ "opened" \notin {kind, "balance"} /\ "closed" \notin {kind, "balance"}
    BY <1>9, ChoiceAssumption DEF AllCoreKinds
  <2>3. Grew({kind, "balance"})
    BY <1>2, <1>9, <2>2, ProcessGrows
  <2> QED
    BY <1>5, <1>9, <2>1, <2>2, <2>3
<1>10. CASE ~Gui /\ (InitImpl \/ ExitImpl)
  <2>1. /\ UNCHANGED <<depth, modelsOpen, exiting>>
        /\ \E kind \in {"initCompleted", "deinitCompleted"} : Post(kind)
    BY <1>10 DEF InitImpl, ExitImpl, gui, view, spent
  <2>2. PICK kind \in {"initCompleted", "deinitCompleted"} : Grew({kind})
    BY <1>2, <2>1, QueueGrows, KindNames
  <2> QED
    BY <1>5, <1>10, <2>1, <2>2
<1>11. CASE ~Gui /\ (RunTask \/ Abort \/ UNCHANGED vars)
  <2>1. UNCHANGED <<depth, queue, modelsOpen, exiting>>
    BY <1>11 DEF RunTask, Abort, vars, gui, view, spent
  <2> QED
    BY <1>3, <1>5, <1>11, <2>1
<1>12. CASE ~Gui /\ Quit
  <2>1. exiting = "no" /\ exiting' = "unwind" /\ UNCHANGED <<depth, queue, modelsOpen>>
    BY <1>12 DEF Quit, Offered, view
  <2>2. ToldOfOpen'
    BY <1>2, <1>4, <1>12, <2>1 DEF ToldParts, ToldOfOpen, Queued
  <2>3. InOrder'
    BY <1>2, <2>1 DEF ToldParts, OrderMatters, InOrder
  <2> QED
    BY <2>1, <2>2, <2>3 DEF ToldParts, OpenedOnTheWay, OrderMatters
<1>13. CASE ~Gui /\ PrepareToQuit
  <2>1. /\ exiting = "unwind" /\ exiting' = "last" /\ UNCHANGED <<queue, modelsOpen, worker>>
        /\ ~Busy /\ Push(DeinitCryptoNoteAdapter)
    BY <1>13 DEF PrepareToQuit, view, life
  <2>2. ToldOfOpen'
    BY <1>2, <1>4, <1>13, <2>1 DEF ToldParts, ToldOfOpen, Queued
  <2>3. OrderMatters'
    <3>1. CASE InOrder
      BY <2>1, <3>1 DEF OrderMatters, InOrder
    <3>2. CASE Hopeless
      <4>1. ~worker /\ depth = 0
        BY <1>2, <2>1, <3>2, FramesBelow DEF Hopeless, Busy
      <4>2. depth' = 0
        BY <2>1, <4>1 DEF DeinitCryptoNoteAdapter, Open, Push, gui
      <4> QED
        BY <2>1, <4>2 DEF OrderMatters
    <3> QED
      BY <1>2, <2>1, <3>1, <3>2 DEF ToldParts, OrderMatters
  <2> QED
    BY <2>1, <2>2, <2>3 DEF ToldParts, OpenedOnTheWay
<1> QED
  BY <1>6, <1>7, <1>8, <1>9, <1>10, <1>11, <1>12, <1>13 DEF Next, Environment, Worker

LEMMA ToldInit == Init => ToldInv
<1> SUFFICES ASSUME Init PROVE ToldInv
  OBVIOUS
<1>1. \A k \in 1..Len(queue) : queue[k].kind = "loadRequest"
  BY DEF Init
<1>2. ToldParts
  BY <1>1 DEF Init, ToldParts, ToldOfOpen, OpenedOnTheWay, OrderMatters, InOrder, Queued
<1> QED
  BY <1>2, QueueInit, LastInit DEF ToldInv

(***************************************************************************)
(* When the GUI is idle, the models behind its pages show an open wallet   *)
(* exactly when one is open: walletOpened and walletClosed reach them in   *)
(* the order, and as often, as wallets open and close.                     *)
(***************************************************************************)
THEOREM ModelsFollowWallet == Spec => []ModelsAgree
<1>1. ToldInv => ModelsAgree
  <2> SUFFICES ASSUME ToldInv, ~Busy, queue = <<>> PROVE modelsOpen <=> Open
    BY DEF ModelsAgree
  <2>1. SessionInv /\ ToldParts /\ depth = 0 /\ Len(queue) = 0
    BY SessionTypes, FramesBelow, EmptySeq DEF ToldInv, QueueInv, Busy
  <2>2. wallet \notin {"exiting", "stopped"}
    BY <2>1, SessionTypes DEF CaptureInv, CaptureParts, ClosingIsHeld
  <2>3. modelsOpen => Open
    BY <2>1, <2>2 DEF ToldParts, ToldOfOpen, Tellable, Open
  <2>4. isOpen => modelsOpen
    BY <2>1 DEF ToldParts, ToldOfOpen, Queued
  <2> QED
    BY <2>3, <2>4, <2>1, SessionTypes DEF Open, TypeInv, SessionTypeOK
<1> QED
  BY <1>1, ToldInit, ToldStep, PTL DEF Spec

-----------------------------------------------------------------------------
(* The session implements the life cycle of WalletLifecycle.  The          *)
(* refinement mapping reads the phase off the worker, its flag and its     *)
(* thread; telling the observers is a step of its own.                     *)

\* Nothing the life cycle speaks of changes.
LifeStands == Phase' = Phase /\ modelsOpen' = modelsOpen

LEMMA PhaseOfWallet ==
    /\ UNCHANGED <<worker, wallet, isOpen>> => Phase' = Phase
    /\ UNCHANGED <<worker, isOpen>> /\ WalletMoves => Phase' = Phase
    /\ Tellable => Phase \in {"open", "closing"}
BY DEF Phase, WalletMoves, Tellable

\* The steps of the GUI thread.
LEMMA LifeGui ==
    ASSUME ToldInv, ToldInv', Gui
    PROVE  LifeStands \/ Lifecycle!Next
<1>1. SessionInv /\ ToldParts'
  BY DEF ToldInv, QueueInv
<1>2. CASE Return \/ GoesOn \/ Moves \/ (ReturnDeleted /\ Top.ok) \/ OpenFailed
  <2>1. UNCHANGED <<worker, wallet, isOpen, modelsOpen>>
    BY <1>2 DEF Return, GoesOn, Moves, Calm, ReturnDeleted, OpenFailed, life, flags, view
  <2> QED
    BY <2>1, PhaseOfWallet DEF LifeStands
<1>3. CASE BeginOpen
  <2>1. /\ ~worker /\ worker' /\ wallet' = "starting" /\ ~isOpen'
        /\ modelsOpen' = modelsOpen
    BY <1>3 DEF BeginOpen, view
  <2>2. Phase = "closed" /\ Phase' = "opening"
    BY <2>1 DEF Phase
  <2> QED
    BY <2>1, <2>2 DEF Lifecycle!Next, Lifecycle!Start
<1>4. CASE BeginClose
  <2>1. /\ worker /\ worker' /\ wallet \in {"ready", "exiting"} /\ wallet' = "exiting"
        /\ ~isOpen' /\ modelsOpen' = modelsOpen
    BY <1>4 DEF BeginClose, HasWallet, view
  <2>2. Phase' = "closing" /\ Phase \in {"open", "opening", "closing"}
    BY <2>1 DEF Phase
  <2> QED
    BY <2>1, <2>2 DEF LifeStands, Lifecycle!Next, Lifecycle!StartClose, Lifecycle!Fail
<1>5. CASE EmitOpened
  <2>1. /\ Busy /\ Top.at = "opened" /\ isOpen'
        /\ UNCHANGED <<worker, wallet, modelsOpen>>
    BY <1>5 DEF EmitOpened, At, life, view
  <2>2. worker /\ wallet = "ready" /\ ~isOpen
    <3>1. worker /\ wallet = "ready" /\ Top.session = session
      BY <1>1, <2>1, HolderRuns
    <3>2. Opener(depth)
      BY <1>1, <2>1, <3>1, TopFacts DEF Opener, SessionInv, SessionParts, OpenedByFrame
    <3> QED
      BY <1>1, <2>1, <3>1, <3>2, TopFacts DEF SessionInv, SessionParts, OpenedByFrame
  <2>3. Phase = "opening" /\ Phase' = "open"
    BY <2>1, <2>2 DEF Phase
  <2> QED
    BY <2>1, <2>3 DEF Lifecycle!Next, Lifecycle!Succeed
<1>6. CASE EndClose \/ EndDiscard
  <2>1. Busy /\ Top.at = "deinit" /\ wallet = "stopped" /\ ~worker'
    BY <1>6 DEF EndClose, EndDiscard, WorkerGone, DeinitDone, At
  <2>2. worker
    BY <1>1, <2>1, HolderFacts, SessionTypes DEF Holding
  <2>3. ~isOpen
    BY <1>1, <2>1 DEF SessionInv, SessionParts, OpenedByFrame
  <2>4. Phase = "closing" /\ Phase' = "closed"
    BY <2>1, <2>2, <2>3 DEF Phase
  <2>5. modelsOpen' = FALSE
    <3>1. ~modelsOpen'
      BY <1>1, <2>1 DEF ToldParts, ToldOfOpen, Tellable
    <3>2. modelsOpen' \in BOOLEAN
      BY DEF ToldInv, QueueInv, SessionInv, CaptureInv, TokenInv, TypeInv, SessionTypeOK
    <3> QED
      BY <3>1, <3>2
  <2> QED
    BY <2>4, <2>5 DEF Lifecycle!Next, Lifecycle!Finish
<1> QED
  BY <1>1, <1>2, <1>3, <1>4, <1>5, <1>6, GuiShape

\* Dispatching walletOpened tells the observers; walletClosed finds them told.
LEMMA LifeDispatch ==
    ASSUME ToldInv, ToldInv', Dispatch
    PROVE  LifeStands \/ Lifecycle!Next
<1>1. SessionInv /\ TypeInv /\ ToldParts /\ ToldParts'
  BY SessionTypes DEF ToldInv, QueueInv
<1>2. PICK kind : Receive(kind)
  BY <1>1, DispatchShape
<1>3. UNCHANGED <<worker, wallet, isOpen>>
  BY <1>2 DEF Receive, life, flags
<1>4. Phase' = Phase /\ Tellable' = Tellable
  BY <1>3, PhaseOfWallet DEF Tellable
<1>5. CASE OnWalletOpened
  <2>1. modelsOpen' = TRUE
    BY <1>5 DEF OnWalletOpened
  <2>2. Phase \in {"open", "closing"}
    BY <1>1, <1>4, <2>1, PhaseOfWallet DEF ToldParts, ToldOfOpen
  <2>3. CASE modelsOpen
    BY <1>1, <1>4, <2>1, <2>3 DEF LifeStands, TypeInv, SessionTypeOK
  <2>4. CASE ~modelsOpen
    BY <1>4, <2>1, <2>2, <2>4 DEF Lifecycle!Next, Lifecycle!Tell
  <2> QED
    BY <2>3, <2>4
<1>6. CASE OnWalletClosed
  <2>1. Receive("closed") /\ modelsOpen' = FALSE
    BY <1>6 DEF OnWalletClosed
  <2>2. Queued("closed")
    BY <1>1, <2>1, QueuedDispatch DEF Queued
  <2>3. ~modelsOpen
    BY <1>1, <2>2 DEF ToldParts, ToldOfOpen
  <2> QED
    BY <1>1, <1>4, <2>1, <2>3 DEF LifeStands, TypeInv, SessionTypeOK
<1>7. CASE ~OnWalletOpened /\ ~OnWalletClosed
  <2>1. modelsOpen' = modelsOpen
    BY <1>7
       DEF Dispatch, OnWalletOpenError, OnPasswordChanged,
           OnSynchronizationCompleted, OnBalance, OnAddressCreated, OnQuietEvent,
           OnLoadRequest, OnQuit
  <2> QED
    BY <1>4, <2>1 DEF LifeStands
<1> QED
  BY <1>5, <1>6, <1>7

LEMMA LifeStep ==
    ASSUME ToldInv, ToldInv', [Next]_vars
    PROVE  LifeStands \/ Lifecycle!Next
<1>1. CASE Gui
  BY <1>1, LifeGui
<1>2. CASE Dispatch
  BY <1>2, LifeDispatch
<1>3. CASE ~Gui /\ ~Dispatch
  <2>1. UNCHANGED <<worker, isOpen>> /\ WalletMoves
    BY <1>3, OtherSteps, SessionTypes DEF ToldInv, QueueInv
  <2>2. modelsOpen' = modelsOpen
    BY <1>3
       DEF Next, Environment, Worker, UserInput, Quit, ProcessEvent, PrepareToQuit,
           InitImpl, RunTask, ExitImpl, Abort, vars, view
  <2> QED
    BY <2>1, <2>2, PhaseOfWallet DEF LifeStands
<1> QED
  BY <1>1, <1>2, <1>3

(***************************************************************************)
(* The session is what IWalletAdapter promises its observers: one wallet   *)
(* at a time, opened, told of at most once and only when it has been       *)
(* opened, and told closed no later than it is gone, in every              *)
(* interleaving of handlers, posted events, the wallet thread and quit().  *)
(***************************************************************************)
THEOREM SessionImplementsLifecycle == Spec => LifecycleSpec
<1>1. Init => Lifecycle!Init
  BY DEF Init, Lifecycle!Init, Phase
<1>2. ToldInv /\ ToldInv' /\ [Next]_vars => [Lifecycle!Next]_(Lifecycle!vars)
  BY LifeStep DEF LifeStands, Lifecycle!vars
<1> QED
  BY <1>1, <1>2, ToldInit, ToldStep, PTL DEF Spec, LifecycleSpec, Lifecycle!Spec

-----------------------------------------------------------------------------
(* The file Settings name.                                                 *)

\* A file is named right before it is created and right after a wallet was
\* discarded or loaded, whatever is left of a handler.
Naming(t) == \A k \in 1..Len(t) :
    /\ k > 1 => /\ t[k] = "create" => t[k - 1] = "nameNew"
                /\ t[k] = "nameOld" => t[k - 1] = "discard"
                /\ t[k] # "nameChosen"
    /\ t[k] = "nameNew" => k < Len(t) /\ t[k + 1] = "create"

\* Operations that find another file named than that of the last wallet.
OwingOps == {"nameOld", "nameChosen", "create"}
Fresh(t) == Naming(t) /\ (t # <<>> => Head(t) \notin OwingOps)

\* The adapter's close comes after an assertion that the wallet is open.
Guarded(t) == \A k \in 1..Len(t) :
    t[k] \in AdapterClose => \E m \in 1..(k - 1) : t[m] = "assertOpen"

NamelessOps == Ops \ ({"create"} \cup NamingOps)

LEMMA TailAt ==
    ASSUME NEW S, NEW t \in Seq(S), t # <<>>
    PROVE  /\ Tail(t) \in Seq(S) /\ Len(t) \in Nat /\ Len(t) > 0 /\ Len(Tail(t)) = Len(t) - 1
           /\ \A k \in 1..Len(Tail(t)) : Tail(t)[k] = t[k + 1]
           /\ Head(t) = t[1] /\ Head(t) \in S
           /\ Tail(t) # <<>> => Len(t) > 1 /\ Head(Tail(t)) = t[2]
           /\ Len(t) > 1 => Tail(t) # <<>>
<1>1. /\ Tail(t) \in Seq(S) /\ Len(t) \in Nat /\ Len(t) > 0 /\ Len(Tail(t)) = Len(t) - 1
      /\ \A k \in 1..Len(Tail(t)) : Tail(t)[k] = t[k + 1]
  OBVIOUS
<1>4. Head(t) = t[1] /\ Head(t) \in S
  <2>1. Head(t) = t[1]
    OBVIOUS
  <2>2. 1 \in 1..Len(t)
    BY <1>1
  <2>3. \A k \in 1..Len(t) : t[k] \in S
    BY ElementOfSeq
  <2> QED
    BY <2>1, <2>2, <2>3
<1>5. \A u \in Seq(S) : Len(u) \in Nat /\ (u # <<>> <=> Len(u) > 0)
  OBVIOUS
<1>2. Tail(t) # <<>> <=> Len(t) > 1
  <2>1. Len(Tail(t)) > 0 <=> Len(t) > 1
    BY <1>1
  <2> QED
    BY <1>1, <1>5, <2>1
<1>3. Tail(t) # <<>> => Head(Tail(t)) = Tail(t)[1] /\ 1 \in 1..Len(Tail(t)) /\ 1 + 1 = 2
  BY <1>1, <1>2
<1> QED
  BY <1>1, <1>2, <1>3, <1>4

\* What is left of a list when its first operation is done.
LEMMA NamingTail ==
    ASSUME NEW S, NEW t \in Seq(S), t # <<>>, Naming(t)
    PROVE  /\ Naming(Tail(t))
           /\ Tail(t) # <<>> => /\ Head(Tail(t)) = "create" => Head(t) = "nameNew"
                                /\ Head(Tail(t)) = "nameOld" => Head(t) = "discard"
                                /\ Head(Tail(t)) # "nameChosen"
           /\ Head(t) = "nameNew" => Tail(t) # <<>> /\ Head(Tail(t)) = "create"
<1>1. /\ Len(t) \in Nat /\ Len(t) > 0 /\ Len(Tail(t)) = Len(t) - 1
      /\ \A k \in 1..Len(Tail(t)) : Tail(t)[k] = t[k + 1]
      /\ Head(t) = t[1]
      /\ Tail(t) # <<>> => Len(t) > 1 /\ Head(Tail(t)) = t[2]
      /\ Len(t) > 1 => Tail(t) # <<>>
  BY TailAt
<1>2. ASSUME NEW k \in 1..Len(Tail(t))
      PROVE  /\ k > 1 => /\ Tail(t)[k] = "create" => Tail(t)[k - 1] = "nameNew"
                         /\ Tail(t)[k] = "nameOld" => Tail(t)[k - 1] = "discard"
                         /\ Tail(t)[k] # "nameChosen"
             /\ Tail(t)[k] = "nameNew" => k < Len(Tail(t)) /\ Tail(t)[k + 1] = "create"
  <2>1. k + 1 \in 1..Len(t) /\ k + 1 > 1 /\ (k + 1) - 1 = k
    BY <1>1
  <2>2. Tail(t)[k] = t[k + 1] /\ (k > 1 => Tail(t)[k - 1] = t[k])
    <3>1. k > 1 => k - 1 \in 1..Len(Tail(t)) /\ (k - 1) + 1 = k
      BY <1>1
    <3> QED
      BY <1>1, <3>1
  <2>3. /\ t[k + 1] = "create" => t[k] = "nameNew"
        /\ t[k + 1] = "nameOld" => t[k] = "discard"
        /\ t[k + 1] # "nameChosen"
        /\ t[k + 1] = "nameNew" => k + 1 < Len(t) /\ t[(k + 1) + 1] = "create"
    BY <2>1 DEF Naming
  <2>4. k + 1 < Len(t) => k < Len(Tail(t)) /\ Tail(t)[k + 1] = t[(k + 1) + 1]
    <3>1. k + 1 < Len(t) => k + 1 \in 1..Len(Tail(t)) /\ k < Len(Tail(t))
      BY <1>1
    <3> QED
      BY <1>1, <3>1
  <2> QED
    BY <2>2, <2>3, <2>4
<1>3. Naming(Tail(t))
  BY <1>2 DEF Naming
<1>4. 1 \in 1..Len(t) /\ (Len(t) > 1 => 2 \in 1..Len(t) /\ 2 - 1 = 1 /\ 2 > 1) /\ 1 + 1 = 2
  BY <1>1
<1>5. /\ Len(t) > 1 => /\ t[2] = "create" => t[1] = "nameNew"
                       /\ t[2] = "nameOld" => t[1] = "discard"
                       /\ t[2] # "nameChosen"
      /\ t[1] = "nameNew" => 1 < Len(t) /\ t[2] = "create"
  BY <1>4 DEF Naming
<1> QED
  BY <1>1, <1>3, <1>5

LEMMA GuardedTail ==
    ASSUME NEW S, NEW t \in Seq(S), t # <<>>, Guarded(t)
    PROVE  /\ Head(t) \notin AdapterClose
           /\ Head(t) # "assertOpen" => Guarded(Tail(t))
<1>1. /\ Len(t) \in Nat /\ Len(t) > 0 /\ Len(Tail(t)) = Len(t) - 1
      /\ \A k \in 1..Len(Tail(t)) : Tail(t)[k] = t[k + 1]
      /\ Head(t) = t[1]
  BY TailAt
<1>2. Head(t) \notin AdapterClose
  <2>1. 1 \in 1..Len(t) /\ ~\E m \in 1..(1 - 1) : TRUE
    BY <1>1
  <2> QED
    BY <1>1, <2>1 DEF Guarded
<1>3. ASSUME Head(t) # "assertOpen", NEW k \in 1..Len(Tail(t)), Tail(t)[k] \in AdapterClose
      PROVE  \E m \in 1..(k - 1) : Tail(t)[m] = "assertOpen"
  <2>1. k + 1 \in 1..Len(t) /\ t[k + 1] \in AdapterClose /\ (k + 1) - 1 = k
    BY <1>1, <1>3
  <2>2. PICK m \in 1..k : t[m] = "assertOpen"
    BY <2>1 DEF Guarded
  <2>3. m # 1
    BY <1>1, <1>3, <2>2
  <2>4. m - 1 \in 1..(k - 1) /\ m - 1 \in 1..Len(Tail(t)) /\ (m - 1) + 1 = m
    BY <1>1, <2>3
  <2>5. Tail(t)[m - 1] = "assertOpen"
    BY <1>1, <2>2, <2>4
  <2> QED
    BY <2>4, <2>5
<1> QED
  BY <1>2, <1>3 DEF Guarded

\* Lists that name and create nothing, and lists behind such.
LEMMA NamelessFresh ==
    ASSUME NEW t \in Seq(NamelessOps)
    PROVE  Fresh(t)
<1>1. \A k \in 1..Len(t) : t[k] \in NamelessOps
  BY ElementOfSeq
<1>2. t # <<>> => Head(t) \in NamelessOps
  BY HeadTailProperties
<1> QED
  BY <1>1, <1>2 DEF Fresh, Naming, OwingOps, NamelessOps, NamingOps

LEMMA ConcatFresh ==
    ASSUME NEW S, NEW s \in Seq(NamelessOps), NEW t \in Seq(S), Fresh(t)
    PROVE  Fresh(s \o t)
<1> DEFINE x == s \o t
           n == Len(s)
<1>1. /\ n \in Nat /\ Len(t) \in Nat /\ Len(x) = n + Len(t)
      /\ \A k \in 1..n : x[k] = s[k] /\ s[k] \in NamelessOps
      /\ \A k \in 1..Len(t) : x[n + k] = t[k]
  OBVIOUS
<1>2. \A k \in 1..n : x[k] \notin {"create", "nameOld", "nameChosen", "nameNew"}
  BY <1>1 DEF NamelessOps, NamingOps
<1>3. t # <<>> => t[1] = Head(t)
  OBVIOUS
<1>4. t = <<>> <=> Len(t) = 0
  OBVIOUS
<1> HIDE DEF x, n
<1>5. ASSUME NEW k \in 1..Len(x)
      PROVE  /\ k > 1 => /\ x[k] = "create" => x[k - 1] = "nameNew"
                         /\ x[k] = "nameOld" => x[k - 1] = "discard"
                         /\ x[k] # "nameChosen"
             /\ x[k] = "nameNew" => k < Len(x) /\ x[k + 1] = "create"
  <2>1. CASE k <= n
    <3>1. k \in 1..n
      BY <1>1, <2>1
    <3> QED
      BY <1>2, <3>1
  <2>2. CASE k > n
    <3>1. PICK j \in 1..Len(t) : k = n + j
      <4>1. k - n \in 1..Len(t) /\ k = n + (k - n)
        BY <1>1, <2>2
      <4> QED
        BY <4>1
    <3>2. x[k] = t[j]
      BY <1>1, <3>1
    <3>3. /\ j > 1 => /\ t[j] = "create" => t[j - 1] = "nameNew"
                      /\ t[j] = "nameOld" => t[j - 1] = "discard"
                      /\ t[j] # "nameChosen"
          /\ t[j] = "nameNew" => j < Len(t) /\ t[j + 1] = "create"
      BY DEF Fresh, Naming
    <3>4. j > 1 => x[k - 1] = t[j - 1]
      <4>1. j > 1 => j - 1 \in 1..Len(t) /\ k - 1 = n + (j - 1)
        BY <1>1, <3>1
      <4> QED
        BY <1>1, <4>1
    <3>5. j < Len(t) => k < Len(x) /\ x[k + 1] = t[j + 1]
      <4>1. j < Len(t) => j + 1 \in 1..Len(t) /\ k + 1 = n + (j + 1) /\ k < Len(x)
        BY <1>1, <3>1
      <4> QED
        BY <1>1, <4>1
    <3>6. j = 1 => t[j] \notin OwingOps
      BY <1>1, <1>3, <1>4 DEF Fresh
    <3>7. j > 1 \/ j = 1
      BY <1>1
    <3> QED
      BY <3>2, <3>3, <3>4, <3>5, <3>6, <3>7 DEF OwingOps
  <2> QED
    BY <1>1, <2>1, <2>2
<1>6. x # <<>> => Head(x) \notin OwingOps
  <2>1. x # <<>> => Head(x) = x[1] /\ Len(x) >= 1
    <3>1. x \in Seq(S \cup NamelessOps)
      <4>1. s \in Seq(S \cup NamelessOps) /\ t \in Seq(S \cup NamelessOps)
        BY SeqMonotonic
      <4> QED
        BY <4>1, ConcatProperties DEF x
    <3> QED
      BY <3>1
  <2>2. CASE n > 0
    <3>1. 1 \in 1..n
      BY <1>1, <2>2
    <3> QED
      BY <1>2, <2>1, <3>1 DEF OwingOps
  <2>3. CASE n = 0
    <3>1. x # <<>> => 1 \in 1..Len(t) /\ n + 1 = 1
      BY <1>1, <2>1, <2>3
    <3>2. x # <<>> => x[1] = t[1] /\ t # <<>>
      BY <1>1, <1>4, <3>1
    <3> QED
      BY <1>3, <2>1, <3>2 DEF Fresh
  <2> QED
    BY <1>1, <2>2, <2>3
<1> QED
  BY <1>5, <1>6 DEF Fresh, Naming, x

\* Lists that close nothing, and lists that first make sure of the wallet.
LEMMA GuardedLists ==
    /\ \A t \in Seq(Ops \ AdapterClose) : Guarded(t)
    /\ \A S : \A t \in Seq(S) : t # <<>> /\ Head(t) = "assertOpen" => Guarded(t)
<1>1. ASSUME NEW t \in Seq(Ops \ AdapterClose) PROVE Guarded(t)
  <2>1. \A k \in 1..Len(t) : t[k] \in Ops \ AdapterClose
    BY ElementOfSeq
  <2> QED
    BY <2>1 DEF Guarded
<1>2. ASSUME NEW S, NEW t \in Seq(S), t # <<>>, Head(t) = "assertOpen" PROVE Guarded(t)
  <2>1. t[1] = "assertOpen" /\ Len(t) \in Nat
    BY <1>2
  <2>2. ASSUME NEW k \in 1..Len(t), t[k] \in AdapterClose
        PROVE  \E m \in 1..(k - 1) : t[m] = "assertOpen"
    <3>1. k # 1
      BY <2>1, <2>2 DEF AdapterClose
    <3>2. 1 \in 1..(k - 1)
      BY <2>1, <3>1
    <3> QED
      BY <2>1, <3>2
  <2> QED
    BY <2>2 DEF Guarded
<1> QED
  BY <1>1, <1>2

\* What the handlers of user actions ask for.
LEMMA HandlerFresh ==
    ASSUME NEW a \in AllActions
    PROVE  Fresh(Handler(a)) /\ (~Open => Guarded(Handler(a)))
<1> DEFINE Free == Ops \ AdapterClose
<1>1. /\ {"load", "save", "saveKeys", "export", "get", "changePassword", "createAddress",
          "deleteAddress", "sendTransaction", "getUserData", "setUserData", "close",
          "closeQuiet", "shutdownClose", "assertOpen", "askPassword", "postLoad",
          "reopen", "restart"} \subseteq NamelessOps
      /\ {"load", "create", "save", "saveKeys", "export", "get", "changePassword",
          "createAddress", "deleteAddress", "sendTransaction", "getUserData",
          "setUserData", "assertOpen", "askPassword", "postLoad", "reopen", "restart",
          "nameNew"} \subseteq Free
  BY OpNames DEF NamelessOps, NamingOps, AdapterClose
<1>2. <<>> \in Seq(NamelessOps) /\ <<>> \in Seq(Free)
  OBVIOUS
<1> HIDE DEF Free
<1>3. /\ OkClicked \in Seq(NamelessOps) /\ OkClicked \in Seq(Free)
      /\ CommitData \in Seq(NamelessOps) /\ CommitData \in Seq(Free)
      /\ EncryptWallet \in Seq(NamelessOps) /\ EncryptWallet \in Seq(Free)
  <2>1. /\ OkClicked \in Seq(NamelessOps)
        /\ CommitData \in Seq(NamelessOps)
        /\ EncryptWallet \in Seq(NamelessOps)
    BY <1>1, <1>2 DEF OkClicked, CommitData, EncryptWallet
  <2>2. /\ OkClicked \in Seq(Free)
        /\ CommitData \in Seq(Free)
        /\ EncryptWallet \in Seq(Free)
    BY <1>1, <1>2 DEF OkClicked, CommitData, EncryptWallet
  <2> QED
    BY <2>1, <2>2
<1>4. /\ CreateAddressRequested \in Seq(NamelessOps) /\ CreateAddressRequested \in Seq(Free)
      /\ ImportAddressRequested \in Seq(NamelessOps) /\ ImportAddressRequested \in Seq(Free)
      /\ DeleteAddressFromCard \in Seq(NamelessOps) /\ DeleteAddressFromCard \in Seq(Free)
  <2>1. /\ CreateAddressRequested \in Seq(NamelessOps)
        /\ ImportAddressRequested \in Seq(NamelessOps)
        /\ DeleteAddressFromCard \in Seq(NamelessOps)
    BY <1>1, <1>2 DEF CreateAddressRequested, ImportAddressRequested, DeleteAddressFromCard
  <2>2. /\ CreateAddressRequested \in Seq(Free)
        /\ ImportAddressRequested \in Seq(Free)
        /\ DeleteAddressFromCard \in Seq(Free)
    BY <1>1, <1>2 DEF CreateAddressRequested, ImportAddressRequested, DeleteAddressFromCard
  <2> QED
    BY <2>1, <2>2
<1>5. /\ SetOwnAddressLabel \in Seq(NamelessOps) /\ SetOwnAddressLabel \in Seq(Free)
      /\ BackupWallet \in Seq(NamelessOps) /\ BackupWallet \in Seq(Free)
      /\ ExportKey \in Seq(NamelessOps) /\ ExportKey \in Seq(Free)
  <2>1. /\ SetOwnAddressLabel \in Seq(NamelessOps)
        /\ BackupWallet \in Seq(NamelessOps)
        /\ ExportKey \in Seq(NamelessOps)
    BY <1>1, <1>2 DEF SetOwnAddressLabel, BackupWallet, ExportKey
  <2>2. /\ SetOwnAddressLabel \in Seq(Free)
        /\ BackupWallet \in Seq(Free)
        /\ ExportKey \in Seq(Free)
    BY <1>1, <1>2 DEF SetOwnAddressLabel, BackupWallet, ExportKey
  <2> QED
    BY <2>1, <2>2
<1>6. /\ SendClicked \in Seq(NamelessOps) /\ SendClicked \in Seq(Free)
      /\ RegisterAccountNumberFromCard \in Seq(NamelessOps) /\ RegisterAccountNumberFromCard \in Seq(Free)
  <2>1. /\ SendClicked \in Seq(NamelessOps)
        /\ RegisterAccountNumberFromCard \in Seq(NamelessOps)
    BY <1>1, <1>2 DEF SendClicked, RegisterAccountNumberFromCard
  <2>2. /\ SendClicked \in Seq(Free)
        /\ RegisterAccountNumberFromCard \in Seq(Free)
    BY <1>1, <1>2 DEF SendClicked, RegisterAccountNumberFromCard
  <2> QED
    BY <2>1, <2>2
<1>7. /\ SaveAndCloseIfOpen \in Seq(NamelessOps) /\ (~Open => SaveAndCloseIfOpen = <<>>)
      /\ ImportInvalidKey \in Seq(NamelessOps) /\ (~Open => ImportInvalidKey = <<>>)
      /\ DeinitCryptoNoteAdapter \in Seq(NamelessOps)
      /\ (~Open => DeinitCryptoNoteAdapter = <<>>)
  BY <1>1, <1>2 DEF SaveAndCloseIfOpen, ImportInvalidKey, DeinitCryptoNoteAdapter
<1>8. /\ ResetWallet \in Seq(NamelessOps) /\ (ResetWallet # <<>> => Head(ResetWallet) = "assertOpen")
      /\ CloseWallet \in Seq(NamelessOps) /\ (CloseWallet # <<>> => Head(CloseWallet) = "assertOpen")
  BY <1>1, <1>2 DEF ResetWallet, CloseWallet
<1>9. Guarded(ResetWallet) /\ Guarded(CloseWallet)
  BY <1>2, <1>8, GuardedLists
<1>10. /\ <<"postLoad">> \in Seq(NamelessOps) /\ <<"postLoad">> \in Seq(Free)
       /\ <<"restart">> \in Seq(NamelessOps) /\ <<"restart">> \in Seq(Free)
  BY <1>1
<1>11. Fresh(<<"nameNew", "create", "save">>) /\ <<"nameNew", "create", "save">> \in Seq(Free)
  <2> DEFINE t == <<"nameNew", "create", "save">>
  <2>1. t \in Seq(Free) /\ Len(t) = 3 /\ t[1] = "nameNew" /\ t[2] = "create" /\ t[3] = "save"
    BY <1>1
  <2> HIDE DEF t
  <2>2. \A k \in 1..3 : k = 1 \/ k = 2 \/ k = 3
    OBVIOUS
  <2>3. Naming(t)
    BY <2>1, <2>2 DEF Naming
  <2>4. Head(t) = "nameNew"
    BY <2>1
  <2>5. Fresh(t)
    BY <2>3, <2>4 DEF Fresh, OwingOps
  <2> QED
    BY <2>1, <2>5 DEF t
<1>12. /\ Fresh(<<"nameNew", "create", "save", "assertOpen", "export", "get">>)
       /\ <<"nameNew", "create", "save", "assertOpen", "export", "get">> \in Seq(Free)
  <2> DEFINE t == <<"nameNew", "create", "save", "assertOpen", "export", "get">>
  <2>1. /\ t \in Seq(Free) /\ Len(t) = 6 /\ t[1] = "nameNew" /\ t[2] = "create"
        /\ t[3] = "save" /\ t[4] = "assertOpen" /\ t[5] = "export" /\ t[6] = "get"
    BY <1>1
  <2> HIDE DEF t
  <2>2. \A k \in 1..6 : k = 1 \/ k = 2 \/ k = 3 \/ k = 4 \/ k = 5 \/ k = 6
    OBVIOUS
  <2>3. Naming(t)
    BY <2>1, <2>2 DEF Naming
  <2>4. Head(t) = "nameNew"
    BY <2>1
  <2>5. Fresh(t)
    BY <2>3, <2>4 DEF Fresh, OwingOps
  <2> QED
    BY <2>1, <2>5 DEF t
<1>13. Fresh(OpenRecentWallet) /\ (~Open => OpenRecentWallet \in Seq(Free))
  <2>1. Fresh(OpenRecentWallet)
    BY <1>7, <1>10, NamelessFresh, ConcatFresh DEF OpenRecentWallet
  <2>2. ~Open => OpenRecentWallet = <<"postLoad">>
    BY <1>7, <1>10, ConcatEmptySeq DEF OpenRecentWallet
  <2> QED
    BY <1>10, <2>1, <2>2
<1>14. Fresh(CreateWallet) /\ (~Open => CreateWallet \in Seq(Free))
  <2> DEFINE t == <<"nameNew", "create", "save", "assertOpen", "export", "get">>
  <2>1. CreateWallet = SaveAndCloseIfOpen \o t
    BY DEF CreateWallet
  <2>2. Fresh(t) /\ t \in Seq(Free)
    BY <1>12
  <2> HIDE DEF t
  <2>3. Fresh(SaveAndCloseIfOpen \o t)
    BY <1>7, <2>2, ConcatFresh
  <2>4. ~Open => SaveAndCloseIfOpen \o t = t
    BY <1>7, <2>2, ConcatEmptySeq
  <2> QED
    BY <2>1, <2>2, <2>3, <2>4
<1>15. Fresh(ImportKey) /\ (~Open => ImportKey \in Seq(Free))
  <2> DEFINE t == <<"nameNew", "create", "save">>
             s == IF Open THEN <<"closeQuiet">> ELSE <<>>
  <2>1. ImportKey = s \o t
    BY DEF ImportKey
  <2>2. Fresh(t) /\ t \in Seq(Free)
    BY <1>11
  <2>3. s \in Seq(NamelessOps) /\ (~Open => s = <<>>)
    BY <1>1, <1>2
  <2> HIDE DEF t, s
  <2>4. Fresh(s \o t)
    BY <2>2, <2>3, ConcatFresh
  <2>5. ~Open => s \o t = t
    BY <2>2, <2>3, ConcatEmptySeq
  <2> QED
    BY <2>1, <2>2, <2>4, <2>5
<1>16. Fresh(ReinitCryptoNoteAdapter) /\ (~Open => ReinitCryptoNoteAdapter \in Seq(Free))
  <2>1. Fresh(ReinitCryptoNoteAdapter)
    BY <1>7, <1>10, NamelessFresh, ConcatFresh DEF ReinitCryptoNoteAdapter
  <2>2. ~Open => ReinitCryptoNoteAdapter = <<"restart">>
    BY <1>7, <1>10, ConcatEmptySeq DEF ReinitCryptoNoteAdapter
  <2> QED
    BY <1>10, <2>1, <2>2
<1>17. \A t \in Seq(NamelessOps) : Fresh(t)
  BY NamelessFresh
<1>18. \A t \in Seq(Free) : Guarded(t)
  BY GuardedLists DEF Free
<1>19. /\ Handler("openRecent") = OpenRecentWallet
       /\ Handler("unlock") = OkClicked
       /\ Handler("create") = CreateWallet
       /\ Handler("import") = ImportKey
       /\ Handler("importBadKey") = ImportInvalidKey
       /\ Handler("reset") = ResetWallet
       /\ Handler("closeWallet") = CloseWallet
       /\ Handler("reinit") = ReinitCryptoNoteAdapter
       /\ Handler("commitData") = CommitData
  BY DEF Handler
<1>20. /\ Handler("password") = EncryptWallet
       /\ Handler("createAddress") = CreateAddressRequested
       /\ Handler("importAddress") = ImportAddressRequested
       /\ Handler("deleteAddress") = DeleteAddressFromCard
       /\ Handler("contact") = SetOwnAddressLabel
       /\ Handler("backup") = BackupWallet
       /\ Handler("read") = ExportKey
       /\ Handler("send") = SendClicked
       /\ Handler("register") = RegisterAccountNumberFromCard
       /\ Handler("quit") = <<>>
  BY DEF Handler
<1>21. CASE a \in {"openRecent", "unlock", "create", "import", "importBadKey", "reset",
                   "closeWallet", "reinit", "commitData"}
  BY <1>2, <1>3, <1>7, <1>8, <1>9, <1>13, <1>14, <1>15, <1>16, <1>17, <1>18, <1>19, <1>21
<1>22. CASE a \in {"password", "createAddress", "importAddress", "deleteAddress", "contact",
                   "backup", "read", "send", "register", "quit"}
  BY <1>2, <1>3, <1>4, <1>5, <1>6, <1>17, <1>18, <1>20, <1>22
<1> QED
  BY <1>21, <1>22 DEF AllActions

\* What the handlers of posted events ask for, and what a failed load or create does.
LEMMA OtherFresh ==
    /\ \A t \in Seq(DispatchedOps) : Fresh(t) /\ Guarded(t)
    /\ Naming(<<"nameChosen">>) /\ Naming(<<"discard", "nameOld">>)
    /\ Naming(<<"discard", "askPassword">>) /\ Fresh(<<"get">>) /\ Guarded(<<"get">>)
    /\ Naming(<<>>)
<1>1. \A t \in Seq(DispatchedOps) : Fresh(t) /\ Guarded(t)
  <2>1. DispatchedOps \subseteq NamelessOps /\ DispatchedOps \subseteq Ops \ AdapterClose
    BY OpNames DEF DispatchedOps, NamelessOps, NamingOps, AdapterClose
  <2>2. \A t \in Seq(DispatchedOps) : t \in Seq(NamelessOps) /\ t \in Seq(Ops \ AdapterClose)
    BY <2>1, SeqMonotonic
  <2> QED
    BY <2>2, NamelessFresh, GuardedLists
<1>2. Naming(<<"nameChosen">>) /\ Naming(<<>>)
  BY DEF Naming
<1>3. \A k \in 1..2 : k = 1 \/ k = 2
  OBVIOUS
<1>4. Naming(<<"discard", "nameOld">>)
  <2> DEFINE t == <<"discard", "nameOld">>
  <2>1. Len(t) = 2 /\ t[1] = "discard" /\ t[2] = "nameOld"
    OBVIOUS
  <2> HIDE DEF t
  <2>2. Naming(t)
    BY <1>3, <2>1 DEF Naming
  <2> QED
    BY <2>2 DEF t
<1>5. Naming(<<"discard", "askPassword">>)
  <2> DEFINE t == <<"discard", "askPassword">>
  <2>1. Len(t) = 2 /\ t[1] = "discard" /\ t[2] = "askPassword"
    OBVIOUS
  <2> HIDE DEF t
  <2>2. Naming(t)
    BY <1>3, <2>1 DEF Naming
  <2> QED
    BY <2>2 DEF t
<1>6. Fresh(<<"get">>) /\ Guarded(<<"get">>)
  <2>1. <<"get">> \in Seq(DispatchedOps)
    BY DEF DispatchedOps
  <2> QED
    BY <1>1, <2>1
<1> QED
  BY <1>1, <1>2, <1>4, <1>5, <1>6

\* A frame inside an operation is inside one of the adapter's.
PointsFit == \A i \in 1..depth :
    /\ stack[i].at # "call" => Head(stack[i].todo) \notin LocalOps
    /\ stack[i].at = "locking" => Head(stack[i].todo) \in AdapterClose

\* The handler on top is done with an operation, and neither names a file nor
\* opens or closes a wallet.
Quietly ==
    /\ Busy /\ depth' = depth /\ Top.todo # <<>> /\ Top.at \notin {"init", "deinit"}
    /\ TopGoesOn(Tail(Top.todo)) \/ TopGoesOn(<<>>)
    /\ UNCHANGED <<task, worker, wallet, session, isOpen, named, path, locals>>
    /\ Op \notin NamingOps \cup {"discard"}
    /\ Op = "assertOpen" => isOpen
    /\ (~worker /\ Top.at = "loop") \/ Op \notin OpenOps \cup CloseOps
    /\ UNCHANGED chosen \/ (Post("loadRequest") /\ Top.at = "call")

\* It moves on inside an operation.
Onward ==
    /\ Busy /\ depth' = depth /\ worker
    /\ UNCHANGED <<worker, wallet, session, isOpen, named, path, chosen, locals>>
    /\ OnlyTop /\ stack'[depth].todo = Top.todo
    /\ stack'[depth].at \notin {"call", "init", "deinit"} /\ Top.at # "deinit"
    /\ stack'[depth].at = "locking" => Op \in AdapterClose
    /\ Top.at = "call" => Top.todo # <<>> /\ Op \in TaskOps \cup AdapterClose
    /\ Op \in OpenOps =>
         /\ EnterLoop \/ LeaveInit \/ LeaveLoop \/ AwaitToken \/ StartEventLoop
         /\ Top.session = session
    /\ Op \notin OpenOps =>
         \A i \in 1..depth : i # depth =>
           ((HasTask /\ task.frame = i)' <=> (HasTask /\ task.frame = i))

LEMMA NamingShape ==
    ASSUME SessionInv, PointsFit, Gui
    PROVE  \/ Return
           \/ Quietly
           \/ Onward
           \/ SetWalletFile
           \/ ReturnDeleted /\ Top.ok
           \/ BeginOpen
           \/ BeginClose
           \/ EmitOpened
           \/ OpenFailed
           \/ EndClose
           \/ EndDiscard
<1>1. /\ \A point : At(point) => Busy /\ Top.at = point
      /\ \A ops : Calls(ops) => Busy /\ Top.at = "call" /\ Top.todo # <<>> /\ Op \in ops
  BY DEF At, Calls
<1>2. TypeInv /\ TokenInv
  BY SessionTypes
<1>3. Busy /\ Top.at # "call" => Top.todo # <<>> /\ Op \notin LocalOps
  BY TopFacts DEF PointsFit
<1>4. UNCHANGED life => UNCHANGED <<worker, wallet, session>>
  BY DEF life
<1>5. UNCHANGED files => UNCHANGED <<named, path, chosen, locals>>
  BY DEF files
<1>6. UNCHANGED core => task' = task
  BY DEF core
<1>7. CASE CheckOpen \/ SaveSkipped \/ AccessUserData \/ AskPassword
  <2>1. /\ Busy /\ Top.at = "call" /\ Finish /\ Top.todo # <<>> /\ depth' = depth
        /\ UNCHANGED <<task, worker, wallet, session, isOpen, named, path, chosen, locals>>
    BY <1>1, <1>4, <1>5, <1>6, <1>7 DEF CheckOpen, SaveSkipped, AccessUserData, AskPassword, flags
  <2>2. Op \in {"assertOpen", "save", "askPassword"} \cup DataOps
    BY <1>1, <1>7 DEF CheckOpen, SaveSkipped, AccessUserData, AskPassword
  <2>3. Op = "assertOpen" => isOpen
    <3>1. CASE CheckOpen
      BY <3>1 DEF CheckOpen, Open
    <3>2. CASE SaveSkipped \/ AccessUserData \/ AskPassword
      <4>1. Op \in {"save", "askPassword", "getUserData", "setUserData"}
        BY <1>1, <3>2 DEF SaveSkipped, AccessUserData, AskPassword, DataOps
      <4> QED
        BY <4>1
    <3> QED
      BY <1>7, <3>1, <3>2
  <2>4. Op \notin OpenOps \cup CloseOps \cup NamingOps \cup {"discard"}
    BY <2>2 DEF OpenOps, CloseOps, AdapterClose, NamingOps, DataOps
  <2> QED
    BY <1>2, <2>1, <2>3, <2>4, TopShapes DEF Quietly
<1>8. CASE PostLoad \/ Restart
  <2>1. /\ Busy /\ Top.at = "call" /\ Finish /\ Top.todo # <<>>
        /\ Op \in {"postLoad", "reopen", "restart"} /\ depth' = depth
        /\ UNCHANGED <<task, worker, wallet, session, isOpen, named, path, locals>>
        /\ Post("loadRequest") \/ UNCHANGED chosen
    BY <1>1, <1>4, <1>6, <1>8 DEF PostLoad, Restart, OpenInForm, flags
  <2>2. Op \notin OpenOps \cup CloseOps \cup NamingOps \cup {"discard", "assertOpen"}
    BY <2>1 DEF OpenOps, CloseOps, AdapterClose, NamingOps
  <2> QED
    BY <1>2, <2>1, <2>2, TopShapes DEF Quietly
<1>9. CASE LeaveClosedWorker
  <2>1. /\ Busy /\ Top.at = "loop" /\ ~worker /\ Finish /\ depth' = depth
        /\ UNCHANGED <<task, worker, wallet, session, isOpen, named, path, chosen, locals>>
    BY <1>1, <1>4, <1>5, <1>6, <1>9 DEF LeaveClosedWorker, flags
  <2>2. Op # "discard"
    BY <1>3, <2>1, TopFacts DEF SessionInv, SessionParts, DiscardComesFirst, Discarder, Doing
  <2> QED
    BY <1>2, <1>3, <2>1, <2>2, TopShapes DEF Quietly, LocalOps
<1>10. CASE ReturnResult \/ ReturnMutation \/ (ReturnDeleted /\ ~Top.ok)
  <2>1. /\ Busy /\ Top.at = "held" /\ depth' = depth
        /\ UNCHANGED <<task, worker, wallet, session, isOpen, named, path, chosen, locals>>
        /\ Finish \/ Continue(<<>>)
    <3>1. CASE ReturnResult
      BY <1>1, <1>4, <1>5, <3>1 DEF ReturnResult
    <3>2. CASE ReturnMutation
      BY <1>1, <1>4, <1>5, <3>2 DEF ReturnMutation
    <3>3. CASE ReturnDeleted /\ ~Top.ok
      BY <1>1, <1>4, <1>5, <3>3 DEF ReturnDeleted
    <3> QED
      BY <1>10, <3>1, <3>2, <3>3
  <2>2. Op \in SaveOps \cup {"get", "sendTransaction", "changePassword",
                              "createAddress", "deleteAddress"}
    BY <1>10 DEF ReturnResult, ReturnMutation, ReturnDeleted
  <2>3. Op \notin OpenOps \cup CloseOps \cup {"discard"}
    BY <2>2 DEF SaveOps, OpenOps, CloseOps, AdapterClose
  <2>4. /\ Finish => TopGoesOn(Tail(Top.todo))
        /\ Continue(<<>>) => TopGoesOn(<<>>)
    BY <1>2, <2>1, TopShapes
  <2> QED
    BY <1>3, <2>1, <2>3, <2>4 DEF Quietly, LocalOps
<1>11. CASE Acquire \/ Detach
  <2>1. /\ Busy /\ Top.at = "call" /\ Top.todo # <<>> /\ worker /\ depth' = depth
        /\ UNCHANGED <<worker, wallet, session, isOpen, named, path, chosen, locals>>
        /\ \E point \in {"enter", "wait", "locking"} :
             EnterWorker(point) /\ (point = "locking" => Op \in AdapterClose)
    BY <1>1, <1>4, <1>5, <1>11 DEF Acquire, Detach, flags
  <2>2. Op \in TaskOps \cup AdapterClose
    BY <1>1, <1>11 DEF Acquire, Detach
  <2>3. Op \notin OpenOps \cup {"discard"}
    BY <2>2 DEF TaskOps, SaveOps, BlockOps, OpenOps, AdapterClose
  <2>4. \A i \in 1..depth : i # depth =>
          ((HasTask /\ task.frame = i)' <=> (HasTask /\ task.frame = i))
    <3>1. CASE Detach
      BY <1>6, <3>1 DEF Detach, HasTask
    <3>2. CASE Acquire
      <4>1. sem > 0 /\ task' = [op |-> Op, frame |-> depth]
        BY <3>2 DEF Acquire, TakeToken
      <4>2. ~HasTask
        BY <1>2, <4>1 DEF TokenInv, TokenParts, TokenHeldOnce
      <4>3. task'.frame = depth
        BY <4>1
      <4> QED
        BY <4>2, <4>3
    <3> QED
      BY <1>11, <3>1, <3>2
  <2> QED
    BY <1>2, <2>1, <2>2, <2>3, <2>4, TopShapes DEF Onward, TopMoved
<1>12. CASE EnterLoop
  <2>1. /\ Busy /\ Top.at = "enter" /\ depth' = depth /\ task' = task
        /\ UNCHANGED <<worker, wallet, session, isOpen, named, path, chosen, locals>>
    BY <1>1, <1>4, <1>5, <1>6, <1>12 DEF EnterLoop, flags
  <2>2. OnlyTop /\ stack'[depth].at = "loop" /\ stack'[depth].todo = Top.todo
    BY <1>2, <1>12, <2>1, TopFacts, FramesBelow DEF EnterLoop, OnlyTop, Frame
  <2>3. worker /\ Top.session = session
    BY <1>2, <2>1, TopFacts
       DEF TokenInv, TokenParts, TransitHasWorker, SessionInv, SessionParts, SessionsCounted
  <2> QED
    BY <1>12, <2>1, <2>2, <2>3 DEF Onward, HasTask
<1>13. CASE LeaveInit
  <2>1. /\ Busy /\ Top.at = "init" /\ EnterWorker("enter") /\ depth' = depth
        /\ UNCHANGED <<worker, wallet, session, isOpen, named, path, chosen, locals>>
    BY <1>1, <1>4, <1>5, <1>13 DEF LeaveInit, flags
  <2>2. Top.session = session /\ worker /\ Op \in OpenOps
    <3>1. Top.session = session
      BY <2>1, TopFacts DEF SessionInv, SessionParts, SessionsCounted
    <3>2. worker
      BY <2>1, HolderFacts, SessionTypes DEF Holding
    <3>3. Op \in OpenOps
      BY <1>2, <2>1, TopTodo
    <3> QED
      BY <3>1, <3>2, <3>3
  <2> QED
    BY <1>2, <1>13, <2>1, <2>2, TopShapes DEF Onward, TopMoved
<1>14. CASE LeaveLoop \/ AwaitToken
  <2>1. /\ Busy /\ Top.at \in {"loop", "wait"} /\ depth' = depth /\ task' = task
        /\ \E point \in {"wait", "held"} : Move(point)
        /\ UNCHANGED <<worker, wallet, session, isOpen, named, path, chosen, locals>>
    BY <1>1, <1>4, <1>5, <1>6, <1>14 DEF LeaveLoop, AwaitToken, flags
  <2>2. Top.session = session /\ worker
    <3>1. CASE LeaveLoop
      BY <3>1 DEF LeaveLoop
    <3>2. CASE AwaitToken
      <4>1. Busy /\ Top.at = "wait"
        BY <1>1, <3>2 DEF AwaitToken
      <4>2. Top.session = session
        BY <4>1, TopFacts DEF SessionInv, SessionParts, SessionsCounted
      <4>3. worker
        BY <1>2, <4>1, TopFacts DEF TokenInv, TokenParts, TransitHasWorker
      <4> QED
        BY <4>2, <4>3
    <3> QED
      BY <1>14, <3>1, <3>2
  <2> QED
    BY <1>2, <1>14, <2>1, <2>2, TopShapes DEF Onward, TopMoved, HasTask
<1>15. CASE StartEventLoop
  <2>1. /\ Busy /\ Top.at = "held" /\ Op \in OpenOps /\ Move("opened") /\ depth' = depth
        /\ UNCHANGED <<worker, wallet, session, isOpen, named, path, chosen, locals>>
    BY <1>1, <1>5, <1>15 DEF StartEventLoop, flags
  <2>2. Top.session = session /\ worker
    BY <2>1, HolderRuns
  <2> QED
    BY <1>2, <1>15, <2>1, <2>2, TopShapes DEF Onward, TopMoved
<1> QED
  BY <1>7, <1>8, <1>9, <1>10, <1>11, <1>12, <1>13, <1>14, <1>15 DEF Gui

\* The frames as the naming of files needs them: who opens a wallet has its worker,
\* which nobody above closes.
Shaped ==
    /\ PointsFit
    /\ \A i \in 1..depth : Naming(stack[i].todo)
    /\ \A i, j \in 1..depth : i < j /\ Opener(i) => Guarded(stack[j].todo)
    /\ \A i \in 1..depth : Opener(i) => wallet \in {"starting", "ready"}
    /\ \A i \in 1..depth : Opener(i) \/ Discarder(i) => worker

\* Below a frame that opens or discards a wallet no other does.
LEMMA OthersIdle ==
    ASSUME SessionInv, NEW i \in 1..depth, Opener(i) \/ Discarder(i)
    PROVE  \A j \in 1..depth : j < i => ~Opener(j) /\ ~Discarder(j)
<1> SUFFICES ASSUME NEW j \in 1..depth, j < i PROVE ~Opener(j) /\ ~Discarder(j)
  OBVIOUS
<1>1. stack[j].at = "loop" /\ stack[j].session # session
  BY DEF SessionInv, SessionParts, OpenerAboveStale
<1>2. Discarder(j) => stack[j].at \in {"call", "deinit"}
  BY DEF SessionInv, SessionParts, DiscardComesFirst, Discarder, Doing
<1> QED
  BY <1>1, <1>2 DEF Opener

LEMMA FreshPushes ==
    ASSUME TypeInv, [Next]_vars, ~Gui, exiting' = "no"
    PROVE  depth' = depth + 1 =>
             Fresh(stack'[depth + 1].todo) /\ (~Open => Guarded(stack'[depth + 1].todo))
<1>0. depth \in Nat /\ depth # depth + 1
  BY FramesBelow
<1>1. CASE Dispatch
  BY <1>1, DispatchShape, OtherFresh DEF Pushed
<1>2. ASSUME NEW a \in UserActions, UserInput(a), depth' = depth + 1
      PROVE  Fresh(stack'[depth + 1].todo) /\ (~Open => Guarded(stack'[depth + 1].todo))
  <2>1. a \in AllActions
    BY ChoiceAssumption
  <2>2. Push(Handler(a))
    BY <1>2 DEF UserInput
  <2>3. depth + 1 \in Frames /\ stack \in [Frames -> Frame]
    <3>1. depth < MaxDepth
      BY <1>0, <1>2, <2>2 DEF Push, gui
    <3> QED
      BY <1>0, <3>1, FramesBelow, BoundsAssumption DEF Frames
  <2>4. stack'[depth + 1].todo = Handler(a)
    BY <1>0, <1>2, <2>2, <2>3 DEF Push, gui, Idle
  <2> QED
    BY <2>1, <2>4, HandlerFresh
<1>3. CASE ~Dispatch /\ ~\E a \in UserActions : UserInput(a)
  <2>1. depth' = depth
    BY <1>3 DEF Next, Environment, Worker, Quit, ProcessEvent, PrepareToQuit, InitImpl,
                RunTask, ExitImpl, Abort, vars, gui
  <2> QED
    BY <1>0, <2>1
<1> QED
  BY <1>1, <1>2, <1>3

LEMMA ShapedPushed ==
    ASSUME SessionInv, Shaped, Pushed(PlainOps), UNCHANGED <<worker, session, isOpen>>,
           WalletMoves,
           depth' = depth + 1 =>
             Fresh(stack'[depth + 1].todo) /\ (~Open => Guarded(stack'[depth + 1].todo))
    PROVE  Shaped'
<1>1. TypeInv /\ depth \in Nat
  BY SessionTypes, FramesBelow
<1>2. \A i \in 1..depth' : i \in 1..depth \/ (i = depth + 1 /\ depth' = depth + 1)
  BY <1>1 DEF Pushed
<1>3. \A i \in 1..depth : SameFrame(i)
  BY DEF Pushed
<1>4. \A i \in 1..depth' : Opener(i)' => i \in 1..depth /\ Opener(i)
  BY <1>2, <1>3 DEF Opener, Doing, SameFrame, Pushed
<1>5. \A i \in 1..depth' : Discarder(i)' => i \in 1..depth /\ Discarder(i)
  BY <1>1, DiscardersPushed
<1>6. PointsFit'
  BY <1>2, <1>3 DEF Shaped, PointsFit, SameFrame, Pushed
<1>7. \A i \in 1..depth' : Naming(stack'[i].todo)
  BY <1>2, <1>3 DEF Shaped, SameFrame, Fresh
<1>8. \A i, j \in 1..depth' : i < j /\ Opener(i)' => Guarded(stack'[j].todo)
  <2> SUFFICES ASSUME NEW i \in 1..depth', NEW j \in 1..depth', i < j, Opener(i)'
               PROVE  Guarded(stack'[j].todo)
    OBVIOUS
  <2>1. i \in 1..depth /\ Opener(i)
    BY <1>4
  <2>2. ~Open
    BY <2>1 DEF SessionInv, SessionParts, OpenedByFrame, Open
  <2>3. CASE j \in 1..depth
    BY <1>3, <2>1, <2>3 DEF Shaped, SameFrame
  <2> QED
    BY <1>2, <2>2, <2>3
<1>9. \A i \in 1..depth' : Opener(i)' => wallet' \in {"starting", "ready"}
  BY <1>4 DEF Shaped, WalletMoves
<1>10. \A i \in 1..depth' : Opener(i)' \/ Discarder(i)' => worker'
  BY <1>4, <1>5 DEF Shaped
<1> QED
  BY <1>6, <1>7, <1>8, <1>9, <1>10 DEF Shaped

\* The frame on top changes, the others stay.
LEMMA ShapedTop ==
    ASSUME SessionInv, Shaped, Busy, OnlyTop, depth' = depth, session' = session,
           Naming(stack'[depth].todo),
           stack'[depth].at # "call" => Head(stack'[depth].todo) \notin LocalOps,
           stack'[depth].at = "locking" => Head(stack'[depth].todo) \in AdapterClose,
           \A i \in 1..depth : i < depth /\ Opener(i) =>
             Guarded(stack'[depth].todo) /\ wallet' \in {"starting", "ready"},
           \A i \in 1..depth : i < depth /\ (Opener(i) \/ Discarder(i)) => worker',
           Opener(depth)' => wallet' \in {"starting", "ready"} /\ worker',
           Discarder(depth)' => worker'
    PROVE  Shaped'
<1>1. depth \in Nat /\ \A i \in 1..depth : i \in Frames
  BY TopFacts
<1>2. \A i \in 1..depth : i = depth \/ (i < depth /\ stack'[i] = stack[i])
  BY <1>1 DEF OnlyTop
<1>3. \A i \in 1..depth : i < depth =>
        (Opener(i)' <=> Opener(i)) /\ (Discarder(i)' <=> Discarder(i))
  <2>1. \A i \in 1..depth : i < depth => stack'[i] = stack[i]
    BY <1>1, <1>2
  <2> QED
    BY <2>1 DEF Opener, Discarder, Doing
<1>4. PointsFit'
  BY <1>2 DEF Shaped, PointsFit
<1>5. \A i \in 1..depth : Naming(stack'[i].todo)
  BY <1>2 DEF Shaped
<1>6. \A i, j \in 1..depth : i < j /\ Opener(i)' => Guarded(stack'[j].todo)
  <2> SUFFICES ASSUME NEW i \in 1..depth, NEW j \in 1..depth, i < j, Opener(i)'
               PROVE  Guarded(stack'[j].todo)
    OBVIOUS
  <2>1. i < depth
    BY <1>1
  <2>2. Opener(i)
    BY <1>3, <2>1
  <2> QED
    BY <1>2, <2>1, <2>2 DEF Shaped
<1>7. \A i \in 1..depth : Opener(i)' => wallet' \in {"starting", "ready"}
  BY <1>2, <1>3
<1>8. \A i \in 1..depth : Opener(i)' \/ Discarder(i)' => worker'
  BY <1>2, <1>3
<1> QED
  BY <1>4, <1>5, <1>6, <1>7, <1>8 DEF Shaped

LEMMA ShapedWentOn ==
    ASSUME SessionInv, Shaped, Busy, depth' = depth, session' = session, Top.todo # <<>>,
           UNCHANGED <<worker, wallet>>,
           TopGoesOn(Tail(Top.todo)) \/ TopGoesOn(<<>>), Op = "assertOpen" => isOpen
    PROVE  /\ Shaped' /\ stack'[depth].at = "call" /\ Naming(stack'[depth].todo)
           /\ ~Opener(depth)' /\ ~Discarder(depth)'
<1>1. /\ depth \in 1..depth /\ Top = stack[depth] /\ Op = Head(stack[depth].todo)
      /\ depth \in Frames
  BY TopFacts
<1>2. Top.todo \in Seq(Ops) /\ Naming(Top.todo) /\ Tail(Top.todo) \in Seq(PlainOps)
  <2>1. Top.todo \in Seq(Ops)
    BY SessionTypes, TopTodo
  <2> QED
    BY <1>1, <2>1 DEF Shaped, SessionInv, SessionParts, DiscardComesFirst
<1>3. /\ OnlyTop /\ stack'[depth].at = "call"
      /\ stack'[depth].todo = Tail(Top.todo) \/ stack'[depth].todo = <<>>
  BY DEF TopGoesOn, Idle
<1>4. Naming(stack'[depth].todo)
  BY <1>2, <1>3, NamingTail, OtherFresh
<1>5. ASSUME NEW i \in 1..depth, i < depth, Opener(i)
      PROVE  Guarded(stack'[depth].todo) /\ wallet' \in {"starting", "ready"}
  <2>1. Guarded(Top.todo) /\ wallet \in {"starting", "ready"}
    BY <1>1, <1>5 DEF Shaped
  <2>2. Op # "assertOpen"
    BY <1>5 DEF SessionInv, SessionParts, OpenedByFrame
  <2>3. Guarded(Tail(Top.todo))
    BY <1>2, <2>1, <2>2, GuardedTail DEF Op
  <2>4. Guarded(<<>>)
    BY DEF Guarded
  <2> QED
    BY <1>3, <2>1, <2>3, <2>4
<1>6. ~Opener(depth)'
  BY <1>3 DEF Opener
<1>7. ~Discarder(depth)'
  <2>1. stack'[depth].todo # <<>> => Head(stack'[depth].todo) \in PlainOps
    BY <1>2, <1>3, HeadTailProperties
  <2> QED
    BY <2>1 DEF Discarder, Doing, PlainOps
<1>8. \A i \in 1..depth : i < depth /\ (Opener(i) \/ Discarder(i)) => worker'
  BY DEF Shaped
<1>9. Shaped'
  BY <1>3, <1>4, <1>5, <1>6, <1>7, <1>8, ShapedTop
<1> QED
  BY <1>3, <1>4, <1>6, <1>7, <1>9

LEMMA ShapedOnward ==
    ASSUME SessionInv, Shaped, Onward
    PROVE  Shaped'
<1>1. /\ depth \in 1..depth /\ Top = stack[depth] /\ Op = Head(stack[depth].todo)
      /\ Top.at # "call" => Top.todo # <<>>
  BY TopFacts DEF Onward
<1>2. stack'[depth].todo = Top.todo /\ Naming(Top.todo)
  BY <1>1 DEF Onward, Shaped
<1>3. Op \notin LocalOps
  BY <1>1 DEF Onward, Shaped, PointsFit, TaskOps, SaveOps, BlockOps, AdapterClose, LocalOps,
              NamingOps, OpeningOps
<1>4. ASSUME NEW i \in 1..depth, i < depth, Opener(i)
      PROVE  Guarded(stack'[depth].todo) /\ wallet' \in {"starting", "ready"}
  BY <1>1, <1>2, <1>4 DEF Shaped, Onward
<1>5. Opener(depth)' => wallet' \in {"starting", "ready"} /\ worker'
  <2> SUFFICES ASSUME Opener(depth)' PROVE Opener(depth)
    BY <1>1 DEF Shaped, Onward
  <2>1. Op \in OpenOps /\ Top.todo # <<>>
    BY <1>1, <1>2 DEF Opener, Doing, Onward
  <2>2. Top.session = session
    BY <2>1 DEF Onward
  <2>3. Top.at # "call"
    BY <2>1 DEF Onward, TaskOps, SaveOps, BlockOps, AdapterClose, OpenOps
  <2> QED
    BY <1>1, <2>1, <2>2, <2>3 DEF Opener, Doing
<1>6. worker'
  BY DEF Onward
<1>7. stack'[depth].at = "locking" => Head(stack'[depth].todo) \in AdapterClose
  BY <1>1, <1>2 DEF Onward
<1> QED
  BY <1>1, <1>2, <1>3, <1>4, <1>5, <1>6, <1>7, ShapedTop DEF Onward

LEMMA ShapedGui ==
    ASSUME SessionInv, Shaped, Gui
    PROVE  Shaped'
<1>1. TypeInv /\ TokenInv /\ CaptureInv
  BY SessionTypes
<1>2. /\ \A point : At(point) => Busy /\ Top.at = point
      /\ \A ops : Calls(ops) => Busy /\ Top.at = "call" /\ Top.todo # <<>> /\ Op \in ops
  BY DEF At, Calls
<1>3. Busy => /\ depth \in 1..depth /\ Top = stack[depth] /\ Op = Head(stack[depth].todo)
              /\ Top.at # "call" => Top.todo # <<>>
              /\ depth \in Frames /\ depth \in Nat
  BY TopFacts
<1>4. CASE Return
  <2>1. /\ Busy /\ depth' = depth - 1
        /\ UNCHANGED <<worker, wallet, session>>
        /\ \A i \in 1..depth' : i \in 1..depth /\ i # depth /\ stack'[i] = stack[i]
    BY <1>1, <1>4, FramesBelow DEF Return, At, life
  <2>2. \A i \in 1..depth' : /\ (Opener(i)' <=> Opener(i)) /\ (Discarder(i)' <=> Discarder(i))
                             /\ stack'[i] = stack[i] /\ i \in 1..depth
    BY <2>1 DEF Opener, Discarder, Doing
  <2> QED
    BY <2>1, <2>2 DEF Shaped, PointsFit
<1>5. CASE Quietly
  BY <1>5, ShapedWentOn DEF Quietly
<1>6. CASE Onward
  BY <1>6, ShapedOnward
<1>7. CASE SetWalletFile
  <2>1. /\ Busy /\ depth' = depth /\ session' = session /\ UNCHANGED <<worker, wallet>>
        /\ Top.todo # <<>> /\ Op \in NamingOps /\ Finish
    BY <1>2, <1>7 DEF SetWalletFile, life
  <2>2. Op # "assertOpen"
    BY <2>1 DEF NamingOps
  <2>3. TopGoesOn(Tail(Top.todo))
    BY <1>1, <2>1, TopShapes
  <2> QED
    BY <2>1, <2>2, <2>3, ShapedWentOn
<1>8. CASE BeginClose
  <2>1. /\ Busy /\ worker /\ worker' = worker /\ depth' = depth /\ EnterWorker("deinit")
        /\ session' = session /\ wallet' = "exiting"
    BY <1>8 DEF BeginClose, At, Calls
  <2>2. OnlyTop /\ stack'[depth].todo = Top.todo /\ stack'[depth].at = "deinit"
    BY <1>1, <2>1, TopSteps
  <2>3. /\ Op \in AdapterClose \cup {"discard"} /\ Top.todo # <<>>
        /\ (Top.at = "locking" /\ Op \in AdapterClose) \/ Discarder(depth)
    <3>1. CASE At("locking")
      BY <1>2, <1>3, <3>1 DEF Shaped, PointsFit
    <3>2. CASE Calls({"discard"})
      BY <1>2, <1>3, <3>2 DEF Discarder, Doing
    <3> QED
      BY <1>8, <3>1, <3>2 DEF BeginClose
  <2>4. ASSUME NEW i \in 1..depth, i < depth, Opener(i) PROVE FALSE
    <3>1. CASE Discarder(depth)
      BY <1>3, <2>1, <2>4, <3>1, OthersIdle
    <3>2. CASE Op \in AdapterClose
      <4>1. Guarded(Top.todo) /\ Top.todo \in Seq(Ops)
        BY <1>1, <1>3, <2>1, <2>4, TopTodo DEF Shaped
      <4> QED
        BY <2>3, <3>2, <4>1, GuardedTail DEF Op
    <3> QED
      BY <2>3, <3>1, <3>2
  <2>5. Op \notin LocalOps \cup OpenOps /\ (stack'[depth].todo # <<>>)
    BY <2>2, <2>3 DEF AdapterClose, LocalOps, NamingOps, OpeningOps, OpenOps
  <2>6. ~Opener(depth)'
    BY <1>3, <2>1, <2>2, <2>5 DEF Opener, Doing
  <2>7. Naming(stack'[depth].todo) /\ Head(stack'[depth].todo) \notin LocalOps
    BY <1>3, <2>1, <2>2, <2>5 DEF Shaped
  <2> QED
    BY <2>1, <2>2, <2>4, <2>6, <2>7, ShapedTop
<1>9. CASE EmitOpened
  <2>1. /\ Busy /\ Top.at = "opened" /\ depth' = depth
        /\ UNCHANGED <<worker, wallet, session>>
        /\ Continue(IF Op = "load" THEN <<"nameChosen">> ELSE Tail(Top.todo))
    BY <1>2, <1>9 DEF EmitOpened, life
  <2>2. worker /\ Opener(depth)
    BY <1>3, <2>1, HolderRuns DEF Opener, SessionInv, SessionParts, OpenedByFrame
  <2>3. \A i \in 1..depth : i < depth => ~Opener(i) /\ ~Discarder(i)
    BY <1>3, <2>1, <2>2, OthersIdle
  <2>4. PICK ops : ops = IF Op = "load" THEN <<"nameChosen">> ELSE Tail(Top.todo)
    OBVIOUS
  <2>5. OnlyTop /\ stack'[depth].at = "call" /\ stack'[depth].todo = ops
    <3>1. Continue(ops)
      BY <2>1, <2>4
    <3>2. TopGoesOn(ops)
      BY <1>1, <2>1, <3>1, TopShapes
    <3> QED
      BY <3>2 DEF TopGoesOn, Idle
  <2>6. Naming(ops) /\ (ops # <<>> => Head(ops) # "discard")
    <3>1. Top.todo \in Seq(Ops) /\ Naming(Top.todo) /\ Tail(Top.todo) \in Seq(PlainOps)
          /\ Top.todo # <<>>
      <4>1. Top.todo \in Seq(Ops)
        BY <1>1, <2>1, TopTodo
      <4> QED
        BY <1>3, <2>1, <4>1 DEF Shaped, SessionInv, SessionParts, DiscardComesFirst
    <3>2. Tail(Top.todo) # <<>> => Head(Tail(Top.todo)) # "discard"
      <4>1. Tail(Top.todo) # <<>> => Head(Tail(Top.todo)) \in PlainOps
        BY <3>1, HeadTailProperties
      <4> QED
        BY <4>1 DEF PlainOps
    <3>3. Head(<<"nameChosen">>) # "discard"
      OBVIOUS
    <3> QED
      BY <2>4, <3>1, <3>2, <3>3, NamingTail, OtherFresh
  <2>7. ~Opener(depth)' /\ ~Discarder(depth)'
    BY <2>1, <2>5, <2>6 DEF Opener, Discarder, Doing
  <2>8. Naming(stack'[depth].todo)
    BY <2>5, <2>6
  <2> QED
    BY <2>1, <2>3, <2>5, <2>7, <2>8, ShapedTop
<1>10. CASE OpenFailed
  <2>1. /\ Busy /\ Top.at = "held" /\ Op \in OpenOps /\ depth' = depth
        /\ UNCHANGED <<worker, wallet, session>>
        /\ Continue(<<"discard", "askPassword">>) \/ Continue(<<"discard", "nameOld">>)
    BY <1>2, <1>10 DEF OpenFailed, life, RestoreName
  <2>2. worker /\ Opener(depth)
    BY <1>3, <2>1, HolderRuns DEF Opener, Doing
  <2>3. \A i \in 1..depth : i < depth => ~Opener(i) /\ ~Discarder(i)
    BY <1>3, <2>1, <2>2, OthersIdle
  <2>4. PICK ops \in {<<"discard", "askPassword">>, <<"discard", "nameOld">>} : Continue(ops)
    BY <2>1
  <2>5. OnlyTop /\ stack'[depth].at = "call" /\ stack'[depth].todo = ops
    <3>1. Continue(ops)
      BY <2>1, <2>4
    <3>2. TopGoesOn(ops)
      BY <1>1, <2>1, <3>1, TopShapes
    <3> QED
      BY <3>2 DEF TopGoesOn, Idle
  <2>6. Naming(ops)
    BY <2>4, OtherFresh
  <2>7. ~Opener(depth)' /\ worker' /\ Naming(stack'[depth].todo)
    BY <2>1, <2>2, <2>5, <2>6 DEF Opener
  <2> QED
    BY <2>1, <2>3, <2>5, <2>7, ShapedTop
<1>11. CASE EndClose \/ EndDiscard
  <2>1. /\ Busy /\ Top.at = "deinit" /\ Top.todo # <<>> /\ wallet = "stopped"
        /\ depth' = depth /\ session' = session /\ Finish
    <3>1. WorkerGone
      BY <1>11 DEF EndClose, EndDiscard
    <3> QED
      BY <1>3, <3>1 DEF WorkerGone, DeinitDone, At
  <2>2. \A i \in 1..depth : ~Opener(i)
    BY <2>1 DEF Shaped
  <2>3. \A i \in 1..depth : i < depth => ~Discarder(i)
    <3> SUFFICES ASSUME NEW i \in 1..depth, i < depth, Discarder(i) PROVE FALSE
      OBVIOUS
    <3>1. stack[i].at \in {"call", "deinit"}
      BY DEF SessionInv, SessionParts, DiscardComesFirst, Discarder, Doing
    <3>2. stack[i].at \in InLoops \cup {"emit"} /\ stack[i].at \notin Holding
      BY <1>1, <1>3, <2>1, TopFacts, HolderFacts DEF Holding
    <3> QED
      BY <3>1, <3>2 DEF InLoops, Holding
  <2>4. OnlyTop /\ stack'[depth].at = "call" /\ stack'[depth].todo = Tail(Top.todo)
    BY <1>1, <2>1, TopShapes DEF TopGoesOn, Idle
  <2>5. Top.todo \in Seq(Ops) /\ Naming(Top.todo) /\ Tail(Top.todo) \in Seq(PlainOps)
    <3>1. Top.todo \in Seq(Ops)
      BY <1>1, <2>1, TopTodo
    <3> QED
      BY <1>3, <2>1, <3>1 DEF Shaped, SessionInv, SessionParts, DiscardComesFirst
  <2>6. Naming(stack'[depth].todo)
    BY <2>1, <2>4, <2>5, NamingTail
  <2>7. ~Opener(depth)' /\ ~Discarder(depth)'
    <3>1. stack'[depth].todo # <<>> => Head(stack'[depth].todo) \in PlainOps
      BY <2>4, <2>5, HeadTailProperties
    <3> QED
      BY <2>1, <2>4, <3>1 DEF Opener, Discarder, Doing, PlainOps
  <2> QED
    BY <1>3, <2>1, <2>2, <2>3, <2>4, <2>6, <2>7, ShapedTop
<1>12. CASE BeginOpen
  <2>1. /\ Busy /\ Top.at = "call" /\ Top.todo # <<>> /\ Op \in OpenOps
        /\ ~worker /\ worker' /\ wallet' = "starting" /\ depth' = depth
        /\ session' = session + 1
        /\ stack' = [stack EXCEPT ![depth].at = "init",
                              ![depth].session = session + 1,
                              ![depth].exited = exiting = "unwind"]
    BY <1>2, <1>12 DEF BeginOpen
  <2>2. \A i \in 1..depth : ~Opener(i) /\ ~Discarder(i)
    BY <2>1 DEF Shaped
  <2>3. /\ \A i \in 1..depth : i # depth => stack'[i] = stack[i]
        /\ stack'[depth].todo = Top.todo /\ stack'[depth].at = "init"
        /\ depth \in 1..depth
    BY <1>1, <1>3, <2>1, FramesBelow DEF Frame
  <2>4. \A i \in 1..depth : i # depth => ~Opener(i)' /\ ~Discarder(i)'
    <3> SUFFICES ASSUME NEW i \in 1..depth, i # depth PROVE ~Opener(i)' /\ ~Discarder(i)'
      OBVIOUS
    <3>1. stack[i].session <= session /\ stack[i].session \in Nat /\ session \in Nat
      BY <2>1, TopFacts DEF SessionInv, SessionParts, SessionsCounted
    <3>2. stack[i].session # session'
      BY <2>1, <3>1
    <3> QED
      BY <2>2, <2>3, <3>2 DEF Opener, Discarder, Doing
  <2>5. PointsFit'
    <3>1. Op \notin LocalOps
      BY <2>1 DEF OpenOps, LocalOps, NamingOps, OpeningOps
    <3> QED
      BY <1>3, <2>1, <2>3, <3>1 DEF Shaped, PointsFit
  <2>6. \A i \in 1..depth : Naming(stack'[i].todo)
    BY <1>3, <2>1, <2>3 DEF Shaped
  <2>7. \A i, j \in 1..depth : i < j /\ Opener(i)' => Guarded(stack'[j].todo)
    <3>1. \A i, j \in 1..depth : i < j => i # depth
      BY <1>3, <2>1
    <3> QED
      BY <2>4, <3>1
  <2> QED
    BY <2>1, <2>4, <2>5, <2>6, <2>7 DEF Shaped
<1>13. CASE ReturnDeleted /\ Top.ok
  <2>1. /\ Busy /\ Top.at = "held" /\ Op = "deleteAddress"
        /\ depth' = depth + 1 /\ depth < MaxDepth
        /\ UNCHANGED <<worker, wallet, session>>
        /\ stack' = [stack EXCEPT ![depth].at = "emit",
                       ![depth + 1] = [Idle EXCEPT !.todo = <<"get">>]]
    BY <1>2, <1>13 DEF ReturnDeleted, life
  <2>2. depth + 1 \in Frames /\ depth \in Frames /\ depth \in Nat /\ depth # depth + 1
    BY <1>1, <1>3, <2>1, BoundsAssumption DEF Frames
  <2>3. /\ \A i \in 1..depth : /\ stack'[i].todo = stack[i].todo
                               /\ stack'[i].session = stack[i].session
                               /\ stack'[i].at = stack[i].at \/ (i = depth /\ stack'[i].at = "emit")
        /\ stack'[depth + 1].todo = <<"get">> /\ stack'[depth + 1].at = "call"
    <3>1. stack \in [Frames -> Frame] /\ \A i \in 1..depth : i \in Frames /\ i # depth + 1
      BY <1>1, <2>2, FramesBelow
    <3>2. \A i \in 1..depth : /\ stack'[i].todo = stack[i].todo
                              /\ stack'[i].session = stack[i].session
                              /\ stack'[i].at = stack[i].at \/ (i = depth /\ stack'[i].at = "emit")
      BY <2>1, <2>2, <3>1 DEF Frame
    <3>3. stack'[depth + 1] = [Idle EXCEPT !.todo = <<"get">>]
      BY <2>1, <2>2, <3>1
    <3> QED
      BY <3>2, <3>3 DEF Idle
  <2>4. \A i \in 1..depth' : i \in 1..depth \/ i = depth + 1
    BY <2>1, <2>2
  <2>5. Head(<<"get">>) = "get" /\ "get" \notin OpenOps \cup {"discard"}
    BY DEF OpenOps
  <2>6. \A i \in 1..depth' : /\ Opener(i)' => i \in 1..depth /\ Opener(i)
                             /\ Discarder(i)' => i \in 1..depth /\ Discarder(i)
    <3>1. Top.at # "call" /\ \A i \in 1..depth : stack'[i].at # "call" => stack[i].at # "call"
      BY <1>3, <2>1, <2>3
    <3> QED
      BY <2>1, <2>3, <2>4, <2>5, <3>1 DEF Opener, Discarder, Doing
  <2>7. PointsFit'
    <3>1. Head(stack[depth].todo) \notin LocalOps
      BY <1>3, <2>1 DEF Shaped, PointsFit
    <3> QED
      BY <2>3, <2>4, <3>1 DEF Shaped, PointsFit
  <2>8. \A i \in 1..depth' : Naming(stack'[i].todo)
    BY <2>3, <2>4, OtherFresh DEF Shaped, Fresh
  <2>9. \A i, j \in 1..depth' : i < j /\ Opener(i)' => Guarded(stack'[j].todo)
    <3> SUFFICES ASSUME NEW i \in 1..depth', NEW j \in 1..depth', i < j, Opener(i)'
                 PROVE  Guarded(stack'[j].todo)
      OBVIOUS
    <3>1. i \in 1..depth /\ Opener(i)
      BY <2>6
    <3>2. CASE j \in 1..depth
      BY <2>3, <3>1, <3>2 DEF Shaped
    <3>3. CASE j = depth + 1
      BY <2>3, <3>3, OtherFresh
    <3> QED
      BY <2>4, <3>2, <3>3
  <2> QED
    BY <2>1, <2>6, <2>7, <2>8, <2>9 DEF Shaped
<1> QED
  BY <1>4, <1>5, <1>6, <1>7, <1>8, <1>9, <1>10, <1>11, <1>12, <1>13, NamingShape DEF Shaped

LEMMA ShapedStep ==
    ASSUME SessionInv, Shaped, [Next]_vars, exiting' = "no"
    PROVE  Shaped'
<1>1. CASE Gui
  BY <1>1, ShapedGui
<1>2. CASE ~Gui
  BY <1>2, SessionTypes, OtherSteps, FreshPushes, ShapedPushed
<1> QED
  BY <1>1, <1>2

-----------------------------------------------------------------------------
(* When a second wallet is about to be opened the program is about to      *)
(* abort, and no file is named any more.                                   *)

\* Nobody has closed a wallet but for deleting its worker.
Unfinished == \A i \in 1..depth : stack[i].at = "deinit" => ~stack[i].exited

\* A request to load is dispatched before any wallet is closed.
LoadsNext == \E k \in 1..Len(queue) :
    /\ queue[k].kind = "loadRequest"
    /\ \A m \in 1..(k - 1) : queue[m].kind # "deinitCompleted"

OpensTwice == worker /\ Busy /\ Top.at = "call" /\ Doing(depth, OpenOps)

\* createWorker will find a worker.
Doomed == OpensTwice \/ (worker /\ Unfinished /\ LoadsNext)

LEMMA UnfinishedGui ==
    ASSUME SessionInv, worker, Unfinished, exiting = "no", Gui
    PROVE  worker' /\ Unfinished' /\ \E kinds : Grew(kinds)
<1>1. TypeInv
  BY SessionTypes
<1>2. ASSUME Busy, OnlyTop, depth' = depth,
             stack'[depth].at # "deinit" \/ ~stack'[depth].exited
      PROVE  Unfinished'
  BY <1>2, TopFacts DEF OnlyTop, Unfinished
<1>3. UNCHANGED queue => Grew(Kinds)
  BY <1>1, QueueGrows
<1>4. CASE Return
  <2>1. /\ UNCHANGED <<worker, queue>>
        /\ \A i \in 1..depth' : i \in 1..depth /\ stack'[i] = stack[i]
    BY <1>1, <1>4, FramesBelow DEF Return, At, life
  <2> QED
    BY <1>3, <2>1 DEF Unfinished
<1>5. CASE GoesOn
  <2>1. UNCHANGED worker /\ \E kinds : Grew(kinds)
    BY <1>5 DEF GoesOn, Calm
  <2>2. Busy /\ OnlyTop /\ depth' = depth /\ stack'[depth].at # "deinit"
    BY <1>5 DEF GoesOn, TopGoesOn, Idle
  <2> QED
    BY <1>2, <2>1, <2>2
<1>6. CASE Moves
  <2>1. UNCHANGED <<worker, queue>>
    BY <1>6 DEF Moves, Calm
  <2>2. Busy /\ OnlyTop /\ depth' = depth /\ stack'[depth].at # "deinit"
    BY <1>6 DEF Moves, MovesTo, TopMoved
  <2> QED
    BY <1>2, <1>3, <2>1, <2>2
<1>7. CASE ReturnDeleted /\ Top.ok
  <2>1. /\ Busy /\ UNCHANGED worker
        /\ Post("addressDeleted") /\ depth' = depth + 1 /\ depth < MaxDepth
        /\ stack' = [stack EXCEPT ![depth].at = "emit",
                       ![depth + 1] = [Idle EXCEPT !.todo = <<"get">>]]
    BY <1>7 DEF ReturnDeleted, At, life
  <2>2. \E kinds : Grew(kinds)
    BY <1>1, <2>1, QueueGrows, KindNames
  <2>3. stack \in [Frames -> Frame] /\ depth + 1 \in Frames /\ depth \in Frames
        /\ depth \in Nat
    BY <1>1, <2>1, FramesBelow, BoundsAssumption DEF Frames
  <2>4. /\ \A i \in 1..depth : i # depth => stack'[i] = stack[i]
        /\ stack'[depth].at = "emit" /\ stack'[depth + 1].at = "call"
    BY <1>1, <2>1, <2>3, FramesBelow DEF Idle, Frame
  <2>5. Unfinished'
    <3>1. \A i \in 1..depth' : (i \in 1..depth /\ i # depth) \/ i = depth \/ i = depth + 1
      BY <2>1, <2>3
    <3>2. \A i \in 1..depth' : stack'[i].at = "deinit" => i \in 1..depth /\ stack'[i] = stack[i]
      BY <2>4, <3>1
    <3> QED
      BY <3>2 DEF Unfinished
  <2> QED
    BY <2>1, <2>2, <2>5
<1>8. CASE BeginOpen
  BY <1>8 DEF BeginOpen
<1>9. CASE BeginClose
  <2>1. /\ Busy /\ UNCHANGED <<depth, queue, worker>> /\ EnterWorker("deinit")
    BY <1>9 DEF BeginClose, At, Calls
  <2>2. OnlyTop /\ ~stack'[depth].exited
    BY <1>1, <2>1, TopSteps, TopInFrames, FramesBelow DEF EnterWorker, TypeInv, Frame
  <2> QED
    BY <1>2, <1>3, <2>1, <2>2
<1>10. CASE EmitOpened \/ OpenFailed
  <2>1. /\ Busy /\ UNCHANGED <<depth, worker>>
        /\ \E ops : Continue(ops)
        /\ \/ UNCHANGED queue
           \/ Post("opened")
           \/ Post("openError")
    BY <1>10 DEF EmitOpened, OpenFailed, At, life, ReportOpenError
  <2>2. OnlyTop /\ stack'[depth].at # "deinit"
    BY <1>1, <2>1, TopShapes DEF TopGoesOn, Idle
  <2>3. \E kinds : Grew(kinds)
    BY <1>1, <2>1, QueueGrows, KindNames
  <2> QED
    BY <1>2, <2>1, <2>2, <2>3
<1>11. CASE EndClose \/ EndDiscard
  <2>1. Busy /\ Top.at = "deinit" /\ Top.exited
    BY <1>11 DEF EndClose, EndDiscard, WorkerGone, DeinitDone, At
  <2> QED
    BY <2>1, TopFacts DEF Unfinished
<1> QED
  BY <1>4, <1>5, <1>6, <1>7, <1>8, <1>9, <1>10, <1>11, GuiShape

\* Steps but those of the handler on top, seen from the queue.
LEMMA OthersGrow ==
    ASSUME TypeInv, [Next]_vars, ~Gui, ~Dispatch
    PROVE  \E kinds : Grew(kinds)
<1>1. UNCHANGED queue => Grew(Kinds)
  BY QueueGrows
<1>2. CASE \E kind \in CoreKinds : ProcessEvent(kind)
  BY <1>2, ProcessGrows, ChoiceAssumption
<1>3. CASE InitImpl \/ ExitImpl
  <2>1. "initCompleted" \in Kinds /\ "deinitCompleted" \in Kinds
    BY DEF Kinds
  <2> QED
    BY <1>3, <2>1, QueueGrows DEF InitImpl, ExitImpl
<1>4. CASE \/ \E a \in UserActions : UserInput(a)
           \/ Quit \/ PrepareToQuit \/ RunTask \/ Abort \/ UNCHANGED vars
  BY <1>1, <1>4 DEF UserInput, Quit, PrepareToQuit, RunTask, Abort, vars
<1> QED
  BY <1>2, <1>3, <1>4 DEF Next, Environment, Worker

\* What a step does to the points of frames below the handler on top.
LEMMA OthersKeepExits ==
    ASSUME TokenInv, [Next]_vars, ~Gui, ~Dispatch, exiting' = "no"
    PROVE  \A i \in 1..depth :
             /\ stack[i].at # "loop" /\ stack[i].at # "enter" /\ stack[i].at # "wait"
                  => stack'[i] = stack[i]
             /\ ~RunTask => stack'[i] = stack[i]
<1>1. TypeInv /\ stack \in [Frames -> Frame] /\ \A i \in 1..depth : i \in Frames /\ i # depth + 1
  BY FramesBelow DEF TokenInv
<1>2. \A ops : Push(ops) => \A i \in 1..depth : stack'[i] = stack[i]
  BY <1>1 DEF Push, gui
<1>3. CASE RunTask
  <2>1. HasTask
    BY <1>3 DEF RunTask, HasTask
  <2>2. stack[task.frame].at \in {"enter", "loop", "wait"}
    BY <2>1 DEF TokenInv, TokenParts, TaskFrameOnStack
  <2>3. \A i \in 1..depth : i # task.frame => stack'[i] = stack[i]
    BY <1>1, <1>3 DEF RunTask
  <2> QED
    BY <1>3, <2>2, <2>3
<1>4. CASE \E a \in UserActions : UserInput(a)
  <2>1. \A i \in 1..depth : stack'[i] = stack[i]
    BY <1>2, <1>4 DEF UserInput
  <2> QED
    BY <2>1
<1>5. CASE \/ \E kind \in CoreKinds : ProcessEvent(kind)
           \/ InitImpl \/ ExitImpl \/ Abort \/ UNCHANGED vars
  <2>1. stack' = stack
    BY <1>5 DEF ProcessEvent, InitImpl, ExitImpl, Abort, vars, gui
  <2> QED
    BY <2>1
<1>6. ~Quit /\ ~PrepareToQuit
  BY DEF Quit, PrepareToQuit
<1> QED
  BY <1>3, <1>4, <1>5, <1>6 DEF Next, Environment, Worker

\* A request to load stays ahead of the end of the wallet.
LEMMA LoadsKept ==
    ASSUME TypeInv, TypeInv', LoadsNext
    PROVE  /\ \A kinds : Grew(kinds) => LoadsNext'
           /\ \A kind : Receive(kind) /\ kind # "loadRequest" =>
                kind # "deinitCompleted" /\ LoadsNext'
<1>1. Len(queue) \in Nat /\ Len(queue') \in Nat
  BY LenProperties DEF TypeInv, SessionTypeOK
<1>2. PICK k \in 1..Len(queue) :
        /\ queue[k].kind = "loadRequest"
        /\ \A m \in 1..(k - 1) : queue[m].kind # "deinitCompleted"
  BY DEF LoadsNext
<1>3. ASSUME NEW kinds, Grew(kinds) PROVE LoadsNext'
  <2>1. k \in 1..Len(queue') /\ \A m \in 1..(k - 1) : m \in 1..Len(queue)
    BY <1>1, <1>2, <1>3 DEF Grew
  <2>2. queue'[k] = queue[k] /\ \A m \in 1..(k - 1) : queue'[m] = queue[m]
    BY <1>2, <1>3, <2>1 DEF Grew
  <2> QED
    BY <1>2, <2>1, <2>2 DEF LoadsNext
<1>4. ASSUME NEW kind, Receive(kind), kind # "loadRequest"
      PROVE  kind # "deinitCompleted" /\ LoadsNext'
  <2>1. /\ Len(queue) \in Nat /\ Len(queue') = Len(queue) - 1
        /\ 1 \in 1..Len(queue) /\ queue[1].kind = kind
        /\ \A m \in 1..Len(queue') : m + 1 \in 1..Len(queue) /\ queue'[m] = queue[m + 1]
    BY <1>4, QueuedDispatch
  <2>2. k # 1
    BY <1>2, <1>4, <2>1
  <2>3. /\ 1 \in 1..(k - 1) /\ k - 1 \in 1..Len(queue') /\ (k - 1) + 1 = k
        /\ \A m \in 1..((k - 1) - 1) : m \in 1..Len(queue') /\ m + 1 \in 1..(k - 1)
    BY <2>1, <2>2
  <2>4. kind # "deinitCompleted"
    BY <1>2, <2>1, <2>3
  <2>5. queue'[k - 1].kind = "loadRequest"
    BY <1>2, <2>1, <2>3
  <2>6. \A m \in 1..((k - 1) - 1) : queue'[m].kind # "deinitCompleted"
    BY <1>2, <2>1, <2>3
  <2> QED
    BY <2>3, <2>4, <2>5, <2>6 DEF LoadsNext
<1> QED
  BY <1>3, <1>4

LEMMA DoomedStep ==
    ASSUME SessionInv, TypeInv', Doomed, [Next]_vars, exiting' = "no"
    PROVE  Doomed'
<1>1. TypeInv /\ TokenInv /\ exiting = "no" /\ worker
  BY SessionTypes, ExitingOnward DEF Doomed, OpensTwice
<1>2. CASE OpensTwice
  <2>1. Busy /\ Top.at = "call" /\ Doing(depth, OpenOps) /\ depth \in 1..depth /\ Top = stack[depth]
    BY <1>2, TopFacts DEF OpensTwice
  <2>2. Top.todo # <<>> /\ Op \in OpenOps
    BY <2>1 DEF Doing, Op
  <2>3. ~InLoop
    BY <2>1 DEF InLoop, InLoops
  <2>4. ~Dispatch /\ ~\E a \in UserActions : UserInput(a)
    <3>1. ~Dispatch
      BY <1>1, <2>3, DispatchShape DEF Receive
    <3>2. ~\E a \in UserActions : UserInput(a)
      BY <2>3 DEF UserInput, Offered
    <3> QED
      BY <3>1, <3>2
  <2>5. ~Gui
    <3>1. ASSUME GoesOn PROVE FALSE
      BY <1>1, <2>1, <2>2, <3>1 DEF GoesOn
    <3>2. ASSUME Moves PROVE FALSE
      BY <2>1, <2>2, <3>2 DEF Moves
    <3>3. ASSUME Return \/ ReturnDeleted \/ BeginOpen \/ EmitOpened PROVE FALSE
      BY <1>1, <2>1, <2>2, <3>3 DEF Return, ReturnDeleted, BeginOpen, EmitOpened, At
    <3>4. ASSUME BeginClose \/ OpenFailed \/ EndClose \/ EndDiscard PROVE FALSE
      BY <2>1, <2>2, <3>4 DEF BeginClose, OpenFailed, EndClose, EndDiscard, WorkerGone, At, Calls,
                              OpenOps
    <3> QED
      BY <3>1, <3>2, <3>3, <3>4, GuiShape
  <2>6. \A i \in 1..depth : i = depth => stack'[i] = stack[i]
    BY <1>1, <2>1, <2>4, <2>5, OthersKeepExits
  <2>7. depth' = depth
    BY <2>4, <2>5 DEF Next, Environment, Worker, Quit, ProcessEvent, PrepareToQuit, InitImpl,
                      RunTask, ExitImpl, Abort, vars, gui
  <2>8. worker'
    BY <1>1, <2>5, OtherSteps
  <2> QED
    BY <2>1, <2>6, <2>7, <2>8, TopFacts DEF Doomed, OpensTwice, Doing, Top, Busy
<1>3. CASE Unfinished /\ LoadsNext
  <2>1. CASE Gui
    BY <1>1, <1>3, <2>1, UnfinishedGui, LoadsKept DEF Doomed
  <2>2. CASE ~Gui /\ ~Dispatch
    <3>1. worker' /\ Pushed(PlainOps)
      BY <1>1, <2>2, OtherSteps
    <3>2. LoadsNext'
      BY <1>1, <1>3, <2>2, OthersGrow, LoadsKept
    <3>3. \A i \in 1..depth' : stack'[i].at = "deinit" => i \in 1..depth /\ stack[i].at = "deinit"
      BY <1>1, <3>1, FramesBelow DEF Pushed, SameFrame
    <3>4. Unfinished'
      BY <1>1, <1>3, <2>2, <3>3, OthersKeepExits DEF Unfinished
    <3> QED
      BY <3>1, <3>2, <3>4 DEF Doomed
  <2>3. CASE Dispatch
    <3>1. PICK kind : Receive(kind)
      BY <1>1, <2>3, DispatchShape
    <3>2. worker' /\ Pushed(DispatchedOps) /\ Head(queue).kind = kind
      BY <1>1, <2>3, <3>1, DispatchShape DEF Receive, life
    <3>3. CASE kind # "loadRequest"
      <4>1. kind # "deinitCompleted" /\ LoadsNext'
        BY <1>1, <1>3, <3>1, <3>3, LoadsKept
      <4>2. \A i \in 1..depth' : stack'[i].at = "deinit" => i \in 1..depth /\ stack[i].at = "deinit"
        BY <1>1, <3>2, FramesBelow DEF Pushed, SameFrame
      <4>3. \A i \in 1..depth : stack'[i].exited /\ stack[i].at = "deinit" => stack[i].exited
        BY <1>1, <2>3, <3>2, <4>1, DispatchShape
      <4>4. Unfinished'
        BY <1>3, <4>2, <4>3 DEF Unfinished
      <4> QED
        BY <3>2, <4>1, <4>4 DEF Doomed
    <3>4. CASE kind = "loadRequest"
      <4>1. OnLoadRequest
        BY <2>3, <3>2, <3>4 DEF Dispatch, OnWalletOpened, OnWalletOpenError, OnWalletClosed,
             OnPasswordChanged, OnSynchronizationCompleted, OnBalance, OnAddressCreated,
             OnQuietEvent, OnQuit, Receive
      <4>2. Push(<<"load", "askPassword">>)
        BY <4>1 DEF OnLoadRequest
      <4>3. /\ depth < MaxDepth /\ depth' = depth + 1
            /\ stack' = [stack EXCEPT ![depth + 1] = [Idle EXCEPT !.todo = <<"load", "askPassword">>]]
        BY <4>2 DEF Push
      <4>4. depth + 1 \in Frames /\ stack \in [Frames -> Frame] /\ depth' > 0
        BY <1>1, <4>3, FramesBelow, BoundsAssumption DEF Frames
      <4>5. stack'[depth'].at = "call" /\ stack'[depth'].todo = <<"load", "askPassword">>
        BY <4>3, <4>4 DEF Idle
      <4>6. <<"load", "askPassword">> # <<>> /\ Head(<<"load", "askPassword">>) \in OpenOps
        BY DEF OpenOps
      <4> QED
        BY <3>2, <4>4, <4>5, <4>6 DEF Doomed, OpensTwice, Doing, Busy, Top
    <3> QED
      BY <3>3, <3>4
  <2> QED
    BY <2>1, <2>2, <2>3
<1> QED
  BY <1>2, <1>3 DEF Doomed

-----------------------------------------------------------------------------
(* What is owed until the settings name the wallet opened last again.      *)

Spawned(i) == HasTask /\ task.frame = i

\* The file the handler opens, and what holds as long as it has not opened it.
FileFor(i) == IF Doing(i, {"load"}) THEN chosen ELSE locals[i].file
Unchanged(i) == IF Doing(i, {"load"}) THEN named = path ELSE locals[i].old = path

\* A wallet that is created is named; whether it was opened is known to the lambda,
\* then to the loop it ends.
OpenerOwes(i) ==
    /\ Doing(i, {"create"}) => named = locals[i].file
    /\ stack[i].at = "init" \/ Spawned(i) => Unchanged(i)
    /\ stack[i].at \in {"wait", "held"} \/ (stack[i].at = "loop" /\ stack[i].exited) =>
         ~Spawned(i) /\ (IF stack[i].ok THEN path = FileFor(i) ELSE Unchanged(i))
    /\ stack[i].at = "opened" => path = FileFor(i)

DiscarderOwes(i) ==
    IF Len(stack[i].todo) > 1 /\ stack[i].todo[2] = "nameOld"
      THEN locals[i].old = path
      ELSE named = path

TopOwes ==
    Busy /\ Top.at = "call" =>
        /\ Doing(depth, {"nameOld"}) => ~worker /\ locals[depth].old = path
        /\ Doing(depth, {"nameChosen"}) => isOpen /\ chosen = path
        /\ Doing(depth, {"create"}) => named = locals[depth].file /\ locals[depth].old = path

Owing(i) == Opener(i) \/ Discarder(i) \/ (stack[i].at = "call" /\ Doing(i, OwingOps))

Owed ==
    /\ \A i \in 1..depth : Opener(i) => OpenerOwes(i)
    /\ \A i \in 1..depth : Discarder(i) => DiscarderOwes(i)
    /\ TopOwes
    /\ (\A i \in 1..depth : ~Owing(i)) => named = path

\* Below the top nobody is about to do anything.
LEMMA BelowWaits ==
    ASSUME SessionInv, Busy
    PROVE  \A i \in 1..depth : i # depth => stack[i].at # "call"
<1>1. \A i \in 1..depth : i # depth => i < depth
  BY TopFacts
<1> QED
  BY <1>1, TopFacts DEF InLoops

\* While a handler is about to name or to create, no other owes anything.
LEMMA AloneOnTop ==
    ASSUME SessionInv, Shaped, TopOwes, ~OpensTwice, Busy, Top.at = "call", Top.todo # <<>>,
           Op \in OwingOps \cup OpenOps
    PROVE  \A i \in 1..depth : ~Opener(i) /\ ~Discarder(i)
<1>1. Top = stack[depth] /\ Op = Head(stack[depth].todo)
  BY TopFacts
<1>2. CASE Op = "nameOld"
  <2>1. ~worker
    BY <1>1, <1>2 DEF TopOwes, Doing
  <2> QED
    BY <2>1 DEF Shaped
<1>3. CASE Op = "nameChosen"
  <2>1. isOpen
    BY <1>1, <1>3 DEF TopOwes, Doing
  <2> QED
    BY <2>1 DEF SessionInv, SessionParts, OpenedByFrame
<1>4. CASE Op \in OpenOps
  <2>1. ~worker
    BY <1>1, <1>4 DEF OpensTwice, Doing
  <2> QED
    BY <2>1 DEF Shaped
<1> QED
  BY <1>2, <1>3, <1>4 DEF OwingOps, OpenOps

\* The frame on top owes nothing, before and after: the others do as they did.
LEMMA OwedByOthers ==
    ASSUME SessionInv, Owed, Busy, OnlyTop, depth' = depth, session' = session,
           UNCHANGED <<named, path, locals>>,
           ~Owing(depth), ~Owing(depth)',
           UNCHANGED chosen \/ \A i \in 1..depth : ~Opener(i),
           \A i \in 1..depth : i # depth => (Spawned(i)' <=> Spawned(i))
    PROVE  Owed'
<1>1. depth \in 1..depth /\ Top = stack[depth] /\ \A i \in 1..depth : i \in Frames
  BY TopFacts
<1>2. \A i \in 1..depth : i # depth => stack'[i] = stack[i]
  BY <1>1 DEF OnlyTop
<1>3. \A i \in 1..depth : /\ Opener(i)' => Opener(i) /\ i # depth
                          /\ Discarder(i)' => Discarder(i) /\ i # depth
                          /\ Owing(i) => i # depth /\ Owing(i)'
  <2>1. \A i \in 1..depth : i # depth => /\ (Opener(i)' <=> Opener(i))
                                         /\ (Discarder(i)' <=> Discarder(i))
                                         /\ (Owing(i)' <=> Owing(i))
    BY <1>2 DEF Opener, Discarder, Doing, Owing
  <2>2. ~Opener(depth)' /\ ~Discarder(depth)'
    BY DEF Owing
  <2> QED
    BY <2>1, <2>2
<1>4. ASSUME NEW i \in 1..depth, Opener(i)' PROVE OpenerOwes(i)'
  <2>1. Opener(i) /\ i # depth /\ OpenerOwes(i) /\ stack'[i] = stack[i] /\ chosen' = chosen
    BY <1>2, <1>3, <1>4 DEF Owed
  <2>2. Spawned(i)' <=> Spawned(i)
    BY <2>1
  <2>3. (FileFor(i)' = FileFor(i)) /\ (Unchanged(i)' <=> Unchanged(i))
    BY <2>1 DEF FileFor, Unchanged, Doing
  <2>4. Doing(i, {"create"})' <=> Doing(i, {"create"})
    BY <2>1 DEF Doing
  <2> QED
    BY <2>1, <2>2, <2>3, <2>4 DEF OpenerOwes
<1>5. ASSUME NEW i \in 1..depth, Discarder(i)' PROVE DiscarderOwes(i)'
  BY <1>2, <1>3, <1>5 DEF Owed, DiscarderOwes
<1>6. TopOwes'
  BY DEF TopOwes, Owing, Top, OwingOps, Doing
<1>7. (\A i \in 1..depth : ~Owing(i)') => named' = path'
  BY <1>3 DEF Owed
<1> QED
  BY <1>4, <1>5, <1>6, <1>7 DEF Owed

\* Nobody but the frame on top owes anything afterwards.
LEMMA OwedByTop ==
    ASSUME depth' \in 1..depth',
           \A i \in 1..depth' : i # depth' => ~Opener(i)' /\ ~Discarder(i)',
           Opener(depth)' => OpenerOwes(depth)',
           Discarder(depth)' => DiscarderOwes(depth)',
           TopOwes',
           Owing(depth)' \/ named' = path'
    PROVE  Owed'
BY DEF Owed

\* What steps but those of the handler on top leave of the frames and the files.
LEMMA OthersKeepFrames ==
    ASSUME SessionInv, FilesTypeOK, [Next]_vars, ~Gui, ~RunTask, exiting' = "no"
    PROVE  /\ \A i \in 1..depth : /\ stack'[i].ok = stack[i].ok
                                  /\ stack[i].at = "loop" => stack'[i].exited = stack[i].exited
                                  /\ locals'[i] = locals[i]
           /\ UNCHANGED <<task, named, chosen, path>>
<1>1. /\ TypeInv /\ TokenInv /\ stack \in [Frames -> Frame]
      /\ \A i \in 1..depth : i \in Frames /\ i # depth + 1
  BY SessionTypes, FramesBelow
<1>2. CASE Dispatch
  <2>1. PICK kind : Receive(kind)
    BY <1>1, <1>2, DispatchShape
  <2>2. UNCHANGED <<task, named, chosen, path, locals>>
    BY <2>1 DEF Receive, core, files
  <2>3. \A ops : Push(ops) => \A i \in 1..depth : stack'[i] = stack[i]
    BY <1>1 DEF Push, gui
  <2>4. UNCHANGED gui => \A i \in 1..depth : stack'[i] = stack[i]
    BY DEF gui
  <2>5. ASSUME NEW k, NEW point, OnQuit(k, point), point # "loop"
        PROVE  \A i \in 1..depth : /\ stack'[i].ok = stack[i].ok
                                   /\ stack[i].at = "loop" => stack'[i].exited = stack[i].exited
    BY <1>1, <2>5, FramesBelow DEF OnQuit, Frame
  <2>6. CASE \E k, point : OnQuit(k, point) /\ point # "loop"
    BY <2>2, <2>5, <2>6
  <2>7. CASE ~\E k, point : OnQuit(k, point) /\ point # "loop"
    <3>1. UNCHANGED gui \/ \E ops : Push(ops)
      BY <1>2, <2>7 DEF Dispatch, OnWalletOpened, OnWalletOpenError, OnWalletClosed,
           OnPasswordChanged, OnSynchronizationCompleted, OnBalance, OnAddressCreated,
           OnQuietEvent, OnLoadRequest
    <3> QED
      BY <2>2, <2>3, <2>4, <3>1
  <2> QED
    BY <2>6, <2>7
<1>3. CASE ~Dispatch
  <2>1. \A i \in 1..depth : stack'[i] = stack[i]
    BY <1>1, <1>3, OthersKeepExits
  <2>2. ~Quit /\ ~PrepareToQuit
    BY DEF Quit, PrepareToQuit
  <2>3. CASE \E a \in UserActions : UserInput(a)
    <3>1. PICK a \in UserActions : UserInput(a)
      BY <2>3
    <3>2. Pick(a) /\ UNCHANGED core
      BY <3>1 DEF UserInput
    <3>3. UNCHANGED <<task, named, chosen, path>>
      BY <3>2 DEF Pick, core, files
    <3>4. UNCHANGED locals \/ \E f : locals' = [locals EXCEPT ![depth + 1].file = f]
      BY <3>2 DEF Pick, files
    <3>5. \A i \in 1..depth : locals'[i] = locals[i]
      BY <1>1, <3>4 DEF FilesTypeOK
    <3> QED
      BY <2>1, <3>3, <3>5
  <2>4. CASE \/ \E kind \in CoreKinds : ProcessEvent(kind)
             \/ InitImpl \/ ExitImpl \/ Abort \/ UNCHANGED vars
    <3>1. UNCHANGED core /\ UNCHANGED files
      BY <2>4 DEF ProcessEvent, InitImpl, ExitImpl, Abort, vars
    <3> QED
      BY <2>1, <3>1 DEF core, files
  <2> QED
    BY <1>3, <2>2, <2>3, <2>4 DEF Next, Environment, Worker
<1> QED
  BY <1>2, <1>3

\* Handlers that are pushed owe nothing; those on the stack go on owing.
LEMMA OwedOthers ==
    ASSUME SessionInv, Owed, FilesTypeOK, [Next]_vars, ~Gui, ~RunTask, exiting' = "no"
    PROVE  Owed'
<1>1. TypeInv /\ depth \in Nat
  BY SessionTypes, FramesBelow
<1>2. Pushed(PlainOps) /\ UNCHANGED <<worker, session, isOpen>>
  BY <1>1, OtherSteps
<1>3. depth' = depth + 1 => Fresh(stack'[depth + 1].todo) /\ stack'[depth + 1].todo # <<>>
  BY <1>1, <1>2, FreshPushes DEF Pushed
<1>4. \A i \in 1..depth' : i \in 1..depth \/ (i = depth + 1 /\ depth' = depth + 1)
  BY <1>1, <1>2 DEF Pushed
<1>5. \A i \in 1..depth : /\ SameFrame(i) /\ i \in 1..depth'
                          /\ stack'[i].ok = stack[i].ok
                          /\ stack[i].at = "loop" => stack'[i].exited = stack[i].exited
                          /\ locals'[i] = locals[i]
  BY <1>1, <1>2, OthersKeepFrames DEF Pushed
<1>6. UNCHANGED <<task, named, chosen, path>>
  BY OthersKeepFrames
<1>7. \A i : i = depth + 1 /\ depth' = depth + 1 =>
        stack'[i].at = "call" /\ ~Doing(i, OwingOps)'
  <2>1. depth' = depth + 1 => Head(stack'[depth + 1].todo) \notin OwingOps
    BY <1>3 DEF Fresh
  <2> QED
    BY <1>2, <2>1 DEF Doing, Pushed
<1>8. \A i \in 1..depth : /\ Opener(i)' <=> Opener(i)
                          /\ Discarder(i)' <=> Discarder(i)
                          /\ Owing(i)' <=> Owing(i)
  BY <1>2, <1>5 DEF SameFrame, Opener, Discarder, Doing, Owing
<1>9. ASSUME NEW i \in 1..depth', Opener(i)' PROVE OpenerOwes(i)'
  <2>1. i \in 1..depth
    BY <1>4, <1>7, <1>9 DEF Opener
  <2>2. Opener(i) /\ OpenerOwes(i)
    BY <1>8, <1>9, <2>1 DEF Owed
  <2>3. /\ Spawned(i)' <=> Spawned(i)
        /\ FileFor(i)' = FileFor(i)
        /\ Unchanged(i)' <=> Unchanged(i)
        /\ Doing(i, {"create"})' <=> Doing(i, {"create"})
    BY <1>5, <1>6, <2>1 DEF Spawned, HasTask, FileFor, Unchanged, Doing, SameFrame
  <2>4. /\ stack'[i].at = stack[i].at /\ stack'[i].ok = stack[i].ok
        /\ stack[i].at = "loop" => stack'[i].exited = stack[i].exited
        /\ locals'[i] = locals[i] /\ named' = named /\ path' = path
    BY <1>5, <1>6, <2>1 DEF SameFrame
  <2> QED
    BY <2>2, <2>3, <2>4 DEF OpenerOwes
<1>10. ASSUME NEW i \in 1..depth', Discarder(i)' PROVE DiscarderOwes(i)'
  <2>1. i \in 1..depth /\ Discarder(i)
    BY <1>1, <1>2, <1>10, DiscardersPushed
  <2> QED
    BY <1>5, <1>6, <2>1 DEF Owed, DiscarderOwes, SameFrame
<1>11. TopOwes'
  <2>1. CASE depth' = depth + 1
    BY <1>7, <2>1 DEF TopOwes, Top, Doing, OwingOps
  <2>2. CASE depth' = depth
    <3>1. Busy' <=> Busy
      BY <2>2 DEF Busy
    <3>2. CASE Busy
      <4>1. depth \in 1..depth
        BY <1>1, <3>2, FramesBelow
      <4>2. stack'[depth].at = stack[depth].at /\ stack'[depth].todo = stack[depth].todo
            /\ locals'[depth] = locals[depth]
        BY <1>5, <4>1 DEF SameFrame
      <4> QED
        BY <1>2, <1>6, <2>2, <4>2 DEF Owed, TopOwes, Top, Doing, Busy
    <3> QED
      BY <3>1, <3>2 DEF TopOwes
  <2> QED
    BY <1>2, <2>1, <2>2 DEF Pushed
<1>12. (\A i \in 1..depth' : ~Owing(i)') => named' = path'
  BY <1>5, <1>6, <1>8 DEF Owed
<1> QED
  BY <1>9, <1>10, <1>11, <1>12 DEF Owed

\* A wallet is opened by one handler, and nobody discards another.
LEMMA OpenerAlone ==
    ASSUME SessionInv, NEW i \in 1..depth, Opener(i)
    PROVE  \A j \in 1..depth : j # i => ~Opener(j) /\ ~Discarder(j)
<1> SUFFICES ASSUME NEW j \in 1..depth, j # i PROVE ~Opener(j) /\ ~Discarder(j)
  OBVIOUS
<1>1. depth \in Nat
  BY SessionTypes, FramesBelow
<1>2. j < i \/ i < j
  BY <1>1
<1>3. CASE j < i
  BY <1>3, OthersIdle
<1>4. CASE i < j
  BY <1>4 DEF SessionInv, SessionParts, OpenerAboveStale, Opener
<1> QED
  BY <1>2, <1>3, <1>4

\* The lambda of load and create tells whether the wallet was opened.
LEMMA OwedRunTask ==
    ASSUME SessionInv, Shaped, Owed, ~OpensTwice, RunTask
    PROVE  Owed'
<1>0. PICK f : f = task.frame
  OBVIOUS
<1>1. /\ TypeInv /\ HasTask /\ depth' = depth /\ task' = NoTask /\ ~HasTask'
      /\ UNCHANGED <<worker, session, isOpen, named, chosen, locals>>
  BY SessionTypes DEF RunTask, HasTask, life
<1>2. /\ f \in 1..depth /\ f \in Frames /\ stack[f].at \in {"enter", "loop", "wait"}
      /\ stack[f].todo # <<>> /\ Head(stack[f].todo) = task.op /\ stack[f].session = session
  BY <1>0, <1>1, SessionTypes, FramesBelow
     DEF CaptureInv, CaptureParts, CapturedFrameAlive
<1>3. PICK ok \in BOOLEAN :
        /\ stack' = [stack EXCEPT
                       ![f].ok = Reported(task.op, stack[f].at, ok, @),
                       ![f].exited = @ \/ ExitsLoop(task.op, ok)]
        /\ path' = IF ok /\ task.op \in OpenOps THEN FileOf(task) ELSE path
  BY <1>0 DEF RunTask
<1>4. /\ \A i \in 1..depth : SameFrame(i)
      /\ \A i \in 1..depth : i # f => stack'[i] = stack[i]
      /\ stack'[f].ok = Reported(task.op, stack[f].at, ok, stack[f].ok)
  BY <1>1, <1>2, <1>3, FramesBelow DEF SameFrame, Frame
<1>5. \A i \in 1..depth : /\ Opener(i)' <=> Opener(i)
                          /\ Discarder(i)' <=> Discarder(i)
                          /\ Owing(i)' <=> Owing(i)
                          /\ \A ops : Doing(i, ops)' <=> Doing(i, ops)
  BY <1>1, <1>4 DEF SameFrame, Opener, Discarder, Doing, Owing
<1>6. \A i \in 1..depth : ~Spawned(i)' /\ (Spawned(i) <=> i = f)
  BY <1>0, <1>1 DEF Spawned
<1>7. Busy => depth \in 1..depth /\ Top = stack[depth] /\ Op = Head(stack[depth].todo)
  BY TopFacts
<1>8. CASE task.op \in OpenOps
  <2>1. Opener(f)
    BY <1>2, <1>8 DEF Opener, Doing
  <2>2. \A i \in 1..depth : i # f => ~Opener(i) /\ ~Discarder(i)
    BY <1>2, <2>1, OpenerAlone
  <2>3. ~Discarder(f)
    BY <1>2, <1>8 DEF Discarder, Doing, OpenOps
  <2>4. OpenerOwes(f)
    BY <1>2, <2>1 DEF Owed
  <2>5. Unchanged(f)
    BY <1>2, <1>6, <2>4 DEF OpenerOwes
  <2>6. stack[f].at # "wait"
    BY <1>2, <1>6, <2>4 DEF OpenerOwes
  <2>7. stack'[f].ok = ok
    BY <1>4, <2>6 DEF Reported
  <2>8. FileOf(task) = FileFor(f)' /\ FileFor(f)' = FileFor(f)
    <3>1. Doing(f, {"load"}) <=> task.op = "load"
      BY <1>2 DEF Doing
    <3>2. Doing(f, {"load"})' <=> Doing(f, {"load"})
      BY <1>2, <1>5
    <3> QED
      BY <1>0, <1>1, <3>1, <3>2 DEF FileOf, FileFor
  <2>9. ok => path' = FileFor(f)'
    BY <1>3, <1>8, <2>8
  <2>10. ~ok => Unchanged(f)'
    <3>1. ~ok => path' = path
      BY <1>3
    <3>2. Doing(f, {"load"})' <=> Doing(f, {"load"})
      BY <1>2, <1>5
    <3> QED
      BY <1>1, <2>5, <3>1, <3>2 DEF Unchanged
  <2>11. OpenerOwes(f)'
    <3>1. Doing(f, {"create"})' => named' = locals'[f].file
      BY <1>1, <1>2, <1>5, <2>4 DEF OpenerOwes
    <3>2. stack'[f].at = stack[f].at
      BY <1>2, <1>4 DEF SameFrame
    <3>3. stack'[f].at \notin {"init", "wait", "held", "opened"} /\ ~Spawned(f)'
      BY <1>2, <1>6, <2>6, <3>2
    <3>4. IF stack'[f].ok THEN path' = FileFor(f)' ELSE Unchanged(f)'
      BY <2>7, <2>9, <2>10
    <3> QED
      BY <3>1, <3>3, <3>4 DEF OpenerOwes
  <2>12. TopOwes'
    <3>1. ASSUME Busy, Top.at = "call", Top.todo # <<>>, Op \in OwingOps \cup OpenOps PROVE FALSE
      BY <1>2, <2>1, <3>1, AloneOnTop DEF Owed
    <3>2. ASSUME Busy', Top'.at = "call"
          PROVE  ~Doing(depth, {"nameOld"})' /\ ~Doing(depth, {"nameChosen"})' /\ ~Doing(depth, {"create"})'
      <4>1. Busy /\ depth \in 1..depth
        BY <1>1, <1>7, <3>2 DEF Busy
      <4>2. Top.at = "call" /\ stack'[depth].todo = Top.todo
        BY <1>1, <1>4, <1>7, <3>2, <4>1 DEF SameFrame, Top
      <4>3. ~(Top.todo # <<>> /\ Op \in OwingOps)
        BY <3>1, <4>1, <4>2
      <4> QED
        BY <1>1, <1>7, <4>1, <4>2, <4>3 DEF Doing, OwingOps
    <3> QED
      BY <3>2 DEF TopOwes
  <2>13. Owing(f)'
    BY <1>2, <1>5, <2>1 DEF Owing
  <2> QED
    BY <1>1, <1>2, <1>5, <2>2, <2>3, <2>11, <2>12, <2>13 DEF Owed
<1>9. CASE task.op \notin OpenOps
  <2>1. path' = path
    BY <1>3, <1>9
  <2>2. ~Opener(f)
    BY <1>2, <1>9 DEF Opener, Doing
  <2>3. ASSUME NEW i \in 1..depth, Opener(i)' PROVE OpenerOwes(i)'
    <3>1. Opener(i) /\ i # f /\ OpenerOwes(i) /\ stack'[i] = stack[i]
      BY <1>4, <1>5, <2>2, <2>3 DEF Owed
    <3>2. ~Spawned(i) /\ ~Spawned(i)'
      BY <1>6, <3>1
    <3>3. /\ FileFor(i)' = FileFor(i)
          /\ Unchanged(i)' <=> Unchanged(i)
          /\ Doing(i, {"create"})' <=> Doing(i, {"create"})
      BY <1>1, <2>1, <3>1 DEF FileFor, Unchanged, Doing
    <3> QED
      BY <1>1, <2>1, <3>1, <3>2, <3>3 DEF OpenerOwes
  <2>4. ASSUME NEW i \in 1..depth, Discarder(i)' PROVE DiscarderOwes(i)'
    BY <1>1, <1>4, <1>5, <2>1, <2>4 DEF Owed, DiscarderOwes, SameFrame
  <2>5. TopOwes'
    <3> SUFFICES ASSUME Busy', Top'.at = "call"
                 PROVE  /\ Doing(depth, {"nameOld"})' => ~worker' /\ locals'[depth'].old = path'
                        /\ Doing(depth, {"nameChosen"})' => isOpen' /\ chosen' = path'
                        /\ Doing(depth, {"create"})' =>
                             named' = locals'[depth'].file /\ locals'[depth'].old = path'
      BY DEF TopOwes
    <3>1. Busy /\ depth \in 1..depth
      BY <1>1, <1>7 DEF Busy
    <3>2. Top.at = "call" /\ stack'[depth].todo = Top.todo
      BY <1>1, <1>4, <1>7, <3>1 DEF SameFrame, Top
    <3> QED
      BY <1>1, <1>7, <2>1, <3>1, <3>2 DEF Owed, TopOwes, Doing
  <2>6. (\A i \in 1..depth : ~Owing(i)') => named' = path'
    BY <1>1, <1>5, <2>1 DEF Owed
  <2> QED
    BY <1>1, <2>3, <2>4, <2>5, <2>6 DEF Owed
<1> QED
  BY <1>8, <1>9

\* A handler that returns owed nothing.
LEMMA OwedReturn ==
    ASSUME SessionInv, Owed, FilesTypeOK, Return
    PROVE  Owed'
<1>1. /\ Busy /\ Top.at = "call" /\ Top.todo = <<>> /\ depth' = depth - 1
      /\ stack' = [stack EXCEPT ![depth] = Idle]
      /\ locals' = [locals EXCEPT ![depth] = NoLocals]
      /\ UNCHANGED <<task, worker, session, isOpen, named, chosen, path>>
  BY DEF Return, At, core, life, flags
<1>2. /\ depth \in Nat /\ depth \in 1..depth /\ Top = stack[depth]
      /\ \A i \in 1..depth : i \in Frames
  BY <1>1, TopFacts
<1>3. \A i \in 1..depth' : /\ i \in 1..depth /\ i # depth
                           /\ stack'[i] = stack[i] /\ locals'[i] = locals[i]
  <2>1. \A i \in 1..depth' : i \in 1..depth /\ i # depth
    BY <1>1, <1>2
  <2>2. stack \in [Frames -> Frame] /\ locals \in [Frames -> [file : FileNames, old : FileNames]]
    BY SessionTypes, FramesBelow DEF FilesTypeOK
  <2> QED
    BY <1>1, <1>2, <2>1, <2>2
<1>4. \A i \in 1..depth' : /\ Opener(i)' <=> Opener(i)
                           /\ Discarder(i)' <=> Discarder(i)
                           /\ Owing(i)' <=> Owing(i)
  BY <1>1, <1>3 DEF Opener, Discarder, Doing, Owing
<1>5. ASSUME NEW i \in 1..depth', Opener(i)' PROVE OpenerOwes(i)'
  <2>1. OpenerOwes(i) /\ stack'[i] = stack[i] /\ locals'[i] = locals[i]
    BY <1>3, <1>4, <1>5 DEF Owed
  <2>2. /\ Spawned(i)' <=> Spawned(i)
        /\ FileFor(i)' = FileFor(i)
        /\ Unchanged(i)' <=> Unchanged(i)
        /\ Doing(i, {"create"})' <=> Doing(i, {"create"})
    BY <1>1, <2>1 DEF Spawned, HasTask, FileFor, Unchanged, Doing
  <2> QED
    BY <1>1, <2>1, <2>2 DEF OpenerOwes
<1>6. ASSUME NEW i \in 1..depth', Discarder(i)' PROVE DiscarderOwes(i)'
  BY <1>1, <1>3, <1>4, <1>6 DEF Owed, DiscarderOwes
<1>7. TopOwes'
  <2>1. Busy' => depth' \in 1..depth'
    BY <1>1, <1>2 DEF Busy
  <2>2. Busy' => stack'[depth'].at # "call"
    BY <1>1, <1>3, <2>1, BelowWaits
  <2> QED
    BY <2>2 DEF TopOwes, Top
<1>8. ~Owing(depth)
  BY <1>1, <1>2 DEF Owing, Opener, Discarder, Doing
<1>9. (\A i \in 1..depth' : ~Owing(i)') => named' = path'
  <2>1. \A i \in 1..depth : i = depth \/ i \in 1..depth'
    BY <1>1, <1>2
  <2> QED
    BY <1>1, <1>4, <1>8, <2>1 DEF Owed
<1> QED
  BY <1>5, <1>6, <1>7, <1>9 DEF Owed

\* A request to load, posted while a wallet is being opened, finds it.
LEMMA DoomedPosts ==
    ASSUME SessionInv, Shaped, QueueParts, Post("loadRequest"), worker',
           \A i \in 1..depth' : stack'[i].at = "deinit" =>
             i \in 1..depth /\ stack[i].at = "deinit",
           NEW o \in 1..depth, Opener(o)
    PROVE  Doomed'
<1>1. wallet \in {"starting", "ready"}
  BY DEF Shaped
<1>2. \A i \in 1..depth : stack[i].at # "deinit"
  BY <1>1 DEF SessionInv, SessionParts, WalletFrames
<1>3. Unfinished'
  BY <1>2 DEF Unfinished
<1>4. \A k \in 1..Len(queue) : queue[k].kind # "deinitCompleted"
  BY <1>1 DEF QueueParts
<1>5. /\ queue \in Seq(Posted) /\ Len(queue) \in Nat
      /\ Event("loadRequest") \in Posted /\ Event("loadRequest").kind = "loadRequest"
  BY SessionTypes, KindNames, LenProperties DEF TypeInv, SessionTypeOK, Posted, Event
<1>6. /\ Len(queue') = Len(queue) + 1
      /\ \A k \in 1..Len(queue) : queue'[k] = queue[k]
      /\ queue'[Len(queue) + 1] = Event("loadRequest")
  BY <1>5, AppendProperties DEF Post
<1>7. /\ Len(queue) + 1 \in 1..Len(queue')
      /\ \A m \in 1..((Len(queue) + 1) - 1) : m \in 1..Len(queue)
  BY <1>5, <1>6
<1>8. LoadsNext'
  BY <1>4, <1>5, <1>6, <1>7 DEF LoadsNext
<1> QED
  BY <1>3, <1>8 DEF Doomed

\* A handler that goes on with what it owes nothing for.
LEMMA OwedQuietly ==
    ASSUME SessionInv, Shaped, QueueParts, Owed, Quietly
    PROVE  Doomed' \/ Owed'
<1>1. /\ Busy /\ depth' = depth /\ Top.todo # <<>> /\ session' = session
      /\ UNCHANGED <<task, worker, wallet, session, isOpen, named, path, locals>>
      /\ TopGoesOn(Tail(Top.todo)) \/ TopGoesOn(<<>>)
  BY DEF Quietly
<1>2. /\ depth \in 1..depth /\ Top = stack[depth] /\ Op = Head(stack[depth].todo)
      /\ depth \in Frames /\ \A i \in 1..depth : i \in Frames
  BY <1>1, TopFacts
<1>3. ~Opener(depth)' /\ ~Discarder(depth)' /\ stack'[depth].at = "call"
  BY <1>1, ShapedWentOn DEF Quietly
<1>4. OnlyTop /\ (stack'[depth].todo = Tail(Top.todo) \/ stack'[depth].todo = <<>>)
  BY <1>1 DEF TopGoesOn, Idle
<1>5. ~Doing(depth, OwingOps)'
  <2>1. Top.todo \in Seq(Ops)
    BY <1>1, SessionTypes, TopTodo
  <2>2. Naming(Top.todo)
    BY <1>2 DEF Shaped
  <2>3. Op \notin NamingOps \cup {"discard"} /\ Op = Head(Top.todo)
    BY DEF Quietly, Op
  <2>4. Tail(Top.todo) # <<>> => Head(Tail(Top.todo)) \notin OwingOps
    BY <1>1, <2>1, <2>2, <2>3, NamingTail DEF OwingOps, NamingOps
  <2> QED
    BY <1>1, <1>4, <2>4 DEF Doing
<1>6. ~Owing(depth)'
  BY <1>1, <1>3, <1>5 DEF Owing
<1>7. ~Owing(depth)
  <2>1. Op \in OpenOps => ~worker /\ Top.at = "loop"
    BY DEF Quietly
  <2>2. ~Opener(depth)
    BY <1>2, <2>1 DEF Opener, Doing, Shaped
  <2>3. ~Discarder(depth)
    BY <1>2 DEF Quietly, Discarder, Doing
  <2>4. ~(Top.at = "call" /\ Op \in OwingOps)
    BY <2>1 DEF Quietly, OwingOps, NamingOps, OpenOps
  <2> QED
    BY <1>2, <2>2, <2>3, <2>4 DEF Owing, Doing
<1>8. \A i \in 1..depth : Spawned(i)' <=> Spawned(i)
  BY <1>1 DEF Spawned, HasTask
<1>9. CASE UNCHANGED chosen \/ \A i \in 1..depth : ~Opener(i)
  BY <1>1, <1>4, <1>6, <1>7, <1>8, <1>9, OwedByOthers
<1>10. CASE chosen' # chosen /\ \E i \in 1..depth : Opener(i)
  <2>1. PICK o \in 1..depth : Opener(o)
    BY <1>10
  <2>2. worker' /\ Post("loadRequest")
    BY <1>1, <1>10, <2>1 DEF Shaped, Quietly
  <2>3. \A i \in 1..depth' : stack'[i].at = "deinit" => i \in 1..depth /\ stack[i].at = "deinit"
    BY <1>1, <1>2, <1>3, <1>4 DEF OnlyTop
  <2> QED
    BY <2>1, <2>2, <2>3, DoomedPosts
<1> QED
  BY <1>9, <1>10

\* A handler inside an operation.
LEMMA OwedOnward ==
    ASSUME SessionInv, Owed, exiting = "no", Onward
    PROVE  Owed'
<1>1. /\ Busy /\ depth' = depth /\ worker /\ OnlyTop /\ stack'[depth].todo = Top.todo
      /\ stack'[depth].at \notin {"call", "init", "deinit"} /\ Top.at # "deinit"
      /\ session' = session
      /\ UNCHANGED <<worker, wallet, session, isOpen, named, path, chosen, locals>>
  BY DEF Onward
<1>2. /\ depth \in 1..depth /\ Top = stack[depth] /\ Op = Head(stack[depth].todo)
      /\ depth \in Frames
      /\ Top.at # "call" => Top.todo # <<>>
  BY <1>1, TopFacts
<1>3. Top.todo # <<>>
  BY <1>2 DEF Onward
<1>4. ~Discarder(depth) /\ ~Discarder(depth)'
  <2>1. ~Discarder(depth)
    <3>1. Top.at = "call" => Op # "discard"
      BY DEF Onward, TaskOps, SaveOps, BlockOps, AdapterClose
    <3> QED
      BY <1>1, <1>2, <3>1 DEF SessionInv, SessionParts, DiscardComesFirst, Discarder, Doing
  <2> QED
    BY <1>1, <1>2, <2>1 DEF Discarder, Doing
<1>5. CASE Op \notin OpenOps
  <2>1. ~Opener(depth) /\ ~Opener(depth)'
    BY <1>1, <1>2, <1>5 DEF Opener, Doing
  <2>2. ~Owing(depth)
    <3>1. Top.at = "call" => Op \notin OwingOps
      BY DEF Onward, OwingOps, TaskOps, SaveOps, BlockOps, AdapterClose
    <3> QED
      BY <1>2, <1>4, <2>1, <3>1 DEF Owing, Doing
  <2>3. ~Owing(depth)'
    BY <1>1, <1>4, <2>1 DEF Owing
  <2>4. \A i \in 1..depth : i # depth => (Spawned(i)' <=> Spawned(i))
    BY <1>5 DEF Onward, Spawned
  <2> QED
    BY <1>1, <2>2, <2>3, <2>4, OwedByOthers
<1>6. CASE Op \in OpenOps
  <2>1. Top.session = session /\ Top.at # "call"
        /\ (EnterLoop \/ LeaveInit \/ LeaveLoop \/ AwaitToken \/ StartEventLoop)
    BY <1>6 DEF Onward, OpenOps, TaskOps, SaveOps, BlockOps, AdapterClose
  <2>2. Opener(depth) /\ OpenerOwes(depth)
    BY <1>2, <1>3, <1>6, <2>1 DEF Opener, Doing, Owed
  <2>3. \A i \in 1..depth : i # depth => ~Opener(i)' /\ ~Discarder(i)'
    <3>1. \A i \in 1..depth : i # depth => ~Opener(i) /\ ~Discarder(i)
      BY <1>2, <2>2, OpenerAlone
    <3>2. \A i \in 1..depth : i # depth => stack'[i] = stack[i]
      BY <1>1, TopFacts DEF OnlyTop
    <3> QED
      BY <1>1, <3>1, <3>2 DEF Opener, Discarder, Doing
  <2>4. stack \in [Frames -> Frame] /\ stack[depth] \in Frame
    BY <1>2, SessionTypes, FramesBelow
  <2>5. /\ FileFor(depth)' = FileFor(depth)
        /\ Unchanged(depth)' <=> Unchanged(depth)
        /\ Doing(depth, {"create"})' <=> Doing(depth, {"create"})
    BY <1>1, <1>2 DEF FileFor, Unchanged, Doing
  <2>6. /\ stack[depth].at \in {"wait", "held"} => ~Spawned(depth)
        /\ stack[depth].at = "loop" /\ stack[depth].exited => ~Spawned(depth)
        /\ Spawned(depth) => Unchanged(depth)
    BY <2>2 DEF OpenerOwes
  <2>7. OpenerOwes(depth)'
    <3>1. CASE EnterLoop
      <4>1. stack'[depth].at = "loop" /\ ~stack'[depth].exited /\ task' = task
        BY <1>2, <2>4, <3>1 DEF EnterLoop, Frame, core
      <4>2. Spawned(depth)' <=> Spawned(depth)
        BY <1>1, <4>1 DEF Spawned, HasTask
      <4> QED
        BY <1>1, <2>2, <2>5, <4>1, <4>2 DEF OpenerOwes
    <3>2. CASE LeaveInit
      <4>1. stack[depth].at = "init" /\ stack'[depth].at = "enter"
        BY <1>2, <2>4, <3>2 DEF LeaveInit, At, EnterWorker, Frame
      <4> QED
        BY <1>1, <2>2, <2>5, <4>1 DEF OpenerOwes
    <3>3. CASE LeaveLoop
      <4>1. /\ stack[depth].at = "loop" /\ stack[depth].exited
            /\ stack'[depth].at = "wait" /\ stack'[depth].ok = stack[depth].ok /\ task' = task
        BY <1>2, <2>4, <3>3 DEF LeaveLoop, At, Move, Frame, core
      <4>2. Spawned(depth)' <=> Spawned(depth)
        BY <1>1, <4>1 DEF Spawned, HasTask
      <4> QED
        BY <1>1, <2>2, <2>5, <4>1, <4>2 DEF OpenerOwes
    <3>4. CASE AwaitToken
      <4>1. /\ stack[depth].at = "wait"
            /\ stack'[depth].at = "held" /\ stack'[depth].ok = stack[depth].ok /\ task' = task
        BY <1>2, <2>4, <3>4 DEF AwaitToken, At, Move, Frame
      <4>2. Spawned(depth)' <=> Spawned(depth)
        BY <1>1, <4>1 DEF Spawned, HasTask
      <4> QED
        BY <1>1, <2>2, <2>5, <4>1, <4>2 DEF OpenerOwes
    <3>5. CASE StartEventLoop
      <4>1. /\ stack[depth].at = "held" /\ stack[depth].ok
            /\ stack'[depth].at = "opened" /\ task' = task
        BY <1>2, <2>4, <3>5 DEF StartEventLoop, At, Move, Frame, core
      <4>2. Spawned(depth)' <=> Spawned(depth)
        BY <1>1, <4>1 DEF Spawned, HasTask
      <4> QED
        BY <1>1, <2>2, <2>5, <4>1, <4>2 DEF OpenerOwes
    <3> QED
      BY <2>1, <3>1, <3>2, <3>3, <3>4, <3>5
  <2>8. TopOwes'
    BY <1>1 DEF TopOwes, Top
  <2>9. Owing(depth)'
    <3>1. Opener(depth)'
      <4>1. stack'[depth].session = session
        <5>1. CASE EnterLoop
          BY <1>2, <2>1, <2>4, <5>1 DEF EnterLoop, Frame
        <5>2. CASE LeaveInit
          BY <1>2, <2>4, <5>2 DEF LeaveInit, EnterWorker, Frame
        <5>3. CASE LeaveLoop \/ AwaitToken \/ StartEventLoop
          BY <1>2, <2>1, <2>4, <5>3 DEF LeaveLoop, AwaitToken, StartEventLoop, Move, Frame
        <5> QED
          BY <2>1, <5>1, <5>2, <5>3
      <4> QED
        BY <1>1, <1>2, <1>3, <1>6, <4>1 DEF Opener, Doing
    <3> QED
      BY <3>1 DEF Owing
  <2> QED
    BY <1>1, <1>2, <1>4, <2>3, <2>7, <2>8, <2>9, OwedByTop
<1> QED
  BY <1>5, <1>6

\* What is left of a handler's list after it named a file.
LEMMA OwedSetWalletFile ==
    ASSUME SessionInv, Shaped, FilesTypeOK, Owed, ~OpensTwice, SetWalletFile
    PROVE  Doomed' \/ Owed'
<1>1. /\ Busy /\ Top.at = "call" /\ Top.todo # <<>> /\ Op \in NamingOps /\ Finish
      /\ depth' = depth /\ session' = session
      /\ UNCHANGED <<task, worker, wallet, session, isOpen, chosen, path>>
  BY DEF SetWalletFile, Calls, core, life, flags
<1>2. /\ depth \in 1..depth /\ Top = stack[depth] /\ Op = Head(stack[depth].todo)
      /\ depth \in Frames
      /\ \A i \in 1..depth : i \in Frames
  BY <1>1, TopFacts
<1>3. TypeInv /\ Top.todo \in Seq(Ops) /\ Naming(Top.todo) /\ Tail(Top.todo) \in Seq(PlainOps)
  <2>1. TypeInv /\ Top.todo \in Seq(Ops)
    BY <1>1, SessionTypes, TopTodo
  <2> QED
    BY <1>1, <1>2, <2>1 DEF Shaped, SessionInv, SessionParts, DiscardComesFirst
<1>4. OnlyTop /\ stack'[depth].at = "call" /\ stack'[depth].todo = Tail(Top.todo)
  <2>1. TopGoesOn(Tail(Top.todo))
    BY <1>1, <1>3, TopShapes
  <2> QED
    BY <2>1 DEF TopGoesOn, Idle
<1>5. ~Opener(depth)' /\ ~Discarder(depth)'
  <2>1. stack'[depth].todo # <<>> => Head(stack'[depth].todo) \in PlainOps
    BY <1>3, <1>4, HeadTailProperties
  <2> QED
    BY <1>1, <1>4, <2>1 DEF Opener, Discarder, Doing, PlainOps
<1>6. /\ Tail(Top.todo) # <<>> => /\ Head(Tail(Top.todo)) = "create" => Op = "nameNew"
                                  /\ Head(Tail(Top.todo)) = "nameOld" => Op = "discard"
                                  /\ Head(Tail(Top.todo)) # "nameChosen"
      /\ Op = "nameNew" => Tail(Top.todo) # <<>> /\ Head(Tail(Top.todo)) = "create"
  BY <1>1, <1>3, NamingTail DEF Op
<1>7. ASSUME \A i \in 1..depth : i # depth => ~Opener(i) /\ ~Discarder(i)
      PROVE  \A i \in 1..depth' : i # depth' => ~Opener(i)' /\ ~Discarder(i)'
  <2>1. \A i \in 1..depth : i # depth => stack'[i] = stack[i]
    BY <1>2, <1>4 DEF OnlyTop
  <2> QED
    BY <1>1, <1>7, <2>1 DEF Opener, Discarder, Doing
<1>8. CASE Op = "nameNew" /\ worker
  <2>1. Doing(depth, OpenOps)'
    BY <1>1, <1>4, <1>6, <1>8 DEF Doing, OpenOps
  <2> QED
    BY <1>1, <1>4, <1>8, <2>1 DEF Doomed, OpensTwice, Top, Busy
<1>9. CASE Op = "nameNew" /\ ~worker
  <2>1. \A i \in 1..depth : ~Opener(i) /\ ~Discarder(i)
    BY <1>9 DEF Shaped
  <2>2. \A i \in 1..depth : ~Owing(i)
    <3>1. ~Doing(depth, OwingOps)
      BY <1>2, <1>9 DEF Doing, OwingOps
    <3> QED
      BY <1>1, <2>1, <3>1, BelowWaits DEF Owing
  <2>3. named = path
    BY <2>2 DEF Owed
  <2>4. named' = locals[depth].file /\ locals' = [locals EXCEPT ![depth].old = named]
    BY <1>9 DEF SetWalletFile
  <2>5. locals'[depth].old = named /\ locals'[depth].file = locals[depth].file
    BY <1>2, <2>4 DEF FilesTypeOK
  <2>6. Doing(depth, {"create"})' /\ ~Doing(depth, {"nameOld"})' /\ ~Doing(depth, {"nameChosen"})'
        /\ Doing(depth, OwingOps)'
    BY <1>1, <1>4, <1>6, <1>9 DEF Doing, OwingOps
  <2>7. TopOwes'
    BY <1>1, <2>3, <2>4, <2>5, <2>6 DEF TopOwes
  <2>8. Owing(depth)'
    BY <1>1, <1>4, <2>6 DEF Owing
  <2> QED
    BY <1>1, <1>2, <1>5, <1>7, <2>1, <2>7, <2>8, OwedByTop
<1>10. CASE Op \in {"nameOld", "nameChosen"}
  <2>1. \A i \in 1..depth : ~Opener(i) /\ ~Discarder(i)
    BY <1>1, <1>10, AloneOnTop DEF Owed, OwingOps
  <2>2. named' = path'
    <3>1. CASE Op = "nameOld"
      <4>1. locals[depth].old = path
        BY <1>1, <1>2, <3>1 DEF Owed, TopOwes, Doing
      <4>2. named' = locals[depth].old
        BY <3>1 DEF SetWalletFile
      <4> QED
        BY <1>1, <4>1, <4>2
    <3>2. CASE Op = "nameChosen"
      <4>1. chosen = path
        BY <1>1, <1>2, <3>2 DEF Owed, TopOwes, Doing
      <4>2. named' = chosen
        BY <3>2 DEF SetWalletFile
      <4> QED
        BY <1>1, <4>1, <4>2
    <3> QED
      BY <1>10, <3>1, <3>2
  <2>3. ~Doing(depth, OwingOps)'
    BY <1>1, <1>4, <1>6, <1>10 DEF Doing, OwingOps
  <2>4. TopOwes'
    BY <2>3 DEF TopOwes, Doing, OwingOps
  <2> QED
    BY <1>1, <1>2, <1>5, <1>7, <2>1, <2>2, <2>4, OwedByTop
<1> QED
  BY <1>1, <1>8, <1>9, <1>10 DEF NamingOps

\* createWorker: the handler owes what it owed before.
LEMMA OwedBeginOpen ==
    ASSUME SessionInv, Shaped, Owed, ~OpensTwice, BeginOpen
    PROVE  Owed'
<1>1. /\ Busy /\ Top.at = "call" /\ Top.todo # <<>> /\ Op \in OpenOps
      /\ ~worker /\ depth' = depth /\ session' = session + 1
      /\ stack' = [stack EXCEPT ![depth].at = "init",
                            ![depth].session = session + 1,
                            ![depth].exited = exiting = "unwind"]
      /\ UNCHANGED <<task, named, chosen, path, locals>>
  BY DEF BeginOpen, Calls, files
<1>2. /\ depth \in 1..depth /\ Top = stack[depth] /\ Op = Head(stack[depth].todo)
      /\ depth \in Frames /\ session \in Nat
      /\ \A i \in 1..depth : i \in Frames /\ stack[i].session \in Nat
  BY <1>1, TopFacts
<1>3. /\ \A i \in 1..depth : i # depth => stack'[i] = stack[i]
      /\ stack'[depth].todo = Top.todo /\ stack'[depth].at = "init"
      /\ stack'[depth].session = session'
  BY <1>1, <1>2, SessionTypes, FramesBelow DEF Frame
<1>4. \A i \in 1..depth : ~Opener(i) /\ ~Discarder(i)
  BY <1>1 DEF Shaped
<1>5. \A i \in 1..depth' : i # depth' => ~Opener(i)' /\ ~Discarder(i)'
  <2> SUFFICES ASSUME NEW i \in 1..depth, i # depth PROVE ~Opener(i)' /\ ~Discarder(i)'
    BY <1>1
  <2>1. stack[i].session <= session
    BY DEF SessionInv, SessionParts, SessionsCounted
  <2>2. stack[i].session # session'
    BY <1>1, <1>2, <2>1
  <2> QED
    BY <1>3, <1>4, <2>2 DEF Opener, Discarder, Doing
<1>6. ~Discarder(depth)'
  BY <1>1, <1>2, <1>3 DEF Discarder, Doing, OpenOps
<1>7. \A ops : Doing(depth, ops)' <=> Op \in ops
  BY <1>1, <1>2, <1>3 DEF Doing
<1>8. OpenerOwes(depth)'
  <2>1. CASE Op = "create"
    <3>1. named = locals[depth].file /\ locals[depth].old = path
      BY <1>1, <1>2, <2>1 DEF Owed, TopOwes, Doing
    <3>2. ~Doing(depth, {"load"})'
      BY <1>7, <2>1
    <3>3. Unchanged(depth)'
      BY <1>1, <3>1, <3>2 DEF Unchanged
    <3> QED
      BY <1>1, <1>3, <3>1, <3>3 DEF OpenerOwes
  <2>2. CASE Op = "load"
    <3>1. \A i \in 1..depth : ~Owing(i)
      <4>1. ~Doing(depth, OwingOps)
        BY <1>2, <2>2 DEF Doing, OwingOps
      <4> QED
        BY <1>1, <1>4, <4>1, BelowWaits DEF Owing
    <3>2. Doing(depth, {"load"})' /\ ~Doing(depth, {"create"})'
      BY <1>7, <2>2
    <3>3. Unchanged(depth)'
      BY <1>1, <3>1, <3>2 DEF Unchanged, Owed
    <3> QED
      BY <1>1, <1>3, <3>2, <3>3 DEF OpenerOwes
  <2> QED
    BY <1>1, <2>1, <2>2 DEF OpenOps
<1>9. TopOwes'
  BY <1>1, <1>3 DEF TopOwes, Top
<1>10. Owing(depth)'
  <2>1. Opener(depth)'
    BY <1>1, <1>3, <1>7 DEF Opener
  <2> QED
    BY <2>1 DEF Owing
<1> QED
  BY <1>1, <1>2, <1>5, <1>6, <1>8, <1>9, <1>10, OwedByTop

\* Closing a wallet owes nothing, discarding one what it owed before.
LEMMA OwedBeginClose ==
    ASSUME SessionInv, Shaped, Owed, BeginClose
    PROVE  Owed'
<1>1. /\ Busy /\ depth' = depth /\ session' = session /\ worker /\ sem > 0
      /\ (Top.at = "locking" \/ (Top.at = "call" /\ Top.todo # <<>> /\ Op = "discard"))
      /\ EnterWorker("deinit")
      /\ UNCHANGED <<task, named, chosen, path, locals>>
  BY DEF BeginClose, At, Calls, LockForClose, TakeToken, files
<1>2. /\ depth \in 1..depth /\ Top = stack[depth] /\ Op = Head(stack[depth].todo)
      /\ depth \in Frames
      /\ Top.at # "call" => Top.todo # <<>>
      /\ \A i \in 1..depth : i \in Frames
  BY <1>1, TopFacts
<1>3. OnlyTop /\ stack'[depth].at = "deinit" /\ stack'[depth].todo = Top.todo
  BY <1>1, SessionTypes, TopSteps
<1>4. CASE Top.at = "locking"
  <2>1. Op \in AdapterClose
    BY <1>2, <1>4 DEF Shaped, PointsFit
  <2>2. ~Owing(depth) /\ ~Owing(depth)'
    <3>1. ~Doing(depth, OpenOps) /\ ~Doing(depth, {"discard"})
      BY <1>2, <2>1 DEF Doing, AdapterClose, OpenOps
    <3>2. ~Doing(depth, OpenOps)' /\ ~Doing(depth, {"discard"})'
      BY <1>1, <1>2, <1>3, <2>1 DEF Doing, AdapterClose, OpenOps
    <3> QED
      BY <1>1, <1>2, <1>3, <1>4, <3>1, <3>2 DEF Owing, Opener, Discarder
  <2>3. \A i \in 1..depth : Spawned(i)' <=> Spawned(i)
    BY <1>1 DEF Spawned, HasTask
  <2> QED
    BY <1>1, <1>3, <2>2, <2>3, OwedByOthers
<1>5. CASE Top.at = "call" /\ Top.todo # <<>> /\ Op = "discard"
  <2>1. Discarder(depth) /\ DiscarderOwes(depth)
    BY <1>2, <1>5 DEF Discarder, Doing, Owed
  <2>2. \A i \in 1..depth : i # depth => ~Opener(i) /\ ~Discarder(i)
    <3>1. \A i \in 1..depth : i # depth => i < depth
      BY <1>1, TopFacts
    <3> QED
      BY <1>2, <2>1, <3>1, OthersIdle
  <2>3. \A i \in 1..depth' : i # depth' => ~Opener(i)' /\ ~Discarder(i)'
    <3>1. \A i \in 1..depth : i # depth => stack'[i] = stack[i]
      BY <1>2, <1>3 DEF OnlyTop
    <3> QED
      BY <1>1, <2>2, <3>1 DEF Opener, Discarder, Doing
  <2>4. ~Opener(depth)' /\ Discarder(depth)'
    BY <1>1, <1>2, <1>3, <1>5 DEF Opener, Discarder, Doing, OpenOps
  <2>5. DiscarderOwes(depth)'
    BY <1>1, <1>2, <1>3, <2>1 DEF DiscarderOwes
  <2>6. TopOwes'
    BY <1>1, <1>3 DEF TopOwes, Top
  <2>7. Owing(depth)'
    BY <2>4 DEF Owing
  <2> QED
    BY <1>1, <1>2, <2>3, <2>4, <2>5, <2>6, <2>7, OwedByTop
<1> QED
  BY <1>1, <1>4, <1>5

\* The wallet is open: load names it, create did.
LEMMA OwedEmitOpened ==
    ASSUME SessionInv, Shaped, Owed, EmitOpened
    PROVE  Owed'
<1>1. /\ Busy /\ Top.at = "opened" /\ depth' = depth /\ session' = session /\ isOpen'
      /\ Continue(IF Op = "load" THEN <<"nameChosen">> ELSE Tail(Top.todo))
      /\ UNCHANGED <<named, chosen, path, locals>>
  BY DEF EmitOpened, At, life, files
<1>2. /\ depth \in 1..depth /\ Top = stack[depth] /\ Op = Head(stack[depth].todo)
      /\ depth \in Frames /\ Top.todo # <<>>
      /\ \A i \in 1..depth : i \in Frames
  BY <1>1, TopFacts
<1>3. Opener(depth) /\ Op \in OpenOps
  <2>1. Top.session = session
    BY <1>1, HolderRuns
  <2>2. Doing(depth, OpenOps)
    BY <1>1, <1>2 DEF SessionInv, SessionParts, OpenedByFrame
  <2> QED
    BY <1>1, <1>2, <2>1, <2>2 DEF Opener, Doing
<1>4. path = FileFor(depth) /\ (Op = "create" => named = locals[depth].file)
  BY <1>1, <1>2, <1>3 DEF Owed, OpenerOwes, Doing
<1>5. PICK ops : ops = IF Op = "load" THEN <<"nameChosen">> ELSE Tail(Top.todo)
  OBVIOUS
<1>6. OnlyTop /\ stack'[depth].at = "call" /\ stack'[depth].todo = ops
  <2>1. Continue(ops)
    BY <1>1, <1>5
  <2>2. TopGoesOn(ops)
    BY <1>1, <2>1, SessionTypes, TopShapes
  <2> QED
    BY <2>2 DEF TopGoesOn, Idle
<1>7. \A i \in 1..depth' : i # depth' => ~Opener(i)' /\ ~Discarder(i)'
  <2>1. \A i \in 1..depth : i # depth => ~Opener(i) /\ ~Discarder(i)
    BY <1>2, <1>3, OpenerAlone
  <2>2. \A i \in 1..depth : i # depth => stack'[i] = stack[i]
    BY <1>2, <1>6 DEF OnlyTop
  <2> QED
    BY <1>1, <2>1, <2>2 DEF Opener, Discarder, Doing
<1>8. ~Opener(depth)'
  BY <1>1, <1>6 DEF Opener
<1>9. CASE Op = "load"
  <2>1. stack'[depth].todo # <<>> /\ Head(stack'[depth].todo) = "nameChosen"
    BY <1>5, <1>6, <1>9
  <2>2. \A s : Doing(depth, s)' <=> "nameChosen" \in s
    BY <1>1, <2>1 DEF Doing
  <2>3. path = chosen
    BY <1>2, <1>4, <1>9 DEF FileFor, Doing
  <2>4. TopOwes'
    BY <1>1, <2>2, <2>3 DEF TopOwes
  <2>5. Owing(depth)' /\ ~Discarder(depth)'
    BY <1>1, <1>6, <2>2 DEF Owing, OwingOps, Discarder
  <2> QED
    BY <1>1, <1>2, <1>7, <1>8, <2>4, <2>5, OwedByTop
<1>10. CASE Op = "create"
  <2>1. Top.todo \in Seq(Ops) /\ Naming(Top.todo) /\ Tail(Top.todo) \in Seq(PlainOps)
    <3>1. Top.todo \in Seq(Ops)
      BY <1>1, SessionTypes, TopTodo
    <3> QED
      BY <1>2, <3>1 DEF Shaped, SessionInv, SessionParts, DiscardComesFirst
  <2>2. ops = Tail(Top.todo)
    BY <1>5, <1>10
  <2>3. ops # <<>> => Head(ops) \notin OwingOps /\ Head(ops) # "discard"
    <3>1. Tail(Top.todo) # <<>> => Head(Tail(Top.todo)) \notin OwingOps
      BY <1>2, <1>10, <2>1, NamingTail DEF OwingOps, Op
    <3>2. Tail(Top.todo) # <<>> => Head(Tail(Top.todo)) \in PlainOps
      BY <2>1, HeadTailProperties
    <3> QED
      BY <2>2, <3>1, <3>2 DEF PlainOps
  <2>4. ~Doing(depth, OwingOps)' /\ ~Discarder(depth)'
    BY <1>1, <1>6, <2>3 DEF Doing, Discarder
  <2>5. TopOwes'
    BY <2>4 DEF TopOwes, Doing, OwingOps
  <2>6. named' = path'
    BY <1>1, <1>2, <1>4, <1>10 DEF FileFor, Doing
  <2> QED
    BY <1>1, <1>2, <1>7, <1>8, <2>4, <2>5, <2>6, OwedByTop
<1> QED
  BY <1>3, <1>9, <1>10 DEF OpenOps

\* The wallet could not be opened: its worker is discarded, and create's name taken back.
LEMMA OwedOpenFailed ==
    ASSUME SessionInv, Shaped, Owed, OpenFailed
    PROVE  Owed'
<1>1. /\ Busy /\ Top.at = "held" /\ ~Top.ok /\ Op \in OpenOps
      /\ depth' = depth /\ session' = session
      /\ IF Op = "load" THEN Continue(<<"discard", "askPassword">>)
                        ELSE Continue(<<"discard", "nameOld">>)
      /\ UNCHANGED <<named, chosen, path, locals>>
  BY DEF OpenFailed, At, life, files, RestoreName
<1>2. /\ depth \in 1..depth /\ Top = stack[depth] /\ Op = Head(stack[depth].todo)
      /\ depth \in Frames /\ Top.todo # <<>>
      /\ \A i \in 1..depth : i \in Frames
  BY <1>1, TopFacts
<1>3. Opener(depth)
  <2>1. Top.session = session
    BY <1>1, HolderRuns
  <2> QED
    BY <1>1, <1>2, <2>1 DEF Opener, Doing
<1>4. Unchanged(depth)
  BY <1>1, <1>2, <1>3 DEF Owed, OpenerOwes
<1>5. PICK ops : /\ ops = IF Op = "load" THEN <<"discard", "askPassword">> ELSE <<"discard", "nameOld">>
                 /\ Continue(ops)
  BY <1>1
<1>6. OnlyTop /\ stack'[depth].at = "call" /\ stack'[depth].todo = ops
  <2>1. TopGoesOn(ops)
    BY <1>1, <1>5, SessionTypes, TopShapes
  <2> QED
    BY <2>1 DEF TopGoesOn, Idle
<1>7. \A i \in 1..depth' : i # depth' => ~Opener(i)' /\ ~Discarder(i)'
  <2>1. \A i \in 1..depth : i # depth => ~Opener(i) /\ ~Discarder(i)
    BY <1>2, <1>3, OpenerAlone
  <2>2. \A i \in 1..depth : i # depth => stack'[i] = stack[i]
    BY <1>2, <1>6 DEF OnlyTop
  <2> QED
    BY <1>1, <2>1, <2>2 DEF Opener, Discarder, Doing
<1>8. ~Opener(depth)'
  BY <1>1, <1>6 DEF Opener
<1>9. /\ ops # <<>> /\ Head(ops) = "discard" /\ Len(ops) = 2
      /\ Op = "load" => ops[2] = "askPassword"
      /\ Op # "load" => ops[2] = "nameOld"
  BY <1>5
<1>10. /\ Op = "load" => named = path
       /\ Op # "load" => locals[depth].old = path
  BY <1>2, <1>4 DEF Unchanged, Doing
<1>11. DiscarderOwes(depth)'
  <2>1. Op = "load" => named' = path' /\ stack'[depth].todo[2] # "nameOld"
    BY <1>1, <1>6, <1>9, <1>10
  <2>2. Op # "load" => locals'[depth].old = path' /\ stack'[depth].todo[2] = "nameOld"
                       /\ Len(stack'[depth].todo) > 1
    BY <1>1, <1>6, <1>9, <1>10
  <2> QED
    BY <1>1, <2>1, <2>2 DEF DiscarderOwes
<1>12. \A s : Doing(depth, s)' <=> "discard" \in s
  BY <1>1, <1>6, <1>9 DEF Doing
<1>13. TopOwes'
  BY <1>12 DEF TopOwes
<1>14. Owing(depth)'
  BY <1>12 DEF Owing, Discarder
<1> QED
  BY <1>1, <1>2, <1>7, <1>8, <1>11, <1>13, <1>14, OwedByTop

\* The worker is gone.
LEMMA OwedWorkerGone ==
    ASSUME SessionInv, Shaped, Owed, EndClose \/ EndDiscard
    PROVE  Owed'
<1>1. /\ Busy /\ Top.at = "deinit" /\ wallet = "stopped" /\ ~worker' /\ Finish
      /\ depth' = depth /\ session' = session
      /\ Op \in AdapterClose \cup {"discard"}
      /\ UNCHANGED <<task, named, chosen, path, locals>>
  <2>1. WorkerGone
    BY DEF EndClose, EndDiscard
  <2>2. Op \in AdapterClose \cup {"discard"}
    BY DEF EndClose, EndDiscard
  <2> QED
    BY <2>1, <2>2 DEF WorkerGone, DeinitDone, At, files
<1>2. /\ depth \in 1..depth /\ Top = stack[depth] /\ Op = Head(stack[depth].todo)
      /\ depth \in Frames /\ Top.todo # <<>>
      /\ \A i \in 1..depth : i \in Frames
  BY <1>1, TopFacts
<1>3. Top.todo \in Seq(Ops) /\ Naming(Top.todo) /\ Tail(Top.todo) \in Seq(PlainOps)
  <2>1. Top.todo \in Seq(Ops)
    BY <1>1, SessionTypes, TopTodo
  <2> QED
    BY <1>2, <2>1 DEF Shaped, SessionInv, SessionParts, DiscardComesFirst
<1>4. OnlyTop /\ stack'[depth].at = "call" /\ stack'[depth].todo = Tail(Top.todo)
  <2>1. TopGoesOn(Tail(Top.todo))
    BY <1>1, SessionTypes, TopShapes
  <2> QED
    BY <2>1 DEF TopGoesOn, Idle
<1>5. ~Opener(depth)' /\ ~Discarder(depth)'
  <2>1. stack'[depth].todo # <<>> => Head(stack'[depth].todo) \in PlainOps
    BY <1>3, <1>4, HeadTailProperties
  <2> QED
    BY <1>1, <1>4, <2>1 DEF Opener, Discarder, Doing, PlainOps
<1>6. \A i \in 1..depth : ~Opener(i)
  BY <1>1 DEF Shaped
<1>7. \A i \in 1..depth : i # depth => ~Discarder(i)
  <2> SUFFICES ASSUME NEW i \in 1..depth, i # depth, Discarder(i) PROVE FALSE
    OBVIOUS
  <2>1. stack[i].at \in {"call", "deinit"}
    BY DEF SessionInv, SessionParts, DiscardComesFirst, Discarder, Doing
  <2>2. stack[i].at # "call"
    BY <1>1, BelowWaits
  <2>3. stack[i].at \notin Holding
    BY <1>1, SessionTypes, HolderFacts DEF Holding
  <2> QED
    BY <2>1, <2>2, <2>3 DEF Holding
<1>8. /\ Tail(Top.todo) # <<>> => /\ Head(Tail(Top.todo)) = "create" => Op = "nameNew"
                                  /\ Head(Tail(Top.todo)) = "nameOld" => Op = "discard"
                                  /\ Head(Tail(Top.todo)) # "nameChosen"
      /\ Tail(Top.todo) # <<>> => Len(Top.todo) > 1 /\ Head(Tail(Top.todo)) = Top.todo[2]
      /\ Len(Top.todo) > 1 => Tail(Top.todo) # <<>>
  BY <1>2, <1>3, NamingTail, TailAt DEF Op
<1>9. CASE Op \in AdapterClose
  <2>1. ~Owing(depth)
    <3>1. ~Discarder(depth)
      BY <1>2, <1>9 DEF Discarder, Doing, AdapterClose
    <3> QED
      BY <1>1, <1>2, <1>6, <3>1 DEF Owing
  <2>2. ~Doing(depth, OwingOps)'
    BY <1>1, <1>4, <1>8, <1>9 DEF Doing, OwingOps, AdapterClose
  <2>3. ~Owing(depth)'
    BY <1>5, <2>2 DEF Owing
  <2>4. \A i \in 1..depth : Spawned(i)' <=> Spawned(i)
    BY <1>1 DEF Spawned, HasTask
  <2> QED
    BY <1>1, <1>4, <2>1, <2>3, <2>4, OwedByOthers
<1>10. CASE Op = "discard"
  <2>1. Discarder(depth) /\ DiscarderOwes(depth)
    BY <1>2, <1>10 DEF Discarder, Doing, Owed
  <2>2. \A i \in 1..depth' : i # depth' => ~Opener(i)' /\ ~Discarder(i)'
    <3>1. \A i \in 1..depth : i # depth => stack'[i] = stack[i]
      BY <1>2, <1>4 DEF OnlyTop
    <3> QED
      BY <1>1, <1>6, <1>7, <3>1 DEF Opener, Discarder, Doing
  <2>3. CASE Len(Top.todo) > 1 /\ Top.todo[2] = "nameOld"
    <3>1. locals[depth].old = path
      BY <1>2, <2>1, <2>3 DEF DiscarderOwes
    <3>2. \A s : Doing(depth, s)' <=> "nameOld" \in s
      BY <1>1, <1>4, <1>8, <2>3 DEF Doing
    <3>3. TopOwes'
      BY <1>1, <3>1, <3>2 DEF TopOwes
    <3>4. Owing(depth)'
      BY <1>1, <1>4, <3>2 DEF Owing, OwingOps
    <3> QED
      BY <1>1, <1>2, <1>5, <2>2, <3>3, <3>4, OwedByTop
  <2>4. CASE ~(Len(Top.todo) > 1 /\ Top.todo[2] = "nameOld")
    <3>1. named = path
      BY <1>2, <2>1, <2>4 DEF DiscarderOwes
    <3>2. ~Doing(depth, OwingOps)'
      BY <1>1, <1>4, <1>8, <1>10, <2>4 DEF Doing, OwingOps
    <3>3. TopOwes'
      BY <3>2 DEF TopOwes, Doing, OwingOps
    <3> QED
      BY <1>1, <1>2, <1>5, <2>2, <3>1, <3>3, OwedByTop
  <2> QED
    BY <2>3, <2>4
<1> QED
  BY <1>1, <1>9, <1>10

LEMMA OwedReturnDeleted ==
    ASSUME SessionInv, Owed, ReturnDeleted, Top.ok
    PROVE  Owed'
<1>1. /\ Busy /\ Top.at = "held" /\ Op = "deleteAddress"
      /\ depth' = depth + 1 /\ depth < MaxDepth /\ session' = session
      /\ stack' = [stack EXCEPT ![depth].at = "emit",
                     ![depth + 1] = [Idle EXCEPT !.todo = <<"get">>]]
      /\ UNCHANGED <<task, named, chosen, path, locals>>
  BY DEF ReturnDeleted, At, life, files
<1>2. /\ depth \in 1..depth /\ Top = stack[depth] /\ Op = Head(stack[depth].todo)
      /\ depth + 1 \in Frames /\ depth \in Frames /\ depth \in Nat /\ depth # depth + 1
      /\ stack \in [Frames -> Frame] /\ \A i \in 1..depth : i \in Frames /\ i # depth + 1
  BY <1>1, TopFacts, SessionTypes, FramesBelow, BoundsAssumption DEF Frames
<1>3. /\ \A i \in 1..depth : i # depth => stack'[i] = stack[i]
      /\ stack'[depth].todo = stack[depth].todo /\ stack'[depth].at = "emit"
      /\ stack'[depth + 1].todo = <<"get">> /\ stack'[depth + 1].at = "call"
  <2>1. \A i \in 1..depth : i # depth => stack'[i] = stack[i]
    BY <1>1, <1>2
  <2>2. stack'[depth].todo = stack[depth].todo /\ stack'[depth].at = "emit"
    BY <1>1, <1>2 DEF Frame
  <2>3. stack'[depth + 1] = [Idle EXCEPT !.todo = <<"get">>]
    BY <1>1, <1>2
  <2> QED
    BY <2>1, <2>2, <2>3 DEF Idle
<1>4. \A i \in 1..depth' : i \in 1..depth \/ i = depth + 1
  BY <1>1, <1>2
<1>5. PICK top : top = depth + 1
  OBVIOUS
<1>6. ~Owing(depth) /\ ~Opener(top)' /\ ~Discarder(top)' /\ ~Doing(top, OwingOps)'
  <2>1. ~Owing(depth)
    BY <1>1, <1>2 DEF Owing, Opener, Discarder, Doing, OpenOps
  <2>2. Head(<<"get">>) = "get" /\ "get" \notin OpenOps \cup OwingOps \cup {"discard"}
    BY DEF OpenOps, OwingOps
  <2>3. \A s : Doing(top, s)' => "get" \in s
    BY <1>3, <1>5, <2>2 DEF Doing
  <2>4. ~Discarder(top)'
    BY <2>3 DEF Discarder
  <2>5. ~Opener(top)' /\ ~Doing(top, OwingOps)'
    BY <1>3, <1>5, <2>2 DEF Opener, Doing
  <2> QED
    BY <2>1, <2>4, <2>5
<1>7. \A i \in 1..depth : i # depth => /\ (Opener(i)' <=> Opener(i))
                                       /\ (Discarder(i)' <=> Discarder(i))
                                       /\ (Owing(i)' <=> Owing(i))
  BY <1>1, <1>3 DEF Opener, Discarder, Doing, Owing
<1>8. \A i : i = depth => ~Opener(i)' /\ ~Discarder(i)'
  BY <1>1, <1>2, <1>3 DEF Opener, Discarder, Doing, OpenOps
<1>9. \A i \in 1..depth' : /\ Opener(i)' => i \in 1..depth /\ i # depth /\ Opener(i)
                           /\ Discarder(i)' => i \in 1..depth /\ i # depth /\ Discarder(i)
  BY <1>4, <1>5, <1>6, <1>7, <1>8
<1>10. ASSUME NEW i \in 1..depth', Opener(i)' PROVE OpenerOwes(i)'
  <2>1. Opener(i) /\ i \in 1..depth /\ i # depth /\ OpenerOwes(i) /\ stack'[i] = stack[i]
    BY <1>3, <1>9, <1>10 DEF Owed
  <2>2. Spawned(i)' <=> Spawned(i)
    BY <1>1 DEF Spawned, HasTask
  <2>3. (FileFor(i)' = FileFor(i)) /\ (Unchanged(i)' <=> Unchanged(i))
    BY <1>1, <2>1 DEF FileFor, Unchanged, Doing
  <2>4. Doing(i, {"create"})' <=> Doing(i, {"create"})
    BY <2>1 DEF Doing
  <2> QED
    BY <1>1, <2>1, <2>2, <2>3, <2>4 DEF OpenerOwes
<1>11. ASSUME NEW i \in 1..depth', Discarder(i)' PROVE DiscarderOwes(i)'
  BY <1>1, <1>3, <1>9, <1>11 DEF Owed, DiscarderOwes
<1>12. TopOwes'
  <2>1. \A i : i = top => \A s : s \subseteq OwingOps => ~Doing(i, s)'
    BY <1>6 DEF Doing
  <2>2. depth' = top
    BY <1>1, <1>5
  <2>3. ~Doing(depth, {"nameOld"})' /\ ~Doing(depth, {"nameChosen"})' /\ ~Doing(depth, {"create"})'
    BY <1>6, <2>2 DEF Doing, OwingOps
  <2> QED
    BY <2>3 DEF TopOwes
<1>13. (\A i \in 1..depth' : ~Owing(i)') => named' = path'
  <2>1. \A i \in 1..depth : i \in 1..depth'
    BY <1>1, <1>2
  <2> SUFFICES ASSUME \A i \in 1..depth' : ~Owing(i)' PROVE named' = path'
    OBVIOUS
  <2>2. \A i \in 1..depth : ~Owing(i)
    BY <1>6, <1>7, <2>1
  <2> QED
    BY <1>1, <2>2 DEF Owed
<1> QED
  BY <1>10, <1>11, <1>12, <1>13 DEF Owed

\* What the handler on top does with the files.
LEMMA OwedGui ==
    ASSUME SessionInv, Shaped, QueueParts, FilesTypeOK, Owed, ~OpensTwice, exiting = "no", Gui
    PROVE  Doomed' \/ Owed'
<1>1. PointsFit
  BY DEF Shaped
<1>2. CASE Return
  BY <1>2, OwedReturn
<1>3. CASE Quietly
  BY <1>3, OwedQuietly
<1>4. CASE Onward
  BY <1>4, OwedOnward
<1>5. CASE SetWalletFile
  BY <1>5, OwedSetWalletFile
<1>6. CASE ReturnDeleted /\ Top.ok
  BY <1>6, OwedReturnDeleted
<1>7. CASE BeginOpen
  BY <1>7, OwedBeginOpen
<1>8. CASE BeginClose
  BY <1>8, OwedBeginClose
<1>9. CASE EmitOpened
  BY <1>9, OwedEmitOpened
<1>10. CASE OpenFailed
  BY <1>10, OwedOpenFailed
<1>11. CASE EndClose \/ EndDiscard
  BY <1>11, OwedWorkerGone
<1> QED
  BY <1>1, <1>2, <1>3, <1>4, <1>5, <1>6, <1>7, <1>8, <1>9, <1>10, <1>11, NamingShape

NameParts == Shaped /\ (Doomed \/ Owed)
NameInv == QueueInv /\ FilesTypeOK /\ (exiting = "no" => NameParts)

LEMMA NameStep == NameInv /\ [Next]_vars => NameInv'
<1> SUFFICES ASSUME NameInv, [Next]_vars PROVE NameInv'
  OBVIOUS
<1>1. QueueInv' /\ SessionInv /\ TypeInv /\ TypeInv'
  <2>1. QueueInv'
    BY QueueStep DEF NameInv
  <2>2. TypeInv /\ SessionInv
    BY SessionTypes DEF NameInv, QueueInv
  <2> QED
    BY <2>1, <2>2, TypeStep
<1>2. FilesTypeOK'
  BY <1>1, FilesTypeStep DEF NameInv
<1>3. ASSUME exiting' = "no" PROVE NameParts'
  <2>1. /\ QueueParts /\ Shaped /\ (Doomed \/ Owed) /\ FilesTypeOK /\ exiting = "no"
    BY <1>3, ExitingOnward DEF NameInv, NameParts, QueueInv
  <2>2. Shaped'
    BY <1>1, <1>3, <2>1, ShapedStep
  <2>3. CASE Doomed
    BY <1>1, <1>3, <2>2, <2>3, DoomedStep DEF NameParts
  <2>4. CASE ~Doomed
    <3>1. Owed /\ ~OpensTwice
      BY <2>1, <2>4 DEF Doomed
    <3>2. CASE Gui
      BY <1>1, <2>1, <2>2, <3>1, <3>2, OwedGui DEF NameParts
    <3>3. CASE ~Gui /\ RunTask
      BY <1>1, <2>1, <2>2, <3>1, <3>3, OwedRunTask DEF NameParts
    <3>4. CASE ~Gui /\ ~RunTask
      BY <1>1, <1>3, <2>1, <2>2, <3>1, <3>4, OwedOthers DEF NameParts
    <3> QED
      BY <3>2, <3>3, <3>4
  <2> QED
    BY <2>3, <2>4
<1> QED
  BY <1>1, <1>2, <1>3 DEF NameInv

LEMMA NameInit == Init => NameInv
<1> SUFFICES ASSUME Init PROVE NameInv
  OBVIOUS
<1>1. QueueInv
  BY QueueInit
<1>2. FilesTypeOK
  BY DEF Init, FilesTypeOK, FileNames, NoLocals, Frames
<1>3. depth = 0 /\ named = path
  BY DEF Init
<1>4. \A i \in 1..depth : FALSE
  BY <1>3
<1>5. Shaped
  BY <1>4 DEF Shaped, PointsFit
<1>6. Owed
  BY <1>3, <1>4 DEF Owed, TopOwes, Busy
<1> QED
  BY <1>1, <1>2, <1>5, <1>6 DEF NameInv, NameParts

(***************************************************************************)
(* When the GUI thread is back in its event loop and nothing is posted,    *)
(* Settings name the wallet that is open, or was open last, whatever       *)
(* handlers were nested while a load or a create was on its way and        *)
(* however it ended: the next start opens that wallet.                     *)
(***************************************************************************)
THEOREM SettingsFollowWallet == Spec => []SettingsNameWallet
<1>1. NameInv => SettingsNameWallet
  <2> SUFFICES ASSUME NameInv, ~Busy, queue = <<>>, exiting = "no" PROVE named = path
    BY DEF SettingsNameWallet
  <2>1. depth = 0 /\ \A i \in 1..depth : FALSE
    <3>1. depth \in Nat
      BY SessionTypes, FramesBelow DEF NameInv, QueueInv
    <3> QED
      BY <3>1 DEF Busy
  <2>2. ~LoadsNext
    <3>1. Len(queue) = 0
      OBVIOUS
    <3> QED
      BY <3>1 DEF LoadsNext
  <2>3. ~Doomed
    BY <2>2 DEF Doomed, OpensTwice
  <2> QED
    BY <2>1, <2>3 DEF NameInv, NameParts, Owed
<1> QED
  BY <1>1, NameInit, NameStep, PTL DEF Spec
=============================================================================
