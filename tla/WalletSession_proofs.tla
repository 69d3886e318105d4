------------------------ MODULE WalletSession_proofs ------------------------
(***************************************************************************)
(* Proofs about WalletSession, for every value of its constants.           *)
(***************************************************************************)
EXTENDS WalletSession, SequenceTheorems, TLAPS

\* A frame inside an operation has that operation at the head of its list,
\* and only load and create run init().
FrameInOperation ==
    \A i \in Frames :
        stack[i].at # "call" =>
            /\ stack[i].todo # <<>>
            /\ stack[i].at = "init" => Head(stack[i].todo) \in OpenOps

TypeInv == SessionTypeOK /\ FrameInOperation

\* What a frame on the stack is.
LEMMA TopInFrames ==
    ASSUME SessionTypeOK, Busy
    PROVE  depth \in Frames /\ Top \in Frame
BY BoundsAssumption DEF SessionTypeOK, Busy, Top, Frames

\* Every change of the container has one of the four causes.
LEMMA ChangesCaused == \A op : Changes(op) \subseteq Causes
BY DEF Changes, Causes

\* The operations the handlers name.
LEMMA OpNames ==
    /\ {"load", "create", "save", "saveKeys", "export"} \subseteq Ops
    /\ {"get", "changePassword", "createAddress", "deleteAddress",
        "sendTransaction"} \subseteq Ops
    /\ {"getUserData", "setUserData"} \subseteq Ops
    /\ {"close", "closeQuiet", "shutdownClose", "discard"} \subseteq Ops
    /\ {"assertOpen", "askPassword"} \subseteq Ops
    /\ {"postLoad", "reopen", "restart"} \subseteq Ops
    /\ {"nameNew", "nameOld", "nameChosen"} \subseteq Ops
BY DEF Ops, LoopOps, OpenOps, SaveOps, BlockOps, DataOps, CloseOps,
       AdapterClose, LocalOps, NamingOps, OpeningOps

\* What a handler may ask for: a wallet is discarded by a failed load or create only.
PlainOps == Ops \ {"discard"}

LEMMA PlainNames ==
    /\ {"load", "create", "save", "saveKeys", "export"} \subseteq PlainOps
    /\ {"get", "changePassword", "createAddress", "deleteAddress",
        "sendTransaction"} \subseteq PlainOps
    /\ {"getUserData", "setUserData"} \subseteq PlainOps
    /\ {"close", "closeQuiet", "shutdownClose"} \subseteq PlainOps
    /\ {"assertOpen", "askPassword"} \subseteq PlainOps
    /\ {"postLoad", "reopen", "restart"} \subseteq PlainOps
    /\ {"nameNew", "nameOld", "nameChosen"} \subseteq PlainOps
BY OpNames DEF PlainOps

\* Every handler of a user action is a list of operations; none discards a wallet.
LEMMA HandlerPlain ==
    ASSUME NEW a \in AllActions
    PROVE  Handler(a) \in Seq(PlainOps)
<1>1. /\ SaveAndCloseIfOpen \in Seq(PlainOps)
      /\ OkClicked \in Seq(PlainOps)
      /\ ImportInvalidKey \in Seq(PlainOps)
  BY PlainNames DEF SaveAndCloseIfOpen, OkClicked, ImportInvalidKey
<1>2. /\ OpenRecentWallet \in Seq(PlainOps)
      /\ CreateWallet \in Seq(PlainOps)
      /\ ImportKey \in Seq(PlainOps)
  <2>1. /\ <<"postLoad">> \in Seq(PlainOps)
        /\ <<"nameNew", "create", "save">> \in Seq(PlainOps)
        /\ <<"closeQuiet">> \in Seq(PlainOps)
        /\ <<>> \in Seq(PlainOps)
    BY PlainNames
  <2>2. <<"nameNew", "create", "save", "assertOpen", "export", "get">> \in Seq(PlainOps)
    BY PlainNames
  <2>3. OpenRecentWallet \in Seq(PlainOps) /\ CreateWallet \in Seq(PlainOps)
    BY <1>1, <2>1, <2>2, ConcatProperties DEF OpenRecentWallet, CreateWallet
  <2>4. ImportKey \in Seq(PlainOps)
    BY <2>1, ConcatProperties DEF ImportKey
  <2> QED
    BY <2>3, <2>4
<1>3. /\ ResetWallet \in Seq(PlainOps)
      /\ CloseWallet \in Seq(PlainOps)
      /\ DeinitCryptoNoteAdapter \in Seq(PlainOps)
      /\ CommitData \in Seq(PlainOps)
      /\ EncryptWallet \in Seq(PlainOps)
  BY PlainNames DEF ResetWallet, CloseWallet, DeinitCryptoNoteAdapter, CommitData,
                 EncryptWallet
<1>r. ReinitCryptoNoteAdapter \in Seq(PlainOps)
  <2>1. <<"restart">> \in Seq(PlainOps)
    BY PlainNames
  <2> QED
    BY <1>3, <2>1, ConcatProperties DEF ReinitCryptoNoteAdapter
<1>4. /\ CreateAddressRequested \in Seq(PlainOps)
      /\ ImportAddressRequested \in Seq(PlainOps)
      /\ DeleteAddressFromCard \in Seq(PlainOps)
      /\ SetOwnAddressLabel \in Seq(PlainOps)
      /\ BackupWallet \in Seq(PlainOps)
      /\ ExportKey \in Seq(PlainOps)
      /\ SendClicked \in Seq(PlainOps)
      /\ RegisterAccountNumberFromCard \in Seq(PlainOps)
      /\ <<>> \in Seq(PlainOps)
  BY PlainNames DEF CreateAddressRequested, ImportAddressRequested,
                 DeleteAddressFromCard, SetOwnAddressLabel, BackupWallet, ExportKey,
                 SendClicked, RegisterAccountNumberFromCard
<1>5. /\ Handler("openRecent") = OpenRecentWallet
      /\ Handler("unlock") = OkClicked
      /\ Handler("create") = CreateWallet
      /\ Handler("import") = ImportKey
      /\ Handler("importBadKey") = ImportInvalidKey
      /\ Handler("reset") = ResetWallet
      /\ Handler("closeWallet") = CloseWallet
      /\ Handler("reinit") = ReinitCryptoNoteAdapter
      /\ Handler("commitData") = CommitData
  BY DEF Handler
<1>6. /\ Handler("password") = EncryptWallet
      /\ Handler("createAddress") = CreateAddressRequested
      /\ Handler("importAddress") = ImportAddressRequested
      /\ Handler("deleteAddress") = DeleteAddressFromCard
      /\ Handler("contact") = SetOwnAddressLabel
      /\ Handler("backup") = BackupWallet
      /\ Handler("read") = ExportKey
      /\ Handler("send") = SendClicked
      /\ Handler("register") = RegisterAccountNumberFromCard
      /\ Handler("quit") = <<>>
  BY DEF Handler
<1> QED
  BY <1>1, <1>2, <1>3, <1>r, <1>4, <1>5, <1>6 DEF AllActions

LEMMA HandlerType ==
    ASSUME NEW a \in AllActions
    PROVE  Handler(a) \in Seq(Ops)
BY HandlerPlain, SeqMonotonic DEF PlainOps

\* Pushing a frame keeps the stack well typed.
LEMMA PushType ==
    ASSUME TypeInv, NEW ops \in Seq(Ops), Push(ops)
    PROVE  /\ stack' \in [Frames -> Frame]
           /\ depth' \in 0..MaxDepth
           /\ FrameInOperation'
<1>1. CASE ops = <<>>
  BY <1>1 DEF Push, gui, TypeInv, SessionTypeOK, FrameInOperation
<1>2. CASE ops # <<>>
  <2>1. /\ depth + 1 \in Frames
        /\ depth' = depth + 1
        /\ stack' = [stack EXCEPT ![depth + 1] = [Idle EXCEPT !.todo = ops]]
    BY <1>2, BoundsAssumption DEF Push, TypeInv, SessionTypeOK, Frames
  <2>2. [Idle EXCEPT !.todo = ops] \in Frame
    BY DEF Idle, Frame, Points
  <2>3. [Idle EXCEPT !.todo = ops].at = "call"
    BY DEF Idle
  <2> QED
    BY <2>1, <2>2, <2>3 DEF TypeInv, SessionTypeOK, FrameInOperation, Frames
<1> QED
  BY <1>1, <1>2

\* What the steps of the top frame do to the stack, in terms of types.
LEMMA FrameUpdates ==
    ASSUME TypeInv, Busy
    PROVE  /\ \A f \in Frame :
                /\ [stack EXCEPT ![depth] = f] \in [Frames -> Frame]
                /\ \A i \in Frames :
                     [stack EXCEPT ![depth] = f][i] = IF i = depth THEN f ELSE stack[i]
           /\ \A ops \in Seq(Ops) : Continue(ops) =>
                /\ stack' \in [Frames -> Frame]
                /\ FrameInOperation'
<1>1. depth \in Frames /\ stack \in [Frames -> Frame]
  BY TopInFrames DEF TypeInv, SessionTypeOK
<1>2. \A ops \in Seq(Ops) : /\ [Idle EXCEPT !.todo = ops] \in Frame
                            /\ [Idle EXCEPT !.todo = ops].at = "call"
  BY DEF Idle, Frame, Points
<1>3. ASSUME NEW ops \in Seq(Ops), Continue(ops)
      PROVE  stack' \in [Frames -> Frame] /\ FrameInOperation'
  BY <1>1, <1>2, <1>3 DEF Continue, TypeInv, FrameInOperation
<1> QED
  BY <1>1, <1>3

\* The list of the top frame and what is left of it are lists of operations.
LEMMA TopTodo ==
    ASSUME TypeInv, Busy
    PROVE  /\ Top.todo \in Seq(Ops)
           /\ Top.todo # <<>> => Op \in Ops /\ Tail(Top.todo) \in Seq(Ops)
           /\ Top.at # "call" => Top.todo # <<>>
           /\ Top.at = "init" => Op \in OpenOps
<1>1. depth \in Frames /\ Top \in Frame
  BY TopInFrames DEF TypeInv
<1>2. Top.todo \in Seq(Ops)
  BY <1>1 DEF Frame
<1> QED
  BY <1>1, <1>2, HeadTailProperties DEF TypeInv, FrameInOperation, Top, Op

\* Finishing an operation keeps the stack well typed.
LEMMA FinishType ==
    ASSUME TypeInv, Busy, Top.todo # <<>>, Finish
    PROVE  stack' \in [Frames -> Frame] /\ FrameInOperation'
BY FrameUpdates, TopTodo DEF Finish

\* Moving on inside an operation keeps the stack well typed.
LEMMA MoveType ==
    ASSUME TypeInv, Busy, Top.todo # <<>>, NEW point \in Points \ {"init"},
           NEW exited \in BOOLEAN, NEW ok \in BOOLEAN, NEW s \in Nat,
           stack' = [stack EXCEPT ![depth] =
                       [@ EXCEPT !.at = point, !.session = s, !.exited = exited,
                                 !.ok = ok]]
    PROVE  stack' \in [Frames -> Frame] /\ FrameInOperation'
<1>1. depth \in Frames /\ stack[depth] \in Frame /\ stack \in [Frames -> Frame]
  BY TopInFrames DEF TypeInv, SessionTypeOK, Top
<1> DEFINE f == [stack[depth] EXCEPT !.at = point, !.session = s,
                                     !.exited = exited, !.ok = ok]
<1>2. f \in Frame /\ f.at = point /\ f.todo = Top.todo
  BY <1>1 DEF Frame, Top
<1>3. stack' = [stack EXCEPT ![depth] = f]
  OBVIOUS
<1> QED
  BY <1>1, <1>2, <1>3 DEF TypeInv, FrameInOperation

\* Posting and receiving events keeps the queue well typed.
LEMMA PostType ==
    ASSUME TypeInv, NEW kind \in Kinds, Post(kind)
    PROVE  queue' \in Seq(Posted)
<1>1. Event(kind) \in Posted
  BY DEF Event, Posted, TypeInv, SessionTypeOK
<1>2. queue \in Seq(Posted)
  BY DEF TypeInv, SessionTypeOK
<1> QED
  BY <1>1, <1>2, AppendProperties DEF Post

LEMMA ReceiveType ==
    ASSUME TypeInv, queue # <<>>
    PROVE  Head(queue) \in Posted /\ Tail(queue) \in Seq(Posted)
BY HeadTailProperties DEF TypeInv, SessionTypeOK

\* A frame inside an operation stays inside it while the stack stands still.
LEMMA SameStack ==
    ASSUME TypeInv, stack' = stack
    PROVE  stack' \in [Frames -> Frame] /\ FrameInOperation'
BY DEF TypeInv, SessionTypeOK, FrameInOperation

\* The kinds of events the program posts.
LEMMA KindNames ==
    /\ AllCoreKinds \subseteq Kinds
    /\ {"opened", "openError", "closed", "passwordChanged", "addressCreated",
        "addressDeleted", "initCompleted", "deinitCompleted",
        "loadRequest"} \subseteq Kinds
BY DEF Kinds

\* The initial states are well typed.
LEMMA TypeInit == Init => TypeInv
<1> SUFFICES ASSUME Init PROVE TypeInv
  OBVIOUS
<1>1. Idle \in Frame /\ Idle.at = "call"
  BY DEF Idle, Frame, Points
<1>2. queue \in Seq(Posted)
  <2>1. [kind |-> "loadRequest", session |-> 0] \in Posted
    BY KindNames DEF Posted
  <2>2. \A S : \A e \in S : <<e>> \in Seq(S) /\ <<>> \in Seq(S)
    OBVIOUS
  <2>3. queue = <<>> \/ queue = <<[kind |-> "loadRequest", session |-> 0]>>
    BY DEF Init
  <2> QED
    BY <2>1, <2>2, <2>3
<1>3. stack \in [Frames -> Frame] /\ FrameInOperation
  BY <1>1 DEF Init, Frames, FrameInOperation
<1>4. /\ depth \in 0..MaxDepth
      /\ inputs \in 0..MaxInputs
      /\ events \in 0..MaxEvents
  BY BoundsAssumption DEF Init
<1> QED
  BY <1>2, <1>3, <1>4 DEF Init, TypeInv, SessionTypeOK, Failures

\* A user action keeps the types.
LEMMA TypeUserInput ==
    ASSUME TypeInv, NEW a \in AllActions, UserInput(a)
    PROVE  TypeInv'
<1>1. Handler(a) \in Seq(Ops)
  BY HandlerType
<1>2. /\ stack' \in [Frames -> Frame]
      /\ depth' \in 0..MaxDepth
      /\ FrameInOperation'
  BY <1>1, PushType DEF UserInput
<1> QED
  BY <1>2, BoundsAssumption
     DEF UserInput, Offered, TypeInv, SessionTypeOK, core, life, flags

\* quit() tells every running loop to exit, and moves no frame.
LEMMA QuitShape ==
    ASSUME TypeInv, Quit
    PROVE  /\ stack' \in [Frames -> Frame]
           /\ \A i \in Frames : /\ stack'[i].at = stack[i].at
                                /\ stack'[i].todo = stack[i].todo
                                /\ stack'[i].session = stack[i].session
BY DEF Quit, TypeInv, SessionTypeOK, Frame

LEMMA TypeQuit ==
    ASSUME TypeInv, Quit
    PROVE  TypeInv'
<1>1. stack' \in [Frames -> Frame] /\ FrameInOperation'
  BY QuitShape DEF TypeInv, FrameInOperation
<1>2. /\ inputs < MaxInputs /\ inputs' = inputs + 1
      /\ exiting' = "unwind"
      /\ UNCHANGED <<depth, queue, core, life, flags, view, failed, events>>
  BY DEF Quit, Offered
<1> QED
  BY <1>1, <1>2, BoundsAssumption
     DEF TypeInv, SessionTypeOK, core, life, flags, view

\* Dispatching a posted event keeps the types.
LEMMA TypeDispatch ==
    ASSUME TypeInv, Dispatch
    PROVE  TypeInv'
<1> DEFINE StackTyped == /\ stack' \in [Frames -> Frame]
                         /\ depth' \in 0..MaxDepth
                         /\ FrameInOperation'
<1> DEFINE ViewTyped == /\ menuOpen' \in BOOLEAN
                        /\ modelsOpen' \in BOOLEAN
                        /\ formEnabled' \in BOOLEAN
                        /\ asking' \in BOOLEAN
<1>1. ASSUME NEW kind, Receive(kind), StackTyped, ViewTyped
      PROVE  TypeInv'
  BY <1>1, ReceiveType DEF Receive, TypeInv, SessionTypeOK, core, life, flags, spent
<1>2. \A ops \in Seq(Ops) : Push(ops) => StackTyped
  BY PushType
<1>3. UNCHANGED gui => StackTyped
  BY SameStack DEF gui, TypeInv, SessionTypeOK
<1>4. /\ <<>> \in Seq(Ops)
      /\ <<"get">> \in Seq(Ops)
      /\ <<"save">> \in Seq(Ops)
      /\ <<"get", "getUserData">> \in Seq(Ops)
      /\ <<"get", "getUserData", "setUserData">> \in Seq(Ops)
      /\ <<"load", "askPassword">> \in Seq(Ops)
  BY OpNames
<1>5. CASE OnWalletOpened
  BY <1>1, <1>2, <1>4, <1>5 DEF OnWalletOpened, TypeInv, SessionTypeOK
<1>6. CASE OnWalletOpenError
  BY <1>1, <1>3, <1>6 DEF OnWalletOpenError, TypeInv, SessionTypeOK
<1>7. CASE OnWalletClosed
  BY <1>1, <1>3, <1>7 DEF OnWalletClosed, TypeInv, SessionTypeOK
<1>8. CASE OnPasswordChanged
  BY <1>1, <1>2, <1>4, <1>8 DEF OnPasswordChanged, TypeInv, SessionTypeOK
<1>9. CASE OnSynchronizationCompleted
  BY <1>1, <1>2, <1>4, <1>9 DEF OnSynchronizationCompleted, TypeInv, SessionTypeOK
<1>10. CASE OnBalance
  BY <1>1, <1>2, <1>4, <1>10 DEF OnBalance, RefreshBalances, TypeInv, SessionTypeOK
<1>11. CASE OnAddressCreated
  BY <1>1, <1>2, <1>4, <1>11 DEF OnAddressCreated, TypeInv, SessionTypeOK
<1>12. CASE OnQuietEvent
  BY <1>1, <1>3, <1>12 DEF OnQuietEvent, TypeInv, SessionTypeOK
<1>13. CASE OnLoadRequest
  BY <1>1, <1>2, <1>4, <1>13 DEF OnLoadRequest, TypeInv, SessionTypeOK
<1>14. ASSUME NEW kind, NEW point, OnQuit(kind, point)
       PROVE  TypeInv'
  <2>1. /\ stack' \in [Frames -> Frame]
        /\ \A i \in Frames : /\ stack'[i].at = stack[i].at
                             /\ stack'[i].todo = stack[i].todo
    BY <1>14 DEF OnQuit, TypeInv, SessionTypeOK, Frame
  <2>2. FrameInOperation'
    BY <2>1 DEF TypeInv, FrameInOperation
  <2> QED
    BY <1>1, <1>14, <2>1, <2>2 DEF OnQuit, TypeInv, SessionTypeOK
<1> QED
  BY <1>5, <1>6, <1>7, <1>8, <1>9, <1>10, <1>11, <1>12, <1>13, <1>14 DEF Dispatch

\* A step of the handler on top of the stack keeps the types.
LEMMA TypeGui ==
    ASSUME TypeInv, Gui
    PROVE  TypeInv'
<1>1. /\ \A point : At(point) => Busy /\ Top.at = point
      /\ \A ops : Calls(ops) => Busy /\ Top.at = "call" /\ Top.todo # <<>> /\ Op \in ops
  BY DEF At, Calls
<1>2. Busy => /\ depth \in Frames
              /\ depth - 1 \in 0..MaxDepth
              /\ Top \in Frame
  BY TopInFrames, BoundsAssumption DEF TypeInv, SessionTypeOK, Busy, Frames
<1>3. TakeToken \/ GiveToken \/ sem' = 0 \/ sem' = sem => sem' \in Nat
  BY DEF TakeToken, GiveToken, TypeInv, SessionTypeOK
<1>4. \A point \in Points \ {"init"} : Busy /\ Top.todo # <<>> /\ EnterWorker(point) =>
        stack' \in [Frames -> Frame] /\ FrameInOperation'
  <2> SUFFICES ASSUME NEW point \in Points \ {"init"}, Busy, Top.todo # <<>>,
                      EnterWorker(point)
               PROVE  stack' \in [Frames -> Frame] /\ FrameInOperation'
    OBVIOUS
  <2>1. session \in Nat /\ stack \in [Frames -> Frame] /\ Top.ok \in BOOLEAN
    BY <1>2 DEF TypeInv, SessionTypeOK, Frame
  <2> DEFINE quitting == exiting = "unwind"
  <2>2. stack' = [stack EXCEPT ![depth] =
                    [@ EXCEPT !.at = point, !.session = session,
                              !.exited = quitting, !.ok = Top.ok]]
    BY <1>2, <2>1 DEF EnterWorker, Frame, Top
  <2>3. quitting \in BOOLEAN
    OBVIOUS
  <2> HIDE DEF quitting
  <2> QED
    BY <2>1, <2>2, <2>3, MoveType
<1>5. \A point \in Points \ {"init"} : Busy /\ Top.todo # <<>> /\ Move(point) =>
        stack' \in [Frames -> Frame] /\ FrameInOperation'
  <2> SUFFICES ASSUME NEW point \in Points \ {"init"}, Busy, Top.todo # <<>>,
                      Move(point)
               PROVE  stack' \in [Frames -> Frame] /\ FrameInOperation'
    OBVIOUS
  <2>1. /\ stack \in [Frames -> Frame]
        /\ Top.session \in Nat /\ Top.exited \in BOOLEAN /\ Top.ok \in BOOLEAN
    BY <1>2 DEF TypeInv, SessionTypeOK, Frame
  <2>2. stack' = [stack EXCEPT ![depth] =
                    [@ EXCEPT !.at = point, !.session = Top.session,
                              !.exited = Top.exited, !.ok = Top.ok]]
    BY <1>2, <2>1 DEF Move, Frame, Top
  <2> QED
    BY <2>1, <2>2, MoveType
<1>6. \A point \in Points \ {"call"} : At(point) => Top.todo # <<>>
  BY <1>1, TopTodo
<1>7. Busy /\ Top.todo # <<>> /\ Finish => stack' \in [Frames -> Frame] /\ FrameInOperation'
  BY FinishType
<1>8. CASE Return
  <2>1. stack' = [stack EXCEPT ![depth] = Idle] /\ Busy
    BY <1>1, <1>8 DEF Return
  <2>2. Idle \in Frame /\ Idle.at = "call"
    BY DEF Idle, Frame, Points
  <2>3. stack' \in [Frames -> Frame] /\ FrameInOperation'
    BY <1>2, <2>1, <2>2 DEF TypeInv, SessionTypeOK, FrameInOperation
  <2> QED
    BY <1>2, <1>8, <2>1, <2>3
       DEF Return, TypeInv, SessionTypeOK, core, life, flags, view, spent
<1>9. CASE CheckOpen
  BY <1>1, <1>7, <1>9 DEF CheckOpen, TypeInv, SessionTypeOK, core, life, flags, view, spent
<1>10. CASE PostLoad
  <2>1. stack' \in [Frames -> Frame] /\ FrameInOperation'
    BY <1>1, <1>7, <1>10 DEF PostLoad
  <2>2. queue' \in Seq(Posted)
    BY <1>10, PostType, KindNames DEF PostLoad, OpenInForm
  <2>3. asking' \in BOOLEAN
    BY <1>10 DEF PostLoad, OpenInForm
  <2>4. UNCHANGED <<menuOpen, modelsOpen, formEnabled, mainConnected>>
    BY <1>10 DEF PostLoad, OpenInForm
  <2> QED
    BY <1>10, <2>1, <2>2, <2>3, <2>4
       DEF PostLoad, TypeInv, SessionTypeOK, core, life, flags, spent
<1>r. CASE Restart
  <2>1. stack' \in [Frames -> Frame] /\ FrameInOperation'
    BY <1>1, <1>7, <1>r DEF Restart
  <2>2. queue' \in Seq(Posted)
    BY <1>r, PostType, KindNames DEF Restart, OpenInForm, TypeInv, SessionTypeOK
  <2>3. /\ asking' \in BOOLEAN
        /\ UNCHANGED <<menuOpen, modelsOpen, formEnabled, mainConnected>>
    BY <1>r DEF Restart, OpenInForm, view, TypeInv, SessionTypeOK
  <2> QED
    BY <1>r, <2>1, <2>2, <2>3
       DEF Restart, TypeInv, SessionTypeOK, core, life, flags, spent
<1>s. CASE SetWalletFile
  <2>1. stack' \in [Frames -> Frame] /\ FrameInOperation'
    BY <1>1, <1>7, <1>s DEF SetWalletFile
  <2> QED
    BY <1>s, <2>1
       DEF SetWalletFile, TypeInv, SessionTypeOK, core, life, flags, view, spent
<1>11. CASE AskPassword
  <2>1. stack' \in [Frames -> Frame] /\ FrameInOperation'
    BY <1>1, <1>7, <1>11 DEF AskPassword
  <2>2. asking' \in BOOLEAN
    BY <1>11 DEF AskPassword, TypeInv, SessionTypeOK
  <2> QED
    BY <1>11, <2>1, <2>2
       DEF AskPassword, TypeInv, SessionTypeOK, core, life, flags, spent
<1>12. CASE BeginOpen
  <2>1. Busy /\ Top.todo # <<>> /\ Op \in OpenOps
    BY <1>1, <1>12 DEF BeginOpen
  <2>2. /\ stack' \in [Frames -> Frame]
        /\ \A i \in Frames : i # depth => stack'[i] = stack[i]
        /\ stack'[depth].at = "init" /\ stack'[depth].todo = Top.todo
    <3> DEFINE f == [Top EXCEPT !.at = "init", !.session = session + 1,
                                !.exited = exiting = "unwind"]
    <3>1. f \in Frame /\ f.at = "init" /\ f.todo = Top.todo
      <4>1. "init" \in Points /\ session + 1 \in Nat
        BY DEF Points, TypeInv, SessionTypeOK
      <4> QED
        BY <1>2, <2>1, <4>1 DEF Frame
    <3>2. stack' = [stack EXCEPT ![depth] = f]
      BY <1>2, <1>12 DEF BeginOpen, TypeInv, SessionTypeOK, Frame, Top
    <3> HIDE DEF f
    <3> QED
      BY <1>2, <2>1, <3>1, <3>2, FrameUpdates DEF TypeInv, SessionTypeOK
  <2>3. FrameInOperation'
    BY <2>1, <2>2 DEF TypeInv, FrameInOperation, Op
  <2>4. /\ worker' \in BOOLEAN
        /\ observed' \in BOOLEAN
        /\ isOpen' \in BOOLEAN
        /\ isSaved' \in BOOLEAN
        /\ dirty' \subseteq Causes
    BY <1>12 DEF BeginOpen
  <2>5. /\ wallet' \in {"none", "starting", "ready", "exiting", "stopped"}
        /\ session' \in Nat
        /\ sem' \in Nat
    BY <1>3, <1>12 DEF BeginOpen, TypeInv, SessionTypeOK
  <2> QED
    BY <1>12, <2>2, <2>3, <2>4, <2>5 DEF BeginOpen, TypeInv, SessionTypeOK, view, spent
<1>13. CASE SaveSkipped
  BY <1>1, <1>7, <1>13 DEF SaveSkipped, TypeInv, SessionTypeOK, core, life, flags, view, spent
<1>14. CASE Acquire
  <2>1. Busy /\ Top.todo # <<>> /\ Op \in TaskOps
    BY <1>1, <1>14 DEF Acquire
  <2>2. task' \in [op : LoopOps \cup BlockOps, frame : Frames]
    BY <1>2, <1>14, <2>1 DEF Acquire, TaskOps, LoopOps
  <2>3. stack' \in [Frames -> Frame] /\ FrameInOperation'
    BY <1>4, <1>14, <2>1 DEF Acquire, Points
  <2> QED
    BY <1>3, <1>14, <2>2, <2>3 DEF Acquire, TypeInv, SessionTypeOK, life, flags, view, spent
<1>15. CASE AccessUserData
  BY <1>1, <1>7, <1>15, ChangesCaused
     DEF AccessUserData, TypeInv, SessionTypeOK, core, life, view, spent
<1>16. CASE Detach
  <2>1. stack' \in [Frames -> Frame] /\ FrameInOperation'
    BY <1>1, <1>4, <1>16 DEF Detach, Points
  <2>2. observed' \in BOOLEAN /\ mainConnected' \in BOOLEAN
    BY <1>16 DEF Detach
  <2> QED
    BY <1>16, <2>1, <2>2 DEF Detach, TypeInv, SessionTypeOK, core, flags, spent
<1>17. CASE BeginClose
  <2>1. stack' \in [Frames -> Frame] /\ FrameInOperation'
    BY <1>1, <1>4, <1>6, <1>17 DEF BeginClose, Points
  <2>2. /\ sem' \in Nat
        /\ wallet' \in {"none", "starting", "ready", "exiting", "stopped"}
        /\ isOpen' \in BOOLEAN
    BY <1>3, <1>17 DEF BeginClose, LockForClose
  <2> QED
    BY <1>17, <2>1, <2>2
       DEF BeginClose, TypeInv, SessionTypeOK, view, spent
<1>18. CASE EnterLoop
  <2>1. Busy /\ Top.todo # <<>>
    BY <1>1, <1>6, <1>18 DEF EnterLoop, Points
  <2>2. stack' = [stack EXCEPT ![depth] =
                    [@ EXCEPT !.at = "loop", !.session = Top.session,
                              !.exited = (exiting = "unwind"), !.ok = FALSE]]
    BY <1>2, <1>18, <2>1 DEF EnterLoop, Frame, Top, TypeInv, SessionTypeOK
  <2>3. stack' \in [Frames -> Frame] /\ FrameInOperation'
    <3>1. (exiting = "unwind") \in BOOLEAN /\ Top.session \in Nat
      BY <1>2, <2>1 DEF Frame
    <3> QED
      BY <2>1, <2>2, <3>1, MoveType DEF Points
  <2> QED
    BY <1>18, <2>3 DEF EnterLoop, TypeInv, SessionTypeOK, core, life, flags, view, spent
<1>19. CASE LeaveInit
  <2>1. Busy /\ Top.todo # <<>> /\ Op \in OpenOps
    BY <1>1, <1>19, TopTodo DEF LeaveInit
  <2>2. task' \in [op : LoopOps \cup BlockOps, frame : Frames]
    BY <1>2, <1>19, <2>1 DEF LeaveInit, LoopOps
  <2>3. stack' \in [Frames -> Frame] /\ FrameInOperation'
    BY <1>4, <1>19, <2>1 DEF LeaveInit, Points
  <2> QED
    BY <1>19, <2>2, <2>3 DEF LeaveInit, TypeInv, SessionTypeOK, life, flags, view, spent
<1>20. CASE LeaveLoop
  <2>1. stack' \in [Frames -> Frame] /\ FrameInOperation'
    BY <1>1, <1>5, <1>6, <1>20 DEF LeaveLoop, Points
  <2> QED
    BY <1>20, <2>1 DEF LeaveLoop, TypeInv, SessionTypeOK, core, life, flags, view, spent
<1>21. CASE LeaveClosedWorker
  <2>1. stack' \in [Frames -> Frame] /\ FrameInOperation'
    BY <1>1, <1>6, <1>7, <1>21 DEF LeaveClosedWorker, Points
  <2> QED
    BY <1>21, <2>1
       DEF LeaveClosedWorker, TypeInv, SessionTypeOK, core, life, flags, view, spent
<1>22. CASE AwaitToken
  <2>1. stack' \in [Frames -> Frame] /\ FrameInOperation'
    BY <1>1, <1>5, <1>6, <1>22 DEF AwaitToken, Points
  <2> QED
    BY <1>3, <1>22, <2>1
       DEF AwaitToken, LockerWait, TypeInv, SessionTypeOK, life, flags, view, spent
<1>23. CASE ReturnResult
  <2>1. stack' \in [Frames -> Frame] /\ FrameInOperation'
    BY <1>1, <1>6, <1>7, <1>23 DEF ReturnResult, Points
  <2> QED
    BY <1>3, <1>23, <2>1 DEF ReturnResult, TypeInv, SessionTypeOK, life, view, spent
<1>24. CASE ReturnMutation
  <2>1. Busy /\ Top.todo # <<>> /\ <<>> \in Seq(Ops)
    BY <1>1, <1>6, <1>24 DEF ReturnMutation, Points
  <2>2. stack' \in [Frames -> Frame] /\ FrameInOperation'
    BY <1>7, <1>24, <2>1, FrameUpdates DEF ReturnMutation
  <2>3. queue' \in Seq(Posted)
    BY <1>24, PostType, KindNames DEF ReturnMutation, TypeInv, SessionTypeOK
  <2>4. isSaved' \in BOOLEAN
    BY <1>24 DEF ReturnMutation, MarkUnsaved, TypeInv, SessionTypeOK
  <2> QED
    BY <1>3, <1>24, <2>2, <2>3, <2>4
       DEF ReturnMutation, TypeInv, SessionTypeOK, life, view, spent
<1>25. CASE ReturnDeleted
  <2>1. Busy /\ Top.todo # <<>> /\ Top.at = "held"
    BY <1>1, <1>6, <1>25 DEF ReturnDeleted, Points
  <2>2. CASE Top.ok
    <3> DEFINE below == [stack EXCEPT ![depth].at = "emit"]
               getter == [Idle EXCEPT !.todo = <<"get">>]
    <3>1. /\ depth + 1 \in Frames /\ depth + 1 # depth
          /\ depth' = depth + 1
          /\ stack' = [below EXCEPT ![depth + 1] = getter]
      BY <1>2, <1>25, <2>1, <2>2, BoundsAssumption DEF ReturnDeleted, Frames
    <3>2. /\ getter \in Frame /\ getter.at = "call"
      <4>1. <<"get">> \in Seq(Ops)
        BY OpNames
      <4> QED
        BY <4>1 DEF Idle, Frame, Points
    <3>3. /\ below \in [Frames -> Frame]
          /\ below[depth].at = "emit" /\ below[depth].todo = Top.todo
          /\ \A i \in Frames : i # depth => below[i] = stack[i]
      <4> DEFINE f == [Top EXCEPT !.at = "emit"]
      <4>1. f \in Frame /\ f.at = "emit" /\ f.todo = Top.todo
        BY <1>2, <2>1 DEF Frame, Points
      <4>2. below = [stack EXCEPT ![depth] = f]
        BY <1>2, <2>1 DEF TypeInv, SessionTypeOK, Top
      <4> HIDE DEF below, f
      <4> QED
        BY <1>2, <2>1, <4>1, <4>2, FrameUpdates DEF TypeInv, SessionTypeOK
    <3>4. /\ stack' \in [Frames -> Frame]
          /\ stack'[depth + 1] = getter
          /\ \A i \in Frames : i # depth + 1 => stack'[i] = below[i]
      <4> HIDE DEF below, getter
      <4> QED BY <3>1, <3>2, <3>3
    <3>5. \A i \in Frames : stack'[i].at # "call" =>
            /\ stack'[i].todo # <<>>
            /\ stack'[i].at = "init" => Head(stack'[i].todo) \in OpenOps
      <4> SUFFICES ASSUME NEW i \in Frames, stack'[i].at # "call"
                   PROVE  /\ stack'[i].todo # <<>>
                          /\ stack'[i].at = "init" => Head(stack'[i].todo) \in OpenOps
        OBVIOUS
      <4>1. i # depth + 1 /\ stack'[i] = below[i]
        BY <3>2, <3>4
      <4>2. CASE i = depth
        BY <2>1, <3>3, <4>1, <4>2
      <4>3. CASE i # depth
        BY <3>3, <4>1, <4>3 DEF TypeInv, FrameInOperation
      <4> QED
        BY <4>2, <4>3
    <3>6. FrameInOperation'
      BY <3>5 DEF FrameInOperation
    <3>7. /\ depth' \in 0..MaxDepth
          /\ queue' \in Seq(Posted)
          /\ isSaved' \in BOOLEAN
          /\ sem' \in Nat
      <4>1. Post("addressDeleted") /\ isSaved' = FALSE /\ sem' = sem
        BY <1>25, <2>2 DEF ReturnDeleted, MarkUnsaved
      <4>2. depth' \in 0..MaxDepth
        BY <3>1, BoundsAssumption DEF Frames
      <4>3. queue' \in Seq(Posted)
        BY <4>1, PostType, KindNames
      <4>4. isSaved' \in BOOLEAN /\ sem' \in Nat
        BY <1>3, <4>1
      <4> QED
        BY <4>2, <4>3, <4>4
    <3> HIDE DEF below, getter
    <3> QED
      BY <1>25, <3>4, <3>6, <3>7
         DEF ReturnDeleted, TypeInv, SessionTypeOK, life, view, spent
  <2>3. CASE ~Top.ok
    BY <1>3, <1>7, <1>25, <2>1, <2>3
       DEF ReturnDeleted, TypeInv, SessionTypeOK, life, view, spent
  <2> QED
    BY <2>2, <2>3
<1>26. CASE StartEventLoop
  <2>1. stack' \in [Frames -> Frame] /\ FrameInOperation'
    BY <1>1, <1>5, <1>6, <1>26 DEF StartEventLoop, Points
  <2> QED
    BY <1>26, <2>1 DEF StartEventLoop, TypeInv, SessionTypeOK, core, flags, view, spent
<1>27. CASE EmitOpened
  <2>1. (IF Op = "load" THEN <<"nameChosen">> ELSE Tail(Top.todo)) \in Seq(Ops)
    BY <1>1, <1>6, <1>27, TopTodo, OpNames DEF EmitOpened, Points
  <2>2. stack' \in [Frames -> Frame] /\ FrameInOperation'
    BY <1>1, <1>27, <2>1, FrameUpdates DEF EmitOpened
  <2>3. queue' \in Seq(Posted)
    BY <1>27, PostType, KindNames DEF EmitOpened
  <2> QED
    BY <1>3, <1>27, <2>2, <2>3
       DEF EmitOpened, TypeInv, SessionTypeOK, life, view, spent
<1>28. CASE OpenFailed
  <2>1. <<"discard", "askPassword">> \in Seq(Ops) /\ RestoreName \in Seq(Ops)
    BY OpNames DEF RestoreName
  <2>2. stack' \in [Frames -> Frame] /\ FrameInOperation'
    BY <1>1, <1>28, <2>1, FrameUpdates DEF OpenFailed
  <2>3. queue' \in Seq(Posted)
    BY <1>28, PostType, KindNames DEF OpenFailed, ReportOpenError, TypeInv, SessionTypeOK
  <2> QED
    BY <1>3, <1>28, <2>2, <2>3
       DEF OpenFailed, TypeInv, SessionTypeOK, life, flags, view, spent
<1>29. CASE EndClose
  <2>1. stack' \in [Frames -> Frame] /\ FrameInOperation'
    BY <1>1, <1>6, <1>7, <1>29 DEF EndClose, WorkerGone, Points
  <2> QED
    BY <1>3, <1>29, <2>1
       DEF EndClose, WorkerGone, TellClosed, TypeInv, SessionTypeOK, spent
<1>30. CASE EndDiscard
  <2>1. stack' \in [Frames -> Frame] /\ FrameInOperation'
    BY <1>1, <1>6, <1>7, <1>30 DEF EndDiscard, WorkerGone, Points
  <2>2. queue' \in Seq(Posted)
    BY <1>30, PostType, KindNames DEF EndDiscard, TypeInv, SessionTypeOK
  <2> QED
    BY <1>3, <1>30, <2>1, <2>2
       DEF EndDiscard, WorkerGone, TypeInv, SessionTypeOK, spent
<1> QED
  BY <1>8, <1>9, <1>10, <1>11, <1>12, <1>13, <1>14, <1>15, <1>16, <1>17, <1>18,
     <1>19, <1>20, <1>21, <1>22, <1>23, <1>24, <1>25, <1>26, <1>27, <1>28,
     <1>29, <1>30, <1>r, <1>s DEF Gui

\* A step of the wallet thread keeps the types.
LEMMA TypeWorker ==
    ASSUME TypeInv, Worker \/ \E kind \in AllCoreKinds : ProcessEvent(kind)
    PROVE  TypeInv'
<1>1. CASE InitImpl
  <2>1. queue' \in Seq(Posted)
    BY <1>1, PostType, KindNames DEF InitImpl
  <2>2. stack' \in [Frames -> Frame] /\ FrameInOperation'
    BY <1>1, SameStack DEF InitImpl, gui
  <2> QED
    BY <1>1, <2>1, <2>2 DEF InitImpl, TypeInv, SessionTypeOK, gui, core, flags, view, spent
<1>2. CASE RunTask
  <2>1. task.frame \in Frames
    BY <1>2 DEF RunTask, TypeInv, SessionTypeOK
  <2>2. PICK ok \in BOOLEAN :
          /\ stack' = [stack EXCEPT
                         ![task.frame].ok =
                             Reported(task.op, stack[task.frame].at, ok, @),
                         ![task.frame].exited = @ \/ ExitsLoop(task.op, ok)]
          /\ dirty' \subseteq Causes
    BY <1>2, ChangesCaused DEF RunTask, TypeInv, SessionTypeOK
  <2> DEFINE reported == Reported(task.op, stack[task.frame].at, ok,
                                  stack[task.frame].ok)
  <2>3. ExitsLoop(task.op, ok) \in BOOLEAN /\ reported \in BOOLEAN
    BY <2>1 DEF ExitsLoop, Reported, TypeInv, SessionTypeOK, Frame
  <2>4. /\ stack' \in [Frames -> Frame]
        /\ \A i \in Frames : /\ stack'[i].at = stack[i].at
                             /\ stack'[i].todo = stack[i].todo
    <3> DEFINE t == task.frame
               f == [stack[t] EXCEPT !.ok = reported,
                                     !.exited = @ \/ ExitsLoop(task.op, ok)]
    <3>1. stack[t] \in Frame /\ stack \in [Frames -> Frame]
      BY <2>1 DEF TypeInv, SessionTypeOK
    <3>2. f \in Frame /\ f.at = stack[t].at /\ f.todo = stack[t].todo
      BY <2>3, <3>1 DEF Frame
    <3>3. stack' = [stack EXCEPT ![t] = f]
      BY <2>1, <2>2, <3>1 DEF Frame
    <3> HIDE DEF f
    <3> QED
      BY <2>1, <3>1, <3>2, <3>3
  <2>5. FrameInOperation'
    BY <2>4 DEF TypeInv, FrameInOperation
  <2>6. sem' \in Nat
    BY <1>2 DEF RunTask, GiveToken, TypeInv, SessionTypeOK
  <2>7. /\ task' = NoTask
        /\ UNCHANGED <<depth, queue, life, isOpen, isSaved, view, failed, spent>>
    BY <1>2 DEF RunTask
  <2> QED
    BY <2>2, <2>4, <2>5, <2>6, <2>7
       DEF TypeInv, SessionTypeOK, life, view, spent
<1>3. CASE ExitImpl
  <2>1. queue' \in Seq(Posted)
    BY <1>3, PostType, KindNames DEF ExitImpl
  <2>2. stack' \in [Frames -> Frame] /\ FrameInOperation'
    BY <1>3, SameStack DEF ExitImpl, gui
  <2>3. /\ wallet' \in {"none", "starting", "ready", "exiting", "stopped"}
        /\ pump' \in BOOLEAN
    BY <1>3 DEF ExitImpl
  <2> QED
    BY <1>3, <2>1, <2>2, <2>3 DEF ExitImpl, TypeInv, SessionTypeOK, gui, core, flags, view, spent
<1>4. ASSUME NEW kind \in AllCoreKinds, ProcessEvent(kind)
      PROVE  TypeInv'
  <2>1. \A k \in Kinds : Event(k) \in Posted
    BY DEF Event, Posted, TypeInv, SessionTypeOK
  <2>2. \A S : \A x, y \in S : /\ <<>> \in Seq(S)
                               /\ <<x>> \in Seq(S)
                               /\ <<x, y>> \in Seq(S)
    OBVIOUS
  <2>3. kind \in Kinds /\ "transaction" \in Kinds /\ "balance" \in Kinds
    BY KindNames DEF AllCoreKinds
  <2> DEFINE news == IF ~observed THEN <<>>
                     ELSE IF kind = "transaction"
                       THEN <<Event("transaction"), Event("balance")>>
                       ELSE <<Event(kind)>>
  <2>4. news \in Seq(Posted)
    BY <2>1, <2>2, <2>3
  <2>5. queue' \in Seq(Posted)
    <3>1. queue \in Seq(Posted) /\ queue' = queue \o news
      BY <1>4 DEF ProcessEvent, TypeInv, SessionTypeOK
    <3> HIDE DEF news
    <3> QED BY <2>4, <3>1, ConcatProperties
  <2>6. stack' \in [Frames -> Frame] /\ FrameInOperation'
    BY <1>4, SameStack DEF ProcessEvent, gui
  <2>7. events' \in 0..MaxEvents
    BY <1>4, BoundsAssumption DEF ProcessEvent, TypeInv, SessionTypeOK
  <2>8. dirty' \subseteq Causes
    BY <1>4 DEF ProcessEvent, TypeInv, SessionTypeOK, Causes
  <2> HIDE DEF news
  <2> QED
    BY <1>4, <2>5, <2>6, <2>7, <2>8
       DEF ProcessEvent, TypeInv, SessionTypeOK, gui, core, life, view
<1> QED
  BY <1>1, <1>2, <1>3, <1>4 DEF Worker

\* Every step keeps the types.
LEMMA TypeStep == TypeInv /\ [Next]_vars => TypeInv'
<1> SUFFICES ASSUME TypeInv, [Next]_vars PROVE TypeInv'
  OBVIOUS
<1>1. CASE Environment
  BY <1>1, ChoiceAssumption, TypeUserInput, TypeQuit, TypeWorker DEF Environment
<1>2. CASE Dispatch
  BY <1>2, TypeDispatch
<1>3. CASE Gui
  BY <1>3, TypeGui
<1>4. CASE Worker
  BY <1>4, TypeWorker
<1>7. CASE PrepareToQuit
  <2>1. DeinitCryptoNoteAdapter \in Seq(Ops)
    BY OpNames DEF DeinitCryptoNoteAdapter
  <2>2. /\ stack' \in [Frames -> Frame]
        /\ depth' \in 0..MaxDepth
        /\ FrameInOperation'
    BY <1>7, <2>1, PushType DEF PrepareToQuit
  <2> QED
    BY <1>7, <2>2 DEF PrepareToQuit, TypeInv, SessionTypeOK, core, life, flags, view
<1>5. CASE Abort
  <2>1. failed' \in Failures
    BY <1>5 DEF Abort, CreateWorkerAsserts, OpenAsserts, WorkerAsserts,
                WalletAsserts, WorkerFreed, Failures
  <2>2. stack' \in [Frames -> Frame] /\ FrameInOperation'
    BY <1>5, SameStack DEF Abort, gui
  <2> QED
    BY <1>5, <2>1, <2>2
       DEF Abort, TypeInv, SessionTypeOK, gui, core, life, flags, view, spent
<1>6. CASE UNCHANGED vars
  <2>1. stack' \in [Frames -> Frame] /\ FrameInOperation'
    BY <1>6, SameStack DEF vars, gui
  <2> QED
    BY <1>6, <2>1 DEF vars, TypeInv, SessionTypeOK, gui, core, life, flags, view, spent
<1> QED
  BY <1>1, <1>2, <1>3, <1>4, <1>5, <1>6, <1>7 DEF Next

\* A step keeps the types of the wallet files.
LEMMA FilesTypeStep ==
    ASSUME TypeInv, FilesTypeOK, [Next]_vars
    PROVE  FilesTypeOK'
<1>1. UNCHANGED files => FilesTypeOK'
  BY DEF files, FilesTypeOK
<1>2. \A i : \A f \in FileNames :
        [locals EXCEPT ![i].file = f] \in [Frames -> [file : FileNames, old : FileNames]]
  BY DEF FilesTypeOK
<1>3. CASE Environment
  <2>1. ASSUME NEW a, Pick(a) PROVE FilesTypeOK'
    <3>1. CASE UNCHANGED files
      BY <1>1, <3>1
    <3>2. CASE /\ \E f \in Files : locals' = [locals EXCEPT ![depth + 1].file = f]
               /\ UNCHANGED <<named, chosen, path>>
      <4>1. PICK f \in FileNames : locals' = [locals EXCEPT ![depth + 1].file = f]
        BY <3>2 DEF FileNames
      <4>2. locals' \in [Frames -> [file : FileNames, old : FileNames]]
        BY <1>2, <4>1
      <4> QED
        BY <3>2, <4>2 DEF FilesTypeOK
    <3> QED
      BY <2>1, <3>1, <3>2 DEF Pick
  <2> QED
    BY <1>1, <1>3, <2>1 DEF Environment, UserInput, Quit, ProcessEvent
<1>4. CASE Dispatch
  BY <1>1, <1>4
     DEF Dispatch, Receive, OnWalletOpened, OnWalletOpenError, OnWalletClosed,
         OnPasswordChanged, OnSynchronizationCompleted, OnBalance,
         OnAddressCreated, OnQuietEvent, OnLoadRequest, OnQuit
<1>5. CASE Return
  <2>1. NoLocals \in [file : FileNames, old : FileNames]
    BY DEF NoLocals, FileNames
  <2> QED
    BY <1>5, <2>1 DEF Return, FilesTypeOK
<1>6. CASE PostLoad \/ Restart
  <2>1. Calls({"postLoad", "reopen"}) \/ Calls({"restart"}) => depth \in Frames
    BY TopInFrames DEF Calls, TypeInv, SessionTypeOK
  <2>2. chosen' \in {chosen, named, locals[depth].file}
    BY <1>6 DEF PostLoad, Restart, OpenInForm
  <2> QED
    BY <1>6, <2>1, <2>2 DEF PostLoad, Restart, FilesTypeOK
<1>7. CASE SetWalletFile
  <2>1. depth \in Frames
    BY <1>7, TopInFrames DEF SetWalletFile, Calls, TypeInv, SessionTypeOK
  <2>2. named' \in FileNames
    BY <1>7, <2>1 DEF SetWalletFile, Calls, NamingOps, FilesTypeOK
  <2>3. locals' \in [Frames -> [file : FileNames, old : FileNames]]
    BY <1>7 DEF SetWalletFile, FilesTypeOK
  <2> QED
    BY <1>7, <2>2, <2>3 DEF SetWalletFile, FilesTypeOK
<1>8. CASE RunTask
  <2>1. task.frame \in Frames
    BY <1>8 DEF RunTask, TypeInv, SessionTypeOK
  <2>2. path' \in {path, chosen, locals[task.frame].file}
    BY <1>8 DEF RunTask, FileOf
  <2> QED
    BY <1>8, <2>1, <2>2 DEF RunTask, FilesTypeOK
<1>9. CASE Gui
  BY <1>1, <1>5, <1>6, <1>7, <1>9
     DEF Gui, CheckOpen, AskPassword, BeginOpen, SaveSkipped, Acquire,
         AccessUserData, Detach, BeginClose, EnterLoop, LeaveInit, LeaveLoop,
         LeaveClosedWorker, AwaitToken, ReturnResult, ReturnMutation,
         ReturnDeleted, StartEventLoop, EmitOpened, OpenFailed, EndClose,
         EndDiscard, WorkerGone
<1>10. CASE PrepareToQuit \/ InitImpl \/ ExitImpl \/ Abort \/ UNCHANGED vars
  BY <1>1, <1>10 DEF PrepareToQuit, InitImpl, ExitImpl, Abort, vars
<1> QED
  BY <1>3, <1>4, <1>8, <1>9, <1>10 DEF Next, Worker

\* Type correctness: the semaphore never goes below zero, a list of operations
\* holds operations, a running lambda belongs to a frame of the stack, and
\* Settings name a file or none.
THEOREM TypeCorrect == Spec => []TypeOK
<1>1. Init => FilesTypeOK
  BY DEF Init, FilesTypeOK, FileNames, NoLocals, Frames
<1>2. TypeInv /\ FilesTypeOK => TypeOK
  BY DEF TypeInv, TypeOK
<1> QED
  BY <1>1, <1>2, TypeInit, TypeStep, FilesTypeStep, PTL DEF Spec

-----------------------------------------------------------------------------
(* The token of m_walletSemaphore and the frames it depends on.            *)
(*                                                                         *)
(* TokenHeldOnce is not inductive by itself: that a step gives the token   *)
(* back rests on who may hold it (only the top frame runs outside a loop), *)
(* and that createWorker may start with a new semaphore on nobody holding  *)
(* the old one once the worker is gone.                                    *)

\* Below the top, frames are in a nested loop or in deleteAddress's emission.
CoveredFramesLoop ==
    \A i \in 1..depth : i < depth => stack[i].at \in InLoops \cup {"emit"}

\* A frame on its way into or out of the worker has a worker.
TransitHasWorker ==
    \A i \in 1..depth : stack[i].at \in {"enter", "wait", "locking"} => worker

\* A deleted worker leaves neither a lambda nor a holder behind.
NoWorkerNoToken == ~worker => ~HasTask /\ Holders = {}

\* The frame of a running lambda is on the stack, inside its operation.
TaskFrameOnStack ==
    HasTask => /\ task.frame \in 1..depth
               /\ stack[task.frame].at \in {"enter", "loop", "wait"}

TokenParts ==
    /\ CoveredFramesLoop
    /\ TransitHasWorker
    /\ NoWorkerNoToken
    /\ TaskFrameOnStack
    /\ TokenHeldOnce

TokenInv == TypeInv /\ TokenParts

\* What a step inside the operation of the top frame leaves of the stack.
TopBecomes(point) ==
    /\ depth \in Frames
    /\ stack'[depth].at = point
    /\ \A i \in Frames : i # depth => stack'[i].at = stack[i].at

\* The ways the top frame moves.
LEMMA TopMoves ==
    ASSUME TypeInv, Busy
    PROVE  /\ \A ops : Continue(ops) => TopBecomes("call")
           /\ Finish => TopBecomes("call")
           /\ \A point : Move(point) => TopBecomes(point)
           /\ \A point : EnterWorker(point) => TopBecomes(point)
<1>1. depth \in Frames /\ stack \in [Frames -> Frame] /\ stack[depth] \in Frame
  BY TopInFrames DEF TypeInv, SessionTypeOK, Top
<1>2. \A ops : Continue(ops) => TopBecomes("call")
  BY <1>1 DEF Continue, Idle, TopBecomes
<1>3. \A point : Move(point) => TopBecomes(point)
  BY <1>1 DEF Move, TopBecomes, Frame
<1>4. \A point : EnterWorker(point) => TopBecomes(point)
  BY <1>1 DEF EnterWorker, TopBecomes, Frame
<1> QED
  BY <1>2, <1>3, <1>4 DEF Finish

\* A step that neither takes nor gives the token.
LEMMA TokenKept ==
    ASSUME TokenInv, Busy, UNCHANGED <<depth, sem, task, worker>>,
           NEW point, TopBecomes(point),
           point \in Holding <=> Top.at \in Holding,
           point \in {"enter", "wait", "locking"} => worker,
           HasTask /\ task.frame = depth => point \in {"enter", "loop", "wait"}
    PROVE  TokenParts'
<1>1. \A i \in 1..depth : i \in Frames
  BY BoundsAssumption DEF TokenInv, TypeInv, SessionTypeOK, Frames
<1>2. \A i \in 1..depth : i # depth => stack'[i].at = stack[i].at
  BY <1>1 DEF TopBecomes
<1>3. Holders' = Holders
  BY <1>2 DEF Holders, TopBecomes, Top
<1>4. CoveredFramesLoop'
  BY <1>2 DEF CoveredFramesLoop, TokenInv, TokenParts, TypeInv, SessionTypeOK
<1>5. TransitHasWorker'
  BY <1>2 DEF TransitHasWorker, TokenInv, TokenParts, TopBecomes
<1>6. TaskFrameOnStack'
  BY <1>2 DEF TaskFrameOnStack, TokenInv, TokenParts, TopBecomes, HasTask
<1> QED
  BY <1>3, <1>4, <1>5, <1>6
     DEF TokenInv, TokenParts, NoWorkerNoToken, TokenHeldOnce, HasTask

\* A step that takes the free token for the frame on top.
LEMMA TokenTaken ==
    ASSUME TokenInv, TypeInv', Busy, UNCHANGED <<depth, worker>>, worker,
           sem > 0, sem' = sem - 1,
           NEW point, TopBecomes(point),
           \/ point \in Holding /\ task' = task
           \/ /\ point \in {"enter", "wait"}
              /\ HasTask' /\ task'.frame = depth
    PROVE  TokenParts'
<1>1. sem = 1 /\ sem' = 0 /\ ~HasTask /\ Holders = {}
  BY DEF TokenInv, TokenParts, TokenHeldOnce
<1>2. /\ \A i \in 1..depth : i \in Frames
      /\ depth \in 1..depth
  BY BoundsAssumption DEF TokenInv, TypeInv, SessionTypeOK, Frames, Busy
<1>3. \A i \in 1..depth : i # depth => stack'[i].at = stack[i].at /\ stack[i].at \notin Holding
  BY <1>1, <1>2 DEF TopBecomes, Holders
<1>4. Holders' = IF point \in Holding THEN {depth} ELSE {}
  BY <1>2, <1>3 DEF Holders, TopBecomes
<1>5. CoveredFramesLoop'
  BY <1>3 DEF CoveredFramesLoop, TokenInv, TokenParts, TypeInv, SessionTypeOK
<1>6. TransitHasWorker' /\ NoWorkerNoToken'
  BY DEF TransitHasWorker, NoWorkerNoToken
<1>7. TaskFrameOnStack' /\ TokenHeldOnce'
  <2>1. CASE point \in Holding /\ task' = task
    BY <1>1, <1>4, <2>1 DEF TaskFrameOnStack, TokenHeldOnce, HasTask
  <2>2. CASE point \in {"enter", "wait"} /\ HasTask' /\ task'.frame = depth
    BY <1>1, <1>2, <1>4, <2>2 DEF TaskFrameOnStack, TokenHeldOnce, TopBecomes, Holding
  <2> QED
    BY <2>1, <2>2
<1> QED
  BY <1>5, <1>6, <1>7 DEF TokenParts

\* A step of the holder on top that gives the token back as its operation
\* returns; the worker may be gone by then.
LEMMA TokenGiven ==
    ASSUME TokenInv, TypeInv', Busy, UNCHANGED <<depth, task>>,
           Top.at \in Holding, GiveToken, TopBecomes("call"),
           worker' = worker \/ worker' = FALSE
    PROVE  TokenParts'
<1>1. /\ \A i \in 1..depth : i \in Frames
      /\ depth \in 1..depth
  BY BoundsAssumption DEF TokenInv, TypeInv, SessionTypeOK, Frames, Busy
<1>2. depth \in Holders
  BY <1>1 DEF Holders, Top
<1>3. Holders = {depth} /\ ~HasTask /\ sem' = 1 /\ ~HasTask'
  BY <1>2 DEF TokenInv, TokenParts, TokenHeldOnce, GiveToken, HasTask
<1>4. /\ stack'[depth].at = "call"
      /\ \A i \in 1..depth : i # depth => /\ stack'[i].at = stack[i].at
                                          /\ stack[i].at \notin Holding
  BY <1>1, <1>3 DEF TopBecomes, Holders
<1>5. Holders' = {}
  BY <1>1, <1>4 DEF Holders, Holding
<1>6. \A i \in 1..depth : i < depth => stack[i].at \in InLoops \cup {"emit"}
  BY DEF TokenInv, TokenParts, CoveredFramesLoop
<1>7. CoveredFramesLoop'
  BY <1>4, <1>6, SMTT(30) DEF CoveredFramesLoop, TokenInv, TypeInv, SessionTypeOK
<1>8. TransitHasWorker'
  <2>1. \A i \in 1..depth : stack'[i].at \notin {"enter", "wait", "locking"}
    BY <1>1, <1>4, <1>6, SMTT(30) DEF InLoops, TokenInv, TypeInv, SessionTypeOK
  <2> QED
    BY <2>1 DEF TransitHasWorker
<1> QED
  BY <1>3, <1>5, <1>7, <1>8
     DEF TokenParts, NoWorkerNoToken, TaskFrameOnStack, TokenHeldOnce

\* Pushing a handler touches no token, as long as the frame it covers is in a
\* nested loop or in deleteAddress's emission.
LEMMA TokenPushed ==
    ASSUME TokenInv, TypeInv', UNCHANGED <<sem, task, worker>>,
           depth' = depth \/ (depth' = depth + 1 /\ stack'[depth + 1].at = "call"),
           \A i \in 1..depth : stack'[i].at = stack[i].at,
           Busy => Top.at \in InLoops \cup {"emit"}
    PROVE  TokenParts'
<1>1. depth \in Nat
  BY DEF TokenInv, TypeInv, SessionTypeOK
<1>2. Holders' = Holders
  BY <1>1 DEF Holders, Holding
<1>3. CoveredFramesLoop'
  BY <1>1 DEF CoveredFramesLoop, TokenInv, TokenParts, Busy, Top
<1>4. TransitHasWorker'
  BY <1>1 DEF TransitHasWorker, TokenInv, TokenParts
<1>5. TaskFrameOnStack'
  BY <1>1 DEF TaskFrameOnStack, TokenInv, TokenParts, HasTask
<1> QED
  BY <1>2, <1>3, <1>4, <1>5
     DEF TokenInv, TokenParts, NoWorkerNoToken, TokenHeldOnce, HasTask

\* A step that leaves the GUI's frames at their points, the token, the lambda
\* and the worker alone.
LEMMA TokenUntouched ==
    ASSUME TokenInv, UNCHANGED <<depth, sem, task, worker>>,
           \A i \in 1..depth : stack'[i].at = stack[i].at
    PROVE  TokenParts'
<1>1. Holders' = Holders
  BY DEF Holders
<1>2. CoveredFramesLoop' /\ TransitHasWorker' /\ TaskFrameOnStack'
  BY DEF CoveredFramesLoop, TransitHasWorker, TaskFrameOnStack, TokenInv,
         TokenParts, HasTask
<1> QED
  BY <1>1, <1>2 DEF TokenInv, TokenParts, NoWorkerNoToken, TokenHeldOnce, HasTask

\* Pushing the operations of a handler that starts inside a nested loop.
LEMMA PushShape ==
    ASSUME TypeInv, NEW ops, Push(ops)
    PROVE  /\ depth' = depth \/ (depth' = depth + 1 /\ stack'[depth + 1].at = "call")
           /\ \A i \in 1..depth : stack'[i].at = stack[i].at
<1>1. CASE ops = <<>>
  BY <1>1 DEF Push, gui
<1>2. CASE ops # <<>>
  BY <1>2, BoundsAssumption, SMTT(30) DEF Push, Idle, TypeInv, SessionTypeOK, Frames
<1> QED
  BY <1>1, <1>2

\* User actions and dispatched events keep the token's discipline.
LEMMA TokenUserInput ==
    ASSUME TokenInv, TypeInv', NEW a, UserInput(a)
    PROVE  TokenParts'
BY PushShape, TokenPushed DEF UserInput, Offered, InLoop, core, life, TokenInv

LEMMA TokenDispatch ==
    ASSUME TokenInv, TypeInv', Dispatch
    PROVE  TokenParts'
<1>1. \A kind : Receive(kind) =>
        /\ UNCHANGED <<sem, task, worker>>
        /\ Busy => Top.at \in InLoops \cup {"emit"}
  BY DEF Receive, InLoop, core, life
<1>2. \A kind, ops : Receive(kind) /\ Push(ops) => TokenParts'
  BY <1>1, PushShape, TokenPushed DEF TokenInv
<1>3. \A kind : Receive(kind) /\ UNCHANGED gui => TokenParts'
  BY <1>1, TokenUntouched DEF gui
<1>4. ASSUME NEW kind, NEW point, OnQuit(kind, point)
      PROVE  TokenParts'
  <2>1. \A i \in Frames : stack'[i].at = stack[i].at
    BY <1>4 DEF OnQuit, TokenInv, TypeInv, SessionTypeOK, Frame
  <2>2. \A i \in 1..depth : i \in Frames
    BY BoundsAssumption DEF TokenInv, TypeInv, SessionTypeOK, Frames
  <2> QED
    BY <1>1, <1>4, <2>1, <2>2, TokenUntouched DEF OnQuit
<1>5. CASE OnWalletOpened
  BY <1>2, <1>5 DEF OnWalletOpened
<1>6. CASE OnWalletOpenError \/ OnWalletClosed \/ OnQuietEvent
  BY <1>3, <1>6 DEF OnWalletOpenError, OnWalletClosed, OnQuietEvent
<1>7. CASE OnPasswordChanged \/ OnSynchronizationCompleted \/ OnBalance
  BY <1>2, <1>7 DEF OnPasswordChanged, OnSynchronizationCompleted, OnBalance
<1>8. CASE OnAddressCreated \/ OnLoadRequest
  BY <1>2, <1>8 DEF OnAddressCreated, OnLoadRequest
<1> QED
  BY <1>4, <1>5, <1>6, <1>7, <1>8 DEF Dispatch

\* A step of the handler on top keeps the token's discipline.
LEMMA TokenGui ==
    ASSUME TokenInv, TypeInv', Gui
    PROVE  TokenParts'
<1>1. /\ \A point : At(point) => Busy /\ Top.at = point
      /\ \A ops : Calls(ops) => Busy /\ Top.at = "call" /\ Top.todo # <<>> /\ Op \in ops
  BY DEF At, Calls
<1>2. TypeInv
  BY DEF TokenInv
<1>3. /\ Busy => depth \in 1..depth
      /\ \A i \in 1..depth : i \in Frames
      /\ depth \in Nat
  BY BoundsAssumption DEF TokenInv, TypeInv, SessionTypeOK, Frames, Busy
<1>4. Busy /\ HasTask /\ task.frame = depth => Top.at \in {"enter", "loop", "wait"}
  BY DEF TokenInv, TokenParts, TaskFrameOnStack, Top
<1>5. Busy /\ Top.at \in Holding => worker /\ ~HasTask
  BY <1>3 DEF TokenInv, TokenParts, NoWorkerNoToken, TokenHeldOnce, Holders, Top
<1>6. Busy /\ Top.at \in {"wait", "locking"} => worker
  BY <1>3 DEF TokenInv, TokenParts, TransitHasWorker, Top
<1>7. CASE Return
  <2>1. /\ Busy /\ Top.at = "call" /\ depth' = depth - 1
        /\ UNCHANGED <<sem, task, worker>>
        /\ \A i \in 1..depth' : stack'[i].at = stack[i].at
    BY <1>1, <1>3, <1>7 DEF Return, core, life
  <2>2. Holders' = Holders
    BY <1>3, <2>1 DEF Holders, Top, Holding
  <2>3. CoveredFramesLoop' /\ TransitHasWorker'
    BY <1>3, <2>1 DEF CoveredFramesLoop, TransitHasWorker, TokenInv, TokenParts
  <2>4. TaskFrameOnStack'
    BY <1>3, <1>4, <2>1 DEF TaskFrameOnStack, TokenInv, TokenParts, HasTask
  <2> QED
    BY <2>1, <2>2, <2>3, <2>4
       DEF TokenInv, TokenParts, NoWorkerNoToken, TokenHeldOnce, HasTask
<1>8. CASE \/ CheckOpen \/ PostLoad \/ Restart \/ SetWalletFile \/ AskPassword
         \/ SaveSkipped \/ AccessUserData
  <2>1. /\ Busy /\ Top.at = "call" /\ Finish
        /\ UNCHANGED <<depth, sem, task, worker>>
    BY <1>1, <1>8
       DEF CheckOpen, PostLoad, Restart, SetWalletFile, AskPassword, SaveSkipped,
           AccessUserData, core, life
  <2> QED
    BY <1>2, <1>4, <2>1, TopMoves, TokenKept
<1>9. CASE BeginOpen
  <2>1. /\ Busy /\ ~worker /\ worker' /\ sem' = 0
        /\ UNCHANGED <<depth, task>>
        /\ TopBecomes("init")
    BY <1>1, <1>2, <1>9, TopInFrames DEF BeginOpen, TopBecomes, TypeInv, SessionTypeOK, Frame
  <2>2. ~HasTask /\ Holders = {} /\ ~HasTask'
    BY <2>1 DEF TokenInv, TokenParts, NoWorkerNoToken, HasTask
  <2>3. \A i \in 1..depth : i # depth => /\ stack'[i].at = stack[i].at
                                         /\ stack[i].at \notin Holding
    BY <1>3, <2>1, <2>2 DEF TopBecomes, Holders
  <2>4. Holders' = {depth}
    BY <1>3, <2>1, <2>3 DEF Holders, TopBecomes, Holding
  <2>5. CoveredFramesLoop'
    BY <1>3, <2>1, <2>3 DEF CoveredFramesLoop, TokenInv, TokenParts
  <2>6. TransitHasWorker' /\ NoWorkerNoToken' /\ TaskFrameOnStack' /\ TokenHeldOnce'
    BY <2>1, <2>2, <2>4
       DEF TransitHasWorker, NoWorkerNoToken, TaskFrameOnStack, TokenHeldOnce
  <2> QED
    BY <2>5, <2>6 DEF TokenParts
<1>10. CASE Acquire
  <2>1. /\ Busy /\ worker /\ sem > 0 /\ sem' = sem - 1
        /\ UNCHANGED <<depth, worker>>
        /\ task' = [op |-> Op, frame |-> depth] /\ Op \in TaskOps
        /\ TopBecomes("enter") \/ TopBecomes("wait")
    BY <1>1, <1>2, <1>10, TopMoves DEF Acquire, TakeToken, life
  <2>2. HasTask' /\ task'.frame = depth
    BY <2>1 DEF HasTask, NoTask, TaskOps, SaveOps, BlockOps
  <2> QED
    BY <2>1, <2>2, TokenTaken
<1>11. CASE Detach
  <2>1. /\ Busy /\ Top.at = "call" /\ worker /\ TopBecomes("locking")
        /\ UNCHANGED <<depth, sem, task, worker>>
    BY <1>1, <1>2, <1>11, TopMoves DEF Detach, core
  <2> QED
    BY <1>4, <2>1, TokenKept DEF Holding
<1>12. CASE BeginClose
  <2>1. /\ Busy /\ worker /\ sem > 0 /\ sem' = sem - 1 /\ TopBecomes("deinit")
        /\ UNCHANGED <<depth, task, worker>>
    BY <1>1, <1>2, <1>12, TopMoves DEF BeginClose, LockForClose, TakeToken
  <2> QED
    BY <2>1, TokenTaken DEF Holding
<1>13. CASE EnterLoop
  <2>1. /\ Busy /\ Top.at = "enter" /\ TopBecomes("loop")
        /\ UNCHANGED <<depth, sem, task, worker>>
    BY <1>1, <1>2, <1>13, TopInFrames
       DEF EnterLoop, TopBecomes, TypeInv, SessionTypeOK, Frame, core, life
  <2> QED
    BY <2>1, TokenKept DEF Holding
<1>14. CASE LeaveInit
  <2>1. /\ Busy /\ Top.at = "init" /\ TopBecomes("enter") /\ Op \in OpenOps
        /\ UNCHANGED <<depth, sem, worker>>
        /\ task' = [op |-> Op, frame |-> depth]
    BY <1>1, <1>2, <1>14, TopMoves, TopTodo DEF LeaveInit, life
  <2>2. depth \in Holders /\ worker /\ ~HasTask
    BY <1>3, <1>5, <2>1 DEF Holders, Top, Holding
  <2>3. Holders = {depth} /\ sem = 0
    BY <2>2 DEF TokenInv, TokenParts, TokenHeldOnce
  <2>4. /\ stack'[depth].at = "enter"
        /\ \A i \in 1..depth : i # depth => /\ stack'[i].at = stack[i].at
                                            /\ stack[i].at \notin Holding
    BY <1>3, <2>1, <2>3 DEF TopBecomes, Holders
  <2>5. Holders' = {}
    BY <1>3, <2>1, <2>4 DEF Holders, Holding
  <2>6. HasTask' /\ task'.frame = depth
    BY <2>1 DEF HasTask, NoTask, OpenOps
  <2>7. CoveredFramesLoop'
    BY <1>3, <2>1, <2>4 DEF CoveredFramesLoop, TokenInv, TokenParts
  <2> QED
    BY <1>3, <2>1, <2>2, <2>3, <2>4, <2>5, <2>6, <2>7
       DEF TokenParts, TransitHasWorker, NoWorkerNoToken, TaskFrameOnStack, TokenHeldOnce
<1>15. CASE LeaveLoop
  <2>1. /\ Busy /\ Top.at = "loop" /\ worker /\ TopBecomes("wait")
        /\ UNCHANGED <<depth, sem, task, worker>>
    BY <1>1, <1>2, <1>15, TopMoves DEF LeaveLoop, core, life
  <2> QED
    BY <2>1, TokenKept DEF Holding
<1>16. CASE LeaveClosedWorker
  <2>1. /\ Busy /\ Top.at = "loop" /\ ~worker /\ TopBecomes("call")
        /\ UNCHANGED <<depth, sem, task, worker>>
    BY <1>1, <1>2, <1>16, TopMoves DEF LeaveClosedWorker, core, life
  <2>2. ~HasTask
    BY <2>1 DEF TokenInv, TokenParts, NoWorkerNoToken
  <2> QED
    BY <2>1, <2>2, TokenKept DEF Holding
<1>17. CASE AwaitToken
  <2>1. /\ Busy /\ worker /\ sem > 0 /\ sem' = sem - 1 /\ TopBecomes("held")
        /\ UNCHANGED <<depth, task, worker>>
    BY <1>1, <1>2, <1>6, <1>17, TopMoves DEF AwaitToken, LockerWait, TakeToken, life
  <2> QED
    BY <2>1, TokenTaken DEF Holding
<1>18. ASSUME ReturnResult \/ ReturnMutation \/ (ReturnDeleted /\ ~Top.ok)
              \/ EmitOpened \/ OpenFailed \/ EndClose \/ EndDiscard
       PROVE  TokenParts'
  <2>1. /\ Busy /\ Top.at \in Holding /\ GiveToken
        /\ UNCHANGED <<depth, task>>
        /\ worker' = worker \/ worker' = FALSE
        /\ Finish \/ \E ops : Continue(ops)
    <3>1. CASE ReturnResult
      BY <1>1, <3>1 DEF ReturnResult, Holding, life
    <3>2. CASE ReturnMutation
      BY <1>1, <3>2 DEF ReturnMutation, Holding, life
    <3>3. CASE ReturnDeleted /\ ~Top.ok
      BY <1>1, <3>3 DEF ReturnDeleted, Holding, life
    <3>4. CASE EmitOpened
      <4>1. \E ops : Continue(ops)
        BY <3>4 DEF EmitOpened
      <4> QED
        BY <1>1, <3>4, <4>1 DEF EmitOpened, Holding, life
    <3>5. CASE OpenFailed
      BY <1>1, <3>5 DEF OpenFailed, Holding, life
    <3>6. CASE EndClose \/ EndDiscard
      BY <1>1, <3>6 DEF EndClose, EndDiscard, WorkerGone, Holding
    <3> QED
      BY <1>18, <3>1, <3>2, <3>3, <3>4, <3>5, <3>6
  <2> QED
    BY <1>2, <2>1, TopMoves, TokenGiven
<1>19. CASE ReturnDeleted /\ Top.ok
  <2>1. /\ Busy /\ Top.at = "held" /\ depth' = depth + 1
        /\ UNCHANGED <<sem, task, worker>>
        /\ stack' = [stack EXCEPT ![depth].at = "emit",
                       ![depth + 1] = [Idle EXCEPT !.todo = <<"get">>]]
        /\ depth + 1 \in Frames
    BY <1>1, <1>3, <1>19, BoundsAssumption DEF ReturnDeleted, life, Frames
  <2>2. /\ stack'[depth + 1].at = "call"
        /\ stack'[depth].at = "emit"
        /\ \A i \in 1..depth : i # depth => stack'[i].at = stack[i].at
    <3> DEFINE getter == [Idle EXCEPT !.todo = <<"get">>]
               below  == [stack EXCEPT ![depth].at = "emit"]
    <3>1. /\ stack \in [Frames -> Frame] /\ depth \in Frames
          /\ stack[depth] \in Frame
      BY <1>2, <2>1, TopInFrames DEF TypeInv, SessionTypeOK, Top
    <3>2. below \in [Frames -> Frame] /\ below[depth].at = "emit"
      BY <3>1 DEF Frame, Points
    <3>3. \A i \in Frames : i # depth => below[i] = stack[i]
      BY <3>1
    <3>4. stack' = [below EXCEPT ![depth + 1] = getter]
      BY <2>1
    <3>5. getter.at = "call"
      BY DEF Idle
    <3> HIDE DEF getter, below
    <3>6. stack'[depth + 1] = getter
      BY <2>1, <3>2, <3>4
    <3>7. \A i \in 1..depth : i \in Frames /\ i # depth + 1 /\ stack'[i] = below[i]
      BY <1>3, <2>1, <3>2, <3>4
    <3>8. stack'[depth].at = "emit"
      BY <1>3, <2>1, <3>2, <3>7
    <3>9. \A i \in 1..depth : i # depth => stack'[i].at = stack[i].at
      BY <3>3, <3>7
    <3> QED
      BY <3>5, <3>6, <3>8, <3>9
  <2>3. Holders' = Holders
    <3>1. \A i : i \in 1..depth' <=> i \in 1..depth \/ i = depth + 1
      BY <1>3, <2>1
    <3>2. "call" \notin Holding /\ "emit" \in Holding /\ "held" \in Holding
      BY DEF Holding
    <3> QED
      BY <1>3, <2>1, <2>2, <3>1, <3>2 DEF Holders, Top
  <2>4. ~HasTask /\ worker
    BY <1>5, <2>1 DEF Holding
  <2>5. CoveredFramesLoop'
    <3>1. \A i \in 1..depth' : i < depth' => i \in 1..depth
      BY <1>3, <2>1
    <3>2. \A i \in 1..depth : i # depth => i < depth
      BY <1>3
    <3>3. \A i \in 1..depth : i # depth => stack[i].at \in InLoops \cup {"emit"}
      BY <3>2 DEF CoveredFramesLoop, TokenInv, TokenParts
    <3> QED
      BY <2>2, <3>1, <3>3 DEF CoveredFramesLoop
  <2> QED
    BY <2>1, <2>3, <2>4, <2>5
       DEF TokenInv, TokenParts, TransitHasWorker, NoWorkerNoToken,
           TaskFrameOnStack, TokenHeldOnce, HasTask
<1>20. CASE StartEventLoop
  <2>1. /\ Busy /\ Top.at = "held" /\ TopBecomes("opened")
        /\ UNCHANGED <<depth, sem, task, worker>>
    BY <1>1, <1>2, <1>20, TopMoves DEF StartEventLoop, core
  <2> QED
    BY <1>4, <2>1, TokenKept DEF Holding
<1> QED
  BY <1>7, <1>8, <1>9, <1>10, <1>11, <1>12, <1>13, <1>14, <1>15, <1>16, <1>17,
     <1>18, <1>19, <1>20 DEF Gui

\* Every step keeps the token's discipline.
LEMMA TokenStep == TokenInv /\ [Next]_vars => TokenInv'
<1> SUFFICES ASSUME TokenInv, [Next]_vars PROVE TokenInv'
  OBVIOUS
<1>1. TypeInv'
  BY TypeStep DEF TokenInv
<1> SUFFICES TokenParts'
  BY <1>1 DEF TokenInv
<1>2. UNCHANGED <<gui, core, life>> => TokenParts'
  BY TokenUntouched DEF gui, core, life
<1>3. UNCHANGED <<gui, core, worker>> => TokenParts'
  BY TokenUntouched DEF gui, core
<1>4. CASE Environment
  <2>1. CASE Quit
    <3>1. \A i \in 1..depth : i \in Frames
      BY BoundsAssumption DEF TokenInv, TypeInv, SessionTypeOK, Frames
    <3> QED
      BY <2>1, <3>1, QuitShape, TokenUntouched DEF Quit, core, life, TokenInv
  <2> QED
    BY <1>1, <1>2, <1>4, <2>1, TokenUserInput DEF Environment, ProcessEvent
<1>11. CASE PrepareToQuit
  <2>1. UNCHANGED <<sem, task, worker>> /\ ~Busy /\ Push(DeinitCryptoNoteAdapter)
    BY <1>11 DEF PrepareToQuit, core, life
  <2> QED
    BY <1>1, <2>1, PushShape, TokenPushed DEF TokenInv
<1>5. CASE Dispatch
  BY <1>1, <1>5, TokenDispatch
<1>6. CASE Gui
  BY <1>1, <1>6, TokenGui
<1>7. CASE InitImpl \/ ExitImpl
  BY <1>3, <1>7 DEF InitImpl, ExitImpl
<1>8. CASE RunTask
  <2>1. HasTask /\ ~HasTask' /\ GiveToken /\ UNCHANGED <<depth, worker>>
    BY <1>8 DEF RunTask, HasTask, life
  <2>2. \A i \in Frames : stack'[i].at = stack[i].at
    BY <1>8 DEF RunTask, TokenInv, TypeInv, SessionTypeOK, Frame
  <2>3. \A i \in 1..depth : i \in Frames
    BY BoundsAssumption DEF TokenInv, TypeInv, SessionTypeOK, Frames
  <2>4. Holders = {} /\ Holders' = {} /\ sem' = 1
    BY <2>1, <2>2, <2>3 DEF TokenInv, TokenParts, TokenHeldOnce, Holders, GiveToken
  <2>5. CoveredFramesLoop' /\ TransitHasWorker'
    BY <2>1, <2>2, <2>3 DEF CoveredFramesLoop, TransitHasWorker, TokenInv, TokenParts
  <2> QED
    BY <1>1, <2>1, <2>4, <2>5
       DEF TokenInv, TokenParts, NoWorkerNoToken, TaskFrameOnStack, TokenHeldOnce
<1>9. CASE Abort
  BY <1>2, <1>9 DEF Abort
<1>10. CASE UNCHANGED vars
  BY <1>2, <1>10 DEF vars
<1> QED
  BY <1>1, <1>4, <1>5, <1>6, <1>7, <1>8, <1>9, <1>10, <1>11 DEF Next, Worker

\* At the start nobody holds the token.
LEMMA TokenInit == Init => TokenInv
<1>1. Init => TypeInv
  BY TypeInit
<1>2. Init => 1..depth = {} /\ ~HasTask /\ sem = 1
  BY DEF Init, HasTask
<1>3. Init => TokenParts
  BY <1>2 DEF TokenParts, CoveredFramesLoop, TransitHasWorker, NoWorkerNoToken,
              TaskFrameOnStack, TokenHeldOnce, Holders
<1> QED
  BY <1>1, <1>3 DEF TokenInv

\* The token of m_walletSemaphore is held by one handler or by one lambda of
\* the wallet thread, never by both or by two nested handlers, and is
\* available when nobody holds it, whatever the depth of nested event loops.
THEOREM TokenAlwaysHeldOnce == Spec => []TokenHeldOnce
<1>1. TokenInv => TokenHeldOnce
  BY DEF TokenInv, TokenParts
<1> QED
  BY <1>1, TokenInit, TokenStep, PTL DEF Spec

-----------------------------------------------------------------------------
(* The frame and the wallet a running lambda depends on.  Beyond the token *)
(* discipline this needs to know where the wallet thread can be: a wallet  *)
(* being closed is held by the frame that closes it, so whoever gets the   *)
(* token finds the wallet of its own worker running.                       *)

WalletOfWorker == worker <=> wallet # "none"

\* A wallet that is being closed is closed by a frame that holds the token.
ClosingIsHeld ==
    wallet \in {"exiting", "stopped"} =>
        \E i \in 1..depth : stack[i].at = "deinit"

CaptureParts ==
    /\ WalletOfWorker
    /\ ClosingIsHeld
    /\ CapturedFrameAlive

CaptureInv == TokenInv /\ CaptureParts

\* A step that changes no frame but the top one.
OnlyTop ==
    /\ depth \in Frames
    /\ \A i \in Frames : i # depth => stack'[i] = stack[i]

\* What the top frame becomes, in full.
LEMMA TopSteps ==
    ASSUME TypeInv, Busy
    PROVE  /\ \A ops : Continue(ops) => OnlyTop
           /\ Finish => OnlyTop
           /\ \A point : Move(point) =>
                /\ OnlyTop
                /\ stack'[depth].at = point
                /\ stack'[depth].todo = Top.todo
                /\ stack'[depth].session = Top.session
           /\ \A point : EnterWorker(point) =>
                /\ OnlyTop
                /\ stack'[depth].at = point
                /\ stack'[depth].todo = Top.todo
                /\ stack'[depth].session = session
<1>1. depth \in Frames /\ stack \in [Frames -> Frame] /\ stack[depth] \in Frame
  BY TopInFrames DEF TypeInv, SessionTypeOK, Top
<1>2. \A ops : Continue(ops) => OnlyTop
  BY <1>1 DEF Continue, OnlyTop
<1>3. \A point : Move(point) =>
        /\ OnlyTop
        /\ stack'[depth].at = point
        /\ stack'[depth].todo = Top.todo
        /\ stack'[depth].session = Top.session
  BY <1>1 DEF Move, OnlyTop, Frame, Top
<1>4. \A point : EnterWorker(point) =>
        /\ OnlyTop
        /\ stack'[depth].at = point
        /\ stack'[depth].todo = Top.todo
        /\ stack'[depth].session = session
  BY <1>1 DEF EnterWorker, OnlyTop, Frame, Top
<1> QED
  BY <1>2, <1>3, <1>4 DEF Finish

\* The frames below the top stay where they are.
LEMMA BelowTop ==
    ASSUME CaptureInv, Busy
    PROVE  /\ depth \in Nat /\ depth \in 1..depth
           /\ \A i \in 1..depth : i \in Frames
           /\ \A i \in 1..depth : i # depth => i \in 1..(depth - 1)
BY BoundsAssumption DEF CaptureInv, TokenInv, TypeInv, SessionTypeOK, Frames, Busy

\* While a lambda runs, no wallet is being closed and no init() waits.
LEMMA TaskFacts ==
    ASSUME CaptureInv, HasTask
    PROVE  /\ worker /\ sem = 0 /\ wallet = "ready"
           /\ \A i \in 1..depth : stack[i].at \notin Holding
BY DEF CaptureInv, CaptureParts, CapturedFrameAlive, TokenInv, TokenParts,
       NoWorkerNoToken, TokenHeldOnce, Holders

\* A frame that holds the token is the only one.
LEMMA HolderFacts ==
    ASSUME CaptureInv, Busy, Top.at \in Holding
    PROVE  /\ worker /\ ~HasTask
           /\ \A i \in 1..depth : i # depth => stack[i].at \notin Holding
<1>1. depth \in Holders
  BY BelowTop DEF Holders, Top
<1> QED
  BY <1>1 DEF CaptureInv, TokenInv, TokenParts, NoWorkerNoToken, TokenHeldOnce, Holders

\* A step of the top frame that starts no lambda and neither opens nor closes
\* a worker.
LEMMA CaptureKept ==
    ASSUME CaptureInv, TokenInv', Busy, OnlyTop,
           UNCHANGED <<depth, task, worker, wallet, session>>,
           Top.at # "deinit",
           \/ stack'[depth].todo = Top.todo /\ stack'[depth].session = Top.session
           \/ ~HasTask
           \/ Top.at \notin {"enter", "loop", "wait"}
    PROVE  CaptureParts'
<1>1. WalletOfWorker'
  BY DEF CaptureInv, CaptureParts, WalletOfWorker
<1>2. ClosingIsHeld'
  BY BelowTop DEF CaptureInv, CaptureParts, ClosingIsHeld, OnlyTop, Top
<1>3. CapturedFrameAlive'
  <2> SUFFICES ASSUME HasTask PROVE CapturedFrameAlive'
    BY DEF CapturedFrameAlive, HasTask
  <2>1. HasTask' /\ TaskFrameOnStack'
    BY DEF HasTask, TokenInv, TokenParts
  <2>2. CapturedFrameAlive
    BY DEF CaptureInv, CaptureParts
  <2>3. CASE task.frame = depth
    BY <2>1, <2>2, <2>3 DEF CapturedFrameAlive, TaskFrameOnStack, HasTask, Top
  <2>4. CASE task.frame # depth
    BY <2>2, <2>4, BelowTop DEF CapturedFrameAlive, OnlyTop, HasTask
  <2> QED
    BY <2>3, <2>4
<1> QED
  BY <1>1, <1>2, <1>3 DEF CaptureParts

\* A step that leaves the frames on the stack in their operations, at most
\* with a new one above them, and the lambda and the worker alone.
LEMMA CapturePushed ==
    ASSUME CaptureInv, UNCHANGED <<task, worker, wallet, session>>,
           depth' = depth \/ depth' = depth + 1,
           \A i \in 1..depth : /\ stack'[i].at = stack[i].at
                               /\ stack'[i].todo = stack[i].todo
                               /\ stack'[i].session = stack[i].session
    PROVE  CaptureParts'
<1>1. depth \in Nat
  BY DEF CaptureInv, TokenInv, TypeInv, SessionTypeOK
<1>2. WalletOfWorker' /\ ClosingIsHeld'
  BY <1>1 DEF CaptureInv, CaptureParts, WalletOfWorker, ClosingIsHeld
<1>3. CapturedFrameAlive'
  BY <1>1 DEF CaptureInv, CaptureParts, CapturedFrameAlive, HasTask
<1> QED
  BY <1>2, <1>3 DEF CaptureParts

\* Pushing a handler does so.
LEMMA CaptureShape ==
    ASSUME CaptureInv, NEW ops, Push(ops)
    PROVE  /\ depth' = depth \/ depth' = depth + 1
           /\ \A i \in 1..depth : stack'[i] = stack[i]
BY BoundsAssumption, SMTT(30) DEF Push, gui, Frames, CaptureInv, TokenInv, TypeInv, SessionTypeOK

\* User actions, quit() and dispatched events start no lambda and close no
\* wallet.
LEMMA CaptureUserInput ==
    ASSUME CaptureInv, NEW a, UserInput(a)
    PROVE  CaptureParts'
<1>1. UNCHANGED <<task, worker, wallet, session>> /\ Push(Handler(a))
  BY DEF UserInput, core, life
<1> QED
  BY <1>1, CaptureShape, CapturePushed

LEMMA CaptureQuit ==
    ASSUME CaptureInv, Quit \/ PrepareToQuit
    PROVE  CaptureParts'
<1>1. UNCHANGED <<task, worker, wallet, session>>
  BY DEF Quit, PrepareToQuit, core, life
<1>2. CASE Quit
  <2>1. \A i \in 1..depth : i \in Frames
    BY BoundsAssumption DEF CaptureInv, TokenInv, TypeInv, SessionTypeOK, Frames
  <2> QED
    BY <1>1, <1>2, <2>1, QuitShape, CapturePushed DEF Quit, CaptureInv, TokenInv
<1>3. CASE PrepareToQuit
  BY <1>1, <1>3, CaptureShape, CapturePushed DEF PrepareToQuit
<1> QED
  BY <1>2, <1>3

LEMMA CaptureDispatch ==
    ASSUME CaptureInv, Dispatch
    PROVE  CaptureParts'
<1>1. \A kind : Receive(kind) => UNCHANGED <<task, worker, wallet, session>>
  BY DEF Receive, core, life
<1>2. \A kind, ops : Receive(kind) /\ Push(ops) => CaptureParts'
  BY <1>1, CaptureShape, CapturePushed
<1>3. \A kind : Receive(kind) /\ UNCHANGED gui => CaptureParts'
  BY <1>1, CapturePushed DEF gui
<1>4. ASSUME NEW kind, NEW point, OnQuit(kind, point)
      PROVE  CaptureParts'
  <2>1. \A i \in Frames : /\ stack'[i].at = stack[i].at
                          /\ stack'[i].todo = stack[i].todo
                          /\ stack'[i].session = stack[i].session
    BY <1>4 DEF OnQuit, CaptureInv, TokenInv, TypeInv, SessionTypeOK, Frame
  <2>2. \A i \in 1..depth : i \in Frames
    BY BoundsAssumption DEF CaptureInv, TokenInv, TypeInv, SessionTypeOK, Frames
  <2> QED
    BY <1>1, <1>4, <2>1, <2>2, CapturePushed DEF OnQuit
<1>5. CASE OnWalletOpened
  BY <1>2, <1>5 DEF OnWalletOpened
<1>6. CASE OnWalletOpenError \/ OnWalletClosed \/ OnQuietEvent
  BY <1>3, <1>6 DEF OnWalletOpenError, OnWalletClosed, OnQuietEvent
<1>7. CASE OnPasswordChanged \/ OnSynchronizationCompleted \/ OnBalance
  BY <1>2, <1>7 DEF OnPasswordChanged, OnSynchronizationCompleted, OnBalance
<1>8. CASE OnAddressCreated \/ OnLoadRequest
  BY <1>2, <1>8 DEF OnAddressCreated, OnLoadRequest
<1> QED
  BY <1>4, <1>5, <1>6, <1>7, <1>8 DEF Dispatch

\* Whoever gets the token finds the wallet running.
LEMMA WalletRuns ==
    ASSUME CaptureInv, HasWallet,
           \A i \in 1..depth : stack[i].at # "deinit"
    PROVE  wallet = "ready"
BY DEF CaptureInv, CaptureParts, ClosingIsHeld, HasWallet

\* A step of the handler on top keeps the lambda's frame and wallet.
LEMMA CaptureGui ==
    ASSUME CaptureInv, TokenInv', Gui
    PROVE  CaptureParts'
<1>1. /\ \A point : At(point) => Busy /\ Top.at = point
      /\ \A ops : Calls(ops) => Busy /\ Top.at = "call" /\ Top.todo # <<>> /\ Op \in ops
  BY DEF At, Calls
<1>2. TypeInv /\ TypeInv' /\ TokenInv
  BY DEF CaptureInv, TokenInv
<1>3. Busy => depth \in Frames /\ stack[depth] \in Frame /\ stack \in [Frames -> Frame]
  BY <1>2, TopInFrames DEF TypeInv, SessionTypeOK, Top
<1>4. CASE Return
  <2>1. /\ Busy /\ Top.at = "call" /\ depth' = depth - 1
        /\ UNCHANGED <<task, worker, wallet, session>>
        /\ stack' = [stack EXCEPT ![depth] = Idle]
    BY <1>1, <1>4 DEF Return, core, life
  <2>2. /\ \A i \in 1..depth : i # depth => i \in 1..depth' /\ stack'[i] = stack[i]
        /\ \A i \in 1..depth' : i \in 1..depth /\ i # depth
    BY <1>3, <2>1, BelowTop
  <2>3. WalletOfWorker' /\ ClosingIsHeld'
    BY <2>1, <2>2 DEF CaptureInv, CaptureParts, WalletOfWorker, ClosingIsHeld, Top
  <2>4. CapturedFrameAlive'
    BY <2>1, <2>2 DEF CaptureInv, CaptureParts, CapturedFrameAlive, HasTask, Top
  <2> QED
    BY <2>3, <2>4 DEF CaptureParts
<1>5. CASE \/ CheckOpen \/ PostLoad \/ Restart \/ SetWalletFile \/ AskPassword
         \/ SaveSkipped \/ AccessUserData
  <2>1. /\ Busy /\ Top.at = "call" /\ Finish
        /\ UNCHANGED <<depth, task, worker, wallet, session>>
    BY <1>1, <1>5
       DEF CheckOpen, PostLoad, Restart, SetWalletFile, AskPassword, SaveSkipped,
           AccessUserData, core, life
  <2> QED
    BY <1>2, <2>1, TopSteps, CaptureKept
<1>6. CASE BeginOpen
  <2>1. ~worker /\ worker' /\ wallet' = "starting" /\ UNCHANGED task
    BY <1>6 DEF BeginOpen
  <2>2. ~HasTask'
    BY <2>1 DEF CaptureInv, TokenInv, TokenParts, NoWorkerNoToken, HasTask
  <2> QED
    BY <2>1, <2>2 DEF CaptureParts, WalletOfWorker, ClosingIsHeld, CapturedFrameAlive
<1>7. CASE Acquire
  <2>1. /\ Busy /\ worker /\ HasWallet /\ sem > 0
        /\ UNCHANGED <<depth, worker, wallet, session>>
        /\ task' = [op |-> Op, frame |-> depth]
    BY <1>1, <1>7 DEF Acquire, TakeToken, life
  <2>2. /\ OnlyTop
        /\ stack'[depth].at \in {"enter", "wait"} /\ stack'[depth].todo = Top.todo
        /\ stack'[depth].session = session
        /\ Top.todo # <<>>
    BY <1>1, <1>2, <1>7, <2>1, TopSteps DEF Acquire
  <2>3. wallet = "ready"
    <3>1. \A i \in 1..depth : stack[i].at \notin Holding
      BY <1>2, <2>1 DEF TokenInv, TokenParts, TokenHeldOnce, Holders
    <3> QED
      BY <2>1, <3>1, WalletRuns DEF Holding
  <2> QED
    BY <2>1, <2>2, <2>3, BelowTop
       DEF CaptureParts, WalletOfWorker, ClosingIsHeld, CapturedFrameAlive, Op
<1>8. CASE Detach
  <2>1. /\ Busy /\ Top.at = "call" /\ EnterWorker("locking")
        /\ UNCHANGED <<depth, task, worker, wallet, session>>
    BY <1>1, <1>8 DEF Detach, core
  <2> QED
    BY <1>2, <2>1, TopSteps, CaptureKept
<1>9. CASE BeginClose
  <2>1. /\ Busy /\ worker /\ sem > 0 /\ wallet' = "exiting" /\ EnterWorker("deinit")
        /\ UNCHANGED <<depth, task, worker>>
    BY <1>1, <1>9 DEF BeginClose, LockForClose, TakeToken
  <2>2. ~HasTask' /\ stack'[depth].at = "deinit"
    BY <1>2, <2>1, TopSteps DEF TokenInv, TokenParts, TokenHeldOnce, HasTask
  <2> QED
    BY <2>1, <2>2, BelowTop
       DEF CaptureParts, WalletOfWorker, ClosingIsHeld, CapturedFrameAlive
<1>10. CASE EnterLoop
  <2>1. /\ Busy /\ Top.at = "enter"
        /\ UNCHANGED <<depth, task, worker, wallet, session>>
    BY <1>1, <1>10 DEF EnterLoop, core, life
  <2>2. /\ OnlyTop
        /\ stack'[depth].todo = Top.todo /\ stack'[depth].session = Top.session
    BY <1>3, <1>10, <2>1 DEF EnterLoop, OnlyTop, Frame, Top
  <2> QED
    BY <2>1, <2>2, CaptureKept
<1>11. CASE LeaveInit
  <2>1. /\ Busy /\ Top.at = "init" /\ Top.todo # <<>> /\ HasWallet
        /\ UNCHANGED <<depth, worker, wallet, session>>
        /\ task' = [op |-> Op, frame |-> depth]
    BY <1>1, <1>2, <1>11, TopTodo DEF LeaveInit, life
  <2>2. /\ stack'[depth].at = "enter" /\ stack'[depth].todo = Top.todo
        /\ stack'[depth].session = session
    BY <1>2, <1>11, <2>1, TopSteps DEF LeaveInit
  <2>3. worker /\ \A i \in 1..depth : i # depth => stack[i].at \notin Holding
    BY <2>1, HolderFacts DEF Holding
  <2>4. wallet = "ready"
    BY <2>1, <2>3, WalletRuns DEF Holding, Top
  <2> QED
    BY <2>1, <2>2, <2>3, <2>4, BelowTop
       DEF CaptureParts, WalletOfWorker, ClosingIsHeld, CapturedFrameAlive, Op
<1>12. CASE LeaveLoop
  <2>1. /\ Busy /\ Top.at = "loop" /\ Move("wait")
        /\ UNCHANGED <<depth, task, worker, wallet, session>>
    BY <1>1, <1>12 DEF LeaveLoop, core, life
  <2> QED
    BY <1>2, <2>1, TopSteps, CaptureKept
<1>13. CASE LeaveClosedWorker
  <2>1. /\ Busy /\ Top.at = "loop" /\ ~worker /\ Finish
        /\ UNCHANGED <<depth, task, worker, wallet, session>>
    BY <1>1, <1>13 DEF LeaveClosedWorker, core, life
  <2> QED
    BY <1>2, <2>1, TaskFacts, TopSteps, CaptureKept
<1>14. CASE AwaitToken
  <2>1. /\ Busy /\ Top.at = "wait" /\ Move("held")
        /\ UNCHANGED <<depth, task, worker, wallet, session>>
    BY <1>1, <1>14 DEF AwaitToken, life
  <2> QED
    BY <1>2, <2>1, TopSteps, CaptureKept
<1>15. ASSUME ReturnResult \/ ReturnMutation \/ (ReturnDeleted /\ ~Top.ok)
              \/ EmitOpened \/ OpenFailed
       PROVE  CaptureParts'
  <2>1. /\ Busy /\ Top.at \in {"held", "opened"}
        /\ UNCHANGED <<depth, task, worker, wallet, session>>
        /\ Finish \/ \E ops : Continue(ops)
    <3>1. CASE ReturnResult
      BY <1>1, <3>1 DEF ReturnResult, life
    <3>2. CASE ReturnMutation
      BY <1>1, <3>2 DEF ReturnMutation, life
    <3>3. CASE ReturnDeleted /\ ~Top.ok
      BY <1>1, <3>3 DEF ReturnDeleted, life
    <3>4. CASE EmitOpened
      <4>1. \E ops : Continue(ops)
        BY <3>4 DEF EmitOpened
      <4> QED
        BY <1>1, <3>4, <4>1 DEF EmitOpened, life
    <3>5. CASE OpenFailed
      BY <1>1, <3>5 DEF OpenFailed, life
    <3> QED
      BY <1>15, <3>1, <3>2, <3>3, <3>4, <3>5
  <2> QED
    BY <1>2, <2>1, TopSteps, CaptureKept
<1>16. CASE EndClose \/ EndDiscard
  <2>1. /\ Busy /\ Top.at = "deinit" /\ ~worker' /\ wallet' = "none" /\ UNCHANGED task
    BY <1>1, <1>16 DEF EndClose, EndDiscard, WorkerGone
  <2>2. ~HasTask'
    BY <2>1, HolderFacts DEF Holding, HasTask
  <2> QED
    BY <2>1, <2>2 DEF CaptureParts, WalletOfWorker, ClosingIsHeld, CapturedFrameAlive
<1>17. CASE ReturnDeleted /\ Top.ok
  <2>1. /\ Busy /\ Top.at = "held" /\ depth' = depth + 1 /\ depth + 1 \in Frames
        /\ UNCHANGED <<task, worker, wallet>>
        /\ stack' = [stack EXCEPT ![depth].at = "emit",
                       ![depth + 1] = [Idle EXCEPT !.todo = <<"get">>]]
    BY <1>1, <1>3, <1>17, BoundsAssumption DEF ReturnDeleted, life, Frames
  <2>2. ~HasTask'
    BY <2>1, HolderFacts DEF HasTask, Holding
  <2>3. \A i \in 1..depth : i # depth => i \in 1..depth' /\ stack'[i] = stack[i]
    BY <1>3, <2>1, BelowTop
  <2>4. WalletOfWorker' /\ ClosingIsHeld'
    BY <2>1, <2>3 DEF CaptureInv, CaptureParts, WalletOfWorker, ClosingIsHeld, Top
  <2> QED
    BY <2>2, <2>4 DEF CaptureParts, CapturedFrameAlive
<1>18. CASE StartEventLoop
  <2>1. /\ Busy /\ Top.at = "held" /\ Move("opened")
        /\ UNCHANGED <<depth, task, worker, wallet, session>>
    BY <1>1, <1>18 DEF StartEventLoop, core
  <2> QED
    BY <1>2, <2>1, TopSteps, CaptureKept
<1> QED
  BY <1>4, <1>5, <1>6, <1>7, <1>8, <1>9, <1>10, <1>11, <1>12, <1>13, <1>14, <1>15,
     <1>16, <1>17, <1>18 DEF Gui

\* Every step keeps the lambda's frame and wallet.
LEMMA CaptureStep == CaptureInv /\ [Next]_vars => CaptureInv'
<1> SUFFICES ASSUME CaptureInv, [Next]_vars PROVE CaptureInv'
  OBVIOUS
<1>1. TokenInv'
  BY TokenStep DEF CaptureInv
<1> SUFFICES CaptureParts'
  BY <1>1 DEF CaptureInv
<1>2. UNCHANGED <<gui, core, life>> => CaptureParts'
  BY CapturePushed DEF gui, core, life
<1>3. CASE Environment
  BY <1>2, <1>3, CaptureUserInput, CaptureQuit DEF Environment, ProcessEvent
<1>4. CASE Dispatch
  BY <1>4, CaptureDispatch
<1>5. CASE Gui
  BY <1>1, <1>5, CaptureGui
<1>6. CASE PrepareToQuit
  BY <1>6, CaptureQuit
<1>7. CASE InitImpl \/ ExitImpl
  <2>1. /\ UNCHANGED <<gui, task, worker>>
        /\ \/ wallet = "starting" /\ wallet' = "ready"
           \/ wallet = "exiting" /\ wallet' = "stopped"
    BY <1>7 DEF InitImpl, ExitImpl, core
  <2>2. ~HasTask
    BY <2>1, TaskFacts
  <2> QED
    BY <2>1, <2>2
       DEF gui, CaptureInv, CaptureParts, WalletOfWorker, ClosingIsHeld,
           CapturedFrameAlive, HasTask
<1>8. CASE RunTask
  <2>1. HasTask /\ ~HasTask' /\ UNCHANGED <<depth, worker, wallet>>
    BY <1>8 DEF RunTask, HasTask, life
  <2> QED
    BY <2>1, TaskFacts
       DEF CaptureInv, CaptureParts, WalletOfWorker, ClosingIsHeld, CapturedFrameAlive
<1>9. CASE Abort
  BY <1>2, <1>9 DEF Abort
<1>10. CASE UNCHANGED vars
  BY <1>2, <1>10 DEF vars
<1> QED
  BY <1>3, <1>4, <1>5, <1>6, <1>7, <1>8, <1>9, <1>10 DEF Next, Worker

\* A lambda spawned on the dispatcher never outlives the handler whose locals
\* it captures by reference, nor the wallet object it works on: the frame is
\* on the stack, inside the same operation of the current worker, until the
\* lambda has ended, even when quit() made the handler leave its loop early.
THEOREM LambdaNeverOutlivesFrame == Spec => []CapturedFrameAlive
<1>1. Init => CaptureInv
  BY TokenInit
     DEF Init, CaptureInv, CaptureParts, WalletOfWorker, ClosingIsHeld,
         CapturedFrameAlive, HasTask
<1>2. CaptureInv => CapturedFrameAlive
  BY DEF CaptureInv, CaptureParts
<1> QED
  BY <1>1, <1>2, CaptureStep, PTL DEF Spec
=============================================================================
