------------------------ MODULE ExplorerViews_proofs ------------------------
(***************************************************************************)
(* Proofs about what BlockExplorer's two models show, for every value of   *)
(* its constants: that their rows are what the node has told, whatever     *)
(* news comes while the pool is asked for and however the requests nest.   *)
(***************************************************************************)
EXTENDS BlockExplorer_proofs

-----------------------------------------------------------------------------
(* The explorer is initialised once.                                       *)

\* What the requests that enter a frame enter.
Asked(f, s) == Fresh(f) /\ stack' = <<f>> \o s

LEMMA AskedWhat ==
  ASSUME TypeInv
  PROVE  /\ ExplorerInit => \E f : Asked(f, stack) /\ f.op = "init"
         /\ InitCompleted \/ Paint \/ Preload =>
              \/ stack' = stack
              \/ \E f : Asked(f, stack) /\ f.op \notin {"init", "pool"}
         /\ OnSynchronized /\ ~synced =>
              \E f : Asked(f, stack) /\ f.op = "pool" /\ f.by = "sync"
         /\ ReturnPreload =>
              \/ stack' = Tail(stack)
              \/ \E f : Asked(f, Tail(stack)) /\ f.op = "pool" /\ f.by = "init"
<1>1. /\ 0 \in Heights /\ Waits \subseteq Ops /\ "init" \notin Waits /\ "pool" \notin Waits
      /\ {"pool", "init", "range", "block"} \subseteq Ops
      /\ {"view", "page", "filter", "model", "init", "sync", "adapter"} \subseteq Askers
  BY ExplorerAssumption DEF Ops, Waits, Askers, Heights
<1>2. ASSUME NEW op \in Ops, NEW lo \in Heights, NEW hi \in Heights, NEW by \in Askers,
             NEW s, Enter(s, Frame(op, lo, hi, by))
      PROVE  \E f : Asked(f, s) /\ f.op = op /\ f.by = by
  <2> DEFINE f == Frame(op, lo, hi, by)
  <2>1. Fresh(f) /\ f.op = op /\ f.by = by
    BY EntersFresh
  <2>2. stack' = <<f>> \o s
    BY <1>2 DEF Enter
  <2> HIDE DEF f
  <2> QED
    BY <2>1, <2>2 DEF Asked
<1>3. ASSUME ExplorerInit PROVE \E f : Asked(f, stack) /\ f.op = "init"
  BY <1>1, <1>2, <1>3 DEF ExplorerInit
<1>4. ASSUME InitCompleted PROVE \E f : Asked(f, stack) /\ f.op \notin {"init", "pool"}
  <2> DEFINE lo == IF count < Preloaded THEN 0 ELSE count - Preloaded
  <2>1. count \in Heights /\ lo \in Heights
    BY ExplorerAssumption DEF TypeInv, TypeOK, Heights
  <2>2. Enter(stack, Frame("range", lo, count, "model"))
    BY <1>4 DEF InitCompleted
  <2> HIDE DEF lo
  <2>3. \E f : Asked(f, stack) /\ f.op = "range"
    BY <1>1, <1>2, <2>1, <2>2
  <2> QED
    BY <2>3
<1>5. ASSUME Paint
      PROVE  stack' = stack \/ \E f : Asked(f, stack) /\ f.op \notin {"init", "pool"}
  <2>1. PICK h \in Heights : stack' = stack \/ Enter(stack, Frame("block", h, h, "view"))
    BY <1>5 DEF Paint
  <2>2. ASSUME Enter(stack, Frame("block", h, h, "view"))
        PROVE  \E f : Asked(f, stack) /\ f.op = "block"
    BY <1>1, <1>2, <2>2
  <2> QED
    BY <2>1, <2>2
<1>6. ASSUME Preload PROVE \E f : Asked(f, stack) /\ f.op \notin {"init", "pool"}
  <2>1. PICK op \in Waits, lo \in Heights, hi \in Heights :
          Enter(stack, Frame(op, lo, hi, IF op = "range" THEN "page" ELSE "filter"))
    BY <1>6 DEF Preload
  <2>2. CASE op = "range"
    <3>1. \E f : Asked(f, stack) /\ f.op = op
      BY <1>1, <1>2, <2>1, <2>2
    <3> QED
      BY <1>1, <3>1
  <2>3. CASE op # "range"
    <3>1. \E f : Asked(f, stack) /\ f.op = op
      BY <1>1, <1>2, <2>1, <2>3
    <3> QED
      BY <1>1, <3>1
  <2> QED
    BY <2>2, <2>3
<1>7. ASSUME OnSynchronized, ~synced
      PROVE  \E f : Asked(f, stack) /\ f.op = "pool" /\ f.by = "sync"
  <2>1. Enter(stack, Frame("pool", 0, 0, "sync"))
    BY <1>7 DEF OnSynchronized
  <2> QED
    BY <1>1, <1>2, <2>1
<1>8. ASSUME ReturnPreload
      PROVE  \/ stack' = Tail(stack)
             \/ \E f : Asked(f, Tail(stack)) /\ f.op = "pool" /\ f.by = "init"
  <2>1. stack' = Tail(stack) \/ Enter(Tail(stack), Frame("pool", 0, 0, "init"))
    BY <1>8 DEF ReturnPreload
  <2>2. ASSUME Enter(Tail(stack), Frame("pool", 0, 0, "init"))
        PROVE  \E f : Asked(f, Tail(stack)) /\ f.op = "pool" /\ f.by = "init"
    BY <1>1, <1>2, <2>2
  <2> QED
    BY <2>1, <2>2
<1> QED
  BY <1>3, <1>4, <1>5, <1>6, <1>7, <1>8

IsInit(e) == e.what = "impl" /\ e.op = "init"
NoInits(q) == \A k \in DOMAIN q : ~IsInit(q[k])
OneInit(q) == \A k, l \in DOMAIN q : IsInit(q[k]) /\ IsInit(q[l]) => k = l
Starting(s) == \E k \in DOMAIN s : s[k].op = "init" /\ s[k].at = "start"
NoInitFrame(s) == \A k \in DOMAIN s : s[k].op # "init"
OneInitFrame(s) == \A k, l \in DOMAIN s : s[k].op = "init" /\ s[l].op = "init" => s[k].id = s[l].id

\* init() is entered once, and its Impl is posted once: while it is on its way
\* the explorer is not initialised.
InitOnce ==
  /\ node.life = "new" =>
       ~node.inited /\ NoInitFrame(stack) /\ job.op # "init" /\ NoInits(wq)
  /\ node.inited => ~Starting(stack) /\ job.op # "init" /\ NoInits(wq)
  /\ OneInitFrame(stack)
  /\ Starting(stack) => job.op # "init" /\ NoInits(wq)
  /\ job.op = "init" => NoInits(wq)
  /\ OneInit(wq)

LEMMA TailInits ==
  ASSUME NEW S, NEW q \in Seq(S), q # <<>>
  PROVE  /\ NoInits(q) => NoInits(Tail(q))
         /\ OneInit(q) => OneInit(Tail(q))
         /\ OneInit(q) /\ IsInit(Head(q)) => NoInits(Tail(q))
<1>1. /\ DOMAIN Tail(q) = 1 .. Len(q) - 1 /\ Len(q) \in Nat \ {0}
      /\ DOMAIN q = 1 .. Len(q) /\ Head(q) = q[1] /\ 1 \in DOMAIN q
      /\ \A i \in 1 .. Len(q) - 1 : Tail(q)[i] = q[i + 1] /\ i + 1 \in DOMAIN q
  BY HeadTail
<1>2. /\ \A i \in 1 .. Len(q) - 1 : i + 1 # 1
      /\ \A i, k \in 1 .. Len(q) - 1 : i + 1 = k + 1 => i = k
  BY <1>1
<1>3. NoInits(q) => NoInits(Tail(q))
  BY <1>1 DEF NoInits
<1>4. OneInit(q) => OneInit(Tail(q))
  BY <1>1, <1>2 DEF OneInit
<1>5. OneInit(q) /\ IsInit(Head(q)) => NoInits(Tail(q))
  BY <1>1, <1>2 DEF OneInit, NoInits
<1> QED
  BY <1>3, <1>4, <1>5

LEMMA AppendInits ==
  ASSUME NEW S, NEW q \in Seq(S), NEW e \in S
  PROVE  /\ NoInits(q) => OneInit(Append(q, e))
         /\ ~IsInit(e) /\ NoInits(q) => NoInits(Append(q, e))
         /\ ~IsInit(e) /\ OneInit(q) => OneInit(Append(q, e))
<1> DEFINE a == Append(q, e)
           n == Len(q) + 1
<1>1. /\ Len(q) \in Nat /\ DOMAIN q = 1 .. Len(q) /\ DOMAIN a = 1 .. n
      /\ \A i \in 1 .. Len(q) : a[i] = q[i]
      /\ a[n] = e
  OBVIOUS
<1>2. \A k \in DOMAIN a : (k = n /\ a[k] = e) \/ (k \in DOMAIN q /\ a[k] = q[k])
  BY <1>1
<1> HIDE DEF a, n
<1>3. NoInits(q) => OneInit(a)
  BY <1>2 DEF NoInits, OneInit
<1>4. ~IsInit(e) => (NoInits(q) => NoInits(a)) /\ (OneInit(q) => OneInit(a))
  BY <1>2 DEF NoInits, OneInit
<1> QED
  BY <1>3, <1>4 DEF a

LEMMA JoinInits ==
  ASSUME NEW q \in Seq(Requests \cup Calls), NEW cs \in Seq(Calls)
  PROVE  /\ NoInits(q) => NoInits(q \o cs)
         /\ OneInit(q) => OneInit(q \o cs)
<1>1. cs \in Seq(Requests \cup Calls) /\ \A k \in DOMAIN cs : ~IsInit(cs[k])
  <2>1. \A k \in DOMAIN cs : cs[k] \in Calls
    OBVIOUS
  <2>2. \A e \in Calls : ~IsInit(e)
    BY DEF IsInit, Calls
  <2> QED
    BY <2>1, <2>2
<1> DEFINE u == q \o cs
           n == Len(q)
<1>2. /\ n \in Nat /\ Len(cs) \in Nat
      /\ DOMAIN u = 1 .. n + Len(cs)
      /\ \A i \in 1 .. n : u[i] = q[i]
      /\ \A i \in 1 .. Len(cs) : u[n + i] = cs[i]
  BY <1>1, Joined
<1>3. DOMAIN q = 1 .. n /\ DOMAIN cs = 1 .. Len(cs)
  OBVIOUS
<1> HIDE DEF u, n
<1>4. \A k \in DOMAIN u : IsInit(u[k]) => k \in DOMAIN q /\ u[k] = q[k]
  <2> SUFFICES ASSUME NEW k \in DOMAIN u, k \notin DOMAIN q PROVE ~IsInit(u[k])
    BY <1>2, <1>3
  <2>1. k - n \in 1 .. Len(cs) /\ n + (k - n) = k
    BY <1>2, <1>3
  <2> QED
    BY <1>1, <1>2, <1>3, <2>1
<1> QED
  BY <1>4 DEF NoInits, OneInit, u

-----------------------------------------------------------------------------
(* Which frames of an operation a step leaves.                             *)

\* Every frame of op in t was in s, with the same outcome; of a frame of
\* init, which has none, it matters whether the request is still to be posted.
From(s, t, op) ==
  \A k \in DOMAIN t : t[k].op = op =>
    \E l \in DOMAIN s : /\ s[l].op = op /\ s[l].id = t[k].id
                        /\ IF op = "init" THEN t[k].at = "start" => s[l].at = "start"
                                          ELSE Kept1(s[l], t[k])

LEMMA FromTop ==
  ASSUME NEW s \in Seq(Frames), NEW op
  PROVE  /\ From(s, s, op)
         /\ s # <<>> => /\ From(s, Tail(s), op)
                        /\ s[1].op # "pool" => (Querying(s) <=> Querying(Tail(s)))
         /\ \A f \in Frames : /\ f.op # op => From(s, <<f>> \o s, op)
                              /\ Querying(<<f>> \o s) <=> Querying(s) \/ f.op = "pool"
<1>1. From(s, s, op)
  BY DEF From, Kept1
<1>2. ASSUME s # <<>>
      PROVE  /\ From(s, Tail(s), op)
             /\ s[1].op # "pool" => (Querying(s) <=> Querying(Tail(s)))
  <2>1. \A k \in DOMAIN Tail(s) : \E l \in DOMAIN s : Tail(s)[k] = s[l]
    BY <1>2, TailQueue
  <2>2. /\ DOMAIN Tail(s) = 1 .. Len(s) - 1 /\ Len(s) \in Nat \ {0}
        /\ DOMAIN s = 1 .. Len(s)
        /\ \A i \in 1 .. Len(s) - 1 : Tail(s)[i] = s[i + 1]
    BY <1>2, HeadTail
  <2>3. \A l \in DOMAIN s : l # 1 => l - 1 \in DOMAIN Tail(s) /\ Tail(s)[l - 1] = s[l]
    <3> SUFFICES ASSUME NEW l \in DOMAIN s, l # 1
                 PROVE  l - 1 \in DOMAIN Tail(s) /\ Tail(s)[l - 1] = s[l]
      OBVIOUS
    <3>1. l - 1 \in 1 .. Len(s) - 1 /\ (l - 1) + 1 = l
      BY <2>2
    <3> QED
      BY <2>2, <3>1
  <2> QED
    BY <2>1, <2>3 DEF From, Kept1, Querying
<1>3. ASSUME NEW f \in Frames
      PROVE  /\ f.op # op => From(s, <<f>> \o s, op)
             /\ Querying(<<f>> \o s) <=> Querying(s) \/ f.op = "pool"
  <2> DEFINE t == <<f>> \o s
  <2>1. /\ t[1] = f /\ 1 \in DOMAIN t
        /\ \A k \in DOMAIN s : t[k + 1] = s[k] /\ k + 1 \in DOMAIN t
        /\ \A k \in DOMAIN t : k = 1 \/ (k - 1 \in DOMAIN s /\ t[k] = s[k - 1])
    BY Pushed
  <2> HIDE DEF t
  <2>2. f.op # op => From(s, t, op)
    BY <2>1 DEF From, Kept1
  <2>3. Querying(t) <=> Querying(s) \/ f.op = "pool"
    BY <2>1 DEF Querying
  <2> QED
    BY <2>2, <2>3 DEF t
<1> QED
  BY <1>1, <1>2, <1>3

\* A frame is edited in place, or returns.
LEMMA FromEdit ==
  ASSUME CoreInv, Lock \/ Exec \/ Refused \/ OnInitDone \/ LeaveLoop, NEW op
  PROVE  /\ From(stack, stack', op)
         /\ Querying(stack) <=> Querying(stack')
<1>1. TypeInv /\ stack \in Seq(Frames)
  BY DEF CoreInv, TypeInv, TypeOK
<1>2. ASSUME TopOnly, stack'[1].at # "start" \/ stack[1].op # "init"
      PROVE  From(stack, stack', op) /\ (Querying(stack) <=> Querying(stack'))
  <2>1. /\ DOMAIN stack' = DOMAIN stack
        /\ \A k \in DOMAIN stack : Kept1(stack[k], stack'[k])
        /\ \A k \in DOMAIN stack : stack'[k].op = "init" /\ stack'[k].at = "start" =>
             stack[k].at = "start"
    BY <1>2 DEF TopOnly, Kept1
  <2> QED
    BY <2>1 DEF From, Querying, Kept1
<1>3. CASE Lock
  <2>1. TopOnly /\ stack[1].at = "lock"
    BY <1>1, <1>3, LockDoes
  <2>2. stack[1].op # "init"
    BY <2>1 DEF CoreInv, Shape, FrameOK, TopOnly
  <2> QED
    BY <1>2, <2>1, <2>2
<1>4. CASE Exec
  BY <1>1, <1>2, <1>4, ExecDoes
<1>5. CASE OnInitDone
  <2>1. /\ DOMAIN stack' = DOMAIN stack
        /\ \A k \in DOMAIN stack : Kept1(stack[k], stack'[k]) /\ stack'[k].at = stack[k].at
    BY <1>1, <1>5, InitDoneDoes
  <2> QED
    BY <2>1 DEF From, Querying, Kept1
<1>6. CASE LeaveLoop
  <2>1. CASE Top.op = "init"
    <3>1. stack' = Tail(stack) /\ stack # <<>> /\ stack[1].op # "pool"
      BY <1>1, <1>6, <2>1, LeaveDoes
    <3> QED
      BY <1>1, <3>1, FromTop
  <2>2. CASE Top.op # "init"
    BY <1>1, <1>2, <1>6, <2>2, LeaveDoes
  <2> QED
    BY <2>1, <2>2
<1>7. CASE Refused
  BY <1>1, <1>2, <1>7, RefusedDoes
<1> QED
  BY <1>3, <1>4, <1>5, <1>6, <1>7

LEMMA InitFrames ==
  ASSUME CoreInv, [Next]_vars
  PROVE  ExplorerInit \/ From(stack, stack', "init")
<1> DEFINE F == From(stack, stack', "init")
<1>1. TypeInv /\ stack \in Seq(Frames)
  BY DEF CoreInv, TypeInv, TypeOK
<1>2. ASSUME stack' = stack PROVE F
  BY <1>1, <1>2, FromTop
<1>3. ASSUME stack' = Tail(stack), stack # <<>> PROVE F
  BY <1>1, <1>3, FromTop
<1>4. ASSUME NEW f, Asked(f, stack), f.op # "init" PROVE F
  BY <1>1, <1>4, FromTop DEF Asked, Fresh
<1>5. ASSUME NEW f, Asked(f, Tail(stack)), stack # <<>>, f.op # "init" PROVE F
  <2>1. Tail(stack) \in Seq(Frames) /\ f \in Frames
    BY <1>1, <1>5, HeadTail DEF Asked, Fresh
  <2>2. From(stack, Tail(stack), "init")
    BY <1>1, <1>5, FromTop
  <2>3. From(Tail(stack), stack', "init")
    BY <1>5, <2>1, FromTop DEF Asked
  <2> QED
    BY <2>2, <2>3 DEF From, Kept1
<1> SUFFICES ASSUME ~ExplorerInit PROVE F
  BY DEF F
<1> HIDE DEF F
<1>6. CASE UNCHANGED vars
  BY <1>2, <1>6 DEF vars
<1>7. CASE Gui
  <2>1. CASE Lock \/ Exec \/ Refused \/ LeaveLoop \/ OnInitDone
    BY <2>1, FromEdit DEF F
  <2>2. CASE ReturnBlock \/ ReturnPool
    BY <1>3, <2>2 DEF ReturnBlock, ReturnPool, TokenBack, Waiting
  <2>3. CASE ReturnPreload
    <3>1. stack # <<>>
      BY <2>3 DEF ReturnPreload, TokenBack, Waiting
    <3> QED
      BY <1>1, <1>3, <1>5, <2>3, <3>1, AskedWhat
  <2>4. CASE PutDown \/ OnTop \/ OnPoolUpdated \/ LastShutdown
    BY <1>2, <2>4 DEF PutDown, OnTop, OnPoolUpdated, LastShutdown
  <2>5. CASE OnSynchronized
    <3>1. CASE synced
      BY <1>2, <2>5, <3>1 DEF OnSynchronized
    <3>2. CASE ~synced
      BY <1>1, <1>4, <2>5, <3>2, AskedWhat
    <3> QED
      BY <3>1, <3>2
  <2> QED
    BY <1>7, <2>1, <2>2, <2>3, <2>4, <2>5 DEF Gui
<1>8. CASE Worker
  <2>1. CASE Deliver
    <3>1. /\ DOMAIN stack' = DOMAIN stack
          /\ \A k \in DOMAIN stack :
               /\ stack'[k].id = stack[k].id /\ stack'[k].op = stack[k].op
               /\ stack'[k].by = stack[k].by /\ stack'[k].at = stack[k].at
               /\ stack[k].id # Head(wq).to => stack'[k] = stack[k]
      BY <1>1, <2>1, DeliverDoes
    <3> QED
      BY <3>1 DEF From, F
  <2>2. CASE ~Deliver
    BY <1>2, <1>8, <2>2 DEF Worker, TakeJob, FailPreload, LoadBlocks, FindByTime,
         GetPoolState, InitImpl
  <2> QED
    BY <2>1, <2>2
<1>9. CASE User
  <2>1. CASE InitCompleted \/ Paint \/ Preload
    BY <1>1, <1>2, <1>4, <2>1, AskedWhat
  <2>2. CASE ExplorerDeinit \/ InitCompletedWithout
    BY <1>2, <2>2 DEF ExplorerDeinit, InitCompletedWithout
  <2>3. CASE Quit
    <3>1. /\ DOMAIN stack' = DOMAIN stack
          /\ \A k \in DOMAIN stack : /\ stack'[k].id = stack[k].id
                                     /\ stack'[k].op = stack[k].op
                                     /\ stack'[k].at = stack[k].at
      BY <1>1, <2>3, QuitDoes
    <3> QED
      BY <3>1 DEF From, F
  <2> QED
    BY <1>9, <2>1, <2>2, <2>3 DEF User, F
<1>10. CASE Node
  BY <1>2, <1>10 DEF Node, NewTop, PoolChanges, Synchronized, NodeRest
<1> QED
  BY <1>6, <1>7, <1>8, <1>9, <1>10 DEF Next, F

-----------------------------------------------------------------------------
(* The steps that do not start the explorer.                               *)

LEMMA InitCalm ==
  ASSUME InitOnce, From(stack, stack', "init"),
         node'.life = "new" => node.life = "new",
         node'.inited => node.inited, job'.op = "init" => job.op = "init",
         NoInits(wq) => NoInits(wq'), OneInit(wq) => OneInit(wq')
  PROVE  InitOnce'
<1>1. /\ NoInitFrame(stack) => NoInitFrame(stack')
      /\ OneInitFrame(stack) => OneInitFrame(stack')
      /\ Starting(stack') => Starting(stack)
  BY DEF From, NoInitFrame, OneInitFrame, Starting
<1> QED
  BY <1>1 DEF InitOnce

LEMMA InitTake ==
  ASSUME CoreInv, InitOnce, TakeJob
  PROVE  InitOnce'
<1>1. /\ wq \in Seq(Requests \cup Calls) /\ wq # <<>> /\ job.op = "none"
      /\ wq' = Tail(wq) /\ UNCHANGED <<stack, node>> /\ stack \in Seq(Frames)
      /\ Head(wq).what = "impl" /\ job'.op = Head(wq).op
  BY DEF TakeJob, Idle, NoJob, gui, CoreInv, TypeInv, TypeOK
<1>2. Head(wq) = wq[1] /\ 1 \in DOMAIN wq
  BY <1>1, HeadTail
<1>3. /\ NoInits(wq) => NoInits(wq')
      /\ OneInit(wq) => OneInit(wq')
      /\ IsInit(Head(wq)) /\ OneInit(wq) => NoInits(wq')
  BY <1>1, TailInits
<1>4. CASE IsInit(Head(wq))
  <2>1. ~NoInits(wq)
    BY <1>2, <1>4 DEF NoInits
  <2> QED
    BY <1>1, <1>3, <1>4, <2>1 DEF InitOnce
<1>5. CASE ~IsInit(Head(wq))
  BY <1>1, <1>3, <1>5, InitCalm, FromTop DEF IsInit
<1> QED
  BY <1>4, <1>5

LEMMA InitExec ==
  ASSUME CoreInv, InitOnce, Exec
  PROVE  InitOnce'
<1>1. /\ TypeInv /\ wq \in Seq(Requests \cup Calls)
      /\ UNCHANGED <<node, job>> /\ From(stack, stack', "init")
  BY FromEdit DEF Exec, gui, CoreInv, TypeInv, TypeOK
<1>2. TopOnly /\ stack[1].at = "start" /\ stack'[1].at = "loop"
  BY <1>1, ExecDoes
<1>3. CASE stack[1].op = "init"
  <2>1. Starting(stack) /\ ~NoInitFrame(stack)
    BY <1>2, <1>3 DEF Starting, NoInitFrame, TopOnly
  <2>2. node.life # "new" /\ ~node.inited /\ job.op # "init" /\ NoInits(wq)
    BY <2>1 DEF InitOnce
  <2>3. wq' = Append(wq, Request(Top)) /\ Request(Top) \in Requests \cup Calls
    BY <1>1, <1>2, <1>3, RequestTyped DEF Exec, TopOnly, TypeInv, TypeOK
  <2>4. OneInit(wq')
    BY <1>1, <2>2, <2>3, AppendInits
  <2>5. OneInitFrame(stack) /\ SameIds
    BY UniqueIds DEF InitOnce
  <2>6. OneInitFrame(stack') /\ ~Starting(stack')
    BY <1>2, <1>3, <2>5 DEF TopOnly, Kept1, OneInitFrame, Starting, SameIds
  <2> QED
    BY <1>1, <2>2, <2>4, <2>6 DEF InitOnce
<1>4. CASE stack[1].op # "init"
  <2>1. wq' = wq
    BY <1>2, <1>4 DEF Exec, TopOnly
  <2> QED
    BY <1>1, <2>1, InitCalm
<1> QED
  BY <1>3, <1>4

LEMMA InitImplOnce ==
  ASSUME CoreInv, InitOnce, InitImpl
  PROVE  InitOnce' /\ ~node.inited /\ node.life # "new"
<1>1. /\ job.op = "init" /\ job'.op = "none" /\ UNCHANGED <<stack, wq>>
      /\ node'.life = node.life
  BY DEF InitImpl, NoJob, CoreInv, TypeInv, TypeOK
<1> QED
  BY <1>1 DEF InitOnce

LEMMA InitEnter ==
  ASSUME CoreInv, InitOnce, ExplorerInit
  PROVE  InitOnce'
<1>1. PICK f : Asked(f, stack) /\ f.op = "init"
  BY AskedWhat DEF CoreInv
<1>2. /\ node.life = "new" /\ node'.life = "up" /\ node'.inited = node.inited
      /\ UNCHANGED <<wq, job>>
  BY DEF ExplorerInit, CoreInv, TypeInv, TypeOK
<1>3. \A k \in DOMAIN stack' : k = 1 \/ stack'[k].op # "init"
  <2>1. \A k \in DOMAIN stack' : k = 1 \/ (k - 1 \in DOMAIN stack /\ stack'[k] = stack[k - 1])
    BY <1>1, Pushed DEF Asked, Fresh, CoreInv, TypeInv, TypeOK
  <2> QED
    BY <1>2, <2>1 DEF InitOnce, NoInitFrame
<1>4. OneInitFrame(stack')
  BY <1>3 DEF OneInitFrame
<1> QED
  BY <1>2, <1>4 DEF InitOnce

LEMMA InitStep ==
  ASSUME CoreInv, InitOnce, [Next]_vars
  PROVE  InitOnce'
<1> DEFINE S == From(stack, stack', "init")
           N == node'.life = "new" => node.life = "new"
           I == node'.inited => node.inited
           Q == /\ job'.op = "init" => job.op = "init"
                /\ NoInits(wq) => NoInits(wq')
                /\ OneInit(wq) => OneInit(wq')
<1> SUFFICES ASSUME ~(TakeJob \/ Exec \/ InitImpl \/ ExplorerInit) PROVE InitOnce'
  BY InitTake, InitExec, InitImplOnce, InitEnter
<1>1. /\ TypeInv /\ wq \in Seq(Requests \cup Calls) /\ stack \in Seq(Frames)
      /\ node \in [top: Heights, pool: SUBSET Txs, synced: BOOLEAN,
                   inited: BOOLEAN, life: {"new", "up", "down", "none"}]
  BY DEF CoreInv, TypeInv, TypeOK
<1>2. S
  BY InitFrames
<1>3. ASSUME UNCHANGED <<wq, job>> PROVE Q
  BY <1>3
<1>4. ASSUME UNCHANGED node PROVE N /\ I
  BY <1>4
<1>5. ASSUME N, I, Q PROVE InitOnce'
  BY <1>2, <1>5, InitCalm
<1> HIDE DEF S, N, I, Q
<1>6. CASE UNCHANGED vars
  BY <1>3, <1>4, <1>5, <1>6 DEF vars
<1>7. CASE Gui
  <2>1. CASE Lock
    <3>1. wq' = Append(wq, Request(Top)) /\ job' = job /\ node' = node
      BY <2>1 DEF Lock, gui
    <3>2. TopOnly /\ stack[1].at = "lock"
      BY <1>1, <2>1, LockDoes
    <3>3. /\ Request(Top) \in Requests \cup Calls /\ ~IsInit(Request(Top))
      BY <1>1, <3>2, RequestTyped DEF TopOnly, IsInit, CoreInv, Shape, FrameOK
    <3>4. Q
      BY <1>1, <3>1, <3>3, AppendInits DEF Q
    <3> QED
      BY <1>4, <1>5, <3>1, <3>4
  <2>2. CASE Gui /\ ~Lock
    <3>1. UNCHANGED <<wq, job, node>>
      BY <2>2 DEF Gui, Refused, LeaveLoop, ReturnBlock, ReturnPreload, ReturnPool,
           PutDown, OnInitDone, OnTop, OnPoolUpdated, OnSynchronized, LastShutdown, gui
    <3> QED
      BY <1>3, <1>4, <1>5, <3>1
  <2> QED
    BY <1>7, <2>1, <2>2
<1>8. CASE Worker
  <2>1. CASE Enders
    <3>1. node' = node
      BY <2>1 DEF Enders, FailPreload, LoadBlocks, FindByTime, GetPoolState, gui
    <3>2. PICK cs, got : Ends(cs, got)
      BY <1>1, <2>1, EndKinds
    <3>3. cs \in Seq(Calls) /\ wq' = wq \o cs /\ job'.op # "init"
      BY <3>2 DEF Ends, NoJob
    <3>4. Q
      BY <1>1, <3>3, JoinInits DEF Q
    <3> QED
      BY <1>4, <1>5, <3>1, <3>4
  <2>2. CASE Deliver
    <3>1. wq # <<>> /\ wq' = Tail(wq) /\ UNCHANGED <<job, node>>
      BY <2>2 DEF Deliver, Idle, gui
    <3>2. Q
      BY <1>1, <3>1, TailInits DEF Q
    <3> QED
      BY <1>4, <1>5, <3>1, <3>2
  <2> QED
    BY <1>8, <2>1, <2>2 DEF Worker, Enders
<1>9. CASE User
  <2>1. CASE ExplorerDeinit \/ InitCompletedWithout
    <3>1. N /\ I /\ UNCHANGED <<wq, job>>
      BY <1>1, <2>1 DEF ExplorerDeinit, InitCompletedWithout, N, I
    <3> QED
      BY <1>3, <1>5, <3>1
  <2>2. CASE User /\ ~(ExplorerDeinit \/ InitCompletedWithout)
    <3>1. UNCHANGED <<wq, job, node>>
      BY <2>2 DEF User, InitCompleted, Paint, Preload, Quit, Rest
    <3> QED
      BY <1>3, <1>4, <1>5, <3>1
  <2> QED
    BY <1>9, <2>1, <2>2
<1>10. CASE Node
  <2>1. N /\ I /\ UNCHANGED <<wq, job>>
    BY <1>1, <1>10 DEF Node, NewTop, PoolChanges, Synchronized, NodeRest, N, I
  <2> QED
    BY <1>3, <1>5, <2>1
<1> QED
  BY <1>6, <1>7, <1>8, <1>9, <1>10 DEF Next

-----------------------------------------------------------------------------
(* The rows.                                                               *)

EventTyped(e) == e.what = "pool" => e.add \in Seq(Txs) /\ e.del \in SUBSET Txs

LEMMA HeadEvent ==
  ASSUME TypeInv, guiq # <<>>
  PROVE  /\ Head(guiq) = guiq[1] /\ 1 \in DOMAIN guiq /\ EventTyped(Head(guiq))
         /\ Head(guiq).what = "top" => Head(guiq).top \in Heights
<1>1. guiq \in Seq(Events)
  BY DEF TypeInv, TypeOK
<1>2. Head(guiq) \in Events /\ Head(guiq) = guiq[1] /\ 1 \in DOMAIN guiq
  BY <1>1, HeadTail
<1> QED
  BY <1>2 DEF Events, EventTyped

\* What poolUpdated makes of the rows and of the map.
LEMMA PoolNews ==
  ASSUME TypeInv, OnPoolUpdated
  PROVE  LET e == Head(guiq)
         IN  /\ ToSet(rows') = (ToSet(rows) \cup (ToSet(e.add) \ shown)) \ e.del
             /\ shown' = (shown \cup ToSet(e.add)) \ e.del
             /\ IsInjective(rows) /\ IsInjective(e.add) /\ ToSet(rows) = shown
                  => IsInjective(rows')
<1> DEFINE e == Head(guiq)
           new == Kept(e.add, Txs \ shown)
           all == Reverse(new) \o rows
<1>1. /\ e.add \in Seq(Txs) /\ e.del \in SUBSET Txs /\ rows \in Seq(Txs)
      /\ shown \in SUBSET Txs
  BY HeadEvent DEF OnPoolUpdated, Event, EventTyped, TypeInv, TypeOK
<1>2. /\ rows' = Kept(all, Txs \ e.del)
      /\ shown' = (shown \cup ToSet(new)) \ e.del
  BY DEF OnPoolUpdated
<1>3. /\ new \in Seq(Txs) /\ ToSet(new) = ToSet(e.add) \cap (Txs \ shown)
      /\ IsInjective(e.add) => IsInjective(new)
  BY <1>1, KeptTyped
<1>4. ToSet(e.add) \subseteq Txs /\ ToSet(rows) \subseteq Txs
  BY <1>1 DEF ToSet
<1> HIDE DEF new, e
<1>5. /\ Reverse(new) \in Seq(Txs) /\ ToSet(Reverse(new)) = ToSet(new)
      /\ IsInjective(new) => IsInjective(Reverse(new))
  BY <1>3, Reversed
<1>6. /\ all \in Seq(Txs) /\ ToSet(all) = ToSet(new) \cup ToSet(rows)
      /\ IsInjective(new) /\ IsInjective(rows) /\ ToSet(new) \cap ToSet(rows) = {}
           => IsInjective(all)
  BY <1>1, <1>5, Joined, JoinedSet
<1> HIDE DEF all
<1>7. /\ ToSet(rows') = ToSet(all) \cap (Txs \ e.del)
      /\ IsInjective(all) => IsInjective(rows')
  BY <1>2, <1>6, KeptTyped
<1>8. ToSet(new) = ToSet(e.add) \ shown
  BY <1>3, <1>4
<1>9. ToSet(rows') = (ToSet(rows) \cup (ToSet(e.add) \ shown)) \ e.del
  BY <1>4, <1>6, <1>7, <1>8
<1>10. shown' = (shown \cup ToSet(e.add)) \ e.del
  BY <1>2, <1>8
<1>11. IsInjective(rows) /\ IsInjective(e.add) /\ ToSet(rows) = shown => IsInjective(rows')
  BY <1>3, <1>6, <1>7, <1>8
<1> QED
  BY <1>9, <1>10, <1>11 DEF e

\* What the answer to a pool query makes of them.
LEMMA PoolAnswer ==
  ASSUME TypeInv, NEW g \in Seq(Txs), NEW old \in {<<>>, rows}, rows' = Reverse(g) \o old
  PROVE  /\ ToSet(rows') = ToSet(g) \cup ToSet(old)
         /\ old = <<>> => rows' = Reverse(g)
<1>1. old \in Seq(Txs)
  <2>1. rows \in Seq(Txs) /\ <<>> \in Seq(Txs)
    BY DEF TypeInv, TypeOK
  <2> QED
    BY <2>1
<1>2. Reverse(g) \in Seq(Txs) /\ ToSet(Reverse(g)) = ToSet(g)
  BY Reversed
<1>3. ToSet(rows') = ToSet(g) \cup ToSet(old)
  BY <1>1, <1>2, JoinedSet
<1>4. old = <<>> => rows' = Reverse(g)
  BY <1>2
<1> QED
  BY <1>3, <1>4

LEMMA RowsStep ==
  ASSUME CoreInv, RowsHaveData, RowsCoverChain, [Next]_vars
  PROVE  RowsHaveData' /\ RowsCoverChain'
<1>1. /\ TypeInv /\ stack \in Seq(Frames)
      /\ count \in Heights /\ last \in 0 .. Invalid
  BY DEF CoreInv, TypeInv, TypeOK
<1>2. ASSUME UNCHANGED <<rows, shown>> PROVE RowsHaveData'
  BY <1>2 DEF RowsHaveData
<1>3. ASSUME UNCHANGED <<count, last>> PROVE RowsCoverChain'
  BY <1>3 DEF RowsCoverChain
<1>4. CASE UNCHANGED vars
  BY <1>2, <1>3, <1>4 DEF vars
<1>5. CASE Gui
  <2>1. CASE OnPoolUpdated
    <3>1. RowsHaveData'
      BY <1>1, <2>1, PoolNews DEF RowsHaveData
    <3> QED
      BY <1>3, <2>1, <3>1 DEF OnPoolUpdated
  <2>2. CASE ReturnPool
    <3>1. Top.got \in Seq(Txs)
      <4>1. stack # <<>>
        BY <2>2 DEF ReturnPool, TokenBack, Waiting
      <4>2. Top \in Frames
        BY <1>1, <4>1, HeadTail DEF Top
      <4> QED
        BY <4>2 DEF Frames
    <3>2. RowsHaveData'
      <4>1. CASE Top.status = "ok" /\ Top.by = "sync"
        <5>1. ToSet(rows') = ToSet(Top.got) \cup ToSet(<<>>)
          BY <1>1, <2>2, <3>1, <4>1, PoolAnswer DEF ReturnPool
        <5>2. ToSet(<<>>) = {}
          BY DEF ToSet
        <5> QED
          BY <2>2, <4>1, <5>1, <5>2 DEF ReturnPool, RowsHaveData
      <4>2. CASE Top.status = "ok" /\ Top.by # "sync"
        <5>1. ToSet(rows') = ToSet(Top.got) \cup ToSet(rows)
          BY <1>1, <2>2, <3>1, <4>2, PoolAnswer DEF ReturnPool
        <5> QED
          BY <2>2, <4>2, <5>1 DEF ReturnPool, RowsHaveData
      <4>3. CASE Top.status # "ok"
        BY <1>2, <2>2, <4>3 DEF ReturnPool
      <4> QED
        BY <4>1, <4>2, <4>3
    <3> QED
      BY <1>3, <2>2, <3>2 DEF ReturnPool
  <2>3. CASE ReturnPreload
    <3>1. ToSet(<<>>) = {}
      BY DEF ToSet
    <3>2. RowsHaveData'
      BY <2>3, <3>1 DEF ReturnPreload, RowsHaveData
    <3> QED
      BY <1>3, <2>3, <3>2 DEF ReturnPreload
  <2>4. CASE OnTop
    <3>1. Head(guiq).top \in Heights
      BY <1>1, <2>4, HeadEvent DEF OnTop, Event
    <3>2. RowsCoverChain'
      BY <1>1, <2>4, <3>1, ExplorerAssumption DEF OnTop, RowsCoverChain, Heights, Invalid
    <3> QED
      BY <1>2, <2>4, <3>2 DEF OnTop
  <2>5. CASE \/ Lock \/ Exec \/ Refused \/ LeaveLoop \/ ReturnBlock \/ PutDown
             \/ OnInitDone \/ OnSynchronized \/ LastShutdown
    BY <1>2, <1>3, <2>5 DEF Lock, Exec, Refused, LeaveLoop, ReturnBlock, PutDown,
       OnInitDone, OnSynchronized, LastShutdown, gui
  <2> QED
    BY <1>5, <2>1, <2>2, <2>3, <2>4, <2>5 DEF Gui
<1>6. CASE Worker
  BY <1>2, <1>3, <1>6 DEF Worker, TakeJob, FailPreload, LoadBlocks, FindByTime,
     GetPoolState, InitImpl, Deliver, gui
<1>7. CASE User
  <2>1. CASE InitCompleted
    <3>1. RowsCoverChain'
      BY <1>1, <2>1 DEF InitCompleted, Rest, RowsCoverChain, Heights
    <3> QED
      BY <1>2, <2>1, <3>1 DEF InitCompleted, Rest
  <2>2. CASE InitCompletedWithout
    <3>1. ToSet(<<>>) = {}
      BY DEF ToSet
    <3> QED
      BY <2>2, <3>1 DEF InitCompletedWithout, RowsHaveData, RowsCoverChain
  <2> QED
    BY <1>2, <1>3, <1>7, <2>1, <2>2 DEF User, ExplorerInit, ExplorerDeinit, Paint,
       Preload, Quit, Rest
<1>8. CASE Node
  BY <1>2, <1>3, <1>8 DEF Node, NewTop, PoolChanges, Synchronized, NodeRest
<1> QED
  BY <1>4, <1>5, <1>6, <1>7, <1>8 DEF Next

-----------------------------------------------------------------------------
(* The news of the pool that is on its way to the GUI.                     *)

IsNews(e) == e.what = "pool"
OneTx(e) == \E t \in Txs : \/ e.add = <<t>> /\ e.del = {}
                           \/ e.add = <<>> /\ e.del = {t}
About(e, t) == IsNews(e) /\ (t \in ToSet(e.add) \/ t \in e.del)
Pending(q, t) == \E k \in DOMAIN q : About(q[k], t)
OneTxEach(q) == \A k \in DOMAIN q : IsNews(q[k]) => OneTx(q[k])
NoNews(q) == \A k \in DOMAIN q : ~IsNews(q[k])
\* The last word on a transaction is what the pool P has of it.
Newest(q, P) == \A k \in DOMAIN q, t \in Txs :
  About(q[k], t) /\ (\A l \in DOMAIN q : l > k => ~About(q[l], t)) =>
    (t \in ToSet(q[k].add) <=> t \in P)

\* The explorer has not been initialised yet.
Early == ~node.inited /\ node.life \in {"new", "up"}

NewsInv == /\ OneTxEach(guiq)
           /\ Heard => Newest(guiq, node.pool)
           /\ Early => NoNews(guiq)

LEMMA TailNews ==
  ASSUME NEW S, NEW q \in Seq(S), q # <<>>
  PROVE  /\ OneTxEach(q) => OneTxEach(Tail(q)) /\ (IsNews(Head(q)) => OneTx(Head(q)))
         /\ NoNews(q) => NoNews(Tail(q)) /\ ~IsNews(Head(q))
         /\ \A P : Newest(q, P) =>
              /\ Newest(Tail(q), P)
              /\ \A t \in Txs : About(Head(q), t) /\ ~Pending(Tail(q), t) =>
                                  (t \in ToSet(Head(q).add) <=> t \in P)
         /\ \A t : Pending(q, t) <=> Pending(Tail(q), t) \/ About(Head(q), t)
<1> DEFINE r == Tail(q)
<1>1. /\ DOMAIN r = 1 .. Len(q) - 1 /\ Len(q) \in Nat \ {0}
      /\ DOMAIN q = 1 .. Len(q) /\ Head(q) = q[1] /\ 1 \in DOMAIN q
      /\ \A i \in DOMAIN r : r[i] = q[i + 1] /\ i + 1 \in DOMAIN q
  BY HeadTail
<1>2. \A l \in DOMAIN q : l # 1 => l - 1 \in DOMAIN r /\ r[l - 1] = q[l] /\ l > 1
  <2> SUFFICES ASSUME NEW l \in DOMAIN q, l # 1
               PROVE  l - 1 \in DOMAIN r /\ r[l - 1] = q[l] /\ l > 1
    OBVIOUS
  <2>1. l - 1 \in 1 .. Len(q) - 1 /\ (l - 1) + 1 = l /\ l > 1
    BY <1>1
  <2> QED
    BY <1>1, <2>1
<1>3. \A i \in DOMAIN r, l \in DOMAIN q : l > i + 1 => l # 1 /\ l - 1 > i
  BY <1>1
<1> HIDE DEF r
<1>4. OneTxEach(q) => OneTxEach(r) /\ (IsNews(Head(q)) => OneTx(Head(q)))
  BY <1>1 DEF OneTxEach
<1>5. NoNews(q) => NoNews(r) /\ ~IsNews(Head(q))
  BY <1>1 DEF NoNews
<1>6. ASSUME NEW P, Newest(q, P)
      PROVE  /\ Newest(r, P)
             /\ \A t \in Txs : About(Head(q), t) /\ ~Pending(r, t) =>
                                 (t \in ToSet(Head(q).add) <=> t \in P)
  <2>1. Newest(r, P)
    <3> SUFFICES ASSUME NEW k \in DOMAIN r, NEW t \in Txs, About(r[k], t),
                        \A l \in DOMAIN r : l > k => ~About(r[l], t)
                 PROVE  t \in ToSet(r[k].add) <=> t \in P
      BY DEF Newest
    <3>1. k + 1 \in DOMAIN q /\ r[k] = q[k + 1]
      BY <1>1
    <3>2. \A l \in DOMAIN q : l > k + 1 => ~About(q[l], t)
      BY <1>2, <1>3
    <3> QED
      BY <1>6, <3>1, <3>2 DEF Newest
  <2>2. ASSUME NEW t \in Txs, About(Head(q), t), ~Pending(r, t)
        PROVE  t \in ToSet(Head(q).add) <=> t \in P
    <3>1. \A l \in DOMAIN q : l > 1 => ~About(q[l], t)
      <4>1. \A l \in DOMAIN q : l > 1 => l # 1
        BY <1>1
      <4> QED
        BY <1>2, <2>2, <4>1 DEF Pending
    <3> QED
      BY <1>1, <1>6, <2>2, <3>1 DEF Newest
  <2> QED
    BY <2>1, <2>2
<1>7. \A t : Pending(q, t) <=> Pending(r, t) \/ About(Head(q), t)
  BY <1>1, <1>2 DEF Pending
<1> QED
  BY <1>4, <1>5, <1>6, <1>7 DEF r

LEMMA AppendNews ==
  ASSUME NEW S, NEW q \in Seq(S), NEW e \in S, IsNews(e) => OneTx(e), NEW P, NEW R,
         \A t \in Txs : IF About(e, t) THEN t \in ToSet(e.add) <=> t \in R
                                       ELSE t \in P <=> t \in R
  PROVE  /\ OneTxEach(q) => OneTxEach(Append(q, e))
         /\ NoNews(q) /\ ~IsNews(e) => NoNews(Append(q, e))
         /\ Newest(q, P) => Newest(Append(q, e), R)
         /\ \A t : Pending(Append(q, e), t) <=> Pending(q, t) \/ About(e, t)
<1> DEFINE a == Append(q, e)
           n == Len(q) + 1
<1>1. /\ Len(q) \in Nat /\ DOMAIN q = 1 .. Len(q) /\ DOMAIN a = 1 .. n
      /\ \A i \in 1 .. Len(q) : a[i] = q[i]
      /\ a[n] = e
  OBVIOUS
<1>2. /\ \A k \in DOMAIN a : (k = n /\ a[k] = e) \/ (k \in DOMAIN q /\ a[k] = q[k])
      /\ n \in DOMAIN a /\ \A k \in DOMAIN q : k \in DOMAIN a /\ n > k /\ a[k] = q[k]
      /\ \A k \in DOMAIN a : ~(k > n)
  BY <1>1
<1> HIDE DEF a, n
<1>3. OneTxEach(q) => OneTxEach(a)
  BY <1>2 DEF OneTxEach
<1>4. NoNews(q) /\ ~IsNews(e) => NoNews(a)
  BY <1>2 DEF NoNews
<1>5. ASSUME Newest(q, P), NEW k \in DOMAIN a, NEW t \in Txs, About(a[k], t),
             \A l \in DOMAIN a : l > k => ~About(a[l], t)
      PROVE  t \in ToSet(a[k].add) <=> t \in R
  <2>1. CASE a[k] = e
    BY <1>5, <2>1
  <2>2. CASE k \in DOMAIN q /\ a[k] = q[k]
    <3>1. ~About(e, t)
      BY <1>1, <1>2, <1>5, <2>2 DEF a
    <3>2. \A l \in DOMAIN q : l > k => ~About(q[l], t)
      BY <1>2, <1>5
    <3> QED
      BY <1>5, <2>2, <3>1, <3>2 DEF Newest
  <2> QED
    BY <1>2, <2>1, <2>2
<1>6. Newest(q, P) => Newest(a, R)
  BY <1>5 DEF Newest
<1>7. \A t : Pending(a, t) <=> Pending(q, t) \/ About(e, t)
  <2>1. a[n] = e
    BY <1>1 DEF a
  <2> QED
    BY <1>2, <2>1 DEF Pending
<1> QED
  BY <1>3, <1>4, <1>6, <1>7 DEF a

\* A step that neither makes nor takes news of the pool, and does not make the
\* explorer heard.
Hears == /\ node'.pool = node.pool /\ (Heard' => Heard) /\ (Early' => Early)
Quiet == \/ guiq' = guiq
         \/ guiq # <<>> /\ guiq' = Tail(guiq) /\ ~IsNews(Head(guiq))
         \/ \E e \in Events : ~IsNews(e) /\ guiq' = Append(guiq, e)

LEMMA QuietNews ==
  ASSUME CoreInv, NewsInv, Quiet
  PROVE  /\ \A t : Pending(guiq', t) <=> Pending(guiq, t)
         /\ OneTxEach(guiq')
         /\ NoNews(guiq) => NoNews(guiq')
         /\ Newest(guiq, node.pool) => Newest(guiq', node.pool)
<1>1. guiq \in Seq(Events)
  BY DEF CoreInv, TypeInv, TypeOK
<1>2. CASE guiq' = guiq
  BY <1>2 DEF NewsInv
<1>3. CASE guiq # <<>> /\ guiq' = Tail(guiq) /\ ~IsNews(Head(guiq))
  <2>1. \A t : ~About(Head(guiq), t)
    BY <1>3 DEF About
  <2> QED
    BY <1>1, <1>3, <2>1, TailNews DEF NewsInv
<1>4. ASSUME NEW e \in Events, ~IsNews(e), guiq' = Append(guiq, e)
      PROVE  /\ \A t : Pending(guiq', t) <=> Pending(guiq, t)
             /\ OneTxEach(guiq')
             /\ NoNews(guiq) => NoNews(guiq')
             /\ Newest(guiq, node.pool) => Newest(guiq', node.pool)
  <2>1. \A t : ~About(e, t)
    BY <1>4 DEF About
  <2> QED
    BY <1>1, <1>4, <2>1, AppendNews DEF NewsInv
<1> QED
  BY <1>2, <1>3, <1>4 DEF Quiet

LEMMA QuietInv ==
  ASSUME CoreInv, NewsInv, Quiet, Hears
  PROVE  NewsInv'
BY QuietNews DEF NewsInv, Hears

LEMMA QuietSteps ==
  ASSUME CoreInv, InitOnce, [Next]_vars, ~(OnPoolUpdated \/ PoolChanges \/ InitImpl)
  PROVE  Quiet /\ Hears
<1>1. /\ TypeInv /\ guiq \in Seq(Events)
      /\ node \in [top: Heights, pool: SUBSET Txs, synced: BOOLEAN,
                   inited: BOOLEAN, life: {"new", "up", "down", "none"}]
  BY DEF CoreInv, TypeInv, TypeOK
<1>2. ASSUME node' = node PROVE Hears
  BY <1>2 DEF Hears, Heard, Early
<1>3. ASSUME guiq' = guiq PROVE Quiet
  BY <1>3 DEF Quiet
<1>4. CASE UNCHANGED vars
  BY <1>2, <1>3, <1>4 DEF vars
<1>5. CASE Gui
  <2>1. CASE OnInitDone \/ OnTop \/ OnSynchronized
    <3>1. Quiet
      BY <2>1 DEF OnInitDone, OnTop, OnSynchronized, Event, Quiet, IsNews
    <3> QED
      BY <1>2, <2>1, <3>1 DEF OnInitDone, OnTop, OnSynchronized
  <2>2. CASE \/ Lock \/ Exec \/ Refused \/ LeaveLoop \/ ReturnBlock \/ ReturnPreload
             \/ ReturnPool \/ PutDown \/ LastShutdown
    BY <1>2, <1>3, <2>2 DEF Lock, Exec, Refused, LeaveLoop, ReturnBlock, ReturnPreload,
       ReturnPool, PutDown, LastShutdown, gui
  <2> QED
    BY <1>5, <2>1, <2>2 DEF Gui
<1>6. CASE Worker
  BY <1>2, <1>3, <1>6 DEF Worker, TakeJob, FailPreload, LoadBlocks, FindByTime,
     GetPoolState, Deliver, gui
<1>7. CASE User
  <2>1. CASE ExplorerInit
    <3>1. /\ node' = [node EXCEPT !.life = "up"] /\ guiq' = guiq /\ node.life = "new"
          /\ ~node.inited
      BY <2>1 DEF ExplorerInit, InitOnce
    <3> QED
      BY <1>1, <1>3, <3>1 DEF Hears, Heard, Early
  <2>2. CASE ExplorerDeinit
    <3>1. /\ node' = [node EXCEPT !.inited = FALSE, !.life = "down"] /\ guiq' = guiq
      BY <2>2 DEF ExplorerDeinit
    <3> QED
      BY <1>1, <1>3, <3>1 DEF Hears, Heard, Early
  <2>3. CASE InitCompleted \/ Paint \/ Preload \/ Quit
    BY <1>2, <1>3, <2>3 DEF InitCompleted, Paint, Preload, Quit, Rest
  <2>4. CASE InitCompletedWithout
    <3>1. node' = [node EXCEPT !.life = "none"] /\ guiq' = guiq
      BY <2>4 DEF InitCompletedWithout
    <3> QED
      BY <1>1, <1>3, <3>1 DEF Hears, Heard, Early
  <2> QED
    BY <1>7, <2>1, <2>2, <2>3, <2>4 DEF User
<1>8. CASE Node
  <2>1. CASE NewTop
    <3>1. PICK t \in Heights : /\ node' = [node EXCEPT !.top = t]
                               /\ guiq' = Append(guiq, [what |-> "top", top |-> t])
      BY <2>1 DEF NewTop
    <3>2. [what |-> "top", top |-> t] \in Events /\ ~IsNews([what |-> "top", top |-> t])
      BY DEF Events, IsNews
    <3>3. Quiet
      BY <3>1, <3>2 DEF Quiet
    <3> QED
      BY <1>1, <3>1, <3>3 DEF Hears, Heard, Early
  <2>2. CASE Synchronized
    <3>1. /\ node' = [node EXCEPT !.synced = TRUE]
          /\ guiq' = guiq \/ guiq' = Append(guiq, [what |-> "synced"])
      BY <2>2 DEF Synchronized, Tell
    <3>2. [what |-> "synced"] \in Events /\ ~IsNews([what |-> "synced"])
      BY DEF Events, IsNews
    <3>3. Quiet
      BY <3>1, <3>2 DEF Quiet
    <3> QED
      BY <1>1, <3>1, <3>3 DEF Hears, Heard, Early
  <2> QED
    BY <1>8, <2>1, <2>2 DEF Node
<1> QED
  BY <1>4, <1>5, <1>6, <1>7, <1>8 DEF Next

\* poolUpdated takes the oldest news.
LEMMA TakeNews ==
  ASSUME CoreInv, NewsInv, OnPoolUpdated
  PROVE  /\ NewsInv' /\ OneTx(Head(guiq)) /\ IsNews(Head(guiq)) /\ ~Early
         /\ \A t : Pending(guiq, t) <=> Pending(guiq', t) \/ About(Head(guiq), t)
         /\ Heard => \A t \in Txs : About(Head(guiq), t) /\ ~Pending(guiq', t) =>
                                      (t \in ToSet(Head(guiq).add) <=> t \in node.pool)
<1>1. /\ guiq \in Seq(Events) /\ guiq # <<>> /\ guiq' = Tail(guiq)
      /\ IsNews(Head(guiq)) /\ node' = node
  BY DEF OnPoolUpdated, Event, IsNews, CoreInv, TypeInv, TypeOK
<1>2. OneTxEach(guiq) /\ (Heard => Newest(guiq, node.pool)) /\ (Early => NoNews(guiq))
  BY DEF NewsInv
<1>3. /\ OneTxEach(guiq) => OneTxEach(Tail(guiq)) /\ (IsNews(Head(guiq)) => OneTx(Head(guiq)))
      /\ NoNews(guiq) => NoNews(Tail(guiq)) /\ ~IsNews(Head(guiq))
      /\ Newest(guiq, node.pool) =>
           /\ Newest(Tail(guiq), node.pool)
           /\ \A t \in Txs : About(Head(guiq), t) /\ ~Pending(Tail(guiq), t) =>
                               (t \in ToSet(Head(guiq).add) <=> t \in node.pool)
      /\ \A t : Pending(guiq, t) <=> Pending(Tail(guiq), t) \/ About(Head(guiq), t)
  BY <1>1, TailNews
<1>4. (Heard' <=> Heard) /\ (Early' <=> Early)
  BY <1>1 DEF Heard, Early
<1>5. NewsInv'
  BY <1>1, <1>2, <1>3, <1>4 DEF NewsInv
<1> QED
  BY <1>1, <1>2, <1>3, <1>5

\* The pool changes: the news of it is the last word, if the worker hears it.
LEMMA MakeNews ==
  ASSUME CoreInv, NewsInv, PoolChanges
  PROVE  /\ NewsInv' /\ (Heard' <=> Heard) /\ (Early' <=> Early)
         /\ dirty' = (dirty \/ ~Heard)
         /\ \E u \in Txs :
              /\ \A t \in Txs : t # u => (t \in node'.pool <=> t \in node.pool)
              /\ Heard => \A t \in Txs : Pending(guiq', t) <=> Pending(guiq, t) \/ t = u
<1>1. /\ guiq \in Seq(Events)
      /\ node \in [top: Heights, pool: SUBSET Txs, synced: BOOLEAN,
                   inited: BOOLEAN, life: {"new", "up", "down", "none"}]
  BY DEF CoreInv, TypeInv, TypeOK
<1>2. PICK u \in Txs :
        /\ node' = [node EXCEPT !.pool = IF u \in @ THEN @ \ {u} ELSE @ \cup {u}]
        /\ dirty' = (dirty \/ ~Heard)
        /\ Tell([what |-> "pool", add |-> IF u \in node.pool THEN <<>> ELSE <<u>>,
                 del |-> IF u \in node.pool THEN {u} ELSE {}])
  BY DEF PoolChanges
<1> DEFINE e == [what |-> "pool", add |-> IF u \in node.pool THEN <<>> ELSE <<u>>,
                 del |-> IF u \in node.pool THEN {u} ELSE {}]
<1>3. /\ node'.pool = (IF u \in node.pool THEN node.pool \ {u} ELSE node.pool \cup {u})
      /\ node'.inited = node.inited /\ node'.life = node.life
  BY <1>1, <1>2
<1>4. (Heard' <=> Heard) /\ (Early' <=> Early)
  BY <1>3 DEF Heard, Early
<1>5. /\ e.what = "pool"
      /\ u \in node.pool => e.add = <<>> /\ e.del = {u}
      /\ u \notin node.pool => e.add = <<u>> /\ e.del = {}
  OBVIOUS
<1>6. e \in Events
  <2>1. e.add \in Seq(Txs) /\ e.del \in SUBSET Txs
    BY <1>5
  <2> QED
    BY <2>1 DEF Events
<1>7. guiq' = IF Heard THEN Append(guiq, e) ELSE guiq
  BY <1>2 DEF Tell
<1> HIDE DEF e
<1>8. ToSet(<<>>) = {} /\ ToSet(<<u>>) = {u}
  BY DEF ToSet
<1>9. IsNews(e) /\ OneTx(e) /\ \A t \in Txs : About(e, t) <=> t = u
  BY <1>5, <1>8 DEF IsNews, OneTx, About
<1>10. \A t \in Txs : IF About(e, t) THEN t \in ToSet(e.add) <=> t \in node'.pool
                                    ELSE t \in node.pool <=> t \in node'.pool
  BY <1>3, <1>5, <1>8, <1>9
<1>11. CASE Heard
  <2>1. /\ OneTxEach(guiq) => OneTxEach(Append(guiq, e))
        /\ Newest(guiq, node.pool) => Newest(Append(guiq, e), node'.pool)
        /\ \A t : Pending(Append(guiq, e), t) <=> Pending(guiq, t) \/ About(e, t)
    BY <1>1, <1>6, <1>9, <1>10, AppendNews
  <2>2. ~Early
    BY <1>11 DEF Heard, Early
  <2>3. NewsInv'
    BY <1>4, <1>7, <1>11, <2>1, <2>2 DEF NewsInv
  <2>4. \A t \in Txs : Pending(guiq', t) <=> Pending(guiq, t) \/ t = u
    BY <1>7, <1>9, <1>11, <2>1
  <2> QED
    BY <1>2, <1>3, <1>4, <2>3, <2>4
<1>12. CASE ~Heard
  <2>1. NewsInv'
    BY <1>4, <1>7, <1>12 DEF NewsInv
  <2> QED
    BY <1>2, <1>3, <1>4, <1>12, <2>1
<1> QED
  BY <1>11, <1>12

\* initImpl: no news is on its way when the explorer becomes heard.
LEMMA FirstNews ==
  ASSUME CoreInv, InitOnce, NewsInv, InitImpl
  PROVE  /\ NewsInv' /\ Quiet /\ node'.pool = node.pool /\ ~Heard
         /\ (Heard' => Early) /\ (Early' => Early)
<1>1. /\ guiq \in Seq(Events)
      /\ node \in [top: Heights, pool: SUBSET Txs, synced: BOOLEAN,
                   inited: BOOLEAN, life: {"new", "up", "down", "none"}]
  BY DEF CoreInv, TypeInv, TypeOK
<1>2. PICK ok \in BOOLEAN : node' = [node EXCEPT !.inited = ok /\ node.life = "up"]
  BY DEF InitImpl
<1>3. [what |-> "inited"] \in Events /\ ~IsNews([what |-> "inited"])
  BY DEF Events, IsNews
<1>4. Quiet
  BY <1>3 DEF Quiet, InitImpl
<1>5. ~node.inited
  BY InitImplOnce
<1>6. /\ node'.pool = node.pool /\ ~Heard /\ (Heard' => Early) /\ (Early' => Early)
  BY <1>1, <1>2, <1>5 DEF Heard, Early
<1>7. OneTxEach(guiq') /\ (NoNews(guiq) => NoNews(guiq'))
  BY <1>4, QuietNews
<1>8. NoNews(guiq') => Newest(guiq', node'.pool)
  BY DEF NoNews, Newest, About
<1>9. NewsInv'
  BY <1>6, <1>7, <1>8 DEF NewsInv
<1> QED
  BY <1>4, <1>6, <1>9

-----------------------------------------------------------------------------
(* What the pool view will show.                                           *)

\* s lists the pool P but for what the queue q still has to say.
Agrees(s, q, P) == /\ IsInjective(s)
                   /\ \A t \in Txs : Pending(q, t) \/ (t \in ToSet(s) <=> t \in P)
OkCall(e, i) == IsCall(e) /\ e.to = i /\ e.status = "ok"
AnswerAgrees(f, w, q, P) ==
  /\ f.status = "ok" => Agrees(f.got, q, P)
  /\ \A k \in DOMAIN w : OkCall(w[k], f.id) => Agrees(w[k].got, q, P)
Unanswered(f, w) == f.status # "ok" /\ \A k \in DOMAIN w : ~OkCall(w[k], f.id)
Queries(s) == {k \in DOMAIN s : s[k].op = "pool"}

\* While no news was missed or handled inside a query, there is one query at
\* most and nothing is shown beside its answer.
OneQuery(s, r) == /\ \A k, l \in Queries(s) : s[k].id = s[l].id
                  /\ \A k \in Queries(s) : s[k].by # "sync" => r = <<>>

ViewInv ==
  /\ ~dirty => OneQuery(stack, rows)
  /\ Heard /\ ~dirty =>
       /\ \A k \in Queries(stack) : AnswerAgrees(stack[k], wq, guiq, node.pool)
       /\ synced /\ ~Querying(stack) => Agrees(rows, guiq, node.pool)
  /\ Early /\ ~dirty => /\ \A k \in Queries(stack) : Unanswered(stack[k], wq)
                        /\ synced => Querying(stack)

\* No new answer to a query is on its way.
NoNewCall(s, w, v) ==
  \A k \in DOMAIN v, i \in Queries(s) : OkCall(v[k], s[i].id) =>
    \E l \in DOMAIN w : OkCall(w[l], s[i].id) /\ w[l].got = v[k].got

LEMMA FromQueries ==
  ASSUME NEW s, NEW t, From(s, t, "pool")
  PROVE  /\ \A k \in Queries(t) : \E l \in Queries(s) : Kept1(s[l], t[k])
         /\ \A r : OneQuery(s, r) => OneQuery(t, r)
<1>1. \A k \in Queries(t) : \E l \in Queries(s) : Kept1(s[l], t[k])
  BY DEF From, Queries
<1>2. ASSUME NEW r, OneQuery(s, r) PROVE OneQuery(t, r)
  BY <1>1, <1>2 DEF OneQuery, Kept1
<1> QED
  BY <1>1, <1>2

LEMMA AgreesStill ==
  ASSUME NEW s, NEW q, NEW P, NEW u, \A t \in Txs : Pending(u, t) <=> Pending(q, t)
  PROVE  Agrees(s, q, P) <=> Agrees(s, u, P)
BY DEF Agrees

\* The answers stay what they are.
LEMMA AnswersStay ==
  ASSUME NEW s, NEW t, From(s, t, "pool"), NEW w, NEW v, NoNewCall(t, w, v)
  PROVE  /\ \A q, P :
              (\A k \in Queries(s) : AnswerAgrees(s[k], w, q, P)) =>
                \A k \in Queries(t) : AnswerAgrees(t[k], v, q, P)
         /\ (\A k \in Queries(s) : Unanswered(s[k], w)) =>
              \A k \in Queries(t) : Unanswered(t[k], v)
<1>1. \A k \in Queries(t) : \E l \in Queries(s) : Kept1(s[l], t[k])
  BY FromQueries
<1>2. ASSUME NEW q, NEW P, \A k \in Queries(s) : AnswerAgrees(s[k], w, q, P),
             NEW k \in Queries(t)
      PROVE  AnswerAgrees(t[k], v, q, P)
  <2>1. PICK l \in Queries(s) : Kept1(s[l], t[k])
    BY <1>1
  <2> QED
    BY <1>2, <2>1 DEF AnswerAgrees, Kept1, NoNewCall
<1>3. ASSUME \A k \in Queries(s) : Unanswered(s[k], w), NEW k \in Queries(t)
      PROVE  Unanswered(t[k], v)
  <2>1. PICK l \in Queries(s) : Kept1(s[l], t[k])
    BY <1>1
  <2> QED
    BY <1>3, <2>1 DEF Unanswered, Kept1, NoNewCall
<1> QED
  BY <1>2, <1>3

LEMMA ViewCalm ==
  ASSUME ViewInv, From(stack, stack', "pool"), Querying(stack) <=> Querying(stack'),
         NoNewCall(stack', wq, wq'), UNCHANGED <<rows, synced, dirty>>,
         \A t : Pending(guiq', t) <=> Pending(guiq, t), Hears
  PROVE  ViewInv'
<1>1. ~dirty => OneQuery(stack', rows)
  BY FromQueries DEF ViewInv
<1>2. Heard /\ ~dirty =>
        /\ \A k \in Queries(stack') : AnswerAgrees(stack'[k], wq', guiq, node.pool)
        /\ synced /\ ~Querying(stack') => Agrees(rows, guiq, node.pool)
  BY AnswersStay DEF ViewInv
<1>3. \A s : Agrees(s, guiq, node.pool) <=> Agrees(s, guiq', node.pool)
  BY DEF Agrees
<1>4. \A k \in Queries(stack') :
        AnswerAgrees(stack'[k], wq', guiq, node.pool) =>
        AnswerAgrees(stack'[k], wq', guiq', node.pool)
  BY <1>3 DEF AnswerAgrees
<1>5. Early /\ ~dirty => /\ \A k \in Queries(stack') : Unanswered(stack'[k], wq')
                         /\ synced => Querying(stack')
  BY AnswersStay DEF ViewInv
<1> QED
  BY <1>1, <1>2, <1>3, <1>4, <1>5 DEF ViewInv, Hears

LEMMA CallsStay ==
  ASSUME NEW S, NEW q \in Seq(S), NEW s
  PROVE  /\ NoNewCall(s, q, q)
         /\ q # <<>> => NoNewCall(s, q, Tail(q))
         /\ \A e \in S : ~IsCall(e) => NoNewCall(s, q, Append(q, e))
<1>1. NoNewCall(s, q, q)
  BY DEF NoNewCall
<1>2. ASSUME q # <<>> PROVE NoNewCall(s, q, Tail(q))
  <2>1. \A k \in DOMAIN Tail(q) : \E l \in DOMAIN q : Tail(q)[k] = q[l]
    BY <1>2, TailQueue
  <2> QED
    BY <2>1 DEF NoNewCall
<1>3. ASSUME NEW e \in S, ~IsCall(e) PROVE NoNewCall(s, q, Append(q, e))
  <2>1. \A k \in DOMAIN Append(q, e) : IsCall(Append(q, e)[k]) =>
          \E l \in DOMAIN q : Append(q, e)[k] = q[l]
    BY <1>3, AppendQueue
  <2> QED
    BY <2>1 DEF NoNewCall, OkCall
<1> QED
  BY <1>1, <1>2, <1>3

LEMMA JoinedIn ==
  ASSUME NEW q \in Seq(Requests \cup Calls), NEW cs \in Seq(Calls)
  PROVE  \A k \in DOMAIN (q \o cs) : \/ \E l \in DOMAIN q : (q \o cs)[k] = q[l]
                                     \/ \E l \in DOMAIN cs : (q \o cs)[k] = cs[l]
<1>1. cs \in Seq(Requests \cup Calls)
  OBVIOUS
<1> DEFINE u == q \o cs
           n == Len(q)
<1>2. /\ n \in Nat /\ Len(cs) \in Nat
      /\ DOMAIN u = 1 .. n + Len(cs)
      /\ \A i \in 1 .. n : u[i] = q[i]
      /\ \A i \in 1 .. Len(cs) : u[n + i] = cs[i]
  BY <1>1, Joined
<1>3. DOMAIN q = 1 .. n /\ DOMAIN cs = 1 .. Len(cs)
  OBVIOUS
<1> HIDE DEF u, n
<1>4. ASSUME NEW k \in DOMAIN u
      PROVE  \/ \E l \in DOMAIN q : u[k] = q[l]
             \/ \E l \in DOMAIN cs : u[k] = cs[l]
  <2>1. CASE k \in 1 .. n
    BY <1>2, <1>3, <2>1
  <2>2. CASE k \notin 1 .. n
    <3>1. k - n \in 1 .. Len(cs) /\ n + (k - n) = k
      BY <1>2, <2>2
    <3> QED
      BY <1>2, <1>3, <3>1
  <2> QED
    BY <2>1, <2>2
<1> QED
  BY <1>4 DEF u

\* An Impl that is not the pool's calls no query.
LEMMA EndsStay ==
  ASSUME CoreInv, NEW cs, NEW got, Ends(cs, got), job.op # "pool"
  PROVE  NoNewCall(stack, wq, wq')
<1>1. wq \in Seq(Requests \cup Calls) /\ cs \in Seq(Calls) /\ wq' = wq \o cs /\ SameIds
  BY UniqueIds DEF Ends, CoreInv, TypeInv, TypeOK
<1>2. PICK status \in Ended : Posted(cs, job.op, job.id, status, got)
  BY DEF Ends
<1>3. \A k \in DOMAIN cs, i \in Queries(stack) : cs[k].to # stack[i].id
  <2> SUFFICES ASSUME NEW k \in DOMAIN cs, NEW i \in Queries(stack), cs[k].to = stack[i].id
               PROVE  FALSE
    OBVIOUS
  <2>1. PICK l \in DOMAIN stack : /\ stack[l].id = cs[k].to
                                  /\ stack[l].op = "pool" <=> job.op = "pool"
    BY <1>2 DEF Posted
  <2> QED
    BY <1>1, <2>1 DEF SameIds, Queries
<1>4. \A k \in DOMAIN wq' : \/ \E l \in DOMAIN wq : wq'[k] = wq[l]
                            \/ \E l \in DOMAIN cs : wq'[k] = cs[l]
  BY <1>1, JoinedIn
<1> QED
  BY <1>3, <1>4 DEF NoNewCall, OkCall

LEMMA CalmSteps ==
  ASSUME CoreInv, [Next]_vars,
         ~(\/ OnSynchronized \/ ReturnPreload \/ ReturnPool \/ OnPoolUpdated
           \/ PoolChanges \/ GetPoolState \/ Deliver \/ Quit \/ InitCompletedWithout)
  PROVE  /\ From(stack, stack', "pool") /\ (Querying(stack) <=> Querying(stack'))
         /\ NoNewCall(stack', wq, wq') /\ UNCHANGED <<rows, synced, dirty>>
<1> DEFINE S == From(stack, stack', "pool") /\ (Querying(stack) <=> Querying(stack'))
           Q == NoNewCall(stack', wq, wq')
           R == UNCHANGED <<rows, synced, dirty>>
<1> SUFFICES S /\ Q /\ R
  OBVIOUS
<1>1. /\ TypeInv /\ stack \in Seq(Frames) /\ wq \in Seq(Requests \cup Calls)
  BY DEF CoreInv, TypeInv, TypeOK
<1>2. ASSUME stack' = stack PROVE S
  BY <1>1, <1>2, FromTop
<1>3. ASSUME NEW f, Asked(f, stack), f.op # "pool" PROVE S
  BY <1>1, <1>3, FromTop DEF Asked, Fresh
<1>4. ASSUME wq' = wq PROVE Q
  BY <1>1, <1>4, CallsStay
<1>5. ASSUME NEW e \in Requests, wq' = Append(wq, e) PROVE Q
  <2>1. ~IsCall(e)
    BY <1>5 DEF Requests, IsCall
  <2> QED
    BY <1>1, <1>5, <2>1, CallsStay
<1> HIDE DEF S, Q, R
<1>6. CASE UNCHANGED vars
  BY <1>2, <1>4, <1>6 DEF vars, R
<1>7. CASE Gui
  <2>1. CASE Lock \/ Exec \/ Refused \/ LeaveLoop \/ OnInitDone
    <3>1. S
      BY <2>1, FromEdit DEF S
    <3>2. R
      BY <2>1 DEF Lock, Exec, Refused, LeaveLoop, OnInitDone, gui, R
    <3>3. CASE wq' = wq
      BY <1>4, <3>1, <3>2, <3>3
    <3>4. CASE wq' # wq
      <4>1. wq' = Append(wq, Request(Top)) /\ stack # <<>>
        BY <2>1, <3>4 DEF Lock, Exec, Refused, LeaveLoop, OnInitDone, Waiting
      <4>2. Top \in Frames
        BY <1>1, <4>1, HeadTail DEF Top
      <4>3. Request(Top) \in Requests
        BY <4>2, RequestTyped
      <4> QED
        BY <1>5, <3>1, <3>2, <4>1, <4>3
    <3> QED
      BY <3>3, <3>4
  <2>2. CASE ReturnBlock
    <3>1. /\ stack # <<>> /\ Top.op = "block" /\ stack' = Tail(stack)
          /\ wq' = wq /\ R
      BY <2>2 DEF ReturnBlock, TokenBack, Waiting, R
    <3>2. Top = stack[1]
      BY <1>1, <3>1, HeadTail DEF Top
    <3>3. S
      BY <1>1, <3>1, <3>2, FromTop DEF S
    <3> QED
      BY <1>4, <3>1, <3>3
  <2>3. CASE PutDown \/ OnTop \/ LastShutdown
    BY <1>2, <1>4, <2>3 DEF PutDown, OnTop, LastShutdown, gui, R
  <2> QED
    BY <1>7, <2>1, <2>2, <2>3 DEF Gui
<1>8. CASE Worker
  <2>1. CASE Enders
    <3>1. stack' = stack /\ R
      BY <2>1 DEF Enders, FailPreload, LoadBlocks, FindByTime, GetPoolState, gui, R
    <3>2. job.op # "pool"
      BY <2>1, ExplorerAssumption DEF Enders, FailPreload, LoadBlocks, FindByTime, Waits
    <3>3. PICK cs, got : Ends(cs, got)
      BY <1>1, <2>1, EndKinds
    <3>4. Q
      BY <3>1, <3>2, <3>3, EndsStay DEF Q
    <3> QED
      BY <1>2, <3>1, <3>4
  <2>2. CASE TakeJob
    <3>1. wq # <<>> /\ wq' = Tail(wq) /\ stack' = stack /\ R
      BY <2>2 DEF TakeJob, Idle, gui, R
    <3>2. Q
      BY <1>1, <3>1, CallsStay DEF Q
    <3> QED
      BY <1>2, <3>1, <3>2
  <2>3. CASE InitImpl
    BY <1>2, <1>4, <2>3 DEF InitImpl, R
  <2> QED
    BY <1>8, <2>1, <2>2, <2>3 DEF Worker, Enders
<1>9. CASE User
  <2>1. wq' = wq /\ R
    BY <1>9 DEF User, ExplorerInit, ExplorerDeinit, InitCompleted, Paint, Preload, Rest, R
  <2>2. S
    <3>1. CASE ExplorerDeinit
      BY <1>2, <3>1 DEF ExplorerDeinit
    <3>2. CASE ExplorerInit
      BY <1>1, <1>3, <3>2, AskedWhat
    <3>3. CASE InitCompleted \/ Paint \/ Preload
      BY <1>1, <1>2, <1>3, <3>3, AskedWhat
    <3> QED
      BY <1>9, <3>1, <3>2, <3>3 DEF User
  <2> QED
    BY <1>4, <2>1, <2>2
<1>10. CASE Node
  BY <1>2, <1>4, <1>10 DEF Node, NewTop, Synchronized, NodeRest, R
<1> QED
  BY <1>6, <1>7, <1>8, <1>9, <1>10 DEF Next

\* A query is made over the frames s.
LEMMA ViewAsk ==
  ASSUME CoreInv, OutInv, ViewInv, NEW s \in Seq(Frames), From(stack, s, "pool"),
         NEW f, Asked(f, s), f.op = "pool", f.by = "sync" \/ rows' = <<>>,
         wq' = wq, node' = node, dirty' = Querying(s)
  PROVE  ViewInv'
<1>1. f \in Frames /\ f.id = asks + 1 /\ f.status = "none" /\ stack' = <<f>> \o s
  BY DEF Asked, Fresh
<1>2. /\ stack'[1] = f /\ 1 \in DOMAIN stack'
      /\ \A k \in DOMAIN stack' : k = 1 \/ (k - 1 \in DOMAIN s /\ stack'[k] = s[k - 1])
  BY <1>1, Pushed
<1>3. \A k \in DOMAIN wq : ~OkCall(wq[k], f.id)
  <2>1. asks \in Nat /\ \A k \in DOMAIN wq : IsCall(wq[k]) => wq[k].to \in 1 .. asks
    BY DEF CoreInv, TypeInv, TypeOK, OutInv, CallsKnown
  <2> QED
    BY <1>1, <2>1 DEF OkCall
<1>4. Unanswered(f, wq) /\ \A q, P : AnswerAgrees(f, wq, q, P)
  BY <1>1, <1>3 DEF Unanswered, AnswerAgrees
<1>5. \A k \in Queries(stack') : k = 1 \/ (k - 1 \in Queries(s) /\ stack'[k] = s[k - 1])
  BY <1>2 DEF Queries
<1>6. Querying(stack')
  BY <1>2 DEF Querying
<1>7. ~Querying(s) => \A k \in Queries(stack') : k = 1
  BY <1>5 DEF Querying, Queries
<1>8. ~dirty' => OneQuery(stack', rows')
  BY <1>2, <1>7 DEF OneQuery
<1>9. ~dirty' =>
        \A k \in Queries(stack') : AnswerAgrees(stack'[k], wq', guiq', node'.pool)
  BY <1>2, <1>4, <1>7
<1>10. ~dirty' => \A k \in Queries(stack') : Unanswered(stack'[k], wq')
  BY <1>2, <1>4, <1>7
<1> QED
  BY <1>6, <1>8, <1>9, <1>10 DEF ViewInv

LEMMA ViewSynchronized ==
  ASSUME CoreInv, OutInv, NewsInv, ViewInv, OnSynchronized, Quiet, Hears
  PROVE  ViewInv'
<1>1. TypeInv /\ stack \in Seq(Frames) /\ wq \in Seq(Requests \cup Calls)
  BY DEF CoreInv, TypeInv, TypeOK
<1>2. From(stack, stack, "pool") /\ NoNewCall(stack, wq, wq)
  BY <1>1, FromTop, CallsStay
<1>3. CASE synced
  BY <1>2, <1>3, QuietNews, ViewCalm DEF OnSynchronized
<1>4. CASE ~synced
  <2>1. PICK f : Asked(f, stack) /\ f.op = "pool" /\ f.by = "sync"
    BY <1>1, <1>4, AskedWhat
  <2>2. dirty' = Querying(stack) /\ wq' = wq /\ node' = node
    BY <1>4 DEF OnSynchronized
  <2> QED
    BY <1>1, <1>2, <2>1, <2>2, ViewAsk
<1> QED
  BY <1>3, <1>4

\* A page, a filter or the preload of a reset returns.
LEMMA ViewPreload ==
  ASSUME CoreInv, OutInv, NewsInv, ViewInv, ReturnPreload, Quiet, Hears
  PROVE  ViewInv'
<1>1. TypeInv /\ stack \in Seq(Frames) /\ wq \in Seq(Requests \cup Calls)
  BY DEF CoreInv, TypeInv, TypeOK
<1>2. /\ stack # <<>> /\ Top.op \in Waits /\ wq' = wq /\ node' = node
      /\ \A t : Pending(guiq', t) <=> Pending(guiq, t)
  BY QuietNews DEF ReturnPreload, TokenBack, Waiting
<1>3. Top = stack[1] /\ Tail(stack) \in Seq(Frames) /\ stack[1].op # "pool"
  BY <1>1, <1>2, HeadTail, ExplorerAssumption DEF Top, Waits
<1>4. /\ From(stack, Tail(stack), "pool")
      /\ Querying(stack) <=> Querying(Tail(stack))
      /\ NoNewCall(Tail(stack), wq, wq)
  BY <1>1, <1>2, <1>3, FromTop, CallsStay
<1>5. CASE UNCHANGED <<rows, synced, dirty>> /\ stack' = Tail(stack)
  BY <1>2, <1>4, <1>5, ViewCalm
<1>6. CASE Top.by = "model" /\ node.synced
  <2>1. /\ rows' = <<>> /\ dirty' = Querying(Tail(stack))
        /\ stack' = <<Frame("pool", 0, 0, "init")>> \o Tail(stack)
    BY <1>6 DEF ReturnPreload, Enter
  <2>2. Frame("pool", 0, 0, "init").op = "pool" /\ Fresh(Frame("pool", 0, 0, "init"))
    <3>1. "pool" \in Ops /\ 0 \in Heights /\ "init" \in Askers
      BY ExplorerAssumption DEF Ops, Heights, Askers
    <3> QED
      BY <1>1, <3>1, EntersFresh
  <2>3. PICK f : Asked(f, Tail(stack)) /\ f.op = "pool"
    BY <2>1, <2>2 DEF Asked
  <2> QED
    BY <1>2, <1>3, <1>4, <2>1, <2>3, ViewAsk
<1>7. CASE Top.by = "model" /\ ~node.synced
  <2>1. rows' = <<>> /\ synced' = FALSE /\ stack' = Tail(stack) /\ dirty' = dirty
    BY <1>7 DEF ReturnPreload
  <2>2. ~dirty' => OneQuery(stack', rows')
    <3>1. ~dirty => OneQuery(stack, <<>>)
      BY DEF ViewInv, OneQuery
    <3> QED
      BY <1>4, <2>1, <3>1, FromQueries
  <2>3. \A q, P : (\A k \in Queries(stack) : AnswerAgrees(stack[k], wq, q, P)) =>
          \A k \in Queries(stack') : AnswerAgrees(stack'[k], wq', q, P)
    BY <1>2, <1>4, <2>1, AnswersStay
  <2>4. (\A k \in Queries(stack) : Unanswered(stack[k], wq)) =>
          \A k \in Queries(stack') : Unanswered(stack'[k], wq')
    BY <1>2, <1>4, <2>1, AnswersStay
  <2>5. (Heard' <=> Heard) /\ (Early' <=> Early) /\ guiq' = guiq
    BY <1>2 DEF Heard, Early, ReturnPreload
  <2> QED
    BY <1>2, <2>1, <2>2, <2>3, <2>4, <2>5 DEF ViewInv
<1> QED
  BY <1>5, <1>6, <1>7 DEF ReturnPreload

\* The rows become the answer of the only query.
LEMMA ViewAnswered ==
  ASSUME CoreInv, ViewInv, ReturnPool
  PROVE  ViewInv'
<1>1. /\ TypeInv /\ stack \in Seq(Frames) /\ wq \in Seq(Requests \cup Calls) /\ SameIds
  BY UniqueIds DEF CoreInv, TypeInv, TypeOK
<1>2. /\ stack # <<>> /\ Top.op = "pool" /\ stack' = Tail(stack)
      /\ UNCHANGED <<wq, node, guiq, dirty>>
  BY DEF ReturnPool, TokenBack, Waiting
<1>3. Top = stack[1] /\ 1 \in Queries(stack) /\ Top \in Frames
  BY <1>1, <1>2, HeadTail DEF Top, Queries
<1>4. /\ From(stack, stack', "pool") /\ NoNewCall(stack', wq, wq')
  BY <1>1, <1>2, FromTop, CallsStay
<1>5. \A k \in DOMAIN stack' : \E l \in DOMAIN stack : l # 1 /\ stack'[k] = stack[l]
  <2>1. \A l \in DOMAIN stack : l > 1 => l # 1
    BY <1>1
  <2> QED
    BY <1>1, <1>2, <2>1, TailQueue
<1>6. ~dirty => Queries(stack') = {}
  BY <1>3, <1>5, <1>1 DEF ViewInv, OneQuery, Queries, SameIds
<1>7. ~dirty' => OneQuery(stack', rows')
  BY <1>2, <1>6 DEF OneQuery
<1>8. Heard' /\ ~dirty' =>
        \A k \in Queries(stack') : AnswerAgrees(stack'[k], wq', guiq', node'.pool)
  BY <1>2, <1>6
<1>9. Heard' /\ ~dirty' /\ synced' => Agrees(rows', guiq', node'.pool)
  <2> SUFFICES ASSUME Heard, ~dirty, synced' PROVE Agrees(rows', guiq, node.pool)
    BY <1>2 DEF Heard
  <2>1. Top.status = "ok" /\ rows' = Reverse(Top.got) \o (IF Top.by = "sync" THEN <<>> ELSE rows)
    BY DEF ReturnPool
  <2>2. Top.by # "sync" => rows = <<>>
    BY <1>3 DEF ViewInv, OneQuery
  <2>3. Agrees(Top.got, guiq, node.pool) /\ Top.got \in Seq(Txs)
    BY <1>3, <2>1 DEF ViewInv, AnswerAgrees, Frames
  <2>4. rows' = Reverse(Top.got)
    BY <1>1, <2>1, <2>2, <2>3, PoolAnswer
  <2>5. /\ ToSet(Reverse(Top.got)) = ToSet(Top.got)
        /\ IsInjective(Top.got) => IsInjective(Reverse(Top.got))
    BY <2>3, Reversed
  <2> QED
    BY <2>3, <2>4, <2>5 DEF Agrees
<1>10. Early' /\ ~dirty' =>
         ~synced' /\ \A k \in Queries(stack') : Unanswered(stack'[k], wq')
  <2>1. Early /\ ~dirty => Top.status # "ok" /\ \A k \in Queries(stack) : Unanswered(stack[k], wq)
    BY <1>3 DEF ViewInv, Unanswered
  <2>2. Top.status # "ok" => synced' = FALSE
    BY DEF ReturnPool
  <2>3. Early' <=> Early
    BY <1>2 DEF Early
  <2> QED
    BY <1>2, <1>4, <2>1, <2>2, <2>3, AnswersStay
<1> QED
  BY <1>7, <1>8, <1>9, <1>10 DEF ViewInv

\* poolUpdated, outside a query: the rows follow the news.
LEMMA ViewUpdated ==
  ASSUME CoreInv, NewsInv, RowsHaveData, ViewInv, OnPoolUpdated
  PROVE  ViewInv'
<1> DEFINE e == Head(guiq)
<1>1. /\ TypeInv /\ stack \in Seq(Frames) /\ wq \in Seq(Requests \cup Calls)
      /\ rows \in Seq(Txs) /\ node.pool \in SUBSET Txs
  BY DEF CoreInv, TypeInv, TypeOK
<1>2. /\ UNCHANGED <<stack, wq, node, synced>> /\ dirty' = (dirty \/ Querying(stack))
  BY DEF OnPoolUpdated
<1>3. /\ OneTx(e) /\ IsNews(e) /\ ~Early
      /\ \A t : Pending(guiq, t) <=> Pending(guiq', t) \/ About(e, t)
      /\ Heard => \A t \in Txs : About(e, t) /\ ~Pending(guiq', t) =>
                                   (t \in ToSet(e.add) <=> t \in node.pool)
  BY TakeNews
<1>4. /\ ToSet(rows') = (ToSet(rows) \cup (ToSet(e.add) \ shown)) \ e.del
      /\ IsInjective(rows) /\ IsInjective(e.add) /\ ToSet(rows) = shown
           => IsInjective(rows')
  BY <1>1, PoolNews
<1> HIDE DEF e
<1>5. ~dirty' => ~dirty /\ Queries(stack') = {}
  BY <1>2 DEF Queries, Querying
<1>6. (Heard' <=> Heard) /\ ~Early'
  BY <1>2, <1>3 DEF Heard, Early
<1>7. ASSUME Heard, ~dirty', synced PROVE Agrees(rows', guiq', node.pool)
  <2>1. Agrees(rows, guiq, node.pool) /\ ToSet(rows) = shown
    BY <1>2, <1>5, <1>7 DEF ViewInv, RowsHaveData
  <2>2. PICK u \in Txs : \/ e.add = <<u>> /\ e.del = {}
                         \/ e.add = <<>> /\ e.del = {u}
    BY <1>3 DEF OneTx
  <2>3. /\ ToSet(<<>>) = {} /\ ToSet(<<u>>) = {u}
        /\ IsInjective(<<>>) /\ IsInjective(<<u>>)
    BY DEF ToSet, IsInjective
  <2>4. IsInjective(rows')
    BY <1>4, <2>1, <2>2, <2>3 DEF Agrees
  <2>5. ASSUME NEW t \in Txs, ~Pending(guiq', t)
        PROVE  t \in ToSet(rows') <=> t \in node.pool
    <3>1. CASE About(e, t)
      <4>1. t \in ToSet(e.add) <=> t \in node.pool
        BY <1>3, <1>7, <2>5, <3>1
      <4>2. (t \in ToSet(e.add) /\ t \notin e.del) \/ (t \notin ToSet(e.add) /\ t \in e.del)
        BY <2>2, <2>3, <3>1 DEF About
      <4> QED
        BY <1>4, <2>1, <4>1, <4>2
    <3>2. CASE ~About(e, t)
      <4>1. t \notin ToSet(e.add) /\ t \notin e.del
        BY <1>3, <3>2 DEF About
      <4>2. t \in ToSet(rows) <=> t \in node.pool
        BY <1>3, <2>1, <2>5, <3>2 DEF Agrees
      <4> QED
        BY <1>4, <4>1, <4>2
    <3> QED
      BY <3>1, <3>2
  <2> QED
    BY <2>4, <2>5 DEF Agrees
<1> QED
  BY <1>2, <1>5, <1>6, <1>7 DEF ViewInv, OneQuery

LEMMA ViewNews ==
  ASSUME CoreInv, NewsInv, ViewInv, PoolChanges
  PROVE  ViewInv'
<1>1. UNCHANGED <<stack, wq, rows, synced>>
  BY DEF PoolChanges, NodeRest
<1>2. PICK u \in Txs :
        /\ \A t \in Txs : t # u => (t \in node'.pool <=> t \in node.pool)
        /\ Heard => \A t \in Txs : Pending(guiq', t) <=> Pending(guiq, t) \/ t = u
  BY MakeNews
<1>3. /\ (Heard' <=> Heard) /\ (Early' <=> Early) /\ dirty' = (dirty \/ ~Heard)
  BY MakeNews
<1>4. Heard => \A s : Agrees(s, guiq, node.pool) => Agrees(s, guiq', node'.pool)
  BY <1>2 DEF Agrees
<1>5. Heard => \A f : AnswerAgrees(f, wq, guiq, node.pool) =>
                        AnswerAgrees(f, wq, guiq', node'.pool)
  BY <1>4 DEF AnswerAgrees
<1> QED
  BY <1>1, <1>3, <1>4, <1>5 DEF ViewInv

LEMMA ViewInitialised ==
  ASSUME CoreInv, InitOnce, NewsInv, ViewInv, InitImpl
  PROVE  ViewInv'
<1>1. UNCHANGED <<stack, wq, rows, synced, dirty>>
  BY DEF InitImpl
<1>2. ~Heard /\ (Heard' => Early) /\ (Early' => Early)
  BY FirstNews
<1>3. Early /\ ~dirty => /\ \A k \in Queries(stack) : Unanswered(stack[k], wq)
                         /\ synced => Querying(stack)
  BY DEF ViewInv
<1>4. \A f, q, P : Unanswered(f, wq) => AnswerAgrees(f, wq, q, P)
  BY DEF Unanswered, AnswerAgrees
<1> QED
  BY <1>1, <1>2, <1>3, <1>4 DEF ViewInv

\* getPoolState: the answer lists the pool as it is now.
LEMMA ViewPoolState ==
  ASSUME CoreInv, NewsInv, ViewInv, GetPoolState
  PROVE  ViewInv'
<1>1. /\ stack \in Seq(Frames) /\ wq \in Seq(Requests \cup Calls)
      /\ node.pool \in SUBSET Txs /\ IsFiniteSet(node.pool)
      /\ job \in {NoJob} \cup Jobs
  BY DEF CoreInv, TypeInv, TypeOK
<1>2. /\ job.op = "pool" /\ UNCHANGED <<stack, node, guiq, rows, synced, dirty>>
  BY DEF GetPoolState, gui
<1>3. job.id \in Nat
  BY <1>1, <1>2, WorkingTyped
<1> DEFINE list == SetToSeq(node.pool)
<1>4. list \in Seq(Txs) /\ IsInjective(list) /\ ToSet(list) = node.pool
  <2>1. list \in Seq(node.pool) /\ IsInjective(list) /\ ToSet(list) = node.pool
    BY <1>1, Listed
  <2> QED
    BY <1>1, <2>1
<1>5. PICK cs \in Seq(Calls) :
        /\ wq' = wq \o cs
        /\ \A k \in DOMAIN cs : cs[k].status = "ok" => cs[k].got = list /\ node.inited
  <2>1. CASE Emit("pool", job.id, "fail", <<>>)
    <3>1. "fail" \in Ended /\ <<>> \in Seq(Txs)
      BY DEF Ended
    <3>2. PICK cs \in Seq(Calls) : wq' = wq \o cs /\ Posted(cs, "pool", job.id, "fail", <<>>)
      BY <1>1, <1>3, <2>1, <3>1, Emitted
    <3> QED
      BY <3>2 DEF Posted
  <2>2. CASE node.inited /\ Emit("pool", job.id, "ok", SetToSeq(node.pool))
    <3>1. "ok" \in Ended
      BY DEF Ended
    <3>2. PICK cs \in Seq(Calls) : wq' = wq \o cs /\ Posted(cs, "pool", job.id, "ok", list)
      BY <1>1, <1>3, <1>4, <2>2, <3>1, Emitted
    <3> QED
      BY <2>2, <3>2 DEF Posted
  <2> QED
    BY <2>1, <2>2 DEF GetPoolState
<1>6. Agrees(list, guiq, node.pool)
  BY <1>4 DEF Agrees
<1> HIDE DEF list
<1>7. \A k \in DOMAIN wq' : \/ \E l \in DOMAIN wq : wq'[k] = wq[l]
                            \/ \E l \in DOMAIN cs : wq'[k] = cs[l]
  BY <1>1, <1>5, JoinedIn
<1>8. \A f : AnswerAgrees(f, wq, guiq, node.pool) => AnswerAgrees(f, wq', guiq, node.pool)
  BY <1>5, <1>6, <1>7 DEF AnswerAgrees, OkCall
<1>9. Early => \A f : Unanswered(f, wq) => Unanswered(f, wq')
  BY <1>5, <1>7 DEF Unanswered, OkCall, Early
<1>10. (Heard' <=> Heard) /\ (Early' <=> Early)
  BY <1>2 DEF Heard, Early
<1> QED
  BY <1>2, <1>8, <1>9, <1>10 DEF ViewInv

\* A lambda stores an answer in its frame.
LEMMA ViewDeliver ==
  ASSUME CoreInv, ViewInv, Deliver
  PROVE  ViewInv'
<1> DEFINE c == Head(wq)
<1>1. /\ TypeInv /\ wq \in Seq(Requests \cup Calls)
  BY DEF CoreInv, TypeInv, TypeOK
<1>2. /\ UNCHANGED <<node, guiq, rows, synced, dirty>> /\ wq' = Tail(wq) /\ wq # <<>>
      /\ c = wq[1] /\ 1 \in DOMAIN wq
  <2>1. /\ UNCHANGED <<node, guiq, rows, synced, dirty>> /\ wq' = Tail(wq) /\ wq # <<>>
    BY DEF Deliver, Idle, gui
  <2>2. c = wq[1] /\ 1 \in DOMAIN wq
    BY <1>1, <2>1, TailQueue
  <2> QED
    BY <2>1, <2>2
<1>3. /\ DOMAIN stack' = DOMAIN stack /\ c \in Calls
      /\ \A k \in DOMAIN stack :
           /\ stack'[k].id = stack[k].id /\ stack'[k].op = stack[k].op
           /\ stack'[k].by = stack[k].by
           /\ stack[k].id # c.to => stack'[k] = stack[k]
           /\ stack[k].id = c.to =>
                /\ stack'[k].status = (IF stack[k].at = "wait" THEN stack[k].status
                                                              ELSE c.status)
                /\ stack'[k].got = (IF c.status = "ok" THEN c.got ELSE stack[k].got)
  BY <1>1, DeliverDoes
<1>4. IsCall(c)
  BY <1>3 DEF Calls, IsCall
<1> HIDE DEF c
<1>5. Queries(stack') = Queries(stack) /\ (Querying(stack') <=> Querying(stack))
  BY <1>3 DEF Queries, Querying
<1>6. \A k \in DOMAIN wq' : \E l \in DOMAIN wq : wq'[k] = wq[l]
  BY <1>1, <1>2, TailQueue
<1>7. ASSUME NEW k \in Queries(stack), AnswerAgrees(stack[k], wq, guiq, node.pool)
      PROVE  AnswerAgrees(stack'[k], wq', guiq, node.pool)
  <2>1. k \in DOMAIN stack /\ stack'[k].id = stack[k].id
    BY <1>3 DEF Queries
  <2>2. stack'[k].status = "ok" => Agrees(stack'[k].got, guiq, node.pool)
    <3>1. CASE stack[k].id # c.to
      BY <1>3, <1>7, <2>1, <3>1 DEF AnswerAgrees
    <3>2. CASE stack[k].id = c.to /\ c.status = "ok"
      <4>1. OkCall(wq[1], stack[k].id)
        BY <1>2, <1>4, <3>2 DEF OkCall
      <4> QED
        BY <1>2, <1>3, <1>7, <2>1, <3>2, <4>1 DEF AnswerAgrees
    <3>3. CASE stack[k].id = c.to /\ c.status # "ok"
      BY <1>3, <1>7, <2>1, <3>3 DEF AnswerAgrees
    <3> QED
      BY <3>1, <3>2, <3>3
  <2> QED
    BY <1>6, <1>7, <2>1, <2>2 DEF AnswerAgrees
<1>8. ASSUME NEW k \in Queries(stack), Unanswered(stack[k], wq)
      PROVE  Unanswered(stack'[k], wq')
  <2>1. k \in DOMAIN stack /\ stack'[k].id = stack[k].id
    BY <1>3 DEF Queries
  <2>2. stack[k].id = c.to => c.status # "ok"
    BY <1>2, <1>4, <1>8 DEF Unanswered, OkCall
  <2>3. stack'[k].status # "ok"
    BY <1>3, <1>8, <2>1, <2>2 DEF Unanswered
  <2> QED
    BY <1>6, <1>8, <2>1, <2>3 DEF Unanswered
<1>9. ~dirty => OneQuery(stack', rows)
  BY <1>3, <1>5 DEF ViewInv, OneQuery, Queries
<1>10. (Heard' <=> Heard) /\ (Early' <=> Early)
  BY <1>2 DEF Heard, Early
<1> QED
  BY <1>2, <1>5, <1>7, <1>8, <1>9, <1>10 DEF ViewInv

\* quit() answers a query it cuts short with an empty list.
LEMMA ViewQuit ==
  ASSUME CoreInv, ViewInv, Quit
  PROVE  ViewInv'
<1>1. /\ UNCHANGED <<wq, node, guiq, rows, synced>>
      /\ dirty' = (dirty \/ Querying(stack))
  BY DEF Quit
<1>2. /\ DOMAIN stack' = DOMAIN stack
      /\ \A k \in DOMAIN stack : stack'[k].op = stack[k].op
  BY QuitDoes DEF CoreInv
<1>3. ~Querying(stack) => Queries(stack') = {} /\ ~Querying(stack')
  BY <1>2 DEF Queries, Querying
<1>4. (Heard' <=> Heard) /\ (Early' <=> Early)
  BY <1>1 DEF Heard, Early
<1>5. CASE dirty'
  BY <1>5 DEF ViewInv
<1>6. CASE ~dirty'
  BY <1>1, <1>3, <1>4, <1>6 DEF ViewInv, OneQuery
<1> QED
  BY <1>5, <1>6

\* A node without explorer: nothing is heard of it.
LEMMA ViewWithout ==
  ASSUME CoreInv, ViewInv, InitCompletedWithout
  PROVE  ViewInv'
<1>1. stack' = <<>> /\ node' = [node EXCEPT !.life = "none"] /\ dirty' = dirty
  BY DEF InitCompletedWithout
<1>2. node'.life = "none"
  BY <1>1 DEF CoreInv, TypeInv, TypeOK
<1>3. Queries(stack') = {}
  BY <1>1 DEF Queries
<1>4. ~Heard' /\ ~Early'
  BY <1>2 DEF Heard, Early
<1> QED
  BY <1>3, <1>4 DEF ViewInv, OneQuery

-----------------------------------------------------------------------------
(* All together.                                                           *)

LEMMA ViewStep ==
  ASSUME CoreInv, OutInv, InitOnce, NewsInv, RowsHaveData, ViewInv, [Next]_vars
  PROVE  NewsInv' /\ ViewInv'
<1>1. CASE OnPoolUpdated
  BY <1>1, TakeNews, ViewUpdated
<1>2. CASE PoolChanges
  BY <1>2, MakeNews, ViewNews
<1>3. CASE InitImpl
  BY <1>3, FirstNews, ViewInitialised
<1>4. CASE ~(OnPoolUpdated \/ PoolChanges \/ InitImpl)
  <2>1. Quiet /\ Hears
    BY <1>4, QuietSteps
  <2>2. NewsInv'
    BY <2>1, QuietInv
  <2>3. CASE OnSynchronized \/ ReturnPreload
    BY <2>1, <2>2, <2>3, ViewSynchronized, ViewPreload
  <2>4. CASE ReturnPool \/ GetPoolState \/ Deliver
    BY <2>2, <2>4, ViewAnswered, ViewPoolState, ViewDeliver
  <2>5. CASE Quit \/ InitCompletedWithout
    BY <2>2, <2>5, ViewQuit, ViewWithout
  <2>6. CASE ~(\/ OnSynchronized \/ ReturnPreload \/ ReturnPool \/ GetPoolState
               \/ Deliver \/ Quit \/ InitCompletedWithout)
    <3>1. /\ From(stack, stack', "pool") /\ (Querying(stack) <=> Querying(stack'))
          /\ NoNewCall(stack', wq, wq') /\ UNCHANGED <<rows, synced, dirty>>
      BY <1>4, <2>6, CalmSteps
    <3>2. \A t : Pending(guiq', t) <=> Pending(guiq, t)
      BY <2>1, QuietNews
    <3> QED
      BY <2>1, <2>2, <3>1, <3>2, ViewCalm
  <2> QED
    BY <2>3, <2>4, <2>5, <2>6
<1> QED
  BY <1>1, <1>2, <1>3, <1>4

\* The invariant of the two models, on top of CoreInv and OutInv.
AllViews == InitOnce /\ NewsInv /\ RowsHaveData /\ RowsCoverChain /\ ViewInv

LEMMA ViewsInit == Init => AllViews
<1> SUFFICES ASSUME Init PROVE AllViews
  OBVIOUS
<1>1. /\ stack = <<>> /\ wq = <<>> /\ job.op = "none" /\ guiq = <<>>
      /\ rows = <<>> /\ shown = {} /\ last = Invalid /\ ~synced
      /\ ~node.inited /\ node.life = "new"
  BY DEF Init, NoJob
<1>2. DOMAIN stack = {} /\ DOMAIN wq = {} /\ DOMAIN guiq = {} /\ DOMAIN rows = {}
  BY <1>1
<1>3. InitOnce
  BY <1>1, <1>2 DEF InitOnce, NoInitFrame, OneInitFrame, Starting, NoInits, OneInit
<1>4. NewsInv
  BY <1>1, <1>2 DEF NewsInv, OneTxEach, NoNews, Heard
<1>5. RowsHaveData /\ RowsCoverChain
  BY <1>1, <1>2 DEF RowsHaveData, RowsCoverChain, ToSet
<1>6. ViewInv
  BY <1>1, <1>2 DEF ViewInv, OneQuery, Queries, Heard
<1> QED
  BY <1>3, <1>4, <1>5, <1>6 DEF AllViews

LEMMA ViewsMean == CoreInv /\ AllViews => ViewsShowNode
<1> SUFFICES ASSUME CoreInv, AllViews PROVE ViewsShowNode
  OBVIOUS
<1>1. /\ RowsHaveData /\ RowsCoverChain /\ ViewInv
      /\ node.pool \in SUBSET Txs /\ shown \in SUBSET Txs
  BY DEF AllViews, CoreInv, TypeInv, TypeOK
<1>2. ASSUME synced, ~dirty, Heard, ~Querying(stack), NoNews(guiq)
      PROVE  shown = node.pool /\ IsInjective(rows)
  <2>1. Agrees(rows, guiq, node.pool)
    BY <1>1, <1>2 DEF ViewInv
  <2>2. \A t : ~Pending(guiq, t)
    BY <1>2 DEF NoNews, Pending, About
  <2>3. ToSet(rows) = shown
    BY <1>1 DEF RowsHaveData
  <2> QED
    BY <1>1, <2>1, <2>2, <2>3 DEF Agrees
<1>3. PoolShown
  BY <1>2 DEF PoolShown, NoNews, IsNews
<1> QED
  BY <1>1, <1>3 DEF ViewsShowNode

\* The explorer's rows cover the chain NodeStateModel has counted, every row of
\* the pool view has its entry in the map getUserRole reads, and once nothing
\* is on its way, and no news was missed or handled inside a query, the pool
\* view lists each transaction of the pool once.
THEOREM ViewsFollowNode == Spec => []ViewsShowNode
<1>1. Init => AllViews
  BY ViewsInit
<1>2. CoreInv /\ OutInv /\ AllViews /\ [Next]_vars => AllViews'
  BY InitStep, RowsStep, ViewStep DEF AllViews
<1>3. CoreInv /\ AllViews => ViewsShowNode
  BY ViewsMean
<1> QED
  BY <1>1, <1>2, <1>3, CoreAlways, OutAlways, PTL DEF Spec
=============================================================================
