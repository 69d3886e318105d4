------------------------ MODULE NodeConnection_proofs ------------------------
(***************************************************************************)
(* Proofs about NodeConnection, for every number of adapters and reports,  *)
(* every set of methods and failures, and every timing.  The values the    *)
(* actions are built from come first: adapter records, stacks of frames    *)
(* and queues.  Then type correctness with the shape of the stack, from it *)
(* that no two nodes run at once, and last that the program ends with no   *)
(* worker's thread left.                                                   *)
(***************************************************************************)
EXTENDS NodeConnection, TLAPS

-----------------------------------------------------------------------------
(* Stacks of frames.                                                       *)

\* A frame that waits for an adapter names one, and goes on as one of these.
NamesAdapter(f) ==
  f.k \in {"rpcWait", "join"} => f.a # 0 /\ f.why \in {"notFound", "deinit"}

\* A frame that returns to the application has a frame below it.
NeedsBelow(f) == f.k \in {"initLoop", "dialog"} \/ f.why = "deinit"

Stacks ==
  {s \in Seq(Frame) : \A i \in DOMAIN s :
     NamesAdapter(s[i]) /\ (NeedsBelow(s[i]) => i < Len(s))}

\* Pushing a frame keeps a stack well formed.
LEMMA Push ==
  ASSUME NEW s \in Stacks, NEW f \in Frame, NamesAdapter(f),
         NeedsBelow(f) => s # <<>>
  PROVE  <<f>> \o s \in Stacks /\ <<f>> \o s # <<>>
<1> DEFINE t == <<f>> \o s
<1>1. /\ s \in Seq(Frame) /\ t \in Seq(Frame)
      /\ Len(t) = Len(s) + 1 /\ Len(s) \in Nat
      /\ t[1] = f /\ \A i \in 2 .. Len(t) : t[i] = s[i - 1]
  BY DEF Stacks
<1>2. ASSUME NEW i \in DOMAIN t
      PROVE  NamesAdapter(t[i]) /\ (NeedsBelow(t[i]) => i < Len(t))
  <2>1. CASE i = 1
    BY <1>1, <2>1
  <2>2. CASE i # 1
    <3>1. i \in 2 .. Len(t) /\ i - 1 \in DOMAIN s
      BY <1>1, <2>2
    <3> QED
      BY <1>1, <3>1 DEF Stacks
  <2> QED
    BY <2>1, <2>2
<1>3. t # <<>>
  BY <1>1
<1> HIDE DEF t
<1>4. t \in Stacks
  BY <1>1, <1>2 DEF Stacks
<1> QED
  BY <1>3, <1>4 DEF t

\* So does returning from the top frame.
LEMMA Pop ==
  ASSUME NEW s \in Stacks, s # <<>>
  PROVE  /\ Tail(s) \in Stacks /\ Head(s) \in Frame /\ NamesAdapter(Head(s))
         /\ Head(s) = s[1]
         /\ NeedsBelow(Head(s)) => /\ Tail(s) # <<>>
                                   /\ Head(Tail(s)) = s[2] /\ s[2] \in Frame
<1> DEFINE t == Tail(s)
<1>1. /\ s \in Seq(Frame) /\ t \in Seq(Frame) /\ Len(s) \in Nat \ {0}
      /\ Len(t) = Len(s) - 1 /\ Head(s) = s[1] /\ 1 \in DOMAIN s
      /\ \A i \in 1 .. Len(t) : t[i] = s[i + 1] /\ i + 1 \in DOMAIN s
  BY DEF Stacks
<1>2. ASSUME NEW i \in DOMAIN t
      PROVE  NamesAdapter(t[i]) /\ (NeedsBelow(t[i]) => i < Len(t))
  BY <1>1 DEF Stacks
<1>3. t \in Stacks
  BY <1>1, <1>2 DEF Stacks
<1>4. NeedsBelow(s[1]) => 1 < Len(s)
  BY <1>1 DEF Stacks
<1> HIDE DEF t
<1> QED
  BY <1>1, <1>3, <1>4 DEF Stacks, t

\* A frame is told to end: only exit changes.
SameFrame(f, g) == f.k = g.k /\ f.a = g.a /\ f.why = g.why

LEMMA Retold ==
  ASSUME NEW s \in Stacks, NEW t, t = [i \in DOMAIN s |-> t[i]],
         \A i \in DOMAIN s : t[i] \in Frame /\ SameFrame(t[i], s[i])
  PROVE  t \in Stacks /\ (s # <<>> => t # <<>>)
<1>1. DOMAIN s = 1 .. Len(s) /\ Len(s) \in Nat /\ s \in Seq(Frame)
  BY DEF Stacks
<1>2. t \in Seq(Frame) /\ Len(t) = Len(s)
  BY <1>1
<1> QED
  BY <1>1, <1>2 DEF Stacks, SameFrame, NamesAdapter, NeedsBelow

\* Only the caller's note on the way back changes.
LEMMA Noted ==
  ASSUME NEW f \in Frame, NEW exit \in {"no", "bind"}
  PROVE  [f EXCEPT !.exit = exit] \in Frame /\ SameFrame([f EXCEPT !.exit = exit], f)
  BY DEF Frame, SameFrame

-----------------------------------------------------------------------------
(* Adapters.                                                               *)

LEMMA FreshTyped ==
  ASSUME NEW kind \in {"rpc", "inproc"}
  PROVE  Fresh(kind) \in Adapter /\ Fresh(kind).worker
<1>1. <<"initImpl">> \in Seq({"initImpl", "deinitImpl"})
  OBVIOUS
<1> QED
  BY <1>1 DEF Fresh, NoAdapter, Adapter, Places

LEMMA NoAdapterTyped ==
  /\ NoAdapter \in Adapter
  /\ NoAdapter.worker = FALSE /\ NoAdapter.thread = "off"
<1>1. <<>> \in Seq({"initImpl", "deinitImpl"})
  OBVIOUS
<1> QED
  BY <1>1 DEF NoAdapter, Adapter, Places

\* Two tables of adapters with the same workers and threads.
SameWorkers(x, y) ==
  \A b \in Adapters : x[b].worker = y[b].worker /\ x[b].thread = y[b].thread

LEMMA KeepTyped ==
  ASSUME NEW adv \in [Adapters -> Adapter], NEW a \in Adapters
  PROVE  /\ KeepExplorer(adv, a) \in [Adapters -> Adapter]
         /\ SameWorkers(KeepExplorer(adv, a), adv)
<1> DEFINE c == adv[a].cached \/ adv[a].explorer
           r == [adv[a] EXCEPT !.cached = c]
<1>1. KeepExplorer(adv, a) = [adv EXCEPT ![a] = r]
  BY DEF KeepExplorer
<1>2. c \in BOOLEAN
  BY DEF Adapter
<1> HIDE DEF c
<1>3. r \in Adapter /\ r.worker = adv[a].worker /\ r.thread = adv[a].thread
  <2>1. adv[a] \in Adapter
    OBVIOUS
  <2>2. r \in Adapter
    BY <2>1, <1>2, Zenon DEF Adapter
  <2>3. r.worker = adv[a].worker /\ r.thread = adv[a].thread
    BY <2>1, SMT DEF Adapter
  <2> QED
    BY <2>2, <2>3
<1> HIDE DEF r
<1> QED
  BY <1>1, <1>3 DEF SameWorkers

LEMMA DroppedTyped ==
  ASSUME ad \in [Adapters -> Adapter], NEW a \in Adapters
  PROVE  /\ Dropped(a) \in [Adapters -> Adapter]
         /\ Dropped(a)[a].worker = FALSE /\ Dropped(a)[a].thread = ad[a].thread
         /\ \A b \in Adapters \ {a} : Dropped(a)[b] = ad[b]
<1> DEFINE r == [ad[a] EXCEPT !.worker = FALSE, !.cached = FALSE]
<1>1. Dropped(a) = [ad EXCEPT ![a] = r]
  BY DEF Dropped
<1>2. r \in Adapter /\ r.worker = FALSE /\ r.thread = ad[a].thread
  <2>1. ad[a] \in Adapter
    OBVIOUS
  <2>2. r \in Adapter
    BY <2>1, Zenon DEF Adapter
  <2>3. r.worker = FALSE /\ r.thread = ad[a].thread
    BY <2>1, SMT DEF Adapter
  <2> QED
    BY <2>2, <2>3
<1> HIDE DEF r
<1> QED
  BY <1>1, <1>2

\* Stopping a node: the table, and the frame that waits.
LEMMA StopTyped ==
  ASSUME NEW adv \in [Adapters -> Adapter], NEW a \in Adapters,
         NEW why \in {"notFound", "deinit"},
         NEW opened \in {"no", "never"}, NEW below \in Stacks, below # <<>>,
         StopNode(adv, a, why, opened, below)
  PROVE  /\ ad' \in [Adapters -> Adapter]
         /\ stack' \in Stacks
         /\ \A b \in Adapters :
              /\ ad'[b].worker = adv[b].worker
              /\ \/ ad'[b].thread = adv[b].thread
                 \/ b = a /\ ad'[b].thread = "leaving"
<1>0. a # 0
  BY DEF Adapters
<1>1. CASE adv[a].kind = "rpc"
  <2> DEFINE r == [adv[a] EXCEPT !.connected = FALSE,
                                 !.calls = Append(adv[a].calls, "deinitImpl")]
  <2> DEFINE f == FrameOf("rpcWait", a, why, opened)
  <2>1. ad' = [adv EXCEPT ![a] = r] /\ stack' = <<f>> \o below
    BY <1>1 DEF StopNode
  <2>2. Append(adv[a].calls, "deinitImpl") \in Seq({"initImpl", "deinitImpl"})
    BY DEF Adapter
  <2>3. r \in Adapter /\ r.worker = adv[a].worker /\ r.thread = adv[a].thread
    <3>1. adv[a] \in Adapter
      OBVIOUS
    <3>2. r \in Adapter
      BY <3>1, <2>2, Zenon DEF Adapter
    <3>3. r.worker = adv[a].worker /\ r.thread = adv[a].thread
      BY <3>1, SMT DEF Adapter
    <3> QED
      BY <3>2, <3>3
  <2>4. f \in Frame /\ f.k = "rpcWait" /\ f.a = a /\ f.why = why
    BY DEF FrameOf, Frame
  <2> HIDE DEF r, f
  <2>5. stack' \in Stacks
    BY <1>0, <2>1, <2>4, Push DEF NamesAdapter, NeedsBelow
  <2> QED
    BY <2>1, <2>3, <2>5
<1>2. CASE adv[a].kind # "rpc"
  <2> DEFINE r == [adv[a] EXCEPT !.connected = FALSE,
                                 !.stop = AskedToStop(adv[a]),
                                 !.thread = Told(adv[a].thread)]
  <2> DEFINE f == FrameOf("join", a, why, "no")
  <2>1. ad' = [adv EXCEPT ![a] = r] /\ stack' = <<f>> \o below
    BY <1>2 DEF StopNode
  <2>2. AskedToStop(adv[a]) \in BOOLEAN
    BY DEF AskedToStop, Adapter
  <2>3. /\ Told(adv[a].thread) \in {"off", "running", "leaving", "over"}
        /\ Told(adv[a].thread) \in {adv[a].thread, "leaving"}
    BY DEF Told, Adapter
  <2>4. /\ r \in Adapter /\ r.worker = adv[a].worker
        /\ r.thread \in {adv[a].thread, "leaving"}
    <3> DEFINE told == Told(adv[a].thread)
               asked == AskedToStop(adv[a])
    <3>1. /\ told \in {"off", "running", "leaving", "over"} /\ asked \in BOOLEAN
          /\ told \in {adv[a].thread, "leaving"}
      BY <2>2, <2>3
    <3>2. r = [adv[a] EXCEPT !.connected = FALSE, !.stop = asked,
                             !.thread = told]
      OBVIOUS
    <3> HIDE DEF told, asked
    <3>3. adv[a] \in Adapter
      OBVIOUS
    <3>4. [adv[a] EXCEPT !.connected = FALSE, !.stop = asked, !.thread = told]
            \in Adapter
      BY <3>1, <3>3, Zenon DEF Adapter
    <3>5. /\ [adv[a] EXCEPT !.connected = FALSE, !.stop = asked, !.thread = told].worker
              = adv[a].worker
          /\ [adv[a] EXCEPT !.connected = FALSE, !.stop = asked, !.thread = told].thread
              = told
      BY <3>3, SMT DEF Adapter
    <3> HIDE DEF r
    <3> QED
      BY <3>1, <3>2, <3>4, <3>5
  <2>5. f \in Frame /\ f.k = "join" /\ f.a = a /\ f.why = why
    BY DEF FrameOf, Frame
  <2> HIDE DEF r, f
  <2>6. stack' \in Stacks
    BY <1>0, <2>1, <2>5, Push DEF NamesAdapter, NeedsBelow
  <2> QED
    BY <2>1, <2>4, <2>6
<1> QED
  BY <1>1, <1>2

\* A field of an adapter record other than worker and thread changes.
LEMMA EditTyped ==
  ASSUME ad \in [Adapters -> Adapter], OneWorker,
         NEW a \in Adapters, NEW r \in Adapter,
         r.worker = ad[a].worker, r.thread \in {ad[a].thread, "over"},
         ad' = [ad EXCEPT ![a] = r], current' = current
  PROVE  ad' \in [Adapters -> Adapter] /\ OneWorker'
BY DEF OneWorker, Running

-----------------------------------------------------------------------------
(* The inductive invariant.  OneNode alone is not inductive: that the node *)
(* started next is the only one rests on the old one's worker having been  *)
(* dropped, and that a worker is dropped for the adapter in place rests on *)
(* the stack, whose frames name the adapters that are being stopped.       *)

IInv == TypeOK /\ stack \in Stacks /\ OneWorker

\* The adapter in place is one of the adapters.
LEMMA InPlace ==
  ASSUME TypeOK, current # 0
  PROVE  current \in Adapters
BY ConnectionAssumption DEF TypeOK, Adapters

\* The program stops.
LEMMA FailKeeps ==
  ASSUME IInv, NEW site \in Sites, Fail(site)
  PROVE  IInv'
<1>1. TypeOK'
  BY DEF IInv, TypeOK, Fail
<1>2. stack' \in Stacks
  BY DEF IInv, Fail
<1>3. OneWorker'
  BY DEF IInv, Fail, OneWorker, Running
<1> QED
  BY <1>1, <1>2, <1>3 DEF IInv

\* A new adapter comes when no other one has a worker.
LEMMA StartKeeps ==
  ASSUME IInv, NEW adv \in [Adapters -> Adapter],
         \A b \in Adapters : ~adv[b].worker /\ adv[b].thread \notin {"running", "leaving"},
         NEW kind \in {"rpc", "inproc"}, used < MaxAdapters,
         ad' = [adv EXCEPT ![used + 1] = Fresh(kind)],
         current' = used + 1, used' = used + 1
  PROVE  /\ ad' \in [Adapters -> Adapter] /\ OneWorker'
         /\ used' \in 0 .. MaxAdapters /\ current' \in 0 .. used'
<1>1. used + 1 \in Adapters /\ used \in Nat /\ MaxAdapters \in Nat
  BY ConnectionAssumption DEF IInv, TypeOK, Adapters
<1>2. Fresh(kind) \in Adapter /\ Fresh(kind).worker = TRUE
  BY FreshTyped DEF Adapter
<1>3. ad' \in [Adapters -> Adapter]
  BY <1>1, <1>2
<1>4. \A b \in Adapters : ad'[b] = IF b = used + 1 THEN Fresh(kind) ELSE adv[b]
  BY <1>1
<1>5. OneWorker'
  BY <1>2, <1>4 DEF OneWorker, Running
<1> QED
  BY <1>1, <1>3, <1>5

\* The adapter in place is told to stop; it stays in place until it has.
LEMMA StopKeeps ==
  ASSUME IInv, NEW adv \in [Adapters -> Adapter], SameWorkers(adv, ad),
         current # 0, NEW why \in {"notFound", "deinit"},
         NEW opened \in {"no", "never"}, NEW below \in Stacks, below # <<>>,
         StopNode(adv, current, why, opened, below), current' = current
  PROVE  ad' \in [Adapters -> Adapter] /\ stack' \in Stacks /\ OneWorker'
<1>1. current \in Adapters
  BY InPlace DEF IInv
<1>2. /\ ad' \in [Adapters -> Adapter] /\ stack' \in Stacks
      /\ \A b \in Adapters :
           /\ ad'[b].worker = adv[b].worker
           /\ \/ ad'[b].thread = adv[b].thread
              \/ b = current /\ ad'[b].thread = "leaving"
  BY <1>1, StopTyped
<1>3. OneWorker'
  BY <1>1, <1>2 DEF IInv, OneWorker, Running, SameWorkers
<1> QED
  BY <1>2, <1>3

\* A signal joins the queue.
LEMMA SendTyped ==
  ASSUME IInv, NEW a \in Adapters, NEW t \in {"init", "report", "lost", "loop"},
         NEW s \in Statuses, NEW n \in Nat
  PROVE  Append(inbox, Signal(t, a, s, n)) \in Seq(Event)
<1>1. Signal(t, a, s, n) \in Event
  BY DEF Signal, Event
<1> QED
  BY <1>1 DEF IInv, TypeOK

-----------------------------------------------------------------------------
(* The GUI thread's own steps.                                             *)

\* The frame on top, and the one below it.
LEMMA TopTyped ==
  ASSUME IInv, Alive
  PROVE  /\ Top \in Frame /\ NamesAdapter(Top) /\ Tail(stack) \in Stacks
         /\ NeedsBelow(Top) => Tail(stack) # <<>> /\ Caller = Head(Tail(stack))
BY Pop DEF IInv, Alive, Top, Caller

\* A loop for the RPC worker's wait or for the port dialog.
LEMMA OpenedTyped == Opened \in {"no", "never"}
BY DEF Opened

\* init() is called with an adapter record for every method.
LEMMA StartNodeKeeps ==
  ASSUME IInv, NEW below \in Stacks, below # <<>>,
         NEW adv \in [Adapters -> Adapter],
         \A b \in Adapters : ~adv[b].worker /\ adv[b].thread \notin {"running", "leaving"},
         NEW m \in Methods, StartNode(below, adv, m),
         UNCHANGED <<shots, inbox, window, quitNow, quits, reports, fault>>
  PROVE  IInv'
<1> DEFINE kind == IF m = "EMBEDDED" THEN "inproc" ELSE "rpc"
<1> DEFINE f == FrameOf("initLoop", 0, "", Opened)
<1>1. /\ used < MaxAdapters
      /\ ad' = [adv EXCEPT ![used + 1] = Fresh(kind)]
      /\ used' = used + 1 /\ current' = used + 1
      /\ timer' = (timer \/ m = "AUTO") /\ method' = m /\ answers' = 0
      /\ stack' = <<f>> \o below
  BY DEF StartNode
<1>2. kind \in {"rpc", "inproc"}
  OBVIOUS
<1>3. f \in Frame /\ f.k = "initLoop"
  BY OpenedTyped DEF FrameOf, Frame
<1> HIDE DEF kind, f
<1>4. /\ ad' \in [Adapters -> Adapter] /\ OneWorker'
      /\ used' \in 0 .. MaxAdapters /\ current' \in 0 .. used'
  BY <1>1, <1>2, StartKeeps
<1>5. stack' \in Stacks
  BY <1>1, <1>3, Push DEF NamesAdapter
<1>6. TypeOK'
  BY <1>1, <1>4, <1>5 DEF IInv, TypeOK, Stacks
<1> QED
  BY <1>4, <1>5, <1>6 DEF IInv

LEMMA BootKeeps ==
  ASSUME IInv, Boot
  PROVE  IInv'
<1>1. /\ stack # <<>> /\ used = 0 /\ StartNode(stack, ad, method)
      /\ UNCHANGED <<shots, inbox, window, quitNow, quits, reports, fault>>
  BY DEF Boot, Alive
<1>2. current = 0
  BY <1>1 DEF IInv, TypeOK
<1>3. \A b \in Adapters : ~ad[b].worker /\ ad[b].thread \notin {"running", "leaving"}
  BY <1>2 DEF IInv, OneWorker, Running, Adapters
<1> QED
  BY <1>1, <1>3, StartNodeKeeps DEF IInv, TypeOK

\* The node is stopped from the stack `below', for reinit, quit or a failed
\* start.
LEMMA DeinitKeeps ==
  ASSUME IInv, current # 0, NEW opened \in {"no", "never"},
         NEW below \in Stacks, below # <<>>,
         StopNode(KeepExplorer(ad, current), current, "deinit", opened, below),
         UNCHANGED <<used, current, timer, shots, inbox, reports, answers, fault>>,
         method' \in Methods, window' \in {"none", "disabled", "enabled", "hidden"},
         quitNow' \in BOOLEAN, quits' = quits
  PROVE  IInv'
<1>1. current \in Adapters
  BY InPlace DEF IInv
<1>2. /\ KeepExplorer(ad, current) \in [Adapters -> Adapter]
      /\ SameWorkers(KeepExplorer(ad, current), ad)
  BY <1>1, KeepTyped DEF IInv, TypeOK
<1>3. ad' \in [Adapters -> Adapter] /\ stack' \in Stacks /\ OneWorker'
  BY <1>2, StopKeeps
<1>4. TypeOK'
  BY <1>3 DEF IInv, TypeOK, Stacks
<1> QED
  BY <1>3, <1>4 DEF IInv

LEMMA ReinitKeeps ==
  ASSUME IInv, NEW m \in Methods, Reinit(m)
  PROVE  IInv'
<1>1. CASE ~HasNode(current)
  BY <1>1, FailKeeps DEF Reinit, Sites
<1>2. CASE HasNode(current)
  <2> DEFINE f == FrameOf("app", 0, "reinit", "no")
  <2>1. f \in Frame /\ f.k = "app" /\ f.why = "reinit"
    BY DEF FrameOf, Frame
  <2>2. /\ current # 0 /\ stack # <<>> /\ stack \in Stacks
        /\ StopNode(KeepExplorer(ad, current), current, "deinit", Opened, <<f>> \o stack)
        /\ UNCHANGED <<used, current, timer, shots, inbox, reports, answers, fault>>
        /\ method' = m /\ window' = "disabled" /\ quitNow' = quitNow /\ quits' = quits
    BY <1>2 DEF Reinit, HasNode, Looping, Alive, IInv
  <2> HIDE DEF f
  <2>3. <<f>> \o stack \in Stacks /\ <<f>> \o stack # <<>>
    BY <2>1, <2>2, Push DEF NamesAdapter, NeedsBelow
  <2>4. quitNow' \in BOOLEAN
    BY <2>2 DEF IInv, TypeOK
  <2> QED
    BY <2>2, <2>3, <2>4, OpenedTyped, DeinitKeeps
<1> QED
  BY <1>1, <1>2

LEMMA MainReturnsKeeps ==
  ASSUME IInv, MainReturns
  PROVE  IInv'
<1>1. CASE ~HasNode(current)
  BY <1>1, FailKeeps DEF MainReturns, Sites
<1>2. CASE HasNode(current)
  <2> DEFINE f == FrameOf("app", 0, "quit", "no")
  <2>1. f \in Frame /\ f.k = "app" /\ f.why = "quit"
    BY DEF FrameOf, Frame
  <2>2. /\ current # 0 /\ method' = method /\ method \in Methods
        /\ StopNode(KeepExplorer(ad, current), current, "deinit", "no", <<f>>)
        /\ UNCHANGED <<used, current, timer, shots, inbox, reports, answers, fault>>
        /\ window' = "hidden" /\ quitNow' = FALSE /\ quits' = quits
    BY <1>2 DEF MainReturns, HasNode, IInv, TypeOK
  <2> HIDE DEF f
  <2>3. <<f>> \in Stacks /\ <<f>> # <<>>
    BY <2>1 DEF NamesAdapter, NeedsBelow, Stacks
  <2> QED
    BY <2>2, <2>3, DeinitKeeps
<1> QED
  BY <1>1, <1>2

\* Only the stack and the variables without structure change.
LEMMA StackKeeps ==
  ASSUME IInv, stack' \in Stacks,
         UNCHANGED <<ad, used, current, timer, shots, inbox, method, reports>>,
         window' \in {"none", "disabled", "enabled", "hidden"},
         quitNow' \in BOOLEAN, quits' \in BOOLEAN, answers' \in Nat,
         fault' \in Sites
  PROVE  IInv'
<1>1. TypeOK'
  BY DEF IInv, TypeOK, Stacks
<1>2. OneWorker'
  BY DEF IInv, OneWorker, Running
<1> QED
  BY <1>1, <1>2 DEF IInv

\* A single frame that waits for no adapter is a stack.
LEMMA Single ==
  ASSUME NEW f \in Frame, f.k \in {"main", "app"}, f.why # "deinit"
  PROVE  <<f>> \in Stacks /\ <<f>> # <<>>
BY DEF NamesAdapter, NeedsBelow, Stacks

LEMMA FirstSuccessKeeps ==
  ASSUME IInv, FirstSuccess
  PROVE  IInv'
<1>1. CASE ~HasNode(current)
  BY <1>1, FailKeeps DEF FirstSuccess, Sites
<1>2. CASE HasNode(current)
  <2> DEFINE f == FrameOf("main", 0, "", "no")
  <2>1. f \in Frame /\ f.k = "main" /\ f.why = ""
    BY DEF FrameOf, Frame
  <2>2. /\ stack' = <<f>> /\ window' = "enabled" /\ quitNow' = FALSE
        /\ UNCHANGED <<ad, used, current, timer, shots, inbox, method, quits,
                       reports, answers, fault>>
    BY <1>2 DEF FirstSuccess
  <2> HIDE DEF f
  <2>3. stack' \in Stacks
    BY <2>1, <2>2, Single
  <2>4. quits' \in BOOLEAN /\ answers' \in Nat /\ fault' \in Sites
    BY <2>2 DEF IInv, TypeOK
  <2> QED
    BY <2>2, <2>3, <2>4, StackKeeps
<1> QED
  BY <1>1, <1>2

\* init's frame and its caller below it.
LEMMA CallerTyped ==
  ASSUME IInv, Alive, Top.k = "initLoop"
  PROVE  /\ Tail(stack) \in Stacks /\ Tail(stack) # <<>>
         /\ Caller = Head(Tail(stack)) /\ Caller \in Frame
         /\ NamesAdapter(Caller) /\ Tail(Tail(stack)) \in Stacks
         /\ NeedsBelow(Caller) => Tail(Tail(stack)) # <<>>
<1>1. /\ Tail(stack) \in Stacks /\ Tail(stack) # <<>>
      /\ Caller = Head(Tail(stack))
  BY TopTyped DEF NeedsBelow
<1> QED
  BY <1>1, Pop

LEMMA BindFailedKeeps ==
  ASSUME IInv, BindFailed
  PROVE  IInv'
<1>1. CASE ~CanAskExplorer(current)
  BY <1>1, FailKeeps DEF BindFailed, Sites
<1>2. CASE CanAskExplorer(current)
  <2> DEFINE f == [Caller EXCEPT !.exit = "bind"]
  <2>1. Alive /\ Top.k = "initLoop"
    BY DEF BindFailed, Returned
  <2>2. f \in Frame /\ SameFrame(f, Caller)
    BY <2>1, CallerTyped, Noted
  <2>3. /\ current # 0
        /\ StopNode(KeepExplorer(ad, current), current, "deinit", Opened,
                    <<f>> \o Tail(Tail(stack)))
        /\ UNCHANGED <<used, current, timer, shots, inbox, method, window,
                       quitNow, quits, reports, answers, fault>>
    BY <1>2 DEF BindFailed, CanAskExplorer
  <2> HIDE DEF f
  <2>4. /\ <<f>> \o Tail(Tail(stack)) \in Stacks
        /\ <<f>> \o Tail(Tail(stack)) # <<>>
    BY <2>1, <2>2, CallerTyped, Push DEF SameFrame, NamesAdapter, NeedsBelow
  <2>5. /\ method' \in Methods /\ quitNow' \in BOOLEAN
        /\ window' \in {"none", "disabled", "enabled", "hidden"}
    BY <2>3 DEF IInv, TypeOK
  <2> QED
    BY <2>3, <2>4, <2>5, OpenedTyped, DeinitKeeps
<1> QED
  BY <1>1, <1>2

\* Giving up leaves a stack.
LEMMA GiveUpTyped ==
  ASSUME NEW s \in Stacks, s # <<>>
  PROVE  GiveUp(s) \in Stacks
<1>1. <<>> \in Stacks
  BY DEF Stacks
<1> QED
  BY <1>1, Pop DEF GiveUp

LEMMA InitOverKeeps ==
  ASSUME IInv, InitOver
  PROVE  IInv'
<1>1. /\ Alive /\ Top.k = "initLoop"
      /\ stack' = Tail(Tail(stack)) \/ stack' = GiveUp(Tail(stack))
      /\ UNCHANGED <<ad, used, current, timer, shots, inbox, method, window,
                     quitNow, quits, reports, answers, fault>>
  BY DEF InitOver, Returned
<1>2. stack' \in Stacks
  BY <1>1, CallerTyped, GiveUpTyped
<1>3. /\ window' \in {"none", "disabled", "enabled", "hidden"}
      /\ quitNow' \in BOOLEAN /\ quits' \in BOOLEAN /\ answers' \in Nat
      /\ fault' \in Sites
  BY <1>1 DEF IInv, TypeOK
<1> QED
  BY <1>1, <1>2, <1>3, StackKeeps

LEMMA PortRejectedKeeps ==
  ASSUME IInv, PortRejected
  PROVE  IInv'
<1>1. /\ Alive /\ Top.k = "dialog" /\ stack' = GiveUp(Tail(stack))
      /\ UNCHANGED <<ad, used, current, timer, shots, inbox, method, window,
                     quitNow, quits, reports, answers, fault>>
  BY DEF PortRejected
<1>2. stack' \in Stacks
  BY <1>1, TopTyped, GiveUpTyped DEF NeedsBelow
<1>3. /\ window' \in {"none", "disabled", "enabled", "hidden"}
      /\ quitNow' \in BOOLEAN /\ quits' \in BOOLEAN /\ answers' \in Nat
      /\ fault' \in Sites
  BY <1>1 DEF IInv, TypeOK
<1> QED
  BY <1>1, <1>2, <1>3, StackKeeps

\* A loop is told how to end.
LEMMA ToldTyped ==
  ASSUME NEW f \in Frame,
         NEW exit \in {"no", "done", "quit", "never", "bind"} \cup Statuses
  PROVE  [f EXCEPT !.exit = exit] \in Frame /\ SameFrame([f EXCEPT !.exit = exit], f)
BY DEF Frame, SameFrame

LEMMA QuitKeeps ==
  ASSUME IInv, Quit
  PROVE  IInv'
<1> DEFINE g(f) ==
      IF f.k \in {"app", "join"} THEN f
      ELSE IF f.k = "initLoop" /\ f.exit \in Statuses
           THEN [f EXCEPT !.exit = "INIT_SUCCESS"]
           ELSE [f EXCEPT !.exit = IF f.exit = "no" THEN "quit" ELSE f.exit]
<1>1. /\ stack' = [i \in DOMAIN stack |-> g(stack[i])]
      /\ quits' = TRUE /\ quitNow' = TRUE
      /\ UNCHANGED <<ad, used, current, timer, shots, inbox, method, window,
                     reports, answers, fault>>
  BY DEF Quit
<1>2. \A f \in Frame : g(f) \in Frame /\ SameFrame(g(f), f)
  <2> SUFFICES ASSUME NEW f \in Frame
               PROVE  g(f) \in Frame /\ SameFrame(g(f), f)
    OBVIOUS
  <2>1. "INIT_SUCCESS" \in {"no", "done", "quit", "never", "bind"} \cup Statuses
    BY DEF Statuses
  <2>2. (IF f.exit = "no" THEN "quit" ELSE f.exit)
          \in {"no", "done", "quit", "never", "bind"} \cup Statuses
    BY DEF Frame
  <2> QED
    BY <2>1, <2>2, ToldTyped DEF SameFrame
<1>3. \A i \in DOMAIN stack : stack[i] \in Frame
  BY DEF IInv, Stacks
<1> HIDE DEF g
<1>4. /\ stack' = [i \in DOMAIN stack |-> stack'[i]]
      /\ \A i \in DOMAIN stack : stack'[i] \in Frame /\ SameFrame(stack'[i], stack[i])
  BY <1>1, <1>2, <1>3
<1>5. stack' \in Stacks
  BY <1>4, Retold DEF IInv
<1>6. /\ window' \in {"none", "disabled", "enabled", "hidden"}
      /\ answers' \in Nat /\ fault' \in Sites
      /\ UNCHANGED <<ad, used, current, timer, shots, inbox, method, reports>>
  BY <1>1 DEF IInv, TypeOK
<1> QED
  BY <1>1, <1>5, <1>6, StackKeeps

\* The frame on top waits for an adapter that still has its worker, which is
\* then the adapter in place.
LEMMA WaitedFor ==
  ASSUME IInv, Alive, Top.k \in {"rpcWait", "join"}, ad[Top.a].worker
  PROVE  /\ Top.a \in Adapters /\ Top.a = current
         /\ Top.why \in {"notFound", "deinit"}
<1>1. Top \in Frame /\ NamesAdapter(Top)
  BY TopTyped
<1>2. Top.a \in Adapters /\ Top.why \in {"notFound", "deinit"}
  BY <1>1 DEF NamesAdapter, Frame
<1> QED
  BY <1>2 DEF IInv, OneWorker

LEMMA RpcWaitReturnsKeeps ==
  ASSUME IInv, RpcWaitReturns
  PROVE  IInv'
<1>1. Alive /\ Top.k = "rpcWait"
  BY DEF RpcWaitReturns
<1>2. CASE ~ad[Top.a].worker
  BY <1>2, FailKeeps DEF RpcWaitReturns, Sites
<1>3. CASE ad[Top.a].worker
  <2> DEFINE f == FrameOf("join", Top.a, Top.why, "no")
  <2> DEFINE t == Told(ad[Top.a].thread)
  <2>1. /\ ad' = [ad EXCEPT ![Top.a].thread = t]
        /\ stack' = <<f>> \o Tail(stack)
        /\ UNCHANGED <<used, current, timer, shots, inbox, method, window,
                       quitNow, quits, reports, answers, fault>>
    BY <1>3 DEF RpcWaitReturns
  <2>2. /\ Top.a \in Adapters /\ Top.a = current /\ Top.a # 0
        /\ Top.why \in {"notFound", "deinit"}
    BY <1>1, <1>3, WaitedFor DEF Adapters
  <2>3. f \in Frame /\ f.k = "join" /\ f.a = Top.a /\ f.why = Top.why
    BY <2>2 DEF FrameOf, Frame
  <2>4. t \in {"off", "running", "leaving", "over"}
    BY <2>2 DEF Told, IInv, TypeOK, Adapter
  <2> HIDE DEF f, t
  <2>5. ad' \in [Adapters -> Adapter]
    <3> DEFINE r == [ad[Top.a] EXCEPT !.thread = t]
    <3>1. ad' = [ad EXCEPT ![Top.a] = r]
      BY <2>1
    <3>2. ad \in [Adapters -> Adapter] /\ ad[Top.a] \in Adapter
      BY <2>2 DEF IInv, TypeOK
    <3>3. r \in Adapter
      BY <2>4, <3>2 DEF Adapter
    <3> HIDE DEF r
    <3> QED
      BY <3>1, <3>2, <3>3
  <2>6. /\ \A b \in Adapters : ad'[b].worker = ad[b].worker
        /\ \A b \in Adapters \ {current} : ad'[b].thread = ad[b].thread
    BY <2>1, <2>2 DEF IInv, TypeOK, Adapter
  <2>7. OneWorker'
    BY <2>1, <2>6 DEF IInv, OneWorker, Running
  <2>8. stack' \in Stacks
    BY <1>1, <2>1, <2>2, <2>3, TopTyped, Push DEF NamesAdapter, NeedsBelow
  <2>9. TypeOK'
    BY <2>1, <2>5, <2>8 DEF IInv, TypeOK, Stacks
  <2> QED
    BY <2>7, <2>8, <2>9 DEF IInv
<1> QED
  BY <1>2, <1>3

LEMMA PortAcceptedKeeps ==
  ASSUME IInv, PortAccepted
  PROVE  IInv'
<1>1. Alive /\ Top.k = "dialog"
  BY DEF PortAccepted, Looping
<1>2. CASE ~StartAllowed(current)
  BY <1>2, FailKeeps DEF PortAccepted, Sites
<1>3. CASE StartAllowed(current)
  <2>1. /\ StartNode(Tail(stack), ad, method)
        /\ UNCHANGED <<shots, inbox, window, quitNow, quits, reports, fault>>
    BY <1>3 DEF PortAccepted
  <2>2. \A b \in Adapters : ~ad[b].worker /\ ad[b].thread \notin {"running", "leaving"}
    BY <1>3 DEF StartAllowed, IInv, OneWorker, Running, Adapters
  <2>3. Tail(stack) \in Stacks /\ Tail(stack) # <<>>
    BY <1>1, TopTyped DEF NeedsBelow
  <2> QED
    BY <2>1, <2>2, <2>3, StartNodeKeeps DEF IInv, TypeOK
<1> QED
  BY <1>2, <1>3

LEMMA JoinReturnsKeeps ==
  ASSUME IInv, JoinReturns
  PROVE  IInv'
<1>1. Alive /\ Top.k = "join" /\ ad[Top.a].thread = "over"
  BY DEF JoinReturns, ThreadGone
<1>2. CASE ~ad[Top.a].worker
  BY <1>2, FailKeeps DEF JoinReturns, Sites
<1>3. CASE ad[Top.a].worker
  <2> DEFINE left == Dropped(Top.a)
             below == Tail(stack)
  <2>1. /\ GoOn(Top.why, below, left)
        /\ UNCHANGED <<shots, inbox, window, quitNow, quits, reports, fault>>
    BY <1>3 DEF JoinReturns
  <2>2. Top.a \in Adapters /\ Top.a = current
    BY <1>1, <1>3, WaitedFor
  <2>3. /\ left \in [Adapters -> Adapter]
        /\ left[Top.a].worker = FALSE /\ left[Top.a].thread = "over"
        /\ \A b \in Adapters \ {Top.a} : left[b] = ad[b]
    BY <1>1, <2>2, DroppedTyped DEF IInv, TypeOK
  <2> HIDE DEF left
  <2>4. \A b \in Adapters : ~left[b].worker /\ left[b].thread \notin {"running", "leaving"}
    BY <2>2, <2>3 DEF IInv, OneWorker, Running
  <2>5. below \in Stacks /\ (Top.why = "deinit" => below # <<>>)
    BY <1>1, TopTyped DEF NeedsBelow
  <2>6. CASE /\ Top.why = "notFound" /\ used < MaxAdapters
             /\ ad' = [left EXCEPT ![used + 1] = Fresh("inproc")]
             /\ used' = used + 1 /\ current' = used + 1
             /\ stack' = below
             /\ UNCHANGED <<timer, method, answers>>
    <3>1. /\ ad' \in [Adapters -> Adapter] /\ OneWorker'
          /\ used' \in 0 .. MaxAdapters /\ current' \in 0 .. used'
      BY <2>3, <2>4, <2>6, StartKeeps
    <3>2. TypeOK'
      BY <2>1, <2>5, <2>6, <3>1 DEF IInv, TypeOK, Stacks
    <3> QED
      BY <2>5, <2>6, <3>1, <3>2 DEF IInv
  <2>7. ASSUME ad' = left, current' = 0, stack' \in Stacks,
               UNCHANGED <<used, timer, method, answers>>
        PROVE  IInv'
    <3>1. OneWorker'
      BY <2>4, <2>7 DEF OneWorker, Running, Adapters
    <3>2. TypeOK'
      BY <2>1, <2>3, <2>7 DEF IInv, TypeOK, Stacks
    <3> QED
      BY <2>7, <3>1, <3>2 DEF IInv
  <2>8. CASE /\ Top.why = "deinit" /\ Head(below).why = "quit"
             /\ ad' = left /\ current' = 0 /\ stack' = <<>>
             /\ UNCHANGED <<used, timer, method, answers>>
    <3>1. <<>> \in Stacks
      BY DEF Stacks
    <3> QED
      BY <2>7, <2>8, <3>1
  <2>9. CASE /\ Top.why = "deinit" /\ Head(below).exit = "bind"
             /\ ad' = left /\ current' = 0
             /\ stack' = <<FrameOf("dialog", 0, "", Opened)>>
                         \o (<<[Head(below) EXCEPT !.exit = "no"]>> \o Tail(below))
             /\ UNCHANGED <<used, timer, method, answers>>
    <3> DEFINE d == FrameOf("dialog", 0, "", Opened)
               f == [Head(below) EXCEPT !.exit = "no"]
               rest == Tail(below)
    <3>1. d \in Frame /\ d.k = "dialog"
      BY OpenedTyped DEF FrameOf, Frame
    <3>2. /\ Head(below) \in Frame /\ NamesAdapter(Head(below)) /\ rest \in Stacks
          /\ NeedsBelow(Head(below)) => rest # <<>>
      BY <2>5, <2>9, Pop
    <3>3. f \in Frame /\ SameFrame(f, Head(below))
      BY <3>2, Noted
    <3>4. stack' = <<d>> \o (<<f>> \o rest)
      BY <2>9
    <3> HIDE DEF d, f, rest, below
    <3>5. <<f>> \o rest \in Stacks /\ <<f>> \o rest # <<>>
      BY <3>2, <3>3, Push DEF SameFrame, NamesAdapter, NeedsBelow
    <3>6. <<d>> \o (<<f>> \o rest) \in Stacks
      BY <3>1, <3>5, Push DEF NamesAdapter
    <3> QED
      BY <2>7, <2>9, <3>4, <3>6
  <2>10. CASE /\ Top.why = "deinit" /\ Head(below).why # "quit"
              /\ Head(below).exit # "bind" /\ StartNode(below, left, method)
    BY <2>1, <2>3, <2>4, <2>5, <2>10, StartNodeKeeps DEF IInv, TypeOK
  <2> HIDE DEF below
  <2> QED
    BY <2>1, <2>6, <2>8, <2>9, <2>10 DEF GoOn
<1> QED
  BY <1>2, <1>3

-----------------------------------------------------------------------------
(* The GUI thread's handlers of signals and timers.                        *)

\* What a handler leaves typed.
Handled ==
  /\ ad \in [Adapters -> Adapter] /\ stack \in Stacks /\ OneWorker
  /\ timer \in BOOLEAN /\ shots \in Nat /\ answers \in Nat
  /\ window \in {"none", "disabled", "enabled", "hidden"}
  /\ fault \in Sites

LEMMA HandledKeeps ==
  ASSUME IInv, Handled', inbox' \in Seq(Event),
         UNCHANGED <<used, current, method, quitNow, quits, reports>>
  PROVE  IInv'
<1>1. TypeOK'
  BY DEF IInv, TypeOK, Handled, Stacks
<1> QED
  BY <1>1 DEF IInv, Handled

\* A handler that leaves the adapters and the stack alone.
LEMMA QuietHandled ==
  ASSUME IInv, UNCHANGED <<ad, stack, current, shots, window, answers>>,
         timer' \in BOOLEAN, fault' \in Sites
  PROVE  Handled'
<1>1. OneWorker'
  BY DEF IInv, OneWorker, Running
<1> QED
  BY <1>1 DEF IInv, TypeOK, Handled

\* The table changes but not the workers.
LEMMA SameOneWorker ==
  ASSUME IInv, SameWorkers(ad', ad), current' = current
  PROVE  OneWorker'
BY DEF IInv, OneWorker, SameWorkers, Running

LEMMA UnwatchedTyped ==
  ASSUME NEW adv \in [Adapters -> Adapter], NEW a \in Adapters
  PROVE  /\ [adv EXCEPT ![a].watched = FALSE] \in [Adapters -> Adapter]
         /\ SameWorkers([adv EXCEPT ![a].watched = FALSE], adv)
<1> DEFINE r == [adv[a] EXCEPT !.watched = FALSE]
<1>1. [adv EXCEPT ![a].watched = FALSE] = [adv EXCEPT ![a] = r]
  OBVIOUS
<1>2. r \in Adapter /\ r.worker = adv[a].worker /\ r.thread = adv[a].thread
  <2>1. adv[a] \in Adapter
    OBVIOUS
  <2>2. r \in Adapter
    BY <2>1, Zenon DEF Adapter
  <2>3. r.worker = adv[a].worker /\ r.thread = adv[a].thread
    BY <2>1, SMT DEF Adapter
  <2> QED
    BY <2>2, <2>3
<1> HIDE DEF r
<1> QED
  BY <1>1, <1>2 DEF SameWorkers

\* init() is answered.
LEMMA AnswerHandled ==
  ASSUME IInv, NEW adv \in [Adapters -> Adapter], SameWorkers(adv, ad),
         NEW s \in Statuses, Answer(adv, s), current' = current,
         timer' \in BOOLEAN, shots' \in Nat
  PROVE  Handled'
<1> DEFINE g(f) == IF f.k = "initLoop" THEN [f EXCEPT !.exit = s] ELSE f
<1>1. /\ stack' = [i \in DOMAIN stack |-> g(stack[i])]
      /\ ad' = adv /\ answers' = answers + 1
      /\ window' = IF window = "disabled" THEN "enabled" ELSE window
      /\ fault' = "uiReads" \/ fault' = fault
  BY DEF Answer
<1>2. \A f \in Frame : g(f) \in Frame /\ SameFrame(g(f), f)
  BY ToldTyped DEF SameFrame
<1>3. \A i \in DOMAIN stack : stack[i] \in Frame
  BY DEF IInv, Stacks
<1> HIDE DEF g
<1>4. /\ stack' = [i \in DOMAIN stack |-> stack'[i]]
      /\ \A i \in DOMAIN stack : stack'[i] \in Frame /\ SameFrame(stack'[i], stack[i])
  BY <1>1, <1>2, <1>3
<1>5. stack' \in Stacks
  BY <1>4, Retold DEF IInv
<1>6. OneWorker'
  BY <1>1, SameOneWorker
<1>7. /\ answers' \in Nat /\ fault' \in Sites
      /\ window' \in {"none", "disabled", "enabled", "hidden"}
  BY <1>1 DEF IInv, TypeOK, Sites
<1> QED
  BY <1>1, <1>5, <1>6, <1>7 DEF Handled

LEMMA InitHandled ==
  ASSUME IInv, NEW e \in Event, HandleInit(e), current' = current
  PROVE  Handled'
<1>1. CASE ~ad[e.a].watched
  BY <1>1, QuietHandled DEF HandleInit, IInv, TypeOK
<1>2. CASE /\ ad[e.a].watched
           /\ current = 0 \/ (e.s = "INIT_SUCCESS" /\ ~CanAskExplorer(current))
  BY <1>2, QuietHandled DEF HandleInit, IInv, TypeOK, Sites
<1>3. CASE /\ ad[e.a].watched
           /\ ~(current = 0 \/ (e.s = "INIT_SUCCESS" /\ ~CanAskExplorer(current)))
  <2> DEFINE adv == IF e.s = "INIT_SUCCESS" THEN KeepExplorer(ad, current) ELSE ad
  <2>1. /\ shots' = shots + (IF e.s = "INIT_SUCCESS" /\ adv[current].cached THEN 1 ELSE 0)
        /\ timer' = timer
        /\ \/ Answer([adv EXCEPT ![current].watched = FALSE], e.s)
           \/ ad' = adv /\ UNCHANGED <<stack, window, answers, fault>>
    BY <1>3 DEF HandleInit
  <2>2. current \in Adapters
    BY <1>3, InPlace DEF IInv
  <2>3. adv \in [Adapters -> Adapter] /\ SameWorkers(adv, ad)
    BY <2>2, KeepTyped DEF IInv, TypeOK, SameWorkers
  <2> HIDE DEF adv
  <2>4. shots' \in Nat /\ timer' \in BOOLEAN
    BY <2>1 DEF IInv, TypeOK
  <2>5. CASE Answer([adv EXCEPT ![current].watched = FALSE], e.s)
    <3>1. /\ [adv EXCEPT ![current].watched = FALSE] \in [Adapters -> Adapter]
          /\ SameWorkers([adv EXCEPT ![current].watched = FALSE], ad)
      BY <2>2, <2>3, UnwatchedTyped DEF SameWorkers
    <3>2. e.s \in Statuses
      BY DEF Event
    <3> QED
      BY <2>4, <2>5, <3>1, <3>2, AnswerHandled
  <2>6. CASE ad' = adv /\ UNCHANGED <<stack, window, answers, fault>>
    <3>1. OneWorker'
      BY <2>3, <2>6, SameOneWorker
    <3> QED
      BY <2>3, <2>4, <2>6, <3>1 DEF Handled, IInv, TypeOK
  <2> QED
    BY <2>1, <2>5, <2>6
<1> QED
  BY <1>1, <1>2, <1>3

LEMMA ReportHandled ==
  ASSUME IInv, NEW e \in Event, HandleReport(e), current' = current
  PROVE  Handled'
<1> DEFINE taken == ad[e.a].watched /\ current # 0 /\ ad[current].kind = "rpc" /\ timer
<1>1. CASE taken
  <2>1. /\ timer' = FALSE /\ shots' = shots
        /\ Answer([ad EXCEPT ![current].watched = FALSE], "INIT_SUCCESS")
    BY <1>1 DEF HandleReport
  <2>2. current \in Adapters /\ ad \in [Adapters -> Adapter] /\ shots \in Nat
    BY <1>1, InPlace DEF IInv, TypeOK
  <2>3. /\ [ad EXCEPT ![current].watched = FALSE] \in [Adapters -> Adapter]
        /\ SameWorkers([ad EXCEPT ![current].watched = FALSE], ad)
        /\ "INIT_SUCCESS" \in Statuses
    BY <2>2, UnwatchedTyped DEF Statuses
  <2> QED
    BY <2>1, <2>2, <2>3, AnswerHandled
<1>2. CASE ~taken
  <2>1. /\ fault' = "report" \/ fault' = fault
        /\ UNCHANGED <<ad, timer, shots, stack, window, answers>>
    BY <1>2 DEF HandleReport
  <2> QED
    BY <2>1, QuietHandled DEF IInv, TypeOK, Sites
<1> QED
  BY <1>1, <1>2

LEMMA NotFoundHandled ==
  ASSUME IInv, Alive, NotFound, UNCHANGED <<current, shots, window, answers>>
  PROVE  Handled'
<1>1. CASE current = 0
  BY <1>1, QuietHandled DEF NotFound, IInv, TypeOK, Sites
<1>2. CASE current # 0
  <2>1. /\ timer' = FALSE /\ fault' = fault
        /\ StopNode(ad, current, "notFound", Opened, stack)
    BY <1>2 DEF NotFound
  <2>2. /\ ad \in [Adapters -> Adapter] /\ SameWorkers(ad, ad)
        /\ stack \in Stacks /\ stack # <<>>
    BY DEF IInv, TypeOK, SameWorkers, Alive
  <2>3. ad' \in [Adapters -> Adapter] /\ stack' \in Stacks /\ OneWorker'
    BY <1>2, <2>1, <2>2, OpenedTyped, StopKeeps
  <2> QED
    BY <2>1, <2>3 DEF Handled, IInv, TypeOK
<1> QED
  BY <1>1, <1>2

LEMMA LostHandled ==
  ASSUME IInv, Alive, NEW e \in Event, HandleLost(e), current' = current
  PROVE  Handled'
BY NotFoundHandled, QuietHandled DEF HandleLost, IInv, TypeOK

LEMMA LoopHandled ==
  ASSUME IInv, NEW e \in Event, HandleLoop(e), current' = current
  PROVE  Handled'
<1> DEFINE g(i) == IF stack[i].k = "rpcWait" /\ stack[i].a = e.a /\ OpenWhenSent(i, e.n)
                   THEN [stack[i] EXCEPT !.exit = "done"] ELSE stack[i]
<1>1. /\ stack' = [i \in DOMAIN stack |-> g(i)]
      /\ UNCHANGED <<ad, timer, shots, window, answers, fault>>
  BY DEF HandleLoop
<1>2. \A i \in DOMAIN stack : stack[i] \in Frame
  BY DEF IInv, Stacks
<1>3. \A i \in DOMAIN stack : g(i) \in Frame /\ SameFrame(g(i), stack[i])
  BY <1>2, ToldTyped DEF SameFrame
<1> HIDE DEF g
<1>4. /\ stack' = [i \in DOMAIN stack |-> stack'[i]]
      /\ \A i \in DOMAIN stack : stack'[i] \in Frame /\ SameFrame(stack'[i], stack[i])
  BY <1>1, <1>3
<1>5. stack' \in Stacks
  BY <1>4, Retold DEF IInv
<1>6. OneWorker'
  BY <1>1, SameOneWorker DEF SameWorkers
<1> QED
  BY <1>1, <1>5, <1>6 DEF Handled, IInv, TypeOK

LEMMA DispatchKeeps ==
  ASSUME IInv, Dispatch
  PROVE  IInv'
<1> DEFINE e == Head(inbox)
<1>1. /\ Alive /\ inbox # <<>> /\ inbox' = Tail(inbox)
      /\ HandleInit(e) \/ HandleReport(e) \/ HandleLost(e) \/ HandleLoop(e)
      /\ UNCHANGED <<used, current, method, quitNow, quits, reports>>
  BY DEF Dispatch, Looping
<1>2. e \in Event /\ inbox' \in Seq(Event)
  BY <1>1 DEF IInv, TypeOK
<1> HIDE DEF e
<1>3. Handled'
  BY <1>1, <1>2, InitHandled, ReportHandled, LostHandled, LoopHandled
<1> QED
  BY <1>1, <1>2, <1>3, HandledKeeps

LEMMA TimerEventKeeps ==
  ASSUME IInv, TimerEvent
  PROVE  IInv'
<1>1. /\ Alive /\ NotFound
      /\ UNCHANGED <<used, current, shots, inbox, method, window, quitNow, quits,
                     reports, answers>>
  BY DEF TimerEvent, Looping
<1>2. Handled' /\ inbox' \in Seq(Event)
  BY <1>1, NotFoundHandled DEF IInv, TypeOK
<1> QED
  BY <1>1, <1>2, HandledKeeps

LEMMA StartExplorerKeeps ==
  ASSUME IInv, StartExplorer
  PROVE  IInv'
<1> DEFINE adv == KeepExplorer(ad, current)
<1>1. /\ shots > 0 /\ shots' = shots - 1
      /\ \/ CanAskExplorer(current) /\ ad' = adv /\ fault' = fault
         \/ ad' = ad /\ fault' = "startExplorer"
      /\ UNCHANGED <<used, current, timer, inbox, stack, method, window, quitNow,
                     quits, reports, answers>>
  BY DEF StartExplorer
<1>2. CanAskExplorer(current) => adv \in [Adapters -> Adapter] /\ SameWorkers(adv, ad)
  BY InPlace, KeepTyped DEF CanAskExplorer, IInv, TypeOK
<1> HIDE DEF adv
<1>3. ad' \in [Adapters -> Adapter] /\ SameWorkers(ad', ad)
  BY <1>1, <1>2 DEF IInv, TypeOK, SameWorkers
<1>4. OneWorker'
  BY <1>1, <1>3, SameOneWorker
<1>5. shots' \in Nat /\ fault' \in Sites /\ inbox' \in Seq(Event)
  BY <1>1 DEF IInv, TypeOK, Sites
<1>6. Handled'
  BY <1>1, <1>3, <1>4, <1>5 DEF Handled, IInv, TypeOK
<1> QED
  BY <1>1, <1>5, <1>6, HandledKeeps

-----------------------------------------------------------------------------
(* The workers' steps.                                                     *)

\* A worker's step changes its own record, and may send a signal.
LEMMA WorkerKeeps ==
  ASSUME IInv, NEW a \in Adapters, NEW r \in Adapter,
         r.worker = ad[a].worker, r.thread \in {ad[a].thread, "over"},
         ad' = [ad EXCEPT ![a] = r], inbox' \in Seq(Event),
         GuiUnchanged, reports' \in 0 .. MaxReports, fault' = fault
  PROVE  IInv'
<1>1. ad' \in [Adapters -> Adapter] /\ OneWorker'
  BY EditTyped DEF GuiUnchanged, IInv, TypeOK
<1>2. TypeOK'
  BY <1>1 DEF GuiUnchanged, IInv, TypeOK
<1>3. stack' \in Stacks
  BY DEF GuiUnchanged, IInv
<1> QED
  BY <1>1, <1>2, <1>3 DEF IInv

\* The queue after Send.
LEMMA SentTyped ==
  ASSUME IInv, NEW a \in Adapters, NEW t \in {"init", "report", "lost"},
         NEW s \in Statuses, Send(a, t, s)
  PROVE  inbox' \in Seq(Event)
BY SendTyped DEF Send, IInv, TypeOK

LEMMA InitImplKeeps ==
  ASSUME IInv, NEW a \in Adapters, InitImpl(a)
  PROVE  IInv'
<1> DEFINE rpc == ad[a].kind = "rpc"
           calls == Tail(ad[a].calls)
           place == IF rpc THEN "idle" ELSE "core"
           r == [ad[a] EXCEPT !.calls = calls, !.node = rpc, !.pc = place]
<1>1. /\ ad' = [ad EXCEPT ![a] = r] /\ ad[a].calls # <<>>
      /\ GuiUnchanged /\ UNCHANGED <<inbox, reports, fault>>
  BY DEF InitImpl
<1>2. calls \in Seq({"initImpl", "deinitImpl"}) /\ rpc \in BOOLEAN /\ place \in Places
  BY <1>1 DEF IInv, TypeOK, Adapter, Places
<1> HIDE DEF rpc, calls, place
<1>3. r \in Adapter /\ r.worker = ad[a].worker /\ r.thread = ad[a].thread
  <2>1. ad[a] \in Adapter
    BY DEF IInv, TypeOK
  <2>2. r \in Adapter
    BY <2>1, <1>2, Zenon DEF Adapter
  <2>3. r.worker = ad[a].worker /\ r.thread = ad[a].thread
    BY <2>1, SMT DEF Adapter
  <2> QED
    BY <2>2, <2>3
<1> HIDE DEF r
<1> QED
  BY <1>1, <1>3, WorkerKeeps DEF IInv, TypeOK

LEMMA DeinitImplKeeps ==
  ASSUME IInv, NEW a \in Adapters, DeinitImpl(a)
  PROVE  IInv'
<1>1. CASE ~ad[a].node
  BY <1>1, FailKeeps DEF DeinitImpl, Sites
<1>2. CASE ad[a].node
  <2> DEFINE calls == Tail(ad[a].calls)
             r == [ad[a] EXCEPT !.calls = calls, !.node = FALSE]
  <2>1. /\ ad' = [ad EXCEPT ![a] = r] /\ ad[a].calls # <<>>
        /\ inbox' = Append(inbox, Signal("loop", a, "INIT_SUCCESS", Len(stack)))
        /\ GuiUnchanged /\ UNCHANGED <<reports, fault>>
    BY <1>2 DEF DeinitImpl
  <2>2. calls \in Seq({"initImpl", "deinitImpl"})
    BY <2>1 DEF IInv, TypeOK, Adapter
  <2> HIDE DEF calls
  <2>3. r \in Adapter /\ r.worker = ad[a].worker /\ r.thread = ad[a].thread
    <3>1. ad[a] \in Adapter
      BY DEF IInv, TypeOK
    <3>2. r \in Adapter
      BY <3>1, <2>2, Zenon DEF Adapter
    <3>3. r.worker = ad[a].worker /\ r.thread = ad[a].thread
      BY <3>1, SMT DEF Adapter
    <3> QED
      BY <3>2, <3>3
  <2>4. inbox' \in Seq(Event)
    <3>1. Len(stack) \in Nat /\ "INIT_SUCCESS" \in Statuses
      BY DEF IInv, TypeOK, Statuses
    <3> QED
      BY <2>1, <3>1, SendTyped
  <2> HIDE DEF r
  <2> QED
    BY <2>1, <2>3, <2>4, WorkerKeeps DEF IInv, TypeOK
<1> QED
  BY <1>1, <1>2

LEMMA RpcInitedKeeps ==
  ASSUME IInv, NEW a \in Adapters, RpcInited(a)
  PROVE  IInv'
<1> DEFINE r == [ad[a] EXCEPT !.inited = TRUE, !.explorer = Explorer]
<1>1. /\ ad' = [ad EXCEPT ![a] = r] /\ Send(a, "init", "INIT_SUCCESS")
      /\ GuiUnchanged /\ UNCHANGED <<reports, fault>>
  BY DEF RpcInited
<1>2. r \in Adapter /\ r.worker = ad[a].worker /\ r.thread = ad[a].thread
  <2>1. ad[a] \in Adapter
    BY DEF IInv, TypeOK
  <2>2. r \in Adapter
    BY <2>1, ConnectionAssumption, Zenon DEF Adapter
  <2>3. r.worker = ad[a].worker /\ r.thread = ad[a].thread
    BY <2>1, SMT DEF Adapter
  <2> QED
    BY <2>2, <2>3
<1> HIDE DEF r
<1>3. inbox' \in Seq(Event)
  BY <1>1, SentTyped DEF Statuses
<1> QED
  BY <1>1, <1>2, <1>3, WorkerKeeps DEF IInv, TypeOK

LEMMA RpcReportKeeps ==
  ASSUME IInv, NEW a \in Adapters, RpcReport(a)
  PROVE  IInv'
<1>1. /\ reports < MaxReports /\ reports' = reports + 1
      /\ \E t \in {"report", "lost"} : Send(a, t, "INIT_SUCCESS")
      /\ GuiUnchanged /\ UNCHANGED <<ad, fault>>
  BY DEF RpcReport
<1>2. inbox' \in Seq(Event)
  BY <1>1, SentTyped DEF Statuses
<1>3. ad[a] \in Adapter /\ ad' = [ad EXCEPT ![a] = ad[a]]
  BY <1>1 DEF IInv, TypeOK
<1>4. reports' \in 0 .. MaxReports
  BY <1>1, ConnectionAssumption DEF IInv, TypeOK
<1> QED
  BY <1>1, <1>2, <1>3, <1>4, WorkerKeeps

\* A stage of the embedded worker: its place and what it made.
LEMMA StageTyped ==
  ASSUME IInv, NEW a \in Adapters, NEW place \in Places,
         NEW node \in BOOLEAN, NEW server \in BOOLEAN,
         NEW r, r = [ad[a] EXCEPT !.pc = place, !.node = node, !.server = server]
  PROVE  r \in Adapter /\ r.worker = ad[a].worker /\ r.thread = ad[a].thread
<1>1. ad[a] \in Adapter
  BY DEF IInv, TypeOK
<1>2. r \in Adapter
  BY <1>1, Zenon DEF Adapter
<1>3. r.worker = ad[a].worker /\ r.thread = ad[a].thread
  BY <1>1, SMT DEF Adapter
<1> QED
  BY <1>2, <1>3

LEMMA StageFailsKeeps ==
  ASSUME IInv, NEW a \in Adapters, StageFails(a)
  PROVE  IInv'
<1> DEFINE r == [ad[a] EXCEPT !.pc = "guard"]
<1>1. /\ ad' = [ad EXCEPT ![a] = r]
      /\ \E s \in FailuresAt(ad[a].pc) : Send(a, "init", s)
      /\ GuiUnchanged /\ UNCHANGED <<reports, fault>>
  BY DEF StageFails
<1>2. FailuresAt(ad[a].pc) \subseteq Statuses
  BY ConnectionAssumption DEF FailuresAt, Statuses
<1>3. r \in Adapter /\ r.worker = ad[a].worker /\ r.thread = ad[a].thread
  <2>1. ad[a] \in Adapter
    BY DEF IInv, TypeOK
  <2>2. r \in Adapter
    BY <2>1, Zenon DEF Adapter, Places
  <2>3. r.worker = ad[a].worker /\ r.thread = ad[a].thread
    BY <2>1, SMT DEF Adapter
  <2> QED
    BY <2>2, <2>3
<1> HIDE DEF r
<1>4. inbox' \in Seq(Event)
  BY <1>1, <1>2, SentTyped
<1> QED
  BY <1>1, <1>3, <1>4, WorkerKeeps DEF IInv, TypeOK

LEMMA StageDoneKeeps ==
  ASSUME IInv, NEW a \in Adapters, StageDone(a)
  PROVE  IInv'
<1> DEFINE place == IF ad[a].pc = "core" THEN "server" ELSE "node"
           r == [ad[a] EXCEPT !.pc = place, !.node = TRUE, !.server = TRUE]
<1>1. /\ ad' = [ad EXCEPT ![a] = r]
      /\ GuiUnchanged /\ UNCHANGED <<inbox, reports, fault>>
  BY DEF StageDone
<1>2. place \in Places
  BY DEF Places
<1> HIDE DEF place
<1>3. r \in Adapter /\ r.worker = ad[a].worker /\ r.thread = ad[a].thread
  BY <1>2, StageTyped
<1> HIDE DEF r
<1> QED
  BY <1>1, <1>3, WorkerKeeps DEF IInv, TypeOK

LEMMA NodeUpKeeps ==
  ASSUME IInv, NEW a \in Adapters, NodeUp(a)
  PROVE  IInv'
<1> DEFINE r == [ad[a] EXCEPT !.pc = "run", !.inited = TRUE, !.explorer = Explorer]
<1>1. /\ ad' = [ad EXCEPT ![a] = r] /\ Send(a, "init", "INIT_SUCCESS")
      /\ GuiUnchanged /\ UNCHANGED <<reports, fault>>
  BY DEF NodeUp
<1>2. r \in Adapter /\ r.worker = ad[a].worker /\ r.thread = ad[a].thread
  <2>1. ad[a] \in Adapter
    BY DEF IInv, TypeOK
  <2>2. r \in Adapter
    BY <2>1, ConnectionAssumption, Zenon DEF Adapter, Places
  <2>3. r.worker = ad[a].worker /\ r.thread = ad[a].thread
    BY <2>1, SMT DEF Adapter
  <2> QED
    BY <2>2, <2>3
<1> HIDE DEF r
<1>3. inbox' \in Seq(Event)
  BY <1>1, SentTyped DEF Statuses
<1> QED
  BY <1>1, <1>2, <1>3, WorkerKeeps DEF IInv, TypeOK

LEMMA ServerStopsKeeps ==
  ASSUME IInv, NEW a \in Adapters, ServerStops(a)
  PROVE  IInv'
<1> DEFINE r == [ad[a] EXCEPT !.pc = "guard"]
<1>1. /\ ad' = [ad EXCEPT ![a] = r]
      /\ GuiUnchanged /\ UNCHANGED <<inbox, reports, fault>>
  BY DEF ServerStops
<1>2. r \in Adapter /\ r.worker = ad[a].worker /\ r.thread = ad[a].thread
  <2>1. ad[a] \in Adapter
    BY DEF IInv, TypeOK
  <2>2. r \in Adapter
    BY <2>1, Zenon DEF Adapter, Places
  <2>3. r.worker = ad[a].worker /\ r.thread = ad[a].thread
    BY <2>1, SMT DEF Adapter
  <2> QED
    BY <2>2, <2>3
<1> HIDE DEF r
<1> QED
  BY <1>1, <1>2, WorkerKeeps DEF IInv, TypeOK

LEMMA GuardResetsKeeps ==
  ASSUME IInv, NEW a \in Adapters, GuardResets(a)
  PROVE  IInv'
<1> DEFINE r == [ad[a] EXCEPT !.pc = "idle", !.node = FALSE, !.server = FALSE]
<1>1. /\ ad' = [ad EXCEPT ![a] = r]
      /\ GuiUnchanged /\ UNCHANGED <<inbox, reports, fault>>
  BY DEF GuardResets
<1>2. r \in Adapter /\ r.worker = ad[a].worker /\ r.thread = ad[a].thread
  BY StageTyped DEF Places
<1> HIDE DEF r
<1> QED
  BY <1>1, <1>2, WorkerKeeps DEF IInv, TypeOK

LEMMA ThreadEndsKeeps ==
  ASSUME IInv, NEW a \in Adapters, ThreadEnds(a)
  PROVE  IInv'
<1> DEFINE r == [ad[a] EXCEPT !.thread = "over"]
<1>1. /\ ad' = [ad EXCEPT ![a] = r]
      /\ GuiUnchanged /\ UNCHANGED <<inbox, reports, fault>>
  BY DEF ThreadEnds
<1>2. r \in Adapter /\ r.worker = ad[a].worker /\ r.thread = "over"
  <2>1. ad[a] \in Adapter
    BY DEF IInv, TypeOK
  <2>2. r \in Adapter
    BY <2>1, Zenon DEF Adapter
  <2>3. r.worker = ad[a].worker /\ r.thread = "over"
    BY <2>1, SMT DEF Adapter
  <2> QED
    BY <2>2, <2>3
<1> HIDE DEF r
<1> QED
  BY <1>1, <1>2, WorkerKeeps DEF IInv, TypeOK

-----------------------------------------------------------------------------
(* The theorems.                                                           *)

LEMMA InitIInv == Init => IInv
<1> SUFFICES ASSUME Init PROVE IInv
  OBVIOUS
<1> DEFINE f == FrameOf("app", 0, "boot", "no")
<1>1. f \in Frame /\ f.k = "app" /\ f.why = "boot"
  BY DEF FrameOf, Frame
<1>2. stack = <<f>> /\ inbox = <<>>
  BY DEF Init
<1> HIDE DEF f
<1>3. stack \in Stacks
  BY <1>1, <1>2, Single
<1>4. ad \in [Adapters -> Adapter] /\ \A a \in Adapters : ad[a] = NoAdapter
  BY NoAdapterTyped DEF Init
<1>5. OneWorker
  BY <1>4, NoAdapterTyped DEF Init, OneWorker, Running, Adapters
<1>6. stack \in Seq(Frame) /\ inbox \in Seq(Event)
  BY <1>2, <1>3 DEF Stacks
<1>7. /\ used \in 0 .. MaxAdapters /\ current \in 0 .. used
      /\ timer \in BOOLEAN /\ shots \in Nat /\ method \in Methods
      /\ window \in {"none", "disabled", "enabled", "hidden"}
      /\ quitNow \in BOOLEAN /\ quits \in BOOLEAN
      /\ reports \in 0 .. MaxReports /\ answers \in Nat /\ fault \in Sites
  <2>1. /\ used = 0 /\ current = 0 /\ timer = FALSE /\ shots = 0
        /\ method \in Methods /\ window = "none" /\ quitNow = FALSE
        /\ quits = FALSE /\ reports = 0 /\ answers = 0 /\ fault = "none"
    BY DEF Init
  <2>2. MaxAdapters \in Nat /\ MaxReports \in Nat
    BY ConnectionAssumption
  <2>3. /\ used \in 0 .. MaxAdapters /\ current \in 0 .. used
        /\ reports \in 0 .. MaxReports /\ shots \in Nat /\ answers \in Nat
    BY <2>1, <2>2
  <2>4. window \in {"none", "disabled", "enabled", "hidden"} /\ fault \in Sites
    BY <2>1 DEF Sites
  <2>5. timer \in BOOLEAN /\ quitNow \in BOOLEAN /\ quits \in BOOLEAN
    BY <2>1
  <2> QED
    BY <2>1, <2>3, <2>4, <2>5
<1>8. TypeOK
  BY <1>4, <1>6, <1>7 DEF TypeOK
<1> QED
  BY <1>3, <1>5, <1>8 DEF IInv

\* One step, by the actions of Next.
LEMMA NextIInv == IInv /\ [Next]_vars => IInv'
<1> SUFFICES ASSUME IInv, [Next]_vars PROVE IInv'
  OBVIOUS
<1>1. CASE Gui
  BY <1>1, BootKeeps, MainReturnsKeeps, FirstSuccessKeeps, BindFailedKeeps,
     InitOverKeeps, RpcWaitReturnsKeeps, JoinReturnsKeeps, DispatchKeeps,
     TimerEventKeeps, StartExplorerKeeps DEF Gui, Returns
<1>2. CASE User
  BY <1>2, QuitKeeps, PortAcceptedKeeps, PortRejectedKeeps, ReinitKeeps DEF User
<1>3. CASE \E a \in Adapters : Worker(a) \/ RpcReport(a)
  BY <1>3, InitImplKeeps, DeinitImplKeeps, RpcInitedKeeps, RpcReportKeeps,
     StageFailsKeeps, StageDoneKeeps, NodeUpKeeps, ServerStopsKeeps,
     GuardResetsKeeps, ThreadEndsKeeps DEF Worker
<1>4. CASE UNCHANGED vars
  <2>1. TypeOK'
    BY <1>4 DEF IInv, TypeOK, vars
  <2>2. stack' \in Stacks
    BY <1>4 DEF IInv, vars
  <2>3. OneWorker'
    BY <1>4 DEF IInv, OneWorker, Running, vars
  <2> QED
    BY <2>1, <2>2, <2>3 DEF IInv
<1> QED
  BY <1>1, <1>2, <1>3, <1>4 DEF Next

LEMMA Inductive == Spec => []IInv
<1> QED
  BY InitIInv, NextIInv, PTL DEF Spec

\* Every variable keeps its type, however many adapters nested loops create:
\* the stack of waiting calls, the queues of the workers and of the GUI
\* thread hold what CryptoNoteAdapter and WalletApplication put there.
THEOREM TypeCorrect == Spec => []TypeOK
<1>1. IInv => TypeOK
  BY DEF IInv
<1> QED
  BY <1>1, Inductive, PTL

\* Only the adapter CryptoNoteAdapter holds has a worker, and only a worker's
\* thread runs.
THEOREM WorkerInPlace == Spec => []OneWorker
<1>1. IInv => OneWorker
  BY DEF IInv
<1> QED
  BY <1>1, Inductive, PTL

\* CryptoNoteAdapter never has two nodes running, for any number of nested
\* loops, searches, changes of connection and failures.
THEOREM NodesExclusive == Spec => []OneNode
<1>1. IInv => OneNode
  BY DEF IInv, OneWorker, OneNode
<1> QED
  BY <1>1, Inductive, PTL


-----------------------------------------------------------------------------
(* The end of the program.  That no worker thread is left when             *)
(* prepareToQuit has run rests on what the stack stands on: the frame at   *)
(* its bottom is WalletApplication's start, the main loop or prepareToQuit,*)
(* as the window tells, and a call of init or deinit returns to the        *)
(* application function that made it.                                      *)

\* A frame above the bottom.
Passing(f) == f.k # "main" /\ (f.k = "app" => f.why = "reinit")

\* A frame f and the one it was called from.
Called(f, g) ==
  /\ f.k \in {"initLoop", "dialog"} => g.k = "app" /\ g.why \in {"boot", "reinit"}
  /\ f.why = "deinit" => g.k = "app"

\* The frame at the bottom, while the window is w.
Ground(f, w) ==
  \/ f.k = "main" /\ w \in {"disabled", "enabled"}
  \/ f.k = "app" /\ f.why = "boot" /\ w = "none"
  \/ f.k = "app" /\ f.why = "quit" /\ f.exit = "no" /\ w = "hidden"

Grounded(s, w) ==
  /\ \A i \in 1 .. Len(s) - 1 : Passing(s[i]) /\ Called(s[i], s[i + 1])
  /\ s # <<>> => Ground(s[Len(s)], w)

EndInv ==
  /\ Grounded(stack, window)
  /\ stack = <<>> /\ window = "hidden" => current = 0

\* A call is made.
LEMMA GroundPush ==
  ASSUME NEW s \in Stacks, s # <<>>, NEW w, Grounded(s, w), NEW f \in Frame,
         Passing(f), Called(f, Head(s))
  PROVE  Grounded(<<f>> \o s, w) /\ <<f>> \o s # <<>>
<1> DEFINE t == <<f>> \o s
<1>1. /\ s \in Seq(Frame) /\ t \in Seq(Frame) /\ Head(s) = s[1]
      /\ Len(t) = Len(s) + 1 /\ Len(s) \in Nat \ {0}
      /\ t[1] = f /\ \A i \in 2 .. Len(t) : t[i] = s[i - 1]
  BY DEF Stacks
<1> HIDE DEF t
<1>2. t # <<>> /\ t[Len(t)] = s[Len(s)]
  BY <1>1
<1>3. ASSUME NEW i \in 1 .. Len(t) - 1
      PROVE  Passing(t[i]) /\ Called(t[i], t[i + 1])
  <2>1. CASE i = 1
    BY <1>1, <2>1
  <2>2. CASE i # 1
    <3>1. i - 1 \in 1 .. Len(s) - 1 /\ t[i] = s[i - 1] /\ t[i + 1] = s[(i - 1) + 1]
      BY <1>1, <2>2
    <3> QED
      BY <3>1 DEF Grounded
  <2> QED
    BY <2>1, <2>2
<1>4. Ground(t[Len(t)], w)
  BY <1>2 DEF Grounded
<1> QED
  BY <1>2, <1>3, <1>4 DEF Grounded, t

\* A call returns; a frame that may pass was called.
LEMMA GroundPop ==
  ASSUME NEW s \in Stacks, s # <<>>, NEW w, Grounded(s, w)
  PROVE  /\ Grounded(Tail(s), w)
         /\ Tail(s) = <<>> => Ground(Head(s), w)
         /\ Tail(s) # <<>> => Passing(Head(s)) /\ Called(Head(s), Head(Tail(s)))
         /\ Passing(Head(s)) => Tail(s) # <<>>
<1> DEFINE t == Tail(s)
<1>1. /\ s \in Seq(Frame) /\ t \in Seq(Frame) /\ Len(s) \in Nat \ {0}
      /\ Len(t) = Len(s) - 1 /\ Head(s) = s[1]
      /\ \A i \in 1 .. Len(t) : t[i] = s[i + 1]
  BY DEF Stacks
<1>2. t # <<>> <=> Len(t) # 0
  BY <1>1
<1>3. t # <<>> => Head(t) = s[2] /\ 1 \in 1 .. Len(s) - 1 /\ t[Len(t)] = s[Len(s)]
  BY <1>1, <1>2
<1>4. t = <<>> => s[Len(s)] = Head(s)
  BY <1>1, <1>2
<1> HIDE DEF t
<1>5. \A i \in 1 .. Len(t) - 1 : Passing(t[i]) /\ Called(t[i], t[i + 1])
  <2> SUFFICES ASSUME NEW i \in 1 .. Len(t) - 1
               PROVE  Passing(t[i]) /\ Called(t[i], t[i + 1])
    OBVIOUS
  <2>1. i + 1 \in 1 .. Len(s) - 1 /\ t[i] = s[i + 1] /\ t[i + 1] = s[(i + 1) + 1]
    BY <1>1
  <2> QED
    BY <2>1 DEF Grounded
<1>6. Ground(s[Len(s)], w)
  BY DEF Grounded
<1>7. Grounded(t, w)
  BY <1>3, <1>5, <1>6 DEF Grounded
<1>8. t # <<>> => Passing(Head(s)) /\ Called(Head(s), Head(t))
  BY <1>1, <1>3 DEF Grounded
<1>9. t = <<>> => Ground(Head(s), w) /\ ~Passing(Head(s))
  BY <1>4, <1>6 DEF Ground, Passing
<1> QED
  BY <1>7, <1>8, <1>9 DEF t

\* Loops are told to end, and the window may follow.
LEMMA GroundRetold ==
  ASSUME NEW s \in Stacks, NEW w, Grounded(s, w), NEW t,
         t = [i \in DOMAIN s |-> t[i]],
         \A i \in DOMAIN s : SameFrame(t[i], s[i]) /\ (s[i].k = "app" => t[i] = s[i]),
         NEW v, v = w \/ {v, w} \subseteq {"disabled", "enabled"}
  PROVE  Grounded(t, v) /\ (t = <<>> <=> s = <<>>)
<1>1. DOMAIN s = 1 .. Len(s) /\ Len(s) \in Nat /\ s \in Seq(Frame)
  BY DEF Stacks
<1>2. Len(t) = Len(s) /\ (t = <<>> <=> s = <<>>)
  BY <1>1
<1>3. \A i \in 1 .. Len(t) - 1 : Passing(t[i]) /\ Called(t[i], t[i + 1])
  <2> SUFFICES ASSUME NEW i \in 1 .. Len(t) - 1
               PROVE  Passing(t[i]) /\ Called(t[i], t[i + 1])
    OBVIOUS
  <2>1. i \in DOMAIN s /\ i + 1 \in DOMAIN s /\ i \in 1 .. Len(s) - 1
    BY <1>1, <1>2
  <2>2. Passing(s[i]) /\ Called(s[i], s[i + 1])
    BY <2>1 DEF Grounded
  <2> QED
    BY <2>1, <2>2 DEF SameFrame, Passing, Called
<1>4. t # <<>> => Ground(t[Len(t)], v)
  <2> SUFFICES ASSUME t # <<>> PROVE Ground(t[Len(t)], v)
    OBVIOUS
  <2>1. Len(s) \in DOMAIN s /\ Ground(s[Len(s)], w)
    BY <1>1, <1>2 DEF Grounded
  <2> QED
    BY <1>2, <2>1 DEF SameFrame, Ground
<1> QED
  BY <1>2, <1>3, <1>4 DEF Grounded

\* The window is disabled or enabled over the main loop.
LEMMA GroundWindow ==
  ASSUME NEW s, NEW w \in {"disabled", "enabled"}, Grounded(s, w),
         NEW v \in {"disabled", "enabled"}
  PROVE  Grounded(s, v)
BY DEF Grounded, Ground

\* A node is stopped for the frames `below'.
LEMMA StopGrounded ==
  ASSUME NEW adv, NEW a \in Adapters, NEW why \in {"notFound", "deinit"},
         NEW opened \in {"no", "never"}, NEW below \in Stacks, below # <<>>,
         NEW w, Grounded(below, w), why = "deinit" => Head(below).k = "app",
         StopNode(adv, a, why, opened, below)
  PROVE  Grounded(stack', w) /\ stack' # <<>>
<1>1. PICK f : /\ f \in {FrameOf("rpcWait", a, why, opened), FrameOf("join", a, why, "no")}
               /\ stack' = <<f>> \o below
  BY DEF StopNode
<1>2. f \in Frame /\ f.k \in {"rpcWait", "join"} /\ f.why = why
  <2>1. CASE f = FrameOf("rpcWait", a, why, opened)
    BY <2>1 DEF FrameOf, Frame
  <2>2. CASE f = FrameOf("join", a, why, "no")
    BY <2>2 DEF FrameOf, Frame
  <2> QED
    BY <1>1, <2>1, <2>2
<1>3. Passing(f) /\ Called(f, Head(below))
  BY <1>2 DEF Passing, Called
<1> QED
  BY <1>1, <1>2, <1>3, GroundPush

\* A program that has stopped, or has not come to its end, has nothing to show.
LEMMA GoingOn ==
  ASSUME Grounded(stack', window'), stack' # <<>> \/ window' # "hidden"
  PROVE  EndInv'
BY DEF EndInv

\* Steps that leave the stack, the window and the adapter in place alone.
LEMMA EndUnmoved ==
  ASSUME EndInv, UNCHANGED <<stack, window, current>>
  PROVE  EndInv'
BY DEF EndInv

LEMMA FailEnds ==
  ASSUME EndInv, NEW site, Fail(site)
  PROVE  EndInv'
BY EndUnmoved DEF Fail

LEMMA StartNodeEnds ==
  ASSUME NEW below \in Stacks, below # <<>>, NEW w, Grounded(below, w),
         Head(below).k = "app", Head(below).why \in {"boot", "reinit"},
         NEW adv, NEW m, StartNode(below, adv, m), window' = w
  PROVE  EndInv'
<1> DEFINE f == FrameOf("initLoop", 0, "", Opened)
<1>1. stack' = <<f>> \o below
  BY DEF StartNode
<1>2. f \in Frame /\ f.k = "initLoop" /\ f.why = ""
  BY OpenedTyped DEF FrameOf, Frame
<1> HIDE DEF f
<1>3. Passing(f) /\ Called(f, Head(below))
  BY <1>2 DEF Passing, Called
<1> QED
  BY <1>1, <1>2, <1>3, GroundPush, GoingOn

LEMMA BootEnds ==
  ASSUME IInv, EndInv, Boot
  PROVE  EndInv'
<1>1. /\ stack # <<>> /\ StartNode(stack, ad, method) /\ window' = window
      /\ Head(stack).k = "app" /\ Head(stack).why \in {"boot", "reinit"}
  BY DEF Boot, Alive, Top
<1> QED
  BY <1>1, StartNodeEnds DEF IInv, EndInv

\* The frame on top, and its caller.
LEMMA TopGrounded ==
  ASSUME IInv, EndInv, Alive
  PROVE  /\ Tail(stack) \in Stacks /\ Grounded(Tail(stack), window)
         /\ Tail(stack) = <<>> => Ground(Top, window)
         /\ Tail(stack) # <<>> => Passing(Top) /\ Called(Top, Head(Tail(stack)))
         /\ Passing(Top) => Tail(stack) # <<>>
BY GroundPop, TopTyped DEF IInv, EndInv, Alive, Top

\* The application function that called init.
LEMMA CallerGrounded ==
  ASSUME IInv, EndInv, Alive, Top.k \in {"initLoop", "dialog"}
  PROVE  /\ Tail(stack) \in Stacks /\ Tail(stack) # <<>>
         /\ Head(Tail(stack)) \in Frame
         /\ Head(Tail(stack)).k = "app"
         /\ Head(Tail(stack)).why \in {"boot", "reinit"}
         /\ Head(Tail(stack)).why = "boot" => window = "none"
         /\ Head(Tail(stack)).why = "reinit" => Tail(Tail(stack)) # <<>>
         /\ Tail(Tail(stack)) \in Stacks /\ Grounded(Tail(Tail(stack)), window)
         /\ Grounded(Tail(stack), window)
<1> DEFINE s == Tail(stack)
<1>1. s \in Stacks /\ Grounded(s, window) /\ s # <<>> /\ Called(Top, Head(s))
  BY TopGrounded DEF Passing
<1>2. Head(s).k = "app" /\ Head(s).why \in {"boot", "reinit"}
  BY <1>1 DEF Called
<1> HIDE DEF s
<1>3. Tail(s) \in Stacks /\ Head(s) \in Frame
  BY <1>1, Pop
<1>4. /\ Grounded(Tail(s), window)
      /\ Tail(s) = <<>> => Ground(Head(s), window)
      /\ Tail(s) # <<>> => Passing(Head(s))
  BY <1>1, GroundPop
<1>5. /\ Head(s).why = "boot" => window = "none"
      /\ Head(s).why = "reinit" => Tail(s) # <<>>
  BY <1>2, <1>4 DEF Ground, Passing
<1> QED
  BY <1>1, <1>2, <1>3, <1>4, <1>5 DEF s

\* init() gives up: the program never got a window, or goes on.
LEMMA GiveUpEnds ==
  ASSUME IInv, EndInv, Alive, Top.k \in {"initLoop", "dialog"},
         stack' = GiveUp(Tail(stack)), window' = window
  PROVE  EndInv'
<1>1. CASE Head(Tail(stack)).why = "boot"
  <2>1. stack' = <<>> /\ window' = "none"
    BY <1>1, CallerGrounded DEF GiveUp
  <2>2. Grounded(stack', window')
    BY <2>1 DEF Grounded
  <2> QED
    BY <2>1, <2>2, GoingOn
<1>2. CASE Head(Tail(stack)).why = "reinit"
  <2>1. stack' = Tail(Tail(stack))
    BY <1>2 DEF GiveUp
  <2> QED
    BY <1>2, <2>1, CallerGrounded, GoingOn
<1> QED
  BY <1>1, <1>2, CallerGrounded

LEMMA PortRejectedEnds ==
  ASSUME IInv, EndInv, PortRejected
  PROVE  EndInv'
BY GiveUpEnds DEF PortRejected

LEMMA InitOverEnds ==
  ASSUME IInv, EndInv, InitOver
  PROVE  EndInv'
<1>1. Alive /\ Top.k = "initLoop" /\ window' = window
  BY DEF InitOver, Returned
<1>2. CASE stack' = GiveUp(Tail(stack))
  BY <1>1, <1>2, GiveUpEnds
<1>3. CASE Caller.why # "boot" /\ stack' = Tail(Tail(stack))
  <2>1. Caller = Head(Tail(stack))
    BY <1>1, CallerTyped
  <2>2. stack' # <<>> /\ Grounded(stack', window')
    BY <1>1, <1>3, <2>1, CallerGrounded
  <2> QED
    BY <2>2, GoingOn
<1> QED
  BY <1>2, <1>3 DEF InitOver, Returned

LEMMA FirstSuccessEnds ==
  ASSUME IInv, EndInv, FirstSuccess
  PROVE  EndInv'
<1>1. CASE ~HasNode(current)
  BY <1>1, FailEnds DEF FirstSuccess
<1>2. CASE HasNode(current)
  <2> DEFINE f == FrameOf("main", 0, "", "no")
  <2>1. stack' = <<f>> /\ window' = "enabled" /\ f.k = "main"
    BY <1>2 DEF FirstSuccess, FrameOf
  <2> HIDE DEF f
  <2>2. Grounded(stack', window') /\ stack' # <<>>
    BY <2>1 DEF Grounded, Ground
  <2> QED
    BY <2>2, GoingOn
<1> QED
  BY <1>1, <1>2

\* The node is stopped while the application function on top of `below' waits.
LEMMA DeinitEnds ==
  ASSUME IInv, current # 0, NEW opened \in {"no", "never"},
         NEW below \in Stacks, below # <<>>, Head(below).k = "app",
         Grounded(below, window'),
         StopNode(KeepExplorer(ad, current), current, "deinit", opened, below)
  PROVE  EndInv'
<1>1. current \in Adapters
  BY InPlace DEF IInv
<1> DEFINE w == window'
<1>2. Grounded(below, w)
  OBVIOUS
<1> HIDE DEF w
<1>3. Grounded(stack', w) /\ stack' # <<>>
  BY <1>1, <1>2, StopGrounded
<1> QED
  BY <1>3, GoingOn DEF w

LEMMA MainReturnsEnds ==
  ASSUME IInv, EndInv, MainReturns
  PROVE  EndInv'
<1>1. CASE ~HasNode(current)
  BY <1>1, FailEnds DEF MainReturns
<1>2. CASE HasNode(current)
  <2> DEFINE f == FrameOf("app", 0, "quit", "no")
  <2>1. /\ current # 0 /\ window' = "hidden"
        /\ StopNode(KeepExplorer(ad, current), current, "deinit", "no", <<f>>)
    BY <1>2 DEF MainReturns, HasNode
  <2>2. f \in Frame /\ f.k = "app" /\ f.why = "quit" /\ f.exit = "no"
    BY DEF FrameOf, Frame
  <2> HIDE DEF f
  <2>3. <<f>> \in Stacks /\ <<f>> # <<>> /\ Head(<<f>>) = f
    BY <2>2, Single
  <2>4. Grounded(<<f>>, window')
    BY <2>1, <2>2 DEF Grounded, Ground
  <2> QED
    BY <2>1, <2>2, <2>3, <2>4, DeinitEnds
<1> QED
  BY <1>1, <1>2

LEMMA ReinitEnds ==
  ASSUME IInv, EndInv, NEW m \in Methods, Reinit(m)
  PROVE  EndInv'
<1>1. CASE ~HasNode(current)
  BY <1>1, FailEnds DEF Reinit
<1>2. CASE HasNode(current)
  <2> DEFINE f == FrameOf("app", 0, "reinit", "no")
             below == <<f>> \o stack
  <2>1. /\ current # 0 /\ window = "enabled" /\ window' = "disabled"
        /\ stack # <<>> /\ stack \in Stacks /\ Grounded(stack, window)
        /\ StopNode(KeepExplorer(ad, current), current, "deinit", Opened, below)
    BY <1>2 DEF Reinit, HasNode, Looping, Alive, IInv, EndInv
  <2>2. f \in Frame /\ f.k = "app" /\ f.why = "reinit"
    BY DEF FrameOf, Frame
  <2> HIDE DEF f
  <2>3. Passing(f) /\ Called(f, Head(stack))
    BY <2>2 DEF Passing, Called
  <2>4. Grounded(stack, "disabled")
    BY <2>1, GroundWindow
  <2>5. Grounded(below, window') /\ below # <<>>
    BY <2>1, <2>2, <2>3, <2>4, GroundPush
  <2>6. below \in Stacks
    BY <2>1, <2>2, Push DEF NamesAdapter, NeedsBelow
  <2>7. Head(below) = f
    BY <2>1
  <2> HIDE DEF below
  <2> QED
    BY <2>1, <2>2, <2>5, <2>6, <2>7, OpenedTyped, DeinitEnds
<1> QED
  BY <1>1, <1>2

\* The caller takes a note of what to do when it goes on.
LEMMA GroundNoted ==
  ASSUME NEW s \in Stacks, s # <<>>, NEW w, Grounded(s, w),
         NEW f \in Frame, SameFrame(f, Head(s)), Head(s).why \in {"boot", "reinit"}
  PROVE  Grounded(<<f>> \o Tail(s), w)
<1>1. /\ Tail(s) \in Stacks /\ Grounded(Tail(s), w)
      /\ Tail(s) = <<>> => Ground(Head(s), w)
      /\ Tail(s) # <<>> => Passing(Head(s)) /\ Called(Head(s), Head(Tail(s)))
  BY Pop, GroundPop
<1>2. CASE Tail(s) = <<>>
  <2>1. Ground(f, w)
    BY <1>1, <1>2 DEF Ground, SameFrame
  <2>2. <<f>> \o Tail(s) = <<f>>
    <3>1. <<f>> \o <<>> = <<f>>
      OBVIOUS
    <3> QED
      BY <1>2, <3>1, Zenon
  <2>3. Grounded(<<f>>, w)
    <3> DEFINE t == <<f>>
    <3>1. Len(t) = 1 /\ t[1] = f
      OBVIOUS
    <3> HIDE DEF t
    <3>2. Grounded(t, w)
      BY <2>1, <3>1 DEF Grounded
    <3> QED
      BY <3>2 DEF t
  <2> QED
    BY <2>2, <2>3
<1>3. CASE Tail(s) # <<>>
  <2>1. Passing(f) /\ Called(f, Head(Tail(s)))
    BY <1>1, <1>3 DEF Passing, Called, SameFrame
  <2> QED
    BY <1>1, <1>3, <2>1, GroundPush
<1> QED
  BY <1>2, <1>3

LEMMA BindFailedEnds ==
  ASSUME IInv, EndInv, BindFailed
  PROVE  EndInv'
<1>1. CASE ~CanAskExplorer(current)
  BY <1>1, FailEnds DEF BindFailed
<1>2. CASE CanAskExplorer(current)
  <2> DEFINE f == [Caller EXCEPT !.exit = "bind"]
             s == Tail(stack)
             below == <<f>> \o Tail(s)
  <2>1. /\ Alive /\ Top.k = "initLoop" /\ current # 0 /\ window' = window
        /\ StopNode(KeepExplorer(ad, current), current, "deinit", Opened, below)
    BY <1>2 DEF BindFailed, Returned, CanAskExplorer
  <2>2. /\ s \in Stacks /\ s # <<>> /\ Grounded(s, window) /\ Caller = Head(s)
        /\ Head(s).k = "app" /\ Head(s).why \in {"boot", "reinit"}
    BY <2>1, CallerGrounded, CallerTyped
  <2>3. /\ f \in Frame /\ SameFrame(f, Head(s))
        /\ Tail(s) \in Stacks /\ NamesAdapter(Head(s))
        /\ NeedsBelow(Head(s)) => Tail(s) # <<>>
    BY <2>1, <2>2, CallerTyped, Noted
  <2> HIDE DEF f, s
  <2>4. Grounded(below, window')
    BY <2>1, <2>2, <2>3, GroundNoted
  <2>5. below \in Stacks /\ below # <<>>
    BY <2>3, Push DEF SameFrame, NamesAdapter, NeedsBelow
  <2>6. Head(below).k = "app"
    <3>1. Head(below) = f
      BY <2>3 DEF Stacks
    <3> QED
      BY <2>2, <2>3, <3>1 DEF SameFrame
  <2> HIDE DEF below
  <2> QED
    BY <2>1, <2>4, <2>5, <2>6, OpenedTyped, DeinitEnds
<1> QED
  BY <1>1, <1>2

\* Loops are told to end.
LEMMA RetoldEnds ==
  ASSUME IInv, EndInv, stack' = [i \in DOMAIN stack |-> stack'[i]],
         \A i \in DOMAIN stack : SameFrame(stack'[i], stack[i])
                                 /\ (stack[i].k = "app" => stack'[i] = stack[i]),
         window' = window \/ (window = "disabled" /\ window' = "enabled"),
         current' = current
  PROVE  EndInv'
<1> DEFINE v == window'
           t == stack'
<1>1. /\ t = [i \in DOMAIN stack |-> t[i]]
      /\ \A i \in DOMAIN stack : SameFrame(t[i], stack[i])
                                 /\ (stack[i].k = "app" => t[i] = stack[i])
      /\ v = window \/ {v, window} \subseteq {"disabled", "enabled"}
  OBVIOUS
<1> HIDE DEF v, t
<1>2. Grounded(t, v) /\ (t = <<>> <=> stack = <<>>)
  BY <1>1, GroundRetold DEF IInv, EndInv
<1>3. Grounded(stack', window') /\ (stack' = <<>> <=> stack = <<>>)
  BY <1>2 DEF t, v
<1> QED
  BY <1>3 DEF EndInv

LEMMA QuitEnds ==
  ASSUME IInv, EndInv, Quit
  PROVE  EndInv'
<1> DEFINE g(f) ==
      IF f.k \in {"app", "join"} THEN f
      ELSE IF f.k = "initLoop" /\ f.exit \in Statuses
           THEN [f EXCEPT !.exit = "INIT_SUCCESS"]
           ELSE [f EXCEPT !.exit = IF f.exit = "no" THEN "quit" ELSE f.exit]
<1>1. stack' = [i \in DOMAIN stack |-> g(stack[i])] /\ window' = window /\ current' = current
  BY DEF Quit
<1>2. \A f \in Frame : SameFrame(g(f), f) /\ (f.k = "app" => g(f) = f)
  BY DEF Frame, SameFrame
<1>3. \A i \in DOMAIN stack : stack[i] \in Frame
  BY DEF IInv, Stacks
<1> HIDE DEF g
<1>4. /\ stack' = [i \in DOMAIN stack |-> stack'[i]]
      /\ \A i \in DOMAIN stack : SameFrame(stack'[i], stack[i])
                                 /\ (stack[i].k = "app" => stack'[i] = stack[i])
  BY <1>1, <1>2, <1>3
<1> QED
  BY <1>1, <1>4, RetoldEnds

LEMMA RpcWaitReturnsEnds ==
  ASSUME IInv, EndInv, RpcWaitReturns
  PROVE  EndInv'
<1>1. Alive /\ Top.k = "rpcWait"
  BY DEF RpcWaitReturns
<1>2. CASE ~ad[Top.a].worker
  BY <1>2, FailEnds DEF RpcWaitReturns
<1>3. CASE ad[Top.a].worker
  <2> DEFINE f == FrameOf("join", Top.a, Top.why, "no")
  <2>1. stack' = <<f>> \o Tail(stack) /\ window' = window
    BY <1>3 DEF RpcWaitReturns
  <2>2. f \in Frame /\ f.k = "join" /\ f.why = Top.why
    BY <1>1, TopTyped DEF FrameOf, Frame
  <2> HIDE DEF f
  <2>3. Tail(stack) # <<>> /\ Called(Top, Head(Tail(stack)))
    BY <1>1, TopGrounded DEF Passing
  <2>4. Passing(f) /\ Called(f, Head(Tail(stack)))
    BY <2>2, <2>3 DEF Passing, Called
  <2> QED
    BY <1>1, <2>1, <2>2, <2>3, <2>4, TopGrounded, GroundPush, GoingOn
<1> QED
  BY <1>2, <1>3

LEMMA PortAcceptedEnds ==
  ASSUME IInv, EndInv, PortAccepted
  PROVE  EndInv'
<1>1. Alive /\ Top.k = "dialog"
  BY DEF PortAccepted, Looping
<1>2. CASE ~StartAllowed(current)
  BY <1>2, FailEnds DEF PortAccepted
<1>3. CASE StartAllowed(current)
  <2>1. StartNode(Tail(stack), ad, method) /\ window' = window
    BY <1>3 DEF PortAccepted
  <2> QED
    BY <1>1, <2>1, CallerGrounded, StartNodeEnds
<1> QED
  BY <1>2, <1>3

\* A worker's thread has ended: the caller of deinit goes on, and after quit
\* it has dropped the last adapter.
LEMMA JoinReturnsEnds ==
  ASSUME IInv, EndInv, JoinReturns
  PROVE  EndInv'
<1>1. Alive /\ Top.k = "join"
  BY DEF JoinReturns
<1>2. CASE ~ad[Top.a].worker
  BY <1>2, FailEnds DEF JoinReturns
<1>3. CASE ad[Top.a].worker
  <2> DEFINE below == Tail(stack)
             left == Dropped(Top.a)
  <2>1. GoOn(Top.why, below, left) /\ window' = window
    BY <1>3 DEF JoinReturns
  <2>2. /\ below \in Stacks /\ below # <<>> /\ Grounded(below, window)
        /\ Called(Top, Head(below))
    BY <1>1, TopGrounded DEF Passing
  <2> HIDE DEF below, left
  <2>3. CASE stack' = below
    BY <2>1, <2>2, <2>3, GoingOn
  <2>4. CASE current' = 0 /\ stack' = <<>>
    <3>1. Grounded(stack', window')
      BY <2>4 DEF Grounded
    <3> QED
      BY <2>4, <3>1 DEF EndInv
  <2>5. ASSUME Top.why = "deinit",
               Head(below).exit = "bind" \/ Head(below).why # "quit"
        PROVE  Head(below).k = "app" /\ Head(below).why \in {"boot", "reinit"}
    <3>1. Head(below).k = "app"
      BY <2>2, <2>5 DEF Called
    <3>2. Ground(Head(below), window) \/ Passing(Head(below))
      BY <2>2, GroundPop
    <3> QED
      BY <2>5, <3>1, <3>2 DEF Ground, Passing
  <2>6. CASE /\ Top.why = "deinit" /\ Head(below).exit = "bind"
             /\ stack' = <<FrameOf("dialog", 0, "", Opened)>>
                         \o (<<[Head(below) EXCEPT !.exit = "no"]>> \o Tail(below))
    <3> DEFINE d == FrameOf("dialog", 0, "", Opened)
               f == [Head(below) EXCEPT !.exit = "no"]
               s == <<f>> \o Tail(below)
    <3>1. Head(below).k = "app" /\ Head(below).why \in {"boot", "reinit"}
      BY <2>5, <2>6
    <3>2. d \in Frame /\ d.k = "dialog" /\ d.why = ""
      BY OpenedTyped DEF FrameOf, Frame
    <3>3. /\ Head(below) \in Frame /\ NamesAdapter(Head(below)) /\ Tail(below) \in Stacks
          /\ NeedsBelow(Head(below)) => Tail(below) # <<>>
      BY <2>2, Pop
    <3>4. f \in Frame /\ SameFrame(f, Head(below))
      BY <3>3, Noted
    <3>5. stack' = <<d>> \o s
      BY <2>6
    <3> HIDE DEF d, f
    <3>6. Grounded(s, window)
      BY <2>2, <3>1, <3>4, GroundNoted
    <3>7. s \in Stacks /\ s # <<>>
      BY <3>3, <3>4, Push DEF SameFrame, NamesAdapter, NeedsBelow
    <3>8. Head(s) = f
      BY <3>3 DEF Stacks
    <3> HIDE DEF s
    <3>9. Passing(d) /\ Called(d, Head(s))
      BY <3>1, <3>2, <3>4, <3>8 DEF Passing, Called, SameFrame
    <3> QED
      BY <2>1, <3>2, <3>5, <3>6, <3>7, <3>9, GroundPush, GoingOn
  <2>7. CASE /\ Top.why = "deinit" /\ Head(below).why # "quit"
             /\ StartNode(below, left, method)
    BY <2>1, <2>2, <2>5, <2>7, StartNodeEnds
  <2> QED
    BY <2>1, <2>3, <2>4, <2>6, <2>7 DEF GoOn
<1> QED
  BY <1>2, <1>3

LEMMA AnswerEnds ==
  ASSUME IInv, EndInv, NEW adv, NEW s, Answer(adv, s), current' = current
  PROVE  EndInv'
<1> DEFINE g(f) == IF f.k = "initLoop" THEN [f EXCEPT !.exit = s] ELSE f
<1>1. /\ stack' = [i \in DOMAIN stack |-> g(stack[i])]
      /\ window' = window \/ (window = "disabled" /\ window' = "enabled")
  BY DEF Answer
<1>2. \A f \in Frame : SameFrame(g(f), f) /\ (f.k = "app" => g(f) = f)
  BY DEF Frame, SameFrame
<1>3. \A i \in DOMAIN stack : stack[i] \in Frame
  BY DEF IInv, Stacks
<1> HIDE DEF g
<1>4. /\ stack' = [i \in DOMAIN stack |-> stack'[i]]
      /\ \A i \in DOMAIN stack : SameFrame(stack'[i], stack[i])
                                 /\ (stack[i].k = "app" => stack'[i] = stack[i])
  BY <1>1, <1>2, <1>3
<1> QED
  BY <1>1, <1>4, RetoldEnds

LEMMA NotFoundEnds ==
  ASSUME IInv, EndInv, Alive, NotFound, UNCHANGED <<current, window>>
  PROVE  EndInv'
<1>1. CASE current = 0
  BY <1>1, EndUnmoved DEF NotFound
<1>2. CASE current # 0
  <2>1. StopNode(ad, current, "notFound", Opened, stack)
    BY <1>2 DEF NotFound
  <2>2. current \in Adapters /\ stack \in Stacks /\ stack # <<>> /\ Grounded(stack, window)
    BY <1>2, InPlace DEF IInv, EndInv, Alive
  <2>3. Grounded(stack', window) /\ stack' # <<>>
    BY <2>1, <2>2, OpenedTyped, StopGrounded
  <2> QED
    BY <2>3, GoingOn
<1> QED
  BY <1>1, <1>2

LEMMA LoopEnds ==
  ASSUME IInv, EndInv, NEW e, HandleLoop(e), current' = current
  PROVE  EndInv'
<1> DEFINE g(i) == IF stack[i].k = "rpcWait" /\ stack[i].a = e.a /\ OpenWhenSent(i, e.n)
                   THEN [stack[i] EXCEPT !.exit = "done"] ELSE stack[i]
<1>1. stack' = [i \in DOMAIN stack |-> g(i)] /\ window' = window
  BY DEF HandleLoop
<1>2. \A i \in DOMAIN stack : stack[i] \in Frame
  BY DEF IInv, Stacks
<1>3. \A i \in DOMAIN stack : SameFrame(g(i), stack[i])
                              /\ (stack[i].k = "app" => g(i) = stack[i])
  BY <1>2 DEF Frame, SameFrame
<1> HIDE DEF g
<1>4. /\ stack' = [i \in DOMAIN stack |-> stack'[i]]
      /\ \A i \in DOMAIN stack : SameFrame(stack'[i], stack[i])
                                 /\ (stack[i].k = "app" => stack'[i] = stack[i])
  BY <1>1, <1>3
<1> QED
  BY <1>1, <1>4, RetoldEnds

LEMMA DispatchEnds ==
  ASSUME IInv, EndInv, Dispatch
  PROVE  EndInv'
<1> DEFINE e == Head(inbox)
<1>1. /\ Alive /\ current' = current
      /\ HandleInit(e) \/ HandleReport(e) \/ HandleLost(e) \/ HandleLoop(e)
  BY DEF Dispatch, Looping
<1> HIDE DEF e
<1>2. CASE HandleInit(e)
  BY <1>1, <1>2, EndUnmoved, AnswerEnds DEF HandleInit
<1>3. CASE HandleReport(e)
  BY <1>1, <1>3, EndUnmoved, AnswerEnds DEF HandleReport
<1>4. CASE HandleLost(e)
  BY <1>1, <1>4, EndUnmoved, NotFoundEnds DEF HandleLost
<1>5. CASE HandleLoop(e)
  BY <1>1, <1>5, LoopEnds
<1> QED
  BY <1>1, <1>2, <1>3, <1>4, <1>5

LEMMA TimerEventEnds ==
  ASSUME IInv, EndInv, TimerEvent
  PROVE  EndInv'
BY NotFoundEnds DEF TimerEvent, Looping

\* The explorer's timer and the worker threads touch neither the stack nor the
\* window.
LEMMA WorkerEnds ==
  ASSUME EndInv, NEW a \in Adapters, Worker(a) \/ RpcReport(a)
  PROVE  EndInv'
<1>1. CASE GuiUnchanged
  BY <1>1, EndUnmoved DEF GuiUnchanged
<1>2. CASE DeinitImpl(a)
  BY <1>1, <1>2, FailEnds DEF DeinitImpl
<1> QED
  BY <1>1, <1>2 DEF Worker, RpcReport, InitImpl, RpcInited, StageFails, StageDone,
                    NodeUp, ServerStops, GuardResets, ThreadEnds

LEMMA InitEndInv == Init => EndInv
<1> SUFFICES ASSUME Init PROVE EndInv
  OBVIOUS
<1> DEFINE f == FrameOf("app", 0, "boot", "no")
<1>1. stack = <<f>> /\ window = "none" /\ f.k = "app" /\ f.why = "boot"
  BY DEF Init, FrameOf
<1> HIDE DEF f
<1> QED
  BY <1>1 DEF EndInv, Grounded, Ground

LEMMA NextEndInv == IInv /\ EndInv /\ [Next]_vars => EndInv'
<1> SUFFICES ASSUME IInv, EndInv, [Next]_vars PROVE EndInv'
  OBVIOUS
<1>1. CASE Gui
  <2>1. StartExplorer => EndInv'
    BY EndUnmoved DEF StartExplorer
  <2> QED
    BY <1>1, <2>1, BootEnds, MainReturnsEnds, FirstSuccessEnds, BindFailedEnds,
       InitOverEnds, RpcWaitReturnsEnds, JoinReturnsEnds, DispatchEnds,
       TimerEventEnds DEF Gui, Returns
<1>2. CASE User
  BY <1>2, QuitEnds, PortAcceptedEnds, PortRejectedEnds, ReinitEnds DEF User
<1>3. CASE \E a \in Adapters : Worker(a) \/ RpcReport(a)
  BY <1>3, WorkerEnds
<1>4. CASE UNCHANGED vars
  BY <1>4, EndUnmoved DEF vars
<1> QED
  BY <1>1, <1>2, <1>3, <1>4 DEF Next

\* When prepareToQuit has run, no worker thread is left: the adapter it stops
\* is the last one, even if the loops it waits in started another.
THEOREM QuitLeavesNoThread == Spec => []EndedCleanly
<1>1. IInv /\ EndInv => EndedCleanly
  BY DEF IInv, OneWorker, EndInv, EndedCleanly, Running, Adapters
<1>2. Init => IInv /\ EndInv
  BY InitIInv, InitEndInv
<1>3. IInv /\ EndInv /\ [Next]_vars => (IInv /\ EndInv)'
  BY NextIInv, NextEndInv
<1> QED
  BY <1>1, <1>2, <1>3, PTL DEF Spec
=============================================================================
