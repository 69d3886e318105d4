--------------------------- MODULE DeskOrder_proofs ---------------------------
(***************************************************************************)
(* Proofs about SendOrder.tla and AddressBook.tla, in the desk.  The order *)
(* first.  Sums of amounts: Total is a recursive function, and what it     *)
(* does to a sequence that grows is proved from the well-foundedness of    *)
(* the natural numbers.  Then the bounds of the fees, and the invariant    *)
(* OrderInv, step by step.  The book after it: what an index says of a     *)
(* list, and the invariant BookInv.                                        *)
(***************************************************************************)
EXTENDS DeskForms_proofs, WellFoundedInduction

-----------------------------------------------------------------------------
(* The order.                                                              *)

\* Induction on the natural numbers, for a set of them.
LEMMA NatInduced ==
    ASSUME NEW T \in SUBSET Nat, 0 \in T, \A n \in T : n + 1 \in T
    PROVE  T = Nat
<1> DEFINE U == Nat \ T
<1> SUFFICES ASSUME U # {} PROVE FALSE
  OBVIOUS
<1>1. PICK x \in U : \A y \in U : ~(<<y, x>> \in OpToRel(<, Nat))
  <2>1. U \subseteq Nat
    OBVIOUS
  <2> HIDE DEF U
  <2> QED
    BY <2>1, NatLessThanWellFounded, WFMin
<1>2. x \in Nat /\ x # 0 /\ x - 1 \in Nat /\ x - 1 < x
  OBVIOUS
<1>3. <<x - 1, x>> \in OpToRel(<, Nat)
  BY <1>2 DEF OpToRel
<1>4. (x - 1) + 1 \in T
  BY <1>1, <1>2, <1>3
<1> QED
  BY <1>2, <1>4

\* The sums Total is taken from: there is such a function for every sequence.
SumTo(s, f, i) == IF i = 0 THEN 0 ELSE f[i - 1] + s[i]

LEMMA SumsExist ==
    ASSUME NEW s, NEW n \in Nat
    PROVE  \E f : f = [i \in 0 .. n |-> SumTo(s, f, i)]
<1> DEFINE T == {m \in Nat : \E f : f = [i \in 0 .. m |-> SumTo(s, f, i)]}
<1>1. 0 \in T
  <2> DEFINE f == [i \in 0 .. 0 |-> 0]
  <2>1. f = [i \in 0 .. 0 |-> SumTo(s, f, i)]
    BY DEF SumTo
  <2> QED
    BY <2>1
<1>2. ASSUME NEW m \in T PROVE m + 1 \in T
  <2>1. PICK f : f = [i \in 0 .. m |-> SumTo(s, f, i)]
    OBVIOUS
  <2> DEFINE g == [i \in 0 .. m + 1 |-> IF i = m + 1 THEN SumTo(s, f, m + 1) ELSE f[i]]
  <2>2. ASSUME NEW i \in 0 .. m + 1 PROVE g[i] = SumTo(s, g, i)
    <3>1. CASE i = m + 1
      <4>1. g[i] = SumTo(s, f, i) /\ g[i - 1] = f[i - 1]
        BY <3>1
      <4> QED
        BY <4>1 DEF SumTo
    <3>2. CASE i \in 0 .. m
      <4>1. g[i] = f[i] /\ f[i] = SumTo(s, f, i)
        BY <2>1, <3>2
      <4>2. i # 0 => g[i - 1] = f[i - 1]
        BY <3>2
      <4> QED
        BY <4>1, <4>2 DEF SumTo
    <3> QED
      BY <3>1, <3>2
  <2>3. g = [i \in 0 .. m + 1 |-> g[i]]
    OBVIOUS
  <2> HIDE DEF g
  <2>4. g = [i \in 0 .. m + 1 |-> SumTo(s, g, i)]
    BY <2>2, <2>3
  <2> QED
    BY <2>4
<1> HIDE DEF T
<1>3. T = Nat
  <2>1. T \in SUBSET Nat
    BY DEF T
  <2> QED
    BY <1>1, <1>2, <2>1, NatInduced
<1> QED
  BY <1>3 DEF T

IsSum(f, s, n) == f = [i \in 0 .. n |-> SumTo(s, f, i)]

LEMMA SumValues ==
    ASSUME NEW f, NEW s, NEW n \in Nat, IsSum(f, s, n)
    PROVE  \A i \in 0 .. n : f[i] = SumTo(s, f, i)
BY DEF IsSum

\* Total is the last of those sums.
LEMMA TotalIsSum ==
    ASSUME NEW s, Len(s) \in Nat
    PROVE  \E f : IsSum(f, s, Len(s)) /\ Order!Total(s) = f[Len(s)]
<1> DEFINE f == CHOOSE g : g = [i \in 0 .. Len(s) |-> SumTo(s, g, i)]
<1>1. f = [i \in 0 .. Len(s) |-> SumTo(s, f, i)]
  BY SumsExist
<1>2. Order!Total(s) = f[Len(s)]
  BY DEF Order!Total, SumTo
<1> QED
  BY <1>1, <1>2 DEF IsSum

\* Two sequences that agree as far as the shorter one goes have the same sums.
Agree(s, t, n) == \A i \in 1 .. n : s[i] = t[i] /\ s[i] \in Nat

LEMMA SumsAgree ==
    ASSUME NEW s, NEW t, NEW n \in Nat, NEW m \in Nat, n <= m, Agree(s, t, n),
           NEW f, IsSum(f, s, n), NEW g, IsSum(g, t, m)
    PROVE  f[n] = g[n] /\ f[n] \in Nat
<1> DEFINE T == {i \in Nat : i <= n => f[i] = g[i] /\ f[i] \in Nat}
<1>0. /\ \A i \in 0 .. n : f[i] = SumTo(s, f, i)
      /\ \A i \in 0 .. m : g[i] = SumTo(t, g, i)
  BY SumValues
<1>1. 0 \in T
  BY <1>0 DEF SumTo
<1>2. ASSUME NEW i \in T PROVE i + 1 \in T
  <2> SUFFICES ASSUME i + 1 <= n PROVE f[i + 1] = g[i + 1] /\ f[i + 1] \in Nat
    OBVIOUS
  <2>1. i + 1 \in 1 .. n /\ i + 1 \in 0 .. n /\ i + 1 \in 0 .. m /\ i + 1 # 0 /\ i + 1 - 1 = i
    OBVIOUS
  <2>2. f[i + 1] = f[i] + s[i + 1] /\ g[i + 1] = g[i] + t[i + 1]
    <3>1. f[i + 1] = SumTo(s, f, i + 1) /\ g[i + 1] = SumTo(t, g, i + 1)
      BY <1>0, <2>1
    <3> QED
      BY <2>1, <3>1 DEF SumTo
  <2>3. s[i + 1] = t[i + 1] /\ s[i + 1] \in Nat
    BY <2>1 DEF Agree
  <2> QED
    BY <2>1, <2>2, <2>3
<1> HIDE DEF T
<1>3. T = Nat
  <2>1. T \in SUBSET Nat
    BY DEF T
  <2> QED
    BY <1>1, <1>2, <2>1, NatInduced
<1>4. n \in T
  BY <1>3
<1> QED
  BY <1>4 DEF T

\* What the proofs need of Total.
LEMMA TotalTyped ==
    ASSUME NEW s \in Seq(Nat)
    PROVE  Order!Total(s) \in Nat
<1>1. Len(s) \in Nat /\ Agree(s, s, Len(s))
  BY DEF Agree
<1>2. PICK f : IsSum(f, s, Len(s)) /\ Order!Total(s) = f[Len(s)]
  BY <1>1, TotalIsSum
<1>3. f[Len(s)] \in Nat
  <2> DEFINE n == Len(s)
  <2>1. n \in Nat /\ n <= n /\ Agree(s, s, n) /\ IsSum(f, s, n)
    BY <1>1, <1>2
  <2> HIDE DEF n
  <2>2. f[n] \in Nat
    BY <2>1, SumsAgree
  <2> QED
    BY <2>2 DEF n
<1> QED
  BY <1>2, <1>3

LEMMA TotalOfMore ==
    ASSUME NEW s \in Seq(Nat)
    PROVE  Order!Total(Append(s, 0)) = Order!Total(s)
<1> DEFINE t == Append(s, 0)
           n == Len(s)
<1>1. n \in Nat /\ Len(t) = n + 1 /\ t[n + 1] = 0
  OBVIOUS
<1>2. Agree(s, t, n)
  BY DEF Agree
<1> HIDE DEF t
<1>3. PICK f : IsSum(f, s, n) /\ Order!Total(s) = f[n]
  BY <1>1, TotalIsSum
<1> HIDE DEF n
<1>4. PICK g : IsSum(g, t, n + 1) /\ Order!Total(t) = g[n + 1]
  <2>1. Len(t) = n + 1 /\ n + 1 \in Nat
    BY <1>1
  <2>2. \E g : IsSum(g, t, Len(t)) /\ Order!Total(t) = g[Len(t)]
    BY <2>1, TotalIsSum
  <2> QED
    BY <2>1, <2>2
<1>5. f[n] = g[n] /\ f[n] \in Nat
  <2>1. n + 1 \in Nat /\ n <= n + 1
    BY <1>1
  <2> QED
    BY <1>1, <1>2, <1>3, <1>4, <2>1, SumsAgree
<1>6. g[n + 1] = g[n] + 0
  <2>1. n + 1 \in 0 .. n + 1 /\ n + 1 \in Nat /\ n + 1 # 0 /\ n + 1 - 1 = n
    BY <1>1
  <2>2. g[n + 1] = SumTo(t, g, n + 1)
    BY <1>4, <2>1, SumValues
  <2> QED
    BY <1>1, <2>1, <2>2 DEF SumTo
<1> QED
  BY <1>3, <1>4, <1>5, <1>6 DEF t

LEMMA TotalOfOne ==
    ASSUME NEW x \in Nat
    PROVE  Order!Total(<<x>>) = x
<1> DEFINE s == <<x>>
<1>1. Len(s) = 1 /\ s[1] = x
  OBVIOUS
<1> HIDE DEF s
<1>2. PICK f : IsSum(f, s, 1) /\ Order!Total(s) = f[1]
  <2>1. Len(s) \in Nat
    BY <1>1
  <2>2. \E f : IsSum(f, s, Len(s)) /\ Order!Total(s) = f[Len(s)]
    BY <2>1, TotalIsSum
  <2> QED
    BY <1>1, <2>2
<1>3. f[0] = SumTo(s, f, 0) /\ f[1] = SumTo(s, f, 1)
  BY <1>2, SumValues
<1>4. f[1] = 0 + x
  BY <1>1, <1>3 DEF SumTo
<1> QED
  BY <1>2, <1>4 DEF s

-----------------------------------------------------------------------------
\* Fees.
LEMMA GreaterOfTwo ==
    ASSUME NEW x \in Int, NEW y \in Int
    PROVE  Order!Max({x, y}) = IF x >= y THEN x ELSE y
<1>1. \E z \in {x, y} : \A w \in {x, y} : z >= w
  OBVIOUS
<1>2. Order!Max({x, y}) \in {x, y} /\ \A w \in {x, y} : Order!Max({x, y}) >= w
  BY <1>1 DEF Order!Max
<1> QED
  BY <1>2

LEMMA LesserOfTwo ==
    ASSUME NEW x \in Int, NEW y \in Int
    PROVE  Order!Min({x, y}) = IF x <= y THEN x ELSE y
<1>1. \E z \in {x, y} : \A w \in {x, y} : z <= w
  OBVIOUS
<1>2. Order!Min({x, y}) \in {x, y} /\ \A w \in {x, y} : Order!Min({x, y}) <= w
  BY <1>1 DEF Order!Min
<1> QED
  BY <1>2

\* The node's fee is positive and bounded, and that of more is not less.
LEMMA ClampedFee ==
    ASSUME NEW x \in Int, minimal \in Nat \ {0}
    PROVE  Order!Clamped(x) \in 1 .. MaxNodeFee
<1> DEFINE y == Order!Max({x, minimal})
<1>1. y \in Int /\ y >= 1
  BY GreaterOfTwo
<1> HIDE DEF y
<1>2. Order!Min({y, MaxNodeFee}) \in 1 .. MaxNodeFee
  <2>1. Order!Min({y, MaxNodeFee}) = IF y <= MaxNodeFee THEN y ELSE MaxNodeFee
    BY <1>1, LesserOfTwo, OrderAssumption
  <2> QED
    BY <1>1, <2>1, OrderAssumption
<1> QED
  BY <1>2 DEF Order!Clamped, y

LEMMA ClampedGrows ==
    ASSUME NEW x \in Int, NEW z \in Int, x <= z, minimal \in Nat
    PROVE  Order!Clamped(x) <= Order!Clamped(z)
<1> DEFINE u == Order!Max({x, minimal})
           v == Order!Max({z, minimal})
<1>1. u \in Int /\ v \in Int /\ u <= v
  BY GreaterOfTwo
<1> HIDE DEF u, v
<1>2. Order!Min({u, MaxNodeFee}) <= Order!Min({v, MaxNodeFee})
  <2>1. Order!Min({u, MaxNodeFee}) = IF u <= MaxNodeFee THEN u ELSE MaxNodeFee
    BY <1>1, LesserOfTwo, OrderAssumption
  <2>2. Order!Min({v, MaxNodeFee}) = IF v <= MaxNodeFee THEN v ELSE MaxNodeFee
    BY <1>1, LesserOfTwo, OrderAssumption
  <2> QED
    BY <1>1, <2>1, <2>2, OrderAssumption
<1> QED
  BY <1>2 DEF Order!Clamped, u, v

LEMMA Shares ==
    ASSUME NEW r \in Nat \ {0}, NEW x \in Nat, NEW y \in Nat, x <= y
    PROVE  x \div r \in Nat /\ y \div r \in Nat /\ x \div r <= y \div r
OBVIOUS

LEMMA RateFees ==
    ASSUME NEW x \in Nat, minimal \in Nat \ {0}
    PROVE  Order!RateFee(x) \in 1 .. MaxNodeFee
<1>1. x \div Rate \in Int
  BY OrderAssumption
<1> QED
  BY <1>1, ClampedFee DEF Order!RateFee

LEMMA RateFeeGrows ==
    ASSUME NEW x \in Nat, NEW y \in Nat, x <= y, minimal \in Nat
    PROVE  Order!RateFee(x) <= Order!RateFee(y)
<1>1. x \div Rate \in Int /\ y \div Rate \in Int /\ x \div Rate <= y \div Rate
  BY OrderAssumption, Shares
<1> DEFINE a == x \div Rate
           b == y \div Rate
<1>2. a \in Int /\ b \in Int /\ a <= b
  BY <1>1
<1> HIDE DEF a, b
<1>3. Order!Clamped(a) <= Order!Clamped(b)
  BY <1>2, ClampedGrows
<1> QED
  BY <1>3 DEF Order!RateFee, a, b

\* The network's fee at a priority is at least the minimal one.
LEMMA PriorityFee ==
    ASSUME NEW m \in Nat, NEW p \in Nat \ {0}
    PROVE  m * p \in Nat /\ m * p >= m
OBVIOUS

-----------------------------------------------------------------------------
\* The invariant.  A fee is paid to a node that asks for one, and to no other;
\* the history of the window is that of its wallets.
Orders == [sum: Int, node: Int, fee: Int, shown: Int, balance: Int]

OrderTyped ==
  /\ feeNode \in {"unknown", "none", "rate", "flat"}
  /\ ready \in BOOLEAN /\ stale \in BOOLEAN /\ whole \in BOOLEAN
  /\ reopened \in BOOLEAN
  /\ minimal \in MinimalFees /\ least \in MinimalFees \cup {0}
  /\ slider \in Priorities /\ balance \in Balances
  /\ amounts \in Seq(Nat) /\ Len(amounts) <= MaxRecipients
  /\ nodeFee \in 0 .. MaxNodeFee /\ spin \in Int /\ spin >= least
  /\ order \in Orders

Windowed ==
  /\ ready => feeNode # "unknown"
  /\ whole => ready
  /\ Order!Asking => ready

NodeAsked ==
  /\ feeNode \in {"unknown", "none"} => nodeFee = 0
  /\ feeNode \in {"rate", "flat"} /\ ~reopened => nodeFee > 0

\* What is paid and asked for is what the form shows.
OrderInv == OrderTyped /\ Windowed /\ NodeAsked /\ Order!OrderPaid

LEMMA OrderNumbers ==
    ASSUME OrderTyped
    PROVE  /\ minimal \in Nat \ {0} /\ minimal \in Int /\ least \in Nat /\ slider \in Nat \ {0}
           /\ balance \in Nat /\ nodeFee \in Nat /\ spin \in Int
           /\ Order!Total(amounts) \in Nat
           /\ minimal * slider \in Nat /\ minimal * slider >= minimal
<1>1. /\ minimal \in Nat \ {0} /\ least \in Nat /\ slider \in Nat \ {0} /\ balance \in Nat
  BY OrderAssumption DEF OrderTyped
<1>2. nodeFee \in Nat /\ spin \in Int /\ amounts \in Seq(Nat)
  BY OrderAssumption DEF OrderTyped
<1> QED
  BY <1>1, <1>2, PriorityFee, TotalTyped

LEMMA OrderBegins == Init => OrderInv
<1> SUFFICES ASSUME Order!Init PROVE OrderInv
  BY DEF Init
<1>1. order = [sum |-> 0, node |-> 0, fee |-> 0, shown |-> 0, balance |-> 0]
  BY DEF Order!Init, Order!NoOrder
<1>2. OrderTyped
  <2>1. minimal \in MinimalFees /\ slider \in Priorities /\ balance \in Balances
    BY OrderAssumption DEF Order!Init
  <2>2. amounts \in Seq(Nat) /\ Len(amounts) = 0
    BY DEF Order!Init
  <2>3. order \in Orders
    BY <1>1 DEF Orders
  <2>4. /\ feeNode \in {"unknown", "none", "rate", "flat"}
        /\ ready \in BOOLEAN /\ stale \in BOOLEAN /\ whole \in BOOLEAN
        /\ reopened \in BOOLEAN
    BY DEF Order!Init
  <2>5. /\ least \in MinimalFees \cup {0} /\ nodeFee \in 0 .. MaxNodeFee
        /\ spin \in Int /\ spin >= least
    BY OrderAssumption DEF Order!Init
  <2>6. Len(amounts) <= MaxRecipients
    BY <2>2, OrderAssumption
  <2> QED
    BY <2>1, <2>2, <2>3, <2>4, <2>5, <2>6 DEF OrderTyped
<1>3. Windowed /\ NodeAsked
  BY DEF Order!Init, Windowed, NodeAsked, Order!Asking
<1>4. Order!OrderPaid
  BY <1>1 DEF Order!Init, Order!OrderPaid, Order!OrderFits, Order!FeesOfWhatIsShown,
              Order!SendAllFits, Order!NodePaid, Order!Asking
<1> QED
  BY <1>2, <1>3, <1>4 DEF OrderInv

\* The fees computed for the amounts s.
LEMMA Recomputed ==
    ASSUME OrderTyped, NEW kind, NEW fee \in 0 .. MaxNodeFee, NEW s \in Seq(Nat),
           least' \in Nat, Order!Recompute(kind, fee, s)
    PROVE  /\ nodeFee' \in 0 .. MaxNodeFee /\ spin' \in Int /\ spin' >= least'
           /\ nodeFee' = IF kind = "rate" THEN Order!RateFee(Order!Total(s)) ELSE fee
           /\ kind = "rate" => nodeFee' > 0
           /\ least' = minimal => spin' = minimal * slider + nodeFee'
           /\ stale' = FALSE
<1>1. /\ minimal \in Nat \ {0} /\ minimal * slider \in Nat /\ minimal * slider >= minimal
  BY OrderNumbers
<1>2. nodeFee' = IF kind = "rate" THEN Order!RateFee(Order!Total(s)) ELSE fee
  BY DEF Order!Recompute, Order!Computed
<1>3. Order!RateFee(Order!Total(s)) \in 1 .. MaxNodeFee
  BY <1>1, RateFees, TotalTyped
<1>4. nodeFee' \in 0 .. MaxNodeFee /\ (kind = "rate" => nodeFee' > 0)
  BY <1>2, <1>3, OrderAssumption
<1>5. spin' = Order!Max({least', minimal * slider + nodeFee'}) /\ stale' = FALSE
  BY DEF Order!Recompute
<1> DEFINE z == minimal * slider + nodeFee'
<1>6. z \in Int /\ z >= minimal
  BY <1>1, <1>4, OrderAssumption
<1> HIDE DEF z
<1>7. spin' = IF least' >= z THEN least' ELSE z
  BY <1>5, <1>6, GreaterOfTwo DEF z
<1>8. spin' \in Int /\ spin' >= least' /\ (least' = minimal => spin' = z)
  BY <1>6, <1>7
<1> QED
  BY <1>2, <1>4, <1>5, <1>8 DEF z

-----------------------------------------------------------------------------
\* Steps.
LEMMA SameFees ==
    ASSUME UNCHANGED minimal
    PROVE  \A x : Order!RateFee(x)' = Order!RateFee(x)
BY DEF Order!RateFee, Order!Clamped

\* The order on the way is not touched by what happens to the form.
LEMMA OrderStays ==
    ASSUME OrderInv, order' = order \/ order' = Order!NoOrder,
           Order!Asking' => UNCHANGED <<feeNode, reopened>>
    PROVE  Order!OrderFits' /\ Order!NodePaid' /\ order' \in Orders
<1>1. CASE order' = order
  BY <1>1 DEF OrderInv, OrderTyped, Order!OrderPaid, Order!OrderFits, Order!NodePaid,
              Order!Asking
<1>2. CASE order' = Order!NoOrder
  <2>1. order' = [sum |-> 0, node |-> 0, fee |-> 0, shown |-> 0, balance |-> 0]
    BY <1>2 DEF Order!NoOrder
  <2> QED
    BY <2>1 DEF Orders, Order!OrderFits, Order!NodePaid, Order!Asking, Order!NoOrder
<1> QED
  BY <1>1, <1>2

\* The fees are computed again.
LEMMA FeesFollow ==
    ASSUME OrderInv, UNCHANGED <<minimal, slider>>,
           NEW fee \in 0 .. MaxNodeFee, Order!Recompute(feeNode', fee, amounts'),
           amounts' \in Seq(Nat), Len(amounts') <= MaxRecipients,
           least' \in MinimalFees \cup {0},
           feeNode' \in {"none", "rate", "flat"},
           feeNode' = "none" => fee = 0,
           feeNode' = "flat" /\ ~reopened' => fee > 0,
           ready' \in BOOLEAN, balance' \in Balances, reopened' \in BOOLEAN,
           whole' \in BOOLEAN,
           order' = order \/ order' = Order!NoOrder,
           Order!Asking' => UNCHANGED <<feeNode, reopened>>,
           Windowed', Order!SendAllFits'
    PROVE  OrderInv'
<1>1. OrderTyped
  BY DEF OrderInv
<1>2. least' \in Nat
  BY OrderAssumption
<1>3. /\ nodeFee' \in 0 .. MaxNodeFee /\ spin' \in Int /\ spin' >= least'
      /\ nodeFee' = IF feeNode' = "rate" THEN Order!RateFee(Order!Total(amounts')) ELSE fee
      /\ feeNode' = "rate" => nodeFee' > 0
      /\ least' = minimal => spin' = minimal * slider + nodeFee'
      /\ stale' = FALSE
  BY <1>1, <1>2, Recomputed
<1>4. Order!OrderFits' /\ Order!NodePaid' /\ order' \in Orders
  BY OrderStays
<1>5. OrderTyped'
  <2>1. minimal' \in MinimalFees /\ slider' \in Priorities
    BY <1>1 DEF OrderTyped
  <2> QED
    BY <1>3, <1>4, <2>1 DEF OrderTyped
<1>6. NodeAsked'
  BY <1>3 DEF NodeAsked
<1>7. Order!FeesOfWhatIsShown'
  <2>1. least' = minimal' => spin' = minimal' * slider' + nodeFee'
    BY <1>3
  <2>2. feeNode' = "rate" => nodeFee' = Order!RateFee(Order!Total(amounts))'
    BY <1>3, SameFees DEF Order!Total
  <2> QED
    BY <2>1, <2>2 DEF Order!FeesOfWhatIsShown
<1> QED
  BY <1>4, <1>5, <1>6, <1>7 DEF OrderInv, Order!OrderPaid

LEMMA SetAdapterKeeps ==
    ASSUME OrderInv, Order!SetCryptoNoteAdapter
    PROVE  OrderInv'
<1>1. PICK kind \in {"none", "rate", "flat"} :
        /\ feeNode = "unknown" /\ feeNode' = kind
        /\ least' = minimal
        /\ Order!Recompute(kind, IF kind = "flat" THEN Order!Clamped(FlatFee) ELSE nodeFee, amounts)
        /\ UNCHANGED <<ready, minimal, amounts, slider, balance, order, whole, reopened>>
  BY DEF Order!SetCryptoNoteAdapter
<1>2. OrderTyped /\ Windowed /\ NodeAsked
  BY DEF OrderInv
<1>3. nodeFee = 0 /\ ready = FALSE /\ whole = FALSE /\ ~Order!Asking
  BY <1>1, <1>2 DEF OrderTyped, Windowed, NodeAsked
<1> DEFINE fee == IF kind = "flat" THEN Order!Clamped(FlatFee) ELSE nodeFee
<1>4. Order!Clamped(FlatFee) \in 1 .. MaxNodeFee
  BY <1>2, OrderNumbers, ClampedFee, OrderAssumption
<1>5. /\ fee \in 0 .. MaxNodeFee
      /\ feeNode' = "none" => fee = 0
      /\ feeNode' = "flat" => fee > 0
  BY <1>1, <1>3, <1>4, OrderAssumption
<1>6. Order!Recompute(feeNode', fee, amounts')
  BY <1>1 DEF Order!Recompute, Order!Computed
<1> HIDE DEF fee
<1>7. /\ amounts' \in Seq(Nat) /\ Len(amounts') <= MaxRecipients
      /\ least' \in MinimalFees \cup {0} /\ feeNode' \in {"none", "rate", "flat"}
      /\ ready' \in BOOLEAN /\ balance' \in Balances /\ reopened' \in BOOLEAN
      /\ whole' \in BOOLEAN
  BY <1>1, <1>2 DEF OrderTyped
<1>8. ~Order!Asking' /\ order' = order
  BY <1>1, <1>3 DEF Order!Asking
<1>9. Windowed' /\ Order!SendAllFits'
  BY <1>1, <1>2, <1>3, <1>8 DEF Windowed, Order!SendAllFits
<1> QED
  BY <1>1, <1>5, <1>6, <1>7, <1>8, <1>9, FeesFollow

\* Amounts are typed and removed, the form is cleared: what they have in common.
LEMMA FormChanges ==
    ASSUME OrderInv, UNCHANGED <<feeNode, minimal, slider, balance>>,
           NEW fee, fee = nodeFee \/ (fee = 0 /\ reopened'),
           Order!Recompute(feeNode, fee, amounts'),
           amounts' \in Seq(Nat), Len(amounts') <= MaxRecipients,
           least' \in {least, minimal}, whole' = FALSE,
           feeNode # "unknown", ready' \in BOOLEAN, Order!Asking' => ready',
           reopened' \in BOOLEAN, reopened => reopened',
           order' = order \/ order' = Order!NoOrder,
           Order!Asking' => UNCHANGED reopened
    PROVE  OrderInv'
<1>1. OrderTyped /\ Windowed /\ NodeAsked
  BY DEF OrderInv
<1>2. feeNode \in {"none", "rate", "flat"}
  BY <1>1 DEF OrderTyped, Windowed
<1>3. /\ fee \in 0 .. MaxNodeFee
      /\ feeNode' = "none" => fee = 0
      /\ feeNode' = "flat" /\ ~reopened' => fee > 0
  BY <1>1, <1>2, OrderAssumption DEF OrderTyped, NodeAsked
<1>4. Order!Recompute(feeNode', fee, amounts')
  BY DEF Order!Recompute, Order!Computed
<1>5. /\ least' \in MinimalFees \cup {0} /\ feeNode' \in {"none", "rate", "flat"}
      /\ balance' \in Balances /\ whole' \in BOOLEAN
  BY <1>1, <1>2 DEF OrderTyped
<1>6. Windowed'
  BY <1>2 DEF Windowed
<1>7. Order!SendAllFits'
  BY DEF Order!SendAllFits
<1>8. Order!Asking' => UNCHANGED <<feeNode, reopened>>
  OBVIOUS
<1> QED
  BY <1>3, <1>4, <1>5, <1>6, <1>7, <1>8, FeesFollow

LEMMA AmountTypedKeeps ==
    ASSUME OrderInv, Order!AmountTyped
    PROVE  OrderInv'
<1>1. PICK i \in DOMAIN amounts, a \in Amounts :
        /\ Order!User
        /\ amounts' = [amounts EXCEPT ![i] = a] /\ whole' = FALSE
        /\ least' = least
        /\ Order!Recompute(feeNode, nodeFee, amounts')
        /\ UNCHANGED <<feeNode, ready, minimal, slider, balance, order, reopened>>
  BY DEF Order!AmountTyped
<1>2. amounts \in Seq(Nat) /\ Len(amounts) <= MaxRecipients
      /\ ready /\ ready' \in BOOLEAN /\ reopened' \in BOOLEAN
  BY <1>1 DEF OrderInv, OrderTyped, Order!User
<1>3. amounts' \in Seq(Nat) /\ Len(amounts') = Len(amounts)
  BY <1>1, <1>2, OrderAssumption
<1>4. feeNode # "unknown" /\ ~Order!Asking'
  BY <1>1, <1>2 DEF OrderInv, Windowed, Order!User, Order!Asking
<1> QED
  BY <1>1, <1>2, <1>3, <1>4, FormChanges

LEMMA RemovedKeeps ==
    ASSUME OrderInv, Order!Removed
    PROVE  OrderInv'
<1>1. PICK i \in DOMAIN amounts :
        /\ Order!User /\ Len(amounts) > 1
        /\ amounts' = Order!RemoveAt(amounts, i) /\ whole' = FALSE
        /\ least' = least
        /\ Order!Recompute(feeNode, nodeFee, amounts')
        /\ UNCHANGED <<feeNode, ready, minimal, slider, balance, order, reopened>>
  BY DEF Order!Removed
<1>2. amounts \in Seq(Nat) /\ Len(amounts) <= MaxRecipients
      /\ ready /\ ready' \in BOOLEAN /\ reopened' \in BOOLEAN
  BY <1>1 DEF OrderInv, OrderTyped, Order!User
<1>3. IsTakenOut(amounts', amounts, i)
  <2>1. i \in 1 .. Len(amounts)
    BY <1>2
  <2> QED
    BY <1>1, <1>2, <2>1, OneTakenOut DEF Order!RemoveAt
<1>4. amounts' \in Seq(Nat) /\ Len(amounts') <= MaxRecipients
  <2>1. Len(amounts) \in Nat /\ Len(amounts') = Len(amounts) - 1
    BY <1>2, <1>3 DEF IsTakenOut
  <2> QED
    BY <1>2, <1>3, <2>1, OrderAssumption DEF IsTakenOut
<1>5. feeNode # "unknown" /\ ~Order!Asking'
  BY <1>1, <1>2 DEF OrderInv, Windowed, Order!User, Order!Asking
<1> QED
  BY <1>1, <1>2, <1>4, <1>5, FormChanges

LEMMA SentKeeps ==
    ASSUME OrderInv, Order!Sent \/ Order!UrlReceived \/ Order!WalletClosed
    PROVE  OrderInv'
<1>1. /\ Windowed /\ ready \in BOOLEAN /\ reopened \in BOOLEAN
  BY DEF OrderInv, OrderTyped
<1>2. MaxRecipients \in Nat /\ 0 <= MaxRecipients /\ 1 <= MaxRecipients
  BY OrderAssumption
<1>3. CASE Order!Sent
  <2>1. /\ Order!Asking /\ order' = Order!NoOrder
        /\ least' = minimal /\ amounts' = <<0>> /\ whole' = FALSE
        /\ Order!Recompute(feeNode, nodeFee, amounts')
        /\ UNCHANGED <<feeNode, ready, minimal, slider, balance, reopened>>
    BY <1>3 DEF Order!Sent, Order!Clear
  <2>2. ready
    BY <1>1, <2>1 DEF Windowed
  <2>3. amounts' \in Seq(Nat) /\ Len(amounts') = 1 /\ ~Order!Asking'
    BY <2>1 DEF Order!Asking
  <2> QED
    BY <1>1, <1>2, <2>1, <2>2, <2>3, FormChanges DEF Windowed
<1>4. CASE Order!UrlReceived
  <2>1. PICK a \in Amounts : \E b \in Order!Nearest(a) :
          feeNode # "unknown" /\ Order!Clear(nodeFee, <<b>>)
    BY <1>4 DEF Order!UrlReceived
  <2>2. PICK b \in Order!Nearest(a) : feeNode # "unknown" /\ Order!Clear(nodeFee, <<b>>)
    BY <2>1
  <2>3. b \in Nat
    BY OrderAssumption DEF Order!Nearest
  <2>4. /\ least' = minimal /\ amounts' = <<b>> /\ whole' = FALSE
        /\ Order!Recompute(feeNode, nodeFee, amounts')
        /\ UNCHANGED <<feeNode, ready, minimal, slider, balance, order, reopened>>
    BY <1>4, <2>2 DEF Order!UrlReceived, Order!Clear
  <2>5. amounts' \in Seq(Nat) /\ Len(amounts') = 1
    BY <2>3, <2>4
  <2>6. Order!Asking' => ready'
    BY <1>1, <2>4 DEF Windowed, Order!Asking
  <2> QED
    BY <1>1, <1>2, <2>2, <2>4, <2>5, <2>6, FormChanges
<1>5. CASE Order!WalletClosed
  <2>1. /\ ready /\ ~Order!Asking /\ ready' = FALSE /\ reopened' = TRUE
        /\ least' = minimal /\ amounts' = <<>> /\ whole' = FALSE
        /\ Order!Recompute(feeNode, 0, amounts')
        /\ UNCHANGED <<feeNode, minimal, slider, balance, order>>
    BY <1>5 DEF Order!WalletClosed, Order!Clear, Order!User
  <2>2. amounts' \in Seq(Nat) /\ Len(amounts') = 0
    BY <2>1
  <2>3. ~Order!Asking' /\ feeNode # "unknown"
    BY <1>1, <2>1 DEF Order!Asking, Windowed
  <2> QED
    BY <1>1, <1>2, <2>1, <2>2, <2>3, FormChanges
<1> QED
  BY <1>3, <1>4, <1>5

\* A new frame has no amount yet.
LEMMA FrameKeeps ==
    ASSUME OrderInv, Order!WalletOpened \/ Order!AddRecipientClicked
    PROVE  OrderInv'
<1>1. OrderTyped /\ Windowed /\ NodeAsked /\ Order!OrderPaid
  BY DEF OrderInv
<1>2. /\ amounts' = Append(amounts, 0) /\ ready' = TRUE /\ feeNode # "unknown"
      /\ whole' = whole \/ whole' = FALSE
      /\ UNCHANGED <<feeNode, minimal, least, slider, nodeFee, spin, balance, order>>
      /\ UNCHANGED <<stale, reopened>>
  BY <1>1 DEF Order!WalletOpened, Order!AddRecipientClicked, Order!User, Windowed
<1>3. amounts \in Seq(Nat)
  BY <1>1 DEF OrderTyped
<1>4. Len(amounts) < MaxRecipients
  <2>1. CASE Order!WalletOpened
    BY <2>1 DEF Order!WalletOpened
  <2>2. CASE Order!AddRecipientClicked
    BY <2>2 DEF Order!AddRecipientClicked
  <2> QED
    BY <2>1, <2>2
<1>5. amounts' \in Seq(Nat) /\ Len(amounts') <= MaxRecipients
  BY <1>2, <1>3, <1>4, OrderAssumption
<1>6. Order!Total(amounts)' = Order!Total(amounts)
  <2>1. Order!Total(amounts') = Order!Total(amounts)
    BY <1>2, <1>3, TotalOfMore
  <2> QED
    BY <2>1 DEF Order!Total
<1>7. ready' => ready \/ Order!WalletOpened
  BY DEF Order!AddRecipientClicked, Order!User
<1>8. OrderTyped'
  BY <1>1, <1>2, <1>5 DEF OrderTyped
<1>9. Windowed'
  BY <1>1, <1>2 DEF Windowed
<1>10. NodeAsked' /\ Order!OrderFits' /\ Order!NodePaid'
  BY <1>1, <1>2 DEF NodeAsked, Order!OrderPaid, Order!OrderFits, Order!NodePaid, Order!Asking
<1>11. Order!FeesOfWhatIsShown'
  <2>1. (Order!RateFee(Order!Total(amounts)))' = Order!RateFee(Order!Total(amounts))
    BY <1>2, <1>6, SameFees DEF Order!RateFee, Order!Clamped
  <2> QED
    BY <1>1, <1>2, <2>1 DEF Order!OrderPaid, Order!FeesOfWhatIsShown
<1>12. Order!SendAllFits'
  BY <1>1, <1>2, <1>6 DEF Order!OrderPaid, Order!SendAllFits, Order!Covered
<1> QED
  BY <1>8, <1>9, <1>10, <1>11, <1>12 DEF OrderInv, Order!OrderPaid

\* Another priority changes the network's part of the fee.
LEMMA PriorityKeeps ==
    ASSUME OrderInv, Order!PriorityValueChanged
    PROVE  OrderInv'
<1>1. PICK p \in Priorities :
        /\ slider' = p /\ whole' = FALSE
        /\ spin' = Order!Max({least, minimal * p + nodeFee})
        /\ UNCHANGED <<feeNode, ready, minimal, least, amounts, nodeFee, balance, order,
                       stale, reopened>>
  BY DEF Order!PriorityValueChanged
<1>2. OrderTyped /\ Windowed /\ NodeAsked /\ Order!OrderPaid
  BY DEF OrderInv
<1>3. /\ minimal \in Nat /\ least \in Nat /\ nodeFee \in Nat
      /\ minimal * p \in Nat /\ minimal * p >= minimal
  BY <1>2, OrderNumbers, OrderAssumption, PriorityFee
<1> DEFINE z == minimal * p + nodeFee
<1>4. z \in Int /\ z >= minimal
  BY <1>3
<1> HIDE DEF z
<1>5. spin' = IF least >= z THEN least ELSE z
  BY <1>1, <1>3, <1>4, GreaterOfTwo DEF z
<1>6. /\ spin' \in Int /\ spin' >= least'
      /\ least = minimal => spin' = z
  BY <1>1, <1>3, <1>4, <1>5
<1>7. OrderTyped'
  BY <1>1, <1>2, <1>6 DEF OrderTyped
<1>8. Windowed' /\ NodeAsked' /\ Order!OrderFits' /\ Order!NodePaid' /\ Order!SendAllFits'
  BY <1>1, <1>2 DEF Windowed, NodeAsked, Order!OrderPaid, Order!OrderFits, Order!NodePaid,
                    Order!Asking, Order!SendAllFits
<1>9. Order!FeesOfWhatIsShown'
  <2>1. least' = minimal' => spin' = minimal' * slider' + nodeFee'
    BY <1>1, <1>6 DEF z
  <2>2. (Order!RateFee(Order!Total(amounts)))' = Order!RateFee(Order!Total(amounts))
    BY <1>1 DEF Order!RateFee, Order!Clamped, Order!Total
  <2>3. feeNode' # "unknown" /\ ~stale' /\ least' = minimal' /\ feeNode' = "rate" =>
          nodeFee' = (Order!RateFee(Order!Total(amounts)))'
    BY <1>1, <1>2, <2>2 DEF Order!OrderPaid, Order!FeesOfWhatIsShown
  <2> QED
    BY <2>1, <2>3 DEF Order!FeesOfWhatIsShown
<1> QED
  BY <1>7, <1>8, <1>9 DEF OrderInv, Order!OrderPaid

\* "Send all": the fees of the amount are no more than those it leaves room for.
LEMMA SendAllKeeps ==
    ASSUME OrderInv, Order!SendAllClicked
    PROVE  OrderInv'
<1>1. OrderTyped /\ Windowed /\ NodeAsked /\ Order!OrderPaid
  BY DEF OrderInv
<1> DEFINE n == IF feeNode = "rate" THEN Order!RateFee(balance) ELSE nodeFee
           rest == balance - (minimal * slider + n)
<1>2. /\ Order!User /\ Len(amounts) = 1
      /\ \E a \in Order!Nearest(rest) :
           LET shown == Order!Max({a, 0})
           IN  IF shown = amounts[1]
               THEN /\ nodeFee' = n /\ stale' = (stale \/ n # nodeFee)
                    /\ UNCHANGED <<amounts, least, spin>>
               ELSE /\ amounts' = <<shown>> /\ least' = least
                    /\ Order!Recompute(feeNode, n, amounts')
      /\ whole' = (amounts'[1] > 0 /\ (~stale \/ amounts' # amounts))
      /\ UNCHANGED <<feeNode, ready, minimal, slider, balance, order, reopened>>
  BY DEF Order!SendAllClicked
<1>3. /\ ready /\ ~Order!Asking /\ feeNode \in {"none", "rate", "flat"}
      /\ amounts \in Seq(Nat)
  BY <1>1, <1>2 DEF Order!User, OrderTyped, Windowed
<1>4. /\ minimal \in Nat \ {0} /\ slider \in Nat \ {0} /\ balance \in Nat
      /\ nodeFee \in 0 .. MaxNodeFee /\ spin \in Int
      /\ minimal * slider \in Nat
  BY <1>1, OrderNumbers DEF OrderTyped
<1>5. Order!RateFee(balance) \in 1 .. MaxNodeFee
  BY <1>4, RateFees
<1>6. n \in 0 .. MaxNodeFee
  BY <1>4, <1>5, OrderAssumption
<1> DEFINE fees == minimal * slider
<1>7. rest \in Int /\ rest = balance - (fees + n) /\ rest <= balance /\ n \in Nat /\ fees \in Nat
  BY <1>4, <1>6, OrderAssumption
<1> HIDE DEF n, rest, fees
<1>8. PICK a \in Order!Nearest(rest) :
        LET shown == Order!Max({a, 0})
        IN  IF shown = amounts[1]
            THEN /\ nodeFee' = n /\ stale' = (stale \/ n # nodeFee)
                 /\ UNCHANGED <<amounts, least, spin>>
            ELSE /\ amounts' = <<shown>> /\ least' = least
                 /\ Order!Recompute(feeNode, n, amounts')
  BY <1>2
<1>9. a \in Int /\ (balance < Exact => a = rest)
  BY <1>4, <1>7, OrderAssumption DEF Order!Nearest
<1> DEFINE shown == Order!Max({a, 0})
<1>10. shown \in Nat /\ (shown > 0 => shown = a)
  BY <1>9, GreaterOfTwo
<1>11. /\ shown = amounts[1] => /\ nodeFee' = n /\ stale' = (stale \/ n # nodeFee)
                               /\ UNCHANGED <<amounts, least, spin>>
       /\ shown # amounts[1] => /\ amounts' = <<shown>> /\ least' = least
                                /\ Order!Recompute(feeNode, n, amounts')
  BY <1>8
<1> HIDE DEF shown
<1>12. /\ shown = amounts[1] => amounts = <<shown>>
       /\ amounts' = <<shown>> /\ amounts' \in Seq(Nat) /\ Len(amounts') = 1 /\ amounts'[1] = shown
  <2>1. shown = amounts[1] => amounts = <<shown>>
    BY <1>2, <1>3
  <2>2. amounts' = <<shown>>
    BY <1>11, <2>1
  <2> QED
    BY <1>10, <2>1, <2>2
<1>13. Order!Total(amounts') = shown
  BY <1>10, <1>12, TotalOfOne
<1>14. whole' => shown > 0 /\ (~stale \/ shown # amounts[1])
  BY <1>2, <1>11, <1>12
<1>15. shown > 0 /\ balance < Exact =>
         /\ shown + fees + n = balance /\ shown <= balance
         /\ feeNode = "rate" => Order!RateFee(shown) <= n
  <2> SUFFICES ASSUME shown > 0, balance < Exact
               PROVE  /\ shown + fees + n = balance /\ shown <= balance
                      /\ feeNode = "rate" => Order!RateFee(shown) <= n
    OBVIOUS
  <2>1. shown = rest
    BY <1>9, <1>10
  <2>2. shown + fees + n = balance /\ shown <= balance
    BY <1>4, <1>7, <2>1
  <2>3. feeNode = "rate" => n = Order!RateFee(balance)
    BY DEF n
  <2>4. Order!RateFee(shown) <= Order!RateFee(balance)
    BY <1>4, <1>10, <2>2, RateFeeGrows
  <2> QED
    BY <2>2, <2>3, <2>4
<1>16. ready' \in BOOLEAN /\ balance' \in Balances /\ reopened' \in BOOLEAN /\ whole' \in BOOLEAN
  BY <1>1, <1>2 DEF OrderTyped
<1>17. Windowed'
  BY <1>1, <1>2, <1>3 DEF Windowed, Order!Asking
<1>18. feeNode \in {"none", "flat"} => n = nodeFee
  BY DEF n
<1>19. feeNode = "rate" => n > 0
  BY <1>5, OrderAssumption DEF n
<1>20. CASE shown # amounts[1]
  <2>1. least' = least /\ Order!Recompute(feeNode, n, amounts')
    BY <1>11, <1>20
  <2>2. least' \in MinimalFees \cup {0} /\ least' \in Nat
    BY <1>1, <2>1, OrderNumbers DEF OrderTyped
  <2>3. /\ nodeFee' = IF feeNode = "rate" THEN Order!RateFee(shown) ELSE n
        /\ spin' \in Int
        /\ least' = minimal => spin' = fees + nodeFee'
        /\ nodeFee' \in Nat
    <3>1. /\ nodeFee' \in 0 .. MaxNodeFee /\ spin' \in Int
          /\ nodeFee' = IF feeNode = "rate" THEN Order!RateFee(Order!Total(amounts')) ELSE n
          /\ least' = minimal => spin' = minimal * slider + nodeFee'
      BY <1>1, <1>6, <1>12, <2>1, <2>2, Recomputed DEF n
    <3> QED
      BY <1>13, <3>1, OrderAssumption DEF fees
  <2>4. Order!SendAllFits'
    <3> SUFFICES ASSUME whole', least' = minimal', balance' < Exact
                 PROVE  Order!Covered'
      BY DEF Order!SendAllFits
    <3>1. shown > 0 /\ balance < Exact /\ least' = minimal
      BY <1>2, <1>14
    <3>2. shown + fees + n = balance /\ nodeFee' <= n
      BY <1>7, <1>15, <2>3, <3>1
    <3>3. shown + (spin' - nodeFee') + nodeFee' <= balance
      BY <1>4, <1>7, <1>10, <2>3, <3>1, <3>2
    <3>4. (Order!Total(amounts))' = shown
      BY <1>13 DEF Order!Total
    <3> QED
      BY <1>2, <3>3, <3>4 DEF Order!Covered
  <2>5. Order!Recompute(feeNode', n, amounts')
    BY <1>2, <2>1 DEF Order!Recompute, Order!Computed
  <2>6. /\ feeNode' \in {"none", "rate", "flat"} /\ (feeNode' = "none" => n = 0)
        /\ feeNode' = "flat" /\ ~reopened' => n > 0
    BY <1>1, <1>2, <1>3, <1>18, OrderNumbers DEF NodeAsked
  <2>7. Len(amounts') <= MaxRecipients
    BY <1>12, OrderAssumption
  <2>8. n \in 0 .. MaxNodeFee
    BY <1>6
  <2> QED
    BY <1>2, <1>12, <1>16, <1>17, <2>2, <2>4, <2>5, <2>6, <2>7, <2>8, FeesFollow
<1>21. CASE shown = amounts[1]
  <2>1. nodeFee' = n /\ stale' = (stale \/ n # nodeFee) /\ UNCHANGED <<amounts, least, spin>>
    BY <1>11, <1>21
  <2>2. OrderTyped'
    <3>1. nodeFee' \in 0 .. MaxNodeFee /\ stale' \in BOOLEAN
      BY <1>1, <1>6, <2>1 DEF OrderTyped
    <3> QED
      BY <1>1, <1>2, <1>16, <2>1, <3>1 DEF OrderTyped
  <2>3. NodeAsked'
    <3>1. /\ feeNode' = feeNode /\ reopened' = reopened /\ nodeFee' = n
          /\ feeNode \in {"none", "rate", "flat"}
      BY <1>2, <1>3, <2>1
    <3>2. feeNode = "rate" => nodeFee' > 0
      BY <1>19, <3>1
    <3>3. feeNode \in {"none", "flat"} => nodeFee' = nodeFee
      BY <1>18, <3>1
    <3> QED
      BY <1>1, <3>1, <3>2, <3>3 DEF NodeAsked
  <2>4. Order!OrderFits' /\ Order!NodePaid'
    BY <1>1, <1>2 DEF Order!OrderPaid, Order!OrderFits, Order!NodePaid, Order!Asking
  <2>5. Order!FeesOfWhatIsShown'
    <3> SUFFICES ASSUME feeNode' # "unknown", ~stale', least' = minimal'
                 PROVE  /\ spin' = minimal' * slider' + nodeFee'
                        /\ feeNode' = "rate" => nodeFee' = (Order!RateFee(Order!Total(amounts)))'
      BY DEF Order!FeesOfWhatIsShown
    <3>1. ~stale /\ nodeFee' = nodeFee /\ feeNode # "unknown" /\ least = minimal
      BY <1>2, <2>1
    <3>2. (Order!RateFee(Order!Total(amounts)))' = Order!RateFee(Order!Total(amounts))
      <4>1. UNCHANGED <<amounts, minimal>>
        BY <1>2, <2>1
      <4> QED
        BY <4>1 DEF Order!RateFee, Order!Clamped, Order!Total
    <3>3. /\ spin = minimal * slider + nodeFee
          /\ feeNode = "rate" => nodeFee = Order!RateFee(Order!Total(amounts))
      BY <1>1, <3>1 DEF Order!OrderPaid, Order!FeesOfWhatIsShown
    <3> QED
      BY <1>2, <2>1, <3>1, <3>2, <3>3
  <2>6. Order!SendAllFits'
    <3> SUFFICES ASSUME whole', least' = minimal', balance' < Exact
                 PROVE  Order!Covered'
      BY DEF Order!SendAllFits
    <3>1. shown > 0 /\ balance < Exact /\ least = minimal /\ ~stale /\ feeNode # "unknown"
      BY <1>2, <1>3, <1>14, <1>21, <2>1
    <3>2. /\ spin = minimal * slider + nodeFee
          /\ feeNode = "rate" => nodeFee = Order!RateFee(Order!Total(amounts))
      BY <1>1, <3>1 DEF Order!OrderPaid, Order!FeesOfWhatIsShown
    <3>3. nodeFee <= n
      <4>1. Order!Total(amounts) = shown
        BY <1>13, <2>1
      <4> QED
        BY <1>3, <1>4, <1>15, <1>18, <3>1, <3>2, <4>1, OrderAssumption
    <3>4. shown + fees + n = balance /\ spin = fees + nodeFee
      BY <1>15, <3>1, <3>2 DEF fees
    <3>5. nodeFee \in Nat
      BY <1>4, OrderAssumption
    <3>6. shown + (spin - n) + n <= balance
      BY <1>4, <1>7, <1>10, <3>3, <3>4, <3>5
    <3>7. (Order!Total(amounts))' = shown
      BY <1>13 DEF Order!Total
    <3> QED
      BY <1>2, <2>1, <3>6, <3>7 DEF Order!Covered
  <2> QED
    BY <1>17, <2>2, <2>3, <2>4, <2>5, <2>6 DEF OrderInv, Order!OrderPaid
<1> QED
  BY <1>20, <1>21

\* What is asked for is covered, fees included, and the fee is that shown.
LEMMA OrderMadeKeeps ==
    ASSUME OrderInv, Order!SendClicked
    PROVE  OrderInv'
<1>1. OrderTyped /\ Windowed /\ NodeAsked /\ Order!OrderPaid
  BY DEF OrderInv
<1>2. /\ Order!User /\ Order!Covered
      /\ order' = [sum |-> Order!Total(amounts),
                   node |-> IF feeNode = "none" THEN 0 ELSE nodeFee,
                   fee |-> spin - nodeFee, shown |-> spin, balance |-> balance]
      /\ UNCHANGED <<feeNode, ready, minimal, least, amounts, slider, nodeFee, spin,
                     balance, stale, whole, reopened>>
  BY DEF Order!SendClicked
<1>3. /\ balance \in Nat /\ nodeFee \in Nat /\ spin \in Int /\ Order!Total(amounts) \in Nat
      /\ feeNode = "none" => nodeFee = 0
  BY <1>1, OrderNumbers DEF NodeAsked
<1> DEFINE total == Order!Total(amounts)
           node == IF feeNode = "none" THEN 0 ELSE nodeFee
<1>4. node = nodeFee /\ node \in Int /\ total \in Int
  BY <1>3
<1>5. total + (spin - nodeFee) + nodeFee <= balance
  BY <1>2 DEF Order!Covered
<1>6. order' = [sum |-> total, node |-> node, fee |-> spin - nodeFee, shown |-> spin,
                balance |-> balance]
  BY <1>2
<1> HIDE DEF total, node
<1>7. /\ order'.sum = total /\ order'.node = node /\ order'.fee = spin - nodeFee
      /\ order'.shown = spin /\ order'.balance = balance
  BY <1>6
<1>8. order' \in Orders
  BY <1>3, <1>4, <1>6 DEF Orders
<1>9. Order!OrderFits'
  <2>1. /\ total + node + (spin - nodeFee) <= balance
        /\ node + (spin - nodeFee) = spin
    BY <1>3, <1>4, <1>5
  <2> QED
    BY <1>7, <2>1 DEF Order!OrderFits
<1>10. Order!NodePaid'
  <2>1. feeNode \in {"rate", "flat"} /\ ~reopened => nodeFee > 0
    BY <1>1 DEF NodeAsked
  <2>2. UNCHANGED <<feeNode, reopened>>
    BY <1>2
  <2> QED
    BY <1>4, <1>7, <2>1, <2>2 DEF Order!NodePaid
<1>11. OrderTyped'
  BY <1>1, <1>2, <1>8 DEF OrderTyped
<1>12. Windowed' /\ NodeAsked'
  BY <1>1, <1>2 DEF Windowed, NodeAsked, Order!User
<1>13. Order!FeesOfWhatIsShown'
  <2>1. UNCHANGED <<amounts, minimal>>
    BY <1>2
  <2>2. (Order!RateFee(Order!Total(amounts)))' = Order!RateFee(Order!Total(amounts))
    BY <2>1 DEF Order!RateFee, Order!Clamped, Order!Total
  <2> QED
    BY <1>1, <1>2, <2>2 DEF Order!OrderPaid, Order!FeesOfWhatIsShown
<1>14. Order!SendAllFits'
  <2>1. UNCHANGED <<whole, least, minimal, balance, spin, nodeFee, amounts>>
    BY <1>2
  <2> QED
    BY <1>1, <2>1 DEF Order!OrderPaid, Order!SendAllFits, Order!Covered, Order!Total
<1> QED
  BY <1>9, <1>10, <1>11, <1>12, <1>13, <1>14 DEF OrderInv, Order!OrderPaid

\* The user refuses; the balance or the minimal fee changes behind the form.
LEMMA OutsideKeeps ==
    ASSUME OrderInv,
           Order!NotSent \/ Order!BalanceChanged \/ Order!MinimalFeeChanged
           \/ UNCHANGED paying
    PROVE  OrderInv'
<1>1. OrderTyped /\ Windowed /\ NodeAsked /\ Order!OrderPaid
  BY DEF OrderInv
<1>2. /\ UNCHANGED <<feeNode, ready, least, amounts, slider, nodeFee, spin, reopened>>
      /\ minimal' \in MinimalFees /\ balance' \in Balances
      /\ order' = order \/ order' = Order!NoOrder
      /\ whole' = whole \/ whole' = FALSE
      /\ stale' = stale \/ stale' = TRUE
      /\ whole' => UNCHANGED <<minimal, balance>>
      /\ ~stale' => minimal' = minimal
  <2>1. minimal \in MinimalFees /\ balance \in Balances
    BY <1>1 DEF OrderTyped
  <2>2. CASE Order!NotSent
    BY <2>1, <2>2 DEF Order!NotSent
  <2>3. CASE Order!BalanceChanged
    BY <2>1, <2>3 DEF Order!BalanceChanged
  <2>4. CASE Order!MinimalFeeChanged
    BY <2>1, <2>4 DEF Order!MinimalFeeChanged
  <2>5. CASE UNCHANGED paying
    BY <2>1, <2>5 DEF paying
  <2> QED
    BY <2>2, <2>3, <2>4, <2>5
<1>3. UNCHANGED <<feeNode, ready, least, amounts, slider, nodeFee, spin, reopened>>
  BY <1>2
<1>4. Order!OrderFits' /\ Order!NodePaid' /\ order' \in Orders
  BY <1>2, OrderStays
<1>5. OrderTyped'
  BY <1>1, <1>2, <1>4 DEF OrderTyped
<1>6. Windowed'
  <2>1. Order!Asking' => Order!Asking
    BY <1>2 DEF Order!Asking
  <2> QED
    BY <1>1, <1>2, <2>1 DEF Windowed
<1>7. NodeAsked'
  BY <1>1, <1>3 DEF NodeAsked
<1>8. Order!FeesOfWhatIsShown'
  <2> SUFFICES ASSUME feeNode' # "unknown", ~stale', least' = minimal'
               PROVE  /\ spin' = minimal' * slider' + nodeFee'
                      /\ feeNode' = "rate" => nodeFee' = (Order!RateFee(Order!Total(amounts)))'
    BY DEF Order!FeesOfWhatIsShown
  <2>1. ~stale /\ UNCHANGED <<minimal, amounts>> /\ feeNode # "unknown" /\ least = minimal
    BY <1>2
  <2>2. UNCHANGED <<minimal, amounts>>
    BY <2>1
  <2>3. (Order!RateFee(Order!Total(amounts)))' = Order!RateFee(Order!Total(amounts))
    BY <2>2 DEF Order!RateFee, Order!Clamped, Order!Total
  <2>4. /\ spin = minimal * slider + nodeFee
        /\ feeNode = "rate" => nodeFee = Order!RateFee(Order!Total(amounts))
    BY <1>1, <2>1 DEF Order!OrderPaid, Order!FeesOfWhatIsShown
  <2> QED
    BY <1>3, <2>1, <2>3, <2>4
<1>9. Order!SendAllFits'
  <2> SUFFICES ASSUME whole', least' = minimal', balance' < Exact
               PROVE  Order!Covered'
    BY DEF Order!SendAllFits
  <2>1. whole /\ UNCHANGED <<minimal, balance, least, amounts, spin, nodeFee>>
    BY <1>2
  <2>2. UNCHANGED <<minimal, balance, least, amounts, spin, nodeFee>>
    BY <2>1
  <2>3. Order!Covered
    BY <1>1, <2>1, <2>2 DEF Order!OrderPaid, Order!SendAllFits
  <2> QED
    BY <2>2, <2>3 DEF Order!Covered, Order!Total
<1> QED
  BY <1>4, <1>5, <1>6, <1>7, <1>8, <1>9 DEF OrderInv, Order!OrderPaid

LEMMA OrderStep ==
    ASSUME OrderInv, Order!Next \/ UNCHANGED paying
    PROVE  OrderInv'
BY SetAdapterKeeps, FrameKeeps, AmountTypedKeeps, RemovedKeeps, PriorityKeeps, SendAllKeeps,
   OrderMadeKeeps, SentKeeps, OutsideKeeps DEF Order!Next

LEMMA OrderFollowed == [Next]_vars => (Order!Next \/ UNCHANGED paying)
BY DEF Next, vars

\* What the wallet is asked to pay never exceeds the balance the order was built
\* from, fees included, and the fee is the one shown; the fees shown are those of
\* the amounts shown; what "send all" set can be sent; the node is paid: for every
\* amount, balance, minimal fee, priority and rate.
THEOREM OrdersArePaidAsShown == Spec => []OrderPaid
<1>1. Init => OrderInv
  BY OrderBegins
<1>2. OrderInv /\ [Next]_vars => OrderInv'
  BY OrderStep, OrderFollowed
<1>3. OrderInv => OrderPaid
  BY DEF OrderInv, OrderPaid
<1> QED
  BY <1>1, <1>2, <1>3, PTL DEF Spec

-----------------------------------------------------------------------------
(* Indexes.  keys is the column of the book an index is about: the key of  *)
(* each row, of D; K the keys nothing else is put into the index for.      *)

\* What the index finds for a key is a row that has it.
Points(ix, keys, K) ==
  \A k \in K : ix[k] # 0 => ix[k] \in DOMAIN keys /\ keys[ix[k]] = k

\* Every row is found, and by its key alone.
Covers(ix, keys, K) == \A i \in DOMAIN keys : keys[i] \in K => ix[keys[i]] = i
Different(keys) == \A i, j \in DOMAIN keys : i # j => keys[i] # keys[j]

IsIndex(ix, keys, n, D, K) ==
  /\ n \in Nat /\ K \subseteq D
  /\ ix \in [D -> Nat] /\ keys \in [1 .. n -> D]

LEMMA LargestRow ==
    ASSUME NEW n \in Nat, NEW S \in SUBSET (1 .. n), S # {}
    PROVE  Book!Max(S) \in S
<1> DEFINE T == {n - x : x \in S}
<1>1. T # {} /\ T \subseteq Nat
  <2>1. \A x \in S : x \in Int /\ x <= n /\ n - x \in Nat
    OBVIOUS
  <2> QED
    BY <2>1
<1>2. PICK t \in T : \A y \in T : ~(<<y, t>> \in OpToRel(<, Nat))
  <2> HIDE DEF T
  <2> QED
    BY <1>1, NatLessThanWellFounded, WFMin
<1>3. PICK x \in S : t = n - x
  OBVIOUS
<1>4. ASSUME NEW y \in S PROVE x >= y
  <2>1. n - y \in T /\ n - y \in Nat /\ n - x \in Nat
    OBVIOUS
  <2>2. ~(n - y < n - x)
    BY <1>1, <1>2, <1>3, <2>1 DEF OpToRel
  <2> QED
    BY <2>1, <2>2
<1>5. \E z \in S : \A y \in S : z >= y
  BY <1>4
<1> QED
  BY <1>5 DEF Book!Max

\* Rows put into an index.
IsIndexed(g, f, rs, D) ==
  /\ g \in [D -> Nat]
  /\ \A k \in D : \/ g[k] \in DOMAIN rs /\ k \in rs[g[k]]
                  \/ g[k] = f[k] /\ \A i \in DOMAIN rs : k \notin rs[i]

LEMMA IndexedRows ==
    ASSUME NEW n \in Nat, NEW D, NEW f \in [D -> Nat], NEW rs, DOMAIN rs \subseteq 1 .. n
    PROVE  IsIndexed(Book!Indexed(f, rs), f, rs, D)
<1> DEFINE g == Book!Indexed(f, rs)
           S(k) == {i \in DOMAIN rs : k \in rs[i]}
<1>1. g = [k \in D |-> IF \E i \in DOMAIN rs : k \in rs[i] THEN Book!Max(S(k)) ELSE f[k]]
  BY DEF Book!Indexed
<1>2. ASSUME NEW k \in D
      PROVE  /\ g[k] \in Nat
             /\ \/ g[k] \in DOMAIN rs /\ k \in rs[g[k]]
                \/ g[k] = f[k] /\ \A i \in DOMAIN rs : k \notin rs[i]
  <2>1. CASE \E i \in DOMAIN rs : k \in rs[i]
    <3>1. S(k) \in SUBSET (1 .. n) /\ S(k) # {}
      BY <2>1
    <3>2. g[k] = Book!Max(S(k))
      BY <1>1, <2>1
    <3>3. g[k] \in S(k)
      <4> HIDE DEF S, g
      <4> QED
        BY <3>1, <3>2, LargestRow
    <3> QED
      BY <3>1, <3>3
  <2>2. CASE ~(\E i \in DOMAIN rs : k \in rs[i])
    BY <1>1, <2>2
  <2> QED
    BY <2>1, <2>2
<1> HIDE DEF S
<1>3. g \in [D -> Nat]
  <2>1. \A k \in D : g[k] \in Nat
    BY <1>2
  <2>2. g = [k \in D |-> g[k]]
    BY <1>1
  <2> HIDE DEF g
  <2> QED
    BY <2>1, <2>2
<1> QED
  BY <1>2, <1>3 DEF IsIndexed

\* The columns of a book.
AddressOf(b) == [i \in DOMAIN b |-> b[i].address]
LabelOf(b) == [i \in DOMAIN b |-> b[i].label]

\* A row is added behind the others.
IsAppended(iy, ys, ix, keys, n, k) ==
  /\ ys = [i \in 1 .. n + 1 |-> IF i = n + 1 THEN k ELSE keys[i]]
  /\ iy = [ix EXCEPT ![k] = n + 1]

LEMMA AddedRow ==
    ASSUME NEW ix, NEW keys, NEW n, NEW D, NEW K, IsIndex(ix, keys, n, D, K),
           NEW k \in D, NEW ys, NEW iy, IsAppended(iy, ys, ix, keys, n, k),
           Points(ix, keys, K)
    PROVE  /\ IsIndex(iy, ys, n + 1, D, K) /\ Points(iy, ys, K)
           /\ Different(ys) => Different(keys)
           /\ Covers(ix, keys, K) /\ Different(ys) => Covers(iy, ys, K)
<1>1. /\ n \in Nat /\ K \subseteq D /\ ix \in [D -> Nat] /\ keys \in [1 .. n -> D]
      /\ ys = [i \in 1 .. n + 1 |-> IF i = n + 1 THEN k ELSE keys[i]]
      /\ iy = [ix EXCEPT ![k] = n + 1]
  BY DEF IsIndex, IsAppended
<1>2. IsIndex(iy, ys, n + 1, D, K)
  <2>1. iy \in [D -> Nat]
    BY <1>1
  <2>2. ys \in [1 .. n + 1 -> D]
    BY <1>1
  <2> QED
    BY <1>1, <2>1, <2>2 DEF IsIndex
<1>3. Points(iy, ys, K)
  <2> SUFFICES ASSUME NEW q \in K, iy[q] # 0
               PROVE  iy[q] \in 1 .. n + 1 /\ ys[iy[q]] = q
    BY <1>1 DEF Points
  <2>1. CASE q = k
    BY <1>1, <2>1
  <2>2. CASE q # k
    <3>1. iy[q] = ix[q]
      BY <1>1, <2>2
    <3>2. ix[q] \in 1 .. n /\ keys[ix[q]] = q
      BY <1>1, <3>1 DEF Points
    <3> QED
      BY <1>1, <3>1, <3>2
  <2> QED
    BY <2>1, <2>2
<1>4. Different(ys) => Different(keys)
  <2> SUFFICES ASSUME Different(ys), NEW i \in 1 .. n, NEW j \in 1 .. n, i # j
               PROVE  keys[i] # keys[j]
    BY <1>1 DEF Different
  <2>1. ys[i] = keys[i] /\ ys[j] = keys[j] /\ i \in DOMAIN ys /\ j \in DOMAIN ys
    BY <1>1
  <2> QED
    BY <2>1 DEF Different
<1>5. ASSUME Covers(ix, keys, K), Different(ys) PROVE Covers(iy, ys, K)
  <2> SUFFICES ASSUME NEW i \in 1 .. n + 1, ys[i] \in K PROVE iy[ys[i]] = i
    BY <1>1 DEF Covers
  <2>1. CASE i = n + 1
    BY <1>1, <2>1
  <2>2. CASE i \in 1 .. n
    <3>1. ys[i] = keys[i] /\ ys[n + 1] = k /\ i # n + 1
      BY <1>1, <2>2
    <3>2. keys[i] # k
      BY <1>1, <3>1, <1>5 DEF Different
    <3>3. keys[i] \in D /\ ix[keys[i]] = i
      BY <1>1, <1>5, <2>2 DEF Covers
    <3> QED
      BY <1>1, <3>1, <3>2, <3>3
  <2> QED
    BY <1>1, <2>1, <2>2
<1> QED
  BY <1>2, <1>3, <1>4, <1>5

\* The key of a row is changed.
IsRekeyed(iy, ys, ix, keys, r, k) ==
  ys = [keys EXCEPT ![r] = k] /\ iy = [ix EXCEPT ![keys[r]] = 0, ![k] = r]

LEMMA EditedRow ==
    ASSUME NEW ix, NEW keys, NEW n, NEW D, NEW K, IsIndex(ix, keys, n, D, K),
           NEW k \in D, NEW r \in 1 .. n, NEW ys, NEW iy, IsRekeyed(iy, ys, ix, keys, r, k),
           Points(ix, keys, K)
    PROVE  /\ IsIndex(iy, ys, n, D, K) /\ Points(iy, ys, K)
           /\ Covers(ix, keys, K) /\ Different(ys) => Covers(iy, ys, K)
<1>1. n \in Nat /\ K \subseteq D /\ ix \in [D -> Nat] /\ keys \in [1 .. n -> D] /\ keys[r] \in D
  BY DEF IsIndex
<1> DEFINE iz == [ix EXCEPT ![keys[r]] = 0]
<1>2. iz \in [D -> Nat]
  BY <1>1
<1>10. iy = [iz EXCEPT ![k] = r]
  BY DEF IsRekeyed
<1>3. \A q \in D : iz[q] = IF q = keys[r] THEN 0 ELSE ix[q]
  BY <1>1
<1> HIDE DEF iz
<1>4. iy \in [D -> Nat] /\ \A q \in D : iy[q] = IF q = k THEN r ELSE iz[q]
  <2>1. r \in Nat /\ k \in D
    BY <1>1
  <2>2. \A g \in [D -> Nat] : /\ [g EXCEPT ![k] = r] \in [D -> Nat]
                              /\ \A q \in D : [g EXCEPT ![k] = r][q] = IF q = k THEN r ELSE g[q]
    BY <2>1
  <2> QED
    BY <1>2, <1>10, <2>2
<1>5. \A q \in D : iy[q] = IF q = k THEN r ELSE IF q = keys[r] THEN 0 ELSE ix[q]
  BY <1>3, <1>4
<1>6. ys \in [1 .. n -> D] /\ \A i \in 1 .. n : ys[i] = IF i = r THEN k ELSE keys[i]
  BY <1>1 DEF IsRekeyed
<1>7. IsIndex(iy, ys, n, D, K)
  BY <1>1, <1>4, <1>6 DEF IsIndex
<1>8. Points(iy, ys, K)
  <2> SUFFICES ASSUME NEW q \in K, iy[q] # 0
               PROVE  iy[q] \in 1 .. n /\ ys[iy[q]] = q
    <3>1. DOMAIN ys = 1 .. n
      BY <1>6
    <3> QED
      BY <3>1 DEF Points
  <2>1. CASE q = k
    <3>1. k \in D /\ iy[k] = r /\ ys[r] = k
      BY <1>1, <1>5, <1>6
    <3> QED
      BY <2>1, <3>1
  <2>2. CASE q # k
    <3>1. iy[q] = ix[q] /\ q # keys[r]
      BY <1>1, <1>5, <2>2
    <3>2. ix[q] \in 1 .. n /\ keys[ix[q]] = q
      BY <1>1, <3>1 DEF Points
    <3>3. ix[q] # r
      BY <3>1, <3>2
    <3> QED
      BY <1>6, <3>1, <3>2, <3>3
  <2> QED
    BY <2>1, <2>2
<1>9. ASSUME Covers(ix, keys, K), Different(ys) PROVE Covers(iy, ys, K)
  <2> SUFFICES ASSUME NEW i \in 1 .. n, ys[i] \in K PROVE iy[ys[i]] = i
    BY <1>6 DEF Covers
  <2>1. CASE i = r
    BY <1>1, <1>5, <1>6, <2>1
  <2>2. CASE i # r
    <3>1. ys[i] = keys[i] /\ ys[r] = k
      BY <1>6, <2>2
    <3>2. keys[i] # k
      BY <1>6, <1>9, <2>2, <3>1 DEF Different
    <3>3. /\ ix[keys[i]] = i /\ keys[i] \in K /\ keys[i] \in D
          /\ keys[r] \in K => ix[keys[r]] = r
      BY <1>1, <1>9, <3>1 DEF Covers
    <3>4. keys[i] # keys[r]
      BY <2>2, <3>3
    <3> QED
      BY <1>5, <3>1, <3>2, <3>3, <3>4
  <2> QED
    BY <2>1, <2>2
<1> QED
  BY <1>7, <1>8, <1>9

\* The rows that follow the one removed are put into the index again.
IsReindexed(iy, ix, keys, ys, r, n, K) ==
  \A q \in K :
    \/ iy[q] \in r .. n - 1 /\ ys[iy[q]] = q
    \/ /\ \A j \in r .. n - 1 : ys[j] # q
       /\ iy[q] = IF q = keys[r] THEN 0 ELSE ix[q]

IsShortened(ys, keys, r, n) ==
  ys = [j \in 1 .. n - 1 |-> keys[IF j < r THEN j ELSE j + 1]]

LEMMA RemovedRow ==
    ASSUME NEW ix, NEW keys, NEW n, NEW D, NEW K, IsIndex(ix, keys, n, D, K),
           NEW r \in 1 .. n,
           NEW ys, IsShortened(ys, keys, r, n),
           NEW iy \in [D -> Nat], IsReindexed(iy, ix, keys, ys, r, n, K),
           Points(ix, keys, K)
    PROVE  /\ IsIndex(iy, ys, n - 1, D, K) /\ Points(iy, ys, K)
           /\ Covers(ix, keys, K) /\ Different(ys) => Covers(iy, ys, K)
<1>1. n \in Nat /\ K \subseteq D /\ ix \in [D -> Nat] /\ keys \in [1 .. n -> D] /\ r \in Nat
      /\ n - 1 \in Nat
  BY DEF IsIndex
<1>2. ys \in [1 .. n - 1 -> D] /\ DOMAIN ys = 1 .. n - 1
  <2>1. \A j \in 1 .. n - 1 : (IF j < r THEN j ELSE j + 1) \in 1 .. n
    BY <1>1
  <2> QED
    BY <1>1, <2>1 DEF IsShortened
<1>3. \A j \in 1 .. n - 1 : /\ j < r => ys[j] = keys[j]
                            /\ j >= r => ys[j] = keys[j + 1]
  BY <1>1 DEF IsShortened
<1>4. IsIndex(iy, ys, n - 1, D, K)
  BY <1>1, <1>2 DEF IsIndex
<1>5. Points(iy, ys, K)
  <2> SUFFICES ASSUME NEW q \in K, iy[q] # 0
               PROVE  iy[q] \in 1 .. n - 1 /\ ys[iy[q]] = q
    BY <1>2 DEF Points
  <2>1. CASE iy[q] \in r .. n - 1 /\ ys[iy[q]] = q
    BY <1>1, <2>1
  <2>2. CASE /\ \A j \in r .. n - 1 : ys[j] # q
             /\ iy[q] = IF q = keys[r] THEN 0 ELSE ix[q]
    <3>1. iy[q] = ix[q] /\ q # keys[r]
      BY <2>2
    <3>2. ix[q] \in 1 .. n /\ keys[ix[q]] = q
      BY <1>1, <3>1 DEF Points
    <3>3. ix[q] < r
      <4> SUFFICES ASSUME ix[q] > r PROVE FALSE
        BY <1>1, <3>1, <3>2
      <4> DEFINE j == ix[q] - 1
      <4>1. j \in r .. n - 1 /\ j \in 1 .. n - 1 /\ j >= r /\ j + 1 = ix[q]
        <5>1. \A x \in 1 .. n : x > r => /\ x - 1 \in r .. n - 1 /\ x - 1 \in 1 .. n - 1
                                        /\ x - 1 >= r /\ (x - 1) + 1 = x
          BY <1>1
        <5> QED
          BY <3>2, <5>1
      <4> HIDE DEF j
      <4>2. ys[j] = q
        BY <1>3, <3>2, <4>1
      <4> QED
        BY <2>2, <4>1, <4>2
    <3>4. ix[q] \in 1 .. n - 1
      BY <1>1, <3>2, <3>3
    <3>5. ys[ix[q]] = q
      BY <1>3, <3>2, <3>3, <3>4
    <3> QED
      BY <3>1, <3>4, <3>5
  <2> QED
    BY <2>1, <2>2 DEF IsReindexed
<1>6. ASSUME Covers(ix, keys, K), Different(ys) PROVE Covers(iy, ys, K)
  <2> SUFFICES ASSUME NEW i \in 1 .. n - 1, ys[i] \in K PROVE iy[ys[i]] = i
    BY <1>2 DEF Covers
  <2> DEFINE q == ys[i]
  <2>1. q \in K /\ i \in Nat
    BY <1>1
  <2>2. CASE iy[q] \in r .. n - 1 /\ ys[iy[q]] = q
    <3>1. iy[q] \in DOMAIN ys
      BY <1>1, <1>2, <2>2
    <3> QED
      BY <1>2, <1>6, <2>2, <3>1 DEF Different
  <2>3. CASE /\ \A j \in r .. n - 1 : ys[j] # q
             /\ iy[q] = IF q = keys[r] THEN 0 ELSE ix[q]
    <3>1. i < r
      <4>1. i >= r => i \in r .. n - 1
        BY <1>1, <2>1
      <4>2. i \notin r .. n - 1
        BY <2>3
      <4> QED
        BY <1>1, <2>1, <4>1, <4>2
    <3>2. q = keys[i] /\ i \in DOMAIN keys /\ r \in DOMAIN keys
      BY <1>1, <1>3, <2>1, <3>1
    <3>3. ix[keys[i]] = i /\ (keys[r] \in K => ix[keys[r]] = r)
      BY <1>6, <2>1, <3>2 DEF Covers
    <3>4. q # keys[r]
      BY <1>1, <3>1, <3>2, <3>3
    <3> QED
      BY <2>3, <3>2, <3>3, <3>4
  <2>4. \/ iy[q] \in r .. n - 1 /\ ys[iy[q]] = q
        \/ /\ \A j \in r .. n - 1 : ys[j] # q
           /\ iy[q] = IF q = keys[r] THEN 0 ELSE ix[q]
    BY <2>1 DEF IsReindexed
  <2> QED
    BY <2>2, <2>3, <2>4
<1> QED
  BY <1>4, <1>5, <1>6

\* An index built from nothing.
LEMMA BuiltRows ==
    ASSUME NEW keys, NEW n \in Nat, NEW D, NEW K, K \subseteq D, keys \in [1 .. n -> D],
           NEW iy \in [D -> Nat],
           \A q \in K : \/ iy[q] \in 1 .. n /\ keys[iy[q]] = q
                        \/ iy[q] = 0 /\ \A i \in 1 .. n : keys[i] # q
    PROVE  /\ IsIndex(iy, keys, n, D, K) /\ Points(iy, keys, K)
           /\ Different(keys) => Covers(iy, keys, K)
<1>1. DOMAIN keys = 1 .. n
  OBVIOUS
<1>2. IsIndex(iy, keys, n, D, K)
  BY DEF IsIndex
<1>3. Points(iy, keys, K)
  BY <1>1 DEF Points
<1>4. ASSUME Different(keys) PROVE Covers(iy, keys, K)
  <2> SUFFICES ASSUME NEW i \in 1 .. n, keys[i] \in K PROVE iy[keys[i]] = i
    BY <1>1 DEF Covers
  <2>2. iy[keys[i]] \in 1 .. n /\ keys[iy[keys[i]]] = keys[i]
    OBVIOUS
  <2> QED
    BY <1>1, <1>4, <2>2 DEF Different
<1> QED
  BY <1>2, <1>3, <1>4

-----------------------------------------------------------------------------
(* The address book.                                                       *)

Contacts == [label: Labels, address: Recipients, payment: Payments, donation: BOOLEAN]
Gifts == [address: Recipients \cup {Nothing}, enabled: BOOLEAN]
Keys == Recipients \cup Payments
Shown(S) == Recipients \ S
Managers == [book: Seq(Contacts), donation: Gifts, names: Labels \cup {Nothing},
             index: [address: [Keys -> Nat], label: [Labels -> Nat]]]

Given(m) == m.donation.address \in Book!Flagged(m) \cup {DevFund, Nothing}

\* A manager whose indexes find what they are asked for, for every address but
\* those of S, among which the payment IDs are.
Fit(m, S) ==
  /\ m \in Managers
  /\ Points(m.index.address, AddressOf(m.book), Shown(S))
  /\ Points(m.index.label, LabelOf(m.book), Labels)
  /\ Book!PaymentsOf(m.book) \subseteq S
  /\ Given(m)

\* No two contacts have a key in common, and each is found.
Unique(m, S) ==
  /\ Book!Distinct(m.book)
  /\ Covers(m.index.address, AddressOf(m.book), Shown(S))
  /\ Covers(m.index.label, LabelOf(m.book), Labels)

\* x is the manager m after a handler.
Succeeds(x, m, S) == Fit(x, S) /\ (Unique(m, S) /\ Book!Distinct(x.book) => Unique(x, S))

LEMMA Columns ==
    ASSUME NEW b \in Seq(Contacts)
    PROVE  /\ AddressOf(b) \in [1 .. Len(b) -> Recipients]
           /\ LabelOf(b) \in [1 .. Len(b) -> Labels]
           /\ Book!Distinct(b) <=> Different(AddressOf(b)) /\ Different(LabelOf(b))
<1>1. Len(b) \in Nat /\ DOMAIN b = 1 .. Len(b) /\ \A i \in DOMAIN b : b[i] \in Contacts
  OBVIOUS
<1>2. \A i \in DOMAIN b : b[i].address \in Recipients /\ b[i].label \in Labels
  BY <1>1 DEF Contacts
<1>3. /\ AddressOf(b) \in [1 .. Len(b) -> Recipients]
      /\ LabelOf(b) \in [1 .. Len(b) -> Labels]
  BY <1>1, <1>2 DEF AddressOf, LabelOf
<1>4. Book!Distinct(b) <=> Different(AddressOf(b)) /\ Different(LabelOf(b))
  BY DEF Book!Distinct, Different, AddressOf, LabelOf
<1> QED
  BY <1>3, <1>4

LEMMA PaymentsTyped ==
    ASSUME NEW m \in Managers
    PROVE  Book!PaymentsOf(m.book) \subseteq Payments
<1>1. m.book \in Seq(Contacts)
  BY DEF Managers
<1>2. \A i \in DOMAIN m.book : m.book[i] \in Contacts
  BY <1>1
<1>3. \A i \in DOMAIN m.book : m.book[i].payment \in Payments
  BY <1>2 DEF Contacts
<1> QED
  BY <1>3 DEF Book!PaymentsOf

LEMMA IndexesOf ==
    ASSUME NEW m \in Managers, NEW S
    PROVE  /\ m.book \in Seq(Contacts) /\ Len(m.book) \in Nat
           /\ DOMAIN m.book = 1 .. Len(m.book)
           /\ IsIndex(m.index.address, AddressOf(m.book), Len(m.book), Keys, Shown(S))
           /\ IsIndex(m.index.label, LabelOf(m.book), Len(m.book), Labels, Labels)
<1>1. /\ m.book \in Seq(Contacts) /\ Len(m.book) \in Nat /\ DOMAIN m.book = 1 .. Len(m.book)
  BY DEF Managers
<1>2. m.index.address \in [Keys -> Nat] /\ m.index.label \in [Labels -> Nat]
  BY DEF Managers
<1>3. Recipients \subseteq Keys /\ Shown(S) \subseteq Keys
  BY DEF Keys, Shown
<1> QED
  BY <1>1, <1>2, <1>3, Columns DEF IsIndex

\* Fewer addresses are asked for.
LEMMA Shaded ==
    ASSUME NEW m, NEW S, NEW T, S \subseteq T, Fit(m, S)
    PROVE  Fit(m, T) /\ (Unique(m, S) => Unique(m, T))
<1>1. Shown(T) \subseteq Shown(S)
  BY DEF Shown
<1>2. Points(m.index.address, AddressOf(m.book), Shown(T))
  BY <1>1 DEF Fit, Points
<1>3. Unique(m, S) => Unique(m, T)
  BY <1>1 DEF Unique, Covers
<1> QED
  BY <1>2, <1>3 DEF Fit

\* A contact added leaves the others where they are.
LEMMA Grown ==
    ASSUME NEW m \in Managers, NEW x, x = m \/ \E c : x.book = Append(m.book, c)
    PROVE  Book!PaymentsOf(m.book) \subseteq Book!PaymentsOf(x.book)
<1>1. CASE x = m
  BY <1>1
<1>2. ASSUME NEW c, x.book = Append(m.book, c)
      PROVE  Book!PaymentsOf(m.book) \subseteq Book!PaymentsOf(x.book)
  <2>1. m.book \in Seq(Contacts)
    BY DEF Managers
  <2>2. /\ DOMAIN m.book \subseteq DOMAIN x.book
        /\ \A i \in DOMAIN m.book : x.book[i] = m.book[i]
    BY <1>2, <2>1
  <2> QED
    BY <2>2 DEF Book!PaymentsOf
<1> QED
  BY <1>1, <1>2

Adds(x, m, S) ==
  /\ Succeeds(x, m, S)
  /\ Book!Distinct(x.book) => Book!Distinct(m.book)
  /\ x.book = m.book \/ Len(x.book) > Len(m.book)

LEMMA AddSucceeds ==
    ASSUME NEW m, NEW S, Fit(m, S), NEW l \in Labels, NEW a \in Recipients, NEW p \in Payments,
           NEW d \in BOOLEAN, NEW x, x = Book!AddAddress(m, l, a, p, d),
           Book!PaymentsOf(x.book) \subseteq S
    PROVE  Adds(x, m, S)
<1>1. m \in Managers
  BY DEF Fit
<1>2. CASE x = m
  BY <1>2 DEF Succeeds, Adds
<1>3. CASE x # m
  <2> DEFINE n == Len(m.book)
             c == Book!Item(l, a, p, d)
             A == [m.index.address EXCEPT ![a] = n + 1]
             L == [m.index.label EXCEPT ![l] = n + 1]
  <2>1. x = [m EXCEPT !.book = Append(m.book, c), !.index = [address |-> A, label |-> L]]
    BY <1>3 DEF Book!AddAddress
  <2>2. /\ m.book \in Seq(Contacts) /\ n \in Nat /\ DOMAIN m.book = 1 .. n
        /\ IsIndex(m.index.address, AddressOf(m.book), n, Keys, Shown(S))
        /\ IsIndex(m.index.label, LabelOf(m.book), n, Labels, Labels)
    BY <1>1, IndexesOf
  <2>3. c \in Contacts /\ c.address = a /\ c.label = l
    BY DEF Book!Item, Contacts
  <2>4. A \in [Keys -> Nat] /\ L \in [Labels -> Nat]
    <3>1. m.index.address \in [Keys -> Nat] /\ m.index.label \in [Labels -> Nat] /\ n + 1 \in Nat
      BY <2>2 DEF IsIndex
    <3> QED
      BY <3>1
  <2> HIDE DEF c, A, L
  <2>5. /\ x.book = Append(m.book, c) /\ x.donation = m.donation /\ x.names = m.names
        /\ x.index.address = A /\ x.index.label = L
    BY <1>1, <2>1 DEF Managers
  <2>6. x.book \in Seq(Contacts) /\ Len(x.book) = n + 1 /\ DOMAIN x.book = 1 .. n + 1
        /\ \A i \in 1 .. n + 1 : x.book[i] = IF i = n + 1 THEN c ELSE m.book[i]
    BY <2>2, <2>3, <2>5
  <2>7. x \in Managers
    <3>1. [address |-> A, label |-> L] \in [address: [Keys -> Nat], label: [Labels -> Nat]]
      BY <2>4
    <3>2. \A B \in Seq(Contacts), I \in [address: [Keys -> Nat], label: [Labels -> Nat]] :
            [m EXCEPT !.book = B, !.index = I] \in Managers
      BY <1>1 DEF Managers
    <3>3. Append(m.book, c) \in Seq(Contacts)
      BY <2>5, <2>6
    <3> QED
      BY <2>1, <3>1, <3>2, <3>3
  <2> DEFINE as == AddressOf(m.book)
             ls == LabelOf(m.book)
  <2>8. /\ AddressOf(x.book) = [i \in 1 .. n + 1 |-> IF i = n + 1 THEN a ELSE as[i]]
        /\ LabelOf(x.book) = [i \in 1 .. n + 1 |-> IF i = n + 1 THEN l ELSE ls[i]]
    BY <2>2, <2>3, <2>6 DEF AddressOf, LabelOf
  <2> HIDE DEF as, ls
  <2>9. Points(m.index.address, as, Shown(S)) /\ Points(m.index.label, ls, Labels)
    BY DEF Fit, as, ls
  <2>10. /\ Points(A, AddressOf(x.book), Shown(S))
         /\ Different(AddressOf(x.book)) => Different(as)
         /\ Covers(m.index.address, as, Shown(S)) /\ Different(AddressOf(x.book)) =>
              Covers(A, AddressOf(x.book), Shown(S))
    <3> DEFINE ys == AddressOf(x.book)
               ix == m.index.address
    <3>1. /\ a \in Keys /\ IsIndex(ix, as, n, Keys, Shown(S)) /\ Points(ix, as, Shown(S))
          /\ IsAppended(A, ys, ix, as, n, a)
      BY <2>2, <2>8, <2>9 DEF A, as, Keys, IsAppended
    <3> HIDE DEF ys, ix, n, A, as
    <3>2. /\ Points(A, ys, Shown(S)) /\ (Different(ys) => Different(as))
          /\ Covers(ix, as, Shown(S)) /\ Different(ys) => Covers(A, ys, Shown(S))
      BY <3>1, AddedRow
    <3> QED
      BY <3>2 DEF ys, ix
  <2>11. /\ Points(L, LabelOf(x.book), Labels)
         /\ Different(LabelOf(x.book)) => Different(ls)
         /\ Covers(m.index.label, ls, Labels) /\ Different(LabelOf(x.book)) =>
              Covers(L, LabelOf(x.book), Labels)
    <3> DEFINE ys == LabelOf(x.book)
               ix == m.index.label
    <3>1. /\ l \in Labels /\ IsIndex(ix, ls, n, Labels, Labels) /\ Points(ix, ls, Labels)
          /\ IsAppended(L, ys, ix, ls, n, l)
      BY <2>2, <2>8, <2>9 DEF L, ls, IsAppended
    <3> HIDE DEF ys, ix, n, L, ls
    <3>2. /\ Points(L, ys, Labels) /\ (Different(ys) => Different(ls))
          /\ Covers(ix, ls, Labels) /\ Different(ys) => Covers(L, ys, Labels)
      BY <3>1, AddedRow
    <3> QED
      BY <3>2 DEF ys, ix
  <2>12. Given(x)
    <3>1. Book!Flagged(m) \subseteq Book!Flagged(x)
      BY <2>2, <2>6 DEF Book!Flagged
    <3> QED
      BY <2>5, <3>1 DEF Given, Fit
  <2>13. Fit(x, S)
    BY <2>5, <2>7, <2>10, <2>11, <2>12 DEF Fit
  <2>14. /\ Book!Distinct(x.book) <=> Different(AddressOf(x.book)) /\ Different(LabelOf(x.book))
         /\ Book!Distinct(m.book) <=> Different(as) /\ Different(ls)
    BY <2>2, <2>6, Columns DEF as, ls
  <2>15. Unique(m, S) /\ Book!Distinct(x.book) => Unique(x, S)
    BY <2>5, <2>10, <2>11, <2>14 DEF Unique, as, ls
  <2>16. x.book # m.book /\ Len(x.book) > Len(m.book)
    BY <2>2, <2>6
  <2> QED
    BY <2>10, <2>11, <2>13, <2>14, <2>15, <2>16 DEF Succeeds, Adds
<1> QED
  BY <1>2, <1>3

LEMMA EditSucceeds ==
    ASSUME NEW m, NEW S, Fit(m, S), NEW r \in DOMAIN m.book, NEW l \in Labels, NEW a \in Recipients,
           NEW p \in Payments, p \in S, NEW d \in BOOLEAN,
           NEW x, x = Book!EditAddress(m, r, l, a, p, d)
    PROVE  Succeeds(x, m, S)
<1>1. m \in Managers
  BY DEF Fit
<1> DEFINE n == Len(m.book)
           old == m.book[r]
           c == Book!Item(l, a, p, d)
           given == m.donation.address = old.address /\ (~d \/ old.address # a)
           G == IF given THEN Book!NoDonation ELSE m.donation
           A == [m.index.address EXCEPT ![old.address] = 0, ![a] = r]
           L == [m.index.label EXCEPT ![old.label] = 0, ![l] = r]
           I == [address |-> A, label |-> L]
<1>2. x = [m EXCEPT !.donation = G, !.book = [m.book EXCEPT ![r] = c], !.index = I]
  BY DEF Book!EditAddress, Book!NoIndex
<1>3. /\ m.book \in Seq(Contacts) /\ n \in Nat /\ DOMAIN m.book = 1 .. n
      /\ IsIndex(m.index.address, AddressOf(m.book), n, Keys, Shown(S))
      /\ IsIndex(m.index.label, LabelOf(m.book), n, Labels, Labels)
  BY <1>1, IndexesOf
<1>4. /\ c \in Contacts /\ c.address = a /\ c.label = l /\ c.donation = d
      /\ old \in Contacts /\ old.address \in Recipients /\ old.label \in Labels
  <2>1. old \in Contacts
    BY <1>3
  <2> QED
    BY <2>1 DEF Book!Item, Contacts
<1>5. A \in [Keys -> Nat] /\ L \in [Labels -> Nat] /\ r \in Nat /\ r \in 1 .. n
  <2>1. r \in Nat /\ r \in 1 .. n
    BY <1>3
  <2>2. m.index.address \in [Keys -> Nat] /\ m.index.label \in [Labels -> Nat]
    BY <1>3 DEF IsIndex
  <2> QED
    BY <2>1, <2>2
<1>6. G \in Gifts
  BY <1>1 DEF Managers, Gifts, Book!NoDonation
<1>7. I \in [address: [Keys -> Nat], label: [Labels -> Nat]] /\ I.address = A /\ I.label = L
  BY <1>5
<1> HIDE DEF c, A, L, G, I
<1>8. /\ x.book = [m.book EXCEPT ![r] = c] /\ x.donation = G /\ x.index = I
  BY <1>1, <1>2 DEF Managers
<1>9. x.book \in Seq(Contacts) /\ Len(x.book) = n /\ DOMAIN x.book = 1 .. n
      /\ \A i \in 1 .. n : x.book[i] = IF i = r THEN c ELSE m.book[i]
  BY <1>3, <1>4, <1>5, <1>8
<1>10. x \in Managers
  <2>1. \A B \in Seq(Contacts), H \in Gifts, J \in [address: [Keys -> Nat], label: [Labels -> Nat]] :
            [m EXCEPT !.donation = H, !.book = B, !.index = J] \in Managers
    BY <1>1 DEF Managers
  <2> QED
    <3>1. [m.book EXCEPT ![r] = c] \in Seq(Contacts)
      BY <1>8, <1>9
    <3>2. I \in [address: [Keys -> Nat], label: [Labels -> Nat]]
      BY <1>7
    <3>3. [m EXCEPT !.donation = G, !.book = [m.book EXCEPT ![r] = c], !.index = I] \in Managers
      BY ONLY <1>6, <2>1, <3>1, <3>2
    <3> QED
      BY ONLY <1>2, <3>3
<1> DEFINE as == AddressOf(m.book)
           ls == LabelOf(m.book)
<1>11. as \in [1 .. n -> Recipients] /\ as[r] = old.address
       /\ ls \in [1 .. n -> Labels] /\ ls[r] = old.label
  <2>1. as \in [1 .. n -> Recipients] /\ ls \in [1 .. n -> Labels]
    BY <1>3, Columns
  <2>2. as[r] = old.address /\ ls[r] = old.label
    BY <1>3, <1>5 DEF AddressOf, LabelOf
  <2> QED
    BY <2>1, <2>2
<1>12. /\ AddressOf(x.book) = [as EXCEPT ![r] = a]
       /\ LabelOf(x.book) = [ls EXCEPT ![r] = l]
  <2>1. \A i \in 1 .. n : /\ x.book[i].address = IF i = r THEN a ELSE as[i]
                          /\ x.book[i].label = IF i = r THEN l ELSE ls[i]
    BY <1>3, <1>4, <1>9 DEF AddressOf, LabelOf
  <2> HIDE DEF as, ls
  <2> QED
    BY <1>9, <1>11, <2>1 DEF AddressOf, LabelOf
<1> HIDE DEF as, ls
<1>13. Points(m.index.address, as, Shown(S)) /\ Points(m.index.label, ls, Labels)
  BY DEF Fit, as, ls
<1>14. /\ A = [m.index.address EXCEPT ![as[r]] = 0, ![a] = r]
       /\ L = [m.index.label EXCEPT ![ls[r]] = 0, ![l] = r]
  BY <1>11 DEF A, L
<1>15. /\ IsIndex(m.index.address, as, n, Keys, Shown(S))
       /\ IsIndex(m.index.label, ls, n, Labels, Labels)
  BY <1>3 DEF as, ls
<1>16. /\ Points(A, AddressOf(x.book), Shown(S))
       /\ Covers(m.index.address, as, Shown(S)) /\ Different(AddressOf(x.book)) =>
            Covers(A, AddressOf(x.book), Shown(S))
  <2> DEFINE ix == m.index.address
             ys == AddressOf(x.book)
  <2>1. /\ r \in 1 .. n /\ IsIndex(ix, as, n, Keys, Shown(S)) /\ Points(ix, as, Shown(S))
        /\ IsRekeyed(A, ys, ix, as, r, a) /\ a \in Keys
    BY <1>5, <1>12, <1>13, <1>14, <1>15 DEF IsRekeyed, Keys
  <2> HIDE DEF ix, ys
  <2>2. /\ Points(A, ys, Shown(S))
        /\ Covers(ix, as, Shown(S)) /\ Different(ys) => Covers(A, ys, Shown(S))
    BY <2>1, EditedRow
  <2> QED
    BY <2>2 DEF ix, ys
<1>17. /\ Points(L, LabelOf(x.book), Labels)
       /\ Covers(m.index.label, ls, Labels) /\ Different(LabelOf(x.book)) =>
            Covers(L, LabelOf(x.book), Labels)
  <2> DEFINE ix == m.index.label
             ys == LabelOf(x.book)
  <2>1. /\ r \in 1 .. n /\ IsIndex(ix, ls, n, Labels, Labels) /\ Points(ix, ls, Labels)
        /\ IsRekeyed(L, ys, ix, ls, r, l)
    BY <1>5, <1>12, <1>13, <1>14, <1>15 DEF IsRekeyed
  <2> HIDE DEF ix, ys
  <2>2. /\ Points(L, ys, Labels)
        /\ Covers(ix, ls, Labels) /\ Different(ys) => Covers(L, ys, Labels)
    BY <2>1, EditedRow
  <2> QED
    BY <2>2 DEF ix, ys
<1>18. Given(x)
  <2>1. CASE given
    BY <1>8, <2>1 DEF Given, G, Book!NoDonation
  <2>2. CASE ~given /\ m.donation.address \in {DevFund, Nothing}
    BY <1>8, <2>2 DEF Given, G
  <2>3. CASE ~given /\ m.donation.address \in Book!Flagged(m)
    <3>1. PICK j \in 1 .. n : m.book[j].donation /\ m.book[j].address = m.donation.address
      BY <1>3, <2>3 DEF Book!Flagged
    <3>2. x.book[j].donation /\ x.book[j].address = m.donation.address
      BY <1>4, <1>9, <2>3, <3>1
    <3>3. m.donation.address \in Book!Flagged(x)
      BY <1>9, <3>2 DEF Book!Flagged
    <3> QED
      BY <1>8, <2>3, <3>3 DEF Given, G
  <2> QED
    BY <2>1, <2>2, <2>3 DEF Fit, Given
<1>22. Book!PaymentsOf(x.book) \subseteq S
  <2>1. \A i \in 1 .. n : m.book[i].payment \in S
    BY <1>3 DEF Fit, Book!PaymentsOf
  <2>2. c.payment = p
    BY DEF c, Book!Item
  <2> QED
    BY <1>9, <2>1, <2>2 DEF Book!PaymentsOf
<1>19. Fit(x, S)
  BY <1>7, <1>8, <1>10, <1>16, <1>17, <1>18, <1>22 DEF Fit
<1>20. Book!Distinct(x.book) <=> Different(AddressOf(x.book)) /\ Different(LabelOf(x.book))
  BY <1>9, Columns
<1>21. Unique(m, S) /\ Book!Distinct(x.book) => Unique(x, S)
  BY <1>7, <1>8, <1>16, <1>17, <1>20 DEF Unique, as, ls
<1> QED
  BY <1>19, <1>21 DEF Succeeds

LEMMA RemoveSucceeds ==
    ASSUME NEW m, NEW S, Fit(m, S), NEW r \in DOMAIN m.book, NEW x, x = Book!RemoveAddress(m, r)
    PROVE  Succeeds(x, m, S) /\ Len(x.book) < Len(m.book)
<1>1. m \in Managers
  BY DEF Fit
<1> DEFINE n == Len(m.book)
           old == m.book[r]
           rest == [j \in 1 .. n - 1 |-> m.book[IF j < r THEN j ELSE j + 1]]
           G == IF m.donation.address = old.address THEN Book!NoDonation ELSE m.donation
           fa == [m.index.address EXCEPT ![old.address] = 0, ![old.payment] = 0]
           fl == [m.index.label EXCEPT ![old.label] = 0]
           ra == [j \in Book!Moved(r, rest) |-> {rest[j].address, rest[j].payment}]
           rl == [j \in Book!Moved(r, rest) |-> {rest[j].label}]
           A == Book!Indexed(fa, ra)
           L == Book!Indexed(fl, rl)
           I == [address |-> A, label |-> L]
<1>2. x = [m EXCEPT !.donation = G, !.book = rest, !.index = I]
  BY DEF Book!RemoveAddress, Book!NoIndex
<1>3. /\ m.book \in Seq(Contacts) /\ n \in Nat /\ DOMAIN m.book = 1 .. n
      /\ IsIndex(m.index.address, AddressOf(m.book), n, Keys, Shown(S))
      /\ IsIndex(m.index.label, LabelOf(m.book), n, Labels, Labels)
  BY <1>1, IndexesOf
<1>4. /\ old \in Contacts /\ old.address \in Keys /\ old.payment \in Keys
      /\ old.payment \in Payments /\ old.label \in Labels
  <2>1. old \in Contacts
    BY <1>3
  <2> QED
    BY <2>1 DEF Contacts, Keys
<1>5. r \in Nat /\ r \in 1 .. n /\ n - 1 \in Nat
  BY <1>3
<1>6. rest \in Seq(Contacts) /\ Len(rest) = n - 1 /\ DOMAIN rest = 1 .. n - 1
  <2>1. \A j \in 1 .. n - 1 : (IF j < r THEN j ELSE j + 1) \in 1 .. n
    BY <1>5
  <2>2. \A i \in 1 .. n : m.book[i] \in Contacts
    BY <1>3
  <2>3. rest \in [1 .. n - 1 -> Contacts]
    BY <2>1, <2>2
  <2> HIDE DEF rest
  <2> QED
    BY <1>5, <2>3
<1>7. G \in Gifts
  BY <1>1 DEF Managers, Gifts, Book!NoDonation
<1>8. m.index.address \in [Keys -> Nat] /\ m.index.label \in [Labels -> Nat]
  BY <1>3 DEF IsIndex
<1>9. /\ fa \in [Keys -> Nat]
      /\ \A q \in Keys : fa[q] = IF q \in {old.address, old.payment} THEN 0
                                 ELSE m.index.address[q]
  BY <1>4, <1>8
<1>10. /\ fl \in [Labels -> Nat]
       /\ \A q \in Labels : fl[q] = IF q = old.label THEN 0 ELSE m.index.label[q]
  BY <1>4, <1>8
<1>11. /\ DOMAIN ra = r .. n - 1 /\ DOMAIN rl = r .. n - 1 /\ r .. n - 1 \subseteq 1 .. n
       /\ \A j \in r .. n - 1 : /\ ra[j] = {rest[j].address, rest[j].payment}
                                /\ rl[j] = {rest[j].label}
                                /\ rest[j] \in Contacts
  <2>1. r .. n - 1 \subseteq 1 .. n /\ r .. n - 1 \subseteq 1 .. n - 1
    BY <1>5
  <2>2. Book!Moved(r, rest) = r .. n - 1
    BY <1>6 DEF Book!Moved
  <2> HIDE DEF rest
  <2> QED
    BY <1>6, <2>1, <2>2
<1> HIDE DEF fa, fl, ra, rl, G
<1>12. /\ A \in [Keys -> Nat]
       /\ \A q \in Keys :
            \/ A[q] \in r .. n - 1 /\ q \in ra[A[q]]
            \/ A[q] = fa[q] /\ \A j \in r .. n - 1 : q \notin ra[j]
  <2>1. IsIndexed(A, fa, ra, Keys)
    BY <1>3, <1>9, <1>11, IndexedRows
  <2> HIDE DEF A
  <2> QED
    BY <1>11, <2>1 DEF IsIndexed
<1>13. /\ L \in [Labels -> Nat]
       /\ \A q \in Labels :
            \/ L[q] \in r .. n - 1 /\ q \in rl[L[q]]
            \/ L[q] = fl[q] /\ \A j \in r .. n - 1 : q \notin rl[j]
  <2>1. IsIndexed(L, fl, rl, Labels)
    BY <1>3, <1>10, <1>11, IndexedRows
  <2> HIDE DEF L
  <2> QED
    BY <1>11, <2>1 DEF IsIndexed
<1>14. I \in [address: [Keys -> Nat], label: [Labels -> Nat]] /\ I.address = A /\ I.label = L
  BY <1>12, <1>13
<1> HIDE DEF A, L, I, rest
<1>15. /\ x.book = rest /\ x.donation = G /\ x.index = I
  BY <1>1, <1>2 DEF Managers
<1>16. x \in Managers
  <2>1. \A B \in Seq(Contacts), H \in Gifts, J \in [address: [Keys -> Nat], label: [Labels -> Nat]] :
            [m EXCEPT !.donation = H, !.book = B, !.index = J] \in Managers
    BY <1>1 DEF Managers
  <2>2. [m EXCEPT !.donation = G, !.book = rest, !.index = I] \in Managers
    BY <1>6, <1>7, <1>14, <2>1
  <2> QED
    BY ONLY <1>2, <2>2
<1> DEFINE as == AddressOf(m.book)
           ls == LabelOf(m.book)
           bs == AddressOf(rest)
           ks == LabelOf(rest)
<1>17. /\ \A i \in 1 .. n : as[i] = m.book[i].address /\ ls[i] = m.book[i].label
       /\ \A i \in 1 .. n - 1 : bs[i] = rest[i].address /\ ks[i] = rest[i].label
       /\ DOMAIN bs = 1 .. n - 1 /\ DOMAIN ks = 1 .. n - 1
  BY <1>3, <1>6 DEF AddressOf, LabelOf
<1>18. IsShortened(bs, as, r, n) /\ IsShortened(ks, ls, r, n)
  <2>1. \A j \in 1 .. n - 1 : (IF j < r THEN j ELSE j + 1) \in 1 .. n
    BY <1>5
  <2>2. \A j \in 1 .. n - 1 : rest[j] = m.book[IF j < r THEN j ELSE j + 1]
    BY DEF rest
  <2>3. \A j \in 1 .. n - 1 : /\ bs[j] = as[IF j < r THEN j ELSE j + 1]
                              /\ ks[j] = ls[IF j < r THEN j ELSE j + 1]
    BY <1>17, <2>1, <2>2
  <2> QED
    BY <2>3, <1>6 DEF AddressOf, LabelOf, IsShortened
<1> HIDE DEF as, ls, bs, ks
<1>29. Book!PaymentsOf(rest) \subseteq S /\ \A j \in r .. n - 1 : rest[j].payment \in S
  <2>1. \A i \in 1 .. n : m.book[i].payment \in S
    BY <1>3 DEF Fit, Book!PaymentsOf
  <2>2. \A j \in 1 .. n - 1 : (IF j < r THEN j ELSE j + 1) \in 1 .. n
    BY <1>5
  <2>3. \A j \in 1 .. n - 1 : rest[j] = m.book[IF j < r THEN j ELSE j + 1]
    BY DEF rest
  <2>4. \A j \in 1 .. n - 1 : rest[j].payment \in S
    BY <2>1, <2>2, <2>3
  <2>5. \A j \in r .. n - 1 : j \in 1 .. n - 1
    BY <1>5
  <2> QED
    BY <1>6, <2>4, <2>5 DEF Book!PaymentsOf
<1>19. IsReindexed(A, m.index.address, as, bs, r, n, Shown(S))
  <2> SUFFICES ASSUME NEW q \in Shown(S)
               PROVE  \/ A[q] \in r .. n - 1 /\ bs[A[q]] = q
                      \/ /\ \A j \in r .. n - 1 : bs[j] # q
                         /\ A[q] = IF q = as[r] THEN 0 ELSE m.index.address[q]
    BY DEF IsReindexed
  <2>1. q \in Keys /\ q \notin S /\ q # old.payment /\ as[r] = old.address
    <3>1. old.payment \in S
      BY <1>3 DEF Fit, Book!PaymentsOf
    <3> QED
      BY <1>5, <1>17, <3>1 DEF Keys, Shown
  <2>2. \A j \in r .. n - 1 : q \in ra[j] <=> bs[j] = q
    <3>1. \A j \in r .. n - 1 : rest[j].payment # q
      BY <1>29, <2>1 DEF Book!PaymentsOf
    <3>2. \A j \in r .. n - 1 : j \in 1 .. n - 1
      BY <1>5
    <3> QED
      BY <1>11, <1>17, <3>1, <3>2
  <2>3. fa[q] = IF q = as[r] THEN 0 ELSE m.index.address[q]
    BY <1>9, <2>1
  <2> QED
    BY <1>12, <2>1, <2>2, <2>3
<1>20. IsReindexed(L, m.index.label, ls, ks, r, n, Labels)
  <2> SUFFICES ASSUME NEW q \in Labels
               PROVE  \/ L[q] \in r .. n - 1 /\ ks[L[q]] = q
                      \/ /\ \A j \in r .. n - 1 : ks[j] # q
                         /\ L[q] = IF q = ls[r] THEN 0 ELSE m.index.label[q]
    BY DEF IsReindexed
  <2>1. ls[r] = old.label
    BY <1>5, <1>17
  <2>2. \A j \in r .. n - 1 : q \in rl[j] <=> ks[j] = q
    <3>2. \A j \in r .. n - 1 : j \in 1 .. n - 1
      BY <1>5
    <3> QED
      BY <1>11, <1>17, <3>2
  <2>3. fl[q] = IF q = ls[r] THEN 0 ELSE m.index.label[q]
    BY <1>10, <2>1
  <2> QED
    BY <1>13, <2>2, <2>3
<1>21. /\ IsIndex(m.index.address, as, n, Keys, Shown(S))
       /\ IsIndex(m.index.label, ls, n, Labels, Labels)
       /\ Points(m.index.address, as, Shown(S)) /\ Points(m.index.label, ls, Labels)
  BY <1>3 DEF Fit, as, ls
<1>22. /\ Points(A, bs, Shown(S))
       /\ Covers(m.index.address, as, Shown(S)) /\ Different(bs) => Covers(A, bs, Shown(S))
  BY <1>5, <1>12, <1>18, <1>19, <1>21, RemovedRow
<1>23. /\ Points(L, ks, Labels)
       /\ Covers(m.index.label, ls, Labels) /\ Different(ks) => Covers(L, ks, Labels)
  BY <1>5, <1>13, <1>18, <1>20, <1>21, RemovedRow
<1>24. Given(x)
  <2>1. CASE m.donation.address = old.address
    BY <1>15, <2>1 DEF Given, G, Book!NoDonation
  <2>2. CASE m.donation.address # old.address /\ m.donation.address \in {DevFund, Nothing}
    BY <1>15, <2>2 DEF Given, G
  <2>3. CASE m.donation.address # old.address /\ m.donation.address \in Book!Flagged(m)
    <3>1. PICK j \in 1 .. n : m.book[j].donation /\ m.book[j].address = m.donation.address
      BY <1>3, <2>3 DEF Book!Flagged
    <3> DEFINE k == IF j < r THEN j ELSE j - 1
    <3>2. j # r
      BY <2>3, <3>1
    <3>3. k \in 1 .. n - 1 /\ (IF k < r THEN k ELSE k + 1) = j
      BY <1>5, <3>2
    <3> HIDE DEF k
    <3>4. rest[k] = m.book[j]
      BY <3>3 DEF rest
    <3>5. m.donation.address \in Book!Flagged(x)
      BY <1>6, <1>15, <3>1, <3>3, <3>4 DEF Book!Flagged
    <3> QED
      BY <1>15, <2>3, <3>5 DEF Given, G
  <2> QED
    BY <2>1, <2>2, <2>3 DEF Fit, Given
<1>25. Fit(x, S)
  BY <1>14, <1>15, <1>16, <1>22, <1>23, <1>24, <1>29 DEF Fit, bs, ks
<1>26. Book!Distinct(x.book) <=> Different(bs) /\ Different(ks)
  BY <1>6, <1>15, Columns DEF bs, ks
<1>27. Unique(m, S) /\ Book!Distinct(x.book) => Unique(x, S)
  BY <1>14, <1>15, <1>22, <1>23, <1>26 DEF Unique, as, ls, bs, ks
<1>28. Len(x.book) < n
  BY <1>3, <1>6, <1>15
<1> QED
  BY <1>25, <1>27, <1>28 DEF Succeeds

\* The address donated to, or the label of the own address, is changed.
LEMMA GiftSucceeds ==
    ASSUME NEW m, NEW S, Fit(m, S), NEW g \in Gifts,
           g.address \in Book!Flagged(m) \cup {DevFund, Nothing, m.donation.address},
           NEW x, x = [m EXCEPT !.donation = g]
    PROVE  Succeeds(x, m, S) /\ x.book = m.book
<1>1. m \in Managers /\ Given(m)
  BY DEF Fit
<1>2. /\ x.book = m.book /\ x.donation = g /\ x.names = m.names /\ x.index = m.index
      /\ x \in Managers
  BY <1>1 DEF Managers
<1>3. Given(x)
  BY <1>1, <1>2 DEF Given, Book!Flagged
<1> QED
  BY <1>2, <1>3 DEF Succeeds, Fit, Unique

LEMMA NamesSucceed ==
    ASSUME NEW m, NEW S, Fit(m, S), NEW l \in Labels \cup {Nothing}, NEW x, x = [m EXCEPT !.names = l]
    PROVE  Succeeds(x, m, S) /\ x.book = m.book
<1>1. m \in Managers /\ Given(m)
  BY DEF Fit
<1>2. /\ x.book = m.book /\ x.donation = m.donation /\ x.names = l /\ x.index = m.index
      /\ x \in Managers
  BY <1>1 DEF Managers
<1>3. Given(x)
  BY <1>1, <1>2 DEF Given, Book!Flagged
<1> QED
  BY <1>2, <1>3 DEF Succeeds, Fit, Unique

\* Each wallet gets the contact it donates to.
LEMMA DevBook ==
    ASSUME NEW m \in Managers, NEW x, x = Book!SetDevDonation(m), x # m,
           NEW y, y = Book!AddAddress(m, DevLabel, DevFund, Nothing, TRUE)
    PROVE  x.book = y.book
<1>1. x = [y EXCEPT !.donation = [address |-> DevFund, enabled |-> TRUE]]
  BY DEF Book!SetDevDonation
<1>2. CASE y = m
  BY <1>1, <1>2 DEF Managers
<1>3. CASE y # m
  <2> DEFINE B == Append(m.book, Book!Item(DevLabel, DevFund, Nothing, TRUE))
             n == Len(m.book) + 1
             I == [address |-> [m.index.address EXCEPT ![DevFund] = n],
                   label |-> [m.index.label EXCEPT ![DevLabel] = n]]
  <2>1. y = [m EXCEPT !.book = B, !.index = I]
    BY <1>3 DEF Book!AddAddress
  <2> HIDE DEF B, I
  <2> QED
    BY <1>1, <2>1 DEF Managers
<1> QED
  BY <1>2, <1>3

LEMMA DevGrown ==
    ASSUME NEW m \in Managers, NEW x, x = Book!SetDevDonation(m)
    PROVE  Book!PaymentsOf(m.book) \subseteq Book!PaymentsOf(x.book)
<1>1. CASE x = m
  BY <1>1
<1>2. CASE x # m
  <2> DEFINE y == Book!AddAddress(m, DevLabel, DevFund, Nothing, TRUE)
  <2>1. x.book = y.book
    BY <1>2, DevBook
  <2>2. Book!PaymentsOf(m.book) \subseteq Book!PaymentsOf(y.book)
    <3>1. y = m \/ \E c : y.book = Append(m.book, c)
      <4> DEFINE c == Book!Item(DevLabel, DevFund, Nothing, TRUE)
      <4>1. y = m \/ y.book = Append(m.book, c)
        <5> HIDE DEF c
        <5> QED
          BY DEF Book!AddAddress, Managers, c
      <4> QED
        BY <4>1
    <3> HIDE DEF y
    <3> QED
      BY <3>1, Grown
  <2> HIDE DEF y
  <2> QED
    BY <2>1, <2>2
<1> QED
  BY <1>1, <1>2

LEMMA DevSucceeds ==
    ASSUME NEW m, NEW S, Fit(m, S), NEW x, x = Book!SetDevDonation(m),
           Book!PaymentsOf(x.book) \subseteq S
    PROVE  Adds(x, m, S)
<1>1. CASE x = m
  BY <1>1 DEF Succeeds, Adds
<1>2. CASE x # m
  <2> DEFINE y == Book!AddAddress(m, DevLabel, DevFund, Nothing, TRUE)
             g == [address |-> DevFund, enabled |-> TRUE]
  <2>1. x = [y EXCEPT !.donation = g]
    BY <1>2 DEF Book!SetDevDonation
  <2>2. g \in Gifts /\ g.address = DevFund
    BY BookAssumption DEF Gifts
  <2> HIDE DEF y, g
  <2>3. Adds(y, m, S)
    <3>1. /\ DevLabel \in Labels /\ DevFund \in Recipients /\ Nothing \in Payments
          /\ TRUE \in BOOLEAN
      BY BookAssumption
    <3>2. y = Book!AddAddress(m, DevLabel, DevFund, Nothing, TRUE)
      BY DEF y
    <3>3. x.book = y.book
      BY <1>2, <3>2, DevBook DEF Fit
    <3> QED
      BY <3>1, <3>2, <3>3, AddSucceeds
  <2>4. Fit(y, S)
    BY <2>3 DEF Succeeds, Adds
  <2>5. Succeeds(x, y, S) /\ x.book = y.book
    BY <2>1, <2>2, <2>4, GiftSucceeds
  <2> QED
    BY <2>3, <2>5 DEF Succeeds, Adds
<1> QED
  BY <1>1, <1>2

\* What the user data hold.
Objects == [book: Seq(Contacts), donation: Gifts, names: Labels \cup {Nothing}]

LEMMA OpenedFits ==
    ASSUME NEW o \in Objects, Given(o), NEW S, Book!PaymentsOf(o.book) \subseteq S,
           NEW x, x = Book!Opened(o)
    PROVE  Fit(x, S) /\ (Book!Distinct(x.book) => Unique(x, S)) /\ x.book = o.book
<1> DEFINE b == o.book
           n == Len(b)
           ra == [i \in DOMAIN b |-> {b[i].address}]
           rl == [i \in DOMAIN b |-> {b[i].label}]
           A == Book!Indexed(Book!NoAddresses, ra)
           L == Book!Indexed(Book!NoLabels, rl)
           I == [address |-> A, label |-> L]
<1>1. x = [book |-> b, donation |-> o.donation, names |-> o.names, index |-> I]
  BY DEF Book!Opened
<1>2. b \in Seq(Contacts) /\ o.donation \in Gifts /\ o.names \in Labels \cup {Nothing}
  BY DEF Objects
<1> DEFINE as == AddressOf(b)
           ls == LabelOf(b)
<1>3. /\ n \in Nat /\ DOMAIN b = 1 .. n
      /\ as \in [1 .. n -> Recipients] /\ ls \in [1 .. n -> Labels]
      /\ Book!Distinct(b) <=> Different(as) /\ Different(ls)
  BY <1>2, Columns
<1>4. \A i \in 1 .. n : as[i] = b[i].address /\ ls[i] = b[i].label
  BY <1>3 DEF AddressOf, LabelOf
<1>5. /\ DOMAIN ra = 1 .. n /\ DOMAIN rl = 1 .. n
      /\ \A i \in 1 .. n : ra[i] = {as[i]} /\ rl[i] = {ls[i]}
  BY <1>3, <1>4
<1>6. /\ Book!NoAddresses \in [Keys -> Nat] /\ \A q \in Keys : Book!NoAddresses[q] = 0
      /\ Book!NoLabels \in [Labels -> Nat] /\ \A q \in Labels : Book!NoLabels[q] = 0
  BY DEF Book!NoAddresses, Book!NoLabels, Book!NoIndex, Book!Texts, Keys
<1> HIDE DEF b, as, ls, ra, rl
<1>7. IsIndexed(A, Book!NoAddresses, ra, Keys) /\ IsIndexed(L, Book!NoLabels, rl, Labels)
  BY <1>3, <1>5, <1>6, IndexedRows
<1> HIDE DEF A, L
<1>8. A \in [Keys -> Nat] /\ L \in [Labels -> Nat]
  BY <1>7 DEF IsIndexed
<1>9. \A q \in Shown(S) : \/ A[q] \in 1 .. n /\ as[A[q]] = q
                          \/ A[q] = 0 /\ \A i \in 1 .. n : as[i] # q
  <2> SUFFICES ASSUME NEW q \in Shown(S)
               PROVE  \/ A[q] \in 1 .. n /\ as[A[q]] = q
                      \/ A[q] = 0 /\ \A i \in 1 .. n : as[i] # q
    OBVIOUS
  <2>1. q \in Keys
    BY DEF Keys, Shown
  <2>2. \/ A[q] \in DOMAIN ra /\ q \in ra[A[q]]
        \/ A[q] = Book!NoAddresses[q] /\ \A i \in DOMAIN ra : q \notin ra[i]
    BY <1>7, <2>1 DEF IsIndexed
  <2>3. CASE A[q] \in DOMAIN ra /\ q \in ra[A[q]]
    <3>1. A[q] \in 1 .. n
      BY <1>5, <2>3
    <3>2. ra[A[q]] = {as[A[q]]}
      BY <1>5, <3>1
    <3> QED
      BY <2>3, <3>1, <3>2
  <2>4. CASE A[q] = Book!NoAddresses[q] /\ \A i \in DOMAIN ra : q \notin ra[i]
    <3>1. \A i \in 1 .. n : as[i] # q
      BY <1>5, <2>4
    <3>2. Book!NoAddresses[q] = 0
      BY <1>6, <2>1
    <3> QED
      BY <2>4, <3>1, <3>2
  <2> QED
    BY <2>2, <2>3, <2>4
<1>10. \A q \in Labels : \/ L[q] \in 1 .. n /\ ls[L[q]] = q
                         \/ L[q] = 0 /\ \A i \in 1 .. n : ls[i] # q
  <2> SUFFICES ASSUME NEW q \in Labels
               PROVE  \/ L[q] \in 1 .. n /\ ls[L[q]] = q
                      \/ L[q] = 0 /\ \A i \in 1 .. n : ls[i] # q
    OBVIOUS
  <2>2. \/ L[q] \in DOMAIN rl /\ q \in rl[L[q]]
        \/ L[q] = Book!NoLabels[q] /\ \A i \in DOMAIN rl : q \notin rl[i]
    BY <1>7 DEF IsIndexed
  <2>3. CASE L[q] \in DOMAIN rl /\ q \in rl[L[q]]
    <3>1. L[q] \in 1 .. n
      BY <1>5, <2>3
    <3>2. rl[L[q]] = {ls[L[q]]}
      BY <1>5, <3>1
    <3> QED
      BY <2>3, <3>1, <3>2
  <2>4. CASE L[q] = Book!NoLabels[q] /\ \A i \in DOMAIN rl : q \notin rl[i]
    <3>1. \A i \in 1 .. n : ls[i] # q
      BY <1>5, <2>4
    <3>2. Book!NoLabels[q] = 0
      BY <1>6
    <3> QED
      BY <2>4, <3>1, <3>2
  <2> QED
    BY <2>2, <2>3, <2>4
<1> HIDE DEF n
<1>11. Points(A, as, Shown(S)) /\ (Different(as) => Covers(A, as, Shown(S)))
  <2>1. Shown(S) \subseteq Keys /\ as \in [1 .. n -> Keys]
    BY <1>3 DEF Keys, Shown
  <2> QED
    BY <1>3, <1>8, <1>9, <2>1, BuiltRows
<1>12. Points(L, ls, Labels) /\ (Different(ls) => Covers(L, ls, Labels))
  BY <1>3, <1>8, <1>10, BuiltRows
<1>13. /\ x.book = b /\ x.donation = o.donation /\ x.names = o.names
       /\ x.index.address = A /\ x.index.label = L
  BY <1>1
<1>14. x \in Managers
  BY <1>1, <1>2, <1>8 DEF Managers
<1>15. Given(x)
  BY <1>13 DEF Given, Book!Flagged, b
<1>18. Book!PaymentsOf(x.book) \subseteq S
  BY <1>13 DEF b
<1>16. Fit(x, S)
  BY <1>11, <1>12, <1>13, <1>14, <1>15, <1>18 DEF Fit, as, ls
<1>17. Book!Distinct(x.book) => Unique(x, S)
  BY <1>3, <1>11, <1>12, <1>13 DEF Unique, as, ls
<1> QED
  BY <1>13, <1>16, <1>17 DEF b

\* The invariant.  A row a dialog is about stays in the book, because what is
\* above the dialog only adds to it; the user data hold what is shown, and donate
\* to whom the book does, in a wallet that is closed, too.
Choices == {"options", "switchedOn", "switchedOff"}
DialogSet == [kind: Choices \cup {"opening", "add", "edit", "delete"}, row: Nat,
              label: Labels \cup {Nothing}, address: Recipients \cup {Nothing},
              clash: SUBSET {"label", "address"}]

Stored ==
  /\ Given(data)
  /\ usable => data = Book!Object(Book!Manager) /\ rows = Len(book)
  /\ ~usable => rows = 0

Shelf ==
  /\ usable \in BOOLEAN /\ twins \in BOOLEAN /\ rows \in Nat /\ data \in Objects
  /\ shadowed \subseteq Payments
  /\ Fit(Book!Manager, shadowed) /\ (~twins => Unique(Book!Manager, shadowed)) /\ Stored

Dialogues ==
  /\ dialogs \in Seq(DialogSet) /\ (dialogs # <<>> => usable)
  /\ \A k \in DOMAIN dialogs : k > 1 => dialogs[k].kind \in Choices
  /\ \A k \in DOMAIN dialogs :
       dialogs[k].kind \in {"edit", "delete"} => dialogs[k].row \in DOMAIN book

BookInv == Shelf /\ Dialogues

LEMMA ObjectsOf ==
    ASSUME NEW m, NEW S, Fit(m, S)
    PROVE  /\ Book!Object(m) \in Objects /\ Given(Book!Object(m))
           /\ m = [book |-> m.book, donation |-> m.donation, names |-> m.names, index |-> m.index]
<1>1. m \in Managers /\ Given(m)
  BY DEF Fit
<1>2. m = [book |-> m.book, donation |-> m.donation, names |-> m.names, index |-> m.index]
  BY <1>1 DEF Managers
<1>3. /\ Book!Object(m) = [book |-> m.book, donation |-> m.donation, names |-> m.names]
      /\ m.book \in Seq(Contacts) /\ m.donation \in Gifts /\ m.names \in Labels \cup {Nothing}
  BY <1>1 DEF Managers, Book!Object
<1>4. Book!Object(m) \in Objects
  BY <1>3 DEF Objects
<1>5. Given(Book!Object(m))
  BY <1>1, <1>3 DEF Given, Book!Flagged
<1> QED
  BY <1>2, <1>4, <1>5

LEMMA BecomesKeeps ==
    ASSUME Shelf, usable, NEW x,
           Succeeds(x, Book!Manager, shadowed \cup Book!PaymentsOf(x.book)), Book!Becomes(x, Book!Manager)
    PROVE  Shelf' /\ usable' /\ book' = x.book
<1> DEFINE m == Book!Manager
           S == shadowed \cup Book!PaymentsOf(x.book)
<1>1. /\ Fit(m, shadowed) /\ Fit(x, S)
      /\ Unique(m, shadowed) /\ Book!Distinct(x.book) => Unique(x, S)
  <2>1. shadowed \subseteq S /\ Fit(m, shadowed)
    BY DEF Shelf
  <2>2. Unique(m, shadowed) => Unique(m, S)
    BY <2>1, Shaded
  <2> QED
    BY <2>1, <2>2 DEF Succeeds
<1>2. x \in Managers /\ Len(x.book) \in Nat /\ Len(book) \in Nat /\ m.book = book
  <2>1. x \in Managers /\ m \in Managers
    BY <1>1 DEF Fit
  <2>2. Len(x.book) \in Nat /\ Len(m.book) \in Nat
    BY <2>1, IndexesOf
  <2> QED
    BY <2>1, <2>2 DEF Book!Manager
<1>3. /\ book' = x.book /\ donation' = x.donation /\ names' = x.names /\ index' = x.index
      /\ data' = Book!Saves(x, m) /\ rows' = Book!RowsAfter(x, m)
      /\ twins' = (twins \/ ~Book!Distinct(x.book)) /\ usable' = usable
      /\ shadowed' = S
  BY DEF Book!Becomes
<1>14. S \subseteq Payments
  <2>1. Book!PaymentsOf(x.book) \subseteq Payments
    BY <1>2, PaymentsTyped
  <2> QED
    BY <2>1 DEF Shelf
<1>4. Book!Manager' = x
  BY <1>1, <1>3, ObjectsOf DEF Book!Manager
<1>5. data = Book!Object(m) /\ rows = Len(book)
  BY DEF Shelf, Stored
<1>6. data' = Book!Object(x)
  BY <1>3, <1>5 DEF Book!Saves
<1>7. rows' = Len(x.book)
  BY <1>2, <1>3, <1>5 DEF Book!RowsAfter
<1>8. Fit(Book!Manager', S)
  BY <1>1, <1>4
<1>9. twins' \in BOOLEAN /\ (~twins' => Unique(Book!Manager', S))
  BY <1>1, <1>3, <1>4 DEF Shelf
<1> HIDE DEF m, S
<1>10. data' \in Objects /\ Given(data)'
  BY <1>1, <1>6, ObjectsOf
<1>11. data' = Book!Object(Book!Manager)'
  BY <1>4, <1>6 DEF Book!Object
<1>12. Stored'
  BY <1>2, <1>3, <1>7, <1>10, <1>11 DEF Stored
<1>13. usable' \in BOOLEAN /\ rows' \in Nat /\ usable'
  BY <1>2, <1>3, <1>7
<1> QED
  BY <1>3, <1>8, <1>9, <1>10, <1>12, <1>13, <1>14 DEF Shelf

LEMMA Ready ==
    ASSUME Shelf
    PROVE  /\ Book!Manager \in Managers /\ Fit(Book!Manager, shadowed)
           /\ \A T : Fit(Book!Manager, shadowed \cup T)
<1>1. Fit(Book!Manager, shadowed)
  BY DEF Shelf
<1>2. ASSUME NEW T PROVE Fit(Book!Manager, shadowed \cup T)
  <2>1. shadowed \subseteq shadowed \cup T
    OBVIOUS
  <2> QED
    BY <1>1, <2>1, Shaded
<1> QED
  BY <1>1, <1>2 DEF Fit

LEMMA ShelfStays ==
    ASSUME Shelf, UNCHANGED <<usable, book, donation, names, index, data, rows, twins, shadowed>>
    PROVE  Shelf'
<1>1. Book!Manager' = Book!Manager
  BY DEF Book!Manager
<1>2. Fit(Book!Manager, shadowed)' /\ (~twins' => Unique(Book!Manager, shadowed)')
  BY <1>1 DEF Shelf
<1>3. Stored'
  <2>1. data' = data /\ usable' = usable /\ rows' = rows /\ book' = book
    OBVIOUS
  <2>2. Book!Object(Book!Manager)' = Book!Object(Book!Manager)
    BY <1>1 DEF Book!Object
  <2>3. Given(data)'
    BY <2>1 DEF Shelf, Stored
  <2> QED
    BY <2>1, <2>2, <2>3 DEF Shelf, Stored
<1> QED
  BY <1>2, <1>3 DEF Shelf

\* The manager before a wallet is opened.
LEMMA EmptyFits ==
    ASSUME NEW m, m = [book |-> <<>>, donation |-> Book!NoDonation, names |-> Nothing,
                       index |-> [address |-> Book!NoAddresses, label |-> Book!NoLabels]]
    PROVE  Fit(m, {}) /\ Unique(m, {})
<1>1. /\ Book!NoAddresses \in [Keys -> Nat] /\ \A q \in Keys : Book!NoAddresses[q] = 0
      /\ Book!NoLabels \in [Labels -> Nat] /\ \A q \in Labels : Book!NoLabels[q] = 0
  BY DEF Book!NoAddresses, Book!NoLabels, Book!NoIndex, Book!Texts, Keys
<1>2. Book!NoDonation \in Gifts /\ Book!NoDonation.address = Nothing
  BY DEF Book!NoDonation, Gifts
<1>3. /\ m.book = <<>> /\ m.donation = Book!NoDonation
      /\ m.index.address = Book!NoAddresses /\ m.index.label = Book!NoLabels
  OBVIOUS
<1>4. m \in Managers
  BY <1>1, <1>2 DEF Managers
<1>5. DOMAIN AddressOf(m.book) = {} /\ DOMAIN LabelOf(m.book) = {} /\ DOMAIN m.book = {}
  BY <1>3 DEF AddressOf, LabelOf
<1>6. Given(m)
  BY <1>2, <1>3 DEF Given
<1>7. Points(m.index.address, AddressOf(m.book), Shown({}))
  BY <1>1, <1>3 DEF Points, Keys, Shown
<1>8. Points(m.index.label, LabelOf(m.book), Labels)
  BY <1>1, <1>3 DEF Points
<1>9. Unique(m, {})
  BY <1>5 DEF Unique, Covers, Book!Distinct
<1>10. Book!PaymentsOf(m.book) = {}
  BY <1>5 DEF Book!PaymentsOf
<1> QED
  BY <1>10, <1>4, <1>6, <1>7, <1>8, <1>9 DEF Fit

LEMMA BookBegins == Init => BookInv
<1> SUFFICES ASSUME Book!Init PROVE BookInv
  BY DEF Init
<1>1. /\ usable = FALSE /\ book = <<>> /\ donation = Book!NoDonation /\ names = Nothing
      /\ index = [address |-> Book!NoAddresses, label |-> Book!NoLabels]
      /\ data = Book!NoObject /\ rows = 0 /\ dialogs = <<>> /\ twins = FALSE
      /\ shadowed = {}
  BY DEF Book!Init
<1>2. Fit(Book!Manager, shadowed) /\ Unique(Book!Manager, shadowed)
  BY <1>1, EmptyFits DEF Book!Manager
<1>3. Book!NoObject \in Objects /\ Given(Book!NoObject)
  BY DEF Book!NoObject, Book!NoDonation, Objects, Gifts, Given
<1>4. Shelf
  BY <1>1, <1>2, <1>3 DEF Shelf, Stored
<1>5. Dialogues
  BY <1>1 DEF Dialogues
<1> QED
  BY <1>4, <1>5 DEF BookInv

LEMMA LoadKeeps ==
    ASSUME ~usable, rows = 0, NEW x, Book!Load(x), Fit(x, Book!PaymentsOf(x.book)),
           Book!Distinct(x.book) => Unique(x, Book!PaymentsOf(x.book))
    PROVE  Shelf' /\ usable' /\ book' = x.book
<1>1. /\ usable' = TRUE
      /\ book' = x.book /\ donation' = x.donation /\ names' = x.names /\ index' = x.index
      /\ data' = Book!Object(x)
      /\ rows' = IF x.book = <<>> THEN rows ELSE Len(x.book)
      /\ twins' = ~Book!Distinct(x.book) /\ shadowed' = Book!PaymentsOf(x.book)
  BY DEF Book!Load
<1>2. Book!Manager' = x
  BY <1>1, ObjectsOf DEF Book!Manager
<1>3. rows' = Len(x.book) /\ rows' \in Nat
  <2>1. x \in Managers
    BY DEF Fit
  <2>2. x.book \in Seq(Contacts) /\ Len(x.book) \in Nat
    BY <2>1, IndexesOf
  <2> QED
    BY <1>1, <2>2
<1>4. data' \in Objects /\ Given(data)' /\ data' = Book!Object(Book!Manager)'
  <2>1. data' \in Objects /\ Given(data)'
    BY <1>1, ObjectsOf
  <2>2. data' = Book!Object(Book!Manager)'
    BY <1>1, <1>2 DEF Book!Object
  <2> QED
    BY <2>1, <2>2
<1>5. Fit(Book!Manager, shadowed)' /\ (~twins' => Unique(Book!Manager, shadowed)') /\ twins' \in BOOLEAN
  <2>1. Fit(Book!Manager', shadowed') /\ (~twins' => Unique(Book!Manager', shadowed'))
    BY <1>1, <1>2
  <2> QED
    BY <1>1, <2>1
<1>7. shadowed' \subseteq Payments
  BY <1>1, PaymentsTyped DEF Fit
<1>6. Stored'
  BY <1>1, <1>3, <1>4 DEF Stored
<1> QED
  BY <1>1, <1>3, <1>4, <1>5, <1>6, <1>7 DEF Shelf

LEMMA OptionsTyped ==
    ASSUME NEW m, NEW b \in BOOLEAN
    PROVE  Book!Options(m, b) \in DialogSet /\ Book!Options(m, b).kind \in Choices
<1> DEFINE k == IF Book!Flagged(m) # {} THEN "options"
                ELSE IF b \/ m.donation.enabled THEN "switchedOn" ELSE "switchedOff"
<1>1. k \in Choices
  BY DEF Choices
<1>2. Book!Options(m, b) = [kind |-> k, row |-> 0, label |-> Nothing, address |-> Nothing, clash |-> {}]
  BY DEF Book!Options, Book!Dialog
<1> HIDE DEF k
<1> QED
  BY <1>1, <1>2 DEF DialogSet

LEMMA BookOpenedKeeps ==
    ASSUME BookInv, Book!WalletOpened
    PROVE  BookInv'
<1>1. PICK o \in Book!Files :
        /\ ~usable
        /\ LET m == Book!Opened(o)
           IN  \/ /\ Book!Load(Book!SetDevDonation(m)) /\ UNCHANGED dialogs
               \/ \E l \in Labels, a \in Recipients, p \in Payments :
                    LET n == Book!AddAddress(m, l, a, p, TRUE)
                    IN  /\ Len(m.book) < MaxItems /\ Book!Load(n)
                        /\ dialogs' = <<Book!Opening, Book!Options(n, TRUE)>>
  BY DEF Book!WalletOpened
<1>2. o \in Objects /\ Given(o)
  <2>1. CASE o = data
    BY <2>1 DEF BookInv, Shelf, Stored
  <2>2. CASE o = Book!NoObject
    BY <2>2 DEF Book!NoObject, Book!NoDonation, Objects, Gifts, Given
  <2>3. ASSUME NEW k \in Labels \X Recipients, o = Book!OldList(k)
        PROVE  o \in Objects /\ Given(o)
    <3> DEFINE c == Book!Item(k[1], k[2], Nothing, FALSE)
    <3>1. k[1] \in Labels /\ k[2] \in Recipients
      OBVIOUS
    <3>2. c \in Contacts
      BY <3>1, BookAssumption DEF Book!Item, Contacts
    <3> HIDE DEF c
    <3>3. /\ o.book = <<c>> /\ o.donation = Book!NoDonation
          /\ o = [book |-> o.book, donation |-> o.donation, names |-> Nothing]
      BY <2>3 DEF Book!NoObject, Book!OldList, c
    <3>4. o.book \in Seq(Contacts)
      BY <3>2, <3>3
    <3> QED
      <4>1. Book!NoDonation \in Gifts /\ Book!NoDonation.address = Nothing
        BY DEF Book!NoDonation, Gifts
      <4>2. o \in Objects
        BY <3>3, <3>4, <4>1 DEF Objects
      <4> QED
        BY <3>3, <4>1, <4>2 DEF Given
  <2> QED
    BY <2>1, <2>2, <2>3 DEF Book!Files
<1> DEFINE m == Book!Opened(o)
<1>3. /\ \A S : Book!PaymentsOf(o.book) \subseteq S =>
              Fit(m, S) /\ (Book!Distinct(m.book) => Unique(m, S))
      /\ m \in Managers /\ m.book = o.book
  <2>1. \A S : Book!PaymentsOf(o.book) \subseteq S =>
          Fit(m, S) /\ (Book!Distinct(m.book) => Unique(m, S)) /\ m.book = o.book
    BY <1>2, OpenedFits
  <2> HIDE DEF m
  <2>2. Fit(m, Book!PaymentsOf(o.book)) /\ m.book = o.book
    BY <2>1
  <2> QED
    BY <2>1, <2>2 DEF Fit
<1>4. /\ ~usable /\ rows = 0 /\ dialogs = <<>>
      /\ \/ /\ Book!Load(Book!SetDevDonation(m)) /\ UNCHANGED dialogs
         \/ \E l \in Labels, a \in Recipients, p \in Payments :
              /\ Book!Load(Book!AddAddress(m, l, a, p, TRUE))
              /\ dialogs' = <<Book!Opening, Book!Options(Book!AddAddress(m, l, a, p, TRUE), TRUE)>>
  BY <1>1 DEF BookInv, Shelf, Stored, Dialogues
<1> HIDE DEF m
<1>5. CASE Book!Load(Book!SetDevDonation(m)) /\ UNCHANGED dialogs
  <2> DEFINE x == Book!SetDevDonation(m)
             S == Book!PaymentsOf(x.book)
  <2>1. Fit(x, S) /\ (Book!Distinct(x.book) => Unique(x, S))
    <3>1. Book!PaymentsOf(m.book) \subseteq S
      BY <1>3, DevGrown
    <3>2. Fit(m, S) /\ (Book!Distinct(m.book) => Unique(m, S))
      <4> HIDE DEF S
      <4> QED
        BY <1>3, <3>1
    <3>3. Adds(x, m, S)
      BY <3>2, DevSucceeds
    <3> HIDE DEF x, S
    <3> QED
      BY <3>2, <3>3 DEF Succeeds, Adds
  <2> HIDE DEF x
  <2>2. Shelf'
    BY <1>4, <1>5, <2>1, LoadKeeps DEF x
  <2>3. Dialogues'
    BY <1>4, <1>5 DEF Dialogues
  <2> QED
    BY <2>2, <2>3 DEF BookInv
<1>6. ASSUME NEW l \in Labels, NEW a \in Recipients, NEW p \in Payments,
             Book!Load(Book!AddAddress(m, l, a, p, TRUE)),
             dialogs' = <<Book!Opening, Book!Options(Book!AddAddress(m, l, a, p, TRUE), TRUE)>>
      PROVE  BookInv'
  <2> DEFINE x == Book!AddAddress(m, l, a, p, TRUE)
             S == Book!PaymentsOf(x.book)
  <2>4. Fit(m, S) /\ (Book!Distinct(m.book) => Unique(m, S))
    <3>1. Book!PaymentsOf(m.book) \subseteq S
      <4> DEFINE c == Book!Item(l, a, p, TRUE)
      <4>1. x = m \/ x.book = Append(m.book, c)
        BY <1>3 DEF Book!AddAddress, Managers
      <4> HIDE DEF x, c
      <4> QED
        BY <1>3, <4>1, Grown
    <3> HIDE DEF S
    <3> QED
      BY <1>3, <3>1
  <2>1. Fit(x, S) /\ (Book!Distinct(x.book) => Unique(x, S))
    <3>1. TRUE \in BOOLEAN
      OBVIOUS
    <3> QED
      <4>1. x = Book!AddAddress(m, l, a, p, TRUE)
        OBVIOUS
      <4> HIDE DEF x
      <4>2. Adds(x, m, S)
        <5>1. Fit(m, S) /\ l \in Labels /\ a \in Recipients /\ p \in Payments
          BY <2>4, <1>6
        <5> QED
          BY ONLY <3>1, <4>1, <5>1, AddSucceeds DEF S
      <4> QED
        BY <2>4, <4>2 DEF Succeeds, Adds
  <2> HIDE DEF x
  <2>2. Shelf' /\ usable'
    BY <1>4, <1>6, <2>1, LoadKeeps DEF x
  <2>3. Dialogues'
    <3> DEFINE d == Book!Options(x, TRUE)
    <3>1. d \in DialogSet /\ d.kind \in Choices
      BY OptionsTyped
    <3>2. Book!Opening \in DialogSet /\ Book!Opening.kind = "opening"
      BY DEF Book!Opening, Book!Dialog, DialogSet
    <3> HIDE DEF d
    <3>3. dialogs' = <<Book!Opening, d>>
      BY <1>6 DEF d, x
    <3>4. dialogs' \in Seq(DialogSet) /\ DOMAIN dialogs' = 1 .. 2
          /\ dialogs'[1] = Book!Opening /\ dialogs'[2] = d
      BY <3>1, <3>2, <3>3
    <3>5. \A k \in 1 .. 2 : /\ k > 1 => dialogs'[k].kind \in Choices
                            /\ dialogs'[k].kind \notin {"edit", "delete"}
      BY <3>1, <3>2, <3>4 DEF Choices
    <3> QED
      BY <2>2, <3>4, <3>5 DEF Dialogues
  <2> QED
    BY <2>2, <2>3 DEF BookInv
<1> QED
  BY <1>4, <1>5, <1>6

\* The dialogs below the one on top.
LEMMA Below ==
    ASSUME Dialogues, dialogs # <<>>
    PROVE  /\ usable /\ Len(dialogs) \in Nat \ {0}
           /\ Book!Top = dialogs[Len(dialogs)] /\ Book!Top \in DialogSet
           /\ Book!Front(dialogs) \in Seq(DialogSet)
           /\ Len(Book!Front(dialogs)) = Len(dialogs) - 1
           /\ \A k \in 1 .. Len(dialogs) - 1 : Book!Front(dialogs)[k] = dialogs[k]
           /\ Book!Top.kind \notin Choices => Len(dialogs) = 1 /\ Book!Front(dialogs) = <<>>
<1>1. dialogs \in Seq(DialogSet) /\ usable /\ Len(dialogs) \in Nat \ {0}
  BY DEF Dialogues
<1>2. Book!Top = dialogs[Len(dialogs)] /\ Book!Top \in DialogSet
  BY <1>1 DEF Book!Top, Book!Last
<1>3. Book!Front(dialogs) = SubSeq(dialogs, 1, Len(dialogs) - 1)
  BY DEF Book!Front
<1>4. /\ Book!Front(dialogs) \in Seq(DialogSet)
      /\ Len(Book!Front(dialogs)) = Len(dialogs) - 1
      /\ \A k \in 1 .. Len(dialogs) - 1 : Book!Front(dialogs)[k] = dialogs[k]
  <2> DEFINE n == Len(dialogs) - 1
  <2>1. n \in Nat /\ n <= Len(dialogs)
    BY <1>1
  <2>2. SubSeq(dialogs, 1, n) = [k \in 1 .. n |-> dialogs[k]]
    BY <1>1, <2>1
  <2>3. \A k \in 1 .. n : dialogs[k] \in DialogSet
    BY <1>1, <2>1
  <2>4. [k \in 1 .. n |-> dialogs[k]] \in Seq(DialogSet) /\ Len([k \in 1 .. n |-> dialogs[k]]) = n
    BY <2>1, <2>3
  <2> QED
    BY <1>3, <2>2, <2>4
<1>5. ASSUME Book!Top.kind \notin Choices
      PROVE  Len(dialogs) = 1 /\ Book!Front(dialogs) = <<>>
  <2>1. Len(dialogs) \in DOMAIN dialogs
    BY <1>1
  <2>2. Len(dialogs) = 1
    <3>1. Len(dialogs) > 1 => dialogs[Len(dialogs)].kind \in Choices
      BY <2>1 DEF Dialogues
    <3>2. dialogs[Len(dialogs)].kind \notin Choices
      BY <1>2, <1>5
    <3>3. ~(Len(dialogs) > 1)
      BY <3>1, <3>2
    <3>4. Len(dialogs) \in Nat \ {0}
      BY <1>1
    <3>5. \A n \in Nat \ {0} : n > 1 \/ n = 1
      OBVIOUS
    <3> QED
      BY <3>3, <3>4, <3>5
  <2> QED
    BY <1>1, <1>4, <2>2
<1> QED
  BY <1>1, <1>2, <1>4, <1>5

\* Fewer dialogs over a book that has its rows still.
LEMMA DialoguesShrink ==
    ASSUME Dialogues, usable', NEW n \in 0 .. Len(dialogs), dialogs' \in Seq(DialogSet),
           Len(dialogs') = n, \A k \in 1 .. n : dialogs'[k] = dialogs[k],
           n = 0 \/ DOMAIN book \subseteq DOMAIN book'
    PROVE  Dialogues'
<1>1. dialogs \in Seq(DialogSet) /\ Len(dialogs) \in Nat /\ n \in Nat
  BY DEF Dialogues
<1>2. DOMAIN dialogs = 1 .. Len(dialogs) /\ DOMAIN dialogs' = 1 .. n
  BY <1>1
<1>3. \A k \in 1 .. n : k \in DOMAIN dialogs
  BY <1>1, <1>2
<1>4. \A k \in DOMAIN dialogs' : k > 1 => dialogs'[k].kind \in Choices
  BY <1>2, <1>3 DEF Dialogues
<1>5. \A k \in DOMAIN dialogs' :
        dialogs'[k].kind \in {"edit", "delete"} => dialogs'[k].row \in DOMAIN book'
  BY <1>1, <1>2, <1>3 DEF Dialogues
<1> QED
  BY <1>4, <1>5 DEF Dialogues

\* A dialog of its own.
LEMMA DialogueAlone ==
    ASSUME usable', NEW d \in DialogSet, dialogs' = <<d>>,
           d.kind \in {"edit", "delete"} => d.row \in DOMAIN book'
    PROVE  Dialogues'
<1>1. dialogs' \in Seq(DialogSet) /\ DOMAIN dialogs' = 1 .. 1 /\ dialogs'[1] = d
  OBVIOUS
<1> QED
  BY <1>1 DEF Dialogues

LEMMA BookClosedKeeps ==
    ASSUME BookInv, Book!WalletClosed
    PROVE  BookInv'
<1>1. /\ usable /\ dialogs = <<>> /\ usable' = FALSE
      /\ book' = <<>> /\ donation' = Book!NoDonation /\ names' = Nothing
      /\ index' = [address |-> Book!NoAddresses, label |-> Book!NoLabels]
      /\ rows' = 0 /\ twins' = FALSE /\ shadowed' = {}
      /\ UNCHANGED <<data, dialogs>>
  BY DEF Book!WalletClosed, Book!Idle
<1>2. Fit(Book!Manager, shadowed)' /\ Unique(Book!Manager, shadowed)'
  <2> DEFINE m == [book |-> <<>>, donation |-> Book!NoDonation, names |-> Nothing,
                   index |-> [address |-> Book!NoAddresses, label |-> Book!NoLabels]]
  <2>1. Book!Manager' = m
    BY <1>1 DEF Book!Manager
  <2>2. Fit(m, {}) /\ Unique(m, {})
    BY EmptyFits
  <2> HIDE DEF m
  <2>3. Fit(Book!Manager', shadowed') /\ Unique(Book!Manager', shadowed')
    BY <1>1, <2>1, <2>2
  <2> QED
    BY <1>1, <2>3
<1>3. Shelf'
  <2>1. data \in Objects /\ Given(data)
    BY DEF BookInv, Shelf, Stored
  <2>2. data' = data
    BY <1>1
  <2>3. data' \in Objects /\ Given(data)'
    BY <2>1, <2>2
  <2> QED
    BY <1>1, <1>2, <2>3 DEF Shelf, Stored
<1>4. Dialogues'
  BY <1>1 DEF Dialogues
<1> QED
  BY <1>3, <1>4 DEF BookInv

\* What the window changes while no dialog is on screen.
LEMMA IdleKeeps ==
    ASSUME BookInv, Book!SaveRecipient \/ Book!SetOwnLabel
    PROVE  BookInv'
<1>1. /\ Shelf /\ Dialogues /\ Book!Manager \in Managers
      /\ \A T : Fit(Book!Manager, shadowed \cup T)
  BY Ready DEF BookInv
<1>2. \E x : /\ Book!Becomes(x, Book!Manager) /\ Succeeds(x, Book!Manager, shadowed \cup Book!PaymentsOf(x.book))
             /\ usable /\ dialogs = <<>> /\ UNCHANGED dialogs
  <2>1. ASSUME Book!SaveRecipient
        PROVE  \E x : /\ Book!Becomes(x, Book!Manager) /\ Succeeds(x, Book!Manager, shadowed \cup Book!PaymentsOf(x.book))
                      /\ usable /\ dialogs = <<>> /\ UNCHANGED dialogs
    <3>1. PICK l \in Labels, a \in Proper, p \in Payments :
            /\ Book!Idle
            /\ Book!Becomes(Book!AddAddress(Book!Manager, l, a, p, FALSE), Book!Manager)
            /\ UNCHANGED dialogs
      BY <2>1 DEF Book!SaveRecipient
    <3> DEFINE x == Book!AddAddress(Book!Manager, l, a, p, FALSE)
    <3> DEFINE S == shadowed \cup Book!PaymentsOf(x.book)
    <3>2. Adds(x, Book!Manager, S)
      <4>1. FALSE \in BOOLEAN /\ x = Book!AddAddress(Book!Manager, l, a, p, FALSE)
            /\ Book!PaymentsOf(x.book) \subseteq S
        OBVIOUS
      <4>2. l \in Labels /\ a \in Recipients /\ p \in Payments /\ Fit(Book!Manager, S)
        BY <1>1, <3>1, BookAssumption
      <4> HIDE DEF x, S
      <4> QED
        BY ONLY <4>1, <4>2, AddSucceeds
    <3> QED
      BY <3>1, <3>2 DEF Adds, Book!Idle
  <2>2. ASSUME Book!SetOwnLabel
        PROVE  \E x : /\ Book!Becomes(x, Book!Manager) /\ Succeeds(x, Book!Manager, shadowed \cup Book!PaymentsOf(x.book))
                      /\ usable /\ dialogs = <<>> /\ UNCHANGED dialogs
    <3>1. PICK l \in {DevLabel, Nothing} :
            /\ Book!Idle
            /\ Book!Becomes([Book!Manager EXCEPT !.names = l], Book!Manager)
            /\ UNCHANGED dialogs
      BY <2>2 DEF Book!SetOwnLabel
    <3>2. l \in Labels \cup {Nothing}
      BY BookAssumption
    <3> DEFINE x == [Book!Manager EXCEPT !.names = l]
    <3>3. Succeeds(x, Book!Manager, shadowed \cup Book!PaymentsOf(x.book))
      <4> DEFINE S == shadowed \cup Book!PaymentsOf(x.book)
      <4>1. Fit(Book!Manager, S)
        BY <1>1
      <4> HIDE DEF S
      <4>2. Succeeds(x, Book!Manager, S)
        BY <3>2, <4>1, NamesSucceed
      <4> QED
        BY <4>2 DEF S
    <3> QED
      BY <3>1, <3>3 DEF Book!Idle
  <2> QED
    BY <2>1, <2>2
<1>3. Shelf' /\ usable'
  BY <1>1, <1>2, BecomesKeeps
<1>4. Dialogues'
  BY <1>1, <1>2, <1>3 DEF Dialogues
<1> QED
  BY <1>3, <1>4 DEF BookInv

\* A payment request, whatever dialogs there are.
LEMMA RequestKeeps ==
    ASSUME BookInv, Book!UrlReceived
    PROVE  BookInv'
<1>1. /\ Shelf /\ Dialogues /\ Book!Manager \in Managers
      /\ \A T : Fit(Book!Manager, shadowed \cup T)
  BY Ready DEF BookInv
<1>2. PICK l \in Labels, a \in Recipients, p \in Payments :
        LET m == Book!AddAddress(Book!Manager, l, a, p, TRUE)
        IN  /\ usable /\ Book!Becomes(m, Book!Manager)
            /\ dialogs' = Append(dialogs, Book!Options(m, TRUE))
  BY DEF Book!UrlReceived
<1> DEFINE x == Book!AddAddress(Book!Manager, l, a, p, TRUE)
           d == Book!Options(x, TRUE)
           S == shadowed \cup Book!PaymentsOf(x.book)
<1>3. usable /\ Book!Becomes(x, Book!Manager) /\ dialogs' = Append(dialogs, d)
  BY <1>2
<1>4. Adds(x, Book!Manager, S)
  <2>1. TRUE \in BOOLEAN /\ x = Book!AddAddress(Book!Manager, l, a, p, TRUE)
        /\ Book!PaymentsOf(x.book) \subseteq S
    OBVIOUS
  <2>2. l \in Labels /\ a \in Recipients /\ p \in Payments /\ Fit(Book!Manager, S)
    BY <1>1
  <2> HIDE DEF x, S
  <2> QED
    BY ONLY <2>1, <2>2, AddSucceeds
<1>5. d \in DialogSet /\ d.kind \in Choices
  BY OptionsTyped
<1> HIDE DEF x, d
<1>6. Shelf' /\ usable' /\ book' = x.book
  BY <1>1, <1>3, <1>4, BecomesKeeps DEF Adds, S
<1>7. DOMAIN book \subseteq DOMAIN book'
  <2>1. Fit(x, S)
    BY <1>4 DEF Adds, Succeeds
  <2>2. x \in Managers /\ Book!Manager \in Managers /\ Book!Manager.book = book
    BY <1>1, <2>1 DEF Fit, Book!Manager
  <2>3. /\ Len(x.book) \in Nat /\ DOMAIN x.book = 1 .. Len(x.book)
        /\ Len(book) \in Nat /\ DOMAIN book = 1 .. Len(book)
    BY <2>2, IndexesOf
  <2>4. Len(x.book) >= Len(book)
    BY <1>4, <2>2, <2>3 DEF Adds
  <2> QED
    BY <1>6, <2>3, <2>4
<1>8. Dialogues'
  <2>1. dialogs \in Seq(DialogSet) /\ Len(dialogs) \in Nat
    BY <1>1 DEF Dialogues
  <2> DEFINE n == Len(dialogs)
  <2>2. /\ dialogs' \in Seq(DialogSet) /\ DOMAIN dialogs' = 1 .. n + 1 /\ dialogs'[n + 1] = d
        /\ \A k \in 1 .. n : dialogs'[k] = dialogs[k] /\ k \in DOMAIN dialogs
    BY <1>3, <1>5, <2>1
  <2>3. \A k \in 1 .. n + 1 : k = n + 1 \/ k \in 1 .. n
    BY <2>1
  <2>4. \A k \in DOMAIN dialogs' : k > 1 => dialogs'[k].kind \in Choices
    BY <1>1, <1>5, <2>2, <2>3 DEF Dialogues
  <2>5. \A k \in DOMAIN dialogs' :
          dialogs'[k].kind \in {"edit", "delete"} => dialogs'[k].row \in DOMAIN book'
    BY <1>1, <1>5, <1>7, <2>2, <2>3 DEF Dialogues, Choices
  <2> QED
    BY <1>6, <2>2, <2>4, <2>5 DEF Dialogues
<1> QED
  BY <1>6, <1>8 DEF BookInv

\* A dialog is opened, or what is typed in it looked up.
LEMMA DialogKeeps ==
    ASSUME BookInv,
           \/ Book!AddClicked \/ Book!EditClicked \/ Book!DeleteClicked
           \/ Book!ShowPreferences
    PROVE  BookInv'
<1>1. /\ Shelf /\ Dialogues /\ Book!Manager \in Managers
      /\ \A T : Fit(Book!Manager, shadowed \cup T)
  BY Ready DEF BookInv
<1>2. UNCHANGED <<usable, book, donation, names, index, data, rows, twins, shadowed>> /\ usable
  BY DEF Book!AddClicked, Book!EditClicked, Book!DeleteClicked, Book!ShowPreferences, Book!Idle
<1>3. book \in Seq(Contacts) /\ DOMAIN book \subseteq Nat
  <2>1. Book!Manager \in Managers /\ Book!Manager.book = book
    BY <1>1 DEF Fit, Book!Manager
  <2> QED
    BY <2>1 DEF Managers
<1>4. \E d \in DialogSet : /\ dialogs' = <<d>>
                           /\ d.kind \in {"edit", "delete"} => d.row \in DOMAIN book
  <2>1. CASE Book!AddClicked
    <3> DEFINE d == Book!Dialog("add", 0, Nothing, Nothing, {})
    <3>1. d \in DialogSet /\ d.kind = "add"
      BY DEF Book!Dialog, DialogSet
    <3> QED
      BY <2>1, <3>1 DEF Book!AddClicked
  <2>2. CASE Book!EditClicked
    <3>1. PICK i \in DOMAIN book :
            dialogs' = <<Book!Dialog("edit", i, book[i].label, book[i].address, {})>>
      BY <2>2 DEF Book!EditClicked
    <3> DEFINE d == Book!Dialog("edit", i, book[i].label, book[i].address, {})
    <3>2. book[i] \in Contacts
      BY <1>3
    <3>3. book[i].label \in Labels /\ book[i].address \in Recipients /\ i \in Nat
      BY <1>3, <3>2 DEF Contacts
    <3>4. d \in DialogSet /\ d.row = i
      BY <3>3 DEF Book!Dialog, DialogSet
    <3> QED
      BY <3>1, <3>4
  <2>3. CASE Book!DeleteClicked
    <3>1. PICK i \in DOMAIN book :
            dialogs' = <<Book!Dialog("delete", i, Nothing, Nothing, {})>>
      BY <2>3 DEF Book!DeleteClicked
    <3> DEFINE d == Book!Dialog("delete", i, Nothing, Nothing, {})
    <3>2. d \in DialogSet /\ d.row = i
      BY <1>3 DEF Book!Dialog, DialogSet
    <3> QED
      BY <3>1, <3>2
  <2>4. CASE Book!ShowPreferences
    <3> DEFINE d == Book!Options(Book!Manager, FALSE)
    <3>1. d \in DialogSet /\ d.kind \in Choices
      BY OptionsTyped
    <3>2. dialogs' = <<d>>
      BY <2>4 DEF Book!ShowPreferences
    <3> HIDE DEF d
    <3> QED
      BY <3>1, <3>2 DEF Choices
  <2> QED
    BY <2>1, <2>2, <2>3, <2>4
<1>5. Shelf'
  BY <1>1, <1>2, ShelfStays
<1>6. Dialogues'
  BY <1>2, <1>4, DialogueAlone
<1> QED
  BY <1>5, <1>6 DEF BookInv

LEMMA TypedKeeps ==
    ASSUME BookInv, Book!TypeLabel \/ Book!TypeAddress
    PROVE  BookInv'
<1>1. Shelf /\ Dialogues
  BY DEF BookInv
<1>2. dialogs # <<>> /\ Book!Top.kind \in {"add", "edit"}
  BY DEF Book!TypeLabel, Book!TypeAddress, Book!Typing
<1>3. UNCHANGED <<usable, book, donation, names, index, data, rows, twins, shadowed>>
  BY DEF Book!TypeLabel, Book!TypeAddress, Book!Typed
<1>4. /\ usable /\ Book!Top \in DialogSet /\ Len(dialogs) = 1 /\ Book!Front(dialogs) = <<>>
      /\ Book!Top = dialogs[Len(dialogs)]
  BY <1>1, <1>2, Below DEF Choices
<1>5. \A what \in {"label", "address"} : \A found \in BOOLEAN :
        Book!Clash(what, found) \in SUBSET {"label", "address"}
  BY <1>4 DEF Book!Clash, DialogSet
<1>6. \E d \in DialogSet : /\ dialogs' = <<d>> /\ d.kind = Book!Top.kind
                           /\ d.row = Book!Top.row
  <2>1. CASE Book!TypeLabel
    <3>1. PICK l \in Labels :
            dialogs' = Append(Book!Front(dialogs),
              [Book!Top EXCEPT !.label = l,
                 !.clash = Book!Clash("label", Book!FindsLabel(Book!Manager, Trim[l]))])
      BY <2>1 DEF Book!TypeLabel, Book!Typed
    <3> DEFINE c == Book!Clash("label", Book!FindsLabel(Book!Manager, Trim[l]))
               d == [Book!Top EXCEPT !.label = l, !.clash = c]
    <3>2. c \in SUBSET {"label", "address"}
      BY <1>5 DEF Book!FindsLabel
    <3> HIDE DEF c
    <3>3. d \in DialogSet /\ d.kind = Book!Top.kind /\ d.row = Book!Top.row
      BY <1>4, <3>2, BookAssumption DEF DialogSet
    <3>4. dialogs' = <<d>>
      BY <1>4, <3>1 DEF c
    <3> QED
      BY <3>3, <3>4
  <2>2. CASE Book!TypeAddress
    <3>1. PICK a \in Proper :
            dialogs' = Append(Book!Front(dialogs),
              [Book!Top EXCEPT !.address = a,
                 !.clash = Book!Clash("address", Book!FindsAddress(Book!Manager, a))])
      BY <2>2 DEF Book!TypeAddress, Book!Typed
    <3> DEFINE c == Book!Clash("address", Book!FindsAddress(Book!Manager, a))
               d == [Book!Top EXCEPT !.address = a, !.clash = c]
    <3>2. c \in SUBSET {"label", "address"}
      BY <1>5 DEF Book!FindsAddress
    <3> HIDE DEF c
    <3>3. d \in DialogSet /\ d.kind = Book!Top.kind /\ d.row = Book!Top.row
      BY <1>4, <3>2, BookAssumption DEF DialogSet
    <3>4. dialogs' = <<d>>
      BY <1>4, <3>1 DEF c
    <3> QED
      BY <3>3, <3>4
  <2> QED
    BY <2>1, <2>2
<1>7. Shelf'
  BY <1>1, <1>3, ShelfStays
<1>8. Book!Top.kind \in {"edit", "delete"} => Book!Top.row \in DOMAIN book
  <2>1. Len(dialogs) \in DOMAIN dialogs
    BY <1>1, <1>4 DEF Dialogues
  <2> QED
    BY <1>1, <1>4, <2>1 DEF Dialogues
<1>9. Dialogues'
  <2>1. usable' /\ book' = book
    BY <1>3, <1>4
  <2> QED
    BY <1>6, <1>8, <2>1, DialogueAlone
<1> QED
  BY <1>7, <1>9 DEF BookInv

LEMMA EditedPayment ==
    ASSUME NEW m \in Managers, NEW r \in DOMAIN m.book, NEW l, NEW a, NEW p, NEW d,
           NEW x, x = Book!EditAddress(m, r, l, a, p, d)
    PROVE  p \in Book!PaymentsOf(x.book)
<1> DEFINE c == Book!Item(l, a, p, d)
<1>1. x.book = [m.book EXCEPT ![r] = c]
  <2> DEFINE old == m.book[r]
             G == IF m.donation.address = old.address /\ (~d \/ old.address # a)
                  THEN Book!NoDonation ELSE m.donation
             I == [address |-> [m.index.address EXCEPT ![old.address] = Book!NoIndex, ![a] = r],
                   label |-> [m.index.label EXCEPT ![old.label] = Book!NoIndex, ![l] = r]]
  <2>1. x = [m EXCEPT !.donation = G, !.book = [m.book EXCEPT ![r] = c], !.index = I]
    BY DEF Book!EditAddress
  <2> HIDE DEF G, I, c
  <2> QED
    BY <2>1 DEF Managers
<1>2. c.payment = p
  BY DEF Book!Item
<1>3. r \in DOMAIN x.book /\ x.book[r] = c
  BY <1>1
<1> QED
  BY <1>2, <1>3 DEF Book!PaymentsOf

\* A dialog is accepted.
LEMMA AcceptKeeps ==
    ASSUME BookInv, Book!Accept \/ Book!AcceptDelete
    PROVE  BookInv'
<1>1. /\ Shelf /\ Dialogues /\ Book!Manager \in Managers
      /\ \A T : Fit(Book!Manager, shadowed \cup T)
  BY Ready DEF BookInv
<1>2. dialogs # <<>> /\ Book!Top.kind \in {"add", "edit", "delete"}
  BY DEF Book!Accept, Book!AcceptDelete, Book!Typing
<1>3. /\ usable /\ Book!Top \in DialogSet /\ Len(dialogs) = 1 /\ Book!Front(dialogs) = <<>>
      /\ Book!Top = dialogs[Len(dialogs)]
  BY <1>1, <1>2, Below DEF Choices
<1>4. Book!Top.kind \in {"edit", "delete"} => Book!Top.row \in DOMAIN book
  <2>1. Len(dialogs) \in DOMAIN dialogs
    BY <1>1, <1>3 DEF Dialogues
  <2> QED
    BY <1>1, <1>3, <2>1 DEF Dialogues
<1>5. Book!Manager.book = book
  BY DEF Book!Manager
<1>6. \E x : /\ Succeeds(x, Book!Manager, shadowed \cup Book!PaymentsOf(x.book)) /\ Book!Becomes(x, Book!Manager)
             /\ dialogs' = Book!Front(dialogs)
  <2>1. ASSUME Book!Accept
        PROVE  \E x : /\ Succeeds(x, Book!Manager, shadowed \cup Book!PaymentsOf(x.book)) /\ Book!Becomes(x, Book!Manager)
                      /\ dialogs' = Book!Front(dialogs)
    <3>1. PICK p \in Payments, d \in BOOLEAN :
            /\ Book!Top.kind \in {"add", "edit"} /\ Nothing \notin {Book!Top.label, Book!Top.address}
            /\ Book!Becomes(IF Book!Top.kind = "add"
                  THEN Book!AddAddress(Book!Manager, Book!Top.label, Book!Top.address, p, d)
                  ELSE Book!EditAddress(Book!Manager, Book!Top.row, Book!Top.label,
                                        Book!Top.address, p, d), Book!Manager)
            /\ dialogs' = Book!Front(dialogs)
      BY <2>1 DEF Book!Accept, Book!Typing
    <3>2. Book!Top.label \in Labels /\ Book!Top.address \in Recipients
      BY <1>3, <3>1 DEF DialogSet
    <3>3. CASE Book!Top.kind = "add"
      <4> DEFINE x == Book!AddAddress(Book!Manager, Book!Top.label, Book!Top.address, p, d)
      <4> DEFINE S == shadowed \cup Book!PaymentsOf(x.book)
      <4>1. Adds(x, Book!Manager, S)
        <5>1. Fit(Book!Manager, S) /\ Book!PaymentsOf(x.book) \subseteq S
          BY <1>1
        <5>2. x = Book!AddAddress(Book!Manager, Book!Top.label, Book!Top.address, p, d)
          OBVIOUS
        <5> HIDE DEF x, S
        <5> QED
          BY <3>2, <5>1, <5>2, AddSucceeds
      <4>2. Book!Becomes(x, Book!Manager)
        BY <3>1, <3>3
      <4> QED
        BY <3>1, <4>1, <4>2 DEF Adds
    <3>4. CASE Book!Top.kind = "edit"
      <4> DEFINE x == Book!EditAddress(Book!Manager, Book!Top.row, Book!Top.label,
                                       Book!Top.address, p, d)
      <4>1. Book!Top.row \in DOMAIN Book!Manager.book
        BY <1>4, <1>5, <3>4
      <4> DEFINE S == shadowed \cup Book!PaymentsOf(x.book)
      <4>2. Succeeds(x, Book!Manager, S)
        <5>1. x = Book!EditAddress(Book!Manager, Book!Top.row, Book!Top.label, Book!Top.address, p, d)
          OBVIOUS
        <5>2. p \in S
          BY <1>1, <4>1, EditedPayment
        <5>3. Fit(Book!Manager, S)
          BY <1>1
        <5> HIDE DEF x, S
        <5> QED
          BY <3>2, <4>1, <5>1, <5>2, <5>3, EditSucceeds
      <4>3. Book!Becomes(x, Book!Manager)
        BY <3>1, <3>4
      <4> QED
        BY <3>1, <4>2, <4>3
    <3> QED
      BY <3>1, <3>3, <3>4
  <2>2. ASSUME Book!AcceptDelete
        PROVE  \E x : /\ Succeeds(x, Book!Manager, shadowed \cup Book!PaymentsOf(x.book)) /\ Book!Becomes(x, Book!Manager)
                      /\ dialogs' = Book!Front(dialogs)
    <3>1. /\ Book!Top.kind = "delete" /\ dialogs' = Book!Front(dialogs)
          /\ Book!Becomes(Book!RemoveAddress(Book!Manager, Book!Top.row), Book!Manager)
      BY <2>2 DEF Book!AcceptDelete
    <3>2. Book!Top.row \in DOMAIN Book!Manager.book
      BY <1>4, <1>5, <3>1
    <3> DEFINE x == Book!RemoveAddress(Book!Manager, Book!Top.row)
    <3>3. Succeeds(x, Book!Manager, shadowed \cup Book!PaymentsOf(x.book))
      <4> DEFINE S == shadowed \cup Book!PaymentsOf(x.book)
      <4>1. Fit(Book!Manager, S) /\ x = Book!RemoveAddress(Book!Manager, Book!Top.row)
        BY <1>1
      <4> HIDE DEF S, x
      <4>2. Succeeds(x, Book!Manager, S)
        BY <3>2, <4>1, RemoveSucceeds
      <4> QED
        BY <4>2 DEF S
    <3> QED
      BY <3>1, <3>3
  <2> QED
    BY <2>1, <2>2
<1>7. Shelf' /\ usable'
  BY <1>1, <1>3, <1>6, BecomesKeeps
<1>8. Dialogues'
  BY <1>3, <1>6, <1>7 DEF Dialogues
<1> QED
  BY <1>7, <1>8 DEF BookInv

\* The options are left, and the walletOpened that waited for them goes on.
LEMMA OptionsLeft ==
    ASSUME BookInv, dialogs # <<>>, NEW m, m.book = book,
           \A T : Succeeds(m, Book!Manager, shadowed \cup T),
           Book!OptionsOver(m)
    PROVE  BookInv'
<1>1. /\ Shelf /\ Dialogues /\ m \in Managers
      /\ \A T : Fit(m, shadowed \cup T)
  BY DEF BookInv, Succeeds, Fit
<1>2. /\ usable /\ Len(dialogs) \in Nat \ {0} /\ dialogs \in Seq(DialogSet)
      /\ Book!Front(dialogs) \in Seq(DialogSet)
      /\ Len(Book!Front(dialogs)) = Len(dialogs) - 1
      /\ \A k \in 1 .. Len(dialogs) - 1 : Book!Front(dialogs)[k] = dialogs[k]
  BY <1>1, Below DEF Dialogues
<1>3. CASE Len(dialogs) > 1 /\ dialogs[Len(dialogs) - 1].kind = "opening"
  <2> DEFINE x == Book!SetDevDonation(m)
             S == shadowed \cup Book!PaymentsOf(x.book)
  <2>1. Book!Becomes(x, Book!Manager) /\ dialogs' = SubSeq(dialogs, 1, Len(dialogs) - 2)
    BY <1>3 DEF Book!OptionsOver
  <2>2. Adds(x, m, S)
    <3>1. Fit(m, S) /\ x = Book!SetDevDonation(m) /\ Book!PaymentsOf(x.book) \subseteq S
      BY <1>1
    <3> HIDE DEF x, S
    <3> QED
      BY <3>1, DevSucceeds
  <2> HIDE DEF x
  <2>3. Succeeds(x, Book!Manager, S)
    <3>1. Fit(x, S)
      BY <2>2 DEF Adds, Succeeds
    <3>2. Unique(Book!Manager, S) /\ Book!Distinct(x.book) => Unique(x, S)
      <4>1. Book!Distinct(x.book) => Book!Distinct(m.book)
        BY <2>2 DEF Adds
      <4>2. Unique(Book!Manager, S) /\ Book!Distinct(m.book) => Unique(m, S)
        BY DEF Succeeds
      <4> QED
        BY <2>2, <4>1, <4>2 DEF Adds, Succeeds
    <3> QED
      BY <3>1, <3>2 DEF Succeeds
  <2>4. Shelf' /\ usable'
    BY <1>1, <1>2, <2>1, <2>3, BecomesKeeps
  <2>5. Len(dialogs) = 2
    <3>1. Len(dialogs) - 1 \in DOMAIN dialogs
      BY <1>2, <1>3
    <3>2. ~(Len(dialogs) - 1 > 1)
      BY <1>1, <1>3, <3>1 DEF Dialogues, Choices
    <3> QED
      BY <1>2, <1>3, <3>2
  <2>6. dialogs' = <<>>
    <3>1. Len(dialogs) - 2 = 0
      BY <2>5
    <3> QED
      BY <1>2, <2>1, <3>1
  <2>7. Dialogues'
    BY <2>6 DEF Dialogues
  <2> QED
    BY <2>4, <2>7 DEF BookInv
<1>4. CASE ~(Len(dialogs) > 1 /\ dialogs[Len(dialogs) - 1].kind = "opening")
  <2>1. Book!Becomes(m, Book!Manager) /\ dialogs' = Book!Front(dialogs)
    BY <1>4 DEF Book!OptionsOver
  <2>4. Succeeds(m, Book!Manager, shadowed \cup Book!PaymentsOf(m.book))
    OBVIOUS
  <2>2. Shelf' /\ usable' /\ book' = book
    BY <1>1, <1>2, <2>1, <2>4, BecomesKeeps
  <2>3. Dialogues'
    <3> DEFINE n == Len(dialogs) - 1
    <3>1. /\ n \in 0 .. Len(dialogs) /\ dialogs' \in Seq(DialogSet) /\ Len(dialogs') = n
          /\ \A k \in 1 .. n : dialogs'[k] = dialogs[k]
      BY <1>2, <2>1
    <3>2. DOMAIN book \subseteq DOMAIN book'
      BY <2>2
    <3> HIDE DEF n
    <3> QED
      BY <1>1, <2>2, <3>1, <3>2, DialoguesShrink
  <2> QED
    BY <2>2, <2>3 DEF BookInv
<1> QED
  BY <1>3, <1>4

LEMMA OptionsKeep ==
    ASSUME BookInv, Book!AcceptOptions \/ Book!Reject
    PROVE  BookInv'
<1>1. /\ Shelf /\ Dialogues /\ \A T : Fit(Book!Manager, shadowed \cup T)
      /\ Book!Manager.book = book
      /\ Book!Manager.donation = donation
  BY Ready DEF BookInv, Book!Manager
<1>2. dialogs # <<>>
  BY DEF Book!AcceptOptions, Book!Reject
<1>3. CASE Book!AcceptOptions
  <2>1. PICK a \in Recipients \cup {Nothing}, on \in BOOLEAN :
          /\ a \in Book!Flagged(Book!Manager) \cup {donation.address}
          /\ Book!OptionsOver([Book!Manager EXCEPT !.donation = [address |-> a, enabled |-> on]])
    BY <1>3 DEF Book!AcceptOptions
  <2> DEFINE g == [address |-> a, enabled |-> on]
             x == [Book!Manager EXCEPT !.donation = g]
  <2>2. g \in Gifts /\ g.address = a
    BY DEF Gifts
  <2>3. Book!OptionsOver(x)
    BY <2>1
  <2> HIDE DEF g
  <2>4. (\A T : Succeeds(x, Book!Manager, shadowed \cup T)) /\ x.book = Book!Manager.book
    <3>1. ASSUME NEW T
          PROVE  Succeeds(x, Book!Manager, shadowed \cup T) /\ x.book = Book!Manager.book
      <4>1. Fit(Book!Manager, shadowed \cup T)
        BY <1>1
      <4> QED
        BY <1>1, <2>1, <2>2, <4>1, GiftSucceeds
    <3> QED
      BY <3>1
  <2> HIDE DEF x
  <2> QED
    BY <1>1, <1>2, <2>3, <2>4, OptionsLeft
<1>4. CASE Book!Reject /\ Book!Top.kind \in Choices
  <2>1. Book!OptionsOver(Book!Manager)
    BY <1>4 DEF Book!Reject, Choices
  <2>2. \A T : Succeeds(Book!Manager, Book!Manager, shadowed \cup T)
    BY <1>1 DEF Succeeds
  <2> QED
    BY <1>1, <1>2, <2>1, <2>2, OptionsLeft
<1>5. CASE Book!Reject /\ Book!Top.kind \notin Choices
  <2>1. /\ dialogs' = Book!Front(dialogs)
        /\ UNCHANGED <<usable, book, donation, names, index, data, rows, twins, shadowed>>
    BY <1>5 DEF Book!Reject, Choices
  <2>2. Shelf'
    BY <1>1, <2>1, ShelfStays
  <2>3. dialogs' = <<>>
    BY <1>1, <1>2, <1>5, <2>1, Below
  <2>4. Dialogues'
    BY <2>3 DEF Dialogues
  <2> QED
    BY <2>2, <2>4 DEF BookInv
<1> QED
  BY <1>3, <1>4, <1>5

LEMMA BookStep ==
    ASSUME BookInv, Book!Next \/ UNCHANGED contacts
    PROVE  BookInv'
<1>1. ASSUME UNCHANGED contacts PROVE BookInv'
  <2>1. UNCHANGED <<usable, book, donation, names, index, data, rows, twins, shadowed>> /\ UNCHANGED dialogs
    BY <1>1 DEF contacts
  <2>2. Shelf'
    BY <2>1, ShelfStays DEF BookInv
  <2>3. Dialogues'
    BY <2>1 DEF BookInv, Dialogues
  <2> QED
    BY <2>2, <2>3 DEF BookInv
<1> QED
  BY <1>1, BookOpenedKeeps, BookClosedKeeps, IdleKeeps, RequestKeeps, DialogKeeps, TypedKeeps,
     AcceptKeeps, OptionsKeep DEF Book!Next

LEMMA BookFollowed == [Next]_vars => (Book!Next \/ UNCHANGED contacts)
BY DEF Next, vars

LEMMA BookSuffices == BookInv => BookInOrder
<1> SUFFICES ASSUME BookInv PROVE BookInOrder
  OBVIOUS
<1>1. /\ Shelf /\ Fit(Book!Manager, shadowed) /\ Book!Manager \in Managers
      /\ Book!Manager.book = book /\ Book!Manager.index = index /\ Book!Manager.donation = donation
  BY DEF BookInv, Shelf, Fit, Book!Manager
<1>2. book \in Seq(Contacts)
  BY <1>1 DEF Managers
<1>3. /\ DOMAIN AddressOf(book) = DOMAIN book /\ DOMAIN LabelOf(book) = DOMAIN book
      /\ \A i \in DOMAIN book : AddressOf(book)[i] = book[i].address /\ LabelOf(book)[i] = book[i].label
  BY DEF AddressOf, LabelOf
<1>4. Book!FindsWhatWasAsked
  <2>1. Points(index.address, AddressOf(book), Shown(shadowed)) /\ Points(index.label, LabelOf(book), Labels)
    BY <1>1 DEF Fit
  <2> QED
    BY <1>3, <2>1 DEF Points, Shown, Book!FindsWhatWasAsked, Book!NoIndex
<1>5. Book!FindsAllContacts
  <2>1. ~twins => /\ Covers(index.address, AddressOf(book), Shown(shadowed))
                  /\ Covers(index.label, LabelOf(book), Labels)
    BY <1>1 DEF Shelf, Unique
  <2> QED
    <3>1. \A i \in DOMAIN book : book[i] \in Contacts
      BY <1>2
    <3>2. \A i \in DOMAIN book : book[i].address \in Recipients /\ book[i].label \in Labels
      BY <3>1 DEF Contacts
    <3> QED
      BY <1>3, <2>1, <3>2 DEF Covers, Shown, Book!FindsAllContacts
<1>6. Book!DonationIsContact
  BY <1>1 DEF Fit, Given, Book!DonationIsContact
<1>7. Book!StoredIsShown
  BY <1>1 DEF Shelf, Stored, Book!StoredIsShown
<1> QED
  BY <1>4, <1>5, <1>6, <1>7 DEF BookInOrder, Book!BookInOrder

\* What the address book finds for an address or a label is a contact that has it;
\* every contact is found while no two have one key; donations go to a contact with
\* the flag or to the development fund; and the user data hold the book on screen:
\* for every set of labels, addresses and payment IDs, and any number of dialogs.
THEOREM BookStaysInOrder == Spec => []BookInOrder
<1>1. Init => BookInv
  BY BookBegins
<1>2. BookInv /\ [Next]_vars => BookInv'
  BY BookStep, BookFollowed
<1>3. BookInv => BookInOrder
  BY BookSuffices
<1> QED
  BY <1>1, <1>2, <1>3, PTL DEF Spec
=============================================================================
