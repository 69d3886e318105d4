-------------------------- MODULE DeskLists_proofs --------------------------
(***************************************************************************)
(* Proofs about AddressCards.tla and TransactionHistory.tla, in the desk.  *)
(* Each part keeps a copy behind a queue: the cards of the wallet's        *)
(* addresses, behind the calls on the way to them; the history of its      *)
(* transactions, behind the events of the wallet and the signals read      *)
(* from them.  The types of all seven parts come last.                     *)
(***************************************************************************)
EXTENDS DeskOrder_proofs, FiniteSetTheorems

-----------------------------------------------------------------------------
(* Queues.                                                                 *)

\* An element is put behind a queue, and its first is taken.
LEMMA Appended ==
    ASSUME NEW S, NEW q \in Seq(S), NEW c \in S
    PROVE  /\ Append(q, c) \in Seq(S) /\ Len(Append(q, c)) = Len(q) + 1
           /\ \A k \in 1 .. Len(q) : Append(q, c)[k] = q[k]
           /\ Append(q, c)[Len(q) + 1] = c
OBVIOUS

LEMMA Dropped ==
    ASSUME NEW S, NEW q \in Seq(S), q # <<>>
    PROVE  /\ Tail(q) \in Seq(S) /\ Len(q) > 0 /\ Len(Tail(q)) = Len(q) - 1
           /\ \A k \in 1 .. Len(q) - 1 : Tail(q)[k] = q[k + 1]
           /\ Head(q) = q[1] /\ q[1] \in S
OBVIOUS

-----------------------------------------------------------------------------
(* The cards.                                                              *)

CardSet == [address: Addresses \cup {Nothing}, number: BOOLEAN, selected: BOOLEAN,
            can: BOOLEAN, pending: BOOLEAN]
CallSet == [what: {"opened", "balance"}]
           \cup [what: {"created"}, index: Nat, address: Addresses]
           \cup [what: {"number"}, card: Nat, address: Addresses, known: BOOLEAN]

\* What is kept of a card that is changed into x: the address and the highlight,
\* and, but for a number that came, that it waits for one.
Keeps(x, c) ==
  /\ x \in CardSet /\ x.address = c.address /\ x.selected = c.selected
  /\ c.pending => x.pending \/ x.number

LEMMA NumberedCard ==
    ASSUME NEW c \in CardSet, NEW n \in BOOLEAN
    PROVE  Keeps(Cards!Numbered(c, n), c) /\ Cards!Numbered(c, n).number = n
<1>1. /\ c.address \in Addresses \cup {Nothing} /\ c.number \in BOOLEAN
      /\ c.selected \in BOOLEAN /\ c.can \in BOOLEAN /\ c.pending \in BOOLEAN
  BY DEF CardSet
<1>2. CASE c.number = n
  BY <1>2 DEF Cards!Numbered, Keeps
<1>3. CASE c.number # n
  <2> DEFINE p == ~n /\ c.pending
             x == Cards!Numbered(c, n)
  <2>1. p \in BOOLEAN
    OBVIOUS
  <2>2. x = [c EXCEPT !.number = n, !.pending = p]
    BY <1>3 DEF Cards!Numbered
  <2>3. c.pending => p \/ n
    OBVIOUS
  <2> HIDE DEF p
  <2>4. /\ x \in CardSet /\ x.number = n /\ x.pending = p
        /\ x.address = c.address /\ x.selected = c.selected
    <3> HIDE DEF x
    <3> QED
      BY <2>1, <2>2 DEF CardSet
  <2> HIDE DEF x
  <2>5. Keeps(x, c)
    BY <2>3, <2>4 DEF Keeps
  <2> QED
    BY <2>4, <2>5 DEF x
<1> QED
  BY <1>2, <1>3

LEMMA PendingCard ==
    ASSUME NEW c \in CardSet
    PROVE  /\ Keeps(Cards!Pending(c, TRUE), c)
           /\ Cards!Pending(c, TRUE).number = c.number
           /\ Cards!Pending(c, TRUE).pending \/ c.number
<1>1. /\ c.address \in Addresses \cup {Nothing} /\ c.number \in BOOLEAN
      /\ c.selected \in BOOLEAN /\ c.can \in BOOLEAN /\ c.pending \in BOOLEAN
  BY DEF CardSet
<1>2. CASE c.pending = TRUE
  BY <1>2 DEF Cards!Pending, Keeps
<1>3. CASE c.pending # TRUE
  <2> DEFINE p == TRUE /\ ~c.number
             x == Cards!Pending(c, TRUE)
  <2>1. p \in BOOLEAN /\ (p \/ c.number) /\ ~c.pending
    BY <1>1, <1>3
  <2>2. x = [c EXCEPT !.pending = p]
    BY <1>3 DEF Cards!Pending
  <2> HIDE DEF p
  <2>4. /\ x \in CardSet /\ x.number = c.number /\ x.pending = p
        /\ x.address = c.address /\ x.selected = c.selected
    <3> HIDE DEF x
    <3> QED
      BY <2>1, <2>2 DEF CardSet
  <2> HIDE DEF x
  <2>5. Keeps(x, c)
    BY <2>1, <2>4 DEF Keeps
  <2> QED
    BY <2>1, <2>4, <2>5 DEF x
<1> QED
  BY <1>2, <1>3

LEMMA UpdatedCard ==
    ASSUME NEW c \in CardSet, NEW a \in Addresses, NEW x, x = Cards!Updated(c, a)
    PROVE  /\ x \in CardSet /\ x.address = a /\ x.selected = c.selected
           /\ c.pending => x.pending \/ x.number
           /\ x.number => c.number /\ c.address = a
<1> DEFINE y == IF c.address = a THEN c ELSE Cards!Numbered(c, FALSE)
<1>1. x = [y EXCEPT !.address = a, !.can = TRUE]
  BY DEF Cards!Updated
<1>2. Keeps(y, c) /\ (y.number => c.number /\ c.address = a)
  <2>1. CASE c.address = a
    BY <2>1 DEF Keeps
  <2>2. CASE c.address # a
    <3>1. FALSE \in BOOLEAN
      OBVIOUS
    <3>2. Keeps(Cards!Numbered(c, FALSE), c) /\ Cards!Numbered(c, FALSE).number = FALSE
      BY <3>1, NumberedCard
    <3> QED
      BY <2>2, <3>2
  <2> QED
    BY <2>1, <2>2
<1> HIDE DEF y
<1>3. y \in CardSet
  BY <1>2 DEF Keeps
<1>4. /\ x \in CardSet /\ x.address = a /\ x.selected = y.selected
      /\ x.number = y.number /\ x.pending = y.pending
  <2>1. TRUE \in BOOLEAN
    OBVIOUS
  <2> QED
    BY <1>1, <1>3, <2>1 DEF CardSet
<1> QED
  BY <1>2, <1>4 DEF Keeps

\* The sidebar shows a card for every address of the model.
CardsOf(cs, es) ==
  /\ cs \in Seq(CardSet) /\ Len(cs) = Len(es)
  /\ \A i \in 1 .. Len(cs) : cs[i].address \in {Nothing, es[i]}
Lit(cs, cur) ==
  \A i \in 1 .. Len(cs) :
    cs[i].selected => cs[i].address # Nothing /\ cs[i].address = cur.address

\* Nothing but the highlight differs.
SameCards(xs, cs) ==
  /\ xs \in Seq(CardSet) /\ Len(xs) = Len(cs)
  /\ \A i \in 1 .. Len(cs) : /\ xs[i].address = cs[i].address /\ xs[i].number = cs[i].number
                             /\ xs[i].pending = cs[i].pending

LEMMA HighlightedCard ==
    ASSUME NEW c \in CardSet, NEW s \in BOOLEAN, NEW x, x = [c EXCEPT !.selected = s]
    PROVE  /\ x \in CardSet /\ x.address = c.address /\ x.number = c.number
           /\ x.pending = c.pending /\ x.selected = s
BY DEF CardSet

LEMMA SelectedCards ==
    ASSUME NEW cs \in Seq(CardSet), NEW a, NEW cur, cur.address = a
    PROVE  SameCards(Cards!Selected(cs, a), cs) /\ Lit(Cards!Selected(cs, a), cur)
<1> DEFINE S(i) == a # Nothing /\ cs[i].address = a
           x(i) == [cs[i] EXCEPT !.selected = S(i)]
           xs == Cards!Selected(cs, a)
<1>1. xs = [i \in 1 .. Len(cs) |-> x(i)]
  BY DEF Cards!Selected
<1>2. ASSUME NEW i \in 1 .. Len(cs)
      PROVE  /\ x(i) \in CardSet /\ x(i).address = cs[i].address /\ x(i).number = cs[i].number
             /\ x(i).pending = cs[i].pending /\ (x(i).selected => S(i))
  <2>1. cs[i] \in CardSet /\ S(i) \in BOOLEAN
    OBVIOUS
  <2> HIDE DEF S
  <2> QED
    BY <2>1, HighlightedCard
<1> HIDE DEF x
<1>3. xs \in Seq(CardSet) /\ Len(xs) = Len(cs) /\ \A i \in 1 .. Len(cs) : xs[i] = x(i)
  BY <1>1, <1>2
<1> HIDE DEF xs
<1>4. SameCards(xs, cs)
  BY <1>2, <1>3 DEF SameCards
<1>5. Lit(xs, cur)
  BY <1>2, <1>3 DEF Lit
<1> QED
  BY <1>4, <1>5 DEF xs

LEMMA SameCardsOf ==
    ASSUME NEW xs, NEW cs, NEW es, SameCards(xs, cs), CardsOf(cs, es)
    PROVE  CardsOf(xs, es)
BY DEF SameCards, CardsOf

\* Whatever SetCurrent finds, the cards are lit for the address it sets.
LEMMA CurrentSet ==
    ASSUME NEW i, NEW a, NEW cs \in Seq(CardSet), Lit(cs, current), Cards!SetCurrent(i, a, cs)
    PROVE  /\ current' = [index |-> i, address |-> a]
           /\ SameCards(cards', cs) /\ Lit(cards', current')
<1>1. current' = [index |-> i, address |-> a] /\ current'.address = a
  BY DEF Cards!SetCurrent
<1>2. CASE current = [index |-> i, address |-> a]
  <2>1. current' = current /\ cards' = cs
    BY <1>2 DEF Cards!SetCurrent
  <2>2. Lit(cards', current')
    BY <2>1
  <2> QED
    BY <1>1, <2>1, <2>2 DEF SameCards
<1>3. CASE current # [index |-> i, address |-> a]
  <2>1. cards' = Cards!Selected(cs, a)
    BY <1>3 DEF Cards!SetCurrent
  <2> QED
    BY <1>1, <2>1, SelectedCards
<1> QED
  BY <1>2, <1>3

BlankCards(cs, n) == cs \in Seq(CardSet) /\ Len(cs) = n /\ \A i \in 1 .. n : cs[i] = Cards!Blank

LEMMA BlankCard == /\ Cards!Blank \in CardSet /\ Cards!Blank.address = Nothing
                   /\ Cards!Blank.number = FALSE /\ Cards!Blank.selected = FALSE
                   /\ Cards!Blank.pending = FALSE
BY DEF Cards!Blank, CardSet

LEMMA BlanksOf ==
    ASSUME NEW s, NEW n \in Nat, s \in Seq(Addresses), Len(s) = n
    PROVE  BlankCards([i \in DOMAIN s |-> Cards!Blank], n)
<1>1. DOMAIN s = 1 .. n
  OBVIOUS
<1> QED
  BY <1>1, BlankCard DEF BlankCards

-----------------------------------------------------------------------------
(* The queue.                                                              *)

Is(q, k, what) == q[k].what = what

\* The queue q between a model of n addresses and the wallet's list ls: the model
\* is empty until the one walletOpened is handled; after that the queue announces,
\* in the order of the list, what the model lacks and nothing else.
Announced(q, n, ls) ==
  /\ \A k \in 1 .. Len(q) : Is(q, k, "created") =>
       n > 0 /\ q[k].index \in n .. Len(ls) - 1 /\ ls[q[k].index + 1] = q[k].address
  /\ \A k, l \in 1 .. Len(q) :
       k < l /\ Is(q, k, "created") /\ Is(q, l, "created") => q[k].index < q[l].index
  /\ n > 0 => \A j \in n .. Len(ls) - 1 :
       \E k \in 1 .. Len(q) : Is(q, k, "created") /\ q[k].index = j
OpenedOnce(q, n, ls) ==
  /\ \A k \in 1 .. Len(q) : Is(q, k, "opened") => n = 0
  /\ \A k, l \in 1 .. Len(q) : Is(q, k, "opened") /\ Is(q, l, "opened") => k = l
  /\ n = 0 /\ Len(ls) > 0 => \E k \in 1 .. Len(q) : Is(q, k, "opened")

LEMMA CallKinds ==
    ASSUME NEW c \in CallSet
    PROVE  /\ c.what \in {"opened", "balance", "created", "number"}
           /\ c.what = "created" => c.index \in Nat /\ c.address \in Addresses
           /\ c.what = "number" => c.card \in Nat /\ c.address \in Addresses /\ c.known \in BOOLEAN
BY DEF CallSet

\* A signal that is neither of the two.
LEMMA QueueGrows ==
    ASSUME NEW q \in Seq(CallSet), NEW n \in Nat, NEW ls \in Seq(Addresses), Announced(q, n, ls),
           OpenedOnce(q, n, ls), NEW c \in CallSet, c.what \notin {"opened", "created"}
    PROVE  Announced(Append(q, c), n, ls) /\ OpenedOnce(Append(q, c), n, ls)
<1> DEFINE x == Append(q, c)
<1>1. /\ Len(x) = Len(q) + 1 /\ Len(q) \in Nat
      /\ \A k \in 1 .. Len(q) : x[k] = q[k]
      /\ x[Len(q) + 1] = c
  BY Appended
<1> HIDE DEF x
<1>2. \A k \in 1 .. Len(x) : Is(x, k, "opened") \/ Is(x, k, "created") =>
        k \in 1 .. Len(q) /\ x[k] = q[k]
  <2> SUFFICES ASSUME NEW k \in 1 .. Len(x), x[k].what = "opened" \/ x[k].what = "created"
               PROVE  k \in 1 .. Len(q) /\ x[k] = q[k]
    BY DEF Is
  <2>1. k # Len(q) + 1
    BY <1>1
  <2> QED
    BY <1>1, <2>1
<1>3. \A k \in 1 .. Len(q) : k \in 1 .. Len(x) /\ x[k] = q[k]
  BY <1>1
<1>4. Announced(x, n, ls)
  BY <1>2, <1>3 DEF Announced, Is
<1>5. OpenedOnce(x, n, ls)
  BY <1>2, <1>3 DEF OpenedOnce, Is
<1> QED
  BY <1>4, <1>5 DEF x

LEMMA QueueShrinks ==
    ASSUME NEW q \in Seq(CallSet), q # <<>>, NEW n \in Nat, NEW ls \in Seq(Addresses), Announced(q, n, ls),
           OpenedOnce(q, n, ls), Head(q).what \notin {"opened", "created"}
    PROVE  Announced(Tail(q), n, ls) /\ OpenedOnce(Tail(q), n, ls)
<1> DEFINE x == Tail(q)
<1>1. /\ Len(x) = Len(q) - 1 /\ Len(q) \in Nat /\ Len(q) > 0
      /\ \A k \in 1 .. Len(q) - 1 : x[k] = q[k + 1]
      /\ Head(q) = q[1]
  BY Dropped
<1> HIDE DEF x
<1>2. \A k \in 1 .. Len(x) : k + 1 \in 1 .. Len(q) /\ x[k] = q[k + 1]
  BY <1>1
<1>3. \A k \in 1 .. Len(q) : Is(q, k, "opened") \/ Is(q, k, "created") =>
        k - 1 \in 1 .. Len(x) /\ x[k - 1] = q[k]
  <2> SUFFICES ASSUME NEW k \in 1 .. Len(q), q[k].what = "opened" \/ q[k].what = "created"
               PROVE  k - 1 \in 1 .. Len(x) /\ x[k - 1] = q[k]
    BY DEF Is
  <2>1. k # 1
    BY <1>1 DEF Is
  <2>2. k - 1 \in 1 .. Len(q) - 1
    BY <1>1, <2>1
  <2>3. (k - 1) + 1 = k
    OBVIOUS
  <2> QED
    BY <1>1, <2>2, <2>3
<1>4. Announced(x, n, ls)
  <2>1. ASSUME NEW k \in 1 .. Len(x), Is(x, k, "created")
        PROVE  n > 0 /\ x[k].index \in n .. Len(ls) - 1 /\ ls[x[k].index + 1] = x[k].address
    <3>1. Is(q, k + 1, "created") /\ k + 1 \in 1 .. Len(q) /\ x[k] = q[k + 1]
      BY <1>2, <2>1 DEF Is
    <3> QED
      BY <3>1 DEF Announced
  <2>2. ASSUME NEW k \in 1 .. Len(x), NEW l \in 1 .. Len(x), k < l,
               Is(x, k, "created"), Is(x, l, "created")
        PROVE  x[k].index < x[l].index
    <3>1. k + 1 < l + 1 /\ Is(q, k + 1, "created") /\ Is(q, l + 1, "created")
      BY <1>2, <2>2 DEF Is
    <3> QED
      BY <1>2, <3>1 DEF Announced
  <2>3. ASSUME n > 0, NEW j \in n .. Len(ls) - 1
        PROVE  \E k \in 1 .. Len(x) : Is(x, k, "created") /\ x[k].index = j
    <3>1. PICK k \in 1 .. Len(q) : Is(q, k, "created") /\ q[k].index = j
      BY <2>3 DEF Announced
    <3>2. k - 1 \in 1 .. Len(x) /\ x[k - 1] = q[k]
      BY <1>3, <3>1
    <3> QED
      BY <3>1, <3>2 DEF Is
  <2> QED
    BY <2>1, <2>2, <2>3 DEF Announced
<1>5. OpenedOnce(x, n, ls)
  <2>1. ASSUME NEW k \in 1 .. Len(x), Is(x, k, "opened") PROVE n = 0
    BY <1>2, <2>1 DEF OpenedOnce, Is
  <2>2. ASSUME NEW k \in 1 .. Len(x), NEW l \in 1 .. Len(x), Is(x, k, "opened"), Is(x, l, "opened")
        PROVE  k = l
    <3>1. Is(q, k + 1, "opened") /\ Is(q, l + 1, "opened")
      BY <1>2, <2>2 DEF Is
    <3>2. k + 1 = l + 1
      BY <1>2, <3>1 DEF OpenedOnce
    <3> QED
      BY <3>2
  <2>3. ASSUME n = 0, Len(ls) > 0 PROVE \E k \in 1 .. Len(x) : Is(x, k, "opened")
    <3>1. PICK k \in 1 .. Len(q) : Is(q, k, "opened")
      BY <2>3 DEF OpenedOnce
    <3>2. k - 1 \in 1 .. Len(x) /\ x[k - 1] = q[k]
      BY <1>3, <3>1
    <3> QED
      BY <3>1, <3>2 DEF Is
  <2> QED
    BY <2>1, <2>2, <2>3 DEF OpenedOnce
<1> QED
  BY <1>4, <1>5 DEF x

\* addressCreated, for an address the wallet appends.
LEMMA QueueAnnounces ==
    ASSUME NEW q \in Seq(CallSet), NEW n \in Nat, n > 0, NEW ls \in Seq(Addresses), n <= Len(ls),
           Announced(q, n, ls), OpenedOnce(q, n, ls), NEW a \in Addresses,
           NEW c \in CallSet, c.what = "created", c.index = Len(ls), c.address = a
    PROVE  Announced(Append(q, c), n, Append(ls, a)) /\ OpenedOnce(Append(q, c), n, Append(ls, a))
<1> DEFINE x == Append(q, c)
           bs == Append(ls, a)
<1>1. /\ Len(x) = Len(q) + 1 /\ Len(q) \in Nat
      /\ \A k \in 1 .. Len(q) : x[k] = q[k]
      /\ x[Len(q) + 1] = c
  BY Appended
<1>0. Len(ls) \in Nat
  OBVIOUS
<1>2. /\ Len(bs) = Len(ls) + 1
      /\ \A i \in 1 .. Len(ls) : bs[i] = ls[i]
      /\ bs[Len(ls) + 1] = a
  BY Appended
<1> HIDE DEF x, bs
<1>3. Announced(x, n, bs)
  <2>1. ASSUME NEW k \in 1 .. Len(x), Is(x, k, "created")
        PROVE  n > 0 /\ x[k].index \in n .. Len(bs) - 1 /\ bs[x[k].index + 1] = x[k].address
    <3>1. CASE k \in 1 .. Len(q)
      <4>1. q[k].index \in n .. Len(ls) - 1 /\ ls[q[k].index + 1] = q[k].address
        BY <1>0, <1>1, <2>1, <3>1 DEF Announced, Is
      <4>2. q[k].index + 1 \in 1 .. Len(ls)
        BY <1>0, <4>1
      <4> QED
        BY <1>0, <1>1, <1>2, <3>1, <4>1, <4>2
    <3>2. CASE k = Len(q) + 1
      BY <1>0, <1>1, <1>2, <3>2
    <3> QED
      BY <1>0, <1>1, <3>1, <3>2
  <2>2. ASSUME NEW k \in 1 .. Len(x), NEW l \in 1 .. Len(x), k < l,
               Is(x, k, "created"), Is(x, l, "created")
        PROVE  x[k].index < x[l].index
    <3>1. k \in 1 .. Len(q) /\ Is(q, k, "created") /\ x[k] = q[k]
      BY <1>0, <1>1, <2>2 DEF Is
    <3>2. CASE l \in 1 .. Len(q)
      <4>1. Is(q, l, "created") /\ x[l] = q[l]
        BY <1>0, <1>1, <2>2, <3>2 DEF Is
      <4> QED
        BY <2>2, <3>1, <3>2, <4>1 DEF Announced
    <3>3. CASE l = Len(q) + 1
      <4>1. q[k].index \in n .. Len(ls) - 1
        BY <3>1 DEF Announced
      <4> QED
        BY <1>0, <1>1, <1>2, <3>1, <3>3, <4>1
    <3> QED
      BY <1>0, <1>1, <3>2, <3>3
  <2>3. ASSUME NEW j \in n .. Len(bs) - 1
        PROVE  \E k \in 1 .. Len(x) : Is(x, k, "created") /\ x[k].index = j
    <3>1. CASE j = Len(ls)
      BY <1>0, <1>1, <3>1 DEF Is
    <3>2. CASE j # Len(ls)
      <4>1. j \in n .. Len(ls) - 1
        BY <1>0, <1>2, <3>2
      <4>2. PICK k \in 1 .. Len(q) : Is(q, k, "created") /\ q[k].index = j
        BY <4>1 DEF Announced
      <4> QED
        BY <1>0, <1>1, <4>2 DEF Is
    <3> QED
      BY <3>1, <3>2
  <2> QED
    BY <2>1, <2>2, <2>3 DEF Announced
<1>4. OpenedOnce(x, n, bs)
  <2>1. \A k \in 1 .. Len(x) : ~Is(x, k, "opened")
    <3> SUFFICES ASSUME NEW k \in 1 .. Len(x) PROVE x[k].what # "opened"
      BY DEF Is
    <3>1. CASE k \in 1 .. Len(q)
      BY <1>0, <1>1, <3>1 DEF OpenedOnce, Is
    <3>2. CASE k = Len(q) + 1
      BY <1>0, <1>1, <3>2
    <3> QED
      BY <1>0, <1>1, <3>1, <3>2
  <2> QED
    BY <2>1 DEF OpenedOnce
<1> QED
  BY <1>3, <1>4 DEF x, bs

\* walletOpened, which fills the model.
LEMMA QueueOpens ==
    ASSUME NEW q \in Seq(CallSet), q # <<>>, NEW ls \in Seq(Addresses), Len(ls) > 0,
           NEW n \in Nat, Announced(q, n, ls), OpenedOnce(q, n, ls), Head(q).what = "opened"
    PROVE  n = 0 /\ Announced(Tail(q), Len(ls), ls) /\ OpenedOnce(Tail(q), Len(ls), ls)
<1> DEFINE x == Tail(q)
<1>1. /\ Len(x) = Len(q) - 1 /\ Len(q) \in Nat /\ Len(q) > 0
      /\ \A k \in 1 .. Len(q) - 1 : x[k] = q[k + 1]
      /\ Head(q) = q[1]
  BY Dropped
<1> HIDE DEF x
<1>0. Len(ls) \in Nat
  OBVIOUS
<1>2. n = 0 /\ Is(q, 1, "opened") /\ 1 \in 1 .. Len(q)
  BY <1>0, <1>1 DEF OpenedOnce, Is
<1>3. ASSUME NEW k \in 1 .. Len(x) PROVE ~Is(x, k, "opened") /\ ~Is(x, k, "created")
  <2>1. k + 1 \in 1 .. Len(q) /\ k + 1 # 1 /\ x[k] = q[k + 1]
    BY <1>0, <1>1
  <2>2. ~Is(q, k + 1, "opened")
    BY <1>2, <2>1 DEF OpenedOnce
  <2>3. ~Is(q, k + 1, "created")
    BY <1>2, <2>1 DEF Announced
  <2> QED
    BY <2>1, <2>2, <2>3 DEF Is
<1>4. \A j \in Len(ls) .. Len(ls) - 1 : FALSE
  BY <1>0, <1>1
<1>5. Announced(x, Len(ls), ls)
  BY <1>3, <1>4 DEF Announced
<1>6. OpenedOnce(x, Len(ls), ls)
  BY <1>3 DEF OpenedOnce
<1> QED
  BY <1>2, <1>5, <1>6 DEF x

\* The first addressCreated is for the row after the last.
LEMMA QueueCreates ==
    ASSUME NEW q \in Seq(CallSet), q # <<>>, NEW ls \in Seq(Addresses), NEW n \in Nat,
           Announced(q, n, ls), OpenedOnce(q, n, ls), Head(q).what = "created"
    PROVE  /\ n > 0 /\ Head(q).index = n /\ n < Len(ls) /\ ls[n + 1] = Head(q).address
           /\ Announced(Tail(q), n + 1, ls) /\ OpenedOnce(Tail(q), n + 1, ls)
<1> DEFINE x == Tail(q)
<1>1. /\ Len(x) = Len(q) - 1 /\ Len(q) \in Nat /\ Len(q) > 0
      /\ \A k \in 1 .. Len(q) - 1 : x[k] = q[k + 1]
      /\ Head(q) = q[1]
  BY Dropped
<1> HIDE DEF x
<1>0. Len(ls) \in Nat
  OBVIOUS
<1>2. /\ 1 \in 1 .. Len(q) /\ Is(q, 1, "created") /\ n > 0
      /\ q[1].index \in n .. Len(ls) - 1 /\ ls[q[1].index + 1] = q[1].address
  BY <1>0, <1>1 DEF Announced, Is
<1>3. n \in n .. Len(ls) - 1
  BY <1>0, <1>1, <1>2
<1>4. PICK m \in 1 .. Len(q) : Is(q, m, "created") /\ q[m].index = n
  BY <1>2, <1>3 DEF Announced
<1>5. q[1].index = n
  <2>1. CASE m = 1
    BY <1>4, <2>1
  <2>2. CASE m # 1
    <3>1. q[1].index < q[m].index
      BY <1>2, <1>4, <2>2 DEF Announced
    <3> QED
      BY <1>0, <1>2, <1>4, <3>1
  <2> QED
    BY <2>1, <2>2
<1>6. \A k \in 1 .. Len(x) : k + 1 \in 1 .. Len(q) /\ 1 < k + 1 /\ x[k] = q[k + 1]
  BY <1>0, <1>1
<1>7. Announced(x, n + 1, ls)
  <2>1. ASSUME NEW k \in 1 .. Len(x), Is(x, k, "created")
        PROVE  n + 1 > 0 /\ x[k].index \in n + 1 .. Len(ls) - 1 /\ ls[x[k].index + 1] = x[k].address
    <3>1. Is(q, k + 1, "created") /\ k + 1 \in 1 .. Len(q) /\ 1 < k + 1 /\ x[k] = q[k + 1]
      BY <1>6, <2>1 DEF Is
    <3>2. q[k + 1].index \in n .. Len(ls) - 1 /\ ls[q[k + 1].index + 1] = q[k + 1].address
      BY <3>1 DEF Announced
    <3>3. q[1].index < q[k + 1].index
      BY <1>2, <3>1 DEF Announced
    <3> QED
      BY <1>0, <1>5, <3>1, <3>2, <3>3
  <2>2. ASSUME NEW k \in 1 .. Len(x), NEW l \in 1 .. Len(x), k < l,
               Is(x, k, "created"), Is(x, l, "created")
        PROVE  x[k].index < x[l].index
    <3>1. k + 1 < l + 1 /\ Is(q, k + 1, "created") /\ Is(q, l + 1, "created")
      BY <1>6, <2>2 DEF Is
    <3> QED
      BY <1>6, <3>1 DEF Announced
  <2>3. ASSUME NEW j \in n + 1 .. Len(ls) - 1
        PROVE  \E k \in 1 .. Len(x) : Is(x, k, "created") /\ x[k].index = j
    <3>1. j \in n .. Len(ls) - 1 /\ j # n
      BY <1>0, <1>1
    <3>2. PICK k \in 1 .. Len(q) : Is(q, k, "created") /\ q[k].index = j
      BY <1>2, <3>1 DEF Announced
    <3>3. k # 1
      BY <1>0, <1>5, <3>1, <3>2
    <3>4. k - 1 \in 1 .. Len(x) /\ (k - 1) + 1 = k
      BY <1>0, <1>1, <3>3
    <3>5. x[k - 1] = q[k]
      BY <1>6, <3>4
    <3> QED
      BY <3>2, <3>4, <3>5 DEF Is
  <2> QED
    BY <2>1, <2>2, <2>3 DEF Announced
<1>8. OpenedOnce(x, n + 1, ls)
  <2>1. ASSUME NEW k \in 1 .. Len(x) PROVE ~Is(x, k, "opened")
    <3>1. ~Is(q, k + 1, "opened")
      BY <1>2, <1>6 DEF OpenedOnce
    <3> QED
      BY <1>6, <3>1 DEF Is
  <2> QED
    BY <2>1 DEF OpenedOnce
<1> QED
  BY <1>0, <1>1, <1>2, <1>5, <1>7, <1>8 DEF x

-----------------------------------------------------------------------------
(* The invariant of the addresses.                                         *)

CardsTyped ==
  /\ addrs \in Seq(Addresses) /\ entries \in Seq(Addresses) /\ calls \in Seq(CallSet)
  /\ asked \subseteq [card: Nat, address: Addresses]
  /\ current \in [index: Int, address: Addresses \cup {Nothing}]
  /\ session \in Nat /\ shut \in BOOLEAN /\ twice \in BOOLEAN /\ dialog \in Nat
  /\ import \in Addresses \cup {Nothing}
  /\ chain \in [Addresses -> {"none", "sent", "known"}]

\* The model has the first of the wallet's addresses, which differ, and the current
\* one is where the wallet has it.
Prefix(es, ls) == Len(es) <= Len(ls) /\ \A i \in 1 .. Len(es) : es[i] = ls[i]
OneEach(ls) == \A i, j \in 1 .. Len(ls) : ls[i] = ls[j] => i = j
Pointed(cur, ls) ==
  /\ cur.index \in -1 .. Len(ls) - 1
  /\ cur.address # Nothing => cur.index >= 0 /\ ls[cur.index + 1] = cur.address
CardsListed ==
  /\ CardsOf(cards, entries) /\ Lit(cards, current)
  /\ Prefix(entries, addrs) /\ OneEach(addrs) /\ Pointed(current, addrs)

CardsQueued ==
  Announced(calls, Len(entries), addrs) /\ OpenedOnce(calls, Len(entries), addrs)

CardsShut ==
  /\ shut => /\ addrs = <<>> /\ calls = <<>> /\ asked = {} /\ current = Cards!NoCurrent
             /\ dialog = 0 /\ import = Nothing
  /\ ~shut => Len(addrs) > 0

\* A number on a card, or on its way to one, is on the chain; in the first session
\* every address whose registration is not confirmed has a card that waits for it,
\* and is not the one a registration is being confirmed for.
NumbersKnown(cs, ch) ==
  \A i \in 1 .. Len(cs) : cs[i].number =>
    cs[i].address # Nothing /\ ch[cs[i].address] = "known"
AnswersKnown(q, ch) ==
  \A k \in 1 .. Len(q) : q[k].what = "number" /\ q[k].known => ch[q[k].address] = "known"
Waits(cs, es, ch) ==
  \A a \in Addresses : ch[a] = "sent" => \E i \in 1 .. Len(cs) : es[i] = a /\ cs[i].pending
CardsKnown ==
  /\ NumbersKnown(cards, chain) /\ AnswersKnown(calls, chain)
  /\ session = 0 => shut /\ ~twice /\ \A a \in Addresses : chain[a] = "none"
  /\ session = 1 => ~twice
  /\ session = 1 /\ ~shut => Waits(cards, entries, chain)
  /\ dialog # 0 => /\ dialog \in 1 .. Len(cards)
                   /\ session = 1 => chain[addrs[dialog]] # "sent"

CardsInv == CardsTyped /\ CardsListed /\ CardsQueued /\ CardsShut /\ CardsKnown

LEMMA CardsBegin == Init => CardsInv
<1> SUFFICES ASSUME Init PROVE CardsInv
  OBVIOUS
<1>1. /\ addrs = <<>> /\ calls = <<>> /\ entries = <<>> /\ cards = <<>>
      /\ current = [index |-> -1, address |-> Nothing]
      /\ session = 0 /\ shut = TRUE /\ import = Nothing
      /\ dialog = 0 /\ asked = {} /\ chain = [a \in Addresses |-> "none"]
      /\ twice = FALSE
  BY DEF Init, Cards!Init, Cards!NoCurrent
<1>2. CardsTyped
  <2>1. <<>> \in Seq(Addresses) /\ <<>> \in Seq(CallSet)
    OBVIOUS
  <2>2. TRUE \in BOOLEAN /\ FALSE \in BOOLEAN
    OBVIOUS
  <2>3. current \in [index: Int, address: Addresses \cup {Nothing}]
    BY <1>1
  <2>4. chain \in [Addresses -> {"none", "sent", "known"}]
    BY <1>1
  <2> QED
    BY <1>1, <2>1, <2>2, <2>3, <2>4 DEF CardsTyped
<1>3. CardsListed
  BY <1>1 DEF CardsListed, CardsOf, Lit, Prefix, OneEach, Pointed
<1>4. CardsQueued
  BY <1>1 DEF CardsQueued, Announced, OpenedOnce
<1>5. CardsShut
  BY <1>1 DEF CardsShut, Cards!NoCurrent
<1>6. CardsKnown
  BY <1>1 DEF CardsKnown, NumbersKnown, AnswersKnown
<1> QED
  BY <1>2, <1>3, <1>4, <1>5, <1>6 DEF CardsInv

\* A change of the highlight disturbs nothing.
LEMMA SameKnown ==
    ASSUME NEW xs, NEW cs, SameCards(xs, cs), NEW es, NEW ch
    PROVE  /\ Len(xs) = Len(cs)
           /\ NumbersKnown(cs, ch) => NumbersKnown(xs, ch)
           /\ Waits(cs, es, ch) => Waits(xs, es, ch)
<1>1. Len(xs) = Len(cs)
  BY DEF SameCards
<1>2. ASSUME NumbersKnown(cs, ch) PROVE NumbersKnown(xs, ch)
  BY <1>2 DEF SameCards, NumbersKnown
<1>3. ASSUME Waits(cs, es, ch) PROVE Waits(xs, es, ch)
  BY <1>3 DEF SameCards, Waits
<1> QED
  BY <1>1, <1>2, <1>3

LEMMA CurrentMoves ==
    ASSUME CardsInv, NEW i, NEW a, Cards!SetCurrent(i, a, cards),
           i \in -1 .. Len(addrs) - 1, a \in Addresses \cup {Nothing},
           a # Nothing => i >= 0 /\ addrs[i + 1] = a, ~shut,
           UNCHANGED <<addrs, calls, entries, session, shut, dialog, asked, chain, twice>>,
           import' \in Addresses \cup {Nothing}
    PROVE  CardsInv'
<1>1. CardsTyped /\ CardsListed /\ CardsQueued /\ CardsShut /\ CardsKnown
  BY DEF CardsInv
<1>2. cards \in Seq(CardSet) /\ Lit(cards, current)
  BY <1>1 DEF CardsListed, CardsOf
<1>3. /\ current' = [index |-> i, address |-> a]
      /\ SameCards(cards', cards) /\ Lit(cards', current')
  BY <1>2, CurrentSet
<1>4. CardsTyped'
  <2>1. i \in Int /\ Len(addrs) \in Nat
    BY <1>1 DEF CardsTyped
  <2>2. current' \in [index: Int, address: Addresses \cup {Nothing}]
    BY <1>3, <2>1
  <2> QED
    BY <1>1, <2>2 DEF CardsTyped
<1>5. CardsListed'
  <2>1. CardsOf(cards', entries)
    BY <1>1, <1>3, SameCardsOf DEF CardsListed
  <2>2. Pointed(current', addrs)
    <3>1. current'.index = i /\ current'.address = a
      BY <1>3
    <3> QED
      BY <3>1 DEF Pointed
  <2> QED
    BY <1>1, <1>3, <2>1, <2>2 DEF CardsListed
<1>6. CardsQueued'
  BY <1>1 DEF CardsQueued
<1>7. CardsShut'
  BY <1>1 DEF CardsShut
<1>8. CardsKnown'
  <2>1. /\ Len(cards') = Len(cards)
        /\ NumbersKnown(cards, chain) => NumbersKnown(cards', chain)
        /\ Waits(cards, entries, chain) => Waits(cards', entries, chain)
    BY <1>3, SameKnown
  <2> QED
    BY <1>1, <2>1 DEF CardsKnown
<1> QED
  BY <1>4, <1>5, <1>6, <1>7, <1>8 DEF CardsInv

LEMMA ClickKeeps ==
    ASSUME CardsInv, Cards!Click
    PROVE  CardsInv'
<1>1. PICK i \in DOMAIN cards :
        /\ Cards!SetCurrent(i - 1, cards[i].address, cards)
        /\ UNCHANGED <<addrs, calls, entries, session, shut, import, dialog, asked, chain, twice>>
  BY DEF Cards!Click
<1>2. ~shut
  BY DEF Cards!Click, Cards!Ready
<1>3. /\ CardsOf(cards, entries) /\ Prefix(entries, addrs) /\ addrs \in Seq(Addresses)
      /\ entries \in Seq(Addresses) /\ import \in Addresses \cup {Nothing}
  BY DEF CardsInv, CardsTyped, CardsListed
<1>4. /\ i \in 1 .. Len(entries) /\ cards[i].address \in {Nothing, entries[i]}
  BY <1>3 DEF CardsOf
<1>5. entries[i] = addrs[i] /\ Len(entries) <= Len(addrs) /\ entries[i] \in Addresses
  BY <1>3, <1>4 DEF Prefix
<1>6. Len(addrs) \in Nat /\ Len(entries) \in Nat
  BY <1>3
<1>7. i - 1 \in -1 .. Len(addrs) - 1 /\ i - 1 >= 0 /\ (i - 1) + 1 = i
  BY <1>4, <1>5, <1>6
<1> DEFINE k == i - 1
           a == cards[i].address
<1>8. a \in Addresses \cup {Nothing} /\ (a # Nothing => k >= 0 /\ addrs[k + 1] = a)
  BY <1>4, <1>5, <1>7
<1>9. Cards!SetCurrent(k, a, cards) /\ k \in -1 .. Len(addrs) - 1
  BY <1>1, <1>7
<1>10. import' \in Addresses \cup {Nothing}
  BY <1>1, <1>3
<1> HIDE DEF k, a
<1> QED
  BY <1>1, <1>2, <1>8, <1>9, <1>10, CurrentMoves

LEMMA SelectImportedKeeps ==
    ASSUME CardsInv, Cards!SelectImported
    PROVE  CardsInv'
<1>1. CardsTyped /\ CardsListed /\ CardsQueued /\ CardsShut /\ CardsKnown
  BY DEF CardsInv
<1>2. /\ import # Nothing /\ import' = Nothing
      /\ UNCHANGED <<addrs, calls, entries, session, shut, dialog, asked, chain, twice>>
  BY DEF Cards!SelectImported
<1>3. ~shut /\ import \in Addresses
  BY <1>1, <1>2 DEF CardsShut, CardsTyped
<1>4. CASE \E i \in DOMAIN entries : entries[i] = import
  <2> DEFINE k == CHOOSE i \in DOMAIN entries : entries[i] = import
             j == k - 1
  <2>1. k \in DOMAIN entries /\ entries[k] = import
    BY <1>4
  <2>2. Cards!SetCurrent(j, import, cards)
    BY <1>4 DEF Cards!SelectImported
  <2> HIDE DEF k
  <2>3. /\ entries \in Seq(Addresses) /\ addrs \in Seq(Addresses) /\ Prefix(entries, addrs)
    BY <1>1 DEF CardsTyped, CardsListed
  <2>4. k \in 1 .. Len(entries) /\ Len(entries) \in Nat /\ Len(addrs) \in Nat
    BY <2>1, <2>3
  <2>5. Len(entries) <= Len(addrs) /\ addrs[k] = import
    BY <2>1, <2>3, <2>4 DEF Prefix
  <2>6. j \in -1 .. Len(addrs) - 1 /\ j >= 0 /\ j + 1 = k
    BY <2>4, <2>5
  <2>7. import # Nothing => j >= 0 /\ addrs[j + 1] = import
    BY <2>5, <2>6
  <2> HIDE DEF j
  <2> QED
    BY <1>2, <1>3, <2>2, <2>6, <2>7, CurrentMoves
<1>5. CASE ~ \E i \in DOMAIN entries : entries[i] = import
  <2>1. UNCHANGED <<current, cards>>
    BY <1>5 DEF Cards!SelectImported
  <2>2. CardsTyped'
    BY <1>1, <1>2, <2>1 DEF CardsTyped
  <2>3. CardsListed' /\ CardsQueued' /\ CardsKnown'
    BY <1>1, <1>2, <2>1 DEF CardsListed, CardsQueued, CardsKnown
  <2>4. CardsShut'
    BY <1>1, <1>2, <1>3 DEF CardsShut
  <2> QED
    BY <2>2, <2>3, <2>4 DEF CardsInv
<1> QED
  BY <1>4, <1>5

LEMMA ShutEmpty ==
    ASSUME CardsInv, shut
    PROVE  /\ Len(addrs) = 0 /\ Len(entries) = 0 /\ Len(cards) = 0 /\ Len(calls) = 0 /\ calls = <<>>
           /\ asked = {} /\ current.index = -1 /\ current.address = Nothing /\ dialog = 0
<1>1. /\ addrs = <<>> /\ calls = <<>> /\ asked = {} /\ current = Cards!NoCurrent /\ dialog = 0
  BY DEF CardsInv, CardsShut
<1>2. entries \in Seq(Addresses) /\ Len(entries) <= Len(addrs) /\ Len(cards) = Len(entries)
  BY DEF CardsInv, CardsTyped, CardsListed, CardsOf, Prefix
<1>3. Len(addrs) = 0 /\ Len(calls) = 0
  BY <1>1
<1>4. Len(entries) = 0
  BY <1>2, <1>3
<1> QED
  BY <1>1, <1>2, <1>3, <1>4 DEF Cards!NoCurrent

LEMMA CardsOpenKeeps ==
    ASSUME CardsInv, Cards!Open
    PROVE  CardsInv'
<1>1. CardsTyped /\ CardsListed /\ CardsQueued /\ CardsShut /\ CardsKnown
  BY DEF CardsInv
<1> DEFINE c == [what |-> "opened"]
<1>2. PICK n \in 1 .. 2 : \E w \in [1 .. n -> Addresses] :
        /\ shut /\ \A i, j \in 1 .. n : w[i] = w[j] => i = j
        /\ addrs' = w /\ shut' = FALSE /\ session' = session + 1
        /\ calls' = Append(calls, c)
        /\ UNCHANGED <<entries, cards, current, import, dialog, asked, chain, twice>>
  BY DEF Cards!Open
<1>3. PICK w \in [1 .. n -> Addresses] :
        /\ shut /\ \A i, j \in 1 .. n : w[i] = w[j] => i = j
        /\ addrs' = w /\ shut' = FALSE /\ session' = session + 1
        /\ calls' = Append(calls, c)
        /\ UNCHANGED <<entries, cards, current, import, dialog, asked, chain, twice>>
  BY <1>2
<1>4. /\ Len(addrs) = 0 /\ Len(entries) = 0 /\ Len(cards) = 0 /\ Len(calls) = 0 /\ calls = <<>>
      /\ asked = {} /\ current.index = -1 /\ current.address = Nothing /\ dialog = 0
  BY <1>3, ShutEmpty
<1>5. addrs' \in Seq(Addresses) /\ Len(addrs') = n /\ n > 0
  BY <1>3
<1>6. /\ c \in CallSet /\ c.what = "opened"
  BY DEF CallSet
<1> HIDE DEF c
<1>7. /\ calls' \in Seq(CallSet) /\ Len(calls') = 1 /\ calls'[1] = c
  BY <1>3, <1>4, <1>6
<1>8. CardsTyped'
  <2>1. session' \in Nat /\ FALSE \in BOOLEAN
    BY <1>1, <1>3 DEF CardsTyped
  <2> QED
    BY <1>1, <1>3, <1>5, <1>7, <2>1 DEF CardsTyped
<1>9. CardsListed'
  <2>1. Prefix(entries, addrs')
    BY <1>4, <1>5 DEF Prefix
  <2>2. OneEach(addrs')
    BY <1>3, <1>5 DEF OneEach
  <2>3. Pointed(current, addrs')
    BY <1>4, <1>5 DEF Pointed
  <2> QED
    BY <1>1, <1>3, <2>1, <2>2, <2>3 DEF CardsListed
<1>10. CardsQueued'
  <2>1. \A k \in 1 .. Len(calls') : calls'[k].what = "opened" /\ k = 1
    BY <1>6, <1>7
  <2>2. 1 \in 1 .. Len(calls')
    BY <1>7
  <2>3. Announced(calls', 0, addrs')
    BY <2>1 DEF Announced, Is
  <2>4. OpenedOnce(calls', 0, addrs')
    BY <2>1, <2>2 DEF OpenedOnce, Is
  <2> QED
    BY <1>3, <1>4, <2>3, <2>4 DEF CardsQueued
<1>11. CardsShut'
  BY <1>3, <1>5 DEF CardsShut
<1>12. CardsKnown'
  <2>1. NumbersKnown(cards, chain) /\ session \in Nat
    BY <1>1 DEF CardsKnown, CardsTyped
  <2>2. AnswersKnown(calls', chain)
    BY <1>6, <1>7 DEF AnswersKnown
  <2>3. session' # 0
    BY <1>3, <2>1
  <2>4. ASSUME session' = 1 PROVE ~twice /\ Waits(cards, entries, chain)
    <3>1. session = 0
      BY <1>3, <2>1, <2>4
    <3>2. ~twice /\ \A a \in Addresses : chain[a] = "none"
      BY <1>1, <3>1 DEF CardsKnown
    <3> QED
      BY <3>2 DEF Waits
  <2> QED
    BY <1>3, <1>4, <2>1, <2>2, <2>3, <2>4 DEF CardsKnown
<1> QED
  BY <1>8, <1>9, <1>10, <1>11, <1>12 DEF CardsInv

LEMMA CardsCloseKeeps ==
    ASSUME CardsInv, Cards!Close
    PROVE  CardsInv'
<1>1. CardsTyped /\ CardsListed /\ CardsQueued /\ CardsShut /\ CardsKnown
  BY DEF CardsInv
<1>2. /\ ~shut /\ dialog = 0 /\ import = Nothing
      /\ addrs' = <<>> /\ shut' = TRUE
      /\ entries' = <<>> /\ cards' = <<>> /\ current' = [index |-> -1, address |-> Nothing]
      /\ calls' = <<>> /\ asked' = {}
      /\ UNCHANGED <<session, import, dialog, chain, twice>>
  BY DEF Cards!Close, Cards!Ready, Cards!NoCurrent
<1>3. CardsTyped'
  <2>1. <<>> \in Seq(Addresses) /\ <<>> \in Seq(CallSet)
    OBVIOUS
  <2>2. TRUE \in BOOLEAN
    OBVIOUS
  <2>3. current' \in [index: Int, address: Addresses \cup {Nothing}]
    BY <1>2
  <2> QED
    BY <1>1, <1>2, <2>1, <2>2, <2>3 DEF CardsTyped
<1>4. CardsListed'
  BY <1>2 DEF CardsListed, CardsOf, Lit, Prefix, OneEach, Pointed
<1>5. CardsQueued'
  BY <1>2 DEF CardsQueued, Announced, OpenedOnce
<1>6. CardsShut'
  BY <1>2 DEF CardsShut, Cards!NoCurrent
<1>7. CardsKnown'
  <2>1. NumbersKnown(cards', chain') /\ AnswersKnown(calls', chain')
    BY <1>2 DEF NumbersKnown, AnswersKnown
  <2>2. session' # 0 /\ (session' = 1 => ~twice') /\ dialog' = 0 /\ shut'
    BY <1>1, <1>2 DEF CardsKnown
  <2> QED
    BY <2>1, <2>2 DEF CardsKnown
<1> QED
  BY <1>3, <1>4, <1>5, <1>6, <1>7 DEF CardsInv

\* A new address is announced.
LEMMA NewKeeps ==
    ASSUME CardsInv, NEW a, Cards!New(a), Cards!Ready, import' \in Addresses \cup {Nothing},
           UNCHANGED <<entries, cards, current, session, shut, dialog, asked, chain, twice>>
    PROVE  CardsInv'
<1>1. CardsTyped /\ CardsListed /\ CardsQueued /\ CardsShut /\ CardsKnown
  BY DEF CardsInv
<1> DEFINE c == [what |-> "created", index |-> Len(addrs), address |-> a]
<1>2. /\ a \in Addresses /\ \A i \in DOMAIN addrs : addrs[i] # a
      /\ addrs' = Append(addrs, a) /\ calls' = Append(calls, c)
  BY DEF Cards!New, Cards!Emit
<1>3. ~shut /\ entries # <<>> /\ dialog = 0
  BY DEF Cards!Ready
<1>4. /\ addrs \in Seq(Addresses) /\ entries \in Seq(Addresses) /\ calls \in Seq(CallSet)
      /\ Len(entries) <= Len(addrs)
  BY <1>1 DEF CardsTyped, CardsListed, Prefix
<1>5. Len(addrs) \in Nat /\ Len(entries) \in Nat /\ Len(entries) > 0 /\ DOMAIN addrs = 1 .. Len(addrs)
  BY <1>3, <1>4
<1>6. c \in CallSet /\ c.what = "created" /\ c.index = Len(addrs) /\ c.address = a
  BY <1>2, <1>5 DEF CallSet
<1> HIDE DEF c
<1>7. /\ addrs' \in Seq(Addresses) /\ Len(addrs') = Len(addrs) + 1
      /\ \A i \in 1 .. Len(addrs) : addrs'[i] = addrs[i]
      /\ addrs'[Len(addrs) + 1] = a
  BY <1>2, <1>4, Appended
<1>8. /\ calls' \in Seq(CallSet) /\ Len(calls') = Len(calls) + 1 /\ Len(calls) \in Nat
      /\ \A k \in 1 .. Len(calls) : calls'[k] = calls[k]
      /\ calls'[Len(calls) + 1] = c
  BY <1>2, <1>4, <1>6, Appended
<1>9. CardsTyped'
  BY <1>1, <1>7, <1>8 DEF CardsTyped
<1>10. CardsListed'
  <2>1. Prefix(entries, addrs')
    BY <1>1, <1>5, <1>7 DEF CardsListed, Prefix
  <2>2. OneEach(addrs')
    BY <1>1, <1>2, <1>5, <1>7 DEF CardsListed, OneEach
  <2>3. Pointed(current, addrs')
    <3>1. Pointed(current, addrs) /\ current.index \in Int
      BY <1>1 DEF CardsListed, CardsTyped
    <3>2. current.index \in -1 .. Len(addrs') - 1
      BY <1>5, <1>7, <3>1 DEF Pointed
    <3>3. ASSUME current.address # Nothing
          PROVE  current.index >= 0 /\ addrs'[current.index + 1] = current.address
      <4>1. current.index >= 0 /\ current.index + 1 \in 1 .. Len(addrs)
            /\ addrs[current.index + 1] = current.address
        BY <1>5, <3>1, <3>3 DEF Pointed
      <4> QED
        BY <1>7, <4>1
    <3> QED
      BY <3>2, <3>3 DEF Pointed
  <2> QED
    BY <1>1, <2>1, <2>2, <2>3 DEF CardsListed
<1>11. CardsQueued'
  <2>1. Announced(calls, Len(entries), addrs) /\ OpenedOnce(calls, Len(entries), addrs)
    BY <1>1 DEF CardsQueued
  <2>2. Announced(Append(calls, c), Len(entries), Append(addrs, a))
        /\ OpenedOnce(Append(calls, c), Len(entries), Append(addrs, a))
    BY <1>2, <1>4, <1>5, <1>6, <2>1, QueueAnnounces
  <2> QED
    BY <1>2, <2>2 DEF CardsQueued
<1>12. CardsShut'
  BY <1>3, <1>5, <1>7 DEF CardsShut
<1>13. CardsKnown'
  <2>1. AnswersKnown(calls', chain)
    <3> SUFFICES ASSUME NEW k \in 1 .. Len(calls'), calls'[k].what = "number", calls'[k].known
                 PROVE  chain[calls'[k].address] = "known"
      BY DEF AnswersKnown
    <3>1. k # Len(calls) + 1
      BY <1>6, <1>8
    <3>2. k \in 1 .. Len(calls) /\ calls'[k] = calls[k]
      BY <1>8, <3>1
    <3> QED
      BY <1>1, <3>2 DEF CardsKnown, AnswersKnown
  <2> QED
    BY <1>1, <1>3, <2>1 DEF CardsKnown
<1> QED
  BY <1>9, <1>10, <1>11, <1>12, <1>13 DEF CardsInv

LEMMA CreateKeeps ==
    ASSUME CardsInv, Cards!CreateAddress \/ Cards!ImportAddress
    PROVE  CardsInv'
<1>1. CASE Cards!CreateAddress
  <2>1. PICK a \in Addresses : Cards!New(a)
    BY <1>1 DEF Cards!CreateAddress
  <2>2. /\ Cards!Ready
        /\ UNCHANGED <<entries, cards, current, session, shut, import, dialog, asked, chain, twice>>
    BY <1>1 DEF Cards!CreateAddress
  <2>3. import' \in Addresses \cup {Nothing}
    BY <2>2 DEF CardsInv, CardsTyped
  <2> QED
    BY <2>1, <2>2, <2>3, NewKeeps
<1>2. CASE Cards!ImportAddress
  <2>1. PICK a \in Addresses : Cards!New(a) /\ import' = a
    BY <1>2 DEF Cards!ImportAddress
  <2>2. /\ Cards!Ready
        /\ UNCHANGED <<entries, cards, current, session, shut, dialog, asked, chain, twice>>
    BY <1>2 DEF Cards!ImportAddress
  <2> QED
    BY <2>1, <2>2, NewKeeps
<1> QED
  BY <1>1, <1>2

\* A signal about money, or an answer of the node.
LEMMA SignalKeeps ==
    ASSUME CardsInv, NEW c \in CallSet, calls' = Append(calls, c), ~shut,
           c.what \in {"balance", "number"},
           c.what = "number" /\ c.known => chain[c.address] = "known",
           asked' \subseteq asked,
           UNCHANGED <<addrs, entries, cards, current, session, shut, import, dialog, chain, twice>>
    PROVE  CardsInv'
<1>1. CardsTyped /\ CardsListed /\ CardsQueued /\ CardsShut /\ CardsKnown
  BY DEF CardsInv
<1>2. calls \in Seq(CallSet) /\ addrs \in Seq(Addresses) /\ Len(entries) \in Nat
  BY <1>1 DEF CardsTyped
<1>3. /\ calls' \in Seq(CallSet) /\ Len(calls') = Len(calls) + 1 /\ Len(calls) \in Nat
      /\ \A k \in 1 .. Len(calls) : calls'[k] = calls[k]
      /\ calls'[Len(calls) + 1] = c
  BY <1>2, Appended
<1>4. CardsTyped'
  BY <1>1, <1>3 DEF CardsTyped
<1>5. CardsListed'
  BY <1>1 DEF CardsListed
<1>6. CardsQueued'
  <2>1. Announced(calls, Len(entries), addrs) /\ OpenedOnce(calls, Len(entries), addrs)
    BY <1>1 DEF CardsQueued
  <2>2. Announced(Append(calls, c), Len(entries), addrs)
        /\ OpenedOnce(Append(calls, c), Len(entries), addrs)
    BY <1>2, <2>1, QueueGrows
  <2> QED
    BY <2>2 DEF CardsQueued
<1>7. CardsShut'
  BY <1>1 DEF CardsShut
<1>8. CardsKnown'
  <2>1. AnswersKnown(calls', chain)
    <3> SUFFICES ASSUME NEW k \in 1 .. Len(calls'), calls'[k].what = "number", calls'[k].known
                 PROVE  chain[calls'[k].address] = "known"
      BY DEF AnswersKnown
    <3>1. CASE k \in 1 .. Len(calls)
      BY <1>1, <1>3, <3>1 DEF CardsKnown, AnswersKnown
    <3>2. CASE k = Len(calls) + 1
      BY <1>3, <3>2
    <3> QED
      BY <1>3, <3>1, <3>2
  <2> QED
    BY <1>1, <2>1 DEF CardsKnown
<1> QED
  BY <1>4, <1>5, <1>6, <1>7, <1>8 DEF CardsInv

LEMMA MoneyKeeps ==
    ASSUME CardsInv, Cards!Money
    PROVE  CardsInv'
<1> DEFINE c == [what |-> "balance"]
<1>1. /\ ~shut /\ calls' = Append(calls, c)
      /\ UNCHANGED <<addrs, entries, cards, current, session, shut, import, dialog, asked, chain, twice>>
  BY DEF Cards!Money, Cards!Emit
<1>2. c \in CallSet /\ c.what = "balance"
  BY DEF CallSet
<1> HIDE DEF c
<1> QED
  BY <1>1, <1>2, SignalKeeps

LEMMA AnswerKeeps ==
    ASSUME CardsInv, Cards!Answer
    PROVE  CardsInv'
<1>1. PICK q \in asked, fails \in BOOLEAN :
        /\ asked' = asked \ {q}
        /\ calls' = Append(calls, [what |-> "number", card |-> q.card, address |-> q.address,
                                   known |-> ~fails /\ chain[q.address] = "known"])
        /\ UNCHANGED <<addrs, entries, cards, current, session, shut, import, dialog, chain, twice>>
  BY DEF Cards!Answer
<1> DEFINE n == ~fails /\ chain[q.address] = "known"
           c == [what |-> "number", card |-> q.card, address |-> q.address, known |-> n]
<1>2. q.card \in Nat /\ q.address \in Addresses
  BY DEF CardsInv, CardsTyped
<1>3. n \in BOOLEAN /\ (n => chain[q.address] = "known")
  OBVIOUS
<1>4. calls' = Append(calls, c)
  BY <1>1
<1> HIDE DEF n
<1>5. c \in CallSet /\ c.what = "number" /\ c.known = n /\ c.address = q.address
  BY <1>2, <1>3 DEF CallSet
<1> HIDE DEF c
<1>6. ~shut
  BY ShutEmpty
<1>7. c.what = "number" /\ c.known => chain[c.address] = "known"
  BY <1>3, <1>5
<1>8. asked' \subseteq asked
  BY <1>1
<1>9. c.what \in {"balance", "number"} /\ c \in CallSet
  BY <1>5
<1> QED
  BY <1>1, <1>4, <1>6, <1>7, <1>8, <1>9, SignalKeeps

\* The handling of a signal that is neither walletOpened nor addressCreated.
LEMMA SlotKeeps ==
    ASSUME CardsInv, calls # <<>>, calls' = Tail(calls), Head(calls).what \notin {"opened", "created"},
           CardsOf(cards', entries), Lit(cards', current), NumbersKnown(cards', chain),
           session = 1 /\ ~shut => Waits(cards', entries, chain),
           asked' \subseteq [card: Nat, address: Addresses],
           UNCHANGED <<addrs, entries, current, session, shut, import, dialog, chain, twice>>
    PROVE  CardsInv'
<1>1. CardsTyped /\ CardsListed /\ CardsQueued /\ CardsShut /\ CardsKnown
  BY DEF CardsInv
<1>2. calls \in Seq(CallSet) /\ addrs \in Seq(Addresses) /\ Len(entries) \in Nat
  BY <1>1 DEF CardsTyped
<1>3. /\ calls' \in Seq(CallSet) /\ Len(calls') = Len(calls) - 1 /\ Len(calls) \in Nat
      /\ \A k \in 1 .. Len(calls) - 1 : calls'[k] = calls[k + 1]
  BY <1>2, Dropped
<1>4. CardsTyped'
  BY <1>1, <1>3 DEF CardsTyped
<1>5. CardsListed'
  BY <1>1 DEF CardsListed
<1>6. CardsQueued'
  <2>1. Announced(calls, Len(entries), addrs) /\ OpenedOnce(calls, Len(entries), addrs)
    BY <1>1 DEF CardsQueued
  <2>2. Announced(Tail(calls), Len(entries), addrs) /\ OpenedOnce(Tail(calls), Len(entries), addrs)
    BY <1>2, <2>1, QueueShrinks
  <2> QED
    BY <2>2 DEF CardsQueued
<1>7. ~shut
  BY ShutEmpty
<1>8. CardsShut'
  BY <1>1, <1>7 DEF CardsShut
<1>9. CardsKnown'
  <2>1. AnswersKnown(calls', chain)
    <3> SUFFICES ASSUME NEW k \in 1 .. Len(calls'), calls'[k].what = "number", calls'[k].known
                 PROVE  chain[calls'[k].address] = "known"
      BY DEF AnswersKnown
    <3>1. k + 1 \in 1 .. Len(calls) /\ calls'[k] = calls[k + 1]
      BY <1>3
    <3> QED
      BY <1>1, <3>1 DEF CardsKnown, AnswersKnown
  <2>2. Len(cards') = Len(cards)
    BY <1>1 DEF CardsListed, CardsOf
  <2> QED
    BY <1>1, <1>7, <2>1, <2>2 DEF CardsKnown
<1> QED
  BY <1>4, <1>5, <1>6, <1>8, <1>9 DEF CardsInv

LEMMA AnswerHeard ==
    ASSUME CardsInv, Cards!OnNumber
    PROVE  CardsInv'
<1>1. CardsTyped /\ CardsListed /\ CardsQueued /\ CardsShut /\ CardsKnown
  BY DEF CardsInv
<1> DEFINE r == Head(calls)
<1>2. /\ calls # <<>> /\ r.what = "number" /\ calls' = Tail(calls)
      /\ cards' = IF r.card \in DOMAIN cards /\ cards[r.card].address = r.address
                  THEN [cards EXCEPT ![r.card] = Cards!Numbered(cards[r.card], r.known)]
                  ELSE cards
      /\ UNCHANGED <<addrs, entries, current, session, shut, import, dialog, asked, chain, twice>>
  BY DEF Cards!OnNumber, Cards!Slot
<1>3. calls \in Seq(CallSet)
  BY <1>1 DEF CardsTyped
<1>4. /\ Head(calls) = calls[1] /\ calls[1] \in CallSet /\ Len(calls) > 0 /\ Len(calls) \in Nat
  BY <1>2, <1>3, Dropped
<1>5. /\ r.card \in Nat /\ r.address \in Addresses /\ r.known \in BOOLEAN
      /\ r.known => chain[r.address] = "known"
  <2>1. 1 \in 1 .. Len(calls)
    BY <1>4
  <2>2. r = calls[1]
    BY <1>4
  <2> HIDE DEF r
  <2>3. r.card \in Nat /\ r.address \in Addresses /\ r.known \in BOOLEAN
    BY <1>2, <1>4, <2>2, CallKinds
  <2>4. r.known => chain[r.address] = "known"
    BY <1>1, <1>2, <2>1, <2>2 DEF CardsKnown, AnswersKnown
  <2> QED
    BY <2>3, <2>4
<1> HIDE DEF r
<1>6. /\ CardsOf(cards, entries) /\ Lit(cards, current) /\ NumbersKnown(cards, chain)
      /\ session = 1 /\ ~shut => Waits(cards, entries, chain)
      /\ asked' \subseteq [card: Nat, address: Addresses]
  BY <1>1, <1>2 DEF CardsTyped, CardsListed, CardsKnown
<1>7. calls # <<>> /\ calls' = Tail(calls) /\ Head(calls).what \notin {"opened", "created"}
  BY <1>2 DEF r
<1>8. CASE ~(r.card \in DOMAIN cards /\ cards[r.card].address = r.address)
  <2>1. cards' = cards
    BY <1>2, <1>8
  <2> QED
    BY <1>2, <1>6, <1>7, <2>1, SlotKeeps
<1>9. CASE r.card \in DOMAIN cards /\ cards[r.card].address = r.address
  <2> DEFINE i == r.card
             x == Cards!Numbered(cards[i], r.known)
  <2>1. cards' = [cards EXCEPT ![i] = x]
    BY <1>2, <1>9
  <2>2. cards \in Seq(CardSet) /\ i \in 1 .. Len(cards) /\ cards[i] \in CardSet
        /\ cards[i].address = r.address
    BY <1>6, <1>9 DEF CardsOf
  <2>3. Keeps(x, cards[i]) /\ x.number = r.known
    BY <1>5, <2>2, NumberedCard
  <2>4. x \in CardSet /\ x.address = cards[i].address /\ x.selected = cards[i].selected
        /\ (cards[i].pending => x.pending \/ x.number)
    BY <2>3 DEF Keeps
  <2> HIDE DEF x, i
  <2>5. /\ cards' \in Seq(CardSet) /\ Len(cards') = Len(cards) /\ cards'[i] = x
        /\ \A k \in 1 .. Len(cards) : k # i => cards'[k] = cards[k]
    BY <2>1, <2>2, <2>4
  <2>6. CardsOf(cards', entries)
    BY <1>6, <2>2, <2>4, <2>5 DEF CardsOf
  <2>7. Lit(cards', current)
    BY <1>6, <2>2, <2>4, <2>5 DEF Lit
  <2>8. NumbersKnown(cards', chain)
    <3> SUFFICES ASSUME NEW k \in 1 .. Len(cards), cards'[k].number
                 PROVE  cards'[k].address # Nothing /\ chain[cards'[k].address] = "known"
      BY <2>5 DEF NumbersKnown
    <3>1. CASE k = i
      BY <1>5, <2>2, <2>3, <2>4, <2>5, <3>1, CardsAssumption
    <3>2. CASE k # i
      BY <1>6, <2>5, <3>2 DEF NumbersKnown
    <3> QED
      BY <3>1, <3>2
  <2>9. ASSUME session = 1 /\ ~shut PROVE Waits(cards', entries, chain)
    <3> SUFFICES ASSUME NEW a \in Addresses, chain[a] = "sent"
                 PROVE  \E k \in 1 .. Len(cards') : entries[k] = a /\ cards'[k].pending
      BY DEF Waits
    <3>1. PICK k \in 1 .. Len(cards) : entries[k] = a /\ cards[k].pending
      BY <1>6, <2>9 DEF Waits
    <3>2. CASE k # i
      BY <2>5, <3>1, <3>2
    <3>3. CASE k = i
      <4>1. cards[i].address = a
        BY <1>5, <1>6, <2>2, <3>1, <3>3, CardsAssumption DEF CardsOf
      <4>2. ~r.known
        BY <1>5, <2>2, <4>1
      <4>3. x.pending
        BY <2>3, <2>4, <3>1, <3>3, <4>2
      <4> QED
        BY <2>5, <3>1, <3>3, <4>3
    <3> QED
      BY <3>2, <3>3
  <2> QED
    BY <1>2, <1>6, <1>7, <2>6, <2>7, <2>8, <2>9, SlotKeeps
<1> QED
  BY <1>8, <1>9

LEMMA BalanceHeard ==
    ASSUME CardsInv, Cards!OnBalance
    PROVE  CardsInv'
<1>1. CardsTyped /\ CardsListed /\ CardsQueued /\ CardsShut /\ CardsKnown
  BY DEF CardsInv
<1>2. /\ calls # <<>> /\ Head(calls).what = "balance" /\ calls' = Tail(calls)
      /\ IF shut \/ entries = <<>> THEN UNCHANGED <<cards, asked>>
         ELSE cards' = Cards!Refreshed /\ asked' = asked \cup Cards!Queries(cards')
      /\ UNCHANGED <<addrs, entries, current, session, shut, import, dialog, chain, twice>>
  BY DEF Cards!OnBalance, Cards!Slot
<1>3. /\ CardsOf(cards, entries) /\ Lit(cards, current) /\ NumbersKnown(cards, chain)
      /\ session = 1 /\ ~shut => Waits(cards, entries, chain)
      /\ asked \subseteq [card: Nat, address: Addresses] /\ entries \in Seq(Addresses)
  BY <1>1 DEF CardsTyped, CardsListed, CardsKnown
<1>4. Head(calls).what \notin {"opened", "created"}
  BY <1>2
<1>5. CASE shut \/ entries = <<>>
  <2>1. UNCHANGED <<cards, asked>>
    BY <1>2, <1>5
  <2> QED
    BY <1>2, <1>3, <1>4, <2>1, SlotKeeps
<1>6. CASE ~(shut \/ entries = <<>>)
  <2> DEFINE x(i) == Cards!Updated(cards[i], entries[i])
  <2>1. cards \in Seq(CardSet) /\ Len(cards) = Len(entries) /\ Len(cards) \in Nat
    BY <1>3 DEF CardsOf
  <2>2. cards' = [i \in 1 .. Len(cards) |-> x(i)]
    <3>1. DOMAIN cards = 1 .. Len(cards) /\ \A i \in 1 .. Len(cards) : i <= Len(entries)
      BY <2>1
    <3>2. cards' = Cards!Refreshed
      BY <1>2, <1>6
    <3> QED
      BY <3>1, <3>2 DEF Cards!Refreshed
  <2>3. ASSUME NEW i \in 1 .. Len(cards)
        PROVE  /\ x(i) \in CardSet /\ x(i).address = entries[i] /\ x(i).selected = cards[i].selected
               /\ cards[i].pending => x(i).pending \/ x(i).number
               /\ x(i).number => cards[i].number /\ cards[i].address = entries[i]
    <3>1. cards[i] \in CardSet /\ entries[i] \in Addresses
      BY <1>3, <2>1
    <3> QED
      BY <3>1, UpdatedCard
  <2> HIDE DEF x
  <2>4. /\ cards' \in Seq(CardSet) /\ Len(cards') = Len(cards)
        /\ \A i \in 1 .. Len(cards) : cards'[i] = x(i)
    BY <2>1, <2>2, <2>3
  <2>5. CardsOf(cards', entries)
    BY <2>1, <2>3, <2>4 DEF CardsOf
  <2>6. Lit(cards', current)
    <3> SUFFICES ASSUME NEW i \in 1 .. Len(cards), cards'[i].selected
                 PROVE  cards'[i].address # Nothing /\ cards'[i].address = current.address
      BY <2>4 DEF Lit
    <3>1. cards[i].selected /\ cards'[i].address = entries[i]
      BY <2>3, <2>4
    <3>2. cards[i].address # Nothing /\ cards[i].address = current.address
      BY <1>3, <3>1 DEF Lit
    <3>3. cards[i].address = entries[i]
      BY <1>3, <3>2 DEF CardsOf
    <3> QED
      BY <3>1, <3>2, <3>3
  <2>7. NumbersKnown(cards', chain)
    <3> SUFFICES ASSUME NEW i \in 1 .. Len(cards), cards'[i].number
                 PROVE  cards'[i].address # Nothing /\ chain[cards'[i].address] = "known"
      BY <2>4 DEF NumbersKnown
    <3>1. cards[i].number /\ cards'[i].address = cards[i].address
      BY <2>3, <2>4
    <3> QED
      BY <1>3, <3>1 DEF NumbersKnown
  <2>8. ASSUME session = 1 /\ ~shut PROVE Waits(cards', entries, chain)
    <3> SUFFICES ASSUME NEW a \in Addresses, chain[a] = "sent"
                 PROVE  \E k \in 1 .. Len(cards') : entries[k] = a /\ cards'[k].pending
      BY DEF Waits
    <3>1. PICK k \in 1 .. Len(cards) : entries[k] = a /\ cards[k].pending
      BY <1>3, <2>8 DEF Waits
    <3>2. x(k).pending \/ x(k).number
      BY <2>3, <3>1
    <3>3. CASE x(k).number
      <4>1. cards[k].number /\ cards[k].address = a
        BY <2>3, <3>1, <3>3
      <4>2. chain[a] = "known"
        BY <1>3, <4>1 DEF NumbersKnown
      <4> QED
        BY <4>2
    <3>4. CASE x(k).pending
      BY <2>4, <3>1, <3>4
    <3> QED
      BY <3>2, <3>3, <3>4
  <2>9. asked' \subseteq [card: Nat, address: Addresses]
    <3>1. asked' = asked \cup Cards!Queries(cards')
      BY <1>2, <1>6
    <3>2. ASSUME NEW j \in DOMAIN cards', cards'[j].address # Nothing
          PROVE  [card |-> j, address |-> cards'[j].address] \in [card: Nat, address: Addresses]
      <4>1. j \in 1 .. Len(cards) /\ cards'[j] = x(j)
        BY <2>4
      <4>2. cards'[j].address = entries[j] /\ entries[j] \in Addresses /\ j \in Nat
        BY <1>3, <2>1, <2>3, <4>1
      <4> QED
        BY <4>2
    <3>3. Cards!Queries(cards') \subseteq [card: Nat, address: Addresses]
      BY <3>2 DEF Cards!Queries
    <3> QED
      BY <1>3, <3>1, <3>3
  <2> QED
    BY <1>2, <1>4, <2>5, <2>6, <2>7, <2>8, <2>9, SlotKeeps
<1> QED
  BY <1>5, <1>6

LEMMA OpenedHeard ==
    ASSUME CardsInv, Cards!OnOpened
    PROVE  CardsInv'
<1>1. CardsTyped /\ CardsListed /\ CardsQueued /\ CardsShut /\ CardsKnown
  BY DEF CardsInv
<1> DEFINE bs == [i \in DOMAIN addrs |-> Cards!Blank]
<1>2. /\ calls # <<>> /\ Head(calls).what = "opened" /\ calls' = Tail(calls)
      /\ entries' = addrs
      /\ IF current.address = Nothing THEN Cards!SetCurrent(0, addrs[1], bs)
         ELSE current' = current /\ cards' = Cards!Selected(bs, current.address)
      /\ UNCHANGED <<addrs, session, shut, import, dialog, asked, chain, twice>>
  BY DEF Cards!OnOpened, Cards!Slot
<1>3. ~shut
  BY <1>2, ShutEmpty
<1>4. /\ addrs \in Seq(Addresses) /\ entries \in Seq(Addresses) /\ calls \in Seq(CallSet)
      /\ Len(addrs) \in Nat /\ Len(addrs) > 0 /\ Len(entries) \in Nat
  BY <1>1, <1>3 DEF CardsTyped, CardsShut
<1>5. BlankCards(bs, Len(addrs))
  BY <1>4, BlanksOf
<1> HIDE DEF bs
<1>6. bs \in Seq(CardSet) /\ Len(bs) = Len(addrs) /\ \A i \in 1 .. Len(addrs) : bs[i] = Cards!Blank
  BY <1>5 DEF BlankCards
<1>7. CardsOf(bs, addrs) /\ NumbersKnown(bs, chain) /\ Lit(bs, current)
  BY <1>6, BlankCard DEF CardsOf, NumbersKnown, Lit
<1>8. /\ SameCards(cards', bs) /\ Lit(cards', current')
      /\ current' = current \/ current' = [index |-> 0, address |-> addrs[1]]
  <2>1. CASE current.address = Nothing
    <3>1. Cards!SetCurrent(0, addrs[1], bs)
      BY <1>2, <2>1
    <3> QED
      BY <1>6, <1>7, <3>1, CurrentSet
  <2>2. CASE current.address # Nothing
    <3>1. current' = current /\ cards' = Cards!Selected(bs, current.address)
      BY <1>2, <2>2
    <3>2. SameCards(Cards!Selected(bs, current.address), bs)
          /\ Lit(Cards!Selected(bs, current.address), current)
      BY <1>6, SelectedCards
    <3> QED
      BY <3>1, <3>2
  <2> QED
    BY <2>1, <2>2
<1>9. /\ Len(entries) = 0 /\ Announced(calls', Len(addrs), addrs) /\ OpenedOnce(calls', Len(addrs), addrs)
  <2>1. Announced(calls, Len(entries), addrs) /\ OpenedOnce(calls, Len(entries), addrs)
    BY <1>1 DEF CardsQueued
  <2> QED
    BY <1>2, <1>4, <2>1, QueueOpens
<1>10. /\ calls' \in Seq(CallSet) /\ Len(calls') = Len(calls) - 1 /\ Len(calls) \in Nat
       /\ \A k \in 1 .. Len(calls) - 1 : calls'[k] = calls[k + 1]
  BY <1>2, <1>4, Dropped
<1>11. CardsTyped'
  <2>1. addrs[1] \in Addresses
    BY <1>4
  <2>2. current' \in [index: Int, address: Addresses \cup {Nothing}]
    BY <1>1, <1>8, <2>1 DEF CardsTyped
  <2> QED
    BY <1>1, <1>2, <1>10, <2>2 DEF CardsTyped
<1>12. CardsListed'
  <2>1. CardsOf(cards', addrs)
    BY <1>7, <1>8, SameCardsOf
  <2>2. Pointed(current', addrs)
    <3>1. CASE current' = current
      BY <1>1, <3>1 DEF CardsListed
    <3>2. CASE current' = [index |-> 0, address |-> addrs[1]]
      <4>1. current'.index = 0 /\ current'.address = addrs[1] /\ 0 \in -1 .. Len(addrs) - 1
        BY <1>4, <3>2
      <4> QED
        BY <4>1 DEF Pointed
    <3> QED
      BY <1>8, <3>1, <3>2
  <2>3. Prefix(addrs, addrs)
    BY <1>4 DEF Prefix
  <2> QED
    BY <1>1, <1>2, <1>8, <2>1, <2>2, <2>3 DEF CardsListed
<1>13. CardsQueued'
  BY <1>2, <1>9 DEF CardsQueued
<1>14. CardsShut'
  BY <1>2, <1>3, <1>4 DEF CardsShut
<1>15. CardsKnown'
  <2>1. NumbersKnown(cards', chain)
    BY <1>7, <1>8, SameKnown
  <2>2. AnswersKnown(calls', chain)
    <3> SUFFICES ASSUME NEW k \in 1 .. Len(calls'), calls'[k].what = "number", calls'[k].known
                 PROVE  chain[calls'[k].address] = "known"
      BY DEF AnswersKnown
    <3>1. k + 1 \in 1 .. Len(calls) /\ calls'[k] = calls[k + 1]
      BY <1>10
    <3> QED
      BY <1>1, <3>1 DEF CardsKnown, AnswersKnown
  <2>3. Len(cards) = 0
    BY <1>1, <1>9 DEF CardsListed, CardsOf
  <2>4. dialog = 0
    BY <1>1, <2>3 DEF CardsKnown
  <2>5. ASSUME session = 1 PROVE Waits(cards', addrs, chain)
    <3>1. Waits(cards, entries, chain)
      BY <1>1, <1>3, <2>5 DEF CardsKnown
    <3>2. \A a \in Addresses : chain[a] # "sent"
      BY <2>3, <3>1 DEF Waits
    <3> QED
      BY <3>2 DEF Waits
  <2> QED
    BY <1>1, <1>2, <2>1, <2>2, <2>4, <2>5 DEF CardsKnown
<1> QED
  BY <1>11, <1>12, <1>13, <1>14, <1>15 DEF CardsInv

LEMMA PutLast ==
    ASSUME NEW S, NEW s \in Seq(S), NEW x \in S
    PROVE  SubSeq(s, 1, Len(s)) \o <<x>> \o SubSeq(s, Len(s) + 1, Len(s)) = Append(s, x)
<1>1. Len(s) \in Nat
  OBVIOUS
<1>2. SubSeq(s, 1, Len(s)) = s
  BY <1>1
<1>3. SubSeq(s, Len(s) + 1, Len(s)) = <<>>
  BY <1>1
<1>4. s \o <<x>> \o <<>> = Append(s, x)
  OBVIOUS
<1> QED
  BY <1>2, <1>3, <1>4

\* The model gets its next address.
LEMMA CardAdded ==
    ASSUME NEW cs, NEW es \in Seq(Addresses), CardsOf(cs, es), NEW a \in Addresses, NEW ch
    PROVE  /\ Append(cs, Cards!Blank) \in Seq(CardSet) /\ Append(es, a) \in Seq(Addresses)
           /\ Len(Append(cs, Cards!Blank)) = Len(cs) + 1
           /\ CardsOf(Append(cs, Cards!Blank), Append(es, a))
           /\ NumbersKnown(cs, ch) => NumbersKnown(Append(cs, Cards!Blank), ch)
           /\ Waits(cs, es, ch) => Waits(Append(cs, Cards!Blank), Append(es, a), ch)
<1> DEFINE xs == Append(cs, Cards!Blank)
           ys == Append(es, a)
<1>1. cs \in Seq(CardSet) /\ Len(cs) = Len(es) /\ Len(cs) \in Nat
  BY DEF CardsOf
<1>2. /\ xs \in Seq(CardSet) /\ Len(xs) = Len(cs) + 1
      /\ \A i \in 1 .. Len(cs) : xs[i] = cs[i]
      /\ xs[Len(cs) + 1] = Cards!Blank
  BY <1>1, BlankCard, Appended
<1>3. /\ ys \in Seq(Addresses) /\ Len(ys) = Len(es) + 1
      /\ \A i \in 1 .. Len(es) : ys[i] = es[i]
  BY Appended
<1> HIDE DEF xs, ys
<1>4. CardsOf(xs, ys)
  <2>1. ASSUME NEW i \in 1 .. Len(xs) PROVE xs[i].address \in {Nothing, ys[i]}
    <3>1. CASE i \in 1 .. Len(cs)
      BY <1>1, <1>2, <1>3, <3>1 DEF CardsOf
    <3>2. CASE i = Len(cs) + 1
      BY <1>2, <3>2, BlankCard
    <3> QED
      BY <1>1, <1>2, <3>1, <3>2
  <2> QED
    BY <1>1, <1>2, <1>3, <2>1 DEF CardsOf
<1>5. ASSUME NumbersKnown(cs, ch) PROVE NumbersKnown(xs, ch)
  <2> SUFFICES ASSUME NEW i \in 1 .. Len(xs), xs[i].number
               PROVE  xs[i].address # Nothing /\ ch[xs[i].address] = "known"
    BY DEF NumbersKnown
  <2>1. i # Len(cs) + 1
    BY <1>2, BlankCard
  <2>2. i \in 1 .. Len(cs) /\ xs[i] = cs[i]
    BY <1>1, <1>2, <2>1
  <2> QED
    BY <1>5, <2>2 DEF NumbersKnown
<1>6. ASSUME Waits(cs, es, ch) PROVE Waits(xs, ys, ch)
  <2> SUFFICES ASSUME NEW b \in Addresses, ch[b] = "sent"
               PROVE  \E k \in 1 .. Len(xs) : ys[k] = b /\ xs[k].pending
    BY DEF Waits
  <2>1. PICK k \in 1 .. Len(cs) : es[k] = b /\ cs[k].pending
    BY <1>6 DEF Waits
  <2>2. k \in 1 .. Len(xs) /\ xs[k] = cs[k] /\ ys[k] = es[k]
    BY <1>1, <1>2, <1>3
  <2> QED
    BY <2>1, <2>2
<1> QED
  BY <1>2, <1>3, <1>4, <1>5, <1>6 DEF xs, ys

LEMMA CreatedHeard ==
    ASSUME CardsInv, Cards!OnCreated
    PROVE  CardsInv'
<1>1. CardsTyped /\ CardsListed /\ CardsQueued /\ CardsShut /\ CardsKnown
  BY DEF CardsInv
<1> DEFINE n == Len(entries)
           a == Head(calls).address
           xs == Append(cards, Cards!Blank)
           ys == Append(entries, a)
<1>2. calls # <<>> /\ Head(calls).what = "created"
      /\ UNCHANGED <<addrs, current, session, shut, import, dialog, chain, twice>>
  BY DEF Cards!OnCreated
<1>3. ~shut
  BY <1>2, ShutEmpty
<1>4. /\ addrs \in Seq(Addresses) /\ entries \in Seq(Addresses) /\ calls \in Seq(CallSet)
      /\ cards \in Seq(CardSet) /\ CardsOf(cards, entries) /\ Len(cards) = n /\ n \in Nat
  BY <1>1 DEF CardsTyped, CardsListed, CardsOf
<1>5. /\ Head(calls).index = n /\ n < Len(addrs) /\ addrs[n + 1] = a
      /\ Announced(Tail(calls), n + 1, addrs) /\ OpenedOnce(Tail(calls), n + 1, addrs)
  <2>1. Announced(calls, n, addrs) /\ OpenedOnce(calls, n, addrs)
    BY <1>1 DEF CardsQueued
  <2> HIDE DEF n
  <2> QED
    BY <1>2, <1>4, <2>1, QueueCreates
<1>6. a \in Addresses
  <2>1. Head(calls) \in CallSet
    BY <1>2, <1>4, Dropped
  <2> QED
    BY <1>2, <2>1, CallKinds
<1>7. /\ calls' = Tail(calls) /\ UNCHANGED asked
      /\ entries' = ys /\ cards' = Cards!Selected(xs, current.address)
  <2>1. ~(n > n)
    BY <1>4
  <2>2. /\ calls' = Tail(calls) /\ UNCHANGED asked
        /\ entries' = SubSeq(entries, 1, n) \o <<a>> \o SubSeq(entries, n + 1, Len(entries))
        /\ cards' = Cards!Selected(SubSeq(cards, 1, n) \o <<Cards!Blank>> \o SubSeq(cards, n + 1, Len(cards)),
                                   current.address)
    BY <1>5, <2>1 DEF Cards!OnCreated
  <2>3. SubSeq(entries, 1, n) \o <<a>> \o SubSeq(entries, n + 1, Len(entries)) = ys
    BY <1>4, <1>6, PutLast
  <2>4. SubSeq(cards, 1, n) \o <<Cards!Blank>> \o SubSeq(cards, n + 1, Len(cards)) = xs
    <3>1. SubSeq(cards, 1, Len(cards)) \o <<Cards!Blank>> \o SubSeq(cards, Len(cards) + 1, Len(cards)) = xs
      BY <1>4, BlankCard, PutLast
    <3> HIDE DEF xs, n
    <3> QED
      BY <1>4, <3>1
  <2> QED
    BY <2>2, <2>3, <2>4
<1>8. /\ xs \in Seq(CardSet) /\ ys \in Seq(Addresses)
      /\ Len(xs) = n + 1 /\ CardsOf(xs, ys)
      /\ NumbersKnown(cards, chain) => NumbersKnown(xs, chain)
      /\ Waits(cards, entries, chain) => Waits(xs, ys, chain)
  BY <1>4, <1>6, CardAdded
<1>9. /\ Len(ys) = n + 1 /\ \A i \in 1 .. n : ys[i] = entries[i]
      /\ ys[n + 1] = a
  BY <1>4, <1>6, Appended
<1> HIDE DEF xs, ys, n, a
<1>10. SameCards(cards', xs) /\ Lit(cards', current)
  BY <1>7, <1>8, SelectedCards
<1>11. /\ calls' \in Seq(CallSet) /\ Len(calls') = Len(calls) - 1 /\ Len(calls) \in Nat
       /\ \A k \in 1 .. Len(calls) - 1 : calls'[k] = calls[k + 1]
  BY <1>2, <1>4, <1>7, Dropped
<1>12. CardsTyped'
  BY <1>1, <1>2, <1>7, <1>8, <1>11 DEF CardsTyped
<1>13. CardsListed'
  <2>1. CardsOf(cards', ys)
    BY <1>8, <1>10, SameCardsOf
  <2>2. Prefix(ys, addrs)
    <3>1. Prefix(entries, addrs) /\ Len(addrs) \in Nat /\ Len(entries) = n
      BY <1>1, <1>4 DEF CardsListed, n
    <3>2. ASSUME NEW i \in 1 .. n + 1 PROVE ys[i] = addrs[i]
      <4>1. CASE i \in 1 .. n
        BY <1>9, <3>1, <4>1 DEF Prefix
      <4>2. CASE i = n + 1
        BY <1>5, <1>9, <4>2
      <4> QED
        BY <1>4, <4>1, <4>2
    <3> QED
      BY <1>4, <1>5, <1>9, <3>1, <3>2 DEF Prefix
  <2> QED
    BY <1>1, <1>2, <1>7, <1>10, <2>1, <2>2 DEF CardsListed
<1>14. CardsQueued'
  BY <1>2, <1>5, <1>7, <1>9 DEF CardsQueued
<1>15. CardsShut'
  BY <1>1, <1>2, <1>3 DEF CardsShut
<1>16. CardsKnown'
  <2>1. /\ Len(cards') = n + 1 /\ NumbersKnown(cards', chain)
        /\ Waits(xs, ys, chain) => Waits(cards', ys, chain)
    <3>1. NumbersKnown(xs, chain)
      BY <1>1, <1>8 DEF CardsKnown
    <3> QED
      BY <1>8, <1>10, <3>1, SameKnown
  <2>2. AnswersKnown(calls', chain)
    <3> SUFFICES ASSUME NEW k \in 1 .. Len(calls'), calls'[k].what = "number", calls'[k].known
                 PROVE  chain[calls'[k].address] = "known"
      BY DEF AnswersKnown
    <3>1. k + 1 \in 1 .. Len(calls) /\ calls'[k] = calls[k + 1]
      BY <1>11
    <3> QED
      BY <1>1, <3>1 DEF CardsKnown, AnswersKnown
  <2>3. session = 1 => Waits(cards', ys, chain)
    BY <1>1, <1>3, <1>8, <2>1 DEF CardsKnown
  <2>4. dialog # 0 => dialog \in 1 .. Len(cards')
    BY <1>1, <1>4, <2>1 DEF CardsKnown
  <2> QED
    BY <1>1, <1>2, <1>7, <2>1, <2>2, <2>3, <2>4 DEF CardsKnown
<1> QED
  BY <1>12, <1>13, <1>14, <1>15, <1>16 DEF CardsInv

\* A registration is offered only for an address the first session has not sent.
LEMMA AskKeeps ==
    ASSUME CardsInv, Cards!AskRegister
    PROVE  CardsInv'
<1>1. CardsTyped /\ CardsListed /\ CardsQueued /\ CardsShut /\ CardsKnown
  BY DEF CardsInv
<1>2. PICK i \in DOMAIN cards : Cards!Offered(cards[i]) /\ dialog' = i
  BY DEF Cards!AskRegister
<1>3. /\ ~shut
      /\ UNCHANGED <<addrs, calls, entries, cards, current, session, shut, import, asked, chain, twice>>
  BY DEF Cards!AskRegister, Cards!Ready
<1>4. /\ addrs \in Seq(Addresses) /\ CardsOf(cards, entries) /\ Prefix(entries, addrs)
      /\ OneEach(addrs) /\ entries \in Seq(Addresses)
  BY <1>1 DEF CardsTyped, CardsListed
<1>5. i \in 1 .. Len(cards) /\ Len(cards) = Len(entries) /\ Len(entries) <= Len(addrs)
      /\ Len(entries) \in Nat /\ Len(addrs) \in Nat
  BY <1>4 DEF CardsOf, Prefix
<1>6. CardsTyped'
  BY <1>1, <1>2, <1>3, <1>5 DEF CardsTyped
<1>7. CardsListed' /\ CardsQueued'
  BY <1>1, <1>3 DEF CardsListed, CardsQueued
<1>8. CardsShut'
  BY <1>1, <1>3 DEF CardsShut
<1>9. CardsKnown'
  <2>1. ASSUME session = 1 PROVE chain[addrs[i]] # "sent"
    <3> SUFFICES ASSUME chain[addrs[i]] = "sent" PROVE FALSE
      OBVIOUS
    <3>1. addrs[i] \in Addresses /\ i \in 1 .. Len(addrs)
      BY <1>4, <1>5
    <3>2. PICK k \in 1 .. Len(cards) : entries[k] = addrs[i] /\ cards[k].pending
      BY <1>1, <1>3, <2>1, <3>1 DEF CardsKnown, Waits
    <3>3. addrs[k] = addrs[i] /\ k \in 1 .. Len(addrs)
      BY <1>4, <1>5, <3>2 DEF Prefix
    <3>4. k = i
      BY <1>4, <3>1, <3>3 DEF OneEach
    <3> QED
      BY <1>2, <3>2, <3>4 DEF Cards!Offered
  <2> QED
    BY <1>1, <1>2, <1>3, <1>5, <2>1 DEF CardsKnown
<1> QED
  BY <1>6, <1>7, <1>8, <1>9 DEF CardsInv

LEMMA RegisterKeeps ==
    ASSUME CardsInv, Cards!Register
    PROVE  CardsInv'
<1>1. CardsTyped /\ CardsListed /\ CardsQueued /\ CardsShut /\ CardsKnown
  BY DEF CardsInv
<1> DEFINE a == addrs[dialog]
           x == Cards!Pending(cards[dialog], TRUE)
<1>2. /\ dialog # 0 /\ dialog' = 0
      /\ UNCHANGED <<addrs, calls, entries, current, session, shut, import, asked>>
  BY DEF Cards!Register
<1>3. ~shut
  BY <1>2, ShutEmpty
<1>4. CASE UNCHANGED <<twice, chain, cards>>
  <2>1. CardsTyped'
    BY <1>1, <1>2, <1>4 DEF CardsTyped
  <2>2. CardsListed' /\ CardsQueued'
    BY <1>1, <1>2, <1>4 DEF CardsListed, CardsQueued
  <2>3. CardsShut'
    BY <1>1, <1>2, <1>3 DEF CardsShut
  <2>4. CardsKnown'
    BY <1>1, <1>2, <1>4 DEF CardsKnown
  <2> QED
    BY <2>1, <2>2, <2>3, <2>4 DEF CardsInv
<1>5. CASE /\ twice' = (twice \/ chain[a] = "sent")
           /\ chain' = [chain EXCEPT ![a] = IF chain[a] = "none" THEN "sent" ELSE chain[a]]
           /\ cards' = [cards EXCEPT ![dialog] = x]
  <2>1. /\ addrs \in Seq(Addresses) /\ CardsOf(cards, entries) /\ Prefix(entries, addrs)
        /\ entries \in Seq(Addresses) /\ chain \in [Addresses -> {"none", "sent", "known"}]
        /\ Lit(cards, current) /\ NumbersKnown(cards, chain) /\ AnswersKnown(calls, chain)
        /\ calls \in Seq(CallSet)
    BY <1>1 DEF CardsTyped, CardsListed, CardsKnown
  <2>2. /\ dialog \in 1 .. Len(cards) /\ cards \in Seq(CardSet) /\ Len(cards) = Len(entries)
        /\ Len(entries) <= Len(addrs) /\ Len(entries) \in Nat /\ Len(addrs) \in Nat
    BY <1>1, <1>2, <2>1 DEF CardsKnown, CardsOf, Prefix
  <2>3. /\ a \in Addresses /\ entries[dialog] = a /\ cards[dialog] \in CardSet
        /\ cards[dialog].address \in {Nothing, a}
    BY <2>1, <2>2 DEF Prefix, CardsOf
  <2>4. Keeps(x, cards[dialog]) /\ x.number = cards[dialog].number
        /\ (x.pending \/ cards[dialog].number)
    BY <2>3, PendingCard
  <2>5. x \in CardSet /\ x.address = cards[dialog].address /\ x.selected = cards[dialog].selected
        /\ x.number = cards[dialog].number
    BY <2>4 DEF Keeps
  <2> HIDE DEF x, a
  <2>6. /\ cards' \in Seq(CardSet) /\ Len(cards') = Len(cards) /\ cards'[dialog] = x
        /\ \A k \in 1 .. Len(cards) : k # dialog => cards'[k] = cards[k]
    BY <1>5, <2>2, <2>5
  <2>7. /\ chain' \in [Addresses -> {"none", "sent", "known"}]
        /\ \A b \in Addresses : chain[b] = "known" => chain'[b] = "known"
        /\ \A b \in Addresses : chain'[b] = "sent" => chain[b] = "sent" \/ b = a
        /\ chain'[a] = "sent" => chain[a] # "known"
    <3> DEFINE v == IF chain[a] = "none" THEN "sent" ELSE chain[a]
    <3>1. /\ v \in {"none", "sent", "known"} /\ (chain[a] = "known" => v = "known")
      BY <2>1, <2>3
    <3>2. chain' = [chain EXCEPT ![a] = v]
      BY <1>5
    <3> HIDE DEF v
    <3>3. /\ chain' \in [Addresses -> {"none", "sent", "known"}] /\ chain'[a] = v
          /\ \A b \in Addresses : b # a => chain'[b] = chain[b]
      BY <2>1, <2>3, <3>1, <3>2
    <3> QED
      BY <3>1, <3>3
  <2>8. session = 1 => twice' = twice
    <3> SUFFICES ASSUME session = 1 PROVE twice' = twice
      OBVIOUS
    <3>1. chain[a] # "sent"
      BY <1>1, <1>2 DEF CardsKnown, a
    <3>2. ~twice
      BY <1>1 DEF CardsKnown
    <3> QED
      BY <1>1, <1>5, <3>1, <3>2 DEF CardsTyped
  <2>9. twice' \in BOOLEAN
    BY <1>5, <1>1 DEF CardsTyped
  <2>10. CardsTyped'
    BY <1>1, <1>2, <2>7, <2>9 DEF CardsTyped
  <2>11. CardsListed'
    <3>1. CardsOf(cards', entries)
      BY <2>1, <2>2, <2>5, <2>6 DEF CardsOf
    <3>2. Lit(cards', current)
      BY <2>1, <2>2, <2>5, <2>6 DEF Lit
    <3> QED
      BY <1>1, <1>2, <3>1, <3>2 DEF CardsListed
  <2>12. CardsQueued'
    BY <1>1, <1>2 DEF CardsQueued
  <2>13. CardsShut'
    BY <1>1, <1>2, <1>3 DEF CardsShut
  <2>14. CardsKnown'
    <3>1. NumbersKnown(cards', chain')
      <4> SUFFICES ASSUME NEW k \in 1 .. Len(cards), cards'[k].number
                   PROVE  cards'[k].address # Nothing /\ chain'[cards'[k].address] = "known"
        BY <2>6 DEF NumbersKnown
      <4>1. cards[k].number /\ cards'[k].address = cards[k].address
        <5>1. CASE k = dialog
          BY <2>5, <2>6, <5>1
        <5>2. CASE k # dialog
          BY <2>6, <5>2
        <5> QED
          BY <5>1, <5>2
      <4>2. cards[k].address # Nothing /\ chain[cards[k].address] = "known"
        BY <2>1, <4>1 DEF NumbersKnown
      <4>3. cards[k].address \in Addresses
        BY <2>1, <2>2, <4>2 DEF CardsOf
      <4> QED
        BY <2>7, <4>1, <4>2, <4>3
    <3>2. AnswersKnown(calls, chain')
      <4> SUFFICES ASSUME NEW k \in 1 .. Len(calls), calls[k].what = "number", calls[k].known
                   PROVE  chain'[calls[k].address] = "known"
        BY DEF AnswersKnown
      <4>1. chain[calls[k].address] = "known"
        BY <2>1 DEF AnswersKnown
      <4>2. calls[k].address \in Addresses
        BY <2>1, CallKinds
      <4> QED
        BY <2>7, <4>1, <4>2
    <3>3. ASSUME session = 1 PROVE Waits(cards', entries, chain')
      <4> SUFFICES ASSUME NEW b \in Addresses, chain'[b] = "sent"
                   PROVE  \E k \in 1 .. Len(cards') : entries[k] = b /\ cards'[k].pending
        BY DEF Waits
      <4>1. CASE b = a
        <5>1. chain[a] # "known"
          BY <2>7, <4>1
        <5>2. ~cards[dialog].number
          BY <2>1, <2>2, <2>3, <5>1 DEF NumbersKnown
        <5> QED
          BY <2>2, <2>3, <2>4, <2>6, <4>1, <5>2
      <4>2. CASE b # a
        <5>1. chain[b] = "sent"
          BY <2>7, <4>2
        <5>2. PICK k \in 1 .. Len(cards) : entries[k] = b /\ cards[k].pending
          BY <1>1, <1>3, <3>3, <5>1 DEF CardsKnown, Waits
        <5>3. k # dialog
          BY <2>3, <4>2, <5>2
        <5> QED
          BY <2>6, <5>2, <5>3
      <4> QED
        BY <4>1, <4>2
    <3>4. session # 0 /\ (session = 1 => ~twice')
      BY <1>1, <1>3, <2>8 DEF CardsKnown
    <3> QED
      BY <1>2, <3>1, <3>2, <3>3, <3>4 DEF CardsKnown
  <2> QED
    BY <2>10, <2>11, <2>12, <2>13, <2>14 DEF CardsInv
<1> QED
  BY <1>4, <1>5 DEF Cards!Register

LEMMA ConfirmKeeps ==
    ASSUME CardsInv, Cards!Confirm
    PROVE  CardsInv'
<1>1. CardsTyped /\ CardsListed /\ CardsQueued /\ CardsShut /\ CardsKnown
  BY DEF CardsInv
<1>2. PICK a \in Addresses : chain[a] = "sent" /\ chain' = [chain EXCEPT ![a] = "known"]
  BY DEF Cards!Confirm
<1>3. UNCHANGED <<addrs, calls, entries, cards, current, session, shut, import, dialog, asked, twice>>
  BY DEF Cards!Confirm
<1>4. /\ addrs \in Seq(Addresses) /\ CardsOf(cards, entries) /\ Prefix(entries, addrs)
      /\ entries \in Seq(Addresses) /\ chain \in [Addresses -> {"none", "sent", "known"}]
      /\ NumbersKnown(cards, chain) /\ AnswersKnown(calls, chain) /\ calls \in Seq(CallSet)
  BY <1>1 DEF CardsTyped, CardsListed, CardsKnown
<1>5. /\ chain' \in [Addresses -> {"none", "sent", "known"}]
      /\ \A b \in Addresses : chain[b] = "known" => chain'[b] = "known"
      /\ \A b \in Addresses : chain'[b] = "sent" => chain[b] = "sent"
  BY <1>2, <1>4
<1>6. CardsTyped'
  BY <1>1, <1>3, <1>5 DEF CardsTyped
<1>7. CardsListed' /\ CardsQueued'
  BY <1>1, <1>3 DEF CardsListed, CardsQueued
<1>8. CardsShut'
  BY <1>1, <1>3 DEF CardsShut
<1>9. CardsKnown'
  <2>1. NumbersKnown(cards, chain')
    <3> SUFFICES ASSUME NEW k \in 1 .. Len(cards), cards[k].number
                 PROVE  cards[k].address # Nothing /\ chain'[cards[k].address] = "known"
      BY DEF NumbersKnown
    <3>1. cards[k].address # Nothing /\ chain[cards[k].address] = "known"
      BY <1>4 DEF NumbersKnown
    <3>2. cards[k].address \in Addresses
      BY <1>4, <3>1 DEF CardsOf
    <3> QED
      BY <1>5, <3>1, <3>2
  <2>2. AnswersKnown(calls, chain')
    <3> SUFFICES ASSUME NEW k \in 1 .. Len(calls), calls[k].what = "number", calls[k].known
                 PROVE  chain'[calls[k].address] = "known"
      BY DEF AnswersKnown
    <3>1. chain[calls[k].address] = "known"
      BY <1>4 DEF AnswersKnown
    <3>2. calls[k].address \in Addresses
      BY <1>4, CallKinds
    <3> QED
      BY <1>5, <3>1, <3>2
  <2>3. ASSUME session = 1, ~shut PROVE Waits(cards, entries, chain')
    BY <1>1, <1>5, <2>3 DEF CardsKnown, Waits
  <2>4. session # 0
    BY <1>1, <1>2 DEF CardsKnown
  <2>5. ASSUME dialog # 0, session = 1 PROVE chain'[addrs[dialog]] # "sent"
    <3>1. dialog \in 1 .. Len(cards) /\ chain[addrs[dialog]] # "sent"
      BY <1>1, <2>5 DEF CardsKnown
    <3>2. addrs[dialog] \in Addresses
      BY <1>4, <3>1 DEF CardsOf, Prefix
    <3> QED
      BY <1>5, <3>1, <3>2
  <2> QED
    BY <1>1, <1>3, <2>1, <2>2, <2>3, <2>4, <2>5 DEF CardsKnown
<1> QED
  BY <1>6, <1>7, <1>8, <1>9 DEF CardsInv

LEMMA CardsStep ==
    ASSUME CardsInv, Cards!Next \/ UNCHANGED sidebar
    PROVE  CardsInv'
<1>1. ASSUME UNCHANGED sidebar PROVE CardsInv'
  <2>1. UNCHANGED <<addrs, calls, entries, cards, current, session, shut, import, dialog, asked, chain, twice>>
    BY <1>1 DEF sidebar
  <2>2. CardsTyped' /\ CardsListed' /\ CardsQueued'
    BY <2>1 DEF CardsInv, CardsTyped, CardsListed, CardsQueued
  <2>3. CardsShut' /\ CardsKnown'
    BY <2>1 DEF CardsInv, CardsShut, CardsKnown
  <2> QED
    BY <2>2, <2>3 DEF CardsInv
<1> QED
  BY <1>1, CardsOpenKeeps, CreateKeeps, SelectImportedKeeps, CardsCloseKeeps, ClickKeeps, OpenedHeard,
     CreatedHeard, BalanceHeard, AnswerHeard, AnswerKeeps, AskKeeps, RegisterKeeps, ConfirmKeeps,
     MoneyKeeps DEF Cards!Next

LEMMA CardsFollowed == [Next]_vars => (Cards!Next \/ UNCHANGED sidebar)
BY DEF Next, vars

LEMMA CardsSuffice == CardsInv => CardsAgree
<1> SUFFICES ASSUME CardsInv PROVE CardsAgree
  OBVIOUS
<1>1. CardsTyped /\ CardsListed /\ CardsQueued /\ CardsShut /\ CardsKnown
  BY DEF CardsInv
<1>2. /\ addrs \in Seq(Addresses) /\ entries \in Seq(Addresses) /\ CardsOf(cards, entries)
      /\ Prefix(entries, addrs) /\ Len(entries) \in Nat /\ Len(addrs) \in Nat
  BY <1>1 DEF CardsTyped, CardsListed
<1>3. entries = SubSeq(addrs, 1, Len(entries))
  BY <1>2 DEF Prefix
<1>4. \A i \in DOMAIN cards : /\ cards[i].address \in {Nothing, entries[i]}
                              /\ cards[i].selected => cards[i].address = current.address
  BY <1>1, <1>2 DEF CardsListed, CardsOf, Lit
<1>5. current.address # Nothing =>
        current.index \in 0 .. Len(addrs) - 1 /\ addrs[current.index + 1] = current.address
  BY <1>1, <1>2 DEF CardsListed, Pointed
<1>6. ASSUME ~shut, calls = <<>> PROVE entries = addrs
  <2>1. Len(calls) = 0 /\ Len(addrs) > 0
    BY <1>1, <1>6 DEF CardsShut
  <2>2. Len(entries) > 0
    BY <1>1, <1>2, <2>1 DEF CardsQueued, OpenedOnce
  <2>3. Len(entries) = Len(addrs)
    <3> SUFFICES ASSUME Len(entries) # Len(addrs) PROVE FALSE
      OBVIOUS
    <3>1. Len(entries) \in Len(entries) .. Len(addrs) - 1
      BY <1>2 DEF Prefix
    <3> QED
      BY <1>1, <2>1, <2>2, <3>1 DEF CardsQueued, Announced
  <2> QED
    BY <1>2, <2>3 DEF Prefix
<1>7. Cards!AddressesAgree
  BY <1>2, <1>3, <1>4, <1>5, <1>6 DEF Cards!AddressesAgree, CardsOf
<1>8. Cards!RegisteredOnce
  BY <1>1 DEF CardsKnown, Cards!RegisteredOnce
<1> QED
  BY <1>7, <1>8 DEF CardsAgree

\* The wallet's addresses, the model's copy and the cards agree row by row, the
\* current address is where the wallet has it, only its card is highlighted, the
\* copy is complete when no signal is on the way, and the first session registers
\* no address twice: for every set of addresses, any number of wallets opened and
\* of signals, and the node's answers in any order.
THEOREM CardsStayInOrder == Spec => []CardsAgree
<1>1. Init => CardsInv
  BY CardsBegin
<1>2. CardsInv /\ [Next]_vars => CardsInv'
  BY CardsStep, CardsFollowed
<1>3. CardsInv => CardsAgree
  BY CardsSuffice
<1> QED
  BY <1>1, <1>2, <1>3, PTL DEF Spec

-----------------------------------------------------------------------------
(* The history.                                                            *)

Versions == {"unconfirmed", "confirmed"}
TxKinds == {"created", "updated"}
WalletEvents == [what: TxKinds, index: Nat]
                \cup [what: {"progress"}, current: 0 .. MaxBlocks, total: 0 .. MaxBlocks]
                \cup [what: {"completed"}]
WalletSignals == [what: TxKinds, index: Nat, tx: Versions]
                 \cup [what: {"progress"}, current: 0 .. MaxBlocks, total: 0 .. MaxBlocks]
                 \cup [what: {"completed", "opened", "closed"}]

LEMMA EventKinds ==
    ASSUME NEW e \in WalletEvents
    PROVE  /\ e.what \in TxKinds \cup {"progress", "completed"}
           /\ e.what \in TxKinds => e.index \in Nat
           /\ e.what = "progress" => e.current \in 0 .. MaxBlocks /\ e.total \in 0 .. MaxBlocks
           /\ e.what \in {"progress", "completed"} => e \in WalletSignals
BY DEF WalletEvents, WalletSignals, TxKinds

LEMMA SignalKinds ==
    ASSUME NEW e \in WalletSignals
    PROVE  /\ e.what \in TxKinds \cup {"progress", "completed", "opened", "closed"}
           /\ e.what \in TxKinds => e.index \in Nat /\ e.tx \in Versions
           /\ e.what = "progress" => e.current \in 0 .. MaxBlocks /\ e.total \in 0 .. MaxBlocks
BY DEF WalletSignals, TxKinds

\* The element e is about the transaction i; some element of the queue q is.
About(e, what, i) == e.what = what /\ e.index = i
Has(q, what, i) == \E p \in 1 .. Len(q) : About(q[p], what, i)

LEMMA HasMore ==
    ASSUME NEW S, NEW q \in Seq(S), NEW e \in S, NEW w, NEW i
    PROVE  Has(Append(q, e), w, i) <=> Has(q, w, i) \/ About(e, w, i)
<1> DEFINE x == Append(q, e)
<1>1. /\ Len(x) = Len(q) + 1 /\ Len(q) \in Nat
      /\ \A k \in 1 .. Len(q) : x[k] = q[k]
      /\ x[Len(q) + 1] = e
  BY Appended
<1> HIDE DEF x
<1>2. \A p \in 1 .. Len(x) : p \in 1 .. Len(q) \/ p = Len(q) + 1
  BY <1>1
<1>3. \A p \in 1 .. Len(q) : p \in 1 .. Len(x)
  BY <1>1
<1>4. Len(q) + 1 \in 1 .. Len(x)
  BY <1>1
<1>5. Has(x, w, i) => Has(q, w, i) \/ About(e, w, i)
  BY <1>1, <1>2 DEF Has
<1>6. Has(q, w, i) \/ About(e, w, i) => Has(x, w, i)
  BY <1>1, <1>3, <1>4 DEF Has
<1> QED
  BY <1>5, <1>6 DEF x

LEMMA HasLess ==
    ASSUME NEW S, NEW q \in Seq(S), q # <<>>, NEW w, NEW i
    PROVE  Has(q, w, i) <=> Has(Tail(q), w, i) \/ About(Head(q), w, i)
<1> DEFINE x == Tail(q)
<1>1. /\ Len(x) = Len(q) - 1 /\ Len(q) \in Nat /\ Len(q) > 0
      /\ \A k \in 1 .. Len(q) - 1 : x[k] = q[k + 1]
      /\ Head(q) = q[1]
  BY Dropped
<1> HIDE DEF x
<1>2. \A p \in 1 .. Len(x) : p + 1 \in 1 .. Len(q) /\ x[p] = q[p + 1]
  BY <1>1
<1>3. \A p \in 1 .. Len(q) : p # 1 => p - 1 \in 1 .. Len(x) /\ x[p - 1] = q[p]
  <2> SUFFICES ASSUME NEW p \in 1 .. Len(q), p # 1
               PROVE  p - 1 \in 1 .. Len(x) /\ x[p - 1] = q[p]
    OBVIOUS
  <2>1. p - 1 \in 1 .. Len(q) - 1 /\ (p - 1) + 1 = p
    BY <1>1
  <2> QED
    BY <1>1, <2>1
<1>4. ASSUME Has(x, w, i) PROVE Has(q, w, i)
  <2>1. PICK p \in 1 .. Len(x) : About(x[p], w, i)
    BY <1>4 DEF Has
  <2> QED
    BY <1>2, <2>1 DEF Has
<1>5. ASSUME About(Head(q), w, i) PROVE Has(q, w, i)
  <2>1. 1 \in 1 .. Len(q)
    BY <1>1
  <2> QED
    BY <1>1, <1>5, <2>1 DEF Has
<1>6. ASSUME Has(q, w, i) PROVE Has(x, w, i) \/ About(Head(q), w, i)
  <2>1. PICK p \in 1 .. Len(q) : About(q[p], w, i)
    BY <1>6 DEF Has
  <2>2. CASE p = 1
    BY <1>1, <2>1, <2>2
  <2>3. CASE p # 1
    BY <1>3, <2>1, <2>3 DEF Has
  <2> QED
    BY <2>2, <2>3
<1> QED
  BY <1>4, <1>5, <1>6 DEF x

\* What the copy lacks is created, in the queues r and then q, before it is told of:
\* Needs is the transaction the copy must have, of those from m, when e is handled.
Needs(e) == IF e.what = "created" THEN e.index - 1 ELSE e.index
Before(q, p, i) == \E k \in 1 .. p - 1 : About(q[k], "created", i)
Ordered(q, r, m) ==
  \A p \in 1 .. Len(q) : q[p].what \in TxKinds /\ Needs(q[p]) >= m =>
    Before(q, p, Needs(q[p])) \/ Has(r, "created", Needs(q[p]))

Numbered(S) == \A e \in S : e.what \in TxKinds => e.index \in Nat

LEMMA AllNumbered == Numbered(WalletEvents) /\ Numbered(WalletSignals)
BY EventKinds, SignalKinds DEF Numbered

LEMMA BeforeMore ==
    ASSUME NEW S, NEW q \in Seq(S), NEW e \in S, NEW i
    PROVE  /\ \A p \in 1 .. Len(q) : Before(Append(q, e), p, i) <=> Before(q, p, i)
           /\ Before(Append(q, e), Len(q) + 1, i) <=> Has(q, "created", i)
<1> DEFINE x == Append(q, e)
<1>1. /\ Len(x) = Len(q) + 1 /\ Len(q) \in Nat
      /\ \A k \in 1 .. Len(q) : x[k] = q[k]
      /\ x[Len(q) + 1] = e
  BY Appended
<1> HIDE DEF x
<1>2. ASSUME NEW p \in 1 .. Len(q) PROVE Before(x, p, i) <=> Before(q, p, i)
  <2>1. \A k \in 1 .. p - 1 : k \in 1 .. Len(q)
    BY <1>1
  <2> QED
    BY <1>1, <2>1 DEF Before
<1>3. Before(x, Len(q) + 1, i) <=> Has(q, "created", i)
  <2>1. (Len(q) + 1) - 1 = Len(q)
    BY <1>1
  <2> QED
    BY <1>1, <2>1 DEF Before, Has
<1> QED
  BY <1>2, <1>3 DEF x

LEMMA BeforeLess ==
    ASSUME NEW S, NEW q \in Seq(S), q # <<>>, NEW i, NEW p \in 1 .. Len(q) - 1
    PROVE  Before(q, p + 1, i) => Before(Tail(q), p, i) \/ About(Head(q), "created", i)
<1> DEFINE x == Tail(q)
<1>1. /\ Len(x) = Len(q) - 1 /\ Len(q) \in Nat /\ Len(q) > 0
      /\ \A k \in 1 .. Len(q) - 1 : x[k] = q[k + 1]
      /\ Head(q) = q[1]
  BY Dropped
<1> HIDE DEF x
<1>2. ASSUME Before(q, p + 1, i) PROVE Before(x, p, i) \/ About(Head(q), "created", i)
  <2>1. PICK k \in 1 .. (p + 1) - 1 : About(q[k], "created", i)
    BY <1>2 DEF Before
  <2>2. CASE k = 1
    BY <1>1, <2>1, <2>2
  <2>3. CASE k # 1
    <3>1. k - 1 \in 1 .. p - 1 /\ k - 1 \in 1 .. Len(q) - 1 /\ (k - 1) + 1 = k
      BY <1>1, <2>3
    <3>2. x[k - 1] = q[k]
      BY <1>1, <3>1
    <3> QED
      BY <2>1, <3>1, <3>2 DEF Before
  <2> QED
    BY <2>2, <2>3
<1> QED
  BY <1>2 DEF x

\* The head of the queue is handled, and a copy of m transactions has k after it.
LEMMA OrderedLess ==
    ASSUME NEW S, Numbered(S), NEW q \in Seq(S), q # <<>>, NEW m \in Nat, NEW k \in Nat, k >= m,
           Ordered(q, <<>>, m), \A i \in Nat : About(Head(q), "created", i) => i < k
    PROVE  Ordered(Tail(q), <<>>, k)
<1> DEFINE x == Tail(q)
<1>1. /\ x \in Seq(S) /\ Len(x) = Len(q) - 1 /\ Len(q) \in Nat /\ Len(q) > 0
      /\ \A p \in 1 .. Len(q) - 1 : x[p] = q[p + 1]
  BY Dropped
<1>2. \A p \in 1 .. Len(q) - 1, i \in Nat :
        Before(q, p + 1, i) => Before(x, p, i) \/ About(Head(q), "created", i)
  BY BeforeLess
<1> HIDE DEF x
<1>3. SUFFICES ASSUME NEW p \in 1 .. Len(x), x[p].what \in TxKinds, Needs(x[p]) >= k
               PROVE  Before(x, p, Needs(x[p]))
  BY DEF Ordered, x
<1>4. p + 1 \in 1 .. Len(q) /\ p \in 1 .. Len(q) - 1 /\ x[p] = q[p + 1] /\ x[p] \in S
  BY <1>1
<1> DEFINE n == Needs(x[p])
<1>5. n \in Int
  <2>1. x[p].index \in Nat
    BY <1>3, <1>4 DEF Numbered
  <2> QED
    BY <2>1 DEF Needs
<1>6. n = Needs(q[p + 1]) /\ n >= k
  BY <1>3, <1>4
<1> HIDE DEF n
<1>7. n \in Nat /\ n >= m
  BY <1>5, <1>6
<1>8. Before(q, p + 1, n)
  <2>1. ~Has(<<>>, "created", n)
    BY DEF Has
  <2> QED
    BY <1>3, <1>4, <1>6, <1>7, <2>1 DEF Ordered
<1>9. ~About(Head(q), "created", n)
  BY <1>6, <1>7
<1> QED
  BY <1>2, <1>4, <1>7, <1>8, <1>9 DEF n

LEMMA OrderedBehind ==
    ASSUME NEW S, Numbered(S), NEW q \in Seq(S), NEW T, NEW r \in Seq(T), r # <<>>,
           NEW m \in Nat, NEW k \in Nat, k >= m,
           Ordered(q, r, m), \A i \in Nat : About(Head(r), "created", i) => i < k
    PROVE  Ordered(q, Tail(r), k)
<1> SUFFICES ASSUME NEW p \in 1 .. Len(q), q[p].what \in TxKinds, Needs(q[p]) >= k
             PROVE  Before(q, p, Needs(q[p])) \/ Has(Tail(r), "created", Needs(q[p]))
  BY DEF Ordered
<1> DEFINE n == Needs(q[p])
<1>1. n \in Int
  <2>1. q[p].index \in Nat
    BY DEF Numbered
  <2> QED
    BY <2>1 DEF Needs
<1>2. n >= k
  OBVIOUS
<1> HIDE DEF n
<1>3. n \in Nat /\ n >= m
  BY <1>1, <1>2
<1>4. Before(q, p, n) \/ Has(r, "created", n)
  BY <1>3 DEF Ordered, n
<1>5. ~About(Head(r), "created", n)
  BY <1>2, <1>3
<1>6. Has(r, "created", n) => Has(Tail(r), "created", n) \/ About(Head(r), "created", n)
  BY HasLess
<1> QED
  BY <1>4, <1>5, <1>6 DEF n

\* An element is put behind the queue q.
LEMMA OrderedMore ==
    ASSUME NEW S, NEW q \in Seq(S), NEW e \in S, NEW r, NEW m, Ordered(q, r, m),
           e.what \in TxKinds /\ Needs(e) >= m =>
             Has(q, "created", Needs(e)) \/ Has(r, "created", Needs(e))
    PROVE  Ordered(Append(q, e), r, m)
<1> DEFINE x == Append(q, e)
<1>1. /\ Len(x) = Len(q) + 1 /\ Len(q) \in Nat
      /\ \A k \in 1 .. Len(q) : x[k] = q[k]
      /\ x[Len(q) + 1] = e
  BY Appended
<1>2. \A p \in 1 .. Len(q) : Before(x, p, Needs(q[p])) <=> Before(q, p, Needs(q[p]))
  BY BeforeMore
<1>3. Before(x, Len(q) + 1, Needs(e)) <=> Has(q, "created", Needs(e))
  BY BeforeMore
<1> HIDE DEF x
<1>4. SUFFICES ASSUME NEW p \in 1 .. Len(x), x[p].what \in TxKinds, Needs(x[p]) >= m
               PROVE  Before(x, p, Needs(x[p])) \/ Has(r, "created", Needs(x[p]))
  BY DEF Ordered, x
<1>5. CASE p \in 1 .. Len(q)
  BY <1>1, <1>2, <1>4, <1>5 DEF Ordered
<1>6. CASE p = Len(q) + 1
  BY <1>1, <1>3, <1>4, <1>6
<1> QED
  BY <1>1, <1>5, <1>6

\* The oldest event of q is moved to the end of the queue r, as the signal s.
Reads(s, e) == s.what = e.what /\ s.index = e.index

LEMMA OrderedMoved ==
    ASSUME NEW S, NEW q \in Seq(S), q # <<>>, NEW T, NEW r \in Seq(T), NEW s \in T,
           NEW m, Ordered(q, r, m), Ordered(r, <<>>, m),
           s.what \in TxKinds => Reads(s, Head(q)), Head(q).what \in TxKinds => Reads(s, Head(q))
    PROVE  Ordered(Tail(q), Append(r, s), m) /\ Ordered(Append(r, s), <<>>, m)
<1> DEFINE x == Tail(q)
           y == Append(r, s)
<1>1. /\ Len(x) = Len(q) - 1 /\ Len(q) \in Nat /\ Len(q) > 0
      /\ \A p \in 1 .. Len(q) - 1 : x[p] = q[p + 1]
      /\ Head(q) = q[1]
  BY Dropped
<1>2. \A i : Has(r, "created", i) \/ About(Head(q), "created", i) => Has(y, "created", i)
  <2> SUFFICES ASSUME NEW i PROVE Has(r, "created", i) \/ About(Head(q), "created", i) => Has(y, "created", i)
    OBVIOUS
  <2>1. Has(y, "created", i) <=> Has(r, "created", i) \/ About(s, "created", i)
    BY HasMore
  <2>2. About(Head(q), "created", i) => About(s, "created", i)
    BY DEF About, Reads, TxKinds
  <2> QED
    BY <2>1, <2>2
<1>3. \A p \in 1 .. Len(q) - 1 : \A i :
        Before(q, p + 1, i) => Before(x, p, i) \/ About(Head(q), "created", i)
  BY BeforeLess
<1>4. Ordered(y, <<>>, m)
  <2>1. 1 \in 1 .. Len(q)
    BY <1>1
  <2>2. \A i : ~Before(q, 1, i)
    BY DEF Before
  <2>3. Head(q).what \in TxKinds /\ Needs(Head(q)) >= m => Has(r, "created", Needs(Head(q)))
    BY <1>1, <2>1, <2>2 DEF Ordered
  <2>4. s.what \in TxKinds => Needs(s) = Needs(Head(q)) /\ Head(q).what \in TxKinds
    BY DEF Reads, Needs
  <2> QED
    BY <2>3, <2>4, OrderedMore
<1> HIDE DEF x, y
<1>5. Ordered(x, y, m)
  <2> SUFFICES ASSUME NEW p \in 1 .. Len(x), x[p].what \in TxKinds, Needs(x[p]) >= m
               PROVE  Before(x, p, Needs(x[p])) \/ Has(y, "created", Needs(x[p]))
    BY DEF Ordered
  <2>1. p + 1 \in 1 .. Len(q) /\ p \in 1 .. Len(q) - 1 /\ x[p] = q[p + 1]
    BY <1>1
  <2>2. Before(q, p + 1, Needs(x[p])) \/ Has(r, "created", Needs(x[p]))
    BY <2>1 DEF Ordered
  <2> QED
    BY <1>2, <1>3, <2>1, <2>2
<1> QED
  BY <1>4, <1>5 DEF x, y

\* The last a queue q of signals says of a transaction is what the wallet w has,
\* unless the queue r of events has a change of it.
Later(q, p, i) == \E k \in p + 1 .. Len(q) : About(q[k], "updated", i)
LastIsRight(q, r, w) ==
  \A p \in 1 .. Len(q) :
    q[p].what \in TxKinds /\ ~Has(r, "updated", q[p].index) /\ ~Later(q, p, q[p].index)
      => q[p].tx = w[q[p].index + 1]

LEMMA RightLess ==
    ASSUME NEW S, NEW q \in Seq(S), q # <<>>, NEW r, NEW w, LastIsRight(q, r, w)
    PROVE  /\ LastIsRight(Tail(q), r, w)
           /\ Head(q).what \in TxKinds /\ ~Has(r, "updated", Head(q).index)
                /\ ~Has(Tail(q), "updated", Head(q).index)
              => Head(q).tx = w[Head(q).index + 1]
<1> DEFINE x == Tail(q)
<1>1. /\ Len(x) = Len(q) - 1 /\ Len(q) \in Nat /\ Len(q) > 0
      /\ \A k \in 1 .. Len(q) - 1 : x[k] = q[k + 1]
      /\ Head(q) = q[1]
  BY Dropped
<1> HIDE DEF x
<1>2. ASSUME NEW p \in 0 .. Len(x), NEW i, Later(q, p + 1, i)
      PROVE  \E k \in p + 1 .. Len(x) : About(x[k], "updated", i)
  <2>1. PICK k \in (p + 1) + 1 .. Len(q) : About(q[k], "updated", i)
    BY <1>2 DEF Later
  <2>2. k - 1 \in p + 1 .. Len(x) /\ k - 1 \in 1 .. Len(q) - 1 /\ (k - 1) + 1 = k
    BY <1>1
  <2>3. x[k - 1] = q[k]
    BY <1>1, <2>2
  <2> QED
    BY <2>1, <2>2, <2>3
<1>3. LastIsRight(x, r, w)
  <2> SUFFICES ASSUME NEW p \in 1 .. Len(x), x[p].what \in TxKinds, ~Has(r, "updated", x[p].index),
                      ~Later(x, p, x[p].index)
               PROVE  x[p].tx = w[x[p].index + 1]
    BY DEF LastIsRight
  <2>1. p + 1 \in 1 .. Len(q) /\ x[p] = q[p + 1] /\ p \in 0 .. Len(x)
    BY <1>1
  <2>2. ~Later(q, p + 1, x[p].index)
    BY <1>2, <2>1 DEF Later
  <2> QED
    BY <2>1, <2>2 DEF LastIsRight
<1>4. ASSUME Head(q).what \in TxKinds, ~Has(r, "updated", Head(q).index), ~Has(x, "updated", Head(q).index)
      PROVE  Head(q).tx = w[Head(q).index + 1]
  <2>1. 1 \in 1 .. Len(q) /\ 0 \in 0 .. Len(x) /\ 0 + 1 = 1
    BY <1>1
  <2>2. ~Later(q, 1, Head(q).index)
    BY <1>2, <1>4, <2>1 DEF Has
  <2> QED
    BY <1>1, <1>4, <2>1, <2>2 DEF LastIsRight
<1> QED
  BY <1>3, <1>4 DEF x

LEMMA RightMore ==
    ASSUME NEW S, NEW q \in Seq(S), NEW s \in S, NEW r, NEW rr, NEW w, LastIsRight(q, r, w),
           s.what \in TxKinds => s.tx = w[s.index + 1],
           \A i : Has(r, "updated", i) => Has(rr, "updated", i) \/ About(s, "updated", i)
    PROVE  LastIsRight(Append(q, s), rr, w)
<1> DEFINE x == Append(q, s)
<1>1. /\ Len(x) = Len(q) + 1 /\ Len(q) \in Nat
      /\ \A k \in 1 .. Len(q) : x[k] = q[k]
      /\ x[Len(q) + 1] = s
  BY Appended
<1> HIDE DEF x
<1>2. SUFFICES ASSUME NEW p \in 1 .. Len(x), x[p].what \in TxKinds, ~Has(rr, "updated", x[p].index),
                      ~Later(x, p, x[p].index)
               PROVE  x[p].tx = w[x[p].index + 1]
  BY DEF LastIsRight, x
<1>3. CASE p = Len(q) + 1
  BY <1>1, <1>2, <1>3
<1>4. CASE p \in 1 .. Len(q)
  <2>1. x[p] = q[p] /\ Len(q) + 1 \in p + 1 .. Len(x)
    BY <1>1, <1>4
  <2>2. ~About(s, "updated", x[p].index)
    BY <1>1, <1>2, <2>1 DEF Later
  <2>3. ~Has(r, "updated", x[p].index)
    BY <1>2, <2>2
  <2>4. ~Later(q, p, x[p].index)
    <3> SUFFICES ASSUME NEW k \in p + 1 .. Len(q), About(q[k], "updated", x[p].index) PROVE FALSE
      BY DEF Later
    <3>1. k \in p + 1 .. Len(x) /\ k \in 1 .. Len(q)
      BY <1>1, <1>4
    <3>2. x[k] = q[k]
      BY <1>1, <3>1
    <3> QED
      BY <1>2, <3>1, <3>2 DEF Later
  <2> QED
    BY <1>2, <1>4, <2>1, <2>3, <2>4 DEF LastIsRight
<1> QED
  BY <1>1, <1>3, <1>4

\* The wallet changes into v and leaves the event e.
Changed(v, w, e, n) == \A i \in 0 .. n - 1 : v[i + 1] = w[i + 1] \/ About(e, "updated", i)
Bounded(q, n) == \A p \in 1 .. Len(q) : q[p].what \in TxKinds => q[p].index \in 0 .. n - 1

LEMMA RightNews ==
    ASSUME NEW q, NEW S, NEW r \in Seq(S), NEW e \in S, NEW w, NEW v, NEW n,
           LastIsRight(q, r, w), Bounded(q, n), Changed(v, w, e, n)
    PROVE  LastIsRight(q, Append(r, e), v)
<1>1. \A i : Has(Append(r, e), "updated", i) <=> Has(r, "updated", i) \/ About(e, "updated", i)
  BY HasMore
<1>2. SUFFICES ASSUME NEW p \in 1 .. Len(q), q[p].what \in TxKinds,
                      ~Has(Append(r, e), "updated", q[p].index), ~Later(q, p, q[p].index)
               PROVE  q[p].tx = v[q[p].index + 1]
  BY DEF LastIsRight
<1>3. ~Has(r, "updated", q[p].index) /\ ~About(e, "updated", q[p].index)
  BY <1>1, <1>2
<1>4. v[q[p].index + 1] = w[q[p].index + 1]
  BY <1>2, <1>3 DEF Bounded, Changed
<1>5. q[p].tx = w[q[p].index + 1]
  BY <1>2, <1>3 DEF LastIsRight
<1> QED
  BY <1>4, <1>5

LEMMA BoundedMore ==
    ASSUME NEW S, NEW q \in Seq(S), NEW e \in S, NEW n, Bounded(q, n),
           e.what \in TxKinds => e.index \in 0 .. n - 1
    PROVE  Bounded(Append(q, e), n)
<1> DEFINE x == Append(q, e)
<1>1. /\ Len(x) = Len(q) + 1 /\ Len(q) \in Nat
      /\ \A k \in 1 .. Len(q) : x[k] = q[k]
      /\ x[Len(q) + 1] = e
  BY Appended
<1> HIDE DEF x
<1>2. \A p \in 1 .. Len(x) : p \in 1 .. Len(q) \/ p = Len(q) + 1
  BY <1>1
<1>3. Bounded(x, n)
  BY <1>1, <1>2 DEF Bounded
<1> QED
  BY <1>3 DEF x

LEMMA BoundedLess ==
    ASSUME NEW S, NEW q \in Seq(S), q # <<>>, NEW n, Bounded(q, n)
    PROVE  /\ Bounded(Tail(q), n)
           /\ Head(q).what \in TxKinds => Head(q).index \in 0 .. n - 1
<1> DEFINE x == Tail(q)
<1>1. /\ Len(x) = Len(q) - 1 /\ Len(q) \in Nat /\ Len(q) > 0
      /\ \A k \in 1 .. Len(q) - 1 : x[k] = q[k + 1]
      /\ Head(q) = q[1]
  BY Dropped
<1> HIDE DEF x
<1>2. \A p \in 1 .. Len(x) : p + 1 \in 1 .. Len(q) /\ x[p] = q[p + 1]
  BY <1>1
<1>3. Bounded(x, n)
  BY <1>2 DEF Bounded
<1>4. 1 \in 1 .. Len(q)
  BY <1>1
<1>5. Head(q).what \in TxKinds => Head(q).index \in 0 .. n - 1
  BY <1>1, <1>4 DEF Bounded
<1> QED
  BY <1>3, <1>5 DEF x

-----------------------------------------------------------------------------
(* The invariant of the history.                                           *)

HistTyped ==
  /\ phase \in {"closed", "loaded", "open", "closing", "stopped"}
  /\ wallet \in Seq(Versions) /\ Len(wallet) <= MaxTxs
  /\ raw \in Seq(WalletEvents) /\ queue \in Seq(WalletSignals)
  /\ Bounded(raw, Len(wallet)) /\ Bounded(queue, Len(wallet))
  /\ txs \in [DOMAIN txs -> Versions] /\ DOMAIN txs \subseteq 0 .. MaxTxs - 1
  /\ synced \in BOOLEAN /\ timer \in BOOLEAN /\ opened \in BOOLEAN
  /\ fault \in BOOLEAN /\ lost \in BOOLEAN
  /\ state \in [synced: BOOLEAN, current: 0 .. MaxBlocks, total: 0 .. MaxBlocks]
  /\ state.synced => synced

RowsTyped ==
  /\ last \in -1 .. MaxTxs - 1 /\ bits \in Seq(BOOLEAN)
  /\ Len(bits) = last + 1 /\ told = last + 1

\* walletClosed is the last of a wallet.
HistPhases ==
  /\ phase \in {"closed", "stopped"} => raw = <<>>
  /\ phase = "closed" => queue = <<>>
  /\ phase \in {"closed", "loaded"} => ~opened
  /\ \A p \in 1 .. Len(queue) : queue[p].what = "closed" => phase = "stopped" /\ p = Len(queue)

HistRead == ~lost /\ phase \in {"loaded", "open"} => LastIsRight(queue, raw, wallet)

\* The copy f of the first m transactions of the wallet w, between the queues.
Dense(f, m) == m \in Nat /\ DOMAIN f = 0 .. m - 1
AllTold(q, r, m, n) == \A j \in m .. n - 1 : Has(q, "created", j) \/ Has(r, "created", j)
Right(f, m, q, r, w) ==
  \A i \in 0 .. m - 1 : ~Has(q, "updated", i) /\ ~Has(r, "updated", i) => f[i] = w[i + 1]
HistCopy(m) ==
  /\ Dense(txs, m) /\ m <= Len(wallet) /\ last < m
  /\ Ordered(queue, <<>>, m) /\ Ordered(raw, queue, m)
  /\ phase \in {"open", "closing"} => AllTold(queue, raw, m, Len(wallet))
  /\ phase = "open" => Right(txs, m, queue, raw, wallet)
  /\ phase = "open" /\ synced => last = m - 1
HistCopied == opened /\ ~fault /\ ~lost => \E m \in Nat : HistCopy(m)

HistInv == HistTyped /\ RowsTyped /\ HistPhases /\ HistRead /\ HistCopied

LEMMA SameSize == \A S : History!Cardinality(S) = Cardinality(S)
BY DEF History!Cardinality, Cardinality

LEMMA DenseSize ==
    ASSUME NEW f, NEW m, Dense(f, m)
    PROVE  IsFiniteSet(DOMAIN f) /\ Cardinality(DOMAIN f) = m
<1>1. m \in Nat /\ DOMAIN f = 0 .. m - 1 /\ 0 \in Int /\ m - 1 \in Int
  BY DEF Dense
<1>2. IsFiniteSet(0 .. m - 1) /\ Cardinality(0 .. m - 1) = IF 0 > m - 1 THEN 0 ELSE (m - 1) - 0 + 1
  BY <1>1, FS_Interval
<1>3. (IF 0 > m - 1 THEN 0 ELSE (m - 1) - 0 + 1) = m
  BY <1>1
<1> QED
  BY <1>1, <1>2, <1>3

LEMMA BoundedSize ==
    ASSUME NEW f, DOMAIN f \subseteq 0 .. MaxTxs - 1
    PROVE  Cardinality(DOMAIN f) \in 0 .. MaxTxs
<1>1. MaxTxs \in Nat /\ 0 \in Int /\ MaxTxs - 1 \in Int
  BY HistoryAssumption
<1>2. /\ IsFiniteSet(0 .. MaxTxs - 1)
      /\ Cardinality(0 .. MaxTxs - 1) = IF 0 > MaxTxs - 1 THEN 0 ELSE (MaxTxs - 1) - 0 + 1
  BY <1>1, FS_Interval
<1>3. Cardinality(0 .. MaxTxs - 1) = MaxTxs
  BY <1>1, <1>2
<1>4. IsFiniteSet(DOMAIN f) /\ Cardinality(DOMAIN f) <= Cardinality(0 .. MaxTxs - 1)
  <2>1. DOMAIN f \in SUBSET (0 .. MaxTxs - 1)
    OBVIOUS
  <2> QED
    BY <1>2, <2>1, FS_Subset
<1>5. Cardinality(DOMAIN f) \in Nat
  BY <1>4, FS_CardinalityType
<1> QED
  BY <1>1, <1>3, <1>4, <1>5

LEMMA HistBegins == Init => HistInv
<1> SUFFICES ASSUME Init PROVE HistInv
  OBVIOUS
<1>1. /\ phase = "closed" /\ wallet = <<>> /\ raw = <<>> /\ queue = <<>>
      /\ txs = <<>> /\ last = -1 /\ bits = <<>> /\ synced = FALSE
      /\ timer = FALSE /\ told = 0
      /\ state = [synced |-> FALSE, current |-> 0, total |-> 0]
      /\ opened = FALSE /\ fault = FALSE /\ lost = FALSE
  BY DEF Init, History!Init, History!None
<1>2. MaxTxs \in Nat /\ MaxBlocks \in Nat /\ FALSE \in BOOLEAN
  BY HistoryAssumption
<1>3. HistTyped
  <2>1. /\ <<>> \in Seq(Versions) /\ <<>> \in Seq(WalletEvents) /\ <<>> \in Seq(WalletSignals)
        /\ Len(<<>>) = 0 /\ DOMAIN <<>> = {}
    OBVIOUS
  <2>2. txs \in [DOMAIN txs -> Versions]
    BY <1>1
  <2>3. state \in [synced: BOOLEAN, current: 0 .. MaxBlocks, total: 0 .. MaxBlocks] /\ state.synced = FALSE
    BY <1>1, <1>2
  <2>4. Bounded(<<>>, 0)
    BY DEF Bounded
  <2>5. wallet \in Seq(Versions) /\ raw \in Seq(WalletEvents) /\ queue \in Seq(WalletSignals)
    BY <1>1, <2>1
  <2>6. Len(wallet) = 0
    BY <1>1
  <2>7. Bounded(raw, Len(wallet)) /\ Bounded(queue, Len(wallet))
    BY <1>1, <2>4, <2>6
  <2>8. Len(wallet) <= MaxTxs
    BY <1>2, <2>6
  <2>9. DOMAIN txs = {}
    BY <1>1, <2>1
  <2> QED
    BY <1>1, <1>2, <2>2, <2>3, <2>5, <2>7, <2>8, <2>9, Zenon DEF HistTyped
<1>4. RowsTyped
  BY <1>1, <1>2 DEF RowsTyped
<1>5. HistPhases
  BY <1>1 DEF HistPhases
<1>6. HistRead /\ HistCopied
  BY <1>1 DEF HistRead, HistCopied
<1> QED
  BY <1>3, <1>4, <1>5, <1>6 DEF HistInv

\* showAllCachedTransactions leaves as many flags and announced rows as it shows.
LEMMA RowsShown ==
    ASSUME RowsTyped, NEW f, DOMAIN f \subseteq 0 .. MaxTxs - 1, History!ShowAllCached(f)
    PROVE  /\ RowsTyped'
           /\ \A m : Dense(f, m) /\ last < m => last' < m /\ (phase = "open" => last' = m - 1)
<1> DEFINE n == Cardinality(DOMAIN f)
<1>1. n \in 0 .. MaxTxs /\ MaxTxs \in Nat
  BY BoundedSize, HistoryAssumption
<1>2. /\ last \in -1 .. MaxTxs - 1 /\ bits \in Seq(BOOLEAN) /\ Len(bits) = last + 1 /\ told = last + 1
  BY DEF RowsTyped
<1>0. History!Cardinality(DOMAIN f) = n
  BY SameSize
<1>3. \A m : Dense(f, m) => m = n /\ (DOMAIN f = {} <=> m = 0)
  <2> SUFFICES ASSUME NEW m, Dense(f, m) PROVE m = n /\ (DOMAIN f = {} <=> m = 0)
    OBVIOUS
  <2>1. m = n
    BY DenseSize
  <2>2. DOMAIN f = {} <=> m = 0
    <3>1. m \in Nat /\ DOMAIN f = 0 .. m - 1
      BY DEF Dense
    <3>2. CASE m = 0
      BY <3>1, <3>2
    <3>3. CASE m # 0
      <4>1. 0 \in 0 .. m - 1
        BY <3>1, <3>3
      <4> QED
        BY <3>1, <3>3, <4>1
    <3> QED
      BY <3>2, <3>3
  <2> QED
    BY <2>1, <2>2
<1>4. CASE History!Shows(f)
  <2> DEFINE bs == [i \in 1 .. n |-> i <= Len(bits) /\ bits[i]]
  <2>1. last' = n - 1 /\ bits' = bs /\ told' = told + (n - last - 1)
    BY <1>0, <1>4 DEF History!ShowAllCached
  <2>2. n - 1 >= last + 1
    BY <1>0, <1>4 DEF History!Shows
  <2> HIDE DEF n
  <2>3. \A i \in 1 .. n : (i <= Len(bits) /\ bits[i]) \in BOOLEAN
    OBVIOUS
  <2>4. bs \in Seq(BOOLEAN) /\ Len(bs) = n
    BY <1>1, <2>3
  <2> HIDE DEF bs
  <2>5. RowsTyped'
    <3>1. last' \in -1 .. MaxTxs - 1 /\ n = last' + 1 /\ told' = last' + 1
      BY <1>1, <1>2, <2>1
    <3> QED
      BY <2>1, <2>4, <3>1 DEF RowsTyped
  <2> QED
    BY <1>1, <1>3, <2>1, <2>5
<1>5. CASE ~History!Shows(f)
  <2>1. UNCHANGED <<last, bits, told>>
    BY <1>5 DEF History!ShowAllCached
  <2>2. RowsTyped'
    BY <2>1 DEF RowsTyped
  <2>3. ASSUME NEW m, Dense(f, m), last < m, phase = "open" PROVE last = m - 1
    <3>1. m = n /\ (DOMAIN f = {} <=> m = 0) /\ (DOMAIN f = {} \/ ~(n - 1 >= last + 1))
      BY <1>0, <1>3, <1>5, <2>3 DEF History!Shows
    <3> HIDE DEF n
    <3>2. CASE m = 0
      BY <1>1, <1>2, <2>3, <3>2
    <3>3. CASE m # 0
      BY <1>1, <1>2, <2>3, <3>1, <3>3
    <3> QED
      BY <3>2, <3>3
  <2> QED
    BY <2>1, <2>2, <2>3
<1> QED
  BY <1>4, <1>5

-----------------------------------------------------------------------------
(* The wallet's steps.                                                     *)

Untouched == UNCHANGED <<txs, last, bits, synced, timer, told, state, opened, fault>>

LEMMA HistNumbers ==
    ASSUME HistInv
    PROVE  /\ Len(wallet) \in Nat /\ MaxTxs \in Nat /\ MaxBlocks \in Nat
           /\ last \in Int /\ wallet \in Seq(Versions)
           /\ raw \in Seq(WalletEvents) /\ queue \in Seq(WalletSignals)
BY HistoryAssumption DEF HistInv, HistTyped, RowsTyped

\* The wallet leaves an event.
LEMMA NewsKeeps ==
    ASSUME HistInv, NEW e \in WalletEvents, History!News(e),
           wallet' \in Seq(Versions), Len(wallet') <= MaxTxs,
           Changed(wallet', wallet, e, Len(wallet)),
           \/ e.what = "created" /\ e.index = Len(wallet) /\ Len(wallet') = Len(wallet) + 1
           \/ e.what # "created" /\ Len(wallet') = Len(wallet)
              /\ (e.what \in TxKinds => e.index \in 0 .. Len(wallet) - 1)
    PROVE  HistInv'
<1>1. HistTyped /\ RowsTyped /\ HistPhases /\ HistRead /\ HistCopied
  BY DEF HistInv
<1>2. /\ Len(wallet) \in Nat /\ MaxTxs \in Nat /\ last \in Int /\ wallet \in Seq(Versions)
      /\ raw \in Seq(WalletEvents) /\ queue \in Seq(WalletSignals)
  BY HistNumbers
<1>3. /\ phase \in {"loaded", "open", "closing"} /\ raw' = Append(raw, e)
      /\ UNCHANGED <<phase, queue, lost>>
      /\ UNCHANGED <<txs, last, bits, synced, timer, told, state, opened, fault>>
  BY DEF History!News, History!models
<1>4. Bounded(queue, Len(wallet')) /\ Bounded(raw, Len(wallet'))
  BY <1>1, <1>2 DEF HistTyped, Bounded
<1>5. raw' \in Seq(WalletEvents) /\ Bounded(raw', Len(wallet'))
  <2>1. e.what \in TxKinds => e.index \in 0 .. Len(wallet') - 1
    BY <1>2
  <2> QED
    BY <1>2, <1>3, <1>4, <2>1, Appended, BoundedMore
<1>6. HistTyped' /\ RowsTyped'
  BY <1>1, <1>3, <1>4, <1>5 DEF HistTyped, RowsTyped
<1>7. HistPhases'
  BY <1>1, <1>3 DEF HistPhases
<1>8. HistRead'
  <2>1. LastIsRight(queue, raw, wallet) => LastIsRight(queue, Append(raw, e), wallet')
    BY <1>1, <1>2, RightNews DEF HistTyped
  <2> QED
    BY <1>1, <1>3, <2>1 DEF HistRead
<1>9. HistCopied'
  <2> SUFFICES ASSUME opened, ~fault, ~lost PROVE \E m \in Nat : HistCopy(m)'
    BY <1>3 DEF HistCopied
  <2>1. PICK m \in Nat : HistCopy(m)
    BY <1>1 DEF HistCopied
  <2>2. phase \in {"open", "closing"}
    BY <1>1, <1>3 DEF HistPhases
  <2>3. \A i, w : Has(raw', w, i) <=> Has(raw, w, i) \/ About(e, w, i)
    BY <1>2, <1>3, HasMore
  <2>4. /\ m <= Len(wallet) /\ Ordered(raw, queue, m) /\ AllTold(queue, raw, m, Len(wallet))
    BY <2>1, <2>2 DEF HistCopy
  <2>5. Ordered(raw', queue, m)
    <3>1. ASSUME e.what \in TxKinds, Needs(e) >= m
          PROVE  Has(raw, "created", Needs(e)) \/ Has(queue, "created", Needs(e))
      <4>1. Needs(e) \in m .. Len(wallet) - 1
        <5>1. CASE e.what = "created"
          BY <1>2, <3>1, <5>1 DEF Needs
        <5>2. CASE e.what # "created"
          BY <1>2, <3>1, <5>2 DEF Needs
        <5> QED
          BY <5>1, <5>2
      <4> QED
        BY <2>4, <4>1 DEF AllTold
    <3> QED
      BY <1>2, <1>3, <2>4, <3>1, OrderedMore
  <2>6. AllTold(queue, raw', m, Len(wallet'))
    <3> SUFFICES ASSUME NEW j \in m .. Len(wallet') - 1
                 PROVE  Has(queue, "created", j) \/ Has(raw', "created", j)
      BY DEF AllTold
    <3>1. CASE j \in m .. Len(wallet) - 1
      BY <2>3, <2>4, <3>1 DEF AllTold
    <3>2. CASE j \notin m .. Len(wallet) - 1
      <4>1. e.what = "created" /\ e.index = j
        BY <1>2, <3>2
      <4> QED
        BY <2>3, <4>1 DEF About
    <3> QED
      BY <3>1, <3>2
  <2>7. phase = "open" => Right(txs, m, queue, raw', wallet')
    <3> SUFFICES ASSUME phase = "open", NEW i \in 0 .. m - 1,
                        ~Has(queue, "updated", i), ~Has(raw', "updated", i)
                 PROVE  txs[i] = wallet'[i + 1]
      BY DEF Right
    <3>1. ~Has(raw, "updated", i) /\ ~About(e, "updated", i) /\ i \in 0 .. Len(wallet) - 1
      BY <1>2, <2>3, <2>4
    <3>2. txs[i] = wallet[i + 1]
      BY <2>1, <3>1 DEF HistCopy, Right
    <3>3. wallet'[i + 1] = wallet[i + 1]
      BY <3>1 DEF Changed
    <3> QED
      BY <3>2, <3>3
  <2>8. m <= Len(wallet')
    BY <1>2, <2>4
  <2>9. HistCopy(m)'
    BY <1>3, <2>1, <2>5, <2>6, <2>7, <2>8 DEF HistCopy
  <2> QED
    BY <2>9
<1> QED
  BY <1>6, <1>7, <1>8, <1>9 DEF HistInv

LEMMA WalletKeeps ==
    ASSUME HistInv, History!Wallet
    PROVE  HistInv'
<1>1. /\ Len(wallet) \in Nat /\ MaxTxs \in Nat /\ MaxBlocks \in Nat /\ wallet \in Seq(Versions)
      /\ Len(wallet) <= MaxTxs
  BY HistNumbers DEF HistInv, HistTyped
<1>2. ASSUME History!Receives PROVE HistInv'
  <2> DEFINE e == [what |-> "created", index |-> Len(wallet)]
  <2>1. /\ Len(wallet) < MaxTxs /\ wallet' = Append(wallet, "unconfirmed") /\ History!News(e)
    BY <1>2 DEF History!Receives
  <2>2. e \in WalletEvents /\ e.what = "created" /\ e.index = Len(wallet)
    BY <1>1 DEF WalletEvents, TxKinds
  <2> HIDE DEF e
  <2>3. "unconfirmed" \in Versions
    BY DEF Versions
  <2>4. /\ wallet' \in Seq(Versions) /\ Len(wallet') = Len(wallet) + 1
        /\ \A k \in 1 .. Len(wallet) : wallet'[k] = wallet[k]
    BY <1>1, <2>1, <2>3, Appended
  <2>5. Changed(wallet', wallet, e, Len(wallet))
    BY <1>1, <2>4 DEF Changed
  <2>6. Len(wallet') <= MaxTxs
    BY <1>1, <2>1, <2>4
  <2> QED
    BY <2>1, <2>2, <2>4, <2>5, <2>6, NewsKeeps
<1>3. ASSUME History!Changes PROVE HistInv'
  <2>1. PICK i \in DOMAIN wallet :
          /\ wallet' = [wallet EXCEPT ![i] = CHOOSE v \in History!Versions : v # wallet[i]]
          /\ History!News([what |-> "updated", index |-> i - 1])
    BY <1>3 DEF History!Changes
  <2> DEFINE e == [what |-> "updated", index |-> i - 1]
             c == CHOOSE v \in Versions : v # wallet[i]
  <2>2. c \in Versions
    <3>1. \E v \in Versions : v # wallet[i]
      BY DEF Versions
    <3> QED
      BY <3>1
  <2>3. wallet' = [wallet EXCEPT ![i] = c] /\ i \in 1 .. Len(wallet)
    BY <1>1, <2>1 DEF History!Versions, Versions
  <2> HIDE DEF c
  <2>4. /\ wallet' \in Seq(Versions) /\ Len(wallet') = Len(wallet)
        /\ \A k \in 1 .. Len(wallet) : k # i => wallet'[k] = wallet[k]
    BY <1>1, <2>2, <2>3
  <2>5. /\ e \in WalletEvents /\ e.what = "updated" /\ e.index = i - 1
        /\ e.index \in 0 .. Len(wallet) - 1
    BY <1>1, <2>3 DEF WalletEvents, TxKinds
  <2>6. History!News(e)
    BY <2>1
  <2> HIDE DEF e
  <2>7. Changed(wallet', wallet, e, Len(wallet))
    <3> SUFFICES ASSUME NEW j \in 0 .. Len(wallet) - 1, ~About(e, "updated", j)
                 PROVE  wallet'[j + 1] = wallet[j + 1]
      BY DEF Changed
    <3>1. j # i - 1
      BY <2>5 DEF About
    <3>2. j + 1 \in 1 .. Len(wallet) /\ j + 1 # i
      BY <1>1, <2>3, <3>1
    <3> QED
      BY <2>4, <3>2
  <2> QED
    BY <1>1, <2>4, <2>5, <2>6, <2>7, NewsKeeps
<1>4. ASSUME History!Synchronises PROVE HistInv'
  <2>1. UNCHANGED wallet
    BY <1>4 DEF History!Synchronises
  <2>2. PICK e \in WalletEvents : History!News(e) /\ e.what \in {"progress", "completed"}
    <3>1. CASE \E t \in 1 .. MaxBlocks : \E c \in 0 .. t :
                 History!News([what |-> "progress", current |-> c, total |-> t])
      <4>0. PICK t \in 1 .. MaxBlocks : \E c \in 0 .. t :
                   History!News([what |-> "progress", current |-> c, total |-> t])
        BY <3>1
      <4>1. PICK c \in 0 .. t : History!News([what |-> "progress", current |-> c, total |-> t])
        BY <4>0
      <4>2. c \in 0 .. MaxBlocks /\ t \in 0 .. MaxBlocks
        BY <1>1
      <4>3. [what |-> "progress", current |-> c, total |-> t] \in WalletEvents
        BY <4>2 DEF WalletEvents
      <4> QED
        BY <4>1, <4>3
    <3>2. CASE History!News([what |-> "completed"])
      <4>1. [what |-> "completed"] \in WalletEvents
        BY DEF WalletEvents
      <4> QED
        BY <3>2, <4>1
    <3> QED
      BY <1>4, <3>1, <3>2 DEF History!Synchronises
  <2>3. Changed(wallet', wallet, e, Len(wallet))
    BY <2>1 DEF Changed
  <2>4. e.what # "created" /\ e.what \notin TxKinds
    BY <2>2 DEF TxKinds
  <2>5. wallet' \in Seq(Versions) /\ Len(wallet') <= MaxTxs /\ Len(wallet') = Len(wallet)
    BY <1>1, <2>1
  <2> QED
    BY <2>2, <2>3, <2>4, <2>5, NewsKeeps
<1> QED
  BY <1>2, <1>3, <1>4 DEF History!Wallet

\* The event loop reads the oldest event.
LEMMA TakenKeeps ==
    ASSUME HistInv, phase \in {"loaded", "open", "closing"}, raw # <<>>, NEW s \in WalletSignals,
           s.what \notin {"opened", "closed"}, raw' = Tail(raw), queue' = Append(queue, s),
           s.what \in TxKinds => Reads(s, Head(raw)) /\ s.tx = wallet[s.index + 1],
           Head(raw).what \in TxKinds => Reads(s, Head(raw)),
           UNCHANGED <<phase, wallet, lost>>, Untouched
    PROVE  HistInv'
<1>1. HistTyped /\ RowsTyped /\ HistPhases /\ HistRead /\ HistCopied
  BY DEF HistInv
<1>2. /\ Len(wallet) \in Nat /\ MaxTxs \in Nat /\ last \in Int /\ wallet \in Seq(Versions)
      /\ raw \in Seq(WalletEvents) /\ queue \in Seq(WalletSignals)
  BY HistNumbers
<1>3. /\ Bounded(Tail(raw), Len(wallet)) /\ Tail(raw) \in Seq(WalletEvents)
      /\ Head(raw).what \in TxKinds => Head(raw).index \in 0 .. Len(wallet) - 1
  BY <1>1, <1>2, BoundedLess, Dropped DEF HistTyped
<1>4. s.what \in TxKinds => Head(raw).what \in TxKinds /\ s.index = Head(raw).index
  BY DEF Reads
<1>5. Bounded(queue', Len(wallet)) /\ queue' \in Seq(WalletSignals)
  BY <1>1, <1>2, <1>3, <1>4, BoundedMore, Appended DEF HistTyped
<1>6. \A w, i : Has(raw, w, i) <=> Has(raw', w, i) \/ About(Head(raw), w, i)
  BY <1>2, HasLess
<1>7. \A w, i : Has(queue', w, i) <=> Has(queue, w, i) \/ About(s, w, i)
  BY <1>2, HasMore
<1>8. \A i : (About(Head(raw), "created", i) => About(s, "created", i))
             /\ (About(Head(raw), "updated", i) => About(s, "updated", i))
  BY DEF About, Reads, TxKinds
<1>9. HistTyped' /\ RowsTyped'
  BY <1>1, <1>3, <1>5 DEF HistTyped, RowsTyped, Untouched
<1>10. HistPhases'
  <2>1. /\ Len(queue') = Len(queue) + 1 /\ Len(queue) \in Nat
        /\ \A k \in 1 .. Len(queue) : queue'[k] = queue[k]
        /\ queue'[Len(queue) + 1] = s
    BY <1>2, Appended
  <2>2. \A p \in 1 .. Len(queue') : queue'[p].what # "closed"
    <3> SUFFICES ASSUME NEW p \in 1 .. Len(queue') PROVE queue'[p].what # "closed"
      OBVIOUS
    <3>1. CASE p \in 1 .. Len(queue)
      BY <1>1, <2>1, <3>1 DEF HistPhases
    <3>2. CASE p = Len(queue) + 1
      BY <2>1, <3>2
    <3> QED
      BY <2>1, <3>1, <3>2
  <2> QED
    BY <1>1, <2>2 DEF HistPhases, Untouched
<1>11. HistRead'
  <2>1. \A i : Has(raw, "updated", i) => Has(raw', "updated", i) \/ About(s, "updated", i)
    BY <1>6, <1>8
  <2>2. LastIsRight(queue, raw, wallet) => LastIsRight(Append(queue, s), raw', wallet)
    BY <1>2, <2>1, RightMore
  <2> QED
    BY <1>1, <2>2 DEF HistRead
<1>12. HistCopied'
  <2> SUFFICES ASSUME opened, ~fault, ~lost PROVE \E m \in Nat : HistCopy(m)'
    BY DEF HistCopied, Untouched
  <2>1. PICK m \in Nat : HistCopy(m)
    BY <1>1 DEF HistCopied
  <2>2. Ordered(raw', queue', m) /\ Ordered(queue', <<>>, m)
    <3>1. Ordered(queue, <<>>, m) /\ Ordered(raw, queue, m)
      BY <2>1 DEF HistCopy
    <3>2. s.what \in TxKinds => Reads(s, Head(raw))
      OBVIOUS
    <3> QED
      BY <1>2, <3>1, <3>2, OrderedMoved
  <2>3. AllTold(queue, raw, m, Len(wallet)) => AllTold(queue', raw', m, Len(wallet))
    BY <1>6, <1>7, <1>8 DEF AllTold
  <2>4. Right(txs, m, queue, raw, wallet) => Right(txs, m, queue', raw', wallet)
    BY <1>6, <1>7, <1>8 DEF Right
  <2>5. HistCopy(m)'
    BY <2>1, <2>2, <2>3, <2>4 DEF HistCopy, Untouched
  <2> QED
    BY <2>5
<1> QED
  BY <1>9, <1>10, <1>11, <1>12 DEF HistInv

\* The event loop takes an event: it reads the transaction, fails to, or passes it on.
LEMMA ProcessKeeps ==
    ASSUME HistInv, History!ProcessEvent
    PROVE  HistInv'
<1> DEFINE e == Head(raw)
<1>1. HistTyped /\ RowsTyped /\ HistPhases /\ HistRead /\ HistCopied
  BY DEF HistInv
<1>2. /\ Len(wallet) \in Nat /\ wallet \in Seq(Versions)
      /\ raw \in Seq(WalletEvents) /\ queue \in Seq(WalletSignals)
  BY HistNumbers
<1>3. /\ phase \in {"loaded", "open", "closing"} /\ raw # <<>> /\ raw' = Tail(raw)
      /\ UNCHANGED <<phase, wallet>> /\ Untouched
  BY DEF History!ProcessEvent, History!models, Untouched
<1>4. /\ e \in WalletEvents /\ Bounded(Tail(raw), Len(wallet)) /\ Tail(raw) \in Seq(WalletEvents)
      /\ e.what \in TxKinds => e.index \in 0 .. Len(wallet) - 1
  BY <1>1, <1>2, <1>3, BoundedLess, Dropped DEF HistTyped
<1>5. ASSUME e.what \in {"created", "updated"}, UNCHANGED lost,
             queue' = Append(queue, [what |-> e.what, index |-> e.index, tx |-> wallet[e.index + 1]])
      PROVE  HistInv'
  <2> DEFINE s == [what |-> e.what, index |-> e.index, tx |-> wallet[e.index + 1]]
  <2>1. e.what \in TxKinds /\ e.index \in Nat /\ e.index + 1 \in 1 .. Len(wallet)
    BY <1>2, <1>4, <1>5 DEF TxKinds
  <2>2. wallet[e.index + 1] \in Versions
    BY <1>2, <2>1
  <2>3. s \in WalletSignals
    BY <2>1, <2>2 DEF WalletSignals
  <2>4. s.what = e.what /\ s.index = e.index /\ s.tx = wallet[s.index + 1]
    OBVIOUS
  <2>5. queue' = Append(queue, s)
    BY <1>5
  <2> HIDE DEF s, e
  <2>6. Reads(s, e) /\ s.what \notin {"opened", "closed"}
    BY <2>1, <2>4 DEF Reads, TxKinds
  <2>7. phase \in {"loaded", "open", "closing"} /\ raw # <<>> /\ raw' = Tail(raw)
    BY <1>3
  <2>8. UNCHANGED <<phase, wallet, lost>> /\ Untouched
    BY <1>3, <1>5
  <2> QED
    BY <2>3, <2>4, <2>5, <2>6, <2>7, <2>8, TakenKeeps DEF e
<1>6. ASSUME lost' = TRUE, UNCHANGED queue PROVE HistInv'
  <2>1. HistTyped' /\ RowsTyped'
    BY <1>1, <1>3, <1>4, <1>6 DEF HistTyped, RowsTyped, Untouched
  <2>2. HistPhases'
    BY <1>1, <1>3, <1>6 DEF HistPhases, Untouched
  <2>3. HistRead' /\ HistCopied'
    BY <1>6 DEF HistRead, HistCopied
  <2> QED
    BY <2>1, <2>2, <2>3 DEF HistInv
<1>7. ASSUME e.what \in {"progress", "completed"}, queue' = Append(queue, e), UNCHANGED lost PROVE HistInv'
  <2>1. e \in WalletSignals /\ e.what \notin TxKinds /\ e.what \notin {"opened", "closed"}
    BY <1>4, <1>7, EventKinds DEF TxKinds
  <2> QED
    BY <1>3, <1>7, <2>1, TakenKeeps
<1> QED
  BY <1>5, <1>6, <1>7 DEF History!ProcessEvent

-----------------------------------------------------------------------------
(* A wallet is opened and closed.                                          *)

LEMMA StartKeeps ==
    ASSUME HistInv, History!StartEventLoop
    PROVE  HistInv'
<1>1. HistTyped /\ RowsTyped /\ HistPhases
  BY DEF HistInv
<1>2. PICK n \in 0 .. MaxTxs : \E w \in [1 .. n -> History!Versions] :
        /\ phase = "closed" /\ phase' = "loaded" /\ wallet' = w /\ lost' = FALSE
        /\ UNCHANGED <<raw, queue>> /\ Untouched
  BY DEF History!StartEventLoop, History!models, Untouched
<1>3. n \in Nat /\ n <= MaxTxs
  BY HistoryAssumption
<1>4. wallet' \in Seq(Versions) /\ Len(wallet') = n
  BY <1>2, <1>3 DEF History!Versions, Versions
<1>5. raw' = <<>> /\ queue' = <<>> /\ ~opened
  BY <1>1, <1>2 DEF HistPhases
<1>6. /\ <<>> \in Seq(WalletEvents) /\ <<>> \in Seq(WalletSignals)
      /\ \A k : Bounded(<<>>, k)
  BY DEF Bounded
<1>7. HistTyped' /\ RowsTyped'
  <2>1. raw' \in Seq(WalletEvents) /\ queue' \in Seq(WalletSignals)
    BY <1>5, <1>6
  <2>2. Bounded(raw', Len(wallet')) /\ Bounded(queue', Len(wallet'))
    BY <1>5, <1>6
  <2>3. Len(wallet') <= MaxTxs /\ phase' = "loaded" /\ lost' \in BOOLEAN
    BY <1>2, <1>3, <1>4
  <2> QED
    BY <1>1, <1>2, <1>4, <2>1, <2>2, <2>3 DEF HistTyped, RowsTyped, Untouched
<1>8. HistPhases'
  BY <1>2, <1>5 DEF HistPhases, Untouched
<1>9. HistRead'
  <2>1. \A r, w : LastIsRight(<<>>, r, w)
    BY DEF LastIsRight
  <2>2. LastIsRight(<<>>, raw', wallet')
    BY <2>1
  <2> QED
    BY <1>5, <2>2 DEF HistRead
<1>10. HistCopied'
  BY <1>2, <1>5 DEF HistCopied, Untouched
<1> QED
  BY <1>7, <1>8, <1>9, <1>10 DEF HistInv

LEMMA EmitKeeps ==
    ASSUME HistInv, History!EmitOpened
    PROVE  HistInv'
<1> DEFINE s == [what |-> "opened"]
<1>1. HistTyped /\ RowsTyped /\ HistPhases /\ HistRead /\ HistCopied
  BY DEF HistInv
<1>2. raw \in Seq(WalletEvents) /\ queue \in Seq(WalletSignals)
  BY HistNumbers
<1>3. /\ phase = "loaded" /\ phase' = "open" /\ queue' = Append(queue, s)
      /\ UNCHANGED <<wallet, raw, lost>> /\ Untouched
  BY DEF History!EmitOpened, History!models, Untouched
<1>4. s \in WalletSignals /\ s.what \notin TxKinds /\ s.what # "closed"
  BY DEF WalletSignals, TxKinds
<1> HIDE DEF s
<1>5. Bounded(queue', Len(wallet)) /\ queue' \in Seq(WalletSignals)
  BY <1>1, <1>2, <1>3, <1>4, BoundedMore, Appended DEF HistTyped
<1>6. HistTyped' /\ RowsTyped'
  BY <1>1, <1>3, <1>5 DEF HistTyped, RowsTyped, Untouched
<1>7. HistPhases'
  <2>1. /\ Len(queue') = Len(queue) + 1 /\ Len(queue) \in Nat
        /\ \A k \in 1 .. Len(queue) : queue'[k] = queue[k]
        /\ queue'[Len(queue) + 1] = s
    BY <1>2, <1>3, <1>4, Appended
  <2>2. \A p \in 1 .. Len(queue') : p \in 1 .. Len(queue) \/ p = Len(queue) + 1
    BY <2>1
  <2>3. \A p \in 1 .. Len(queue') : queue'[p].what # "closed"
    BY <1>1, <1>3, <1>4, <2>1, <2>2 DEF HistPhases
  <2> QED
    BY <1>1, <1>3, <2>3 DEF HistPhases, Untouched
<1>8. HistRead'
  <2>1. LastIsRight(queue, raw, wallet) => LastIsRight(Append(queue, s), raw, wallet)
    BY <1>2, <1>4, RightMore
  <2> QED
    BY <1>1, <1>3, <2>1 DEF HistRead
<1>9. HistCopied'
  BY <1>1, <1>3 DEF HistPhases, HistCopied, Untouched
<1> QED
  BY <1>6, <1>7, <1>8, <1>9 DEF HistInv

LEMMA CloseKeeps ==
    ASSUME HistInv, History!Close
    PROVE  HistInv'
<1>1. HistTyped /\ RowsTyped /\ HistPhases /\ HistCopied
  BY DEF HistInv
<1>2. /\ phase = "open" /\ phase' = "closing"
      /\ UNCHANGED <<wallet, raw, queue, lost>> /\ Untouched
  BY DEF History!Close, History!models, Untouched
<1>3. HistTyped' /\ RowsTyped'
  BY <1>1, <1>2 DEF HistTyped, RowsTyped, Untouched
<1>4. HistPhases'
  BY <1>1, <1>2 DEF HistPhases, Untouched
<1>5. HistRead'
  BY <1>2 DEF HistRead
<1>6. HistCopied'
  <2>1. \A m \in Nat : HistCopy(m) => HistCopy(m)'
    BY <1>2 DEF HistCopy, Untouched
  <2> QED
    BY <1>1, <1>2, <2>1 DEF HistCopied, Untouched
<1> QED
  BY <1>3, <1>4, <1>5, <1>6 DEF HistInv

\* The thread ends: what its loop had not taken is gone.
LEMMA EndKeeps ==
    ASSUME HistInv, History!ThreadEnds
    PROVE  HistInv'
<1> DEFINE s == [what |-> "closed"]
<1>1. HistTyped /\ RowsTyped /\ HistPhases /\ HistCopied
  BY DEF HistInv
<1>2. queue \in Seq(WalletSignals)
  BY HistNumbers
<1>3. /\ phase = "closing" /\ phase' = "stopped" /\ raw' = <<>> /\ queue' = Append(queue, s)
      /\ UNCHANGED <<wallet, lost>> /\ Untouched
  BY DEF History!ThreadEnds, History!models, Untouched
<1>4. s \in WalletSignals /\ s.what \notin TxKinds /\ s.what = "closed"
  BY DEF WalletSignals, TxKinds
<1> HIDE DEF s
<1>5. Bounded(queue', Len(wallet)) /\ queue' \in Seq(WalletSignals)
  BY <1>1, <1>2, <1>3, <1>4, BoundedMore, Appended DEF HistTyped
<1>6. <<>> \in Seq(WalletEvents) /\ \A k : Bounded(<<>>, k)
  BY DEF Bounded
<1>7. HistTyped' /\ RowsTyped'
  BY <1>1, <1>3, <1>5, <1>6 DEF HistTyped, RowsTyped, Untouched
<1>8. HistPhases'
  <2>1. /\ Len(queue') = Len(queue) + 1 /\ Len(queue) \in Nat
        /\ \A k \in 1 .. Len(queue) : queue'[k] = queue[k]
    BY <1>2, <1>3, <1>4, Appended
  <2>2. \A p \in 1 .. Len(queue') : p \in 1 .. Len(queue) \/ p = Len(queue')
    BY <2>1
  <2>3. \A p \in 1 .. Len(queue') : queue'[p].what = "closed" => p = Len(queue')
    BY <1>1, <1>3, <2>1, <2>2 DEF HistPhases
  <2> QED
    BY <1>1, <1>3, <2>3 DEF HistPhases, Untouched
<1>9. HistRead'
  BY <1>3 DEF HistRead
<1>10. HistCopied'
  <2> SUFFICES ASSUME opened, ~fault, ~lost PROVE \E m \in Nat : HistCopy(m)'
    BY <1>3 DEF HistCopied, Untouched
  <2>1. PICK m \in Nat : HistCopy(m)
    BY <1>1 DEF HistCopied
  <2>2. Ordered(queue', <<>>, m) /\ Ordered(<<>>, queue', m)
    <3>1. Ordered(queue, <<>>, m) => Ordered(Append(queue, s), <<>>, m)
      BY <1>2, <1>4, OrderedMore
    <3>2. \A q : Ordered(<<>>, q, m)
      BY DEF Ordered
    <3> QED
      BY <1>3, <2>1, <3>1, <3>2 DEF HistCopy
  <2>3. HistCopy(m)'
    BY <1>3, <2>1, <2>2 DEF HistCopy, Untouched
  <2> QED
    BY <2>3
<1> QED
  BY <1>7, <1>8, <1>9, <1>10 DEF HistInv

-----------------------------------------------------------------------------
(* The slots of the models.                                                *)

\* What a slot is called with, and what is left of the queue.
LEMMA SlotTaken ==
    ASSUME HistInv, NEW what, History!Slot(what)
    PROVE  /\ phase \in {"open", "closing", "stopped"} /\ ~fault
           /\ queue # <<>> /\ queue' = Tail(queue) /\ queue' \in Seq(WalletSignals)
           /\ Head(queue) \in WalletSignals /\ Head(queue).what = what
           /\ Bounded(queue', Len(wallet))
           /\ what \in TxKinds => /\ Head(queue).index \in 0 .. Len(wallet) - 1
                                  /\ Head(queue).tx \in Versions
           /\ what = "closed" => phase = "stopped" /\ queue' = <<>>
           /\ \A p \in 1 .. Len(queue') :
                queue'[p].what = "closed" => phase = "stopped" /\ p = Len(queue')
           /\ \A w, i : Has(queue, w, i) <=> Has(queue', w, i) \/ About(Head(queue), w, i)
<1>1. HistTyped /\ HistPhases /\ queue \in Seq(WalletSignals)
  BY HistNumbers DEF HistInv
<1>2. /\ phase \in {"open", "closing", "stopped"} /\ ~fault
      /\ queue # <<>> /\ queue' = Tail(queue) /\ Head(queue).what = what
  BY DEF History!Slot
<1>3. /\ queue' \in Seq(WalletSignals) /\ Len(queue) \in Nat /\ Len(queue) > 0
      /\ Len(queue') = Len(queue) - 1
      /\ \A k \in 1 .. Len(queue) - 1 : queue'[k] = queue[k + 1]
      /\ Head(queue) = queue[1] /\ Head(queue) \in WalletSignals
  BY <1>1, <1>2, Dropped
<1>4. /\ Bounded(queue', Len(wallet))
      /\ what \in TxKinds => Head(queue).index \in 0 .. Len(wallet) - 1
  BY <1>1, <1>2, BoundedLess DEF HistTyped
<1>5. what \in TxKinds => Head(queue).tx \in Versions
  BY <1>2, <1>3, SignalKinds
<1>6. what = "closed" => phase = "stopped" /\ queue' = <<>>
  <2> SUFFICES ASSUME what = "closed" PROVE phase = "stopped" /\ queue' = <<>>
    OBVIOUS
  <2>1. 1 \in 1 .. Len(queue)
    BY <1>3
  <2>2. phase = "stopped" /\ 1 = Len(queue)
    BY <1>1, <1>2, <1>3, <2>1 DEF HistPhases
  <2>3. Len(queue') = Len(queue) - 1 /\ Len(queue) = 1
    BY <1>3, <2>2
  <2>4. Len(queue') = 0
    BY <2>3
  <2> QED
    BY <1>3, <2>2, <2>4
<1>7. \A p \in 1 .. Len(queue') :
        queue'[p].what = "closed" => phase = "stopped" /\ p = Len(queue')
  <2> SUFFICES ASSUME NEW p \in 1 .. Len(queue'), queue'[p].what = "closed"
               PROVE  phase = "stopped" /\ p = Len(queue')
    OBVIOUS
  <2>0. p + 1 \in 1 .. Len(queue) /\ p \in 1 .. Len(queue) - 1
    BY <1>3
  <2>1. p + 1 \in 1 .. Len(queue) /\ queue[p + 1].what = "closed"
    BY <1>3, <2>0
  <2>2. phase = "stopped" /\ p + 1 = Len(queue)
    BY <1>1, <2>1 DEF HistPhases
  <2> QED
    BY <1>3, <2>2
<1>8. \A w, i : Has(queue, w, i) <=> Has(queue', w, i) \/ About(Head(queue), w, i)
  BY <1>1, <1>2, HasLess
<1> QED
  BY <1>2, <1>3, <1>4, <1>5, <1>6, <1>7, <1>8

\* A slot that leaves the wallet open or closing keeps the order and the claims.
LEMMA SlotOrdered ==
    ASSUME HistInv, NEW what, History!Slot(what), UNCHANGED <<phase, wallet, raw>>,
           lost' \in {lost, TRUE}
    PROVE  HistPhases' /\ HistRead'
<1>1. HistTyped /\ HistPhases /\ HistRead /\ queue \in Seq(WalletSignals)
  BY HistNumbers DEF HistInv
<1>2. /\ phase \in {"open", "closing", "stopped"} /\ queue # <<>> /\ queue' = Tail(queue)
      /\ \A p \in 1 .. Len(queue') :
           queue'[p].what = "closed" => phase = "stopped" /\ p = Len(queue')
  BY SlotTaken
<1>3. HistPhases'
  BY <1>1, <1>2 DEF HistPhases
<1>4. LastIsRight(queue, raw, wallet) => LastIsRight(queue', raw, wallet)
  BY <1>1, <1>2, RightLess
<1>5. ~lost' => ~lost
  OBVIOUS
<1>6. HistRead'
  BY <1>1, <1>4, <1>5 DEF HistRead
<1> QED
  BY <1>3, <1>6

\* The copy has k transactions after a slot and had m before it.
LEMMA CopyMoves ==
    ASSUME HistInv, NEW what, History!Slot(what), UNCHANGED <<phase, wallet, raw>>,
           NEW m \in Nat, HistCopy(m), NEW k \in Nat, k >= m, k <= Len(wallet),
           Dense(txs', k), last' < k, phase = "open" /\ synced' => last' = k - 1,
           \A i \in Nat : About(Head(queue), "created", i) => i < k,
           phase = "open" => Right(txs', k, queue', raw, wallet)
    PROVE  HistCopy(k)'
<1>1. queue \in Seq(WalletSignals) /\ raw \in Seq(WalletEvents) /\ Len(wallet) \in Nat
  BY HistNumbers
<1>2. /\ queue # <<>> /\ queue' = Tail(queue)
      /\ \A w, i : Has(queue, w, i) <=> Has(queue', w, i) \/ About(Head(queue), w, i)
  BY SlotTaken
<1>3. Ordered(queue', <<>>, k)
  BY <1>1, <1>2, AllNumbered, OrderedLess DEF HistCopy
<1>4. Ordered(raw, queue', k)
  BY <1>1, <1>2, AllNumbered, OrderedBehind DEF HistCopy
<1>5. phase \in {"open", "closing"} => AllTold(queue', raw, k, Len(wallet))
  <2> SUFFICES ASSUME phase \in {"open", "closing"}, NEW j \in k .. Len(wallet) - 1
               PROVE  Has(queue', "created", j) \/ Has(raw, "created", j)
    BY DEF AllTold
  <2>1. j \in m .. Len(wallet) - 1 /\ j \in Nat /\ ~(j < k)
    BY <1>1
  <2>2. Has(queue, "created", j) \/ Has(raw, "created", j)
    BY <2>1 DEF HistCopy, AllTold
  <2>3. ~About(Head(queue), "created", j)
    BY <2>1
  <2> QED
    BY <1>2, <2>2, <2>3
<1> QED
  BY <1>3, <1>4, <1>5 DEF HistCopy

\* What the first signal may be about, given the copy.
LEMMA FirstIsNext ==
    ASSUME HistInv, NEW m \in Nat, HistCopy(m), queue # <<>>, Head(queue).what \in TxKinds
    PROVE  IF Head(queue).what = "created" THEN Head(queue).index <= m ELSE Head(queue).index < m
<1>1. queue \in Seq(WalletSignals)
  BY HistNumbers
<1>2. Head(queue) = queue[1] /\ 1 \in 1 .. Len(queue) /\ Head(queue) \in WalletSignals
  BY <1>1
<1>3. Head(queue).index \in Nat
  BY <1>2, SignalKinds
<1>4. \A n : ~Before(queue, 1, n) /\ ~Has(<<>>, "created", n)
  BY DEF Before, Has
<1>5. ~(Needs(Head(queue)) >= m)
  BY <1>2, <1>4 DEF HistCopy, Ordered
<1> QED
  BY <1>3, <1>5 DEF Needs

-----------------------------------------------------------------------------

\* walletOpened: the copy is the wallet's list, unless the read fails.
LEMMA OpenedKeeps ==
    ASSUME HistInv, History!OnOpened
    PROVE  HistInv'
<1>1. HistTyped /\ RowsTyped /\ HistPhases /\ HistRead /\ HistCopied
  BY DEF HistInv
<1>2. /\ Len(wallet) \in Nat /\ MaxTxs \in Nat /\ wallet \in Seq(Versions) /\ Len(wallet) <= MaxTxs
      /\ raw \in Seq(WalletEvents)
  BY <1>1, HistNumbers DEF HistTyped
<1>3. /\ History!Slot("opened") /\ opened' = TRUE
      /\ fault' = (txs # <<>> \/ bits # <<>>)
      /\ UNCHANGED <<phase, wallet, raw, synced, timer, state>>
  BY DEF History!OnOpened
<1>4. /\ phase \in {"open", "closing", "stopped"} /\ queue' \in Seq(WalletSignals)
      /\ Bounded(queue', Len(wallet))
  BY <1>3, SlotTaken
<1>5. fault' \in BOOLEAN /\ TRUE \in BOOLEAN
  BY <1>3
<1>6. CASE fault'
  <2>1. UNCHANGED <<txs, last, bits, told, lost>>
    BY <1>6 DEF History!OnOpened
  <2>2. HistTyped'
    BY <1>1, <1>3, <1>4, <1>5, <2>1 DEF HistTyped
  <2>3. RowsTyped'
    BY <1>1, <2>1 DEF RowsTyped
  <2>4. HistPhases' /\ HistRead'
    BY <1>3, <2>1, SlotOrdered
  <2>5. HistCopied'
    BY <1>6 DEF HistCopied
  <2> QED
    BY <2>2, <2>3, <2>4, <2>5 DEF HistInv
<1>7. CASE ~fault' /\ lost' = TRUE /\ UNCHANGED <<txs, last, bits, told>>
  <2>2. HistTyped'
    BY <1>1, <1>3, <1>4, <1>5, <1>7 DEF HistTyped
  <2>3. RowsTyped'
    BY <1>1, <1>7 DEF RowsTyped
  <2>4. HistPhases' /\ HistRead'
    BY <1>3, <1>7, SlotOrdered
  <2>5. HistCopied'
    BY <1>7 DEF HistCopied
  <2> QED
    BY <2>2, <2>3, <2>4, <2>5 DEF HistInv
<1>8. CASE /\ ~fault' /\ txs' = History!Snapshot
           /\ last' = Len(wallet) - 1
           /\ bits' = [i \in 1 .. Len(wallet) |-> FALSE]
           /\ told' = told + Len(wallet)
           /\ UNCHANGED lost
  <2> DEFINE m == Len(wallet)
  <2>1. txs' = [i \in 0 .. m - 1 |-> wallet[i + 1]]
    BY <1>8 DEF History!Snapshot
  <2>2. \A i \in 0 .. m - 1 : wallet[i + 1] \in Versions
    <3> SUFFICES ASSUME NEW i \in 0 .. m - 1 PROVE wallet[i + 1] \in Versions
      OBVIOUS
    <3>1. i + 1 \in 1 .. Len(wallet)
      BY <1>2
    <3> QED
      BY <1>2, <3>1
  <2>3. txs' \in [DOMAIN txs' -> Versions] /\ DOMAIN txs' = 0 .. m - 1
    BY <2>1, <2>2
  <2>4. DOMAIN txs' \subseteq 0 .. MaxTxs - 1
    BY <1>2, <2>3
  <2>5. HistTyped'
    BY <1>1, <1>3, <1>4, <1>5, <1>8, <2>3, <2>4 DEF HistTyped
  <2>6. RowsTyped'
    <3>1. bits = <<>>
      BY <1>3, <1>8
    <3>2. Len(bits) = 0
      BY <3>1
    <3>3. told = 0
      BY <1>1, <3>2 DEF RowsTyped
    <3>4. bits' \in Seq(BOOLEAN) /\ Len(bits') = Len(wallet)
      BY <1>2, <1>8
    <3>5. last' \in -1 .. MaxTxs - 1 /\ last' + 1 = Len(wallet) /\ told' = Len(wallet)
      BY <1>2, <1>8, <3>3
    <3> QED
      BY <3>4, <3>5 DEF RowsTyped
  <2>7. HistPhases' /\ HistRead'
    BY <1>3, <1>8, SlotOrdered
  <2>8. HistCopied'
    <3>1. Ordered(queue', <<>>, m) /\ Ordered(raw, queue', m)
      <4>1. ASSUME NEW S, NEW q \in Seq(S), Numbered(S), Bounded(q, m), NEW r
            PROVE  Ordered(q, r, m)
        <5> SUFFICES ASSUME NEW p \in 1 .. Len(q), q[p].what \in TxKinds, Needs(q[p]) >= m
                     PROVE  FALSE
          BY DEF Ordered
        <5>1. q[p].index \in 0 .. m - 1
          BY <4>1 DEF Bounded
        <5> QED
          BY <1>2, <5>1 DEF Needs
      <4>2. Bounded(raw, m)
        BY <1>1 DEF HistTyped
      <4> QED
        BY <1>2, <1>4, <4>1, <4>2, AllNumbered
    <3>2. Dense(txs', m)
      BY <1>2, <2>3 DEF Dense
    <3>3. \A q, r : AllTold(q, r, m, m)
      BY <1>2 DEF AllTold
    <3>4. \A q, r : Right(txs', m, q, r, wallet)
      BY <2>1 DEF Right
    <3>5. m <= Len(wallet) /\ last' < m /\ last' = m - 1
      BY <1>2, <1>8
    <3> HIDE DEF m
    <3>6. m \in Nat /\ UNCHANGED wallet /\ UNCHANGED raw
      BY <1>2, <1>3 DEF m
    <3>7. PICK n \in Nat : n = m
      BY <3>6
    <3>8. HistCopy(n)'
      <4>1. AllTold(queue', raw', n, Len(wallet'))
        BY <3>3, <3>6, <3>7 DEF m
      <4>2. Right(txs', n, queue', raw', wallet')
        BY <3>4, <3>6, <3>7
      <4>3. Ordered(queue', <<>>, n) /\ Ordered(raw', queue', n) /\ n <= Len(wallet')
        BY <3>1, <3>5, <3>6, <3>7
      <4>4. Dense(txs', n) /\ last' < n /\ last' = n - 1
        BY <3>2, <3>5, <3>7
      <4> QED
        BY <4>1, <4>2, <4>3, <4>4 DEF HistCopy
    <3> QED
      BY <3>8 DEF HistCopied
  <2> QED
    BY <2>5, <2>6, <2>7, <2>8 DEF HistInv
<1> QED
  BY <1>6, <1>7, <1>8 DEF History!OnOpened

\* walletClosed: nothing of the wallet is left, in the queue neither.
LEMMA ClosedKeeps ==
    ASSUME HistInv, History!OnClosed
    PROVE  HistInv'
<1>1. HistTyped /\ HistPhases
  BY DEF HistInv
<1>2. /\ History!Slot("closed") /\ phase' = "closed" /\ opened' = FALSE
      /\ timer' = FALSE /\ last' = -1 /\ synced' = FALSE
      /\ txs' = <<>> /\ bits' = <<>> /\ told' = 0
      /\ state' = [synced |-> FALSE, current |-> 0, total |-> 0]
      /\ UNCHANGED <<wallet, raw, fault, lost>>
  BY DEF History!OnClosed, History!None
<1>3. phase = "stopped" /\ queue' = <<>> /\ raw' = <<>>
  BY <1>1, <1>2, SlotTaken DEF HistPhases
<1>4. MaxTxs \in Nat /\ MaxBlocks \in Nat /\ FALSE \in BOOLEAN
  BY HistoryAssumption
<1>5. HistTyped'
  <2>1. /\ <<>> \in Seq(WalletEvents) /\ <<>> \in Seq(WalletSignals) /\ DOMAIN <<>> = {}
        /\ \A k : Bounded(<<>>, k)
    BY DEF Bounded
  <2>2. raw' \in Seq(WalletEvents) /\ queue' \in Seq(WalletSignals)
        /\ Bounded(raw', Len(wallet)) /\ Bounded(queue', Len(wallet))
    BY <1>3, <2>1
  <2>3. txs' \in [DOMAIN txs' -> Versions] /\ DOMAIN txs' \subseteq 0 .. MaxTxs - 1
    BY <1>2
  <2>4. state' \in [synced: BOOLEAN, current: 0 .. MaxBlocks, total: 0 .. MaxBlocks] /\ ~state'.synced
    BY <1>2, <1>4
  <2> QED
    BY <1>1, <1>2, <1>4, <2>2, <2>3, <2>4 DEF HistTyped
<1>6. RowsTyped'
  BY <1>2, <1>4 DEF RowsTyped
<1>7. HistPhases'
  BY <1>2, <1>3 DEF HistPhases
<1>8. HistRead' /\ HistCopied'
  BY <1>2 DEF HistRead, HistCopied
<1> QED
  BY <1>5, <1>6, <1>7, <1>8 DEF HistInv

\* synchronizationProgressUpdated: the rows stay, the history counts as behind.
LEMMA ProgressKeeps ==
    ASSUME HistInv, History!OnProgress
    PROVE  HistInv'
<1>1. HistTyped /\ RowsTyped /\ HistPhases /\ HistRead /\ HistCopied
  BY DEF HistInv
<1>2. /\ History!Slot("progress") /\ timer' = TRUE /\ synced' = FALSE
      /\ state' = [synced |-> FALSE, current |-> Head(queue).current, total |-> Head(queue).total]
      /\ UNCHANGED <<phase, wallet, raw, txs, last, bits, told, opened, fault, lost>>
  BY DEF History!OnProgress
<1>3. /\ queue' \in Seq(WalletSignals) /\ Bounded(queue', Len(wallet))
      /\ Head(queue) \in WalletSignals /\ Head(queue).what = "progress"
      /\ \A w, i : Has(queue, w, i) <=> Has(queue', w, i) \/ About(Head(queue), w, i)
  BY <1>2, SlotTaken
<1>4. TRUE \in BOOLEAN /\ FALSE \in BOOLEAN
  OBVIOUS
<1>5. state' \in [synced: BOOLEAN, current: 0 .. MaxBlocks, total: 0 .. MaxBlocks] /\ ~state'.synced
  BY <1>2, <1>3, <1>4, SignalKinds
<1>6. HistTyped'
  BY <1>1, <1>2, <1>3, <1>4, <1>5 DEF HistTyped
<1>7. RowsTyped'
  BY <1>1, <1>2 DEF RowsTyped
<1>8. HistPhases' /\ HistRead'
  BY <1>2, SlotOrdered
<1>9. HistCopied'
  <2> SUFFICES ASSUME opened, ~fault, ~lost PROVE \E m \in Nat : HistCopy(m)'
    BY <1>2 DEF HistCopied
  <2>1. PICK m \in Nat : HistCopy(m)
    BY <1>1 DEF HistCopied
  <2>2. \A w, i : w \in TxKinds => ~About(Head(queue), w, i)
    BY <1>3 DEF About, TxKinds
  <2>3. phase = "open" => Right(txs', m, queue', raw, wallet)
    BY <1>2, <1>3, <2>1, <2>2 DEF HistCopy, Right, TxKinds
  <2>4. /\ Dense(txs', m) /\ last' < m /\ m <= Len(wallet) /\ m >= m
        /\ \A i \in Nat : About(Head(queue), "created", i) => i < m
    BY <1>2, <2>1, <2>2 DEF HistCopy, TxKinds
  <2>5. HistCopy(m)'
    BY <1>2, <2>1, <2>3, <2>4, CopyMoves
  <2> QED
    BY <2>5
<1> QED
  BY <1>6, <1>7, <1>8, <1>9 DEF HistInv

\* The copy f gets the transaction e.tx at e.index, its next or one it has.
Taken(f, e) == [j \in DOMAIN f \cup {e.index} |-> IF j = e.index THEN e.tx ELSE f[j]]

LEMMA TakenTyped ==
    ASSUME HistTyped, NEW e \in WalletSignals, e.what \in TxKinds, e.index \in 0 .. Len(wallet) - 1
    PROVE  /\ Taken(txs, e) \in [DOMAIN Taken(txs, e) -> Versions]
           /\ DOMAIN Taken(txs, e) \subseteq 0 .. MaxTxs - 1
<1>1. /\ txs \in [DOMAIN txs -> Versions] /\ DOMAIN txs \subseteq 0 .. MaxTxs - 1
      /\ Len(wallet) <= MaxTxs /\ MaxTxs \in Nat /\ Len(wallet) \in Nat
  BY HistoryAssumption DEF HistTyped
<1>2. e.index \in 0 .. MaxTxs - 1 /\ e.tx \in Versions
  BY <1>1, SignalKinds
<1>3. DOMAIN Taken(txs, e) = DOMAIN txs \cup {e.index}
  BY DEF Taken
<1>4. \A j \in DOMAIN txs \cup {e.index} : (IF j = e.index THEN e.tx ELSE txs[j]) \in Versions
  <2>1. \A j \in DOMAIN txs : txs[j] \in Versions
    BY <1>1
  <2> QED
    BY <1>2, <2>1
<1>5. Taken(txs, e) \in [DOMAIN txs \cup {e.index} -> Versions]
  BY <1>4 DEF Taken
<1> QED
  BY <1>1, <1>2, <1>3, <1>5

\* The signal about a transaction makes the copy right about it.
LEMMA TakenRight ==
    ASSUME HistInv, NEW what \in TxKinds, History!Slot(what), NEW m \in Nat, HistCopy(m),
           NEW k \in {m, m + 1}, k = m + 1 => Head(queue).index = m,
           k = m => Head(queue).index < m,
           phase = "open", ~lost
    PROVE  Right(Taken(txs, Head(queue)), k, queue', raw, wallet)
<1> DEFINE e == Head(queue)
           i == e.index
<1>1. /\ queue # <<>> /\ queue' = Tail(queue) /\ e \in WalletSignals /\ e.what = what /\ i \in Nat
      /\ \A w, j : Has(queue, w, j) <=> Has(queue', w, j) \/ About(e, w, j)
  BY SlotTaken, SignalKinds
<1>2. LastIsRight(queue, raw, wallet) /\ queue \in Seq(WalletSignals)
  BY HistNumbers DEF HistInv, HistRead
<1>3. ~Has(raw, "updated", i) /\ ~Has(queue', "updated", i) => e.tx = wallet[i + 1]
  BY <1>1, <1>2, RightLess
<1>4. DOMAIN txs = 0 .. m - 1
  BY DEF HistCopy, Dense
<1>5. \A j \in 0 .. m - 1 : ~Has(queue, "updated", j) /\ ~Has(raw, "updated", j) => txs[j] = wallet[j + 1]
  BY DEF HistCopy, Right
<1> SUFFICES ASSUME NEW j \in 0 .. k - 1, ~Has(queue', "updated", j), ~Has(raw, "updated", j)
             PROVE  Taken(txs, e)[j] = wallet[j + 1]
  BY DEF Right
<1>6. CASE j = i
  <2>1. Taken(txs, e)[j] = e.tx
    BY <1>6 DEF Taken
  <2> QED
    BY <1>3, <1>6, <2>1
<1>7. CASE j # i
  <2>1. j \in 0 .. m - 1
    <3>1. CASE k = m
      BY <3>1
    <3>2. CASE k = m + 1
      BY <1>7, <3>2
    <3> QED
      BY <3>1, <3>2
  <2>2. Taken(txs, e)[j] = txs[j]
    BY <1>4, <1>7, <2>1 DEF Taken
  <2>3. ~About(e, "updated", j)
    BY <1>7 DEF About
  <2> QED
    BY <1>1, <1>5, <2>1, <2>2, <2>3
<1> QED
  BY <1>6, <1>7

\* externalTransactionCreated.
LEMMA CreatedKeeps ==
    ASSUME HistInv, History!OnCreated
    PROVE  HistInv'
<1> DEFINE e == Head(queue)
<1>1. HistTyped /\ RowsTyped /\ HistPhases /\ HistRead /\ HistCopied
  BY DEF HistInv
<1>2. /\ Len(wallet) \in Nat /\ MaxTxs \in Nat /\ Len(wallet) <= MaxTxs /\ last \in Int
  BY <1>1, HistNumbers DEF HistTyped
<1>3. /\ History!Slot("created")
      /\ UNCHANGED <<phase, wallet, raw, synced, timer, state, opened, fault, lost>>
  BY DEF History!OnCreated
<1>4. /\ queue # <<>> /\ queue' \in Seq(WalletSignals) /\ Bounded(queue', Len(wallet))
      /\ e \in WalletSignals /\ e.what = "created" /\ e.what \in TxKinds
      /\ e.index \in 0 .. Len(wallet) - 1
      /\ \A w, i : Has(queue, w, i) <=> Has(queue', w, i) \/ About(e, w, i)
  BY <1>3, SlotTaken DEF TxKinds
<1>5. HistPhases' /\ HistRead'
  BY <1>3, SlotOrdered
<1>6. CASE History!Fresh(e.index)
  <2>1. txs' = Taken(txs, e)
    BY <1>6 DEF History!OnCreated, Taken
  <2>2. IF synced THEN History!ShowAllCached(txs') ELSE UNCHANGED <<last, bits, told>>
    BY <1>6 DEF History!OnCreated
  <2> HIDE DEF e
  <2>3. txs' \in [DOMAIN txs' -> Versions] /\ DOMAIN txs' \subseteq 0 .. MaxTxs - 1
    BY <1>1, <1>4, <2>1, TakenTyped
  <2>4. HistTyped'
    BY <1>1, <1>3, <1>4, <2>3 DEF HistTyped
  <2>5. /\ RowsTyped'
        /\ \A m : Dense(txs', m) /\ last < m =>
             last' < m /\ (phase = "open" /\ synced => last' = m - 1)
    <3>1. CASE synced
      BY <1>1, <2>2, <2>3, <3>1, RowsShown
    <3>2. CASE ~synced
      BY <1>1, <2>2, <3>2 DEF RowsTyped
    <3> QED
      BY <3>1, <3>2
  <2>6. HistCopied'
    <3> SUFFICES ASSUME opened, ~fault, ~lost PROVE \E m \in Nat : HistCopy(m)'
      BY <1>3 DEF HistCopied
    <3>1. PICK m \in Nat : HistCopy(m)
      BY <1>1 DEF HistCopied
    <3>2. e.index <= m
      BY <1>4, <3>1, FirstIsNext DEF e
    <3>3. PICK k \in {m, m + 1} : (k = m + 1 => e.index = m) /\ (k = m => e.index < m)
      <4>1. CASE e.index = m
        BY <4>1
      <4>2. CASE e.index < m
        BY <4>2
      <4> QED
        BY <1>4, <3>2, <4>1, <4>2
    <3>4. k \in Nat /\ k >= m /\ k <= Len(wallet) /\ last < k
      <4>1. m <= Len(wallet) /\ last < m
        BY <3>1 DEF HistCopy
      <4>2. CASE k = m
        BY <1>2, <4>1, <4>2
      <4>3. CASE k = m + 1
        BY <1>2, <1>4, <3>3, <4>1, <4>3
      <4> QED
        BY <4>2, <4>3
    <3>5. Dense(txs', k)
      <4>1. DOMAIN txs' = 0 .. m - 1 \cup {e.index}
        BY <2>1, <3>1 DEF Taken, HistCopy, Dense
      <4>2. e.index \in Nat
        BY <1>2, <1>4
      <4>3. CASE k = m
        BY <3>3, <4>1, <4>2, <4>3 DEF Dense
      <4>4. CASE k = m + 1
        <5>1. DOMAIN txs' = 0 .. m - 1 \cup {m}
          BY <3>3, <4>1, <4>4
        <5>2. 0 .. m - 1 \cup {m} = 0 .. m /\ (m + 1) - 1 = m
          OBVIOUS
        <5> QED
          BY <3>4, <4>4, <5>1, <5>2 DEF Dense
      <4> QED
        BY <4>3, <4>4
    <3>6. phase = "open" => Right(txs', k, queue', raw, wallet)
      <4>1. "created" \in TxKinds
        BY DEF TxKinds
      <4> QED
        BY <1>3, <2>1, <3>1, <3>3, <4>1, TakenRight DEF e
    <3>7. \A i \in Nat : About(e, "created", i) => i < k
      <4> SUFFICES ASSUME NEW i \in Nat, About(e, "created", i) PROVE i < k
        OBVIOUS
      <4>1. i = e.index
        BY DEF About
      <4>2. CASE k = m
        BY <3>3, <4>1, <4>2
      <4>3. CASE k = m + 1
        BY <3>3, <4>1, <4>3
      <4> QED
        BY <4>2, <4>3
    <3>8. last' < k /\ (phase = "open" /\ synced' => last' = k - 1)
      BY <1>3, <2>5, <3>4, <3>5
    <3>9. HistCopy(k)'
      BY <1>3, <3>1, <3>4, <3>5, <3>6, <3>7, <3>8, CopyMoves DEF e
    <3> QED
      BY <3>4, <3>9
  <2> QED
    BY <1>5, <2>4, <2>5, <2>6 DEF HistInv
<1>7. CASE ~History!Fresh(e.index)
  <2>1. UNCHANGED <<txs, last, bits, told>>
    BY <1>7 DEF History!OnCreated
  <2>2. e.index <= last
    BY <1>2, <1>4, <1>7 DEF History!Fresh, History!RowCount
  <2> HIDE DEF e
  <2>3. HistTyped'
    BY <1>1, <1>3, <1>4, <2>1 DEF HistTyped
  <2>4. RowsTyped'
    BY <1>1, <2>1 DEF RowsTyped
  <2>5. HistCopied'
    <3> SUFFICES ASSUME opened, ~fault, ~lost PROVE \E m \in Nat : HistCopy(m)'
      BY <1>3 DEF HistCopied
    <3>1. PICK m \in Nat : HistCopy(m)
      BY <1>1 DEF HistCopied
    <3>2. Dense(txs', m) /\ last' < m /\ m <= Len(wallet) /\ m >= m
          /\ (phase = "open" /\ synced' => last' = m - 1)
      BY <1>3, <2>1, <3>1 DEF HistCopy
    <3>3. \A i \in Nat : About(e, "created", i) => i < m
      BY <1>2, <2>1, <2>2, <3>2 DEF About
    <3>4. \A i : ~About(e, "updated", i)
      BY <1>4 DEF About
    <3>5. phase = "open" => Right(txs', m, queue', raw, wallet)
      BY <1>4, <2>1, <3>1, <3>4 DEF HistCopy, Right
    <3>6. HistCopy(m)'
      BY <1>3, <3>1, <3>2, <3>3, <3>5, CopyMoves DEF e
    <3> QED
      BY <3>6
  <2> QED
    BY <1>5, <2>3, <2>4, <2>5 DEF HistInv
<1> QED
  BY <1>6, <1>7

\* transactionUpdated.
LEMMA UpdatedKeeps ==
    ASSUME HistInv, History!OnUpdated
    PROVE  HistInv'
<1> DEFINE e == Head(queue)
<1>1. HistTyped /\ RowsTyped /\ HistPhases /\ HistRead /\ HistCopied
  BY DEF HistInv
<1>2. /\ Len(wallet) \in Nat /\ MaxTxs \in Nat /\ last \in Int
  BY HistNumbers
<1>3. /\ History!Slot("updated")
      /\ UNCHANGED <<phase, wallet, raw, last, bits, synced, timer, told, state, opened, fault, lost>>
  BY DEF History!OnUpdated
<1>4. /\ queue # <<>> /\ queue' \in Seq(WalletSignals) /\ Bounded(queue', Len(wallet))
      /\ e \in WalletSignals /\ e.what = "updated" /\ e.what \in TxKinds
      /\ e.index \in 0 .. Len(wallet) - 1
  BY <1>3, SlotTaken DEF TxKinds
<1>5. txs' = IF e.index < Cardinality(DOMAIN txs) /\ phase = "open" THEN Taken(txs, e) ELSE txs
  BY SameSize DEF History!OnUpdated, History!Size, Taken
<1> HIDE DEF e
<1>6. HistPhases' /\ HistRead'
  BY <1>3, SlotOrdered
<1>7. HistTyped'
  <2>1. txs' \in [DOMAIN txs' -> Versions] /\ DOMAIN txs' \subseteq 0 .. MaxTxs - 1
    <3>1. CASE txs' = txs
      BY <1>1, <3>1 DEF HistTyped
    <3>2. CASE txs' = Taken(txs, e)
      BY <1>1, <1>4, <3>2, TakenTyped
    <3> QED
      BY <1>5, <3>1, <3>2
  <2> QED
    BY <1>1, <1>3, <1>4, <2>1 DEF HistTyped
<1>8. RowsTyped'
  BY <1>1, <1>3 DEF RowsTyped
<1>9. HistCopied'
  <2> SUFFICES ASSUME opened, ~fault, ~lost PROVE \E m \in Nat : HistCopy(m)'
    BY <1>3 DEF HistCopied
  <2>1. PICK m \in Nat : HistCopy(m)
    BY <1>1 DEF HistCopied
  <2>2. e.index < m /\ e.index \in Nat
    <3>1. e.what # "created"
      BY <1>4
    <3> QED
      BY <1>2, <1>4, <2>1, <3>1, FirstIsNext DEF e
  <2>3. Cardinality(DOMAIN txs) = m /\ Dense(txs, m)
    BY <2>1, DenseSize DEF HistCopy
  <2>4. txs' = IF phase = "open" THEN Taken(txs, e) ELSE txs
    BY <1>5, <2>2, <2>3
  <2>5. Dense(txs', m)
    <3>1. CASE phase = "open"
      <4>1. DOMAIN txs' = 0 .. m - 1 \cup {e.index}
        BY <2>3, <2>4, <3>1 DEF Taken, Dense
      <4> QED
        BY <2>2, <4>1 DEF Dense
    <3>2. CASE phase # "open"
      BY <2>3, <2>4, <3>2
    <3> QED
      BY <3>1, <3>2
  <2>6. phase = "open" => Right(txs', m, queue', raw, wallet)
    <3>1. "updated" \in TxKinds /\ m \in {m, m + 1} /\ m # m + 1
      BY DEF TxKinds
    <3> QED
      BY <1>3, <2>1, <2>2, <2>4, <3>1, TakenRight DEF e
  <2>7. \A i \in Nat : About(e, "created", i) => i < m
    BY <1>4 DEF About
  <2>8. last' < m /\ m <= Len(wallet) /\ m >= m /\ (phase = "open" /\ synced' => last' = m - 1)
    BY <1>3, <2>1 DEF HistCopy
  <2>9. HistCopy(m)'
    BY <1>3, <2>1, <2>5, <2>6, <2>7, <2>8, CopyMoves DEF e
  <2> QED
    BY <2>9
<1> QED
  BY <1>6, <1>7, <1>8, <1>9 DEF HistInv

\* synchronizationCompleted: what was held back is shown.
LEMMA CompletedKeeps ==
    ASSUME HistInv, History!OnCompleted
    PROVE  HistInv'
<1> DEFINE e == Head(queue)
<1>1. HistTyped /\ RowsTyped /\ HistPhases /\ HistRead /\ HistCopied
  BY DEF HistInv
<1>2. /\ History!Slot("completed") /\ timer' = FALSE /\ synced' = TRUE
      /\ IF synced THEN UNCHANGED <<last, bits, told>> ELSE History!ShowAllCached(txs)
      /\ state' = [state EXCEPT !.synced = state.current = state.total]
      /\ UNCHANGED <<phase, wallet, raw, txs, opened, fault, lost>>
  BY DEF History!OnCompleted
<1>3. /\ queue' \in Seq(WalletSignals) /\ Bounded(queue', Len(wallet)) /\ e.what = "completed"
      /\ \A w, i : Has(queue, w, i) <=> Has(queue', w, i) \/ About(e, w, i)
  BY <1>2, SlotTaken
<1>4. TRUE \in BOOLEAN /\ FALSE \in BOOLEAN /\ (state.current = state.total) \in BOOLEAN
  OBVIOUS
<1>5. state' \in [synced: BOOLEAN, current: 0 .. MaxBlocks, total: 0 .. MaxBlocks]
  BY <1>1, <1>2, <1>4 DEF HistTyped
<1>6. HistTyped'
  BY <1>1, <1>2, <1>3, <1>4, <1>5 DEF HistTyped
<1>7. /\ RowsTyped'
      /\ \A m : Dense(txs, m) /\ last < m =>
           last' < m /\ (phase = "open" /\ ~synced => last' = m - 1)
  <2>1. CASE synced
    BY <1>1, <1>2, <2>1 DEF RowsTyped
  <2>2. CASE ~synced
    <3>1. History!ShowAllCached(txs) /\ DOMAIN txs \subseteq 0 .. MaxTxs - 1
      BY <1>1, <1>2, <2>2 DEF HistTyped
    <3> QED
      BY <1>1, <3>1, RowsShown
  <2> QED
    BY <2>1, <2>2
<1>8. HistPhases' /\ HistRead'
  BY <1>2, SlotOrdered
<1>9. HistCopied'
  <2> SUFFICES ASSUME opened, ~fault, ~lost PROVE \E m \in Nat : HistCopy(m)'
    BY <1>2 DEF HistCopied
  <2>1. PICK m \in Nat : HistCopy(m)
    BY <1>1 DEF HistCopied
  <2>2. \A w, i : w \in TxKinds => ~About(e, w, i)
    BY <1>3 DEF About, TxKinds
  <2>3. phase = "open" => Right(txs', m, queue', raw, wallet)
    BY <1>2, <1>3, <2>1, <2>2 DEF HistCopy, Right, TxKinds
  <2>4. /\ Dense(txs, m) /\ last < m /\ m <= Len(wallet) /\ m >= m
        /\ \A i \in Nat : About(e, "created", i) => i < m
        /\ phase = "open" /\ synced => last = m - 1
    BY <2>1, <2>2 DEF HistCopy, TxKinds
  <2>5. last' < m /\ (phase = "open" /\ synced' => last' = m - 1)
    <3>1. CASE synced
      <4>1. last' = last
        BY <1>2, <3>1
      <4> QED
        BY <2>4, <3>1, <4>1
    <3>2. CASE ~synced
      BY <1>7, <2>4, <3>2
    <3> QED
      BY <3>1, <3>2
  <2>6. HistCopy(m)'
    BY <1>2, <2>1, <2>3, <2>4, <2>5, CopyMoves
  <2> QED
    BY <2>6
<1> QED
  BY <1>6, <1>7, <1>8, <1>9 DEF HistInv

LEMMA TickKeeps ==
    ASSUME HistInv, History!Tick
    PROVE  HistInv'
<1>1. HistTyped /\ RowsTyped /\ HistPhases /\ HistRead /\ HistCopied
  BY DEF HistInv
<1>2. /\ History!ShowAllCached(txs)
      /\ UNCHANGED <<phase, wallet, raw, queue, txs, synced, timer, state, opened, fault, lost>>
  BY DEF History!Tick
<1>3. HistTyped'
  BY <1>1, <1>2 DEF HistTyped
<1>4. /\ RowsTyped'
      /\ \A m : Dense(txs, m) /\ last < m => last' < m /\ (phase = "open" => last' = m - 1)
  <2>1. DOMAIN txs \subseteq 0 .. MaxTxs - 1
    BY <1>1 DEF HistTyped
  <2> QED
    BY <1>1, <1>2, <2>1, RowsShown
<1>5. HistPhases' /\ HistRead'
  BY <1>1, <1>2 DEF HistPhases, HistRead
<1>6. HistCopied'
  <2> SUFFICES ASSUME NEW m \in Nat, HistCopy(m) PROVE HistCopy(m)'
    BY <1>1, <1>2 DEF HistCopied
  <2>1. last' < m /\ (phase = "open" => last' = m - 1)
    BY <1>4 DEF HistCopy
  <2> QED
    BY <1>2, <2>1 DEF HistCopy
<1> QED
  BY <1>3, <1>4, <1>5, <1>6 DEF HistInv

LEMMA Overwritten ==
    ASSUME NEW S, NEW q \in Seq(S), NEW i, NEW c \in S
    PROVE  [q EXCEPT ![i] = c] \in Seq(S) /\ Len([q EXCEPT ![i] = c]) = Len(q)
<1> DEFINE n == Len(q)
           v(j) == IF j = i THEN c ELSE q[j]
           x == [j \in 1 .. n |-> v(j)]
<1>1. n \in Nat /\ \A j \in 1 .. n : v(j) \in S
  OBVIOUS
<1>2. [q EXCEPT ![i] = c] = x
  OBVIOUS
<1> HIDE DEF n, v
<1>3. x \in Seq(S) /\ Len(x) = n
  BY <1>1
<1> QED
  BY <1>2, <1>3 DEF n

LEMMA TransfersKeep ==
    ASSUME HistInv, History!ShowTransfers
    PROVE  HistInv'
<1>1. HistTyped /\ RowsTyped /\ HistPhases /\ HistRead /\ HistCopied
  BY DEF HistInv
<1>2. PICK r \in 0 .. last :
        /\ bits' = [bits EXCEPT ![r + 1] = ~bits[r + 1]]
        /\ UNCHANGED <<phase, wallet, raw, queue, txs, last, synced, timer, told, state, opened,
                       fault, lost>>
  BY DEF History!ShowTransfers
<1>3. HistTyped'
  BY <1>1, <1>2 DEF HistTyped
<1>4. RowsTyped'
  <2>1. bits \in Seq(BOOLEAN) /\ Len(bits) \in Nat
    BY <1>1 DEF RowsTyped
  <2>2. bits' \in Seq(BOOLEAN) /\ Len(bits') = Len(bits)
    <3> DEFINE b == ~bits[r + 1]
    <3>1. b \in BOOLEAN
      OBVIOUS
    <3>2. bits' = [bits EXCEPT ![r + 1] = b]
      BY <1>2
    <3> HIDE DEF b
    <3>3. \A Flags : b \in Flags /\ bits \in Seq(Flags)
            => bits' \in Seq(Flags) /\ Len(bits') = Len(bits)
      BY <3>2, Overwritten
    <3> QED
      BY <2>1, <3>1, <3>3
  <2> QED
    BY <1>1, <1>2, <2>2 DEF RowsTyped
<1>5. HistPhases' /\ HistRead'
  BY <1>1, <1>2 DEF HistPhases, HistRead
<1>6. HistCopied'
  <2>1. \A m \in Nat : HistCopy(m) => HistCopy(m)'
    BY <1>2 DEF HistCopy
  <2> QED
    BY <1>1, <1>2, <2>1 DEF HistCopied
<1> QED
  BY <1>3, <1>4, <1>5, <1>6 DEF HistInv

-----------------------------------------------------------------------------
(* The theorem.                                                            *)

LEMMA HistStep == HistInv /\ [Next]_vars => HistInv'
<1> SUFFICES ASSUME HistInv, [Next]_vars PROVE HistInv'
  OBVIOUS
<1>1. CASE UNCHANGED history
  BY <1>1 DEF history, HistInv, HistTyped, RowsTyped, HistPhases, HistRead, HistCopied, HistCopy
<1>2. CASE History!Next
  BY <1>2, WalletKeeps, StartKeeps, CloseKeeps, TransfersKeep, ProcessKeeps, EmitKeeps, EndKeeps,
     OpenedKeeps, ClosedKeeps, CreatedKeeps, UpdatedKeeps, ProgressKeeps, CompletedKeeps, TickKeeps
     DEF History!Next, History!User, History!Slots
<1> QED
  BY <1>1, <1>2 DEF Next, vars

\* What the history promises follows from the copy between the queues.
LEMMA HistSuffices == HistInv => HistoryFollowsWallet
<1> SUFFICES ASSUME HistInv PROVE HistoryFollowsWallet
  OBVIOUS
<1>1. HistTyped /\ RowsTyped /\ HistPhases /\ HistRead /\ HistCopied
  BY DEF HistInv
<1>2. Len(wallet) \in Nat /\ last \in Int
  BY HistNumbers
<1>3. ASSUME opened, ~fault, ~lost
      PROVE  \E m \in Nat : HistCopy(m) /\ History!Size = m
  <2>1. PICK m \in Nat : HistCopy(m)
    BY <1>1, <1>3 DEF HistCopied
  <2>2. Cardinality(DOMAIN txs) = m
    BY <2>1, DenseSize DEF HistCopy
  <2> QED
    BY <2>1, <2>2, SameSize DEF History!Size
<1>4. History!RowsBacked
  <2>1. Len(bits) = History!RowCount
    BY <1>1 DEF RowsTyped, History!RowCount
  <2>2. ASSUME opened, ~fault, ~lost
        PROVE  DOMAIN txs = 0 .. History!Size - 1 /\ last < History!Size
    <3>1. PICK m \in Nat : HistCopy(m) /\ History!Size = m
      BY <1>3, <2>2
    <3> QED
      BY <3>1 DEF HistCopy, Dense
  <2> QED
    BY <2>1, <2>2 DEF History!RowsBacked
<1>5. History!RowsAnnounced
  BY <1>1 DEF RowsTyped, History!RowsAnnounced, History!RowCount
<1>6. History!CopyCurrent
  <2> SUFFICES ASSUME phase = "open", opened, ~fault, ~lost, raw = <<>>, queue = <<>>
               PROVE  txs = History!Snapshot
    BY DEF History!CopyCurrent
  <2>1. PICK m \in Nat : HistCopy(m)
    BY <1>3
  <2>2. \A w, i : ~Has(queue, w, i) /\ ~Has(raw, w, i)
    BY DEF Has
  <2>3. m <= Len(wallet) /\ AllTold(queue, raw, m, Len(wallet)) /\ Right(txs, m, queue, raw, wallet)
        /\ DOMAIN txs = 0 .. m - 1
    BY <2>1 DEF HistCopy, Dense
  <2>4. m = Len(wallet)
    <3>1. ASSUME m < Len(wallet) PROVE FALSE
      <4>1. m \in m .. Len(wallet) - 1
        BY <1>2, <3>1
      <4> QED
        BY <2>2, <2>3, <4>1 DEF AllTold
    <3> QED
      BY <1>2, <2>3, <3>1
  <2>5. \A i \in 0 .. m - 1 : txs[i] = wallet[i + 1]
    BY <2>2, <2>3 DEF Right
  <2>6. txs = [i \in DOMAIN txs |-> txs[i]]
    BY <1>1 DEF HistTyped
  <2> QED
    BY <2>3, <2>4, <2>5, <2>6 DEF History!Snapshot
<1>7. History!AllShownWhenSynced
  <2> SUFFICES ASSUME phase = "open", opened, ~fault, ~lost, synced PROVE last = History!Size - 1
    BY DEF History!AllShownWhenSynced
  <2>1. PICK m \in Nat : HistCopy(m) /\ History!Size = m
    BY <1>3
  <2> QED
    BY <2>1 DEF HistCopy
<1>8. History!SyncedStateShowsAll
  BY <1>1, <1>7 DEF HistTyped, History!AllShownWhenSynced, History!SyncedStateShowsAll
<1> QED
  BY <1>4, <1>5, <1>6, <1>7, <1>8 DEF HistoryFollowsWallet

\* The history follows the wallet: rows have their transaction and flag, the copy
\* is the wallet's list once the queues are empty, and a history that counts as
\* synchronised hides nothing.
THEOREM HistoryStaysTrue == Spec => []HistoryFollowsWallet
<1>1. Init => HistInv
  BY HistBegins
<1>2. HistInv /\ [Next]_vars => HistInv'
  BY HistStep
<1>3. HistInv => HistoryFollowsWallet
  BY HistSuffices
<1> QED
  BY <1>1, <1>2, <1>3, PTL DEF Spec

-----------------------------------------------------------------------------
(* The types of the seven parts.                                           *)

LEMMA HistWellTyped == HistInv => History!TypeOK
<1> SUFFICES ASSUME HistInv PROVE History!TypeOK
  OBVIOUS
<1>1. HistTyped /\ RowsTyped
  BY DEF HistInv
<1>2. \A i \in DOMAIN txs : txs[i] \in Versions
  BY <1>1 DEF HistTyped
<1>3. told \in Nat /\ last \in -1 .. MaxTxs - 1 /\ bits \in Seq(BOOLEAN)
  <2>1. Len(bits) \in Nat /\ told = Len(bits)
    BY <1>1 DEF RowsTyped
  <2> QED
    BY <1>1, <2>1 DEF RowsTyped
<1>4. synced \in BOOLEAN /\ timer \in BOOLEAN
  BY <1>1 DEF HistTyped
<1> QED
  BY <1>1, <1>2, <1>3, <1>4 DEF HistTyped, History!TypeOK, History!Versions, History!None, Versions

LEMMA CardsWellTyped == CardsInv => Cards!TypeOK
<1> SUFFICES ASSUME CardsInv PROVE Cards!TypeOK
  OBVIOUS
<1>1. CardsTyped /\ CardsOf(cards, entries) /\ Pointed(current, addrs)
  BY DEF CardsInv, CardsListed
<1>2. \A i \in DOMAIN cards : cards[i] \in CardSet
  BY <1>1 DEF CardsOf
<1>3. current \in [index : -1 .. Len(addrs) - 1, address : Addresses \cup {Nothing}]
  BY <1>1 DEF CardsTyped, Pointed
<1>4. twice \in BOOLEAN
  BY <1>1 DEF CardsTyped
<1> QED
  BY <1>1, <1>2, <1>3, <1>4 DEF CardsTyped, CardSet, Cards!TypeOK

LEMMA BookWellTyped == BookInv => Book!TypeOK
<1> SUFFICES ASSUME BookInv PROVE Book!TypeOK
  OBVIOUS
<1>1. usable \in BOOLEAN /\ twins \in BOOLEAN /\ shadowed \subseteq Payments
  BY DEF BookInv, Shelf
<1>2. rows \in Nat /\ data \in Objects /\ Book!Manager \in Managers
  BY DEF BookInv, Shelf, Fit
<1>3. book \in Seq(Contacts) /\ donation \in Gifts /\ names \in Labels \cup {Nothing}
      /\ index \in [address : [Keys -> Nat], label : [Labels -> Nat]]
  BY <1>2 DEF Book!Manager, Managers
<1> QED
  BY <1>1, <1>2, <1>3 DEF Book!TypeOK, Book!Indexes, Book!Texts, Book!Contacts,
     Book!Donations, Objects, Contacts, Gifts, Keys

LEMMA OrderWellTyped == OrderInv => Order!TypeOK
<1> SUFFICES ASSUME OrderInv PROVE Order!TypeOK
  OBVIOUS
<1>1. OrderTyped
  BY DEF OrderInv
<1>2. ready \in BOOLEAN /\ stale \in BOOLEAN /\ whole \in BOOLEAN /\ reopened \in BOOLEAN
  BY <1>1 DEF OrderTyped
<1>3. \A i \in DOMAIN amounts : amounts[i] >= 0
  BY <1>1 DEF OrderTyped
<1>4. DOMAIN order = DOMAIN Order!NoOrder
  BY <1>1 DEF OrderTyped, Orders, Order!NoOrder
<1> QED
  BY <1>1, <1>2, <1>3, <1>4 DEF OrderTyped, Order!TypeOK

\* Every part keeps to its types, whatever the constants.
THEOREM PartsKeepTheirTypes == Spec => []TypeOK
<1>1. Init => PagesInv /\ HistInv /\ CardsInv /\ FilterInv /\ FormInv /\ BookInv /\ OrderInv
  BY PagesBegin, HistBegins, CardsBegin, FilterFollowed, FormBegins, BookBegins, OrderBegins
<1>2. PagesInv /\ [Next]_vars => PagesInv'
  BY PagesKept
<1>3. HistInv /\ [Next]_vars => HistInv'
  BY HistStep
<1>4. CardsInv /\ [Next]_vars => CardsInv'
  BY CardsStep, CardsFollowed
<1>5. FilterInv /\ [Next]_vars => FilterInv'
  BY FilterFollowed
<1>6. FormInv /\ [Next]_vars => FormInv'
  BY FormFollowed
<1>7. BookInv /\ [Next]_vars => BookInv'
  BY BookStep, BookFollowed
<1>8. OrderInv /\ [Next]_vars => OrderInv'
  BY OrderStep, OrderFollowed
<1>9. PagesInv /\ HistInv /\ CardsInv /\ FilterInv /\ FormInv /\ BookInv /\ OrderInv => TypeOK
  BY HistWellTyped, CardsWellTyped, BookWellTyped, OrderWellTyped
     DEF TypeOK, PagesInv, FilterInv, FormInv, FormTyped
<1> QED
  BY <1>1, <1>2, <1>3, <1>4, <1>5, <1>6, <1>7, <1>8, <1>9, PTL DEF Spec
=============================================================================
