------------------------- MODULE BlockExplorer_proofs -------------------------
(***************************************************************************)
(* Proofs about BlockExplorer, for every number of requests, every depth   *)
(* of nested loops, every cache and every course of the node's news.       *)
(***************************************************************************)
EXTENDS BlockExplorer, FiniteSetTheorems, WellFoundedInduction, TLAPS

-----------------------------------------------------------------------------
(* Sequences.                                                              *)

\* Induction on the natural numbers, for a set of them: the library's theorem
\* is about a predicate.
LEMMA SetInduction ==
  ASSUME NEW T \in SUBSET Nat, 0 \in T, \A n \in T : n + 1 \in T
  PROVE  T = Nat
<1> DEFINE U == Nat \ T
<1> SUFFICES ASSUME U # {} PROVE FALSE
  OBVIOUS
<1>1. PICK x \in U : \A y \in U : ~(<<y, x>> \in OpToRel(<, Nat))
  <2>1. U \subseteq Nat
    OBVIOUS
  <2> HIDE DEF U
  <2> QED
    BY <2>1, NatLessThanWellFounded, WFMin
<1>2. x \in Nat /\ x # 0 /\ x - 1 \in Nat /\ x - 1 < x
  OBVIOUS
<1>3. <<x - 1, x>> \in OpToRel(<, Nat)
  BY <1>2 DEF OpToRel
<1>4. x - 1 \notin U
  BY <1>1, <1>3
<1>5. (x - 1) + 1 \in T
  BY <1>2, <1>4
<1> QED
  BY <1>2, <1>5

\* The function Kept is made from exists up to every n.
Step(s, A, f, i) ==
  IF i = 0 THEN <<>>
  ELSE IF s[i] \in A THEN Append(f[i - 1], s[i]) ELSE f[i - 1]

LEMMA StepsExist ==
  ASSUME NEW s, NEW A, NEW n \in Nat
  PROVE  \E f : f = [i \in 0 .. n |-> Step(s, A, f, i)]
<1> DEFINE T == {m \in Nat : \E f : f = [i \in 0 .. m |-> Step(s, A, f, i)]}
<1>1. 0 \in T
  <2> DEFINE f == [i \in 0 .. 0 |-> <<>>]
  <2>1. f = [i \in 0 .. 0 |-> Step(s, A, f, i)]
    BY DEF Step
  <2> QED
    BY <2>1
<1>2. ASSUME NEW m \in T PROVE m + 1 \in T
  <2>1. PICK f : f = [i \in 0 .. m |-> Step(s, A, f, i)]
    OBVIOUS
  <2> DEFINE g == [i \in 0 .. m + 1 |->
                     IF i = m + 1 THEN Step(s, A, f, m + 1) ELSE f[i]]
  <2>2. ASSUME NEW i \in 0 .. m + 1 PROVE g[i] = Step(s, A, g, i)
    <3>1. CASE i = m + 1
      <4>1. g[i] = Step(s, A, f, i) /\ g[i - 1] = f[i - 1]
        BY <3>1
      <4> QED
        BY <4>1 DEF Step
    <3>2. CASE i \in 0 .. m
      <4>1. g[i] = f[i] /\ f[i] = Step(s, A, f, i)
        BY <2>1, <3>2
      <4>2. i # 0 => g[i - 1] = f[i - 1]
        BY <3>2
      <4> QED
        BY <4>1, <4>2 DEF Step
    <3> QED
      BY <3>1, <3>2
  <2>3. g = [i \in 0 .. m + 1 |-> g[i]]
    OBVIOUS
  <2> HIDE DEF g
  <2>4. g = [i \in 0 .. m + 1 |-> Step(s, A, g, i)]
    BY <2>2, <2>3
  <2> QED
    BY <2>4
<1> HIDE DEF T
<1>3. T = Nat
  BY <1>1, <1>2, SetInduction DEF T
<1> QED
  BY <1>3 DEF T

LEMMA KeptSteps ==
  ASSUME NEW S, NEW s \in Seq(S), NEW A
  PROVE  \E f : /\ f = [i \in 0 .. Len(s) |-> Step(s, A, f, i)]
                /\ Kept(s, A) = f[Len(s)]
<1> DEFINE g == CHOOSE f : f = [i \in 0 .. Len(s) |-> Step(s, A, f, i)]
<1>1. Kept(s, A) = g[Len(s)]
  BY DEF Kept, Step
<1>2. Len(s) \in Nat
  OBVIOUS
<1>3. \E f : f = [i \in 0 .. Len(s) |-> Step(s, A, f, i)]
  BY <1>2, StepsExist
<1>4. g = [i \in 0 .. Len(s) |-> Step(s, A, g, i)]
  BY <1>3, Zenon
<1> HIDE DEF g
<1> QED
  BY <1>1, <1>4

\* Kept: no element is added, none of A is lost, and no element is doubled.
LEMMA KeptTyped ==
  ASSUME NEW S, NEW s \in Seq(S), NEW A
  PROVE  /\ Kept(s, A) \in Seq(S) /\ Len(Kept(s, A)) \in Nat
         /\ Len(Kept(s, A)) <= Len(s)
         /\ ToSet(Kept(s, A)) = ToSet(s) \cap A
         /\ IsInjective(s) => IsInjective(Kept(s, A))
<1>1. PICK f : /\ f = [i \in 0 .. Len(s) |-> Step(s, A, f, i)]
               /\ Kept(s, A) = f[Len(s)]
  BY KeptSteps
<1>2. Len(s) \in Nat /\ DOMAIN s = 1 .. Len(s) /\ \A i \in 1 .. Len(s) : s[i] \in S
  OBVIOUS
<1> DEFINE Good(g, n) ==
      /\ g \in Seq(S) /\ Len(g) <= n
      /\ ToSet(g) = {s[j] : j \in 1 .. n} \cap A
      /\ IsInjective(s) => IsInjective(g)
<1> DEFINE T == {n \in Nat : n <= Len(s) => Good(f[n], n)}
<1>3. 0 \in T
  <2>1. f[0] = <<>>
    BY <1>1, <1>2 DEF Step
  <2>2. <<>> \in Seq(S) /\ Len(<<>>) = 0 /\ ToSet(<<>>) = {} /\ IsInjective(<<>>)
    BY DEF ToSet, IsInjective
  <2>3. {s[j] : j \in 1 .. 0} = {}
    OBVIOUS
  <2>4. Good(f[0], 0)
    BY <2>1, <2>2, <2>3
  <2> HIDE DEF Good
  <2> QED
    BY <2>4
<1>4. ASSUME NEW n \in T PROVE n + 1 \in T
  <2> SUFFICES ASSUME n + 1 <= Len(s) PROVE Good(f[n + 1], n + 1)
    OBVIOUS
  <2> DEFINE g == f[n]
             x == s[n + 1]
  <2>1. n \in Nat /\ n + 1 \in 0 .. Len(s) /\ n + 1 \in 1 .. Len(s) /\ n + 1 # 0
    BY <1>2
  <2>2. Good(g, n)
    BY <1>2, <2>1
  <2>3. f[n + 1] = IF x \in A THEN Append(g, x) ELSE g
    <3>1. f[n + 1] = Step(s, A, f, n + 1)
      <4> HIDE DEF T, Good, g, x
      <4> QED
        BY <1>1, <2>1
    <3>2. (n + 1) - 1 = n
      BY <2>1
    <3> QED
      BY <2>1, <3>1, <3>2 DEF Step
  <2>4. {s[j] : j \in 1 .. n + 1} = {s[j] : j \in 1 .. n} \cup {x}
    BY <2>1
  <2>5. x \in S /\ g \in Seq(S) /\ Len(g) \in Nat
    BY <1>2, <2>1, <2>2
  <2>6. CASE x \notin A
    <3>1. f[n + 1] = g /\ Len(g) <= n + 1
      BY <2>1, <2>2, <2>3, <2>5, <2>6
    <3>2. {s[j] : j \in 1 .. n + 1} \cap A = {s[j] : j \in 1 .. n} \cap A
      BY <2>4, <2>6
    <3> HIDE DEF g, x
    <3> QED
      BY <2>2, <3>1, <3>2
  <2>7. CASE x \in A
    <3> DEFINE h == Append(g, x)
    <3> HIDE DEF g, x
    <3>1. /\ h \in Seq(S) /\ Len(h) = Len(g) + 1 /\ h[Len(g) + 1] = x
          /\ \A i \in 1 .. Len(g) : h[i] = g[i]
          /\ DOMAIN h = 1 .. Len(g) + 1 /\ DOMAIN g = 1 .. Len(g)
      BY <2>5
    <3>2. ToSet(h) = ToSet(g) \cup {x}
      BY <2>5, <3>1 DEF ToSet
    <3>3. ToSet(h) = {s[j] : j \in 1 .. n + 1} \cap A
      BY <2>2, <2>4, <2>7, <3>2
    <3>4. ASSUME IsInjective(s) PROVE IsInjective(h)
      <4>1. x \notin ToSet(g)
        <5>1. \A j \in 1 .. n : s[j] # x
          BY <1>2, <2>1, <3>4 DEF IsInjective, x
        <5> QED
          BY <2>2, <5>1
      <4>2. IsInjective(g) /\ \A i \in 1 .. Len(g) : g[i] # x
        BY <2>2, <3>1, <3>4, <4>1 DEF ToSet
      <4> QED
        BY <2>5, <3>1, <4>2 DEF IsInjective
    <3>5. Len(h) <= n + 1
      BY <2>1, <2>2, <2>5, <3>1
    <3>6. f[n + 1] = h
      BY <2>3, <2>7
    <3> QED
      BY <3>1, <3>3, <3>4, <3>5, <3>6
  <2> QED
    BY <2>6, <2>7
<1> HIDE DEF T
<1>5. T = Nat
  BY <1>3, <1>4, SetInduction DEF T
<1>6. Good(f[Len(s)], Len(s))
  <2> HIDE DEF Good
  <2> QED
    BY <1>2, <1>5 DEF T
<1>7. ToSet(s) = {s[j] : j \in 1 .. Len(s)}
  BY <1>2 DEF ToSet
<1> QED
  BY <1>1, <1>2, <1>6, <1>7

LEMMA HeadTail ==
  ASSUME NEW S, NEW q \in Seq(S), q # <<>>
  PROVE  /\ Tail(q) \in Seq(S) /\ Head(q) \in S /\ Head(q) = q[1]
         /\ Len(q) \in Nat \ {0} /\ Len(Tail(q)) = Len(q) - 1
         /\ DOMAIN Tail(q) = 1 .. Len(q) - 1
         /\ \A i \in 1 .. Len(q) - 1 : Tail(q)[i] = q[i + 1] /\ i + 1 \in DOMAIN q
OBVIOUS

LEMMA Joined ==
  ASSUME NEW S, NEW s \in Seq(S), NEW t \in Seq(S)
  PROVE  /\ s \o t \in Seq(S) /\ Len(s \o t) = Len(s) + Len(t)
         /\ Len(s) \in Nat /\ Len(t) \in Nat
         /\ DOMAIN (s \o t) = 1 .. Len(s) + Len(t)
         /\ \A i \in 1 .. Len(s) : (s \o t)[i] = s[i]
         /\ \A i \in 1 .. Len(t) : (s \o t)[Len(s) + i] = t[i]
OBVIOUS

LEMMA JoinedSet ==
  ASSUME NEW S, NEW s \in Seq(S), NEW t \in Seq(S)
  PROVE  /\ ToSet(s \o t) = ToSet(s) \cup ToSet(t)
         /\ IsInjective(s) /\ IsInjective(t) /\ ToSet(s) \cap ToSet(t) = {}
              => IsInjective(s \o t)
<1> DEFINE u == s \o t
<1>1. /\ Len(s) \in Nat /\ Len(t) \in Nat
      /\ DOMAIN u = 1 .. Len(s) + Len(t)
      /\ DOMAIN s = 1 .. Len(s) /\ DOMAIN t = 1 .. Len(t)
      /\ \A i \in 1 .. Len(s) : u[i] = s[i]
      /\ \A i \in 1 .. Len(t) : u[Len(s) + i] = t[i]
  BY Joined
<1> HIDE DEF u
<1>2. \A i \in DOMAIN u : \/ i \in DOMAIN s /\ u[i] = s[i]
                          \/ i - Len(s) \in DOMAIN t /\ u[i] = t[i - Len(s)]
  <2> SUFFICES ASSUME NEW i \in DOMAIN u, i \notin DOMAIN s
               PROVE  i - Len(s) \in DOMAIN t /\ u[i] = t[i - Len(s)]
    BY <1>1
  <2>1. i - Len(s) \in 1 .. Len(t) /\ Len(s) + (i - Len(s)) = i
    BY <1>1
  <2> QED
    BY <1>1, <2>1
<1>3. ToSet(u) = ToSet(s) \cup ToSet(t)
  <2>1. \A i \in DOMAIN s : i \in DOMAIN u /\ u[i] = s[i]
    BY <1>1
  <2>2. \A i \in DOMAIN t : Len(s) + i \in DOMAIN u /\ u[Len(s) + i] = t[i]
    BY <1>1
  <2>3. ToSet(u) \subseteq ToSet(s) \cup ToSet(t)
    BY <1>2 DEF ToSet
  <2>4. ToSet(s) \subseteq ToSet(u) /\ ToSet(t) \subseteq ToSet(u)
    BY <2>1, <2>2 DEF ToSet
  <2> QED
    BY <2>3, <2>4
<1>4. ASSUME IsInjective(s), IsInjective(t), ToSet(s) \cap ToSet(t) = {}
      PROVE  IsInjective(u)
  <2> SUFFICES ASSUME NEW i \in DOMAIN u, NEW j \in DOMAIN u, u[i] = u[j]
               PROVE  i = j
    BY DEF IsInjective
  <2>1. CASE i \in DOMAIN s /\ j \in DOMAIN s
    BY <1>1, <1>4, <2>1 DEF IsInjective
  <2>2. CASE i \notin DOMAIN s /\ j \notin DOMAIN s
    <3>1. i - Len(s) \in DOMAIN t /\ j - Len(s) \in DOMAIN t
          /\ t[i - Len(s)] = t[j - Len(s)]
      BY <1>2, <2>2
    <3>2. i - Len(s) = j - Len(s)
      BY <1>4, <3>1, Zenon DEF IsInjective
    <3> QED
      BY <1>1, <3>2
  <2>3. ASSUME NEW a \in DOMAIN s, NEW b \in DOMAIN t, s[a] = t[b]
        PROVE  FALSE
    BY <1>4, <2>3 DEF ToSet
  <2>4. CASE i \in DOMAIN s /\ j \notin DOMAIN s
    BY <1>1, <1>2, <2>3, <2>4
  <2>5. CASE i \notin DOMAIN s /\ j \in DOMAIN s
    BY <1>1, <1>2, <2>3, <2>5
  <2> QED
    BY <2>1, <2>2, <2>4, <2>5
<1> QED
  BY <1>3, <1>4 DEF u

LEMMA Reversed ==
  ASSUME NEW S, NEW s \in Seq(S)
  PROVE  /\ Reverse(s) \in Seq(S) /\ Len(Reverse(s)) = Len(s) /\ Len(s) \in Nat
         /\ DOMAIN Reverse(s) = DOMAIN s
         /\ \A i \in DOMAIN s : Len(s) - i + 1 \in DOMAIN s
                                /\ Reverse(s)[i] = s[Len(s) - i + 1]
         /\ ToSet(Reverse(s)) = ToSet(s)
         /\ IsInjective(s) => IsInjective(Reverse(s))
<1> DEFINE r == Reverse(s)
<1>1. Len(s) \in Nat /\ DOMAIN s = 1 .. Len(s) /\ \A i \in 1 .. Len(s) : s[i] \in S
  OBVIOUS
<1>2. \A i \in 1 .. Len(s) : Len(s) - i + 1 \in 1 .. Len(s)
  BY <1>1
<1>3. r = [i \in 1 .. Len(s) |-> s[(Len(s) - i) + 1]]
  BY DEF Reverse
<1> HIDE DEF r
<1>4. r \in [1 .. Len(s) -> S] /\ \A i \in 1 .. Len(s) : r[i] = s[Len(s) - i + 1]
  BY <1>1, <1>2, <1>3
<1>5. r \in Seq(S) /\ Len(r) = Len(s) /\ DOMAIN r = DOMAIN s
  BY <1>1, <1>4
<1>6. ToSet(r) = ToSet(s)
  <2>1. \A i \in 1 .. Len(s) : s[i] = r[Len(s) - i + 1]
    <3> SUFFICES ASSUME NEW i \in 1 .. Len(s) PROVE s[i] = r[Len(s) - i + 1]
      OBVIOUS
    <3>1. Len(s) - (Len(s) - i + 1) + 1 = i
      BY <1>1
    <3> QED
      BY <1>2, <1>4, <3>1
  <2> QED
    BY <1>1, <1>2, <1>4, <1>5, <2>1 DEF ToSet
<1>7. ASSUME IsInjective(s) PROVE IsInjective(r)
  <2> SUFFICES ASSUME NEW i \in 1 .. Len(s), NEW j \in 1 .. Len(s), r[i] = r[j]
               PROVE  i = j
    BY <1>1, <1>5 DEF IsInjective
  <2>1. Len(s) - i + 1 = Len(s) - j + 1
    BY <1>1, <1>2, <1>4, <1>7 DEF IsInjective
  <2> QED
    BY <1>1, <2>1
<1> QED
  BY <1>1, <1>2, <1>4, <1>5, <1>6, <1>7 DEF r

-----------------------------------------------------------------------------
(* Frames and the cache.                                                   *)

Ops == Waits \cup {"block", "pool", "init"}
Askers == {"view", "page", "filter", "model", "init", "sync", "adapter"}

LEMMA FrameTyped ==
  ASSUME NEW op \in Ops, NEW lo \in Heights, NEW hi \in Heights,
         NEW by \in Askers,
         asks \in Nat
  PROVE  Frame(op, lo, hi, by) \in Frames
<1>1. <<>> \in Seq(Txs)
  OBVIOUS
<1> QED
  BY <1>1 DEF Frame, Frames, Ops, Askers, Outcomes

LEMMA RequestTyped ==
  ASSUME NEW f \in Frames
  PROVE  /\ Request(f) \in Requests /\ Request(f).what = "impl"
         /\ Request(f).op = f.op /\ Request(f).id = f.id
BY DEF Request, Requests, Frames

\* The cache after an insertion.
LEMMA PutTyped ==
  ASSUME NEW c \in Seq(Heights), Len(c) <= Capacity, NEW hs \in Seq(Heights)
  PROVE  PutAll(c, hs) \in Seq(Heights) /\ Len(PutAll(c, hs)) <= Capacity
<1> DEFINE d == Kept(c, Heights \ ToSet(hs)) \o hs
<1>1. d \in Seq(Heights) /\ Len(d) \in Nat /\ Capacity \in Nat \ {0}
  BY KeptTyped, Joined, ExplorerAssumption
<1> HIDE DEF d
<1>2. CASE Len(d) <= Capacity
  BY <1>1, <1>2 DEF PutAll, d
<1>3. CASE Len(d) > Capacity
  <2>1. PutAll(c, hs) = SubSeq(d, Len(d) - Capacity + 1, Len(d))
    BY <1>3 DEF PutAll, d
  <2> DEFINE m == Len(d) - Capacity + 1
  <2>2. m \in 1 .. Len(d) /\ Len(d) - m + 1 = Capacity
    BY <1>1, <1>3
  <2> HIDE DEF m
  <2>3. /\ SubSeq(d, m, Len(d)) \in Seq(Heights)
        /\ Len(SubSeq(d, m, Len(d))) = Len(d) - m + 1
    BY <1>1, <2>2
  <2> QED
    BY <2>1, <2>2, <2>3, <1>1 DEF m
<1> QED
  BY <1>1, <1>2, <1>3


-----------------------------------------------------------------------------
(* What the steps do to the stack and to the worker's queue.               *)

LEMMA TopEdited ==
  ASSUME NEW s \in Seq(Frames), s # <<>>, NEW g \in Frames
  PROVE  /\ [s EXCEPT ![1] = g] \in Seq(Frames)
         /\ DOMAIN [s EXCEPT ![1] = g] = DOMAIN s /\ 1 \in DOMAIN s
         /\ [s EXCEPT ![1] = g][1] = g
         /\ \A k \in DOMAIN s : k # 1 => [s EXCEPT ![1] = g][k] = s[k]
OBVIOUS

LEMMA Mapped ==
  ASSUME NEW S, NEW T, NEW s \in Seq(S), NEW t, DOMAIN t = DOMAIN s,
         t = [k \in DOMAIN s |-> t[k]], \A k \in DOMAIN s : t[k] \in T
  PROVE  t \in Seq(T)
<1>1. Len(s) \in Nat /\ DOMAIN s = 1 .. Len(s)
  OBVIOUS
<1>2. t \in [1 .. Len(s) -> T]
  BY <1>1
<1> QED
  BY <1>1, <1>2

LEMMA AtEdited ==
  ASSUME NEW f \in Frames, NEW a \in {"lock", "start", "loop", "wait"}
  PROVE  [f EXCEPT !.at = a] \in Frames
BY DEF Frames

Connecting == {"start", "loop", "wait"}
SameIds == \A k, l \in DOMAIN stack : stack[k].id = stack[l].id => k = l

Ended == {"ok", "fail"}

\* The calls a completion signal posts: one per connected lambda.
Posted(cs, op, id, status, got) ==
  /\ \A k \in DOMAIN cs :
       /\ cs[k].from = id /\ cs[k].status = status /\ cs[k].got = got
       /\ \E l \in DOMAIN stack :
            /\ stack[l].id = cs[k].to /\ stack[l].at \in Connecting
            /\ stack[l].op \notin {"block", "init"}
            /\ stack[l].op = "pool" <=> op = "pool"
  /\ SameIds => \A k, l \in DOMAIN cs : cs[k].to = cs[l].to => k = l

LEMMA Emitted ==
  ASSUME NEW op, NEW id \in Nat, NEW status \in Ended, NEW got \in Seq(Txs),
         stack \in Seq(Frames), wq \in Seq(Requests \cup Calls),
         Emit(op, id, status, got)
  PROVE  \E cs \in Seq(Calls) : wq' = wq \o cs /\ Posted(cs, op, id, status, got)
<1> DEFINE A == {f \in ToSet(stack) : f.at \in {"start", "loop", "wait"}
                   /\ (IF op = "pool" THEN f.op = "pool" ELSE f.op \in Waits)}
           c == Connected(op)
           r == Reverse(c)
           cs == [k \in DOMAIN c |-> [what |-> "call", to |-> r[k].id, from |-> id,
                                      status |-> status, got |-> got]]
<1>1. c = Kept(stack, A)
  BY DEF Connected
<1>2. /\ c \in Seq(Frames) /\ ToSet(c) = ToSet(stack) \cap A
      /\ IsInjective(stack) => IsInjective(c)
  BY <1>1, KeptTyped
<1> HIDE DEF c
<1>3. /\ r \in Seq(Frames) /\ DOMAIN r = DOMAIN c /\ ToSet(r) = ToSet(c)
      /\ IsInjective(c) => IsInjective(r)
  BY <1>2, Reversed
<1>4. wq' = wq \o cs
  BY DEF Emit, c
<1> HIDE DEF r
<1>5. \A k \in DOMAIN c : \E l \in DOMAIN stack : stack[l] = r[k] /\ stack[l] \in A
  <2> SUFFICES ASSUME NEW k \in DOMAIN c
               PROVE  \E l \in DOMAIN stack : stack[l] = r[k] /\ stack[l] \in A
    OBVIOUS
  <2> HIDE DEF A
  <2>1. r[k] \in ToSet(r)
    BY <1>3 DEF ToSet
  <2>2. r[k] \in ToSet(stack) /\ r[k] \in A
    BY <1>2, <1>3, <2>1
  <2> QED
    BY <2>2 DEF ToSet
<1>6. \A k \in DOMAIN c : cs[k] \in Calls
  <2> SUFFICES ASSUME NEW k \in DOMAIN c PROVE cs[k] \in Calls
    OBVIOUS
  <2>1. r[k] \in Frames
    BY <1>3
  <2>2. r[k].id \in Nat
    BY <2>1 DEF Frames
  <2> QED
    BY <2>2 DEF Calls, Ended
<1>7. cs \in Seq(Calls)
  <2>1. DOMAIN cs = DOMAIN c /\ cs = [k \in DOMAIN c |-> cs[k]]
    OBVIOUS
  <2> HIDE DEF cs
  <2> QED
    BY <1>2, <1>6, <2>1, Mapped
<1>8. ASSUME NEW k \in DOMAIN cs
      PROVE  /\ cs[k].from = id /\ cs[k].status = status /\ cs[k].got = got
             /\ \E l \in DOMAIN stack :
                  /\ stack[l].id = cs[k].to /\ stack[l].at \in Connecting
                  /\ stack[l].op \notin {"block", "init"}
                  /\ stack[l].op = "pool" <=> op = "pool"
  BY <1>5 DEF Connecting, Waits
<1>9. ASSUME SameIds, NEW k \in DOMAIN cs, NEW l \in DOMAIN cs, cs[k].to = cs[l].to
      PROVE  k = l
  <2>1. IsInjective(r)
    BY <1>2, <1>3, <1>9 DEF IsInjective, SameIds
  <2>2. r[k].id = r[l].id /\ k \in DOMAIN r /\ l \in DOMAIN r
    BY <1>3, <1>9
  <2>3. r[k] = r[l]
    BY <1>5, <1>9, <2>2 DEF SameIds
  <2> QED
    BY <2>1, <2>2, <2>3 DEF IsInjective
<1> HIDE DEF cs
<1>10. Posted(cs, op, id, status, got)
  BY <1>8, <1>9 DEF Posted
<1> QED
  BY <1>4, <1>7, <1>10


-----------------------------------------------------------------------------
(* Types.                                                                  *)

\* The pool is finite, so that it can be listed.
TypeInv == TypeOK /\ IsFiniteSet(node.pool)

LEMMA TypeInit == Init => TypeInv
<1> SUFFICES ASSUME Init PROVE TypeInv
  OBVIOUS
<1>1. /\ node.top \in {0, MaxTop - 1} /\ node.pool = {} /\ node.synced \in BOOLEAN
      /\ node.inited = FALSE /\ node.life = "new"
      /\ node = [top |-> node.top, pool |-> node.pool, synced |-> node.synced,
                 inited |-> node.inited, life |-> node.life]
  BY DEF Init
<1>2. node \in [top : Heights, pool : SUBSET Txs, synced : BOOLEAN,
                inited : BOOLEAN, life : {"new", "up", "down", "none"}]
  <2>1. node.top \in Heights /\ node.life \in {"new", "up", "down", "none"}
    BY <1>1, ExplorerAssumption DEF Heights
  <2>2. node.pool \in SUBSET Txs /\ node.inited \in BOOLEAN
    BY <1>1, Zenon
  <2> QED
    BY <1>1, <2>1, <2>2
<1>3. IsFiniteSet(node.pool)
  BY <1>1, FS_EmptySet
<1>4. hand \in [at : 0 .. Invalid, valid : BOOLEAN]
  BY ExplorerAssumption DEF Init, NoBlock, Invalid
<1>5. /\ sem \in 0 .. 1 /\ stack \in Seq(Frames) /\ asks \in Nat /\ news \in 0 .. MaxNews
      /\ wq \in Seq(Requests \cup Calls) /\ job \in {NoJob} \cup Jobs
      /\ guiq \in Seq(Events)
  BY ExplorerAssumption DEF Init
<1>6. /\ cache \in Seq(Heights) /\ Len(cache) <= Capacity
      /\ count \in Heights /\ last \in 0 .. Invalid
  BY ExplorerAssumption DEF Init, Heights, Invalid
<1>7. /\ rows \in Seq(Txs) /\ shown \in SUBSET Txs
      /\ synced \in BOOLEAN /\ dirty \in BOOLEAN
  <2>1. synced \in BOOLEAN /\ dirty \in BOOLEAN
    BY Zenon DEF Init
  <2> QED
    BY <2>1 DEF Init
<1>8. quit \in {"no", "unwind", "last"} /\ cut \in 0 .. asks
  BY DEF Init
<1> QED
  BY <1>2, <1>3, <1>4, <1>5, <1>6, <1>7, <1>8 DEF TypeInv, TypeOK

\* The steps of the GUI thread in a request.
LEMMA TypeRequest ==
  ASSUME TypeInv, \/ Lock \/ Exec \/ Refused \/ LeaveLoop \/ ReturnBlock
                  \/ ReturnPool \/ PutDown \/ LastShutdown
  PROVE  TypeInv'
<1>1. /\ stack \in Seq(Frames) /\ wq \in Seq(Requests \cup Calls)
      /\ stack # <<>> => /\ Top \in Frames /\ Top = stack[1] /\ Tail(stack) \in Seq(Frames)
                         /\ 1 \in DOMAIN stack /\ Request(Top) \in Requests
  BY HeadTail, RequestTyped DEF TypeInv, TypeOK, Top
<1>2. CASE Lock
  <2>1. stack # <<>>
    BY <1>2 DEF Lock, Waiting
  <2>2. stack' \in Seq(Frames)
    <3> DEFINE a == IF Top.op = "block" THEN "wait" ELSE "start"
    <3>1. stack' = [stack EXCEPT ![1] = [stack[1] EXCEPT !.at = a]]
      BY <1>2 DEF Lock
    <3>2. a \in {"lock", "start", "loop", "wait"}
      OBVIOUS
    <3> HIDE DEF a
    <3> QED
      BY <1>1, <2>1, <3>1, <3>2, AtEdited, TopEdited
  <2>3. wq' \in Seq(Requests \cup Calls)
    BY <1>1, <1>2, <2>1 DEF Lock
  <2> QED
    BY <1>2, <2>2, <2>3 DEF Lock, gui, TypeInv, TypeOK
<1>3. CASE Exec
  <2>1. stack # <<>>
    BY <1>3 DEF Exec, Waiting
  <2>2. stack' \in Seq(Frames)
    <3> DEFINE g == [stack[1] EXCEPT !.at = "loop", !.exit = FALSE]
    <3>1. stack' = [stack EXCEPT ![1] = g]
      BY <1>3 DEF Exec
    <3>2. g \in Frames
      BY <1>1, <2>1 DEF Frames
    <3> HIDE DEF g
    <3> QED
      BY <1>1, <2>1, <3>1, <3>2, TopEdited
  <2>3. wq' \in Seq(Requests \cup Calls)
    BY <1>1, <1>3, <2>1 DEF Exec
  <2> QED
    BY <1>3, <2>2, <2>3 DEF Exec, gui, TypeInv, TypeOK
<1>4. CASE LeaveLoop
  <2>1. stack # <<>>
    BY <1>4 DEF LeaveLoop, Waiting
  <2>2. stack' \in Seq(Frames)
    <3>1. stack' = Tail(stack) \/ stack' = [stack EXCEPT ![1] = [stack[1] EXCEPT !.at = "wait"]]
      BY <1>4 DEF LeaveLoop
    <3>2. [stack[1] EXCEPT !.at = "wait"] \in Frames
      BY <1>1, <2>1, AtEdited
    <3>3. [stack EXCEPT ![1] = [stack[1] EXCEPT !.at = "wait"]] \in Seq(Frames)
      BY <1>1, <2>1, <3>2, TopEdited, Zenon
    <3> QED
      BY <1>1, <2>1, <3>1, <3>3, Zenon
  <2> QED
    BY <1>4, <2>2 DEF LeaveLoop, gui, TypeInv, TypeOK
<1>5. CASE ReturnBlock
  <2>1. stack # <<>> /\ Top.lo \in Heights /\ stack' = Tail(stack)
    BY <1>1, <1>5 DEF ReturnBlock, TokenBack, Waiting, Frames
  <2>2. cache' \in Seq(Heights) /\ Len(cache') <= Capacity
    <3>1. <<Top.lo>> \in Seq(Heights)
      BY <2>1
    <3> QED
      BY <1>5, <3>1, PutTyped DEF ReturnBlock, Use, TypeInv, TypeOK
  <2>3. hand' \in [at : 0 .. Invalid, valid : BOOLEAN]
    <3>1. /\ [at |-> Top.lo, valid |-> TRUE] \in [at : 0 .. Invalid, valid : BOOLEAN]
          /\ hand \in [at : 0 .. Invalid, valid : BOOLEAN]
      BY <2>1, ExplorerAssumption DEF TypeInv, TypeOK, Heights, Invalid
    <3> QED
      BY <1>5, <3>1 DEF ReturnBlock
  <2> QED
    BY <1>1, <1>5, <2>1, <2>2, <2>3 DEF ReturnBlock, TypeInv, TypeOK
<1>6. CASE ReturnPool
  <2>1. stack # <<>> /\ Top.got \in Seq(Txs) /\ stack' = Tail(stack)
    BY <1>1, <1>6 DEF ReturnPool, TokenBack, Waiting, Frames
  <2>2. rows' \in Seq(Txs) /\ shown' \in SUBSET Txs
    <3>1. /\ Reverse(Top.got) \in Seq(Txs)
          /\ \A r \in Seq(Txs) : Reverse(Top.got) \o r \in Seq(Txs)
      BY <2>1, Reversed, Joined
    <3>2. ToSet(Top.got) \subseteq Txs
      BY <2>1 DEF ToSet
    <3>3. <<>> \in Seq(Txs) /\ rows \in Seq(Txs) /\ shown \in SUBSET Txs
      BY DEF TypeInv, TypeOK
    <3> QED
      BY <1>6, <3>1, <3>2, <3>3 DEF ReturnPool
  <2>3. synced' \in BOOLEAN
    BY <1>6 DEF ReturnPool, TypeInv, TypeOK
  <2> QED
    BY <1>1, <1>6, <2>1, <2>2, <2>3 DEF ReturnPool, TypeInv, TypeOK
<1>7. CASE PutDown
  <2>1. hand' \in [at : 0 .. Invalid, valid : BOOLEAN]
    BY <1>7, ExplorerAssumption DEF PutDown, NoBlock, Invalid
  <2> QED
    BY <1>7, <2>1 DEF PutDown, gui, TypeInv, TypeOK
<1>8. CASE Refused
  <2>1. stack # <<>>
    BY <1>8 DEF Refused, Waiting
  <2>2. stack' \in Seq(Frames)
    <3>1. stack' = [stack EXCEPT ![1] = [stack[1] EXCEPT !.at = "wait"]]
      BY <1>8 DEF Refused
    <3>2. [stack[1] EXCEPT !.at = "wait"] \in Frames
      BY <1>1, <2>1, AtEdited
    <3> QED
      BY <1>1, <2>1, <3>1, <3>2, TopEdited, Zenon
  <2> QED
    BY <1>8, <2>2 DEF Refused, gui, TypeInv, TypeOK
<1>9. CASE LastShutdown
  <2>1. quit' \in {"no", "unwind", "last"} /\ cut' \in 0 .. asks'
    BY <1>9 DEF LastShutdown, TypeInv, TypeOK
  <2> QED
    BY <1>9, <2>1 DEF LastShutdown, TypeInv, TypeOK
<1> QED
  BY <1>2, <1>3, <1>4, <1>5, <1>6, <1>7, <1>8, <1>9

\* Making a request: a frame on top of those left.
LEMMA Entered ==
  ASSUME TypeInv, NEW op \in Ops, NEW lo \in Heights, NEW hi \in Heights,
         NEW by \in Askers,
         NEW s \in Seq(Frames), Enter(s, Frame(op, lo, hi, by))
  PROVE  stack' \in Seq(Frames) /\ asks' \in Nat /\ asks' = asks + 1
<1>1. asks \in Nat
  BY DEF TypeInv, TypeOK
<1>2. Frame(op, lo, hi, by) \in Frames
  BY <1>1, FrameTyped
<1> QED
  BY <1>1, <1>2 DEF Enter

LEMMA TypeAsk ==
  ASSUME TypeInv, \/ ReturnPreload \/ ExplorerInit \/ InitCompleted \/ Paint
                  \/ Preload \/ OnSynchronized
  PROVE  TypeInv'
<1> DEFINE Stacked == /\ stack' \in Seq(Frames) /\ asks' \in Nat
                      /\ asks' \in {asks, asks + 1}
           Quitted == quit' \in {"no", "unwind", "last"} /\ cut' \in 0 .. asks'
<1>0. ASSUME asks' \in {asks, asks + 1}, UNCHANGED <<quit, cut>>
      PROVE  Quitted
  BY <1>0 DEF TypeInv, TypeOK
<1>1. /\ stack \in Seq(Frames) /\ (Tail(stack) \in Seq(Frames) \/ stack = <<>>)
      /\ 0 \in Heights
  BY HeadTail, ExplorerAssumption DEF TypeInv, TypeOK, Heights
<1>2. stack \in Seq(Frames)
  BY DEF TypeInv, TypeOK
<1>3. {"pool", "init", "range", "block"} \subseteq Ops /\ Waits \subseteq Ops
      /\ {"view", "page", "filter", "model", "init", "sync", "adapter"} \subseteq Askers
  BY DEF Ops, Waits, Askers
<1>4. CASE ReturnPreload
  <2>1. stack # <<>> /\ Tail(stack) \in Seq(Frames)
    BY <1>1, <1>4 DEF ReturnPreload, TokenBack, Waiting
  <2>2. Stacked
    <3>1. \/ Enter(Tail(stack), Frame("pool", 0, 0, "init"))
          \/ stack' = Tail(stack) /\ asks' = asks
      BY <1>4 DEF ReturnPreload
    <3>2. CASE Enter(Tail(stack), Frame("pool", 0, 0, "init"))
      BY <1>1, <1>3, <2>1, <3>2, Entered
    <3> QED
      BY <2>1, <3>1, <3>2 DEF TypeInv, TypeOK
  <2>3. /\ rows' \in Seq(Txs) /\ shown' \in SUBSET Txs /\ synced' \in BOOLEAN
        /\ dirty' \in BOOLEAN
    <3>1. /\ <<>> \in Seq(Txs) /\ rows \in Seq(Txs) /\ shown \in SUBSET Txs
          /\ synced \in BOOLEAN /\ dirty \in BOOLEAN
      BY DEF TypeInv, TypeOK
    <3>2. Querying(Tail(stack)) \in BOOLEAN
      BY DEF Querying
    <3>3. /\ rows' = rows \/ rows' = <<>>
          /\ shown' = shown \/ shown' = {}
          /\ synced' = synced \/ synced' = TRUE \/ synced' = FALSE
          /\ dirty' = dirty \/ dirty' = Querying(Tail(stack))
      BY <1>4 DEF ReturnPreload
    <3> QED
      BY <3>1, <3>2, <3>3
  <2>10. Quitted
    <3>1. UNCHANGED <<quit, cut>>
      BY <1>4 DEF ReturnPreload
    <3> QED
      BY <1>0, <2>2, <3>1
  <2> QED
    BY <1>4, <2>2, <2>3, <2>10 DEF ReturnPreload, TypeInv, TypeOK
<1>5. CASE ExplorerInit
  <2>1. Stacked
    BY <1>1, <1>2, <1>3, <1>5, Entered DEF ExplorerInit
  <2>2. /\ node' \in [top : Heights, pool : SUBSET Txs, synced : BOOLEAN,
                      inited : BOOLEAN, life : {"new", "up", "down", "none"}]
        /\ node'.pool = node.pool
    BY <1>5 DEF ExplorerInit, TypeInv, TypeOK
  <2>10. Quitted
    <3>1. UNCHANGED <<quit, cut>>
      BY <1>5 DEF ExplorerInit
    <3> QED
      BY <1>0, <2>1, <3>1
  <2> QED
    BY <1>5, <2>1, <2>2, <2>10 DEF ExplorerInit, TypeInv, TypeOK
<1>6. CASE InitCompleted
  <2> DEFINE lo == IF count < Preloaded THEN 0 ELSE count - Preloaded
  <2>1. count \in Heights /\ lo \in Heights /\ count \in 0 .. Invalid
    BY ExplorerAssumption DEF TypeInv, TypeOK, Heights, Invalid
  <2>2. Enter(stack, Frame("range", lo, count, "model"))
    BY <1>6 DEF InitCompleted
  <2> HIDE DEF lo
  <2>3. Stacked
    BY <1>2, <1>3, <2>1, <2>2, Entered
  <2>10. Quitted
    <3>1. UNCHANGED <<quit, cut>>
      BY <1>6 DEF InitCompleted, Rest
    <3> QED
      BY <1>0, <2>3, <3>1
  <2> QED
    BY <1>6, <2>1, <2>3, <2>10 DEF InitCompleted, Rest, TypeInv, TypeOK
<1>7. CASE Paint
  <2>1. PICK h \in Heights :
          IF Contains(cache, h)
          THEN /\ hand' = [at |-> h, valid |-> TRUE] /\ cache' = Use(cache, h)
               /\ UNCHANGED <<stack, asks>>
          ELSE /\ Enter(stack, Frame("block", h, h, "view"))
               /\ UNCHANGED <<hand, cache>>
    BY <1>7 DEF Paint
  <2>2. /\ cache' \in Seq(Heights) /\ Len(cache') <= Capacity /\ Stacked
        /\ hand' \in [at : 0 .. Invalid, valid : BOOLEAN]
    <3>1. CASE Contains(cache, h)
      <4>1. <<h>> \in Seq(Heights) /\ h \in 0 .. Invalid
        BY ExplorerAssumption DEF Heights, Invalid
      <4>2. cache' \in Seq(Heights) /\ Len(cache') <= Capacity
        BY <2>1, <3>1, <4>1, PutTyped DEF Use, TypeInv, TypeOK
      <4>3. [at |-> h, valid |-> TRUE] \in [at : 0 .. Invalid, valid : BOOLEAN]
        BY <4>1
      <4>4. hand' = [at |-> h, valid |-> TRUE] /\ UNCHANGED <<stack, asks>>
        BY <2>1, <3>1, Zenon
      <4> QED
        BY <4>2, <4>3, <4>4 DEF TypeInv, TypeOK
    <3>2. CASE ~Contains(cache, h)
      <4>1. Stacked
        BY <1>2, <1>3, <2>1, <3>2, Entered
      <4> QED
        BY <2>1, <3>2, <4>1 DEF TypeInv, TypeOK
    <3> QED
      BY <3>1, <3>2
  <2>10. Quitted
    <3>1. UNCHANGED <<quit, cut>>
      BY <1>7 DEF Paint, Rest
    <3> QED
      BY <1>0, <2>2, <3>1
  <2> QED
    BY <1>7, <2>2, <2>10 DEF Paint, Rest, TypeInv, TypeOK
<1>8. CASE Preload
  <2>1. Stacked
    <3>1. PICK op \in Waits, lo \in Heights, hi \in Heights :
            Enter(stack, Frame(op, lo, hi, IF op = "range" THEN "page" ELSE "filter"))
      BY <1>8 DEF Preload
    <3>2. CASE op = "range"
      BY <1>2, <1>3, <3>1, <3>2, Entered
    <3>3. CASE op # "range"
      BY <1>2, <1>3, <3>1, <3>3, Entered
    <3> QED
      BY <3>2, <3>3
  <2>10. Quitted
    <3>1. UNCHANGED <<quit, cut>>
      BY <1>8 DEF Preload, Rest
    <3> QED
      BY <1>0, <2>1, <3>1
  <2> QED
    BY <1>8, <2>1, <2>10 DEF Preload, Rest, TypeInv, TypeOK
<1>9. CASE OnSynchronized
  <2>1. Stacked
    <3>1. Enter(stack, Frame("pool", 0, 0, "sync")) \/ UNCHANGED <<stack, asks>>
      BY <1>9 DEF OnSynchronized
    <3>2. CASE Enter(stack, Frame("pool", 0, 0, "sync"))
      BY <1>1, <1>2, <1>3, <3>2, Entered
    <3> QED
      BY <3>1, <3>2 DEF TypeInv, TypeOK
  <2>2. guiq' \in Seq(Events)
    BY <1>9, HeadTail DEF OnSynchronized, Event, TypeInv, TypeOK
  <2>3. dirty' \in BOOLEAN /\ synced' \in BOOLEAN
    BY <1>9 DEF OnSynchronized, TypeInv, TypeOK, Querying
  <2>10. Quitted
    <3>1. UNCHANGED <<quit, cut>>
      BY <1>9 DEF OnSynchronized
    <3> QED
      BY <1>0, <2>1, <3>1
  <2> QED
    BY <1>9, <2>1, <2>2, <2>3, <2>10 DEF OnSynchronized, TypeInv, TypeOK
<1> QED
  BY <1>4, <1>5, <1>6, <1>7, <1>8, <1>9


\* The steps of the GUI thread that only handle an event.
LEMMA TypeEvent ==
  ASSUME TypeInv, \/ ExplorerDeinit \/ OnInitDone \/ OnTop \/ OnPoolUpdated
                  \/ Quit \/ InitCompletedWithout
  PROVE  TypeInv'
<1>1. /\ stack \in Seq(Frames) /\ guiq \in Seq(Events) /\ rows \in Seq(Txs)
      /\ shown \in SUBSET Txs
  BY DEF TypeInv, TypeOK
<1>2. CASE ExplorerDeinit
  <2>1. /\ node' \in [top : Heights, pool : SUBSET Txs, synced : BOOLEAN,
                      inited : BOOLEAN, life : {"new", "up", "down", "none"}]
        /\ node'.pool = node.pool
    BY <1>2 DEF ExplorerDeinit, TypeInv, TypeOK
  <2> QED
    BY <1>2, <2>1 DEF ExplorerDeinit, TypeInv, TypeOK
<1>3. ASSUME guiq # <<>>, guiq' = Tail(guiq)
      PROVE  guiq' \in Seq(Events) /\ Head(guiq) \in Events
  BY <1>1, <1>3, HeadTail
<1>4. CASE OnInitDone
  <2>1. guiq' \in Seq(Events)
    BY <1>3, <1>4 DEF OnInitDone, Event
  <2>2. stack' \in Seq(Frames)
    <3> DEFINE t == [k \in DOMAIN stack |->
             IF stack[k].op = "init" THEN [stack[k] EXCEPT !.exit = TRUE]
                                     ELSE stack[k]]
    <3>1. ASSUME NEW f \in Frames PROVE [f EXCEPT !.exit = TRUE] \in Frames
      BY DEF Frames
    <3>2. \A k \in DOMAIN stack : stack[k] \in Frames
      BY <1>1
    <3>3. \A k \in DOMAIN stack : t[k] \in Frames
      BY <3>1, <3>2
    <3>4. DOMAIN t = DOMAIN stack /\ t = [k \in DOMAIN stack |-> t[k]]
      OBVIOUS
    <3>5. stack' = t
      BY <1>4 DEF OnInitDone
    <3> HIDE DEF t
    <3> QED
      BY <1>1, <3>3, <3>4, <3>5, Mapped
  <2> QED
    BY <1>4, <2>1, <2>2 DEF OnInitDone, TypeInv, TypeOK
<1>5. CASE OnTop
  <2>1. guiq' \in Seq(Events) /\ Head(guiq) \in Events /\ Head(guiq).what = "top"
    BY <1>3, <1>5 DEF OnTop, Event
  <2>2. count' \in Heights
    <3>1. Head(guiq).top \in Heights
      BY <2>1 DEF Events
    <3> QED
      BY <1>5, <3>1 DEF OnTop
  <2>3. last' \in 0 .. Invalid
    <3>1. last' = count' \/ last' = last
      BY <1>5 DEF OnTop
    <3> QED
      BY <2>2, <3>1, ExplorerAssumption DEF TypeInv, TypeOK, Heights, Invalid
  <2> QED
    BY <1>5, <2>1, <2>2, <2>3 DEF OnTop, TypeInv, TypeOK
<1>6. CASE OnPoolUpdated
  <2> DEFINE e == Head(guiq)
             new == Kept(e.add, Txs \ shown)
  <2>1. guiq' \in Seq(Events) /\ e \in Events /\ e.what = "pool"
    BY <1>3, <1>6 DEF OnPoolUpdated, Event
  <2>2. e.add \in Seq(Txs) /\ e.del \in SUBSET Txs
    BY <2>1 DEF Events
  <2>3. /\ rows' = Kept(Reverse(new) \o rows, Txs \ e.del)
        /\ shown' = (shown \cup ToSet(new)) \ e.del
    BY <1>6 DEF OnPoolUpdated
  <2> HIDE DEF e
  <2>4. new \in Seq(Txs) /\ ToSet(new) \subseteq Txs
    BY <2>2, KeptTyped
  <2> HIDE DEF new
  <2>5. Reverse(new) \o rows \in Seq(Txs)
    BY <1>1, <2>4, Reversed, Joined
  <2>6. rows' \in Seq(Txs)
    BY <2>3, <2>5, KeptTyped
  <2>7. shown' \in SUBSET Txs
    BY <1>1, <2>3, <2>4
  <2>8. dirty' \in BOOLEAN
    BY <1>6 DEF OnPoolUpdated
  <2> QED
    BY <1>6, <2>1, <2>6, <2>7, <2>8 DEF OnPoolUpdated, TypeInv, TypeOK
<1>7. CASE Quit
  <2>1. stack' \in Seq(Frames)
    <3> DEFINE t == [k \in DOMAIN stack |->
                       [stack[k] EXCEPT !.exit = TRUE, !.status = "ok"]]
    <3>1. ASSUME NEW f \in Frames
          PROVE  [f EXCEPT !.exit = TRUE, !.status = "ok"] \in Frames
      BY DEF Frames, Outcomes
    <3>2. \A k \in DOMAIN stack : stack[k] \in Frames
      BY <1>1
    <3>3. \A k \in DOMAIN stack : t[k] \in Frames
      BY <3>1, <3>2
    <3>4. DOMAIN t = DOMAIN stack /\ t = [k \in DOMAIN stack |-> t[k]]
      OBVIOUS
    <3>5. stack' = t
      BY <1>7 DEF Quit
    <3> HIDE DEF t
    <3> QED
      BY <1>1, <3>3, <3>4, <3>5, Mapped
  <2>2. dirty' \in BOOLEAN
    BY <1>7 DEF Quit
  <2>3. quit' \in {"no", "unwind", "last"}
    BY <1>7 DEF Quit
  <2> QED
    BY <1>7, <2>1, <2>2, <2>3 DEF Quit, TypeInv, TypeOK
<1>8. CASE InitCompletedWithout
  <2>1. /\ node' \in [top : Heights, pool : SUBSET Txs, synced : BOOLEAN,
                      inited : BOOLEAN, life : {"new", "up", "down", "none"}]
        /\ node'.pool = node.pool
    BY <1>8 DEF InitCompletedWithout, TypeInv, TypeOK
  <2>2. last' \in 0 .. Invalid /\ rows' \in Seq(Txs) /\ shown' \in SUBSET Txs
    BY <1>8, ExplorerAssumption DEF InitCompletedWithout, Invalid
  <2> QED
    BY <1>8, <2>1, <2>2 DEF InitCompletedWithout, TypeInv, TypeOK
<1> QED
  BY <1>2, <1>4, <1>5, <1>6, <1>7, <1>8

LEMMA WorkingTyped ==
  ASSUME job \in {NoJob} \cup Jobs, job.op # "none"
  PROVE  job \in Jobs /\ job.id \in Nat /\ job.op \in Ops /\ job.todo \in Seq(Heights)
BY DEF NoJob, Jobs, Ops

LEMMA TodoTyped ==
  ASSUME TypeInv, NEW r \in Requests
  PROVE  RangeTodo(r) \in Seq(Heights) /\ ListTodo(r) \in Seq(Heights)
<1>1. r.lo \in Heights /\ r.hi \in Heights /\ node.top \in Heights
      /\ cache \in Seq(Heights) /\ MaxTop \in Nat
  BY ExplorerAssumption DEF TypeInv, TypeOK, Requests
<1>2. RangeTodo(r) \in Seq(Heights)
  <2> DEFINE hi == IF r.hi < node.top THEN r.hi ELSE node.top
             n == IF hi < r.lo THEN 0 ELSE hi - r.lo + 1
             q == [i \in 1 .. n |-> r.lo + i - 1]
  <2>1. hi \in Heights
    BY <1>1
  <2>2. RangeTodo(r) = Kept(q, Heights \ ToSet(cache))
    BY DEF RangeTodo
  <2> HIDE DEF hi
  <2>3. n \in Nat /\ \A i \in 1 .. n : r.lo + i - 1 \in Heights
    BY <1>1, <2>1 DEF Heights
  <2> HIDE DEF n
  <2>4. q \in Seq(Heights)
    BY <2>3
  <2> HIDE DEF q
  <2> QED
    BY <2>2, <2>4, KeptTyped
<1> QED
  BY <1>1, <1>2 DEF ListTodo

\* The pool, listed.
LEMMA Listed ==
  ASSUME NEW S, IsFiniteSet(S)
  PROVE  /\ SetToSeq(S) \in Seq(S) /\ IsInjective(SetToSeq(S))
         /\ ToSet(SetToSeq(S)) = S
<1> DEFINE n == Cardinality(S)
           q == SetToSeq(S)
<1>1. n \in Nat /\ ExistsBijection(1 .. n, S)
  BY FS_CardinalityType
<1>2. \E f \in [1 .. n -> S] : IsInjective(f)
  BY <1>1 DEF ExistsBijection, Bijection, Injection
<1>3. q \in [1 .. n -> S] /\ IsInjective(q)
  BY <1>2, Zenon DEF SetToSeq
<1> HIDE DEF q
<1>4. q \in Surjection(1 .. n, S)
  <2>1. q \in Injection(1 .. n, S)
    BY <1>3 DEF Injection
  <2>2. IsFiniteSet(1 .. n) /\ Cardinality(1 .. n) = n
    BY <1>1, FS_Interval
  <2> QED
    BY <1>1, <2>1, <2>2, FS_Injection
<1>5. ToSet(q) = S
  <2>1. DOMAIN q = 1 .. n /\ \A i \in 1 .. n : q[i] \in S
    BY <1>3
  <2>2. \A x \in S : \E i \in 1 .. n : q[i] = x
    BY <1>4 DEF Surjection
  <2> QED
    BY <2>1, <2>2 DEF ToSet
<1> QED
  BY <1>1, <1>3, <1>5 DEF q

LEMMA EndedTyped ==
  ASSUME NEW f \in Frames, NEW i \in Nat, NEW s \in Outcomes, NEW g \in Seq(Txs)
  PROVE  [f EXCEPT !.exit = TRUE, !.from = IF f.at = "wait" THEN @ ELSE i,
                   !.status = IF f.at = "wait" THEN @ ELSE s,
                   !.got = IF s = "ok" THEN g ELSE @] \in Frames
<1>1. CASE f.at = "wait" /\ s = "ok"
  BY <1>1 DEF Frames
<1>2. CASE f.at = "wait" /\ s # "ok"
  BY <1>2 DEF Frames
<1>3. CASE f.at # "wait" /\ s = "ok"
  BY <1>3 DEF Frames
<1>4. CASE f.at # "wait" /\ s # "ok"
  BY <1>4 DEF Frames
<1> QED
  BY <1>1, <1>2, <1>3, <1>4

LEMMA TypeWorker ==
  ASSUME TypeInv, Working => sem = 0,
         \/ TakeJob \/ FailPreload \/ LoadBlocks \/ FindByTime
         \/ GetPoolState \/ InitImpl \/ Deliver
  PROVE  TypeInv'
<1>1. /\ stack \in Seq(Frames) /\ wq \in Seq(Requests \cup Calls)
      /\ job \in {NoJob} \cup Jobs /\ sem \in 0 .. 1
  BY DEF TypeInv, TypeOK
<1>2. CASE TakeJob
  <2> DEFINE r == Head(wq)
             todo == CASE r.op \in {"range", "block"} -> RangeTodo(r)
                       [] r.op = "list" -> ListTodo(r)
                       [] OTHER -> <<>>
  <2>1. /\ wq # <<>> /\ r.what = "impl" /\ wq' = Tail(wq)
        /\ job' = [op |-> r.op, id |-> r.id, lo |-> r.lo, hi |-> r.hi, todo |-> todo]
    BY <1>2 DEF TakeJob, Idle
  <2>2. wq' \in Seq(Requests \cup Calls) /\ r \in Requests
    BY <1>1, <2>1, HeadTail DEF Calls
  <2> HIDE DEF r
  <2>3. todo \in Seq(Heights)
    BY <2>2, TodoTyped
  <2> HIDE DEF todo
  <2>4. job' \in Jobs
    BY <2>1, <2>2, <2>3 DEF Jobs, Requests
  <2> QED
    BY <1>2, <2>2, <2>4 DEF TakeJob, gui, TypeInv, TypeOK
<1>3. ASSUME NEW op, NEW status \in Ended, NEW got \in Seq(Txs),
             Emit(op, job.id, status, got), job.id \in Nat
      PROVE  wq' \in Seq(Requests \cup Calls)
  <2>1. PICK cs \in Seq(Calls) : wq' = wq \o cs
    BY <1>1, <1>3, Emitted
  <2> QED
    BY <1>1, <2>1
<1> "ok" \in Ended /\ "fail" \in Ended
  BY DEF Ended
<1>4. ASSUME Release, Working
      PROVE  sem' \in 0 .. 1 /\ job' \in {NoJob} \cup Jobs
  BY <1>1, <1>4 DEF Release
<1>5. ASSUME job.op \in Waits \cup {"block", "pool"}
      PROVE  Working /\ job.id \in Nat /\ job.todo \in Seq(Heights)
  <2>1. Working /\ job.op # "none"
    BY <1>5 DEF Working, Waits
  <2> QED
    BY <1>1, <2>1, WorkingTyped
<1>6. <<>> \in Seq(Txs)
  OBVIOUS
<1>7. CASE FailPreload
  <2>1. Working /\ job.id \in Nat
    BY <1>5, <1>7 DEF FailPreload
  <2>2. wq' \in Seq(Requests \cup Calls)
    BY <1>3, <1>6, <1>7, <2>1 DEF FailPreload
  <2>3. sem' \in 0 .. 1 /\ job' \in {NoJob} \cup Jobs
    BY <1>4, <1>7, <2>1 DEF FailPreload
  <2> QED
    BY <1>7, <2>2, <2>3 DEF FailPreload, gui, TypeInv, TypeOK
<1>8. CASE FindByTime
  <2>1. Working /\ job.id \in Nat
    BY <1>5, <1>8 DEF FindByTime, Waits
  <2>2. wq' \in Seq(Requests \cup Calls)
    BY <1>3, <1>6, <1>8, <2>1 DEF FindByTime
  <2>3. sem' \in 0 .. 1 /\ job' \in {NoJob} \cup Jobs
    BY <1>4, <1>8, <2>1 DEF FindByTime
  <2> QED
    BY <1>8, <2>2, <2>3 DEF FindByTime, gui, TypeInv, TypeOK
<1>9. CASE LoadBlocks
  <2>1. Working /\ job.id \in Nat /\ job.todo \in Seq(Heights)
    BY <1>5, <1>9 DEF LoadBlocks
  <2>2. wq' \in Seq(Requests \cup Calls)
    BY <1>3, <1>6, <1>9, <2>1 DEF LoadBlocks
  <2>3. sem' \in 0 .. 1 /\ job' \in {NoJob} \cup Jobs
    BY <1>4, <1>9, <2>1 DEF LoadBlocks
  <2>4. cache' \in Seq(Heights) /\ Len(cache') <= Capacity
    BY <1>9, <2>1, PutTyped DEF LoadBlocks, TypeInv, TypeOK
  <2>5. hand' \in [at : 0 .. Invalid, valid : BOOLEAN]
    <3> DEFINE v == hand = NoBlock \/ (hand.valid /\ hand.at \notin ToSet(job.todo)
                                         /\ Contains(cache', hand.at))
    <3>1. hand' = [hand EXCEPT !.valid = v] /\ v \in BOOLEAN
      BY <1>9, Zenon DEF LoadBlocks
    <3> HIDE DEF v
    <3>2. hand \in [at : 0 .. Invalid, valid : BOOLEAN]
      BY DEF TypeInv, TypeOK
    <3> QED
      BY <3>1, <3>2
  <2> QED
    BY <1>9, <2>2, <2>3, <2>4, <2>5 DEF LoadBlocks, TypeInv, TypeOK
<1>10. CASE GetPoolState
  <2>1. Working /\ job.id \in Nat
    BY <1>5, <1>10 DEF GetPoolState
  <2>2. SetToSeq(node.pool) \in Seq(Txs)
    <3>1. SetToSeq(node.pool) \in Seq(node.pool) /\ node.pool \subseteq Txs
      BY Listed DEF TypeInv, TypeOK
    <3> QED
      BY <3>1
  <2>3. wq' \in Seq(Requests \cup Calls)
    BY <1>3, <1>6, <1>10, <2>1, <2>2 DEF GetPoolState
  <2>4. sem' \in 0 .. 1 /\ job' \in {NoJob} \cup Jobs
    BY <1>4, <1>10, <2>1 DEF GetPoolState
  <2> QED
    BY <1>10, <2>3, <2>4 DEF GetPoolState, gui, TypeInv, TypeOK
<1>11. CASE InitImpl
  <2>1. PICK ok \in BOOLEAN : node' = [node EXCEPT !.inited = ok /\ node.life = "up"]
    BY <1>11 DEF InitImpl
  <2>2. /\ node' \in [top : Heights, pool : SUBSET Txs, synced : BOOLEAN,
                      inited : BOOLEAN, life : {"new", "up", "down", "none"}]
        /\ node'.pool = node.pool
    BY <2>1 DEF TypeInv, TypeOK
  <2>3. guiq' \in Seq(Events)
    <3>1. [what |-> "inited"] \in Events /\ guiq \in Seq(Events)
      BY DEF Events, TypeInv, TypeOK
    <3> QED
      BY <1>11, <3>1 DEF InitImpl
  <2> QED
    BY <1>11, <2>2, <2>3 DEF InitImpl, TypeInv, TypeOK
<1>12. CASE Deliver
  <2> DEFINE c == Head(wq)
             t == [k \in DOMAIN stack |->
                     LET f == stack[k] IN
                     IF f.id # c.to THEN f
                     ELSE [f EXCEPT !.exit = TRUE,
                            !.from = IF f.at = "wait" THEN @ ELSE c.from,
                            !.status = IF f.at = "wait" THEN @ ELSE c.status,
                            !.got = IF c.status = "ok" THEN c.got ELSE @]]
  <2>1. wq # <<>> /\ c.what = "call" /\ wq' = Tail(wq) /\ stack' = t
    BY <1>12 DEF Deliver, Idle
  <2>2. wq' \in Seq(Requests \cup Calls) /\ c \in Calls
    <3>1. wq' \in Seq(Requests \cup Calls) /\ c \in Requests \cup Calls
      BY <1>1, <2>1, HeadTail
    <3> QED
      BY <2>1, <3>1 DEF Requests
  <2>3. \A k \in DOMAIN stack : stack[k] \in Frames
    BY <1>1
  <2> HIDE DEF c
  <2>4. /\ c.from \in Nat /\ c.status \in Outcomes /\ c.got \in Seq(Txs)
    BY <2>2 DEF Calls, Outcomes
  <2>5. \A k \in DOMAIN stack : t[k] \in Frames
    BY <2>3, <2>4, EndedTyped
  <2>6. DOMAIN t = DOMAIN stack /\ t = [k \in DOMAIN stack |-> t[k]]
    OBVIOUS
  <2> HIDE DEF t
  <2>7. stack' \in Seq(Frames)
    BY <1>1, <2>1, <2>5, <2>6, Mapped
  <2> QED
    BY <1>12, <2>2, <2>7 DEF Deliver, gui, TypeInv, TypeOK
<1> QED
  BY <1>2, <1>7, <1>8, <1>9, <1>10, <1>11, <1>12

LEMMA TypeNode ==
  ASSUME TypeInv, NewTop \/ PoolChanges \/ Synchronized
  PROVE  TypeInv'
<1> DEFINE Nodes == [top : Heights, pool : SUBSET Txs, synced : BOOLEAN,
                     inited : BOOLEAN, life : {"new", "up", "down", "none"}]
<1>1. /\ guiq \in Seq(Events) /\ node \in Nodes /\ news \in 0 .. MaxNews
      /\ MaxNews \in Nat /\ IsFiniteSet(node.pool)
  BY ExplorerAssumption DEF TypeInv, TypeOK
<1>2. ASSUME News PROVE news' \in 0 .. MaxNews
  BY <1>1, <1>2 DEF News
<1>3. ASSUME NEW e \in Events, Tell(e) PROVE guiq' \in Seq(Events)
  BY <1>1, <1>3 DEF Tell
<1>4. CASE NewTop
  <2>1. PICK t \in Heights : /\ node' = [node EXCEPT !.top = t]
                             /\ guiq' = Append(guiq, [what |-> "top", top |-> t])
    BY <1>4 DEF NewTop
  <2>2. node' \in Nodes /\ node'.pool = node.pool
    BY <1>1, <2>1
  <2>3. guiq' \in Seq(Events)
    <3>1. [what |-> "top", top |-> t] \in Events
      BY DEF Events
    <3> QED
      BY <1>1, <2>1, <3>1
  <2>4. news' \in 0 .. MaxNews
    BY <1>2, <1>4 DEF NewTop
  <2> QED
    BY <1>4, <2>2, <2>3, <2>4 DEF NewTop, NodeRest, TypeInv, TypeOK
<1>5. CASE PoolChanges
  <2> DEFINE Told(t) == [what |-> "pool", add |-> IF t \in node.pool THEN <<>> ELSE <<t>>,
                         del |-> IF t \in node.pool THEN {t} ELSE {}]
  <2>1. PICK t \in Txs :
          /\ node' = [node EXCEPT !.pool = IF t \in @ THEN @ \ {t} ELSE @ \cup {t}]
          /\ Tell(Told(t))
    BY <1>5 DEF PoolChanges
  <2>2. node' \in Nodes
    BY <1>1, <2>1
  <2>3. IsFiniteSet(node'.pool)
    <3>1. IsFiniteSet(node.pool \ {t}) /\ IsFiniteSet(node.pool \cup {t})
      BY <1>1, FS_AddElement, FS_RemoveElement
    <3> QED
      BY <1>1, <2>1, <3>1
  <2>4. Told(t) \in Events
    <3>1. (IF t \in node.pool THEN <<>> ELSE <<t>>) \in Seq(Txs)
          /\ (IF t \in node.pool THEN {t} ELSE {}) \in SUBSET Txs
      OBVIOUS
    <3> QED
      BY <3>1 DEF Events
  <2>5. guiq' \in Seq(Events)
    <3> HIDE DEF Told
    <3> QED
      BY <1>3, <2>1, <2>4
  <2>6. news' \in 0 .. MaxNews
    BY <1>2, <1>5 DEF PoolChanges
  <2>7. dirty' \in BOOLEAN
    BY <1>5 DEF PoolChanges
  <2> QED
    BY <1>5, <2>2, <2>3, <2>5, <2>6, <2>7 DEF PoolChanges, NodeRest, TypeInv, TypeOK
<1>6. CASE Synchronized
  <2>1. node' \in Nodes /\ node'.pool = node.pool
    BY <1>1, <1>6 DEF Synchronized
  <2>2. guiq' \in Seq(Events)
    <3>1. [what |-> "synced"] \in Events
      BY DEF Events
    <3> QED
      BY <1>3, <1>6, <3>1 DEF Synchronized
  <2>3. news' \in 0 .. MaxNews
    BY <1>2, <1>6 DEF Synchronized
  <2> QED
    BY <1>6, <2>1, <2>2, <2>3 DEF Synchronized, NodeRest, TypeInv, TypeOK
<1> QED
  BY <1>4, <1>5, <1>6


-----------------------------------------------------------------------------
(* The steps, as the token, the stack and the worker see them.             *)

\* A frame that has just been entered.
Fresh(f) == /\ f \in Frames /\ f.id = asks + 1 /\ f.from = 0
            /\ f.exit = FALSE /\ f.status = "none"
            /\ f.at = (IF f.op = "init" THEN "start" ELSE "lock")

Away == UNCHANGED <<sem, stack, wq, job, asks>>
Pushes(f) == /\ InLoop /\ Fresh(f)
             /\ stack' = <<f>> \o stack /\ asks' = asks + 1
             /\ UNCHANGED <<sem, wq, job>>
Swaps(f) == /\ TokenBack /\ Fresh(f)
            /\ stack' = <<f>> \o Tail(stack) /\ asks' = asks + 1
            /\ UNCHANGED <<sem, wq, job>>
Pops == TokenBack /\ stack' = Tail(stack) /\ UNCHANGED <<sem, wq, job, asks>>
Ends(cs, got) ==
  /\ job.op \in Waits \cup {"block", "pool"} /\ cs \in Seq(Calls)
  /\ \E status \in Ended : Posted(cs, job.op, job.id, status, got)
  /\ wq' = wq \o cs /\ sem' = sem + 1 /\ job' = NoJob
  /\ UNCHANGED <<stack, asks>>
Enders == FailPreload \/ LoadBlocks \/ FindByTime \/ GetPoolState
Kinds ==
  \/ Away \/ (\E f : Pushes(f)) \/ (\E f : Swaps(f)) \/ Pops
  \/ Lock \/ Exec \/ Refused \/ LeaveLoop \/ OnInitDone \/ Quit
  \/ TakeJob \/ (\E cs, got : Ends(cs, got)) \/ InitImpl \/ Deliver

LEMMA EntersFresh ==
  ASSUME NEW op \in Ops, NEW lo \in Heights, NEW hi \in Heights, NEW by \in Askers,
         TypeInv
  PROVE  /\ Fresh(Frame(op, lo, hi, by))
         /\ Frame(op, lo, hi, by).op = op /\ Frame(op, lo, hi, by).by = by
<1>1. asks \in Nat
  BY DEF TypeInv, TypeOK
<1> DEFINE f == Frame(op, lo, hi, by)
<1>2. f \in Frames
  BY <1>1, FrameTyped
<1>3. /\ f.id = asks + 1 /\ f.op = op /\ f.by = by
      /\ f.at = (IF op = "init" THEN "start" ELSE "lock")
      /\ f.exit = FALSE /\ f.status = "none" /\ f.from = 0
  BY DEF Frame
<1> HIDE DEF f
<1>4. Fresh(f) /\ f.op = op /\ f.by = by
  BY <1>2, <1>3 DEF Fresh
<1> QED
  BY <1>4 DEF f

\* A block that is not cached is asked for, a page, a filter and so on.
LEMMA AskKinds ==
  ASSUME TypeInv, \/ ExplorerInit \/ InitCompleted \/ Paint \/ Preload
                  \/ OnSynchronized \/ ReturnPreload
  PROVE  Away \/ (\E f : Pushes(f)) \/ (\E f : Swaps(f)) \/ Pops
<1>1. /\ 0 \in Heights /\ Waits \subseteq Ops
      /\ {"pool", "init", "range", "block"} \subseteq Ops
      /\ {"view", "page", "filter", "model", "init", "sync", "adapter"} \subseteq Askers
  BY ExplorerAssumption DEF Ops, Waits, Askers, Heights
<1>2. ASSUME NEW op \in Ops, NEW lo \in Heights, NEW hi \in Heights, NEW by \in Askers,
             Enter(stack, Frame(op, lo, hi, by)), InLoop, UNCHANGED <<sem, wq, job>>
      PROVE  \E f : Pushes(f)
  <2>1. Fresh(Frame(op, lo, hi, by))
    BY EntersFresh
  <2> QED
    BY <1>2, <2>1 DEF Pushes, Enter
<1>3. CASE ExplorerInit
  BY <1>1, <1>2, <1>3 DEF ExplorerInit, MayAsk
<1>4. CASE InitCompleted
  <2> DEFINE lo == IF count < Preloaded THEN 0 ELSE count - Preloaded
  <2>1. count \in Heights /\ lo \in Heights
    BY ExplorerAssumption DEF TypeInv, TypeOK, Heights
  <2>2. Enter(stack, Frame("range", lo, count, "model"))
    BY <1>4 DEF InitCompleted
  <2> HIDE DEF lo
  <2> QED
    BY <1>1, <1>2, <1>4, <2>1, <2>2 DEF InitCompleted, MayAsk, Rest
<1>5. CASE Paint
  <2>1. PICK h \in Heights :
          UNCHANGED <<stack, asks>> \/ Enter(stack, Frame("block", h, h, "view"))
    BY <1>5 DEF Paint
  <2> QED
    BY <1>1, <1>2, <1>5, <2>1 DEF Paint, Rest, Away
<1>6. CASE Preload
  <2>1. PICK op \in Waits, lo \in Heights, hi \in Heights :
          Enter(stack, Frame(op, lo, hi, IF op = "range" THEN "page" ELSE "filter"))
    BY <1>6 DEF Preload
  <2>2. InLoop /\ UNCHANGED <<sem, wq, job>>
    BY <1>6 DEF Preload, MayAsk, Rest
  <2>3. CASE op = "range"
    BY <1>1, <1>2, <2>1, <2>2, <2>3
  <2>4. CASE op # "range"
    BY <1>1, <1>2, <2>1, <2>2, <2>4
  <2> QED
    BY <2>3, <2>4
<1>7. CASE OnSynchronized
  BY <1>1, <1>2, <1>7 DEF OnSynchronized, Event, Away
<1>8. CASE ReturnPreload
  <2>1. Fresh(Frame("pool", 0, 0, "init"))
    BY <1>1, EntersFresh
  <2>2. \/ Enter(Tail(stack), Frame("pool", 0, 0, "init"))
        \/ stack' = Tail(stack) /\ UNCHANGED asks
    BY <1>8 DEF ReturnPreload
  <2>3. TokenBack /\ UNCHANGED <<sem, wq, job>>
    BY <1>8 DEF ReturnPreload
  <2> QED
    BY <2>1, <2>2, <2>3 DEF Swaps, Pops, Enter
<1> QED
  BY <1>3, <1>4, <1>5, <1>6, <1>7, <1>8

LEMMA EndKinds ==
  ASSUME TypeInv, Enders
  PROVE  \E cs, got : Ends(cs, got)
<1>1. /\ stack \in Seq(Frames) /\ wq \in Seq(Requests \cup Calls)
      /\ job \in {NoJob} \cup Jobs
  BY DEF TypeInv, TypeOK
<1>2. job.op \in Waits \cup {"block", "pool"} /\ job.id \in Nat
  <2>1. job.op \in Waits \cup {"block", "pool"}
    BY DEF Enders, FailPreload, LoadBlocks, FindByTime, GetPoolState, Waits
  <2>2. job.op # "none"
    BY <2>1 DEF Waits
  <2> QED
    BY <1>1, <2>1, <2>2, WorkingTyped
<1>3. Release /\ UNCHANGED <<stack, asks>>
  BY DEF Enders, FailPreload, LoadBlocks, FindByTime, GetPoolState, gui
<1>4. ASSUME NEW op, NEW status \in Ended, NEW got \in Seq(Txs),
             Emit(op, job.id, status, got), (op = "pool") <=> (job.op = "pool")
      PROVE  \E cs, g : Ends(cs, g)
  <2>1. PICK cs \in Seq(Calls) : wq' = wq \o cs /\ Posted(cs, op, job.id, status, got)
    BY <1>1, <1>2, <1>4, Emitted
  <2>2. Posted(cs, job.op, job.id, status, got)
    BY <1>4, <2>1 DEF Posted
  <2> QED
    BY <1>2, <1>3, <2>1, <2>2 DEF Ends, Release
<1>5. "ok" \in Ended /\ "fail" \in Ended /\ <<>> \in Seq(Txs)
  BY DEF Ended
<1>6. CASE GetPoolState
  <2>1. SetToSeq(node.pool) \in Seq(Txs)
    <3>1. SetToSeq(node.pool) \in Seq(node.pool) /\ node.pool \subseteq Txs
      BY Listed DEF TypeInv, TypeOK
    <3> QED
      BY <3>1
  <2>2. /\ job.op = "pool"
        /\ \/ Emit("pool", job.id, "fail", <<>>)
           \/ Emit("pool", job.id, "ok", SetToSeq(node.pool))
    BY <1>6 DEF GetPoolState
  <2> QED
    BY <1>4, <1>5, <2>1, <2>2
<1>7. CASE FailPreload \/ LoadBlocks \/ FindByTime
  <2>1. /\ job.op # "pool"
        /\ \/ Emit("range", job.id, "fail", <<>>)
           \/ Emit("range", job.id, "ok", <<>>)
    BY <1>7 DEF FailPreload, LoadBlocks, FindByTime, Waits
  <2> QED
    BY <1>4, <1>5, <2>1
<1> QED
  BY <1>6, <1>7 DEF Enders

LEMMA StepKinds == ASSUME TypeInv, [Next]_vars PROVE Kinds
<1>1. CASE UNCHANGED vars
  BY <1>1 DEF vars, Kinds, Away
<1>2. CASE Gui
  <2>1. CASE ReturnBlock \/ ReturnPool
    BY <2>1 DEF ReturnBlock, ReturnPool, Kinds, Pops
  <2>2. CASE PutDown \/ OnTop \/ OnPoolUpdated \/ LastShutdown
    BY <2>2 DEF PutDown, gui, OnTop, OnPoolUpdated, LastShutdown, Kinds, Away
  <2>3. CASE ReturnPreload \/ OnSynchronized
    BY <2>3, AskKinds DEF Kinds
  <2> QED
    BY <1>2, <2>1, <2>2, <2>3 DEF Gui, Kinds
<1>3. CASE Worker
  BY <1>3, EndKinds DEF Worker, Kinds, Enders
<1>4. CASE User
  <2>1. CASE ExplorerDeinit \/ InitCompletedWithout
    BY <2>1 DEF ExplorerDeinit, InitCompletedWithout, Kinds, Away
  <2> QED
    BY <1>4, <2>1, AskKinds DEF User, Kinds
<1>5. CASE Node
  BY <1>5 DEF Node, NewTop, PoolChanges, Synchronized, NodeRest, Kinds, Away
<1> QED
  BY <1>1, <1>2, <1>3, <1>4, <1>5 DEF Next


-----------------------------------------------------------------------------
(* The frames.                                                             *)

\* What the steps that edit the top frame, or every frame, do to them.
Kept1(f, g) == /\ g.id = f.id /\ g.op = f.op /\ g.by = f.by
               /\ g.status = f.status /\ g.got = f.got /\ g.from = f.from

\* The frames below the top are left as they are.
TopOnly == /\ stack # <<>> /\ 1 \in DOMAIN stack /\ DOMAIN stack' = DOMAIN stack
           /\ Top = stack[1] /\ Kept1(stack[1], stack'[1])
           /\ \A k \in DOMAIN stack : k # 1 => stack'[k] = stack[k]

LEMMA LockDoes ==
  ASSUME TypeInv, Lock
  PROVE  /\ TopOnly /\ stack[1].at = "lock" /\ stack'[1].exit = stack[1].exit
         /\ stack'[1].at = (IF stack[1].op = "block" THEN "wait" ELSE "start")
<1> DEFINE a == IF Top.op = "block" THEN "wait" ELSE "start"
<1>1. stack \in Seq(Frames) /\ stack # <<>>
  BY DEF TypeInv, TypeOK, Lock, Waiting
<1>2. Top \in Frames /\ Top = stack[1]
  BY <1>1, HeadTail DEF Top
<1>3. stack' = [stack EXCEPT ![1] = [stack[1] EXCEPT !.at = a]] /\ Top.at = "lock"
  BY DEF Lock
<1>4. a \in {"lock", "start", "loop", "wait"}
  OBVIOUS
<1>5. a = (IF stack[1].op = "block" THEN "wait" ELSE "start")
  BY <1>2
<1> HIDE DEF a
<1>6. [stack[1] EXCEPT !.at = a] \in Frames
  BY <1>2, <1>4, AtEdited
<1> DEFINE g == [stack[1] EXCEPT !.at = a]
<1>7. Kept1(stack[1], g) /\ g.at = a /\ g.exit = stack[1].exit
  BY <1>2, <1>4 DEF Frames, Kept1
<1> HIDE DEF g
<1> QED
  BY <1>1, <1>2, <1>3, <1>5, <1>6, <1>7, TopEdited DEF TopOnly, g

LEMMA ExecDoes ==
  ASSUME TypeInv, Exec
  PROVE  /\ TopOnly /\ stack[1].at = "start"
         /\ stack'[1].at = "loop" /\ stack'[1].exit = FALSE
<1> DEFINE g == [stack[1] EXCEPT !.at = "loop", !.exit = FALSE]
<1>1. stack \in Seq(Frames) /\ stack # <<>>
  BY DEF TypeInv, TypeOK, Exec, Waiting
<1>2. Top \in Frames /\ Top = stack[1]
  BY <1>1, HeadTail DEF Top
<1>3. stack' = [stack EXCEPT ![1] = g] /\ Top.at = "start"
  BY DEF Exec
<1>4. g \in Frames
  BY <1>2 DEF Frames
<1>5. Kept1(stack[1], g) /\ g.at = "loop" /\ g.exit = FALSE
  BY <1>2 DEF Frames, Kept1
<1> HIDE DEF g
<1> QED
  BY <1>1, <1>2, <1>3, <1>4, <1>5, TopEdited DEF TopOnly

LEMMA LeaveDoes ==
  ASSUME TypeInv, LeaveLoop
  PROVE  /\ stack # <<>> /\ Top = stack[1] /\ Top.at = "loop" /\ Top.exit
         /\ IF Top.op = "init" THEN stack' = Tail(stack)
            ELSE TopOnly /\ stack'[1].at = "wait" /\ stack'[1].exit = stack[1].exit
<1> DEFINE g == [stack[1] EXCEPT !.at = "wait"]
<1>1. stack \in Seq(Frames) /\ stack # <<>>
  BY DEF TypeInv, TypeOK, LeaveLoop, Waiting
<1>2. Top \in Frames /\ Top = stack[1]
  BY <1>1, HeadTail DEF Top
<1>3. g \in Frames
  BY <1>2, AtEdited
<1>4. Kept1(stack[1], g) /\ g.at = "wait" /\ g.exit = stack[1].exit
  BY <1>2 DEF Frames, Kept1
<1>5. /\ Top.at = "loop" /\ Top.exit
      /\ stack' = IF Top.op = "init" THEN Tail(stack) ELSE [stack EXCEPT ![1] = g]
  BY DEF LeaveLoop
<1> HIDE DEF g
<1>6. CASE Top.op = "init"
  BY <1>1, <1>2, <1>5, <1>6
<1>7. CASE Top.op # "init"
  BY <1>1, <1>2, <1>3, <1>4, <1>5, <1>7, TopEdited DEF TopOnly
<1> QED
  BY <1>6, <1>7

LEMMA RefusedDoes ==
  ASSUME TypeInv, Refused
  PROVE  /\ TopOnly /\ stack[1].at = "start" /\ stack[1].op # "init"
         /\ stack'[1].at = "wait"
<1> DEFINE g == [stack[1] EXCEPT !.at = "wait"]
<1>1. stack \in Seq(Frames) /\ stack # <<>>
  BY DEF TypeInv, TypeOK, Refused, Waiting
<1>2. Top \in Frames /\ Top = stack[1]
  BY <1>1, HeadTail DEF Top
<1>3. stack' = [stack EXCEPT ![1] = g] /\ Top.at = "start" /\ Top.op # "init"
  BY DEF Refused
<1>4. g \in Frames
  BY <1>2, AtEdited
<1>5. Kept1(stack[1], g) /\ g.at = "wait"
  BY <1>2 DEF Frames, Kept1
<1> HIDE DEF g
<1> QED
  BY <1>1, <1>2, <1>3, <1>4, <1>5, TopEdited DEF TopOnly

LEMMA QuitDoes ==
  ASSUME TypeInv, Quit
  PROVE  /\ DOMAIN stack' = DOMAIN stack
         /\ \A k \in DOMAIN stack :
              /\ stack'[k].id = stack[k].id /\ stack'[k].op = stack[k].op
              /\ stack'[k].by = stack[k].by /\ stack'[k].at = stack[k].at
              /\ stack'[k].got = stack[k].got /\ stack'[k].status = "ok"
<1>1. \A k \in DOMAIN stack : stack[k] \in Frames
  BY DEF TypeInv, TypeOK
<1>2. stack' = [k \in DOMAIN stack |->
         [stack[k] EXCEPT !.exit = TRUE, !.status = "ok"]]
  BY DEF Quit
<1>3. ASSUME NEW f \in Frames
      PROVE  LET g == [f EXCEPT !.exit = TRUE, !.status = "ok"]
             IN  /\ g.id = f.id /\ g.op = f.op /\ g.by = f.by /\ g.at = f.at
                 /\ g.got = f.got /\ g.status = "ok"
  BY DEF Frames
<1> QED
  BY <1>1, <1>2, <1>3

LEMMA InitDoneDoes ==
  ASSUME TypeInv, OnInitDone
  PROVE  /\ DOMAIN stack' = DOMAIN stack
         /\ \A k \in DOMAIN stack :
              /\ Kept1(stack[k], stack'[k]) /\ stack'[k].at = stack[k].at
              /\ stack[k].op # "init" => stack'[k] = stack[k]
<1>1. \A k \in DOMAIN stack : stack[k] \in Frames
  BY DEF TypeInv, TypeOK
<1>2. stack' = [k \in DOMAIN stack |->
         IF stack[k].op = "init" THEN [stack[k] EXCEPT !.exit = TRUE] ELSE stack[k]]
  BY DEF OnInitDone
<1>3. ASSUME NEW k \in DOMAIN stack
      PROVE  /\ Kept1(stack[k], stack'[k]) /\ stack'[k].at = stack[k].at
             /\ stack[k].op # "init" => stack'[k] = stack[k]
  <2>1. CASE stack[k].op = "init"
    <3>1. stack'[k] = [stack[k] EXCEPT !.exit = TRUE]
      BY <1>2, <2>1
    <3> QED
      BY <1>1, <2>1, <3>1 DEF Frames, Kept1
  <2>2. CASE stack[k].op # "init"
    BY <1>2, <2>2 DEF Kept1
  <2> QED
    BY <2>1, <2>2
<1> QED
  BY <1>2, <1>3

LEMMA DeliverDoes ==
  ASSUME TypeInv, Deliver
  PROVE  /\ DOMAIN stack' = DOMAIN stack /\ Head(wq) \in Calls /\ wq # <<>>
         /\ \A k \in DOMAIN stack :
              /\ stack'[k].id = stack[k].id /\ stack'[k].op = stack[k].op
              /\ stack'[k].by = stack[k].by /\ stack'[k].at = stack[k].at
              /\ stack[k].id # Head(wq).to => stack'[k] = stack[k]
              /\ stack[k].id = Head(wq).to =>
                   /\ stack'[k].exit = TRUE
                   /\ stack'[k].from = (IF stack[k].at = "wait" THEN stack[k].from
                                                              ELSE Head(wq).from)
                   /\ stack'[k].status = (IF stack[k].at = "wait" THEN stack[k].status
                                                              ELSE Head(wq).status)
                   /\ stack'[k].got = (IF Head(wq).status = "ok" THEN Head(wq).got
                                                              ELSE stack[k].got)
<1> DEFINE c == Head(wq)
<1>1. /\ \A k \in DOMAIN stack : stack[k] \in Frames
      /\ wq \in Seq(Requests \cup Calls) /\ wq # <<>> /\ c.what = "call"
  <2>1. stack \in Seq(Frames) /\ wq \in Seq(Requests \cup Calls)
    BY DEF TypeInv, TypeOK
  <2>2. wq # <<>> /\ Head(wq).what = "call"
    BY DEF Deliver, Idle
  <2>3. \A k \in DOMAIN stack : stack[k] \in Frames
    BY <2>1
  <2> QED
    BY <2>1, <2>2, <2>3
<1>2. c \in Calls
  <2>1. c \in Requests \cup Calls
    BY <1>1, HeadTail
  <2> QED
    BY <1>1, <2>1 DEF Requests
<1>3. stack' = [k \in DOMAIN stack |->
           LET f == stack[k] IN
           IF f.id # c.to THEN f
           ELSE [f EXCEPT !.exit = TRUE,
                  !.from = IF f.at = "wait" THEN @ ELSE c.from,
                  !.status = IF f.at = "wait" THEN @ ELSE c.status,
                  !.got = IF c.status = "ok" THEN c.got ELSE @]]
  BY DEF Deliver
<1> HIDE DEF c
<1>4. ASSUME NEW k \in DOMAIN stack, stack[k].id = c.to
      PROVE  /\ stack'[k].id = stack[k].id /\ stack'[k].op = stack[k].op
             /\ stack'[k].by = stack[k].by /\ stack'[k].at = stack[k].at
             /\ stack'[k].exit = TRUE
             /\ stack'[k].from = (IF stack[k].at = "wait" THEN stack[k].from ELSE c.from)
             /\ stack'[k].status = (IF stack[k].at = "wait" THEN stack[k].status
                                                         ELSE c.status)
             /\ stack'[k].got = (IF c.status = "ok" THEN c.got ELSE stack[k].got)
  <2> DEFINE f == stack[k]
             g == [f EXCEPT !.exit = TRUE,
                    !.from = IF f.at = "wait" THEN @ ELSE c.from,
                    !.status = IF f.at = "wait" THEN @ ELSE c.status,
                    !.got = IF c.status = "ok" THEN c.got ELSE @]
  <2>1. stack'[k] = g
    BY <1>3, <1>4
  <2>2. f \in Frames
    BY <1>1
  <2> HIDE DEF f
  <2>3. /\ g.id = f.id /\ g.op = f.op /\ g.by = f.by /\ g.at = f.at /\ g.exit = TRUE
        /\ g.from = (IF f.at = "wait" THEN f.from ELSE c.from)
        /\ g.status = (IF f.at = "wait" THEN f.status ELSE c.status)
        /\ g.got = (IF c.status = "ok" THEN c.got ELSE f.got)
    BY <2>2 DEF Frames
  <2> HIDE DEF g
  <2> QED
    BY <2>1, <2>3 DEF f
<1>5. ASSUME NEW k \in DOMAIN stack, stack[k].id # c.to PROVE stack'[k] = stack[k]
  BY <1>3, <1>5
<1>6. DOMAIN stack' = DOMAIN stack
  BY <1>3
<1> QED
  BY <1>1, <1>2, <1>4, <1>5, <1>6 DEF c

\* The requests nest: ids fall from the top down, and every frame below the
\* top is in its loop.
FrameOK(f, n) == /\ f.id \in 1 .. n
                 /\ f.op = "init" => f.at \in {"start", "loop"}
                 /\ f.op = "block" => f.at \in {"lock", "wait"}
Shape(s, n) == /\ \A k \in DOMAIN s : FrameOK(s[k], n) /\ (k > 1 => s[k].at = "loop")
               /\ \A k, l \in DOMAIN s : k < l => s[k].id > s[l].id

LEMMA ShapeTail ==
  ASSUME NEW s \in Seq(Frames), s # <<>>, NEW n \in Nat, Shape(s, n)
  PROVE  /\ Shape(Tail(s), n)
         /\ Tail(s) = <<>> \/ Tail(s)[1].at = "loop"
<1>1. /\ Tail(s) \in Seq(Frames) /\ Len(s) \in Nat \ {0}
      /\ DOMAIN Tail(s) = 1 .. Len(s) - 1 /\ Len(Tail(s)) = Len(s) - 1
      /\ \A i \in 1 .. Len(s) - 1 : Tail(s)[i] = s[i + 1] /\ i + 1 \in DOMAIN s
  BY HeadTail
<1>2. \A i \in 1 .. Len(s) - 1 : i + 1 > 1
  BY <1>1
<1>3. \A i, j \in 1 .. Len(s) - 1 : i < j => i + 1 < j + 1
  BY <1>1
<1>4. \A i \in DOMAIN Tail(s) : FrameOK(Tail(s)[i], n) /\ Tail(s)[i].at = "loop"
  BY <1>1, <1>2 DEF Shape
<1>5. \A i, j \in DOMAIN Tail(s) : i < j => Tail(s)[i].id > Tail(s)[j].id
  BY <1>1, <1>3 DEF Shape
<1>6. Tail(s) = <<>> \/ 1 \in DOMAIN Tail(s)
  BY <1>1
<1> QED
  BY <1>4, <1>5, <1>6 DEF Shape

LEMMA Pushed ==
  ASSUME NEW s \in Seq(Frames), NEW f \in Frames
  PROVE  /\ <<f>> \o s \in Seq(Frames) /\ (<<f>> \o s)[1] = f
         /\ Len(s) \in Nat /\ DOMAIN s = 1 .. Len(s)
         /\ DOMAIN (<<f>> \o s) = 1 .. Len(s) + 1
         /\ \A k \in DOMAIN s : (<<f>> \o s)[k + 1] = s[k]
         /\ \A k \in DOMAIN (<<f>> \o s) :
              k = 1 \/ (k - 1 \in DOMAIN s /\ (<<f>> \o s)[k] = s[k - 1])
<1> DEFINE u == <<f>> \o s
<1>1. <<f>> \in Seq(Frames) /\ Len(<<f>>) = 1 /\ <<f>>[1] = f
  OBVIOUS
<1>2. /\ u \in Seq(Frames) /\ Len(s) \in Nat
      /\ DOMAIN u = 1 .. 1 + Len(s)
      /\ u[1] = f /\ \A i \in 1 .. Len(s) : u[1 + i] = s[i]
  BY <1>1, Joined
<1>3. DOMAIN s = 1 .. Len(s)
  OBVIOUS
<1> HIDE DEF u
<1>4. \A i \in 1 .. Len(s) : 1 + i = i + 1
  BY <1>2
<1>5. ASSUME NEW k \in DOMAIN u, k # 1 PROVE k - 1 \in DOMAIN s /\ u[k] = s[k - 1]
  <2>1. k - 1 \in 1 .. Len(s) /\ 1 + (k - 1) = k
    BY <1>2, <1>5
  <2> QED
    BY <1>2, <1>3, <2>1
<1> QED
  BY <1>2, <1>3, <1>4, <1>5 DEF u

LEMMA ShapePush ==
  ASSUME NEW s \in Seq(Frames), NEW n \in Nat, Shape(s, n), NEW f \in Frames,
         s = <<>> \/ s[1].at = "loop", f.id = n + 1, FrameOK(f, n + 1)
  PROVE  Shape(<<f>> \o s, n + 1)
<1> DEFINE u == <<f>> \o s
<1>1. /\ u[1] = f /\ Len(s) \in Nat /\ DOMAIN s = 1 .. Len(s)
      /\ DOMAIN u = 1 .. Len(s) + 1
      /\ \A k \in DOMAIN u : k = 1 \/ (k - 1 \in DOMAIN s /\ u[k] = s[k - 1])
  BY Pushed
<1> HIDE DEF u
<1>2. \A k \in DOMAIN s : FrameOK(s[k], n + 1) /\ s[k].id <= n /\ s[k].at = "loop"
  <2>1. \A k \in DOMAIN s : k = 1 \/ k > 1
    BY <1>1
  <2> QED
    BY <2>1 DEF Shape, FrameOK
<1>3. \A k \in DOMAIN u : FrameOK(u[k], n + 1) /\ (k > 1 => u[k].at = "loop")
  BY <1>1, <1>2
<1>4. ASSUME NEW k \in DOMAIN u, NEW l \in DOMAIN u, k < l PROVE u[k].id > u[l].id
  <2>1. l # 1 /\ l - 1 \in DOMAIN s /\ u[l] = s[l - 1]
    BY <1>1, <1>4
  <2>2. CASE k = 1
    <3>1. s[l - 1].id \in 1 .. n
      BY <2>1 DEF Shape, FrameOK
    <3> QED
      BY <1>1, <2>1, <2>2, <3>1
  <2>3. CASE k # 1
    <3>1. k - 1 \in DOMAIN s /\ u[k] = s[k - 1] /\ k - 1 < l - 1
      BY <1>1, <1>4, <2>3
    <3> QED
      BY <2>1, <3>1 DEF Shape
  <2> QED
    BY <2>2, <2>3
<1> QED
  BY <1>3, <1>4 DEF Shape, u

LEMMA ShapeEdit ==
  ASSUME NEW s \in Seq(Frames), NEW n \in Nat, Shape(s, n), NEW t, DOMAIN t = DOMAIN s,
         \A k \in DOMAIN s : /\ t[k].id = s[k].id /\ FrameOK(t[k], n)
                             /\ k > 1 => t[k].at = s[k].at
  PROVE  Shape(t, n)
BY DEF Shape

LEMMA ShapeStep ==
  ASSUME TypeInv, TypeInv', Shape(stack, asks), Kinds
  PROVE  Shape(stack, asks)'
<1>1. /\ stack \in Seq(Frames) /\ asks \in Nat
      /\ stack # <<>> => /\ Top \in Frames /\ Top = stack[1] /\ Tail(stack) \in Seq(Frames)
                         /\ 1 \in DOMAIN stack
  BY HeadTail DEF TypeInv, TypeOK, Top
<1>2. \A k \in DOMAIN stack : FrameOK(stack[k], asks)
  BY DEF Shape
<1>3. CASE UNCHANGED <<stack, asks>>
  BY <1>3
<1>4. ASSUME NEW f, Fresh(f) PROVE f \in Frames /\ f.id = asks + 1 /\ FrameOK(f, asks + 1)
  BY <1>1, <1>4 DEF Fresh, FrameOK
<1>5. CASE \E f : Pushes(f)
  <2>1. PICK f : Pushes(f)
    BY <1>5
  <2>2. stack = <<>> \/ stack[1].at = "loop"
    BY <1>1, <2>1 DEF Pushes, InLoop
  <2>3. f \in Frames /\ f.id = asks + 1 /\ FrameOK(f, asks + 1)
    BY <1>4, <2>1 DEF Pushes
  <2>4. Shape(<<f>> \o stack, asks + 1)
    BY <1>1, <2>2, <2>3, ShapePush
  <2> QED
    BY <2>1, <2>4 DEF Pushes
<1>6. CASE \E f : Swaps(f)
  <2>1. PICK f : Swaps(f)
    BY <1>6
  <2>2. stack # <<>>
    BY <2>1 DEF Swaps, TokenBack, Waiting
  <2>3. Shape(Tail(stack), asks) /\ (Tail(stack) = <<>> \/ Tail(stack)[1].at = "loop")
    BY <1>1, <2>2, ShapeTail
  <2>4. f \in Frames /\ f.id = asks + 1 /\ FrameOK(f, asks + 1)
    BY <1>4, <2>1 DEF Swaps
  <2>5. Shape(<<f>> \o Tail(stack), asks + 1)
    BY <1>1, <2>2, <2>3, <2>4, ShapePush
  <2> QED
    BY <2>1, <2>5 DEF Swaps
<1>7. CASE Pops
  <2>1. stack # <<>> /\ stack' = Tail(stack) /\ asks' = asks
    BY <1>7 DEF Pops, TokenBack, Waiting
  <2> QED
    BY <1>1, <2>1, ShapeTail
<1>8. ASSUME TopOnly, asks' = asks, FrameOK(stack'[1], asks)
      PROVE  Shape(stack, asks)'
  <2> DEFINE t == stack'
  <2>1. /\ DOMAIN t = DOMAIN stack
        /\ \A k \in DOMAIN stack : /\ t[k].id = stack[k].id /\ FrameOK(t[k], asks)
                                   /\ k > 1 => t[k].at = stack[k].at
    BY <1>2, <1>8 DEF TopOnly, Kept1
  <2> HIDE DEF t
  <2>2. Shape(t, asks)
    BY <1>1, <2>1, ShapeEdit
  <2> QED
    BY <1>8, <2>2 DEF t
<1>9. CASE Lock
  <2>1. /\ TopOnly /\ stack[1].at = "lock"
        /\ stack'[1].at = (IF stack[1].op = "block" THEN "wait" ELSE "start")
    BY <1>9, LockDoes
  <2>2. FrameOK(stack'[1], asks)
    BY <1>2, <2>1 DEF TopOnly, Kept1, FrameOK
  <2> QED
    BY <1>8, <1>9, <2>1, <2>2 DEF Lock
<1>10. CASE Exec
  <2>1. TopOnly /\ stack[1].at = "start" /\ stack'[1].at = "loop"
    BY <1>10, ExecDoes
  <2>2. FrameOK(stack'[1], asks)
    BY <1>2, <2>1 DEF TopOnly, Kept1, FrameOK
  <2> QED
    BY <1>8, <1>10, <2>1, <2>2 DEF Exec
<1>11. CASE LeaveLoop
  <2>1. /\ stack # <<>> /\ Top = stack[1] /\ Top.at = "loop" /\ asks' = asks
        /\ IF Top.op = "init" THEN stack' = Tail(stack)
           ELSE TopOnly /\ stack'[1].at = "wait"
    BY <1>11, LeaveDoes DEF LeaveLoop
  <2>2. CASE Top.op = "init"
    BY <1>1, <2>1, <2>2, ShapeTail
  <2>3. CASE Top.op # "init"
    <3>1. FrameOK(stack'[1], asks)
      BY <1>2, <2>1, <2>3 DEF TopOnly, Kept1, FrameOK
    <3> QED
      BY <1>8, <2>1, <2>3, <3>1
  <2> QED
    BY <2>2, <2>3
<1>12. ASSUME asks' = asks, DOMAIN stack' = DOMAIN stack,
              \A k \in DOMAIN stack : /\ stack'[k].id = stack[k].id
                                     /\ stack'[k].op = stack[k].op
                                     /\ stack'[k].at = stack[k].at
       PROVE  Shape(stack, asks)'
  <2> DEFINE t == stack'
  <2>1. /\ DOMAIN t = DOMAIN stack
        /\ \A k \in DOMAIN stack : /\ t[k].id = stack[k].id /\ FrameOK(t[k], asks)
                                   /\ k > 1 => t[k].at = stack[k].at
    BY <1>2, <1>12 DEF FrameOK
  <2> HIDE DEF t
  <2>2. Shape(t, asks)
    BY <1>1, <2>1, ShapeEdit
  <2> QED
    BY <1>12, <2>2 DEF t
<1>13. CASE OnInitDone
  BY <1>12, <1>13, InitDoneDoes DEF OnInitDone, Kept1
<1>14. CASE Deliver
  BY <1>12, <1>14, DeliverDoes DEF Deliver
<1>15. CASE Away \/ TakeJob \/ (\E cs, got : Ends(cs, got)) \/ InitImpl
  BY <1>3, <1>15 DEF Away, TakeJob, Ends, InitImpl
<1>16. CASE Refused
  <2>1. /\ TopOnly /\ stack[1].at = "start" /\ stack[1].op # "init"
        /\ stack'[1].at = "wait"
    BY <1>16, RefusedDoes
  <2>2. FrameOK(stack'[1], asks)
    BY <1>2, <2>1 DEF TopOnly, Kept1, FrameOK
  <2> QED
    BY <1>8, <1>16, <2>1, <2>2 DEF Refused
<1>17. CASE Quit
  BY <1>12, <1>17, QuitDoes DEF Quit
<1> QED
  BY <1>5, <1>6, <1>7, <1>9, <1>10, <1>11, <1>13, <1>14, <1>15, <1>16, <1>17 DEF Kinds

-----------------------------------------------------------------------------
(* The token.                                                              *)

NoneCarries(q) == \A k \in DOMAIN q : ~Carries(q[k])
OneCarries(q) == \E k \in DOMAIN q : /\ Carries(q[k])
                                    /\ \A l \in DOMAIN q : Carries(q[l]) => l = k

\* The semaphore's token is in exactly one of its three places.
OneToken == \/ sem = 1 /\ ~Working /\ NoneCarries(wq)
            \/ sem = 0 /\ Working /\ NoneCarries(wq)
            \/ sem = 0 /\ ~Working /\ OneCarries(wq)

LEMMA TailCarries ==
  ASSUME NEW S, NEW q \in Seq(S), q # <<>>
  PROVE  /\ NoneCarries(q) => NoneCarries(Tail(q))
         /\ OneCarries(q) /\ Carries(Head(q)) => NoneCarries(Tail(q))
         /\ OneCarries(q) /\ ~Carries(Head(q)) => OneCarries(Tail(q))
<1>1. /\ Len(q) \in Nat \ {0} /\ DOMAIN q = 1 .. Len(q) /\ Head(q) = q[1]
      /\ DOMAIN Tail(q) = 1 .. Len(q) - 1
      /\ \A i \in 1 .. Len(q) - 1 : Tail(q)[i] = q[i + 1] /\ i + 1 \in DOMAIN q
  BY HeadTail
<1>2. NoneCarries(q) => NoneCarries(Tail(q))
  BY <1>1 DEF NoneCarries
<1>3. ASSUME OneCarries(q), Carries(Head(q)) PROVE NoneCarries(Tail(q))
  <2>1. \A l \in DOMAIN q : Carries(q[l]) => l = 1
    BY <1>1, <1>3 DEF OneCarries
  <2> SUFFICES ASSUME NEW i \in DOMAIN Tail(q) PROVE ~Carries(Tail(q)[i])
    BY DEF NoneCarries
  <2>2. i \in 1 .. Len(q) - 1 /\ i + 1 # 1
    BY <1>1
  <2> QED
    BY <1>1, <2>1, <2>2
<1>4. ASSUME OneCarries(q), ~Carries(Head(q)) PROVE OneCarries(Tail(q))
  <2>1. PICK k \in DOMAIN q : /\ Carries(q[k])
                             /\ \A l \in DOMAIN q : Carries(q[l]) => l = k
    BY <1>4 DEF OneCarries
  <2>2. k - 1 \in 1 .. Len(q) - 1 /\ (k - 1) + 1 = k
    BY <1>1, <1>4, <2>1
  <2>3. Carries(Tail(q)[k - 1])
    BY <1>1, <2>1, <2>2
  <2>4. ASSUME NEW i \in DOMAIN Tail(q), Carries(Tail(q)[i]) PROVE i = k - 1
    <3>1. i \in 1 .. Len(q) - 1 /\ i + 1 = k
      BY <1>1, <2>1, <2>4
    <3> QED
      BY <3>1
  <2> QED
    BY <1>1, <2>2, <2>3, <2>4 DEF OneCarries
<1> QED
  BY <1>2, <1>3, <1>4

LEMMA AppendCarries ==
  ASSUME NEW S, NEW q \in Seq(S), NEW e \in S
  PROVE  /\ NoneCarries(q) /\ ~Carries(e) => NoneCarries(Append(q, e))
         /\ NoneCarries(q) /\ Carries(e) => OneCarries(Append(q, e))
         /\ OneCarries(q) /\ ~Carries(e) => OneCarries(Append(q, e))
<1> DEFINE a == Append(q, e)
           n == Len(q) + 1
<1>1. /\ Len(q) \in Nat /\ DOMAIN q = 1 .. Len(q) /\ DOMAIN a = 1 .. n
      /\ \A i \in 1 .. Len(q) : a[i] = q[i]
      /\ a[n] = e
  OBVIOUS
<1>2. \A i \in DOMAIN a : i \in DOMAIN q \/ i = n
  BY <1>1
<1>3. n \in DOMAIN a /\ n \notin DOMAIN q /\ DOMAIN q \subseteq DOMAIN a
  BY <1>1
<1> HIDE DEF a, n
<1>4. NoneCarries(q) /\ ~Carries(e) => NoneCarries(a)
  BY <1>1, <1>2 DEF NoneCarries
<1>5. NoneCarries(q) /\ Carries(e) => OneCarries(a)
  BY <1>1, <1>2, <1>3 DEF NoneCarries, OneCarries
<1>6. ASSUME OneCarries(q), ~Carries(e) PROVE OneCarries(a)
  <2>1. PICK k \in DOMAIN q : /\ Carries(q[k])
                             /\ \A l \in DOMAIN q : Carries(q[l]) => l = k
    BY <1>6 DEF OneCarries
  <2>2. k \in DOMAIN a /\ Carries(a[k])
    BY <1>1, <1>3, <2>1
  <2>3. \A i \in DOMAIN a : Carries(a[i]) => i = k
    BY <1>1, <1>2, <1>6, <2>1
  <2> QED
    BY <2>2, <2>3 DEF OneCarries
<1> QED
  BY <1>4, <1>5, <1>6 DEF a

LEMMA JoinCarries ==
  ASSUME NEW q \in Seq(Requests \cup Calls), NEW cs \in Seq(Calls), NoneCarries(q)
  PROVE  NoneCarries(q \o cs)
<1>1. cs \in Seq(Requests \cup Calls) /\ \A k \in DOMAIN cs : ~Carries(cs[k])
  <2>1. \A k \in DOMAIN cs : cs[k] \in Calls
    OBVIOUS
  <2>2. \A e \in Calls : ~Carries(e)
    BY DEF Carries, Calls
  <2> QED
    BY <2>1, <2>2
<1> DEFINE u == q \o cs
<1>2. /\ Len(q) \in Nat /\ Len(cs) \in Nat
      /\ DOMAIN u = 1 .. Len(q) + Len(cs)
      /\ \A i \in 1 .. Len(q) : u[i] = q[i]
      /\ \A i \in 1 .. Len(cs) : u[Len(q) + i] = cs[i]
  BY <1>1, Joined
<1>3. DOMAIN q = 1 .. Len(q) /\ DOMAIN cs = 1 .. Len(cs)
  OBVIOUS
<1> HIDE DEF u
<1>4. ASSUME NEW i \in DOMAIN u PROVE ~Carries(u[i])
  <2>1. CASE i \in 1 .. Len(q)
    BY <1>2, <1>3, <2>1 DEF NoneCarries
  <2>2. CASE i \notin 1 .. Len(q)
    <3>1. i - Len(q) \in 1 .. Len(cs) /\ Len(q) + (i - Len(q)) = i
      BY <1>2, <2>2
    <3> QED
      BY <1>1, <1>2, <1>3, <3>1
  <2> QED
    BY <2>1, <2>2
<1> QED
  BY <1>4 DEF NoneCarries, u

LEMMA TokenMeans == ASSUME TypeOK, OneToken PROVE TokenAccounted
<1>1. wq \in Seq(Requests \cup Calls) /\ Len(wq) \in Nat /\ DOMAIN wq = 1 .. Len(wq)
      /\ sem \in 0 .. 1
  BY DEF TypeOK
<1>2. CASE sem = 1 /\ ~Working /\ NoneCarries(wq)
  <2>1. Holders = {-1}
    BY <1>1, <1>2 DEF Holders, NoneCarries
  <2> QED
    BY <1>2, <2>1 DEF TokenAccounted
<1>3. CASE sem = 0 /\ Working /\ NoneCarries(wq)
  <2>1. Holders = {0}
    BY <1>1, <1>3 DEF Holders, NoneCarries
  <2> QED
    BY <1>3, <2>1 DEF TokenAccounted
<1>4. CASE sem = 0 /\ ~Working /\ OneCarries(wq)
  <2>1. PICK k \in DOMAIN wq : /\ Carries(wq[k])
                              /\ \A l \in DOMAIN wq : Carries(wq[l]) => l = k
    BY <1>4 DEF OneCarries
  <2>2. k \in 1 .. Len(wq)
    BY <1>1
  <2>3. Holders = {k}
    BY <1>1, <1>4, <2>1, <2>2 DEF Holders
  <2> QED
    BY <1>4, <2>3 DEF TokenAccounted
<1> QED
  BY <1>2, <1>3, <1>4 DEF OneToken

LEMMA TokenStep ==
  ASSUME TypeInv, Shape(stack, asks), OneToken, Kinds
  PROVE  OneToken'
<1>1. /\ stack \in Seq(Frames) /\ wq \in Seq(Requests \cup Calls)
      /\ job \in {NoJob} \cup Jobs
      /\ stack # <<>> => Top \in Frames /\ Request(Top) \in Requests
      /\ stack # <<>> => Request(Top).what = "impl" /\ Request(Top).op = Top.op
  BY HeadTail, RequestTyped DEF TypeInv, TypeOK, Top
<1>2. ASSUME UNCHANGED <<sem, wq, job>> PROVE OneToken'
  BY <1>2 DEF OneToken, Working, NoneCarries, OneCarries
<1>3. CASE Away \/ (\E f : Pushes(f)) \/ (\E f : Swaps(f)) \/ Pops \/ LeaveLoop
           \/ OnInitDone \/ Refused \/ Quit
  BY <1>2, <1>3 DEF Away, Pushes, Swaps, Pops, LeaveLoop, OnInitDone, Refused, Quit
<1>4. CASE Lock
  <2>1. /\ sem = 1 /\ sem' = 0 /\ job' = job /\ wq' = Append(wq, Request(Top))
        /\ stack # <<>>
    BY <1>4 DEF Lock, Waiting
  <2>2. NoneCarries(wq) /\ ~Working
    BY <2>1 DEF OneToken
  <2>3. Top.op # "init"
    <3>1. Top = stack[1] /\ 1 \in DOMAIN stack /\ Top.at = "lock"
      BY <1>4, LockDoes DEF TopOnly
    <3> QED
      BY <3>1 DEF Shape, FrameOK
  <2>4. Carries(Request(Top))
    BY <1>1, <2>1, <2>3 DEF Carries
  <2>5. OneCarries(wq')
    BY <1>1, <2>1, <2>2, <2>4, AppendCarries
  <2> QED
    BY <2>1, <2>2, <2>5 DEF OneToken, OneCarries, Working
<1>5. CASE Exec
  <2>1. sem' = sem /\ job' = job /\ stack # <<>>
        /\ wq' = IF Top.op = "init" THEN Append(wq, Request(Top)) ELSE wq
    BY <1>5 DEF Exec, Waiting
  <2>2. CASE Top.op # "init"
    BY <1>2, <2>1, <2>2
  <2>3. CASE Top.op = "init"
    <3>1. ~Carries(Request(Top)) /\ wq' = Append(wq, Request(Top))
      BY <1>1, <2>1, <2>3 DEF Carries
    <3>2. /\ NoneCarries(wq) => NoneCarries(wq')
          /\ OneCarries(wq) => OneCarries(wq')
      BY <1>1, <2>1, <3>1, AppendCarries
    <3>3. (NoneCarries(wq))' <=> NoneCarries(wq')
      BY DEF NoneCarries
    <3>4. (OneCarries(wq))' <=> OneCarries(wq')
      BY DEF OneCarries
    <3> QED
      BY <2>1, <3>2, <3>3, <3>4 DEF OneToken, Working
  <2> QED
    BY <2>2, <2>3
<1>6. CASE TakeJob
  <2> DEFINE r == Head(wq)
  <2>1. /\ ~Working /\ wq # <<>> /\ r.what = "impl" /\ wq' = Tail(wq)
        /\ sem' = sem /\ job'.op = r.op
    BY <1>6 DEF TakeJob, Idle, Working, NoJob
  <2>2. r.op # "none"
    <3>1. r \in Requests \cup Calls
      BY <1>1, <2>1, HeadTail
    <3>2. r \in Requests
      BY <2>1, <3>1 DEF Calls
    <3> QED
      BY <3>2 DEF Requests, Waits
  <2>3. Working' <=> Carries(r)
    BY <2>1, <2>2 DEF Working, Carries
  <2>4. /\ NoneCarries(wq) => NoneCarries(wq') /\ ~Carries(r)
        /\ OneCarries(wq) /\ Carries(r) => NoneCarries(wq')
        /\ OneCarries(wq) /\ ~Carries(r) => OneCarries(wq')
    <3>1. NoneCarries(wq) => ~Carries(r)
      BY <1>1, <2>1, HeadTail DEF NoneCarries
    <3> QED
      BY <1>1, <2>1, <3>1, TailCarries
  <2> HIDE DEF r
  <2> QED
    BY <2>1, <2>3, <2>4 DEF OneToken, NoneCarries, OneCarries
<1>7. CASE \E cs, got : Ends(cs, got)
  <2>1. PICK cs, got : Ends(cs, got)
    BY <1>7
  <2>2. Working /\ cs \in Seq(Calls) /\ wq' = wq \o cs /\ sem' = sem + 1 /\ ~Working'
    BY <2>1 DEF Ends, Working, NoJob, Waits
  <2>3. sem = 0 /\ NoneCarries(wq)
    BY <2>2 DEF OneToken
  <2>4. NoneCarries(wq')
    BY <1>1, <2>2, <2>3, JoinCarries
  <2> QED
    BY <2>2, <2>3, <2>4 DEF OneToken, NoneCarries
<1>8. CASE InitImpl
  BY <1>8 DEF InitImpl, OneToken, Working, NoneCarries, OneCarries, NoJob
<1>9. CASE Deliver
  <2>1. wq # <<>> /\ ~Carries(Head(wq)) /\ wq' = Tail(wq) /\ UNCHANGED <<sem, job>>
    BY <1>9 DEF Deliver, Idle, Carries
  <2>2. /\ NoneCarries(wq) => NoneCarries(wq')
        /\ OneCarries(wq) => OneCarries(wq')
    BY <1>1, <2>1, TailCarries
  <2> QED
    BY <2>1, <2>2 DEF OneToken, Working, NoneCarries, OneCarries
<1> QED
  BY <1>3, <1>4, <1>5, <1>6, <1>7, <1>8, <1>9 DEF Kinds


-----------------------------------------------------------------------------
(* The block in hand.                                                      *)

\* A request that holds the token was made by a frame that still waits for
\* it.
Owned(s, op, i) == \E l \in DOMAIN s : s[l].id = i /\ s[l].op = op /\ s[l].at \in Connecting
Owners == /\ \A k \in DOMAIN wq : Carries(wq[k]) => Owned(stack, wq[k].op, wq[k].id)
          /\ Working => Owned(stack, job.op, job.id)

LEMMA OwnedStep ==
  ASSUME TypeInv, Kinds, ~TokenBack, NEW op, op # "init", NEW i, Owned(stack, op, i)
  PROVE  Owned(stack', op, i)
<1>1. /\ stack \in Seq(Frames)
      /\ stack # <<>> => Top = stack[1] /\ 1 \in DOMAIN stack
  BY HeadTail DEF TypeInv, TypeOK, Top
<1>2. PICK l \in DOMAIN stack : /\ stack[l].id = i /\ stack[l].op = op
                               /\ stack[l].at \in Connecting
  BY DEF Owned
<1>3. CASE UNCHANGED stack
  BY <1>3
<1>4. CASE \E f : Pushes(f)
  <2>1. PICK f : Pushes(f)
    BY <1>4
  <2>2. stack' = <<f>> \o stack /\ f \in Frames
    BY <2>1 DEF Pushes, Fresh
  <2>3. DOMAIN stack' = 1 .. Len(stack) + 1 /\ stack'[l + 1] = stack[l] /\ l \in 1 .. Len(stack)
        /\ Len(stack) \in Nat
    BY <1>1, <2>2, Pushed
  <2>4. l + 1 \in DOMAIN stack'
    BY <2>3
  <2> QED
    BY <1>2, <2>3, <2>4 DEF Owned
<1>5. ASSUME TopOnly, stack'[1].at \in Connecting PROVE Owned(stack', op, i)
  BY <1>2, <1>5 DEF TopOnly, Kept1, Owned
<1>6. CASE Lock
  BY <1>5, <1>6, LockDoes DEF Connecting
<1>7. CASE Exec
  BY <1>5, <1>7, ExecDoes DEF Connecting
<1>8. CASE LeaveLoop
  <2>1. CASE Top.op = "init"
    <3>1. stack # <<>> /\ stack' = Tail(stack) /\ Top = stack[1]
      BY <1>8, <2>1, LeaveDoes
    <3>2. l # 1
      BY <1>2, <2>1, <3>1
    <3>3. /\ DOMAIN stack' = 1 .. Len(stack) - 1 /\ Len(stack) \in Nat
          /\ DOMAIN stack = 1 .. Len(stack)
          /\ \A k \in 1 .. Len(stack) - 1 : stack'[k] = stack[k + 1]
      BY <1>1, <3>1, HeadTail
    <3>4. l - 1 \in DOMAIN stack' /\ stack'[l - 1] = stack[l]
      <4>1. l - 1 \in 1 .. Len(stack) - 1 /\ (l - 1) + 1 = l
        BY <3>2, <3>3
      <4> QED
        BY <3>3, <4>1
    <3> QED
      BY <1>2, <3>4 DEF Owned
  <2>2. CASE Top.op # "init"
    BY <1>5, <1>8, <2>2, LeaveDoes DEF Connecting
  <2> QED
    BY <2>1, <2>2
<1>9. CASE OnInitDone
  BY <1>2, <1>9, InitDoneDoes DEF Owned, Kept1
<1>10. CASE Deliver
  BY <1>2, <1>10, DeliverDoes DEF Owned
<1>11. CASE Away \/ TakeJob \/ (\E cs, got : Ends(cs, got)) \/ InitImpl
  BY <1>3, <1>11 DEF Away, TakeJob, Ends, InitImpl
<1>12. ~Pops /\ ~(\E f : Swaps(f))
  BY DEF Pops, Swaps
<1>13. CASE Refused
  BY <1>5, <1>13, RefusedDoes DEF Connecting
<1>14. CASE Quit
  BY <1>2, <1>14, QuitDoes DEF Owned
<1> QED
  BY <1>4, <1>6, <1>7, <1>8, <1>9, <1>10, <1>11, <1>12, <1>13, <1>14 DEF Kinds

LEMMA OwnersStep ==
  ASSUME TypeInv, TypeInv', Shape(stack, asks), OneToken, OneToken', Owners, Kinds
  PROVE  Owners'
<1>1. /\ stack \in Seq(Frames) /\ wq \in Seq(Requests \cup Calls)
      /\ stack # <<>> => Request(Top) \in Requests
      /\ stack # <<>> => Request(Top).what = "impl" /\ Request(Top).op = Top.op
                         /\ Request(Top).id = Top.id
  BY HeadTail, RequestTyped DEF TypeInv, TypeOK, Top
<1>2. CASE TokenBack
  <2>1. ~Working /\ NoneCarries(wq)
    BY <1>2 DEF TokenBack, OneToken
  <2>2. CASE UNCHANGED <<wq, job>>
    BY <2>1, <2>2 DEF Owners, NoneCarries, Working
  <2>3. CASE Lock \/ Exec \/ LeaveLoop
    BY <1>2, <2>3 DEF TokenBack, Lock, Exec, LeaveLoop
  <2>4. CASE TakeJob
    <3>1. ~Carries(Head(wq)) /\ wq # <<>> /\ Head(wq).what = "impl" /\ wq' = Tail(wq)
      <4>1. wq # <<>> /\ Head(wq).what = "impl" /\ wq' = Tail(wq)
        BY <2>4 DEF TakeJob, Idle
      <4> QED
        BY <1>1, <2>1, <4>1, HeadTail DEF NoneCarries
    <3>2. NoneCarries(wq')
      BY <1>1, <2>1, <3>1, TailCarries
    <3>3. job'.op = "init"
      BY <2>4, <3>1 DEF TakeJob, Carries
    <3> QED
      BY <3>2, <3>3 DEF Owners, NoneCarries, Working
  <2>5. CASE \E cs, got : Ends(cs, got)
    BY <2>1, <2>5 DEF Ends, Working, Waits
  <2>6. CASE InitImpl
    BY <2>1, <2>6 DEF InitImpl, Owners, NoneCarries, Working, NoJob
  <2>7. CASE Deliver
    <3>1. wq # <<>> /\ wq' = Tail(wq) /\ job' = job
      BY <2>7 DEF Deliver, Idle
    <3>2. NoneCarries(wq')
      BY <1>1, <2>1, <3>1, TailCarries
    <3> QED
      BY <2>1, <3>1, <3>2 DEF Owners, NoneCarries, Working
  <2> QED
    BY <2>2, <2>3, <2>4, <2>5, <2>6, <2>7
    DEF Kinds, Away, Pushes, Swaps, Pops, OnInitDone, Refused, Quit
<1>3. CASE ~TokenBack
  <2>1. ASSUME NEW op, op # "init", NEW i, Owned(stack, op, i)
        PROVE  Owned(stack', op, i)
    BY <1>3, <2>1, OwnedStep
  <2>2. /\ Working => job.op # "init" /\ Owned(stack, job.op, job.id)
        /\ \A k \in DOMAIN wq : Carries(wq[k]) =>
             wq[k].op # "init" /\ Owned(stack, wq[k].op, wq[k].id)
    BY DEF Owners, Working, Carries
  <2>3. ASSUME job' = job \/ job' = NoJob
        PROVE  Working' => Owned(stack', job'.op, job'.id)
    BY <2>1, <2>2, <2>3 DEF Working, NoJob
  <2>4. ASSUME NEW k \in DOMAIN wq', Carries(wq'[k]),
               \E l \in DOMAIN wq : wq'[k] = wq[l]
        PROVE  Owned(stack', wq'[k].op, wq'[k].id)
    BY <2>1, <2>2, <2>4
  <2>5. ASSUME stack # <<>>, TopOnly, stack'[1].at \in Connecting,
               wq' = Append(wq, Request(Top)), NEW k \in DOMAIN wq', Carries(wq'[k])
        PROVE  Owned(stack', wq'[k].op, wq'[k].id)
    <3>1. (k \in DOMAIN wq /\ wq'[k] = wq[k]) \/ wq'[k] = Request(Top)
      BY <1>1, <2>5
    <3>2. Owned(stack', Request(Top).op, Request(Top).id)
      BY <1>1, <2>5 DEF TopOnly, Kept1, Owned
    <3> QED
      BY <2>4, <2>5, <3>1, <3>2
  <2>6. CASE Lock
    <3>1. /\ stack # <<>> /\ TopOnly /\ stack'[1].at \in Connecting
          /\ wq' = Append(wq, Request(Top)) /\ job' = job
      BY <2>6, LockDoes DEF Lock, Waiting, Connecting
    <3> QED
      BY <2>3, <2>5, <3>1 DEF Owners
  <2>7. ASSUME \A k \in DOMAIN wq' : Carries(wq'[k]) => \E l \in DOMAIN wq : wq'[k] = wq[l]
        PROVE  \A k \in DOMAIN wq' : Carries(wq'[k]) => Owned(stack', wq'[k].op, wq'[k].id)
    BY <2>4, <2>7
  <2>8. CASE Exec
    <3>1. /\ stack # <<>> /\ TopOnly /\ stack'[1].at \in Connecting /\ job' = job
          /\ (wq' = Append(wq, Request(Top)) \/ wq' = wq)
      BY <2>8, ExecDoes DEF Exec, Waiting, Connecting
    <3> QED
      BY <2>3, <2>5, <2>7, <3>1 DEF Owners
  <2>9. CASE UNCHANGED <<wq, job>>
    BY <2>3, <2>7, <2>9 DEF Owners
  <2>10. ASSUME wq # <<>>, wq' = Tail(wq)
         PROVE  /\ \A k \in DOMAIN wq' : \E l \in DOMAIN wq : wq'[k] = wq[l]
                /\ 1 \in DOMAIN wq /\ Head(wq) = wq[1]
    BY <1>1, <2>10, HeadTail
  <2>11. CASE TakeJob
    <3>1. /\ wq # <<>> /\ wq' = Tail(wq) /\ job'.op = Head(wq).op /\ job'.id = Head(wq).id
          /\ Head(wq).what = "impl"
      BY <2>11 DEF TakeJob, Idle
    <3>2. Working' => Carries(Head(wq))
      BY <3>1 DEF Working, Carries
    <3>3. Working' => Owned(stack', job'.op, job'.id)
      BY <2>1, <2>2, <2>10, <3>1, <3>2
    <3> QED
      BY <2>7, <2>10, <3>1, <3>3 DEF Owners
  <2>12. CASE \E cs, got : Ends(cs, got)
    <3>1. PICK cs, got : Ends(cs, got)
      BY <2>12
    <3>2. cs \in Seq(Calls) /\ wq' = wq \o cs /\ Working /\ job' = NoJob
      BY <3>1 DEF Ends, Working, Waits
    <3>3. NoneCarries(wq)
      BY <3>2 DEF OneToken
    <3>4. NoneCarries(wq')
      BY <1>1, <3>2, <3>3, JoinCarries
    <3> QED
      BY <3>2, <3>4 DEF Owners, NoneCarries, Working, NoJob
  <2>13. CASE InitImpl
    BY <2>3, <2>7, <2>13 DEF InitImpl, Owners
  <2>14. CASE Deliver
    <3>1. wq # <<>> /\ wq' = Tail(wq) /\ job' = job
      BY <2>14 DEF Deliver, Idle
    <3> QED
      BY <2>3, <2>7, <2>10, <3>1 DEF Owners
  <2> QED
    BY <2>6, <2>8, <2>9, <2>11, <2>12, <2>13, <2>14
    DEF Kinds, Away, Pushes, Swaps, Pops, LeaveLoop, OnInitDone, Refused, Quit
<1> QED
  BY <1>2, <1>3


LEMMA HandStep ==
  ASSUME TypeInv, OneToken, Owners, BlockInHandLives, [Next]_vars
  PROVE  BlockInHandLives'
<1>1. hand.valid \in BOOLEAN /\ NoBlock.valid = TRUE
  BY DEF TypeInv, TypeOK, NoBlock
<1>2. CASE UNCHANGED <<stack, hand>>
  BY <1>2 DEF BlockInHandLives
<1>3. ASSUME hand = NoBlock, hand' = hand \/ hand'.valid PROVE BlockInHandLives'
  BY <1>1, <1>3 DEF BlockInHandLives
<1>4. CASE LoadBlocks
  <2>1. Working
    BY <1>4 DEF LoadBlocks, Working, Waits
  <2>2. stack # <<>>
    BY <2>1 DEF Owners, Owned
  <2> QED
    BY <1>4, <2>2 DEF LoadBlocks, BlockInHandLives
<1>5. CASE PutDown
  BY <1>1, <1>5 DEF PutDown, BlockInHandLives
<1>6. CASE Lock \/ Exec \/ Refused \/ LeaveLoop \/ ReturnPreload \/ ReturnPool
  BY <1>3, <1>6 DEF Lock, Exec, Refused, LeaveLoop, ReturnPreload, ReturnPool, TokenBack, Waiting
<1>7. CASE ReturnBlock
  <2>1. hand = NoBlock /\ (hand' = [at |-> Top.lo, valid |-> TRUE] \/ hand' = hand)
    BY <1>7 DEF ReturnBlock, TokenBack, Waiting
  <2> QED
    BY <1>3, <2>1
<1>8. CASE ExplorerInit \/ InitCompleted \/ Preload \/ OnInitDone \/ OnSynchronized
           \/ Quit \/ InitCompletedWithout
  BY <1>3, <1>8
  DEF ExplorerInit, InitCompleted, InitCompletedWithout, Quit, Preload, OnInitDone, OnSynchronized, MayAsk, Event, InLoop
<1>9. CASE Paint
  <2>1. hand = NoBlock /\ \E h \in Heights : hand' = [at |-> h, valid |-> TRUE] \/ hand' = hand
    BY <1>9 DEF Paint, InLoop
  <2> QED
    BY <1>3, <2>1
<1>10. CASE Deliver
  <2>1. stack' = <<>> => stack = <<>>
    <3>1. stack \in Seq(Frames) /\ DOMAIN stack' = DOMAIN stack
      BY <1>10, DeliverDoes DEF TypeInv, TypeOK
    <3> QED
      BY <3>1
  <2> QED
    BY <1>10, <2>1 DEF Deliver, BlockInHandLives
<1>11. CASE UNCHANGED vars \/ LastShutdown \/ ExplorerDeinit \/ OnTop \/ OnPoolUpdated
            \/ TakeJob \/ FailPreload \/ FindByTime \/ GetPoolState \/ InitImpl
            \/ NewTop \/ PoolChanges \/ Synchronized
  BY <1>2, <1>11
  DEF vars, LastShutdown, ExplorerDeinit, OnTop, OnPoolUpdated, TakeJob, FailPreload, FindByTime,
      GetPoolState, InitImpl, NewTop, PoolChanges, Synchronized, NodeRest, gui
<1> QED
  BY <1>4, <1>5, <1>6, <1>7, <1>8, <1>9, <1>10, <1>11
  DEF Next, Gui, Worker, User, Node

-----------------------------------------------------------------------------
(* The theorems.                                                           *)

CoreInv == /\ TypeInv /\ Shape(stack, asks) /\ OneToken /\ Owners
           /\ BlockInHandLives

LEMMA TypeStep ==
  ASSUME TypeInv, OneToken, [Next]_vars
  PROVE  TypeInv'
<1>1. Working => sem = 0
  BY DEF OneToken
<1>2. CASE UNCHANGED vars
  BY <1>2 DEF vars, TypeInv, TypeOK
<1> QED
  BY <1>1, <1>2, TypeRequest, TypeAsk, TypeEvent, TypeWorker, TypeNode
  DEF Next, Gui, Worker, User, Node

LEMMA CoreInit == Init => CoreInv
<1> SUFFICES ASSUME Init PROVE CoreInv
  OBVIOUS
<1>1. /\ stack = <<>> /\ wq = <<>> /\ job = NoJob /\ sem = 1 /\ hand = NoBlock
      /\ asks = 0
  BY DEF Init
<1>2. Shape(stack, asks) /\ OneToken /\ Owners
  BY <1>1 DEF Shape, OneToken, Owners, NoneCarries, Working, NoJob
<1>3. BlockInHandLives
  BY <1>1 DEF BlockInHandLives, NoBlock
<1> QED
  BY <1>2, <1>3, TypeInit DEF CoreInv

LEMMA CoreStep == CoreInv /\ [Next]_vars => CoreInv'
<1> SUFFICES ASSUME CoreInv, [Next]_vars PROVE CoreInv'
  OBVIOUS
<1>1. TypeInv /\ Shape(stack, asks) /\ OneToken /\ Owners /\ BlockInHandLives
  BY DEF CoreInv
<1>2. TypeInv'
  BY <1>1, TypeStep
<1>3. Kinds
  BY <1>1, StepKinds
<1>4. Shape(stack, asks)'
  BY <1>1, <1>2, <1>3, ShapeStep
<1>5. OneToken'
  BY <1>1, <1>3, TokenStep
<1>6. Owners'
  BY <1>1, <1>2, <1>3, <1>5, OwnersStep
<1>7. BlockInHandLives'
  BY <1>1, HandStep
<1> QED
  BY <1>2, <1>4, <1>5, <1>6, <1>7 DEF CoreInv

LEMMA CoreAlways == Spec => []CoreInv
<1> QED
  BY CoreInit, CoreStep, PTL DEF Spec

\* The types: above all, the cache keeps to its limit and the semaphore never
\* has two tokens.
THEOREM TypeCorrect == Spec => []TypeOK
<1>1. CoreInv => TypeOK
  BY DEF CoreInv, TypeInv
<1> QED
  BY <1>1, CoreAlways, PTL

\* m_preloadSemaphore's token is in exactly one place, however the requests of
\* the GUI thread nest and however the worker's queue fills: it
\* is never lost and never doubled, and SemaphoreUnlocker's assertion holds.
THEOREM TokenIsAccounted == Spec => []TokenAccounted
<1>1. CoreInv => TokenAccounted
  BY TokenMeans DEF CoreInv, TypeInv
<1> QED
  BY <1>1, CoreAlways, PTL

\* BlockchainModel::data uses the pointer getBlock took from the cache without
\* the lock: in the application's loop no Impl runs that could delete the block.
THEOREM BlockIsSafe == Spec => []BlockInHandLives
<1>1. CoreInv => BlockInHandLives
  BY DEF CoreInv
<1> QED
  BY <1>1, CoreAlways, PTL


-----------------------------------------------------------------------------
(* Outcomes.                                                               *)

\* The request with the token: waiting in the queue or being worked on.
HasIn(q, j, i) == \/ j.op \notin {"none", "init"} /\ j.id = i
                  \/ \E k \in DOMAIN q : Carries(q[k]) /\ q[k].id = i
IsCall(e) == e.what = "call"
Own(e, c) == IsCall(e) /\ e.from = e.to /\ e.to > c
Awaits(f) == f.exit = FALSE /\ f.at \in {"start", "loop"} /\ f.op \notin {"block", "init"}

\* A frame whose request has the token is waiting for it and has had no call,
\* the requests entered later wait for the token; and the newest frame only
\* ever hears of its own request.
OutFrame(f, q, j, n) ==
  /\ f.at = "lock" => f.exit = FALSE
  /\ HasIn(q, j, f.id) => \/ f.op \in {"block", "init"}
                          \/ Awaits(f)
  /\ \A i \in Nat : HasIn(q, j, i) /\ f.id > i => f.at = "lock" \/ f.op = "init"
  /\ \A k \in DOMAIN q : IsCall(q[k]) /\ q[k].to = f.id =>
       f.at # "lock" /\ ~HasIn(q, j, f.id)
  /\ f.id = n =>
       /\ f.from \in {0, f.id}
       /\ \A k \in DOMAIN q : IsCall(q[k]) /\ q[k].to = f.id => q[k].from = f.id
       /\ f.op \notin {"block", "init"} /\ (f.exit = TRUE \/ f.at = "wait") => f.from = f.id

\* A request's own call is the first for its frame, which waits for it, unless
\* the request is one of those quit() ended.
OwnFirst(q, c) == \A k, l \in DOMAIN q :
  k < l /\ Own(q[l], c) /\ IsCall(q[k]) => q[k].to # q[l].to
Awaited(s, e) == \E l \in DOMAIN s : s[l].id = e.to /\ Awaits(s[l])
OutQueue(s, q, n, c) ==
  /\ \A k \in DOMAIN q : IsCall(q[k]) => q[k].to \in 1 .. n /\ q[k].from \in 1 .. n
  /\ OwnFirst(q, c)
  /\ \A k \in DOMAIN q : Own(q[k], c) => Awaited(s, q[k])

OutBody == /\ \A k \in DOMAIN stack : OutFrame(stack[k], wq, job, asks)
           /\ OutQueue(stack, wq, asks, cut)

\* What has the token was asked for, and by a frame of the stack.
LEMMA HasOwned ==
  ASSUME CoreInv, NEW i, HasIn(wq, job, i)
  PROVE  /\ i \in 1 .. asks
         /\ \E k \in DOMAIN stack : /\ stack[k].id = i /\ stack[k].at \in Connecting
                                   /\ stack[k].op # "init"
<1>1. \E op : op # "init" /\ Owned(stack, op, i)
  BY DEF CoreInv, Owners, HasIn, Working, Carries
<1>2. PICK k \in DOMAIN stack : /\ stack[k].id = i /\ stack[k].at \in Connecting
                               /\ stack[k].op # "init"
  BY <1>1 DEF Owned
<1>3. stack[k].id \in 1 .. asks
  BY DEF CoreInv, Shape, FrameOK
<1> QED
  BY <1>2, <1>3

LEMMA NothingHas ==
  ASSUME CoreInv, sem = 1
  PROVE  \A i : ~HasIn(wq, job, i)
BY DEF CoreInv, OneToken, NoneCarries, Working, HasIn

LEMMA UniqueIds ==
  ASSUME CoreInv
  PROVE  SameIds
<1>1. stack \in Seq(Frames)
  BY DEF CoreInv, TypeInv, TypeOK
<1>2. DOMAIN stack = 1 .. Len(stack) /\ Len(stack) \in Nat
  BY <1>1
<1>3. \A k \in DOMAIN stack : stack[k].id \in Nat
  BY <1>1 DEF CoreInv, Shape, FrameOK
<1>4. \A k, l \in DOMAIN stack : k = l \/ k < l \/ l < k
  BY <1>2
<1>5. \A k, l \in DOMAIN stack : k < l => stack[k].id > stack[l].id
  BY DEF CoreInv, Shape
<1> QED
  BY <1>3, <1>4, <1>5 DEF SameIds

\* A request is made.
LEMMA OutFresh ==
  ASSUME CoreInv, OutBody, NEW f, Fresh(f)
  PROVE  OutFrame(f, wq, job, asks + 1)
<1>1. f.id = asks + 1 /\ asks \in Nat /\ f.from = 0 /\ f.exit = FALSE
      /\ f.at = (IF f.op = "init" THEN "start" ELSE "lock")
  BY DEF Fresh, CoreInv, TypeInv, TypeOK
<1>2. ~HasIn(wq, job, f.id)
  <2>1. f.id \notin 1 .. asks
    BY <1>1
  <2> QED
    BY <2>1, HasOwned
<1>3. \A k \in DOMAIN wq : IsCall(wq[k]) => wq[k].to # f.id
  BY <1>1 DEF OutBody, OutQueue
<1> QED
  BY <1>1, <1>2, <1>3 DEF OutFrame

LEMMA OutOlder ==
  ASSUME CoreInv, OutBody, NEW k \in DOMAIN stack
  PROVE  OutFrame(stack[k], wq, job, asks + 1)
<1>1. stack[k].id \in 1 .. asks /\ asks \in Nat
  BY DEF CoreInv, Shape, FrameOK, TypeInv, TypeOK
<1>2. stack[k].id # asks + 1
  BY <1>1
<1> QED
  BY <1>2 DEF OutBody, OutFrame

LEMMA OutPush ==
  ASSUME CoreInv, OutBody, NEW f, Pushes(f), cut' = cut
  PROVE  OutBody'
<1>1. /\ Fresh(f) /\ f \in Frames /\ stack \in Seq(Frames) /\ stack' = <<f>> \o stack
      /\ asks' = asks + 1 /\ asks \in Nat /\ wq' = wq /\ job' = job
  BY DEF Pushes, Fresh, CoreInv, TypeInv, TypeOK
<1>2. /\ \A k \in DOMAIN stack' : stack'[k] = f \/ \E l \in DOMAIN stack : stack'[k] = stack[l]
      /\ \A l \in DOMAIN stack : \E k \in DOMAIN stack' : stack'[k] = stack[l]
  <2>1. /\ DOMAIN stack = 1 .. Len(stack) /\ DOMAIN stack' = 1 .. Len(stack) + 1
        /\ Len(stack) \in Nat /\ stack'[1] = f
        /\ \A k \in DOMAIN stack : stack'[k + 1] = stack[k]
        /\ \A k \in DOMAIN stack' :
              k = 1 \/ (k - 1 \in DOMAIN stack /\ stack'[k] = stack[k - 1])
    BY <1>1, Pushed
  <2>2. \A k \in DOMAIN stack : k + 1 \in DOMAIN stack'
    BY <2>1
  <2> QED
    BY <2>1, <2>2
<1>3. ASSUME NEW k \in DOMAIN stack' PROVE OutFrame(stack'[k], wq, job, asks + 1)
  BY <1>1, <1>2, OutFresh, OutOlder
<1>4. \A k \in DOMAIN wq : Own(wq[k], cut) => Awaited(stack', wq[k])
  BY <1>2 DEF OutBody, OutQueue, Awaited
<1>5. \A i \in 1 .. asks : i \in 1 .. asks + 1
  BY <1>1
<1> QED
  BY <1>1, <1>3, <1>4, <1>5 DEF OutBody, OutQueue

\* The top frame is left: it waits for no call.
LEMMA OutTail ==
  ASSUME CoreInv, OutBody, stack # <<>>, ~Awaits(stack[1])
  PROVE  /\ \A k \in DOMAIN Tail(stack) : \E l \in DOMAIN stack : Tail(stack)[k] = stack[l]
         /\ \A k \in DOMAIN wq : Own(wq[k], cut) => Awaited(Tail(stack), wq[k])
<1>1. stack \in Seq(Frames)
  BY DEF CoreInv, TypeInv, TypeOK
<1>2. /\ DOMAIN Tail(stack) = 1 .. Len(stack) - 1 /\ DOMAIN stack = 1 .. Len(stack)
      /\ Len(stack) \in Nat
      /\ \A i \in 1 .. Len(stack) - 1 :
           Tail(stack)[i] = stack[i + 1] /\ i + 1 \in DOMAIN stack
  BY <1>1, HeadTail
<1>3. ASSUME NEW l \in DOMAIN stack, l # 1
      PROVE  l - 1 \in DOMAIN Tail(stack) /\ Tail(stack)[l - 1] = stack[l]
  <2>1. l - 1 \in 1 .. Len(stack) - 1 /\ (l - 1) + 1 = l
    BY <1>2, <1>3
  <2> QED
    BY <1>2, <2>1
<1>4. ASSUME NEW k \in DOMAIN wq, Own(wq[k], cut) PROVE Awaited(Tail(stack), wq[k])
  <2>1. PICK l \in DOMAIN stack : stack[l].id = wq[k].to /\ Awaits(stack[l])
    BY <1>4 DEF OutBody, OutQueue, Awaited
  <2>2. l # 1
    BY <2>1
  <2> QED
    BY <1>3, <2>1, <2>2 DEF Awaited
<1> QED
  BY <1>2, <1>4

LEMMA OutPop ==
  ASSUME CoreInv, OutBody, UNCHANGED <<wq, job, asks, cut>>, stack # <<>>, stack' = Tail(stack),
         ~Awaits(stack[1])
  PROVE  OutBody'
BY OutTail DEF OutBody, OutQueue

LEMMA OutSwap ==
  ASSUME CoreInv, OutBody, NEW f, Swaps(f), cut' = cut
  PROVE  OutBody'
<1>1. /\ Fresh(f) /\ f \in Frames /\ stack' = <<f>> \o Tail(stack) /\ stack # <<>>
      /\ asks' = asks + 1 /\ asks \in Nat /\ wq' = wq /\ job' = job
      /\ stack \in Seq(Frames) /\ Tail(stack) \in Seq(Frames) /\ Top = stack[1]
      /\ Top.at = "wait"
  BY HeadTail DEF Swaps, TokenBack, Waiting, Fresh, CoreInv, TypeInv, TypeOK, Top
<1> DEFINE s == Tail(stack)
<1>2. /\ \A k \in DOMAIN s : \E l \in DOMAIN stack : s[k] = stack[l]
      /\ \A k \in DOMAIN wq : Own(wq[k], cut) => Awaited(s, wq[k])
  BY <1>1, OutTail DEF Awaits
<1> HIDE DEF s
<1>3. /\ \A k \in DOMAIN stack' : stack'[k] = f \/ \E l \in DOMAIN s : stack'[k] = s[l]
      /\ \A l \in DOMAIN s : \E k \in DOMAIN stack' : stack'[k] = s[l]
  <2>0. s \in Seq(Frames) /\ stack' = <<f>> \o s
    BY <1>1 DEF s
  <2>1. /\ DOMAIN s = 1 .. Len(s) /\ DOMAIN stack' = 1 .. Len(s) + 1
        /\ Len(s) \in Nat /\ stack'[1] = f
        /\ \A k \in DOMAIN s : stack'[k + 1] = s[k]
        /\ \A k \in DOMAIN stack' :
              k = 1 \/ (k - 1 \in DOMAIN s /\ stack'[k] = s[k - 1])
    BY <1>1, <2>0, Pushed
  <2>2. \A k \in DOMAIN s : k + 1 \in DOMAIN stack'
    BY <2>1
  <2> QED
    BY <2>1, <2>2
<1>4. ASSUME NEW k \in DOMAIN stack' PROVE OutFrame(stack'[k], wq, job, asks + 1)
  <2>1. stack'[k] = f \/ \E l \in DOMAIN stack : stack'[k] = stack[l]
    BY <1>2, <1>3
  <2> QED
    BY <1>1, <2>1, OutFresh, OutOlder
<1>5. \A k \in DOMAIN wq : Own(wq[k], cut) => Awaited(stack', wq[k])
  BY <1>2, <1>3 DEF Awaited
<1>6. \A i \in 1 .. asks : i \in 1 .. asks + 1
  BY <1>1
<1> QED
  BY <1>1, <1>4, <1>5, <1>6 DEF OutBody, OutQueue


\* The queue.
LEMMA AppendQueue ==
  ASSUME NEW S, NEW q \in Seq(S), NEW e \in S, ~IsCall(e), NEW c
  PROVE  /\ \A j, i : HasIn(Append(q, e), j, i) <=>
                        HasIn(q, j, i) \/ (Carries(e) /\ e.id = i)
         /\ \A k \in DOMAIN Append(q, e) : IsCall(Append(q, e)[k]) =>
              \E l \in DOMAIN q : Append(q, e)[k] = q[l]
         /\ OwnFirst(q, c) => OwnFirst(Append(q, e), c)
<1> DEFINE a == Append(q, e)
           n == Len(q) + 1
<1>1. /\ Len(q) \in Nat /\ DOMAIN q = 1 .. Len(q) /\ DOMAIN a = 1 .. n
      /\ \A i \in 1 .. Len(q) : a[i] = q[i]
      /\ a[n] = e
  OBVIOUS
<1>2. /\ \A k \in DOMAIN a : k = n \/ (k \in DOMAIN q /\ a[k] = q[k])
      /\ \A k \in DOMAIN q : k \in DOMAIN a /\ a[k] = q[k]
      /\ n \in DOMAIN a
  BY <1>1
<1>3. a[n] = e
  BY <1>1
<1> HIDE DEF a, n
<1>4. \A j, i : HasIn(a, j, i) <=> HasIn(q, j, i) \/ (Carries(e) /\ e.id = i)
  BY <1>2, <1>3 DEF HasIn
<1>5. \A k \in DOMAIN a : IsCall(a[k]) => k \in DOMAIN q /\ a[k] = q[k]
  BY <1>2, <1>3
<1>6. OwnFirst(q, c) => OwnFirst(a, c)
  BY <1>5 DEF OwnFirst, Own
<1> QED
  BY <1>4, <1>5, <1>6 DEF a

LEMMA TailQueue ==
  ASSUME NEW S, NEW q \in Seq(S), q # <<>>, NEW c
  PROVE  /\ \A k \in DOMAIN Tail(q) : \E l \in DOMAIN q : l > 1 /\ Tail(q)[k] = q[l]
         /\ OwnFirst(q, c) => OwnFirst(Tail(q), c)
         /\ Head(q) = q[1] /\ 1 \in DOMAIN q
<1>1. /\ DOMAIN Tail(q) = 1 .. Len(q) - 1 /\ Len(q) \in Nat \ {0}
      /\ DOMAIN q = 1 .. Len(q) /\ Head(q) = q[1]
      /\ \A i \in 1 .. Len(q) - 1 : Tail(q)[i] = q[i + 1] /\ i + 1 \in DOMAIN q
  BY HeadTail
<1>2. \A i \in 1 .. Len(q) - 1 : i + 1 > 1
  BY <1>1
<1>3. \A i, k \in 1 .. Len(q) - 1 : i < k => i + 1 < k + 1
  BY <1>1
<1>4. OwnFirst(q, c) => OwnFirst(Tail(q), c)
  BY <1>1, <1>3 DEF OwnFirst
<1> QED
  BY <1>1, <1>2, <1>4

LEMMA JoinQueue ==
  ASSUME NEW S, NEW q \in Seq(S), NEW cs \in Seq(S), NEW c, OwnFirst(q, c),
         \A k \in DOMAIN q, l \in DOMAIN cs :
            IsCall(q[k]) /\ Own(cs[l], c) => q[k].to # cs[l].to,
         \A k, l \in DOMAIN cs : cs[k].to = cs[l].to => k = l
  PROVE  /\ \A k \in DOMAIN (q \o cs) : \/ \E l \in DOMAIN q : (q \o cs)[k] = q[l]
                                      \/ \E l \in DOMAIN cs : (q \o cs)[k] = cs[l]
         /\ OwnFirst(q \o cs, c)
<1> DEFINE u == q \o cs
           n == Len(q)
<1>1. /\ n \in Nat /\ Len(cs) \in Nat
      /\ DOMAIN u = 1 .. n + Len(cs)
      /\ \A i \in 1 .. n : u[i] = q[i]
      /\ \A i \in 1 .. Len(cs) : u[n + i] = cs[i]
  BY Joined
<1>2. DOMAIN q = 1 .. n /\ DOMAIN cs = 1 .. Len(cs)
  OBVIOUS
<1> HIDE DEF u, n
<1>3. \A k \in DOMAIN u : \/ k \in DOMAIN q /\ u[k] = q[k]
                          \/ k > n /\ k - n \in DOMAIN cs /\ u[k] = cs[k - n]
  <2> SUFFICES ASSUME NEW k \in DOMAIN u, k \notin DOMAIN q
               PROVE  k > n /\ k - n \in DOMAIN cs /\ u[k] = cs[k - n]
    BY <1>1, <1>2
  <2>1. k - n \in 1 .. Len(cs) /\ n + (k - n) = k
    BY <1>1, <1>2
  <2>2. k > n
    BY <1>1, <1>2
  <2> QED
    BY <1>1, <1>2, <2>1, <2>2
<1>4. ASSUME NEW k \in DOMAIN u, NEW l \in DOMAIN u, k < l, Own(u[l], c), IsCall(u[k])
      PROVE  u[k].to # u[l].to
  <2>1. CASE l \in DOMAIN q
    <3>1. k \in DOMAIN q /\ u[k] = q[k] /\ u[l] = q[l]
      BY <1>1, <1>2, <1>4, <2>1
    <3> QED
      BY <1>4, <2>1, <3>1 DEF OwnFirst
  <2>2. CASE l \notin DOMAIN q
    <3>1. l > n /\ l - n \in DOMAIN cs /\ u[l] = cs[l - n]
      BY <1>3, <2>2
    <3>2. CASE k \in DOMAIN q /\ u[k] = q[k]
      BY <1>4, <3>1, <3>2
    <3>3. CASE k > n /\ k - n \in DOMAIN cs /\ u[k] = cs[k - n]
      <4>1. k - n # l - n
        BY <1>1, <1>4
      <4> QED
        BY <3>1, <3>3, <4>1
    <3> QED
      BY <1>3, <3>2, <3>3
  <2> QED
    BY <2>1, <2>2
<1> QED
  BY <1>3, <1>4 DEF OwnFirst, u

\* A queue that holds no more, and no more that has the token, asks no more
\* of a frame.
LEMMA OutLess ==
  ASSUME NEW f, NEW p, NEW i, NEW q, NEW j, NEW n, OutFrame(f, p, i, n),
         \A k \in DOMAIN q : IsCall(q[k]) => \E l \in DOMAIN p : q[k] = p[l],
         \A m : HasIn(q, j, m) => HasIn(p, i, m)
  PROVE  OutFrame(f, q, j, n)
BY DEF OutFrame

\* The top frame is edited.
LEMMA OutTop ==
  ASSUME CoreInv, OutBody, TopOnly, NEW q, NEW n,
         \A k \in DOMAIN stack : k # 1 => OutFrame(stack[k], q, job, n),
         OutFrame(stack'[1], q, job, n),
         \A k \in DOMAIN q : IsCall(q[k]) => \E l \in DOMAIN wq : q[k] = wq[l],
         OwnFirst(q, cut), n = asks, Awaits(stack[1]) => Awaits(stack'[1])
  PROVE  /\ \A k \in DOMAIN stack' : OutFrame(stack'[k], q, job, n)
         /\ OutQueue(stack', q, n, cut)
<1>1. \A k \in DOMAIN stack' : OutFrame(stack'[k], q, job, n)
  BY DEF TopOnly
<1>2. ASSUME NEW k \in DOMAIN q, Own(q[k], cut) PROVE Awaited(stack', q[k])
  <2>1. PICK m \in DOMAIN wq : q[k] = wq[m]
    BY <1>2 DEF Own
  <2>2. PICK l \in DOMAIN stack : stack[l].id = q[k].to /\ Awaits(stack[l])
    BY <1>2, <2>1 DEF OutBody, OutQueue, Awaited
  <2>3. stack'[l].id = stack[l].id /\ Awaits(stack'[l]) /\ l \in DOMAIN stack'
    BY <2>2 DEF TopOnly, Kept1
  <2> QED
    BY <2>2, <2>3 DEF Awaited
<1>3. \A k \in DOMAIN q : IsCall(q[k]) => q[k].to \in 1 .. n /\ q[k].from \in 1 .. n
  BY DEF OutBody, OutQueue
<1> QED
  BY <1>1, <1>2, <1>3 DEF OutQueue

LEMMA OutLock ==
  ASSUME CoreInv, OutBody, Lock, cut' = cut
  PROVE  OutBody'
<1> DEFINE r == Request(Top)
           g == stack[1]
           h == stack'[1]
<1>1. /\ stack # <<>> /\ sem = 1 /\ wq' = Append(wq, r) /\ job' = job /\ asks' = asks
  BY DEF Lock, Waiting
<1>2. /\ TopOnly /\ g.at = "lock" /\ h.exit = g.exit /\ Top = g /\ Kept1(g, h)
      /\ h.at = (IF g.op = "block" THEN "wait" ELSE "start")
  BY LockDoes DEF CoreInv, TopOnly
<1>3. /\ stack \in Seq(Frames) /\ wq \in Seq(Requests \cup Calls) /\ Top \in Frames
      /\ g.id \in Nat
  <2>1. stack \in Seq(Frames) /\ wq \in Seq(Requests \cup Calls)
    BY DEF CoreInv, TypeInv, TypeOK
  <2>2. Top \in Frames
    BY <1>1, <2>1, HeadTail DEF Top
  <2>3. Top.id \in Nat
    BY <2>2 DEF Frames
  <2> QED
    BY <1>2, <2>1, <2>2, <2>3
<1>4. g.op # "init"
  BY <1>2 DEF CoreInv, Shape, FrameOK, TopOnly
<1>5. r \in Requests /\ Carries(r) /\ ~IsCall(r) /\ r.id = g.id
  BY <1>2, <1>3, <1>4, RequestTyped DEF Carries, IsCall
<1> HIDE DEF r
<1>6. /\ \A i : HasIn(wq', job, i) <=> i = g.id
      /\ \A k \in DOMAIN wq' : IsCall(wq'[k]) => \E l \in DOMAIN wq : wq'[k] = wq[l]
      /\ OwnFirst(wq', cut)
  <2>1. \A i : ~HasIn(wq, job, i)
    BY <1>1, NothingHas
  <2>2. r \in Requests \cup Calls /\ OwnFirst(wq, cut)
    BY <1>5 DEF OutBody, OutQueue
  <2>3. /\ \A j, i : HasIn(Append(wq, r), j, i) <=>
                        HasIn(wq, j, i) \/ (Carries(r) /\ r.id = i)
        /\ \A k \in DOMAIN Append(wq, r) : IsCall(Append(wq, r)[k]) =>
              \E l \in DOMAIN wq : Append(wq, r)[k] = wq[l]
        /\ OwnFirst(Append(wq, r), cut)
    BY <1>3, <1>5, <2>2, AppendQueue
  <2> QED
    BY <1>1, <1>5, <2>1, <2>3
<1>7. OutFrame(g, wq, job, asks) /\ 1 \in DOMAIN stack
  BY <1>2 DEF OutBody, TopOnly
<1>8. OutFrame(h, wq', job, asks)
  <2>1. g.exit = FALSE /\ h.id = g.id /\ h.op = g.op /\ h.from = g.from
    BY <1>2, <1>7 DEF OutFrame, Kept1
  <2>2. \A k \in DOMAIN wq : IsCall(wq[k]) => wq[k].to # g.id
    BY <1>2, <1>7 DEF OutFrame
  <2>3. HasIn(wq', job, h.id) => h.op \in {"block", "init"} \/ Awaits(h)
    BY <1>2, <1>4, <2>1 DEF Awaits
  <2>4. \A i \in Nat : HasIn(wq', job, i) /\ h.id > i => FALSE
    BY <1>3, <1>6, <2>1
  <2>5. \A k \in DOMAIN wq' : IsCall(wq'[k]) => wq'[k].to # h.id
    BY <1>6, <2>1, <2>2
  <2>6. h.at # "lock" /\ (h.op # "block" => h.at # "wait") /\ h.exit = FALSE
    BY <1>2, <2>1
  <2>7. h.id = asks => h.from \in {0, h.id}
    BY <1>7, <2>1 DEF OutFrame
  <2> QED
    BY <2>3, <2>4, <2>5, <2>6, <2>7 DEF OutFrame
<1>9. ASSUME NEW k \in DOMAIN stack, k # 1 PROVE OutFrame(stack[k], wq', job, asks)
  <2> DEFINE f == stack[k]
  <2>1. f.id < g.id /\ f.id \in Nat /\ g.id <= asks
    <3>1. 1 < k
      BY <1>3, <1>9
    <3>2. g.id > f.id /\ f.id \in 1 .. asks /\ g.id \in 1 .. asks
      BY <1>7, <3>1 DEF CoreInv, Shape, FrameOK
    <3> QED
      BY <3>2
  <2>2. ~HasIn(wq', job, f.id)
    BY <1>6, <2>1
  <2>3. OutFrame(f, wq, job, asks)
    BY DEF OutBody
  <2>4. \A i \in Nat : HasIn(wq', job, i) => ~(f.id > i)
    BY <1>3, <1>6, <2>1
  <2>5. f.id # asks
    <3>1. asks \in Nat
      BY DEF CoreInv, TypeInv, TypeOK
    <3> QED
      BY <1>3, <2>1, <3>1
  <2> HIDE DEF f
  <2> QED
    BY <1>6, <2>2, <2>3, <2>4, <2>5 DEF OutFrame, f
<1>10. Awaits(g) => Awaits(h)
  BY <1>2 DEF Awaits
<1> HIDE DEF g, h
<1>11. /\ \A k \in DOMAIN stack' : OutFrame(stack'[k], wq', job, asks)
       /\ OutQueue(stack', wq', asks, cut)
  BY <1>2, <1>6, <1>8, <1>9, <1>10, OutTop DEF g, h
<1> QED
  BY <1>1, <1>11 DEF OutBody


LEMMA OutExec ==
  ASSUME CoreInv, OutBody, Exec, cut' = cut
  PROVE  OutBody'
<1> DEFINE g == stack[1]
           h == stack'[1]
<1>1. /\ job' = job /\ asks' = asks /\ stack # <<>>
      /\ wq' = IF Top.op = "init" THEN Append(wq, Request(Top)) ELSE wq
  BY DEF Exec, Waiting
<1>2. /\ TopOnly /\ g.at = "start" /\ h.at = "loop" /\ h.exit = FALSE /\ Top = g
      /\ Kept1(g, h)
  BY ExecDoes DEF CoreInv, TopOnly
<1>3. /\ stack \in Seq(Frames) /\ wq \in Seq(Requests \cup Calls) /\ Top \in Frames
  BY <1>1, HeadTail DEF CoreInv, TypeInv, TypeOK, Top
<1>4. /\ \A i : HasIn(wq', job, i) => HasIn(wq, job, i)
      /\ \A k \in DOMAIN wq' : IsCall(wq'[k]) => \E l \in DOMAIN wq : wq'[k] = wq[l]
      /\ OwnFirst(wq', cut)
  <2>1. OwnFirst(wq, cut)
    BY DEF OutBody, OutQueue
  <2>2. CASE Top.op = "init"
    <3> DEFINE r == Request(Top)
    <3>1. r \in Requests /\ ~Carries(r) /\ ~IsCall(r)
      BY <1>3, <2>2, RequestTyped DEF Carries, IsCall
    <3>2. r \in Requests \cup Calls /\ wq' = Append(wq, r)
      BY <1>1, <2>2, <3>1
    <3> HIDE DEF r
    <3>3. /\ \A j, i : HasIn(Append(wq, r), j, i) <=>
                          HasIn(wq, j, i) \/ (Carries(r) /\ r.id = i)
          /\ \A k \in DOMAIN Append(wq, r) : IsCall(Append(wq, r)[k]) =>
                \E l \in DOMAIN wq : Append(wq, r)[k] = wq[l]
          /\ OwnFirst(wq, cut) => OwnFirst(Append(wq, r), cut)
      BY <1>3, <3>1, <3>2, AppendQueue
    <3> QED
      BY <2>1, <3>1, <3>2, <3>3
  <2>3. CASE Top.op # "init"
    BY <1>1, <2>1, <2>3
  <2> QED
    BY <2>2, <2>3
<1>5. \A k \in DOMAIN stack : OutFrame(stack[k], wq', job, asks)
  BY <1>4, OutLess DEF OutBody
<1>6. OutFrame(h, wq', job, asks)
  <2>1. OutFrame(g, wq', job, asks)
    BY <1>2, <1>5 DEF TopOnly
  <2> QED
    BY <1>2, <2>1 DEF OutFrame, Kept1, Awaits
<1>7. Awaits(g) => Awaits(h)
  BY <1>2 DEF Awaits, Kept1
<1> HIDE DEF g, h
<1>8. /\ \A k \in DOMAIN stack' : OutFrame(stack'[k], wq', job, asks)
      /\ OutQueue(stack', wq', asks, cut)
  BY <1>2, <1>4, <1>5, <1>6, <1>7, OutTop DEF g, h
<1> QED
  BY <1>1, <1>8 DEF OutBody

LEMMA OutLeave ==
  ASSUME CoreInv, OutBody, LeaveLoop, cut' = cut
  PROVE  OutBody'
<1>1. /\ stack # <<>> /\ Top = stack[1] /\ Top.at = "loop" /\ Top.exit = TRUE
      /\ UNCHANGED <<wq, job, asks>>
      /\ IF Top.op = "init" THEN stack' = Tail(stack)
         ELSE TopOnly /\ stack'[1].at = "wait" /\ stack'[1].exit = stack[1].exit
  <2>1. Top \in Frames /\ stack # <<>>
    BY LeaveDoes, HeadTail DEF CoreInv, TypeInv, TypeOK, Top
  <2>2. Top.exit \in BOOLEAN
    BY <2>1 DEF Frames
  <2>3. Top.exit
    BY LeaveDoes DEF CoreInv
  <2> QED
    BY <2>2, <2>3, LeaveDoes DEF LeaveLoop, CoreInv
<1>2. ~Awaits(stack[1])
  BY <1>1 DEF Awaits
<1>3. CASE Top.op = "init"
  BY <1>1, <1>2, <1>3, OutPop
<1>4. CASE Top.op # "init"
  <2> DEFINE g == stack[1]
             h == stack'[1]
  <2>1. TopOnly /\ h.at = "wait" /\ h.exit = TRUE /\ g.exit = TRUE /\ g.at = "loop"
        /\ g.op # "init" /\ Kept1(g, h)
    BY <1>1, <1>4 DEF TopOnly
  <2>2. \A k \in DOMAIN stack : OutFrame(stack[k], wq, job, asks)
    BY DEF OutBody
  <2>3. OutFrame(g, wq, job, asks)
    BY <2>1, <2>2 DEF TopOnly
  <2>4. g.op # "block"
    BY <2>1 DEF CoreInv, Shape, FrameOK, TopOnly
  <2>5. OutFrame(h, wq, job, asks)
    BY <1>2, <2>1, <2>3, <2>4 DEF OutFrame, Kept1
  <2>6. OwnFirst(wq, cut)
    BY DEF OutBody, OutQueue
  <2> HIDE DEF g, h
  <2>7. /\ \A k \in DOMAIN stack' : OutFrame(stack'[k], wq, job, asks)
        /\ OutQueue(stack', wq, asks, cut)
    BY <1>2, <2>1, <2>2, <2>5, <2>6, OutTop DEF g, h
  <2> QED
    BY <1>1, <2>7 DEF OutBody
<1> QED
  BY <1>3, <1>4

LEMMA OutInitDone ==
  ASSUME CoreInv, OutBody, OnInitDone, cut' = cut
  PROVE  OutBody'
<1>1. UNCHANGED <<wq, job, asks>>
  BY DEF OnInitDone
<1>2. /\ DOMAIN stack' = DOMAIN stack
      /\ \A k \in DOMAIN stack :
           /\ Kept1(stack[k], stack'[k]) /\ stack'[k].at = stack[k].at
           /\ stack[k].op # "init" => stack'[k] = stack[k]
  BY InitDoneDoes DEF CoreInv
<1>3. ASSUME NEW k \in DOMAIN stack PROVE OutFrame(stack'[k], wq, job, asks)
  <2>1. OutFrame(stack[k], wq, job, asks)
    BY DEF OutBody
  <2>2. CASE stack[k].op = "init"
    <3>1. stack[k].at # "lock"
      BY <2>2 DEF CoreInv, Shape, FrameOK
    <3> QED
      BY <1>2, <2>1, <2>2, <3>1 DEF OutFrame, Kept1
  <2>3. CASE stack[k].op # "init"
    BY <1>2, <2>1, <2>3
  <2> QED
    BY <2>2, <2>3
<1>4. ASSUME NEW k \in DOMAIN wq, Own(wq[k], cut) PROVE Awaited(stack', wq[k])
  <2>1. PICK l \in DOMAIN stack : stack[l].id = wq[k].to /\ Awaits(stack[l])
    BY <1>4 DEF OutBody, OutQueue, Awaited
  <2> QED
    BY <1>2, <2>1 DEF Awaited, Awaits
<1> QED
  BY <1>1, <1>2, <1>3, <1>4 DEF OutBody, OutQueue

LEMMA OutTake ==
  ASSUME CoreInv, OutBody, TakeJob, cut' = cut
  PROVE  OutBody'
<1>1. /\ wq # <<>> /\ wq' = Tail(wq) /\ UNCHANGED <<stack, asks>> /\ job = NoJob
      /\ Head(wq).what = "impl" /\ job'.op = Head(wq).op /\ job'.id = Head(wq).id
      /\ wq \in Seq(Requests \cup Calls)
  BY DEF TakeJob, Idle, CoreInv, TypeInv, TypeOK
<1>2. /\ \A k \in DOMAIN wq' : \E l \in DOMAIN wq : wq'[k] = wq[l]
      /\ OwnFirst(wq', cut) /\ Head(wq) = wq[1] /\ 1 \in DOMAIN wq
  BY <1>1, TailQueue DEF OutBody, OutQueue
<1>3. \A i : HasIn(wq', job', i) => HasIn(wq, job, i)
  BY <1>1, <1>2 DEF HasIn, Carries
<1>4. \A k \in DOMAIN stack : OutFrame(stack[k], wq', job', asks)
  BY <1>2, <1>3, OutLess DEF OutBody
<1>5. OutQueue(stack, wq', asks, cut)
  BY <1>2 DEF OutBody, OutQueue
<1> QED
  BY <1>1, <1>4, <1>5 DEF OutBody

LEMMA OutInitImpl ==
  ASSUME CoreInv, OutBody, InitImpl, cut' = cut
  PROVE  OutBody'
<1>1. UNCHANGED <<stack, wq, asks>> /\ job' = NoJob
  BY DEF InitImpl
<1>2. \A i : HasIn(wq', job', i) => HasIn(wq, job, i)
  BY <1>1 DEF HasIn, NoJob
<1>3. \A k \in DOMAIN stack : OutFrame(stack[k], wq', job', asks)
  BY <1>1, <1>2, OutLess DEF OutBody
<1> QED
  BY <1>1, <1>3 DEF OutBody

\* A lambda runs: the frame it ends has lost the token already.
LEMMA OutDeliver ==
  ASSUME CoreInv, OutBody, Deliver, cut' = cut
  PROVE  OutBody'
<1> DEFINE c == Head(wq)
<1>1. /\ wq # <<>> /\ wq' = Tail(wq) /\ UNCHANGED <<job, asks>> /\ IsCall(c)
      /\ wq \in Seq(Requests \cup Calls)
  BY DEF Deliver, Idle, IsCall, CoreInv, TypeInv, TypeOK
<1>2. /\ \A k \in DOMAIN wq' : \E l \in DOMAIN wq : l > 1 /\ wq'[k] = wq[l]
      /\ OwnFirst(wq', cut) /\ c = wq[1] /\ 1 \in DOMAIN wq
  BY <1>1, TailQueue DEF OutBody, OutQueue
<1>3. \A i : HasIn(wq', job, i) => HasIn(wq, job, i)
  BY <1>2 DEF HasIn
<1>4. /\ DOMAIN stack' = DOMAIN stack
      /\ \A k \in DOMAIN stack :
           /\ stack'[k].id = stack[k].id /\ stack'[k].op = stack[k].op
           /\ stack'[k].at = stack[k].at
           /\ stack[k].id # c.to => stack'[k] = stack[k]
           /\ stack[k].id = c.to =>
                /\ stack'[k].exit = TRUE
                /\ stack'[k].from = (IF stack[k].at = "wait" THEN stack[k].from ELSE c.from)
  BY DeliverDoes DEF CoreInv
<1> HIDE DEF c
<1>5. \A k \in DOMAIN stack : OutFrame(stack[k], wq', job, asks)
  BY <1>2, <1>3, OutLess DEF OutBody
<1>6. ASSUME NEW k \in DOMAIN stack PROVE OutFrame(stack'[k], wq', job, asks)
  <2>1. CASE stack[k].id # c.to
    BY <1>4, <1>5, <2>1
  <2>2. CASE stack[k].id = c.to
    <3> DEFINE f == stack[k]
               h == stack'[k]
    <3>1. OutFrame(f, wq, job, asks) /\ OutFrame(f, wq', job, asks)
      BY <1>5 DEF OutBody
    <3>2. /\ h.id = f.id /\ h.op = f.op /\ h.at = f.at /\ h.exit = TRUE
          /\ h.from = (IF f.at = "wait" THEN f.from ELSE c.from) /\ f.id = c.to
      BY <1>4, <2>2
    <3> HIDE DEF f, h
    <3>3. f.at # "lock" /\ ~HasIn(wq', job, f.id)
      BY <1>1, <1>2, <1>3, <3>1, <3>2 DEF OutFrame
    <3>4. f.id = asks => c.from = f.id
      BY <1>1, <1>2, <3>1, <3>2 DEF OutFrame
    <3> QED
      BY <3>1, <3>2, <3>3, <3>4 DEF OutFrame, h
  <2> QED
    BY <2>1, <2>2
<1>7. ASSUME NEW k \in DOMAIN wq', Own(wq'[k], cut) PROVE Awaited(stack', wq'[k])
  <2>1. PICK l \in DOMAIN wq : l > 1 /\ wq'[k] = wq[l]
    BY <1>2
  <2>2. wq[l].to # c.to
    BY <1>1, <1>2, <1>7, <2>1 DEF OutBody, OutQueue, OwnFirst
  <2>3. PICK m \in DOMAIN stack : stack[m].id = wq[l].to /\ Awaits(stack[m])
    BY <1>7, <2>1 DEF OutBody, OutQueue, Awaited
  <2> QED
    BY <1>4, <2>1, <2>2, <2>3 DEF Awaited
<1>8. \A k \in DOMAIN wq' : IsCall(wq'[k]) =>
         wq'[k].to \in 1 .. asks /\ wq'[k].from \in 1 .. asks
  BY <1>2 DEF OutBody, OutQueue
<1> QED
  BY <1>1, <1>2, <1>4, <1>6, <1>7, <1>8 DEF OutBody, OutQueue

\* An Impl ends: the calls it posts are the first for its own frame.
LEMMA OutEnds ==
  ASSUME CoreInv, CoreInv', OutBody, NEW cs, NEW got, Ends(cs, got), cut' = cut
  PROVE  OutBody'
<1>1. /\ cs \in Seq(Calls) /\ wq' = wq \o cs /\ job' = NoJob /\ UNCHANGED <<stack, asks>>
      /\ Working /\ wq \in Seq(Requests \cup Calls) /\ sem' = sem + 1
  BY DEF Ends, Working, Waits, CoreInv, TypeInv, TypeOK
<1>2. PICK status : Posted(cs, job.op, job.id, status, got)
  BY DEF Ends
<1> DEFINE i == job.id
<1>3. HasIn(wq, job, i)
  BY <1>1 DEF HasIn, Working
<1>4. SameIds
  BY UniqueIds
<1>5. /\ \A k \in DOMAIN cs :
           /\ IsCall(cs[k]) /\ cs[k].from = i
           /\ \E l \in DOMAIN stack :
                /\ stack[l].id = cs[k].to /\ stack[l].at \in Connecting
                /\ stack[l].op \notin {"block", "init"}
      /\ \A k, l \in DOMAIN cs : cs[k].to = cs[l].to => k = l
  <2>1. \A k \in DOMAIN cs : cs[k] \in Calls
    BY <1>1
  <2>2. \A k \in DOMAIN cs : IsCall(cs[k])
    BY <2>1 DEF Calls, IsCall
  <2> QED
    BY <1>2, <1>4, <2>2 DEF Posted
<1>6. i \in 1 .. asks /\ asks \in Nat
  BY <1>3, HasOwned DEF CoreInv, TypeInv, TypeOK
<1>7. PICK o \in DOMAIN stack : stack[o].id = i
  BY <1>3, HasOwned
<1> HIDE DEF i
<1>8. \A k \in DOMAIN wq : IsCall(wq[k]) => wq[k].to # i
  <2>1. OutFrame(stack[o], wq, job, asks)
    BY DEF OutBody
  <2> QED
    BY <1>3, <1>7, <2>1 DEF OutFrame
<1>9. /\ \A k \in DOMAIN wq' : \/ \E l \in DOMAIN wq : wq'[k] = wq[l]
                              \/ \E l \in DOMAIN cs : wq'[k] = cs[l]
      /\ OwnFirst(wq', cut)
  <2>1. OwnFirst(wq, cut) /\ cs \in Seq(Requests \cup Calls)
    BY <1>1 DEF OutBody, OutQueue
  <2>2. \A k \in DOMAIN wq, l \in DOMAIN cs :
           IsCall(wq[k]) /\ Own(cs[l], cut) => wq[k].to # cs[l].to
    BY <1>5, <1>8 DEF Own
  <2>3. wq \in Seq(Requests \cup Calls)
        /\ \A k, l \in DOMAIN cs : cs[k].to = cs[l].to => k = l
    BY <1>1, <1>5
  <2>4. /\ \A k \in DOMAIN (wq \o cs) : \/ \E l \in DOMAIN wq : (wq \o cs)[k] = wq[l]
                                        \/ \E l \in DOMAIN cs : (wq \o cs)[k] = cs[l]
        /\ OwnFirst(wq \o cs, cut)
    BY <2>1, <2>2, <2>3, JoinQueue
  <2> QED
    BY <1>1, <2>4
<1>10. \A m : ~HasIn(wq', NoJob, m)
  <2>1. sem' = 1
    BY <1>1 DEF CoreInv, OneToken
  <2>2. ~Working' /\ NoneCarries(wq')
    BY <2>1 DEF CoreInv, OneToken, NoneCarries
  <2> QED
    BY <2>2 DEF HasIn, NoneCarries, NoJob
<1>11. ASSUME NEW k \in DOMAIN stack PROVE OutFrame(stack[k], wq', NoJob, asks)
  <2> DEFINE f == stack[k]
  <2>1. OutFrame(f, wq, job, asks)
    BY DEF OutBody
  <2>2. ASSUME NEW l \in DOMAIN cs, cs[l].to = f.id
        PROVE  /\ f.at \in Connecting /\ f.op \notin {"block", "init"}
               /\ f.id = asks => cs[l].from = f.id
    <3>1. f.at \in Connecting /\ f.op \notin {"block", "init"}
      BY <1>4, <1>5, <2>2 DEF SameIds
    <3>2. ~(f.id > i)
      <4>1. f.at # "lock"
        BY <3>1 DEF Connecting
      <4>2. i \in Nat
        BY <1>6
      <4> QED
        BY <1>3, <2>1, <3>1, <4>1, <4>2 DEF OutFrame
    <3>3. f.id = asks => f.id = i
      BY <1>6, <3>2
    <3> QED
      BY <1>5, <3>1, <3>3
  <2>3. ASSUME NEW l \in DOMAIN wq', IsCall(wq'[l]), wq'[l].to = f.id
        PROVE  f.at # "lock" /\ (f.id = asks => wq'[l].from = f.id)
    <3>1. CASE \E m \in DOMAIN wq : wq'[l] = wq[m]
      BY <2>1, <2>3, <3>1 DEF OutFrame
    <3>2. CASE \E m \in DOMAIN cs : wq'[l] = cs[m]
      BY <2>2, <2>3, <3>2 DEF Connecting
    <3> QED
      BY <1>9, <3>1, <3>2
  <2> HIDE DEF f
  <2> QED
    BY <1>10, <2>1, <2>3 DEF OutFrame, f
<1>12. ASSUME NEW k \in DOMAIN wq', Own(wq'[k], cut) PROVE Awaited(stack, wq'[k])
  <2>1. CASE \E l \in DOMAIN wq : wq'[k] = wq[l]
    BY <1>12, <2>1 DEF OutBody, OutQueue
  <2>2. CASE \E l \in DOMAIN cs : wq'[k] = cs[l]
    <3>1. PICK l \in DOMAIN cs : wq'[k] = cs[l]
      BY <2>2
    <3>2. PICK m \in DOMAIN stack : /\ stack[m].id = cs[l].to
                                   /\ stack[m].op \notin {"block", "init"}
      BY <1>5
    <3>3. stack[m].id = i
      BY <1>5, <1>12, <3>1, <3>2 DEF Own
    <3>4. Awaits(stack[m])
      BY <1>3, <3>2, <3>3 DEF OutBody, OutFrame
    <3> QED
      BY <3>1, <3>2, <3>4 DEF Awaited
  <2> QED
    BY <1>9, <2>1, <2>2
<1>13. ASSUME NEW k \in DOMAIN wq', IsCall(wq'[k])
       PROVE  wq'[k].to \in 1 .. asks /\ wq'[k].from \in 1 .. asks
  <2>1. \A l \in DOMAIN stack : stack[l].id \in 1 .. asks
    BY DEF CoreInv, Shape, FrameOK
  <2>2. CASE \E l \in DOMAIN wq : wq'[k] = wq[l]
    BY <1>13, <2>2 DEF OutBody, OutQueue
  <2>3. CASE \E l \in DOMAIN cs : wq'[k] = cs[l]
    <3>1. PICK l \in DOMAIN cs : wq'[k] = cs[l]
      BY <2>3
    <3>2. cs[l].from = i /\ \E m \in DOMAIN stack : stack[m].id = cs[l].to
      BY <1>5
    <3> QED
      BY <1>6, <2>1, <3>1, <3>2
  <2> QED
    BY <1>9, <2>2, <2>3
<1> QED
  BY <1>1, <1>9, <1>11, <1>12, <1>13 DEF OutBody, OutQueue

\* Every call names requests that were made.
CallsKnown == \A k \in DOMAIN wq : IsCall(wq[k]) =>
                wq[k].to \in 1 .. asks /\ wq[k].from \in 1 .. asks

\* While the loops quit() ended are left, nothing else is promised.
OutInv == CallsKnown /\ (quit # "unwind" => OutBody)

LEMMA KnownStep ==
  ASSUME CoreInv, CallsKnown, Kinds
  PROVE  CallsKnown'
<1>1. /\ stack \in Seq(Frames) /\ wq \in Seq(Requests \cup Calls) /\ asks \in Nat
      /\ stack # <<>> => ~IsCall(Request(Top)) /\ Request(Top) \in Requests
  BY HeadTail, RequestTyped DEF CoreInv, TypeInv, TypeOK, Top, IsCall
<1>2. ASSUME asks' \in {asks, asks + 1},
             \A k \in DOMAIN wq' : IsCall(wq'[k]) => \E l \in DOMAIN wq : wq'[k] = wq[l]
      PROVE  CallsKnown'
  <2>1. \A i \in 1 .. asks : i \in 1 .. asks'
    BY <1>1, <1>2
  <2> QED
    BY <1>2, <2>1 DEF CallsKnown
<1>3. CASE \/ Away \/ (\E f : Pushes(f)) \/ (\E f : Swaps(f)) \/ Pops \/ LeaveLoop
           \/ OnInitDone \/ Refused \/ Quit \/ InitImpl
  <2>1. wq' = wq /\ asks' \in {asks, asks + 1}
    BY <1>3 DEF Away, Pushes, Swaps, Pops, LeaveLoop, OnInitDone, Refused, Quit, InitImpl
  <2> QED
    BY <1>2, <2>1
<1>4. CASE Lock \/ Exec
  <2>1. /\ stack # <<>> /\ asks' = asks
        /\ wq' = Append(wq, Request(Top)) \/ wq' = wq
    BY <1>4 DEF Lock, Exec, Waiting
  <2>2. CASE wq' = Append(wq, Request(Top))
    <3> DEFINE e == Request(Top)
    <3>1. e \in Requests \cup Calls /\ ~IsCall(e)
      BY <1>1, <2>1
    <3> HIDE DEF e
    <3>2. \A k \in DOMAIN Append(wq, e) : IsCall(Append(wq, e)[k]) =>
             \E l \in DOMAIN wq : Append(wq, e)[k] = wq[l]
      BY <1>1, <3>1, AppendQueue
    <3> QED
      BY <1>2, <2>1, <2>2, <3>2 DEF e
  <2>3. CASE wq' = wq
    BY <1>2, <2>1, <2>3
  <2> QED
    BY <2>1, <2>2, <2>3
<1>5. CASE TakeJob \/ Deliver
  <2>1. wq # <<>> /\ wq' = Tail(wq) /\ asks' = asks
    BY <1>5 DEF TakeJob, Deliver, Idle
  <2>2. \A k \in DOMAIN wq' : \E l \in DOMAIN wq : wq'[k] = wq[l]
    BY <1>1, <2>1, TailQueue
  <2> QED
    BY <1>2, <2>1, <2>2
<1>6. CASE \E cs, got : Ends(cs, got)
  <2>1. PICK cs, got : Ends(cs, got)
    BY <1>6
  <2>2. /\ cs \in Seq(Calls) /\ wq' = wq \o cs /\ asks' = asks /\ Working
    BY <2>1 DEF Ends, Working, Waits
  <2>3. PICK status : Posted(cs, job.op, job.id, status, got)
    BY <2>1 DEF Ends
  <2>4. \A l \in DOMAIN stack : stack[l].id \in 1 .. asks
    BY DEF CoreInv, Shape, FrameOK
  <2>5. job.id \in 1 .. asks
    <3>1. HasIn(wq, job, job.id)
      BY <2>2 DEF HasIn, Working
    <3> QED
      BY <3>1, HasOwned
  <2>6. \A l \in DOMAIN cs : cs[l].to \in 1 .. asks /\ cs[l].from \in 1 .. asks
    BY <2>3, <2>4, <2>5 DEF Posted
  <2>7. \A k \in DOMAIN wq' : \/ \E l \in DOMAIN wq : wq'[k] = wq[l]
                              \/ \E l \in DOMAIN cs : wq'[k] = cs[l]
    <3>1. /\ DOMAIN wq' = 1 .. Len(wq) + Len(cs) /\ Len(wq) \in Nat /\ Len(cs) \in Nat
          /\ DOMAIN wq = 1 .. Len(wq) /\ DOMAIN cs = 1 .. Len(cs)
          /\ \A i \in 1 .. Len(wq) : wq'[i] = wq[i]
          /\ \A i \in 1 .. Len(cs) : wq'[Len(wq) + i] = cs[i]
      <4>1. cs \in Seq(Requests \cup Calls)
        BY <2>2
      <4> QED
        BY <1>1, <2>2, <4>1, Joined
    <3>2. \A k \in DOMAIN wq' : k \in 1 .. Len(wq)
             \/ (k - Len(wq) \in 1 .. Len(cs) /\ Len(wq) + (k - Len(wq)) = k)
      BY <3>1
    <3> QED
      BY <3>1, <3>2
  <2> QED
    BY <2>2, <2>6, <2>7 DEF CallsKnown
<1> QED
  BY <1>3, <1>4, <1>5, <1>6 DEF Kinds

\* Who touches quit() and its last shutdown.
LEMMA QuitStays ==
  ASSUME [Next]_vars, ~LastShutdown
  PROVE  cut' = cut /\ (Quit \/ quit' = quit)
<1>1. CASE UNCHANGED vars
  BY <1>1 DEF vars
<1>2. CASE Gui
  BY <1>2 DEF Gui, Lock, Exec, Refused, LeaveLoop, ReturnBlock, ReturnPreload,
     ReturnPool, PutDown, OnInitDone, OnTop, OnPoolUpdated, OnSynchronized, gui
<1>3. CASE Worker
  BY <1>3 DEF Worker, TakeJob, FailPreload, LoadBlocks, FindByTime, GetPoolState,
     InitImpl, Deliver, gui
<1>4. CASE User
  BY <1>4 DEF User, ExplorerInit, ExplorerDeinit, InitCompleted,
     InitCompletedWithout, Paint, Preload, Quit, Rest
<1>5. CASE Node
  BY <1>5 DEF Node, NewTop, PoolChanges, Synchronized, NodeRest
<1> QED
  BY <1>1, <1>2, <1>3, <1>4, <1>5 DEF Next

LEMMA OutStep ==
  ASSUME CoreInv, CoreInv', OutInv, [Next]_vars
  PROVE  OutInv'
<1>1. Kinds
  BY StepKinds DEF CoreInv
<1>2. CallsKnown'
  BY <1>1, KnownStep DEF OutInv
<1>3. CASE quit' = "unwind"
  BY <1>2, <1>3 DEF OutInv
<1>4. CASE LastShutdown
  <2>1. stack = <<>> /\ stack' = stack /\ cut' = asks /\ UNCHANGED <<wq, job, asks>>
        /\ asks \in Nat
    BY <1>4 DEF LastShutdown, CoreInv, TypeInv, TypeOK
  <2>2. \A k \in DOMAIN wq : ~Own(wq[k], asks)
    <3>1. \A i \in 1 .. asks : ~(i > asks)
      BY <2>1
    <3> QED
      BY <3>1 DEF OutInv, CallsKnown, Own
  <2>3. OwnFirst(wq, asks)
    BY <2>2 DEF OwnFirst
  <2>4. OutQueue(stack, wq, asks, asks)
    BY <2>2, <2>3 DEF OutQueue, OutInv, CallsKnown
  <2>5. OutBody'
    BY <2>1, <2>4 DEF OutBody
  <2> QED
    BY <1>2, <2>5 DEF OutInv
<1>5. CASE ~LastShutdown /\ quit' # "unwind"
  <2>1. cut' = cut /\ quit # "unwind" /\ ~Quit /\ ~Refused
    BY <1>5, QuitStays DEF Quit, Refused
  <2>2. OutBody
    BY <2>1 DEF OutInv
  <2>3. ASSUME Away PROVE OutBody'
    BY <2>1, <2>2, <2>3 DEF Away, OutBody
  <2>4. ASSUME Pops PROVE OutBody'
    <3>1. /\ stack # <<>> /\ Top = stack[1] /\ Top.at = "wait" /\ stack' = Tail(stack)
          /\ UNCHANGED <<wq, job, asks>>
      BY <2>4, HeadTail DEF Pops, TokenBack, Waiting, CoreInv, TypeInv, TypeOK, Top
    <3> QED
      BY <2>1, <2>2, <3>1, OutPop DEF Awaits
  <2>5. OutBody'
    BY <1>1, <2>1, <2>2, <2>3, <2>4, OutPush, OutSwap, OutLock, OutExec, OutLeave,
       OutInitDone, OutTake, OutEnds, OutInitImpl, OutDeliver DEF Kinds
  <2> QED
    BY <1>2, <2>5 DEF OutInv
<1> QED
  BY <1>3, <1>4, <1>5

LEMMA OutAlways == Spec => []OutInv
<1>1. Init => OutInv
  BY DEF Init, OutInv, CallsKnown, OutBody, OutQueue, OwnFirst
<1>2. CoreInv /\ CoreInv' /\ OutInv /\ [Next]_vars => OutInv'
  BY OutStep
<1> QED
  BY <1>1, <1>2, CoreAlways, PTL DEF Spec

\* Except while the loops that quit() ended are left, a preload or a pool query
\* reports the outcome of its own request unless another was made inside its
\* loop, and the lambda that reports it runs while the variables it captured by
\* reference are there; only a call for a request whose loop quit() ended may
\* come after it.
THEOREM OutcomesAreReturned == Spec => []OutcomesReturn
<1>1. CoreInv /\ OutInv => OutcomesReturn
  <2> SUFFICES ASSUME CoreInv, OutInv, quit # "unwind" PROVE OwnOutcome /\ NoLateCall
    BY DEF OutcomesReturn
  <2>1. OutBody
    BY DEF OutInv
  <2>2. OwnOutcome
    <3> SUFFICES ASSUME NEW k \in DOMAIN stack, stack[k].at = "wait",
                        stack[k].op # "block", stack[k].id = asks
                 PROVE  stack[k].from = stack[k].id
      BY DEF OwnOutcome
    <3>1. OutFrame(stack[k], wq, job, asks) /\ stack[k].op # "init"
      BY <2>1 DEF OutBody, CoreInv, Shape, FrameOK
    <3> QED
      BY <3>1 DEF OutFrame
  <2>3. NoLateCall
    BY <2>1 DEF NoLateCall, Live, OutBody, OutQueue, Awaited, Own, IsCall
  <2> QED
    BY <2>2, <2>3
<1> QED
  BY <1>1, CoreAlways, OutAlways, PTL
=============================================================================
