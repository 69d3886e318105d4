----------------------- MODULE DeskForms_proofs ------------------------
(***************************************************************************)
(* The filter of the history, the send form and the pages of the explorer, *)
(* for every value of the constants.                                       *)
(***************************************************************************)
EXTENDS Desk, TLAPS

-----------------------------------------------------------------------------
(* The filter of the history.                                              *)

\* NothingHidden and PeriodExact are not inductive.  A row the age filter let
\* through and would not let through any more, because the clock went on, is
\* hidden or shown by the period filter; if another age lets it through again,
\* the period filter is not asked a second time.
Known == {r \in DOMAIN time : time[r] # Unknown}
AgedHasAll == \A r \in Known : Filter!InAge(age, r) => r \in aged
DatedIsExact == \A r \in aged \cap Known : r \in dated <=> Filter!InPeriod(period, r)

Filtered == /\ dated \subseteq aged /\ aged \subseteq DOMAIN time
            /\ AgedHasAll /\ DatedIsExact

FilterInv == Filter!TypeOK /\ now # 0 /\ Filter!FormInForce /\ Filtered

\* The invariant says what the property asks for.
LEMMA FilterSuffices == FilterInv => Filter!FilterInForce
BY DEF FilterInv, Filtered, Filter!FilterInForce, Filter!NothingHidden, Filter!PeriodExact,
       AgedHasAll, DatedIsExact, Known

\* While neither the clock nor the times change, rows pass as they did.
LEMMA SameRows ==
    ASSUME UNCHANGED <<now, time>>
    PROVE  /\ \A a, r : Filter!InAge(a, r)' <=> Filter!InAge(a, r)
           /\ \A p, r : Filter!InPeriod(p, r)' <=> Filter!InPeriod(p, r)
           /\ Known' = Known
BY DEF Filter!InAge, Filter!InPeriod, Filter!When, Known

\* Both proxies follow a new pair of filters.
LEMMA FiltersSet ==
    ASSUME Filtered, NEW a, NEW p, Filter!SetFilters(a, p), UNCHANGED <<now, time>>
    PROVE  Filtered'
<1>1. dated \subseteq aged /\ aged \subseteq DOMAIN time /\ AgedHasAll /\ DatedIsExact
  BY DEF Filtered
<1>2. age' = a /\ period' = p
  BY DEF Filter!SetFilters
<1>3. aged' = IF a = age THEN aged ELSE {r \in DOMAIN time : Filter!InAge(a, r)}
  BY DEF Filter!SetFilters
<1>4. \A r : r \in dated' <=>
        /\ r \in aged'
        /\ IF p = period /\ r \in aged THEN r \in dated ELSE Filter!InPeriod(p, r)
  BY DEF Filter!SetFilters
<1>5. dated' \subseteq aged' /\ aged' \subseteq DOMAIN time'
  BY <1>1, <1>3, <1>4
<1>6. AgedHasAll'
  <2>1. \A r \in Known : Filter!InAge(a, r) => r \in aged'
    BY <1>1, <1>3 DEF AgedHasAll, Known
  <2> QED
    BY <1>2, <2>1, SameRows DEF AgedHasAll
<1>7. DatedIsExact'
  <2>1. \A r \in aged' \cap Known : r \in dated' <=> Filter!InPeriod(p, r)
    BY <1>1, <1>4 DEF DatedIsExact
  <2> QED
    BY <1>2, <2>1, SameRows DEF DatedIsExact
<1> QED
  BY <1>5, <1>6, <1>7 DEF Filtered

\* Both proxies follow a change of the rows rs.
LEMMA RowsEvaluated ==
    ASSUME Filtered, NEW rs, Filter!Evaluate(rs), UNCHANGED <<now, age, period>>,
           DOMAIN time \subseteq DOMAIN time', rs \subseteq DOMAIN time',
           \A r \in DOMAIN time' \ rs : r \in DOMAIN time /\ time'[r] = time[r]
    PROVE  Filtered'
<1>1. dated \subseteq aged /\ aged \subseteq DOMAIN time /\ AgedHasAll /\ DatedIsExact
  BY DEF Filtered
<1>2. \A r : r \in aged' <=> \/ r \in aged /\ r \notin rs
                             \/ r \in rs /\ Filter!InAge(age, r)'
  BY DEF Filter!Evaluate
<1>3. \A r : r \in dated' <=>
        /\ r \in aged'
        /\ (r \in dated /\ r \notin rs) \/ (r \in rs /\ Filter!InPeriod(period, r)')
  BY DEF Filter!Evaluate
<1>4. \A r \in DOMAIN time' \ rs :
        /\ Filter!InAge(age, r)' <=> Filter!InAge(age, r)
        /\ Filter!InPeriod(period, r)' <=> Filter!InPeriod(period, r)
        /\ r \in Known' <=> r \in Known
  BY DEF Filter!InAge, Filter!InPeriod, Filter!When, Known
<1>5. dated' \subseteq aged' /\ aged' \subseteq DOMAIN time'
  BY <1>1, <1>2, <1>3
<1>6. AgedHasAll'
  BY <1>1, <1>2, <1>4 DEF AgedHasAll, Known
<1>7. DatedIsExact'
  BY <1>1, <1>2, <1>3, <1>4, <1>5 DEF DatedIsExact, Known
<1> QED
  BY <1>5, <1>6, <1>7 DEF Filtered

\* Every step keeps the invariant.
LEMMA FilterStep ==
    ASSUME FilterInv, [Filter!Next]_Filter!vars
    PROVE  FilterInv'
<1>1. Filter!TypeOK /\ now # 0 /\ Filter!FormInForce /\ Filtered
  BY DEF FilterInv
<1>2. Filtered' => /\ dated' \subseteq aged' /\ aged' \subseteq DOMAIN time'
  BY DEF Filtered
<1>3. UNCHANGED <<now, time>> /\ Filtered' => Filter!TypeOK'
  BY <1>1, <1>2 DEF Filter!TypeOK
<1>4. UNCHANGED <<now, time, age, period, aged, dated>> => Filtered'
  BY <1>1, SameRows DEF Filtered, AgedHasAll, DatedIsExact
<1>5. CASE Filter!ChooseAge
  <2>1. PICK a : /\ combo' = a
                 /\ Filter!SetFilters(a, IF a = "custom" THEN <<from, to>> ELSE Filter!NoPeriod)
                 /\ UNCHANGED <<now, time, from, to, text, all, owner, hash, scope>>
    BY <1>5 DEF Filter!ChooseAge
  <2>2. Filtered'
    BY <1>1, <2>1, FiltersSet
  <2>3. Filter!FormInForce'
    BY <1>1, <2>1 DEF Filter!FormInForce, Filter!SetFilters
  <2> QED
    BY <1>1, <1>3, <2>1, <2>2, <2>3 DEF FilterInv
<1>6. CASE Filter!EditPeriod
  <2>1. PICK f, t : /\ combo = "custom" /\ from' = f /\ to' = t
                    /\ Filter!SetFilters(age, <<f, t>>)
                    /\ UNCHANGED <<now, time, combo, text, all, owner, hash, scope>>
    BY <1>6 DEF Filter!EditPeriod
  <2>2. Filtered'
    BY <1>1, <2>1, FiltersSet
  <2>3. Filter!FormInForce'
    BY <1>1, <2>1 DEF Filter!FormInForce, Filter!SetFilters
  <2> QED
    BY <1>1, <1>3, <2>1, <2>2, <2>3 DEF FilterInv
<1>7. CASE Filter!Search \/ Filter!ScopeToggled \/ Filter!CurrentAddressChanged
  <2>1. UNCHANGED <<now, time, combo, from, to, age, period, aged, dated>>
    BY <1>7 DEF Filter!Search, Filter!ScopeToggled, Filter!CurrentAddressChanged
  <2>2. hash' = text' /\ scope' = Filter!ScopeOf(all', owner')
    <3>1. CASE Filter!Search
      BY <1>1, <3>1 DEF Filter!FormInForce, Filter!Search
    <3>2. CASE Filter!ScopeToggled
      BY <1>1, <3>2 DEF Filter!FormInForce, Filter!ScopeToggled
    <3>3. CASE Filter!CurrentAddressChanged
      BY <1>1, <3>3 DEF Filter!FormInForce, Filter!CurrentAddressChanged
    <3> QED
      BY <1>7, <3>1, <3>2, <3>3
  <2>3. Filter!FormInForce'
    BY <1>1, <2>1, <2>2 DEF Filter!FormInForce, Filter!NoPeriod
  <2> QED
    BY <1>1, <1>3, <1>4, <2>1, <2>3 DEF FilterInv
<1>8. CASE Filter!ResetFilter
  <2>1. UNCHANGED <<now, time, owner>>
    BY <1>8 DEF Filter!ResetFilter
  <2>2. CASE combo = "all"
    <3>1. UNCHANGED <<age, period, aged, dated>>
      BY <1>8, <2>2 DEF Filter!ResetFilter
    <3>2. Filter!FormInForce'
      BY <1>1, <1>8, <2>2, <3>1 DEF Filter!FormInForce, Filter!ResetFilter, Filter!ScopeOf
    <3> QED
      BY <1>1, <1>3, <1>4, <2>1, <3>1, <3>2 DEF FilterInv
  <2>3. CASE combo # "all"
    <3>1. Filter!SetFilters("all", Filter!NoPeriod)
      BY <1>8, <2>3 DEF Filter!ResetFilter
    <3>2. Filtered'
      BY <1>1, <2>1, <3>1, FiltersSet
    <3>3. Filter!FormInForce'
      BY <1>1, <1>8, <3>1 DEF Filter!FormInForce, Filter!ResetFilter, Filter!ScopeOf, Filter!SetFilters
    <3> QED
      BY <1>1, <1>3, <2>1, <3>2, <3>3 DEF FilterInv
  <2> QED
    BY <2>2, <2>3
<1>9. CASE Filter!RowChanges
  <2>1. PICK r \in Transfers, t \in 0..now \cup {Unknown} :
          /\ time' = [q \in DOMAIN time \cup {r} |-> IF q = r THEN t ELSE time[q]]
          /\ Filter!Evaluate({r})
    BY <1>9 DEF Filter!RowChanges
  <2>2. UNCHANGED <<now, combo, from, to, text, all, owner, age, period, hash, scope>>
    BY <1>9 DEF Filter!RowChanges
  <2>3. /\ DOMAIN time' = DOMAIN time \cup {r}
        /\ \A q \in DOMAIN time' \ {r} : q \in DOMAIN time /\ time'[q] = time[q]
        /\ time'[r] = t
    BY <2>1
  <2>4. Filtered'
    BY <1>1, <2>1, <2>2, <2>3, RowsEvaluated
  <2>5. Filter!TypeOK'
    <3>1. t \in 0..MaxNow \cup {Unknown}
      BY <1>1, <2>1, FilterAssumption DEF Filter!TypeOK
    <3> QED
      BY <1>1, <1>2, <2>1, <2>2, <2>3, <2>4, <3>1 DEF Filter!TypeOK
  <2>6. Filter!FormInForce'
    BY <1>1, <2>2 DEF Filter!FormInForce, Filter!ScopeOf, Filter!NoPeriod
  <2> QED
    BY <1>1, <2>2, <2>4, <2>5, <2>6 DEF FilterInv
<1>10. CASE Filter!BlockAdded
  <2>1. /\ UNCHANGED <<now, time, combo, from, to, text, all, owner, age, period,
                       hash, scope>>
        /\ Filter!Evaluate(DOMAIN time)
    BY <1>10 DEF Filter!BlockAdded
  <2>2. Filtered'
    BY <1>1, <2>1, RowsEvaluated
  <2>3. Filter!FormInForce'
    BY <1>1, <2>1 DEF Filter!FormInForce, Filter!ScopeOf, Filter!NoPeriod
  <2> QED
    BY <1>1, <1>3, <2>1, <2>2, <2>3 DEF FilterInv
<1>11. CASE Filter!WalletClosed
  <2>1. /\ time' = <<>> /\ aged' = {} /\ dated' = {}
        /\ UNCHANGED <<now, combo, from, to, text, all, owner, age, period, hash, scope>>
    BY <1>11 DEF Filter!WalletClosed
  <2>2. DOMAIN time' = {}
    BY <2>1
  <2>3. Filtered' /\ Filter!TypeOK'
    BY <1>1, <2>1, <2>2 DEF Filtered, AgedHasAll, DatedIsExact, Known, Filter!TypeOK
  <2>4. Filter!FormInForce'
    BY <1>1, <2>1 DEF Filter!FormInForce, Filter!ScopeOf, Filter!NoPeriod
  <2> QED
    BY <1>1, <2>1, <2>3, <2>4 DEF FilterInv
<1>12. CASE Filter!Tick
  <2>1. /\ now < MaxNow /\ now' = now + 1
        /\ UNCHANGED <<time, combo, from, to, text, all, owner, age, period, hash,
                       scope, aged, dated>>
    BY <1>12 DEF Filter!Tick
  <2>2. \A q \in Known : /\ Filter!InAge(age, q)' => Filter!InAge(age, q)
                         /\ Filter!InPeriod(period, q)' <=> Filter!InPeriod(period, q)
    BY <1>1, <2>1, FilterAssumption DEF Known, Filter!InAge, Filter!InPeriod, Filter!When, Filter!TypeOK
  <2>3. Filtered'
    BY <1>1, <2>1, <2>2 DEF Filtered, AgedHasAll, DatedIsExact, Known
  <2>4. Filter!FormInForce'
    BY <1>1, <2>1 DEF Filter!FormInForce, Filter!ScopeOf, Filter!NoPeriod
  <2>5. Filter!TypeOK' /\ now' # 0
    BY <1>1, <2>1, FilterAssumption DEF Filter!TypeOK
  <2> QED
    BY <2>3, <2>4, <2>5 DEF FilterInv
<1>13. CASE UNCHANGED Filter!vars
  <2>1. Filter!FormInForce'
    BY <1>1, <1>13 DEF Filter!FormInForce, Filter!ScopeOf, Filter!NoPeriod, Filter!vars
  <2> QED
    BY <1>1, <1>3, <1>4, <1>13, <2>1 DEF FilterInv, Filter!vars
<1> QED
  BY <1>5, <1>6, <1>7, <1>8, <1>9, <1>10, <1>11, <1>12, <1>13 DEF Filter!Next

\* The filter's steps in the window.
LEMMA FilterFollowed ==
    /\ Init => FilterInv
    /\ FilterInv /\ [Next]_vars => FilterInv'
<1>1. Init => FilterInv
  <2> SUFFICES ASSUME Filter!Init PROVE FilterInv
    BY DEF Init
  <2>1. /\ time = <<>> /\ now = 1
        /\ aged = {} /\ dated = {}
    BY DEF Filter!Init
  <2>2. Filter!TypeOK /\ now # 0
    BY <2>1, FilterAssumption DEF Filter!TypeOK
  <2>3. Filter!FormInForce
    BY DEF Filter!Init, Filter!FormInForce, Filter!ScopeOf
  <2>4. Filtered
    BY <2>1 DEF Filtered, AgedHasAll, DatedIsExact, Known
  <2> QED
    BY <2>2, <2>3, <2>4 DEF FilterInv
<1>2. [Next]_vars => [Filter!Next]_Filter!vars
  BY DEF Next, vars, filters, Filter!vars
<1> QED
  BY <1>1, <1>2, FilterStep

\* The history shows what its filter asks for: the filters in force are those on
\* screen, no row with a known time is missing that they let through, and the
\* period shows nothing else, whatever the rows, the clock and the form did.
THEOREM HistoryShowsWhatIsAsked == Spec => []FilterInForce
<1>1. FilterInv => FilterInForce
  BY FilterSuffices DEF FilterInForce
<1> QED
  BY <1>1, FilterFollowed, PTL DEF Spec

-----------------------------------------------------------------------------
(* The send form.                                                          *)

\* The property as it is carried from frame to frame, with the fields that
\* EXCEPT needs.
Faithful(f) == /\ {"text", "entered", "timer"} \subseteq DOMAIN f
               /\ f.text.typed = Number => f.entered = Number
AllFaithful(fs) == \A i \in DOMAIN fs : Faithful(fs[i])

LEMMA FaithfulSuffices == AllFaithful(frame) => Form!NumberShownIsAsked
BY DEF AllFaithful, Faithful, Form!NumberShownIsAsked

\* A field that is neither the text nor what was entered.
Aside == {"timer", "pending", "dns", "sendAll", "remove", "dying"}
LEMMA FieldSet ==
    ASSUME NEW f, Faithful(f), NEW k \in Aside, NEW v
    PROVE  Faithful([f EXCEPT ![k] = v])
BY DEF Faithful, Aside

\* A new frame is empty.
LEMMA NewFaithful ==
    ASSUME NEW sole
    PROVE  Faithful(Form!NewFrame(sole))
BY FormAssumption DEF Faithful, Form!NewFrame, Form!Text

\* What the user gives is what was entered.
LEMMA Entered ==
    ASSUME NEW f, Faithful(f), NEW a
    PROVE  Faithful(Form!SetAddress(f, a))
BY DEF Faithful, Form!SetAddress, Form!Retyped, Form!Text

\* A lookup's text replaces one of the same request.
LEMMA Resolved ==
    ASSUME NEW f, Faithful(f), NEW t, t.typed = Number => f.entered = Number
    PROVE  Faithful(Form!Retyped(f, t))
BY DEF Faithful, Form!Retyped

\* Adding a recipient leaves the others' texts alone.
LEMMA AddedFaithful ==
    ASSUME NEW fs, NEW l, AllFaithful(fs)
    PROVE  AllFaithful(Form!Added(fs, l))
<1> DEFINE n == made + 1
           gs == [i \in DOMAIN fs \cup {n} |->
                    IF i = n THEN Form!NewFrame(l = <<>>) ELSE fs[i]]
<1>1. \A i \in DOMAIN gs : Faithful(gs[i])
  BY NewFaithful DEF AllFaithful
<1>2. CASE l = <<>>
  BY <1>1, <1>2 DEF Form!Added, AllFaithful
<1>3. CASE l # <<>>
  <2> DEFINE hs == [gs EXCEPT ![l[1]].remove = TRUE]
             ks == [hs EXCEPT ![l[1]].sendAll = FALSE]
  <2>1. \A i \in DOMAIN hs : Faithful(hs[i])
    <3> SUFFICES ASSUME NEW i \in DOMAIN hs PROVE Faithful(hs[i])
      OBVIOUS
    <3>1. i \in DOMAIN gs /\ (hs[i] = gs[i] \/ hs[i] = [gs[i] EXCEPT !["remove"] = TRUE])
      OBVIOUS
    <3> HIDE DEF gs, hs
    <3> QED
      BY <1>1, <3>1, FieldSet DEF Aside
  <2>2. \A i \in DOMAIN ks : Faithful(ks[i])
    <3> SUFFICES ASSUME NEW i \in DOMAIN ks PROVE Faithful(ks[i])
      OBVIOUS
    <3>1. i \in DOMAIN hs /\ (ks[i] = hs[i] \/ ks[i] = [hs[i] EXCEPT !["sendAll"] = FALSE])
      OBVIOUS
    <3> HIDE DEF gs, hs, ks
    <3> QED
      BY <2>1, <3>1, FieldSet DEF Aside
  <2>3. Form!Added(fs, l) = ks
    BY <1>3 DEF Form!Added
  <2> QED
    BY <2>2, <2>3 DEF AllFaithful
<1> QED
  BY <1>2, <1>3

\* clearAll closes frames and changes no text.
LEMMA ClearFaithful ==
    ASSUME NEW why, Form!BeginClear(why), AllFaithful(frame)
    PROVE  AllFaithful(frame')
<1> SUFFICES ASSUME NEW i \in DOMAIN frame' PROVE Faithful(frame'[i])
  BY DEF AllFaithful
<1>1. i \in DOMAIN frame /\ Faithful(frame[i])
  BY DEF Form!BeginClear, AllFaithful
<1>2. \/ frame'[i] = frame[i]
      \/ \E v : frame'[i] = [frame[i] EXCEPT !.dying = v, !.sendAll = TRUE]
  BY <1>1 DEF Form!BeginClear
<1> QED
  BY <1>1, <1>2 DEF Faithful

\* Every step keeps what is shown faithful to what was entered.
LEMMA FaithfulStep ==
    ASSUME AllFaithful(frame), [Form!Next]_Form!vars
    PROVE  AllFaithful(frame')
<1>1. CASE Form!AddRecipientClicked \/ Form!WalletOpened
  BY <1>1, AddedFaithful DEF Form!AddRecipientClicked, Form!WalletOpened
<1>2. CASE Form!Type
  <2>1. PICK i \in DOMAIN frame, a \in Payees \cup {Number, Alias, Nothing} :
          frame' = [frame EXCEPT ![i] = Form!SetAddress(@, a)]
    BY <1>2 DEF Form!Type
  <2> QED
    BY <2>1, Entered DEF AllFaithful
<1>3. CASE Form!AddRecipient
  <2> DEFINE one == Len(list) = 1 /\ Form!GetAddress(frame[list[1]].text) = Nothing
             fs == IF one THEN frame ELSE Form!Added(frame, list)
             l == IF one THEN list ELSE Append(list, made + 1)
             k == l[Len(l)]
  <2>1. PICK a : frame' = [fs EXCEPT ![k] = Form!SetAddress(@, a)]
    BY <1>3 DEF Form!AddRecipient
  <2>2. AllFaithful(fs)
    BY AddedFaithful
  <2> HIDE DEF fs, k
  <2> QED
    BY <2>1, <2>2, Entered DEF AllFaithful
<1>4. CASE Form!RemoveClicked
  <2>1. PICK i \in DOMAIN frame : frame' = [frame EXCEPT ![i].dying = Form!Dying]
    BY <1>4 DEF Form!RemoveClicked
  <2> QED
    BY <2>1 DEF AllFaithful, Faithful
<1>5. CASE Form!Destroyed
  <2> SUFFICES ASSUME NEW j \in DOMAIN frame' PROVE Faithful(frame'[j])
    BY DEF AllFaithful
  <2>1. /\ j \in DOMAIN frame
        /\ \/ frame'[j] = frame[j]
           \/ frame'[j] = [frame[j] EXCEPT !.remove = FALSE, !.sendAll = TRUE]
    BY <1>5 DEF Form!Destroyed
  <2> QED
    BY <2>1 DEF AllFaithful, Faithful
<1>6. CASE Form!Timer
  <2> SUFFICES ASSUME NEW j \in DOMAIN frame' PROVE Faithful(frame'[j])
    BY DEF AllFaithful
  <2>1. j \in DOMAIN frame /\ Faithful(frame[j])
    BY <1>6 DEF Form!Timer, AllFaithful
  <2>2. frame'[j].text = frame[j].text /\ frame'[j].entered = frame[j].entered
    BY <1>6, <2>1 DEF Form!Timer, Faithful
  <2>3. DOMAIN frame'[j] = DOMAIN frame[j]
    BY <1>6, <2>1 DEF Form!Timer
  <2> QED
    BY <2>1, <2>2, <2>3 DEF Faithful
<1>7. CASE Form!NumberAnswer
  <2>1. PICK i \in queries, a \in Payees \cup {Nothing} :
          IF Form!StillAsked(frame[i])
          THEN frame' = [frame EXCEPT ![i] =
                 IF a = Nothing THEN [@ EXCEPT !.pending = FALSE]
                 ELSE [Form!Retyped(@, Form!Text(Number, a)) EXCEPT !.pending = FALSE]]
          ELSE frame' = frame
    BY <1>7 DEF Form!NumberAnswer
  <2>2. CASE ~Form!StillAsked(frame[i])
    BY <2>1, <2>2
  <2>3. CASE Form!StillAsked(frame[i])
    <3> SUFFICES ASSUME NEW j \in DOMAIN frame' PROVE Faithful(frame'[j])
      BY DEF AllFaithful
    <3>1. j \in DOMAIN frame /\ Faithful(frame[j])
      BY <2>1, <2>3 DEF AllFaithful
    <3>2. CASE j # i
      BY <2>1, <2>3, <3>1, <3>2
    <3>3. CASE j = i /\ a = Nothing
      <4>1. frame'[j] = [frame[j] EXCEPT !["pending"] = FALSE]
        BY <2>1, <2>3, <3>1, <3>3
      <4> QED
        BY <3>1, <4>1 DEF Faithful
    <3>4. CASE j = i /\ a # Nothing
      <4>1. frame[j].text.typed = Number
        BY <2>3, <3>4 DEF Form!StillAsked, Form!Text
      <4>2. Faithful(Form!Retyped(frame[j], Form!Text(Number, a)))
        BY <3>1, <4>1, Resolved DEF Faithful
      <4>3. frame'[j] = [Form!Retyped(frame[j], Form!Text(Number, a)) EXCEPT !["pending"] = FALSE]
        BY <2>1, <2>3, <3>1, <3>4
      <4> QED
        BY <4>2, <4>3, FieldSet DEF Aside
    <3> QED
      BY <3>2, <3>3, <3>4
  <2> QED
    BY <2>2, <2>3
<1>8. CASE Form!AliasFound
  <2>1. PICK i \in DOMAIN frame, a \in Payees \cup {Nothing} :
          LET f == [frame[i] EXCEPT !.dns.last = "deleted"]
          IN  frame' = [frame EXCEPT ![i] =
                          IF a = Nothing THEN f ELSE Form!Retyped(f, Form!Text(Alias, a))]
    BY <1>8 DEF Form!AliasFound
  <2> DEFINE f == [frame[i] EXCEPT !.dns.last = "deleted"]
  <2>2. Faithful(f)
    BY DEF AllFaithful, Faithful
  <2>3. Faithful(Form!Retyped(f, Form!Text(Alias, a)))
    <3>1. Form!Text(Alias, a).typed # Number
      BY FormAssumption DEF Form!Text
    <3> HIDE DEF f
    <3> QED
      BY <2>2, <3>1, Resolved
  <2> HIDE DEF f
  <2>4. frame' = [frame EXCEPT ![i] = IF a = Nothing THEN f ELSE Form!Retyped(f, Form!Text(Alias, a))]
    BY <2>1 DEF f
  <2> QED
    BY <2>2, <2>3, <2>4 DEF AllFaithful
<1>9. CASE Form!OlderLookupFinished
  <2>1. PICK i \in DOMAIN frame : \E d : frame' = [frame EXCEPT ![i].dns = d]
    BY <1>9 DEF Form!OlderLookupFinished
  <2> QED
    BY <2>1 DEF AllFaithful, Faithful
<1>10. CASE Form!Sent \/ Form!UrlReceived \/ Form!WalletClosed
  BY <1>10, ClearFaithful DEF Form!Sent, Form!UrlReceived, Form!WalletClosed
<1>11. CASE Form!EndClear
  <2>1. CASE frame' = frame
    BY <2>1
  <2>2. CASE frame' # frame
    <3>1. PICK a : frame' = [Form!Added(frame, <<>>) EXCEPT ![made + 1] =
                               IF a = Nothing THEN @ ELSE Form!SetAddress(@, a)]
      BY <1>11, <2>2 DEF Form!EndClear
    <3>2. AllFaithful(Form!Added(frame, <<>>))
      BY AddedFaithful
    <3> QED
      BY <3>1, <3>2, Entered DEF AllFaithful
  <2> QED
    BY <2>1, <2>2
<1>12. CASE Form!EditPaymentId \/ Form!SendClicked \/ Form!NotSent \/ UNCHANGED Form!vars
  BY <1>12 DEF Form!EditPaymentId, Form!SendClicked, Form!NotSent, Form!vars
<1> QED
  BY <1>1, <1>2, <1>3, <1>4, <1>5, <1>6, <1>7, <1>8, <1>9, <1>10, <1>11, <1>12
     DEF Form!Next

LEMMA FaithfulFollowed ==
    /\ Init => AllFaithful(frame)
    /\ AllFaithful(frame) /\ [Next]_vars => AllFaithful(frame')
<1>1. Init => AllFaithful(frame)
  <2> SUFFICES ASSUME Form!Init PROVE AllFaithful(frame)
    BY DEF Init
  <2>1. DOMAIN frame = {}
    BY DEF Form!Init
  <2> QED
    BY <2>1 DEF AllFaithful
<1>2. [Next]_vars => [Form!Next]_Form!vars
  BY DEF Next, vars, sending, Form!vars
<1> QED
  BY <1>1, <1>2, FaithfulStep

\* An account number that was resolved is never shown in a form where the user
\* entered something else: the answer of a lookup replaces only the text that
\* asked for it.
THEOREM NumberShownAsAsked == Spec => []NumberShownIsAsked
<1>1. AllFaithful(frame) => NumberShownIsAsked
  BY FaithfulSuffices DEF NumberShownIsAsked
<1>2. AllFaithful(frame) /\ [Next]_vars => AllFaithful(frame)'
  BY FaithfulFollowed
<1> QED
  BY <1>1, <1>2, FaithfulFollowed, PTL DEF Spec

-----------------------------------------------------------------------------
(* The recipients on screen.                                               *)

Texts == Payees \cup {Number, Alias, Nothing}
Lookups == [older: Nat, last: {"none", "waiting", "deleted"}]
Frames == [text: [typed: Texts, resolved: Texts], entered: Texts, timer: BOOLEAN,
           pending: BOOLEAN, dns: Lookups, sendAll: BOOLEAN, remove: BOOLEAN,
           dying: 0..2]
Reasons == {"sent", "url", "closed", "confirm"}

FormTyped == /\ Form!TypeOK
             /\ list \in Seq(Nat) /\ stack \in Seq(Reasons)
             /\ \A i \in DOMAIN frame : frame[i] \in Frames

\* A wallet is opened only at rest, and no clear begins inside another one unless
\* clearAll has dispatched an event.
Nesting == /\ \A k \in DOMAIN stack : stack[k] = "closed" => ~open
           /\ nested = 0 => \A k \in 1 .. Len(stack) - 1 : stack[k] = "confirm"

\* ScreenIsList says nothing of the time a clear takes: then every frame is about
\* to be deleted, and none in the list is left for the next.
Screen == nested = 0 /\ ~dangling =>
  \A i \in DOMAIN frame :
    frame[i].dying = 0 => ~Form!Clearing /\ i \in Form!ToSet(list)

\* An open wallet's form has a recipient, and the button knows whether all are
\* complete, also while something else dispatches events.
Complete ==
  open /\ ~dangling =>
    /\ list # <<>>
    /\ button => payid /\ \A k \in DOMAIN list : Form!Valid(frame[list[k]])

\* What SendAllOnlyAlone says holds in the middle of a clear, too.
SoleOnly ==
  ~dangling => \A k \in DOMAIN list :
    LET f == frame[list[k]]
    IN  f.dying = 0 /\ (f.sendAll \/ ~f.remove) => Len(list) = 1

FormInv == FormTyped /\ Nesting /\ Screen /\ Complete /\ SoleOnly

LEMMA FormSuffices == FormInv => FormIsOrder
BY DEF FormInv, Screen, Complete, SoleOnly, FormIsOrder, Form!ScreenIsList,
       Form!ButtonMeansReady, Form!SendAllOnlyAlone

LEMMA FormBegins == Init => FormInv
<1> SUFFICES ASSUME Form!Init PROVE FormInv
  BY DEF Init
<1>1. DOMAIN frame = {} /\ list = <<>> /\ stack = <<>> /\ open = FALSE /\ made = 0
  BY DEF Form!Init
<1>2. DOMAIN list = {} /\ DOMAIN stack = {} /\ Len(stack) = 0 /\ Form!ToSet(list) = {}
  BY <1>1 DEF Form!ToSet
<1>3. FormTyped
  <2>1. Form!IsInjective(list) /\ {stack[i] : i \in DOMAIN stack} = {}
    BY <1>2 DEF Form!IsInjective
  <2>2. Form!TypeOK
    <3>1. /\ open \in BOOLEAN /\ button \in BOOLEAN /\ payid \in BOOLEAN
          /\ dangling \in BOOLEAN
      BY DEF Form!Init
    <3>2. made \in 0 .. MaxForms /\ nested \in 0 .. MaxNested /\ inputs \in 0 .. MaxInputs
      BY FormAssumption DEF Form!Init
    <3>3. DOMAIN frame \subseteq 1 .. made /\ queries \subseteq DOMAIN frame
      BY <1>1 DEF Form!Init
    <3> QED
      BY <1>1, <1>2, <2>1, <3>1, <3>2, <3>3 DEF Form!TypeOK, Form!ToSet
  <2>3. list \in Seq(Nat) /\ stack \in Seq(Reasons)
    BY <1>1
  <2> QED
    BY <1>1, <2>2, <2>3 DEF FormTyped
<1> QED
  BY <1>1, <1>2, <1>3 DEF FormInv, Nesting, Screen, Complete, SoleOnly

\* Events that clearAll dispatches are counted.
LEMMA Counted ==
    ASSUME FormTyped, Form!Dispatched
    PROVE  /\ nested' \in 0..MaxNested /\ ~dangling
           /\ nested' = 0 => nested = 0 /\ ~Form!Clearing
BY FormAssumption DEF FormTyped, Form!TypeOK, Form!Dispatched

\* Neither the list nor what is being done changes.
LEMMA ListStays ==
    ASSUME FormInv, UNCHANGED <<open, list, made, stack>>,
           DOMAIN frame' = DOMAIN frame,
           \A i \in DOMAIN frame :
             /\ frame'[i] \in Frames
             /\ frame'[i].sendAll = frame[i].sendAll
             /\ frame'[i].remove = frame[i].remove
             /\ frame[i].dying # 0 => frame'[i].dying # 0,
           {button', payid', dangling'} \subseteq BOOLEAN, dangling => dangling',
           nested' \in 0..MaxNested, nested' = 0 => nested = 0,
           inputs' \in 0..MaxInputs, queries' \subseteq DOMAIN frame,
           open /\ ~dangling' /\ button' =>
             payid' /\ \A k \in DOMAIN list : Form!Valid(frame'[list[k]])
    PROVE  FormInv'
<1>1. \A k \in DOMAIN list : list[k] \in DOMAIN frame
  BY DEF FormInv, FormTyped, Form!TypeOK, Form!ToSet
<1>2. FormTyped'
  BY DEF FormInv, FormTyped, Form!TypeOK, Form!ToSet, Form!IsInjective
<1>3. Nesting'
  BY DEF FormInv, Nesting
<1>4. Screen'
  BY DEF FormInv, Screen, Form!Clearing, Form!Top, Form!Last, Form!ToSet
<1>5. Complete'
  BY DEF FormInv, Complete
<1>6. SoleOnly'
  BY <1>1 DEF FormInv, SoleOnly
<1> QED
  BY <1>2, <1>3, <1>4, <1>5, <1>6 DEF FormInv

\* The texts and flags of a frame after the helpers that change it.
LEMMA AddressSet ==
    ASSUME NEW f \in Frames, NEW a \in Texts
    PROVE  /\ Form!SetAddress(f, a) \in Frames
           /\ Form!SetAddress(f, a).sendAll = f.sendAll
           /\ Form!SetAddress(f, a).remove = f.remove
           /\ Form!SetAddress(f, a).dying = f.dying
           /\ a # Nothing => Form!GetAddress(Form!SetAddress(f, a).text) = a
BY DEF Frames, Form!SetAddress, Form!Retyped, Form!Text, Form!GetAddress, Texts

LEMMA RetypedTyped ==
    ASSUME NEW f \in Frames, NEW t \in Texts, NEW a \in Texts
    PROVE  /\ Form!Retyped(f, Form!Text(t, a)) \in Frames
           /\ Form!Retyped(f, Form!Text(t, a)).sendAll = f.sendAll
           /\ Form!Retyped(f, Form!Text(t, a)).remove = f.remove
           /\ Form!Retyped(f, Form!Text(t, a)).dying = f.dying
BY DEF Frames, Form!Retyped, Form!Text, Texts

LEMMA TypeKeeps ==
    ASSUME FormInv, Form!Type
    PROVE  FormInv'
<1>1. PICK i \in DOMAIN frame, a \in Payees \cup {Number, Alias, Nothing} :
        /\ Form!User /\ open
        /\ frame' = [frame EXCEPT ![i] = Form!SetAddress(@, a)]
        /\ button' = Form!ReadyToSend(list, frame', payid)
        /\ UNCHANGED <<open, list, made, stack, payid, queries, dangling>>
  BY DEF Form!Type
<1>2. FormTyped /\ \A j \in DOMAIN frame : frame[j] \in Frames
  BY DEF FormInv, FormTyped
<1>3. /\ nested' \in 0..MaxNested /\ (nested' = 0 => nested = 0)
      /\ inputs' \in 0..MaxInputs /\ ~dangling
  BY <1>1, <1>2, Counted, FormAssumption DEF Form!User, FormTyped, Form!TypeOK
<1>4. DOMAIN frame' = DOMAIN frame /\ \A j \in DOMAIN frame :
        /\ frame'[j] \in Frames
        /\ frame'[j].sendAll = frame[j].sendAll
        /\ frame'[j].remove = frame[j].remove
        /\ frame[j].dying # 0 => frame'[j].dying # 0
  BY <1>1, <1>2, AddressSet DEF Texts
<1>5. {button', payid', dangling'} \subseteq BOOLEAN /\ queries' \subseteq DOMAIN frame
  BY <1>1, <1>2 DEF FormTyped, Form!TypeOK, Form!ReadyToSend
<1>6. button' => payid' /\ \A k \in DOMAIN list : Form!Valid(frame'[list[k]])
  BY <1>1 DEF Form!ReadyToSend
<1> QED
  BY <1>1, <1>3, <1>4, <1>5, <1>6, ListStays

LEMMA RemoveClickedKeeps ==
    ASSUME FormInv, Form!RemoveClicked
    PROVE  FormInv'
<1>1. PICK i \in DOMAIN frame :
        /\ Form!User /\ frame[i].dying = 0
        /\ frame' = [frame EXCEPT ![i].dying = Form!Dying]
        /\ UNCHANGED <<open, list, made, stack, button, payid, queries, dangling>>
  BY DEF Form!RemoveClicked
<1>2. FormTyped /\ \A j \in DOMAIN frame : frame[j] \in Frames
  BY DEF FormInv, FormTyped
<1>3. /\ nested' \in 0..MaxNested /\ (nested' = 0 => nested = 0)
      /\ inputs' \in 0..MaxInputs /\ ~dangling
  BY <1>1, <1>2, Counted, FormAssumption DEF Form!User, FormTyped, Form!TypeOK
<1>4. DOMAIN frame' = DOMAIN frame /\ \A j \in DOMAIN frame :
        /\ frame'[j] \in Frames
        /\ frame'[j].text = frame[j].text
        /\ frame'[j].sendAll = frame[j].sendAll
        /\ frame'[j].remove = frame[j].remove
        /\ frame[j].dying # 0 => frame'[j].dying # 0
  BY <1>1, <1>2 DEF Frames, Form!Dying
<1>5. {button', payid', dangling'} \subseteq BOOLEAN /\ queries' \subseteq DOMAIN frame
  BY <1>1, <1>2 DEF FormTyped, Form!TypeOK
<1>6. \A k \in DOMAIN list : list[k] \in DOMAIN frame
  BY <1>2 DEF FormTyped, Form!TypeOK, Form!ToSet
<1>7. open /\ button' => payid' /\ \A k \in DOMAIN list : Form!Valid(frame'[list[k]])
  BY <1>1, <1>3, <1>4, <1>6 DEF FormInv, Complete, Form!Valid
<1> QED
  BY <1>1, <1>3, <1>4, <1>5, <1>7, ListStays

LEMMA EditPaymentIdKeeps ==
    ASSUME FormInv, Form!EditPaymentId
    PROVE  FormInv'
<1>1. PICK ok \in BOOLEAN :
        /\ Form!User
        /\ payid' = ok
        /\ button' = (ok /\ Form!ReadyToSend(list, frame, ok))
        /\ UNCHANGED <<open, frame, list, made, stack, queries, dangling>>
  BY DEF Form!EditPaymentId
<1>2. FormTyped /\ \A j \in DOMAIN frame : frame[j] \in Frames
  BY DEF FormInv, FormTyped
<1>3. /\ nested' \in 0..MaxNested /\ (nested' = 0 => nested = 0)
      /\ inputs' \in 0..MaxInputs /\ ~dangling
  BY <1>1, <1>2, Counted, FormAssumption DEF Form!User, FormTyped, Form!TypeOK
<1>4. {button', payid', dangling'} \subseteq BOOLEAN /\ queries' \subseteq DOMAIN frame
  BY <1>1, <1>2 DEF FormTyped, Form!TypeOK, Form!ReadyToSend
<1>5. button' => payid' /\ \A k \in DOMAIN list : Form!Valid(frame'[list[k]])
  BY <1>1 DEF Form!ReadyToSend
<1> QED
  BY <1>1, <1>2, <1>3, <1>4, <1>5, ListStays

\* What the timer leaves of the frames.
LEMMA TimerStep ==
    ASSUME \A j \in DOMAIN frame : frame[j] \in Frames, Form!Timer
    PROVE  /\ Form!Dispatched
           /\ \E i \in DOMAIN frame : queries' \subseteq queries \cup {i}
           /\ UNCHANGED <<open, list, made, stack, button, payid, inputs, dangling>>
           /\ DOMAIN frame' = DOMAIN frame
           /\ \A j \in DOMAIN frame :
                /\ frame'[j] \in Frames
                /\ frame'[j].text = frame[j].text /\ frame'[j].entered = frame[j].entered
                /\ frame'[j].sendAll = frame[j].sendAll
                /\ frame'[j].remove = frame[j].remove
                /\ frame'[j].dying = frame[j].dying
<1>1. PICK i \in DOMAIN frame :
        /\ Form!Dispatched
        /\ LET t == frame[i].text
               d == frame[i].dns
               asks == t = Form!Text(Number, Nothing)
           IN  /\ frame' = [frame EXCEPT ![i] = [@ EXCEPT !.timer = FALSE,
                    !.dns = IF t.typed # Alias THEN d
                            ELSE [older |-> IF d.last = "waiting" THEN d.older + 1
                                                                  ELSE d.older,
                                  last |-> "waiting"],
                    !.pending = frame[i].pending \/ asks]]
               /\ queries' = IF asks THEN queries \cup {i} ELSE queries
        /\ UNCHANGED <<open, list, made, stack, button, payid, inputs, dangling>>
  BY DEF Form!Timer
<1> DEFINE t == frame[i].text
           d == IF t.typed # Alias THEN frame[i].dns
                ELSE [older |-> IF frame[i].dns.last = "waiting"
                                THEN frame[i].dns.older + 1 ELSE frame[i].dns.older,
                      last |-> "waiting"]
           p == frame[i].pending \/ t = Form!Text(Number, Nothing)
<1>2. frame[i] \in Frames
  OBVIOUS
<1>3. d \in Lookups /\ p \in BOOLEAN
  BY <1>2 DEF Frames, Lookups
<1>4. /\ DOMAIN frame' = DOMAIN frame
      /\ frame'[i] = [frame[i] EXCEPT !.timer = FALSE, !.dns = d, !.pending = p]
      /\ \A j \in DOMAIN frame : j # i => frame'[j] = frame[j]
  BY <1>1
<1>5. queries' \subseteq queries \cup {i}
  BY <1>1
<1> HIDE DEF d, p
<1>6. /\ frame'[i] \in Frames
      /\ frame'[i].text = frame[i].text /\ frame'[i].entered = frame[i].entered
      /\ frame'[i].sendAll = frame[i].sendAll /\ frame'[i].remove = frame[i].remove
      /\ frame'[i].dying = frame[i].dying
  <2> DEFINE g == [frame[i] EXCEPT !.timer = FALSE, !.dns = d, !.pending = p]
  <2>1. /\ g \in Frames
        /\ g.text = frame[i].text /\ g.entered = frame[i].entered
        /\ g.sendAll = frame[i].sendAll /\ g.remove = frame[i].remove
        /\ g.dying = frame[i].dying
    BY <1>2, <1>3 DEF Frames
  <2>2. frame'[i] = g
    BY <1>4
  <2> HIDE DEF g
  <2> QED
    BY <2>1, <2>2
<1> QED
  BY <1>1, <1>4, <1>5, <1>6

LEMMA TimerKeeps ==
    ASSUME FormInv, Form!Timer
    PROVE  FormInv'
<1>2. FormTyped /\ \A j \in DOMAIN frame : frame[j] \in Frames
  BY DEF FormInv, FormTyped
<1>1. /\ Form!Dispatched
      /\ UNCHANGED <<open, list, made, stack, button, payid, inputs, dangling>>
  BY <1>2, TimerStep
<1>3. nested' \in 0..MaxNested /\ (nested' = 0 => nested = 0) /\ ~dangling
  BY <1>1, <1>2, Counted
<1>4. DOMAIN frame' = DOMAIN frame /\ \A j \in DOMAIN frame :
        /\ frame'[j] \in Frames
        /\ frame'[j].text = frame[j].text
        /\ frame'[j].sendAll = frame[j].sendAll
        /\ frame'[j].remove = frame[j].remove
        /\ frame[j].dying # 0 => frame'[j].dying # 0
  BY <1>2, TimerStep
<1>5. /\ {button', payid', dangling'} \subseteq BOOLEAN /\ queries' \subseteq DOMAIN frame
      /\ inputs' \in 0..MaxInputs
  BY <1>1, <1>2, TimerStep DEF FormTyped, Form!TypeOK
<1>6. \A k \in DOMAIN list : list[k] \in DOMAIN frame
  BY <1>2 DEF FormTyped, Form!TypeOK, Form!ToSet
<1>7. open /\ button' => payid' /\ \A k \in DOMAIN list : Form!Valid(frame'[list[k]])
  BY <1>1, <1>3, <1>4, <1>6 DEF FormInv, Complete, Form!Valid
<1> QED
  BY <1>1, <1>3, <1>4, <1>5, <1>7, ListStays

LEMMA NumberAnswerKeeps ==
    ASSUME FormInv, Form!NumberAnswer
    PROVE  FormInv'
<1>1. PICK i \in queries, a \in Payees \cup {Nothing} :
        /\ Form!Dispatched
        /\ queries' = queries \ {i}
        /\ IF Form!StillAsked(frame[i])
           THEN /\ frame' = [frame EXCEPT ![i] =
                     IF a = Nothing THEN [@ EXCEPT !.pending = FALSE]
                     ELSE [Form!Retyped(@, Form!Text(Number, a)) EXCEPT !.pending = FALSE]]
                /\ button' = Form!ReadyToSend(list, frame', payid)
           ELSE UNCHANGED <<frame, button>>
        /\ UNCHANGED <<open, list, made, stack, payid, inputs, dangling>>
  BY DEF Form!NumberAnswer
<1>2. FormTyped /\ \A j \in DOMAIN frame : frame[j] \in Frames
  BY DEF FormInv, FormTyped
<1>3. nested' \in 0..MaxNested /\ (nested' = 0 => nested = 0) /\ ~dangling
  BY <1>1, <1>2, Counted
<1> DEFINE g == IF a = Nothing THEN [frame[i] EXCEPT !.pending = FALSE]
                ELSE [Form!Retyped(frame[i], Form!Text(Number, a)) EXCEPT !.pending = FALSE]
<1>4. i \in DOMAIN frame /\ frame[i] \in Frames
  BY <1>2 DEF FormTyped, Form!TypeOK
<1>5. /\ g \in Frames /\ g.sendAll = frame[i].sendAll /\ g.remove = frame[i].remove
      /\ g.dying = frame[i].dying
  <2>1. CASE a = Nothing
    BY <1>4, <2>1 DEF Frames
  <2>2. CASE a # Nothing
    <3>1. Number \in Texts /\ a \in Texts
      BY DEF Texts
    <3> DEFINE h == Form!Retyped(frame[i], Form!Text(Number, a))
    <3>2. /\ h \in Frames /\ h.sendAll = frame[i].sendAll
          /\ h.remove = frame[i].remove /\ h.dying = frame[i].dying
      BY <1>4, <3>1, RetypedTyped
    <3> HIDE DEF h
    <3>3. g = [h EXCEPT !.pending = FALSE]
      BY <2>2 DEF h
    <3> QED
      BY <3>2, <3>3 DEF Frames
  <2> QED
    BY <2>1, <2>2
<1>6. frame' = frame \/ frame' = [frame EXCEPT ![i] = g]
  BY <1>1
<1>7. DOMAIN frame' = DOMAIN frame /\ \A j \in DOMAIN frame :
        /\ frame'[j] \in Frames
        /\ frame'[j].sendAll = frame[j].sendAll
        /\ frame'[j].remove = frame[j].remove
        /\ frame[j].dying # 0 => frame'[j].dying # 0
  <2> HIDE DEF g
  <2> QED
    BY <1>2, <1>4, <1>5, <1>6
<1>8. /\ {button', payid', dangling'} \subseteq BOOLEAN /\ queries' \subseteq DOMAIN frame
      /\ inputs' \in 0..MaxInputs
  BY <1>1, <1>2 DEF FormTyped, Form!TypeOK, Form!ReadyToSend
<1>9. open /\ button' => payid' /\ \A k \in DOMAIN list : Form!Valid(frame'[list[k]])
  <2>1. CASE Form!StillAsked(frame[i])
    BY <1>1, <2>1 DEF Form!ReadyToSend
  <2>2. CASE ~Form!StillAsked(frame[i])
    <3>1. frame' = frame /\ button' = button
      BY <1>1, <2>2
    <3> QED
      BY <1>1, <1>3, <3>1 DEF FormInv, Complete
  <2> QED
    BY <2>1, <2>2
<1> QED
  BY <1>1, <1>3, <1>7, <1>8, <1>9, ListStays

LEMMA AliasFoundKeeps ==
    ASSUME FormInv, Form!AliasFound
    PROVE  FormInv'
<1>1. PICK i \in DOMAIN frame, a \in Payees \cup {Nothing} :
        /\ Form!Dispatched
        /\ LET f == [frame[i] EXCEPT !.dns.last = "deleted"]
           IN  frame' = [frame EXCEPT ![i] =
                           IF a = Nothing THEN f ELSE Form!Retyped(f, Form!Text(Alias, a))]
        /\ button' = IF a = Nothing THEN button ELSE Form!ReadyToSend(list, frame', payid)
        /\ UNCHANGED <<open, list, made, stack, payid, queries, inputs, dangling>>
  BY DEF Form!AliasFound
<1>2. FormTyped /\ \A j \in DOMAIN frame : frame[j] \in Frames
  BY DEF FormInv, FormTyped
<1>3. nested' \in 0..MaxNested /\ (nested' = 0 => nested = 0) /\ ~dangling
  BY <1>1, <1>2, Counted
<1> DEFINE f == [frame[i] EXCEPT !.dns.last = "deleted"]
           g == IF a = Nothing THEN f ELSE Form!Retyped(f, Form!Text(Alias, a))
<1>4. /\ f \in Frames /\ f.sendAll = frame[i].sendAll /\ f.remove = frame[i].remove
      /\ f.dying = frame[i].dying /\ f.text = frame[i].text
  BY <1>2 DEF Frames, Lookups
<1>5. frame' = [frame EXCEPT ![i] = g]
  BY <1>1
<1> HIDE DEF f
<1>6. /\ g \in Frames /\ g.sendAll = frame[i].sendAll /\ g.remove = frame[i].remove
      /\ g.dying = frame[i].dying
  <2>1. Alias \in Texts /\ a \in Texts
    BY DEF Texts
  <2> QED
    BY <1>4, <2>1, RetypedTyped
<1>7. a = Nothing => g.text = frame[i].text
  BY <1>4
<1> HIDE DEF g
<1>8. DOMAIN frame' = DOMAIN frame /\ \A j \in DOMAIN frame :
        /\ frame'[j] \in Frames
        /\ frame'[j].sendAll = frame[j].sendAll
        /\ frame'[j].remove = frame[j].remove
        /\ frame[j].dying # 0 => frame'[j].dying # 0
        /\ a = Nothing => frame'[j].text = frame[j].text
  BY <1>2, <1>5, <1>6, <1>7
<1>9. /\ {button', payid', dangling'} \subseteq BOOLEAN /\ queries' \subseteq DOMAIN frame
      /\ inputs' \in 0..MaxInputs
  BY <1>1, <1>2 DEF FormTyped, Form!TypeOK, Form!ReadyToSend
<1>10. open /\ button' => payid' /\ \A k \in DOMAIN list : Form!Valid(frame'[list[k]])
  <2>1. CASE a # Nothing
    BY <1>1, <2>1 DEF Form!ReadyToSend
  <2>2. CASE a = Nothing
    <3>1. \A k \in DOMAIN list : list[k] \in DOMAIN frame
      BY <1>2 DEF FormTyped, Form!TypeOK, Form!ToSet
    <3>2. button' = button
      BY <1>1, <2>2
    <3> QED
      BY <1>1, <1>3, <1>8, <2>2, <3>1, <3>2 DEF FormInv, Complete, Form!Valid
  <2> QED
    BY <2>1, <2>2
<1> QED
  BY <1>1, <1>3, <1>8, <1>9, <1>10, ListStays

LEMMA OlderLookupKeeps ==
    ASSUME FormInv, Form!OlderLookupFinished
    PROVE  FormInv'
<1>1. PICK i \in DOMAIN frame :
        /\ Form!Dispatched /\ frame[i].dns.older > 0
        /\ dangling' = (frame[i].dns.last = "deleted")
        /\ frame' = [frame EXCEPT ![i].dns = [older |-> frame[i].dns.older - 1,
                                              last |-> "deleted"]]
        /\ UNCHANGED <<open, list, made, stack, button, payid, inputs, queries>>
  BY DEF Form!OlderLookupFinished
<1>2. FormTyped /\ \A j \in DOMAIN frame : frame[j] \in Frames
  BY DEF FormInv, FormTyped
<1>3. nested' \in 0..MaxNested /\ (nested' = 0 => nested = 0) /\ ~dangling
  BY <1>1, <1>2, Counted
<1>4. DOMAIN frame' = DOMAIN frame /\ \A j \in DOMAIN frame :
        /\ frame'[j] \in Frames
        /\ frame'[j].sendAll = frame[j].sendAll
        /\ frame'[j].remove = frame[j].remove
        /\ frame[j].dying # 0 => frame'[j].dying # 0
        /\ frame'[j].text = frame[j].text
  BY <1>1, <1>2 DEF Frames, Lookups
<1>5. /\ {button', payid', dangling'} \subseteq BOOLEAN /\ queries' \subseteq DOMAIN frame
      /\ inputs' \in 0..MaxInputs
  BY <1>1, <1>2 DEF FormTyped, Form!TypeOK
<1>6. \A k \in DOMAIN list : list[k] \in DOMAIN frame
  BY <1>2 DEF FormTyped, Form!TypeOK, Form!ToSet
<1>7. open /\ button' => payid' /\ \A k \in DOMAIN list : Form!Valid(frame'[list[k]])
  BY <1>1, <1>3, <1>4, <1>6 DEF FormInv, Complete, Form!Valid
<1> QED
  BY <1>1, <1>3, <1>4, <1>5, <1>7, ListStays

\* The stack after a call and after a return.
LEMMA Stacked ==
    ASSUME NEW s \in Seq(Reasons), NEW why \in Reasons
    PROVE  /\ Append(s, why) \in Seq(Reasons) /\ Len(Append(s, why)) = Len(s) + 1
           /\ \A k \in 1 .. Len(s) : Append(s, why)[k] = s[k]
           /\ Append(s, why)[Len(s) + 1] = why
           /\ Len(s) \in Nat /\ DOMAIN s = 1 .. Len(s)
           /\ s # <<>> =>
                /\ Form!Front(s) \in Seq(Reasons) /\ Len(Form!Front(s)) = Len(s) - 1
                /\ \A k \in 1 .. Len(s) - 1 : Form!Front(s)[k] = s[k]
                /\ Len(s) # 0
<1>1. Len(s) \in Nat /\ DOMAIN s = 1 .. Len(s) /\ (s # <<>> => Len(s) # 0)
  OBVIOUS
<1>2. /\ Append(s, why) \in Seq(Reasons) /\ Len(Append(s, why)) = Len(s) + 1
      /\ \A k \in 1 .. Len(s) : Append(s, why)[k] = s[k]
      /\ Append(s, why)[Len(s) + 1] = why
  OBVIOUS
<1>3. ASSUME s # <<>>
      PROVE  /\ Form!Front(s) \in Seq(Reasons) /\ Len(Form!Front(s)) = Len(s) - 1
             /\ \A k \in 1 .. Len(s) - 1 : Form!Front(s)[k] = s[k]
  <2>1. Form!Front(s) = [k \in 1 .. Len(s) - 1 |-> s[k]]
    BY <1>1, <1>3 DEF Form!Front
  <2>2. \A k \in 1 .. Len(s) - 1 : s[k] \in Reasons
    BY <1>1
  <2> QED
    BY <1>1, <1>3, <2>1, <2>2
<1> QED
  BY <1>1, <1>2, <1>3

\* addRecipientClicked: the new frame, and what becomes of the first.
IsAdded(fs, l) ==
  /\ DOMAIN fs = DOMAIN frame \cup {made + 1}
  /\ fs[made + 1] = Form!NewFrame(l = <<>>)
  /\ \A i \in DOMAIN frame \cup {made + 1} : fs[i] \in Frames
  /\ \A i \in DOMAIN frame :
       /\ fs[i].text = frame[i].text
       /\ fs[i].dying = frame[i].dying
       /\ \/ fs[i] = frame[i]
          \/ l # <<>> /\ i = l[1]
  /\ l # <<>> => /\ fs[l[1]].remove = TRUE
                 /\ fs[l[1]].sendAll = FALSE

LEMMA AddedFrames ==
    ASSUME made \in Nat, DOMAIN frame \subseteq 1 .. made,
           \A i \in DOMAIN frame : frame[i] \in Frames,
           NEW l \in Seq(Nat), Form!ToSet(l) \subseteq DOMAIN frame,
           NEW fs, fs = Form!Added(frame, l)
    PROVE  IsAdded(fs, l)
<1> DEFINE n == made + 1
           gs == [i \in DOMAIN frame \cup {n} |->
                    IF i = n THEN Form!NewFrame(l = <<>>) ELSE frame[i]]
<1>1. n \notin DOMAIN frame
  OBVIOUS
<1>2. Form!NewFrame(l = <<>>) \in Frames
  BY DEF Form!NewFrame, Frames, Form!Text, Form!NoLookup, Texts, Lookups
<1>3. /\ DOMAIN gs = DOMAIN frame \cup {n} /\ gs[n] = Form!NewFrame(l = <<>>)
      /\ \A i \in DOMAIN frame : gs[i] = frame[i]
      /\ \A i \in DOMAIN gs : gs[i] \in Frames
  BY <1>1, <1>2
<1> HIDE DEF gs
<1>4. CASE l = <<>>
  <2>1. fs = gs
    BY <1>4 DEF Form!Added, gs
  <2> QED
    BY <1>3, <1>4, <2>1 DEF IsAdded
<1>5. CASE l # <<>>
  <2>1. fs = [gs EXCEPT ![l[1]].remove = TRUE, ![l[1]].sendAll = FALSE]
    BY <1>5 DEF Form!Added, gs
  <2>2. l[1] \in DOMAIN frame
    BY <1>5 DEF Form!ToSet
  <2>3. /\ DOMAIN fs = DOMAIN gs
        /\ \A i \in DOMAIN gs : i # l[1] => fs[i] = gs[i]
    BY <2>1
  <2>4. fs[l[1]] = [gs[l[1]] EXCEPT !.remove = TRUE, !.sendAll = FALSE]
    BY <1>3, <2>1, <2>2 DEF Frames
  <2> DEFINE g == gs[l[1]]
             f == fs[l[1]]
  <2>10. g = frame[l[1]] /\ g \in Frames /\ f = [g EXCEPT !.remove = TRUE, !.sendAll = FALSE]
    BY <1>3, <2>2, <2>4
  <2> HIDE DEF g, f
  <2>11. /\ f \in Frames /\ f.text = g.text /\ f.dying = g.dying
         /\ f.remove = TRUE /\ f.sendAll = FALSE
    BY <2>10 DEF Frames
  <2>5. /\ fs[l[1]] \in Frames
        /\ fs[l[1]].text = frame[l[1]].text
        /\ fs[l[1]].dying = frame[l[1]].dying
        /\ fs[l[1]].remove = TRUE
        /\ fs[l[1]].sendAll = FALSE
    BY <2>10, <2>11 DEF f
  <2>6. l[1] # n /\ n \in DOMAIN gs /\ DOMAIN frame \subseteq DOMAIN gs
    BY <1>1, <1>3, <2>2
  <2>7. fs[n] = Form!NewFrame(l = <<>>)
    BY <1>3, <2>3, <2>6
  <2>8. \A i \in DOMAIN frame \cup {n} : fs[i] \in Frames
    BY <1>3, <2>3, <2>5
  <2>9. \A i \in DOMAIN frame : i = l[1] \/ fs[i] = frame[i]
    BY <1>3, <2>3, <2>6
  <2> QED
    BY <1>3, <1>5, <2>3, <2>5, <2>7, <2>8, <2>9 DEF IsAdded
<1> QED
  BY <1>4, <1>5

\* A frame is added to the list.
LEMMA ListGrows ==
    ASSUME FormInv, ~dangling, UNCHANGED <<stack, dangling, queries>>,
           made < MaxForms, made' = made + 1, list' = Append(list, made + 1),
           DOMAIN frame' = DOMAIN frame \cup {made + 1},
           \A i \in DOMAIN frame' : frame'[i] \in Frames,
           \A i \in DOMAIN frame :
             /\ frame'[i].dying = frame[i].dying
             /\ \/ frame'[i].sendAll = frame[i].sendAll /\ frame'[i].remove = frame[i].remove
                \/ list # <<>> /\ i = list[1],
           list # <<>> =>
             /\ frame'[list[1]].remove /\ ~frame'[list[1]].sendAll
             /\ frame'[made + 1].remove /\ ~frame'[made + 1].sendAll,
           {open', button', payid'} \subseteq BOOLEAN, open' # open => stack = <<>>,
           nested' \in 0..MaxNested, nested' = 0 => nested = 0 /\ ~Form!Clearing,
           inputs' \in 0..MaxInputs,
           button' => payid' /\ \A k \in DOMAIN list' : Form!Valid(frame'[list'[k]])
    PROVE  FormInv'
<1>1. /\ list \in Seq(Nat) /\ made \in Nat /\ Len(list) \in Nat
      /\ DOMAIN list = 1 .. Len(list)
      /\ \A k \in DOMAIN list : list[k] \in DOMAIN frame
      /\ DOMAIN frame \subseteq 1 .. made
      /\ \A j, k \in DOMAIN list : list[j] = list[k] => j = k
  BY DEF FormInv, FormTyped, Form!TypeOK, Form!ToSet, Form!IsInjective
<1>2. /\ list' \in Seq(Nat) /\ Len(list') = Len(list) + 1
      /\ DOMAIN list' = 1 .. Len(list) + 1
      /\ \A k \in DOMAIN list : list'[k] = list[k]
      /\ list'[Len(list) + 1] = made + 1
  BY <1>1
<1>3. FormTyped'
  <2>1. \A j, k \in DOMAIN list' : list'[j] = list'[k] => j = k
    BY <1>1, <1>2
  <2>2. \A k \in DOMAIN list' : list'[k] \in DOMAIN frame'
    BY <1>1, <1>2
  <2>3. DOMAIN frame' \subseteq 1 .. made' /\ made' \in 0 .. MaxForms
    BY <1>1, FormAssumption
  <2>4. Form!IsInjective(list') /\ Form!ToSet(list') \subseteq DOMAIN frame'
    BY <2>1, <2>2 DEF Form!ToSet, Form!IsInjective
  <2>5. FormTyped
    BY DEF FormInv
  <2>6. queries' \subseteq DOMAIN frame'
    BY <2>5 DEF FormTyped, Form!TypeOK
  <2>7. /\ open' \in BOOLEAN /\ button' \in BOOLEAN /\ payid' \in BOOLEAN
        /\ dangling' \in BOOLEAN
        /\ Len(stack') <= 3 /\ stack' \in Seq(Reasons)
        /\ Form!ToSet(stack') \subseteq Reasons
    BY <2>5 DEF FormTyped, Form!TypeOK, Reasons
  <2> QED
    BY <1>2, <2>3, <2>4, <2>6, <2>7
       DEF FormTyped, Form!TypeOK, Reasons
<1>4. Nesting'
  BY DEF FormInv, Nesting
<1>5. Screen'
  <2> SUFFICES ASSUME nested' = 0, NEW i \in DOMAIN frame', frame'[i].dying = 0
               PROVE  ~Form!Clearing' /\ i \in Form!ToSet(list')
    BY DEF Screen
  <2>1. ~Form!Clearing'
    BY DEF Form!Clearing, Form!Top, Form!Last
  <2>2. \A k \in DOMAIN list' : list'[k] \in Form!ToSet(list')
    BY DEF Form!ToSet
  <2>3. CASE i = made + 1
    BY <1>1, <1>2, <2>1, <2>2, <2>3
  <2>4. CASE i \in DOMAIN frame
    <3>1. PICK k \in DOMAIN list : i = list[k]
      BY <2>4 DEF FormInv, Screen, Form!ToSet
    <3> QED
      BY <1>1, <1>2, <2>1, <2>2, <3>1
  <2> QED
    BY <2>3, <2>4
<1>6. Complete'
  BY <1>1, <1>2 DEF Complete
<1>7. SoleOnly'
  <2> SUFFICES ASSUME NEW k \in DOMAIN list', frame'[list'[k]].dying = 0,
                      frame'[list'[k]].sendAll \/ ~frame'[list'[k]].remove
               PROVE  Len(list') = 1
    BY DEF SoleOnly
  <2>1. CASE list = <<>>
    BY <1>1, <1>2, <2>1
  <2>2. CASE list # <<>>
    <3>1. Len(list) > 0 /\ 1 \in DOMAIN list
      BY <1>1, <2>2
    <3>2. k # Len(list) + 1 /\ k # 1
      BY <1>1, <1>2, <2>2, <3>1
    <3>3. k \in DOMAIN list /\ list[k] \in DOMAIN frame /\ list[k] # list[1]
      BY <1>1, <1>2, <3>1, <3>2
    <3>4. Len(list) = 1
      BY <1>2, <2>2, <3>3 DEF FormInv, SoleOnly
    <3> QED
      BY <1>1, <1>2, <3>2, <3>4
  <2> QED
    BY <2>1, <2>2
<1> QED
  BY <1>3, <1>4, <1>5, <1>6, <1>7 DEF FormInv

\* What the two lemmas need of the list.
LEMMA ListFacts ==
    ASSUME FormInv
    PROVE  /\ made \in Nat /\ DOMAIN frame \subseteq 1 .. made
           /\ \A i \in DOMAIN frame : frame[i] \in Frames
           /\ list \in Seq(Nat) /\ Form!ToSet(list) \subseteq DOMAIN frame
           /\ open \in BOOLEAN /\ button \in BOOLEAN /\ payid \in BOOLEAN
           /\ dangling \in BOOLEAN
           /\ inputs \in 0..MaxInputs /\ nested \in 0..MaxNested
           /\ queries \subseteq DOMAIN frame
           /\ list # <<>> => list[1] \in DOMAIN frame
<1>1. FormTyped
  BY DEF FormInv
<1>2. made \in Nat /\ inputs \in 0..MaxInputs /\ nested \in 0..MaxNested
  BY <1>1, FormAssumption DEF FormTyped, Form!TypeOK
<1>3. list # <<>> => list[1] \in DOMAIN frame
  BY <1>1 DEF FormTyped, Form!TypeOK, Form!ToSet
<1> QED
  BY <1>1, <1>2, <1>3 DEF FormTyped, Form!TypeOK

\* A new frame at the end of the list, that is not filled in yet.
LEMMA FrameAdded ==
    ASSUME FormInv, Form!Dispatched, made < MaxForms,
           frame' = Form!Added(frame, list), made' = made + 1,
           list' = Append(list, made + 1), button' = FALSE,
           UNCHANGED <<stack, payid, queries, dangling>>,
           open' \in BOOLEAN, open' # open => stack = <<>>,
           inputs' \in 0..MaxInputs
    PROVE  FormInv'
<1>1. /\ nested' \in 0..MaxNested /\ ~dangling
      /\ nested' = 0 => nested = 0 /\ ~Form!Clearing
  BY Counted DEF FormInv
<1>2. Form!NewFrame(list = <<>>).sendAll = (list = <<>>)
      /\ Form!NewFrame(list = <<>>).remove = (list # <<>>)
  BY DEF Form!NewFrame
<1>3. IsAdded(frame', list)
  BY ListFacts, AddedFrames
<1>4. {open', button', payid'} \subseteq BOOLEAN
  BY ListFacts
<1>5. \A i \in DOMAIN frame :
        /\ frame'[i].dying = frame[i].dying
        /\ \/ frame'[i].sendAll = frame[i].sendAll /\ frame'[i].remove = frame[i].remove
           \/ list # <<>> /\ i = list[1]
  BY <1>3 DEF IsAdded
<1>6. list # <<>> =>
        /\ frame'[list[1]].remove /\ ~frame'[list[1]].sendAll
        /\ frame'[made + 1].remove /\ ~frame'[made + 1].sendAll
  BY <1>2, <1>3 DEF IsAdded
<1>7. DOMAIN frame' = DOMAIN frame \cup {made + 1} /\ \A i \in DOMAIN frame' : frame'[i] \in Frames
  BY <1>3 DEF IsAdded
<1> QED
  BY <1>1, <1>4, <1>5, <1>6, <1>7, ListGrows

LEMMA AddKeeps ==
    ASSUME FormInv, Form!AddRecipientClicked \/ Form!WalletOpened
    PROVE  FormInv'
<1>1. CASE Form!AddRecipientClicked
  <2>1. inputs' \in 0..MaxInputs
    BY <1>1, ListFacts, FormAssumption DEF Form!AddRecipientClicked, Form!User
  <2> QED
    BY <1>1, <2>1, ListFacts, FrameAdded DEF Form!AddRecipientClicked, Form!User
<1>2. CASE Form!WalletOpened
  BY <1>2, ListFacts, FrameAdded DEF Form!WalletOpened
<1> QED
  BY <1>1, <1>2

\* addRecipient fills the sole empty frame in, or a new one.
LEMMA AddRecipientKeeps ==
    ASSUME FormInv, Form!AddRecipient
    PROVE  FormInv'
<1> DEFINE one == Len(list) = 1 /\ Form!GetAddress(frame[list[1]].text) = Nothing
           fs == IF one THEN frame ELSE Form!Added(frame, list)
           l == IF one THEN list ELSE Append(list, made + 1)
<1>1. PICK a \in Payees :
        /\ Form!User /\ open /\ stack = <<>>
        /\ one \/ made < MaxForms
        /\ made' = IF one THEN made ELSE made + 1
        /\ list' = l
        /\ frame' = [fs EXCEPT ![l[Len(l)]] = Form!SetAddress(@, a)]
        /\ payid' \in BOOLEAN
        /\ button' = Form!ReadyToSend(l, frame', payid')
        /\ UNCHANGED <<open, stack, queries, dangling>>
  BY DEF Form!AddRecipient
<1> HIDE DEF one, fs, l
<1>2. /\ made \in Nat /\ DOMAIN frame \subseteq 1 .. made
      /\ \A i \in DOMAIN frame : frame[i] \in Frames
      /\ list \in Seq(Nat) /\ Form!ToSet(list) \subseteq DOMAIN frame
      /\ queries \subseteq DOMAIN frame /\ open \in BOOLEAN
      /\ list # <<>> => list[1] \in DOMAIN frame
      /\ dangling \in BOOLEAN
  BY ListFacts
<1>3. /\ nested' \in 0..MaxNested /\ ~dangling
      /\ nested' = 0 => nested = 0 /\ ~Form!Clearing
  BY <1>1, Counted DEF FormInv, Form!User
<1>4. inputs' \in 0..MaxInputs
  BY <1>1, ListFacts, FormAssumption DEF Form!User
<1>5. a \in Texts
  BY <1>1 DEF Texts
<1>6. button' \in BOOLEAN
      /\ (button' => payid' /\ \A k \in DOMAIN list' : Form!Valid(frame'[list'[k]]))
  BY <1>1 DEF Form!ReadyToSend
<1>7. CASE one
  <2>1. Len(l) = 1 /\ l = list /\ fs = frame /\ list # <<>>
    <3>1. Len(list) = 1
      BY <1>7 DEF one
    <3>2. l = list /\ fs = frame
      BY <1>7 DEF fs, l
    <3>3. list # <<>>
      BY <3>1
    <3> QED
      BY <3>1, <3>2, <3>3
  <2>2. frame' = [frame EXCEPT ![list[1]] = Form!SetAddress(@, a)]
    BY <1>1, <2>1
  <2>3. DOMAIN frame' = DOMAIN frame /\ \A j \in DOMAIN frame :
        /\ frame'[j] \in Frames
        /\ frame'[j].sendAll = frame[j].sendAll
        /\ frame'[j].remove = frame[j].remove
        /\ frame[j].dying # 0 => frame'[j].dying # 0
    BY <1>2, <1>5, <2>1, <2>2, AddressSet
  <2>4. UNCHANGED <<open, list, made, stack>>
    BY <1>1, <1>7, <2>1
  <2>5. {button', payid', dangling'} \subseteq BOOLEAN /\ queries' \subseteq DOMAIN frame
    BY <1>1, <1>2, <1>6
  <2>6. button' => payid' /\ \A k \in DOMAIN list : Form!Valid(frame'[list[k]])
    BY <1>6, <2>4
  <2> QED
    BY <1>1, <1>3, <1>4, <2>3, <2>4, <2>5, <2>6, ListStays
<1>8. CASE ~one
  <2> DEFINE n == made + 1
  <2>1. l = Append(list, n) /\ fs = Form!Added(frame, list) /\ l[Len(l)] = n
    BY <1>2, <1>8 DEF fs, l
  <2>13. IsAdded(fs, list)
    BY <1>2, <2>1, AddedFrames
  <2>2. /\ DOMAIN fs = DOMAIN frame \cup {n}
        /\ fs[n] = Form!NewFrame(list = <<>>)
        /\ \A i \in DOMAIN frame \cup {n} : fs[i] \in Frames
        /\ \A i \in DOMAIN frame :
             /\ fs[i].dying = frame[i].dying
             /\ \/ fs[i] = frame[i]
                \/ list # <<>> /\ i = list[1]
        /\ list # <<>> => /\ fs[list[1]].remove = TRUE
                          /\ fs[list[1]].sendAll = FALSE
    BY <2>13 DEF IsAdded
  <2>3. Form!NewFrame(list = <<>>).sendAll = (list = <<>>)
        /\ Form!NewFrame(list = <<>>).remove = (list # <<>>)
    BY DEF Form!NewFrame
  <2>4. frame' = [fs EXCEPT ![n] = Form!SetAddress(@, a)]
    BY <1>1, <2>1
  <2>5. n \notin DOMAIN frame
    BY <1>2
  <2>6. /\ Form!SetAddress(fs[n], a) \in Frames
        /\ Form!SetAddress(fs[n], a).sendAll = fs[n].sendAll
        /\ Form!SetAddress(fs[n], a).remove = fs[n].remove
    BY <1>5, <2>2, AddressSet
  <2>7. /\ DOMAIN frame' = DOMAIN frame \cup {n}
        /\ frame'[n] = Form!SetAddress(fs[n], a)
        /\ \A i \in DOMAIN frame : frame'[i] = fs[i]
    BY <2>2, <2>4, <2>5
  <2>8. \A i \in DOMAIN frame' : frame'[i] \in Frames
    BY <2>2, <2>6, <2>7
  <2>9. \A i \in DOMAIN frame :
        /\ frame'[i].dying = frame[i].dying
        /\ \/ frame'[i].sendAll = frame[i].sendAll /\ frame'[i].remove = frame[i].remove
           \/ list # <<>> /\ i = list[1]
    BY <2>2, <2>7
  <2>10. list # <<>> =>
        /\ frame'[list[1]].remove /\ ~frame'[list[1]].sendAll
        /\ frame'[n].remove /\ ~frame'[n].sendAll
    <3> SUFFICES ASSUME list # <<>>
                 PROVE  /\ frame'[list[1]].remove /\ ~frame'[list[1]].sendAll
                        /\ frame'[n].remove /\ ~frame'[n].sendAll
      OBVIOUS
    <3>1. frame'[list[1]] = fs[list[1]]
      BY <1>2, <2>7
    <3> QED
      BY <2>2, <2>3, <2>6, <2>7, <3>1
  <2>11. /\ made < MaxForms /\ made' = made + 1 /\ list' = Append(list, made + 1)
         /\ UNCHANGED <<stack, dangling, queries>> /\ open' = open
    BY <1>1, <1>8, <2>1
  <2>12. {open', button', payid'} \subseteq BOOLEAN
    BY <1>1, <1>2, <1>6
  <2> QED
    BY <1>3, <1>4, <1>6, <2>7, <2>8, <2>9, <2>10, <2>11, <2>12, ListGrows
<1> QED
  BY <1>7, <1>8

-----------------------------------------------------------------------------
\* Two sequences, one after the other.
IsJoined(m, a, b) ==
  /\ m \in Seq(Nat) /\ Len(m) = Len(a) + Len(b)
  /\ \A j \in 1 .. Len(a) : m[j] = a[j]
  /\ \A j \in 1 .. Len(b) : m[Len(a) + j] = b[j]

LEMMA Joined ==
    ASSUME NEW a \in Seq(Nat), NEW b \in Seq(Nat)
    PROVE  IsJoined(a \o b, a, b)
BY DEF IsJoined

\* A sequence without its k-th element.
IsTakenOut(m, s, k) ==
  /\ m \in Seq(Nat) /\ Len(m) = Len(s) - 1
  /\ \A j \in 1 .. (k - 1) : m[j] = s[j]
  /\ \A j \in (k + 1) .. Len(s) : m[j - 1] = s[j]

LEMMA OneTakenOut ==
    ASSUME NEW s \in Seq(Nat), NEW k \in 1 .. Len(s)
    PROVE  IsTakenOut(SubSeq(s, 1, k - 1) \o SubSeq(s, k + 1, Len(s)), s, k)
<1> DEFINE a == SubSeq(s, 1, k - 1)
           b == SubSeq(s, k + 1, Len(s))
<1>1. a \in Seq(Nat) /\ Len(a) = k - 1 /\ \A j \in 1 .. (k - 1) : a[j] = s[j]
  OBVIOUS
<1>2. b \in Seq(Nat) /\ Len(b) = Len(s) - k /\ \A j \in 1 .. (Len(s) - k) : b[j] = s[j + k]
  OBVIOUS
<1> DEFINE m == a \o b
<1> HIDE DEF a, b
<1>3. a \in Seq(Nat) /\ b \in Seq(Nat)
  BY <1>1, <1>2
<1>4. IsJoined(m, a, b)
  BY <1>3, Joined
<1> HIDE DEF m
<1>5. /\ m \in Seq(Nat) /\ Len(m) = Len(a) + Len(b)
      /\ Len(a) = k - 1 /\ Len(b) = Len(s) - k
      /\ \A j \in 1 .. Len(a) : m[j] = a[j]
      /\ \A j \in 1 .. Len(b) : m[Len(a) + j] = b[j]
  BY <1>1, <1>2, <1>4 DEF IsJoined
<1>6. Len(s) \in Nat /\ k \in Nat /\ 1 <= k /\ k <= Len(s)
  OBVIOUS
<1>7. Len(m) = Len(s) - 1
  BY <1>5, <1>6
<1>8. \A j \in 1 .. (k - 1) : m[j] = s[j]
  BY <1>1, <1>5
<1>9. ASSUME NEW j \in (k + 1) .. Len(s)
      PROVE  m[j - 1] = s[j]
  <2>1. j - k \in 1 .. Len(b) /\ Len(a) + (j - k) = j - 1 /\ j - k + k = j
    BY <1>5, <1>6
  <2>2. m[Len(a) + (j - k)] = b[j - k]
    BY <1>5, <2>1
  <2>3. b[j - k] = s[j - k + k]
    BY <1>2, <1>5, <2>1
  <2> QED
    BY <2>1, <2>2, <2>3
<1>10. IsTakenOut(m, s, k)
  BY <1>5, <1>7, <1>8, <1>9 DEF IsTakenOut
<1> QED
  BY <1>10 DEF m, a, b

\* A sequence without its first, and only, e.
IsWithout(l, s, e) ==
  /\ l \in Seq(Nat)
  /\ Form!ToSet(l) = Form!ToSet(s) \ {e}
  /\ \A i, j \in DOMAIN l : l[i] = l[j] => i = j
  /\ Len(l) <= Len(s)
  /\ e \notin Form!ToSet(s) => l = s

LEMMA FirstRemoved ==
    ASSUME NEW s \in Seq(Nat), NEW e, \A i, j \in DOMAIN s : s[i] = s[j] => i = j
    PROVE  IsWithout(Form!RemoveFirst(s, e), s, e)
<1> DEFINE l == Form!RemoveFirst(s, e)
<1> SUFFICES IsWithout(l, s, e)
  OBVIOUS
<1> HIDE DEF l
<1>1. Len(s) \in Nat /\ DOMAIN s = 1 .. Len(s) /\ \A k \in 1 .. Len(s) : s[k] \in Nat
  OBVIOUS
<1>2. CASE e \notin Form!ToSet(s)
  <2>1. l = s
    BY <1>2 DEF l, Form!RemoveFirst, Form!SelectInSeq, Form!ToSet
  <2> QED
    BY <1>1, <1>2, <2>1 DEF IsWithout
<1>3. ASSUME NEW k \in 1 .. Len(s), s[k] = e
      PROVE  IsWithout(l, s, e)
  <2>1. \A j \in 1 .. Len(s) : s[j] = e <=> j = k
    BY <1>1, <1>3
  <2>2. l = SubSeq(s, 1, k - 1) \o SubSeq(s, k + 1, Len(s))
    <3>1. {j \in 1 .. Len(s) : s[j] = e} = {k}
      BY <1>1, <2>1
    <3>2. Form!Min({k}) = k
      BY DEF Form!Min
    <3>3. Form!SelectInSeq(s, LAMBDA x : x = e) = k
      BY <3>1, <3>2 DEF Form!SelectInSeq
    <3> QED
      BY <1>1, <1>3, <3>3 DEF l, Form!RemoveFirst, Form!RemoveAt
  <2>3. /\ l \in Seq(Nat) /\ Len(l) = Len(s) - 1
        /\ \A j \in 1 .. (k - 1) : l[j] = s[j]
        /\ \A j \in (k + 1) .. Len(s) : l[j - 1] = s[j]
    BY <2>2, OneTakenOut DEF IsTakenOut
  <2>4. DOMAIN l = 1 .. (Len(s) - 1)
    BY <2>3
  <2>5. \A i \in DOMAIN l : \E j \in 1 .. Len(s) :
          /\ j # k /\ l[i] = s[j]
          /\ (j = i /\ i < k) \/ (j = i + 1 /\ i >= k)
    <3> TAKE i \in DOMAIN l
    <3>1. CASE i < k
      <4>1. i \in 1 .. Len(s) /\ i # k /\ l[i] = s[i]
        BY <1>1, <2>3, <2>4, <3>1
      <4> QED
        BY <3>1, <4>1
    <3>2. CASE i >= k
      <4>1. PICK j \in Nat : j = i + 1
        BY <1>1, <2>4
      <4>2. j \in (k + 1) .. Len(s) /\ j \in 1 .. Len(s) /\ j # k /\ j - 1 = i
        BY <1>1, <2>4, <3>2, <4>1
      <4>3. l[j - 1] = s[j]
        BY <2>3, <4>2
      <4>4. l[i] = s[j]
        BY <4>2, <4>3
      <4> QED
        BY <3>2, <4>1, <4>2, <4>4
    <3> QED
      BY <1>1, <2>4, <3>1, <3>2
  <2>6. ASSUME NEW i \in DOMAIN l, NEW j \in DOMAIN l, l[i] = l[j]
        PROVE  i = j
    <3>1. PICK p \in 1 .. Len(s) : l[i] = s[p] /\ ((p = i /\ i < k) \/ (p = i + 1 /\ i >= k))
      BY <2>5
    <3>2. PICK q \in 1 .. Len(s) : l[j] = s[q] /\ ((q = j /\ j < k) \/ (q = j + 1 /\ j >= k))
      BY <2>5
    <3>3. p = q
      BY <1>1, <2>6, <3>1, <3>2
    <3>4. i \in Nat /\ j \in Nat
      BY <1>1, <2>4
    <3> QED
      BY <1>1, <3>1, <3>2, <3>3, <3>4
  <2>7. \A x \in Form!ToSet(l) : x \in Form!ToSet(s) \ {e}
    BY <1>1, <2>1, <2>5 DEF Form!ToSet
  <2>8. ASSUME NEW x \in Form!ToSet(s) \ {e}
        PROVE  x \in Form!ToSet(l)
    <3>1. PICK j \in 1 .. Len(s) : s[j] = x /\ j # k
      BY <1>1, <1>3 DEF Form!ToSet
    <3>2. CASE j < k
      <4>1. j \in DOMAIN l /\ l[j] = x
        BY <1>1, <2>3, <2>4, <3>1, <3>2
      <4> QED
        BY <4>1 DEF Form!ToSet
    <3>3. CASE j > k
      <4>1. j \in (k + 1) .. Len(s) /\ j - 1 \in DOMAIN l
        BY <1>1, <2>4, <3>3
      <4>2. l[j - 1] = x
        BY <2>3, <3>1, <4>1
      <4> QED
        BY <4>1, <4>2 DEF Form!ToSet
    <3> QED
      BY <1>1, <3>1, <3>2, <3>3
  <2> QED
    <3>1. Form!ToSet(l) = Form!ToSet(s) \ {e}
      BY <2>7, <2>8
    <3>2. e \in Form!ToSet(s)
      BY <1>1, <1>3 DEF Form!ToSet
    <3>3. Len(l) <= Len(s)
      BY <1>1, <2>3
    <3> QED
      BY <2>3, <2>6, <3>1, <3>2, <3>3 DEF IsWithout
<1>4. e \in Form!ToSet(s) => \E k \in 1 .. Len(s) : s[k] = e
  BY <1>1 DEF Form!ToSet
<1> QED
  BY <1>2, <1>3, <1>4

\* A frame is deleted, and what the slot makes of the list.
LEMMA DestroyedKeeps ==
    ASSUME FormInv, Form!Destroyed
    PROVE  FormInv'
<1>1. PICK i \in DOMAIN frame :
        /\ ~dangling
        /\ LET l == Form!RemoveFirst(list, i)
               fs == [j \in DOMAIN frame \ {i} |->
                        IF Len(l) = 1 /\ j = l[1]
                        THEN [frame[j] EXCEPT !.remove = FALSE, !.sendAll = TRUE]
                        ELSE frame[j]]
           IN  /\ frame' = fs
               /\ IF list = <<>> THEN UNCHANGED <<list, button, dangling>>
                  ELSE /\ list' = l
                       /\ dangling' = (l = <<>>)
                       /\ button' = Form!ReadyToSend(l, fs, payid)
        /\ queries' = queries \ {i}
        /\ UNCHANGED <<open, made, stack, payid, nested, inputs>>
  BY DEF Form!Destroyed
<1> DEFINE l == Form!RemoveFirst(list, i)
<1>2. /\ frame' = [j \in DOMAIN frame \ {i} |->
                     IF Len(l) = 1 /\ j = l[1]
                     THEN [frame[j] EXCEPT !.remove = FALSE, !.sendAll = TRUE]
                     ELSE frame[j]]
      /\ list # <<>> => /\ list' = l
                        /\ dangling' = (l = <<>>)
                        /\ button' = Form!ReadyToSend(l, frame', payid)
      /\ list = <<>> => UNCHANGED <<list, button, dangling>>
  BY <1>1
<1>3. /\ made \in Nat /\ DOMAIN frame \subseteq 1 .. made
      /\ \A j \in DOMAIN frame : frame[j] \in Frames
      /\ list \in Seq(Nat) /\ Form!ToSet(list) \subseteq DOMAIN frame
      /\ queries \subseteq DOMAIN frame
      /\ button \in BOOLEAN
  BY ListFacts
<1>4. \A j, k \in DOMAIN list : list[j] = list[k] => j = k
  BY DEF FormInv, FormTyped, Form!TypeOK, Form!IsInjective
<1>5. IsWithout(l, list, i)
  BY <1>3, <1>4, FirstRemoved
<1> HIDE DEF l
<1>6. /\ l \in Seq(Nat) /\ Form!ToSet(l) = Form!ToSet(list) \ {i}
      /\ \A j, k \in DOMAIN l : l[j] = l[k] => j = k
      /\ Len(l) <= Len(list)
      /\ i \notin Form!ToSet(list) => l = list
  BY <1>5 DEF IsWithout
<1>7. /\ list' = l
      /\ dangling' = (list # <<>> /\ l = <<>>)
      /\ list # <<>> => button' = Form!ReadyToSend(l, frame', payid)
      /\ button' \in BOOLEAN
  <2>1. CASE list = <<>>
    <3>1. i \notin Form!ToSet(list)
      BY <2>1 DEF Form!ToSet
    <3>2. l = list /\ list' = list
      BY <1>2, <1>6, <2>1, <3>1
    <3>3. dangling' = dangling /\ dangling = FALSE /\ button' = button
      BY <1>1, <1>2, <2>1, ListFacts
    <3> QED
      BY <1>3, <2>1, <3>2, <3>3
  <2>2. CASE list # <<>>
    BY <1>2, <2>2 DEF Form!ReadyToSend
  <2> QED
    BY <2>1, <2>2
<1>8. DOMAIN frame' = DOMAIN frame \ {i} /\ \A j \in DOMAIN frame' :
        /\ frame'[j] \in Frames
        /\ frame'[j].dying = frame[j].dying
        /\ Len(l) # 1 => frame'[j] = frame[j]
  <2>1. \A f \in Frames :
          /\ [f EXCEPT !.remove = FALSE, !.sendAll = TRUE] \in Frames
          /\ [f EXCEPT !.remove = FALSE, !.sendAll = TRUE].dying = f.dying
    BY DEF Frames
  <2> QED
    BY <1>2, <1>3, <2>1
<1>9. \A k \in DOMAIN l : l[k] \in Form!ToSet(list) /\ l[k] # i /\ l[k] \in DOMAIN frame'
  BY <1>3, <1>6, <1>8 DEF Form!ToSet
<1>10. FormTyped'
  <2>1. Form!IsInjective(l) /\ Form!ToSet(l) \subseteq DOMAIN frame'
    BY <1>6, <1>9 DEF Form!ToSet, Form!IsInjective
  <2>2. DOMAIN frame' \subseteq 1 .. made' /\ queries' \subseteq DOMAIN frame'
    BY <1>1, <1>3, <1>8
  <2>3. FormTyped
    BY DEF FormInv
  <2>4. /\ open' \in BOOLEAN /\ button' \in BOOLEAN /\ payid' \in BOOLEAN
        /\ dangling' \in BOOLEAN
        /\ Len(stack') <= 3 /\ stack' \in Seq(Reasons)
        /\ Form!ToSet(stack') \subseteq Reasons
    BY <1>1, <1>7, <2>3 DEF FormTyped, Form!TypeOK, Reasons
  <2>5. /\ made' \in 0 .. MaxForms /\ nested' \in 0 .. MaxNested
        /\ inputs' \in 0 .. MaxInputs
    BY <1>1, <2>3 DEF FormTyped, Form!TypeOK
  <2> QED
    BY <1>6, <1>7, <1>8, <2>1, <2>2, <2>4, <2>5 DEF FormTyped, Form!TypeOK, Reasons
<1>11. Nesting'
  BY <1>1 DEF FormInv, Nesting
<1>12. Screen'
  <2> SUFFICES ASSUME nested' = 0, NEW j \in DOMAIN frame', frame'[j].dying = 0
               PROVE  ~Form!Clearing' /\ j \in Form!ToSet(list')
    BY DEF Screen
  <2>1. j \in DOMAIN frame /\ j # i /\ frame[j].dying = 0
    BY <1>8
  <2>2. ~Form!Clearing /\ j \in Form!ToSet(list)
    BY <1>1, <2>1 DEF FormInv, Screen
  <2>3. ~Form!Clearing'
    BY <1>1, <2>2 DEF Form!Clearing, Form!Top, Form!Last
  <2>4. j \in Form!ToSet(l)
    BY <1>6, <2>1, <2>2
  <2> QED
    BY <1>7, <2>3, <2>4
<1>13. Complete'
  <2> SUFFICES ASSUME open', ~dangling'
               PROVE  /\ list' # <<>>
                      /\ button' => payid' /\ \A k \in DOMAIN list' : Form!Valid(frame'[list'[k]])
    BY DEF Complete
  <2>1. list # <<>>
    BY <1>1 DEF FormInv, Complete
  <2>2. l # <<>> /\ button' = Form!ReadyToSend(l, frame', payid)
    BY <1>7, <2>1
  <2> QED
    BY <1>1, <1>7, <2>2 DEF Form!ReadyToSend
<1>14. SoleOnly'
  <2> SUFFICES ASSUME NEW k \in DOMAIN l, frame'[l[k]].dying = 0,
                      frame'[l[k]].sendAll \/ ~frame'[l[k]].remove, Len(l) # 1
               PROVE  FALSE
    BY <1>7 DEF SoleOnly
  <2>1. frame'[l[k]] = frame[l[k]] /\ l[k] \in Form!ToSet(list)
    BY <1>8, <1>9
  <2>2. PICK j \in DOMAIN list : list[j] = l[k]
    BY <2>1 DEF Form!ToSet
  <2>3. Len(list) = 1
    BY <1>1, <2>1, <2>2 DEF FormInv, SoleOnly
  <2>4. Len(l) \in Nat /\ k \in 1 .. Len(l)
    BY <1>6
  <2>5. Len(l) <= 1
    BY <1>6, <2>3
  <2> DEFINE n == Len(l)
  <2> HIDE DEF n
  <2>6. n \in Nat /\ k \in 1 .. n /\ n <= 1
    BY <2>4, <2>5 DEF n
  <2>7. n = 1
    BY <2>6
  <2> QED
    BY <2>7 DEF n
<1> QED
  BY <1>10, <1>11, <1>12, <1>13, <1>14 DEF FormInv

-----------------------------------------------------------------------------
\* While nothing is cleared but by clearAll itself, what is on top of the stack
\* is a dialog or nothing.
LEMMA AllConfirm ==
    ASSUME FormInv, nested = 0, ~Form!Clearing
    PROVE  \A k \in DOMAIN stack : stack[k] = "confirm"
<1>1. stack \in Seq(Reasons) /\ \A k \in 1 .. Len(stack) - 1 : stack[k] = "confirm"
  BY DEF FormInv, FormTyped, Nesting
<1>2. stack # <<>> => stack[Len(stack)] \in Reasons \ {"sent", "url", "closed"}
  BY <1>1 DEF Form!Clearing, Form!Top, Form!Last, Reasons
<1>3. stack # <<>> => stack[Len(stack)] = "confirm"
  BY <1>2 DEF Reasons
<1> QED
  BY <1>1, <1>3

\* The dialog opens and closes; nothing else changes but what it stands on.
LEMMA StackChanges ==
    ASSUME FormInv,
           UNCHANGED <<open, frame, list, made, button, payid, queries, dangling>>,
           nested' \in 0..MaxNested, nested' = 0 => nested = 0, inputs' \in 0..MaxInputs,
           stack' \in Seq(Reasons), Len(stack') <= 3,
           \A k \in DOMAIN stack' : stack'[k] = "closed" => ~open,
           nested' = 0 => \A k \in DOMAIN stack' : stack'[k] = "confirm"
    PROVE  FormInv'
<1>1. ~Form!Clearing' \/ nested' # 0
  BY DEF Form!Clearing, Form!Top, Form!Last
<1>2. FormTyped'
  <2>1. Form!ToSet(stack') \subseteq Reasons
    BY DEF Form!ToSet
  <2> QED
    BY <2>1 DEF FormInv, FormTyped, Form!TypeOK, Form!IsInjective, Form!ToSet, Reasons
<1>3. Nesting'
  BY DEF Nesting
<1>4. Screen'
  BY <1>1 DEF FormInv, Screen, Form!ToSet
<1>5. Complete'
  BY DEF FormInv, Complete
<1>6. SoleOnly'
  BY DEF FormInv, SoleOnly
<1> QED
  BY <1>2, <1>3, <1>4, <1>5, <1>6 DEF FormInv

LEMMA SendClickedKeeps ==
    ASSUME FormInv, Form!SendClicked
    PROVE  FormInv'
<1>1. /\ Form!User /\ open /\ Len(stack) < 3
      /\ stack' = Append(stack, "confirm")
      /\ UNCHANGED <<open, frame, list, made, button, payid, queries, dangling>>
  BY DEF Form!SendClicked
<1>2. /\ nested' \in 0..MaxNested
      /\ nested' = 0 => nested = 0 /\ ~Form!Clearing
  BY <1>1, Counted DEF FormInv, Form!User
<1>3. inputs' \in 0..MaxInputs
  BY <1>1, ListFacts, FormAssumption DEF Form!User
<1>4. stack \in Seq(Reasons) /\ \A k \in DOMAIN stack : stack[k] # "closed"
  BY <1>1 DEF FormInv, FormTyped, Nesting
<1>5. "confirm" \in Reasons
  BY DEF Reasons
<1>6. /\ stack' \in Seq(Reasons) /\ Len(stack') = Len(stack) + 1
      /\ \A k \in 1 .. Len(stack) : stack'[k] = stack[k]
      /\ stack'[Len(stack) + 1] = "confirm"
      /\ Len(stack) \in Nat
  BY <1>1, <1>4, <1>5, Stacked
<1>7. DOMAIN stack' = 1 .. Len(stack) + 1 /\ DOMAIN stack = 1 .. Len(stack)
  BY <1>4, <1>6
<1>8. nested' = 0 => \A k \in DOMAIN stack : stack[k] = "confirm"
  BY <1>2, AllConfirm
<1>9. nested' = 0 => \A k \in DOMAIN stack' : stack'[k] = "confirm"
  BY <1>6, <1>7, <1>8
<1>10. \A k \in DOMAIN stack' : stack'[k] # "closed"
  BY <1>4, <1>6, <1>7
<1> QED
  BY <1>1, <1>2, <1>3, <1>6, <1>9, <1>10, StackChanges

LEMMA NotSentKeeps ==
    ASSUME FormInv, Form!NotSent
    PROVE  FormInv'
<1>1. /\ Form!Top = "confirm" /\ stack' = Form!Front(stack)
      /\ UNCHANGED <<open, frame, list, made, button, payid, queries, nested, inputs, dangling>>
  BY DEF Form!NotSent
<1>2. stack \in Seq(Reasons) /\ stack # <<>> /\ Len(stack) <= 3
  BY <1>1 DEF FormInv, FormTyped, Form!TypeOK, Form!Top
<1>3. "confirm" \in Reasons
  BY DEF Reasons
<1>4. /\ stack' \in Seq(Reasons) /\ Len(stack') = Len(stack) - 1 /\ Len(stack) \in Nat
      /\ \A k \in 1 .. Len(stack) - 1 : stack'[k] = stack[k]
  BY <1>1, <1>2, <1>3, Stacked
<1>5. DOMAIN stack' = 1 .. Len(stack) - 1 /\ DOMAIN stack = 1 .. Len(stack)
  BY <1>2, <1>4
<1>6. \A k \in DOMAIN stack' : stack'[k] = "closed" => ~open
  BY <1>4, <1>5 DEF FormInv, Nesting
<1>7. nested' = 0 => \A k \in DOMAIN stack' : stack'[k] = "confirm"
  BY <1>1, <1>4, <1>5 DEF FormInv, Nesting
<1>8. nested' \in 0..MaxNested /\ inputs' \in 0..MaxInputs
  BY <1>1, ListFacts
<1> QED
  BY <1>1, <1>2, <1>4, <1>6, <1>7, <1>8, StackChanges

\* clearAll begins: every frame in the list is about to be deleted.
LEMMA ClearBegins ==
    ASSUME FormInv, NEW why \in {"sent", "url", "closed"}, Form!BeginClear(why),
           UNCHANGED <<list, made, button, payid, queries, dangling>>,
           open' \in BOOLEAN, open' => open, why = "closed" => ~open',
           why = "sent" => Form!Top = "confirm",
           nested' \in 0..MaxNested, nested' = 0 => nested = 0 /\ ~Form!Clearing,
           inputs' \in 0..MaxInputs
    PROVE  FormInv'
<1>1. /\ Len(stack) < 3
      /\ stack' = Append(IF why = "sent" THEN Form!Front(stack) ELSE stack, why)
      /\ frame' = [i \in DOMAIN frame |->
           IF Form!Contains(list, i)
           THEN [frame[i] EXCEPT !.dying = Form!Max({@, Form!Dying}), !.sendAll = TRUE]
           ELSE frame[i]]
  BY DEF Form!BeginClear
<1>2. /\ FormTyped /\ \A j \in DOMAIN frame : frame[j] \in Frames
      /\ stack \in Seq(Reasons) /\ why \in Reasons
      /\ \A k \in DOMAIN list : list[k] \in DOMAIN frame
  BY DEF FormInv, FormTyped, Form!TypeOK, Reasons, Form!ToSet
<1> DEFINE s == IF why = "sent" THEN Form!Front(stack) ELSE stack
<1>3. /\ s \in Seq(Reasons) /\ Len(s) \in Nat /\ Len(s) <= Len(stack)
      /\ DOMAIN s = 1 .. Len(s) /\ DOMAIN stack = 1 .. Len(stack)
      /\ \A k \in 1 .. Len(s) : s[k] = stack[k] /\ k \in DOMAIN stack
  <2>1. CASE why # "sent"
    BY <1>2, <2>1
  <2>2. CASE why = "sent"
    <3>1. stack # <<>>
      BY <2>2 DEF Form!Top
    <3>2. /\ s \in Seq(Reasons) /\ Len(s) = Len(stack) - 1
          /\ \A k \in 1 .. Len(stack) - 1 : s[k] = stack[k]
          /\ Len(stack) \in Nat /\ DOMAIN stack = 1 .. Len(stack) /\ Len(stack) # 0
      BY <1>2, <2>2, <3>1, Stacked
    <3> HIDE DEF s
    <3>3. DOMAIN s = 1 .. Len(s) /\ Len(s) \in Nat
      BY <3>2
    <3> QED
      BY <3>2, <3>3
  <2> QED
    BY <2>1, <2>2
<1> HIDE DEF s
<1>4. stack' = Append(s, why)
  BY <1>1 DEF s
<1>5. /\ stack' \in Seq(Reasons) /\ Len(stack') = Len(s) + 1
      /\ \A k \in 1 .. Len(s) : stack'[k] = s[k]
      /\ stack'[Len(s) + 1] = why
  BY <1>2, <1>3, <1>4, Stacked
<1>6. DOMAIN stack' = 1 .. Len(s) + 1 /\ Len(stack') <= 3
  <2>1. DOMAIN stack' = 1 .. Len(s) + 1
    BY <1>5
  <2>2. Len(stack) \in Nat /\ Len(stack) < 3
    <3>1. Len(stack) \in Nat
      BY <1>2
    <3>2. Len(stack) < 3
      BY <1>1
    <3> QED
      BY <3>1, <3>2
  <2>3. Len(stack') <= 3
    <3>1. Len(s) < 3 /\ Len(s) \in Nat
      BY <1>3, <2>2
    <3>2. Len(stack') = Len(s) + 1
      BY <1>5
    <3> QED
      BY <3>1, <3>2
  <2> QED
    BY <2>1, <2>3
<1>7. DOMAIN frame' = DOMAIN frame /\ \A i \in DOMAIN frame :
        /\ frame'[i] \in Frames
        /\ frame'[i].text = frame[i].text
        /\ Form!Contains(list, i) => frame'[i].dying # 0
        /\ ~Form!Contains(list, i) => frame'[i] = frame[i]
  <2>1. \A f \in Frames :
          LET g == [f EXCEPT !.dying = Form!Max({f.dying, Form!Dying}), !.sendAll = TRUE]
          IN  g \in Frames /\ g.text = f.text /\ g.dying # 0
    <3> SUFFICES ASSUME NEW f \in Frames
                 PROVE  LET g == [f EXCEPT !.dying = Form!Max({f.dying, Form!Dying}), !.sendAll = TRUE]
                        IN  g \in Frames /\ g.text = f.text /\ g.dying # 0
      OBVIOUS
    <3>1. f.dying \in 0..2 /\ Form!Dying \in 1..2
      BY DEF Frames, Form!Dying
    <3>2. Form!Max({f.dying, Form!Dying}) \in 1..2
      <4>1. \E x \in {f.dying, Form!Dying} : \A y \in {f.dying, Form!Dying} : x >= y
        BY <3>1
      <4>2. /\ Form!Max({f.dying, Form!Dying}) \in {f.dying, Form!Dying}
            /\ Form!Max({f.dying, Form!Dying}) >= Form!Dying
        BY <4>1 DEF Form!Max
      <4> QED
        BY <3>1, <4>2
    <3> DEFINE d == Form!Max({f.dying, Form!Dying})
    <3> HIDE DEF d
    <3>3. d \in 1..2
      BY <3>2 DEF d
    <3>4. LET g == [f EXCEPT !.dying = d, !.sendAll = TRUE]
          IN  g \in Frames /\ g.text = f.text /\ g.dying # 0
      <4> DEFINE h == [f EXCEPT !.dying = d]
      <4>1. h \in Frames /\ h.text = f.text /\ h.dying = d
        BY <3>3 DEF Frames
      <4> HIDE DEF h
      <4>2. LET g == [h EXCEPT !.sendAll = TRUE]
            IN  g \in Frames /\ g.text = h.text /\ g.dying = h.dying
        BY <4>1 DEF Frames
      <4> QED
        BY <3>3, <4>1, <4>2 DEF h
    <3> QED
      BY <3>4 DEF d
  <2>2. DOMAIN frame' = DOMAIN frame
    BY <1>1
  <2> SUFFICES ASSUME NEW i \in DOMAIN frame
               PROVE  /\ frame'[i] \in Frames
                      /\ frame'[i].text = frame[i].text
                      /\ Form!Contains(list, i) => frame'[i].dying # 0
                      /\ ~Form!Contains(list, i) => frame'[i] = frame[i]
    BY <2>2
  <2>3. CASE Form!Contains(list, i)
    <3>1. frame'[i] = [frame[i] EXCEPT !.dying = Form!Max({frame[i].dying, Form!Dying}), !.sendAll = TRUE]
      BY <1>1, <2>3
    <3> QED
      BY <1>2, <2>1, <2>3, <3>1
  <2>4. CASE ~Form!Contains(list, i)
    BY <1>1, <1>2, <2>4
  <2> QED
    BY <2>3, <2>4
<1>8. \A k \in DOMAIN list : Form!Contains(list, list[k])
  BY DEF Form!Contains
<1>9. FormTyped'
  <2>1. Form!ToSet(stack') \subseteq Reasons
    BY <1>5 DEF Form!ToSet
  <2> QED
    BY <1>2, <1>5, <1>6, <1>7, <2>1
       DEF FormTyped, Form!TypeOK, Form!IsInjective, Form!ToSet, Reasons
<1>10. Nesting'
  <2>1. \A k \in DOMAIN stack' : stack'[k] = "closed" => ~open'
    BY <1>3, <1>5, <1>6 DEF FormInv, Nesting
  <2>2. ASSUME nested' = 0, NEW k \in 1 .. Len(stack') - 1
        PROVE  stack'[k] = "confirm"
    <3>1. \A j \in DOMAIN stack : stack[j] = "confirm"
      BY <2>2, AllConfirm
    <3>2. k \in 1 .. Len(s)
      BY <1>3, <1>5, <2>2
    <3> QED
      BY <1>3, <1>5, <3>1, <3>2
  <2> QED
    BY <2>1, <2>2 DEF Nesting
<1>11. Screen'
  <2> SUFFICES ASSUME nested' = 0, ~dangling', NEW i \in DOMAIN frame', frame'[i].dying = 0
               PROVE  FALSE
    BY DEF Screen
  <2>1. ~Form!Contains(list, i) /\ frame'[i] = frame[i] /\ i \in DOMAIN frame
    BY <1>7
  <2>2. i \in Form!ToSet(list)
    BY <2>1 DEF FormInv, Screen
  <2> QED
    BY <2>1, <2>2 DEF Form!Contains, Form!ToSet
<1>12. Complete'
  <2>1. \A k \in DOMAIN list : frame'[list[k]].text = frame[list[k]].text
    BY <1>2, <1>7
  <2> QED
    BY <2>1 DEF FormInv, Complete, Form!Valid
<1>13. SoleOnly'
  BY <1>2, <1>7, <1>8 DEF SoleOnly
<1> QED
  BY <1>9, <1>10, <1>11, <1>12, <1>13 DEF FormInv

LEMMA ClearKeeps ==
    ASSUME FormInv, Form!Sent \/ Form!UrlReceived \/ Form!WalletClosed
    PROVE  FormInv'
<1>1. /\ open \in BOOLEAN /\ nested \in 0..MaxNested /\ inputs \in 0..MaxInputs
      /\ FormTyped
  BY ListFacts DEF FormInv
<1>2. CASE Form!Sent
  <2>1. Form!Top = "confirm" /\ ~Form!Clearing
    BY <1>2 DEF Form!Sent, Form!Clearing
  <2> QED
    BY <1>1, <1>2, <2>1, ClearBegins DEF Form!Sent
<1>3. CASE Form!UrlReceived
  <2>1. inputs' \in 0..MaxInputs
    BY <1>1, <1>3, FormAssumption DEF Form!UrlReceived
  <2>2. nested' \in 0..MaxNested /\ (nested' = 0 => nested = 0 /\ ~Form!Clearing)
    BY <1>1, <1>3, Counted DEF Form!UrlReceived
  <2> QED
    BY <1>1, <1>3, <2>1, <2>2, ClearBegins DEF Form!UrlReceived
<1>4. CASE Form!WalletClosed
  <2>1. nested' \in 0..MaxNested /\ (nested' = 0 => nested = 0 /\ ~Form!Clearing)
    BY <1>1, <1>4, Counted DEF Form!WalletClosed
  <2> QED
    BY <1>1, <1>4, <2>1, ClearBegins DEF Form!WalletClosed
<1> QED
  BY <1>2, <1>3, <1>4

\* clearAll ends: the list is empty, or the new frame's.
LEMMA EndClearKeeps ==
    ASSUME FormInv, Form!EndClear
    PROVE  FormInv'
<1>1. /\ Form!Clearing /\ ~dangling /\ stack' = Form!Front(stack)
      /\ UNCHANGED <<open, queries, nested, inputs, dangling>>
  BY DEF Form!EndClear
<1>2. /\ made \in Nat /\ DOMAIN frame \subseteq 1 .. made
      /\ \A j \in DOMAIN frame : frame[j] \in Frames
      /\ queries \subseteq DOMAIN frame
      /\ open \in BOOLEAN /\ button \in BOOLEAN /\ payid \in BOOLEAN
      /\ dangling \in BOOLEAN
      /\ inputs \in 0..MaxInputs /\ nested \in 0..MaxNested
  BY ListFacts
<1>3. stack \in Seq(Reasons) /\ Len(stack) <= 3 /\ stack # <<>>
  BY <1>1 DEF FormInv, FormTyped, Form!TypeOK, Form!Clearing, Form!Top
<1>4. "confirm" \in Reasons
  BY DEF Reasons
<1>5. /\ stack' \in Seq(Reasons) /\ Len(stack') = Len(stack) - 1
      /\ \A k \in 1 .. Len(stack) - 1 : stack'[k] = stack[k]
      /\ Len(stack) \in Nat /\ DOMAIN stack = 1 .. Len(stack) /\ Len(stack) # 0
  BY <1>1, <1>3, <1>4, Stacked
<1>6. DOMAIN stack' = 1 .. Len(stack) - 1 /\ Len(stack') <= 3
  <2>1. DOMAIN stack' = 1 .. Len(stack')
    BY <1>5
  <2>2. Len(stack) <= 3
    BY <1>3
  <2> QED
    BY <1>5, <2>1, <2>2
<1>7. \A k \in DOMAIN stack' : stack'[k] = stack[k] /\ k \in DOMAIN stack
  BY <1>5, <1>6
<1>8. Nesting'
  <2>1. \A k \in DOMAIN stack' : stack'[k] = "closed" => ~open'
    BY <1>1, <1>7 DEF FormInv, Nesting
  <2>2. nested' = 0 => \A k \in DOMAIN stack' : stack'[k] = "confirm"
    BY <1>1, <1>6, <1>7 DEF FormInv, Nesting
  <2>3. 1 .. Len(stack') - 1 \subseteq DOMAIN stack'
    BY <1>5, <1>6
  <2> QED
    BY <2>1, <2>2, <2>3 DEF Nesting
<1>9. nested' = 0 => ~Form!Clearing'
  <2>1. nested' = 0 => \A k \in DOMAIN stack' : stack'[k] = "confirm"
    BY <1>1, <1>6, <1>7 DEF FormInv, Nesting
  <2>2. stack' # <<>> => Len(stack') \in DOMAIN stack'
    BY <1>5
  <2> QED
    BY <2>1, <2>2 DEF Form!Clearing, Form!Top, Form!Last
<1>10. nested' = 0 => \A i \in DOMAIN frame : frame[i].dying # 0
  BY <1>1 DEF FormInv, Screen
<1>11. /\ Form!ToSet(stack') \subseteq Reasons
       /\ made \in 0 .. MaxForms
  BY <1>5 DEF FormInv, FormTyped, Form!TypeOK, Form!ToSet
<1>12. CASE Form!Top = "closed"
  <2>1. /\ list' = <<>> /\ payid' = TRUE /\ button' \in BOOLEAN
        /\ UNCHANGED <<frame, made>>
    BY <1>2, <1>12 DEF Form!EndClear
  <2>2. list' \in Seq(Nat) /\ DOMAIN list' = {} /\ Form!ToSet(list') = {}
        /\ Form!IsInjective(list')
    BY <2>1 DEF Form!ToSet, Form!IsInjective
  <2>3. FormTyped'
    BY <1>1, <1>2, <1>5, <1>6, <1>11, <2>1, <2>2 DEF FormTyped, Form!TypeOK, Reasons
  <2>4. ~open'
    <3>1. stack[Len(stack)] = "closed" /\ Len(stack) \in DOMAIN stack
      BY <1>3, <1>5, <1>12 DEF Form!Top, Form!Last
    <3> QED
      BY <1>1, <3>1 DEF FormInv, Nesting
  <2>5. Screen' /\ Complete' /\ SoleOnly'
    BY <1>10, <2>1, <2>2, <2>4 DEF Screen, Complete, SoleOnly
  <2> QED
    BY <1>8, <2>3, <2>5 DEF FormInv
<1>13. CASE Form!Top # "closed"
  <2> DEFINE n == made + 1
             fs == Form!Added(frame, <<>>)
  <2>1. PICK a \in (IF Form!Top = "url" THEN Payees ELSE {Nothing}),
             ok \in (IF Form!Top = "url" THEN BOOLEAN ELSE {TRUE}) :
          /\ made < MaxForms /\ made' = n /\ list' = <<n>>
          /\ frame' = [fs EXCEPT ![n] =
                         IF a = Nothing THEN @ ELSE Form!SetAddress(@, a)]
          /\ payid' = ok
          /\ button' = (ok /\ a # Nothing)
    BY <1>13 DEF Form!EndClear
  <2>2. IsAdded(fs, <<>>)
    <3>1. <<>> \in Seq(Nat) /\ Form!ToSet(<<>>) \subseteq DOMAIN frame
      BY DEF Form!ToSet
    <3> QED
      BY <1>2, <3>1, AddedFrames
  <2> HIDE DEF fs
  <2>3. /\ DOMAIN fs = DOMAIN frame \cup {n} /\ n \notin DOMAIN frame
        /\ \A i \in DOMAIN frame \cup {n} : fs[i] \in Frames
        /\ \A i \in DOMAIN frame : fs[i] = frame[i]
    BY <1>2, <2>2 DEF IsAdded
  <2>4. a \in Texts /\ ok \in BOOLEAN /\ (a # Nothing => a \in Payees)
    BY <2>1 DEF Texts
  <2>5. /\ Form!SetAddress(fs[n], a) \in Frames
        /\ a # Nothing => Form!GetAddress(Form!SetAddress(fs[n], a).text) = a
    BY <2>3, <2>4, AddressSet
  <2>6. /\ DOMAIN frame' = DOMAIN frame \cup {n}
        /\ frame'[n] = IF a = Nothing THEN fs[n] ELSE Form!SetAddress(fs[n], a)
        /\ \A i \in DOMAIN frame : frame'[i] = frame[i]
    BY <2>1, <2>3
  <2>7. \A i \in DOMAIN frame' : frame'[i] \in Frames
    BY <1>2, <2>3, <2>5, <2>6
  <2>8. /\ list' \in Seq(Nat) /\ DOMAIN list' = {1} /\ list'[1] = n /\ Len(list') = 1
        /\ Form!ToSet(list') = {n} /\ Form!IsInjective(list') /\ list' # <<>>
    BY <1>2, <2>1 DEF Form!ToSet, Form!IsInjective
  <2>9. FormTyped'
    <3>1. made' \in 0 .. MaxForms /\ DOMAIN frame' \subseteq 1 .. made'
      BY <1>2, <2>1, <2>6, FormAssumption
    <3>2. queries' \subseteq DOMAIN frame' /\ Form!ToSet(list') \subseteq DOMAIN frame'
      BY <1>1, <1>2, <2>6, <2>8
    <3>3. button' \in BOOLEAN /\ payid' \in BOOLEAN
      BY <2>1, <2>4
    <3>4. open' \in BOOLEAN /\ dangling' \in BOOLEAN
          /\ nested' \in 0..MaxNested /\ inputs' \in 0..MaxInputs
      BY <1>1, <1>2
    <3> QED
      BY <1>5, <1>6, <1>11, <2>7, <2>8, <3>1, <3>2, <3>3, <3>4
         DEF FormTyped, Form!TypeOK, Reasons
  <2>10. Screen'
    BY <1>9, <1>10, <2>6, <2>8 DEF Screen
  <2>11. Complete'
    <3>1. button' => payid' /\ Form!Valid(frame'[n])
      BY <2>1, <2>4, <2>5, <2>6 DEF Form!Valid
    <3> QED
      BY <2>8, <3>1 DEF Complete
  <2>12. SoleOnly'
    BY <2>8 DEF SoleOnly
  <2> QED
    BY <1>8, <2>9, <2>10, <2>11, <2>12 DEF FormInv
<1> QED
  BY <1>12, <1>13

\* Every step keeps the invariant.
LEMMA FormStep ==
    ASSUME FormInv, [Form!Next]_Form!vars
    PROVE  FormInv'
<1>1. CASE Form!vars' = Form!vars
  <2>1. /\ UNCHANGED <<open, frame, list, made, stack, button>>
        /\ UNCHANGED <<payid, queries, nested, inputs, dangling>>
    BY <1>1 DEF Form!vars
  <2>2. FormTyped'
    BY <2>1 DEF FormInv, FormTyped, Form!TypeOK, Form!ToSet, Form!IsInjective
  <2>3. Nesting' /\ Complete' /\ SoleOnly'
    BY <2>1 DEF FormInv, Nesting, Complete, SoleOnly
  <2>4. Screen'
    BY <2>1 DEF FormInv, Screen, Form!Clearing, Form!Top, Form!Last, Form!ToSet
  <2> QED
    BY <2>2, <2>3, <2>4 DEF FormInv
<1>2. CASE Form!AddRecipientClicked \/ Form!WalletOpened
  BY <1>2, AddKeeps
<1>3. CASE Form!Type \/ Form!RemoveClicked \/ Form!EditPaymentId
  BY <1>3, TypeKeeps, RemoveClickedKeeps, EditPaymentIdKeeps
<1>4. CASE Form!AddRecipient
  BY <1>4, AddRecipientKeeps
<1>5. CASE Form!Destroyed
  BY <1>5, DestroyedKeeps
<1>6. CASE Form!Timer \/ Form!NumberAnswer \/ Form!AliasFound \/ Form!OlderLookupFinished
  BY <1>6, TimerKeeps, NumberAnswerKeeps, AliasFoundKeeps, OlderLookupKeeps
<1>7. CASE Form!SendClicked \/ Form!NotSent
  BY <1>7, SendClickedKeeps, NotSentKeeps
<1>8. CASE Form!Sent \/ Form!UrlReceived \/ Form!WalletClosed
  BY <1>8, ClearKeeps
<1>9. CASE Form!EndClear
  BY <1>9, EndClearKeeps
<1> QED
  BY <1>1, <1>2, <1>3, <1>4, <1>5, <1>6, <1>7, <1>8, <1>9 DEF Form!Next

LEMMA FormFollowed == FormInv /\ [Next]_vars => FormInv'
<1> SUFFICES ASSUME FormInv, [Next]_vars
             PROVE  FormInv'
  OBVIOUS
<1>1. [Form!Next]_Form!vars
  BY DEF Next, vars, sending, Form!vars
<1> QED
  BY <1>1, FormStep

\* The form on screen is the order that is sent: at rest every frame the user
\* sees is in the list an order is built from, the send button is offered only
\* for a complete form, and "send all" only to a sole recipient - whatever the
\* order frames are made, removed and deleted in, and in the middle of a clear.
THEOREM FormStaysTheOrder == Spec => []FormIsOrder
BY FormBegins, FormFollowed, FormSuffices, PTL DEF Spec

-----------------------------------------------------------------------------
(* The pages of the explorer.                                              *)

Last32 == Modulus - 1

LEMMA Unsigned ==
    /\ \A x \in Int : Pages!U(x) \in 0 .. Last32
    /\ \A x \in 0 .. Last32 : Pages!U(x) = x
    /\ Last32 \in Nat /\ Last32 > 2 * (PageHeight + MaxView)
BY PagesAssumption DEF Pages!U, Last32

\* The rows R are the blocks from a to b, or there are none.
Spans(R, a, b) ==
  /\ a \in 0 .. PageHeight /\ b \in 0 .. PageHeight
  /\ \/ R = {} /\ a = 0 /\ b = 0
     \/ R = a .. b /\ a <= b

LEMMA SpanEnds ==
    ASSUME NEW R, NEW a \in 0 .. PageHeight, NEW b \in 0 .. PageHeight, R = a .. b, a <= b
    PROVE  Pages!Lower(R) = a /\ Pages!Upper(R) = b
<1>1. /\ a \in Int /\ b \in Int /\ a \in R /\ b \in R /\ R \subseteq Int
      /\ \A g \in R : a <= g /\ g <= b
  BY PagesAssumption
<1>2. \A h \in R : (\A g \in R : h <= g) => h = a
  <2> SUFFICES ASSUME NEW h \in R, \A g \in R : h <= g PROVE h = a
    OBVIOUS
  <2>1. h <= a /\ a <= h /\ h \in Int
    BY <1>1
  <2> QED
    BY <1>1, <2>1
<1>3. \A h \in R : (\A g \in R : g <= h) => h = b
  <2> SUFFICES ASSUME NEW h \in R, \A g \in R : g <= h PROVE h = b
    OBVIOUS
  <2>1. h <= b /\ b <= h /\ h \in Int
    BY <1>1
  <2> QED
    BY <1>1, <2>1
<1>4. (CHOOSE h \in R : \A g \in R : h <= g) = a
  BY <1>1, <1>2
<1>5. (CHOOSE h \in R : \A g \in R : g <= h) = b
  BY <1>1, <1>3
<1> QED
  BY <1>1, <1>4, <1>5 DEF Pages!Lower, Pages!Upper

\* What the filter lets through is an interval.
LEMMA RowsSpan ==
    ASSUME NEW l \in 0 .. PageHeight \cup {Last32}, NEW lo \in 0 .. Last32, NEW hi \in 0 .. Last32
    PROVE  LET R == Pages!Accepted(l, lo, hi)
           IN  /\ Spans(R, Pages!Lower(R), Pages!Upper(R))
               /\ R # {} <=> l # Last32 /\ lo <= l /\ lo <= hi
<1> DEFINE R == Pages!Accepted(l, lo, hi)
           b == IF l <= hi THEN l ELSE hi
<1>1. /\ PageHeight \in Nat /\ Last32 \in Nat /\ Last32 > PageHeight
      /\ R = {h \in 0 .. PageHeight : l # Last32 /\ h <= l /\ h >= lo /\ h <= hi}
  BY PagesAssumption, Unsigned DEF Pages!Accepted, Pages!Invalid, Last32
<1>2. CASE l # Last32 /\ lo <= l /\ lo <= hi
  <2>1. lo \in 0 .. PageHeight /\ b \in 0 .. PageHeight /\ lo <= b
    BY <1>1, <1>2
  <2>2. R = lo .. b
    BY <1>1, <1>2
  <2>3. lo \in R
    BY <2>1, <2>2
  <2> HIDE DEF R, b
  <2>4. Pages!Lower(R) = lo /\ Pages!Upper(R) = b
    BY <2>1, <2>2, SpanEnds
  <2>5. Spans(R, Pages!Lower(R), Pages!Upper(R)) /\ R # {}
    BY <2>1, <2>2, <2>3, <2>4 DEF Spans
  <2> QED
    BY <1>2, <2>5 DEF R
<1>3. CASE ~(l # Last32 /\ lo <= l /\ lo <= hi)
  <2>1. R = {}
    BY <1>1, <1>3
  <2> HIDE DEF R
  <2>2. Pages!Lower(R) = 0 /\ Pages!Upper(R) = 0
    BY <2>1 DEF Pages!Lower, Pages!Upper
  <2>3. Spans(R, Pages!Lower(R), Pages!Upper(R))
    BY <1>1, <2>1, <2>2 DEF Spans
  <2> QED
    BY <1>3, <2>1, <2>3 DEF R
<1> QED
  BY <1>2, <1>3

\* A window of s rows from b shows some of the rows R, or is at the first of none.
FitsOn(R, b, s) == b <= Pages!Upper(R) /\ b + s > Pages!Lower(R)

LEMMA FitsShows ==
    ASSUME NEW R, Spans(R, Pages!Lower(R), Pages!Upper(R)), NEW b \in 0 .. Last32,
           NEW s \in 0 .. MaxView, s > 0
    PROVE  /\ FitsOn(R, b, s) /\ R # {} => Pages!Shown(R, b, s) # {}
           /\ Pages!Shown(R, b, s) # {} => FitsOn(R, b, s) /\ R # {}
<1> DEFINE lo == Pages!Lower(R)
           up == Pages!Upper(R)
<1>1. /\ lo \in 0 .. PageHeight /\ up \in 0 .. PageHeight /\ PageHeight \in Nat /\ MaxView \in Nat
      /\ R = {} \/ (R = lo .. up /\ lo <= up)
      /\ Last32 \in Nat /\ Last32 > 2 * (PageHeight + MaxView)
  BY PagesAssumption, Unsigned DEF Spans
<1>2. Pages!Shown(R, b, s) = {h \in R : h >= b /\ h < Pages!U(b + s)}
  BY DEF Pages!Shown
<1> HIDE DEF lo, up
<1>3. ASSUME b <= up, b + s > lo, R # {} PROVE \E h \in R : h >= b /\ h < Pages!U(b + s)
  <2>1. b + s \in 0 .. Last32
    BY <1>1, <1>3
  <2>2. Pages!U(b + s) = b + s
    BY <2>1, Unsigned
  <2>3. R = lo .. up /\ lo <= up
    BY <1>1, <1>3
  <2>4. CASE b <= lo
    <3>1. lo \in R /\ lo >= b /\ lo < Pages!U(b + s)
      BY <1>1, <1>3, <2>2, <2>3, <2>4
    <3> QED
      BY <3>1
  <2>5. CASE b > lo
    <3>1. b \in R /\ b >= b /\ b < Pages!U(b + s)
      BY <1>1, <1>3, <2>2, <2>3, <2>5
    <3> QED
      BY <3>1
  <2> QED
    BY <1>1, <2>4, <2>5
<1>4. ASSUME NEW h \in R, h >= b, h < Pages!U(b + s) PROVE b <= up /\ b + s > lo
  <2>1. h \in lo .. up
    BY <1>1
  <2>2. b <= up /\ b + s \in 0 .. Last32
    BY <1>1, <1>4, <2>1
  <2>3. Pages!U(b + s) = b + s
    BY <2>2, Unsigned
  <2> QED
    BY <1>1, <1>4, <2>1, <2>2, <2>3
<1> QED
  BY <1>2, <1>3, <1>4 DEF FitsOn, lo, up

-----------------------------------------------------------------------------
(* The invariant of the pages.                                             *)

PagesSearched == ~astray /\ tip # Last32 /\ low # Last32 => Pages!Rows # {}
PagesWindow == ~astray => size <= view /\ (size > 0 => FitsOn(Pages!Rows, begin, size))

\* What a function in its loop will do is right for the rows R and a window of s
\* rows, unless it is stale.
Turning == {"next", "prev", "last", "applied", "reset"}
Fresh(f, R, s) == ~f.stale =>
  /\ f.kind \in Turning /\ s \in 1 .. MaxView => FitsOn(R, f.begin, s)
  /\ f.kind = "next" /\ s > 0 =>
       /\ (f.promise[1] .. f.promise[2]) \cap R \subseteq Pages!Shown(R, f.begin, s)
       /\ f.promise[2] <= Pages!Upper(R)
  /\ f.kind = "prev" => f.begin = f.promise[1]
AllFresh(rs, R, s) == \A i \in DOMAIN rs : Fresh(rs[i], R, s)

PagesInv == Pages!TypeOK /\ PagesSearched /\ PagesWindow /\ AllFresh(reads, Pages!Rows, size)

LEMMA PagesBegin == Init => PagesInv
<1> SUFFICES ASSUME Init PROVE PagesInv
  OBVIOUS
<1>1. /\ tip = Last32 /\ search = "all" /\ low = 0 /\ high = Last32
      /\ begin = 0 /\ size = 0 /\ view = 0
      /\ prev = <<Last32, Last32>> /\ next = <<Last32, Last32>>
      /\ astray = FALSE /\ reads = <<>>
  BY DEF Init, Pages!Init, Pages!Invalid, Pages!NoPage, Last32
<1>2. Last32 \in Nat /\ PageHeight \in Nat /\ MaxView \in Nat /\ FALSE \in BOOLEAN
      /\ Pages!Invalid = Last32
  BY PagesAssumption, Unsigned DEF Pages!Invalid, Last32
<1>3. Pages!TypeOK
  <2>1. /\ tip \in 0 .. PageHeight \cup {Last32} /\ low \in 0 .. Last32 /\ high \in 0 .. Last32
        /\ begin \in 0 .. Last32 /\ size \in 0 .. Last32 /\ view \in 0 .. MaxView
    BY <1>1, <1>2
  <2>2. astray \in BOOLEAN /\ search \in {"all", "height", "period"}
    BY <1>1, <1>2
  <2>3. prev \in Pages!Pair /\ next \in Pages!Pair
    BY <1>1, <1>2 DEF Pages!Pair
  <2>4. reads \in Seq(Pages!Reads)
    BY <1>1
  <2> QED
    BY <1>2, <2>1, <2>2, <2>3, <2>4 DEF Pages!TypeOK
<1>4. PagesSearched
  BY <1>1 DEF PagesSearched
<1>5. PagesWindow
  BY <1>1 DEF PagesWindow
<1>6. AllFresh(reads, Pages!Rows, size)
  BY <1>1 DEF AllFresh
<1> QED
  BY <1>3, <1>4, <1>5, <1>6 DEF PagesInv

LEMMA PagesNumbers ==
    ASSUME PagesInv
    PROVE  /\ tip \in 0 .. PageHeight \cup {Last32} /\ low \in 0 .. Last32 /\ high \in 0 .. Last32
           /\ begin \in 0 .. Last32 /\ size \in 0 .. Last32 /\ view \in 0 .. MaxView
           /\ PageHeight \in Nat /\ MaxView \in Nat
           /\ Last32 \in Nat /\ Last32 > 2 * (PageHeight + MaxView)
           /\ Pages!Invalid = Last32
BY PagesAssumption, Unsigned DEF PagesInv, Pages!TypeOK, Pages!Invalid, Last32

LEMMA PagesTyped ==
    ASSUME PagesInv
    PROVE  /\ astray \in BOOLEAN /\ search \in {"all", "height", "period"}
           /\ prev \in Pages!Pair /\ next \in Pages!Pair /\ reads \in Seq(Pages!Reads)
           /\ AllFresh(reads, Pages!Rows, size)
BY DEF PagesInv, Pages!TypeOK

LEMMA PagesRows ==
    ASSUME PagesInv
    PROVE  /\ Spans(Pages!Rows, Pages!Lower(Pages!Rows), Pages!Upper(Pages!Rows))
           /\ Pages!Rows # {} <=> tip # Last32 /\ low <= tip /\ low <= high
BY PagesNumbers, RowsSpan DEF Pages!Rows

\* The window of a table of n rows.
LEMMA ResizedFits ==
    ASSUME PagesInv, NEW R, Spans(R, Pages!Lower(R), Pages!Upper(R)), NEW n \in 0 .. MaxView
    PROVE  /\ Pages!Resized(R, n).size \in 0 .. Last32 /\ Pages!Resized(R, n).begin \in 0 .. Last32
           /\ size <= MaxView /\ (size > 0 => FitsOn(R, begin, size))
                /\ Pages!Resized(R, n).begin <= Pages!Upper(R)
              => /\ Pages!Resized(R, n).size <= n
                 /\ Pages!Resized(R, n).size > 0
                      => FitsOn(R, Pages!Resized(R, n).begin, Pages!Resized(R, n).size)
<1> DEFINE lo == Pages!Lower(R)
           up == Pages!Upper(R)
           w == Pages!Resized(R, n)
<1>1. /\ lo \in 0 .. PageHeight /\ up \in 0 .. PageHeight /\ lo <= up /\ n \in 0 .. MaxView
      /\ begin \in 0 .. Last32 /\ size \in 0 .. Last32
      /\ PageHeight \in Nat /\ MaxView \in Nat
      /\ Last32 \in Nat /\ Last32 > 2 * (PageHeight + MaxView)
  BY PagesNumbers DEF Spans
<1>2. CASE n < size
  <2>1. w.size = n /\ w.begin = Pages!U(begin + size - n)
    BY <1>2 DEF Pages!Resized
  <2>2. w.size \in 0 .. Last32 /\ w.begin \in 0 .. Last32
    BY <1>1, <2>1, Unsigned
  <2>3. ASSUME size <= MaxView, size > 0 => FitsOn(R, begin, size), w.begin <= up
        PROVE  w.size <= n /\ (w.size > 0 => FitsOn(R, w.begin, w.size))
    <3> HIDE DEF lo, up, w
    <3>1. begin <= up /\ begin + size > lo
      BY <1>1, <1>2, <2>3 DEF FitsOn, lo, up
    <3>2. begin + size - n \in 0 .. Last32
      BY <1>1, <1>2, <2>3, <3>1
    <3>3. w.begin = begin + size - n
      BY <2>1, <3>2, Unsigned
    <3>4. w.begin + w.size > lo
      BY <1>1, <2>1, <3>1, <3>3
    <3> QED
      BY <1>1, <2>1, <2>3, <3>4 DEF FitsOn, lo, up
  <2> QED
    BY <2>2, <2>3
<1>3. CASE n = size
  <2>1. w.size = size /\ w.begin = begin
    BY <1>3 DEF Pages!Resized
  <2> HIDE DEF w
  <2> QED
    BY <1>1, <1>3, <2>1 DEF w
<1>4. CASE n > size
  <2> DEFINE b == IF Pages!U(lo + n - size) > begin THEN lo ELSE Pages!U(begin - (n - size))
             e == IF up < Pages!U(b + n - 1) THEN up ELSE Pages!U(b + n - 1)
  <2>1. w.size = Pages!U(e - b + 1) /\ w.begin = b
    BY <1>1, <1>4 DEF Pages!Resized
  <2> HIDE DEF lo, up, w
  <2>2. lo + n - size \in 0 .. Last32 /\ Pages!U(lo + n - size) = lo + n - size
    BY <1>1, <1>4, Unsigned
  <2>3. b \in 0 .. Last32 /\ b >= lo
    <3>1. CASE Pages!U(lo + n - size) > begin
      BY <1>1, <3>1
    <3>2. CASE ~(Pages!U(lo + n - size) > begin)
      <4>1. begin - (n - size) \in 0 .. Last32 /\ begin - (n - size) >= lo
        BY <1>1, <1>4, <2>2, <3>2
      <4>2. b = begin - (n - size)
        BY <3>2, <4>1, Unsigned
      <4> QED
        BY <4>1, <4>2
    <3> QED
      BY <3>1, <3>2
  <2> HIDE DEF b
  <2>4. e \in 0 .. Last32
    <3>1. b + n - 1 \in Int
      BY <1>1, <2>3
    <3>2. Pages!U(b + n - 1) \in 0 .. Last32 /\ up \in 0 .. Last32
      BY <1>1, <3>1, Unsigned
    <3> QED
      BY <3>2
  <2>5. ASSUME b <= up PROVE e >= b /\ e - b + 1 <= n /\ e <= up
    <3>1. b + n - 1 \in 0 .. Last32
      BY <1>1, <1>4, <2>3, <2>5
    <3>2. Pages!U(b + n - 1) = b + n - 1
      BY <3>1, Unsigned
    <3> QED
      BY <1>1, <1>4, <2>3, <2>5, <3>2
  <2> HIDE DEF e
  <2>6. w.size \in 0 .. Last32 /\ w.begin \in 0 .. Last32
    BY <1>1, <2>1, <2>3, <2>4, Unsigned
  <2>7. ASSUME w.begin <= up PROVE w.size <= n /\ FitsOn(R, w.begin, w.size)
    <3>1. b <= up
      BY <2>1, <2>7
    <3>2. e - b + 1 \in 0 .. Last32
      BY <1>1, <2>3, <2>4, <2>5, <3>1
    <3>3. w.size = e - b + 1
      BY <2>1, <3>2, Unsigned
    <3>4. w.begin + w.size > lo
      BY <1>1, <2>1, <2>3, <2>4, <2>5, <3>1, <3>3
    <3> QED
      BY <1>1, <2>1, <2>5, <2>7, <3>1, <3>3, <3>4 DEF FitsOn, lo, up
  <2> QED
    BY <2>6, <2>7 DEF w, up
<1> QED
  BY <1>1, <1>2, <1>3, <1>4

\* Where the pages begin: what a window of the size shows there.
LEMMA NextFits ==
    ASSUME PagesInv, ~astray, size > 0, next # Pages!NoPage,
           next = Pages!NextInterval(Pages!Rows, begin, size)
    PROVE  /\ FitsOn(Pages!Rows, Pages!NextBegin(Pages!Rows), size)
           /\ next[2] <= Pages!Upper(Pages!Rows)
           /\ (next[1] .. next[2]) \cap Pages!Rows
                \subseteq Pages!Shown(Pages!Rows, Pages!NextBegin(Pages!Rows), size)
<1> DEFINE R == Pages!Rows
           lo == Pages!Lower(R)
           up == Pages!Upper(R)
           c == Pages!NextBegin(R)
<1>1. /\ begin \in 0 .. Last32 /\ size \in 1 .. MaxView
      /\ PageHeight \in Nat /\ MaxView \in Nat
      /\ Last32 \in Nat /\ Last32 > 2 * (PageHeight + MaxView)
      /\ FitsOn(R, begin, size)
  BY PagesNumbers DEF PagesInv, PagesWindow
<1>2. Spans(R, lo, up)
  BY PagesRows
<1>3. next = Pages!NextInterval(R, begin, size)
  OBVIOUS
<1> HIDE DEF R
<1>4. /\ lo \in 0 .. PageHeight /\ up \in 0 .. PageHeight /\ lo <= up
      /\ R = {} \/ R = lo .. up
      /\ begin <= up /\ begin + size > lo
  BY <1>1, <1>2 DEF Spans, FitsOn
<1> HIDE DEF lo, up, c
<1>5. begin + size \in 0 .. Last32 /\ Pages!U(begin + size) = begin + size
  BY <1>1, <1>4, Unsigned
<1>6. begin + 2 * size - 1 \in 0 .. Last32 /\ Pages!U(begin + 2 * size - 1) = begin + 2 * size - 1
  BY <1>1, <1>4, Unsigned
<1>7. ~(up < begin + size)
  BY <1>3, <1>5 DEF Pages!NextInterval, up
<1>8. next[1] = begin + size /\ next[2] = IF begin + 2 * size - 1 < up THEN begin + 2 * size - 1 ELSE up
  <2>1. next = <<begin + size, IF begin + 2 * size - 1 < up THEN begin + 2 * size - 1 ELSE up>>
    BY <1>3, <1>5, <1>6, <1>7 DEF Pages!NextInterval, up
  <2> QED
    BY <2>1
<1>9. c = IF up < begin + 2 * size - 1 THEN up - size + 1 ELSE begin + size
  <2>1. c = IF up < begin + 2 * size - 1 THEN Pages!U(up - size + 1) ELSE begin + size
    BY <1>5, <1>6 DEF c, up, Pages!NextBegin
  <2>2. up - size + 1 \in 0 .. Last32
    BY <1>1, <1>4, <1>7
  <2>3. Pages!U(up - size + 1) = up - size + 1
    BY <2>2, Unsigned
  <2> QED
    BY <2>1, <2>3
<1>10. c \in 0 .. Last32 /\ c <= up /\ c + size > lo /\ c + size \in 0 .. Last32
  BY <1>1, <1>4, <1>5, <1>7, <1>9
<1>11. Pages!U(c + size) = c + size
  BY <1>10, Unsigned
<1>12. ASSUME NEW h \in R, h \in next[1] .. next[2] PROVE h >= c /\ h < c + size
  <2>1. h \in Int /\ h <= up /\ h >= begin + size /\ h <= next[2] /\ next[2] \in Int
    BY <1>1, <1>4, <1>8, <1>12
  <2> QED
    BY <1>1, <1>4, <1>8, <1>9, <2>1
<1>13. FitsOn(R, c, size)
  BY <1>10 DEF FitsOn, lo, up
<1>14. (next[1] .. next[2]) \cap R \subseteq Pages!Shown(R, c, size)
  BY <1>1, <1>11, <1>12 DEF Pages!Shown
<1>15. next[2] <= up
  BY <1>1, <1>4, <1>8
<1> QED
  BY <1>13, <1>14, <1>15 DEF R, c, up

LEMMA PrevFits ==
    ASSUME PagesInv, ~astray, size > 0
    PROVE  FitsOn(Pages!Rows, Pages!PrevBegin(Pages!Rows), size)
<1> DEFINE R == Pages!Rows
           lo == Pages!Lower(R)
           up == Pages!Upper(R)
           c == Pages!PrevBegin(R)
<1>1. /\ begin \in 0 .. Last32 /\ size \in 1 .. MaxView
      /\ PageHeight \in Nat /\ MaxView \in Nat
      /\ Last32 \in Nat /\ Last32 > 2 * (PageHeight + MaxView)
      /\ FitsOn(R, begin, size)
  BY PagesNumbers DEF PagesInv, PagesWindow
<1>2. Spans(R, lo, up)
  BY PagesRows
<1> HIDE DEF R
<1>3. /\ lo \in 0 .. PageHeight /\ up \in 0 .. PageHeight /\ lo <= up
      /\ begin <= up /\ begin + size > lo
  BY <1>1, <1>2 DEF Spans, FitsOn
<1> HIDE DEF lo, up, c
<1>4. lo + size \in 0 .. Last32 /\ Pages!U(lo + size) = lo + size
  BY <1>1, <1>3, Unsigned
<1>5. CASE lo + size > begin
  <2>1. c = lo
    BY <1>4, <1>5 DEF c, lo, Pages!PrevBegin
  <2>2. c <= up /\ c + size > lo
    BY <1>1, <1>3, <2>1
  <2> QED
    BY <2>2 DEF FitsOn, R, c, lo, up
<1>6. CASE ~(lo + size > begin)
  <2>1. begin - size \in 0 .. Last32
    BY <1>1, <1>3, <1>6
  <2>2. c = begin - size
    BY <1>4, <1>6, <2>1, Unsigned DEF c, lo, Pages!PrevBegin
  <2>3. c <= up /\ c + size > lo
    BY <1>1, <1>3, <1>6, <2>2
  <2> QED
    BY <2>3 DEF FitsOn, R, c, lo, up
<1> QED
  BY <1>5, <1>6

LEMMA LastFits ==
    ASSUME NEW R, Spans(R, Pages!Lower(R), Pages!Upper(R)), NEW s \in 0 .. Last32
    PROVE  /\ Pages!LastBegin(R, s) \in 0 .. Last32
           /\ s > 0 /\ s <= MaxView => FitsOn(R, Pages!LastBegin(R, s), s)
<1> DEFINE lo == Pages!Lower(R)
           up == Pages!Upper(R)
           c == Pages!LastBegin(R, s)
<1>1. /\ lo \in 0 .. PageHeight /\ up \in 0 .. PageHeight /\ lo <= up
      /\ PageHeight \in Nat /\ MaxView \in Nat
      /\ Last32 \in Nat /\ Last32 > 2 * (PageHeight + MaxView)
  BY PagesAssumption, Unsigned DEF Spans
<1>2. c = IF up < Pages!U(lo + s - 1) THEN lo ELSE Pages!U(up - s + 1)
  BY DEF Pages!LastBegin
<1> HIDE DEF lo, up, c
<1>3. c \in 0 .. Last32
  <2>1. Pages!U(up - s + 1) \in 0 .. Last32
    BY <1>1, Unsigned
  <2> QED
    BY <1>1, <1>2, <2>1
<1>4. ASSUME s > 0, s <= MaxView PROVE c <= up /\ c + s > lo
  <2>1. lo + s - 1 \in 0 .. Last32 /\ Pages!U(lo + s - 1) = lo + s - 1
    BY <1>1, <1>4, Unsigned
  <2>2. CASE up < lo + s - 1
    BY <1>1, <1>2, <1>4, <2>1, <2>2
  <2>3. CASE ~(up < lo + s - 1)
    <3>1. up - s + 1 \in 0 .. Last32
      BY <1>1, <1>4, <2>3
    <3>2. c = up - s + 1
      BY <1>2, <2>1, <2>3, <3>1, Unsigned
    <3> QED
      BY <1>1, <1>4, <2>3, <3>2
  <2> QED
    BY <2>2, <2>3
<1> QED
  BY <1>3, <1>4 DEF FitsOn, c, lo, up

-----------------------------------------------------------------------------
(* What the functions in their loops will do.                              *)

LEMMA NoPageTyped == Pages!NoPage \in Pages!Pair
BY PagesAssumption DEF Pages!NoPage, Pages!Pair, Pages!Invalid

LEMMA ReadTyped ==
    ASSUME NEW k \in {"next", "prev", "last", "applied", "height", "period", "reset"},
           NEW b \in 0 .. Last32, NEW p \in Pages!Pair, NEW o \in BOOLEAN
    PROVE  /\ Pages!Read(k, b, p, o) \in Pages!Reads
           /\ Pages!Read(k, b, p, o).kind = k /\ Pages!Read(k, b, p, o).begin = b
           /\ Pages!Read(k, b, p, o).promise = p /\ Pages!Read(k, b, p, o).stale = o
BY DEF Pages!Read, Pages!Reads, Pages!Invalid, Last32

\* A function that needs nothing of its button.
Plain(k, b) == Pages!Read(k, b, Pages!NoPage, FALSE)

LEMMA PlainRead ==
    ASSUME NEW k, k \in {"last", "applied", "reset", "height", "period"}, NEW b, b \in 0 .. Last32
    PROVE  Plain(k, b) \in Pages!Reads /\ Plain(k, b).kind = k /\ Plain(k, b).begin = b
<1> DEFINE f == Plain(k, b)
           p == Pages!NoPage
<1>1. f = [kind |-> k, begin |-> b, promise |-> p, stale |-> FALSE]
  BY DEF Plain, Pages!Read
<1>2. b \in 0 .. Pages!Invalid /\ p \in Pages!Pair
  BY NoPageTyped DEF Pages!Invalid, Last32
<1>3. k \in {"next", "prev", "last", "applied", "height", "period", "reset"}
  OBVIOUS
<1> HIDE DEF f, p
<1>4. f \in Pages!Reads
  BY <1>1, <1>2, <1>3 DEF Pages!Reads
<1>5. f.kind = k /\ f.begin = b
  BY <1>1
<1> QED
  BY <1>4, <1>5 DEF f

LEMMA SeqOf == ASSUME NEW S, NEW n \in Nat, NEW q \in [1 .. n -> S] PROVE q \in Seq(S)
OBVIOUS

\* A stale function is bound to nothing.
LEMMA StaleFresh ==
    ASSUME NEW rs \in Seq(Pages!Reads), NEW R, NEW s
    PROVE  Pages!Stale(rs) \in Seq(Pages!Reads) /\ AllFresh(Pages!Stale(rs), R, s)
<1>1. ASSUME NEW i \in DOMAIN rs
      PROVE  /\ Pages!Stale(rs)[i] \in Pages!Reads /\ Pages!Stale(rs)[i].stale = TRUE
  <2>1. rs[i] \in Pages!Reads
    OBVIOUS
  <2>2. Pages!Stale(rs)[i] = [rs[i] EXCEPT !.promise = Pages!NoPage, !.stale = TRUE]
    BY DEF Pages!Stale
  <2> QED
    BY <2>1, <2>2, NoPageTyped DEF Pages!Reads
<1>2. DOMAIN Pages!Stale(rs) = 1 .. Len(rs) /\ Len(rs) \in Nat /\ DOMAIN rs = 1 .. Len(rs)
  BY DEF Pages!Stale
<1>3. Pages!Stale(rs) = [i \in 1 .. Len(rs) |-> Pages!Stale(rs)[i]]
  BY <1>2 DEF Pages!Stale
<1>4. Pages!Stale(rs) \in Seq(Pages!Reads)
  <2> DEFINE q == Pages!Stale(rs)
  <2>1. q = [i \in 1 .. Len(rs) |-> q[i]] /\ \A i \in 1 .. Len(rs) : q[i] \in Pages!Reads
    BY <1>1, <1>2, <1>3
  <2> HIDE DEF q
  <2>2. q \in [1 .. Len(rs) -> Pages!Reads]
    BY <2>1
  <2>3. q \in Seq(Pages!Reads)
    BY <1>2, <2>2, SeqOf
  <2> QED
    BY <2>3 DEF q
<1> QED
  BY <1>1, <1>2, <1>4 DEF AllFresh, Fresh

LEMMA PushFresh ==
    ASSUME NEW rs \in Seq(Pages!Reads), NEW f \in Pages!Reads, NEW R, NEW s,
           AllFresh(rs, R, s), Fresh(f, R, s)
    PROVE  Append(rs, f) \in Seq(Pages!Reads) /\ AllFresh(Append(rs, f), R, s)
BY DEF AllFresh

LEMMA PopFresh ==
    ASSUME reads \in Seq(Pages!Reads), reads # <<>>, NEW R, NEW s, AllFresh(reads, R, s)
    PROVE  /\ Pages!Innermost \in Pages!Reads /\ Fresh(Pages!Innermost, R, s)
           /\ Pages!Outer \in Seq(Pages!Reads) /\ AllFresh(Pages!Outer, R, s)
<1>1. Len(reads) \in Nat \ {0} /\ DOMAIN reads = 1 .. Len(reads)
  OBVIOUS
<1>2. Len(reads) \in DOMAIN reads
  BY <1>1
<1>3. Pages!Innermost \in Pages!Reads /\ Fresh(Pages!Innermost, R, s)
  BY <1>1, <1>2 DEF AllFresh, Pages!Innermost
<1>4. Pages!Outer \in Seq(Pages!Reads) /\ DOMAIN Pages!Outer \subseteq DOMAIN reads
      /\ \A i \in DOMAIN Pages!Outer : Pages!Outer[i] = reads[i]
  BY <1>1 DEF Pages!Outer
<1>5. AllFresh(Pages!Outer, R, s)
  BY <1>4 DEF AllFresh
<1> QED
  BY <1>3, <1>4, <1>5

\* The last page of the rows R is right for them.
LEMMA LastAsked ==
    ASSUME NEW R, Spans(R, Pages!Lower(R), Pages!Upper(R)), size \in 0 .. Last32,
           NEW rs \in Seq(Pages!Reads), AllFresh(rs, R, size),
           NEW k \in {"last", "applied", "reset"}, Pages!AskLastPage(k, R, rs)
    PROVE  reads' \in Seq(Pages!Reads) /\ AllFresh(reads', R, size)
<1> DEFINE f == Plain(k, Pages!LastBegin(R, size))
<1>1. Pages!LastBegin(R, size) \in 0 .. Last32
      /\ (size > 0 /\ size <= MaxView => FitsOn(R, Pages!LastBegin(R, size), size))
  BY LastFits
<1>2. f \in Pages!Reads /\ f.kind = k /\ f.begin = Pages!LastBegin(R, size)
  <2> DEFINE b == Pages!LastBegin(R, size)
  <2>1. b \in 0 .. Last32 /\ k \in {"last", "applied", "reset", "height", "period"}
    BY <1>1
  <2> HIDE DEF b
  <2>2. Plain(k, b) \in Pages!Reads /\ Plain(k, b).kind = k /\ Plain(k, b).begin = b
    BY <2>1, PlainRead
  <2> QED
    BY <2>2 DEF b
<1>3. reads' = IF size = 0 THEN rs ELSE Append(rs, f)
  BY DEF Pages!AskLastPage, Plain
<1> HIDE DEF f
<1>4. size \in 1 .. MaxView => FitsOn(R, f.begin, size)
  BY <1>1, <1>2, PagesAssumption
<1>5. Fresh(f, R, size)
  BY <1>2, <1>4 DEF Fresh
<1>6. Append(rs, f) \in Seq(Pages!Reads) /\ AllFresh(Append(rs, f), R, size)
  BY <1>2, <1>5, PushFresh
<1> QED
  BY <1>3, <1>6

-----------------------------------------------------------------------------
(* The steps.                                                              *)

\* What the step leaves in the rows.
LEMMA RowsAfter ==
    ASSUME tip' \in 0 .. PageHeight \cup {Last32}, low' \in 0 .. Last32, high' \in 0 .. Last32
    PROVE  /\ Spans(Pages!Rows', Pages!Lower(Pages!Rows'), Pages!Upper(Pages!Rows'))
           /\ Pages!Rows' # {} <=> tip' # Last32 /\ low' <= tip' /\ low' <= high'
<1> DEFINE l == tip'
           lo == low'
           hi == high'
<1>1. /\ Spans(Pages!Accepted(l, lo, hi), Pages!Lower(Pages!Accepted(l, lo, hi)),
                Pages!Upper(Pages!Accepted(l, lo, hi)))
      /\ Pages!Accepted(l, lo, hi) # {} <=> l # Last32 /\ lo <= l /\ lo <= hi
  <2>1. l \in 0 .. PageHeight \cup {Last32} /\ lo \in 0 .. Last32 /\ hi \in 0 .. Last32
    OBVIOUS
  <2> HIDE DEF l, lo, hi
  <2> QED
    BY <2>1, RowsSpan
<1>2. Pages!Rows' = Pages!Accepted(l, lo, hi)
  BY DEF Pages!Rows
<1> QED
  BY <1>1, <1>2

\* What the buttons say are heights.
LEMMA ButtonsTold ==
    ASSUME tip' \in 0 .. PageHeight \cup {Last32}, low' \in 0 .. Last32, high' \in 0 .. Last32,
           begin' \in 0 .. Last32, size' \in 0 .. Last32,
           Pages!UpdateButtonsText \/ (prev \in Pages!Pair /\ next \in Pages!Pair
                                          /\ UNCHANGED <<prev, next>>)
    PROVE  prev' \in Pages!Pair /\ next' \in Pages!Pair
<1> SUFFICES ASSUME Pages!UpdateButtonsText PROVE prev' \in Pages!Pair /\ next' \in Pages!Pair
  OBVIOUS
<1> DEFINE l == tip'
           a == low'
           z == high'
           b == begin'
           s == size'
           R == Pages!Accepted(l, a, z)
           lo == Pages!Lower(R)
           up == Pages!Upper(R)
<1>1. /\ l \in 0 .. PageHeight \cup {Last32} /\ a \in 0 .. Last32 /\ z \in 0 .. Last32
      /\ b \in 0 .. Last32 /\ s \in 0 .. Last32
      /\ prev' = Pages!PrevInterval(R, b, s) /\ next' = Pages!NextInterval(R, b, s)
  BY DEF Pages!UpdateButtonsText
<1> HIDE DEF l, a, z, b, s
<1>2. Spans(R, lo, up)
  BY <1>1, RowsSpan
<1> HIDE DEF R
<1>3. /\ lo \in 0 .. Last32 /\ up \in 0 .. Last32 /\ Last32 \in Nat
      /\ Pages!Invalid = Last32 /\ Last32 \in 0 .. Last32
  BY <1>2, PagesAssumption, Unsigned DEF Spans, Pages!Invalid, Last32
<1> HIDE DEF lo, up
<1>4. prev' \in Pages!Pair
  <2> DEFINE p == IF Pages!U(lo + s) > b THEN lo ELSE Pages!U(b - s)
  <2>1. p \in 0 .. Last32
    <3>1. b - s \in Int
      BY <1>1, <1>3
    <3>2. Pages!U(b - s) \in 0 .. Last32
      BY <3>1, Unsigned
    <3> QED
      BY <1>3, <3>2
  <2>2. prev' = IF b = lo THEN Pages!NoPage ELSE <<p, Pages!U(p + s - 1)>>
    BY <1>1 DEF Pages!PrevInterval, lo
  <2> HIDE DEF p
  <2>3. p + s - 1 \in Int
    BY <1>1, <1>3, <2>1
  <2>4. Pages!U(p + s - 1) \in 0 .. Last32
    BY <2>3, Unsigned
  <2>5. <<p, Pages!U(p + s - 1)>> \in Pages!Pair
    BY <1>3, <2>1, <2>4 DEF Pages!Pair
  <2> QED
    BY <2>2, <2>5, NoPageTyped
<1>5. next' \in Pages!Pair
  <2> DEFINE e == Pages!U(b + 2 * s - 1)
             p == Pages!U(b + s)
             q == IF e < up THEN e ELSE up
  <2>1. b + 2 * s - 1 \in Int /\ b + s \in Int
    BY <1>1, <1>3
  <2>2. e \in 0 .. Last32 /\ p \in 0 .. Last32
    BY <2>1, Unsigned
  <2>3. next' = IF up < p THEN Pages!NoPage ELSE <<p, q>>
    BY <1>1 DEF Pages!NextInterval, up
  <2> HIDE DEF e, p
  <2>4. q \in 0 .. Last32
    BY <1>3, <2>2
  <2> HIDE DEF q
  <2>5. <<p, q>> \in Pages!Pair
    BY <1>3, <2>2, <2>4 DEF Pages!Pair
  <2> QED
    BY <2>3, <2>5, NoPageTyped
<1> QED
  BY <1>4, <1>5

\* A function begins: the window and its rows are as they were.
LEMMA PageAsked ==
    ASSUME PagesInv, UNCHANGED <<tip, low, high, begin, size, view, astray>>,
           search' \in {"all", "height", "period"},
           reads' \in Seq(Pages!Reads), AllFresh(reads', Pages!Rows, size),
           Pages!UpdateButtonsText \/ UNCHANGED <<prev, next>>
    PROVE  PagesInv'
<1>1. Pages!Rows' = Pages!Rows
  BY DEF Pages!Rows
<1>2. /\ tip' \in 0 .. PageHeight \cup {Last32} /\ low' \in 0 .. Last32 /\ high' \in 0 .. Last32
      /\ begin' \in 0 .. Last32 /\ size' \in 0 .. Last32
  BY PagesNumbers
<1>3. prev' \in Pages!Pair /\ next' \in Pages!Pair
  BY <1>2, PagesTyped, ButtonsTold
<1>4. Pages!TypeOK'
  BY <1>3, PagesNumbers, PagesTyped DEF Pages!TypeOK
<1>5. PagesSearched' /\ PagesWindow'
  BY <1>1 DEF PagesInv, PagesSearched, PagesWindow
<1>6. AllFresh(reads, Pages!Rows, size)'
  BY <1>1
<1> QED
  BY <1>4, <1>5, <1>6 DEF PagesInv

LEMMA PageNext == PagesInv /\ Pages!NextPage => PagesInv'
<1> SUFFICES ASSUME PagesInv, Pages!NextPage PROVE PagesInv'
  OBVIOUS
<1> DEFINE R == Pages!Rows
           b == Pages!NextBegin(R)
           old == (astray \/ next # Pages!NextInterval(R, begin, size))
           f == Pages!Read("next", b, next, old)
<1>1. /\ next # Pages!NoPage /\ reads' = Append(reads, f)
      /\ UNCHANGED <<tip, search, low, high, begin, size, view, prev, next, astray>>
  BY DEF Pages!NextPage
<1>2. b \in 0 .. Last32
  <2>1. /\ Pages!Upper(Pages!Rows) - size + 1 \in Int /\ begin + size \in Int
    BY PagesNumbers, PagesRows DEF Spans
  <2> QED
    BY <2>1, Unsigned DEF Pages!NextBegin
<1>3. old \in BOOLEAN
  OBVIOUS
<1>4. ASSUME ~old, size > 0
      PROVE  /\ FitsOn(R, b, size) /\ next[2] <= Pages!Upper(R)
             /\ (next[1] .. next[2]) \cap R \subseteq Pages!Shown(R, b, size)
  BY <1>1, <1>4, NextFits
<1> HIDE DEF R, b, old
<1>5. f \in Pages!Reads /\ f.kind = "next" /\ f.begin = b /\ f.promise = next /\ f.stale = old
  BY <1>2, <1>3, PagesTyped, ReadTyped
<1> HIDE DEF f
<1>6. size \in 1 .. MaxView => size > 0
  BY PagesNumbers
<1>7. Fresh(f, R, size)
  BY <1>4, <1>5, <1>6 DEF Fresh
<1>8. reads' \in Seq(Pages!Reads) /\ AllFresh(reads', R, size)
  BY <1>1, <1>5, <1>7, PagesTyped, PushFresh DEF R
<1> QED
  BY <1>1, <1>8, PagesTyped, PageAsked DEF R

LEMMA PagePrev == PagesInv /\ Pages!PrevPage => PagesInv'
<1> SUFFICES ASSUME PagesInv, Pages!PrevPage PROVE PagesInv'
  OBVIOUS
<1> DEFINE R == Pages!Rows
           b == Pages!PrevBegin(R)
           old == (astray \/ prev # Pages!PrevInterval(R, begin, size))
           f == Pages!Read("prev", b, prev, old)
<1>1. /\ prev # Pages!NoPage /\ reads' = Append(reads, f)
      /\ UNCHANGED <<tip, search, low, high, begin, size, view, prev, next, astray>>
  BY DEF Pages!PrevPage
<1>2. b \in 0 .. Last32
  <2>1. /\ Pages!Lower(Pages!Rows) \in 0 .. Last32 /\ begin - size \in Int
    BY PagesNumbers, PagesRows DEF Spans
  <2>2. Pages!U(begin - size) \in 0 .. Last32
    BY <2>1, Unsigned
  <2> QED
    BY <2>1, <2>2 DEF Pages!PrevBegin
<1>3. old \in BOOLEAN
  OBVIOUS
<1>4. ASSUME ~old, size > 0 PROVE FitsOn(R, b, size)
  BY <1>4, PrevFits
<1>5. ASSUME ~old PROVE b = prev[1]
  <2>1. prev = <<b, Pages!U(b + size - 1)>>
    BY <1>1, <1>5 DEF Pages!PrevInterval, Pages!PrevBegin
  <2> HIDE DEF b
  <2> QED
    BY <2>1
<1> HIDE DEF R, b, old
<1>6. f \in Pages!Reads /\ f.kind = "prev" /\ f.begin = b /\ f.promise = prev /\ f.stale = old
  BY <1>2, <1>3, PagesTyped, ReadTyped
<1> HIDE DEF f
<1>7. size \in 1 .. MaxView => size > 0
  BY PagesNumbers
<1>8. Fresh(f, R, size)
  BY <1>4, <1>5, <1>6, <1>7 DEF Fresh
<1>9. reads' \in Seq(Pages!Reads) /\ AllFresh(reads', R, size)
  BY <1>1, <1>6, <1>8, PagesTyped, PushFresh DEF R
<1> QED
  BY <1>1, <1>9, PagesTyped, PageAsked DEF R

LEMMA PageLast == PagesInv /\ Pages!LastPage => PagesInv'
<1> SUFFICES ASSUME PagesInv, Pages!LastPage PROVE PagesInv'
  OBVIOUS
<1>1. /\ Pages!AskLastPage("last", Pages!Rows, reads)
      /\ UNCHANGED <<tip, search, low, high, begin, size, view, astray>>
      /\ Pages!UpdateButtonsText \/ UNCHANGED <<prev, next>>
  BY DEF Pages!LastPage
<1> DEFINE R == Pages!Rows
<1>2. Spans(R, Pages!Lower(R), Pages!Upper(R)) /\ size \in 0 .. Last32
  BY PagesRows, PagesNumbers
<1>3. reads \in Seq(Pages!Reads) /\ AllFresh(reads, R, size)
  BY PagesTyped
<1> HIDE DEF R
<1>4. reads' \in Seq(Pages!Reads) /\ AllFresh(reads', R, size)
  BY <1>1, <1>2, <1>3, LastAsked DEF R
<1> QED
  BY <1>1, <1>4, PagesTyped, PageAsked DEF R

\* A page is stored: it is right, or shows blocks, or the window stays astray.
LEMMA PageStored ==
    ASSUME PagesInv, NEW f \in Pages!Reads, f.kind \in Turning,
           Fresh(f, Pages!Rows, size), Pages!Turn(f),
           UNCHANGED <<tip, search, low, high, size, view>>,
           Pages!UpdateButtonsText \/ UNCHANGED <<prev, next>>,
           reads' \in Seq(Pages!Reads), AllFresh(reads', Pages!Rows, size)
    PROVE  PagesInv'
<1>1. /\ size \in 0 .. Last32 /\ view \in 0 .. MaxView /\ MaxView \in Nat /\ Last32 \in Nat
      /\ f.begin \in 0 .. Last32 /\ f.stale \in BOOLEAN
  BY PagesNumbers DEF Pages!Reads
<1>2. /\ begin' = f.begin
      /\ astray' = ((astray \/ f.stale) /\
                      (size \notin 1 .. view \/ Pages!Shown(Pages!Rows, f.begin, size) = {}))
  BY DEF Pages!Turn
<1>3. Pages!Rows' = Pages!Rows
  BY DEF Pages!Rows
<1>4. astray' \in BOOLEAN
  BY <1>2
<1>5. ASSUME ~astray, ~f.stale PROVE PagesWindow' /\ PagesSearched'
  <2>1. size <= view
    BY <1>5 DEF PagesInv, PagesWindow
  <2>2. size > 0 => size \in 1 .. MaxView
    BY <1>1, <2>1
  <2>3. size > 0 => FitsOn(Pages!Rows, begin', size)
    BY <1>2, <1>5, <2>2 DEF Fresh
  <2>4. PagesWindow'
    BY <1>3, <2>1, <2>3 DEF PagesWindow
  <2>5. PagesSearched'
    BY <1>3, <1>5 DEF PagesInv, PagesSearched
  <2> QED
    BY <2>4, <2>5
<1>6. ASSUME ~astray', astray \/ f.stale PROVE PagesWindow' /\ PagesSearched'
  <2>1. size \in 1 .. view /\ Pages!Shown(Pages!Rows, f.begin, size) # {}
    BY <1>2, <1>6
  <2>2. size \in 0 .. MaxView /\ size > 0 /\ size <= view
    BY <1>1, <2>1
  <2>3. FitsOn(Pages!Rows, f.begin, size) /\ Pages!Rows # {}
    BY <1>1, <2>1, <2>2, PagesRows, FitsShows
  <2> QED
    BY <1>2, <1>3, <2>2, <2>3 DEF PagesWindow, PagesSearched
<1>7. PagesWindow' /\ PagesSearched'
  BY <1>4, <1>5, <1>6 DEF PagesWindow, PagesSearched
<1>8. prev' \in Pages!Pair /\ next' \in Pages!Pair
  <2>1. /\ tip' \in 0 .. PageHeight \cup {Last32} /\ low' \in 0 .. Last32 /\ high' \in 0 .. Last32
        /\ begin' \in 0 .. Last32 /\ size' \in 0 .. Last32
    BY <1>1, <1>2, PagesNumbers
  <2> QED
    BY <2>1, PagesTyped, ButtonsTold
<1>9. Pages!TypeOK'
  <2>1. begin' \in 0 .. Last32
    BY <1>1, <1>2
  <2> QED
    BY <1>4, <1>8, <2>1, PagesNumbers, PagesTyped DEF Pages!TypeOK
<1>10. AllFresh(reads, Pages!Rows, size)'
  BY <1>3
<1> QED
  BY <1>7, <1>9, <1>10 DEF PagesInv

LEMMA PageTurned == PagesInv /\ Pages!PageTurned => PagesInv'
<1> SUFFICES ASSUME PagesInv, Pages!PageTurned PROVE PagesInv'
  OBVIOUS
<1>1. /\ reads # <<>> /\ Pages!Innermost.kind \in {"next", "prev", "last", "applied"}
      /\ Pages!Turn(Pages!Innermost) /\ reads' = Pages!Outer
      /\ UNCHANGED <<tip, search, low, high, size, view>>
      /\ Pages!UpdateButtonsText
  BY DEF Pages!PageTurned
<1>2. /\ Pages!Innermost \in Pages!Reads /\ Fresh(Pages!Innermost, Pages!Rows, size)
      /\ Pages!Outer \in Seq(Pages!Reads) /\ AllFresh(Pages!Outer, Pages!Rows, size)
  BY <1>1, PagesTyped, PopFresh
<1>3. Pages!Innermost.kind \in Turning
  BY <1>1 DEF Turning
<1> QED
  BY <1>1, <1>2, <1>3, PageStored

LEMMA ResetTurned == PagesInv /\ Pages!ResetTurned => PagesInv'
<1> SUFFICES ASSUME PagesInv, Pages!ResetTurned PROVE PagesInv'
  OBVIOUS
<1>1. /\ reads # <<>> /\ Pages!Innermost.kind = "reset"
      /\ Pages!Turn(Pages!Innermost) /\ Pages!AskLastPage("last", Pages!Rows, Pages!Outer)
      /\ UNCHANGED <<tip, search, low, high, size, view>>
      /\ Pages!UpdateButtonsText \/ UNCHANGED <<prev, next>>
  BY DEF Pages!ResetTurned
<1>2. /\ Pages!Innermost \in Pages!Reads /\ Fresh(Pages!Innermost, Pages!Rows, size)
      /\ Pages!Outer \in Seq(Pages!Reads) /\ AllFresh(Pages!Outer, Pages!Rows, size)
  BY <1>1, PagesTyped, PopFresh
<1>3. Pages!Innermost.kind \in Turning
  BY <1>1 DEF Turning
<1>4. reads' \in Seq(Pages!Reads) /\ AllFresh(reads', Pages!Rows, size)
  <2> DEFINE R == Pages!Rows
             rs == Pages!Outer
  <2>1. Spans(R, Pages!Lower(R), Pages!Upper(R)) /\ size \in 0 .. Last32
    BY PagesRows, PagesNumbers
  <2>2. rs \in Seq(Pages!Reads) /\ AllFresh(rs, R, size) /\ Pages!AskLastPage("last", R, rs)
    BY <1>1, <1>2
  <2> HIDE DEF R, rs
  <2>3. reads' \in Seq(Pages!Reads) /\ AllFresh(reads', R, size)
    BY <2>1, <2>2, LastAsked
  <2> QED
    BY <2>3 DEF R
<1> QED
  BY <1>1, <1>2, <1>3, <1>4, PageStored

\* Other rows, or the same, and their last page on top of the reads rs.
LEMMA RowsChosen ==
    ASSUME PagesInv, Pages!WindowRefiltered, UNCHANGED <<tip, begin, size, view>>,
           search' \in {"all", "height", "period"}, low' \in 0 .. Last32, high' \in 0 .. Last32,
           Pages!UpdateButtonsText \/ UNCHANGED <<prev, next>>,
           NEW rs \in Seq(Pages!Reads), AllFresh(rs, Pages!Rows, size),
           NEW k \in {"last", "applied", "reset"},
           Pages!AskLastPage(k, Pages!Accepted(tip', low', high'), Pages!Refiltered(rs)),
           \/ low' = low /\ high' = high
           \/ tip # Last32 /\ low' # Last32 => low' <= tip /\ low' <= high'
    PROVE  PagesInv'
<1>1. tip' \in 0 .. PageHeight \cup {Last32} /\ tip' = tip
  BY PagesNumbers
<1>2. /\ Spans(Pages!Rows', Pages!Lower(Pages!Rows'), Pages!Upper(Pages!Rows'))
      /\ Pages!Rows' # {} <=> tip' # Last32 /\ low' <= tip' /\ low' <= high'
  BY <1>1, RowsAfter
<1>3. Pages!Accepted(tip', low', high') = Pages!Rows'
  BY DEF Pages!Rows
<1>4. Pages!OtherRows <=> Pages!Rows' # Pages!Rows
  BY <1>3 DEF Pages!OtherRows
<1>5. Pages!Refiltered(rs) \in Seq(Pages!Reads) /\ AllFresh(Pages!Refiltered(rs), Pages!Rows', size)
  <2>1. CASE Pages!OtherRows
    <3> DEFINE R == Pages!Rows'
    <3>1. Pages!Refiltered(rs) = Pages!Stale(rs)
      BY <2>1 DEF Pages!Refiltered
    <3> HIDE DEF R
    <3>2. Pages!Stale(rs) \in Seq(Pages!Reads) /\ AllFresh(Pages!Stale(rs), R, size)
      BY StaleFresh
    <3> QED
      BY <3>1, <3>2 DEF R
  <2>2. CASE ~Pages!OtherRows
    <3>1. Pages!Refiltered(rs) = rs /\ Pages!Rows' = Pages!Rows
      BY <1>4, <2>2 DEF Pages!Refiltered
    <3> QED
      BY <3>1
  <2> QED
    BY <2>1, <2>2
<1>6. reads' \in Seq(Pages!Reads) /\ AllFresh(reads', Pages!Rows', size)
  <2> DEFINE R == Pages!Rows'
             q == Pages!Refiltered(rs)
  <2>1. /\ Spans(R, Pages!Lower(R), Pages!Upper(R)) /\ size \in 0 .. Last32
        /\ q \in Seq(Pages!Reads) /\ AllFresh(q, R, size) /\ Pages!AskLastPage(k, R, q)
    BY <1>2, <1>3, <1>5, PagesNumbers
  <2> HIDE DEF R, q
  <2>2. reads' \in Seq(Pages!Reads) /\ AllFresh(reads', R, size)
    BY <2>1, LastAsked
  <2> QED
    BY <2>2 DEF R
<1>7. astray' = (astray \/ (size > 0 /\ Pages!Rows' # Pages!Rows))
  BY <1>4 DEF Pages!WindowRefiltered
<1>8. PagesWindow'
  <2>1. ASSUME ~astray' PROVE size <= view /\ (size > 0 => FitsOn(Pages!Rows', begin, size))
    <3>1. ~astray /\ (size > 0 => Pages!Rows' = Pages!Rows)
      BY <1>7, <2>1
    <3> QED
      BY <3>1 DEF PagesInv, PagesWindow
  <2> QED
    BY <2>1 DEF PagesWindow
<1>9. PagesSearched'
  <2>1. ASSUME ~astray', tip' # Last32, low' # Last32 PROVE Pages!Rows' # {}
    <3>1. CASE low' = low /\ high' = high
      <4>1. Pages!Rows' = Pages!Rows /\ ~astray
        BY <1>1, <1>7, <2>1, <3>1 DEF Pages!Rows
      <4> QED
        BY <1>1, <2>1, <3>1, <4>1 DEF PagesInv, PagesSearched
    <3>2. CASE tip # Last32 /\ low' # Last32 => low' <= tip /\ low' <= high'
      BY <1>1, <1>2, <2>1, <3>2
    <3> QED
      BY <3>1, <3>2
  <2> QED
    BY <2>1 DEF PagesSearched
<1>10. Pages!TypeOK'
  <2>1. prev' \in Pages!Pair /\ next' \in Pages!Pair
    <3>1. begin' \in 0 .. Last32 /\ size' \in 0 .. Last32
      BY PagesNumbers
    <3> QED
      BY <1>1, <3>1, PagesTyped, ButtonsTold
  <2>2. astray' \in BOOLEAN
    BY <1>7
  <2> QED
    BY <1>1, <1>6, <2>1, <2>2, PagesNumbers DEF Pages!TypeOK
<1>11. AllFresh(reads, Pages!Rows, size)'
  BY <1>6
<1> QED
  BY <1>8, <1>9, <1>10, <1>11 DEF PagesInv

LEMMA FilterStored ==
    ASSUME PagesInv, NEW rs \in Seq(Pages!Reads), AllFresh(rs, Pages!Rows, size),
           Pages!FilterSet(rs), search' \in {"all", "height", "period"},
           low' \in 0 .. Last32, high' \in 0 .. Last32,
           \/ low' = low /\ high' = high
           \/ tip # Last32 /\ low' # Last32 => low' <= tip /\ low' <= high'
    PROVE  PagesInv'
<1>1. /\ UNCHANGED <<tip, begin, size, view>> /\ Pages!WindowRefiltered
      /\ Pages!AskLastPage("applied", Pages!Accepted(tip', low', high'), Pages!Refiltered(rs))
      /\ Pages!UpdateButtonsText \/ UNCHANGED <<prev, next>>
  BY DEF Pages!FilterSet
<1> QED
  BY <1>1, RowsChosen

LEMMA HeightsBelow ==
    ASSUME PagesInv
    PROVE  /\ Last32 > PageHeight /\ PageHeight \in Nat /\ Last32 \in Nat
           /\ 0 \in 0 .. Last32 /\ Last32 \in 0 .. Last32
BY PagesAssumption, Unsigned

LEMMA PageFiltered == PagesInv /\ Pages!ApplyFilter => PagesInv'
<1> SUFFICES ASSUME PagesInv, Pages!ApplyFilter PROVE PagesInv'
  OBVIOUS
<1>1. PICK s \in {"all", "height", "period"} :
        /\ search' = s
        /\ \/ UNCHANGED <<low, high>> /\ Pages!FilterSet(reads)
           \/ low' = 0 /\ high' = Last32 /\ Pages!FilterSet(reads)
           \/ /\ s # "all" /\ reads' = Append(reads, Pages!Read(s, 0, Pages!NoPage, FALSE))
              /\ UNCHANGED <<tip, low, high, begin, size, view, prev, next, astray>>
  BY PagesNumbers DEF Pages!ApplyFilter
<1>2. CASE UNCHANGED <<low, high>> /\ Pages!FilterSet(reads)
  <2>1. low' \in 0 .. Last32 /\ high' \in 0 .. Last32 /\ low' = low /\ high' = high
    BY <1>2, PagesNumbers
  <2> QED
    BY <1>1, <1>2, <2>1, PagesTyped, FilterStored
<1>3. CASE low' = 0 /\ high' = Last32 /\ Pages!FilterSet(reads)
  <2>1. low' \in 0 .. Last32 /\ high' \in 0 .. Last32
    BY <1>3, HeightsBelow
  <2>2. tip # Last32 /\ low' # Last32 => low' <= tip /\ low' <= high'
    BY <1>3, PagesNumbers
  <2> QED
    BY <1>1, <1>3, <2>1, <2>2, PagesTyped, FilterStored
<1>4. CASE /\ s # "all" /\ reads' = Append(reads, Pages!Read(s, 0, Pages!NoPage, FALSE))
           /\ UNCHANGED <<tip, low, high, begin, size, view, prev, next, astray>>
  <2> DEFINE f == Plain(s, 0)
  <2>1. f \in Pages!Reads /\ f.kind = s
    <3>1. s \in {"last", "applied", "reset", "height", "period"} /\ 0 \in 0 .. Last32
      BY <1>4, HeightsBelow
    <3> QED
      BY <3>1, PlainRead
  <2> HIDE DEF f
  <2>2. Fresh(f, Pages!Rows, size)
    BY <1>4, <2>1 DEF Fresh, Turning
  <2>3. reads' \in Seq(Pages!Reads) /\ AllFresh(reads', Pages!Rows, size)
    <3>1. reads' = Append(reads, f)
      BY <1>4 DEF f, Plain
    <3> QED
      BY <2>1, <2>2, <3>1, PagesTyped, PushFresh
  <2> QED
    BY <1>1, <1>4, <2>3, PageAsked
<1> QED
  BY <1>1, <1>2, <1>3, <1>4

LEMMA PageSearched == PagesInv /\ Pages!SearchDone => PagesInv'
<1> SUFFICES ASSUME PagesInv, Pages!SearchDone PROVE PagesInv'
  OBVIOUS
<1>1. /\ reads # <<>> /\ UNCHANGED search /\ Pages!FilterSet(Pages!Outer)
      /\ \/ low' = Last32 /\ high' = Last32
         \/ tip # Last32 /\ low' = 0 /\ high' = Last32
         \/ tip # Last32 /\ low' \in 0 .. tip /\ high' = low'
         \/ low' = Last32 /\ high' = 0
         \/ tip # Last32 /\ low' \in 0 .. tip /\ high' \in low' .. tip
  BY PagesNumbers DEF Pages!SearchDone
<1>2. /\ Pages!Outer \in Seq(Pages!Reads) /\ AllFresh(Pages!Outer, Pages!Rows, size)
  BY <1>1, PagesTyped, PopFresh
<1>3. low' \in 0 .. Last32 /\ high' \in 0 .. Last32
  BY <1>1, HeightsBelow, PagesNumbers
<1>4. tip # Last32 /\ low' # Last32 => low' <= tip /\ low' <= high'
  BY <1>1, HeightsBelow, PagesNumbers
<1> QED
  BY <1>1, <1>2, <1>3, <1>4, PagesTyped, FilterStored

LEMMA PageUnfiltered == PagesInv /\ Pages!ResetFilter => PagesInv'
<1> SUFFICES ASSUME PagesInv, Pages!ResetFilter PROVE PagesInv'
  OBVIOUS
<1>1. /\ search' = "all" /\ low' = 0 /\ high' = Last32 /\ Pages!WindowRefiltered
      /\ Pages!AskLastPage("reset", Pages!Accepted(tip, 0, Last32), Pages!Refiltered(reads))
      /\ UNCHANGED <<tip, begin, size, view>>
      /\ Pages!UpdateButtonsText \/ UNCHANGED <<prev, next>>
  BY PagesNumbers DEF Pages!ResetFilter
<1>2. low' \in 0 .. Last32 /\ high' \in 0 .. Last32
  BY <1>1, HeightsBelow
<1>3. tip # Last32 /\ low' # Last32 => low' <= tip /\ low' <= high'
  BY <1>1, PagesNumbers
<1>4. Pages!AskLastPage("reset", Pages!Accepted(tip', low', high'), Pages!Refiltered(reads))
  BY <1>1
<1> QED
  BY <1>1, <1>2, <1>3, <1>4, PagesTyped, RowsChosen

LEMMA PageResized == PagesInv /\ Pages!Resize => PagesInv'
<1> SUFFICES ASSUME PagesInv, Pages!Resize PROVE PagesInv'
  OBVIOUS
<1>1. PICK n \in 0 .. MaxView :
        LET w == Pages!Resized(Pages!Rows, n)
        IN  /\ view' = n /\ size' = w.size /\ begin' = w.begin
            /\ astray' = (astray \/ w.begin > Pages!Upper(Pages!Rows))
            /\ reads' = Pages!Stale(reads)
            /\ UNCHANGED <<tip, search, low, high>>
            /\ Pages!UpdateButtonsText
  BY DEF Pages!Resize
<1>2. Pages!Rows' = Pages!Rows
  BY <1>1 DEF Pages!Rows
<1> DEFINE R == Pages!Rows
<1>3. /\ view \in 0 .. MaxView /\ size \in 0 .. Last32 /\ MaxView \in Nat /\ Last32 \in Nat
      /\ ~astray => size <= view /\ (size > 0 => FitsOn(R, begin, size))
  BY PagesNumbers DEF PagesInv, PagesWindow
<1>4. ~astray => size <= MaxView
  BY <1>3
<1>5. Spans(R, Pages!Lower(R), Pages!Upper(R))
  BY PagesRows
<1> HIDE DEF R
<1> DEFINE w == Pages!Resized(R, n)
<1>6. /\ w.size \in 0 .. Last32 /\ w.begin \in 0 .. Last32
      /\ size <= MaxView /\ (size > 0 => FitsOn(R, begin, size)) /\ w.begin <= Pages!Upper(R)
           => w.size <= n /\ (w.size > 0 => FitsOn(R, w.begin, w.size))
  BY <1>5, ResizedFits
<1>7. /\ view' = n /\ size' = w.size /\ begin' = w.begin /\ Pages!Rows' = R
      /\ astray' = (astray \/ w.begin > Pages!Upper(R))
  BY <1>1, <1>2 DEF R
<1> HIDE DEF w
<1>8. Pages!TypeOK' /\ AllFresh(reads, Pages!Rows, size)'
  <2>1. astray' \in BOOLEAN
    BY <1>7
  <2>2. reads' \in Seq(Pages!Reads) /\ AllFresh(reads', Pages!Rows', size')
    <3> DEFINE s == size'
               q == Pages!Rows'
    <3> HIDE DEF s, q
    <3>1. Pages!Stale(reads) \in Seq(Pages!Reads) /\ AllFresh(Pages!Stale(reads), q, s)
      BY PagesTyped, StaleFresh
    <3> QED
      BY <1>1, <3>1 DEF s, q
  <2>3. prev' \in Pages!Pair /\ next' \in Pages!Pair
    <3>1. /\ tip' \in 0 .. PageHeight \cup {Last32} /\ low' \in 0 .. Last32 /\ high' \in 0 .. Last32
          /\ begin' \in 0 .. Last32 /\ size' \in 0 .. Last32
      BY <1>1, <1>6, <1>7, PagesNumbers
    <3> QED
      BY <1>1, <3>1, ButtonsTold
  <2> QED
    BY <1>1, <1>6, <1>7, <2>1, <2>2, <2>3, PagesNumbers, PagesTyped DEF Pages!TypeOK
<1>9. PagesSearched'
  BY <1>1, <1>2, <1>7 DEF PagesInv, PagesSearched
<1>10. PagesWindow'
  <2>1. ASSUME ~astray' PROVE w.size <= n /\ (w.size > 0 => FitsOn(R, w.begin, w.size))
    <3>1. ~astray /\ ~(w.begin > Pages!Upper(R))
      BY <1>7, <2>1
    <3>2. w.begin <= Pages!Upper(R)
      BY <1>5, <1>6, <3>1, PagesNumbers DEF Spans
    <3> QED
      BY <1>3, <1>4, <1>6, <3>1, <3>2
  <2> QED
    BY <1>7, <2>1 DEF PagesWindow
<1> QED
  BY <1>8, <1>9, <1>10 DEF PagesInv

\* Intervals that contain each other.
LEMMA SpansGrow ==
    ASSUME NEW R, Spans(R, Pages!Lower(R), Pages!Upper(R)), R # {},
           NEW Q, Spans(Q, Pages!Lower(Q), Pages!Upper(Q)), R \subseteq Q
    PROVE  Pages!Lower(Q) <= Pages!Lower(R) /\ Pages!Upper(R) <= Pages!Upper(Q)
<1> DEFINE a == Pages!Lower(R)
           b == Pages!Upper(R)
           c == Pages!Lower(Q)
           d == Pages!Upper(Q)
<1>1. /\ a \in Int /\ b \in Int /\ c \in Int /\ d \in Int
      /\ R = a .. b /\ a <= b /\ Q \subseteq c .. d
  BY PagesAssumption DEF Spans
<1> HIDE DEF a, b, c, d
<1>2. a \in R /\ b \in R
  BY <1>1
<1>3. a \in c .. d /\ b \in c .. d
  BY <1>1, <1>2
<1>4. c <= a /\ b <= d
  BY <1>1, <1>3
<1> QED
  BY <1>4 DEF a, b, c, d

\* More blocks change nothing of what a function will do, if there were blocks.
LEMMA FreshGrows ==
    ASSUME NEW f \in Pages!Reads, NEW s \in 0 .. Last32, NEW l \in 0 .. PageHeight,
           NEW lo \in 0 .. Last32, NEW hi \in 0 .. Last32, NEW m \in 0 .. PageHeight, m < l,
           Fresh(f, Pages!Accepted(m, lo, hi), s), Pages!Accepted(m, lo, hi) # {}
    PROVE  Fresh(f, Pages!Accepted(l, lo, hi), s)
<1> DEFINE R == Pages!Accepted(m, lo, hi)
           Q == Pages!Accepted(l, lo, hi)
<1>1. /\ PageHeight \in Nat /\ Last32 \in Nat /\ Last32 > PageHeight /\ Pages!Invalid = Last32
  BY PagesAssumption, Unsigned DEF Pages!Invalid, Last32
<1>2. /\ Spans(R, Pages!Lower(R), Pages!Upper(R)) /\ Spans(Q, Pages!Lower(Q), Pages!Upper(Q))
  BY RowsSpan
<1>3. R \subseteq Q /\ \A h \in Q : h <= m => h \in R
  BY <1>1 DEF Pages!Accepted
<1>4. \A h \in R : h <= m /\ h \in Int
  BY <1>1 DEF Pages!Accepted
<1>5. R # {} /\ Fresh(f, R, s)
  OBVIOUS
<1> HIDE DEF R, Q
<1>6. Pages!Lower(Q) <= Pages!Lower(R) /\ Pages!Upper(R) <= Pages!Upper(Q)
  BY <1>2, <1>3, <1>5, SpansGrow
<1>7. Pages!Upper(R) \in R
  BY <1>1, <1>2, <1>5 DEF Spans
<1>8. /\ Pages!Upper(R) \in Int /\ Pages!Upper(R) <= m /\ Pages!Upper(Q) \in Int
      /\ Pages!Lower(R) \in Int /\ Pages!Lower(Q) \in Int
  BY <1>1, <1>2, <1>4, <1>7 DEF Spans
<1>9. /\ f.begin \in 0 .. Last32 /\ f.promise[1] \in Int /\ f.promise[2] \in Int
  BY <1>1 DEF Pages!Reads, Pages!Pair
<1> SUFFICES ASSUME ~f.stale
             PROVE  /\ f.kind \in Turning /\ s \in 1 .. MaxView => FitsOn(Q, f.begin, s)
                    /\ f.kind = "next" /\ s > 0 =>
                         /\ (f.promise[1] .. f.promise[2]) \cap Q \subseteq Pages!Shown(Q, f.begin, s)
                         /\ f.promise[2] <= Pages!Upper(Q)
                    /\ f.kind = "prev" => f.begin = f.promise[1]
  BY DEF Fresh, Q
<1>10. ASSUME FitsOn(R, f.begin, s) PROVE FitsOn(Q, f.begin, s)
  BY <1>6, <1>8, <1>9, <1>10 DEF FitsOn
<1>11. ASSUME f.kind = "next", s > 0
       PROVE  /\ (f.promise[1] .. f.promise[2]) \cap Q \subseteq Pages!Shown(Q, f.begin, s)
              /\ f.promise[2] <= Pages!Upper(Q)
  <2>1. /\ (f.promise[1] .. f.promise[2]) \cap R \subseteq Pages!Shown(R, f.begin, s)
        /\ f.promise[2] <= Pages!Upper(R)
    BY <1>5, <1>11 DEF Fresh
  <2>2. f.promise[2] <= Pages!Upper(Q)
    BY <1>6, <1>8, <1>9, <2>1
  <2>3. ASSUME NEW h \in Q, h \in f.promise[1] .. f.promise[2] PROVE h \in Pages!Shown(Q, f.begin, s)
    <3>1. h <= m
      BY <1>1, <1>8, <1>9, <2>1, <2>3
    <3>2. h \in Pages!Shown(R, f.begin, s)
      BY <1>3, <2>1, <2>3, <3>1
    <3> QED
      BY <2>3, <3>2 DEF Pages!Shown
  <2> QED
    BY <2>2, <2>3
<1> QED
  BY <1>5, <1>10, <1>11 DEF Fresh

LEMMA PageGrown == PagesInv /\ Pages!BlocksAdded => PagesInv'
<1> SUFFICES ASSUME PagesInv, Pages!BlocksAdded PROVE PagesInv'
  OBVIOUS
<1>1. PICK l \in 0 .. PageHeight :
        /\ tip # Last32 /\ l > tip /\ tip' = l
        /\ reads' = IF Pages!Rows = {} THEN Pages!Stale(reads) ELSE reads
        /\ UNCHANGED <<search, low, high, begin, size, view, astray>>
        /\ Pages!UpdateButtonsText \/ UNCHANGED <<prev, next>>
  BY PagesNumbers DEF Pages!BlocksAdded
<1>2. /\ tip \in 0 .. PageHeight /\ PageHeight \in Nat /\ Last32 \in Nat /\ Last32 > PageHeight
      /\ low \in 0 .. Last32 /\ high \in 0 .. Last32
      /\ begin \in 0 .. Last32 /\ size \in 0 .. Last32
  <2>1. MaxView \in Nat /\ Last32 > 2 * (PageHeight + MaxView) /\ PageHeight \in Nat
    BY PagesNumbers
  <2>2. Last32 > PageHeight
    BY <2>1, PagesNumbers
  <2> QED
    BY <1>1, <2>2, PagesNumbers
<1>3. /\ Spans(Pages!Rows', Pages!Lower(Pages!Rows'), Pages!Upper(Pages!Rows'))
      /\ Pages!Rows' # {} <=> tip' # Last32 /\ low' <= tip' /\ low' <= high'
  BY <1>1, <1>2, RowsAfter
<1>4. /\ Spans(Pages!Rows, Pages!Lower(Pages!Rows), Pages!Upper(Pages!Rows))
  BY PagesRows
<1>5. Pages!Rows' = Pages!Accepted(l, low, high)
  BY <1>1 DEF Pages!Rows
<1>6. Pages!Rows \subseteq Pages!Rows'
  <2>1. Pages!Invalid = Last32
    BY PagesNumbers
  <2> QED
    BY <1>1, <1>2, <1>5, <2>1 DEF Pages!Rows, Pages!Accepted
<1>7. reads' \in Seq(Pages!Reads) /\ AllFresh(reads', Pages!Rows', size)
  <2>1. CASE Pages!Rows = {}
    <3> DEFINE R == Pages!Rows'
    <3>1. reads' = Pages!Stale(reads)
      BY <1>1, <2>1
    <3> HIDE DEF R
    <3>2. Pages!Stale(reads) \in Seq(Pages!Reads) /\ AllFresh(Pages!Stale(reads), R, size)
      BY PagesTyped, StaleFresh
    <3> QED
      BY <3>1, <3>2 DEF R
  <2>2. CASE Pages!Rows # {}
    <3>1. reads' = reads /\ reads \in Seq(Pages!Reads) /\ AllFresh(reads, Pages!Rows, size)
      BY <1>1, <2>2, PagesTyped
    <3>2. ASSUME NEW i \in DOMAIN reads PROVE Fresh(reads[i], Pages!Rows', size)
      <4>1. /\ reads[i] \in Pages!Reads /\ Fresh(reads[i], Pages!Rows, size)
        BY <3>1 DEF AllFresh
      <4>2. Pages!Rows = Pages!Accepted(tip, low, high) /\ tip < l
        BY <1>1, <1>2 DEF Pages!Rows
      <4> DEFINE f == reads[i]
      <4> HIDE DEF f
      <4>3. Fresh(f, Pages!Accepted(l, low, high), size)
        BY <1>2, <2>2, <4>1, <4>2, FreshGrows DEF f
      <4> QED
        BY <1>5, <4>3 DEF f
    <3> QED
      BY <3>1, <3>2 DEF AllFresh
  <2> QED
    BY <2>1, <2>2
<1>8. Pages!TypeOK' /\ AllFresh(reads, Pages!Rows, size)'
  <2>1. prev' \in Pages!Pair /\ next' \in Pages!Pair
    <3>1. /\ tip' \in 0 .. PageHeight \cup {Last32} /\ low' \in 0 .. Last32 /\ high' \in 0 .. Last32
          /\ begin' \in 0 .. Last32 /\ size' \in 0 .. Last32
      BY <1>1, <1>2
    <3> QED
      BY <1>1, <3>1, PagesTyped, ButtonsTold
  <2> QED
    BY <1>1, <1>7, <2>1, PagesNumbers, PagesTyped DEF Pages!TypeOK
<1>9. PagesSearched'
  BY <1>1, <1>6 DEF PagesInv, PagesSearched
<1>10. PagesWindow'
  <2>1. ASSUME ~astray, size > 0 PROVE FitsOn(Pages!Rows', begin, size)
    <3>1. FitsOn(Pages!Rows, begin, size)
      BY <2>1 DEF PagesInv, PagesWindow
    <3>2. CASE Pages!Rows = {}
      <4>1. low = Last32
        BY <1>1, <2>1, <3>2 DEF PagesInv, PagesSearched
      <4>2. ~(low <= l)
        BY <1>2, <4>1
      <4>3. Pages!Rows' = {}
        BY <1>1, <1>3, <4>2
      <4> QED
        BY <3>1, <3>2, <4>3
    <3>3. CASE Pages!Rows # {}
      <4> DEFINE R == Pages!Rows
                 Q == Pages!Rows'
      <4>1. /\ Spans(R, Pages!Lower(R), Pages!Upper(R)) /\ R # {} /\ R \subseteq Q
            /\ Spans(Q, Pages!Lower(Q), Pages!Upper(Q)) /\ FitsOn(R, begin, size)
        BY <1>3, <1>4, <1>6, <3>1, <3>3
      <4> HIDE DEF R, Q
      <4>2. Pages!Lower(Q) <= Pages!Lower(R) /\ Pages!Upper(R) <= Pages!Upper(Q)
        BY <4>1, SpansGrow
      <4>3. FitsOn(Q, begin, size)
        BY <1>2, <4>1, <4>2 DEF FitsOn, Spans
      <4> QED
        BY <4>3 DEF Q
    <3> QED
      BY <3>2, <3>3
  <2> QED
    BY <1>1, <2>1 DEF PagesInv, PagesWindow
<1> QED
  BY <1>8, <1>9, <1>10 DEF PagesInv

LEMMA PageOfAnother == PagesInv /\ Pages!NodeChanged => PagesInv'
<1> SUFFICES ASSUME PagesInv, Pages!NodeChanged PROVE PagesInv'
  OBVIOUS
<1>1. PICK l \in 0 .. PageHeight \cup {Last32} :
        LET R == Pages!Accepted(l, low, high)
            w == Pages!Resized(R, view)
        IN  /\ tip' = l /\ size' = w.size /\ begin' = w.begin
            /\ astray' = (astray \/ <<low, high>> # <<0, Last32>> \/ begin > Pages!Upper(R))
            /\ reads' = Pages!Stale(reads)
            /\ UNCHANGED <<search, low, high, view>>
            /\ Pages!UpdateButtonsText
  BY PagesNumbers DEF Pages!NodeChanged
<1> DEFINE R == Pages!Accepted(l, low, high)
           w == Pages!Resized(R, view)
<1>2. /\ low \in 0 .. Last32 /\ high \in 0 .. Last32 /\ begin \in 0 .. Last32
      /\ size \in 0 .. Last32 /\ view \in 0 .. MaxView
      /\ PageHeight \in Nat /\ MaxView \in Nat
      /\ Last32 \in Nat /\ Last32 > 2 * (PageHeight + MaxView)
  BY PagesNumbers
<1>3. Pages!Rows' = R
  BY <1>1 DEF Pages!Rows
<1>4. /\ Spans(R, Pages!Lower(R), Pages!Upper(R))
      /\ R # {} <=> l # Last32 /\ low <= l /\ low <= high
  BY <1>2, RowsSpan
<1>5. /\ tip' = l /\ size' = w.size /\ begin' = w.begin
      /\ astray' = (astray \/ <<low, high>> # <<0, Last32>> \/ begin > Pages!Upper(R))
      /\ reads' = Pages!Stale(reads)
      /\ UNCHANGED <<search, low, high, view>>
      /\ Pages!UpdateButtonsText
  BY <1>1
<1> HIDE DEF R
<1>6. /\ w.size \in 0 .. Last32 /\ w.begin \in 0 .. Last32
      /\ size <= MaxView /\ (size > 0 => FitsOn(R, begin, size)) /\ w.begin <= Pages!Upper(R)
           => w.size <= view /\ (w.size > 0 => FitsOn(R, w.begin, w.size))
  BY <1>2, <1>4, ResizedFits
<1> HIDE DEF w
<1>7. Pages!TypeOK' /\ AllFresh(reads, Pages!Rows, size)'
  <2>1. astray' \in BOOLEAN
    BY <1>5
  <2>2. reads' \in Seq(Pages!Reads) /\ AllFresh(reads', Pages!Rows', size')
    <3> DEFINE s == size'
               q == Pages!Rows'
    <3> HIDE DEF s, q
    <3>1. Pages!Stale(reads) \in Seq(Pages!Reads) /\ AllFresh(Pages!Stale(reads), q, s)
      BY PagesTyped, StaleFresh
    <3> QED
      BY <1>5, <3>1 DEF s, q
  <2>3. prev' \in Pages!Pair /\ next' \in Pages!Pair
    <3>1. /\ tip' \in 0 .. PageHeight \cup {Last32} /\ low' \in 0 .. Last32 /\ high' \in 0 .. Last32
          /\ begin' \in 0 .. Last32 /\ size' \in 0 .. Last32
      BY <1>1, <1>5, <1>6, PagesNumbers
    <3> QED
      BY <1>5, <3>1, ButtonsTold
  <2> QED
    BY <1>5, <1>6, <2>1, <2>2, <2>3, PagesNumbers, PagesTyped DEF Pages!TypeOK
<1>8. ASSUME ~astray' PROVE low = 0 /\ high = Last32 /\ ~astray /\ begin <= Pages!Upper(R)
  <2>1. ~astray /\ <<low, high>> = <<0, Last32>> /\ ~(begin > Pages!Upper(R))
    BY <1>5, <1>8
  <2>2. Pages!Upper(R) \in Int /\ begin \in Int
    BY <1>2, <1>4 DEF Spans
  <2> QED
    BY <2>1, <2>2
<1>9. PagesSearched'
  <2>1. ASSUME ~astray', l # Last32 PROVE R # {}
    BY <1>2, <1>4, <1>8, <2>1
  <2> QED
    BY <1>3, <1>5, <2>1 DEF PagesInv, PagesSearched
<1>10. PagesWindow'
  <2>1. ASSUME ~astray' PROVE w.size <= view /\ (w.size > 0 => FitsOn(R, w.begin, w.size))
    <3>1. ~astray /\ low = 0 /\ high = Last32 /\ begin <= Pages!Upper(R)
      BY <1>8, <2>1
    <3>2. size <= view
      BY <3>1 DEF PagesInv, PagesWindow
    <3>3. size <= MaxView
      BY <1>2, <3>2
    <3>4. Pages!Lower(R) = 0
      <4>1. 0 \in 0 .. PageHeight /\ (R # {} => 0 \in R)
        BY <1>1, <1>2, <1>4, <3>1 DEF R, Pages!Accepted, Pages!Invalid, Last32
      <4> QED
        BY <1>2, <1>4, <4>1 DEF Spans
    <3>5. size > 0 => FitsOn(R, begin, size)
      BY <1>2, <3>1, <3>4 DEF FitsOn
    <3>6. w.begin <= begin
      <4>1. CASE view = size
        BY <1>2, <4>1 DEF w, Pages!Resized
      <4>2. CASE view > size
        <5>1. w.begin = IF Pages!U(0 + view - size) > begin THEN 0 ELSE Pages!U(begin - (view - size))
          BY <1>2, <3>4, <4>2 DEF w, Pages!Resized
        <5>2. 0 + view - size \in 0 .. Last32
          BY <1>2, <4>2
        <5>3. Pages!U(0 + view - size) = 0 + view - size
          BY <5>2, Unsigned
        <5>4. CASE 0 + view - size > begin
          BY <1>2, <5>1, <5>3, <5>4
        <5>5. CASE ~(0 + view - size > begin)
          <6>1. begin - (view - size) \in 0 .. Last32
            BY <1>2, <4>2, <5>5
          <6>2. w.begin = begin - (view - size)
            BY <5>1, <5>3, <5>5, <6>1, Unsigned
          <6> QED
            BY <1>2, <4>2, <6>2
        <5> QED
          BY <5>4, <5>5
      <4> QED
        BY <1>2, <3>2, <4>1, <4>2
    <3>7. w.begin <= Pages!Upper(R)
      BY <1>2, <1>4, <1>6, <3>1, <3>6 DEF Spans
    <3> QED
      BY <1>6, <3>3, <3>5, <3>7
  <2> QED
    BY <1>3, <1>5, <2>1 DEF PagesWindow
<1> QED
  BY <1>7, <1>9, <1>10 DEF PagesInv

-----------------------------------------------------------------------------
(* The promises.                                                           *)

LEMMA PagesUnchanged == PagesInv /\ UNCHANGED pages => PagesInv'
<1> SUFFICES ASSUME PagesInv, UNCHANGED pages PROVE PagesInv'
  OBVIOUS
<1>1. UNCHANGED <<tip, search, low, high, begin, size, view, prev, next, astray, reads>>
  BY DEF pages
<1>2. Pages!Rows' = Pages!Rows
  BY <1>1 DEF Pages!Rows
<1>3. AllFresh(reads, Pages!Rows, size)'
  BY <1>1, <1>2, PagesTyped
<1>4. Pages!TypeOK'
  BY <1>1, PagesNumbers, PagesTyped DEF Pages!TypeOK
<1>5. PagesSearched' /\ PagesWindow'
  BY <1>1, <1>2 DEF PagesInv, PagesSearched, PagesWindow
<1> QED
  BY <1>3, <1>4, <1>5 DEF PagesInv

LEMMA PagesSteps == [Next]_vars => Pages!Next \/ UNCHANGED pages
BY DEF Next, vars

LEMMA PagesKept == PagesInv /\ [Next]_vars => PagesInv'
BY PagesSteps, PagesUnchanged, PageNext, PagePrev, PageLast, PageTurned, PageResized,
   PageFiltered, PageSearched, PageUnfiltered, ResetTurned, PageGrown, PageOfAnother
   DEF Pages!Next

\* No page's end wraps, and a page that was chosen shows blocks.
LEMMA PagesPromise == PagesInv => Pages!WindowFits /\ Pages!PageNotBlank
<1> SUFFICES ASSUME PagesInv, ~astray
             PROVE  /\ size <= view /\ begin + size < Modulus
                    /\ size > 0 /\ Pages!Rows # {} => Pages!Shown(Pages!Rows, begin, size) # {}
  BY DEF Pages!WindowFits, Pages!PageNotBlank
<1>1. /\ begin \in 0 .. Last32 /\ size \in 0 .. Last32 /\ view \in 0 .. MaxView
      /\ PageHeight \in Nat /\ MaxView \in Nat
      /\ Last32 \in Nat /\ Last32 > 2 * (PageHeight + MaxView) /\ Modulus = Last32 + 1
  BY PagesNumbers, PagesAssumption DEF Last32
<1>2. size <= view /\ (size > 0 => FitsOn(Pages!Rows, begin, size))
  BY DEF PagesInv, PagesWindow
<1>3. Spans(Pages!Rows, Pages!Lower(Pages!Rows), Pages!Upper(Pages!Rows))
  BY PagesRows
<1>4. begin + size < Modulus
  <2>1. CASE size = 0
    BY <1>1, <2>1
  <2>2. CASE size > 0
    <3>1. begin <= Pages!Upper(Pages!Rows) /\ Pages!Upper(Pages!Rows) \in 0 .. PageHeight
      BY <1>2, <1>3, <2>2 DEF FitsOn, Spans
    <3> QED
      BY <1>1, <1>2, <3>1
  <2> QED
    BY <1>1, <2>1, <2>2
<1>5. ASSUME size > 0, Pages!Rows # {} PROVE Pages!Shown(Pages!Rows, begin, size) # {}
  <2>1. size \in 0 .. MaxView
    BY <1>1, <1>2
  <2> QED
    BY <1>1, <1>2, <1>3, <1>5, <2>1, FitsShows
<1> QED
  BY <1>2, <1>4, <1>5

\* The page stored for a button is the one it named.
LEMMA PagesLead ==
    ASSUME PagesInv, Pages!PageTurned
    PROVE  LET f == Pages!Innermost
           IN  /\ f.kind = "next" /\ ~f.stale /\ size > 0
                    => (f.promise[1] .. f.promise[2]) \cap Pages!Rows
                         \subseteq Pages!Shown(Pages!Rows, begin', size')
               /\ f.kind = "prev" /\ ~f.stale => begin' = f.promise[1]
<1> DEFINE f == Pages!Innermost
<1>1. reads # <<>> /\ begin' = f.begin /\ size' = size
  BY DEF Pages!PageTurned, Pages!Turn
<1>2. Fresh(f, Pages!Rows, size)
  BY <1>1, PagesTyped, PopFresh
<1> HIDE DEF f
<1>3. /\ f.kind = "next" /\ ~f.stale /\ size > 0
           => (f.promise[1] .. f.promise[2]) \cap Pages!Rows
                \subseteq Pages!Shown(Pages!Rows, begin', size')
      /\ f.kind = "prev" /\ ~f.stale => begin' = f.promise[1]
  BY <1>1, <1>2 DEF Fresh
<1> QED
  BY <1>3 DEF f

\* Whatever pages and filters are asked for in the loop of another, the window of
\* blocks ends within what a quint32 holds and shows blocks when there are any,
\* as soon as the page stored last is one that was computed for the rows and the
\* window of now; and such a page is the one its button named: for every length
\* of the chain, every size of the table and every depth of the loops.
THEOREM PagesStayTrue == Spec => PagesKeepPromises
<1>1. Spec => []PagesInv
  BY PagesBegin, PagesKept, PTL DEF Spec
<1>2. PagesInv => Pages!WindowFits /\ Pages!PageNotBlank
  BY PagesPromise
<1>3. PagesInv /\ [Next]_vars =>
        [Pages!PageTurned => LET f == Pages!Innermost IN
           f.kind = "next" /\ ~f.stale /\ size > 0 =>
             (f.promise[1] .. f.promise[2]) \cap Pages!Rows
                \subseteq Pages!Shown(Pages!Rows, begin', size')]_(Pages!vars)
  BY PagesLead
<1>4. PagesInv /\ [Next]_vars =>
        [Pages!PageTurned => LET f == Pages!Innermost IN
           f.kind = "prev" /\ ~f.stale => begin' = f.promise[1]]_(Pages!vars)
  BY PagesLead
<1> QED
  BY <1>1, <1>2, <1>3, <1>4, PTL
     DEF Spec, PagesKeepPromises, Pages!NextKeepsPromise, Pages!PrevKeepsPromise
=============================================================================
