--------------------------- MODULE HistoryFilter ---------------------------
(***************************************************************************)
(* The filter of the history page.  TransactionsFrame's form writes into a *)
(* chain of proxy models (by age, by period, by hash, by address), each of *)
(* which evaluates a row when the row enters it or changes, or when its    *)
(* own filter changes, and not when the clock does.  The rows are those    *)
(* TransactionHistory.tla shows.                                           *)
(***************************************************************************)
EXTENDS Integers, FiniteSets

CONSTANTS
  Rows,      \* transactions that may be shown
  Owners,    \* addresses of the wallet
  NoOwner,   \* the empty address
  Unknown,   \* the time of a transaction no block holds
  MaxNow     \* the clock stops here

VARIABLES
  now,       \* the clock
  time,      \* the times of the rows of the model, by row
  combo,     \* the choice in m_filterCombo
  from, to,  \* m_filterBeginDtedit, m_filterEndDtedit
  text,      \* m_filterHashEdit
  all,       \* m_showAllAddresses
  owner,     \* CurrentAddressState
  age,       \* FilteredByAgeTransactionsModel::m_filter
  period,    \* FilteredByPeriodTransactionsModel: m_begin and m_end
  hash,      \* FilteredByHashTransactionsModel::m_query
  scope,     \* FilteredByAddressTransactionsModel::m_address
  aged,      \* rows the age filter let through
  dated      \* of these, rows the period filter let through

vars == <<now, time, combo, from, to, text, all, owner, age, period, hash,
          scope, aged, dated>>

NoPeriod == <<Unknown, Unknown>>
Ages == {"all", "lastDay", "custom"}     \* a day is one tick of the clock
Texts == {"", "hash"}

\* A transaction without a time counts as of now.
When(r) == IF time[r] = Unknown THEN now ELSE time[r]

\* filterAcceptsRow of the two models that look at the time; what the other two
\* let through does not change with it.
InAge(a, r) == a \in {"all", "custom"} \/ now - 1 <= When(r)
InPeriod(p, r) == /\ p[1] = Unknown \/ p[1] <= When(r)
                  /\ p[2] = Unknown \/ When(r) <= p[2]

\* Mutant: a changed row the period no longer covers is kept.
EvaluateNew(rs) ==
  /\ aged' = (aged \ rs) \cup {r \in rs \cap DOMAIN time': InAge(age, r)'}
  /\ dated' = (dated \cup {r \in rs: InPeriod(period, r)'}) \cap aged'

\* The rows rs were inserted or changed: each model evaluates them again; a row
\* the age filter did not let through before is new to the period filter.
Evaluate(rs) ==
  /\ aged' = (aged \ rs) \cup {r \in rs \cap DOMAIN time': InAge(age, r)'}
  /\ dated' = ((dated \ rs) \cup {r \in rs: InPeriod(period, r)'}) \cap aged'

\* FilteredByAgeTransactionsModel::setFilter and then the period's, as
\* filterChanged calls them.
SetFilters(a, p) ==
  LET aged1 == IF a = age THEN aged ELSE {r \in DOMAIN time: InAge(a, r)}
      dated1 == {r \in aged1: IF r \in aged THEN r \in dated
                                            ELSE InPeriod(period, r)}
  IN  /\ age' = a /\ period' = p
      /\ aged' = aged1
      /\ dated' = IF p = period THEN dated1 ELSE {r \in aged1: InPeriod(p, r)}

\* applyAddressScope.
ScopeOf(a, o) == IF a THEN NoOwner ELSE o

Init ==
  /\ now = 1 /\ time = <<>> /\ combo = "all" /\ from = 0 /\ to = 1
  /\ text = "" /\ all = FALSE /\ owner = NoOwner
  /\ age = "all" /\ period = NoPeriod /\ hash = "" /\ scope = NoOwner
  /\ aged = {} /\ dated = {}

-----------------------------------------------------------------------------
(* The form.                                                                *)

\* filterChanged, when another entry of the combo box is chosen.
ChooseAge == \E a \in Ages \ {combo}:
  /\ combo' = a
  /\ SetFilters(a, IF a = "custom" THEN <<from, to>> ELSE NoPeriod)
  /\ UNCHANGED <<now, time, from, to, text, all, owner, hash, scope>>

\* filterPeriodChanged; the two edits are hidden unless the choice is custom.
EditPeriod == \E f, t \in 0..MaxNow:
  /\ combo = "custom" /\ ((f = from) # (t = to))
  /\ from' = f /\ to' = t
  /\ SetFilters(age, <<f, t>>)
  /\ UNCHANGED <<now, time, combo, text, all, owner, hash, scope>>

\* filterHashChanged.
Search == \E s \in Texts:
  /\ text' = s /\ hash' = s
  /\ UNCHANGED <<now, time, combo, from, to, all, owner, age, period, scope,
                 aged, dated>>

\* scopeToggled.
ScopeToggled ==
  /\ all' = ~all
  /\ scope' = ScopeOf(~all, owner)
  /\ UNCHANGED <<now, time, combo, from, to, text, owner, age, period, hash,
                 aged, dated>>

\* resetFilter, also when the filter is hidden: the combo box first, whose slot
\* still finds the edits as they were, which no longer matter.
ResetFilter ==
  /\ combo' = "all" /\ from' = now - 1 /\ to' = now /\ text' = "" /\ all' = FALSE
  /\ IF combo = "all" THEN UNCHANGED <<age, period, aged, dated>>
                      ELSE SetFilters("all", NoPeriod)
  /\ hash' = "" /\ scope' = ScopeOf(FALSE, owner)
  /\ UNCHANGED <<now, time, owner>>

-----------------------------------------------------------------------------
(* The models and the clock.                                                *)

\* currentAddressChanged.
CurrentAddressChanged == \E o \in Owners \cup {NoOwner}:
  /\ owner' = o
  /\ scope' = ScopeOf(all, o)
  /\ UNCHANGED <<now, time, combo, from, to, text, all, age, period, hash,
                 aged, dated>>

\* A transaction is shown, confirmed or orphaned.
RowChanges == \E r \in Rows, t \in 0..now \cup {Unknown}:
  /\ r \in DOMAIN time => t # time[r]
  /\ time' = [q \in DOMAIN time \cup {r} |-> IF q = r THEN t ELSE time[q]]
  /\ UNCHANGED <<now, combo, from, to, text, all, owner, age, period, hash, scope>>
  /\ Evaluate({r})

\* nodeStateChanged touches every row.
BlockAdded ==
  /\ UNCHANGED <<now, time, combo, from, to, text, all, owner, age, period, hash, scope>>
  /\ Evaluate(DOMAIN time)

WalletClosed ==
  /\ time' = <<>> /\ aged' = {} /\ dated' = {}
  /\ UNCHANGED <<now, combo, from, to, text, all, owner, age, period, hash, scope>>

Tick ==
  /\ now < MaxNow
  /\ now' = now + 1
  /\ UNCHANGED <<time, combo, from, to, text, all, owner, age, period, hash,
                 scope, aged, dated>>

Next == \/ ChooseAge \/ EditPeriod \/ Search \/ ScopeToggled \/ ResetFilter
        \/ CurrentAddressChanged \/ RowChanges \/ BlockAdded \/ WalletClosed
        \/ Tick

Spec == Init /\ [][Next]_vars

-----------------------------------------------------------------------------
(* Properties.                                                              *)

TypeOK ==
  /\ now \in 0..MaxNow /\ DOMAIN time \subseteq Rows
  /\ \A r \in DOMAIN time: time[r] \in 0..MaxNow \cup {Unknown}
  /\ dated \subseteq aged /\ aged \subseteq DOMAIN time

\* The filters in force are what the form shows, after any sequence of choices
\* and resets: no filter of an earlier choice goes on hiding rows.
FormInForce ==
  /\ age = combo /\ hash = text /\ scope = ScopeOf(all, owner)
  /\ period = IF combo = "custom" THEN <<from, to>> ELSE NoPeriod

\* The clock can make a row stay that is too old, until the next block, but no
\* row with a known time is missing that the filters would let through.
NothingHidden == \A r \in DOMAIN time:
  time[r] # Unknown /\ InAge(age, r) /\ InPeriod(period, r) => r \in dated

\* A period filter lets through only what lies in the period.
PeriodExact == \A r \in dated: time[r] # Unknown => InPeriod(period, r)

\* The three together: what is shown is what the form asks for.
FilterInForce == FormInForce /\ NothingHidden /\ PeriodExact
=============================================================================
