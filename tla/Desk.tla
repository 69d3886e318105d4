-------------------------------- MODULE Desk --------------------------------
(***************************************************************************)
(* The parts of the window that share no state with each other: a          *)
(* behaviour follows one of them and leaves the others in their initial    *)
(* states, so that each part is checked, and proved about, on its own.     *)
(***************************************************************************)
EXTENDS Integers, Sequences, FiniteSets

CONSTANTS
  Nothing,                            \* an empty text
  Modulus, PageHeight, MaxView, MaxReads, Adrift,                 \* BlockPages
  MaxTxs, MaxNews, MaxBlocks, MaxErrors,         \* TransactionHistory
  Addresses, MaxSessions, MaxEvents,  \* AddressCards
  Transfers, Owners, Unknown, MaxNow, \* HistoryFilter
  Payees, Number, Alias, MaxForms, MaxInputs, MaxNested,          \* SendForm
  Labels, Trim, Recipients, Proper, Payments, DevLabel, DevFund, MaxItems,
  MaxDialogs,                         \* AddressBook
  Amounts, Balances, MinimalFees, Priorities, FlatFee, Rate, MaxNodeFee, Exact,
  MaxRecipients                       \* SendOrder

\* The clock ticks, and the time of a transaction no block holds is no number.
ASSUME FilterAssumption == MaxNow \in Nat \ {0} /\ Unknown \notin Int

\* The texts of the send form are told apart.
ASSUME FormAssumption ==
  /\ Number # Alias /\ Number # Nothing /\ Number \notin Payees
  /\ MaxForms \in Nat /\ MaxInputs \in Nat /\ MaxNested \in Nat

VARIABLES
  part,  \* the part followed
  tip, search, low, high, begin, size, view, prev, next, astray, reads,
  phase, wallet, raw, queue, txs, last, bits, synced, timer, told, state,
  opened, fault, lost, news, errors,
  addrs, calls, entries, cards, current, session, shut, import, dialog, asked,
  chain, twice, events,
  now, time, combo, from, to, text, all, owner, age, period, hash, scope,
  aged, dated,
  open, frame, list, made, stack, button, payid, queries, nested, inputs,
  dangling,
  usable, book, donation, names, index, data, rows, dialogs, twins,
  shadowed,
  feeNode, ready, minimal, least, amounts, slider, nodeFee, spin, balance,
  order, stale, whole, reopened

pages == <<tip, search, low, high, begin, size, view, prev, next, astray, reads>>
history == <<phase, wallet, raw, queue, txs, last, bits, synced, timer, told,
             state, opened, fault, lost, news, errors>>
sidebar == <<addrs, calls, entries, cards, current, session, shut, import,
             dialog, asked, chain, twice, events>>
filters == <<now, time, combo, from, to, text, all, owner, age, period, hash,
             scope, aged, dated>>
sending == <<open, frame, list, made, stack, button, payid, queries, nested,
             inputs, dangling>>
contacts == <<usable, book, donation, names, index, data, rows, dialogs,
              twins, shadowed>>
paying == <<feeNode, ready, minimal, least, amounts, slider, nodeFee, spin,
            balance, order, stale, whole, reopened>>
vars == <<part, pages, history, sidebar, filters, sending, contacts, paying>>

Pages == INSTANCE BlockPages WITH MaxHeight <- PageHeight
History == INSTANCE TransactionHistory WITH MaxHeight <- MaxBlocks
Cards == INSTANCE AddressCards WITH NoAddress <- Nothing
Filter == INSTANCE HistoryFilter WITH Rows <- Transfers, NoOwner <- Nothing
Form == INSTANCE SendForm WITH Addresses <- Payees, MaxFrames <- MaxForms
Book == INSTANCE AddressBook WITH Addresses <- Recipients
Order == INSTANCE SendOrder WITH MaxFrames <- MaxRecipients

\* Heights and rows are numbers far below where a quint32 wraps.
ASSUME PagesAssumption ==
  /\ Modulus \in Nat /\ PageHeight \in Nat /\ MaxView \in Nat /\ MaxReads \in Nat
  /\ Modulus > 2 * (PageHeight + MaxView + 1)

\* The bounds of the wallet and of the chain are numbers.
ASSUME HistoryAssumption == MaxTxs \in Nat /\ MaxBlocks \in Nat

\* What the user types, owns and is asked for are amounts; fees are paid for what
\* is sent; the form starts with the least of each.
ASSUME OrderAssumption ==
  /\ Amounts \subseteq Nat /\ Balances \subseteq Nat
  /\ MinimalFees \subseteq Nat \ {0} /\ Priorities \subseteq Nat \ {0}
  /\ Order!Min(MinimalFees) \in MinimalFees
  /\ Order!Min(Priorities) \in Priorities /\ Order!Min(Balances) \in Balances
  /\ FlatFee \in Nat /\ Rate \in Nat \ {0} /\ MaxNodeFee \in Nat \ {0}
  /\ Exact \in Nat \ {0} /\ MaxRecipients \in Nat \ {0}

\* The empty text is no address.
ASSUME CardsAssumption == Nothing \notin Addresses

\* The empty text is given as a payment ID; a label without the spaces around it
\* is a label.
ASSUME BookAssumption ==
  /\ Proper \subseteq Recipients /\ DevFund \in Proper /\ Nothing \in Payments
  /\ Trim \in [Labels -> Labels] /\ DevLabel \in Labels

Init == /\ part \in {"pages", "history", "cards", "filter", "form", "book", "order"}
        /\ Pages!Init /\ History!Init /\ Cards!Init /\ Filter!Init /\ Form!Init /\ Book!Init /\ Order!Init

Next ==
  /\ part' = part
  /\ \/ part = "pages" /\ Pages!Next
        /\ UNCHANGED <<history, sidebar, filters, sending, contacts, paying>>
     \/ part = "history" /\ History!Next
        /\ UNCHANGED <<pages, sidebar, filters, sending, contacts, paying>>
     \/ part = "cards" /\ Cards!Next
        /\ UNCHANGED <<pages, history, filters, sending, contacts, paying>>
     \/ part = "filter" /\ Filter!Next
        /\ UNCHANGED <<pages, history, sidebar, sending, contacts, paying>>
     \/ part = "form" /\ Form!Next
        /\ UNCHANGED <<pages, history, sidebar, filters, contacts, paying>>
     \/ part = "book" /\ Book!Next
        /\ UNCHANGED <<pages, history, sidebar, filters, sending, paying>>
     \/ part = "order" /\ Order!Next
        /\ UNCHANGED <<pages, history, sidebar, filters, sending, contacts>>

\* The steps of a part that is not followed are not enabled.
Spec == Init /\ [][Next]_vars /\ History!Fairness

-----------------------------------------------------------------------------
TypeOK == Pages!TypeOK /\ History!TypeOK /\ Cards!TypeOK
          /\ Filter!TypeOK /\ Form!TypeOK /\ Book!TypeOK /\ Order!TypeOK

\* See BlockPages.tla.
PagesKeepPromises ==
  /\ [](Pages!WindowFits /\ Pages!PageNotBlank)
  /\ Pages!NextKeepsPromise /\ Pages!PrevKeepsPromise

\* See TransactionHistory.tla.
HistoryFollowsWallet ==
  /\ History!RowsBacked /\ History!RowsAnnounced /\ History!CopyCurrent
  /\ History!AllShownWhenSynced /\ History!SyncedStateShowsAll
HiddenRowsAppear == History!HiddenRowsAppear

\* See AddressCards.tla.
CardsAgree == Cards!AddressesAgree /\ Cards!RegisteredOnce

\* See HistoryFilter.tla.
FilterInForce == Filter!FilterInForce

\* See SendForm.tla.
FormIsOrder ==
  /\ Form!ScreenIsList /\ Form!ButtonMeansReady /\ Form!SendAllOnlyAlone
NumberShownIsAsked == Form!NumberShownIsAsked

\* See AddressBook.tla.
BookInOrder == Book!BookInOrder

\* See SendOrder.tla.
OrderPaid == Order!OrderPaid
=============================================================================
