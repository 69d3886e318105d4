---------------------------- MODULE AddressCards ----------------------------
(***************************************************************************)
(* The addresses of the open wallet: the wallet's own list, the copy       *)
(* AddressListModel keeps of it, the cards AddressSidebar shows for the    *)
(* copy, and CurrentAddressState, the address the rest of the window works *)
(* on, as an index into the wallet's list and as a text.  The signals of   *)
(* the wallet and the node's answers to account number queries reach the   *)
(* GUI thread through one queue.  deleteAddress is left out: it blocks the *)
(* GUI thread for ever, which WalletSession.tla shows.                     *)
(***************************************************************************)
EXTENDS Integers, Sequences, FiniteSets

CONSTANTS
  Addresses,    \* addresses
  NoAddress,    \* the empty text
  MaxSessions,  \* wallets opened
  MaxEvents     \* signals of the wallet and of the node

VARIABLES
  addrs,     \* the open wallet's addresses
  calls,     \* signals and answers queued to the GUI thread
  entries,   \* the addresses of AddressListModel::m_entries
  cards,     \* AddressSidebar::m_cards
  current,   \* CurrentAddressState: m_index and m_address
  session,   \* wallets opened so far
  shut,      \* no wallet is open
  import,    \* the address importAddressRequested waits to select
  dialog,    \* the row a registration is being confirmed for, or 0
  asked,     \* account number queries the node has not answered
  chain,     \* account numbers: "none", "sent" or "known"
  twice,     \* an address was registered again before the first was confirmed
  events

vars == <<addrs, calls, entries, cards, current, session, shut, import, dialog,
          asked, chain, twice, events>>

NoCurrent == [index |-> -1, address |-> NoAddress]

\* A new card: makeCard asks updateCardAt for a row the card is not at yet.
Blank == [address |-> NoAddress, number |-> FALSE, selected |-> FALSE,
          can |-> FALSE, pending |-> FALSE]

\* AddressSidebar::applySelection.
Selected(cs, a) == [i \in DOMAIN cs |->
  [cs[i] EXCEPT !.selected = a # NoAddress /\ cs[i].address = a]]

\* AddressCard::setAccountNumber, setRegistrationPending: a number that arrives
\* ends the wait for it.
Numbered(c, n) == IF c.number = n THEN c
                  ELSE [c EXCEPT !.number = n, !.pending = ~n /\ @]
Pending(c, p) == IF c.pending = p THEN c ELSE [c EXCEPT !.pending = p /\ ~c.number]

\* updateCardAt for every row, which also asks for the account number.
Updated(c, a) ==
  [(IF c.address = a THEN c ELSE Numbered(c, FALSE)) EXCEPT
     !.address = a, !.can = TRUE]
Refreshed == [i \in DOMAIN cards |->
  IF i <= Len(entries) THEN Updated(cards[i], entries[i]) ELSE cards[i]]
Queries(cs) == {[card |-> i, address |-> cs[i].address]:
                  i \in {j \in DOMAIN cs: cs[j].address # NoAddress}}

\* Deleting the cards drops the answers they wait for (QPointer).
Unanswered(q) == SelectSeq(q, LAMBDA c: c.what # "number")

\* Mutant: the index is counted from 1.
SetOneBased(i, a, cs) ==
  current' = [index |-> i + 1, address |-> a] /\ cards' = Selected(cs, a)

\* CurrentAddressState::setCurrent and the slot of the sidebar.
SetCurrent(i, a, cs) ==
  IF current = [index |-> i, address |-> a]
  THEN current' = current /\ cards' = cs
  ELSE current' = [index |-> i, address |-> a] /\ cards' = Selected(cs, a)

Init ==
  /\ addrs = <<>> /\ calls = <<>> /\ entries = <<>> /\ cards = <<>>
  /\ current = NoCurrent /\ session = 0 /\ shut = TRUE /\ import = NoAddress
  /\ dialog = 0 /\ asked = {} /\ chain = [a \in Addresses |-> "none"]
  /\ twice = FALSE /\ events = 0

-----------------------------------------------------------------------------
Emit(e) == events < MaxEvents /\ events' = events + 1 /\ calls' = Append(calls, e)

\* A wallet is opened: walletOpened is queued.
Open == \E n \in 1..2: \E w \in [1..n -> Addresses]:
  /\ shut /\ session < MaxSessions
  /\ \A i, j \in 1..n: w[i] = w[j] => i = j
  /\ addrs' = w /\ shut' = FALSE /\ session' = session + 1
  /\ calls' = Append(calls, [what |-> "opened"])
  /\ UNCHANGED <<entries, cards, current, import, dialog, asked, chain, twice, events>>

\* WalletGreenWorker::createAddress; what importAddressRequested creates it
\* goes on to select, once save's nested loop has handled the signal.
New(a) == /\ a \in Addresses /\ \A i \in DOMAIN addrs: addrs[i] # a
          /\ addrs' = Append(addrs, a)
          /\ Emit([what |-> "created", index |-> Len(addrs), address |-> a])
Ready == ~shut /\ entries # <<>> /\ dialog = 0 /\ import = NoAddress

CreateAddress == \E a \in Addresses:
  /\ Ready /\ New(a)
  /\ UNCHANGED <<entries, cards, current, session, shut, import, dialog, asked,
                 chain, twice>>

ImportAddress == \E a \in Addresses:
  /\ Ready /\ New(a)
  /\ import' = a
  /\ UNCHANGED <<entries, cards, current, session, shut, dialog, asked, chain, twice>>

SelectImported ==
  /\ import # NoAddress
  /\ \A k \in DOMAIN calls: calls[k].what # "created"
  /\ import' = NoAddress
  /\ IF \E i \in DOMAIN entries: entries[i] = import
     THEN SetCurrent((CHOOSE i \in DOMAIN entries: entries[i] = import) - 1,
                     import, cards)
     ELSE UNCHANGED <<current, cards>>
  /\ UNCHANGED <<addrs, calls, entries, session, shut, dialog, asked, chain,
                 twice, events>>

\* Closing clears the model, the cards, with the answers they wait for, and the
\* current address; a signal that would read the wallet meanwhile is
\* WalletSession.tla's concern.
Close ==
  /\ Ready /\ \A k \in DOMAIN calls: calls[k].what = "number"
  /\ addrs' = <<>> /\ shut' = TRUE
  /\ entries' = <<>> /\ cards' = <<>> /\ current' = NoCurrent
  /\ calls' = <<>> /\ asked' = {}
  /\ UNCHANGED <<session, import, dialog, chain, twice, events>>

\* A card is clicked, or "send from this address" is chosen on it.
Click == \E i \in DOMAIN cards:
  /\ Ready
  /\ SetCurrent(i - 1, cards[i].address, cards)
  /\ UNCHANGED <<addrs, calls, entries, session, shut, import, dialog, asked,
                 chain, twice, events>>

-----------------------------------------------------------------------------
(* Slots.                                                                   *)

Slot(what) == /\ calls # <<>> /\ Head(calls).what = what
              /\ calls' = Tail(calls)

\* walletOpened of AddressListModel (repopulate, and the cards with it) and of
\* MainWindow.
OnOpened ==
  /\ Slot("opened")
  /\ entries' = addrs
  /\ LET cs == [i \in DOMAIN addrs |-> Blank]
     IN  IF current.address = NoAddress
         THEN SetCurrent(0, addrs[1], cs)
         ELSE current' = current /\ cards' = Selected(cs, current.address)
  /\ UNCHANGED <<addrs, session, shut, import, dialog, asked, chain, twice, events>>

\* addressCreated, and onRowsInserted; a row past the end repopulates.
OnCreated ==
  /\ calls # <<>> /\ Head(calls).what = "created"
  /\ LET i == Head(calls).index
         put(s, x) == SubSeq(s, 1, i) \o <<x>> \o SubSeq(s, i + 1, Len(s))
     IN  IF i > Len(entries)
         THEN /\ entries' = addrs
              /\ cards' = Selected([k \in DOMAIN addrs |-> Blank], current.address)
              /\ calls' = Unanswered(Tail(calls)) /\ asked' = {}
         ELSE /\ calls' = Tail(calls) /\ UNCHANGED asked
              /\ entries' = put(entries, Head(calls).address)
              /\ cards' = Selected(put(cards, Blank), current.address)
  /\ UNCHANGED <<addrs, current, session, shut, import, dialog, chain, twice, events>>

\* refreshBalances, after any signal about money or at the end of a
\* synchronisation: dataChanged of every row, and so updateCardAt.
OnBalance ==
  /\ Slot("balance")
  /\ IF shut \/ entries = <<>> THEN UNCHANGED <<cards, asked>>
     ELSE cards' = Refreshed /\ asked' = asked \cup Queries(cards')
  /\ UNCHANGED <<addrs, entries, current, session, shut, import, dialog, chain,
                 twice, events>>

\* An answer is for its card, if that still exists and shows its address.
OnNumber ==
  /\ Slot("number")
  /\ LET r == Head(calls) IN
     cards' = IF r.card \in DOMAIN cards /\ cards[r.card].address = r.address
              THEN [cards EXCEPT ![r.card] = Numbered(@, r.known)]
              ELSE cards
  /\ UNCHANGED <<addrs, entries, current, session, shut, import, dialog, asked,
                 chain, twice, events>>

-----------------------------------------------------------------------------
(* Account numbers.                                                         *)

\* The node answers in any order, with an error at times.
Answer == \E q \in asked, fails \in BOOLEAN:
  /\ asked' = asked \ {q}
  /\ calls' = Append(calls, [what |-> "number", card |-> q.card, address |-> q.address,
       known |-> ~fails /\ chain[q.address] = "known"])
  /\ UNCHANGED <<addrs, entries, cards, current, session, shut, import, dialog,
                 chain, twice, events>>

\* Mutant: the menu does not look at m_registrationPending.
OfferedAgain(c) == ~c.number /\ c.can

\* refreshAccountNumberRow: when the menu offers the registration.
Offered(c) == ~c.number /\ c.can /\ ~c.pending

AskRegister == \E i \in DOMAIN cards:
  /\ Ready /\ Offered(cards[i])
  /\ dialog' = i
  /\ UNCHANGED <<addrs, calls, entries, cards, current, session, shut, import,
                 asked, chain, twice, events>>

\* registerAccountNumberFromCard, after its dialog: the wallet registers the
\* address it has at that index, and the card at that index waits.
Register == \E sent \in BOOLEAN:
  /\ dialog # 0
  /\ dialog' = 0
  /\ IF sent
     THEN LET a == addrs[dialog]
          IN  /\ twice' = (twice \/ chain[a] = "sent")
              /\ chain' = [chain EXCEPT ![a] = IF @ = "none" THEN "sent" ELSE @]
              /\ cards' = [cards EXCEPT ![dialog] = Pending(@, TRUE)]
     ELSE UNCHANGED <<twice, chain, cards>>
  /\ UNCHANGED <<addrs, calls, entries, current, session, shut, import, asked, events>>

\* A block confirms a registration.  One still unconfirmed when its wallet is
\* closed is no longer waited for, so it is taken as confirmed by then.
Confirm == \E a \in Addresses:
  /\ chain[a] = "sent"
  /\ chain' = [chain EXCEPT ![a] = "known"]
  /\ UNCHANGED <<addrs, calls, entries, cards, current, session, shut, import,
                 dialog, asked, twice, events>>

Money == ~shut /\ Emit([what |-> "balance"])
         /\ UNCHANGED <<addrs, entries, cards, current, session, shut, import,
                        dialog, asked, chain, twice>>

Next == \/ Open \/ CreateAddress \/ ImportAddress \/ SelectImported \/ Close
        \/ Click \/ OnOpened \/ OnCreated \/ OnBalance \/ OnNumber \/ Answer
        \/ AskRegister \/ Register \/ Confirm \/ Money

Spec == Init /\ [][Next]_vars

-----------------------------------------------------------------------------
(* Properties.                                                              *)

TypeOK ==
  /\ addrs \in Seq(Addresses) /\ entries \in Seq(Addresses)
  /\ \A i \in DOMAIN cards: cards[i] \in
       [address: Addresses \cup {NoAddress}, number: BOOLEAN,
        selected: BOOLEAN, can: BOOLEAN, pending: BOOLEAN]
  /\ current \in [index: -1..Len(addrs) - 1, address: Addresses \cup {NoAddress}]
  /\ chain \in [Addresses -> {"none", "sent", "known"}] /\ twice \in BOOLEAN

\* The three lists agree row by row, and the current address is the wallet's
\* address at the current index: the keys shown, the address sent from and the
\* address registered are looked up by one or the other.  Only the card of the
\* current address is highlighted.
AddressesAgree ==
  /\ Len(cards) = Len(entries)
  /\ entries = SubSeq(addrs, 1, Len(entries))
  /\ \A i \in DOMAIN cards:
       /\ cards[i].address \in {NoAddress, entries[i]}
       /\ cards[i].selected => cards[i].address = current.address
  /\ current.address # NoAddress =>
       current.index \in 0..Len(addrs) - 1 /\ addrs[current.index + 1] = current.address
  /\ (~shut /\ calls = <<>>) => entries = addrs

\* "Hide the Register action immediately so the user can't re-trigger it while
\* the registration tx is still unconfirmed": not even if answers to older
\* queries come late.  Closing the wallet ends the wait.
RegisteredOnce == session = 1 => ~twice
=============================================================================
