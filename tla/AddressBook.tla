----------------------------- MODULE AddressBook -----------------------------
(***************************************************************************)
(* The address book.  AddressBookManager keeps the contacts in a JSON      *)
(* object, next to it indexes from a label, an address and a payment ID to *)
(* a row, and stores the object in the wallet's user data after a change.  *)
(* The dialogs that edit the book run nested loops, in which a payment     *)
(* request can add a contact and open the next dialog.                     *)
(***************************************************************************)
EXTENDS Integers, Sequences, FiniteSets, SequencesExt

CONSTANTS
  Labels, Trim,          \* labels, and each without the spaces around it
  Addresses, Proper,     \* texts given as an address, and those that are one
  Payments,              \* texts given as a payment ID, Nothing among them
  DevLabel, DevFund,     \* the contact every wallet gets
  Nothing,               \* the empty text
  MaxItems,              \* contacts next to the one every wallet gets
  MaxDialogs             \* dialogs on screen

VARIABLES
  usable,    \* the wallet is open
  book,      \* m_addressBookObject, the contacts
  donation,  \* m_addressBookObject, the address donated to
  names,     \* m_addressBookObject, the label of an own address
  index,     \* m_addressIndexes and m_labelIndexes
  data,      \* the user data the wallet's container holds
  rows,      \* AddressBookModel::m_rowCount
  dialogs,   \* the dialogs on screen, and a walletOpened that waits for one
  twins,     \* two contacts had one address or label since the wallet opened
  shadowed   \* the payment IDs of the contacts since then

vars == <<usable, book, donation, names, index, data, rows, dialogs, twins, shadowed>>

\* A payment ID is not checked to be one, in the dialog or in a request, nor is
\* the address of a request: a text can be both.
Texts == Addresses \cup Payments

Item(l, a, p, d) == [label |-> l, address |-> a, payment |-> p, donation |-> d]
NoDonation == [address |-> Nothing, enabled |-> FALSE]
NoIndex == 0

NoAddresses == [k \in Texts |-> NoIndex]
NoLabels == [l \in Labels |-> NoIndex]

\* The manager's own state: the object, and its indexes.
Manager == [book |-> book, donation |-> donation, names |-> names, index |-> index]
Object(m) == [book |-> m.book, donation |-> m.donation, names |-> m.names]
NoObject == [book |-> <<>>, donation |-> NoDonation, names |-> Nothing]

\* The rows of keys, the last one of a row that has several, over f.
Indexed(f, keys) ==
  [k \in DOMAIN f |-> IF \E i \in DOMAIN keys: k \in keys[i]
                      THEN Max({i \in DOMAIN keys: k \in keys[i]}) ELSE f[k]]

FindsLabel(m, l) == m.index.label[l] # NoIndex
FindsAddress(m, a) == m.index.address[a] # NoIndex
Flagged(m) == {m.book[i].address: i \in {j \in DOMAIN m.book: m.book[j].donation}}
PaymentsOf(b) == {b[i].payment: i \in DOMAIN b}

-----------------------------------------------------------------------------
(* AddressBookManager.                                                      *)

AddAddress(m, l, a, p, d) ==
  LET n == Len(m.book) + 1
  IN  IF FindsLabel(m, Trim[l]) \/ FindsAddress(m, a) THEN m
      ELSE [m EXCEPT !.book = Append(m.book, Item(l, a, p, d)),
                     !.index = [address |-> [m.index.address EXCEPT ![a] = n],
                                label |-> [m.index.label EXCEPT ![l] = n]]]

EditAddress(m, i, l, a, p, d) ==
  LET old == m.book[i]
      given == m.donation.address = old.address /\ (~d \/ old.address # a)
  IN  [m EXCEPT
         !.donation = IF given THEN NoDonation ELSE m.donation,
         !.book = [m.book EXCEPT ![i] = Item(l, a, p, d)],
         !.index =
            [address |-> [m.index.address EXCEPT ![old.address] = NoIndex, ![a] = i],
             label |-> [m.index.label EXCEPT ![old.label] = NoIndex, ![l] = i]]]

\* Mutant: the row that takes the removed one's place keeps its number.
MovedAfter(i, rest) == i + 1 .. Len(rest)

\* The rows behind the removed one, as they are numbered now.
Moved(i, rest) == i .. Len(rest)

\* removeAddress takes payment IDs, too, out of the index of the addresses, and
\* puts those of the rows behind into it.
RemoveAddress(m, i) ==
  LET old == m.book[i]
      rest == [j \in 1 .. Len(m.book) - 1 |-> m.book[IF j < i THEN j ELSE j + 1]]
      behind == Moved(i, rest)
      gone == [m.index.address EXCEPT ![old.address] = NoIndex, ![old.payment] = NoIndex]
  IN  [m EXCEPT
         !.donation = IF m.donation.address = old.address THEN NoDonation ELSE m.donation,
         !.book = rest,
         !.index =
            [address |-> Indexed(gone, [j \in behind |-> {rest[j].address, rest[j].payment}]),
             label |-> Indexed([m.index.label EXCEPT ![old.label] = NoIndex],
                               [j \in behind |-> {rest[j].label}])]]

\* walletOpened up to buildIndexes, for the object the user data hold.
Opened(o) ==
  [book |-> o.book, donation |-> o.donation, names |-> o.names,
   index |-> [
     address |-> Indexed(NoAddresses, [i \in DOMAIN o.book |-> {o.book[i].address}]),
     label |-> Indexed(NoLabels, [i \in DOMAIN o.book |-> {o.book[i].label}])]]

\* MainWindow::setDevDonation.
SetDevDonation(m) ==
  IF FindsAddress(m, DevFund) THEN m
  ELSE [AddAddress(m, DevLabel, DevFund, Nothing, TRUE) EXCEPT
          !.donation = [address |-> DevFund, enabled |-> TRUE]]

Distinct(b) == \A i, j \in DOMAIN b:
  i # j => b[i].address # b[j].address /\ b[i].label # b[j].label

Saves(m, before) == IF Object(m) = Object(before) THEN data ELSE Object(m)

\* The model follows the manager's signals.
RowsAfter(m, before) ==
  LET n == Len(m.book)
  IN  IF n < Len(before.book) THEN n
      ELSE IF n > Len(before.book) /\ rows < n THEN n ELSE rows

\* The manager is m after a handler that found it in the state before.
Becomes(m, before) ==
  /\ book' = m.book /\ donation' = m.donation /\ names' = m.names /\ index' = m.index
  /\ data' = Saves(m, before)
  /\ rows' = RowsAfter(m, before)
  /\ twins' = (twins \/ ~Distinct(m.book))
  /\ shadowed' = shadowed \cup PaymentsOf(m.book)
  /\ UNCHANGED usable

Init ==
  /\ usable = FALSE /\ book = <<>> /\ donation = NoDonation /\ names = Nothing
  /\ index = [address |-> NoAddresses, label |-> NoLabels]
  /\ data = NoObject /\ rows = 0 /\ dialogs = <<>> /\ twins = FALSE /\ shadowed = {}

-----------------------------------------------------------------------------
(* Opening and closing.                                                     *)

Dialog(kind, row, l, a, clash) ==
  [kind |-> kind, row |-> row, label |-> l, address |-> a, clash |-> clash]
Opening == Dialog("opening", 0, Nothing, Nothing, {})

\* An address of the book can be chosen, and donations switched on and off, if
\* some contact had the flag when the dialog was loaded; a request switches them on.
Options(m, requested) ==
  Dialog(IF Flagged(m) # {} THEN "options"
         ELSE IF requested \/ m.donation.enabled THEN "switchedOn" ELSE "switchedOff",
         0, Nothing, Nothing, {})

Room == Len(dialogs) < MaxDialogs
MayGrow == Len(book) < MaxItems
Idle == usable /\ dialogs = <<>>

\* walletOpened of the manager, then of the main window: a payment request that
\* waited adds its address and opens the options before setDevDonation.
Load(m) ==
  /\ usable' = TRUE
  /\ book' = m.book /\ donation' = m.donation /\ names' = m.names /\ index' = m.index
  /\ data' = Object(m)
  /\ rows' = IF m.book = <<>> THEN rows ELSE Len(m.book)
  /\ twins' = ~Distinct(m.book) /\ shadowed' = PaymentsOf(m.book)

\* The object is this wallet's, empty for another one, or a list in the file an
\* older version left.
OldList(k) == [NoObject EXCEPT !.book = <<Item(k[1], k[2], Nothing, FALSE)>>]
Files == {data, NoObject} \cup {OldList(k): k \in Labels \X Addresses}

WalletOpened == \E o \in Files:
  /\ ~usable
  /\ LET m == Opened(o)
     IN  \/ /\ Load(SetDevDonation(m)) /\ UNCHANGED dialogs
         \/ \E l \in Labels, a \in Addresses, p \in Payments:
              LET n == AddAddress(m, l, a, p, TRUE)
              IN  Len(m.book) < MaxItems /\ Load(n) /\ dialogs' = <<Opening, Options(n, TRUE)>>

WalletClosed ==
  /\ Idle /\ usable' = FALSE
  /\ book' = <<>> /\ donation' = NoDonation /\ names' = Nothing
  /\ index' = [address |-> NoAddresses, label |-> NoLabels]
  /\ rows' = 0 /\ twins' = FALSE /\ shadowed' = {}
  /\ UNCHANGED <<data, dialogs>>

-----------------------------------------------------------------------------
(* What changes the book.                                                   *)

\* SendFrame::sendClicked saves a recipient it has a label for.
SaveRecipient == \E l \in Labels, a \in Proper, p \in Payments:
  /\ Idle /\ MayGrow /\ ~FindsAddress(Manager, a) /\ ~FindsLabel(Manager, l)
  /\ Becomes(AddAddress(Manager, l, a, p, FALSE), Manager)
  /\ UNCHANGED dialogs

\* MainWindow::urlReceived with a donation's URL, whatever is on screen.
UrlReceived == \E l \in Labels, a \in Addresses, p \in Payments:
  /\ usable /\ Room /\ MayGrow
  /\ LET m == AddAddress(Manager, l, a, p, TRUE)
     IN  /\ Becomes(m, Manager)
         /\ dialogs' = Append(dialogs, Options(m, TRUE))

SetOwnLabel == \E l \in {DevLabel, Nothing}:
  /\ Idle /\ names # l
  /\ Becomes([Manager EXCEPT !.names = l], Manager)
  /\ UNCHANGED dialogs

AddClicked ==
  /\ Idle /\ dialogs' = <<Dialog("add", 0, Nothing, Nothing, {})>>
  /\ UNCHANGED <<usable, book, donation, names, index, data, rows, twins, shadowed>>

EditClicked == \E i \in DOMAIN book:
  /\ Idle /\ dialogs' = <<Dialog("edit", i, book[i].label, book[i].address, {})>>
  /\ UNCHANGED <<usable, book, donation, names, index, data, rows, twins, shadowed>>

DeleteClicked == \E i \in DOMAIN book:
  /\ Idle /\ dialogs' = <<Dialog("delete", i, Nothing, Nothing, {})>>
  /\ UNCHANGED <<usable, book, donation, names, index, data, rows, twins, shadowed>>

ShowPreferences ==
  /\ Idle /\ dialogs' = <<Options(Manager, FALSE)>>
  /\ UNCHANGED <<usable, book, donation, names, index, data, rows, twins, shadowed>>

-----------------------------------------------------------------------------
(* The dialog on top.                                                       *)

Top == Last(dialogs)
Typing == dialogs # <<>> /\ Top.kind \in {"add", "edit"}
Clash(what, found) == IF found THEN Top.clash \cup {what} ELSE Top.clash \ {what}
Typed(d) ==
  /\ dialogs' = Append(Front(dialogs), d)
  /\ UNCHANGED <<usable, book, donation, names, index, data, rows, twins, shadowed>>

\* A text is looked up when it is typed, the label without the spaces around it.
TypeLabel == \E l \in Labels:
  /\ Typing /\ l # Top.label
  /\ Typed([Top EXCEPT !.label = l, !.clash = Clash("label", FindsLabel(Manager, Trim[l]))])

TypeAddress == \E a \in Proper:
  /\ Typing /\ a # Top.address
  /\ Typed([Top EXCEPT !.address = a, !.clash = Clash("address", FindsAddress(Manager, a))])

\* OK is enabled whatever the payment ID is.
Accept == \E p \in Payments, d \in BOOLEAN:
  /\ Typing /\ (Top.kind = "add" => MayGrow) /\ Top.clash = {} /\ Nothing \notin {Top.label, Top.address}
  /\ LET m == IF Top.kind = "add"
              THEN AddAddress(Manager, Top.label, Top.address, p, d)
              ELSE EditAddress(Manager, Top.row, Top.label, Top.address, p, d)
     IN  Becomes(m, Manager)
  /\ dialogs' = Front(dialogs)

AcceptDelete ==
  /\ dialogs # <<>> /\ Top.kind = "delete"
  /\ Becomes(RemoveAddress(Manager, Top.row), Manager)
  /\ dialogs' = Front(dialogs)

\* Options accepted with the address a, and donations switched on or off; the
\* walletOpened that waited goes on.
OptionsOver(m) ==
  IF Len(dialogs) > 1 /\ dialogs[Len(dialogs) - 1].kind = "opening"
  THEN /\ Becomes(SetDevDonation(m), Manager)
       /\ dialogs' = SubSeq(dialogs, 1, Len(dialogs) - 2)
  ELSE Becomes(m, Manager) /\ dialogs' = Front(dialogs)

AcceptOptions == \E a \in Addresses \cup {Nothing}, on \in BOOLEAN:
  /\ dialogs # <<>> /\ Top.kind \in {"options", "switchedOn", "switchedOff"}
  /\ a \in Flagged(Manager) \cup {donation.address}
  /\ Top.kind # "options" => on = (Top.kind = "switchedOn")
  /\ OptionsOver([Manager EXCEPT !.donation = [address |-> a, enabled |-> on]])

Reject ==
  /\ dialogs # <<>>
  /\ IF Top.kind \in {"options", "switchedOn", "switchedOff"} THEN OptionsOver(Manager)
     ELSE /\ dialogs' = Front(dialogs)
          /\ UNCHANGED <<usable, book, donation, names, index, data, rows, twins, shadowed>>

Next == \/ WalletOpened \/ WalletClosed
        \/ SaveRecipient \/ UrlReceived \/ SetOwnLabel
        \/ AddClicked \/ EditClicked \/ DeleteClicked \/ ShowPreferences
        \/ TypeLabel \/ TypeAddress \/ Accept \/ AcceptDelete
        \/ AcceptOptions \/ Reject

Spec == Init /\ [][Next]_vars

-----------------------------------------------------------------------------
(* Properties.                                                              *)

Indexes(keys) == [keys -> Nat]
Contacts == [label: Labels, address: Addresses, payment: Payments, donation: BOOLEAN]
Donations == [address: Addresses \cup {Nothing}, enabled: BOOLEAN]
TypeOK ==
  /\ usable \in BOOLEAN /\ twins \in BOOLEAN /\ rows \in Nat /\ shadowed \subseteq Payments
  /\ book \in Seq(Contacts) /\ donation \in Donations
  /\ names \in Labels \cup {Nothing}
  /\ index \in [address: Indexes(Texts), label: Indexes(Labels)]
  /\ data \in [book: Seq(Contacts), donation: Donations, names: Labels \cup {Nothing}]

\* What the book finds for a label or an address is a contact that has it, however
\* the rows moved.  Of an address that was some contact's payment ID this does not
\* hold: removeAddress takes one for the other.
FindsWhatWasAsked ==
  /\ \A a \in Addresses \ shadowed: index.address[a] # NoIndex =>
       index.address[a] \in DOMAIN book /\ book[index.address[a]].address = a
  /\ \A l \in Labels: index.label[l] # NoIndex =>
       index.label[l] \in DOMAIN book /\ book[index.label[l]].label = l

\* Every contact is found, by its address if no contact had it for a payment ID,
\* unless two had one address or label: an edited one is looked up when it is typed,
\* and a request can add another before it is stored.
FindsAllContacts ==
  ~twins => \A i \in DOMAIN book:
    /\ book[i].address \in shadowed \/ index.address[book[i].address] = i
    /\ index.label[book[i].label] = i

\* Donations go to a contact with the flag, or to the development fund, whose
\* contact is refused when its label is taken.
DonationIsContact ==
  usable /\ donation.enabled =>
    donation.address \in Flagged(Manager) \cup {DevFund, Nothing}

\* The user data hold the book on screen whenever it can be seen.
StoredIsShown == usable => data = Object(Manager) /\ rows = Len(book)

\* All of it.
BookInOrder == /\ FindsWhatWasAsked /\ FindsAllContacts
               /\ DonationIsContact /\ StoredIsShown
=============================================================================
