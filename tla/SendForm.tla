------------------------------ MODULE SendForm ------------------------------
(***************************************************************************)
(* The send form.  SendFrame keeps the list m_transfers of the recipients' *)
(* frames on screen; each TransferFrame may look its address up, as an     *)
(* account number at the node or as an alias in the DNS, and the answer    *)
(* comes when it comes.  A frame is deleted by the event loop after the    *)
(* click that removes it.  clearAll dispatches events in the middle, with  *)
(* the frames it closes still in the list.                                 *)
(***************************************************************************)
EXTENDS Integers, Sequences, FiniteSets, SequencesExt

CONSTANTS
  Addresses,  \* valid addresses
  Number,     \* an account number
  Alias,      \* a name with a dot in it
  Nothing,    \* the empty text
  MaxFrames,  \* frames ever made
  MaxInputs,  \* things the user does
  MaxNested   \* events clearAll dispatches

VARIABLES
  open,     \* the wallet is open
  frame,    \* the frames alive, by the order they were made in
  list,     \* m_transfers
  made,     \* frames made
  stack,    \* what dispatches events, the innermost last: a clearAll, by its
            \* caller, or the confirmation dialog
  button,   \* m_sendButton is enabled
  payid,    \* m_paymentIdEdit holds a valid payment ID, or none
  queries,  \* frames with an account number query the node has not answered
  nested,   \* events dispatched by clearAll
  inputs,
  dangling  \* a deleted object was used, or the first of an empty list taken

vars == <<open, frame, list, made, stack, button, payid, queries, nested,
          inputs, dangling>>

\* What the edit holds: what was typed, and the address it was resolved to.
Text(t, a) == [typed |-> t, resolved |-> a]
GetAddress(t) == IF t.resolved = Nothing THEN t.typed ELSE t.resolved
Valid(f) == GetAddress(f.text) \in Addresses

NoLookup == [older |-> 0, last |-> "none"]
NewFrame(sole) ==
  [text |-> Text(Nothing, Nothing), entered |-> Nothing, timer |-> FALSE,
   pending |-> FALSE, dns |-> NoLookup, sendAll |-> sole, remove |-> ~sole,
   dying |-> 0]

\* readyToSend of a list of frames fs.
ReadyToSend(l, fs, pay) == (\A i \in DOMAIN l: Valid(fs[l[i]])) /\ pay

\* TransferFrame::addressChanged for a text the user gave or a lookup found.
Retyped(f, t) == [f EXCEPT !.text = t,
                    !.timer = @ \/ (t.resolved = Nothing /\ t.typed \in {Number, Alias})]
SetAddress(f, a) == [Retyped(f, Text(a, Nothing)) EXCEPT !.entered = a]

\* Mutant: the first recipient keeps its "send all".
AddedBeside(fs, l) ==
  LET gs == [i \in DOMAIN fs \cup {made + 1} |->
               IF i = made + 1 THEN NewFrame(l = <<>>) ELSE fs[i]]
  IN  IF l = <<>> THEN gs ELSE [gs EXCEPT ![l[1]].remove = TRUE]

\* addRecipientClicked with the frames fs and the list l: the frames after it.
Added(fs, l) ==
  LET n == made + 1
      gs == [i \in DOMAIN fs \cup {n} |->
               IF i = n THEN NewFrame(l = <<>>) ELSE fs[i]]
  IN  IF l = <<>> THEN gs
      ELSE [gs EXCEPT ![l[1]].remove = TRUE, ![l[1]].sendAll = FALSE]

Init ==
  /\ open = FALSE /\ frame = <<>> /\ list = <<>> /\ made = 0 /\ stack = <<>>
  /\ button = FALSE /\ payid = TRUE /\ queries = {} /\ nested = 0
  /\ inputs = 0 /\ dangling = FALSE

-----------------------------------------------------------------------------
Top == IF stack = <<>> THEN "rest" ELSE Last(stack)
Clearing == Top \in {"sent", "url", "closed"}
Confirming == \E k \in DOMAIN stack: stack[k] = "confirm"

\* Events reach the form from the main loop, from the dialog's, which holds back
\* the user but not the network, and from clearAll.
Dispatched ==
  /\ ~dangling
  /\ IF Clearing THEN nested < MaxNested /\ nested' = nested + 1
     ELSE UNCHANGED nested
User == Dispatched /\ ~Confirming /\ inputs < MaxInputs /\ inputs' = inputs + 1

\* deleteLater: the event loop that dispatched the call deletes the frame, not
\* a dialog's above it.
Dying == IF Confirming THEN 2 ELSE 1

AddRecipientClicked ==
  /\ User /\ open /\ made < MaxFrames
  /\ frame' = Added(frame, list) /\ made' = made + 1
  /\ list' = Append(list, made + 1)
  /\ button' = FALSE
  /\ UNCHANGED <<open, stack, payid, queries, dangling>>

\* A text is typed, pasted or taken from the address book.
Type == \E i \in DOMAIN frame, a \in Addresses \cup {Number, Alias, Nothing}:
  /\ User /\ open /\ frame[i].dying = 0
  /\ GetAddress(frame[i].text) # a
  /\ frame' = [frame EXCEPT ![i] = SetAddress(@, a)]
  /\ button' = ReadyToSend(list, frame', payid)
  /\ UNCHANGED <<open, list, made, stack, payid, queries, dangling>>

\* SendFrame::addRecipient, from the address book's page.
AddRecipient == \E a \in Addresses:
  /\ User /\ open /\ stack = <<>>
  /\ LET one == Len(list) = 1 /\ GetAddress(frame[list[1]].text) = Nothing
         fs == IF one THEN frame ELSE Added(frame, list)
         l == IF one THEN list ELSE Append(list, made + 1)
     IN  /\ one \/ made < MaxFrames
         /\ made' = IF one THEN made ELSE made + 1
         /\ list' = l
         /\ frame' = [fs EXCEPT ![l[Len(l)]] = SetAddress(@, a)]
         /\ payid' \in BOOLEAN
         /\ button' = ReadyToSend(l, frame', payid')
  /\ UNCHANGED <<open, stack, queries, dangling>>

\* The remove button is connected to deleteLater; the event loop deletes the
\* frame once it is back where the click was dispatched.
RemoveClicked == \E i \in DOMAIN frame:
  /\ User /\ open /\ frame[i].remove /\ frame[i].dying = 0
  /\ frame' = [frame EXCEPT ![i].dying = Dying]
  /\ UNCHANGED <<open, list, made, stack, button, payid, queries, dangling>>

\* The frame is deleted, and the slot connected to its destroyed().
Destroyed == \E i \in DOMAIN frame:
  /\ frame[i].dying > 0 /\ ~dangling
  /\ Top = "rest" \/ (Top = "confirm" /\ frame[i].dying = 2)
  /\ LET l == RemoveFirst(list, i)
         fs == [j \in DOMAIN frame \ {i} |->
                  IF Len(l) = 1 /\ j = l[1]
                  THEN [frame[j] EXCEPT !.remove = FALSE, !.sendAll = TRUE]
                  ELSE frame[j]]
     IN  IF list = <<>> THEN /\ frame' = fs /\ UNCHANGED <<list, button, dangling>>
         ELSE /\ frame' = fs /\ list' = l
              /\ dangling' = (l = <<>>)
              /\ button' = ReadyToSend(l, fs, payid)
  /\ queries' = queries \ {i}
  /\ UNCHANGED <<open, made, stack, payid, nested, inputs>>

EditPaymentId == \E ok \in BOOLEAN:
  /\ User /\ open
  /\ payid' = ok
  /\ button' = (ok /\ ReadyToSend(list, frame, ok))
  /\ UNCHANGED <<open, frame, list, made, stack, queries, dangling>>

-----------------------------------------------------------------------------
(* Lookups.                                                                 *)

\* timerEvent: an alias is looked up, an account number is asked for.
Timer == \E i \in DOMAIN frame:
  /\ frame[i].timer /\ Dispatched
  /\ LET t == frame[i].text
         d == frame[i].dns
         asks == t = Text(Number, Nothing)
     IN  /\ frame' = [frame EXCEPT ![i] = [@ EXCEPT !.timer = FALSE,
              !.dns = IF t.typed # Alias THEN d
                      ELSE [older |-> IF d.last = "waiting" THEN d.older + 1
                                                            ELSE d.older,
                            last |-> "waiting"],
              !.pending = frame[i].pending \/ asks]]
         /\ queries' = IF asks THEN queries \cup {i} ELSE queries
  /\ UNCHANGED <<open, list, made, stack, button, payid, inputs, dangling>>

\* Mutant: the answer does not look at the text it replaces.
StillPending(f) == f.pending

StillAsked(f) == f.pending /\ f.text = Text(Number, Nothing)

\* resolveAccountNumber's answer is dropped if another one is waited for or the
\* edit holds something else.
NumberAnswer == \E i \in queries, a \in Addresses \cup {Nothing}:
  /\ Dispatched
  /\ queries' = queries \ {i}
  /\ IF StillAsked(frame[i])
     THEN /\ frame' = [frame EXCEPT ![i] =
               IF a = Nothing THEN [@ EXCEPT !.pending = FALSE]
               ELSE [Retyped(@, Text(Number, a)) EXCEPT !.pending = FALSE]]
          /\ button' = ReadyToSend(list, frame', payid)
     ELSE UNCHANGED <<frame, button>>
  /\ UNCHANGED <<open, list, made, stack, payid, inputs, dangling>>

\* handleTxtRecords, when the lookup m_dns points to is the one that finished.
AliasFound == \E i \in DOMAIN frame, a \in Addresses \cup {Nothing}:
  /\ Dispatched /\ frame[i].dns.last = "waiting"
  /\ LET f == [frame[i] EXCEPT !.dns.last = "deleted"]
     IN  frame' = [frame EXCEPT ![i] =
                     IF a = Nothing THEN f ELSE Retyped(f, Text(Alias, a))]
  /\ button' = IF a = Nothing THEN button ELSE ReadyToSend(list, frame', payid)
  /\ UNCHANGED <<open, list, made, stack, payid, queries, inputs, dangling>>

\* handleTxtRecords for a lookup that was started before: it reads and deletes
\* the one m_dns points to.
OlderLookupFinished == \E i \in DOMAIN frame:
  /\ Dispatched /\ frame[i].dns.older > 0
  /\ dangling' = (frame[i].dns.last = "deleted")
  /\ frame' = [frame EXCEPT ![i].dns = [older |-> @.older - 1, last |-> "deleted"]]
  /\ UNCHANGED <<open, list, made, stack, button, payid, queries, inputs>>

-----------------------------------------------------------------------------
(* clearAll and its callers.                                                *)

\* Up to processEvents: every frame of the list is closed and about to be
\* deleted.
BeginClear(why) ==
  /\ Len(stack) < 3
  /\ stack' = Append(IF why = "sent" THEN Front(stack) ELSE stack, why)
  /\ frame' = [i \in DOMAIN frame |->
       IF Contains(list, i) THEN [frame[i] EXCEPT !.dying = Max({@, Dying}), !.sendAll = TRUE]
       ELSE frame[i]]

\* sendClicked, up to the confirmation of an order built from the list.
SendClicked ==
  /\ User /\ open /\ button
  /\ \A k \in DOMAIN list: Valid(frame[list[k]])
  /\ Len(stack) < 3
  /\ stack' = Append(stack, "confirm")
  /\ UNCHANGED <<open, frame, list, made, button, payid, queries, dangling>>

\* The confirmation is rejected, or the order is refused.
NotSent ==
  /\ Top = "confirm" /\ stack' = Front(stack)
  /\ UNCHANGED <<open, frame, list, made, button, payid, queries, nested, inputs, dangling>>

Sent ==
  /\ Top = "confirm" /\ BeginClear("sent")
  /\ UNCHANGED <<open, list, made, button, payid, queries, nested, inputs, dangling>>

\* urlReceived, from another instance's socket or the payment request dialog.
UrlReceived ==
  /\ Dispatched /\ inputs < MaxInputs /\ inputs' = inputs + 1
  /\ BeginClear("url")
  /\ UNCHANGED <<open, list, made, button, payid, queries, dangling>>

WalletOpened ==
  /\ Dispatched /\ ~open /\ stack = <<>> /\ made < MaxFrames
  /\ open' = TRUE
  /\ frame' = Added(frame, list) /\ made' = made + 1
  /\ list' = Append(list, made + 1)
  /\ button' = FALSE
  /\ UNCHANGED <<stack, payid, queries, inputs, dangling>>

WalletClosed ==
  /\ Dispatched /\ open /\ stack = <<>>
  /\ open' = FALSE
  /\ BeginClear("closed")
  /\ UNCHANGED <<list, made, button, payid, queries, inputs, dangling>>

\* After processEvents: the list is emptied and the payment ID cleared, which
\* finds an empty list ready to send; all callers but walletClosed add a frame,
\* and urlReceived fills it in.
EndClear ==
  /\ Clearing /\ ~dangling
  /\ stack' = Front(stack)
  /\ IF Top = "closed"
     THEN /\ list' = <<>> /\ payid' = TRUE
          /\ button' \in (IF payid THEN {button, TRUE} ELSE {TRUE})
          /\ UNCHANGED <<frame, made>>
     ELSE /\ made < MaxFrames
          /\ made' = made + 1 /\ list' = <<made + 1>>
          /\ \E a \in (IF Top = "url" THEN Addresses ELSE {Nothing}),
                ok \in (IF Top = "url" THEN BOOLEAN ELSE {TRUE}):
               /\ frame' = [Added(frame, <<>>) EXCEPT ![made + 1] =
                              IF a = Nothing THEN @ ELSE SetAddress(@, a)]
               /\ payid' = ok
               /\ button' = (ok /\ a # Nothing)
  /\ UNCHANGED <<open, queries, nested, inputs, dangling>>

Next == \/ AddRecipientClicked \/ Type \/ AddRecipient \/ RemoveClicked \/ Destroyed
        \/ EditPaymentId \/ Timer \/ NumberAnswer \/ AliasFound
        \/ OlderLookupFinished \/ SendClicked \/ NotSent \/ Sent
        \/ UrlReceived \/ WalletOpened \/ WalletClosed \/ EndClear

Spec == Init /\ [][Next]_vars

-----------------------------------------------------------------------------
(* Properties.                                                              *)

TypeOK ==
  /\ open \in BOOLEAN /\ button \in BOOLEAN /\ payid \in BOOLEAN
  /\ dangling \in BOOLEAN
  /\ made \in 0 .. MaxFrames /\ nested \in 0 .. MaxNested
  /\ inputs \in 0 .. MaxInputs
  /\ DOMAIN frame \subseteq 1 .. made /\ queries \subseteq DOMAIN frame
  /\ Len(stack) <= 3
  /\ ToSet(stack) \subseteq {"sent", "url", "closed", "confirm"}
  /\ IsInjective(list) /\ ToSet(list) \subseteq DOMAIN frame

\* At rest the frames on screen are the ones an order is built from, unless
\* clearAll dispatched an event.
ScreenIsList ==
  stack = <<>> /\ nested = 0 /\ ~dangling =>
    {i \in DOMAIN frame: frame[i].dying = 0} \subseteq ToSet(list)

\* An account number's answer never replaces the text of another request: an
\* address shown as a number's is shown where the user entered that number.
NumberShownIsAsked ==
  \A i \in DOMAIN frame:
    frame[i].text.typed = Number => frame[i].entered = Number

\* While the wallet is open the send button is offered only for a complete form.
ButtonMeansReady ==
  open /\ button /\ stack = <<>> /\ ~dangling =>
    /\ list # <<>> /\ payid
    /\ \A k \in DOMAIN list: Valid(frame[list[k]])

\* "Send all" is offered to a sole recipient, who cannot be removed: the amount
\* it sets is the first recipient's.
SendAllOnlyAlone ==
  stack = <<>> /\ ~dangling =>
    \A k \in DOMAIN list:
      LET f == frame[list[k]]
      IN  f.dying = 0 /\ (f.sendAll \/ ~f.remove) => Len(list) = 1
=============================================================================
