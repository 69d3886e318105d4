------------------------- MODULE TransactionHistory -------------------------
(***************************************************************************)
(* How the history follows the wallet.  The wallet on its thread appends   *)
(* and changes transactions and leaves an event for each; the event loop   *)
(* of WalletGreenWorker reads the transaction an event is about and queues *)
(* a signal to the GUI thread, where TransactionsModel keeps a copy of the *)
(* transactions by index (m_transactions) and shows the first of them as   *)
(* rows, all at once or, while the wallet synchronises, every second.      *)
(* WalletStateModel, fed by the same signals, decides whether the wallet   *)
(* counts as synchronised.                                                 *)
(***************************************************************************)
EXTENDS Integers, Sequences, FiniteSets

CONSTANTS
  MaxTxs,     \* transactions of the bounded wallet
  MaxNews,    \* events of the wallet
  MaxHeight,  \* blocks of the bounded chain
  MaxErrors   \* reads of the wallet that fail

VARIABLES
  phase,   \* the wallet: closed, loaded, open, closing or stopped
  wallet,  \* its transactions: the versions of each, in the order of index
  raw,     \* events the wallet's event loop has not taken yet
  queue,   \* signals queued to the GUI thread
  txs,     \* TransactionsModel::m_transactions, a map from index to version
  last,    \* m_lastVisibleTransactionIndex, or None
  bits,    \* m_showTransfers
  synced,  \* TransactionsModel::m_isSynchronized
  timer,   \* m_syncTimerId is running
  told,    \* rows announced to the views since the last reset
  state,   \* WalletStateModel: synchronised, current and total height
  opened,  \* walletOpened was handled
  fault,   \* an assertion failed
  lost,    \* a read of the wallet failed since it was opened
  news, errors

vars == <<phase, wallet, raw, queue, txs, last, bits, synced, timer, told,
          state, opened, fault, lost, news, errors>>

None == -1                   \* WALLET_INVALID_TRANSACTION_ID
Versions == {"unconfirmed", "confirmed"}
RowCount == last + 1         \* TransactionsModel::rowCount
Size == Cardinality(DOMAIN txs)
\* Mutant: the copy is indexed from 1.
SnapshotFromOne == [i \in 1..Len(wallet) |-> wallet[i]]

Snapshot == [i \in 0..Len(wallet) - 1 |-> wallet[i + 1]]

\* Mutant: one held back row is not enough to show.
ShowsLate(m) == phase = "open" /\ DOMAIN m # {} /\ Cardinality(DOMAIN m) - 1 > last + 1

\* showAllCachedTransactions with the transactions m: what it leaves in last,
\* bits and told.  It does nothing for a wallet that is not open.
Shows(m) == phase = "open" /\ DOMAIN m # {} /\ Cardinality(DOMAIN m) - 1 >= last + 1
ShowAllCached(m) ==
  LET n == Cardinality(DOMAIN m)
  IN  IF Shows(m)
      THEN /\ last' = n - 1
           /\ bits' = [i \in 1..n |-> i <= Len(bits) /\ bits[i]]
           /\ told' = told + (n - last - 1)
      ELSE UNCHANGED <<last, bits, told>>

Init ==
  /\ phase = "closed" /\ wallet = <<>> /\ raw = <<>> /\ queue = <<>>
  /\ txs = <<>> /\ last = None /\ bits = <<>> /\ synced = FALSE
  /\ timer = FALSE /\ told = 0
  /\ state = [synced |-> FALSE, current |-> 0, total |-> 0]
  /\ opened = FALSE /\ fault = FALSE /\ lost = FALSE /\ news = 0 /\ errors = 0

models == <<txs, last, bits, synced, timer, told, state, opened, fault>>

-----------------------------------------------------------------------------
(* The wallet and its thread.                                               *)

News(e) == /\ phase \in {"loaded", "open", "closing"} /\ news < MaxNews
           /\ news' = news + 1 /\ raw' = Append(raw, e)
           /\ UNCHANGED <<phase, queue, lost, errors>> /\ UNCHANGED models

Receives == /\ Len(wallet) < MaxTxs
            /\ wallet' = Append(wallet, "unconfirmed")
            /\ News([what |-> "created", index |-> Len(wallet)])

\* A block confirms a transaction, or a reorganisation undoes that.
Changes == \E i \in DOMAIN wallet:
  /\ wallet' = [wallet EXCEPT ![i] =
                  CHOOSE v \in Versions: v # wallet[i]]
  /\ News([what |-> "updated", index |-> i - 1])

Synchronises ==
  /\ UNCHANGED wallet
  /\ \/ \E t \in 1..MaxHeight: \E c \in 0..t:
          News([what |-> "progress", current |-> c, total |-> t])
     \/ News([what |-> "completed"])

\* processEvent, one event of the loop.
ProcessEvent ==
  /\ phase \in {"loaded", "open", "closing"} /\ raw # <<>>
  /\ raw' = Tail(raw)
  /\ LET e == Head(raw) IN
     \/ /\ e.what \in {"created", "updated"}
        /\ queue' = Append(queue, [what |-> e.what, index |-> e.index,
                                   tx |-> wallet[e.index + 1]])
        /\ UNCHANGED <<lost, errors>>
     \/ /\ e.what \in {"created", "updated"} /\ errors < MaxErrors
        /\ errors' = errors + 1 /\ lost' = TRUE /\ UNCHANGED queue
     \/ /\ e.what \in {"progress", "completed"}
        /\ queue' = Append(queue, e)
        /\ UNCHANGED <<lost, errors>>
  /\ UNCHANGED <<phase, wallet, news>> /\ UNCHANGED models

-----------------------------------------------------------------------------
(* Opening and closing.  load() starts the event loop before it emits       *)
(* walletOpenedSignal; close() takes the signals queued before the thread's *)
(* end in its own nested loop, with the wallet no longer open.              *)

StartEventLoop == \E n \in 0..MaxTxs: \E w \in [1..n -> Versions]:
  /\ phase = "closed"
  /\ phase' = "loaded" /\ wallet' = w /\ lost' = FALSE
  /\ UNCHANGED <<raw, queue, news, errors>> /\ UNCHANGED models

EmitOpened ==
  /\ phase = "loaded"
  /\ phase' = "open"
  /\ queue' = Append(queue, [what |-> "opened"])
  /\ UNCHANGED <<wallet, raw, lost, news, errors>> /\ UNCHANGED models

\* The close action is enabled by walletOpened.
Close ==
  /\ phase = "open" /\ opened
  /\ phase' = "closing"
  /\ UNCHANGED <<wallet, raw, queue, lost, news, errors>> /\ UNCHANGED models

ThreadEnds ==
  /\ phase = "closing"
  /\ phase' = "stopped" /\ raw' = <<>>
  /\ queue' = Append(queue, [what |-> "closed"])
  /\ UNCHANGED <<wallet, lost, news, errors>> /\ UNCHANGED models

-----------------------------------------------------------------------------
(* The slots of the two models.                                             *)

Slot(what) == /\ phase \in {"open", "closing", "stopped"} /\ ~fault
              /\ queue # <<>> /\ Head(queue).what = what
              /\ queue' = Tail(queue)

\* walletOpened reads all transactions and shows them; the read may fail.
OnOpened ==
  /\ Slot("opened")
  /\ opened' = TRUE
  /\ fault' = (txs # <<>> \/ bits # <<>>)
  /\ IF fault' THEN UNCHANGED <<txs, last, bits, told, lost, errors>>
     ELSE \/ /\ txs' = Snapshot
             /\ last' = Len(wallet) - 1
             /\ bits' = [i \in 1..Len(wallet) |-> FALSE]
             /\ told' = told + Len(wallet)
             /\ UNCHANGED <<lost, errors>>
          \/ /\ errors < MaxErrors
             /\ errors' = errors + 1 /\ lost' = TRUE
             /\ UNCHANGED <<txs, last, bits, told>>
  /\ UNCHANGED <<phase, wallet, raw, synced, timer, state, news>>

\* walletClosed.
OnClosed ==
  /\ Slot("closed")
  /\ phase' = "closed" /\ opened' = FALSE
  /\ timer' = FALSE /\ last' = None /\ synced' = FALSE
  /\ txs' = <<>> /\ bits' = <<>> /\ told' = 0
  /\ state' = [synced |-> FALSE, current |-> 0, total |-> 0]
  /\ UNCHANGED <<wallet, raw, fault, lost, news, errors>>

\* Mutant: off by one in the test for a transaction that is not yet shown.
FreshIfBeyond(i) == i > RowCount

\* externalTransactionCreated.
Fresh(i) == i >= RowCount
OnCreated ==
  /\ Slot("created")
  /\ LET e == Head(queue) IN
     IF Fresh(e.index)
     THEN /\ txs' = [j \in DOMAIN txs \cup {e.index} |->
                       IF j = e.index THEN e.tx ELSE txs[j]]
          /\ IF synced THEN ShowAllCached(txs') ELSE UNCHANGED <<last, bits, told>>
     ELSE UNCHANGED <<txs, last, bits, told>>
  /\ UNCHANGED <<phase, wallet, raw, synced, timer, state, opened, fault, lost,
                 news, errors>>

\* transactionUpdated, updateTransaction: operator[] makes the entry it lacks.
OnUpdated ==
  /\ Slot("updated")
  /\ LET e == Head(queue) IN
     txs' = IF e.index < Size /\ phase = "open"
            THEN [j \in DOMAIN txs \cup {e.index} |->
                    IF j = e.index THEN e.tx ELSE txs[j]]
            ELSE txs
  /\ UNCHANGED <<phase, wallet, raw, last, bits, synced, timer, told, state,
                 opened, fault, lost, news, errors>>

\* synchronizationProgressUpdated of both models.
OnProgress ==
  /\ Slot("progress")
  /\ timer' = TRUE /\ synced' = FALSE
  /\ state' = [synced |-> FALSE, current |-> Head(queue).current,
               total |-> Head(queue).total]
  /\ UNCHANGED <<phase, wallet, raw, txs, last, bits, told, opened, fault, lost,
                 news, errors>>

\* synchronizationCompleted of both models.
OnCompleted ==
  /\ Slot("completed")
  /\ timer' = FALSE /\ synced' = TRUE
  /\ IF synced THEN UNCHANGED <<last, bits, told>> ELSE ShowAllCached(txs)
  /\ state' = [state EXCEPT !.synced = state.current = state.total]
  /\ UNCHANGED <<phase, wallet, raw, txs, opened, fault, lost, news, errors>>

\* timerEvent, every SYNC_TIMER_INTERVAL.
Tick ==
  /\ timer /\ ~fault /\ phase \in {"open", "closing", "stopped"}
  /\ last # Size - 1
  /\ ShowAllCached(txs)
  /\ UNCHANGED <<phase, wallet, raw, queue, txs, synced, timer, state, opened,
                 fault, lost, news, errors>>

\* setData: the user shows or hides the transfers of a row.
ShowTransfers == \E r \in 0..last:
  /\ phase = "open" /\ ~fault
  /\ bits' = [bits EXCEPT ![r + 1] = ~@]
  /\ UNCHANGED <<phase, wallet, raw, queue, txs, last, synced, timer, told,
                 state, opened, fault, lost, news, errors>>

-----------------------------------------------------------------------------
Wallet == Receives \/ Changes \/ Synchronises
User == StartEventLoop \/ Close \/ ShowTransfers
Slots == \/ OnOpened \/ OnClosed \/ OnCreated \/ OnUpdated \/ OnProgress
         \/ OnCompleted

Next == Wallet \/ User \/ ProcessEvent \/ EmitOpened \/ ThreadEnds \/ Slots \/ Tick

\* The threads run on; the timer fires as long as it runs.
Fairness == /\ WF_vars(ProcessEvent) /\ WF_vars(EmitOpened)
            /\ WF_vars(ThreadEnds) /\ WF_vars(Slots) /\ WF_vars(Tick)

Spec == Init /\ [][Next]_vars /\ Fairness

-----------------------------------------------------------------------------
(* Properties.                                                              *)

TypeOK ==
  /\ phase \in {"closed", "loaded", "open", "closing", "stopped"}
  /\ wallet \in Seq(Versions) /\ last \in None..MaxTxs - 1 /\ bits \in Seq(BOOLEAN)
  /\ DOMAIN txs \subseteq 0..MaxTxs - 1 /\ \A i \in DOMAIN txs: txs[i] \in Versions
  /\ synced \in BOOLEAN /\ timer \in BOOLEAN /\ told \in Nat
  /\ state \in [synced: BOOLEAN, current: 0..MaxHeight, total: 0..MaxHeight]

\* Every row has its transaction and its "show transfers" flag: data() looks
\* both up by row.  A failed read leaves a hole in the indexes.
RowsBacked ==
  /\ Len(bits) = RowCount
  /\ ~lost /\ opened /\ ~fault => DOMAIN txs = 0..Size - 1 /\ last < Size

\* "Q_ASSERT(m_transactions.isEmpty())" in walletOpened: no transaction of the
\* wallet is handled before its walletOpened.
OpensEmpty == ~fault

\* What the views were told adds up to rowCount().
RowsAnnounced == ~fault => told = RowCount

\* Once every event is handled the copy is the wallet's list, whatever was
\* read late, early or twice.
CopyCurrent ==
  (phase = "open" /\ opened /\ ~fault /\ ~lost /\ raw = <<>> /\ queue = <<>>)
    => txs = Snapshot

\* Nothing is held back from a synchronised history, unless a read failed and an
\* update made the entry that was missing.
AllShownWhenSynced ==
  (phase = "open" /\ opened /\ ~fault /\ ~lost /\ synced) => last = Size - 1

\* The send form, which WalletStateModel enables, never opens on a history that
\* still hides transactions.
SyncedStateShowsAll ==
  (phase = "open" /\ opened /\ ~fault /\ ~lost /\ state.synced)
    => synced /\ last = Size - 1

\* Rows held back during synchronisation appear within a tick.
HeldBack == phase = "open" /\ timer /\ last < Size - 1
HiddenRowsAppear == HeldBack ~> (~HeldBack \/ fault)
=============================================================================
