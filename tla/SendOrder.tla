----------------------------- MODULE SendOrder -----------------------------
(***************************************************************************)
(* What the send form asks the wallet to pay.  SendFrame keeps the fee of  *)
(* the remote node, m_nodeFee, beside the spin box m_feeSpin that shows it *)
(* together with the network's, and computes both from the amounts of the  *)
(* recipients' frames, the priority slider and the node's minimal fee,     *)
(* which changes with the chain.  "Send all" computes them from the        *)
(* balance and relies on the amount it sets to compute them again.  The    *)
(* lists and the frames' lives are SendForm's: a clear is one step here.   *)
(***************************************************************************)
EXTENDS Integers, Sequences, FiniteSetsExt, SequencesExt

CONSTANTS
  Amounts,      \* amounts the user types, or another program asks for
  Balances,     \* balances of the address paid from
  MinimalFees,  \* what the node may answer for the minimal fee
  Priorities,   \* positions of the slider
  FlatFee,      \* the fee of a node that asks for a fixed one
  Rate,         \* 1 / Rate of the amount, the fee of a node that does not
  MaxNodeFee,   \* the bound of both
  Exact,        \* amounts below it survive a conversion to a double and back
  MaxFrames     \* recipients at a time

VARIABLES
  feeNode,   \* on_remote, m_nodeFeeAddress and m_flatRateNodeFee: how the
             \* node the window was created with is paid
  ready,     \* the wallet is open
  minimal,   \* getMinimalFee()
  least,     \* the minimum of m_feeSpin
  amounts,   \* the amounts shown, by frame of m_transfers
  slider,    \* m_prioritySlider
  nodeFee,   \* m_nodeFee
  spin,      \* m_feeSpin
  balance,   \* the actual balance of the address chosen, or of the wallet
  order,     \* the order the confirmation dialog asks about
  stale,     \* history: since the fees were computed the minimal fee changed, or
             \* nodeFee was computed from the balance
  whole,     \* history: "send all" has just set the amount, or found it set
             \* with the fees of the moment
  reopened   \* history: a wallet was closed in this window

vars == <<feeNode, ready, minimal, least, amounts, slider, nodeFee, spin,
          balance, order, stale, whole, reopened>>

NoOrder == [sum |-> 0, node |-> 0, fee |-> 0, shown |-> 0, balance |-> 0]
Asking == order # NoOrder
Total(s) ==
  LET sum[n \in 0 .. Len(s)] == IF n = 0 THEN 0 ELSE sum[n - 1] + s[n]
  IN  sum[Len(s)]

Clamped(x) == Min({Max({x, minimal}), MaxNodeFee})
RateFee(x) == Clamped(x \div Rate)

\* The amounts a spin box may show for the double nearest to x.
Nearest(x) == IF x < Exact THEN {x} ELSE {x - 1, x, x + 1}

\* amountStringChanged for the amounts s, with m_nodeFee as it is.
Computed(kind, fee, s) == IF kind = "rate" THEN RateFee(Total(s)) ELSE fee
Recompute(kind, fee, s) ==
  LET n == Computed(kind, fee, s)
  IN  /\ nodeFee' = n
      /\ spin' = Max({least', minimal * slider + n})
      /\ stale' = FALSE

Init ==
  /\ feeNode = "unknown" /\ ready = FALSE /\ amounts = <<>>
  /\ minimal = Min(MinimalFees) /\ least = 0 /\ spin = 0 /\ nodeFee = 0
  /\ slider = Min(Priorities) /\ balance = Min(Balances) /\ order = NoOrder
  /\ stale = FALSE /\ whole = FALSE /\ reopened = FALSE

-----------------------------------------------------------------------------
\* The window is given its adapter: the only time the node is asked who is paid.
SetCryptoNoteAdapter == \E kind \in {"none", "rate", "flat"}:
  /\ feeNode = "unknown" /\ feeNode' = kind
  /\ least' = minimal
  /\ Recompute(kind, IF kind = "flat" THEN Clamped(FlatFee) ELSE nodeFee, amounts)
  /\ UNCHANGED <<ready, minimal, amounts, slider, balance, order, whole, reopened>>

WalletOpened ==
  /\ ~ready /\ feeNode # "unknown" /\ ready' = TRUE /\ Len(amounts) < MaxFrames
  /\ amounts' = Append(amounts, 0)
  /\ UNCHANGED <<feeNode, minimal, least, slider, nodeFee, spin, balance, order,
                 stale, whole, reopened>>

\* The user is held back by the confirmation dialog.
User == ready /\ ~Asking

AddRecipientClicked ==
  /\ User /\ Len(amounts) < MaxFrames
  /\ amounts' = Append(amounts, 0) /\ whole' = FALSE
  /\ UNCHANGED <<feeNode, ready, minimal, least, slider, nodeFee, spin, balance,
                 order, stale, reopened>>

AmountTyped == \E i \in DOMAIN amounts, a \in Amounts:
  /\ User /\ amounts[i] # a
  /\ amounts' = [amounts EXCEPT ![i] = a] /\ whole' = FALSE
  /\ least' = least
  /\ Recompute(feeNode, nodeFee, amounts')
  /\ UNCHANGED <<feeNode, ready, minimal, slider, balance, order, reopened>>

\* A frame's destroyed() slot.
Removed == \E i \in DOMAIN amounts:
  /\ User /\ Len(amounts) > 1
  /\ amounts' = RemoveAt(amounts, i) /\ whole' = FALSE
  /\ least' = least
  /\ Recompute(feeNode, nodeFee, amounts')
  /\ UNCHANGED <<feeNode, ready, minimal, slider, balance, order, reopened>>

PriorityValueChanged == \E p \in Priorities \ {slider}:
  /\ User
  /\ slider' = p /\ whole' = FALSE
  /\ spin' = Max({least, minimal * p + nodeFee})
  /\ UNCHANGED <<feeNode, ready, minimal, least, amounts, nodeFee, balance, order,
                 stale, reopened>>

\* "Send all", offered to a sole recipient.  The spin box signals a new text
\* only, so the fees are computed from the amount only if it changes.
SendAllClicked ==
  /\ User /\ Len(amounts) = 1
  /\ LET n == IF feeNode = "rate" THEN RateFee(balance) ELSE nodeFee
         rest == balance - (minimal * slider + n)
     IN  \E a \in Nearest(rest):
           LET shown == Max({a, 0})
           IN  IF shown = amounts[1]
               THEN /\ nodeFee' = n /\ stale' = (stale \/ n # nodeFee)
                    /\ UNCHANGED <<amounts, least, spin>>
               ELSE /\ amounts' = <<shown>> /\ least' = least
                    /\ Recompute(feeNode, n, amounts')
  /\ whole' = (amounts'[1] > 0 /\ (~stale \/ amounts' # amounts))
  /\ UNCHANGED <<feeNode, ready, minimal, slider, balance, order, reopened>>

\* Mutant: the node's part is forgotten.
CoveredBesideNode == Total(amounts) + (spin - nodeFee) <= balance

\* sendClicked's loop over the recipients: every amount is positive, and each
\* sum so far is covered together with the fees.
Covered == Total(amounts) + (spin - nodeFee) + nodeFee <= balance

\* `fee' is signed and the minimal fee is not: a negative one passes.
FeeEnough == spin - nodeFee < 0 \/ spin - nodeFee >= minimal

SendClicked ==
  /\ User /\ amounts # <<>> /\ \A i \in DOMAIN amounts: amounts[i] > 0
  /\ Covered /\ FeeEnough
  /\ order' = [sum |-> Total(amounts),
               node |-> IF feeNode = "none" THEN 0 ELSE nodeFee,
               fee |-> spin - nodeFee, shown |-> spin, balance |-> balance]
  /\ UNCHANGED <<feeNode, ready, minimal, least, amounts, slider, nodeFee, spin,
                 balance, stale, whole, reopened>>

-----------------------------------------------------------------------------
\* clearAll with m_nodeFee as given, and the amounts its caller sets.
Clear(fee, s) ==
  /\ least' = minimal /\ amounts' = s /\ whole' = FALSE
  /\ Recompute(feeNode, fee, s)

NotSent ==
  /\ Asking /\ order' = NoOrder
  /\ UNCHANGED <<feeNode, ready, minimal, least, amounts, slider, nodeFee, spin,
                 balance, stale, whole, reopened>>

Sent ==
  /\ Asking /\ order' = NoOrder
  /\ Clear(nodeFee, <<0>>)
  /\ UNCHANGED <<feeNode, ready, minimal, slider, balance, reopened>>

\* A payment request, which neither the dialog nor a closed wallet holds back.
UrlReceived == \E a \in Amounts:
  /\ feeNode # "unknown" /\ \E b \in Nearest(a): Clear(nodeFee, <<b>>)
  /\ UNCHANGED <<feeNode, ready, minimal, slider, balance, order, reopened>>

WalletClosed ==
  /\ User /\ ready' = FALSE /\ reopened' = TRUE
  /\ Clear(0, <<>>)
  /\ UNCHANGED <<feeNode, minimal, slider, balance, order>>

\* The wallet's balance changes, or another address is chosen to pay from.
BalanceChanged == \E b \in Balances \ {balance}:
  /\ feeNode # "unknown" /\ balance' = b /\ whole' = FALSE
  /\ UNCHANGED <<feeNode, ready, minimal, least, amounts, slider, nodeFee, spin,
                 order, stale, reopened>>

\* The chain moves on.
MinimalFeeChanged == \E m \in MinimalFees \ {minimal}:
  /\ feeNode # "unknown" /\ minimal' = m
  /\ stale' = TRUE /\ whole' = FALSE
  /\ UNCHANGED <<feeNode, ready, least, amounts, slider, nodeFee, spin, balance,
                 order, reopened>>

Next == \/ SetCryptoNoteAdapter \/ WalletOpened \/ AddRecipientClicked
        \/ AmountTyped \/ Removed \/ PriorityValueChanged \/ SendAllClicked
        \/ SendClicked \/ NotSent \/ Sent \/ UrlReceived \/ WalletClosed
        \/ BalanceChanged \/ MinimalFeeChanged

Spec == Init /\ [][Next]_vars

-----------------------------------------------------------------------------
(* Properties.                                                              *)

TypeOK ==
  /\ feeNode \in {"unknown", "none", "rate", "flat"}
  /\ ready \in BOOLEAN /\ stale \in BOOLEAN /\ whole \in BOOLEAN
  /\ reopened \in BOOLEAN
  /\ minimal \in MinimalFees
  /\ least \in MinimalFees \cup {0}
  /\ slider \in Priorities /\ balance \in Balances
  /\ Len(amounts) <= MaxFrames /\ \A i \in DOMAIN amounts: amounts[i] >= 0
  /\ nodeFee \in 0 .. MaxNodeFee /\ spin >= least
  /\ DOMAIN order = DOMAIN NoOrder

\* An order costs no more than the balance it was built from, and the node's
\* part and the network's are together the fee the form showed.
OrderFits ==
  /\ order.sum + order.node + order.fee <= order.balance
  /\ order.node + order.fee = order.shown

\* While the minimal fee has not changed since the form was cleared, the fee
\* shown is the priority's and the node's, and the node's is that of the amounts
\* shown, whatever was typed, removed, cleared or asked for by another program.
FeesOfWhatIsShown ==
  feeNode # "unknown" /\ ~stale /\ least = minimal =>
    /\ spin = minimal * slider + nodeFee
    /\ feeNode = "rate" => nodeFee = RateFee(Total(amounts))

\* What "send all" set can be sent, while nothing else has changed: the fees of
\* the amount never exceed those it was computed with.
SendAllFits ==
  whole /\ least = minimal /\ balance < Exact => Covered

\* The node is paid with every order, in the window's first wallet.
NodePaid ==
  Asking /\ feeNode \in {"rate", "flat"} /\ ~reopened => order.node > 0

OrderPaid == OrderFits /\ FeesOfWhatIsShown /\ SendAllFits /\ NodePaid
=============================================================================
