-------------------------- MODULE WalletLifecycle --------------------------
(***************************************************************************)
(* What IWalletAdapter promises its observers (WalletStateModel,           *)
(* TransactionsModel, AddressListModel, ...): a wallet is opened, closed   *)
(* and opened again, never replaced while it is there; observers are told  *)
(* walletOpened at most once per wallet, only for a wallet that has been   *)
(* opened, and are told walletClosed no later than the wallet is gone.     *)
(***************************************************************************)

VARIABLES
    phase,  \* of the one wallet the adapter handles
    told    \* the observers were told walletOpened and not yet walletClosed

vars == <<phase, told>>

TypeOK ==
    /\ phase \in {"closed", "opening", "open", "closing"}
    /\ told \in BOOLEAN

Init == phase = "closed" /\ told = FALSE

Start ==
    /\ phase = "closed"
    /\ phase' = "opening"
    /\ told' = told

Succeed ==
    /\ phase = "opening"
    /\ phase' = "open"
    /\ told' = told

Fail ==
    /\ phase = "opening"
    /\ phase' = "closing"
    /\ told' = told

Tell ==
    /\ phase \in {"open", "closing"}
    /\ ~told
    /\ told' = TRUE
    /\ phase' = phase

StartClose ==
    /\ phase = "open"
    /\ phase' = "closing"
    /\ told' = told

Finish ==
    /\ phase = "closing"
    /\ phase' = "closed"
    /\ told' = FALSE

Next == Start \/ Succeed \/ Fail \/ Tell \/ StartClose \/ Finish

Spec == Init /\ [][Next]_vars
=============================================================================
