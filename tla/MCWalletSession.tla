-------------------------- MODULE MCWalletSession --------------------------
(* Constant values and run-only definitions for WalletSession. *)
EXTENDS WalletSession

\* Everything MainWindow offers.
EveryAction == AllActions
EveryEvent  == AllCoreKinds

\* The session around opening, closing and replacing wallets.
LifeActions == {"openRecent", "unlock", "create", "import", "importBadKey",
                "reset", "closeWallet", "reinit", "read", "contact"}

\* What a user can do to one wallet without meeting the known hazards.
CalmActions == {"openRecent", "unlock", "reset", "closeWallet", "commitData",
                "password", "createAddress", "importAddress", "contact",
                "backup", "read", "send", "register"}

\* Every wallet event but the one whose slot reads the wallet unguarded.
CalmEvents == AllCoreKinds \ {"syncCompleted"}

\* Opening and closing, and that event.
SyncActions == {"closeWallet"}
SyncOnly == {"syncCompleted"}
NoEvent  == {}
LabelActions == {"contact", "commitData"}
\* Quitting in the middle of everything a calm user does, and of a reopening.
QuitActions == {"quit", "openRecent", "closeWallet", "reinit", "commitData",
                "createAddress", "read"}
=============================================================================
