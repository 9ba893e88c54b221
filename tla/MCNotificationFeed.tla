------------------------- MODULE MCNotificationFeed -------------------------
(* Small instances of NotificationFeed for TLC.                            *)
EXTENDS NotificationFeed

\* What the wallet panel of the same page shows, evaluated as the run starts.
Panel == INSTANCE WalletPanel
ASSUME PanelIsClaimed == Panel!PanelClaims
=============================================================================
