----------------------- MODULE MCNotificationDispatch -----------------------
(* Instances of NotificationDispatch for TLC. *)
EXTENDS NotificationDispatch

CONSTANTS service, byHand

\* The notification-cron service and a run started with --once.
ServiceAndManualRun == {service, byHand}

\* One delivery more than a batch holds.
ThreeDeliveries == 1..3
=============================================================================
