------------------------ MODULE MCNotificationOutbox ------------------------
(* The outbox on a few rows and overlapping polls.                         *)
EXTENDS NotificationOutbox
=============================================================================
