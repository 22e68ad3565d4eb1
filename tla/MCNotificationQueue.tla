------------------------ MODULE MCNotificationQueue -------------------------
(* NotificationQueue for TLC: notifications, workers and requests are        *)
(* interchangeable in runs that check no temporal formula.                   *)
EXTENDS NotificationQueue, TLC

Symmetry == Permutations(Notes) \cup Permutations(Workers) \cup Permutations(Requests)
=============================================================================
