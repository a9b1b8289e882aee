------------------------ MODULE MCNotificationDelivery ------------------------
(* Instances of NotificationDelivery for TLC. *)
EXTENDS NotificationDelivery, TLC
=============================================================================
