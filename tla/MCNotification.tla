--------------------------- MODULE MCNotification ---------------------------
(* A small instance of Notification for TLC: one notification, whose two     *)
(* deliveries two workers hold in whatever batches and copies.               *)
EXTENDS Notification

MCNotifications == {1}
=============================================================================
