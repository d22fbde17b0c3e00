-------------------------- MODULE MCNotificationQueue --------------------------
(* Instances of NotificationQueue. *)
EXTENDS NotificationQueue

TwoLists   == {<<1, 2>>, <<2>>}

CallAndMessage == 1 :> "Call" @@ 2 :> "Message"
================================================================================
