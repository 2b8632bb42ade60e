------------------------------ MODULE MCDelivery ------------------------------
(* Instances of Delivery for TLC. *)
EXTENDS Delivery

TwoQueues == {"event", "action"}
AllKinds  == {"mail", "sms", "firebase"}
OnlySMS   == {"sms"}
OnlyMail  == {"mail"}
===============================================================================
