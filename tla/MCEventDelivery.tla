--------------------------- MODULE MCEventDelivery ---------------------------
(* Delivery on small sets. *)
EXTENDS EventDelivery
===============================================================================
