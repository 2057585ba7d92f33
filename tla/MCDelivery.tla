---------------------------- MODULE MCDelivery ----------------------------
(* One lane's calls, with a second try to publish. *)
EXTENDS Delivery
=============================================================================
