-------------------------------- MODULE MCOutbox --------------------------------
(* Instances of Outbox: see MCOutbox.cfg. *)
EXTENDS Outbox
CONSTANTS w1, w2
=============================================================================
