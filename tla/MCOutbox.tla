------------------------------ MODULE MCOutbox ------------------------------
(* Two operations of two events and two instances of the program: the values *)
(* of the constants are all in MCOutbox.cfg.                                 *)
EXTENDS Outbox
=============================================================================
