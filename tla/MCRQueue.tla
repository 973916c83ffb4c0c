------------------------------ MODULE MCRQueue ------------------------------
(* Model checking of RQueue: the constants come from the configuration. *)
EXTENDS RQueue
=============================================================================
