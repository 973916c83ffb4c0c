------------------------------ MODULE MCMirror ------------------------------
(* Model checking of Mirror: the constants come from the configurations. *)
EXTENDS Mirror, TLC
=============================================================================
