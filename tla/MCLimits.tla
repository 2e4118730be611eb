------------------------------ MODULE MCLimits ------------------------------
(* Small instances of Limits. *)
EXTENDS Limits
=============================================================================
