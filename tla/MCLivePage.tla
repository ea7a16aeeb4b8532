------------------------------ MODULE MCLivePage ------------------------------
(* Small instances of LivePage: the bounds are in the configuration. *)
EXTENDS LivePage

CONSTANTS Yes, No

=============================================================================
