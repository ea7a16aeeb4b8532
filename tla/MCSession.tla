------------------------------ MODULE MCSession ------------------------------
(* Two tabs of one browser, one or two accounts, and a few attempts. *)
EXTENDS Session

CONSTANTS t1, t2, alice, bob
=============================================================================
