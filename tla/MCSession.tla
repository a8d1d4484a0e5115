------------------------------- MODULE MCSession ------------------------------
(* An instance of Session: every pair of clients, of one kind or of two.   *)
EXTENDS Session

CONSTANTS c1, c2, g1, g2, r1
===============================================================================
