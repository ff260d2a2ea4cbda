------------------------------ MODULE MCServer ------------------------------
(* Model-checking instance of Server.                                      *)
EXTENDS Server

OneCut == {[ends |-> "text", starts |-> "text", plain |-> FALSE, splits |-> FALSE]}
=============================================================================
