-------------------------------- MODULE MCPoll --------------------------------
(* A small instance of Poll for TLC: two users vote, also by reaction.       *)
EXTENDS Poll

CONSTANTS u1, u2, o1, o2, t1, t2
=============================================================================
