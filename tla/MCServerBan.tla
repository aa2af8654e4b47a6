------------------------------ MODULE MCServerBan ------------------------------
(* Small instances of ServerBan for TLC. *)
EXTENDS ServerBan, TLC

CONSTANTS b1, b2

Symmetric == Permutations(Bans)
=============================================================================
