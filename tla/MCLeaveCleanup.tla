---------------------------- MODULE MCLeaveCleanup ----------------------------
(* Small instances of LeaveCleanup for TLC. *)
EXTENDS LeaveCleanup

CONSTANTS w1, w2

AllRows == {"NONE", "LOCAL_ONLY", "SYNCED", "PENDING_REMOVE"}
=============================================================================
