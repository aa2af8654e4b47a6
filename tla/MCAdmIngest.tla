------------------------------ MODULE MCAdmIngest ------------------------------
(***************************************************************************)
(* AdmIngest alone: one service, one file, a new session in the same file. *)
(***************************************************************************)
EXTENDS AdmIngest
CONSTANT S1
=============================================================================
