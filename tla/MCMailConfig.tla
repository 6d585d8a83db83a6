---------------------------- MODULE MCMailConfig ----------------------------
(***************************************************************************)
(* A small instance of MailConfig for TLC: two administrators, the primary *)
(* domain and another.                                                     *)
(***************************************************************************)
EXTENDS MailConfig, TLC

Symmetry == Permutations(Admins)
=============================================================================
