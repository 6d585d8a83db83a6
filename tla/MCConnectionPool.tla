-------------------------- MODULE MCConnectionPool --------------------------
(***************************************************************************)
(* Small instances of ConnectionPool for TLC.                              *)
(***************************************************************************)
EXTENDS ConnectionPool, TLC

\* Callers and connections are interchangeable (safety runs only).
Symmetry == Permutations(Callers) \cup Permutations(Conns)
=============================================================================
