-------------------------- MODULE MCInboundServer ---------------------------
(***************************************************************************)
(* Small instances of InboundServer for TLC.  Requests r1 and r2 carry     *)
(* valid emails, the others do not; the valid ones are interchangeable.    *)
(***************************************************************************)
EXTENDS InboundServer, TLC

Symmetry == Permutations(Valid) \cup Permutations(Requests \ Valid)
=============================================================================
