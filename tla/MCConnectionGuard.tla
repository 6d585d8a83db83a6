------------------------- MODULE MCConnectionGuard --------------------------
(***************************************************************************)
(* A small instance of ConnectionGuard for TLC: TCP connections of one     *)
(* host, which are interchangeable, and HTTP requests of another.          *)
(***************************************************************************)
EXTENDS ConnectionGuard, TLC

CONSTANTS a1, a2, b1, hostA, hostB

TcpConns == Conns \ {b1}
ConnHosts == [c \in Conns |-> IF c \in TcpConns THEN hostA ELSE hostB]

\* An update raises one limit and lowers the other, or keeps both.
Crossed == {[perIP |-> 1, total |-> 2], [perIP |-> 2, total |-> 1]}

\* Two calls of Close race at the first moment only, bans run out later.
RacesFirst == now > 0 => extra = 0 /\ \A c \in Conns : closers[c] <= 1

Symmetry == Permutations(TcpConns)
=============================================================================
