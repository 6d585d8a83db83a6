----------------------------- MODULE PoolLease ------------------------------
(***************************************************************************)
(* What a connection pool promises its callers, whatever it does inside: a *)
(* connection is leased to one caller at a time, and a caller gives its    *)
(* connection back before the pool leases it to another.                   *)
(***************************************************************************)
CONSTANTS Callers, Conns, NoConn

VARIABLE lease    \* the connection each caller has, or NoConn

Init == lease = [t \in Callers |-> NoConn]

\* Get returns a connection that nobody else has.
Acquire(t) ==
  /\ lease[t] = NoConn
  /\ \E c \in Conns :
       /\ \A u \in Callers : lease[u] # c
       /\ lease' = [lease EXCEPT ![t] = c]

\* Release gives it back.
GiveBack(t) ==
  /\ lease[t] # NoConn
  /\ lease' = [lease EXCEPT ![t] = NoConn]

Next == \E t \in Callers : Acquire(t) \/ GiveBack(t)

Spec == Init /\ [][Next]_lease
=============================================================================
