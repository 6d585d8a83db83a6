----------------------- MODULE ConnectionGuardProofs ------------------------
(***************************************************************************)
(* Proofs about ConnectionGuard: its types, the limits and the two gauges. *)
(*                                                                         *)
(* LimitsHold bounds the connections that are in, which no variable        *)
(* counts.  What the steps keep relates that number to the count of the    *)
(* present limiter alone: the others were in when it was made, whichever   *)
(* limiter is told of their end, so the counts of the replaced limiters    *)
(* need no account.                                                        *)
(***************************************************************************)
EXTENDS ConnectionGuard, FiniteSetTheorems, TLAPS

USE DEF present

\* A connection that is being closed is a TCP one with a call of Close at
\* work, and an HTTP request past its defer will release a limiter that was
\* made before.
StageInv ==
  \A c \in Conns :
    /\ c \notin Tcp => closers[c] = 0 /\ pc[c] # "closing"
    /\ c \notin Tcp /\ pc[c] = "open" => deferred[c] \in 1..current
    /\ closers[c] > 0 => pc[c] \in {"open", "closing"}

\* No limiter counts more than its limits, and one that is not made yet
\* counts nothing.
CountsInv ==
  \A g \in Limiters :
    /\ totalConns[g] <= limits[g].total
    /\ \A h \in Hosts : connections[g][h] <= limits[g].perIP
    /\ g > current => /\ totalConns[g] = 0
                      /\ \A h \in Hosts : connections[g][h] = 0

\* The connections that are in are at most those the present limiter counts,
\* as many as were in when it was made, and those that extra releases hid.
Older == Cardinality(before)
OlderFrom(h) == Cardinality(BeforeFrom(h))
TotalInv == Cardinality(In) <= Older + totalConns[current] + extra
HostInv ==
  \A h \in Hosts :
    Cardinality(InFrom(h)) <= OlderFrom(h) + connections[current][h] + extra

\* While the first limiter serves, the gauge shows its count, and the count
\* is exact unless a connection was released twice.
GaugeInv ==
  current = 1 =>
    /\ activeGauge = totalConns[1]
    /\ extra = 0 => totalConns[1] = Cardinality(In)

\* The bans are finitely many and the gauge covers them.
BansInv == IsFiniteSet(Bans) /\ Cardinality(Bans) <= bannedGauge

GuardInv ==
  /\ TypeOK /\ StageInv /\ CountsInv
  /\ TotalInv /\ HostInv /\ GaugeInv /\ BansInv

-----------------------------------------------------------------------------
(***************************************************************************)
(* What the operators do                                                   *)
(***************************************************************************)

\* The sets that are counted are finite.
LEMMA InFinite ==
  /\ IsFiniteSet(In) /\ Cardinality(In) \in Nat
  /\ \A h : IsFiniteSet(InFrom(h)) /\ Cardinality(InFrom(h)) \in Nat
<1>1. IsFiniteSet(In) /\ Cardinality(In) \in Nat
  BY ConnsAssumption, FS_Subset, FS_CardinalityType DEF In
<1>2. \A h : IsFiniteSet(InFrom(h)) /\ Cardinality(InFrom(h)) \in Nat
  BY <1>1, FS_Subset, FS_CardinalityType DEF InFrom
<1> QED
  BY <1>1, <1>2

\* A connection that comes in adds one to the count of all and of its host.
LEMMA Enters ==
  ASSUME TypeOK, NEW c \in Conns, c \notin In,
         NEW point \in {"accepted", "open"}, Goto(c, point)
  PROVE  /\ Cardinality(In)' = Cardinality(In) + 1
         /\ \A h : Cardinality(InFrom(h))' =
              IF h = HostOf[c] THEN Cardinality(InFrom(h)) + 1
                               ELSE Cardinality(InFrom(h))
<1>1. In' = In \cup {c}
  BY DEF In, Goto, TypeOK
<1>2. Cardinality(In)' = Cardinality(In) + 1
  BY <1>1, InFinite, FS_AddElement
<1>3. ASSUME NEW h, h = HostOf[c]
      PROVE  Cardinality(InFrom(h))' = Cardinality(InFrom(h)) + 1
  <2>1. InFrom(h)' = InFrom(h) \cup {c} /\ c \notin InFrom(h)
    BY <1>1, <1>3 DEF InFrom
  <2> QED
    BY <2>1, InFinite, FS_AddElement
<1>4. ASSUME NEW h, h # HostOf[c]
      PROVE  Cardinality(InFrom(h))' = Cardinality(InFrom(h))
  <2>1. InFrom(h)' = InFrom(h)
    BY <1>1, <1>4 DEF InFrom
  <2> QED
    BY <2>1
<1> QED
  BY <1>2, <1>3, <1>4

\* A connection that goes out takes one from both.
LEMMA Leaves ==
  ASSUME TypeOK, NEW c \in Conns, c \in In,
         NEW point \in {"out", "closing"}, Goto(c, point)
  PROVE  /\ Cardinality(In) \in Nat \ {0}
         /\ Cardinality(In)' = Cardinality(In) - 1
         /\ \A h : Cardinality(InFrom(h))' =
              IF h = HostOf[c] THEN Cardinality(InFrom(h)) - 1
                               ELSE Cardinality(InFrom(h))
<1>1. In' = In \ {c}
  BY DEF In, Goto, TypeOK
<1>2. Cardinality(In)' = Cardinality(In) - 1
  BY <1>1, InFinite, FS_RemoveElement
<1>3. Cardinality(In) \in Nat \ {0}
  BY InFinite, FS_EmptySet
<1>4. ASSUME NEW h, h = HostOf[c]
      PROVE  Cardinality(InFrom(h))' = Cardinality(InFrom(h)) - 1
  <2>1. InFrom(h)' = InFrom(h) \ {c} /\ c \in InFrom(h)
    BY <1>1, <1>4 DEF InFrom
  <2> QED
    BY <2>1, InFinite, FS_RemoveElement
<1>5. ASSUME NEW h, h # HostOf[c]
      PROVE  Cardinality(InFrom(h))' = Cardinality(InFrom(h))
  <2>1. InFrom(h)' = InFrom(h)
    BY <1>1, <1>5 DEF InFrom
  <2> QED
    BY <2>1
<1> QED
  BY <1>2, <1>3, <1>4, <1>5

\* A connection that goes from one point inside to another, or from one
\* outside to another, leaves them.
LEMMA Stays ==
  ASSUME TypeOK, NEW c \in Conns, NEW point, Goto(c, point),
         c \in In <=> point \in {"accepted", "open"}
  PROVE  /\ Cardinality(In)' = Cardinality(In)
         /\ \A h : Cardinality(InFrom(h))' = Cardinality(InFrom(h))
<1>1. In' = In
  BY DEF In, Goto, TypeOK
<1>2. \A h : InFrom(h)' = InFrom(h)
  BY <1>1 DEF InFrom
<1> QED
  BY <1>1, <1>2

\* Release takes at most one from the counts of its limiter, nothing from
\* any other's, and never takes a count below zero or up.
LEMMA Releases ==
  ASSUME TypeOK, NEW g \in Limiters, NEW h \in Hosts, Release(g, h)
  PROVE  /\ connections' \in [Limiters -> [Hosts -> Nat]]
         /\ totalConns' \in [Limiters -> Nat]
         /\ \A k \in Limiters :
              /\ totalConns'[k] <= totalConns[k]
              /\ \A i \in Hosts : connections'[k][i] <= connections[k][i]
              /\ totalConns'[k] >= totalConns[k] - 1
              /\ connections'[k][h] >= connections[k][h] - 1
              /\ \A i \in Hosts \ {h} : connections'[k][i] = connections[k][i]
         /\ totalConns'[g] = IF totalConns[g] > 0 THEN totalConns[g] - 1 ELSE 0
<1>1. /\ totalConns' \in [Limiters -> Nat]
      /\ totalConns'[g] = IF totalConns[g] > 0 THEN totalConns[g] - 1 ELSE 0
      /\ \A k \in Limiters \ {g} : totalConns'[k] = totalConns[k]
  BY DEF Release, TypeOK
<1>2. /\ connections' \in [Limiters -> [Hosts -> Nat]]
      /\ connections'[g][h] =
           IF connections[g][h] > 0 THEN connections[g][h] - 1 ELSE 0
      /\ \A i \in Hosts \ {h} : connections'[g][i] = connections[g][i]
      /\ \A k \in Limiters \ {g} : connections'[k] = connections[k]
  BY DEF Release, TypeOK
<1>3. totalConns \in [Limiters -> Nat] /\ connections \in [Limiters -> [Hosts -> Nat]]
  BY DEF TypeOK
<1>4. \A k \in Limiters : /\ totalConns'[k] <= totalConns[k]
                          /\ totalConns'[k] >= totalConns[k] - 1
  BY <1>1, <1>3
<1>5. ASSUME NEW k \in Limiters
      PROVE  /\ \A i \in Hosts : connections'[k][i] <= connections[k][i]
             /\ connections'[k][h] >= connections[k][h] - 1
             /\ \A i \in Hosts \ {h} : connections'[k][i] = connections[k][i]
  <2>1. CASE k = g
    <3>1. /\ connections'[k][h] <= connections[k][h]
          /\ connections'[k][h] >= connections[k][h] - 1
      BY <1>2, <1>3, <2>1
    <3>2. \A i \in Hosts \ {h} : /\ connections'[k][i] = connections[k][i]
                                 /\ connections'[k][i] <= connections[k][i]
      BY <1>2, <1>3, <2>1
    <3> QED
      BY <3>1, <3>2
  <2>2. CASE k # g
    BY <1>2, <1>3, <2>2
  <2> QED
    BY <2>1, <2>2
<1> QED
  BY <1>1, <1>2, <1>4, <1>5

\* A ban set, or set again, adds at most one to the bans ...
LEMMA BanAdds ==
  ASSUME TypeOK, BansInv, NEW h \in Hosts, NEW t \in Nat,
         bannedUntil' = [bannedUntil EXCEPT ![current][h] = t]
  PROVE  IsFiniteSet(Bans') /\ Cardinality(Bans') <= Cardinality(Bans) + 1
<1>1. Bans' \subseteq Bans \cup {<<current, h>>}
  BY DEF Bans, TypeOK
<1>2. /\ IsFiniteSet(Bans \cup {<<current, h>>})
      /\ Cardinality(Bans \cup {<<current, h>>}) <= Cardinality(Bans) + 1
  <2>1. IsFiniteSet(Bans) /\ Cardinality(Bans) \in Nat
    BY FS_CardinalityType DEF BansInv
  <2>2. ASSUME NEW b
        PROVE  /\ IsFiniteSet(Bans \cup {b})
               /\ Cardinality(Bans \cup {b}) <= Cardinality(Bans) + 1
    <3>1. IsFiniteSet(Bans \cup {b})
      BY <2>1, FS_AddElement
    <3>2. Cardinality(Bans \cup {b}) =
            IF b \in Bans THEN Cardinality(Bans) ELSE Cardinality(Bans) + 1
      BY <2>1, FS_AddElement
    <3> QED
      BY <2>1, <3>1, <3>2
  <2> QED
    BY <2>2
<1>3. IsFiniteSet(Bans') /\ Cardinality(Bans') <= Cardinality(Bans \cup {<<current, h>>})
  BY <1>1, <1>2, FS_Subset
<1> QED
  BY <1>2, <1>3, FS_CardinalityType DEF BansInv

\* ... and one that is dropped takes exactly itself from them.
LEMMA BanDrops ==
  ASSUME TypeOK, BansInv, NEW h \in Hosts,
         bannedUntil' = [bannedUntil EXCEPT ![current][h] = 0]
  PROVE  /\ IsFiniteSet(Bans')
         /\ Cardinality(Bans') = IF HasBan(h) THEN Cardinality(Bans) - 1
                                              ELSE Cardinality(Bans)
<1>1. Bans' = Bans \ {<<current, h>>}
  BY DEF Bans, TypeOK
<1>2. <<current, h>> \in Bans <=> HasBan(h)
  BY DEF Bans, HasBan, TypeOK
<1> QED
  BY <1>1, <1>2, FS_RemoveElement DEF BansInv

\* cleanup counts out exactly the bans it drops.
LEMMA CleanupDrops ==
  ASSUME TypeOK, BansInv, NEW g \in Limiters
  PROVE  /\ Cardinality(Expired(g)) \in Nat
         /\ Cleanup(g) =>
              /\ IsFiniteSet(Bans')
              /\ Cardinality(Bans') = Cardinality(Bans) - Cardinality(Expired(g))
<1> DEFINE E == {b \in Bans : b[1] = g /\ now > bannedUntil[b[1]][b[2]]}
<1> DEFINE host == [b \in E |-> b[2]]
<1>1. IsFiniteSet(Bans) /\ IsFiniteSet(E) /\ Cardinality(E) \in Nat
  BY FS_Subset, FS_CardinalityType DEF BansInv
<1>2. \A h \in Expired(g) : <<g, h>> \in E /\ host[<<g, h>>] = h
  BY DEF Expired, Bans
<1>3. \A b \in E : b = <<g, b[2]>> /\ b[2] \in Expired(g)
  BY DEF Expired, Bans
<1>4. host \in [E -> Expired(g)]
  BY <1>3
<1>5. host \in Bijection(E, Expired(g))
  <2>1. \A a, b \in E : host[a] = host[b] => a = b
    BY <1>3
  <2>2. \A h \in Expired(g) : \E b \in E : host[b] = h
    BY <1>2
  <2> HIDE DEF E, host
  <2> QED
    BY <1>4, <2>1, <2>2 DEF Bijection, Injection, Surjection, IsInjective
<1>6. IsFiniteSet(Expired(g)) /\ Cardinality(Expired(g)) = Cardinality(E)
  BY <1>1, <1>5, FS_Bijection DEF ExistsBijection
<1>7. ASSUME Cleanup(g)
      PROVE  Bans' = Bans \ E
  BY <1>7 DEF Cleanup, Bans, Expired, TypeOK
<1>8. IsFiniteSet(Bans \ E) /\ Cardinality(Bans \ E) = Cardinality(Bans) - Cardinality(E)
  <2>1. Bans \cap E = E
    OBVIOUS
  <2> QED
    BY <1>1, <2>1, FS_Difference
<1> QED
  BY <1>1, <1>6, <1>7, <1>8

-----------------------------------------------------------------------------
(***************************************************************************)
(* The steps                                                               *)
(***************************************************************************)

\* A new value for one host of one limiter.
LEMMA SetOne ==
  ASSUME NEW S, NEW f \in [Limiters -> [Hosts -> S]],
         NEW g \in Limiters, NEW h \in Hosts, NEW v \in S
  PROVE  [f EXCEPT ![g][h] = v] \in [Limiters -> [Hosts -> S]]
OBVIOUS

\* The types of a limiter's maps, of the connections and of the rest.
LimiterTypes ==
  /\ current \in Limiters
  /\ limits \in [Limiters -> Limits] /\ before \subseteq Conns
  /\ connections \in [Limiters -> [Hosts -> Nat]]
  /\ totalConns \in [Limiters -> Nat]
  /\ violations \in [Limiters -> [Hosts -> 0..(BanThreshold - 1)]]
  /\ bannedUntil \in [Limiters -> [Hosts -> Nat]]
ConnTypes ==
  /\ pc \in [Conns -> Points]
  /\ deferred \in [Conns -> Limiters \cup {0}]
  /\ closers \in [Conns -> 0..MaxClosers]
OtherTypes ==
  /\ activeGauge \in Nat /\ bannedGauge \in Int
  /\ extra \in Nat /\ now \in Nat

\* A violation adds one, up to the threshold, where the count starts again.
LEMMA ViolationTypes ==
  ASSUME TypeOK, NEW h \in Hosts
  PROVE  /\ Violations(h) \in 0..(BanThreshold - 1)
         /\ Violations(h) + 1 < BanThreshold =>
              Violations(h) + 1 \in 0..(BanThreshold - 1)
         /\ 0 \in 0..(BanThreshold - 1)
         /\ now + BanDuration \in Nat \ {0}
<1>1. 0 \in 0..(BanThreshold - 1) /\ now + BanDuration \in Nat \ {0}
  BY LimitsAssumption DEF TypeOK
<1>2. Violations(h) \in 0..(BanThreshold - 1)
  BY <1>1 DEF TypeOK, Violations
<1> QED
  BY <1>1, <1>2, LimitsAssumption

\* Every step keeps the types of the limiters, ...
LEMMA LimiterTypeStep == TypeOK /\ StageInv /\ [Next]_vars => LimiterTypes'
<1> SUFFICES ASSUME TypeOK, StageInv, [Next]_vars PROVE LimiterTypes'
  OBVIOUS
<1>a. LimiterTypes
  BY DEF TypeOK, LimiterTypes
<1> USE <1>a, ConnsAssumption DEF LimiterTypes
<1>1. ASSUME NEW c \in Conns, Accept(c) PROVE LimiterTypes'
  <2>1. HostOf[c] \in Hosts
    OBVIOUS
  <2>2. violations' \in [Limiters -> [Hosts -> 0..(BanThreshold - 1)]]
    BY <1>1, <2>1, SetOne, ViolationTypes DEF Accept
  <2>3. bannedUntil' \in [Limiters -> [Hosts -> Nat]]
    BY <1>1, <2>1, SetOne DEF Accept
  <2>4. connections' \in [Limiters -> [Hosts -> Nat]]
    BY <1>1, <2>1 DEF Accept
  <2>5. totalConns' \in [Limiters -> Nat]
    BY <1>1 DEF Accept
  <2> QED
    BY <1>1, <2>2, <2>3, <2>4, <2>5 DEF Accept
<1>2. ASSUME NEW c \in Conns, Refuse(c) PROVE LimiterTypes'
  <2>1. HostOf[c] \in Hosts
    OBVIOUS
  <2>2. CASE Violations(HostOf[c]) + 1 >= BanThreshold
    <3>1. /\ violations' = [violations EXCEPT ![current][HostOf[c]] = 0]
          /\ bannedUntil' = [bannedUntil EXCEPT ![current][HostOf[c]] =
                               now + BanDuration]
      BY <1>2, <2>2 DEF Refuse, RecordViolation
    <3>2. violations' \in [Limiters -> [Hosts -> 0..(BanThreshold - 1)]]
      BY <2>1, <3>1, SetOne, ViolationTypes
    <3>3. bannedUntil' \in [Limiters -> [Hosts -> Nat]]
      BY <2>1, <3>1, SetOne, ViolationTypes
    <3> QED
      BY <1>2, <3>2, <3>3 DEF Refuse
  <2>3. CASE ~(Violations(HostOf[c]) + 1 >= BanThreshold)
    <3>1. Violations(HostOf[c]) + 1 \in 0..(BanThreshold - 1)
      BY <2>1, <2>3, ViolationTypes, LimitsAssumption
    <3>2. /\ violations' = [violations EXCEPT ![current][HostOf[c]] =
                              Violations(HostOf[c]) + 1]
          /\ bannedUntil' = [bannedUntil EXCEPT ![current][HostOf[c]] = 0]
      BY <1>2, <2>3 DEF Refuse, RecordViolation
    <3>3. violations' \in [Limiters -> [Hosts -> 0..(BanThreshold - 1)]]
      BY <2>1, <3>1, <3>2, SetOne
    <3>4. bannedUntil' \in [Limiters -> [Hosts -> Nat]]
      BY <2>1, <3>2, SetOne
    <3> QED
      BY <1>2, <3>3, <3>4 DEF Refuse
  <2> QED
    BY <2>2, <2>3
<1>3. ASSUME NEW c \in Conns, DeferRelease(c) PROVE LimiterTypes'
  BY <1>3 DEF DeferRelease, limiterVars
<1>4. ASSUME NEW c \in Conns, HttpReturns(c) PROVE LimiterTypes'
  <2>1. deferred[c] \in Limiters
    BY <1>4, LimitsAssumption DEF HttpReturns, StageInv, Limiters
  <2> QED
    BY <1>4, <2>1, Releases DEF HttpReturns
<1>5. ASSUME NEW c \in Conns, TcpOpens(c) PROVE LimiterTypes'
  BY <1>5 DEF TcpOpens, limiterVars
<1>6. ASSUME NEW c \in Conns, TcpThrottled(c) PROVE LimiterTypes'
  BY <1>6, Releases DEF TcpThrottled
<1>7. ASSUME NEW c \in Conns, CloseBegins(c) PROVE LimiterTypes'
  BY <1>7 DEF CloseBegins, limiterVars
<1>8. ASSUME NEW c \in Conns, CloseReleases(c) PROVE LimiterTypes'
  BY <1>8, Releases DEF CloseReleases
<1>9. ASSUME NEW h \in Hosts, Unban(h) PROVE LimiterTypes'
  BY <1>9, SetOne, ViolationTypes DEF Unban
<1>10. ASSUME NEW h \in Hosts, Ban(h) PROVE LimiterTypes'
  BY <1>10, SetOne, ViolationTypes DEF Ban
<1>11. ASSUME NEW g \in 1..current, Cleanup(g) PROVE LimiterTypes'
  <2>1. g \in Limiters
    BY LimitsAssumption DEF Limiters
  <2>2. bannedUntil' \in [Limiters -> [Hosts -> Nat]]
    BY <1>11, <2>1 DEF Cleanup
  <2>3. 0 \in 0..(BanThreshold - 1)
    BY LimitsAssumption
  <2>4. violations' \in [Limiters -> [Hosts -> 0..(BanThreshold - 1)]]
    BY <1>11, <2>1, <2>3 DEF Cleanup
  <2> QED
    BY <1>11, <2>2, <2>4 DEF Cleanup
<1>12. CASE UpdateLimits
  <2>1. current' \in Limiters
    BY <1>12, LimitsAssumption DEF UpdateLimits, Limiters
  <2>2. limits' \in [Limiters -> Limits] /\ before' \subseteq Conns
    BY <1>12 DEF UpdateLimits, In
  <2> QED
    BY <1>12, <2>1, <2>2 DEF UpdateLimits
<1>13. CASE Tick
  BY <1>13 DEF Tick, limiterVars
<1>14. CASE UNCHANGED vars
  BY <1>14 DEF vars
<1> QED
  BY <1>1, <1>2, <1>3, <1>4, <1>5, <1>6, <1>7, <1>8, <1>9, <1>10, <1>11,
     <1>12, <1>13, <1>14 DEF Next, Traffic, Administration

\* ... of the connections ...
LEMMA ConnTypeStep == TypeOK /\ [Next]_vars => ConnTypes'
<1> SUFFICES ASSUME TypeOK, [Next]_vars PROVE ConnTypes'
  OBVIOUS
<1>a. ConnTypes /\ current \in Limiters
  BY DEF TypeOK, ConnTypes
<1> USE <1>a DEF ConnTypes, Goto, Over, Points
<1>1. ASSUME NEW c \in Conns, Accept(c) \/ Refuse(c) PROVE ConnTypes'
  BY <1>1 DEF Accept, Refuse
<1>2. ASSUME NEW c \in Conns, DeferRelease(c) \/ TcpOpens(c) PROVE ConnTypes'
  BY <1>2 DEF DeferRelease, TcpOpens
<1>3. ASSUME NEW c \in Conns, HttpReturns(c) \/ TcpThrottled(c) PROVE ConnTypes'
  BY <1>3 DEF HttpReturns, TcpThrottled
<1>4. ASSUME NEW c \in Conns, CloseBegins(c) PROVE ConnTypes'
  BY <1>4, LimitsAssumption DEF CloseBegins
<1>5. ASSUME NEW c \in Conns, CloseReleases(c) PROVE ConnTypes'
  BY <1>5, LimitsAssumption DEF CloseReleases
<1>6. ASSUME NEW h \in Hosts, Unban(h) \/ Ban(h) PROVE ConnTypes'
  BY <1>6 DEF Unban, Ban
<1>7. ASSUME NEW g \in 1..current, Cleanup(g) PROVE ConnTypes'
  BY <1>7 DEF Cleanup
<1>8. CASE UpdateLimits \/ Tick \/ UNCHANGED vars
  BY <1>8 DEF UpdateLimits, Tick, vars
<1> QED
  BY <1>1, <1>2, <1>3, <1>4, <1>5, <1>6, <1>7, <1>8
  DEF Next, Traffic, Administration

\* ... and of the rest.
LEMMA OtherTypeStep ==
  TypeOK /\ StageInv /\ BansInv /\ [Next]_vars => OtherTypes'
<1> SUFFICES ASSUME TypeOK, StageInv, BansInv, [Next]_vars PROVE OtherTypes'
  OBVIOUS
<1>a. OtherTypes /\ totalConns \in [Limiters -> Nat] /\ current \in Limiters
  BY DEF TypeOK, OtherTypes
<1> USE <1>a DEF OtherTypes, gaugeVars
<1>1. ASSUME NEW c \in Conns, Accept(c) PROVE OtherTypes'
  BY <1>1 DEF Accept
<1>2. ASSUME NEW c \in Conns, Refuse(c) PROVE OtherTypes'
  BY <1>2 DEF Refuse, RecordViolation
<1>3. ASSUME NEW c \in Conns,
             DeferRelease(c) \/ TcpOpens(c) \/ CloseBegins(c)
      PROVE  OtherTypes'
  BY <1>3 DEF DeferRelease, TcpOpens, CloseBegins
<1>4. ASSUME NEW c \in Conns, HttpReturns(c) PROVE OtherTypes'
  <2>1. deferred[c] \in Limiters
    BY <1>4, LimitsAssumption DEF HttpReturns, StageInv, Limiters
  <2> QED
    BY <1>4, <2>1 DEF HttpReturns, Release
<1>5. ASSUME NEW c \in Conns, TcpThrottled(c) PROVE OtherTypes'
  BY <1>5 DEF TcpThrottled, Release
<1>6. ASSUME NEW c \in Conns, CloseReleases(c) PROVE OtherTypes'
  BY <1>6 DEF CloseReleases, Release
<1>7. ASSUME NEW h \in Hosts, Unban(h) \/ Ban(h) PROVE OtherTypes'
  BY <1>7 DEF Unban, Ban
<1>8. ASSUME NEW g \in 1..current, Cleanup(g) PROVE OtherTypes'
  <2>1. Cardinality(Expired(g)) \in Nat
    BY CleanupDrops, LimitsAssumption DEF Limiters
  <2> QED
    BY <1>8, <2>1 DEF Cleanup
<1>9. CASE UpdateLimits \/ Tick \/ UNCHANGED vars
  BY <1>9 DEF UpdateLimits, Tick, vars
<1> QED
  BY <1>1, <1>2, <1>3, <1>4, <1>5, <1>6, <1>7, <1>8, <1>9
  DEF Next, Traffic, Administration

\* Together: every step keeps the types.
LEMMA TypeStep == TypeOK /\ StageInv /\ BansInv /\ [Next]_vars => TypeOK'
BY LimiterTypeStep, ConnTypeStep, OtherTypeStep
DEF TypeOK, LimiterTypes, ConnTypes, OtherTypes

\* Every step keeps the stages of the connections.
LEMMA StageStep == TypeOK /\ StageInv /\ [Next]_vars => StageInv'
<1> SUFFICES ASSUME TypeOK, StageInv, [Next]_vars PROVE StageInv'
  OBVIOUS
<1> USE LimitsAssumption
    DEF TypeOK, StageInv, Limiters, Goto, Over, limiterVars, gaugeVars, Points
<1>1. ASSUME NEW c \in Conns, Accept(c) PROVE StageInv'
  BY <1>1 DEF Accept
<1>2. ASSUME NEW c \in Conns, Refuse(c) PROVE StageInv'
  BY <1>2 DEF Refuse
<1>3. ASSUME NEW c \in Conns, DeferRelease(c) PROVE StageInv'
  BY <1>3 DEF DeferRelease
<1>4. ASSUME NEW c \in Conns, HttpReturns(c) PROVE StageInv'
  BY <1>4 DEF HttpReturns
<1>5. ASSUME NEW c \in Conns, TcpOpens(c) PROVE StageInv'
  BY <1>5 DEF TcpOpens
<1>6. ASSUME NEW c \in Conns, TcpThrottled(c) PROVE StageInv'
  BY <1>6 DEF TcpThrottled
<1>7. ASSUME NEW c \in Conns, CloseBegins(c) PROVE StageInv'
  BY <1>7 DEF CloseBegins
<1>8. ASSUME NEW c \in Conns, CloseReleases(c) PROVE StageInv'
  BY <1>8 DEF CloseReleases
<1>9. ASSUME NEW h \in Hosts, Unban(h) PROVE StageInv'
  BY <1>9 DEF Unban
<1>10. ASSUME NEW h \in Hosts, Ban(h) PROVE StageInv'
  BY <1>10 DEF Ban
<1>11. ASSUME NEW g \in 1..current, Cleanup(g) PROVE StageInv'
  BY <1>11 DEF Cleanup
<1>12. CASE UpdateLimits
  BY <1>12 DEF UpdateLimits
<1>13. CASE Tick
  BY <1>13 DEF Tick
<1>14. CASE UNCHANGED vars
  BY <1>14 DEF vars
<1> QED
  BY <1>1, <1>2, <1>3, <1>4, <1>5, <1>6, <1>7, <1>8, <1>9, <1>10, <1>11,
     <1>12, <1>13, <1>14 DEF Next, Traffic, Administration

\* Every step keeps every limiter's counts within its limits.
LEMMA CountsStep == TypeOK /\ StageInv /\ CountsInv /\ [Next]_vars => CountsInv'
<1> SUFFICES ASSUME TypeOK, StageInv, CountsInv, [Next]_vars PROVE CountsInv'
  OBVIOUS
<1>a. /\ current \in Limiters /\ totalConns \in [Limiters -> Nat]
      /\ connections \in [Limiters -> [Hosts -> Nat]]
      /\ \A g \in Limiters : limits[g].total \in Nat /\ limits[g].perIP \in Nat
      /\ current \in Int /\ \A g \in Limiters : g \in Int
  BY LimitsAssumption DEF TypeOK, Limiters
<1> USE <1>a, ConnsAssumption DEF CountsInv, limiterVars
<1>b. ASSUME NEW g \in Limiters, NEW h \in Hosts, Release(g, h),
             UNCHANGED <<current, limits>>
      PROVE  CountsInv'
  <2>1. ASSUME NEW k \in Limiters
        PROVE  /\ totalConns'[k] \in Nat /\ totalConns'[k] <= totalConns[k]
               /\ \A i \in Hosts : /\ connections'[k][i] \in Nat
                                    /\ connections'[k][i] <= connections[k][i]
    BY <1>b, Releases
  <2>2. ASSUME NEW k \in Limiters
        PROVE  /\ totalConns'[k] <= limits[k].total
               /\ k > current => totalConns'[k] = 0
    <3>1. /\ totalConns[k] \in Nat /\ totalConns'[k] \in Nat
          /\ totalConns'[k] <= totalConns[k] /\ limits[k].total \in Nat
          /\ totalConns[k] <= limits[k].total
          /\ k > current => totalConns[k] = 0
      BY <2>1
    <3> HIDE <1>a DEF CountsInv
    <3> QED
      BY <3>1
  <2>3. ASSUME NEW k \in Limiters, NEW i \in Hosts
        PROVE  /\ connections'[k][i] <= limits[k].perIP
               /\ k > current => connections'[k][i] = 0
    <3>1. /\ connections[k][i] \in Nat /\ connections'[k][i] \in Nat
          /\ connections'[k][i] <= connections[k][i]
          /\ connections[k][i] <= limits[k].perIP /\ limits[k].perIP \in Nat
          /\ k > current => connections[k][i] = 0
      BY <2>1
    <3> HIDE <1>a DEF CountsInv
    <3> QED
      BY <3>1
  <2> QED
    BY <1>b, <2>2, <2>3
<1>1. ASSUME NEW c \in Conns, Accept(c) PROVE CountsInv'
  <2>1. HostOf[c] \in Hosts
    OBVIOUS
  <2>2. \A g \in Limiters : /\ totalConns'[g] <= limits[g].total
                            /\ g > current => totalConns'[g] = 0
    BY <1>1, <2>1 DEF Accept, Full
  <2>3. \A g \in Limiters, h \in Hosts :
          /\ connections'[g][h] <= limits[g].perIP
          /\ g > current => connections'[g][h] = 0
    BY <1>1, <2>1 DEF Accept, Full
  <2> QED
    BY <1>1, <2>2, <2>3 DEF Accept
<1>2. ASSUME NEW c \in Conns, Refuse(c) PROVE CountsInv'
  BY <1>2 DEF Refuse
<1>3. ASSUME NEW c \in Conns,
             DeferRelease(c) \/ TcpOpens(c) \/ CloseBegins(c)
      PROVE  CountsInv'
  BY <1>3 DEF DeferRelease, TcpOpens, CloseBegins
<1>4. ASSUME NEW c \in Conns, HttpReturns(c) PROVE CountsInv'
  <2>1. deferred[c] \in Limiters
    BY <1>4, LimitsAssumption DEF HttpReturns, StageInv, Limiters
  <2> QED
    BY <1>4, <2>1, <1>b DEF HttpReturns
<1>5. ASSUME NEW c \in Conns, TcpThrottled(c) PROVE CountsInv'
  BY <1>5, <1>b DEF TcpThrottled
<1>6. ASSUME NEW c \in Conns, CloseReleases(c) PROVE CountsInv'
  BY <1>6, <1>b DEF CloseReleases
<1>7. ASSUME NEW h \in Hosts, Unban(h) \/ Ban(h) PROVE CountsInv'
  BY <1>7 DEF Unban, Ban
<1>8. ASSUME NEW g \in 1..current, Cleanup(g) PROVE CountsInv'
  BY <1>8 DEF Cleanup
<1>9. CASE UpdateLimits
  <2>1. PICK new \in Limits : limits' = [limits EXCEPT ![current + 1] = new]
    BY <1>9 DEF UpdateLimits
  <2>2. new.total \in Nat /\ new.perIP \in Nat
    BY LimitsAssumption
  <2>3. UNCHANGED <<connections, totalConns>> /\ current' = current + 1
    BY <1>9 DEF UpdateLimits
  <2>4. ASSUME NEW g \in Limiters
        PROVE  limits'[g] = IF g = current + 1 THEN new ELSE limits[g]
    BY <2>1 DEF TypeOK
  <2>5. ASSUME NEW g \in Limiters
        PROVE  /\ totalConns[g] <= limits'[g].total
               /\ \A h \in Hosts : connections[g][h] <= limits'[g].perIP
    <3>1. CASE g = current + 1
      BY <2>2, <2>4, <3>1
    <3>2. CASE g # current + 1
      BY <2>4, <3>2
    <3> QED
      BY <3>1, <3>2
  <2>6. \A g \in Limiters : g > current + 1 => g > current
    OBVIOUS
  <2> QED
    BY <2>3, <2>5, <2>6
<1>10. CASE Tick \/ UNCHANGED vars
  BY <1>10 DEF Tick, vars
<1> QED
  BY <1>1, <1>2, <1>3, <1>4, <1>5, <1>6, <1>7, <1>8, <1>9, <1>10
  DEF Next, Traffic, Administration

\* Every step keeps the bans finite and covered: what it adds it counts, and
\* it counts out nothing that it does not drop.
LEMMA BansStep == TypeOK /\ BansInv /\ [Next]_vars => BansInv'
<1> SUFFICES ASSUME TypeOK, BansInv, [Next]_vars PROVE BansInv'
  OBVIOUS
<1>a. /\ IsFiniteSet(Bans) /\ Cardinality(Bans) \in Nat
      /\ Cardinality(Bans) <= bannedGauge /\ bannedGauge \in Int
  BY FS_CardinalityType DEF BansInv, TypeOK
<1>b. ASSUME UNCHANGED <<bannedUntil, bannedGauge>> PROVE BansInv'
  <2>1. Bans' = Bans
    BY <1>b DEF Bans
  <2> QED
    BY <1>b, <2>1 DEF BansInv
<1>c. ASSUME NEW h \in Hosts,
             bannedUntil' = [bannedUntil EXCEPT ![current][h] = 0]
      PROVE  IsFiniteSet(Bans') /\ Cardinality(Bans') <= Cardinality(Bans)
  <2>1. IsFiniteSet(Bans')
    BY <1>c, BanDrops
  <2>2. \/ Cardinality(Bans') = Cardinality(Bans) - 1
        \/ Cardinality(Bans') = Cardinality(Bans)
    BY <1>c, BanDrops
  <2> QED
    BY <1>a, <2>1, <2>2
<1>1. ASSUME NEW c \in Conns, Accept(c) PROVE BansInv'
  <2>1. IsFiniteSet(Bans') /\ Cardinality(Bans') <= Cardinality(Bans)
    <3>1. /\ HostOf[c] \in Hosts
          /\ bannedUntil' = [bannedUntil EXCEPT ![current][HostOf[c]] = 0]
      BY <1>1, ConnsAssumption DEF Accept
    <3> QED
      BY <1>c, <3>1
  <2>2. Cardinality(Bans') \in Nat /\ bannedGauge' = bannedGauge
    BY <1>1, <2>1, FS_CardinalityType DEF Accept
  <2> QED
    BY <1>a, <2>1, <2>2 DEF BansInv
<1>2. ASSUME NEW c \in Conns, Refuse(c) PROVE BansInv'
  <2>1. HostOf[c] \in Hosts
    BY ConnsAssumption
  <2>2. CASE Violations(HostOf[c]) + 1 >= BanThreshold
    <3>1. /\ bannedUntil' = [bannedUntil EXCEPT ![current][HostOf[c]] =
                               now + BanDuration]
          /\ bannedGauge' = bannedGauge + 1
      BY <1>2, <2>2 DEF Refuse, RecordViolation
    <3>2. IsFiniteSet(Bans') /\ Cardinality(Bans') <= Cardinality(Bans) + 1
      BY <2>1, <3>1, BanAdds, ViolationTypes
    <3> QED
      BY <1>a, <3>1, <3>2, FS_CardinalityType DEF BansInv
  <2>3. CASE ~(Violations(HostOf[c]) + 1 >= BanThreshold)
    <3>1. /\ bannedUntil' = [bannedUntil EXCEPT ![current][HostOf[c]] = 0]
          /\ bannedGauge' = bannedGauge
      BY <1>2, <2>3 DEF Refuse, RecordViolation
    <3>2. IsFiniteSet(Bans') /\ Cardinality(Bans') <= Cardinality(Bans)
      BY <1>c, <2>1, <3>1
    <3> QED
      BY <1>a, <3>1, <3>2, FS_CardinalityType DEF BansInv
  <2> QED
    BY <2>2, <2>3
<1>3. ASSUME NEW c \in Conns,
             DeferRelease(c) \/ HttpReturns(c) \/ TcpOpens(c) \/ TcpThrottled(c)
               \/ CloseBegins(c) \/ CloseReleases(c)
      PROVE  BansInv'
  BY <1>3, <1>b DEF DeferRelease, HttpReturns, TcpOpens, TcpThrottled,
     CloseBegins, CloseReleases, limiterVars, gaugeVars
<1>4. ASSUME NEW h \in Hosts, Unban(h) PROVE BansInv'
  <2>1. IsFiniteSet(Bans') /\ Cardinality(Bans') = Cardinality(Bans) - 1
    BY <1>4, <1>a, BanDrops DEF Unban
  <2>2. bannedGauge' = bannedGauge - 1
    BY <1>4 DEF Unban
  <2> QED
    BY <1>a, <2>1, <2>2 DEF BansInv
<1>5. ASSUME NEW h \in Hosts, Ban(h) PROVE BansInv'
  <2>1. IsFiniteSet(Bans') /\ Cardinality(Bans') <= Cardinality(Bans) + 1
    BY <1>5, BanAdds, ViolationTypes DEF Ban
  <2>2. bannedGauge' = bannedGauge + 1 /\ Cardinality(Bans') \in Nat
    BY <1>5, <2>1, FS_CardinalityType DEF Ban
  <2> QED
    BY <1>a, <2>1, <2>2 DEF BansInv
<1>6. ASSUME NEW g \in 1..current, Cleanup(g) PROVE BansInv'
  <2>1. g \in Limiters
    BY LimitsAssumption DEF Limiters, TypeOK
  <2>2. /\ IsFiniteSet(Bans') /\ Cardinality(Expired(g)) \in Nat
        /\ Cardinality(Bans') = Cardinality(Bans) - Cardinality(Expired(g))
    BY <1>6, <2>1, CleanupDrops
  <2>3. bannedGauge' = bannedGauge - Cardinality(Expired(g))
    BY <1>6 DEF Cleanup
  <2> QED
    BY <1>a, <2>2, <2>3 DEF BansInv
<1>7. CASE UpdateLimits \/ Tick \/ UNCHANGED vars
  BY <1>7, <1>b DEF UpdateLimits, Tick, vars, limiterVars, gaugeVars
<1> QED
  BY <1>1, <1>2, <1>3, <1>4, <1>5, <1>6, <1>7 DEF Next, Traffic, Administration

\* The account of the connections that are in against the present limiter.
Account == TotalInv /\ HostInv /\ GaugeInv

\* The present limiter is one of those made so far, with limits, ...
LEMMA Present ==
  ASSUME TypeOK
  PROVE  /\ current \in Nat \ {0} /\ current \in Limiters
         /\ limits[current].total \in Nat /\ limits[current].perIP \in Nat
BY LimitsAssumption DEF TypeOK, Limiters

\* ... and how many connections were in when it was made is a number.
LEMMA OlderIsNat ==
  ASSUME TypeOK
  PROVE  Older \in Nat /\ \A h : OlderFrom(h) \in Nat
<1>1. IsFiniteSet(before)
  BY ConnsAssumption, FS_Subset DEF TypeOK
<1>2. \A h : IsFiniteSet(BeforeFrom(h))
  BY <1>1, FS_Subset DEF BeforeFrom
<1> QED
  BY <1>1, <1>2, FS_CardinalityType DEF Older, OlderFrom

\* A release of limiter g by a connection that goes out, or of the present
\* limiter by one that was out, which extra counts, keeps the account.
LEMMA ReleaseKeeps ==
  ASSUME TypeOK, Account, TypeOK', NEW c \in Conns, NEW g \in Limiters,
         current = 1 => g = 1, UNCHANGED present,
         Release(g, HostOf[c]),
         NEW point \in {"out", "closing"}, Goto(c, point),
         extra' = IF c \in In THEN extra ELSE extra + 1
  PROVE  Account'
<1>1. /\ current \in Nat \ {0}
      /\ current \in Limiters /\ extra \in Nat /\ activeGauge \in Nat
      /\ totalConns \in [Limiters -> Nat] /\ totalConns' \in [Limiters -> Nat]
      /\ HostOf[c] \in Hosts /\ Older \in Nat /\ Older' = Older
      /\ \A h : OlderFrom(h) \in Nat /\ OlderFrom(h)' = OlderFrom(h)
  BY Present, OlderIsNat, ConnsAssumption DEF TypeOK, Older, OlderFrom, BeforeFrom
<1>2. /\ connections \in [Limiters -> [Hosts -> Nat]]
      /\ connections' \in [Limiters -> [Hosts -> Nat]]
  BY DEF TypeOK
<1>3. totalConns'[current] >= totalConns[current] - 1
  BY <1>1, Releases
<1>4. /\ connections'[current][HostOf[c]] >= connections[current][HostOf[c]] - 1
      /\ \A i \in Hosts \ {HostOf[c]} :
           connections'[current][i] = connections[current][i]
  BY <1>1, Releases
<1>5. current = 1 =>
        /\ totalConns'[1] = IF totalConns[1] > 0 THEN totalConns[1] - 1 ELSE 0
        /\ activeGauge' = IF totalConns[1] > 0 THEN totalConns[1] - 1
                                               ELSE activeGauge
  BY <1>1, Releases DEF Release
<1>6. CASE c \in In
  <2>1. /\ Cardinality(In) \in Nat \ {0}
        /\ Cardinality(In)' = Cardinality(In) - 1
        /\ \A h : Cardinality(InFrom(h))' =
             IF h = HostOf[c] THEN Cardinality(InFrom(h)) - 1
                              ELSE Cardinality(InFrom(h))
    BY <1>6, Leaves
  <2>2. TotalInv'
    BY <1>1, <1>3, <1>6, <2>1 DEF Account, TotalInv
  <2>3. HostInv'
    <3> SUFFICES ASSUME NEW h \in Hosts
                 PROVE  Cardinality(InFrom(h))' <=
                   OlderFrom(h) + connections'[current][h] + extra
      BY <1>1, <1>6 DEF HostInv
    <3>1. /\ Cardinality(InFrom(h)) \in Nat
          /\ connections[current][h] \in Nat /\ connections'[current][h] \in Nat
          /\ Cardinality(InFrom(h)) <=
               OlderFrom(h) + connections[current][h] + extra
      BY <1>1, <1>2, InFinite DEF Account, HostInv
    <3>2. CASE h = HostOf[c]
      BY <1>1, <1>4, <2>1, <3>1, <3>2
    <3>3. CASE h # HostOf[c]
      BY <1>1, <1>4, <2>1, <3>1, <3>3
    <3> QED
      BY <3>2, <3>3
  <2>4. GaugeInv'
    BY <1>1, <1>5, <1>6, <2>1 DEF Account, GaugeInv
  <2> QED
    BY <2>2, <2>3, <2>4 DEF Account
<1>7. CASE c \notin In
  <2>1. /\ Cardinality(In) \in Nat
        /\ Cardinality(In)' = Cardinality(In)
        /\ \A h : Cardinality(InFrom(h))' = Cardinality(InFrom(h))
    BY <1>7, Stays, InFinite
  <2>2. TotalInv'
    BY <1>1, <1>3, <1>7, <2>1 DEF Account, TotalInv
  <2>3. HostInv'
    <3> SUFFICES ASSUME NEW h \in Hosts
                 PROVE  Cardinality(InFrom(h))' <=
                   OlderFrom(h) + connections'[current][h] + (extra + 1)
      BY <1>1, <1>7 DEF HostInv
    <3>1. /\ Cardinality(InFrom(h)) \in Nat
          /\ connections[current][h] \in Nat /\ connections'[current][h] \in Nat
          /\ Cardinality(InFrom(h)) <=
               OlderFrom(h) + connections[current][h] + extra
      BY <1>1, <1>2, InFinite DEF Account, HostInv
    <3>2. CASE h = HostOf[c]
      BY <1>1, <1>4, <2>1, <3>1, <3>2
    <3>3. CASE h # HostOf[c]
      BY <1>1, <1>4, <2>1, <3>1, <3>3
    <3> QED
      BY <3>2, <3>3
  <2>4. GaugeInv'
    BY <1>1, <1>5, <1>7, <2>1 DEF Account, GaugeInv
  <2> QED
    BY <2>2, <2>3, <2>4 DEF Account
<1> QED
  BY <1>6, <1>7

\* Every step keeps the account.
LEMMA AccountStep ==
  ASSUME TypeOK, StageInv, CountsInv, Account, TypeOK', [Next]_vars
  PROVE  Account'
<1>a. /\ current \in Nat \ {0}
      /\ current \in Limiters /\ extra \in Nat /\ activeGauge \in Nat
      /\ totalConns \in [Limiters -> Nat] /\ HostOf \in [Conns -> Hosts]
      /\ connections \in [Limiters -> [Hosts -> Nat]]
  BY Present, ConnsAssumption DEF TypeOK
<1>b. /\ Cardinality(In) \in Nat
      /\ \A h : Cardinality(InFrom(h)) \in Nat
      /\ Older \in Nat /\ \A h : OlderFrom(h) \in Nat
  BY InFinite, OlderIsNat
<1>c. ASSUME UNCHANGED <<present, connections, totalConns, activeGauge, extra>>,
             Cardinality(In)' = Cardinality(In),
             \A h : Cardinality(InFrom(h))' = Cardinality(InFrom(h))
      PROVE  Account'
  BY <1>c DEF Account, TotalInv, HostInv, GaugeInv, Older, OlderFrom, BeforeFrom
<1>d. ASSUME UNCHANGED <<present, connections, totalConns, activeGauge, extra, pc>>
      PROVE  Account'
  BY <1>c, <1>d DEF In, InFrom
<1>1. ASSUME NEW c \in Conns, Accept(c) PROVE Account'
  <2>1. /\ Cardinality(In)' = Cardinality(In) + 1
        /\ \A h : Cardinality(InFrom(h))' =
             IF h = HostOf[c] THEN Cardinality(InFrom(h)) + 1
                              ELSE Cardinality(InFrom(h))
    BY <1>1, Enters DEF Accept, In
  <2>2. /\ totalConns' = [totalConns EXCEPT ![current] = @ + 1]
        /\ activeGauge' = totalConns[current] + 1
        /\ current' = current /\ extra' = extra /\ HostOf[c] \in Hosts
        /\ Older' = Older /\ \A h : OlderFrom(h)' = OlderFrom(h)
    BY <1>1, <1>a DEF Accept, Older, OlderFrom, BeforeFrom
  <2>3. /\ connections'[current][HostOf[c]] = connections[current][HostOf[c]] + 1
        /\ \A h \in Hosts \ {HostOf[c]} :
             connections'[current][h] = connections[current][h]
    BY <1>1, <1>a DEF Accept
  <2>4. TotalInv'
    BY <1>a, <1>b, <2>1, <2>2 DEF Account, TotalInv
  <2>5. HostInv'
    <3> SUFFICES ASSUME NEW h \in Hosts
                 PROVE  Cardinality(InFrom(h))' <=
                   OlderFrom(h) + connections'[current][h] + extra
      BY <2>2 DEF HostInv
    <3>1. /\ Cardinality(InFrom(h)) \in Nat /\ connections[current][h] \in Nat
          /\ Cardinality(InFrom(h)) <=
               OlderFrom(h) + connections[current][h] + extra
      BY <1>a, <1>b DEF Account, HostInv
    <3>2. CASE h = HostOf[c]
      BY <1>a, <1>b, <2>1, <2>3, <3>1, <3>2
    <3>3. CASE h # HostOf[c]
      BY <1>a, <1>b, <2>1, <2>3, <3>1, <3>3
    <3> QED
      BY <3>2, <3>3
  <2>6. GaugeInv'
    BY <1>a, <1>b, <2>1, <2>2 DEF Account, GaugeInv
  <2> QED
    BY <2>4, <2>5, <2>6 DEF Account
<1>2. ASSUME NEW c \in Conns, Refuse(c) PROVE Account'
  BY <1>2, <1>d DEF Refuse
<1>3. ASSUME NEW c \in Conns, DeferRelease(c) \/ TcpOpens(c) PROVE Account'
  <2>1. c \in In /\ Goto(c, "open")
    BY <1>3 DEF DeferRelease, TcpOpens, In
  <2>2. UNCHANGED <<present, connections, totalConns, activeGauge, extra>>
    BY <1>3 DEF DeferRelease, TcpOpens, limiterVars, gaugeVars
  <2> QED
    BY <2>1, <2>2, <1>c, Stays
<1>4. ASSUME NEW c \in Conns, HttpReturns(c) PROVE Account'
  <2>1. /\ deferred[c] \in Limiters
        /\ current = 1 => deferred[c] = 1
    BY <1>4, LimitsAssumption DEF HttpReturns, StageInv, Limiters, TypeOK
  <2>2. /\ c \in In /\ Goto(c, "out") /\ extra' = extra /\ UNCHANGED present
        /\ Release(deferred[c], HostOf[c])
    BY <1>4 DEF HttpReturns, Over, In
  <2> QED
    BY <2>1, <2>2, ReleaseKeeps
<1>5. ASSUME NEW c \in Conns, TcpThrottled(c) PROVE Account'
  <2>1. /\ c \in In /\ Goto(c, "out") /\ extra' = extra /\ UNCHANGED present
        /\ Release(current, HostOf[c])
    BY <1>5 DEF TcpThrottled, Over, In
  <2> QED
    BY <1>a, <2>1, ReleaseKeeps
<1>6. ASSUME NEW c \in Conns, CloseBegins(c) PROVE Account'
  BY <1>6, <1>d DEF CloseBegins, limiterVars, gaugeVars
<1>7. ASSUME NEW c \in Conns, CloseReleases(c) PROVE Account'
  <2>1. pc[c] \in {"open", "closing"}
    BY <1>7 DEF CloseReleases, StageInv
  <2>2. c \in In <=> pc[c] # "closing"
    BY <2>1 DEF In
  <2>3. /\ extra' = IF c \in In THEN extra ELSE extra + 1
        /\ UNCHANGED present /\ Release(current, HostOf[c])
    BY <1>7, <2>2 DEF CloseReleases
  <2>4. Goto(c, "out") \/ Goto(c, "closing")
    BY <1>7 DEF CloseReleases
  <2> QED
    BY <1>a, <2>3, <2>4, ReleaseKeeps
<1>8. ASSUME NEW h \in Hosts, Unban(h) \/ Ban(h) PROVE Account'
  BY <1>8, <1>d DEF Unban, Ban
<1>9. ASSUME NEW g \in 1..current, Cleanup(g) PROVE Account'
  BY <1>9, <1>d DEF Cleanup
<1>10. CASE UpdateLimits
  <2>1. In' = In /\ \A h : InFrom(h)' = InFrom(h)
    BY <1>10 DEF UpdateLimits, In, InFrom
  <2>2. /\ current' = current + 1 /\ extra' = extra /\ totalConns' = totalConns
        /\ connections' = connections /\ current + 1 \in Limiters
    BY <1>10, LimitsAssumption DEF UpdateLimits, TypeOK, Limiters
  <2>3. Older' = Cardinality(In) /\ \A h : OlderFrom(h)' = Cardinality(InFrom(h))
    BY <1>10 DEF UpdateLimits, Older, OlderFrom, BeforeFrom, InFrom
  <2>4. TotalInv'
    BY <1>a, <1>b, <2>1, <2>2, <2>3 DEF TotalInv
  <2>5. HostInv'
    <3> SUFFICES ASSUME NEW h \in Hosts
                 PROVE  Cardinality(InFrom(h)) <=
                   Cardinality(InFrom(h)) + connections[current + 1][h] + extra
      BY <2>1, <2>2, <2>3 DEF HostInv
    <3>1. connections[current + 1][h] \in Nat
      BY <1>a, <2>2
    <3> QED
      BY <1>a, <1>b, <3>1
  <2>6. GaugeInv'
    BY <1>a, <2>2 DEF GaugeInv
  <2> QED
    BY <2>4, <2>5, <2>6 DEF Account
<1>11. CASE Tick \/ UNCHANGED vars
  BY <1>11, <1>d DEF Tick, vars, limiterVars, gaugeVars
<1> QED
  BY <1>1, <1>2, <1>3, <1>4, <1>5, <1>6, <1>7, <1>8, <1>9, <1>10, <1>11
  DEF Next, Traffic, Administration

-----------------------------------------------------------------------------
(***************************************************************************)
(* The theorems                                                            *)
(***************************************************************************)

\* A guard without a connection satisfies the invariant.
LEMMA GuardInit == Init => GuardInv
<1> SUFFICES ASSUME Init PROVE GuardInv
  OBVIOUS
<1> USE ConnsAssumption, LimitsAssumption
<1>1. TypeOK
  <2>1. LimiterTypes
    <3>1. 1 \in Limiters /\ 0 \in 0..(BanThreshold - 1)
      BY DEF Limiters
    <3> QED
      BY <3>1 DEF Init, LimiterTypes
  <2>2. ConnTypes
    BY DEF Init, ConnTypes, Points
  <2>3. OtherTypes
    BY DEF Init, OtherTypes
  <2> QED
    BY <2>1, <2>2, <2>3 DEF TypeOK, LimiterTypes, ConnTypes, OtherTypes
<1>2. StageInv /\ CountsInv
  BY DEF Init, StageInv, CountsInv
<1>3. In = {} /\ \A h : InFrom(h) = {}
  BY DEF Init, In, InFrom
<1>4. TotalInv /\ HostInv /\ GaugeInv
  <2>1. 1 \in Limiters
    BY DEF Limiters
  <2>2. Older = 0 /\ \A h : OlderFrom(h) = 0
    <3>1. before = {} /\ \A h : BeforeFrom(h) = {}
      BY DEF Init, BeforeFrom
    <3> QED
      BY <3>1, FS_EmptySet DEF Older, OlderFrom
  <2>3. Cardinality(In) = 0 /\ \A h : Cardinality(InFrom(h)) = 0
    BY <1>3, FS_EmptySet
  <2> QED
    BY <2>1, <2>2, <2>3 DEF Init, TotalInv, HostInv, GaugeInv
<1>5. BansInv
  <2>1. Bans = {}
    BY DEF Init, Bans
  <2> QED
    BY <2>1, FS_EmptySet DEF Init, BansInv
<1> QED
  BY <1>1, <1>2, <1>4, <1>5 DEF GuardInv

\* Every reachable state of the limiters and their connections satisfies the
\* inductive invariant.
THEOREM GuardInvariant == Spec => []GuardInv
<1>1. ASSUME GuardInv, [Next]_vars PROVE GuardInv'
  <2>1. TypeOK /\ StageInv /\ CountsInv /\ Account /\ BansInv
    BY <1>1 DEF GuardInv, Account
  <2>2. TypeOK' /\ StageInv' /\ CountsInv' /\ BansInv'
    BY <1>1, <2>1, TypeStep, StageStep, CountsStep, BansStep
  <2>3. Account'
    BY <1>1, <2>1, <2>2, AccountStep
  <2> QED
    BY <2>2, <2>3 DEF GuardInv, Account
<1> QED
  BY <1>1, GuardInit, PTL DEF Spec

\* No counter of a limiter is ever negative, and violations stay below the
\* threshold that bans.
THEOREM GuardTypes == Spec => []TypeOK
<1>1. GuardInv => TypeOK
  BY DEF GuardInv
<1> QED
  BY <1>1, GuardInvariant, PTL

\* The limits of the present limiter bound the connections beyond those that
\* UpdateLimits found open, for any limits before and after, raised or
\* lowered, any hosts and any connections.
THEOREM LimitsAlwaysHold == Spec => []LimitsHold
<1>1. ASSUME GuardInv PROVE LimitsHold
  <2>1. /\ current \in Limiters /\ extra \in Nat /\ totalConns[current] \in Nat
        /\ \A h \in Hosts : connections[current][h] \in Nat
        /\ limits[current].total \in Nat /\ limits[current].perIP \in Nat
    BY <1>1, Present DEF GuardInv, TypeOK
  <2>2. /\ Older \in Nat /\ \A h : OlderFrom(h) \in Nat
        /\ Cardinality(In) \in Nat /\ \A h : Cardinality(InFrom(h)) \in Nat
    BY <1>1, OlderIsNat, InFinite DEF GuardInv
  <2>3. Cardinality(In) <= Older + limits[current].total + extra
    BY <1>1, <2>1, <2>2 DEF GuardInv, TotalInv, CountsInv
  <2>4. ASSUME NEW h \in Hosts
        PROVE  Cardinality(InFrom(h)) <=
                 OlderFrom(h) + limits[current].perIP + extra
    <3>1. /\ Cardinality(InFrom(h)) <=
               OlderFrom(h) + connections[current][h] + extra
          /\ connections[current][h] <= limits[current].perIP
      BY <1>1, <2>1 DEF GuardInv, HostInv, CountsInv
    <3> QED
      BY <2>1, <2>2, <3>1
  <2> QED
    BY <2>3, <2>4 DEF LimitsHold, Older, OlderFrom
<1> QED
  BY <1>1, GuardInvariant, PTL

\* Until the limiter is replaced or a connection released twice, the gauge of
\* active connections counts those that are in, exactly.
THEOREM ActiveGaugeIsExact == Spec => []ActiveGaugeExact
<1>1. GuardInv => ActiveGaugeExact
  BY DEF GuardInv, GaugeInv, ActiveGaugeExact
<1> QED
  BY <1>1, GuardInvariant, PTL

\* The gauge of banned addresses never misses a ban of any limiter.
THEOREM BannedGaugeCovers == Spec => []BannedGaugeCoversBans
<1>1. ASSUME GuardInv PROVE BannedGaugeCoversBans
  <2>1. Cardinality(Bans) \in Nat /\ Cardinality(Bans) <= bannedGauge
    BY <1>1, FS_CardinalityType DEF GuardInv, BansInv
  <2> QED
    BY <1>1, <2>1 DEF GuardInv, TypeOK, BannedGaugeCoversBans
<1> QED
  BY <1>1, GuardInvariant, PTL
=============================================================================
