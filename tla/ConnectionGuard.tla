-------------------------- MODULE ConnectionGuard ---------------------------
(***************************************************************************)
(* The connection limiter of internal/security/connection_limiter.go and   *)
(* the middleware of internal/middleware/connection.go that drives it for  *)
(* HTTP requests and TCP connections.                                      *)
(*                                                                         *)
(* UpdateLimits replaces the middleware's limiter by a new, empty one with *)
(* other limits while connections are open.  An HTTP request releases the  *)
(* limiter it found when it deferred the release; a TCP connection         *)
(* releases whichever limiter the middleware has when it is closed.        *)
(* Limiters are numbered in the order they are made.  managedConn.Close    *)
(* tests and sets its flag without a lock, so that several calls can pass  *)
(* the test.                                                               *)
(*                                                                         *)
(* The throttle's decision is a free choice here.  The middleware's own    *)
(* IsBanned test refuses only what Accept refuses, and changes nothing: it *)
(* is left out.                                                            *)
(***************************************************************************)
EXTENDS Integers, FiniteSets

CONSTANTS
  Conns,          \* connections and requests, each used again when it is over
  Hosts,          \* client addresses without their port
  HostOf,         \* the host of each connection
  Tcp,            \* the connections that go through TCPMiddleware
  Limits,         \* the pairs of maxPerIP and maxTotal a limiter may be given
  BanThreshold, BanDuration,
  MaxTracked,     \* violation records kept before cleanup drops them all
  MaxClosers,     \* calls of Close on one connection at a time
  MaxRaces,       \* bound on the releases too many that such calls cause
  MaxBans,        \* bound on the bans an administrator sets
  MaxLimiters,    \* bound on UpdateLimits
  MaxTime         \* bound on the clock

ASSUME ConnsAssumption ==
  IsFiniteSet(Conns) /\ HostOf \in [Conns -> Hosts] /\ Tcp \subseteq Conns
ASSUME LimitsAssumption ==
  /\ Limits \subseteq [perIP : Nat, total : Nat]
  /\ BanThreshold \in Nat \ {0} /\ BanDuration \in Nat \ {0}
  /\ MaxTracked \in Nat /\ MaxClosers \in Nat \ {0} /\ MaxRaces \in Nat
  /\ MaxBans \in Nat
  /\ MaxLimiters \in Nat \ {0} /\ MaxTime \in Nat

Limiters == 1..MaxLimiters

VARIABLES
  current,        \* cm.limiter
  limits,         \* the limits of each limiter
  before,         \* history: the connections that were in when the present
                  \* limiter was made
  connections,    \* the maps of each limiter: open connections per host, ...
  totalConns,     \* ... in total, ...
  violations,     \* ... violations per host ...
  bannedUntil,    \* ... and bannedIPs, 0 for a host that is not in it
  pc,             \* where each connection is
  deferred,       \* the limiter an HTTP request will release, 0 for none
  closers,        \* calls of Close that found closed unset and have not set it
  activeGauge,    \* metrics.ActiveConnections
  bannedGauge,    \* metrics.BannedIPs
  extra,          \* history: releases of connections already released
  now

present == <<current, limits, before>>
limiterVars == <<present, connections, totalConns, violations, bannedUntil>>
gaugeVars == <<activeGauge, bannedGauge>>
vars == <<present, connections, totalConns, violations, bannedUntil, pc,
          deferred, closers, activeGauge, bannedGauge, extra, now>>

Init ==
  /\ current = 1
  /\ \E first \in Limits : limits = [g \in Limiters |-> first]
  /\ before = {}
  /\ connections = [g \in Limiters |-> [h \in Hosts |-> 0]]
  /\ totalConns = [g \in Limiters |-> 0]
  /\ violations = [g \in Limiters |-> [h \in Hosts |-> 0]]
  /\ bannedUntil = [g \in Limiters |-> [h \in Hosts |-> 0]]
  /\ pc = [c \in Conns |-> "out"]
  /\ deferred = [c \in Conns |-> 0]
  /\ closers = [c \in Conns |-> 0]
  /\ activeGauge = 0 /\ bannedGauge = 0
  /\ extra = 0 /\ now = 0

-----------------------------------------------------------------------------
\* The connections that are in, of all and of one host.
In == {c \in Conns : pc[c] \in {"accepted", "open"}}
InFrom(h) == {c \in In : HostOf[c] = h}
BeforeFrom(h) == {c \in before : HostOf[c] = h}

Goto(c, point) == pc' = [pc EXCEPT ![c] = point]

HasBan(h) == bannedUntil[current][h] # 0
Banned(h) == now < bannedUntil[current][h]

\* Accept drops a ban that has run out, and the host's violations with it.
Violations(h) == IF HasBan(h) THEN 0 ELSE violations[current][h]

\* A limit is reached.
Full(h) ==
  \/ totalConns[current] >= limits[current].total
  \/ connections[current][h] >= limits[current].perIP

\* Accept: the connection is let in ...
Accept(c) ==
  LET h == HostOf[c] IN
  /\ pc[c] = "out"
  /\ ~Banned(h) /\ ~Full(h)
  /\ bannedUntil' = [bannedUntil EXCEPT ![current][h] = 0]
  /\ violations' = [violations EXCEPT ![current][h] = Violations(h)]
  /\ connections' = [connections EXCEPT ![current][h] = @ + 1]
  /\ totalConns' = [totalConns EXCEPT ![current] = @ + 1]
  /\ activeGauge' = totalConns[current] + 1
  /\ Goto(c, "accepted")
  /\ UNCHANGED <<present, deferred, closers, bannedGauge, extra, now>>

\* Mutant: the ban comes one violation late.
RecordViolation_Late(h) ==
  IF Violations(h) + 1 > BanThreshold
  THEN /\ bannedUntil' =
            [bannedUntil EXCEPT ![current][h] = now + BanDuration]
       /\ violations' = [violations EXCEPT ![current][h] = 0]
       /\ bannedGauge' = bannedGauge + 1
  ELSE /\ bannedUntil' = [bannedUntil EXCEPT ![current][h] = 0]
       /\ violations' = [violations EXCEPT ![current][h] = Violations(h) + 1]
       /\ UNCHANGED bannedGauge

\* recordViolation, after Accept has dropped a ban that has run out.
RecordViolation(h) ==
  IF Violations(h) + 1 >= BanThreshold
  THEN /\ bannedUntil' =
            [bannedUntil EXCEPT ![current][h] = now + BanDuration]
       /\ violations' = [violations EXCEPT ![current][h] = 0]
       /\ bannedGauge' = bannedGauge + 1
  ELSE /\ bannedUntil' = [bannedUntil EXCEPT ![current][h] = 0]
       /\ violations' = [violations EXCEPT ![current][h] = Violations(h) + 1]
       /\ UNCHANGED bannedGauge

\* ... or turned away for the limits.
Refuse(c) ==
  /\ pc[c] = "out"
  /\ ~Banned(HostOf[c]) /\ Full(HostOf[c])
  /\ RecordViolation(HostOf[c])
  /\ UNCHANGED <<present, connections, totalConns, pc, deferred, closers,
                 activeGauge, extra, now>>

\* Release of limiter g.  The counts stop at zero.
Release(g, h) ==
  /\ connections' =
       [connections EXCEPT ![g][h] = IF @ > 0 THEN @ - 1 ELSE 0]
  /\ totalConns' = [totalConns EXCEPT ![g] = IF @ > 0 THEN @ - 1 ELSE 0]
  /\ activeGauge' =
       IF totalConns[g] > 0 THEN totalConns[g] - 1 ELSE activeGauge

Over(c) ==
  /\ Goto(c, "out")
  /\ deferred' = [deferred EXCEPT ![c] = 0]

-----------------------------------------------------------------------------
\* HTTPMiddleware: the deferred call takes the limiter of this moment; then
\* the throttle lets the request through, or the handler returns at once.
DeferRelease(c) ==
  /\ c \notin Tcp /\ pc[c] = "accepted"
  /\ deferred' = [deferred EXCEPT ![c] = current]
  /\ Goto(c, "open")
  /\ UNCHANGED <<limiterVars, closers, gaugeVars, extra, now>>

HttpReturns(c) ==
  /\ c \notin Tcp /\ pc[c] = "open"
  /\ Release(deferred[c], HostOf[c])
  /\ Over(c)
  /\ UNCHANGED <<present, violations, bannedUntil, closers, bannedGauge,
                 extra, now>>

\* TCPMiddleware: the throttle lets the connection through ...
TcpOpens(c) ==
  /\ c \in Tcp /\ pc[c] = "accepted"
  /\ Goto(c, "open")
  /\ UNCHANGED <<limiterVars, deferred, closers, gaugeVars, extra, now>>

\* Mutants: a throttled connection is closed and not released, or released
\* and not closed.
TcpThrottled_Kept(c) ==
  /\ c \in Tcp /\ pc[c] = "accepted"
  /\ Over(c)
  /\ UNCHANGED <<limiterVars, closers, gaugeVars, extra, now>>
TcpThrottled_GoesOn(c) ==
  /\ c \in Tcp /\ pc[c] = "accepted"
  /\ Release(current, HostOf[c])
  /\ Goto(c, "open")
  /\ UNCHANGED <<present, violations, bannedUntil, deferred, closers,
                 bannedGauge, extra, now>>

\* ... or not: it is released and closed.
TcpThrottled(c) ==
  /\ c \in Tcp /\ pc[c] = "accepted"
  /\ Release(current, HostOf[c])
  /\ Over(c)
  /\ UNCHANGED <<present, violations, bannedUntil, closers, bannedGauge,
                 extra, now>>

\* managedConn.Close finds closed unset ...
CloseBegins(c) ==
  /\ c \in Tcp /\ pc[c] = "open" /\ closers[c] < MaxClosers
  /\ closers[c] > 0 => extra + closers[c] <= MaxRaces
  /\ closers' = [closers EXCEPT ![c] = @ + 1]
  /\ UNCHANGED <<limiterVars, pc, deferred, gaugeVars, extra, now>>

\* ... sets it, which ends the connection for every later call, and releases
\* the middleware's limiter.
CloseReleases(c) ==
  /\ c \in Tcp /\ closers[c] > 0
  /\ closers' = [closers EXCEPT ![c] = @ - 1]
  /\ Release(current, HostOf[c])
  /\ extra' = IF pc[c] = "closing" THEN extra + 1 ELSE extra
  /\ Goto(c, IF closers[c] = 1 THEN "out" ELSE "closing")
  /\ UNCHANGED <<present, violations, bannedUntil, deferred, bannedGauge, now>>

-----------------------------------------------------------------------------
\* Administration, and the clock.
UpdateLimits ==
  /\ current < MaxLimiters
  /\ current' = current + 1
  /\ \E new \in Limits : limits' = [limits EXCEPT ![current + 1] = new]
  /\ before' = In
  /\ UNCHANGED <<connections, totalConns, violations, bannedUntil, pc,
                 deferred, closers, gaugeVars, extra, now>>

Ban(h) ==
  /\ bannedUntil' = [bannedUntil EXCEPT ![current][h] = now + BanDuration]
  /\ bannedGauge' = bannedGauge + 1
  /\ UNCHANGED <<present, connections, totalConns, violations, pc, deferred,
                 closers, activeGauge, extra, now>>

\* Mutant: an address that is not banned is counted out too.
Unban_Always(h) ==
  /\ bannedUntil' = [bannedUntil EXCEPT ![current][h] = 0]
  /\ violations' = [violations EXCEPT ![current][h] = 0]
  /\ bannedGauge' = bannedGauge - 1
  /\ UNCHANGED <<present, connections, totalConns, pc, deferred, closers,
                 activeGauge, extra, now>>

Unban(h) ==
  /\ HasBan(h)
  /\ bannedUntil' = [bannedUntil EXCEPT ![current][h] = 0]
  /\ violations' = [violations EXCEPT ![current][h] = 0]
  /\ bannedGauge' = bannedGauge - 1
  /\ UNCHANGED <<present, connections, totalConns, pc, deferred, closers,
                 activeGauge, extra, now>>

\* cleanup of limiter g; a replaced limiter still has its goroutine.
Expired(g) == {h \in Hosts : bannedUntil[g][h] # 0 /\ now > bannedUntil[g][h]}
Tracked(g) == {h \in Hosts : violations[g][h] > 0}
Cleanup(g) ==
  /\ bannedUntil' =
       [bannedUntil EXCEPT ![g] =
          [h \in Hosts |-> IF h \in Expired(g) THEN 0 ELSE @[h]]]
  /\ bannedGauge' = bannedGauge - Cardinality(Expired(g))
  /\ violations' = IF Cardinality(Tracked(g)) > MaxTracked
                   THEN [violations EXCEPT ![g] = [h \in Hosts |-> 0]]
                   ELSE violations
  /\ UNCHANGED <<present, connections, totalConns, pc, deferred, closers,
                 activeGauge, extra, now>>

Tick ==
  /\ now < MaxTime
  /\ now' = now + 1
  /\ UNCHANGED <<limiterVars, pc, deferred, closers, gaugeVars, extra>>

Traffic(c) ==
  \/ Accept(c) \/ Refuse(c) \/ DeferRelease(c) \/ HttpReturns(c)
  \/ TcpOpens(c) \/ TcpThrottled(c) \/ CloseBegins(c) \/ CloseReleases(c)

Administration ==
  \/ \E h \in Hosts : Unban(h) \/ (bannedGauge < MaxBans /\ Ban(h))
  \/ \E g \in 1..current : Cleanup(g)
  \/ UpdateLimits

Next == (\E c \in Conns : Traffic(c)) \/ Administration \/ Tick

Spec == Init /\ [][Next]_vars

-----------------------------------------------------------------------------
(***************************************************************************)
(* Properties                                                              *)
(***************************************************************************)
Points == {"out", "accepted", "open", "closing"}

\* Every variable has its type; no counter of a limiter is negative.
TypeOK ==
  /\ current \in Limiters
  /\ limits \in [Limiters -> Limits] /\ before \subseteq Conns
  /\ connections \in [Limiters -> [Hosts -> Nat]]
  /\ totalConns \in [Limiters -> Nat]
  /\ violations \in [Limiters -> [Hosts -> 0..(BanThreshold - 1)]]
  /\ bannedUntil \in [Limiters -> [Hosts -> Nat]]
  /\ pc \in [Conns -> Points]
  /\ deferred \in [Conns -> Limiters \cup {0}]
  /\ closers \in [Conns -> 0..MaxClosers]
  /\ activeGauge \in Nat /\ bannedGauge \in Int
  /\ extra \in Nat /\ now \in Nat

\* The limits of the present limiter bound the connections it lets in,
\* whichever way they came and whatever was refused, throttled or closed
\* before.  UpdateLimits forgets the connections that are open: there may be
\* that many more than the new limits, lowered or raised, allow, and never
\* more, although the releases that follow go to the wrong limiter.  A race
\* of two calls of Close costs one connection.
LimitsHold ==
  /\ Cardinality(In) <= Cardinality(before) + limits[current].total + extra
  /\ \A h \in Hosts :
       Cardinality(InFrom(h)) <=
         Cardinality(BeforeFrom(h)) + limits[current].perIP + extra

\* "Current number of active connections": the gauge, which every Accept and
\* Release sets from its limiter's own count, is right until the limiter is
\* replaced or a connection released twice.
ActiveGaugeExact ==
  current = 1 /\ extra = 0 => activeGauge = Cardinality(In)

\* The bans of all limiters.
Bans == {b \in Limiters \X Hosts : bannedUntil[b[1]][b[2]] # 0}

\* "Current number of banned IP addresses": the gauge never misses a ban of
\* any limiter.  It may read high: Ban counts a host again that is banned, and
\* Accept drops an expired ban without counting it out.
BannedGaugeCoversBans == bannedGauge >= Cardinality(Bans)
=============================================================================
