-------------------------- MODULE HealthCheckProofs -------------------------
(***************************************************************************)
(* Proofs about HealthCheck: how old an answer may be, for any number of   *)
(* requests and any times, and that the scores and their verdicts agree,   *)
(* for whatever the network says.                                          *)
(***************************************************************************)
EXTENDS HealthCheck, FiniteSetTheorems, TLAPS

Results == [lastChecked : Nat, oldest : Nat]
Entries == [health : Results, stored : Nat]
Jobs == [pc : {"idle", "decide", "checking", "checked"},
         kind : {"check", "refresh"}, arrived : Nat, seen : SUBSET Entries,
         result : Results]
Given == [kind : {"check", "refresh"}, arrived : Nat, result : Results]

\* The variables of the requests have their types.
Typed ==
  /\ now \in Nat /\ cache \in SUBSET Entries /\ answer \in SUBSET Given
  /\ req \in [Requests -> Jobs]

\* An entry of the cache was stored at most the duration of a refresh after
\* that refresh began, and its readings were made in between.
EntryInv(e) ==
  /\ e.health.lastChecked <= e.health.oldest
  /\ e.stored - e.health.lastChecked <= Duration

\* A refresh that runs has not outlasted its timeouts; one that was forced
\* began after it was asked for, and never looks at the cache.
RequestInv(q) ==
  /\ \A e \in q.seen : EntryInv(e)
  /\ q.pc \in {"checking", "checked"} =>
       /\ q.result.lastChecked <= now
       /\ now - q.result.lastChecked <= Duration
       /\ q.kind = "refresh" => q.arrived <= q.result.lastChecked
  /\ q.pc = "checked" => q.result.lastChecked <= q.result.oldest
  /\ q.pc = "decide" => q.kind = "check"

HealthInv ==
  /\ Typed
  /\ \A e \in cache : EntryInv(e)
  /\ \A r \in Requests : RequestInv(req[r])
  /\ FreshEnough /\ ForcedRefreshIsFresh

-----------------------------------------------------------------------------
\* The idle request, and a request that starts its refresh.
LEMMA IdleJob == Idle \in Jobs /\ RequestInv(Idle)
BY HealthAssumption
DEF Idle, NoResult, Jobs, Results, Entries, RequestInv, EntryInv

\* A job that has begun.
LEMMA StartedJob ==
  ASSUME NEW q \in Jobs, now \in Nat, q.kind = "refresh" => q.arrived <= now
  PROVE  Started(q) \in Jobs /\ RequestInv(Started(q))
<1> DEFINE s == Started(q)
<1>1. q.result \in Results /\ q.kind \in {"check", "refresh"} /\ q.arrived \in Nat
  BY DEF Jobs
<1>2. s = [q EXCEPT !.pc = "checking", !.seen = {},
                    !.result = [q.result EXCEPT !.lastChecked = now]]
  BY DEF Started
<1>3. [q.result EXCEPT !.lastChecked = now] \in Results
  BY <1>1 DEF Results
<1>4. s \in Jobs
  BY <1>2, <1>3 DEF Jobs
<1>5. /\ s.pc = "checking" /\ s.seen = {} /\ s.kind = q.kind
      /\ s.arrived = q.arrived /\ s.result = [q.result EXCEPT !.lastChecked = now]
  BY <1>2 DEF Jobs
<1>6. s.result.lastChecked = now
  BY <1>1, <1>5 DEF Results
<1>7. RequestInv(s)
  <2> HIDE DEF s
  <2> QED
    BY <1>5, <1>6, HealthAssumption DEF RequestInv
<1> QED
  BY <1>4, <1>7

\* A step that only moves one request, to a state that satisfies its part.
LEMMA MovedRequest ==
  ASSUME HealthInv, NEW r \in Requests, NEW q \in Jobs, RequestInv(q),
         Set(r, q), answer' = {}, UNCHANGED <<now, cache>>
  PROVE  HealthInv'
<1>1. Typed'
  BY DEF HealthInv, Typed, Set
<1>2. \A e \in cache' : EntryInv(e)
  BY DEF HealthInv
<1>3. \A o \in Requests : RequestInv(req[o])'
  <2> SUFFICES ASSUME NEW o \in Requests PROVE RequestInv(req[o])'
    OBVIOUS
  <2>1. req'[o] = IF o = r THEN q ELSE req[o]
    BY DEF HealthInv, Typed, Set
  <2>2. RequestInv(req'[o])
    BY <2>1 DEF HealthInv
  <2> QED
    BY <2>2 DEF RequestInv, EntryInv
<1>4. FreshEnough' /\ ForcedRefreshIsFresh'
  BY DEF FreshEnough, ForcedRefreshIsFresh
<1> QED
  BY <1>1, <1>2, <1>3, <1>4 DEF HealthInv, EntryInv

\* A step that answers its request, with a result that is fresh enough.
LEMMA AnsweredRequest ==
  ASSUME HealthInv, NEW r \in Requests, NEW result \in Results,
         Answer(r, result), UNCHANGED now, cache' \in SUBSET Entries,
         \A e \in cache' : EntryInv(e),
         result.lastChecked <= result.oldest,
         now - result.lastChecked < TTL + Duration,
         req[r].kind = "refresh" => req[r].arrived <= result.oldest
  PROVE  HealthInv'
<1> DEFINE a == [kind |-> req[r].kind, arrived |-> req[r].arrived, result |-> result]
<1>1. req[r] \in Jobs /\ a \in Given
  BY DEF HealthInv, Typed, Jobs, Given
<1>2. answer' \subseteq {a}
  BY DEF Answer
<1>3. Typed'
  BY <1>1, <1>2, IdleJob DEF HealthInv, Typed, Answer, Set
<1>4. \A o \in Requests : RequestInv(req[o])'
  <2> SUFFICES ASSUME NEW o \in Requests PROVE RequestInv(req[o])'
    OBVIOUS
  <2>1. req'[o] = IF o = r THEN Idle ELSE req[o]
    BY DEF HealthInv, Typed, Answer, Set
  <2>2. RequestInv(req'[o])
    BY <2>1, IdleJob DEF HealthInv
  <2> QED
    BY <2>2 DEF RequestInv, EntryInv
<1>5. a.result = result /\ a.kind = req[r].kind /\ a.arrived = req[r].arrived
  OBVIOUS
<1>6. FreshEnough' /\ ForcedRefreshIsFresh'
  <2> HIDE DEF a
  <2>1. result.lastChecked \in Nat /\ result.oldest \in Nat /\ req[r].arrived \in Nat
    BY <1>1 DEF Results, Jobs
  <2> QED
    BY <1>2, <1>5, <2>1 DEF FreshEnough, ForcedRefreshIsFresh
<1> QED
  BY <1>3, <1>4, <1>6 DEF HealthInv, EntryInv

\* The steps of the two handlers.
LEMMA HandlerStep ==
  ASSUME HealthInv, NEW r \in Requests,
         RefreshDomainHealth(r) \/ DomainHealth(r) \/ Handler(r)
  PROVE  HealthInv'
<1> DEFINE q == req[r]
<1>t. /\ q \in Jobs /\ RequestInv(q) /\ now \in Nat /\ cache \in SUBSET Entries
      /\ \A e \in cache : EntryInv(e)
  BY DEF HealthInv, Typed
<1>d. TTL \in Nat /\ Duration \in Nat /\ TTL > 0
  BY HealthAssumption
<1>1. CASE RefreshDomainHealth(r)
  <2> DEFINE i == [Idle EXCEPT !.kind = "refresh", !.arrived = now]
  <2>1. i \in Jobs /\ i.arrived = now
    BY <1>t, IdleJob DEF Jobs
  <2>2. Started(i) \in Jobs /\ RequestInv(Started(i))
    <3> HIDE DEF i
    <3>1. i.kind = "refresh" => i.arrived <= now
      BY <1>t, <2>1
    <3> QED
      BY <1>t, <2>1, <3>1, StartedJob
  <2> QED
    BY <1>1, <2>2, MovedRequest DEF RefreshDomainHealth, Silent
<1>2. CASE DomainHealth(r)
  <2> DEFINE i == [Idle EXCEPT !.pc = "decide", !.arrived = now, !.seen = cache]
  <2>1. i \in Jobs
    BY <1>t, IdleJob DEF Jobs
  <2>2. i.pc = "decide" /\ i.seen = cache /\ i.kind = "check"
    BY DEF Idle
  <2>3. RequestInv(i)
    <3> HIDE DEF i
    <3> QED
      BY <1>t, <2>2 DEF RequestInv
  <2> QED
    BY <1>2, <2>1, <2>3, MovedRequest DEF DomainHealth, Silent
<1>3. CASE CheckDomain(r)
  <2>1. ASSUME NEW e \in q.seen, Young(e), Answer(r, e.health)
        PROVE  HealthInv'
    <3>1. e \in Entries /\ EntryInv(e) /\ q.kind = "check"
      BY <1>3, <1>t DEF Jobs, RequestInv, CheckDomain
    <3>2. e.health \in Results /\ e.stored \in Nat
      BY <3>1 DEF Entries
    <3>3. e.health.lastChecked \in Nat
      BY <3>2 DEF Results
    <3>4. now - e.health.lastChecked < TTL + Duration
      BY <1>t, <1>d, <2>1, <3>1, <3>2, <3>3 DEF Young, EntryInv
    <3>5. e.health.lastChecked <= e.health.oldest
      BY <3>1 DEF EntryInv
    <3>6. UNCHANGED <<now, cache>>
      BY <1>3 DEF CheckDomain
    <3> QED
      BY <1>t, <2>1, <3>1, <3>2, <3>4, <3>5, <3>6, AnsweredRequest
  <2>2. CASE Set(r, Started(q)) /\ Silent
    <3>1. q.kind = "check"
      BY <1>3, <1>t DEF RequestInv, CheckDomain
    <3>2. Started(q) \in Jobs /\ RequestInv(Started(q))
      BY <1>t, <3>1, StartedJob
    <3> QED
      BY <1>3, <2>2, <3>2, MovedRequest DEF CheckDomain, Silent
  <2> QED
    BY <1>3, <2>1, <2>2 DEF CheckDomain
<1>4. CASE RunChecks(r)
  <2>1. PICK t \in q.result.lastChecked..now :
          Set(r, [q EXCEPT !.pc = "checked", !.result.oldest = t])
    BY <1>4 DEF RunChecks
  <2>2. q.pc = "checking"
    BY <1>4 DEF RunChecks
  <2>3. q.result \in Results /\ q.result.lastChecked \in Nat
    BY <1>t DEF Jobs, Results
  <2>4. t \in Nat /\ q.result.lastChecked <= t
    BY <1>t, <2>3
  <2> DEFINE new == [q.result EXCEPT !.oldest = t]
             done == [q EXCEPT !.pc = "checked", !.result = new]
  <2>5. /\ new \in Results /\ new.oldest = t
        /\ new.lastChecked = q.result.lastChecked
    BY <2>3, <2>4 DEF Results
  <2>6. done \in Jobs
    BY <1>t, <2>5 DEF Jobs
  <2>7. /\ done.pc = "checked" /\ done.result = new /\ done.kind = q.kind
        /\ done.seen = q.seen /\ done.arrived = q.arrived
    BY <1>t DEF Jobs
  <2>8. RequestInv(done)
    <3> HIDE DEF done, new
    <3> QED
      BY <1>t, <2>2, <2>4, <2>5, <2>7 DEF RequestInv
  <2>9. Set(r, done)
    BY <2>1
  <2> QED
    BY <1>4, <2>6, <2>8, <2>9, MovedRequest DEF RunChecks, Silent
<1>5. CASE RefreshDomain(r)
  <2> DEFINE e == [health |-> q.result, stored |-> now]
  <2>1. q.pc = "checked" /\ cache' = {e} /\ Answer(r, q.result) /\ now' = now
    BY <1>5 DEF RefreshDomain
  <2>2. /\ q.result \in Results /\ q.result.lastChecked \in Nat
        /\ q.result.oldest \in Nat /\ q.arrived \in Nat
    BY <1>t DEF Jobs, Results
  <2>3. /\ now - q.result.lastChecked <= Duration
        /\ q.result.lastChecked <= q.result.oldest
        /\ q.kind = "refresh" => q.arrived <= q.result.lastChecked
    BY <1>t, <2>1 DEF RequestInv
  <2>4. e \in Entries /\ EntryInv(e)
    BY <1>t, <2>2, <2>3 DEF Entries, EntryInv
  <2>5. now - q.result.lastChecked < TTL + Duration
    BY <1>t, <1>d, <2>2, <2>3
  <2>6. q.kind = "refresh" => q.arrived <= q.result.oldest
    BY <2>2, <2>3
  <2>7. cache' \in SUBSET Entries /\ \A f \in cache' : EntryInv(f)
    BY <2>1, <2>4
  <2> QED
    BY <2>1, <2>2, <2>3, <2>5, <2>6, <2>7, AnsweredRequest
<1> QED
  BY <1>1, <1>2, <1>3, <1>4, <1>5 DEF Handler

\* Time passes.
LEMMA TickStep ==
  ASSUME HealthInv, Tick
  PROVE  HealthInv'
<1>1. Typed' /\ now' = now + 1 /\ now \in Nat /\ UNCHANGED <<cache, req>> /\ answer' = {}
  BY DEF HealthInv, Typed, Tick, Silent
<1>2. \A r \in Requests : RequestInv(req[r])'
  <2> SUFFICES ASSUME NEW r \in Requests PROVE RequestInv(req[r])'
    OBVIOUS
  <2>1. req[r] \in Jobs /\ RequestInv(req[r]) /\ req'[r] = req[r]
    BY <1>1 DEF HealthInv, Typed
  <2>2. req[r].result.lastChecked \in Nat
    BY <2>1 DEF Jobs, Results
  <2>3. req[r].pc \in {"checking", "checked"} =>
          now - req[r].result.lastChecked < Duration
    BY DEF Tick
  <2>4. Duration \in Nat
    BY HealthAssumption
  <2> QED
    BY <1>1, <2>1, <2>2, <2>3, <2>4 DEF RequestInv, EntryInv
<1> QED
  BY <1>1, <1>2
  DEF HealthInv, EntryInv, FreshEnough, ForcedRefreshIsFresh

\* Every reachable state of the cache and the requests satisfies the inductive
\* invariant.
THEOREM HealthInvariant == Spec => []HealthInv
<1>1. Init => HealthInv
  BY IdleJob DEF Init, HealthInv, Typed, FreshEnough, ForcedRefreshIsFresh
<1>2. ASSUME HealthInv, [Next]_vars PROVE HealthInv'
  <2>1. CASE UNCHANGED vars
    BY <1>2, <2>1 DEF vars, HealthInv, Typed, EntryInv, RequestInv, FreshEnough,
       ForcedRefreshIsFresh
  <2> QED
    BY <1>2, <2>1, HandlerStep, TickStep DEF Next
<1> QED
  BY <1>1, <1>2, PTL DEF Spec

\* No answer is older than the life of an entry and the time of a refresh
\* together, nor than the "last checked" it shows.
THEOREM AnswersAreFresh == Spec => []FreshEnough
<1>1. HealthInv => FreshEnough
  BY DEF HealthInv
<1> QED
  BY <1>1, HealthInvariant, PTL

\* A forced refresh is answered with readings made after it was asked for.
THEOREM ForcedRefreshesAreFresh == Spec => []ForcedRefreshIsFresh
<1>1. HealthInv => ForcedRefreshIsFresh
  BY DEF HealthInv
<1> QED
  BY <1>1, HealthInvariant, PTL

-----------------------------------------------------------------------------
(***************************************************************************)
(* The scores                                                              *)
(***************************************************************************)

\* How often something occurs in a list.
LEMMA CountNat ==
  ASSUME NEW S, NEW s \in Seq(S), NEW v
  PROVE  Count(s, v) \in Nat
<1>1. DOMAIN s = 1..Len(s) /\ Len(s) \in Nat
  OBVIOUS
<1>2. IsFiniteSet(1..Len(s))
  BY <1>1, FS_Interval
<1>3. IsFiniteSet({i \in DOMAIN s : s[i] = v})
  BY <1>1, <1>2, FS_Subset
<1> QED
  BY <1>3, FS_CardinalityType DEF Count

\* A DMARC record sets two alignment modes at most.
LEMMA CountAtMost2 ==
  ASSUME NEW s \in UNION {[1..n -> {"s", "r", "invalid"}] : n \in 0..2}, NEW v
  PROVE  Count(s, v) \in 0..2
<1>1. PICK n \in 0..2 : s \in [1..n -> {"s", "r", "invalid"}]
  OBVIOUS
<1>2. IsFiniteSet(1..n) /\ Cardinality(1..n) = n
  <2>1. n \in {0, 1, 2} /\ n \in Int /\ 1 \in Int
    OBVIOUS
  <2>2. IsFiniteSet(1..n) /\ Cardinality(1..n) = IF 1 > n THEN 0 ELSE n - 1 + 1
    BY <2>1, FS_Interval, Zenon
  <2> QED
    BY <2>1, <2>2
<1>3. {i \in DOMAIN s : s[i] = v} \in SUBSET (1..n)
  BY <1>1
<1>4. /\ IsFiniteSet({i \in DOMAIN s : s[i] = v})
      /\ Cardinality({i \in DOMAIN s : s[i] = v}) <= n
  BY <1>2, <1>3, FS_Subset
<1>5. Cardinality({i \in DOMAIN s : s[i] = v}) \in Nat
  BY <1>4, FS_CardinalityType
<1> QED
  BY <1>4, <1>5 DEF Count

\* What a verdict must be: its status follows its score.
Agrees(v) ==
  v.score \in Int /\ v.score <= 100 /\ (v.status = "healthy" <=> v.score >= 80)

\* A score that is within bounds and no error agrees with its status.
LEMMA VerdictAgrees ==
  ASSUME NEW score \in Int, score <= 100, NEW error \in BOOLEAN, error => score < 80
  PROVE  Agrees(Verdict(score, error)) /\ Verdict(score, error).score = score
BY DEF Verdict, Agrees

\* So does the score of a check that could not be made.
LEMMA ErrorAgrees == Agrees(Verdict(0, TRUE)) /\ Verdict(0, TRUE).score >= 0
BY DEF Verdict, Agrees

\* The check of the addresses and the MX hosts.
LEMMA DNSAgrees ==
  ASSUME NEW z \in ZoneRecords
  PROVE  Agrees(CheckDNS(z)) /\ CheckDNS(z).score >= 0
<1> DEFINE base == CASE z.host.fails -> 0 [] Resolves(z) -> 100 [] OTHER -> 70
           mx == IF z.mx.fails \/ z.mx.hosts = <<>> THEN 40
                 ELSE 15 * Count(z.mx.hosts, "dead")
           ptr == IF ~Resolves(z) THEN 0
                  ELSE [match |-> 0, other |-> 10, none |-> 20][z.host.ptr]
           error == z.mx.fails \/ (z.host.fails /\ z.mx.hosts # <<>>)
           score == AtLeast0(base - mx - ptr)
<1>1. /\ z.host.fails \in BOOLEAN /\ z.mx.fails \in BOOLEAN
      /\ z.host.ptr \in {"match", "other", "none"} /\ z.host.addresses \in Nat
      /\ z.mx.hosts \in Seq({"good", "dead", "free"})
  BY DEF ZoneRecords
<1>2. Count(z.mx.hosts, "dead") \in Nat
  BY <1>1, CountNat
<1>3. base \in {0, 70, 100} /\ (z.host.fails => base = 0)
  BY <1>1 DEF Resolves
<1>4. mx \in Nat /\ (z.mx.fails => mx = 40)
  BY <1>1, <1>2
<1>5. ptr \in Nat
  BY <1>1
<1>6. score \in 0..100 /\ error \in BOOLEAN /\ (error => score < 80)
  <2> HIDE DEF base, mx, ptr
  <2> QED
    BY <1>1, <1>3, <1>4, <1>5 DEF AtLeast0
<1>7. CheckDNS(z) = Verdict(score, error)
  BY DEF CheckDNS
<1> QED
  <2> HIDE DEF score, error
  <2> QED
    BY <1>6, <1>7, VerdictAgrees

\* The check of the SPF record.
LEMMA SPFAgrees ==
  ASSUME NEW z \in ZoneRecords
  PROVE  Agrees(CheckSPF(z))
<1> DEFINE s == z.spf
           base == IF s.records > 1 THEN 20 ELSE 100
<1>1. /\ s.records \in Nat /\ s.includes \in Seq({"good", "unresolved", "empty"})
      /\ s.all \in {"-all", "~all", "+all", "all", "missing"}
      /\ s.malformed \in Nat /\ s.lookups \in Nat /\ s.long \in BOOLEAN
  BY DEF ZoneRecords
<1>2. Count(s.includes, "unresolved") \in Nat /\ Count(s.includes, "empty") \in Nat
  BY <1>1, CountNat
<1>3. MechanismPenalty(s) \in Nat
  <2> HIDE DEF s
  <2> QED
    BY <1>1, <1>2 DEF MechanismPenalty
<1>4. Len(s.includes) \in Nat
  BY <1>1
<1>5. SPFPenalty(s) \in Nat
  <2> HIDE DEF s
  <2> QED
    <3> DEFINE lookups == Len(s.includes) + s.lookups
                          + (IF s.all = "all" THEN 1 ELSE 0)
               all == CASE s.all = "-all" -> 0 [] s.all = "~all" -> 5
                        [] s.all = "+all" -> 30
                        [] s.all \in {"all", "missing"} -> 20
               many == CASE lookups > 10 -> 25 [] lookups \in 9..10 -> 10
                         [] lookups < 9 -> 0
               long == IF s.long THEN 10 ELSE 0
    <3>1. lookups \in Nat
      BY <1>1, <1>4
    <3>2. all \in Nat
      BY <1>1
    <3>3. many \in Nat
      <4> HIDE DEF lookups
      <4>1. lookups > 10 \/ lookups \in 9..10 \/ lookups < 9
        BY <3>1
      <4> QED
        BY <3>1, <4>1
    <3>4. long \in Nat
      BY <1>1
    <3>5. SPFPenalty(s) = MechanismPenalty(s) + all + many + long
      BY DEF SPFPenalty
    <3> HIDE DEF all, many, long
    <3> QED
      BY <1>3, <3>2, <3>3, <3>4, <3>5
<1>6. CASE s.records = 0
  <2>1. CheckSPF(z) = Verdict(0, TRUE)
    BY <1>6 DEF CheckSPF
  <2> QED
    BY <2>1, ErrorAgrees
<1>7. CASE s.records # 0
  <2> DEFINE score == base - SPFPenalty(s)
             error == s.records > 1
  <2>1. CheckSPF(z) = Verdict(score, error)
    BY <1>7 DEF CheckSPF
  <2>2. score \in Int /\ score <= 100 /\ error \in BOOLEAN /\ (error => score < 80)
    <3> HIDE DEF s
    <3> QED
      BY <1>1, <1>5
  <2> HIDE DEF score, error
  <2> QED
    BY <2>1, <2>2, VerdictAgrees
<1> QED
  BY <1>6, <1>7

\* The check of the DKIM keys.
LEMMA DKIMAgrees ==
  ASSUME NEW z \in ZoneRecords
  PROVE  Agrees(CheckDKIM(z)) /\ CheckDKIM(z).score >= 0
<1>1. z.dkim \in Seq({"good", "tiny", "short", "other", "invalid"})
  BY DEF ZoneRecords
<1>2. /\ Count(z.dkim, "tiny") \in Nat /\ Count(z.dkim, "short") \in Nat
      /\ Count(z.dkim, "other") \in Nat
  BY <1>1, CountNat
<1>3. CASE ValidSelectors(z) = {}
  <2>1. CheckDKIM(z) = Verdict(0, TRUE)
    BY <1>3 DEF CheckDKIM
  <2> QED
    BY <2>1, ErrorAgrees
<1>4. CASE ValidSelectors(z) # {}
  <2> DEFINE sum == 100 - 30 * Count(z.dkim, "tiny")
                        - 10 * (Count(z.dkim, "short") + Count(z.dkim, "other"))
                        + (IF Cardinality(ValidSelectors(z)) > 1 THEN 5 ELSE 0)
  <2>1. CheckDKIM(z) = Verdict(Clamp(sum), FALSE)
    BY <1>4 DEF CheckDKIM
  <2>2. sum \in Int
    BY <1>2
  <2>3. Clamp(sum) \in Int /\ Clamp(sum) >= 0 /\ Clamp(sum) <= 100
    <3> HIDE DEF sum
    <3> QED
      BY <2>2 DEF Clamp, AtLeast0
  <2> HIDE DEF sum
  <2> QED
    BY <2>1, <2>3, VerdictAgrees
<1> QED
  BY <1>3, <1>4

\* Two records leave 20 points, to which the bonuses add 20 at most.
LEMMA DMARCAgrees ==
  ASSUME NEW z \in ZoneRecords
  PROVE  Agrees(CheckDMARC(z))
<1> DEFINE d == z.dmarc
           base == IF d.records > 1 THEN 20 ELSE 100
<1>1. /\ d.records \in Nat /\ d.pct \in Int /\ d.pctInvalid \in BOOLEAN
      /\ d.p \in {"none", "quarantine", "reject", "invalid", "missing"}
      /\ d.sp \in {"none", "strict", "invalid", "missing"}
      /\ d.alignment \in UNION {[1..n -> {"s", "r", "invalid"}] : n \in 0..2}
      /\ d.rua \in BOOLEAN /\ d.badURIs \in Nat /\ d.badOptions \in Nat
  BY DEF ZoneRecords
<1>2. Count(d.alignment, "s") \in 0..2 /\ Count(d.alignment, "invalid") \in 0..2
  BY <1>1, CountAtMost2
<1>3. ReportingPenalty(d) \in Nat
  <2> HIDE DEF d
  <2> QED
    BY <1>1 DEF ReportingPenalty
<1>4. CASE d.records = 0
  <2>1. CheckDMARC(z) = Verdict(0, TRUE)
    BY <1>4 DEF CheckDMARC
  <2> QED
    BY <2>1, ErrorAgrees
<1>5. CASE d.records # 0
  <2>1. base \in {20, 100} /\ (d.records > 1 => base = 20)
    BY <1>1
  <2>2. DMARCScore(base, d) \in Int /\ DMARCScore(base, d) <= 100
        /\ (d.records > 1 => DMARCScore(base, d) < 80)
    <3>1. CASE d.p = "missing"
      <4> HIDE DEF d, base
      <4> QED
        BY <2>1, <3>1 DEF DMARCScore
    <3>2. CASE d.p # "missing"
      <4> DEFINE policy == [none |-> -30, quarantine |-> 0, reject |-> 10,
                            invalid |-> -40][d.p]
                 share == IF d.pct < 100 THEN Quotient(100 - d.pct, 4) ELSE 0
                 invalid == IF d.pctInvalid THEN 10 ELSE 0
                 sub == [none |-> 10, strict |-> 0, invalid |-> 10,
                         missing |-> 5][d.sp]
      <4>1. policy \in Int /\ policy <= 10
        BY <1>1, <3>2
      <4>2. share \in Nat
        <5> HIDE DEF d
        <5> QED
          BY <1>1 DEF Quotient
      <4>3. invalid \in Nat /\ sub \in Nat
        BY <1>1
      <4>4. DMARCSum(base, d) =
              base + policy - share - invalid - sub
              + 5 * (Count(d.alignment, "s") - Count(d.alignment, "invalid"))
              - ReportingPenalty(d)
        BY DEF DMARCSum
      <4>5. DMARCSum(base, d) \in Int /\ DMARCSum(base, d) <= base + 20
        <5> HIDE DEF d, base, policy, share, invalid, sub
        <5> QED
          BY <1>2, <1>3, <2>1, <4>1, <4>2, <4>3, <4>4
      <4>6. DMARCScore(base, d) = Clamp(DMARCSum(base, d))
        BY <3>2 DEF DMARCScore
      <4> HIDE DEF d, base
      <4> QED
        BY <2>1, <4>5, <4>6 DEF Clamp, AtLeast0
    <3> QED
      BY <3>1, <3>2
  <2>3. CheckDMARC(z) = Verdict(DMARCScore(base, d), d.records > 1)
    BY <1>5 DEF CheckDMARC
  <2>4. (d.records > 1) \in BOOLEAN
    BY <1>1
  <2> HIDE DEF d, base
  <2> QED
    BY <2>2, <2>3, <2>4, VerdictAgrees
<1> QED
  BY <1>4, <1>5

\* The check of the certificate.
LEMMA SSLAgrees ==
  ASSUME NEW z \in ZoneRecords
  PROVE  Agrees(CheckSSL(z)) /\ CheckSSL(z).score >= 0
<1> DEFINE c == z.cert
<1>1. /\ c.found \in BOOLEAN /\ c.valid \in BOOLEAN /\ c.days \in Int
      /\ c.matches \in BOOLEAN /\ c.selfSigned \in BOOLEAN
      /\ c.key \in {"ecdsa", "rsa4096", "rsa2048", "rsa1024", "unknown"}
      /\ c.signature \in {"strong", "sha1", "md5"}
  BY DEF ZoneRecords
<1>2. CASE ~c.found \/ ~c.valid
  <2>1. CheckSSL(z) = Verdict(0, TRUE)
    BY <1>2 DEF CheckSSL
  <2> QED
    BY <2>1, ErrorAgrees
<1>3. CASE c.found /\ c.valid
  <2>1. CertificatePenalty(c) \in Nat /\ (c.days < 7 => CertificatePenalty(c) >= 60)
    <3> HIDE DEF c
    <3> QED
      BY <1>1 DEF CertificatePenalty
  <2> DEFINE score == AtLeast0(100 - CertificatePenalty(c))
             error == c.days < 7
  <2>2. CheckSSL(z) = Verdict(score, error)
    BY <1>3 DEF CheckSSL
  <2>3. score \in Int /\ score >= 0 /\ score <= 100 /\ error \in BOOLEAN
        /\ (error => score < 80)
    <3> HIDE DEF c
    <3> QED
      BY <1>1, <2>1 DEF AtLeast0
  <2> HIDE DEF score, error
  <2> QED
    BY <2>2, <2>3, VerdictAgrees
<1> QED
  BY <1>2, <1>3

\* The sixth check is healthy only with every point.
LEMMA DeliverabilityAgrees ==
  ASSUME NEW z \in ZoneRecords
  PROVE  /\ CheckDeliverability(z).score \in 0..100
         /\ CheckDeliverability(z).status = "healthy" =>
              CheckDeliverability(z).score = 100
<1>1. /\ z.mx.fails \in BOOLEAN /\ z.mx.samePriority \in BOOLEAN
      /\ z.mx.hosts \in Seq({"good", "dead", "free"})
      /\ z.name \in Seq({"suspicious", "pattern"})
  BY DEF ZoneRecords
<1>2. /\ Count(z.mx.hosts, "dead") \in Nat /\ Count(z.mx.hosts, "free") \in Nat
      /\ Count(z.name, "suspicious") \in Nat /\ Count(z.name, "pattern") \in Nat
  BY <1>1, CountNat
<1>3. ReputationPenalty(z.name) \in Nat /\ MXPenalty(z.mx) \in Nat
  <2>1. CASE z.mx.fails
    BY <1>1, <1>2, <2>1 DEF ReputationPenalty, MXPenalty
  <2>2. CASE ~z.mx.fails /\ z.mx.hosts = <<>>
    BY <1>1, <1>2, <2>2 DEF ReputationPenalty, MXPenalty
  <2>3. CASE ~z.mx.fails /\ z.mx.hosts # <<>>
    <3>1. MXPenalty(z.mx) = (IF z.mx.samePriority THEN 10 ELSE 0)
            + 20 * Count(z.mx.hosts, "dead") + 5 * Count(z.mx.hosts, "free")
      BY <2>3 DEF MXPenalty
    <3>2. (IF z.mx.samePriority THEN 10 ELSE 0) \in Nat
      BY <1>1
    <3> QED
      BY <1>2, <3>1, <3>2 DEF ReputationPenalty
  <2> QED
    BY <1>1, <2>1, <2>2, <2>3
<1> DEFINE penalty == ReputationPenalty(z.name) + MXPenalty(z.mx)
<1>4. penalty \in Nat
  BY <1>3
<1>5. CASE ~Resolves(z) \/ Blacklisted(z)
  <2>1. CheckDeliverability(z) = [score |-> 0, status |-> "error"]
    BY <1>5 DEF CheckDeliverability
  <2> QED
    BY <2>1
<1>6. CASE Resolves(z) /\ ~Blacklisted(z)
  <2>1. CheckDeliverability(z) =
          [score |-> AtLeast0(100 - penalty),
           status |-> IF penalty > 0 THEN "warning" ELSE "healthy"]
    BY <1>6 DEF CheckDeliverability
  <2> HIDE DEF penalty
  <2> QED
    BY <1>4, <2>1 DEF AtLeast0
<1>7. Resolves(z) \in BOOLEAN /\ Blacklisted(z) \in BOOLEAN
  BY DEF Resolves, Blacklisted
<1> QED
  BY <1>5, <1>6, <1>7

\* The weighted mean of six scores, cut off towards zero and perhaps one short.
LEMMA OverallBounds ==
  ASSUME NEW v, \A c \in Checks : v[c].score \in Int /\ v[c].score <= 100,
         NEW overall \in OverallScores(v)
  PROVE  /\ overall <= 100
         /\ (\A c \in Parallel : v[c].score >= 80) /\ v["deliverability"].score = 100
              => overall >= 80
<1> DEFINE sum == 20 * (v["dns"].score + v["spf"].score + v["dkim"].score)
                  + 15 * (v["dmarc"].score + v["ssl"].score)
                  + 10 * v["deliverability"].score
           mean == Quotient(sum, 100)
<1>1. \A c \in {"dns", "spf", "dkim", "dmarc", "ssl", "deliverability"} :
        v[c].score \in Int /\ v[c].score <= 100
  BY DEF Checks, Parallel
<1>2. sum \in Int /\ sum <= 10000
  BY <1>1
<1>3. (\A c \in Parallel : v[c].score >= 80) /\ v["deliverability"].score = 100
        => sum >= 8200
  BY <1>1 DEF Checks, Parallel
<1>4. overall = mean
        \/ (sum % 100 = 0 /\ sum \notin {0, 10000}
            /\ overall = IF sum > 0 THEN mean - 1 ELSE mean + 1)
  BY DEF OverallScores
<1>5. mean \in Int /\ mean <= 100 /\ (sum < 0 => mean <= 0) /\ (sum >= 8200 => mean >= 82)
  <2> HIDE DEF sum
  <2> QED
    BY <1>2 DEF Quotient
<1> QED
  <2> HIDE DEF sum, mean
  <2> QED
    BY <1>2, <1>3, <1>4, <1>5

\* A report agrees with itself, whatever zone each of its checks saw.
LEMMA ReportAgrees ==
  ASSUME NEW zone \in [Checks -> ZoneRecords], NEW v,
         v = [c \in Checks |-> Check(c, zone[c])],
         NEW overall \in OverallScores(v)
  PROVE  /\ \A c \in Parallel : v[c].status = "healthy" <=> v[c].score >= 80
         /\ v["deliverability"].status = "healthy" => v["deliverability"].score = 100
         /\ (\A c \in Checks : v[c].status = "healthy") => overall >= 80
         /\ overall <= 100
         /\ \A c \in Checks :
              v[c].score <= 100 /\ (c \notin {"spf", "dmarc"} => v[c].score >= 0)
<1>1. /\ v["dns"] = CheckDNS(zone["dns"]) /\ v["spf"] = CheckSPF(zone["spf"])
      /\ v["dkim"] = CheckDKIM(zone["dkim"])
      /\ v["dmarc"] = CheckDMARC(zone["dmarc"])
      /\ v["ssl"] = CheckSSL(zone["ssl"])
      /\ v["deliverability"] = CheckDeliverability(zone["deliverability"])
  BY DEF Checks, Parallel, Check
<1>2. \A c \in Checks : zone[c] \in ZoneRecords
  OBVIOUS
<1>3. /\ Agrees(v["dns"]) /\ Agrees(v["spf"]) /\ Agrees(v["dkim"])
      /\ Agrees(v["dmarc"]) /\ Agrees(v["ssl"])
      /\ v["dns"].score >= 0 /\ v["dkim"].score >= 0 /\ v["ssl"].score >= 0
  BY <1>1, <1>2, DNSAgrees, SPFAgrees, DKIMAgrees, DMARCAgrees, SSLAgrees
  DEF Checks, Parallel
<1>4. /\ v["deliverability"].score \in 0..100
      /\ v["deliverability"].status = "healthy" => v["deliverability"].score = 100
  BY <1>1, <1>2, DeliverabilityAgrees DEF Checks, Parallel
<1>5. \A c \in Parallel : Agrees(v[c])
  BY <1>3 DEF Parallel
<1>6. \A c \in Checks : v[c].score \in Int /\ v[c].score <= 100
  BY <1>4, <1>5 DEF Agrees, Checks
<1>7. /\ overall <= 100
      /\ (\A c \in Parallel : v[c].score >= 80) /\ v["deliverability"].score = 100
           => overall >= 80
  BY <1>6, OverallBounds
<1>8. \A c \in Checks : c \notin {"spf", "dmarc"} => v[c].score >= 0
  BY <1>3, <1>4 DEF Checks, Parallel
<1>9. (\A c \in Checks : v[c].status = "healthy") => overall >= 80
  BY <1>4, <1>5, <1>7 DEF Agrees, Checks
<1> QED
  BY <1>4, <1>5, <1>6, <1>7, <1>8, <1>9 DEF Agrees

\* What the dashboard shows of a result agrees with itself, for every zone and
\* every mixture of zones that the checks of one refresh may see.
THEOREM VerdictsAlwaysAgree == Spec => []VerdictsAgree
<1>1. Init => VerdictsAgree
  BY DEF Init, VerdictsAgree
<1>2. ASSUME VerdictsAgree, [Next]_vars PROVE VerdictsAgree'
  <2>1. ASSUME NEW r \in Requests, RefreshDomain(r) PROVE VerdictsAgree'
    <3>0. PICK z \in Zones : \E zone \in [Checks -> {CleanZone, z}] :
            LET verdicts == [c \in Checks |-> Check(c, zone[c])]
            IN  \E score \in OverallScores(verdicts) :
                  report' = {[verdicts |-> verdicts, overall |-> score]}
      BY <2>1, HealthAssumption DEF RefreshDomain
    <3>1. PICK zone \in [Checks -> {CleanZone, z}] :
            LET verdicts == [c \in Checks |-> Check(c, zone[c])]
            IN  \E score \in OverallScores(verdicts) :
                  report' = {[verdicts |-> verdicts, overall |-> score]}
      BY <3>0
    <3> DEFINE v == [c \in Checks |-> Check(c, zone[c])]
    <3>2. PICK score \in OverallScores(v) :
            report' = {[verdicts |-> v, overall |-> score]}
      BY <3>1
    <3>3. zone \in [Checks -> ZoneRecords]
      BY <3>1, HealthAssumption, ZonesAssumption
    <3> HIDE DEF v
    <3>4. v = [c \in Checks |-> Check(c, zone[c])]
      BY DEF v
    <3>5. \A h \in report' : h.verdicts = v /\ h.overall = score
      BY <3>2
    <3>6. /\ \A c \in Parallel : v[c].status = "healthy" <=> v[c].score >= 80
          /\ v["deliverability"].status = "healthy" => v["deliverability"].score = 100
          /\ (\A c \in Checks : v[c].status = "healthy") => score >= 80
          /\ score <= 100
          /\ \A c \in Checks :
               v[c].score <= 100 /\ (c \notin {"spf", "dmarc"} => v[c].score >= 0)
      BY <3>2, <3>3, <3>4, ReportAgrees
    <3> QED
      BY <3>5, <3>6 DEF VerdictsAgree
  <2>2. CASE report' = {}
    BY <2>2 DEF VerdictsAgree
  <2>3. CASE report' = report
    BY <1>2, <2>3 DEF VerdictsAgree
  <2> QED
    BY <1>2, <2>1, <2>2, <2>3
    DEF Next, Handler, RefreshDomainHealth, DomainHealth, CheckDomain, RunChecks,
        Tick, Silent, vars
<1> QED
  BY <1>1, <1>2, PTL DEF Spec
=============================================================================
