----------------------------- MODULE HealthCheck -----------------------------
(***************************************************************************)
(* The web admin's health checker (src/cmd/webadmin/health): the cache of  *)
(* results, the refresh that runs five checks at once and a sixth after    *)
(* them, the two handlers that ask for a result, and the scores.  One      *)
(* configured domain: the entries of the cache do not meet, and a request  *)
(* for a domain that is not configured is answered 404 and does nothing.   *)
(*                                                                         *)
(* What the network says of the domain (DNS records, blacklists, the       *)
(* certificate on the mail ports) is a zone; it may change at any time, so *)
(* that each check of a refresh may see another one.  The five checks that *)
(* run at once write disjoint fields and read nothing of each other's:     *)
(* they are one step, taken when the last of them is done, and the result  *)
(* keeps the time at which the first of them read.                         *)
(***************************************************************************)
EXTENDS Integers, Sequences, FiniteSets

CONSTANTS
    Requests,       \* the requests that are served at the same time
    Zones,          \* what the network may say of the domain
    CleanZone,      \* the zone with nothing to report
    TTL,            \* how long a result is served from the cache
    Duration,       \* how long the lookups and dials of a refresh may take
    WriteTimeout,   \* how long the server lets a handler take to answer
    MaxTime         \* bound: the last moment of the model

ASSUME HealthAssumption ==
    /\ {TTL, Duration, WriteTimeout, MaxTime} \subseteq Nat
    /\ TTL > 0 /\ CleanZone \in Zones

\* What the checks look at: the addresses of the domain with the PTR record and
\* the blacklists, its mail hosts, its name, its SPF record, the keys of its
\* DKIM selectors, the tags of its DMARC record (at most two of them for the
\* alignment) and the certificate of its mail host.  Out of this model is a pct
\* tag so far below zero that 100 - pct does not fit in 64 bits.
ZoneRecords ==
    [host  : [fails : BOOLEAN, addresses : Nat, ptr : {"match", "other", "none"},
              listed : Nat],
     mx    : [fails : BOOLEAN, hosts : Seq({"good", "dead", "free"}),
              samePriority : BOOLEAN],
     name  : Seq({"suspicious", "pattern"}),
     spf   : [records : Nat, includes : Seq({"good", "unresolved", "empty"}),
              all : {"-all", "~all", "+all", "all", "missing"}, malformed : Nat,
              lookups : Nat, long : BOOLEAN],
     dkim  : Seq({"good", "tiny", "short", "other", "invalid"}),
     dmarc : [records : Nat,
              p : {"none", "quarantine", "reject", "invalid", "missing"},
              pct : Int, pctInvalid : BOOLEAN,
              sp : {"none", "strict", "invalid", "missing"},
              alignment : UNION {[1..n -> {"s", "r", "invalid"}] : n \in 0..2},
              rua : BOOLEAN, badURIs : Nat, badOptions : Nat],
     cert  : [found : BOOLEAN, valid : BOOLEAN, days : Int, matches : BOOLEAN,
              key : {"ecdsa", "rsa4096", "rsa2048", "rsa1024", "unknown"},
              signature : {"strong", "sha1", "md5"}, selfSigned : BOOLEAN]]

ASSUME ZonesAssumption == Zones \subseteq ZoneRecords

VARIABLES
    now,        \* the clock
    cache,      \* the domain's entry, a set of at most one
    req,        \* for each request, where it stands
    answer,     \* what the last step answered, a set of at most one
    report      \* the scores the last step put together, likewise

vars == <<now, cache, req, answer, report>>

Parallel == {"dns", "spf", "dkim", "dmarc", "ssl"}
Checks == Parallel \cup {"deliverability"}

-----------------------------------------------------------------------------
(* The scores: what each check makes of a zone. *)

AtLeast0(n) == IF n < 0 THEN 0 ELSE n
Clamp(n) == IF n > 100 THEN 100 ELSE AtLeast0(n)
Quotient(a, b) == IF a < 0 THEN -((-a) \div b) ELSE a \div b
Count(s, v) == Cardinality({i \in DOMAIN s : s[i] = v})

\* The last lines of five of the six checks: an error stays one, and the
\* score decides between the other two.
Verdict(score, error) ==
    [score  |-> score,
     status |-> CASE error -> "error"
                  [] ~error /\ score >= 80 -> "healthy"
                  [] ~error /\ score < 80 -> "warning"]

\* Whether LookupHost gave the domain an address.
Resolves(z) == ~z.host.fails /\ z.host.addresses > 0

\* A domain without MX records replaces the error of one without an address.
CheckDNS(z) ==
    LET base == CASE z.host.fails -> 0 [] Resolves(z) -> 100 [] OTHER -> 70
        mx   == IF z.mx.fails \/ z.mx.hosts = <<>> THEN 40
                ELSE 15 * Count(z.mx.hosts, "dead")
        ptr  == IF ~Resolves(z) THEN 0
                ELSE [match |-> 0, other |-> 10, none |-> 20][z.host.ptr]
    IN  Verdict(AtLeast0(base - mx - ptr),
                z.mx.fails \/ (z.host.fails /\ z.mx.hosts # <<>>))

\* Included domains that do not resolve or have no SPF record, and addresses
\* and names that are not well formed.
MechanismPenalty(s) ==
    15 * Count(s.includes, "unresolved") + 20 * Count(s.includes, "empty")
    + 10 * s.malformed

\* The mechanism "all" is counted as a lookup too: it begins with an "a".
SPFPenalty(s) ==
    LET lookups == Len(s.includes) + s.lookups + (IF s.all = "all" THEN 1 ELSE 0)
    IN  MechanismPenalty(s)
        + (CASE s.all = "-all" -> 0 [] s.all = "~all" -> 5 [] s.all = "+all" -> 30
             [] s.all \in {"all", "missing"} -> 20)
        + (CASE lookups > 10 -> 25 [] lookups \in 9..10 -> 10 [] lookups < 9 -> 0)
        + (IF s.long THEN 10 ELSE 0)

\* Nothing keeps this score from falling below 0.
CheckSPF(z) ==
    IF z.spf.records = 0 THEN Verdict(0, TRUE)
    ELSE Verdict((IF z.spf.records > 1 THEN 20 ELSE 100) - SPFPenalty(z.spf),
                 z.spf.records > 1)

\* The selectors whose record holds a key that can be read.
ValidSelectors(z) == {i \in DOMAIN z.dkim : z.dkim[i] # "invalid"}

CheckDKIM(z) ==
    LET valid == ValidSelectors(z)
    IN  IF valid = {} THEN Verdict(0, TRUE)
        ELSE Verdict(Clamp(100 - 30 * Count(z.dkim, "tiny")
                               - 10 * (Count(z.dkim, "short") + Count(z.dkim, "other"))
                               + (IF Cardinality(valid) > 1 THEN 5 ELSE 0)), FALSE)

\* Where reports go: no address for them, bad ones, and bad options.
ReportingPenalty(d) ==
    (IF d.rua THEN 0 ELSE 15) + 10 * d.badURIs + 5 * d.badOptions

\* The base score with every bonus and deduction of a record with a policy.
DMARCSum(base, d) ==
    base
    + [none |-> -30, quarantine |-> 0, reject |-> 10, invalid |-> -40][d.p]
    - (IF d.pct < 100 THEN Quotient(100 - d.pct, 4) ELSE 0)
    - (IF d.pctInvalid THEN 10 ELSE 0)
    - [none |-> 10, strict |-> 0, invalid |-> 10, missing |-> 5][d.sp]
    + 5 * (Count(d.alignment, "s") - Count(d.alignment, "invalid"))
    - ReportingPenalty(d)

\* A mutant: the bonuses are not cut off.
DMARCScore_NoLimit(base, d) ==
    IF d.p = "missing" THEN base - 60 ELSE AtLeast0(DMARCSum(base, d))

\* A record without a policy is left before the score is brought into range.
DMARCScore(base, d) ==
    IF d.p = "missing" THEN base - 60 ELSE Clamp(DMARCSum(base, d))

CheckDMARC(z) ==
    IF z.dmarc.records = 0 THEN Verdict(0, TRUE)
    ELSE Verdict(DMARCScore(IF z.dmarc.records > 1 THEN 20 ELSE 100, z.dmarc),
                 z.dmarc.records > 1)

\* What is wrong with a certificate that has not expired.
CertificatePenalty(c) ==
    (CASE c.days < 7 -> 60 [] c.days \in 7..29 -> 30
       [] c.days \in 30..59 -> 10 [] c.days > 59 -> 0)
    + (IF c.matches THEN 0 ELSE 40)
    + [ecdsa |-> 0, rsa4096 |-> 0, rsa2048 |-> 5, rsa1024 |-> 30,
       unknown |-> 10][c.key]
    + [strong |-> 0, sha1 |-> 40, md5 |-> 60][c.signature]
    + (IF c.selfSigned THEN 50 ELSE 0)

\* The certificate of the first mail port that shows one.
CheckSSL(z) ==
    IF ~z.cert.found \/ ~z.cert.valid THEN Verdict(0, TRUE)
    ELSE Verdict(AtLeast0(100 - CertificatePenalty(z.cert)), z.cert.days < 7)

MXPenalty(mx) ==
    CASE mx.fails -> 30
      [] ~mx.fails /\ mx.hosts = <<>> -> 40
      [] ~mx.fails /\ mx.hosts # <<>> ->
           (IF mx.samePriority THEN 10 ELSE 0)
           + 20 * Count(mx.hosts, "dead") + 5 * Count(mx.hosts, "free")

\* What the name itself looks like.
ReputationPenalty(name) ==
    15 * Count(name, "suspicious") + 25 * Count(name, "pattern")

\* One of the addresses is in one of the blacklists.
Blacklisted(z) == z.host.listed > 0

\* One entry in a blacklist is enough for 0 points.
CheckDeliverability(z) ==
    LET penalty == ReputationPenalty(z.name) + MXPenalty(z.mx)
    IN  CASE ~Resolves(z) \/ Blacklisted(z) -> [score |-> 0, status |-> "error"]
          [] Resolves(z) /\ ~Blacklisted(z) ->
               [score  |-> AtLeast0(100 - penalty),
                status |-> IF penalty > 0 THEN "warning" ELSE "healthy"]

Check(c, z) ==
    CASE c = "dns" -> CheckDNS(z) [] c = "spf" -> CheckSPF(z)
      [] c = "dkim" -> CheckDKIM(z) [] c = "dmarc" -> CheckDMARC(z)
      [] c = "ssl" -> CheckSSL(z) [] c = "deliverability" -> CheckDeliverability(z)

\* The weighted mean, cut off to an integer.  It is computed in floating
\* point: a mean that is an integer may come out just nearer to 0.
OverallScores(v) ==
    LET sum == 20 * (v["dns"].score + v["spf"].score + v["dkim"].score)
               + 15 * (v["dmarc"].score + v["ssl"].score)
               + 10 * v["deliverability"].score
        mean == Quotient(sum, 100)
    IN  {mean} \cup (IF sum % 100 = 0 /\ sum \notin {0, 10000}
                     THEN {IF sum > 0 THEN mean - 1 ELSE mean + 1} ELSE {})

-----------------------------------------------------------------------------
(* The requests.  A request is idle until its handler runs and again when  *)
(* it has been answered.  A result is its times and its scores; the scores *)
(* go with it into the cache and the answer unchanged, and the model does  *)
(* not follow them there.                                                  *)

NoResult == [lastChecked |-> 0, oldest |-> 0]
Idle == [pc |-> "idle", kind |-> "check", arrived |-> 0, seen |-> {},
         result |-> NoResult]

Init ==
    /\ now = 0
    /\ cache = {} /\ answer = {} /\ report = {}
    /\ req = [r \in Requests |-> Idle]

Set(r, q) == req' = [req EXCEPT ![r] = q]
Silent == answer' = {} /\ report' = {}

\* The handler writes its answer, which is lost when it comes too late.
Answer(r, result) ==
    /\ Set(r, Idle)
    /\ answer' = IF now - req[r].arrived > WriteTimeout THEN {}
                 ELSE {[kind |-> req[r].kind, arrived |-> req[r].arrived,
                        result |-> result]}

\* The start of a refresh: LastChecked is the time before the checks.
Started(q) ==
    [q EXCEPT !.pc = "checking", !.seen = {}, !.result.lastChecked = now]

\* A mutant: a forced refresh asks the cache first.
RefreshDomainHealth_Cached(r) ==
    /\ req[r].pc = "idle"
    /\ Set(r, [Idle EXCEPT !.pc = "decide", !.kind = "refresh", !.arrived = now,
                           !.seen = cache])
    /\ Silent /\ UNCHANGED <<now, cache>>

\* RefreshDomainHealth: the handler refreshes whatever the cache holds.
RefreshDomainHealth(r) ==
    /\ req[r].pc = "idle"
    /\ Set(r, Started([Idle EXCEPT !.kind = "refresh", !.arrived = now]))
    /\ Silent /\ UNCHANGED <<now, cache>>

\* DomainHealth, and CheckDomain up to the end of the read lock.
DomainHealth(r) ==
    /\ req[r].pc = "idle"
    /\ Set(r, [Idle EXCEPT !.pc = "decide", !.arrived = now, !.seen = cache])
    /\ Silent /\ UNCHANGED <<now, cache>>

Young(e) == now - e.stored < TTL

\* CheckDomain: a young entry is the answer, and any other starts a refresh.
CheckDomain(r) ==
    /\ req[r].pc = "decide"
    /\ \/ \E e \in req[r].seen :
             Young(e) /\ Answer(r, e.health) /\ report' = {}
       \/ /\ ~\E e \in req[r].seen : Young(e)
          /\ Set(r, Started(req[r])) /\ Silent
    /\ UNCHANGED <<now, cache>>

\* A mutant: a refresh is stamped when its checks are done.
RunChecks_StampLast(r) ==
    /\ req[r].pc = "checking"
    /\ \E t \in req[r].result.lastChecked..now :
         Set(r, [req[r] EXCEPT !.pc = "checked", !.result.oldest = t,
                               !.result.lastChecked = now])
    /\ Silent /\ UNCHANGED <<now, cache>>

\* The five checks up to wg.Wait.
RunChecks(r) ==
    /\ req[r].pc = "checking"
    /\ \E t \in req[r].result.lastChecked..now :
         Set(r, [req[r] EXCEPT !.pc = "checked", !.result.oldest = t])
    /\ Silent /\ UNCHANGED <<now, cache>>

\* The sixth check, the overall score, and the result in the cache: it
\* replaces the entry, whoever stored that and whenever.  Bounds: the checks
\* that do not see the clean zone all see the same one; and because a score
\* depends on nothing but the zone, only the first result has flaws.
RefreshDomain(r) ==
    /\ req[r].pc = "checked"
    /\ \E z \in IF cache = {} THEN Zones ELSE {CleanZone} :
       \E zone \in [Checks -> {CleanZone, z}] :
         LET verdicts == [c \in Checks |-> Check(c, zone[c])]
         IN  \E score \in OverallScores(verdicts) :
               report' = {[verdicts |-> verdicts, overall |-> score]}
    /\ cache' = {[health |-> req[r].result, stored |-> now]}
    /\ Answer(r, req[r].result)
    /\ UNCHANGED now

\* Time passes, but no refresh outlasts the timeouts of its lookups.
Tick ==
    /\ now < MaxTime
    /\ \A r \in Requests : req[r].pc \in {"checking", "checked"} =>
         now - req[r].result.lastChecked < Duration
    /\ now' = now + 1
    /\ Silent /\ UNCHANGED <<cache, req>>

Handler(r) == CheckDomain(r) \/ RunChecks(r) \/ RefreshDomain(r)

Next ==
    \/ \E r \in Requests : RefreshDomainHealth(r) \/ DomainHealth(r) \/ Handler(r)
    \/ Tick

Spec == Init /\ [][Next]_vars

-----------------------------------------------------------------------------
\* No answer holds a reading older than the "last checked" it shows, and
\* none is older than the life of a cache entry and the time a refresh may
\* take together, although a slow refresh may replace the result of one that
\* began after it and give its older readings a new life (checker.go:169).
FreshEnough ==
    \A a \in answer :
        /\ a.result.oldest >= a.result.lastChecked
        /\ now - a.result.lastChecked < TTL + Duration

\* A forced refresh is answered with readings made after it was asked for,
\* whatever other refreshes leave in the cache meanwhile (health.go:89).
ForcedRefreshIsFresh ==
    \A a \in answer : a.kind = "refresh" => a.result.oldest >= a.arrived

\* What the dashboard shows of a result agrees with itself: five checks are
\* "healthy" exactly when they score 80 or more, the sixth only with a full
\* score; a domain that is healthy everywhere is "Excellent" (80, see
\* health-dashboard.js:416); and no score exceeds 100, nor do the four that
\* are brought into range fall below 0.
VerdictsAgree ==
    \A h \in report :
        /\ \A c \in Parallel : h.verdicts[c].status = "healthy" <=> h.verdicts[c].score >= 80
        /\ h.verdicts["deliverability"].status = "healthy"
             => h.verdicts["deliverability"].score = 100
        /\ (\A c \in Checks : h.verdicts[c].status = "healthy") => h.overall >= 80
        /\ h.overall <= 100
        /\ \A c \in Checks :
             /\ h.verdicts[c].score <= 100
             /\ c \notin {"spf", "dmarc"} => h.verdicts[c].score >= 0
=============================================================================
