# gomail in TLA+

gomail receives mail through Postfix, hands every message to a local HTTP API and
stores it as a JSON file. This directory holds TLA+ models of the parts of it whose
correctness depends on interleavings, failures, timeouts and limits, the TLC
configurations that check them on small instances, and TLAPS proofs of the main
results for every value of the constants. `PROJECT.json` lists components, runs,
mutants, the source lines behind every definition, findings, hazards and theorems.

## Inventory

| Component | State | Operations | What is hard | What makes it correct |
|---|---|---|---|---|
| Storage connection pool (`internal/storage/pool.go`) | a buffered channel, three counters under a mutex, a flag per connection | Get, Put, Close | the mutex covers the counters and not the channel; check-then-create; a timer | counters agree with the connections; one owner each; a bound on the size; Get returns |
| Mail API server (`internal/api/server.go`, `internal/middleware/{timeout,recovery,error_handler}.go`) | activeRequests, shutdownStarted, one response per request, the files | POST /mail/inbound, Shutdown | the deadline races the handler; handlers outlive their request; panics; a crash during a write | 200 only for a stored email; one answer each; counters; shutdown ends |
| File storage (`internal/storage/file.go`) | a tree of files by date | Store, List, Load, Move, Delete | a write is not atomic; names are random | an acknowledged email is complete and stays |
| Rate limiter (`internal/middleware/ratelimit.go`) | a map of token buckets | Allow, cleanup | a bucket is used after the map's lock is released; integer time | no client gets more than rate and burst allow |
| Connection limiter and middleware (`internal/security/connection_limiter.go`, `internal/middleware/connection.go`) | counts, violations and bans per host; the limiter in use | Accept, Release, Ban, Unban, cleanup, UpdateLimits, Close | release must match accept on every path while the limiter is replaced | the limits hold; the gauges are right |
| Connection throttle (`internal/security/throttle.go`) | a global and a per-address token bucket | Allow, Wait, UpdateRates, cleanup | two buckets are charged in turn; replaced under use | both rates hold |
| Postfix delivery pipe (`internal/postfix/installer.go`) | Postfix's queue, the pipe script, curl | deliver, retry, defer, bounce | API crashes, late answers, retries of what was stored; two programs must agree on arguments and exit codes | no message is lost; a failure is temporary |
| Domain manager (`internal/postfix/manager.go`) | `domains.list`, `virtual_mailbox_domains` | AddDomain, RemoveDomain, ListDomains | two stores, partial failure, concurrent commands | the stores agree |
| Installer (`internal/postfix/installer.go`, `internal/commands/install.go`) | configuration files, services | install, rerun | a step fails half way; a rerun | a rerun completes what is missing |
| Certificates (`internal/ssl`, `internal/commands/{ssl,install}.go`) | cert.pem, key.pem, their directory and owner, account key, renewal timer, webadmin's choice | setup (also with --staging), renew, install, the timer | a crash between or in the writes; the timer runs beside the administrator; outages; commands in an order that skips a step | certificate and key match; the certificate stays valid; webadmin can load its pair |
| STARTTLS (`internal/tls`) | a connection, plain or encrypted | commands, handshake | no caller in the program | |
| Authentication (`internal/auth`) | one evaluation | SPF, DKIM, DMARC, the action | recursion over records, lookups that fail, alignment, enforcement | the outcome is what the records and the policy mean; it ends |
| Parser, validation (`internal/mail`, `internal/validation`) | none | parse, validate | malformed input | what is stored has valid addresses |
| Configuration (`internal/config`) | constant after start | load, override, validate | precedence of file, environment, flags | defaults fill only what is absent |
| DigitalOcean (`internal/digitalocean`, `internal/commands/dns.go`) | records of a remote API, the droplet's name, hostname, /etc/hosts | dns create, cleanup, PTR, hostname | find-then-create, answers lost or late, partial failure, overlap | what is published stays; nothing foreign is touched; reruns converge |
| Health checker (`cmd/webadmin/health`, `cmd/webadmin/handlers/health.go`) | a cache of results | check, forced refresh | parallel checks, slow refreshes that cross, sums of many deductions | an answer's age is bounded; a forced refresh is fresh; scores and states agree |
| Rest of the web admin (`cmd/webadmin`, `webadmin/assets/js`) | an event source in the browser | proxy, events, pages | mostly not implemented yet | |
| Metrics, logging, errors, command line | counters | | write-only | |

Interactions: Postfix runs the pipe script; the script calls the API with curl; the
API's middleware chain (rate limit, timeout, active requests, authentication) leads to
the handler, which parses, authenticates, validates and stores. systemd restarts the
API. The installer writes what Postfix, the script and systemd run from. The web admin
checks domains.  `ssl setup` leaves a timer that runs `ssl renew`; the installer chooses
the pair webadmin loads; `dns create` publishes the records that authentication at other
hosts reads. The connection middleware, the throttle and the
pool are complete components with tests that the server command does not wire in yet;
they are modelled as their interfaces and tests show them used.

## Modules

| Module | Models | Properties |
|---|---|---|
| `ConnectionPool` | the pool; a step is one critical section or one channel operation | `TypeOK`, `Accounting`, `ExclusiveUse`, `SendNeverBlocks`, `CreatedBounded`, `GetReturns` |
| `PoolLease` | what the pool promises: a connection is leased to at most one caller | refined by `ConnectionPool` (`ImplementsLease`) |
| `ConnectionPoolProofs` | proofs | |
| `InboundServer` | the API server: the inner goroutine that runs the handler, the connection's own goroutine with the select of TimeoutMiddleware, Shutdown, crash | `TypeOK`, `CountersExact`, `AckedIsStored`, `TimeoutIsFinal`, `DrainedLosesNothing`, `EveryRequestAnswered`, `ShutdownEnds` |
| `InboundContract` | what a client of the API may rely on: one answer, "ok" only when stored | refined by `InboundServer` (`ImplementsContract`), used by `Delivery` |
| `RateLimiter` | Allow and cleanup with their locks | `RateBound`, `StrayBound`; `LimiterTypeOK` is proved only |
| `ApiProofs` | proofs about `InboundServer` and `RateLimiter` | |
| `Delivery` | Postfix, the pipe script, curl and an API known only by its contract, which crashes and restarts | `NoLoss`, `StoredUnderItsEnvelope`, `ScriptEnds`; refuted: `FailureIsTemporary` |
| `ConnectionGuard` | the limiter and the HTTP and TCP middleware around it | `TypeOK`, `LimitsHold`, `ActiveGaugeExact`, `BannedGaugeCoversBans` |
| `ConnectionGuardProofs` | proofs | |
| `MailConfig` | the install and domain commands, step by step, on the files and parameters they share | `TypeOK`, `InstalledIsConnected`, `Reconciles` |
| `PostfixProofs` | proofs about `MailConfig` and `Delivery` | |
| `Authentication` | VerifyInbound and the server's reaction: nested SPF, signatures, alignment, policy | `SPFMatchesRecords`, `DispositionFollowsPolicy`, `VerificationEnds` |
| `AuthenticationProofs` | proofs | |
| `DnsSetup` | `dns create` and the installer's hostname step against the DigitalOcean service | `PublishedStaysPublished`, `AddsNoDuplicate`, `ForeignRecordsKept`, `HostsConverge` |
| `DnsSetupProofs` | proofs | |
| `Certificates` | `ssl setup`, `ssl renew`, the installer's certificate steps and the renewal timer | `CommandLeavesPair`, `TimerKeepsValid`, `WebPairFits`; refuted: `WebAdminCanStart` |
| `CertificatesProofs` | proofs | |
| `HealthCheck` | the health cache, the refresh, its handlers and the scores | `FreshEnough`, `ForcedRefreshIsFresh`, `VerdictsAgree` |
| `HealthCheckProofs` | proofs | |

`MC...` modules give TLC small instances. `Delivery` composes with `InboundServer`
through `InboundContract`: the server is proved to implement it, and `Delivery` uses
nothing else of the server.

### How state and actions correspond to the code

*ConnectionPool.* `connections` is the channel `p.connections`, `created`, `active` and
`idle` the fields of those names, `pc` the point a caller has reached in Get or Put. A
caller is one use of the pool, from its Get to the end of its Put: a goroutine that holds
several connections at once (`pool_test.go:193-206`) is several callers, and `peak` is the
most there were at one time. Put never tests `inUse`, so nothing stops a goroutine that
releases a connection twice; a caller of the model releases once.
`GetReceive`/`GetFindsEmpty` are the first select, `GetAccount` the critical section
after it, `GetCheckSize`, `CreateConnection`, `CreateFails`, `GetActivate` the creation,
`WaitReceive` and `WaitGivesUp` the second select, `PutGiveUp` and `PutSend` the two
halves of Put. A send or receive on the closed channel has Go's effect: a panic ends the
process, a receive gives nil.

*InboundServer.* `inner[r]` is the handler's goroutine, `outer[r]` the connection's,
`tw[r]` the timeoutWriter, `wire[r]` what the client was sent, `file[r]` the file of its
email. `phase` follows Shutdown and the process. A crash stops everything; what was
written stays, which is the crash of a process and not of the machine (the code never
calls fsync, and the model makes no claim about power loss). SPF, DKIM, DMARC, parsing
and validation decide between `Reject` and `StoreBegin`, and take part only by how they
end.

*RateLimiter.* `call[t]` is the key and bucket that Allow found before it released
`rl.mu`; `Take` and `Deny` are the rest of Allow under the bucket's own lock. cleanup
visits one key per step under `rl.mu`. `stray` counts requests that were granted by a
bucket already deleted.

*Delivery.* `queue[m]` is Postfix's view of a message, `script[m]` the script and curl
inside it, `env` the environment file as the script's user finds it, `live` the requests
the running API process knows. Exit statuses are modelled as Postfix reads them. Postfix,
curl and systemd are external and modelled by the options the installer gives them.
`argv` is what the transport passes to the script: in the passing run either what the
installer writes, with which no message is ever accepted, or arguments that fit the script
(an administrator's own mailapi entry, which the installer keeps); likewise `env` may be
the installed file, with which no request is sent, or one that is missing or readable.

*ConnectionGuard.* Limiters are numbered; `current` is `cm.limiter`, `limits` what each was
made with, `before` a history: who was in when the present one was made. `deferred[c]` is the
receiver that an HTTP request's `defer cm.limiter.Release` has evaluated. `closers[c]`
counts calls of `managedConn.Close` between the test of the flag and the release, `extra`
the releases too many that such calls cause. The throttle's answer is a free choice.

*MailConfig.* `files`, `settings`, `domains` (virtual_mailbox_domains) and `list`
(domains.list) are the machine, `served` what the running Postfix has read. Each
administrator runs one command at a time; `pc` is the step it has reached. A step is one
file read or written or one program run; `Fail` ends a command between any two of them.
The two reads whose errors install swallows (`installer.go:66`, `:122`) may come back empty;
an `os.Stat` that fails on a file that is there is not modelled. `cut` is a history: some
install ended after it set the transport and before it had set and written the rest.
`changed` and `alone` are histories: they say which commands `Reconciles` speaks about,
namely those that changed something, overlapped no other and found a list. It must leave
out the rest: a `domain add` of a domain that an earlier, failed add left in the list
succeeds without touching main.cf, and overlapping commands lose each other's changes.

*Authentication.* `pc` is the step of VerifyInbound, `walk` the activations of checkSPF,
innermost first, each with the mechanisms it has left; an include pushes one and a result
pops one. Every lookup may fail instead of answering (`faulty` remembers). A domain is its
tuple of labels, an address in a mechanism is whether it matches. `spf`, `dkim`, `dmarc`,
`action` are the fields of AuthenticationResult, `outcome` is what handleMailInbound does.
`Authorising` and `RecordResult` say what the records mean without a walk, as a fixed
point; `SameOrganisation` says what alignment means without the code's label arithmetic:
the properties compare the two.

*DnsSetup.* A command is a `plan` of steps and `at` the place in the first of them; a step
is the calls the client makes, one action each, and `found` is what it has read. `Call` is
doRequest: done, refused, failed, done with the answer lost, or given up and done later
(`late`). The service (`Apply`, `Accepts`, and `NewRecords`, what it puts into a new
domain) is external. `HostLabel` gives, for each domain whose name the mail hostname ends
in, what comes before it: a host can have a name in several zones. `orderly` is a history: no two
commands overlapped, no request was late and no answer was truncated to a page.

*Certificates.* `cert` and `key` are the two files, by key, expiry and CA; a write that is
cut short leaves `CutCert` or `CutKey`. `owner` says whose key.pem is, which decides its
mode too: root's is 0600, and one that was given to mailserver 0640; `dir` says whether
others may pass the directory, which the code makes 0700 unless somebody has made it
before (`DirsAtStart`). cert.pem is 0644 whoever owns it. `self` is the self-signed pair,
in a directory open to all. `at[a]` is the step of the administrator's or the timer's
command. The CAs are external; `known` holds those that know the account, by having been
asked under agreed terms. `outage` counts the days in a row on which the timer's command
ended by a fault (of a CA, the disk, a kill), at most `MaxOutage`, which must be less than
the threshold by two (`BoundAssumption`; with the code's 30 days: four weeks). A renewal
that the code itself cannot do is no fault and is not bounded.

*HealthCheck.* `cache` is the domain's entry, `req[r]` a handler between its lock
operations. The five goroutines write disjoint fields and are one step; `oldest` is when
the first of them read. A zone is what DNS and the mail ports say, reduced to what a
score depends on; `report` holds the verdicts the last refresh computed.

## Runs

| Run | Shows | Instance |
|---|---|---|
| `pool` | safety, refinement of the lease, termination of Get | 3 callers, 4 connections, size 2, idle argument 3 (clamped) |
| `inbound` | safety, refinement of the contract, answers and shutdown under handlers that hang | 2 requests |
| `ratelimit` | rate bound with cleanup racing Allow | 2 goroutines, 2 clients, 3 buckets, 5 seconds |
| `delivery` | no loss over crashes, timeouts and retries; nothing is stored under a wrong envelope; the script ends | 1 message, 1 retry, 4 requests |
| `guard` | limits, bans and the two gauges, with refusals, double close and one UpdateLimits | 2 TCP connections of one host, HTTP of another, limits 1 per host and 2 in all or the reverse, 3 moments |
| `mailconfig` | a finished install is connected; the two lists come together again | 2 administrators, 2 domains, 2 settings besides the domains |
| `auth` | nested SPF evaluation against the records' meaning, disposition against the policy, termination | 196 zones with inclusion chains of up to three records, 4 senders, 6 From headers, 3 configurations, any lookup failing |
| `dns` | published records stay, foreign ones are untouched, commands run in turn add no duplicate, /etc/hosts changes once at most | 2 administrators, 2 commands, 3 domains, 2 zones, 3 hosts files, 1 failing call |
| `certs` | pairs fit, the timer keeps a production certificate valid, webadmin's files fit | 9 days, lifetime 5, threshold 4, outage 2, 2 keys, all commands |
| `health` | age of answers, forced refreshes, agreement of scores and states | 2 requests, 4 time units, lifetime of an entry 2, a refresh up to 2; 9 zones mixed per check |
| `delivery_bounce` | violated: a failure makes Postfix retry | 1 message |
| `certs_install` | violated: webadmin can read the pair that install configures | `ssl setup` and install, no day passes, directory made by the code or open before |

Bounds. In the pool three callers are enough for one to take, one to return and one to
be between the two, and for the size check to be passed by more than the pool's size. Two
requests let one request's shutdown gate, deadline and panic race the other's; no property
relates three. The rate limiter's five seconds with a TTL of two cover a bucket that is
made, emptied, evicted while in use, remade and refilled; three buckets are one more than
the clients. Four requests per message are two script runs with a retry each. In the
configuration, two administrators are enough for one command to overlap another, and any
number of commands may follow each other; of the sixteen parameters besides the domains,
the one that is tested and one that is not stand for all. `MaxRaces`, `MaxBans`,
`MaxLimiters`, `MaxTime` bound histories and counters that only grow. In `guard` a state
constraint (`RacesFirst`) lets two calls of Close race at the first moment only, since
bans that run out have nothing to do with them. In `auth` the
sender's record has at most three mechanisms and an include at any place of it, which is
enough for a result to return through every kind of rest; the records' meaning is one
fixed point only if no record includes itself, and both SPF properties say so (a zone with
such a record is among those run). In `dns` two commands
overlap or follow each other, and the theorems cover any number; the host is mail.eu.base,
so that its base domain (its last two labels) and the domain sub both hold a record of it;
the domain that is not the host's starts empty or with a legacy record, a record of
another host and two of one type and name, of another kind. `PageSize` 6 is small enough for a page to be truncated. In `certs`
nine days see two renewals and an outage before each; `MaxOutage` is the largest that
`BoundAssumption` allows. Two keys are enough for a pair that does not fit. In
`health` two requests are enough for refreshes to cross, and an entry can outlive its
refresh; only the first result of a behaviour has flaws, because a score depends on nothing but the zone.

Deadlock is checked except in the runs of `Authentication`, `DnsSetup` and `Certificates`,
where the message is done, the commands are used up or the last day has passed. File
writes other than of the email, the certificate, its key and /etc/hosts are taken to succeed or fail as a whole.

Fairness. The pool: a caller inside a call keeps running and the timer fires; nobody
need call Get or Put. The server: the select of TimeoutMiddleware and Shutdown keep
running and their timers fire (Go's scheduler and timers); handlers get no fairness at
all, since a DNS lookup or a read of the body may hang. Delivery: the script and curl
keep running, and curl's own `--max-time` fires. Authentication: weak fairness of the next
step, since the resolver answers or gives up every lookup and the rest is computation.

## Findings

Some runs show the code contradicting a comment or a document; `PROJECT.json` quotes them:
`delivery_bounce` and `certs_install`.

## Observations

Behaviour met while modelling that the models contain and the properties have to allow
for:

* *Pool.* The size limit is not `maxSize`: the pool grows to as many connections as
  callers were at work or holding one at once (`CreatedBounded`), which
  `pool_test.go:264-267` allows for.
* *Server.* "All connections drained" is logged while handlers that have timed out still
  run (`server.go:189`, `:208`); `DrainedLosesNothing` says what remains true. A handler
  that has sent its header before the deadline may still write its body after it
  (`timeout.go:97`).
* *Rate limiter.* Fractions of a token are lost at every fill (`ratelimit.go:114`), so a
  steady client gets less than the documented rate (`docs/api.md:270`).
* *Delivery.* install writes `/etc/sysconfig/mailserver` with mode 0600 for root
  (`install.go:288`), and the transport runs the script as nobody (`installer.go:271`):
  under set -e it exits with 1 at `source` (`installer.go:170`), and Postfix bounces every
  message. With a file it can read, the installed arguments "${sender} ${recipient}"
  (`installer.go:272`) are the script's $1 and $2, and it reads $2 and $3 (`:181-182`): the
  request names the recipient as sender and "unknown" as recipient, which the validator
  refuses (`validation/email.go:40`), and the message is deferred.
* *Guard.* UpdateLimits forgets open connections and bans (`before` in `LimitsHold`),
  two concurrent calls of Close release twice (`extra`), the gauge of
  banned addresses can read high.
* *Installer.* A second install takes everything to be configured when
  `virtual_transport` is (`installer.go:67-68`), so what an install that was cut short did
  not reach stays missing (`cut` in `InstalledIsConnected`). A domains.list it cannot read,
  or a `postconf` that fails, resets the domains to the primary one. It obtains a certificate without setting
  up renewal (`install.go:367`; `docs/security.md:63` promises renewal), and chooses
  cert.pem for webadmin whenever the file exists, even without its key or truncated
  (`install.go:465`), or from the staging CA.
* *Certificates.* `ssl renew` cannot get past a truncated certificate or key, forced or
  not (`manager_lego.go:292`, `commands/ssl.go:110`): the timer then fails every day until
  `ssl setup` is run. Without a certificate it reports that one is needed and cannot
  obtain one. Webadmin loads its pair at start only, as mailserver, and ends when it
  cannot (`cmd/webadmin/main.go:117-124`). Nothing in the repository opens the directory
  that `ObtainCertificate` makes for root alone (`manager_lego.go:143`; finding
  `certs_install`); where it was opened by hand, an install that is killed between writing
  the key and handing it over, or that finds the pair of an earlier `ssl setup`, leaves a
  key that mailserver cannot read, and running it again changes nothing. After `ssl setup
  --staging` the timer can renew only if another command has registered the account with
  the production CA (`manager_lego.go:85-90`, `ssl.go:107`): otherwise the certificate
  expires, where `docs/security.md:63` says "Certificates renew automatically before
  expiration".
* *DNS.* The cleanup deletes the host's own A record if its label does not begin with
  "mail" (`dns.go:258`), and puts it back later if nothing fails; the instances' hosts
  have names that begin with mail. A mail hostname of two labels is its own base domain,
  and SetupInfraDNS then fails after it has set up the zone (`dns.go:293`), which is a
  warning. Commands that overlap create a record twice. Only the first page of records is
  read (`dns.go:69`). The SPF upsert replaces whatever TXT record of "@" comes first
  (`dns.go:212`). After a rename whose answer was lost the hostname is never updated
  (`droplet.go:119`). Without a 127.0.0.1 line nothing is added to /etc/hosts
  (`droplet.go:218`), and a write of it that fails half way leaves it empty.
* *Authentication.* Alignment is what the DMARC record says; the enforcement level only
  decides what becomes of a failure, where `docs/security.md:155-158` describes it as the
  strictness of alignment ("strict: Exact domain matching required"): under strict and a
  policy of reject a message from a.com is stored that only a signature of m.a.com vouches
  for, if the record says relaxed. The `spf_enforcement` of
  `docs/security.md:117-123` is read nowhere: an SPF failure alone never refuses a message.
  A From address with an @ in its quoted local part gives no domain, and DMARC is skipped
  (`middleware.go:266-269`). A message that fails DMARC may still be reported as passing overall
  (`middleware.go:169`). An SPF record that includes itself recurses for ever
  (`spf.go:219`). A lookup that fails while SPF is evaluated can turn a pass into a refusal
  under a policy of reject (the `~faulty` in `DispositionFollowsPolicy`). The address
  checked is the HTTP client's (`server.go:363`).
* *Health.* The SPF score has no lower bound and the DMARC score can be -40
  (`checker.go:49`, `:74` say 0-100), so the overall score can be negative too (`:25`). A
  slow refresh can make a later answer older than an earlier one; `FreshEnough` bounds by
  how much. The page drops the answer of a forced refresh and reads the cache again
  (`router.js:383`), so that it may show such an older answer. A blacklisted domain can still be 90.

## Proofs

TLAPS proves, with no bound on any constant:

* `ConnectionPoolProofs`: `TypeCorrect`, `CountersAreRight` (`Accounting` and
  `IdleBounded`), `UseIsExclusive`, `PoolSizeBound`, `SendHasRoom`,
  `PoolImplementsLease`. The inductive invariant `PoolInv` adds to the counters how many
  callers are about to add a connection (`Coming`): Put may keep a connection only
  because every idle one is in the channel or on its way there, and the size bound holds
  because a caller that creates owns nothing yet, and `peak` covers every caller inside
  (`PeakInv`). The cardinality steps rest on
  `CountGoto`, which says how the number of callers at a set of points changes when
  one of them moves.
* `ApiProofs`, of `InboundServer`: `ServerTypes`, `CountersAreExact`, `AcknowledgedIsStored`,
  `ReturnedIsAnswered`, `TimeoutsAreFinal`, `DrainLosesNothing`,
  `ServerImplementsContract`. The inductive invariant `ServerInv`
  ties, for each request, the handler's point to the file and to the timeoutWriter;
  `AckedIsStored` alone is not inductive, because a handler that has stored its email
  has not answered yet. `LateInv` adds what a handler may still do after the deadline:
  it writes late only where the timeoutWriter had been written before the timeout, and
  Shutdown returns only when no connection waits.
* `ApiProofs`, of `RateLimiter`: `LimiterTypes`, `RateIsBounded`, `StraysAreBounded`. The
  invariant `LimiterInv` says that what a client was allowed, plus what its bucket still
  holds, is covered by the burst and the time up to the bucket's last fill; it survives an
  eviction only because a bucket unused for `TTL` would be full (`TTLAssumption`: the
  burst is at most what `TTL` earns, true of the defaults).
* `ConnectionGuardProofs`: `GuardTypes`, `LimitsAlwaysHold`, `ActiveGaugeIsExact`,
  `BannedGaugeCovers`. No variable counts the connections that are in, and after
  UpdateLimits releases reach the wrong limiter. The invariant (`TotalInv`, `HostInv`)
  compares them with the present limiter only: the others were in when it was made, so
  what the counts of the earlier ones do afterwards needs no account. `StageInv` is needed
  because a request must release a limiter that exists. `BansInv` carries along that the
  bans are finitely many, which makes the gauge a number after cleanup; the hosts need
  not be finite.
* `PostfixProofs`, of `MailConfig`: `MailConfigTypes`, `InstalledMeansConnected`,
  `CommandsReconcile`. `InstallsInv` lists what each step of an install has put in place;
  it is inductive because no command takes any of it away. `WholeInv` adds when the other
  settings and the map of recipients are there: from the moment the transport is set, some
  install is at the point between, or one was cut there, or nothing is missing. `AlonesInv` says what a command
  that has met no other knows of the two stores at each step, and `ListInv` that main.cf
  has Postfix's default alone, or our domains, until there is a list.
* `PostfixProofs`, of `Delivery`: `DeliveredIsStored` (`NoLoss`), `DeliveryTypes`.
  `DeliveryInv` says that an answer "ok" is backed by a file (all that is used of the
  API's contract) and that the requests a script has sent and may still send fit in its
  bound; a request that a crash cut off may leave a file that nobody acknowledged, which
  is no loss.
* `CertificatesProofs`: `CommandsLeavePairs`, `TimerKeepsItValid`, `WebPairAlwaysFits`.
  `JobsInv` follows a command from the certificate it was issued to the files, `DaysInv`
  bounds the days left from below by the outage so far, whether today's run of the timer
  is still to come, under way or over; `TimerKeepsValid` alone says nothing of tomorrow.
  It rests on `TimerInv`: the CA of a certificate that is there knows the account, so that
  a production certificate is never refused its renewal. `WholeInv` is what
  `WebPairAlwaysFits` needs; that mailserver may read the pair is refuted by TLC.
* `HealthCheckProofs`: `AnswersAreFresh`, `ForcedRefreshesAreFresh`,
  `VerdictsAlwaysAgree`. `HealthInv` bounds the age of an entry when it was stored, and
  of every refresh under way. The third needs no history: for each check a lemma bounds
  its score and says when it is "healthy", over every zone of `ZoneRecords`.
* `AuthenticationProofs`: `SPFSound` (`SPFMatchesRecords`), `DispositionSound`
  (`DispositionFollowsPolicy`), with `WalkSound`, `MessageSound` and `OrganisationsMatch`
  on the way, for zones, messages and configurations of any size. `WalkInv` says of every
  activation of checkSPF that it goes through the record of its domain, that each but the
  innermost has just passed the include of the next, and that no mechanism before decides;
  if a lookup has failed, one may, but could only have said pass. `ResultInv` says the
  same of the result. `OrganisationsMatch` shows the code's label arithmetic to be
  `SameOrganisation`. `MessageInv` then follows the message: what DKIM found
  (`SignaturesInv`), what is known at which stage (`StageInv`) and what the action was
  (`ActionInv`), since the property speaks of the outcome only. That records without a
  cycle have a meaning at all is an induction over how deep they include; the proof takes
  the least depth at which it would fail (`Least`, from the library's theorem that the
  naturals are well-founded), which needs no operator as a parameter. The properties claim
  nothing where a record includes itself, and neither do the theorems.
* `DnsSetupProofs`: `DnsSound`, `PublishedStays` (`PublishedStaysPublished`),
  `MailRecordsStay`, `ForeignKept` (`ForeignRecordsKept`), `NoDuplicateAdded`
  (`AddsNoDuplicate`), `UpdateIdempotent`, `HostsSettle` (`HostsConverge`), for any number of
  administrators, commands, failures and late requests. Ids are never used twice
  (`ApiOK`), so what is true of a record when a request about it is made (`ReqOK`: an
  update writes the type and name that are there, a deletion hits an A record of an
  earlier name) is still true when the request is done late (`LateIsRight`), whatever was
  done in between (`ApplyKeeps`). `RunnersInv` says that what the steps behind a runner
  have written is still there; a domain is published only at the end. `OrderlyInv` adds,
  while commands run one after another, that a runner which found no such record is still
  right when it creates one. `HostsInv` lists what /etc/hosts may hold; that it settles
  rests on `UpdateIdempotent`.

  `PublishedStays` has a hypothesis of its own, and needs it: the mail host's names are
  ones that the cleanup keeps. Otherwise the cleanup deletes the host's A record (see the
  observations). `MailRecordsStay` holds without it. Zones may hold any records at the
  start, several of one type and name too: `AddsNoDuplicate` speaks of what is added.

`ApiProofs` and `PostfixProofs` extend two modules each, which share no names: hence
`LimiterSpec`, `PipeSpec` and so on in `RateLimiter` and `Delivery`. No theorem speaks of
both.

Assumptions are on constants only and are evaluated by TLC in every run of the module.
Those that say more than a type: `TTLAssumption` (rate limiter), `BoundAssumption` of
`Certificates` (outages are shorter than the threshold by two days) and its
`DirsAssumption` (a directory made by hand is open to all), `ZonesAssumption` of
`HealthCheck` (a zone has the fields the checks read, with any numbers and sequences in
them; it leaves out a `pct` tag so large that `100 - pct` overflows 64 bits),
`StoppedAssumption` (the value that stands for a stopped Postfix is no domain),
`NilAssumption` of `Authentication` (the value that stands for nothing is no domain) and
`ZoneAssumption` of `DnsSetup` (ids are unique within a zone and below those of new
records; "@" is a name the cleanup keeps).

Only model-checked: liveness (`GetReturns`, `EveryRequestAnswered`, `ShutdownEnds`,
`ScriptEnds`, `VerificationEnds`), since the prover does not handle fairness. Every
invariant and action property of a passing run is a theorem.

## Plan

The model is complete as far as the code has state to explore, and every safety property
of it is proved. Nothing of the plan is left; what would change it is code that is
written but not called yet (the throttle, STARTTLS, the pool and the connection
middleware in the server command) being put to use.

## Not modelled

* Configuration: read once by a library and then constant; its schema checks one field at
  a time.
* STARTTLS (`internal/tls`): no part of the program calls it.
* Connection throttle: two buckets of an external library; `ConnectionGuard` lets it
  answer anything.
* Web admin handlers other than health: most answer "not yet implemented", the proxy asks
  for routes (`/api/emails`) that the API does not have, the event stream is a heartbeat.
* The browser client, console commands that only read (status, check, show, validate),
  quickstart and the shell script, which call the commands modelled here.
* DKIM signing and DMARC reports, which no inbound message reaches.
* Formatting, JSON, logging, and metrics the program never reads; the character rules of
  the validators; cryptography and the DNS, TLS and ACME libraries. Power loss.
