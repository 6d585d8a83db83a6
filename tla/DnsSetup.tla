------------------------------ MODULE DnsSetup ------------------------------
(***************************************************************************)
(* `mailserver dns create` and the hostname step of `mailserver install`:  *)
(* the records of a mail domain at DigitalOcean, the name of the droplet,  *)
(* from which its PTR record follows, and the names of the host itself     *)
(* (internal/commands/dns.go and install.go, internal/digitalocean).       *)
(*                                                                         *)
(* A command is a plan of steps, and a step a few calls of the API, each   *)
(* of which the model takes apart from what the program does between them. *)
(* A call may be refused, may be done and its answer lost, or may be given *)
(* up after 30 s and be done later.  Commands run at the same time.        *)
(***************************************************************************)
EXTENDS Naturals, Sequences, FiniteSets

CONSTANTS
  Runners,      \* administrators, each running one command at a time
  Domains,      \* mail domains
  BaseDomain,   \* getBaseDomain of the mail hostname: its last two labels
  HostLabel,    \* for each domain that the mail hostname is a name in, that
                \* name: what comes before "." and the domain
  KeptNames,    \* names that are "@" or begin with "mail"
  ZonesAtStart, \* initial contents of the zones: sets of records
  HostsAtStart, \* initial contents of /etc/hosts: sequences of lines
  FirstFree,    \* the first id the service gives to a new record
  PageSize,     \* records in one answer of the API
  MaxCommands, MaxFaults   \* bounds on commands run and calls that fail

ASSUME BoundAssumption ==
  /\ FirstFree \in Nat \ {0}
  /\ PageSize \in Nat /\ MaxCommands \in Nat /\ MaxFaults \in Nat

\* The records of a zone have ids of their own; new ones get ids from
\* FirstFree.
Records == [type : STRING, name : STRING, data : STRING]

ASSUME ZoneAssumption ==
  /\ BaseDomain \in Domains /\ "@" \in KeptNames
  /\ DOMAIN HostLabel \subseteq Domains
  /\ ZonesAtStart \subseteq
       [Domains -> SUBSET [id : 1..(FirstFree - 1), rec : Records]]
  /\ \A z \in ZonesAtStart : \A d \in Domains :
       \A r, s \in z[d] : r.id = s.id => r = s

\* The lines of /etc/hosts: "self" and "oldself" for 127.0.1.1 with the mail
\* hostname and with another; "local" and "bare" for 127.0.0.1 with and without
\* localhost; "note" for a comment with 127.0.0.1 in it; "other".
Lines == {"self", "oldself", "local", "bare", "note", "other"}

ASSUME HostsAssumption == HostsAtStart \subseteq Seq(Lines)

VARIABLES
  api,       \* the service: [exists, recs, next]
  late,      \* requests given up by the client, not yet done
  droplet,   \* the droplet's name: "old" or "new", the mail hostname
  hostname,  \* the host's name and /etc/hostname
  etc, hosts,      \* /etc/hostname; the lines of /etc/hosts
  plan,      \* steps each runner's command has left
  at,        \* where it is in the first of them
  found,     \* what it has read for it
  commands, faults,   \* counters for the bounds
  hosts0,    \* /etc/hosts at the start
  published, \* domains for which a command has reported success
  orderly    \* no overlap, no late request, no truncated answer so far

local == <<droplet, hostname, etc, hosts>>
progress == <<plan, at, found>>
vars == <<api, late, droplet, hostname, etc, hosts, plan, at, found, commands,
          faults, hosts0, published, orderly>>

Rec(type, name, data) == [type |-> type, name |-> name, data |-> data]
Same(r, s) == r.type = s.type /\ r.name = s.name

-----------------------------------------------------------------------------
\* The service.  A new domain gets an A record and the service's NS records.
NewRecords == <<Rec("A", "@", "ip"), Rec("NS", "@", "ns1"),
                Rec("NS", "@", "ns2"), Rec("NS", "@", "ns3")>>

Apply(s, q) ==
  CASE q.do = "domain" /\ q.zone \notin s.exists ->
         [exists |-> s.exists \cup {q.zone}, next |-> s.next + 4,
          recs |-> [s.recs EXCEPT ![q.zone] =
                      {[id |-> s.next + i - 1, rec |-> NewRecords[i]] : i \in 1..4}]]
    [] q.do = "create" ->
         [s EXCEPT !.next = @ + 1,
                   !.recs[q.zone] = @ \cup {[id |-> s.next, rec |-> q.rec]}]
    [] q.do = "update" ->
         [s EXCEPT !.recs[q.zone] =
            {IF r.id = q.id THEN [r EXCEPT !.rec = q.rec] ELSE r : r \in @}]
    [] q.do = "delete" ->
         [s EXCEPT !.recs[q.zone] = {r \in @ : r.id # q.id}]
    [] OTHER -> s

\* It answers with an error if the record is not there.
Accepts(q) ==
  q.do \in {"update", "delete"} => \E r \in api.recs[q.zone] : r.id = q.id

\* doRequest for a request that changes something: TRUE as the client sees it.
Call(q, ok) ==
  \/ /\ ok /\ Accepts(q)
     /\ api' = Apply(api, q)
     /\ UNCHANGED <<late, faults, orderly>>
  \/ /\ ~ok /\ ~Accepts(q)
     /\ UNCHANGED <<api, late, faults, orderly>>
  \/ /\ ~ok /\ faults < MaxFaults
     /\ faults' = faults + 1
     /\ \/ UNCHANGED <<api, late, orderly>>
        \/ api' = Apply(api, q) /\ UNCHANGED <<late, orderly>>
        \/ late' = late \cup {q} /\ orderly' = FALSE /\ UNCHANGED api

\* A request that only reads.
Read(ok) ==
  /\ UNCHANGED <<api, late>>
  /\ \/ ok /\ UNCHANGED faults
     \/ ~ok /\ faults < MaxFaults /\ faults' = faults + 1

\* A request that its client gave up is done after all.
LateRequest ==
  \E q \in late :
    /\ late' = late \ {q}
    /\ api' = Apply(api, q)
    /\ UNCHANGED <<local, progress, commands, faults, hosts0, published, orderly>>

\* GetDNSRecords: the first page.
GetDNSRecords(z) ==
  LET recs == api.recs[z] IN
  IF Cardinality(recs) <= PageSize THEN {recs}
  ELSE {page \in SUBSET recs : Cardinality(page) = PageSize}

-----------------------------------------------------------------------------
\* The steps of SetupInfraDNS, SetupMailDNS and SetupPTRRecord.
Step(do, z, rec, infra) == [do |-> do, zone |-> z, rec |-> rec, infra |-> infra]
NoRec == Rec("", "", "")

\* The mail host's A record, in a domain that its name is in.
InHost(z) == z \in DOMAIN HostLabel
HostRecord(z) == Rec("A", HostLabel[z], "ip")

\* Mutant: only the base domain is taken for one that the host is in.
ARecord_BaseOnly(z, infra) ==
  IF z = BaseDomain THEN <<Step("upsert", z, HostRecord(z), infra)>> ELSE <<>>

ARecord(z, infra) ==
  IF InHost(z) THEN <<Step("upsert", z, HostRecord(z), infra)>> ELSE <<>>

\* A hostname that is not in its own base domain, since it is that domain, is
\* an error once the zone has been set up, and that is a warning only.
SetupInfraDNS == <<Step("zone", BaseDomain, NoRec, TRUE)>> \o ARecord(BaseDomain, TRUE)

MailRecords == <<Rec("MX", "@", "host"), Rec("TXT", "@", "spf"),
                 Rec("TXT", "_dmarc", "dmarc")>>

SetupMailDNS(d) ==
  <<Step("zone", d, NoRec, FALSE)>>
  \o ARecord(d, FALSE)
  \o [i \in 1..3 |-> Step("upsert", d, MailRecords[i], FALSE)]

PtrStep == Step("ptr", BaseDomain, NoRec, FALSE)

DnsCreate(d) ==
  (IF d = BaseDomain THEN <<>> ELSE SetupInfraDNS) \o SetupMailDNS(d) \o <<PtrStep>>

SetupHostnameAndPTR == <<Step("hostname", BaseDomain, NoRec, FALSE), PtrStep>>

Init ==
  /\ \E z \in ZonesAtStart :
       api = [exists |-> {d \in Domains : z[d] # {}},
              next |-> FirstFree, recs |-> z]
  /\ late = {} /\ droplet = "old" /\ hostname = "old" /\ etc = "old"
  /\ hosts \in HostsAtStart /\ hosts0 = hosts
  /\ plan = [p \in Runners |-> <<>>]
  /\ at = [p \in Runners |-> "idle"]
  /\ found = [p \in Runners |-> {}]
  /\ commands = 0 /\ faults = 0 /\ published = {} /\ orderly = TRUE

Start(p) ==
  /\ at[p] = "idle" /\ commands < MaxCommands
  /\ commands' = commands + 1
  /\ at' = [at EXCEPT ![p] = "begin"]
  /\ \/ \E d \in Domains : plan' = [plan EXCEPT ![p] = DnsCreate(d)]
     \/ plan' = [plan EXCEPT ![p] = SetupHostnameAndPTR]
  /\ orderly' = (orderly /\ \A q \in Runners \ {p} : at[q] = "idle")
  /\ UNCHANGED <<api, late, local, found, faults, hosts0, published>>

Goto(p, where, what) ==
  /\ at' = [at EXCEPT ![p] = where]
  /\ found' = [found EXCEPT ![p] = what]
  /\ UNCHANGED <<plan, published>>

\* The step is done, or has failed with a warning only.  The command reports
\* success for its mail domain once its records are written.
StepDone(p) ==
  /\ plan' = [plan EXCEPT ![p] = Tail(@)]
  /\ at' = [at EXCEPT ![p] = IF Len(plan[p]) = 1 THEN "idle" ELSE "begin"]
  /\ found' = [found EXCEPT ![p] = {}]
  /\ published' = IF Head(plan[p]).rec = MailRecords[3]
                    THEN published \cup {Head(plan[p]).zone} ELSE published

\* The step fails: SetupInfraDNS, of two steps, with a warning, SetupMailDNS and
\* with it the command with an error.
StepFails(p) ==
  LET rest == IF plan[p][2].infra THEN Tail(Tail(plan[p])) ELSE Tail(plan[p]) IN
  /\ found' = [found EXCEPT ![p] = {}]
  /\ UNCHANGED published
  /\ IF Head(plan[p]).infra
       THEN plan' = [plan EXCEPT ![p] = rest] /\ at' = [at EXCEPT ![p] = "begin"]
       ELSE plan' = [plan EXCEPT ![p] = <<>>] /\ at' = [at EXCEPT ![p] = "idle"]

Doing(p, do, where) ==
  at[p] = where /\ plan[p] # <<>> /\ Head(plan[p]).do = do

-----------------------------------------------------------------------------
\* CheckDomainExists
CheckDomainExists(p) ==
  /\ Doing(p, "zone", "begin")
  /\ \/ Read(TRUE)
        /\ Goto(p, IF Head(plan[p]).zone \in api.exists THEN "list" ELSE "make", {})
     \/ Read(FALSE) /\ StepFails(p)
  /\ UNCHANGED <<local, commands, hosts0, orderly>>

\* CreateDomain: that the domain exists already is no error.
CreateDomain(p) ==
  /\ Doing(p, "zone", "make")
  /\ \E ok \in BOOLEAN :
       /\ Call([do |-> "domain", zone |-> Head(plan[p]).zone], ok)
       /\ IF ok THEN StepDone(p) ELSE StepFails(p)
  /\ UNCHANGED <<local, commands, hosts0>>

\* Mutant: every A record that is not ours to keep is taken for a legacy one.
Legacy_AnyAddress(r) == r.rec.type = "A" /\ r.rec.name \notin KeptNames

\* The A records CleanupLegacyARecords takes for remains of an earlier name.
Legacy(r) ==
  r.rec.type = "A" /\ r.rec.data = "ip" /\ r.rec.name \notin KeptNames

\* CleanupLegacyARecords lists the records ...
ListLegacy(p) ==
  /\ Doing(p, "zone", "list")
  /\ \/ /\ Read(TRUE)
        /\ \E page \in GetDNSRecords(Head(plan[p]).zone) :
             /\ Goto(p, "delete", {r.id : r \in {s \in page : Legacy(s)}})
             /\ orderly' = (orderly /\ page = api.recs[Head(plan[p]).zone])
     \/ Read(FALSE) /\ StepDone(p) /\ UNCHANGED orderly
  /\ UNCHANGED <<local, commands, hosts0>>

\* ... and deletes those, one by one and whatever becomes of each.
DeleteLegacy(p) ==
  /\ Doing(p, "zone", "delete") /\ found[p] # {}
  /\ LET id == CHOOSE i \in found[p] : \A j \in found[p] : i <= j IN
     /\ \E ok \in BOOLEAN :
          Call([do |-> "delete", zone |-> Head(plan[p]).zone, id |-> id], ok)
     /\ Goto(p, "delete", found[p] \ {id})
  /\ UNCHANGED <<local, commands, hosts0>>

CleanupDone(p) ==
  /\ Doing(p, "zone", "delete") /\ found[p] = {}
  /\ StepDone(p)
  /\ UNCHANGED <<api, late, local, commands, faults, hosts0, orderly>>

\* UpsertDNSRecord: FindDNSRecord takes the first record of the type and name,
\* in the order of the service ...
FindDNSRecord(p) ==
  /\ Doing(p, "upsert", "begin")
  /\ \/ /\ Read(TRUE)
        /\ \E page \in GetDNSRecords(Head(plan[p]).zone) :
             LET same == {r \in page : Same(r.rec, Head(plan[p]).rec)} IN
             /\ \/ same = {} /\ Goto(p, "write", {})
                \/ \E r \in same : Goto(p, "write", {r.id})
             /\ orderly' = (orderly /\ page = api.recs[Head(plan[p]).zone])
     \/ Read(FALSE) /\ StepFails(p) /\ UNCHANGED orderly
  /\ UNCHANGED <<local, commands, hosts0>>

\* Mutant: a record is created whether or not one was found.
WriteRequest_Create(p) ==
  [do |-> "create", zone |-> Head(plan[p]).zone, rec |-> Head(plan[p]).rec]

\* ... and it is updated, or created.
WriteRequest(p) ==
  LET step == Head(plan[p]) IN
  IF found[p] = {} THEN [do |-> "create", zone |-> step.zone, rec |-> step.rec]
  ELSE [do |-> "update", zone |-> step.zone, id |-> CHOOSE i \in found[p] : TRUE,
        rec |-> step.rec]

WriteDNSRecord(p) ==
  /\ Doing(p, "upsert", "write")
  /\ \E ok \in BOOLEAN :
       Call(WriteRequest(p), ok) /\ IF ok THEN StepDone(p) ELSE StepFails(p)
  /\ UNCHANGED <<local, commands, hosts0>>

-----------------------------------------------------------------------------
\* SetupPTRRecord: GetCurrentDroplet finds the droplet by the host's address
\* or fails; one that has the name already is left alone ...
GetCurrentDroplet(p) ==
  /\ Doing(p, "ptr", "begin")
  /\ \/ Read(FALSE) /\ StepDone(p)
     \/ Read(TRUE) /\ droplet = "new" /\ StepDone(p)
     \/ Read(TRUE) /\ droplet # "new" /\ Goto(p, "rename", {})
  /\ UNCHANGED <<local, commands, hosts0, orderly>>

\* ... and another is renamed, and the host with it.
RenameDroplet(p) ==
  /\ Doing(p, "ptr", "rename")
  /\ \/ Read(TRUE) /\ droplet' = "new" /\ Goto(p, "hostname", {})
     \/ Read(FALSE) /\ droplet' \in {droplet, "new"} /\ StepDone(p)
  /\ UNCHANGED <<hostname, etc, hosts, commands, hosts0, orderly>>

\* An error of updateLocalHostname is a warning in SetupPTRRecord and ends
\* setupHostnameAndPTR, of which the installer takes no notice.
HostnameFails(p) == IF Head(plan[p]).do = "ptr" THEN StepDone(p) ELSE StepFails(p)

InHostname(p, where) ==
  /\ at[p] # "idle"
  /\ Doing(p, "ptr", where) \/ Doing(p, "hostname", where)
       \/ (where = "hostname" /\ Doing(p, "hostname", "begin"))

\* updateLocalHostname: hostnamectl or hostname, /etc/hostname, and /etc/hosts
\* is read ...
UpdateLocalHostname(p) ==
  /\ InHostname(p, "hostname")
  /\ hostname' \in {hostname, "new"}
  /\ etc' \in IF hostname' = "new" THEN {etc, "new"} ELSE {etc}
  /\ \/ hostname' = "new" /\ etc' = "new" /\ Goto(p, "hosts", {hosts})
     \/ HostnameFails(p)
  /\ UNCHANGED <<api, late, droplet, hosts, commands, faults, hosts0, orderly>>

\* Mutant: a line for the host is added even if there is one.
UpdateEtcHosts_Adds(lines) ==
  LET here == {i \in DOMAIN lines : lines[i] \in {"local", "note"}} IN
  IF here = {} THEN lines
  ELSE LET i == CHOOSE i \in here : \A j \in here : i <= j IN
       SubSeq(lines, 1, i) \o <<"self">> \o SubSeq(lines, i + 1, Len(lines))

\* updateEtcHosts: the host's line gets the new name, or is added after the
\* first line with localhost.
UpdateEtcHosts(lines) ==
  LET new == [i \in DOMAIN lines |->
                CASE lines[i] = "oldself" -> "self"
                  [] lines[i] = "bare" -> "local"
                  [] OTHER -> lines[i]]
      here == {i \in DOMAIN new : new[i] \in {"local", "note"}}
  IN IF here = {} \/ \E i \in DOMAIN new : new[i] = "self" THEN new
     ELSE LET i == CHOOSE i \in here : \A j \in here : i <= j IN
          SubSeq(new, 1, i) \o <<"self">> \o SubSeq(new, i + 1, Len(new))

\* ... and written; a write that fails may leave nothing in the file.
WriteEtcHosts(p) ==
  /\ InHostname(p, "hosts")
  /\ \/ (\E lines \in found[p] : hosts' = UpdateEtcHosts(lines)) /\ StepDone(p)
     \/ hosts' \in {hosts, <<>>} /\ HostnameFails(p)
  /\ UNCHANGED <<api, late, droplet, hostname, etc, commands, faults, hosts0, orderly>>

Next ==
  \/ LateRequest
  \/ \E p \in Runners :
       \/ Start(p)
       \/ CheckDomainExists(p) \/ CreateDomain(p)
       \/ ListLegacy(p) \/ DeleteLegacy(p) \/ CleanupDone(p)
       \/ FindDNSRecord(p) \/ WriteDNSRecord(p)
       \/ GetCurrentDroplet(p) \/ RenameDroplet(p)
       \/ UpdateLocalHostname(p) \/ WriteEtcHosts(p)

Spec == Init /\ [][Next]_vars

-----------------------------------------------------------------------------
\* A domain for which `dns create` has reported success has its MX, SPF and
\* DMARC records, and the mail host's A record if the host has a name in it, and
\* keeps them: no other command that runs at the same time or later, and fails
\* anywhere, and no request that comes late takes them away.
PublishedStaysPublished ==
  \A d \in published :
    LET have == {r.rec : r \in api.recs[d]} IN
    /\ {MailRecords[i] : i \in 1..3} \subseteq have
    /\ InHost(d) => HostRecord(d) \in have

\* Commands that run one after another, and fail anywhere, with answers that
\* are lost after the record was written, never put a record beside one of its
\* type and name: what they find they replace, however often they are run.
AddsNoDuplicate ==
  [][orderly' => \A d \in api.exists : \A r, t \in api'.recs[d] :
       Same(r.rec, t.rec) /\ r # t => \E u \in api.recs[d] : u.id = r.id]_vars

\* Nothing is lost from a zone but what the cleanup may delete and what an
\* upsert may replace: other records are untouched by every step.
Ours(r) ==
  \E t \in {MailRecords[i] : i \in 1..3} \cup {HostRecord(z) : z \in DOMAIN HostLabel} :
    Same(r.rec, t)

ForeignRecordsKept ==
  [][\A d \in Domains : \A r \in api.recs[d] :
       r \in api'.recs[d] \/ Ours(r)
         \/ (r.rec.type = "A" /\ r.rec.data = "ip" /\ r.rec.name # "@")]_vars

\* /etc/hosts is rewritten at every run, by runs that overlap as well, and
\* changes once at most, unless a failed write has emptied it.
HostsConverge == hosts \in {<<>>, hosts0, UpdateEtcHosts(hosts0)}
=============================================================================
