--------------------------- MODULE Authentication ---------------------------
(***************************************************************************)
(* Sender authentication of one inbound message (internal/auth) and what   *)
(* the mail API does with its outcome (internal/api/server.go): SPF, then  *)
(* DKIM, then DMARC, each if enabled, then the action.                     *)
(*                                                                         *)
(* checkSPF is recursive; its activations are the frames of `walk`, the    *)
(* innermost first, and every mechanism is a step, because each may ask    *)
(* DNS, which may fail.  A domain is its tuple of labels.  The DKIM and    *)
(* DMARC libraries are external: a verification and a policy lookup return *)
(* anything they can return.                                               *)
(***************************************************************************)
EXTENDS Naturals, Sequences, FiniteSetsExt

CONSTANTS
  TwoPartTLDs,   \* the suffixes that getOrganizationalDomain knows
  Zones,         \* the possible contents of DNS, as far as SPF reads it
  Policies,      \* DMARC records
  Signatures,    \* what the DKIM library may say of a message
  Configs,       \* [spf, dkim, dmarc, enforcement] of the server
  MailFroms,     \* MAIL FROM addresses
  Froms,         \* From headers: whether it parses as an address, and what
                 \* follows its @ signs
  Nil,           \* no domain, no result, no policy, no parsed header
  MaxDepth       \* bound on the nesting of checkSPF

\* The mechanisms of a record in DNS z: an include names a domain that DNS
\* knows, if only to say that it has no record.
Qualifiers == {"", "+", "-", "~", "?"}
Mechanisms(z) ==
  [kind : {"all", "a", "mx", "other"}, q : Qualifiers]
  \cup [kind : {"ip4", "ip6"}, q : Qualifiers, match : BOOLEAN]
  \cup [kind : {"include"}, q : Qualifiers, domain : DOMAIN z]

ASSUME ZoneAssumption ==
  \A z \in Zones : \A d \in DOMAIN z :
    /\ z[d].txt \in {"spf", "other", "absent"}
    /\ z[d].rec \in Seq(Mechanisms(z))

ASSUME MessageAssumption ==
  /\ MailFroms \subseteq Seq(Seq(STRING))
  /\ \A a \in MailFroms, z \in Zones : Len(a) = 1 => a[1] \in DOMAIN z
  /\ Froms \subseteq [address : BOOLEAN, ats : Seq(Seq(STRING))]
  /\ Signatures \subseteq Seq([domain : Seq(STRING), err : STRING])

ASSUME ConfigAssumption ==
  Configs \subseteq [spf : BOOLEAN, dkim : BOOLEAN, dmarc : BOOLEAN,
                     enforcement : {"none", "relaxed", "strict"}]

SPFResults == {"pass", "fail", "softfail", "neutral", "none", "temperror"}

ASSUME NilAssumption ==
  /\ Nil \notin Policies /\ Nil \notin Froms /\ Nil \notin Seq(STRING)
  /\ \A z \in Zones : \A d \in DOMAIN z : z[d].rec # Nil
  /\ Nil \notin [result : SPFResults, domain : {"helo"} \cup Seq(STRING)]

ASSUME BoundAssumption == MaxDepth \in Nat

VARIABLES
  zone,      \* domain -> [txt, rec, host]: see LookupSPF, Matches
  config,
  mailFrom,  \* the MAIL FROM address: the domains after its @ signs
  from,      \* the From header; Nil if the message does not parse
  pc,        \* the step VerifyInbound is at
  walk,      \* activations of checkSPF: [domain, rest]
  spf, dkim, dmarc,  \* the three results; Nil while there is none
  sigs, policy,      \* what the libraries found
  faulty,    \* a lookup for SPF has failed
  action, pass,      \* of the AuthenticationResult
  outcome    \* of the request: "none", "stored", "marked" or "refused"

dns == <<zone, config, mailFrom, from>>
vars == <<zone, config, mailFrom, from, pc, walk, spf, dkim, dmarc, sigs,
          policy, faulty, action, pass, outcome>>

-----------------------------------------------------------------------------
\* The domain of the From header.  An address with another @, which is in its
\* quoted local part, has none; if the header does not parse as one address,
\* what follows the last @ is taken.
ExtractDomainFromHeader(h) ==
  IF h.ats = <<>> \/ (h.address /\ Len(h.ats) # 1) THEN Nil
                                                  ELSE h.ats[Len(h.ats)]

\* The domain of the MAIL FROM address: there is none in an empty one, or in one
\* with more than one @.
ExtractDomain(a) == IF Len(a) = 1 THEN a[1] ELSE Nil

Sender == ExtractDomain(mailFrom)

\* lookupSPF, when DNS answers: an error if the name has no TXT record at all
\* ("absent"), no record if none of them is an SPF record ("other").
LookupSPF(z, d) == IF z[d].txt = "spf" THEN z[d].rec ELSE Nil

\* The result of an all mechanism, by its qualifier.
AllResult(q) ==
  CASE q \in {"", "+"} -> "pass" [] q = "-" -> "fail"
    [] q = "~" -> "softfail" [] q = "?" -> "neutral"

\* checkIP4, checkIP6: the address is in the given network.
\* checkA, checkMX: it is one of the domain's own.
Matches(z, d, mech) ==
  IF mech.kind \in {"ip4", "ip6"} THEN mech.match
                                  ELSE mech.kind \in z[d].host

\* What a mechanism other than include says of the sender: "skip" to go on.
Decide(z, d, mech) ==
  CASE mech.kind = "all" -> AllResult(mech.q)
    [] mech.kind \in {"ip4", "ip6", "a", "mx"} /\ mech.q \in {"", "+"}
         -> IF Matches(z, d, mech) THEN "pass" ELSE "skip"
    [] mech.kind = "ip4" /\ mech.q = "-"
         -> IF Matches(z, d, mech) THEN "fail" ELSE "skip"
    [] OTHER -> "skip"

\* An include is recognised without a qualifier only.
IsInclude(mech) == mech.kind = "include" /\ mech.q = ""

\* The mechanisms that ask DNS.
Asks(mech) == mech.kind \in {"a", "mx"} /\ mech.q \in {"", "+"}

-----------------------------------------------------------------------------
Init ==
  /\ zone \in Zones /\ config \in Configs
  /\ mailFrom \in MailFroms
  /\ from \in Froms \cup {Nil}
  /\ pc = "start" /\ walk = <<>>
  /\ spf = Nil /\ dkim = <<>> /\ dmarc = "off"
  /\ sigs = <<>> /\ policy = Nil
  /\ faulty = FALSE /\ action = "accept" /\ pass = FALSE /\ outcome = "none"

\* The next verification that is enabled.
AfterSPF == IF config.dkim THEN "dkim" ELSE "dmarc"

\* VerifyInbound reads the headers; a message that does not parse is accepted.
Begin ==
  /\ pc = "start"
  /\ pc' = CASE from = Nil -> "act"
             [] from # Nil /\ config.spf -> "spf"
             [] OTHER -> AfterSPF
  /\ UNCHANGED <<dns, walk, spf, dkim, dmarc, sigs, policy, faulty, action,
                 pass, outcome>>

\* SPFVerifier.Verify ends with a result.
EndSPF(r, d) ==
  /\ spf' = [result |-> r, domain |-> d]
  /\ walk' = <<>> /\ pc' = AfterSPF
  /\ UNCHANGED <<dns, dkim, dmarc, sigs, policy, action, pass, outcome>>

\* Verify up to the call of checkSPF.  A failed lookup is a temporary error.
VerifySPF ==
  /\ pc = "spf" /\ walk = <<>>
  /\ \/ Sender = Nil /\ EndSPF("none", "helo") /\ UNCHANGED faulty
     \/ Sender # Nil /\ EndSPF("temperror", Sender) /\ faulty' = TRUE
     \/ Sender # Nil /\ zone[Sender].txt = "other"
        /\ EndSPF("none", Sender) /\ UNCHANGED faulty
     \/ /\ Sender # Nil /\ LookupSPF(zone, Sender) # Nil
        /\ walk' = <<[domain |-> Sender, rest |-> LookupSPF(zone, Sender)]>>
        /\ UNCHANGED <<dns, pc, spf, dkim, dmarc, sigs, policy, faulty, action,
                       pass, outcome>>

\* Mutant: an included record that fails makes the including one fail.
Return_AnyResult(r) == EndSPF(r, Sender)

\* checkSPF returns r: the innermost activation ends, and a pass ends those
\* that included it with a pass as well.
Return(r) ==
  \/ (Len(walk) = 1 \/ r = "pass") /\ EndSPF(r, Sender)
  \/ /\ Len(walk) > 1 /\ r # "pass"
     /\ walk' = Tail(walk)
     /\ UNCHANGED <<dns, pc, spf, dkim, dmarc, sigs, policy, action, pass,
                    outcome>>

\* The innermost activation goes on with the next mechanism.
Skip ==
  /\ walk' = [walk EXCEPT ![1].rest = Tail(@)]
  /\ UNCHANGED <<dns, pc, spf, dkim, dmarc, sigs, policy, action, pass, outcome>>

\* One round of checkSPF's loop over a mechanism that is not an include.  A
\* failed lookup is no match.
CheckMechanism ==
  /\ walk # <<>> /\ walk[1].rest # <<>>
  /\ LET mech == Head(walk[1].rest)
         r == Decide(zone, walk[1].domain, mech) IN
     /\ ~IsInclude(mech)
     /\ \/ /\ IF r = "skip" THEN Skip ELSE Return(r)
           /\ UNCHANGED faulty
        \/ Asks(mech) /\ Skip /\ faulty' = TRUE

\* Mutant: an include whose lookup fails is tried again until it answers.
CheckInclude_Retried ==
  /\ walk # <<>> /\ walk[1].rest # <<>> /\ IsInclude(Head(walk[1].rest))
  /\ LET d == Head(walk[1].rest).domain IN
     \/ zone[d].txt = "other" /\ Skip /\ UNCHANGED faulty
     \/ /\ LookupSPF(zone, d) # Nil /\ Len(walk) < MaxDepth
        /\ walk' = <<[domain |-> d, rest |-> LookupSPF(zone, d)]>>
                     \o [walk EXCEPT ![1].rest = Tail(@)]
        /\ UNCHANGED <<dns, pc, spf, dkim, dmarc, sigs, policy, faulty, action,
                       pass, outcome>>

\* An include: checkSPF calls itself for the included domain if that has a
\* record.
CheckInclude ==
  /\ walk # <<>> /\ walk[1].rest # <<>> /\ IsInclude(Head(walk[1].rest))
  /\ LET d == Head(walk[1].rest).domain
         rec == LookupSPF(zone, d) IN
     \/ Skip /\ faulty' = TRUE
     \/ zone[d].txt = "other" /\ Skip /\ UNCHANGED faulty
     \/ /\ rec # Nil /\ Len(walk) < MaxDepth
        /\ walk' = <<[domain |-> d, rest |-> rec]>>
                     \o [walk EXCEPT ![1].rest = Tail(@)]
        /\ UNCHANGED <<dns, pc, spf, dkim, dmarc, sigs, policy, faulty, action,
                       pass, outcome>>

\* No mechanism is left.
EndOfRecord ==
  /\ walk # <<>> /\ walk[1].rest = <<>>
  /\ Return("neutral")
  /\ UNCHANGED faulty

-----------------------------------------------------------------------------
\* The result of one signature that the library has verified.
SignatureResult(s) ==
  CASE s.err = "" -> "pass"
    [] s.err = "key not found" -> "permerror"
    [] s.err = "DNS" -> "temperror"
    [] OTHER -> "fail"

\* DKIMVerifier.Verify: no results after an error of the library, a single
\* "none" for a message that is not signed.
VerifyDKIM ==
  /\ pc = "dkim"
  /\ pc' = "dmarc"
  /\ \/ UNCHANGED <<sigs, dkim>>
     \/ \E s \in Signatures :
          /\ sigs' = s
          /\ dkim' = IF s = <<>> THEN <<[result |-> "none", domain |-> Nil]>>
                     ELSE [i \in DOMAIN s |-> [result |-> SignatureResult(s[i]),
                                               domain |-> s[i].domain]]
  /\ UNCHANGED <<dns, walk, spf, dmarc, policy, faulty, action, pass, outcome>>

\* getOrganizationalDomain: the last two labels, or three under a suffix of
\* two parts.
GetOrganizationalDomain(d) ==
  LET n == Len(d) IN
  CASE n >= 3 /\ <<d[n-1], d[n]>> \in TwoPartTLDs -> SubSeq(d, n - 2, n)
    [] n >= 2 /\ ~(n >= 3 /\ <<d[n-1], d[n]>> \in TwoPartTLDs)
         -> SubSeq(d, n - 1, n)
    [] OTHER -> d

OrganizationalDomainsMatch(d1, d2) ==
  GetOrganizationalDomain(d1) = GetOrganizationalDomain(d2)

\* checkSPFAlignment, checkDKIMAlignment
Aligned(mode, d, r) ==
  /\ r.result = "pass"
  /\ IF mode = "strict" THEN d = r.domain
                        ELSE OrganizationalDomainsMatch(d, r.domain)

CheckSPFAlignment(d, record) == spf # Nil /\ Aligned(record.aspf, d, spf)

\* Mutant: a signature aligns whatever the record's mode is.
CheckDKIMAlignment_AlwaysRelaxed(d, record) ==
  \E i \in DOMAIN dkim : Aligned("relaxed", d, dkim[i])

CheckDKIMAlignment(d, record) ==
  \E i \in DOMAIN dkim : Aligned(record.adkim, d, dkim[i])

\* DMARCResult.GetPolicy and the action VerifyInbound takes on a failure.
PolicyAction(record) ==
  CASE record.policy = "reject" /\ config.enforcement = "strict" -> "reject"
    [] record.policy = "quarantine" /\ config.enforcement # "none" -> "quarantine"
    [] OTHER -> "accept"

\* DMARCVerifier.Verify and the action; the policy is looked up at the From
\* domain alone.
VerifyDMARC ==
  LET d == ExtractDomainFromHeader(from) IN
  /\ pc = "dmarc"
  /\ pc' = "act"
  /\ \/ /\ ~config.dmarc \/ d = Nil
        /\ UNCHANGED <<dmarc, policy, action>>
     \/ /\ config.dmarc /\ d # Nil
        /\ dmarc' \in {"none", "temperror"}
        /\ UNCHANGED <<policy, action>>
     \/ /\ config.dmarc /\ d # Nil
        /\ \E record \in Policies :
             /\ policy' = record
             /\ dmarc' = IF CheckSPFAlignment(d, record)
                            \/ CheckDKIMAlignment(d, record)
                           THEN "pass" ELSE "fail"
             /\ action' = IF dmarc' = "fail" THEN PolicyAction(record) ELSE action
  /\ UNCHANGED <<dns, walk, spf, dkim, sigs, faulty, pass, outcome>>

\* determineOverallPass
DetermineOverallPass ==
  \/ dmarc = "pass"
  \/ spf # Nil /\ spf.result = "pass"
  \/ \E i \in DOMAIN dkim : dkim[i].result = "pass"

\* The end of VerifyInbound, and the server: it refuses a message, stores it
\* with a quarantine header, or stores it.
Act ==
  /\ pc = "act" /\ pc' = "done"
  /\ pass' = (from # Nil /\ DetermineOverallPass)
  /\ outcome' = CASE action = "reject" -> "refused"
                  [] action = "quarantine" -> "marked"
                  [] OTHER -> "stored"
  /\ UNCHANGED <<dns, walk, spf, dkim, dmarc, sigs, policy, faulty, action>>

Next ==
  \/ Begin \/ VerifySPF
  \/ CheckMechanism \/ CheckInclude \/ EndOfRecord
  \/ VerifyDKIM \/ VerifyDMARC \/ Act

Spec == Init /\ [][Next]_vars

\* The handler runs on: every lookup answers or times out.
FairSpec == Spec /\ WF_vars(Next)

-----------------------------------------------------------------------------
\* SPF as its records mean it, without a walk: a record's result is that of
\* the first mechanism that decides, an include decides (pass) if the
\* included domain is among those that pass, and P is that set of domains.
Deciding(z, d, P) ==
  {i \in DOMAIN z[d].rec :
     LET mech == z[d].rec[i] IN
     \/ Decide(z, d, mech) # "skip"
     \/ IsInclude(mech) /\ mech.domain \in P}

RecordResult(z, d, P) ==
  IF Deciding(z, d, P) = {} THEN "neutral"
  ELSE LET mech == z[d].rec[Min(Deciding(z, d, P))]
       IN IF IsInclude(mech) THEN "pass" ELSE Decide(z, d, mech)

HasRecord(z, d) == z[d].txt = "spf"

\* The domains that authorise the sender: with acyclic includes there is one
\* such set.
Authorising(z) ==
  CHOOSE P \in SUBSET DOMAIN z :
    P = {d \in DOMAIN z : HasRecord(z, d) /\ RecordResult(z, d, P) = "pass"}

\* The domains that d's record includes.
Included(z, d) ==
  IF HasRecord(z, d) THEN {z[d].rec[i].domain : i \in
         {j \in DOMAIN z[d].rec : IsInclude(z[d].rec[j])}}
  ELSE {}

Acyclic(z) ==
  \E rank \in [DOMAIN z -> 1..MaxDepth] :
    \A d \in DOMAIN z : \A e \in Included(z, d) : rank[e] < rank[d]

\* The walk of checkSPF, with its nested activations, computes what the
\* records mean; and lookups that fail, in any combination and at any depth,
\* never make a sender pass that the records do not authorise.
SPFMatchesRecords ==
  Acyclic(zone) /\ spf # Nil /\ spf.result # "none" =>
    /\ spf.result = "pass" => Sender \in Authorising(zone)
    /\ ~faulty => spf.result = RecordResult(zone, Sender, Authorising(zone))

\* Two domains belong to the same organisation: they share a suffix that is
\* registered, which is one label below a public suffix.
Registered(s) ==
  \/ Len(s) = 2 /\ s \notin TwoPartTLDs
  \/ Len(s) = 3 /\ Tail(s) \in TwoPartTLDs

EndsWith(d, s) ==
  Len(s) <= Len(d) /\ SubSeq(d, Len(d) - Len(s) + 1, Len(d)) = s

SameOrganisation(d, e) ==
  \/ d = e
  \/ \E k \in 1..Len(d) :
       LET s == SubSeq(d, k, Len(d)) IN Registered(s) /\ EndsWith(e, s)

Vouches(mode, d, e) == IF mode = "strict" THEN d = e ELSE SameOrganisation(d, e)

\* The From domain is vouched for: by the records of the MAIL FROM domain or
\* by a valid signature.
Vouched(d) ==
  \/ /\ config.spf /\ Sender # Nil /\ Sender \in Authorising(zone)
     /\ Vouches(policy.aspf, d, Sender)
  \/ \E i \in DOMAIN sigs : sigs[i].err = "" /\ Vouches(policy.adkim, d, sigs[i].domain)

\* What happens to a message is what the policy of its From domain asks for:
\* it is refused or marked only if no domain vouches for it that is aligned in
\* the way the record says, unless a lookup failed, and a message that nobody
\* vouches for gets what the policy and the enforcement say, whatever fails.
\* Where no policy is found it is stored, whatever SPF said: DMARC is off, the
\* lookup brings none, or ExtractDomainFromHeader gives no domain to look at.
\* (docs/security.md describes other levels of enforcement than the code has: an
\* SPF level, and strict as "exact domain matching".  The record decides on
\* alignment, and SPF alone refuses nothing.)
DispositionFollowsPolicy ==
  LET d == ExtractDomainFromHeader(from) IN
  Acyclic(zone) /\ pc = "done" =>
    IF policy = Nil THEN outcome = "stored"
    ELSE /\ ~Vouched(d) =>
              outcome = CASE PolicyAction(policy) = "reject" -> "refused"
                          [] PolicyAction(policy) = "quarantine" -> "marked"
                          [] OTHER -> "stored"
         /\ Vouched(d) /\ ~faulty => outcome = "stored"

\* Verification ends, and the request with it, whatever lookups fail, if no
\* record includes itself.
VerificationEnds == Acyclic(zone) ~> pc = "done"
=============================================================================
