------------------------ MODULE AuthenticationProofs ------------------------
(***************************************************************************)
(* Proofs about Authentication, for every content of DNS, every message    *)
(* and every sequence of failed lookups.                                   *)
(***************************************************************************)
EXTENDS Authentication, SequenceTheorems, WellFoundedInduction, TLAPS

\* The least element of a set of numbers, in place of induction: a property of
\* numbers that fails somewhere fails at a least place.
LEMMA Least ==
  ASSUME NEW T \in SUBSET Nat, T # {}
  PROVE  \E m \in T : \A k \in T : m <= k
<1>1. PICK m \in T : \A k \in T : <<k, m>> \notin OpToRel(<, Nat)
  BY WFMin, NatLessThanWellFounded
<1>2. \A k \in T : ~(k < m)
  BY <1>1 DEF OpToRel
<1> QED BY <1>2

\* Min is the least element.
LEMMA MinLeast ==
  ASSUME NEW T \in SUBSET Nat, T # {}
  PROVE  Min(T) \in T /\ \A k \in T : Min(T) <= k
BY Least DEF Min

-----------------------------------------------------------------------------
\* What records mean.

\* A DNS content whose records are sequences of mechanisms.
Proper(z) ==
  \A d \in DOMAIN z : z[d].rec \in Seq(Mechanisms(z)) /\ z[d].rec # Nil

\* Every initial content of the DNS has that shape.
LEMMA ZonesProper == \A z \in Zones : Proper(z)
BY ZoneAssumption, NilAssumption DEF Proper

\* The results of a mechanism that is not an include.
LEMMA DecideType ==
  ASSUME NEW z, NEW d, NEW m \in Mechanisms(z)
  PROVE  Decide(z, d, m) \in {"skip", "pass", "fail", "softfail", "neutral"}
BY DEF Decide, AllResult, Mechanisms, Qualifiers

\* A mechanism that can only say pass.
PassKind(z, d, m) == IsInclude(m) \/ Decide(z, d, m) = "pass"

\* A record without a deciding mechanism is neutral.
LEMMA NobodyDecides ==
  ASSUME NEW z, NEW d, NEW P, Deciding(z, d, P) = {}
  PROVE  RecordResult(z, d, P) = "neutral"
BY DEF RecordResult

\* Where the first deciding mechanism is.
LEMMA FirstDecides ==
  ASSUME NEW z, Proper(z), NEW d \in DOMAIN z, NEW P, Deciding(z, d, P) # {}
  PROVE  LET i == Min(Deciding(z, d, P)) IN
         /\ i \in Deciding(z, d, P)
         /\ \A j \in Deciding(z, d, P) : i <= j
         /\ RecordResult(z, d, P) = IF IsInclude(z[d].rec[i]) THEN "pass"
                                    ELSE Decide(z, d, z[d].rec[i])
<1>1. z[d].rec \in Seq(Mechanisms(z))
  BY DEF Proper
<1>2. Deciding(z, d, P) \in SUBSET Nat
  BY <1>1 DEF Deciding
<1> QED BY <1>2, MinLeast DEF RecordResult

\* The result of a record is that of a mechanism that decides if none before
\* it does.
LEMMA DecidesAt ==
  ASSUME NEW z, Proper(z), NEW d \in DOMAIN z, NEW P,
         NEW k \in Deciding(z, d, P),
         \A j \in Deciding(z, d, P) : k <= j
  PROVE  RecordResult(z, d, P) = IF IsInclude(z[d].rec[k]) THEN "pass"
                                 ELSE Decide(z, d, z[d].rec[k])
<1>1. z[d].rec \in Seq(Mechanisms(z))
  BY DEF Proper
<1>2. Deciding(z, d, P) \in SUBSET Nat
  BY <1>1 DEF Deciding
<1>3. Min(Deciding(z, d, P)) = k
  BY <1>2, FirstDecides
<1> QED BY <1>3, FirstDecides

\* A record passes if some mechanism decides and all that decide up to it can
\* only say pass.
LEMMA PassesAt ==
  ASSUME NEW z, Proper(z), NEW d \in DOMAIN z, NEW P,
         NEW k \in Deciding(z, d, P),
         \A j \in Deciding(z, d, P) : j <= k => PassKind(z, d, z[d].rec[j])
  PROVE  RecordResult(z, d, P) = "pass"
BY FirstDecides DEF PassKind

\* A record's result depends on its own includes only.
LEMMA ResultLocal ==
  ASSUME NEW z, NEW d \in DOMAIN z, HasRecord(z, d), NEW P, NEW Q,
         \A e \in Included(z, d) : e \in P <=> e \in Q
  PROVE  RecordResult(z, d, P) = RecordResult(z, d, Q)
<1>1. Deciding(z, d, P) = Deciding(z, d, Q)
  BY DEF Deciding, Included
<1> QED BY <1>1 DEF RecordResult

\* An include names a domain of DNS.
LEMMA IncludedKnown ==
  ASSUME NEW z, Proper(z), NEW d \in DOMAIN z, NEW i \in DOMAIN z[d].rec,
         IsInclude(z[d].rec[i])
  PROVE  z[d].rec[i].domain \in DOMAIN z
<1>1. z[d].rec[i] \in Mechanisms(z)
  BY DEF Proper
<1> QED BY <1>1 DEF Mechanisms, IsInclude

\* Solves(z, P): P is the set of the domains whose records pass if those are P.
Solves(z, P) ==
  P = {d \in DOMAIN z : HasRecord(z, d) /\ RecordResult(z, d, P) = "pass"}

\* The same for the domains up to a rank.
SolvesTo(z, rank, n, P) ==
  P = {d \in DOMAIN z : /\ rank[d] <= n /\ HasRecord(z, d)
                        /\ RecordResult(z, d, P) = "pass"}

\* A solution up to a rank gives one up to the next.
LEMMA SolutionGrows ==
  ASSUME NEW z, Proper(z), NEW rank \in [DOMAIN z -> Nat],
         \A d \in DOMAIN z : \A e \in Included(z, d) : rank[e] < rank[d],
         NEW n \in Nat, NEW P, SolvesTo(z, rank, n, P)
  PROVE  \E Q : SolvesTo(z, rank, n + 1, Q)
<1> DEFINE Q == {d \in DOMAIN z : /\ rank[d] <= n + 1 /\ HasRecord(z, d)
                                  /\ RecordResult(z, d, P) = "pass"}
<1>1. ASSUME NEW d \in DOMAIN z, rank[d] <= n + 1, HasRecord(z, d)
      PROVE  RecordResult(z, d, Q) = RecordResult(z, d, P)
  <2>1. \A e \in Included(z, d) : e \in DOMAIN z
    BY IncludedKnown DEF Included
  <2>2. \A e \in Included(z, d) : rank[e] \in Nat /\ rank[e] <= n
    BY <1>1, <2>1
  <2>3. \A e \in Included(z, d) : e \in Q <=> e \in P
    BY <2>1, <2>2 DEF SolvesTo
  <2> HIDE DEF Q
  <2> QED BY <1>1, <2>3, ResultLocal
<1>2. SolvesTo(z, rank, n + 1, Q)
  BY <1>1 DEF SolvesTo
<1> QED BY <1>2

\* Records whose includes are acyclic have a meaning.
LEMMA SolutionExists ==
  ASSUME NEW z, Proper(z), Acyclic(z)
  PROVE  \E P \in SUBSET DOMAIN z : Solves(z, P)
<1>1. PICK rank \in [DOMAIN z -> 1..MaxDepth] :
        \A d \in DOMAIN z : \A e \in Included(z, d) : rank[e] < rank[d]
  BY DEF Acyclic
<1>2. rank \in [DOMAIN z -> Nat] /\ \A d \in DOMAIN z : rank[d] >= 1 /\ rank[d] <= MaxDepth
  BY <1>1, BoundAssumption
<1> DEFINE Missing == {n \in Nat : ~\E P : SolvesTo(z, rank, n, P)}
<1>3. 0 \notin Missing
  <2>1. SolvesTo(z, rank, 0, {})
    BY <1>2 DEF SolvesTo
  <2> QED BY <2>1
<1>4. ASSUME NEW n \in Nat, n \notin Missing
      PROVE  n + 1 \notin Missing
  <2>1. PICK P : SolvesTo(z, rank, n, P)
    BY <1>4
  <2>2. \E Q : SolvesTo(z, rank, n + 1, Q)
    BY <1>1, <1>2, <2>1, SolutionGrows
  <2> QED BY <2>2
<1>5. Missing = {}
  <2>1. SUFFICES ASSUME Missing # {} PROVE FALSE
    OBVIOUS
  <2>2. PICK m \in Missing : \A k \in Missing : m <= k
    BY <2>1, Least
  <2>3. m \in Nat /\ m # 0
    BY <1>3
  <2>4. m - 1 \in Nat /\ m - 1 \notin Missing
    <3> HIDE DEF Missing
    <3> QED BY <2>2, <2>3
  <2>5. (m - 1) + 1 \notin Missing
    <3> HIDE DEF Missing
    <3> QED BY <1>4, <2>4
  <2> HIDE DEF Missing
  <2> QED BY <2>3, <2>5
<1>6. PICK P : SolvesTo(z, rank, MaxDepth, P)
  BY <1>5, BoundAssumption
<1>7. P \in SUBSET DOMAIN z /\ Solves(z, P)
  BY <1>2, <1>6 DEF SolvesTo, Solves
<1> QED BY <1>7

\* The set of the authorising domains is such a solution.
LEMMA AuthorisingSolves ==
  ASSUME NEW z, Proper(z), Acyclic(z)
  PROVE  Authorising(z) \in SUBSET DOMAIN z /\ Solves(z, Authorising(z))
BY SolutionExists DEF Authorising, Solves

-----------------------------------------------------------------------------
\* Organisations.

\* A suffix of a domain, label by label.
LEMMA Suffix ==
  ASSUME NEW d \in Seq(STRING), NEW k \in 1..Len(d)
  PROVE  LET s == SubSeq(d, k, Len(d)) IN
         /\ s \in Seq(STRING) /\ Len(s) = Len(d) - k + 1
         /\ \A i \in 1..Len(s) : s[i] = d[k + i - 1]
<1>1. Len(d) \in Nat /\ \A i \in k..Len(d) : d[i] \in STRING
  OBVIOUS
<1> QED BY <1>1, SubSeqProperties

\* The last two labels of a domain.
LEMMA LastTwo ==
  ASSUME NEW d \in Seq(STRING), Len(d) >= 2
  PROVE  LET n == Len(d) IN SubSeq(d, n - 1, n) = <<d[n-1], d[n]>>
<1> DEFINE n == Len(d)
           s == SubSeq(d, n - 1, n)
           t == <<d[n-1], d[n]>>
<1>1. n - 1 \in 1..n /\ n \in Nat
  OBVIOUS
<1>2. s \in Seq(STRING) /\ Len(s) = 2 /\ s[1] = d[n-1] /\ s[2] = d[n]
  BY <1>1, Suffix
<1>3. t \in Seq(STRING) /\ Len(t) = 2 /\ t[1] = d[n-1] /\ t[2] = d[n]
  BY <1>1
<1>4. s = t
  <2> HIDE DEF s, t
  <2> QED BY <1>2, <1>3, SeqEqual
<1> QED BY <1>4

\* A domain that has a registered suffix.
HasOrganisation(d) == Len(d) >= 3 \/ (Len(d) = 2 /\ d \notin TwoPartTLDs)

\* getOrganizationalDomain finds the registered suffix.
LEMMA OrganisationFound ==
  ASSUME NEW d \in Seq(STRING), HasOrganisation(d)
  PROVE  \E k \in 1..Len(d) :
           LET s == SubSeq(d, k, Len(d)) IN
           s = GetOrganizationalDomain(d) /\ Registered(s)
<1> DEFINE n == Len(d)
<1>0. n \in Nat /\ n >= 2 /\ (n >= 3 \/ n = 2)
  <2>1. Len(d) \in Nat
    OBVIOUS
  <2>2. Len(d) >= 3 \/ Len(d) = 2
    BY Zenon DEF HasOrganisation
  <2> QED BY <2>1, <2>2
<1>1. CASE n >= 3 /\ <<d[n-1], d[n]>> \in TwoPartTLDs
  <2>1. GetOrganizationalDomain(d) = SubSeq(d, n - 2, n)
    BY <1>1 DEF GetOrganizationalDomain
  <2>2. n - 2 \in 1..n /\ n - 1 \in 1..n
    BY <1>1, <1>0
  <2>3. Tail(SubSeq(d, n - 2, n)) = SubSeq(d, (n - 2) + 1, n)
    BY <2>2, HeadTailOfSubSeq
  <2>4. Tail(SubSeq(d, n - 2, n)) = <<d[n-1], d[n]>>
    <3>1. (n - 2) + 1 = n - 1
      BY <1>0
    <3> QED BY <2>3, <3>1, <1>0, LastTwo
  <2>5. Len(SubSeq(d, n - 2, n)) = 3
    BY <2>2, <1>0, Suffix
  <2> QED BY <1>1, <2>1, <2>2, <2>4, <2>5 DEF Registered
<1>2. CASE ~(n >= 3 /\ <<d[n-1], d[n]>> \in TwoPartTLDs)
  <2>1. GetOrganizationalDomain(d) = SubSeq(d, n - 1, n)
    BY <1>2, <1>0 DEF GetOrganizationalDomain
  <2>2. n - 1 \in 1..n
    BY <1>0
  <2>3. SubSeq(d, n - 1, n) = <<d[n-1], d[n]>>
    BY <1>0, LastTwo
  <2>4. Len(SubSeq(d, n - 1, n)) = 2
    BY <2>2, <1>0, Suffix
  <2>5. SubSeq(d, n - 1, n) \notin TwoPartTLDs
    <3>1. CASE n >= 3
      BY <3>1, <1>2, <2>3
    <3>2. CASE n = 2
      <4>1. SubSeq(d, 1, n) = d
        BY SubSeqFull
      <4>2. n - 1 = 1
        BY <3>2
      <4>3. d \notin TwoPartTLDs
        BY <3>2 DEF HasOrganisation
      <4>4. SubSeq(d, n - 1, n) = SubSeq(d, 1, n)
        BY <4>2
      <4> QED BY <4>1, <4>3, <4>4
    <3> QED BY <3>1, <3>2, <1>0, Zenon
  <2> QED BY <2>1, <2>2, <2>4, <2>5 DEF Registered
<1> QED BY <1>1, <1>2

\* A registered suffix of a domain is the one getOrganizationalDomain finds.
LEMMA OrganisationUnique ==
  ASSUME NEW d \in Seq(STRING), NEW k \in 1..Len(d),
         Registered(SubSeq(d, k, Len(d)))
  PROVE  HasOrganisation(d) /\ SubSeq(d, k, Len(d)) = GetOrganizationalDomain(d)
<1> DEFINE n == Len(d)
           s == SubSeq(d, k, n)
<1>0. n \in Nat /\ k \in Nat /\ k >= 1 /\ k <= n /\ Len(s) = n - k + 1
  BY Suffix
<1>1. CASE Len(s) = 2 /\ s \notin TwoPartTLDs
  <2>1. k = n - 1 /\ n >= 2
    BY <1>1, <1>0
  <2>2. s = <<d[n-1], d[n]>>
    BY <2>1, LastTwo
  <2>3. HasOrganisation(d)
    <3>1. CASE n >= 3
      BY <3>1 DEF HasOrganisation
    <3>2. CASE n = 2
      <4>1. k = 1
        BY <3>2, <2>1
      <4>2. s = d
        BY <4>1, SubSeqFull
      <4> QED BY <3>2, <4>2, <1>1 DEF HasOrganisation
    <3> QED BY <3>1, <3>2, <2>1, <1>0
  <2>4. GetOrganizationalDomain(d) = SubSeq(d, n - 1, n)
    BY <1>1, <2>1, <2>2 DEF GetOrganizationalDomain
  <2> QED BY <2>1, <2>3, <2>4
<1>2. CASE Len(s) = 3 /\ Tail(s) \in TwoPartTLDs
  <2>1. k = n - 2 /\ n >= 3
    BY <1>2, <1>0
  <2>2. Tail(s) = SubSeq(d, k + 1, n)
    BY <1>0, HeadTailOfSubSeq
  <2>3. Tail(s) = <<d[n-1], d[n]>>
    <3>1. k + 1 = n - 1
      BY <2>1, <1>0
    <3>2. SubSeq(d, n - 1, n) = <<d[n-1], d[n]>>
      BY <2>1, LastTwo
    <3> QED BY <2>2, <3>1, <3>2, Zenon
  <2>4. GetOrganizationalDomain(d) = SubSeq(d, n - 2, n)
    BY <1>2, <2>1, <2>3 DEF GetOrganizationalDomain
  <2> QED BY <2>1, <2>4 DEF HasOrganisation
<1> QED BY <1>1, <1>2 DEF Registered

\* A domain without a registered suffix is its own organisation.
LEMMA NoOrganisation ==
  ASSUME NEW d \in Seq(STRING), ~HasOrganisation(d)
  PROVE  GetOrganizationalDomain(d) = d
<1> DEFINE n == Len(d)
<1>0. n \in Nat
  OBVIOUS
<1>1. CASE n < 2
  BY <1>1, <1>0 DEF GetOrganizationalDomain
<1>2. CASE n = 2
  <2>1. SubSeq(d, n - 1, n) = d
    BY <1>2, SubSeqFull
  <2> QED BY <1>2, <2>1 DEF GetOrganizationalDomain
<1>3. n < 2 \/ n = 2
  <2>1. ~(n >= 3)
    BY Zenon DEF HasOrganisation
  <2> QED BY <1>0, <2>1
<1> QED BY <1>1, <1>2, <1>3, Zenon

\* What organizationalDomainsMatch compares is what it means: two domains match
\* in relaxed mode if and only if they are equal or share a suffix that is
\* registered, whatever public suffixes of two parts there are.
THEOREM OrganisationsMatch ==
  ASSUME NEW d \in Seq(STRING), NEW e \in Seq(STRING)
  PROVE  OrganizationalDomainsMatch(d, e) <=> SameOrganisation(d, e)
<1>1. ASSUME SameOrganisation(d, e)
      PROVE  OrganizationalDomainsMatch(d, e)
  <2>1. CASE d = e
    BY <2>1 DEF OrganizationalDomainsMatch
  <2>2. CASE d # e
    <3>1. PICK k \in 1..Len(d) : Registered(SubSeq(d, k, Len(d)))
                                 /\ EndsWith(e, SubSeq(d, k, Len(d)))
      BY <1>1, <2>2 DEF SameOrganisation
    <3> DEFINE s == SubSeq(d, k, Len(d))
               m == Len(e) - Len(s) + 1
    <3>2. Len(s) \in 1..Len(d) /\ Len(s) <= Len(e) /\ Len(e) \in Nat
      BY <3>1, Suffix DEF EndsWith
    <3>3. m \in 1..Len(e) /\ SubSeq(e, m, Len(e)) = s
      BY <3>1, <3>2 DEF EndsWith
    <3>4. s = GetOrganizationalDomain(d)
      BY <3>1, OrganisationUnique
    <3>5. s = GetOrganizationalDomain(e)
      BY <3>1, <3>3, OrganisationUnique
    <3> QED BY <3>4, <3>5 DEF OrganizationalDomainsMatch
  <2> QED BY <2>1, <2>2
<1>2. ASSUME OrganizationalDomainsMatch(d, e)
      PROVE  SameOrganisation(d, e)
  <2>0. GetOrganizationalDomain(d) = GetOrganizationalDomain(e)
    BY <1>2 DEF OrganizationalDomainsMatch
  <2>1. CASE ~HasOrganisation(d) /\ ~HasOrganisation(e)
    BY <2>0, <2>1, NoOrganisation DEF SameOrganisation
  <2>2. CASE ~HasOrganisation(d) /\ HasOrganisation(e)
    <3>1. d = GetOrganizationalDomain(e)
      BY <2>0, <2>2, NoOrganisation
    <3>2. Registered(d)
      BY <3>1, <2>2, OrganisationFound
    <3>3. SubSeq(d, 1, Len(d)) = d /\ 1 \in 1..Len(d)
      BY <3>2, SubSeqFull DEF Registered
    <3> QED BY <2>2, <3>2, <3>3, OrganisationUnique
  <2>3. CASE HasOrganisation(d)
    <3>1. PICK k \in 1..Len(d) : /\ SubSeq(d, k, Len(d)) = GetOrganizationalDomain(d)
                                 /\ Registered(SubSeq(d, k, Len(d)))
      BY <2>3, OrganisationFound
    <3> DEFINE s == SubSeq(d, k, Len(d))
    <3>2. CASE HasOrganisation(e)
      <4>1. PICK m \in 1..Len(e) : SubSeq(e, m, Len(e)) = GetOrganizationalDomain(e)
        BY <3>2, OrganisationFound
      <4>2. SubSeq(e, m, Len(e)) = s
        BY <2>0, <3>1, <4>1
      <4>3. Len(s) = Len(e) - m + 1 /\ Len(e) \in Nat
        BY <4>2, Suffix
      <4>4. Len(s) <= Len(e) /\ Len(e) - Len(s) + 1 = m
        BY <4>3
      <4>5. EndsWith(e, s)
        BY <4>2, <4>4 DEF EndsWith
      <4> QED BY <3>1, <4>5 DEF SameOrganisation
    <3>3. CASE ~HasOrganisation(e)
      <4>1. e = s
        BY <2>0, <3>1, <3>3, NoOrganisation
      <4>2. SubSeq(e, 1, Len(e)) = e /\ Len(e) \in Nat
        BY SubSeqFull
      <4>3. EndsWith(e, s)
        BY <4>1, <4>2 DEF EndsWith
      <4> QED BY <3>1, <4>3 DEF SameOrganisation
    <3> QED BY <3>2, <3>3
  <2> QED BY <2>1, <2>2, <2>3
<1> QED BY <1>1, <1>2

-----------------------------------------------------------------------------
\* The walk.

Activations(z) == [domain : DOMAIN z, rest : Seq(Mechanisms(z))]

\* The number of mechanisms that an activation of checkSPF has behind it.
Behind(z, f) == Len(z[f.domain].rec) - Len(f.rest)

\* It goes through the record of its domain.
InRecord(z, f) ==
  /\ HasRecord(z, f.domain)
  /\ Behind(z, f) \in Nat
  /\ \A j \in 1..Len(f.rest) : f.rest[j] = z[f.domain].rec[Behind(z, f) + j]

\* It is at an include of d.
Calls(z, f, d) ==
  /\ Behind(z, f) >= 1
  /\ LET mech == z[f.domain].rec[Behind(z, f)] IN IsInclude(mech) /\ mech.domain = d

\* The first n mechanisms did not decide, unless lookups failed, and then none
\* of them could have said anything but pass.
Clean(z, f, n, failed) ==
  \A j \in 1..n :
    j \in Deciding(z, f.domain, Authorising(z)) =>
      failed /\ PassKind(z, f.domain, z[f.domain].rec[j])

\* The activations w, for the records of the domain d.
WalkOK(z, w, d, failed) ==
  /\ w \in Seq(Activations(z))
  /\ w # <<>> => w[Len(w)].domain = d
  /\ \A i \in 1..Len(w) : InRecord(z, w[i])
  /\ \A i \in 1..Len(w) : i > 1 => Calls(z, w[i], w[i-1].domain)
  /\ Acyclic(z) =>
       \A i \in 1..Len(w) :
         Clean(z, w[i], IF i = 1 THEN Behind(z, w[i]) ELSE Behind(z, w[i]) - 1, failed)

\* An activation for d may return r.
Answers(z, d, r, failed) ==
  /\ r = "pass" => d \in Authorising(z)
  /\ ~failed => r = RecordResult(z, d, Authorising(z))

\* What a result of SPF must be like.
ResultOK(r, d, failed) ==
  /\ Sender = Nil => r = "none"
  /\ Acyclic(zone) /\ Sender # Nil =>
       /\ ~failed /\ r = "none" => ~HasRecord(zone, Sender)
       /\ r \notin {"none", "temperror"} => Answers(zone, Sender, r, failed)
       /\ d = Sender
       /\ r = "temperror" => failed

\* While it runs, and when it has ended.
WalkInv ==
  /\ WalkOK(zone, walk, Sender, faulty)
  /\ walk # <<>> => pc = "spf" /\ Sender # Nil
  /\ pc \in {"start", "spf"} => spf = Nil

ResultInv == spf # Nil => ResultOK(spf.result, spf.domain, faulty)

\* What is known of the innermost activation.
LEMMA Innermost ==
  ASSUME NEW z, Proper(z), NEW w, NEW d, NEW failed, WalkOK(z, w, d, failed),
         w # <<>>
  PROVE  /\ Len(w) \in Nat \ {0}
         /\ w[1] \in Activations(z) /\ w[1].domain \in DOMAIN z
         /\ w[1].rest \in Seq(Mechanisms(z))
         /\ z[w[1].domain].rec \in Seq(Mechanisms(z))
         /\ InRecord(z, w[1])
         /\ Acyclic(z) => Clean(z, w[1], Behind(z, w[1]), failed)
<1>1. w \in Seq(Activations(z)) /\ Len(w) \in Nat \ {0}
  BY DEF WalkOK
<1>2. w[1] \in Activations(z) /\ 1 \in 1..Len(w)
  BY <1>1
<1>3. InRecord(z, w[1]) /\ (Acyclic(z) => Clean(z, w[1], Behind(z, w[1]), failed))
  BY <1>2 DEF WalkOK
<1>4. w[1].domain \in DOMAIN z /\ w[1].rest \in Seq(Mechanisms(z))
  BY <1>2 DEF Activations
<1> QED BY <1>1, <1>2, <1>3, <1>4 DEF Proper

\* An activation goes on with the next mechanism.
Advanced(f) == [f EXCEPT !.rest = Tail(@)]

\* One mechanism further is one mechanism more behind.
LEMMA Advance ==
  ASSUME NEW z, Proper(z), NEW f \in Activations(z), InRecord(z, f), f.rest # <<>>
  PROVE  /\ Advanced(f) \in Activations(z)
         /\ Advanced(f).domain = f.domain
         /\ InRecord(z, Advanced(f))
         /\ Behind(z, Advanced(f)) = Behind(z, f) + 1
         /\ Behind(z, f) + 1 \in DOMAIN z[f.domain].rec
         /\ z[f.domain].rec[Behind(z, f) + 1] = Head(f.rest)
<1> DEFINE g == Advanced(f)
           rec == z[f.domain].rec
<1>1. f.domain \in DOMAIN z /\ f.rest \in Seq(Mechanisms(z)) /\ rec \in Seq(Mechanisms(z))
  BY DEF Activations, Proper
<1>2. Tail(f.rest) \in Seq(Mechanisms(z)) /\ Len(Tail(f.rest)) = Len(f.rest) - 1
      /\ \A i \in 1..Len(Tail(f.rest)) : Tail(f.rest)[i] = f.rest[i+1]
  BY <1>1, HeadTailProperties
<1>3. g \in Activations(z) /\ g.domain = f.domain /\ g.rest = Tail(f.rest)
  BY <1>1, <1>2 DEF Activations, Advanced
<1>4. Len(f.rest) \in Nat /\ Len(f.rest) >= 1 /\ Len(rec) \in Nat /\ Behind(z, f) \in Nat
      /\ Behind(z, f) = Len(rec) - Len(f.rest)
  BY <1>1 DEF Behind, InRecord
<1> DEFINE n == Len(rec)
           m == Len(f.rest)
           k == Behind(z, f)
           l == Behind(z, g)
<1>5. k \in Nat /\ l = k + 1 /\ k + 1 \in 1..n /\ m \in Nat /\ 1 \in 1..m
  <2>1. l = n - (m - 1)
    BY <1>2, <1>3 DEF Behind
  <2>2. k = n - m /\ k \in Nat /\ n \in Nat /\ m \in Nat /\ m >= 1
    BY <1>4
  <2> HIDE DEF n, m, k, l
  <2> QED BY <2>1, <2>2
<1>6. Behind(z, f) + 1 \in DOMAIN rec /\ rec[Behind(z, f) + 1] = Head(f.rest)
  <2>1. f.rest[1] = rec[Behind(z, f) + 1]
    BY <1>5 DEF InRecord
  <2> QED BY <1>1, <1>5, <2>1
<1>7. \A j \in 1..Len(g.rest) : g.rest[j] = rec[Behind(z, g) + j]
  <2>1. SUFFICES ASSUME NEW j \in 1..Len(g.rest)
                 PROVE  g.rest[j] = rec[Behind(z, g) + j]
    OBVIOUS
  <2>2. j \in Nat /\ j + 1 \in 1..Len(f.rest) /\ g.rest[j] = f.rest[j + 1]
    BY <1>2, <1>3, <1>4
  <2>3. f.rest[j + 1] = rec[Behind(z, f) + (j + 1)]
    BY <2>2 DEF InRecord
  <2>4. Behind(z, f) + (j + 1) = Behind(z, g) + j
    <3>1. k + (j + 1) = l + j
      <4> HIDE DEF k, l, m, n
      <4> QED BY <1>5, <2>2
    <3> QED BY <3>1
  <2> QED BY <2>2, <2>3, <2>4
<1>8. InRecord(z, g)
  BY <1>3, <1>5, <1>7 DEF InRecord
<1> QED BY <1>3, <1>5, <1>6, <1>8

\* An activation that has just begun.
LEMMA Fresh ==
  ASSUME NEW z, Proper(z), NEW d \in DOMAIN z, HasRecord(z, d)
  PROVE  LET f == [domain |-> d, rest |-> z[d].rec] IN
         /\ f \in Activations(z) /\ InRecord(z, f) /\ Behind(z, f) = 0
<1> DEFINE f == [domain |-> d, rest |-> z[d].rec]
<1>1. z[d].rec \in Seq(Mechanisms(z)) /\ Len(z[d].rec) \in Nat
  BY DEF Proper
<1>2. f \in Activations(z) /\ f.domain = d /\ f.rest = z[d].rec
  BY <1>1 DEF Activations
<1>3. Behind(z, f) = 0
  BY <1>1, <1>2 DEF Behind
<1>4. \A j \in 1..Len(f.rest) : f.rest[j] = z[f.domain].rec[Behind(z, f) + j]
  BY <1>1, <1>2, <1>3
<1>5. InRecord(z, f)
  <2> HIDE DEF f
  <2> QED BY <1>2, <1>3, <1>4 DEF InRecord
<1> QED BY <1>2, <1>3, <1>5

\* checkSPF is called for a sender's domain that has a record.
LEMMA WalkBegins ==
  ASSUME NEW z, Proper(z), NEW d \in DOMAIN z, HasRecord(z, d), NEW failed
  PROVE  WalkOK(z, <<[domain |-> d, rest |-> z[d].rec]>>, d, failed)
<1> DEFINE f == [domain |-> d, rest |-> z[d].rec]
           w == <<f>>
<1>1. f \in Activations(z) /\ InRecord(z, f) /\ Behind(z, f) = 0 /\ f.domain = d
  BY Fresh
<1> HIDE DEF f
<1>2. w \in Seq(Activations(z)) /\ Len(w) = 1 /\ w[1] = f
  BY <1>1
<1>3. Clean(z, f, 0, failed)
  BY DEF Clean
<1> HIDE DEF w
<1>4. WalkOK(z, w, d, failed)
  BY <1>1, <1>2, <1>3 DEF WalkOK
<1> QED BY <1>4 DEF w, f

\* A mechanism is passed over: it does not decide, or its lookup failed and it
\* could only have said pass.
LEMMA WalkSkips ==
  ASSUME NEW z, Proper(z), NEW w, NEW d, NEW failed, NEW failed2,
         WalkOK(z, w, d, failed), w # <<>>, w[1].rest # <<>>,
         failed => failed2,
         Acyclic(z) =>
           LET k == Behind(z, w[1]) + 1 IN
           k \in Deciding(z, w[1].domain, Authorising(z)) =>
             failed2 /\ PassKind(z, w[1].domain, Head(w[1].rest))
  PROVE  WalkOK(z, [w EXCEPT ![1].rest = Tail(@)], d, failed2)
<1> DEFINE v == [w EXCEPT ![1] = Advanced(w[1])]
<1>1. /\ w \in Seq(Activations(z)) /\ Len(w) \in Nat /\ Len(w) >= 1 /\ w[1] \in Activations(z)
      /\ InRecord(z, w[1]) /\ Behind(z, w[1]) \in Nat
  BY Innermost DEF WalkOK, InRecord
<1>2. /\ Advanced(w[1]) \in Activations(z) /\ Advanced(w[1]).domain = w[1].domain
      /\ InRecord(z, Advanced(w[1])) /\ Behind(z, Advanced(w[1])) = Behind(z, w[1]) + 1
      /\ z[w[1].domain].rec[Behind(z, w[1]) + 1] = Head(w[1].rest)
  BY <1>1, Advance
<1>3. /\ v \in Seq(Activations(z)) /\ Len(v) = Len(w)
      /\ v[1] = Advanced(w[1]) /\ \A i \in 1..Len(w) : i > 1 => v[i] = w[i]
      /\ \A i \in 1..Len(w) : v[i].domain = w[i].domain
  <2>1. 1 \in 1..Len(w)
    BY <1>1
  <2> QED BY <1>1, <1>2, <2>1, ExceptSeq
<1>4. [w EXCEPT ![1].rest = Tail(@)] = v
  BY <1>1 DEF Advanced
<1>5. w[Len(w)].domain = d /\ v # <<>>
  BY <1>1, <1>3 DEF WalkOK
<1>6. ASSUME Acyclic(z)
      PROVE  Clean(z, v[1], Behind(z, v[1]), failed2)
  <2>1. Clean(z, w[1], Behind(z, w[1]), failed)
    BY <1>6, Innermost
  <2>2. \A j \in 1..(Behind(z, w[1]) + 1) : j \in 1..Behind(z, w[1]) \/ j = Behind(z, w[1]) + 1
    BY <1>1
  <2>3. Clean(z, Advanced(w[1]), Behind(z, w[1]) + 1, failed2)
    BY <1>6, <1>2, <2>1, <2>2 DEF Clean
  <2> QED BY <1>2, <1>3, <2>3
<1> HIDE DEF v
<1>7. ASSUME Acyclic(z), NEW i \in 1..Len(v)
      PROVE  Clean(z, v[i], IF i = 1 THEN Behind(z, v[i]) ELSE Behind(z, v[i]) - 1, failed2)
  <2>1. CASE i = 1
    BY <1>6, <1>7, <2>1
  <2>2. CASE i # 1
    <3>1. i > 1 /\ v[i] = w[i] /\ i \in 1..Len(w)
      BY <1>1, <1>3, <2>2
    <3>2. Clean(z, w[i], Behind(z, w[i]) - 1, failed)
      BY <1>7, <3>1, <2>2 DEF WalkOK
    <3> QED BY <3>1, <3>2, <2>2 DEF Clean
  <2> QED BY <2>1, <2>2
<1>8. \A i \in 1..Len(v) : InRecord(z, v[i])
  BY <1>1, <1>2, <1>3 DEF WalkOK
<1>9. ASSUME NEW i \in 1..Len(v), i > 1
      PROVE  Calls(z, v[i], v[i-1].domain)
  <2>1. i \in 1..Len(w) /\ i - 1 \in 1..Len(w) /\ v[i] = w[i] /\ v[i-1].domain = w[i-1].domain
    BY <1>1, <1>3, <1>9
  <2> QED BY <1>9, <2>1 DEF WalkOK
<1>10. WalkOK(z, v, d, failed2)
  BY <1>1, <1>3, <1>5, <1>7, <1>8, <1>9 DEF WalkOK
<1> QED BY <1>4, <1>10

\* A sequence with one more element in front.
LEMMA Prefixed ==
  ASSUME NEW S, NEW f \in S, NEW v \in Seq(S)
  PROVE  LET u == <<f>> \o v IN
         /\ u \in Seq(S) /\ Len(u) = Len(v) + 1 /\ u[1] = f
         /\ \A i \in 2..(Len(v) + 1) : u[i] = v[i - 1]
<1>1. <<f>> \o v \in Seq(S) /\ Len(<<f>> \o v) = Len(v) + 1
  OBVIOUS
<1>2. (<<f>> \o v)[1] = f
  OBVIOUS
<1>3. ASSUME NEW i \in 2..(Len(v) + 1)
      PROVE  (<<f>> \o v)[i] = v[i - 1]
  OBVIOUS
<1> QED BY <1>1, <1>2, <1>3

\* The sequence of activations when checkSPF calls itself.
LEMMA Pushed ==
  ASSUME NEW S, NEW w \in Seq(S), w # <<>>, NEW f \in S, NEW g \in S
  PROVE  LET u == <<f>> \o [w EXCEPT ![1] = g] IN
         /\ u \in Seq(S) /\ Len(u) = Len(w) + 1
         /\ u[1] = f /\ u[2] = g
         /\ \A i \in 1..Len(u) : i > 2 => i - 1 \in 1..Len(w) /\ u[i] = w[i-1]
<1> DEFINE v == [w EXCEPT ![1] = g]
<1>1. Len(w) \in Nat /\ 1 \in 1..Len(w)
  OBVIOUS
<1>2. v \in Seq(S) /\ Len(v) = Len(w) /\ v[1] = g
      /\ \A i \in 1..Len(w) : i # 1 => v[i] = w[i]
  BY <1>1, ExceptSeq
<1> HIDE DEF v
<1> DEFINE u == <<f>> \o v
<1>4. u \in Seq(S) /\ Len(u) = Len(v) + 1 /\ u[1] = f
      /\ \A i \in 2..(Len(v) + 1) : u[i] = v[i - 1]
  BY <1>2, Prefixed
<1>5. u[1] = f /\ u[2] = g
  BY <1>1, <1>2, <1>4
<1>6. ASSUME NEW i \in 1..(Len(w) + 1), i > 2
      PROVE  i - 1 \in 1..Len(w) /\ u[i] = w[i - 1]
  <2>1. i - 1 \in 1..Len(w) /\ i - 1 # 1 /\ i \in 2..(Len(v) + 1)
    BY <1>1, <1>2, <1>6
  <2> QED BY <1>2, <1>4, <2>1
<1> HIDE DEF u
<1>7. /\ u \in Seq(S) /\ Len(u) = Len(w) + 1
      /\ u[1] = f /\ u[2] = g
      /\ \A i \in 1..Len(u) : i > 2 => i - 1 \in 1..Len(w) /\ u[i] = w[i-1]
  BY <1>1, <1>2, <1>4, <1>5, <1>6
<1> QED BY <1>7 DEF u, v

\* checkSPF calls itself for an include.
LEMMA WalkCalls ==
  ASSUME NEW z, Proper(z), NEW w, NEW d, NEW failed,
         WalkOK(z, w, d, failed), w # <<>>, w[1].rest # <<>>,
         NEW e \in DOMAIN z, HasRecord(z, e),
         IsInclude(Head(w[1].rest)), Head(w[1].rest).domain = e
  PROVE  WalkOK(z, <<[domain |-> e, rest |-> z[e].rec]>>
                     \o [w EXCEPT ![1].rest = Tail(@)], d, failed)
<1> DEFINE f == [domain |-> e, rest |-> z[e].rec]
           g == Advanced(w[1])
           u == <<f>> \o [w EXCEPT ![1] = g]
<1>1. /\ w \in Seq(Activations(z)) /\ Len(w) \in Nat /\ Len(w) >= 1 /\ w[1] \in Activations(z)
      /\ InRecord(z, w[1]) /\ Behind(z, w[1]) \in Nat
  BY Innermost DEF WalkOK, InRecord
<1>2. /\ g \in Activations(z) /\ g.domain = w[1].domain
      /\ InRecord(z, g) /\ Behind(z, g) = Behind(z, w[1]) + 1
      /\ z[w[1].domain].rec[Behind(z, w[1]) + 1] = Head(w[1].rest)
  BY <1>1, Advance
<1>3. f \in Activations(z) /\ InRecord(z, f) /\ Behind(z, f) = 0 /\ f.domain = e
  BY Fresh
<1>4. [w EXCEPT ![1].rest = Tail(@)] = [w EXCEPT ![1] = g]
  BY <1>1 DEF Advanced
<1> HIDE DEF f, g
<1>5. /\ u \in Seq(Activations(z)) /\ Len(u) = Len(w) + 1 /\ u[1] = f /\ u[2] = g
      /\ \A i \in 1..Len(u) : i > 2 => i - 1 \in 1..Len(w) /\ u[i] = w[i-1]
  BY <1>1, <1>2, <1>3, Pushed
<1> HIDE DEF u
<1>6. \A i \in 1..Len(u) : i = 1 \/ i = 2 \/ i > 2
  BY <1>1, <1>5
<1>7. u[Len(u)].domain = d
  <2>1. w[Len(w)].domain = d
    BY DEF WalkOK
  <2>2. CASE Len(w) = 1
    BY <2>1, <2>2, <1>2, <1>5
  <2>3. CASE Len(w) > 1
    <3>1. Len(u) \in 1..Len(u) /\ Len(u) > 2 /\ Len(u) - 1 = Len(w)
      BY <2>3, <1>1, <1>5
    <3> QED BY <2>1, <3>1, <1>5
  <2>4. Len(w) = 1 \/ Len(w) > 1
    <3> DEFINE n == Len(w)
    <3>1. n \in Nat /\ n >= 1
      BY <1>1
    <3>2. n = 1 \/ n > 1
      <4> HIDE DEF n
      <4> QED BY <3>1
    <3> QED BY <3>2
  <2> QED BY <2>2, <2>3, <2>4, Zenon
<1>8. \A i \in 1..Len(u) : InRecord(z, u[i])
  BY <1>2, <1>3, <1>5, <1>6 DEF WalkOK
<1>9. ASSUME NEW i \in 1..Len(u), i > 1
      PROVE  Calls(z, u[i], u[i-1].domain)
  <2>1. CASE i = 2
    <3>1. u[i] = g /\ u[i-1] = f
      BY <2>1, <1>5
    <3>2. Behind(z, g) >= 1 /\ z[g.domain].rec[Behind(z, g)] = Head(w[1].rest)
      BY <1>1, <1>2
    <3> QED BY <1>3, <3>1, <3>2 DEF Calls
  <2>2. CASE i = 3
    <3>1. u[i] = w[2] /\ u[i-1].domain = w[1].domain /\ 2 \in 1..Len(w)
      BY <2>2, <1>2, <1>5
    <3>2. Calls(z, w[2], w[2-1].domain)
      BY <3>1 DEF WalkOK
    <3> QED BY <3>1, <3>2
  <2>3. CASE i > 3
    <3>1. u[i] = w[i-1] /\ i - 1 \in 1..Len(w) /\ i - 1 > 1
      BY <2>3, <1>5
    <3>2. i - 1 \in 1..Len(u) /\ u[i-1] = w[(i-1)-1]
      BY <2>3, <1>5, <1>1
    <3> QED BY <3>1, <3>2 DEF WalkOK
  <2> QED BY <1>9, <2>1, <2>2, <2>3, <1>1, <1>5
<1>10. ASSUME Acyclic(z), NEW i \in 1..Len(u)
       PROVE  Clean(z, u[i], IF i = 1 THEN Behind(z, u[i]) ELSE Behind(z, u[i]) - 1, failed)
  <2>1. CASE i = 1
    <3>1. Clean(z, f, 0, failed)
      BY DEF Clean
    <3> QED BY <2>1, <3>1, <1>3, <1>5
  <2>2. CASE i = 2
    <3>1. Clean(z, w[1], Behind(z, w[1]), failed)
      BY <1>10, Innermost
    <3>2. Behind(z, g) - 1 = Behind(z, w[1])
      BY <1>1, <1>2
    <3>3. Clean(z, g, Behind(z, g) - 1, failed)
      BY <1>2, <3>1, <3>2 DEF Clean
    <3> QED BY <2>2, <3>3, <1>5
  <2>3. CASE i > 2
    <3>1. u[i] = w[i-1] /\ i - 1 \in 1..Len(w) /\ i - 1 # 1
      BY <2>3, <1>5
    <3>2. Clean(z, w[i-1], Behind(z, w[i-1]) - 1, failed)
      BY <1>10, <3>1 DEF WalkOK
    <3> QED BY <2>3, <3>1, <3>2
  <2> QED BY <2>1, <2>2, <2>3, <1>6
<1>11. WalkOK(z, u, d, failed)
  BY <1>1, <1>5, <1>7, <1>8, <1>9, <1>10 DEF WalkOK
<1> QED BY <1>4, <1>11 DEF u, f

\* An include does not decide by itself.
LEMMA IncludeSkips ==
  ASSUME NEW z, NEW d, NEW m, IsInclude(m)
  PROVE  Decide(z, d, m) = "skip"
BY DEF IsInclude, Decide

\* An activation that was called returns something other than a pass, and the
\* one that called it goes on.
LEMMA WalkReturns ==
  ASSUME NEW z, Proper(z), NEW w, NEW d, NEW failed,
         WalkOK(z, w, d, failed), w # <<>>, Len(w) > 1, NEW r, r # "pass",
         Acyclic(z) => Answers(z, w[1].domain, r, failed)
  PROVE  WalkOK(z, Tail(w), d, failed)
<1> DEFINE v == Tail(w)
<1>1. w \in Seq(Activations(z)) /\ Len(w) \in Nat
  BY DEF WalkOK
<1>2. /\ v \in Seq(Activations(z)) /\ Len(v) = Len(w) - 1
      /\ \A i \in 1..Len(v) : v[i] = w[i+1] /\ i + 1 \in 1..Len(w)
  BY <1>1, HeadTailProperties
<1> HIDE DEF v
<1>3. v[Len(v)].domain = d
  <2>1. Len(v) \in 1..Len(v) /\ Len(v) + 1 = Len(w)
    BY <1>1, <1>2
  <2> QED BY <1>2, <2>1 DEF WalkOK
<1>4. \A i \in 1..Len(v) : InRecord(z, v[i])
  BY <1>2 DEF WalkOK
<1>5. ASSUME NEW i \in 1..Len(v), i > 1
      PROVE  Calls(z, v[i], v[i-1].domain)
  <2>1. i \in Nat /\ i - 1 \in 1..Len(v) /\ (i - 1) + 1 = i /\ i + 1 > 1 /\ (i + 1) - 1 = i
    BY <1>1, <1>2, <1>5
  <2>2. v[i] = w[i+1] /\ v[i-1] = w[i] /\ i + 1 \in 1..Len(w)
    BY <1>2, <2>1
  <2>3. Calls(z, w[i+1], w[(i+1)-1].domain)
    BY <2>1, <2>2 DEF WalkOK
  <2> QED BY <2>1, <2>2, <2>3
<1>6. ASSUME Acyclic(z), NEW i \in 1..Len(v)
      PROVE  Clean(z, v[i], IF i = 1 THEN Behind(z, v[i]) ELSE Behind(z, v[i]) - 1, failed)
  <2>0. i \in Nat /\ i + 1 # 1 /\ v[i] = w[i+1] /\ i + 1 \in 1..Len(w)
    BY <1>2
  <2>1. Clean(z, v[i], Behind(z, v[i]) - 1, failed)
    BY <1>6, <2>0 DEF WalkOK
  <2>2. CASE i # 1
    BY <2>1, <2>2
  <2>3. CASE i = 1
    <3> DEFINE k == Behind(z, v[1])
               P == Authorising(z)
               c == v[1].domain
    <3>1. Calls(z, w[2], w[2-1].domain) /\ v[1] = w[2]
      BY <2>0, <2>3 DEF WalkOK
    <3>2. k \in Nat /\ k >= 1 /\ IsInclude(z[c].rec[k]) /\ z[c].rec[k].domain = w[1].domain
      BY <3>1, <1>4, <2>3 DEF Calls, InRecord
    <3>3. w[1].domain \in P => failed
      <4>1. Solves(z, P)
        BY <1>6, AuthorisingSolves
      <4>2. ~failed => RecordResult(z, w[1].domain, P) # "pass"
        BY <1>6 DEF Answers
      <4> HIDE DEF P
      <4> QED BY <4>1, <4>2 DEF Solves
    <3>4. k \in Deciding(z, c, P) => w[1].domain \in P
      BY <3>2, IncludeSkips DEF Deciding
    <3>5. \A j \in 1..k : j \in 1..(k-1) \/ j = k
      <4> HIDE DEF k
      <4> QED BY <3>2
    <3>6. Clean(z, v[1], k, failed)
      BY <2>1, <2>3, <3>2, <3>3, <3>4, <3>5 DEF Clean, PassKind
    <3> QED BY <2>3, <3>6
  <2> QED BY <2>2, <2>3
<1>7. WalkOK(z, v, d, failed)
  BY <1>2, <1>3, <1>4, <1>5, <1>6 DEF WalkOK
<1> QED BY <1>7 DEF v

\* A mechanism that decides gives the answer of the activation.
LEMMA AnswersByMechanism ==
  ASSUME NEW z, Proper(z), Acyclic(z), NEW w, NEW d, NEW failed,
         WalkOK(z, w, d, failed), w # <<>>, w[1].rest # <<>>,
         ~IsInclude(Head(w[1].rest)),
         Decide(z, w[1].domain, Head(w[1].rest)) # "skip"
  PROVE  Answers(z, w[1].domain, Decide(z, w[1].domain, Head(w[1].rest)), failed)
<1> DEFINE f == w[1]
           e == f.domain
           P == Authorising(z)
           k == Behind(z, f) + 1
           r == Decide(z, e, Head(f.rest))
<1>1. /\ f \in Activations(z) /\ e \in DOMAIN z /\ InRecord(z, f)
      /\ Clean(z, f, Behind(z, f), failed) /\ Behind(z, f) \in Nat
      /\ z[e].rec \in Seq(Mechanisms(z))
  BY Innermost DEF InRecord
<1>2. k \in DOMAIN z[e].rec /\ z[e].rec[k] = Head(f.rest)
  BY <1>1, Advance
<1>3. k \in Deciding(z, e, P)
  BY <1>2 DEF Deciding
<1>4. ASSUME NEW j \in Deciding(z, e, P)
      PROVE  j \in Nat /\ (j < k => failed /\ PassKind(z, e, z[e].rec[j]))
  <2>1. j \in Nat /\ j >= 1
    BY <1>1 DEF Deciding
  <2>2. j < k => j \in 1..Behind(z, f)
    BY <1>1, <2>1
  <2> QED BY <1>1, <1>4, <2>1, <2>2 DEF Clean
<1>5. k \in Nat
  BY <1>1
<1>6. Solves(z, P)
  BY AuthorisingSolves
<1> HIDE DEF P, k
<1>7. ASSUME r = "pass" PROVE e \in P
  <2>1. \A j \in Deciding(z, e, P) : j <= k => j < k \/ j = k
    BY <1>4, <1>5
  <2>2. \A j \in Deciding(z, e, P) : j <= k => PassKind(z, e, z[e].rec[j])
    BY <1>2, <1>4, <1>7, <2>1 DEF PassKind
  <2>3. RecordResult(z, e, P) = "pass"
    BY <1>1, <1>3, <2>2, PassesAt
  <2> QED BY <1>1, <1>6, <2>3 DEF Solves, InRecord
<1>8. ASSUME ~failed PROVE r = RecordResult(z, e, P)
  <2>1. \A j \in Deciding(z, e, P) : k <= j
    BY <1>4, <1>5, <1>8
  <2> QED BY <1>1, <1>2, <1>3, <2>1, DecidesAt
<1> QED BY <1>7, <1>8 DEF Answers, P

\* So does the end of the record.
LEMMA AnswersAtEnd ==
  ASSUME NEW z, Proper(z), Acyclic(z), NEW w, NEW d, NEW failed,
         WalkOK(z, w, d, failed), w # <<>>, w[1].rest = <<>>
  PROVE  Answers(z, w[1].domain, "neutral", failed)
<1> DEFINE f == w[1]
           e == f.domain
           P == Authorising(z)
<1>1. /\ e \in DOMAIN z /\ Clean(z, f, Behind(z, f), failed)
      /\ z[e].rec \in Seq(Mechanisms(z))
  BY Innermost
<1>2. Behind(z, f) = Len(z[e].rec)
  BY <1>1 DEF Behind
<1>3. ~failed => Deciding(z, e, P) = {}
  BY <1>1, <1>2 DEF Clean, Deciding
<1>4. ~failed => RecordResult(z, e, P) = "neutral"
  BY <1>3, NobodyDecides
<1> QED BY <1>4 DEF Answers

\* A pass of the innermost activation is a pass of the outermost: what includes
\* an authorising domain, and has only passed over mechanisms that could say
\* nothing else, authorises.
LEMMA WalkPasses ==
  ASSUME NEW z, Proper(z), Acyclic(z), NEW w, NEW d, NEW failed,
         WalkOK(z, w, d, failed), w # <<>>, w[1].domain \in Authorising(z)
  PROVE  d \in Authorising(z)
<1> DEFINE P == Authorising(z)
           Others == {i \in 1..Len(w) : w[i].domain \notin P}
<1>0. Len(w) \in Nat /\ Len(w) >= 1 /\ w \in Seq(Activations(z))
  BY DEF WalkOK
<1>1. Solves(z, P)
  BY AuthorisingSolves
<1> HIDE DEF P
<1>2. Others = {}
  <2>1. SUFFICES ASSUME Others # {} PROVE FALSE
    OBVIOUS
  <2>2. Others \in SUBSET Nat
    BY <1>0
  <2>3. PICK i \in Others : \A j \in Others : i <= j
    BY <2>1, <2>2, Least
  <2>4. i \in 1..Len(w) /\ w[i].domain \notin P
    BY <2>3
  <2>5. i # 1
    BY <2>4 DEF P
  <2>6. i - 1 \in 1..Len(w) /\ i > 1 /\ ~(i <= i - 1)
    BY <1>0, <2>4, <2>5
  <2>7. w[i-1].domain \in P
    BY <2>3, <2>6
  <2> DEFINE e == w[i].domain
             k == Behind(z, w[i])
  <2>8. /\ InRecord(z, w[i]) /\ Calls(z, w[i], w[i-1].domain)
        /\ Clean(z, w[i], k - 1, failed)
    BY <2>4, <2>5, <2>6 DEF WalkOK
  <2>9. e \in DOMAIN z /\ w[i].rest \in Seq(Mechanisms(z)) /\ z[e].rec \in Seq(Mechanisms(z))
    <3>1. w[i] \in Activations(z)
      BY <1>0, <2>4
    <3> QED BY <3>1 DEF Activations, Proper
  <2>10. k \in Nat /\ k >= 1 /\ k <= Len(z[e].rec) /\ Len(z[e].rec) \in Nat
    <3> DEFINE n == Len(z[e].rec)
               m == Len(w[i].rest)
    <3>1. n \in Nat /\ m \in Nat
      BY <2>9
    <3>2. k = n - m
      BY DEF Behind
    <3>3. k \in Nat /\ k >= 1
      BY <2>8 DEF InRecord, Calls
    <3>4. k <= n
      <4> HIDE DEF k, n, m
      <4> QED BY <3>1, <3>2, <3>3
    <3> QED BY <3>1, <3>3, <3>4
  <2>11. IsInclude(z[e].rec[k]) /\ z[e].rec[k].domain \in P
    BY <2>7, <2>8 DEF Calls
  <2>12. k \in Deciding(z, e, P)
    <3>1. k \in DOMAIN z[e].rec
      <4> HIDE DEF k
      <4> QED BY <2>9, <2>10
    <3> QED BY <3>1, <2>11 DEF Deciding
  <2>13. ASSUME NEW j \in Deciding(z, e, P), j <= k
         PROVE  PassKind(z, e, z[e].rec[j])
    <3>1. j \in Nat /\ j >= 1
      BY <2>9 DEF Deciding
    <3>2. j = k \/ j \in 1..(k-1)
      <4> HIDE DEF k
      <4> QED BY <2>10, <2>13, <3>1
    <3>3. CASE j = k
      BY <2>11, <3>3 DEF PassKind
    <3>4. CASE j \in 1..(k-1)
      BY <2>8, <2>13, <3>4 DEF Clean, P
    <3> QED BY <3>2, <3>3, <3>4
  <2>14. RecordResult(z, e, P) = "pass"
    <3> HIDE DEF k, e
    <3> QED BY <2>9, <2>12, <2>13, PassesAt
  <2> QED BY <1>1, <2>4, <2>8, <2>9, <2>14 DEF Solves, InRecord
<1>3. Len(w) \in 1..Len(w)
  BY <1>0
<1> QED BY <1>2, <1>3 DEF WalkOK, P

-----------------------------------------------------------------------------
\* The steps of SPF.

InputInv == zone \in Zones /\ mailFrom \in MailFroms /\ from \in Froms \cup {Nil}

SPFInv == InputInv /\ WalkInv /\ ResultInv

\* The sender's domain, if there is one, is known to DNS.
LEMMA SenderKnown ==
  ASSUME InputInv
  PROVE  Sender = Nil \/ (Sender \in DOMAIN zone /\ Sender \in Seq(STRING))
<1>1. mailFrom \in Seq(Seq(STRING))
  BY MessageAssumption DEF InputInv
<1>2. CASE Len(mailFrom) = 1
  <2>1. mailFrom[1] \in Seq(STRING)
    BY <1>1, <1>2
  <2>2. mailFrom[1] \in DOMAIN zone
    BY <1>2, MessageAssumption DEF InputInv
  <2> QED BY <1>2, <2>1, <2>2 DEF Sender, ExtractDomain
<1>3. CASE Len(mailFrom) # 1
  BY <1>3 DEF Sender, ExtractDomain
<1> QED BY <1>2, <1>3

\* lookupSPF finds a record where there is one.
LEMMA LookupFinds ==
  ASSUME NEW z, Proper(z), NEW d \in DOMAIN z
  PROVE  /\ LookupSPF(z, d) # Nil <=> HasRecord(z, d)
         /\ HasRecord(z, d) => LookupSPF(z, d) = z[d].rec
BY DEF LookupSPF, HasRecord, Proper

\* There is no walk.
LEMMA NoWalk == \A z, d, failed : WalkOK(z, <<>>, d, failed)
<1> SUFFICES ASSUME NEW z, NEW d, NEW failed PROVE WalkOK(z, <<>>, d, failed)
  OBVIOUS
<1>1. <<>> \in Seq(Activations(z)) /\ Len(<<>>) = 0 /\ 1..0 = {}
  OBVIOUS
<1> QED BY <1>1 DEF WalkOK

\* SPF ends with such a result.
LEMMA SPFEnds ==
  ASSUME SPFInv, NEW r, NEW d, EndSPF(r, d), ResultOK(r, d, faulty')
  PROVE  SPFInv'
<1>1. /\ zone' = zone /\ mailFrom' = mailFrom /\ from' = from /\ walk' = <<>>
      /\ pc' \in {"dkim", "dmarc"} /\ spf' = [result |-> r, domain |-> d]
  BY DEF EndSPF, dns, AfterSPF
<1>2. Sender' = Sender
  BY <1>1 DEF Sender
<1>3. InputInv'
  BY <1>1 DEF SPFInv, InputInv
<1>4. WalkInv'
  BY <1>1, NoWalk DEF WalkInv
<1>5. spf'.result = r /\ spf'.domain = d
  BY <1>1
<1>6. ResultInv'
  BY <1>1, <1>2, <1>5 DEF ResultInv, ResultOK
<1> QED BY <1>3, <1>4, <1>6 DEF SPFInv

\* SPF goes on.
LEMMA SPFGoesOn ==
  ASSUME SPFInv, pc = "spf", Sender # Nil,
         UNCHANGED <<dns, pc, spf>>,
         WalkOK(zone, walk', Sender, faulty')
  PROVE  SPFInv'
<1>1. zone' = zone /\ mailFrom' = mailFrom /\ from' = from /\ pc' = pc /\ spf' = spf
  BY DEF dns
<1>2. Sender' = Sender
  BY <1>1 DEF Sender
<1>3. spf = Nil
  BY DEF SPFInv, WalkInv
<1>4. WalkInv'
  BY <1>1, <1>2, <1>3 DEF WalkInv
<1> QED BY <1>1, <1>3, <1>4 DEF SPFInv, InputInv, ResultInv

\* An activation returns what its record means, as far as it was looked up.
LEMMA SPFReturns ==
  ASSUME SPFInv, walk # <<>>, UNCHANGED faulty,
         NEW r \in {"pass", "fail", "softfail", "neutral"}, Return(r),
         Acyclic(zone) => Answers(zone, walk[1].domain, r, faulty)
  PROVE  SPFInv'
<1>0. /\ Proper(zone) /\ WalkOK(zone, walk, Sender, faulty) /\ Sender # Nil /\ pc = "spf"
      /\ Len(walk) \in Nat
  BY ZonesProper DEF SPFInv, InputInv, WalkInv, WalkOK
<1>1. CASE Len(walk) = 1 /\ EndSPF(r, Sender)
  <2>1. walk[1].domain = Sender
    BY <1>0, <1>1 DEF WalkOK
  <2>2. ResultOK(r, Sender, faulty')
    BY <1>0, <2>1 DEF ResultOK
  <2> QED BY <1>1, <2>2, SPFEnds
<1>2. CASE r = "pass" /\ EndSPF(r, Sender)
  <2>1. ASSUME Acyclic(zone) PROVE Answers(zone, Sender, r, faulty)
    <3>1. walk[1].domain \in Authorising(zone)
      BY <1>2, <2>1 DEF Answers
    <3>2. Sender \in Authorising(zone)
      BY <1>0, <2>1, <3>1, WalkPasses
    <3>3. Solves(zone, Authorising(zone))
      BY <1>0, <2>1, AuthorisingSolves
    <3>4. RecordResult(zone, Sender, Authorising(zone)) = "pass"
      BY <3>2, <3>3 DEF Solves
    <3> QED BY <1>2, <3>2, <3>4 DEF Answers
  <2>2. ResultOK(r, Sender, faulty')
    BY <1>0, <2>1 DEF ResultOK
  <2> QED BY <1>2, <2>2, SPFEnds
<1>3. CASE /\ Len(walk) > 1 /\ r # "pass" /\ walk' = Tail(walk)
           /\ UNCHANGED <<dns, pc, spf>>
  <2>1. WalkOK(zone, Tail(walk), Sender, faulty)
    BY <1>0, <1>3, WalkReturns
  <2> QED BY <1>0, <1>3, <2>1, SPFGoesOn
<1> QED BY <1>1, <1>2, <1>3 DEF Return

\* A mechanism that does not decide is passed over.
LEMMA Undecided ==
  ASSUME NEW z, Proper(z), NEW f \in Activations(z), InRecord(z, f), f.rest # <<>>,
         Decide(z, f.domain, Head(f.rest)) = "skip", NEW P,
         IsInclude(Head(f.rest)) => Head(f.rest).domain \notin P
  PROVE  Behind(z, f) + 1 \notin Deciding(z, f.domain, P)
BY Advance DEF Deciding

\* A mechanism that asks DNS can only say pass.
LEMMA AskersPass ==
  ASSUME NEW z, NEW d, NEW m, Asks(m)
  PROVE  Decide(z, d, m) \in {"pass", "skip"} /\ ~IsInclude(m)
BY DEF Decide, Asks, IsInclude

\* A mechanism other than include is evaluated.
LEMMA MechanismStep ==
  ASSUME SPFInv, CheckMechanism
  PROVE  SPFInv'
<1> DEFINE f == walk[1]
           mech == Head(f.rest)
           r == Decide(zone, f.domain, mech)
<1>0. /\ Proper(zone) /\ WalkOK(zone, walk, Sender, faulty) /\ Sender # Nil /\ pc = "spf"
      /\ walk # <<>> /\ f.rest # <<>> /\ ~IsInclude(mech)
  BY ZonesProper DEF SPFInv, InputInv, WalkInv, CheckMechanism
<1>1. /\ f \in Activations(zone) /\ f.rest \in Seq(Mechanisms(zone)) /\ InRecord(zone, f)
      /\ mech \in Mechanisms(zone)
  BY <1>0, Innermost
<1>2. CASE r = "skip" /\ Skip /\ UNCHANGED faulty
  <2>1. Behind(zone, f) + 1 \notin Deciding(zone, f.domain, Authorising(zone))
    BY <1>0, <1>1, <1>2, Undecided
  <2>2. WalkOK(zone, [walk EXCEPT ![1].rest = Tail(@)], Sender, faulty)
    BY <1>0, <2>1, WalkSkips
  <2> QED BY <1>0, <1>2, <2>2, SPFGoesOn DEF Skip
<1>3. CASE r # "skip" /\ Return(r) /\ UNCHANGED faulty
  <2>1. r \in {"pass", "fail", "softfail", "neutral"}
    BY <1>1, <1>3, DecideType
  <2>2. Acyclic(zone) => Answers(zone, f.domain, r, faulty)
    BY <1>0, <1>3, AnswersByMechanism
  <2> QED BY <1>0, <1>3, <2>1, <2>2, SPFReturns
<1>4. CASE Asks(mech) /\ Skip /\ faulty' = TRUE
  <2>1. r = "pass" \/ Behind(zone, f) + 1 \notin Deciding(zone, f.domain, Authorising(zone))
    BY <1>0, <1>1, <1>4, AskersPass, Undecided
  <2>2. WalkOK(zone, [walk EXCEPT ![1].rest = Tail(@)], Sender, TRUE)
    BY <1>0, <2>1, WalkSkips DEF PassKind
  <2> QED BY <1>0, <1>4, <2>2, SPFGoesOn DEF Skip
<1> QED BY <1>2, <1>3, <1>4 DEF CheckMechanism

\* An include is entered, or fails.
LEMMA IncludeStep ==
  ASSUME SPFInv, CheckInclude
  PROVE  SPFInv'
<1> DEFINE f == walk[1]
           mech == Head(f.rest)
           d == mech.domain
           k == Behind(zone, f) + 1
           P == Authorising(zone)
<1>0. /\ Proper(zone) /\ WalkOK(zone, walk, Sender, faulty) /\ Sender # Nil /\ pc = "spf"
      /\ walk # <<>> /\ f.rest # <<>> /\ IsInclude(mech)
  BY ZonesProper DEF SPFInv, InputInv, WalkInv, CheckInclude
<1>1. /\ f \in Activations(zone) /\ f.domain \in DOMAIN zone /\ InRecord(zone, f)
  BY <1>0, Innermost
<1>2. k \in DOMAIN zone[f.domain].rec /\ zone[f.domain].rec[k] = mech
  BY <1>0, <1>1, Advance
<1>3. d \in DOMAIN zone
  BY <1>0, <1>1, <1>2, IncludedKnown
<1>4. CASE Skip /\ faulty' = TRUE
  <2>1. WalkOK(zone, [walk EXCEPT ![1].rest = Tail(@)], Sender, TRUE)
    BY <1>0, WalkSkips DEF PassKind
  <2> QED BY <1>0, <1>4, <2>1, SPFGoesOn DEF Skip
<1>5. CASE zone[d].txt = "other" /\ Skip /\ UNCHANGED faulty
  <2>1. ASSUME Acyclic(zone) PROVE k \notin Deciding(zone, f.domain, P)
    <3>1. Solves(zone, P)
      BY <1>0, <2>1, AuthorisingSolves
    <3>2. d \notin P
      <4> HIDE DEF P
      <4> QED BY <1>5, <3>1 DEF Solves, HasRecord
    <3>3. Decide(zone, f.domain, mech) = "skip"
      BY <1>0, IncludeSkips
    <3> QED BY <1>0, <1>1, <3>2, <3>3, Undecided
  <2>2. WalkOK(zone, [walk EXCEPT ![1].rest = Tail(@)], Sender, faulty)
    BY <1>0, <2>1, WalkSkips
  <2> QED BY <1>0, <1>5, <2>2, SPFGoesOn DEF Skip
<1>6. CASE /\ LookupSPF(zone, d) # Nil
           /\ walk' = <<[domain |-> d, rest |-> LookupSPF(zone, d)]>>
                        \o [walk EXCEPT ![1].rest = Tail(@)]
           /\ UNCHANGED <<dns, pc, spf, faulty>>
  <2>1. HasRecord(zone, d) /\ LookupSPF(zone, d) = zone[d].rec
    BY <1>0, <1>3, <1>6, LookupFinds
  <2>2. WalkOK(zone, <<[domain |-> d, rest |-> zone[d].rec]>>
                       \o [walk EXCEPT ![1].rest = Tail(@)], Sender, faulty)
    BY <1>0, <1>3, <2>1, WalkCalls
  <2>3. WalkOK(zone, walk', Sender, faulty')
    BY <1>6, <2>1, <2>2
  <2> QED BY <1>0, <1>6, <2>3, SPFGoesOn
<1> QED BY <1>4, <1>5, <1>6 DEF CheckInclude

\* A record whose mechanisms have all been skipped is neutral.
LEMMA EndStep ==
  ASSUME SPFInv, EndOfRecord
  PROVE  SPFInv'
<1>0. Proper(zone) /\ WalkOK(zone, walk, Sender, faulty) /\ walk # <<>> /\ walk[1].rest = <<>>
  BY ZonesProper DEF SPFInv, InputInv, WalkInv, EndOfRecord
<1>1. Acyclic(zone) => Answers(zone, walk[1].domain, "neutral", faulty)
  BY <1>0, AnswersAtEnd
<1> QED BY <1>0, <1>1, SPFReturns DEF EndOfRecord

\* verifySPF begins.
LEMMA BeginStep ==
  ASSUME SPFInv, VerifySPF
  PROVE  SPFInv'
<1>0. Proper(zone) /\ pc = "spf"
  BY ZonesProper DEF SPFInv, InputInv, VerifySPF
<1>1. CASE Sender = Nil /\ EndSPF("none", "helo")
  BY <1>1, SPFEnds DEF ResultOK
<1>2. CASE Sender # Nil /\ EndSPF("temperror", Sender) /\ faulty' = TRUE
  <2>1. ResultOK("temperror", Sender, faulty')
    BY <1>2 DEF ResultOK
  <2> QED BY <1>2, <2>1, SPFEnds
<1>3. CASE Sender # Nil /\ zone[Sender].txt = "other" /\ EndSPF("none", Sender)
  <2>1. ResultOK("none", Sender, faulty')
    BY <1>3 DEF ResultOK, HasRecord
  <2> QED BY <1>3, <2>1, SPFEnds
<1>4. CASE /\ Sender # Nil /\ LookupSPF(zone, Sender) # Nil
           /\ walk' = <<[domain |-> Sender, rest |-> LookupSPF(zone, Sender)]>>
           /\ UNCHANGED <<dns, pc, spf, faulty>>
  <2>1. Sender \in DOMAIN zone
    BY <1>4, SenderKnown DEF SPFInv
  <2>2. HasRecord(zone, Sender) /\ LookupSPF(zone, Sender) = zone[Sender].rec
    BY <1>0, <1>4, <2>1, LookupFinds
  <2>3. WalkOK(zone, <<[domain |-> Sender, rest |-> zone[Sender].rec]>>, Sender, faulty)
    BY <1>0, <2>1, <2>2, WalkBegins
  <2>4. WalkOK(zone, walk', Sender, faulty')
    BY <1>4, <2>2, <2>3
  <2> QED BY <1>0, <1>4, <2>4, SPFGoesOn
<1> QED BY <1>1, <1>2, <1>3, <1>4 DEF VerifySPF

\* The steps outside SPF.
LEMMA OtherStep ==
  ASSUME SPFInv,
         \/ Begin \/ VerifyDKIM \/ VerifyDMARC \/ Act \/ UNCHANGED vars
  PROVE  SPFInv'
<1>1. /\ zone' = zone /\ mailFrom' = mailFrom /\ from' = from
      /\ walk' = walk /\ spf' = spf /\ faulty' = faulty
  BY DEF Begin, VerifyDKIM, VerifyDMARC, Act, vars, dns
<1>2. /\ walk # <<>> => pc' = pc
      /\ pc' \in {"start", "spf"} => pc \in {"start", "spf"}
  BY DEF Begin, VerifyDKIM, VerifyDMARC, Act, vars, SPFInv, WalkInv
<1>3. Sender' = Sender
  BY <1>1 DEF Sender
<1>4. WalkInv'
  BY <1>1, <1>2, <1>3 DEF SPFInv, WalkInv
<1>5. ResultInv'
  BY <1>1, <1>3 DEF SPFInv, ResultInv, ResultOK
<1> QED BY <1>1, <1>4, <1>5 DEF SPFInv, InputInv

\* The walk never leaves the records it reads, and remembers only what could not
\* have decided otherwise: the invariant behind the theorem below.
THEOREM WalkSound == Spec => []SPFInv
<1>1. Init => SPFInv
  <2> SUFFICES ASSUME Init PROVE SPFInv
    OBVIOUS
  <2>1. zone \in Zones /\ mailFrom \in MailFroms /\ from \in Froms \cup {Nil}
        /\ walk = <<>> /\ spf = Nil
    BY DEF Init
  <2> QED BY <2>1, NoWalk DEF SPFInv, InputInv, WalkInv, ResultInv
<1>2. SPFInv /\ [Next]_vars => SPFInv'
  BY MechanismStep, IncludeStep, EndStep, BeginStep, OtherStep DEF Next
<1> QED BY <1>1, <1>2, PTL DEF Spec

\* The result of SPF is what the records mean, unless a lookup has failed, and a
\* sender passes only if the records authorise it, whatever lookups fail: for
\* every DNS content whose includes are acyclic and any depth of them.
THEOREM SPFSound == Spec => []SPFMatchesRecords
<1>1. SPFInv => SPFMatchesRecords
  BY DEF SPFInv, ResultInv, ResultOK, Answers, SPFMatchesRecords
<1> QED BY <1>1, WalkSound, PTL

-----------------------------------------------------------------------------
\* What becomes of the message.

\* The DKIM results are those of the signatures.
SignaturesInv ==
  /\ sigs \in Seq([domain : Seq(STRING), err : STRING])
  /\ \/ sigs = <<>> /\ \A i \in DOMAIN dkim : dkim[i].result # "pass"
     \/ /\ DOMAIN dkim = DOMAIN sigs
        /\ \A i \in DOMAIN sigs :
             /\ dkim[i].result = "pass" <=> sigs[i].err = ""
             /\ dkim[i].domain = sigs[i].domain

\* Before DMARC no policy is known, and SPF has a result once it has run.
StageInv ==
  /\ config \in Configs
  /\ pc \in {"start", "spf", "dkim", "dmarc", "act", "done"}
  /\ pc \in {"start", "spf", "dkim", "dmarc"} => policy = Nil /\ action = "accept"
  /\ pc # "start" /\ from = Nil => policy = Nil /\ pc \in {"act", "done"}
  /\ pc = "spf" => config.spf
  /\ pc \in {"dkim", "dmarc"} => (spf # Nil <=> config.spf)

\* The action that the policy asks for, if there is one.
Verdict ==
  LET d == ExtractDomainFromHeader(from) IN
  IF CheckSPFAlignment(d, policy) \/ CheckDKIMAlignment(d, policy)
    THEN "accept" ELSE PolicyAction(policy)

\* After it the action is what the policy asks for.
ActionInv ==
  LET d == ExtractDomainFromHeader(from) IN
  /\ policy = Nil => action = "accept"
  /\ policy # Nil =>
       /\ pc \in {"act", "done"}
       /\ d # Nil /\ (spf # Nil <=> config.spf)
       /\ action = Verdict
  /\ pc = "done" =>
       outcome = CASE action = "reject" -> "refused"
                   [] action = "quarantine" -> "marked"
                   [] OTHER -> "stored"

MessageInv == SignaturesInv /\ StageInv /\ ActionInv

\* A step of SPF leaves the rest alone, and may end SPF with a result.
LEMMA SPFStep ==
  ASSUME SPFInv, VerifySPF \/ CheckMechanism \/ CheckInclude \/ EndOfRecord
  PROVE  /\ pc = "spf" /\ UNCHANGED <<dns, dkim, sigs, policy, action, outcome>>
         /\ \/ UNCHANGED <<pc, spf>>
            \/ pc' = AfterSPF /\ spf' # Nil
<1> DEFINE Quiet == UNCHANGED <<dns, dkim, sigs, policy, action, outcome>>
           Ends == \E r \in SPFResults : \E d \in {"helo", Sender} : EndSPF(r, d)
           Results == [result : SPFResults, domain : {"helo"} \cup Seq(STRING)]
<1>1. ASSUME Ends, Sender # Nil \/ EndSPF("none", "helo")
      PROVE  Quiet /\ pc' = AfterSPF /\ spf' # Nil
  <2>1. Sender = Nil \/ Sender \in Seq(STRING)
    BY SenderKnown DEF SPFInv
  <2>2. PICK r \in SPFResults, d \in {"helo"} \cup Seq(STRING) : EndSPF(r, d)
    BY <1>1, <2>1 DEF SPFResults
  <2>3. spf' \in Results
    BY <2>2 DEF EndSPF
  <2>4. spf' # Nil
    <3> HIDE DEF Results
    <3>1. Nil \notin Results
      BY NilAssumption DEF Results
    <3> QED BY <2>3, <3>1
  <2> QED BY <2>2, <2>4 DEF EndSPF
<1>2. ASSUME VerifySPF
      PROVE  pc = "spf" /\ Quiet /\ (UNCHANGED <<pc, spf>> \/ (pc' = AfterSPF /\ spf' # Nil))
  <2>1. CASE EndSPF("none", "helo")
    BY <1>1, <1>2, <2>1 DEF VerifySPF, SPFResults
  <2>2. CASE Sender # Nil /\ EndSPF("temperror", Sender)
    BY <1>1, <1>2, <2>2 DEF VerifySPF, SPFResults
  <2>3. CASE Sender # Nil /\ EndSPF("none", Sender)
    BY <1>1, <1>2, <2>3 DEF VerifySPF, SPFResults
  <2>4. CASE UNCHANGED <<dns, pc, spf, dkim, dmarc, sigs, policy, faulty, action,
                         pass, outcome>>
    BY <1>2, <2>4 DEF VerifySPF
  <2> QED BY <1>2, <2>1, <2>2, <2>3, <2>4 DEF VerifySPF
<1>3. ASSUME NEW r \in SPFResults, walk # <<>>, Return(r)
      PROVE  pc = "spf" /\ Quiet /\ (UNCHANGED <<pc, spf>> \/ (pc' = AfterSPF /\ spf' # Nil))
  <2>1. pc = "spf" /\ Sender # Nil
    BY <1>3 DEF SPFInv, WalkInv
  <2>2. CASE EndSPF(r, Sender)
    BY <1>1, <2>1, <2>2
  <2>3. CASE UNCHANGED <<dns, pc, spf, dkim, dmarc, sigs, policy, action, pass, outcome>>
    BY <2>1, <2>3
  <2> QED BY <1>3, <2>2, <2>3 DEF Return
<1>4. ASSUME walk # <<>>, Skip
      PROVE  pc = "spf" /\ Quiet /\ UNCHANGED <<pc, spf>>
  BY <1>4 DEF Skip, SPFInv, WalkInv
<1>5. ASSUME CheckMechanism
      PROVE  pc = "spf" /\ Quiet /\ (UNCHANGED <<pc, spf>> \/ (pc' = AfterSPF /\ spf' # Nil))
  <2> DEFINE mech == Head(walk[1].rest)
             r == Decide(zone, walk[1].domain, mech)
  <2>1. /\ Proper(zone) /\ WalkOK(zone, walk, Sender, faulty)
        /\ walk # <<>> /\ walk[1].rest # <<>>
    BY <1>5, ZonesProper DEF SPFInv, InputInv, WalkInv, CheckMechanism
  <2>2. mech \in Mechanisms(zone)
    BY <2>1, Innermost
  <2>3. r = "skip" \/ r \in SPFResults
    BY <2>2, DecideType DEF SPFResults
  <2>4. Skip \/ (r # "skip" /\ Return(r))
    BY <1>5 DEF CheckMechanism
  <2> HIDE DEF r
  <2> QED BY <1>3, <1>4, <2>1, <2>3, <2>4
<1>6. ASSUME CheckInclude
      PROVE  pc = "spf" /\ Quiet /\ UNCHANGED <<pc, spf>>
  <2>1. walk # <<>> /\ pc = "spf"
    BY <1>6 DEF CheckInclude, SPFInv, WalkInv
  <2>2. \/ Skip
        \/ UNCHANGED <<dns, pc, spf, dkim, dmarc, sigs, policy, faulty, action,
                       pass, outcome>>
    BY <1>6 DEF CheckInclude
  <2> QED BY <1>4, <2>1, <2>2
<1>7. ASSUME EndOfRecord
      PROVE  pc = "spf" /\ Quiet /\ (UNCHANGED <<pc, spf>> \/ (pc' = AfterSPF /\ spf' # Nil))
  BY <1>3, <1>7 DEF EndOfRecord, SPFResults
<1> QED BY <1>2, <1>5, <1>6, <1>7

\* It depends on the message, the results and the policy.
LEMMA SameVerdict ==
  ASSUME UNCHANGED <<dns, spf, dkim, policy>>
  PROVE  Verdict' = Verdict
BY DEF Verdict, dns, CheckSPFAlignment, CheckDKIMAlignment, PolicyAction

\* The message's own part of the invariant over a step that leaves the policy
\* and the action alone.
LEMMA ActionKept ==
  ASSUME MessageInv, UNCHANGED <<dns, policy, action>>,
         policy # Nil => /\ UNCHANGED <<spf, dkim>> /\ pc' \in {"act", "done"},
         pc' = "done" => pc = "done" /\ UNCHANGED outcome
  PROVE  ActionInv'
<1>1. policy' = policy /\ action' = action /\ from' = from /\ config' = config
  BY DEF dns
<1>2. CASE policy = Nil
  BY <1>1, <1>2 DEF MessageInv, ActionInv
<1>3. CASE policy # Nil
  <2>1. Verdict' = Verdict /\ action = Verdict
    BY <1>3, SameVerdict DEF MessageInv, ActionInv, Verdict
  <2>2. action' = Verdict'
    BY <1>1, <2>1
  <2> QED BY <1>1, <1>3, <2>2 DEF MessageInv, ActionInv, Verdict
<1> QED BY <1>2, <1>3

\* A step of the SPF check.
LEMMA MessageSPF ==
  ASSUME SPFInv, MessageInv, VerifySPF \/ CheckMechanism \/ CheckInclude \/ EndOfRecord
  PROVE  MessageInv'
<1>1. /\ pc = "spf" /\ UNCHANGED <<dns, dkim, sigs, policy, action, outcome>>
      /\ UNCHANGED <<pc, spf>> \/ (pc' = AfterSPF /\ spf' # Nil)
  BY SPFStep
<1>2. policy = Nil /\ config' = config /\ from' = from /\ config.spf /\ from # Nil
      /\ pc' \in {"spf", "dkim", "dmarc"}
  BY <1>1 DEF MessageInv, StageInv, dns, AfterSPF
<1>3. SignaturesInv'
  BY <1>1 DEF MessageInv, SignaturesInv
<1>4. StageInv'
  BY <1>1, <1>2 DEF MessageInv, StageInv
<1>5. ActionInv'
  BY <1>1, <1>2, ActionKept
<1> QED BY <1>3, <1>4, <1>5 DEF MessageInv

\* The checks that are switched on begin.
LEMMA MessageBegin ==
  ASSUME SPFInv, MessageInv, Begin
  PROVE  MessageInv'
<1>1. /\ pc = "start" /\ pc' \in {"spf", "dkim", "dmarc", "act"} /\ spf = Nil
      /\ policy = Nil /\ action = "accept"
      /\ UNCHANGED <<dns, spf, dkim, sigs, policy, action, outcome>>
  BY DEF Begin, AfterSPF, SPFInv, WalkInv, MessageInv, StageInv
<1>2. /\ from = Nil => pc' = "act"
      /\ pc' = "act" => from = Nil
      /\ pc' = "spf" => config.spf
      /\ pc' \in {"dkim", "dmarc"} => ~config.spf
  <2>1. config.spf \in BOOLEAN
    BY ConfigAssumption DEF MessageInv, StageInv
  <2>2. CASE from = Nil
    BY <2>2 DEF Begin
  <2>3. CASE from # Nil /\ config.spf
    BY <2>3 DEF Begin
  <2>4. CASE from # Nil /\ ~config.spf
    BY <2>4 DEF Begin, AfterSPF
  <2> QED BY <2>1, <2>2, <2>3, <2>4
<1>3. SignaturesInv'
  BY <1>1 DEF MessageInv, SignaturesInv
<1>4. StageInv'
  BY <1>1, <1>2 DEF MessageInv, StageInv, dns
<1>5. ActionInv'
  BY <1>1, ActionKept
<1> QED BY <1>3, <1>4, <1>5 DEF MessageInv

\* The DKIM check.
LEMMA MessageDKIM ==
  ASSUME MessageInv, VerifyDKIM
  PROVE  MessageInv'
<1>1. /\ pc = "dkim" /\ pc' = "dmarc" /\ policy = Nil /\ action = "accept"
      /\ UNCHANGED <<dns, spf, policy, action, outcome>>
  BY DEF VerifyDKIM, MessageInv, StageInv
<1>2. SignaturesInv'
  <2>1. CASE UNCHANGED <<sigs, dkim>>
    BY <2>1 DEF MessageInv, SignaturesInv
  <2>2. CASE ~UNCHANGED <<sigs, dkim>>
    <3>1. PICK s \in Signatures :
            /\ sigs' = s
            /\ dkim' = IF s = <<>> THEN <<[result |-> "none", domain |-> Nil]>>
                       ELSE [i \in DOMAIN s |-> [result |-> SignatureResult(s[i]),
                                                 domain |-> s[i].domain]]
      BY <2>2 DEF VerifyDKIM
    <3>2. s \in Seq([domain : Seq(STRING), err : STRING])
      BY MessageAssumption
    <3>3. CASE s = <<>>
      BY <3>1, <3>2, <3>3 DEF SignaturesInv
    <3>4. CASE s # <<>>
      <4>1. DOMAIN dkim' = DOMAIN sigs'
        BY <3>1, <3>4
      <4>2. \A i \in DOMAIN s : SignatureResult(s[i]) = "pass" <=> s[i].err = ""
        BY DEF SignatureResult
      <4>3. \A i \in DOMAIN s : dkim'[i].result = SignatureResult(s[i])
                                /\ dkim'[i].domain = s[i].domain
        BY <3>1, <3>4
      <4> QED BY <3>1, <3>2, <4>1, <4>2, <4>3 DEF SignaturesInv
    <3> QED BY <3>3, <3>4
  <2> QED BY <2>1, <2>2
<1>3. StageInv'
  BY <1>1 DEF MessageInv, StageInv, dns
<1>4. ActionInv'
  BY <1>1, ActionKept
<1> QED BY <1>2, <1>3, <1>4 DEF MessageInv

\* The DMARC check.
LEMMA MessageDMARC ==
  ASSUME MessageInv, VerifyDMARC
  PROVE  MessageInv'
<1> DEFINE d == ExtractDomainFromHeader(from)
<1>1. /\ pc = "dmarc" /\ pc' = "act" /\ policy = Nil /\ action = "accept" /\ from # Nil
      /\ spf # Nil <=> config.spf
      /\ UNCHANGED <<dns, spf, dkim, sigs, outcome>>
  BY DEF VerifyDMARC, MessageInv, StageInv
<1>2. SignaturesInv'
  BY <1>1 DEF MessageInv, SignaturesInv
<1>3. StageInv'
  BY <1>1 DEF MessageInv, StageInv, dns
<1>4. ActionInv'
  <2>1. CASE UNCHANGED <<policy, action>>
    BY <1>1, <2>1, ActionKept
  <2>2. CASE ~UNCHANGED <<policy, action>>
    <3>1. PICK record \in Policies :
            /\ policy' = record /\ d # Nil
            /\ dmarc' = IF CheckSPFAlignment(d, record) \/ CheckDKIMAlignment(d, record)
                          THEN "pass" ELSE "fail"
            /\ action' = IF dmarc' = "fail" THEN PolicyAction(record) ELSE action
      BY <2>2 DEF VerifyDMARC
    <3>2. action' = IF CheckSPFAlignment(d, record) \/ CheckDKIMAlignment(d, record)
                      THEN "accept" ELSE PolicyAction(record)
      BY <1>1, <3>1
    <3>3. Verdict' = IF CheckSPFAlignment(d, record) \/ CheckDKIMAlignment(d, record)
                       THEN "accept" ELSE PolicyAction(record)
      BY <1>1, <3>1 DEF Verdict, dns, CheckSPFAlignment, CheckDKIMAlignment, PolicyAction
    <3>4. policy' # Nil
      BY <3>1, NilAssumption
    <3>5. from' = from /\ config' = config /\ spf' = spf
      BY <1>1 DEF dns
    <3> QED BY <1>1, <3>1, <3>2, <3>3, <3>4, <3>5 DEF ActionInv
  <2> QED BY <2>1, <2>2
<1> QED BY <1>2, <1>3, <1>4 DEF MessageInv

\* The message is accepted, marked or refused.
LEMMA MessageAct ==
  ASSUME MessageInv, Act
  PROVE  MessageInv'
<1>1. /\ pc = "act" /\ pc' = "done"
      /\ UNCHANGED <<dns, spf, dkim, sigs, policy, action>>
      /\ outcome' = CASE action = "reject" -> "refused"
                      [] action = "quarantine" -> "marked"
                      [] OTHER -> "stored"
  BY DEF Act
<1>2. SignaturesInv'
  BY <1>1 DEF MessageInv, SignaturesInv
<1>3. StageInv'
  BY <1>1 DEF MessageInv, StageInv, dns
<1>4. Verdict' = Verdict
  BY <1>1, SameVerdict
<1>5. ActionInv'
  BY <1>1, <1>4 DEF MessageInv, ActionInv, dns
<1> QED BY <1>2, <1>3, <1>5 DEF MessageInv

\* A step that changes nothing.
LEMMA MessageStutters ==
  ASSUME MessageInv, UNCHANGED vars
  PROVE  MessageInv'
<1>1. SignaturesInv' /\ StageInv'
  BY DEF vars, MessageInv, SignaturesInv, StageInv
<1>2. ActionInv'
  BY SameVerdict DEF vars, dns, MessageInv, ActionInv
<1> QED BY <1>1, <1>2 DEF MessageInv

\* The message's part of the invariant: results, policy and action belong
\* together at every stage.
THEOREM MessageSound == Spec => []MessageInv
<1>1. Init => MessageInv
  <2> SUFFICES ASSUME Init PROVE MessageInv
    OBVIOUS
  <2>1. SignaturesInv
    <3>1. sigs = <<>> /\ dkim = <<>>
      BY DEF Init
    <3> QED BY <3>1 DEF SignaturesInv
  <2> QED BY <2>1 DEF Init, MessageInv, StageInv, ActionInv
<1>2. SPFInv /\ MessageInv /\ [Next]_vars => MessageInv'
  BY MessageSPF, MessageBegin, MessageDKIM, MessageDMARC, MessageAct, MessageStutters
     DEF Next
<1> QED BY <1>1, <1>2, WalkSound, PTL DEF Spec

\* A result aligns with the From domain if it is a pass and its domain vouches.
LEMMA AlignedVouches ==
  ASSUME NEW mode, NEW d \in Seq(STRING), NEW r, r.domain \in Seq(STRING)
  PROVE  Aligned(mode, d, r) <=> r.result = "pass" /\ Vouches(mode, d, r.domain)
BY OrganisationsMatch DEF Aligned, Vouches

\* What happens to a message is what the policy of its From domain asks for: for
\* every policy, every set of public suffixes and every combination of failures.
\* Alignment is the record's, whatever the enforcement; and where no policy is
\* found, or no domain to look for one, the message is stored.
THEOREM DispositionSound == Spec => []DispositionFollowsPolicy
<1>1. SPFInv /\ MessageInv => DispositionFollowsPolicy
  <2> SUFFICES ASSUME SPFInv, MessageInv, Acyclic(zone), pc = "done"
               PROVE  LET d == ExtractDomainFromHeader(from) IN
                      IF policy = Nil THEN outcome = "stored"
                      ELSE /\ ~Vouched(d) =>
                                outcome = CASE PolicyAction(policy) = "reject" -> "refused"
                                            [] PolicyAction(policy) = "quarantine" -> "marked"
                                            [] OTHER -> "stored"
                           /\ Vouched(d) /\ ~faulty => outcome = "stored"
    BY DEF DispositionFollowsPolicy
  <2> DEFINE d == ExtractDomainFromHeader(from)
  <2>1. outcome = CASE action = "reject" -> "refused"
                    [] action = "quarantine" -> "marked"
                    [] OTHER -> "stored"
    BY DEF MessageInv, ActionInv
  <2>2. CASE policy = Nil
    BY <2>1, <2>2 DEF MessageInv, ActionInv
  <2>3. CASE policy # Nil
    <3>1. /\ d # Nil /\ (spf # Nil <=> config.spf) /\ action = Verdict
          /\ pc \in {"act", "done"} /\ from # Nil
      BY <2>3 DEF MessageInv, ActionInv, StageInv
    <3>2. d \in Seq(STRING)
      <4>1. from.ats \in Seq(Seq(STRING)) /\ from.ats # <<>>
        BY <3>1, MessageAssumption DEF SPFInv, InputInv, ExtractDomainFromHeader
      <4>2. d = from.ats[Len(from.ats)]
        BY <3>1 DEF ExtractDomainFromHeader
      <4> QED BY <4>1, <4>2
    <3>3. CheckDKIMAlignment(d, policy) <=>
            \E i \in DOMAIN sigs : sigs[i].err = "" /\ Vouches(policy.adkim, d, sigs[i].domain)
      <4>1. \A i \in DOMAIN sigs : sigs[i].domain \in Seq(STRING)
        <5> DEFINE S == [domain : Seq(STRING), err : STRING]
        <5>1. sigs \in Seq(S)
          BY DEF MessageInv, SignaturesInv
        <5>2. \A i \in DOMAIN sigs : sigs[i] \in S
          <6> HIDE DEF S
          <6> QED BY <5>1
        <5> QED BY <5>2
      <4>2. CASE sigs = <<>> /\ \A i \in DOMAIN dkim : dkim[i].result # "pass"
        BY <4>2 DEF CheckDKIMAlignment, Aligned
      <4>3. CASE /\ DOMAIN dkim = DOMAIN sigs
                 /\ \A i \in DOMAIN sigs :
                      /\ dkim[i].result = "pass" <=> sigs[i].err = ""
                      /\ dkim[i].domain = sigs[i].domain
        <5>1. \A i \in DOMAIN sigs :
                Aligned(policy.adkim, d, dkim[i]) <=>
                  sigs[i].err = "" /\ Vouches(policy.adkim, d, sigs[i].domain)
          BY <3>2, <4>1, <4>3, AlignedVouches
        <5> QED BY <4>3, <5>1 DEF CheckDKIMAlignment
      <4> QED BY <4>2, <4>3 DEF MessageInv, SignaturesInv
    <3> DEFINE BySPF == /\ config.spf /\ Sender # Nil /\ Sender \in Authorising(zone)
                        /\ Vouches(policy.aspf, d, Sender)
    <3>4. Sender = Nil \/ Sender \in Seq(STRING)
      BY SenderKnown DEF SPFInv
    <3>5. spf # Nil => ResultOK(spf.result, spf.domain, faulty)
      BY DEF SPFInv, ResultInv
    <3>6. CheckSPFAlignment(d, policy) => BySPF
      <4>1. SUFFICES ASSUME spf # Nil, Aligned(policy.aspf, d, spf) PROVE BySPF
        BY DEF CheckSPFAlignment
      <4>2. spf.result = "pass"
        BY <4>1 DEF Aligned
      <4>3. Sender # Nil /\ spf.domain = Sender /\ Sender \in Authorising(zone)
        BY <3>5, <4>1, <4>2 DEF ResultOK, Answers
      <4> QED BY <3>1, <3>2, <3>4, <4>1, <4>3, AlignedVouches
    <3>7. BySPF /\ ~faulty => CheckSPFAlignment(d, policy)
      <4>1. SUFFICES ASSUME BySPF, ~faulty PROVE CheckSPFAlignment(d, policy)
        OBVIOUS
      <4>2. Solves(zone, Authorising(zone))
        BY AuthorisingSolves, ZonesProper DEF SPFInv, InputInv
      <4>3. /\ HasRecord(zone, Sender)
            /\ RecordResult(zone, Sender, Authorising(zone)) = "pass"
        BY <4>1, <4>2 DEF Solves
      <4>4. spf # Nil /\ spf.domain = Sender /\ spf.result = "pass"
        BY <3>1, <3>5, <4>1, <4>3 DEF ResultOK, Answers
      <4> QED BY <3>2, <3>4, <4>1, <4>4, AlignedVouches DEF CheckSPFAlignment
    <3>8. Vouched(d) <=> BySPF \/ CheckDKIMAlignment(d, policy)
      BY <3>3 DEF Vouched
    <3> HIDE DEF BySPF, d
    <3>9. ~Vouched(d) => action = PolicyAction(policy)
      BY <3>1, <3>6, <3>8 DEF Verdict, d
    <3>10. Vouched(d) /\ ~faulty => action = "accept"
      BY <3>1, <3>7, <3>8 DEF Verdict, d
    <3> QED BY <2>1, <2>3, <3>9, <3>10 DEF d
  <2> QED BY <2>2, <2>3
<1> QED BY <1>1, WalkSound, MessageSound, PTL
=============================================================================
