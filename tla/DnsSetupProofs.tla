--------------------------- MODULE DnsSetupProofs ---------------------------
(***************************************************************************)
(* Proofs about DnsSetup: `dns create` and the names of the host, run by   *)
(* any number of administrators at the same time, with calls that fail,    *)
(* lose their answer or are done late.                                     *)
(***************************************************************************)
EXTENDS DnsSetup, SequenceTheorems, WellFoundedInduction, TLAPS

\* The least element of a set of numbers, in place of induction: a property of
\* numbers that fails somewhere fails at a least place.
LEMMA Least ==
  ASSUME NEW T \in SUBSET Nat, T # {}
  PROVE  \E m \in T : \A k \in T : m <= k
<1>1. PICK m \in T : \A k \in T : <<k, m>> \notin OpToRel(<, Nat)
  BY WFMin, NatLessThanWellFounded
<1>2. \A k \in T : ~(k < m)
  BY <1>1 DEF OpToRel
<1> QED BY <1>2

-----------------------------------------------------------------------------
\* /etc/hosts.

\* The lines with the mail hostname put in.
Renamed(lines) ==
  [i \in DOMAIN lines |-> CASE lines[i] = "oldself" -> "self"
                            [] lines[i] = "bare" -> "local"
                            [] OTHER -> lines[i]]

Here(lines) == {i \in DOMAIN lines : lines[i] \in {"local", "note"}}
HasSelf(lines) == \E i \in DOMAIN lines : lines[i] = "self"

\* A line for the host goes after line i.
Inserted(lines, i) ==
  SubSeq(lines, 1, i) \o <<"self">> \o SubSeq(lines, i + 1, Len(lines))

\* updateEtcHosts in two parts: the names are put in, and a line may be added.
LEMMA UpdateIs ==
  ASSUME NEW lines
  PROVE  UpdateEtcHosts(lines) =
           LET new == Renamed(lines) IN
           IF Here(new) = {} \/ HasSelf(new) THEN new
           ELSE Inserted(new, CHOOSE i \in Here(new) : \A j \in Here(new) : i <= j)
BY DEF UpdateEtcHosts, Renamed, Here, HasSelf, Inserted

\* Lines in which nothing is left to put in.
Settled(lines) ==
  /\ \A i \in DOMAIN lines : lines[i] \notin {"oldself", "bare"}
  /\ Here(lines) = {} \/ HasSelf(lines)

\* Lines in which nothing is left to put in are left alone.
LEMMA SettledStays ==
  ASSUME NEW lines \in Seq(Lines), Settled(lines)
  PROVE  UpdateEtcHosts(lines) = lines
<1>1. Renamed(lines) = lines
  BY DEF Renamed, Settled
<1> QED BY <1>1, UpdateIs DEF Settled

\* The renaming leaves lines, none of them with another name.
LEMMA RenamedType ==
  ASSUME NEW lines \in Seq(Lines)
  PROVE  /\ Renamed(lines) \in Seq(Lines)
         /\ \A i \in DOMAIN Renamed(lines) : Renamed(lines)[i] \notin {"oldself", "bare"}
<1>1. Len(lines) \in Nat /\ DOMAIN lines = 1..Len(lines)
  OBVIOUS
<1>2. \A i \in DOMAIN lines : Renamed(lines)[i] \in Lines
                              /\ Renamed(lines)[i] \notin {"oldself", "bare"}
  BY DEF Renamed, Lines
<1>3. DOMAIN Renamed(lines) = DOMAIN lines
  BY DEF Renamed
<1>4. Renamed(lines) \in [1..Len(lines) -> Lines]
  BY <1>1, <1>2 DEF Renamed
<1>5. Renamed(lines) \in Seq(Lines)
  BY <1>1, <1>4, SeqDef
<1> QED BY <1>2, <1>3, <1>5

\* An element between two sequences.
LEMMA Between ==
  ASSUME NEW S, NEW a \in Seq(S), NEW x \in S, NEW b \in Seq(S)
  PROVE  LET l == a \o <<x>> \o b IN
         l \in Seq(S) /\ Len(a) + 1 \in DOMAIN l /\ l[Len(a) + 1] = x
<1> DEFINE e == a \o <<x>>
           l == e \o b
           n == Len(a) + 1
<1>1. e \in Seq(S) /\ Len(e) = n /\ n \in Nat /\ n >= 1 /\ e[n] = x
  OBVIOUS
<1> HIDE DEF e, n
<1>2. l \in Seq(S) /\ Len(l) = n + Len(b) /\ Len(b) \in Nat
  BY <1>1
<1>3. l[n] = e[n]
  <2>1. n \in 1..Len(e)
    BY <1>1
  <2> QED BY <1>1, <2>1
<1>4. n \in DOMAIN l
  BY <1>1, <1>2
<1> QED BY <1>1, <1>2, <1>3, <1>4 DEF e, n

\* The elements of the lines after the insertion.
LEMMA InsertedType ==
  ASSUME NEW lines \in Seq(Lines), NEW i \in DOMAIN lines,
         \A j \in DOMAIN lines : lines[j] \notin {"oldself", "bare"}
  PROVE  /\ Inserted(lines, i) \in Seq(Lines) /\ HasSelf(Inserted(lines, i))
         /\ \A j \in DOMAIN Inserted(lines, i) :
              Inserted(lines, i)[j] \notin {"oldself", "bare"}
<1> DEFINE S == Lines \ {"oldself", "bare"}
           a == SubSeq(lines, 1, i)
           b == SubSeq(lines, i + 1, Len(lines))
<1>1. Len(lines) \in Nat /\ i \in 1..Len(lines) /\ \A j \in 1..Len(lines) : lines[j] \in S
  OBVIOUS
<1> HIDE DEF S
<1>2. a \in Seq(S) /\ Len(a) = i
  BY <1>1, SubSeqProperties
<1>3. b \in Seq(S)
  <2>1. \A j \in (i+1)..Len(lines) : lines[j] \in S
    BY <1>1
  <2> QED BY <1>1, <2>1, SubSeqProperties
<1>4. "self" \in S
  BY DEF S, Lines
<1> HIDE DEF a, b
<1> DEFINE l == a \o <<"self">> \o b
<1>5. l \in Seq(S) /\ i + 1 \in DOMAIN l /\ l[i + 1] = "self"
  BY <1>2, <1>3, <1>4, Between
<1>6. Inserted(lines, i) = l
  BY DEF Inserted, a, b
<1> HIDE DEF l
<1>7. l \in Seq(Lines) /\ \A j \in DOMAIN l : l[j] \in S
  <2>1. S \subseteq Lines
    BY DEF S
  <2>2. l \in Seq(Lines)
    BY <1>5, <2>1, SeqMonotonic
  <2>3. \A j \in DOMAIN l : l[j] \in S
    BY <1>5
  <2> QED BY <2>2, <2>3
<1> QED BY <1>5, <1>6, <1>7 DEF HasSelf, S

\* updateEtcHosts settles the lines: a second run changes nothing.
LEMMA UpdateSettles ==
  ASSUME NEW lines \in Seq(Lines)
  PROVE  UpdateEtcHosts(lines) \in Seq(Lines) /\ Settled(UpdateEtcHosts(lines))
<1> DEFINE new == Renamed(lines)
           i == CHOOSE i \in Here(new) : \A j \in Here(new) : i <= j
<1>1. new \in Seq(Lines) /\ \A j \in DOMAIN new : new[j] \notin {"oldself", "bare"}
  BY RenamedType
<1>2. CASE Here(new) = {} \/ HasSelf(new)
  BY <1>1, <1>2, UpdateIs DEF Settled
<1>3. CASE ~(Here(new) = {} \/ HasSelf(new))
  <2>1. Here(new) \in SUBSET Nat
    BY <1>1 DEF Here
  <2>2. \E k \in Here(new) : \A j \in Here(new) : k <= j
    BY <1>3, <2>1, Least
  <2>3. i \in Here(new)
    BY <2>2
  <2>4. i \in DOMAIN new
    BY <2>3 DEF Here
  <2>5. UpdateEtcHosts(lines) = Inserted(new, i)
    BY <1>3, UpdateIs
  <2> HIDE DEF new, i
  <2> QED BY <1>1, <2>4, <2>5, InsertedType DEF Settled
<1> QED BY <1>2, <1>3

\* updateEtcHosts run again on what it wrote changes nothing, and nothing comes
\* of an empty file.
THEOREM UpdateIdempotent ==
  ASSUME NEW lines \in Seq(Lines)
  PROVE  /\ UpdateEtcHosts(UpdateEtcHosts(lines)) = UpdateEtcHosts(lines)
         /\ UpdateEtcHosts(<<>>) = <<>>
<1>1. UpdateEtcHosts(UpdateEtcHosts(lines)) = UpdateEtcHosts(lines)
  BY UpdateSettles, SettledStays
<1>2. Settled(<<>>) /\ <<>> \in Seq(Lines)
  BY DEF Settled, Here
<1> QED BY <1>1, <1>2, SettledStays

\* What /etc/hosts may be, and what a runner may have read of it.
Versions == {<<>>, hosts0, UpdateEtcHosts(hosts0)}

HostsInv ==
  /\ hosts0 \in Seq(Lines) /\ hosts \in Versions
  /\ \A p \in Runners : at[p] = "hosts" => found[p] \subseteq Versions

-----------------------------------------------------------------------------
\* The commands.

\* The records that the commands write, and in which domain.
HostRecords == {HostRecord(z) : z \in DOMAIN HostLabel}
OurRecords == {MailRecords[1], MailRecords[2], MailRecords[3]} \cup HostRecords

Steps == [do : {"zone", "upsert", "ptr", "hostname"}, zone : Domains,
          rec : OurRecords \cup {NoRec}, infra : BOOLEAN]

\* A sequence with one more element in front.
LEMMA Cons ==
  ASSUME NEW S, NEW x \in S, NEW s \in Seq(S)
  PROVE  LET l == <<x>> \o s IN
         l \in Seq(S) /\ l # <<>> /\ Len(l) = Len(s) + 1 /\ Head(l) = x /\ Tail(l) = s
<1> DEFINE l == <<x>> \o s
<1>1. l \in Seq(S) /\ Len(l) = Len(s) + 1 /\ l[1] = x
  OBVIOUS
<1>2. \A i \in 1..Len(s) : l[i + 1] = s[i]
  OBVIOUS
<1> HIDE DEF l
<1>3. l # <<>> /\ Head(l) = x
  BY <1>1
<1>4. Tail(l) \in Seq(S) /\ Len(Tail(l)) = Len(s) /\ \A i \in 1..Len(s) : Tail(l)[i] = s[i]
  BY <1>1, <1>2, <1>3, HeadTailProperties
<1>5. Tail(l) = s
  BY <1>4, SeqEqual
<1> QED BY <1>1, <1>3, <1>5 DEF l

\* What is left of `dns create`, from the end to the beginning.
UpsertStep(d, i) == Step("upsert", d, MailRecords[i], FALSE)
Rest0 == <<PtrStep>>
Rest1(d) == <<UpsertStep(d, 3)>> \o Rest0
Rest2(d) == <<UpsertStep(d, 2)>> \o Rest1(d)
Rest3(d) == <<UpsertStep(d, 1)>> \o Rest2(d)
RestHost(d) == <<Step("upsert", d, HostRecord(d), FALSE)>> \o Rest3(d)
RestZone(d) == <<Step("zone", d, NoRec, FALSE)>>
               \o (IF InHost(d) THEN RestHost(d) ELSE Rest3(d))
RestInfraHost(d) == <<Step("upsert", BaseDomain, HostRecord(BaseDomain), TRUE)>> \o RestZone(d)
RestInfra(d) == <<Step("zone", BaseDomain, NoRec, TRUE)>>
                \o (IF InHost(BaseDomain) THEN RestInfraHost(d) ELSE RestZone(d))

\* The steps are steps.
LEMMA StepTypes ==
  /\ PtrStep \in Steps
  /\ \A d \in Domains :
       /\ UpsertStep(d, 1) \in Steps /\ UpsertStep(d, 2) \in Steps
       /\ UpsertStep(d, 3) \in Steps /\ Step("zone", d, NoRec, FALSE) \in Steps
  /\ \A d \in Domains : InHost(d) =>
       /\ Step("upsert", d, HostRecord(d), TRUE) \in Steps
       /\ Step("upsert", d, HostRecord(d), FALSE) \in Steps
  /\ Step("zone", BaseDomain, NoRec, TRUE) \in Steps
  /\ Step("hostname", BaseDomain, NoRec, FALSE) \in Steps
<1>1. BaseDomain \in Domains
  BY ZoneAssumption
<1>2. \A d \in Domains : InHost(d) => HostRecord(d) \in OurRecords
  BY DEF InHost, OurRecords, HostRecords
<1> QED BY <1>1, <1>2 DEF Steps, Step, PtrStep, UpsertStep, OurRecords

\* The heads, tails and lengths of what is left of `dns create`.
LEMMA RestShapes ==
  ASSUME NEW d \in Domains
  PROVE  /\ Rest0 \in Seq(Steps) /\ Rest0 # <<>> /\ Len(Rest0) = 1
         /\ Head(Rest0) = PtrStep /\ Tail(Rest0) = <<>>
         /\ Rest1(d) \in Seq(Steps) /\ Rest1(d) # <<>> /\ Len(Rest1(d)) = 2
         /\ Head(Rest1(d)) = UpsertStep(d, 3) /\ Tail(Rest1(d)) = Rest0
         /\ Rest2(d) \in Seq(Steps) /\ Rest2(d) # <<>> /\ Len(Rest2(d)) = 3
         /\ Head(Rest2(d)) = UpsertStep(d, 2) /\ Tail(Rest2(d)) = Rest1(d)
         /\ Rest3(d) \in Seq(Steps) /\ Rest3(d) # <<>> /\ Len(Rest3(d)) = 4
         /\ Head(Rest3(d)) = UpsertStep(d, 1) /\ Tail(Rest3(d)) = Rest2(d)
<1>1. /\ Rest0 \in Seq(Steps) /\ Rest0 # <<>> /\ Len(Rest0) = 1
      /\ Head(Rest0) = PtrStep /\ Tail(Rest0) = <<>>
  <2>1. PtrStep \in Steps
    BY StepTypes
  <2> HIDE DEF PtrStep
  <2> QED BY <2>1 DEF Rest0
<1>2. /\ Rest1(d) \in Seq(Steps) /\ Rest1(d) # <<>> /\ Len(Rest1(d)) = 2
      /\ Head(Rest1(d)) = UpsertStep(d, 3) /\ Tail(Rest1(d)) = Rest0
  <2>1. UpsertStep(d, 3) \in Steps
    BY StepTypes
  <2>2. /\ Rest1(d) \in Seq(Steps) /\ Rest1(d) # <<>> /\ Len(Rest1(d)) = Len(Rest0) + 1
        /\ Head(Rest1(d)) = UpsertStep(d, 3) /\ Tail(Rest1(d)) = Rest0
    BY <1>1, <2>1, Cons, Zenon DEF Rest1
  <2> QED BY <1>1, <2>2
<1>3. /\ Rest2(d) \in Seq(Steps) /\ Rest2(d) # <<>> /\ Len(Rest2(d)) = 3
      /\ Head(Rest2(d)) = UpsertStep(d, 2) /\ Tail(Rest2(d)) = Rest1(d)
  <2>1. UpsertStep(d, 2) \in Steps
    BY StepTypes
  <2>2. /\ Rest2(d) \in Seq(Steps) /\ Rest2(d) # <<>> /\ Len(Rest2(d)) = Len(Rest1(d)) + 1
        /\ Head(Rest2(d)) = UpsertStep(d, 2) /\ Tail(Rest2(d)) = Rest1(d)
    BY <1>2, <2>1, Cons, Zenon DEF Rest2
  <2> QED BY <1>2, <2>2
<1>4. /\ Rest3(d) \in Seq(Steps) /\ Rest3(d) # <<>> /\ Len(Rest3(d)) = 4
      /\ Head(Rest3(d)) = UpsertStep(d, 1) /\ Tail(Rest3(d)) = Rest2(d)
  <2>1. UpsertStep(d, 1) \in Steps
    BY StepTypes
  <2>2. /\ Rest3(d) \in Seq(Steps) /\ Rest3(d) # <<>> /\ Len(Rest3(d)) = Len(Rest2(d)) + 1
        /\ Head(Rest3(d)) = UpsertStep(d, 1) /\ Tail(Rest3(d)) = Rest2(d)
    BY <1>3, <2>1, Cons, Zenon DEF Rest3
  <2> QED BY <1>3, <2>2
<1> QED BY <1>1, <1>2, <1>3, <1>4

\* Concatenation of steps is associative.
LEMMA Assoc ==
  \A a, b, c \in Seq(Steps) : (a \o b) \o c = a \o (b \o c)
BY ConcatAssociative

\* Arithmetic on lengths.
LEMMA FiveLong ==
  ASSUME NEW a, NEW b, a = b + 1, b = 4
  PROVE  a = 5
OBVIOUS

\* A function on 1..3 is a sequence.
LEMMA Triple ==
  ASSUME NEW S, NEW f \in [1..3 -> S]
  PROVE  f \in Seq(S) /\ Len(f) = 3
<1>1. 3 \in Nat
  OBVIOUS
<1>2. f \in Seq(S)
  BY <1>1, SeqDef
<1> QED BY <1>2

\* The steps that come before the mail records.
LEMMA InfraShapes ==
  ASSUME NEW d \in Domains
  PROVE  /\ InHost(d) =>
              /\ RestHost(d) \in Seq(Steps) /\ RestHost(d) # <<>> /\ Len(RestHost(d)) > 1
              /\ Head(RestHost(d)) = Step("upsert", d, HostRecord(d), FALSE)
              /\ Tail(RestHost(d)) = Rest3(d)
         /\ RestZone(d) \in Seq(Steps) /\ RestZone(d) # <<>> /\ Len(RestZone(d)) > 1
         /\ Head(RestZone(d)) = Step("zone", d, NoRec, FALSE)
         /\ Tail(RestZone(d)) = IF InHost(d) THEN RestHost(d) ELSE Rest3(d)
         /\ InHost(BaseDomain) =>
              /\ RestInfraHost(d) \in Seq(Steps) /\ RestInfraHost(d) # <<>>
              /\ Len(RestInfraHost(d)) > 1
              /\ Head(RestInfraHost(d)) = Step("upsert", BaseDomain, HostRecord(BaseDomain), TRUE)
              /\ Tail(RestInfraHost(d)) = RestZone(d)
         /\ RestInfra(d) \in Seq(Steps) /\ RestInfra(d) # <<>> /\ Len(RestInfra(d)) > 1
         /\ Head(RestInfra(d)) = Step("zone", BaseDomain, NoRec, TRUE)
         /\ Tail(RestInfra(d)) = IF InHost(BaseDomain) THEN RestInfraHost(d) ELSE RestZone(d)
<1>0. BaseDomain \in Domains
  BY ZoneAssumption
<1>1. ASSUME InHost(d)
      PROVE  /\ RestHost(d) \in Seq(Steps) /\ RestHost(d) # <<>> /\ Len(RestHost(d)) = 5
             /\ Head(RestHost(d)) = Step("upsert", d, HostRecord(d), FALSE)
             /\ Tail(RestHost(d)) = Rest3(d)
  <2>1. Step("upsert", d, HostRecord(d), FALSE) \in Steps
    BY <1>1, StepTypes
  <2>2. Rest3(d) \in Seq(Steps) /\ Len(Rest3(d)) = 4
    BY RestShapes
  <2>3. /\ RestHost(d) \in Seq(Steps) /\ RestHost(d) # <<>>
        /\ Len(RestHost(d)) = Len(Rest3(d)) + 1
        /\ Head(RestHost(d)) = Step("upsert", d, HostRecord(d), FALSE)
        /\ Tail(RestHost(d)) = Rest3(d)
    BY <2>1, <2>2, Cons, Zenon DEF RestHost
  <2>4. Len(RestHost(d)) = 5
    BY <2>2, <2>3, FiveLong, Zenon
  <2> QED BY <2>3, <2>4, Zenon
<1>2. /\ RestZone(d) \in Seq(Steps) /\ RestZone(d) # <<>> /\ Len(RestZone(d)) > 1
      /\ Head(RestZone(d)) = Step("zone", d, NoRec, FALSE)
      /\ Tail(RestZone(d)) = IF InHost(d) THEN RestHost(d) ELSE Rest3(d)
  <2> DEFINE tail == IF InHost(d) THEN RestHost(d) ELSE Rest3(d)
  <2>1. Step("zone", d, NoRec, FALSE) \in Steps
    BY StepTypes
  <2>2. tail \in Seq(Steps) /\ Len(tail) \in Nat /\ Len(tail) >= 1
    <3>1. CASE InHost(d)
      BY <1>1, <3>1
    <3>2. CASE ~InHost(d)
      BY <3>2, RestShapes
    <3> QED BY <3>1, <3>2
  <2> HIDE DEF tail
  <2>3. RestZone(d) = <<Step("zone", d, NoRec, FALSE)>> \o tail
    BY DEF RestZone, tail
  <2>4. /\ RestZone(d) \in Seq(Steps) /\ RestZone(d) # <<>> /\ Len(RestZone(d)) = Len(tail) + 1
        /\ Head(RestZone(d)) = Step("zone", d, NoRec, FALSE) /\ Tail(RestZone(d)) = tail
    <3> DEFINE x == Step("zone", d, NoRec, FALSE)
               l == <<x>> \o tail
    <3> HIDE DEF x
    <3>1. x \in Steps
      BY <2>1 DEF x
    <3>2. l \in Seq(Steps) /\ l # <<>> /\ Len(l) = Len(tail) + 1
          /\ Head(l) = x /\ Tail(l) = tail
      BY <2>2, <3>1, Cons, Zenon
    <3> HIDE DEF l
    <3>3. RestZone(d) = l
      BY <2>3 DEF l, x
    <3> QED BY <3>2, <3>3, Zenon DEF x
  <2>5. Len(RestZone(d)) > 1
    BY <2>2, <2>4
  <2> QED BY <2>4, <2>5 DEF tail
<1>3. ASSUME InHost(BaseDomain)
      PROVE  /\ RestInfraHost(d) \in Seq(Steps) /\ RestInfraHost(d) # <<>>
             /\ Len(RestInfraHost(d)) > 1
             /\ Head(RestInfraHost(d)) = Step("upsert", BaseDomain, HostRecord(BaseDomain), TRUE)
             /\ Tail(RestInfraHost(d)) = RestZone(d)
  <2>1. Step("upsert", BaseDomain, HostRecord(BaseDomain), TRUE) \in Steps
    BY <1>0, <1>3, StepTypes
  <2>2. /\ RestInfraHost(d) \in Seq(Steps) /\ RestInfraHost(d) # <<>>
        /\ Len(RestInfraHost(d)) = Len(RestZone(d)) + 1
        /\ Head(RestInfraHost(d)) = Step("upsert", BaseDomain, HostRecord(BaseDomain), TRUE)
        /\ Tail(RestInfraHost(d)) = RestZone(d)
    BY <1>2, <2>1, Cons, Zenon DEF RestInfraHost
  <2>3. Len(RestZone(d)) \in Nat
    BY <1>2
  <2>4. Len(RestInfraHost(d)) > 1
    BY <1>2, <2>2, <2>3
  <2> QED BY <2>2, <2>4
<1>4. /\ RestInfra(d) \in Seq(Steps) /\ RestInfra(d) # <<>> /\ Len(RestInfra(d)) > 1
      /\ Head(RestInfra(d)) = Step("zone", BaseDomain, NoRec, TRUE)
      /\ Tail(RestInfra(d)) = IF InHost(BaseDomain) THEN RestInfraHost(d) ELSE RestZone(d)
  <2> DEFINE tail == IF InHost(BaseDomain) THEN RestInfraHost(d) ELSE RestZone(d)
  <2>1. Step("zone", BaseDomain, NoRec, TRUE) \in Steps
    BY StepTypes
  <2>2. tail \in Seq(Steps) /\ Len(tail) \in Nat /\ Len(tail) > 1
    <3>1. CASE InHost(BaseDomain)
      BY <1>3, <3>1
    <3>2. CASE ~InHost(BaseDomain)
      BY <1>2, <3>2
    <3> QED BY <3>1, <3>2
  <2>3. RestInfra(d) = <<Step("zone", BaseDomain, NoRec, TRUE)>> \o tail
    BY DEF RestInfra
  <2> HIDE DEF tail
  <2>4. /\ RestInfra(d) \in Seq(Steps) /\ RestInfra(d) # <<>>
        /\ Len(RestInfra(d)) = Len(tail) + 1
        /\ Head(RestInfra(d)) = Step("zone", BaseDomain, NoRec, TRUE)
        /\ Tail(RestInfra(d)) = tail
    <3> DEFINE x == Step("zone", BaseDomain, NoRec, TRUE)
               l == <<x>> \o tail
    <3> HIDE DEF x
    <3>1. x \in Steps
      BY <2>1 DEF x
    <3>2. l \in Seq(Steps) /\ l # <<>> /\ Len(l) = Len(tail) + 1
          /\ Head(l) = x /\ Tail(l) = tail
      BY <2>2, <3>1, Cons, Zenon
    <3> HIDE DEF l
    <3>3. RestInfra(d) = l
      BY <2>3 DEF l, x
    <3> QED BY <3>2, <3>3, Zenon DEF x
  <2>5. Len(RestInfra(d)) > 1
    BY <2>2, <2>4
  <2> QED BY <2>4, <2>5 DEF tail
<1>5. InHost(d) => Len(RestHost(d)) > 1
  BY <1>1
<1> QED BY <1>1, <1>2, <1>3, <1>4, <1>5, Zenon

\* The three mail records and the PTR record end every `dns create`.
LEMMA MailSteps ==
  ASSUME NEW d \in Domains
  PROVE  LET m == [i \in 1..3 |-> Step("upsert", d, MailRecords[i], FALSE)] IN
         m \in Seq(Steps) /\ m \o Rest0 = Rest3(d)
<1> DEFINE m == [i \in 1..3 |-> Step("upsert", d, MailRecords[i], FALSE)]
           a == UpsertStep(d, 1)
           b == UpsertStep(d, 2)
           c == UpsertStep(d, 3)
           t == <<a>> \o (<<b>> \o <<c>>)
<1>1. a \in Steps /\ b \in Steps /\ c \in Steps
  BY StepTypes, Zenon
<1>2. m[1] = a /\ m[2] = b /\ m[3] = c /\ DOMAIN m = 1..3
  BY DEF UpsertStep
<1> HIDE DEF m, a, b, c
<1>3. m \in [1..3 -> Steps]
  <2>1. \A i \in 1..3 : i = 1 \/ i = 2 \/ i = 3
    OBVIOUS
  <2>2. m = [i \in 1..3 |-> m[i]]
    BY DEF m
  <2> QED BY <1>1, <1>2, <2>1, <2>2
<1>4. m \in Seq(Steps) /\ Len(m) = 3
  BY <1>3, Triple, Zenon
<1>5. t \in Seq(Steps) /\ Len(t) = 3 /\ t[1] = a /\ t[2] = b /\ t[3] = c
  BY <1>1
<1>6. m = t
  <2> HIDE DEF t
  <2>1. \A i \in 1..3 : m[i] = t[i]
    BY <1>2, <1>5
  <2> QED BY <1>4, <1>5, <2>1, SeqEqual
<1>7. Rest0 \in Seq(Steps)
  BY RestShapes
<1>8. <<a>> \in Seq(Steps) /\ <<b>> \in Seq(Steps) /\ <<c>> \in Seq(Steps)
      /\ <<b>> \o <<c>> \in Seq(Steps)
  BY <1>1
<1>9. t \o Rest0 = <<a>> \o ((<<b>> \o <<c>>) \o Rest0)
  BY <1>7, <1>8, Assoc, Zenon
<1>10. (<<b>> \o <<c>>) \o Rest0 = <<b>> \o (<<c>> \o Rest0)
  BY <1>7, <1>8, Assoc, Zenon
<1>11. t \o Rest0 = Rest3(d)
  BY <1>9, <1>10, Zenon DEF Rest3, Rest2, Rest1, a, b, c
<1> QED BY <1>4, <1>6, <1>11 DEF m

\* So the commands are these.
LEMMA CommandShapes ==
  ASSUME NEW d \in Domains
  PROVE  DnsCreate(d) = IF d = BaseDomain THEN RestZone(d) ELSE RestInfra(d)
<1> DEFINE m == [i \in 1..3 |-> Step("upsert", d, MailRecords[i], FALSE)]
           z == <<Step("zone", d, NoRec, FALSE)>>
           h == ARecord(d, FALSE)
           i0 == <<Step("zone", BaseDomain, NoRec, TRUE)>>
           i1 == ARecord(BaseDomain, TRUE)
<1>0. BaseDomain \in Domains
  BY ZoneAssumption
<1>1. m \in Seq(Steps) /\ m \o Rest0 = Rest3(d)
  BY MailSteps
<1>2. z \in Seq(Steps) /\ h \in Seq(Steps) /\ i0 \in Seq(Steps) /\ i1 \in Seq(Steps)
  <2>1. \A x \in Steps : <<x>> \in Seq(Steps)
    OBVIOUS
  <2>2. <<>> \in Seq(Steps)
    OBVIOUS
  <2>3. z \in Seq(Steps) /\ i0 \in Seq(Steps)
    BY <2>1, StepTypes, Zenon
  <2>4. \A e \in Domains, b \in BOOLEAN : ARecord(e, b) \in Seq(Steps)
    <3>1. SUFFICES ASSUME NEW e \in Domains, NEW b \in BOOLEAN
                   PROVE  ARecord(e, b) \in Seq(Steps)
      OBVIOUS
    <3>2. b = TRUE \/ b = FALSE
      OBVIOUS
    <3>3. InHost(e) => Step("upsert", e, HostRecord(e), b) \in Steps
      BY <3>1, <3>2, StepTypes
    <3>4. CASE InHost(e)
      <4>1. ARecord(e, b) = <<Step("upsert", e, HostRecord(e), b)>>
        BY <3>4 DEF ARecord
      <4> QED BY <2>1, <3>3, <3>4, <4>1
    <3>5. CASE ~InHost(e)
      BY <2>2, <3>5 DEF ARecord
    <3> QED BY <3>4, <3>5
  <2> QED BY <1>0, <2>3, <2>4
<1>3. Rest0 \in Seq(Steps) /\ Rest0 = <<PtrStep>>
  BY RestShapes DEF Rest0
<1>7. \A t \in Seq(Steps) : <<>> \o t = t
  BY ConcatEmptySeq
<1> DEFINE s == SetupMailDNS(d)
<1>4. s \in Seq(Steps) /\ s \o Rest0 = RestZone(d)
  <2>1. s = (z \o h) \o m
    BY DEF SetupMailDNS
  <2>4. Rest3(d) \in Seq(Steps)
    BY RestShapes
  <2>6. RestZone(d) = z \o (h \o Rest3(d))
    <3>1. CASE InHost(d)
      BY <3>1 DEF RestZone, RestHost, ARecord
    <3>2. CASE ~InHost(d)
      <4>1. h = <<>>
        BY <3>2 DEF ARecord
      <4>2. RestZone(d) = z \o Rest3(d)
        BY <3>2 DEF RestZone
      <4> HIDE DEF z, h
      <4> QED BY <1>7, <2>4, <4>1, <4>2
    <3> QED BY <3>1, <3>2
  <2> HIDE DEF m, z, h, s
  <2>2. z \o h \in Seq(Steps) /\ h \o m \in Seq(Steps) /\ s \in Seq(Steps)
    BY <1>1, <1>2, <2>1, ConcatProperties
  <2>3. s \o Rest0 = (z \o h) \o (m \o Rest0)
    <3>1. m \in Seq(Steps) /\ Rest0 \in Seq(Steps) /\ z \o h \in Seq(Steps)
      BY <1>1, <1>3, <2>2
    <3>2. ((z \o h) \o m) \o Rest0 = (z \o h) \o (m \o Rest0)
      BY <3>1, Assoc, Zenon
    <3> QED BY <2>1, <3>2
  <2>5. (z \o h) \o Rest3(d) = z \o (h \o Rest3(d))
    BY <1>2, <2>4, Assoc, Zenon
  <2> QED BY <1>1, <2>2, <2>3, <2>5, <2>6
<1>5. CASE d = BaseDomain
  <2>1. DnsCreate(d) = (<<>> \o s) \o Rest0
    BY <1>5, <1>3 DEF DnsCreate
  <2> HIDE DEF s
  <2>2. <<>> \o s = s
    BY <1>4, <1>7
  <2> QED BY <1>4, <1>5, <2>1, <2>2
<1>6. CASE d # BaseDomain
  <2>1. DnsCreate(d) = ((i0 \o i1) \o s) \o Rest0
    BY <1>6, <1>3 DEF DnsCreate, SetupInfraDNS
  <2>5. RestZone(d) \in Seq(Steps)
    BY InfraShapes
  <2>6. RestInfra(d) = i0 \o (i1 \o RestZone(d))
    <3>1. CASE InHost(BaseDomain)
      BY <3>1 DEF RestInfra, RestInfraHost, ARecord
    <3>2. CASE ~InHost(BaseDomain)
      <4>1. i1 = <<>>
        BY <3>2 DEF ARecord
      <4>2. RestInfra(d) = i0 \o RestZone(d)
        BY <3>2 DEF RestInfra
      <4> HIDE DEF i0, i1
      <4> QED BY <1>7, <2>5, <4>1, <4>2
    <3> QED BY <3>1, <3>2
  <2> HIDE DEF s, i0, i1
  <2>2. i0 \o i1 \in Seq(Steps)
    BY <1>2, ConcatProperties
  <2>3. ((i0 \o i1) \o s) \o Rest0 = (i0 \o i1) \o (s \o Rest0)
    BY <1>3, <1>4, <2>2, Assoc, Zenon
  <2>4. (i0 \o i1) \o RestZone(d) = i0 \o (i1 \o RestZone(d))
    BY <1>2, <2>5, Assoc, Zenon
  <2> QED BY <1>4, <1>6, <2>1, <2>3, <2>4, <2>6
<1> QED BY <1>5, <1>6

\* The records differ in type or name.
LEMMA RecordsDiffer ==
  /\ MailRecords[1].type = "MX" /\ MailRecords[1].name = "@"
  /\ MailRecords[2].type = "TXT" /\ MailRecords[2].name = "@"
  /\ MailRecords[3].type = "TXT" /\ MailRecords[3].name = "_dmarc"
  /\ \A z : /\ HostRecord(z).type = "A" /\ HostRecord(z).name = HostLabel[z]
            /\ HostRecord(z).data = "ip"
  /\ MailRecords[1] # MailRecords[2] /\ MailRecords[1] # MailRecords[3]
  /\ MailRecords[2] # MailRecords[3]
  /\ MailRecords[1] \notin HostRecords /\ MailRecords[2] \notin HostRecords
  /\ MailRecords[3] \notin HostRecords
  /\ \A a, b \in OurRecords : Same(a, b) => a = b
  /\ \A a \in OurRecords : a.type # "A" \/ a \in HostRecords
  /\ NoRec \notin OurRecords
<1>1. /\ MailRecords[1] = Rec("MX", "@", "host") /\ MailRecords[2] = Rec("TXT", "@", "spf")
      /\ MailRecords[3] = Rec("TXT", "_dmarc", "dmarc")
      /\ \A z : HostRecord(z) = Rec("A", HostLabel[z], "ip")
  BY DEF MailRecords, HostRecord
<1>2. /\ MailRecords[1].type = "MX" /\ MailRecords[1].name = "@"
      /\ MailRecords[2].type = "TXT" /\ MailRecords[2].name = "@"
      /\ MailRecords[3].type = "TXT" /\ MailRecords[3].name = "_dmarc"
      /\ \A z : /\ HostRecord(z).type = "A" /\ HostRecord(z).name = HostLabel[z]
                /\ HostRecord(z).data = "ip"
  BY <1>1 DEF Rec
<1>3. NoRec.type = ""
  BY DEF NoRec, Rec
<1>4. \A a \in HostRecords : a.type = "A" /\ a = Rec("A", a.name, "ip")
  BY <1>1, <1>2 DEF HostRecords
<1>5. \A a, b \in OurRecords : Same(a, b) => a = b
  <2>1. SUFFICES ASSUME NEW a \in OurRecords, NEW b \in OurRecords,
                        a.type = b.type, a.name = b.name
                 PROVE  a = b
    BY DEF Same
  <2>2. CASE a \in HostRecords /\ b \in HostRecords
    BY <1>4, <2>1, <2>2
  <2>3. CASE a \notin HostRecords \/ b \notin HostRecords
    BY <1>2, <1>4, <2>1, <2>3 DEF OurRecords
  <2> QED BY <2>2, <2>3
<1>6. NoRec \notin OurRecords
  BY <1>2, <1>3, <1>4 DEF OurRecords
<1>7. /\ MailRecords[1] \notin HostRecords /\ MailRecords[2] \notin HostRecords
      /\ MailRecords[3] \notin HostRecords
  BY <1>2, <1>4
<1>8. \A a \in OurRecords : a.type # "A" \/ a \in HostRecords
  BY <1>2 DEF OurRecords
<1> QED BY <1>2, <1>5, <1>6, <1>7, <1>8

\* What a command can have left to do.
Plans == {<<>>, Rest0, SetupHostnameAndPTR}
         \cup {RestHost(d) : d \in {e \in Domains : InHost(e)}}
         \cup {Rest1(d) : d \in Domains} \cup {Rest2(d) : d \in Domains}
         \cup {Rest3(d) : d \in Domains} \cup {RestZone(d) : d \in Domains}
         \cup {RestInfraHost(d) : d \in {e \in Domains : InHost(BaseDomain)}}
         \cup {RestInfra(d) : d \in Domains}

\* What is left when the first step, of SetupInfraDNS, has failed.
InfraRest(x) == IF x[2].infra THEN Tail(Tail(x)) ELSE Tail(x)

\* Step b comes right after step a only if a has done what b builds on.
Leads(a, b) ==
  b.do = "upsert" =>
    /\ a.zone = b.zone
    /\ b.rec \in HostRecords => a.do = "zone"
    /\ b.rec = MailRecords[1] =>
         IF InHost(b.zone) THEN a.do = "upsert" /\ a.rec = HostRecord(b.zone)
         ELSE a.do = "zone"
    /\ b.rec = MailRecords[2] => a.do = "upsert" /\ a.rec = MailRecords[1]
    /\ b.rec = MailRecords[3] => a.do = "upsert" /\ a.rec = MailRecords[2]

\* A plan that is followed by another when its first step is done.
Proper(x) ==
  /\ x \in Seq(Steps) /\ x # <<>> /\ Head(x) \in Steps /\ Tail(x) \in Plans
  /\ Len(x) \in Nat /\ (Len(x) = 1 <=> Tail(x) = <<>>)
  /\ Tail(x) # <<>> => Head(Tail(x)) \in Steps /\ Leads(Head(x), Head(Tail(x)))
  /\ Head(x).do = "upsert" => Head(x).rec \in OurRecords
  /\ Head(x).do # "upsert" => Head(x).rec = NoRec
  /\ Head(x).infra => /\ InfraRest(x) \in Plans /\ InfraRest(x) # <<>>
                      /\ Head(InfraRest(x)).do = "zone"

\* The second element of a sequence.
LEMMA Second ==
  ASSUME NEW S, NEW x \in Seq(S), x # <<>>, Tail(x) # <<>>
  PROVE  x[2] = Head(Tail(x))
<1>1. Len(x) \in Nat /\ Len(x) # 0
  OBVIOUS
<1>2. Tail(x) \in Seq(S) /\ Len(Tail(x)) = Len(x) - 1
  OBVIOUS
<1>3. Len(Tail(x)) # 0
  BY <1>2
<1> DEFINE n == Len(x)
<1>4. n \in Nat /\ n # 0 /\ n - 1 # 0
  BY <1>1, <1>2, <1>3
<1> HIDE DEF n
<1>5. 1 \in 1..(n - 1)
  BY <1>4
<1>6. Tail(x)[1] = x[2]
  BY <1>5, HeadTailProperties DEF n
<1> QED BY <1>2, <1>6

\* A sequence that has a tail has more than one element.
LEMMA LongerThanOne ==
  ASSUME NEW S, NEW x \in Seq(S), x # <<>>
  PROVE  Len(x) \in Nat /\ (Len(x) = 1 <=> Tail(x) = <<>>)
<1>1. Len(x) \in Nat /\ Len(x) # 0
  OBVIOUS
<1>2. Tail(x) \in Seq(S) /\ Len(Tail(x)) = Len(x) - 1
  OBVIOUS
<1>3. Tail(x) = <<>> <=> Len(Tail(x)) = 0
  BY <1>2, EmptySeq
<1> DEFINE n == Len(x)
           k == Len(Tail(x))
<1>4. n \in Nat /\ k = n - 1
  BY <1>1, <1>2
<1> HIDE DEF n, k
<1>5. n = 1 <=> k = 0
  BY <1>4
<1> QED BY <1>1, <1>3, <1>5 DEF n, k

\* A plan whose first step is no step of SetupInfraDNS.
LEMMA ProperWhen ==
  ASSUME NEW x \in Seq(Steps), x # <<>>, NEW a \in Steps, Head(x) = a, ~a.infra,
         a.do = "upsert" => a.rec \in OurRecords,
         a.do # "upsert" => a.rec = NoRec,
         Tail(x) \in Plans,
         Tail(x) # <<>> => Head(Tail(x)) \in Steps /\ Leads(a, Head(Tail(x)))
  PROVE  Proper(x)
<1>1. Len(x) \in Nat /\ (Len(x) = 1 <=> Tail(x) = <<>>)
  BY LongerThanOne
<1> QED BY <1>1, Zenon DEF Proper

\* The fields of the steps.
LEMMA StepFields ==
  /\ \A do, z, rec, infra :
       /\ Step(do, z, rec, infra).do = do /\ Step(do, z, rec, infra).zone = z
       /\ Step(do, z, rec, infra).rec = rec /\ Step(do, z, rec, infra).infra = infra
  /\ PtrStep.do = "ptr" /\ PtrStep.infra = FALSE /\ PtrStep.rec = NoRec
  /\ \A d, i : /\ UpsertStep(d, i).do = "upsert" /\ UpsertStep(d, i).zone = d
               /\ UpsertStep(d, i).rec = MailRecords[i] /\ UpsertStep(d, i).infra = FALSE
BY DEF Step, PtrStep, UpsertStep

\* Every plan but the empty one is followed by another.
LEMMA PlansProper ==
  ASSUME NEW x \in Plans, x # <<>>
  PROVE  Proper(x)
<1>0. BaseDomain \in Domains
  BY ZoneAssumption
<1>1. CASE x = Rest0
  <2>1. /\ Rest0 \in Seq(Steps) /\ Rest0 # <<>> /\ Head(Rest0) = PtrStep
        /\ Tail(Rest0) = <<>>
    BY <1>0, RestShapes, Zenon
  <2>2. PtrStep \in Steps /\ PtrStep.do = "ptr" /\ PtrStep.infra = FALSE /\ PtrStep.rec = NoRec
    BY StepTypes, StepFields, Zenon
  <2>3. <<>> \in Plans
    BY DEF Plans
  <2>4. "ptr" # "upsert"
    OBVIOUS
  <2> QED BY <1>1, <2>1, <2>2, <2>3, <2>4, ProperWhen, Zenon
<1>2. CASE x = SetupHostnameAndPTR
  <2> DEFINE a == Step("hostname", BaseDomain, NoRec, FALSE)
  <2>1. /\ Rest0 \in Seq(Steps) /\ Rest0 # <<>> /\ Head(Rest0) = PtrStep
    BY <1>0, RestShapes, Zenon
  <2>2. PtrStep \in Steps /\ PtrStep.do = "ptr" /\ a \in Steps
    BY StepTypes, StepFields, Zenon
  <2>3. a.do = "hostname" /\ a.infra = FALSE /\ a.rec = NoRec
    BY DEF Step, UpsertStep
  <2>4. Rest0 \in Plans
    BY DEF Plans
  <2>5. "ptr" # "upsert" /\ "hostname" # "upsert"
    OBVIOUS
  <2>6. x = <<a>> \o Rest0
    <3> HIDE DEF a
    <3>1. SetupHostnameAndPTR = <<a, PtrStep>>
      BY DEF SetupHostnameAndPTR, a
    <3>2. <<a, PtrStep>> = <<a>> \o <<PtrStep>>
      <4> HIDE DEF PtrStep
      <4> QED OBVIOUS
    <3> QED BY <1>2, <3>1, <3>2 DEF Rest0
  <2> HIDE DEF a
  <2>7. x \in Seq(Steps) /\ x # <<>> /\ Head(x) = a /\ Tail(x) = Rest0
    <3>1. LET l == <<a>> \o Rest0 IN
          l \in Seq(Steps) /\ l # <<>> /\ Head(l) = a /\ Tail(l) = Rest0
      BY <2>1, <2>2, Cons, Zenon
    <3> QED BY <2>6, <3>1
  <2>8. Leads(a, PtrStep)
    BY <2>2, <2>5, Zenon DEF Leads
  <2> QED BY <2>1, <2>2, <2>3, <2>4, <2>5, <2>7, <2>8, ProperWhen, Zenon
<1>3. CASE \E d \in Domains : x = Rest1(d)
  <2>0. PICK d \in Domains : x = Rest1(d)
    BY <1>3
  <2>1. /\ Rest1(d) \in Seq(Steps) /\ Rest1(d) # <<>> /\ Head(Rest1(d)) = UpsertStep(d, 3)
        /\ Tail(Rest1(d)) = Rest0 /\ Rest0 # <<>> /\ Head(Rest0) = PtrStep
    BY RestShapes, Zenon
  <2>2. PtrStep \in Steps /\ PtrStep.do = "ptr" /\ UpsertStep(d, 3) \in Steps
    BY StepTypes, StepFields, Zenon
  <2>3. UpsertStep(d, 3).do = "upsert" /\ UpsertStep(d, 3).rec \in OurRecords
        /\ UpsertStep(d, 3).infra = FALSE
    BY StepFields DEF OurRecords
  <2>4. Rest0 \in Plans
    BY DEF Plans
  <2>5. Leads(UpsertStep(d, 3), PtrStep)
    BY <2>2 DEF Leads
  <2> QED BY <2>0, <2>1, <2>2, <2>3, <2>4, <2>5, ProperWhen, Zenon
<1>4. CASE \E d \in Domains : x = Rest2(d)
  <2>0. PICK d \in Domains : x = Rest2(d)
    BY <1>4
  <2>1. /\ Rest2(d) \in Seq(Steps) /\ Rest2(d) # <<>> /\ Head(Rest2(d)) = UpsertStep(d, 2)
        /\ Tail(Rest2(d)) = Rest1(d) /\ Rest1(d) # <<>> /\ Head(Rest1(d)) = UpsertStep(d, 3)
    BY RestShapes, Zenon
  <2>2. UpsertStep(d, 2) \in Steps /\ UpsertStep(d, 3) \in Steps
    BY StepTypes, Zenon
  <2>3. UpsertStep(d, 2).do = "upsert" /\ UpsertStep(d, 2).rec \in OurRecords
        /\ UpsertStep(d, 2).infra = FALSE
    BY StepFields DEF OurRecords
  <2>4. Rest1(d) \in Plans
    BY DEF Plans
  <2>5. Leads(UpsertStep(d, 2), UpsertStep(d, 3))
    <3>1. /\ UpsertStep(d, 2).zone = d /\ UpsertStep(d, 2).rec = MailRecords[2]
          /\ UpsertStep(d, 3).zone = d /\ UpsertStep(d, 3).rec = MailRecords[3]
      BY StepFields
    <3> QED BY <2>3, <3>1, RecordsDiffer, Zenon DEF Leads
  <2> QED BY <2>0, <2>1, <2>2, <2>3, <2>4, <2>5, ProperWhen, Zenon
<1>5. CASE \E d \in Domains : x = Rest3(d)
  <2>0. PICK d \in Domains : x = Rest3(d)
    BY <1>5
  <2>1. /\ Rest3(d) \in Seq(Steps) /\ Rest3(d) # <<>> /\ Head(Rest3(d)) = UpsertStep(d, 1)
        /\ Tail(Rest3(d)) = Rest2(d) /\ Rest2(d) # <<>> /\ Head(Rest2(d)) = UpsertStep(d, 2)
    BY RestShapes, Zenon
  <2>2. UpsertStep(d, 1) \in Steps /\ UpsertStep(d, 2) \in Steps
    BY StepTypes, Zenon
  <2>3. UpsertStep(d, 1).do = "upsert" /\ UpsertStep(d, 1).rec \in OurRecords
        /\ UpsertStep(d, 1).infra = FALSE
    BY StepFields DEF OurRecords
  <2>4. Rest2(d) \in Plans
    BY DEF Plans
  <2>5. Leads(UpsertStep(d, 1), UpsertStep(d, 2))
    <3>1. /\ UpsertStep(d, 1).zone = d /\ UpsertStep(d, 1).rec = MailRecords[1]
          /\ UpsertStep(d, 2).zone = d /\ UpsertStep(d, 2).rec = MailRecords[2]
      BY StepFields
    <3> QED BY <2>3, <3>1, RecordsDiffer, Zenon DEF Leads
  <2> QED BY <2>0, <2>1, <2>2, <2>3, <2>4, <2>5, ProperWhen, Zenon
<1>6. CASE \E d \in Domains : InHost(d) /\ x = RestHost(d)
  <2>0. PICK d \in Domains : InHost(d) /\ x = RestHost(d)
    BY <1>6
  <2> DEFINE a == Step("upsert", d, HostRecord(d), FALSE)
             b == UpsertStep(d, 1)
  <2>1. /\ RestHost(d) \in Seq(Steps) /\ RestHost(d) # <<>> /\ Head(RestHost(d)) = a
        /\ Tail(RestHost(d)) = Rest3(d)
    BY <2>0, InfraShapes, Zenon
  <2>2. Rest3(d) # <<>> /\ Head(Rest3(d)) = b
    BY RestShapes, Zenon
  <2>3. a \in Steps /\ b \in Steps
    BY <2>0, StepTypes, Zenon
  <2>4. a.do = "upsert" /\ a.zone = d /\ a.rec = HostRecord(d) /\ a.infra = FALSE
        /\ b.zone = d /\ b.rec = MailRecords[1]
    BY DEF Step, UpsertStep
  <2> HIDE DEF a, b
  <2>5. a.rec \in OurRecords
    BY <2>0, <2>4 DEF OurRecords, HostRecords, InHost
  <2>6. Rest3(d) \in Plans
    BY DEF Plans
  <2>7. Leads(a, b)
    BY <2>0, <2>4, RecordsDiffer, Zenon DEF Leads
  <2> QED BY <2>0, <2>1, <2>2, <2>3, <2>4, <2>5, <2>6, <2>7, ProperWhen, Zenon
<1>7. CASE \E d \in Domains : x = RestZone(d)
  <2>0. PICK d \in Domains : x = RestZone(d)
    BY <1>7
  <2> DEFINE a == Step("zone", d, NoRec, FALSE)
             h == Step("upsert", d, HostRecord(d), FALSE)
             u == UpsertStep(d, 1)
  <2>1. /\ RestZone(d) \in Seq(Steps) /\ RestZone(d) # <<>> /\ Head(RestZone(d)) = a
        /\ Tail(RestZone(d)) = IF InHost(d) THEN RestHost(d) ELSE Rest3(d)
        /\ InHost(d) => RestHost(d) # <<>> /\ Head(RestHost(d)) = h
    BY InfraShapes, Zenon
  <2>2. Rest3(d) # <<>> /\ Head(Rest3(d)) = u
    BY RestShapes, Zenon
  <2>3. a \in Steps /\ (InHost(d) => h \in Steps) /\ u \in Steps
    BY StepTypes, Zenon
  <2>4. /\ a.do = "zone" /\ a.zone = d /\ a.rec = NoRec /\ a.infra = FALSE
        /\ h.zone = d /\ h.rec = HostRecord(d) /\ u.zone = d /\ u.rec = MailRecords[1]
    BY DEF Step, UpsertStep
  <2> HIDE DEF a, h, u
  <2>5. (InHost(d) => RestHost(d) \in Plans) /\ Rest3(d) \in Plans
    BY DEF Plans
  <2>6. "zone" # "upsert"
    OBVIOUS
  <2>7. InHost(d) => Leads(a, h)
    <3>1. InHost(d) => HostRecord(d) \in HostRecords
      BY DEF HostRecords, InHost
    <3> QED BY <2>4, <3>1, RecordsDiffer, Zenon DEF Leads
  <2>8. ~InHost(d) => Leads(a, u)
    BY <2>4, RecordsDiffer, Zenon DEF Leads
  <2>9. CASE InHost(d)
    <3>1. Tail(RestZone(d)) = RestHost(d)
      BY <2>1, <2>9
    <3> QED BY <2>0, <2>1, <2>3, <2>4, <2>5, <2>6, <2>7, <2>9, <3>1, ProperWhen, Zenon
  <2>10. CASE ~InHost(d)
    <3>1. Tail(RestZone(d)) = Rest3(d)
      BY <2>1, <2>10
    <3> QED BY <2>0, <2>1, <2>2, <2>3, <2>4, <2>5, <2>6, <2>8, <2>10, <3>1, ProperWhen, Zenon
  <2> QED BY <2>9, <2>10
<1>8. CASE \E d \in Domains : InHost(BaseDomain) /\ x = RestInfraHost(d)
  <2>0. PICK d \in Domains : InHost(BaseDomain) /\ x = RestInfraHost(d)
    BY <1>8
  <2> DEFINE a == Step("upsert", BaseDomain, HostRecord(BaseDomain), TRUE)
             b == Step("zone", d, NoRec, FALSE)
  <2>1. /\ x \in Seq(Steps) /\ x # <<>> /\ Head(x) = a /\ Tail(x) = RestZone(d)
        /\ RestZone(d) # <<>> /\ Head(RestZone(d)) = b
    BY <2>0, InfraShapes, Zenon
  <2>2. a \in Steps /\ b \in Steps
    BY <1>0, <2>0, StepTypes, Zenon
  <2>3. a.do = "upsert" /\ a.rec = HostRecord(BaseDomain) /\ b.do = "zone" /\ b.infra = FALSE
    BY DEF Step, UpsertStep
  <2> HIDE DEF a, b
  <2>4. RestZone(d) \in Plans /\ a.rec \in OurRecords
    BY <2>0, <2>3 DEF Plans, OurRecords, HostRecords, InHost
  <2>5. Leads(a, b)
    BY <2>3 DEF Leads
  <2>6. x[2] = b
    BY <2>1, Second, Zenon
  <2>7. InfraRest(x) = RestZone(d)
    BY <2>1, <2>3, <2>6 DEF InfraRest
  <2>8. Len(x) \in Nat /\ (Len(x) = 1 <=> Tail(x) = <<>>)
    BY <2>1, LongerThanOne, Zenon
  <2> QED BY <2>1, <2>2, <2>3, <2>4, <2>5, <2>7, <2>8, Zenon DEF Proper
<1>9. CASE \E d \in Domains : x = RestInfra(d)
  <2>0. PICK d \in Domains : x = RestInfra(d)
    BY <1>9
  <2> DEFINE a == Step("zone", BaseDomain, NoRec, TRUE)
             b == Step("upsert", BaseDomain, HostRecord(BaseDomain), TRUE)
             c == Step("zone", d, NoRec, FALSE)
  <2>1. /\ x \in Seq(Steps) /\ x # <<>> /\ Head(x) = a
        /\ Tail(x) = IF InHost(BaseDomain) THEN RestInfraHost(d) ELSE RestZone(d)
        /\ InHost(BaseDomain) =>
             /\ RestInfraHost(d) # <<>> /\ Head(RestInfraHost(d)) = b
             /\ Tail(RestInfraHost(d)) = RestZone(d)
        /\ RestZone(d) # <<>> /\ Head(RestZone(d)) = c
    BY <2>0, InfraShapes, Zenon
  <2>2. a \in Steps /\ (InHost(BaseDomain) => b \in Steps) /\ c \in Steps
    BY <1>0, StepTypes, Zenon
  <2>3. /\ a.do = "zone" /\ a.zone = BaseDomain /\ a.rec = NoRec /\ b.zone = BaseDomain
        /\ b.rec = HostRecord(BaseDomain) /\ b.infra = TRUE /\ c.do = "zone" /\ c.infra = FALSE
    BY DEF Step, UpsertStep
  <2> HIDE DEF a, b, c
  <2>4. (InHost(BaseDomain) => RestInfraHost(d) \in Plans) /\ RestZone(d) \in Plans
    BY DEF Plans
  <2>5. (InHost(BaseDomain) => Leads(a, b)) /\ Leads(a, c)
    <3>1. InHost(BaseDomain) => HostRecord(BaseDomain) \in HostRecords
      BY DEF HostRecords, InHost
    <3>2. "zone" # "upsert"
      OBVIOUS
    <3> QED BY <2>3, <3>1, <3>2, RecordsDiffer, Zenon DEF Leads
  <2>8. Len(x) \in Nat /\ (Len(x) = 1 <=> Tail(x) = <<>>)
    BY <2>1, LongerThanOne, Zenon
  <2>9. "zone" # "upsert"
    OBVIOUS
  <2>10. CASE InHost(BaseDomain)
    <3>1. Tail(x) = RestInfraHost(d)
      BY <2>1, <2>10
    <3>2. x[2] = b
      BY <2>1, <2>10, <3>1, Second, Zenon
    <3>3. InfraRest(x) = RestZone(d)
      BY <2>1, <2>3, <2>10, <3>1, <3>2 DEF InfraRest
    <3> QED BY <2>1, <2>2, <2>3, <2>4, <2>5, <2>8, <2>9, <2>10, <3>1, <3>3, Zenon DEF Proper
  <2>11. CASE ~InHost(BaseDomain)
    <3>1. Tail(x) = RestZone(d)
      BY <2>1, <2>11
    <3>2. x[2] = c
      BY <2>1, <3>1, Second, Zenon
    <3>3. InfraRest(x) = RestZone(d)
      BY <2>3, <3>1, <3>2 DEF InfraRest
    <3> QED BY <2>1, <2>2, <2>3, <2>4, <2>5, <2>8, <2>9, <3>1, <3>3, Zenon DEF Proper
  <2> QED BY <2>10, <2>11
<1> QED BY <1>1, <1>2, <1>3, <1>4, <1>5, <1>6, <1>7, <1>8, <1>9 DEF Plans

\* The commands start as plans, with the steps that create or look up a zone.
LEMMA CommandsArePlans ==
  ASSUME NEW d \in Domains
  PROVE  /\ DnsCreate(d) \in Plans /\ DnsCreate(d) # <<>> /\ Head(DnsCreate(d)).do = "zone"
         /\ SetupHostnameAndPTR \in Plans /\ SetupHostnameAndPTR # <<>>
         /\ Head(SetupHostnameAndPTR).do = "hostname"
<1>1. /\ RestZone(d) # <<>> /\ Head(RestZone(d)) = Step("zone", d, NoRec, FALSE)
      /\ RestInfra(d) # <<>> /\ Head(RestInfra(d)) = Step("zone", BaseDomain, NoRec, TRUE)
  BY InfraShapes, Zenon
<1>2. Head(RestZone(d)).do = "zone" /\ Head(RestInfra(d)).do = "zone"
  BY <1>1 DEF Step
<1>3. DnsCreate(d) = RestZone(d) \/ DnsCreate(d) = RestInfra(d)
  BY CommandShapes
<1>4. RestZone(d) \in Plans /\ RestInfra(d) \in Plans
  BY DEF Plans
<1>5. SetupHostnameAndPTR # <<>> /\ Head(SetupHostnameAndPTR).do = "hostname"
  BY DEF SetupHostnameAndPTR, Step
<1>6. SetupHostnameAndPTR \in Plans
  BY DEF Plans
<1> QED BY <1>1, <1>2, <1>3, <1>4, <1>5, <1>6, Zenon

-----------------------------------------------------------------------------
\* The service, in any state s.

Entries ==
  [id : Nat, rec : Records \cup OurRecords \cup {NewRecords[i] : i \in 1..4}]

\* Ids are used once, and a zone without a domain is empty.
ApiOK(s) ==
  /\ s \in [exists : SUBSET Domains, next : Nat, recs : [Domains -> SUBSET Entries]]
  /\ \A d \in Domains : \A r \in s.recs[d] : r.id < s.next
  /\ \A d \in Domains : \A r, t \in s.recs[d] : r.id = t.id => r = t
  /\ \A d \in Domains : d \notin s.exists => s.recs[d] = {}

\* The record with id i, while it is there, has the type and name of rec.
Holds(s, z, i, rec) ==
  i \in Nat /\ i < s.next /\ \A r \in s.recs[z] : r.id = i => Same(r.rec, rec)

\* The record with id i, while it is there, is one the cleanup may delete.
Deletable(s, z, i) ==
  i \in Nat /\ i < s.next /\ \A r \in s.recs[z] : r.id = i => Legacy(r)

Present(s, z, rec) == \E r \in s.recs[z] : r.rec = rec

\* The requests the commands make.
Domain(z) == [do |-> "domain", zone |-> z]
Create(z, rec) == [do |-> "create", zone |-> z, rec |-> rec]
Update(z, i, rec) == [do |-> "update", zone |-> z, id |-> i, rec |-> rec]
Delete(z, i) == [do |-> "delete", zone |-> z, id |-> i]

ReqOK(s, q) ==
  \E z \in Domains :
    \/ q = Domain(z)
    \/ \E rec \in OurRecords : z \in s.exists /\ q = Create(z, rec)
    \/ \E rec \in OurRecords, i \in Nat : Holds(s, z, i, rec) /\ q = Update(z, i, rec)
    \/ \E i \in Nat : Deletable(s, z, i) /\ q = Delete(z, i)

\* Records the cleanup leaves alone: all of ours, if the mail host has a name
\* it knows.
Kept(rec) == rec \notin HostRecords \/ rec.name \in KeptNames

\* What every request keeps.
Evolves(s, t) ==
  /\ s.exists \subseteq t.exists /\ s.next <= t.next
  /\ \A z \in Domains, i \in Nat : Deletable(s, z, i) => Deletable(t, z, i)
  /\ \A z \in Domains, i \in Nat, rec \in OurRecords :
       Holds(s, z, i, rec) => Holds(t, z, i, rec)
  /\ \A z \in Domains, rec \in OurRecords :
       Kept(rec) /\ Present(s, z, rec) => Present(t, z, rec)
  /\ \A z \in Domains : \A r \in s.recs[z] :
       r \in t.recs[z] \/ Ours(r)
         \/ (r.rec.type = "A" /\ r.rec.data = "ip" /\ r.rec.name # "@")

\* A record that was not in the domain has no other of its type and name.
AddsOnce(s, t) ==
  \A d \in s.exists : \A r, u \in t.recs[d] :
    Same(r.rec, u.rec) /\ r # u => \E v \in s.recs[d] : v.id = r.id

\* What the service puts into a new domain, with ids from n.
NewZone(n) == {[id |-> n + i - 1, rec |-> NewRecords[i]] : i \in 1..4}

\* Its records, by their ids.
LEMMA NewZoneIs ==
  ASSUME NEW n \in Nat
  PROVE  /\ NewZone(n) \in SUBSET Entries
         /\ \A r \in NewZone(n) : r.id \in Nat /\ n <= r.id /\ r.id < n + 4
         /\ \A r, u \in NewZone(n) : r.id = u.id => r = u
<1>1. ASSUME NEW r \in NewZone(n)
      PROVE  \E i \in 1..4 : r.id = n + i - 1 /\ r = [id |-> n + i - 1, rec |-> NewRecords[i]]
  BY DEF NewZone
<1>2. ASSUME NEW i \in 1..4
      PROVE  n + i - 1 \in Nat /\ n <= n + i - 1 /\ n + i - 1 < n + 4
  OBVIOUS
<1>3. NewZone(n) \in SUBSET Entries
  <2>1. SUFFICES ASSUME NEW r \in NewZone(n) PROVE r \in Entries
    OBVIOUS
  <2>2. PICK i \in 1..4 : r = [id |-> n + i - 1, rec |-> NewRecords[i]]
    BY <1>1
  <2>3. n + i - 1 \in Nat
    BY <1>2
  <2> QED BY <2>2, <2>3 DEF Entries
<1>4. ASSUME NEW r \in NewZone(n), NEW u \in NewZone(n), r.id = u.id
      PROVE  r = u
  <2>1. PICK i \in 1..4 : r.id = n + i - 1 /\ r = [id |-> n + i - 1, rec |-> NewRecords[i]]
    BY <1>1
  <2>2. PICK j \in 1..4 : u.id = n + j - 1 /\ u = [id |-> n + j - 1, rec |-> NewRecords[j]]
    BY <1>1
  <2>3. i = j
    <3>1. n + i - 1 = n + j - 1
      BY <1>4, <2>1, <2>2
    <3> QED BY <3>1
  <2> QED BY <2>1, <2>2, <2>3
<1> QED BY <1>1, <1>2, <1>3, <1>4

\* Apply, request by request: an update is below.
LEMMA ApplyIs ==
  ASSUME NEW s, ApiOK(s), NEW z \in Domains
  PROVE  /\ z \in s.exists => Apply(s, Domain(z)) = s
         /\ z \notin s.exists =>
              LET t == Apply(s, Domain(z)) IN
              /\ t \in [exists : SUBSET Domains, next : Nat, recs : [Domains -> SUBSET Entries]]
              /\ t.exists = s.exists \cup {z} /\ t.next = s.next + 4
              /\ t.recs[z] = NewZone(s.next)
              /\ \A d \in Domains : d # z => t.recs[d] = s.recs[d]
         /\ \A rec \in OurRecords :
              LET t == Apply(s, Create(z, rec)) IN
              /\ t \in [exists : SUBSET Domains, next : Nat, recs : [Domains -> SUBSET Entries]]
              /\ t.exists = s.exists /\ t.next = s.next + 1
              /\ t.recs[z] = s.recs[z] \cup {[id |-> s.next, rec |-> rec]}
              /\ \A d \in Domains : d # z => t.recs[d] = s.recs[d]
         /\ \A i \in Nat :
              LET t == Apply(s, Delete(z, i)) IN
              /\ t \in [exists : SUBSET Domains, next : Nat, recs : [Domains -> SUBSET Entries]]
              /\ t.exists = s.exists /\ t.next = s.next
              /\ t.recs[z] = {r \in s.recs[z] : r.id # i}
              /\ \A d \in Domains : d # z => t.recs[d] = s.recs[d]
<1>0. s \in [exists : SUBSET Domains, next : Nat, recs : [Domains -> SUBSET Entries]]
  BY DEF ApiOK
<1>1. z \in s.exists => Apply(s, Domain(z)) = s
  BY DEF Apply, Domain
<1>2. ASSUME z \notin s.exists
      PROVE  LET t == Apply(s, Domain(z)) IN
              /\ t \in [exists : SUBSET Domains, next : Nat, recs : [Domains -> SUBSET Entries]]
              /\ t.exists = s.exists \cup {z} /\ t.next = s.next + 4
              /\ t.recs[z] = NewZone(s.next)
              /\ \A d \in Domains : d # z => t.recs[d] = s.recs[d]
  <2> DEFINE new == NewZone(s.next)
             f == [s.recs EXCEPT ![z] = new]
  <2>1. new \in SUBSET Entries
    BY <1>0, NewZoneIs
  <2>2. Apply(s, Domain(z)) = [exists |-> s.exists \cup {z}, next |-> s.next + 4, recs |-> f]
    BY <1>2 DEF Apply, Domain, NewZone
  <2> HIDE DEF new
  <2>3. f \in [Domains -> SUBSET Entries] /\ f[z] = new
        /\ \A d \in Domains : d # z => f[d] = s.recs[d]
    BY <1>0, <2>1
  <2> HIDE DEF f
  <2> QED BY <1>0, <2>2, <2>3 DEF new
<1>3. ASSUME NEW rec \in OurRecords
      PROVE  LET t == Apply(s, Create(z, rec)) IN
              /\ t \in [exists : SUBSET Domains, next : Nat, recs : [Domains -> SUBSET Entries]]
              /\ t.exists = s.exists /\ t.next = s.next + 1
              /\ t.recs[z] = s.recs[z] \cup {[id |-> s.next, rec |-> rec]}
              /\ \A d \in Domains : d # z => t.recs[d] = s.recs[d]
  <2> DEFINE new == s.recs[z] \cup {[id |-> s.next, rec |-> rec]}
             f == [s.recs EXCEPT ![z] = new]
  <2>1. new \in SUBSET Entries
    BY <1>0 DEF Entries
  <2>2. Apply(s, Create(z, rec)) = [s EXCEPT !.next = s.next + 1, !.recs = f]
    BY <1>0 DEF Apply, Create
  <2> HIDE DEF new
  <2>3. f \in [Domains -> SUBSET Entries] /\ f[z] = new
        /\ \A d \in Domains : d # z => f[d] = s.recs[d]
    BY <1>0, <2>1
  <2> HIDE DEF f
  <2>4. Apply(s, Create(z, rec)) = [exists |-> s.exists, next |-> s.next + 1, recs |-> f]
    BY <1>0, <2>2
  <2> QED BY <1>0, <2>3, <2>4 DEF new
<1>4. ASSUME NEW i \in Nat
      PROVE  LET t == Apply(s, Delete(z, i)) IN
              /\ t \in [exists : SUBSET Domains, next : Nat, recs : [Domains -> SUBSET Entries]]
              /\ t.exists = s.exists /\ t.next = s.next
              /\ t.recs[z] = {r \in s.recs[z] : r.id # i}
              /\ \A d \in Domains : d # z => t.recs[d] = s.recs[d]
  <2> DEFINE new == {r \in s.recs[z] : r.id # i}
             f == [s.recs EXCEPT ![z] = new]
  <2>1. new \in SUBSET Entries
    BY <1>0
  <2>2. Apply(s, Delete(z, i)) = [s EXCEPT !.recs = f]
    BY <1>0 DEF Apply, Delete
  <2> HIDE DEF new
  <2>3. f \in [Domains -> SUBSET Entries] /\ f[z] = new
        /\ \A d \in Domains : d # z => f[d] = s.recs[d]
    BY <1>0, <2>1
  <2> HIDE DEF f
  <2> QED BY <1>0, <2>2, <2>3 DEF new
<1> QED BY <1>1, <1>2, <1>3, <1>4

\* An update puts the record in the place of the one with its id.
LEMMA ApplyUpdate ==
  ASSUME NEW s, ApiOK(s), NEW z \in Domains, NEW rec \in OurRecords, NEW i \in Nat
  PROVE  LET t == Apply(s, Update(z, i, rec)) IN
          /\ t \in [exists : SUBSET Domains, next : Nat, recs : [Domains -> SUBSET Entries]]
          /\ t.exists = s.exists /\ t.next = s.next
          /\ t.recs[z] = {IF r.id = i THEN [id |-> i, rec |-> rec] ELSE r : r \in s.recs[z]}
          /\ \A d \in Domains : d # z => t.recs[d] = s.recs[d]
<1>0. s \in [exists : SUBSET Domains, next : Nat, recs : [Domains -> SUBSET Entries]]
  BY DEF ApiOK
<1> DEFINE new == {IF r.id = i THEN [id |-> i, rec |-> rec] ELSE r : r \in s.recs[z]}
           upd == {IF r.id = i THEN [r EXCEPT !.rec = rec] ELSE r : r \in s.recs[z]}
           f == [s.recs EXCEPT ![z] = new]
<1>6. s.recs[z] \in SUBSET Entries
  BY <1>0
<1>1. new \in SUBSET Entries
  BY <1>6 DEF Entries
<1>2. upd = new
  <2>1. \A r \in s.recs[z] : r.id = i => [r EXCEPT !.rec = rec] = [id |-> i, rec |-> rec]
    BY <1>6 DEF Entries
  <2> QED BY <2>1
<1>3. Apply(s, Update(z, i, rec)) = [s EXCEPT !.recs = [s.recs EXCEPT ![z] = upd]]
  BY <1>0 DEF Apply, Update
<1> HIDE DEF new, upd
<1>4. f \in [Domains -> SUBSET Entries] /\ f[z] = new
      /\ \A d \in Domains : d # z => f[d] = s.recs[d]
  BY <1>0, <1>1
<1>5. Apply(s, Update(z, i, rec)) = [s EXCEPT !.recs = f]
  BY <1>2, <1>3
<1> HIDE DEF f
<1> QED BY <1>0, <1>4, <1>5 DEF new

\* What a request changes in one zone is all it changes.
LEMMA OneZone ==
  ASSUME NEW s, NEW t, ApiOK(s), NEW z \in Domains,
         t \in [exists : SUBSET Domains, next : Nat, recs : [Domains -> SUBSET Entries]],
         s.exists \subseteq t.exists, s.next <= t.next,
         z \notin t.exists => t.recs[z] = {},
         \A d \in Domains : d # z => t.recs[d] = s.recs[d],
         \A r \in t.recs[z] : r.id < t.next,
         \A r, u \in t.recs[z] : r.id = u.id => r = u,
         \A i \in Nat : Deletable(s, z, i) => Deletable(t, z, i),
         \A i \in Nat, rec \in OurRecords : Holds(s, z, i, rec) => Holds(t, z, i, rec),
         \A rec \in OurRecords : Kept(rec) /\ Present(s, z, rec) => Present(t, z, rec),
         \A r \in s.recs[z] :
           r \in t.recs[z] \/ Ours(r)
             \/ (r.rec.type = "A" /\ r.rec.data = "ip" /\ r.rec.name # "@")
  PROVE  ApiOK(t) /\ Evolves(s, t)
<1>0. s \in [exists : SUBSET Domains, next : Nat, recs : [Domains -> SUBSET Entries]]
  BY DEF ApiOK
<1>1. ApiOK(t)
  <2>1. \A d \in Domains : \A r \in t.recs[d] : r.id < t.next
    <3>1. \A d \in Domains : \A r \in s.recs[d] : r.id \in Nat /\ r.id < s.next
      BY <1>0 DEF ApiOK, Entries
    <3>2. s.next \in Nat /\ t.next \in Nat
      BY <1>0
    <3> QED BY <3>1, <3>2
  <2> QED BY <2>1 DEF ApiOK
<1>2. ASSUME NEW d \in Domains, d # z, NEW i \in Nat
      PROVE  /\ Deletable(s, d, i) => Deletable(t, d, i)
             /\ \A rec \in OurRecords : Holds(s, d, i, rec) => Holds(t, d, i, rec)
  <2>1. s.next \in Nat /\ t.next \in Nat /\ (i < s.next => i < t.next)
    BY <1>0
  <2>2. t.recs[d] = s.recs[d]
    BY <1>2
  <2> QED BY <2>1, <2>2 DEF Deletable, Holds
<1>3. ASSUME NEW d \in Domains, d # z
      PROVE  /\ \A rec \in OurRecords : Present(s, d, rec) => Present(t, d, rec)
             /\ \A r \in s.recs[d] : r \in t.recs[d]
  BY <1>3 DEF Present
<1> QED BY <1>1, <1>2, <1>3 DEF Evolves

\* A new domain.
LEMMA DomainKeeps ==
  ASSUME NEW s, ApiOK(s), NEW z \in Domains
  PROVE  LET t == Apply(s, Domain(z)) IN
         ApiOK(t) /\ Evolves(s, t) /\ z \in t.exists /\ AddsOnce(s, t)
<1> DEFINE t == Apply(s, Domain(z))
<1>0. s \in [exists : SUBSET Domains, next : Nat, recs : [Domains -> SUBSET Entries]]
  BY DEF ApiOK
<1>1. CASE z \in s.exists
  <2>1. t = s
    BY <1>1, ApplyIs
  <2>2. Evolves(s, s) /\ AddsOnce(s, s)
    BY <1>0 DEF Evolves, AddsOnce
  <2> QED BY <1>1, <2>1, <2>2
<1>2. CASE z \notin s.exists
  <2>1. /\ t \in [exists : SUBSET Domains, next : Nat, recs : [Domains -> SUBSET Entries]]
        /\ t.exists = s.exists \cup {z} /\ t.next = s.next + 4
        /\ t.recs[z] = NewZone(s.next)
        /\ \A d \in Domains : d # z => t.recs[d] = s.recs[d]
    BY <1>2, ApplyIs
  <2> HIDE DEF t
  <2>2. s.recs[z] = {} /\ s.next \in Nat /\ t.next = s.next + 4
    BY <1>0, <1>2, <2>1 DEF ApiOK
  <2>3. \A r \in t.recs[z] : r.id \in Nat /\ s.next <= r.id /\ r.id < s.next + 4
    BY <2>1, <2>2, NewZoneIs
  <2>4. \A i \in Nat : i < s.next => i < t.next /\ \A r \in t.recs[z] : r.id # i
    BY <2>2, <2>3
  <2>5. \A i \in Nat : Deletable(s, z, i) => Deletable(t, z, i)
    BY <2>4 DEF Deletable
  <2>6. \A i \in Nat, rec \in OurRecords : Holds(s, z, i, rec) => Holds(t, z, i, rec)
    BY <2>4 DEF Holds
  <2>7. \A rec \in OurRecords : ~Present(s, z, rec)
    BY <2>2 DEF Present
  <2>8. s.next <= t.next /\ \A r \in t.recs[z] : r.id < t.next
    BY <2>2, <2>3
  <2>9. \A r, u \in t.recs[z] : r.id = u.id => r = u
    BY <2>1, <2>2, NewZoneIs
  <2>10. ApiOK(t) /\ Evolves(s, t)
    BY <2>1, <2>2, <2>5, <2>6, <2>7, <2>8, <2>9, OneZone
  <2>11. AddsOnce(s, t)
    BY <1>0, <1>2, <2>1 DEF AddsOnce
  <2> QED BY <2>1, <2>10, <2>11 DEF t
<1> QED BY <1>1, <1>2

\* A new record.
LEMMA CreateKeeps ==
  ASSUME NEW s, ApiOK(s), NEW z \in Domains, z \in s.exists, NEW rec \in OurRecords
  PROVE  LET t == Apply(s, Create(z, rec)) IN
         /\ ApiOK(t) /\ Evolves(s, t) /\ Present(t, z, rec)
         /\ (\A r \in s.recs[z] : ~Same(r.rec, rec)) => AddsOnce(s, t)
<1> DEFINE t == Apply(s, Create(z, rec))
           new == [id |-> s.next, rec |-> rec]
<1>0. s \in [exists : SUBSET Domains, next : Nat, recs : [Domains -> SUBSET Entries]]
  BY DEF ApiOK
<1>1. /\ t \in [exists : SUBSET Domains, next : Nat, recs : [Domains -> SUBSET Entries]]
      /\ t.exists = s.exists /\ t.next = s.next + 1
      /\ t.recs[z] = s.recs[z] \cup {new}
      /\ \A d \in Domains : d # z => t.recs[d] = s.recs[d]
  BY ApplyIs
<1>2. new.id = s.next /\ new.rec = rec
  OBVIOUS
<1> HIDE DEF t, new
<1>3. s.next \in Nat /\ \A r \in s.recs[z] : r.id \in Nat /\ r.id < s.next
  BY <1>0 DEF ApiOK, Entries
<1>4. s.next <= t.next /\ \A r \in t.recs[z] : r.id < t.next
  BY <1>1, <1>2, <1>3
<1>5. \A r, u \in t.recs[z] : r.id = u.id => r = u
  <2>1. \A r \in s.recs[z] : r.id # new.id
    BY <1>2, <1>3
  <2>2. \A r, u \in s.recs[z] : r.id = u.id => r = u
    BY DEF ApiOK
  <2> QED BY <1>1, <2>1, <2>2
<1>6. \A i \in Nat : i < s.next => i < t.next /\ i # new.id
  BY <1>1, <1>2, <1>3
<1>7. \A i \in Nat : Deletable(s, z, i) => Deletable(t, z, i)
  BY <1>1, <1>6 DEF Deletable
<1>8. \A i \in Nat, x \in OurRecords : Holds(s, z, i, x) => Holds(t, z, i, x)
  BY <1>1, <1>6 DEF Holds
<1>9. \A x \in OurRecords : Present(s, z, x) => Present(t, z, x)
  BY <1>1 DEF Present
<1>10. ApiOK(t) /\ Evolves(s, t)
  BY <1>1, <1>4, <1>5, <1>7, <1>8, <1>9, OneZone
<1>11. Present(t, z, rec)
  BY <1>1, <1>2 DEF Present
<1>12. ASSUME \A r \in s.recs[z] : ~Same(r.rec, rec)
       PROVE  AddsOnce(s, t)
  <2>1. \A r \in s.recs[z] : ~Same(r.rec, new.rec) /\ ~Same(new.rec, r.rec)
    BY <1>2, <1>12 DEF Same
  <2>2. \A r, u \in t.recs[z] : Same(r.rec, u.rec) /\ r # u => r \in s.recs[z]
    BY <1>1, <2>1
  <2>3. s.exists \subseteq Domains
    BY <1>0
  <2> QED BY <1>1, <2>2, <2>3 DEF AddsOnce
<1> QED BY <1>10, <1>11, <1>12 DEF t

\* A record of ours that is written again.
LEMMA UpdateKeeps ==
  ASSUME NEW s, ApiOK(s), NEW z \in Domains, NEW rec \in OurRecords, NEW i \in Nat,
         Holds(s, z, i, rec)
  PROVE  LET t == Apply(s, Update(z, i, rec)) IN
         /\ ApiOK(t) /\ Evolves(s, t) /\ AddsOnce(s, t)
         /\ (\E r \in s.recs[z] : r.id = i) => Present(t, z, rec)
<1> DEFINE t == Apply(s, Update(z, i, rec))
           new == [id |-> i, rec |-> rec]
<1>0. s \in [exists : SUBSET Domains, next : Nat, recs : [Domains -> SUBSET Entries]]
  BY DEF ApiOK
<1>1. /\ t \in [exists : SUBSET Domains, next : Nat, recs : [Domains -> SUBSET Entries]]
      /\ t.exists = s.exists /\ t.next = s.next
      /\ t.recs[z] = {IF r.id = i THEN new ELSE r : r \in s.recs[z]}
      /\ \A d \in Domains : d # z => t.recs[d] = s.recs[d]
  BY ApplyUpdate
<1>2. new.id = i /\ new.rec = rec
  OBVIOUS
<1> HIDE DEF t, new
\* Every record of the new zone stands for one of the old, with its id, its
\* type and its name, and is that one unless it is the one written.
<1>3. ASSUME NEW r \in t.recs[z]
      PROVE  \E o \in s.recs[z] : /\ o.id = r.id /\ Same(o.rec, r.rec)
                                  /\ IF o.id = i THEN r = new ELSE r = o
  <2>1. PICK o \in s.recs[z] : r = IF o.id = i THEN new ELSE o
    BY <1>1, <1>3
  <2>2. CASE o.id = i
    BY <1>2, <2>1, <2>2 DEF Holds
  <2>3. CASE o.id # i
    BY <2>1, <2>3 DEF Same
  <2> QED BY <2>2, <2>3
<1>4. s.next \in Nat /\ s.next <= t.next /\ \A r \in t.recs[z] : r.id < t.next
  BY <1>0, <1>1, <1>3 DEF ApiOK
<1>5. \A r, u \in t.recs[z] : r.id = u.id => r = u
  <2>1. \A r, u \in s.recs[z] : r.id = u.id => r = u
    BY DEF ApiOK
  <2> QED BY <1>3, <2>1
<1>6. ASSUME NEW j \in Nat, Deletable(s, z, j)
      PROVE  Deletable(t, z, j)
  <2>1. SUFFICES ASSUME NEW r \in t.recs[z], r.id = j
                 PROVE  Legacy(r)
    BY <1>1, <1>6 DEF Deletable
  <2>2. PICK o \in s.recs[z] : /\ o.id = r.id /\ Same(o.rec, r.rec)
                               /\ IF o.id = i THEN r = new ELSE r = o
    BY <1>3
  <2>3. Legacy(o)
    BY <1>6, <2>1, <2>2 DEF Deletable
  <2>4. CASE o.id = i
    <3>1. r.rec = rec /\ rec.type = "A" /\ rec.name \notin KeptNames
      BY <1>2, <2>2, <2>3, <2>4 DEF Same, Legacy
    <3>2. rec.data = "ip"
      <4>1. rec \in HostRecords
        BY <3>1, RecordsDiffer
      <4> QED BY <4>1, RecordsDiffer DEF HostRecords
    <3> QED BY <3>1, <3>2 DEF Legacy
  <2>5. CASE o.id # i
    BY <2>2, <2>3, <2>5
  <2> QED BY <2>4, <2>5
<1>7. ASSUME NEW j \in Nat, NEW x \in OurRecords, Holds(s, z, j, x)
      PROVE  Holds(t, z, j, x)
  <2>1. \A r \in t.recs[z] : r.id = j => Same(r.rec, x)
    BY <1>3, <1>7 DEF Holds, Same
  <2> QED BY <1>1, <1>7, <2>1 DEF Holds
<1>8. ASSUME NEW x \in OurRecords, Present(s, z, x)
      PROVE  Present(t, z, x)
  <2>1. PICK o \in s.recs[z] : o.rec = x
    BY <1>8 DEF Present
  <2>2. CASE o.id = i
    <3>1. x = rec
      BY <2>1, <2>2, RecordsDiffer DEF Holds
    <3>2. new \in t.recs[z]
      BY <1>1, <2>2
    <3> QED BY <1>2, <3>1, <3>2 DEF Present
  <2>3. CASE o.id # i
    <3>1. o \in t.recs[z]
      BY <1>1, <2>3
    <3> QED BY <2>1, <3>1 DEF Present
  <2> QED BY <2>2, <2>3
<1>9. ASSUME NEW r \in s.recs[z]
      PROVE  r \in t.recs[z] \/ Ours(r)
  <2>1. CASE r.id = i
    <3>1. Same(r.rec, rec)
      BY <2>1 DEF Holds
    <3>2. rec \in {MailRecords[k] : k \in 1..3} \cup HostRecords
      BY DEF OurRecords
    <3> QED BY <3>1, <3>2 DEF Ours, HostRecords
  <2>2. CASE r.id # i
    BY <1>1, <2>2
  <2> QED BY <2>1, <2>2
<1>10. z \notin t.exists => t.recs[z] = {}
  BY <1>1 DEF ApiOK
<1>11. ApiOK(t) /\ Evolves(s, t)
  BY <1>1, <1>4, <1>5, <1>6, <1>7, <1>8, <1>9, <1>10, OneZone
<1>12. AddsOnce(s, t)
  <2>1. \A r \in t.recs[z] : \E v \in s.recs[z] : v.id = r.id
    BY <1>3
  <2>2. s.exists \subseteq Domains
    BY <1>0
  <2> QED BY <1>1, <2>1, <2>2 DEF AddsOnce
<1>13. ASSUME NEW r \in s.recs[z], r.id = i
       PROVE  Present(t, z, rec)
  <2>1. new \in t.recs[z]
    BY <1>1, <1>13
  <2> QED BY <1>2, <2>1 DEF Present
<1> QED BY <1>11, <1>12, <1>13 DEF t

\* A record of an earlier name that is deleted.
LEMMA DeleteKeeps ==
  ASSUME NEW s, ApiOK(s), NEW z \in Domains, NEW i \in Nat, Deletable(s, z, i)
  PROVE  LET t == Apply(s, Delete(z, i)) IN
         ApiOK(t) /\ Evolves(s, t) /\ AddsOnce(s, t)
<1> DEFINE t == Apply(s, Delete(z, i))
<1>0. s \in [exists : SUBSET Domains, next : Nat, recs : [Domains -> SUBSET Entries]]
  BY DEF ApiOK
<1>1. /\ t \in [exists : SUBSET Domains, next : Nat, recs : [Domains -> SUBSET Entries]]
      /\ t.exists = s.exists /\ t.next = s.next
      /\ t.recs[z] = {r \in s.recs[z] : r.id # i}
      /\ \A d \in Domains : d # z => t.recs[d] = s.recs[d]
  BY ApplyIs
<1> HIDE DEF t
<1>2. s.next <= t.next /\ (z \notin t.exists => t.recs[z] = {})
      /\ (\A r \in t.recs[z] : r.id < t.next)
      /\ \A r, u \in t.recs[z] : r.id = u.id => r = u
  BY <1>0, <1>1 DEF ApiOK
<1>3. \A j \in Nat : Deletable(s, z, j) => Deletable(t, z, j)
  BY <1>1 DEF Deletable
<1>4. \A j \in Nat, x \in OurRecords : Holds(s, z, j, x) => Holds(t, z, j, x)
  BY <1>1 DEF Holds
<1>5. \A r \in s.recs[z] : r \in t.recs[z] \/ Legacy(r)
  BY <1>1 DEF Deletable
<1>6. ASSUME NEW x \in OurRecords, Kept(x), Present(s, z, x)
      PROVE  Present(t, z, x)
  <2>1. PICK r \in s.recs[z] : r.rec = x
    BY <1>6 DEF Present
  <2>2. ~Legacy(r)
    BY <1>6, <2>1, RecordsDiffer DEF Legacy, Kept, OurRecords
  <2> QED BY <1>5, <2>1, <2>2 DEF Present
<1>7. \A r \in s.recs[z] :
        r \in t.recs[z] \/ (r.rec.type = "A" /\ r.rec.data = "ip" /\ r.rec.name # "@")
  BY <1>5, ZoneAssumption DEF Legacy
<1>8. ApiOK(t) /\ Evolves(s, t)
  BY <1>1, <1>2, <1>3, <1>4, <1>6, <1>7, OneZone
<1>9. AddsOnce(s, t)
  BY <1>0, <1>1 DEF AddsOnce
<1> QED BY <1>8, <1>9 DEF t

\* The cleanup and the upserts of any number of commands, in any order, and
\* done at any time after they were asked for, do not disturb each other.
LEMMA ApplyKeeps ==
  ASSUME NEW s, ApiOK(s), NEW q, ReqOK(s, q)
  PROVE  ApiOK(Apply(s, q)) /\ Evolves(s, Apply(s, q))
<1>1. PICK z \in Domains :
        \/ q = Domain(z)
        \/ \E rec \in OurRecords : z \in s.exists /\ q = Create(z, rec)
        \/ \E rec \in OurRecords, i \in Nat : Holds(s, z, i, rec) /\ q = Update(z, i, rec)
        \/ \E i \in Nat : Deletable(s, z, i) /\ q = Delete(z, i)
  BY DEF ReqOK
<1> QED BY <1>1, DomainKeeps, CreateKeeps, UpdateKeeps, DeleteKeeps, Zenon

\* A request that was right when it was made is right when it is done.
LEMMA LateIsRight ==
  ASSUME NEW s, NEW t, Evolves(s, t), NEW q, ReqOK(s, q)
  PROVE  ReqOK(t, q)
<1>1. PICK z \in Domains :
        \/ q = Domain(z)
        \/ \E rec \in OurRecords : z \in s.exists /\ q = Create(z, rec)
        \/ \E rec \in OurRecords, i \in Nat : Holds(s, z, i, rec) /\ q = Update(z, i, rec)
        \/ \E i \in Nat : Deletable(s, z, i) /\ q = Delete(z, i)
  BY DEF ReqOK
<1>2. CASE q = Domain(z)
  BY <1>2 DEF ReqOK
<1>3. CASE \E rec \in OurRecords : z \in s.exists /\ q = Create(z, rec)
  BY <1>3 DEF ReqOK, Evolves
<1>4. CASE \E rec \in OurRecords, i \in Nat : Holds(s, z, i, rec) /\ q = Update(z, i, rec)
  BY <1>4 DEF ReqOK, Evolves
<1>5. CASE \E i \in Nat : Deletable(s, z, i) /\ q = Delete(z, i)
  BY <1>5 DEF ReqOK, Evolves
<1> QED BY <1>1, <1>2, <1>3, <1>4, <1>5

-----------------------------------------------------------------------------
\* A command on its way, in any state s of the service.

Places == {"idle", "begin", "make", "list", "delete", "write", "rename",
           "hostname", "hosts"}

\* What a step has brought about once it is done.
Done(s, a) ==
  /\ a.do \in {"zone", "upsert"} => a.zone \in s.exists
  /\ a.do = "upsert" /\ Kept(a.rec) => Present(s, a.zone, a.rec)

\* What the steps before the first one left have brought about.
Ready(s, x) ==
  x # <<>> /\ Head(x).do = "upsert" =>
    LET z == Head(x).zone  rec == Head(x).rec IN
    /\ z \in s.exists
    /\ rec \in {MailRecords[1], MailRecords[2], MailRecords[3]}
         /\ InHost(z) /\ Kept(HostRecord(z)) => Present(s, z, HostRecord(z))
    /\ rec \in {MailRecords[2], MailRecords[3]} => Present(s, z, MailRecords[1])
    /\ rec = MailRecords[3] => Present(s, z, MailRecords[2])

RunnerOK(s, x, a, f) ==
  /\ x \in Plans /\ a \in Places /\ (a = "idle" <=> x = <<>>)
  /\ Ready(s, x)
  /\ a \in {"list", "delete"} => Head(x).do = "zone" /\ Head(x).zone \in s.exists
  /\ a = "delete" => \A i \in f : Deletable(s, Head(x).zone, i)
  /\ a = "write" => /\ Head(x).do = "upsert"
                    /\ \A i \in f : Holds(s, Head(x).zone, i, Head(x).rec)

PublishedOK(s, d) ==
  /\ d \in Domains
  /\ Present(s, d, MailRecords[1]) /\ Present(s, d, MailRecords[2])
  /\ Present(s, d, MailRecords[3])
  /\ InHost(d) /\ Kept(HostRecord(d)) => Present(s, d, HostRecord(d))

\* The records of a mail domain are ours, and three are always kept.
LEMMA OursKept ==
  /\ MailRecords[1] \in OurRecords /\ MailRecords[2] \in OurRecords
  /\ MailRecords[3] \in OurRecords /\ \A d : InHost(d) => HostRecord(d) \in OurRecords
  /\ Kept(MailRecords[1]) /\ Kept(MailRecords[2]) /\ Kept(MailRecords[3])
BY RecordsDiffer DEF OurRecords, Kept, HostRecords, InHost

\* A step that is done leaves the next one ready.
LEMMA ReadyNext ==
  ASSUME NEW s, NEW x \in Plans, x # <<>>, Ready(s, x), Done(s, Head(x))
  PROVE  Ready(s, Tail(x))
<1> DEFINE a == Head(x)
           b == Head(Tail(x))
<1>1. SUFFICES ASSUME Tail(x) # <<>>, b.do = "upsert"
               PROVE  Ready(s, Tail(x))
  BY DEF Ready
<1>2. Proper(x) /\ Proper(Tail(x))
  BY <1>1, PlansProper DEF Proper
<1>3. Leads(a, b) /\ b.rec \in OurRecords
  BY <1>1, <1>2 DEF Proper
<1> HIDE DEF a, b
<1>4. a.zone = b.zone /\ a.do \in {"zone", "upsert"}
  BY <1>1, <1>3 DEF Leads, OurRecords
<1>5. b.zone \in s.exists
  BY <1>4 DEF Done, a
<1>6. ASSUME a.do = "upsert"
      PROVE  /\ Kept(a.rec) => Present(s, b.zone, a.rec)
             /\ a.rec \in {MailRecords[1], MailRecords[2], MailRecords[3]}
                  /\ InHost(b.zone) /\ Kept(HostRecord(b.zone)) => Present(s, b.zone, HostRecord(b.zone))
             /\ a.rec \in {MailRecords[2], MailRecords[3]} => Present(s, b.zone, MailRecords[1])
  BY <1>4, <1>6 DEF Done, Ready, a
<1>7. b.rec = MailRecords[1] /\ InHost(b.zone) /\ Kept(HostRecord(b.zone))
        => Present(s, b.zone, HostRecord(b.zone))
  BY <1>1, <1>3, <1>6 DEF Leads
<1>8. b.rec = MailRecords[2] =>
        /\ Present(s, b.zone, MailRecords[1])
        /\ InHost(b.zone) /\ Kept(HostRecord(b.zone)) => Present(s, b.zone, HostRecord(b.zone))
  BY <1>1, <1>3, <1>6, OursKept DEF Leads
<1>9. b.rec = MailRecords[3] =>
        /\ Present(s, b.zone, MailRecords[2]) /\ Present(s, b.zone, MailRecords[1])
        /\ InHost(b.zone) /\ Kept(HostRecord(b.zone)) => Present(s, b.zone, HostRecord(b.zone))
  BY <1>1, <1>3, <1>6, OursKept DEF Leads
<1> QED BY <1>5, <1>7, <1>8, <1>9, RecordsDiffer DEF Ready, b

\* The last record makes the domain complete.
LEMMA PublishedNext ==
  ASSUME NEW s, NEW x \in Plans, x # <<>>, Ready(s, x), Done(s, Head(x)),
         Head(x).rec = MailRecords[3]
  PROVE  PublishedOK(s, Head(x).zone)
<1>1. Proper(x)
  BY PlansProper
<1>2. Head(x).do = "upsert" /\ Head(x) \in Steps
  BY <1>1, OursKept, RecordsDiffer DEF Proper
<1>3. Head(x).zone \in Domains
  BY <1>2 DEF Steps
<1> QED BY <1>2, <1>3, OursKept DEF PublishedOK, Ready, Done

\* What a runner relies on, no request of another takes away.
LEMMA RunnerKeeps ==
  ASSUME NEW s, NEW t, Evolves(s, t), NEW x, NEW a, NEW f, RunnerOK(s, x, a, f)
  PROVE  RunnerOK(t, x, a, f)
<1>1. ASSUME x # <<>>
      PROVE  Head(x).zone \in Domains /\ (Head(x).do = "upsert" => Head(x).rec \in OurRecords)
  <2>1. Proper(x)
    BY <1>1, PlansProper DEF RunnerOK
  <2> QED BY <2>1 DEF Proper, Steps
<1>2. Ready(t, x)
  <2>1. SUFFICES ASSUME x # <<>>, Head(x).do = "upsert"
                 PROVE  Ready(t, x)
    BY DEF Ready
  <2>2. \A rec \in OurRecords : Kept(rec) /\ Present(s, Head(x).zone, rec)
                                  => Present(t, Head(x).zone, rec)
    BY <1>1, <2>1 DEF Evolves
  <2>3. Head(x).zone \in s.exists => Head(x).zone \in t.exists
    BY DEF Evolves
  <2> QED BY <2>1, <2>2, <2>3, OursKept DEF Ready, RunnerOK
<1>3. a = "delete" => \A i \in f : Deletable(t, Head(x).zone, i)
  <2>1. SUFFICES ASSUME a = "delete", NEW i \in f PROVE Deletable(t, Head(x).zone, i)
    OBVIOUS
  <2>2. x # <<>> /\ Deletable(s, Head(x).zone, i) /\ i \in Nat
    BY <2>1 DEF RunnerOK, Deletable
  <2> QED BY <1>1, <2>2 DEF Evolves
<1>4. a = "write" => \A i \in f : Holds(t, Head(x).zone, i, Head(x).rec)
  <2>1. SUFFICES ASSUME a = "write", NEW i \in f PROVE Holds(t, Head(x).zone, i, Head(x).rec)
    OBVIOUS
  <2>2. /\ x # <<>> /\ Holds(s, Head(x).zone, i, Head(x).rec) /\ i \in Nat
        /\ Head(x).do = "upsert"
    BY <2>1 DEF RunnerOK, Holds
  <2> QED BY <1>1, <2>2 DEF Evolves
<1>5. a \in {"list", "delete"} => Head(x).do = "zone" /\ Head(x).zone \in t.exists
  BY DEF RunnerOK, Evolves
<1> QED BY <1>2, <1>3, <1>4, <1>5 DEF RunnerOK

\* What a published domain has, no request takes away.
LEMMA PublishedKeeps ==
  ASSUME NEW s, NEW t, Evolves(s, t), NEW d, PublishedOK(s, d)
  PROVE  PublishedOK(t, d)
BY OursKept DEF PublishedOK, Evolves

-----------------------------------------------------------------------------
\* The invariant.

ServiceInv == ApiOK(api) /\ \A q \in late : ReqOK(api, q)

RunnersInv ==
  /\ plan \in [Runners -> Plans] /\ at \in [Runners -> Places]
  /\ found = [p \in Runners |-> found[p]]
  /\ \A p \in Runners : RunnerOK(api, plan[p], at[p], found[p])
  /\ \A d \in published : PublishedOK(api, d)

\* A service that nothing is asked of keeps everything.
LEMMA Unchanged == \A s : ApiOK(s) => Evolves(s, s)
BY DEF ApiOK, Evolves

\* A call, whatever becomes of it.
LEMMA CallStep ==
  ASSUME ServiceInv, NEW q, ReqOK(api, q), NEW ok \in BOOLEAN, Call(q, ok)
  PROVE  /\ ServiceInv' /\ Evolves(api, api')
         /\ ok => Accepts(q) /\ api' = Apply(api, q) /\ late' = late
<1>1. ApiOK(Apply(api, q)) /\ Evolves(api, Apply(api, q))
  BY ApplyKeeps DEF ServiceInv
<1>2. ApiOK(api) /\ Evolves(api, api)
  BY Unchanged DEF ServiceInv
<1>3. api' = api \/ api' = Apply(api, q)
  BY DEF Call
<1>4. ApiOK(api') /\ Evolves(api, api')
  BY <1>1, <1>2, <1>3
<1>5. late' \subseteq late \cup {q}
  BY DEF Call
<1>6. \A r \in late' : ReqOK(api', r)
  BY <1>4, <1>5, LateIsRight DEF ServiceInv
<1>7. ok => Accepts(q) /\ api' = Apply(api, q) /\ late' = late
  BY DEF Call
<1> QED BY <1>4, <1>6, <1>7 DEF ServiceInv

\* The runners that take no step, and the domains published before.
LEMMA OthersKeep ==
  ASSUME RunnersInv, Evolves(api, api'), NEW p \in Runners,
         \A r \in Runners \ {p} : plan'[r] = plan[r] /\ at'[r] = at[r] /\ found'[r] = found[r]
  PROVE  /\ \A r \in Runners \ {p} : RunnerOK(api', plan'[r], at'[r], found'[r])
         /\ \A d \in published : PublishedOK(api', d)
<1>1. ASSUME NEW r \in Runners \ {p}
      PROVE  RunnerOK(api', plan'[r], at'[r], found'[r])
  <2>1. RunnerOK(api, plan[r], at[r], found[r])
    BY DEF RunnersInv
  <2>2. RunnerOK(api', plan[r], at[r], found[r])
    BY <2>1, RunnerKeeps
  <2> QED BY <1>1, <2>2
<1>2. ASSUME NEW d \in published
      PROVE  PublishedOK(api', d)
  <2>1. PublishedOK(api, d)
    BY DEF RunnersInv
  <2> QED BY <2>1, PublishedKeeps
<1> QED BY <1>1, <1>2

\* A runner goes on within its step.
LEMMA GotoStep ==
  ASSUME RunnersInv, Evolves(api, api'), NEW p \in Runners, NEW where, NEW what,
         RunnerOK(api', plan[p], where, what), Goto(p, where, what)
  PROVE  RunnersInv'
<1>0. plan \in [Runners -> Plans] /\ at \in [Runners -> Places]
      /\ found = [r \in Runners |-> found[r]]
  BY DEF RunnersInv
<1>1. where \in Places
  BY DEF RunnerOK
<1>2. plan' \in [Runners -> Plans] /\ at' \in [Runners -> Places]
      /\ found' = [r \in Runners |-> found'[r]]
  BY <1>0, <1>1 DEF Goto
<1>3. \A r \in Runners \ {p} : plan'[r] = plan[r] /\ at'[r] = at[r] /\ found'[r] = found[r]
  BY <1>0 DEF Goto
<1>4. plan'[p] = plan[p] /\ at'[p] = where /\ found'[p] = what /\ published' = published
  BY <1>0 DEF Goto
<1>5. /\ \A r \in Runners \ {p} : RunnerOK(api', plan'[r], at'[r], found'[r])
      /\ \A d \in published : PublishedOK(api', d)
  BY <1>3, OthersKeep
<1>6. \A r \in Runners : RunnerOK(api', plan'[r], at'[r], found'[r])
  BY <1>4, <1>5
<1> QED BY <1>2, <1>4, <1>5, <1>6 DEF RunnersInv

\* A runner has done its step.
LEMMA DoneStep ==
  ASSUME RunnersInv, Evolves(api, api'), NEW p \in Runners, plan[p] # <<>>,
         Done(api', Head(plan[p])), StepDone(p)
  PROVE  RunnersInv'
<1>0. plan \in [Runners -> Plans] /\ at \in [Runners -> Places]
      /\ found = [r \in Runners |-> found[r]]
  BY DEF RunnersInv
<1> DEFINE x == plan[p]
           b == IF Len(x) = 1 THEN "idle" ELSE "begin"
<1>1. x \in Plans /\ Proper(x)
  BY <1>0, PlansProper
<1>2. Tail(x) \in Plans /\ b \in Places
  BY <1>1 DEF Proper, Places
<1>3. b = "idle" <=> Tail(x) = <<>>
  BY <1>1 DEF Proper
<1>4. /\ plan' = [plan EXCEPT ![p] = Tail(x)] /\ at' = [at EXCEPT ![p] = b]
      /\ found' = [found EXCEPT ![p] = {}]
  BY <1>0 DEF StepDone
<1>4a. \/ published' = published
       \/ Head(x).rec = MailRecords[3] /\ published' = published \cup {Head(x).zone}
  <2>1. published' = IF Head(x).rec = MailRecords[3] THEN published \cup {Head(x).zone}
                     ELSE published
    BY DEF StepDone
  <2> HIDE DEF x
  <2> QED BY <2>1, Zenon
<1>5. Ready(api', x)
  <2>1. RunnerOK(api', x, at[p], found[p])
    BY RunnerKeeps DEF RunnersInv
  <2> QED BY <2>1 DEF RunnerOK
<1>6. b \in {"idle", "begin"}
  OBVIOUS
<1>7. Ready(api', Tail(x))
  BY <1>1, <1>5, ReadyNext
<1> HIDE DEF b
<1>8. RunnerOK(api', Tail(x), b, {})
  BY <1>2, <1>3, <1>6, <1>7 DEF RunnerOK
<1>9. Head(x).rec = MailRecords[3] => PublishedOK(api', Head(x).zone)
  BY <1>1, <1>5, PublishedNext
<1> HIDE DEF x
<1>10. plan' \in [Runners -> Plans] /\ at' \in [Runners -> Places]
       /\ found' = [r \in Runners |-> found'[r]]
  BY <1>0, <1>2, <1>4
<1>11. \A r \in Runners \ {p} : plan'[r] = plan[r] /\ at'[r] = at[r] /\ found'[r] = found[r]
  BY <1>0, <1>4
<1>12. plan'[p] = Tail(x) /\ at'[p] = b /\ found'[p] = {}
  BY <1>0, <1>4
<1>13. /\ \A r \in Runners \ {p} : RunnerOK(api', plan'[r], at'[r], found'[r])
       /\ \A d \in published : PublishedOK(api', d)
  BY <1>11, OthersKeep
<1>14. \A r \in Runners : RunnerOK(api', plan'[r], at'[r], found'[r])
  BY <1>8, <1>12, <1>13
<1>15. \A d \in published' : PublishedOK(api', d)
  BY <1>4a, <1>9, <1>13
<1> QED BY <1>10, <1>14, <1>15 DEF RunnersInv

\* A runner's step has failed.
LEMMA FailStep ==
  ASSUME RunnersInv, Evolves(api, api'), NEW p \in Runners, plan[p] # <<>>, StepFails(p)
  PROVE  RunnersInv'
<1>0. plan \in [Runners -> Plans] /\ at \in [Runners -> Places]
      /\ found = [r \in Runners |-> found[r]]
  BY DEF RunnersInv
<1> DEFINE x == plan[p]
           y == IF Head(x).infra THEN InfraRest(x) ELSE <<>>
           b == IF Head(x).infra THEN "begin" ELSE "idle"
<1>1. x \in Plans /\ Proper(x)
  BY <1>0, PlansProper
<1>2. <<>> \in Plans /\ b \in Places
  BY DEF Plans, Places
<1>3. /\ y \in Plans /\ (b = "idle" <=> y = <<>>) /\ Ready(api', y)
  BY <1>1, <1>2 DEF Proper, Ready
<1>4. /\ plan' = [plan EXCEPT ![p] = y] /\ at' = [at EXCEPT ![p] = b]
      /\ found' = [found EXCEPT ![p] = {}] /\ published' = published
  BY <1>0 DEF StepFails, InfraRest
<1>5. b \in {"idle", "begin"}
  OBVIOUS
<1> HIDE DEF b, x, y
<1>6. RunnerOK(api', y, b, {})
  BY <1>2, <1>3, <1>5 DEF RunnerOK
<1>7. plan' \in [Runners -> Plans] /\ at' \in [Runners -> Places]
      /\ found' = [r \in Runners |-> found'[r]]
  BY <1>0, <1>2, <1>3, <1>4
<1>8. \A r \in Runners \ {p} : plan'[r] = plan[r] /\ at'[r] = at[r] /\ found'[r] = found[r]
  BY <1>0, <1>4
<1>9. plan'[p] = y /\ at'[p] = b /\ found'[p] = {}
  BY <1>0, <1>4
<1>10. /\ \A r \in Runners \ {p} : RunnerOK(api', plan'[r], at'[r], found'[r])
       /\ \A d \in published : PublishedOK(api', d)
  BY <1>8, OthersKeep
<1>11. \A r \in Runners : RunnerOK(api', plan'[r], at'[r], found'[r])
  BY <1>6, <1>9, <1>10
<1> QED BY <1>4, <1>7, <1>10, <1>11 DEF RunnersInv

DnsInv == ServiceInv /\ RunnersInv

\* It holds at the start.
LEMMA DnsInit == Init => DnsInv
<1> SUFFICES ASSUME Init PROVE DnsInv
  OBVIOUS
<1>1. PICK z \in ZonesAtStart :
        api = [exists |-> {d \in Domains : z[d] # {}}, next |-> FirstFree,
               recs |-> z]
  BY DEF Init
<1>2. z \in [Domains -> SUBSET [id : 1..(FirstFree - 1), rec : Records]]
      /\ \A d \in Domains : \A r, s \in z[d] : r.id = s.id => r = s
  BY ZoneAssumption
<1>3. api.exists = {d \in Domains : z[d] # {}} /\ api.next = FirstFree /\ api.recs = z
  BY <1>1
<1>4. [id : 1..(FirstFree - 1), rec : Records] \subseteq Entries
  BY BoundAssumption DEF Entries
<1>5. z \in [Domains -> SUBSET Entries]
  BY <1>2, <1>4
<1>6. api \in [exists : SUBSET Domains, next : Nat, recs : [Domains -> SUBSET Entries]]
  BY <1>1, <1>5, BoundAssumption
<1>7. \A d \in Domains : \A r \in z[d] : r.id < FirstFree
  BY <1>2, BoundAssumption
<1>8. ApiOK(api)
  BY <1>2, <1>3, <1>6, <1>7 DEF ApiOK
<1>9. ServiceInv
  BY <1>8 DEF ServiceInv, Init
<1>10. /\ plan = [p \in Runners |-> <<>>] /\ at = [p \in Runners |-> "idle"]
       /\ found = [p \in Runners |-> {}] /\ published = {}
  BY DEF Init
<1>11. <<>> \in Plans /\ "idle" \in Places
  BY DEF Plans, Places
<1>12. RunnerOK(api, <<>>, "idle", {})
  BY <1>11 DEF RunnerOK, Ready
<1>13. RunnersInv
  BY <1>10, <1>11, <1>12 DEF RunnersInv
<1> QED BY <1>9, <1>13 DEF DnsInv

\* Nothing is asked of the service.
LEMMA QuietStep ==
  ASSUME DnsInv, UNCHANGED <<api, late>>
  PROVE  ServiceInv' /\ Evolves(api, api')
BY Unchanged DEF DnsInv, ServiceInv

\* What is known of a runner that is in a step.
LEMMA InStep ==
  ASSUME DnsInv, NEW p \in Runners, NEW do, NEW where, Doing(p, do, where)
  PROVE  /\ RunnerOK(api, plan[p], where, found[p]) /\ plan[p] # <<>> /\ plan[p] \in Plans
         /\ Head(plan[p]).do = do /\ Head(plan[p]).zone \in Domains
         /\ do = "upsert" => Head(plan[p]).rec \in OurRecords
                             /\ Head(plan[p]).zone \in api.exists
<1>1. RunnerOK(api, plan[p], where, found[p]) /\ plan[p] # <<>> /\ Head(plan[p]).do = do
  BY DEF DnsInv, RunnersInv, Doing
<1>2. plan[p] \in Plans /\ Ready(api, plan[p])
  BY <1>1 DEF RunnerOK
<1>3. Proper(plan[p])
  BY <1>1, <1>2, PlansProper
<1>4. Head(plan[p]).zone \in Domains /\ (do = "upsert" => Head(plan[p]).rec \in OurRecords)
  BY <1>1, <1>3 DEF Proper, Steps
<1>5. do = "upsert" => Head(plan[p]).zone \in api.exists
  BY <1>1, <1>2 DEF Ready
<1> QED BY <1>1, <1>2, <1>4, <1>5

\* A runner's own step keeps what it relies on if it goes on to a place where
\* nothing is relied on but the plan.
LEMMA PlainPlace ==
  ASSUME NEW s, NEW x, NEW a, NEW f, RunnerOK(s, x, a, f), x # <<>>,
         NEW b \in {"begin", "make", "rename", "hostname", "hosts"}, NEW g
  PROVE  RunnerOK(s, x, b, g)
BY DEF RunnerOK, Places

\* A command that starts.
LEMMA StartKeeps ==
  ASSUME DnsInv, NEW p \in Runners, Start(p)
  PROVE  DnsInv' /\ Evolves(api, api')
<1>0. plan \in [Runners -> Plans] /\ at \in [Runners -> Places]
      /\ found = [r \in Runners |-> found[r]]
  BY DEF DnsInv, RunnersInv
<1>1. ServiceInv' /\ Evolves(api, api')
  BY QuietStep DEF Start
<1>2. PICK x : plan' = [plan EXCEPT ![p] = x]
               /\ (x = SetupHostnameAndPTR \/ \E d \in Domains : x = DnsCreate(d))
  BY DEF Start
<1>3. BaseDomain \in Domains
  BY ZoneAssumption
<1>4. x \in Plans /\ x # <<>> /\ Head(x).do # "upsert"
  BY <1>2, <1>3, CommandsArePlans
<1>5. "begin" \in Places
  BY DEF Places
<1>6. RunnerOK(api', x, "begin", found[p])
  BY <1>4, <1>5 DEF RunnerOK, Ready
<1>7. at' = [at EXCEPT ![p] = "begin"] /\ found' = found /\ published' = published
  BY DEF Start
<1>8. plan' \in [Runners -> Plans] /\ at' \in [Runners -> Places]
      /\ found' = [r \in Runners |-> found'[r]]
  BY <1>0, <1>2, <1>4, <1>5, <1>7
<1>9. \A r \in Runners \ {p} : plan'[r] = plan[r] /\ at'[r] = at[r] /\ found'[r] = found[r]
  BY <1>0, <1>2, <1>7
<1>10. plan'[p] = x /\ at'[p] = "begin" /\ found'[p] = found[p]
  BY <1>0, <1>2, <1>7
<1>11. RunnersInv
  BY DEF DnsInv
<1>12. /\ \A r \in Runners \ {p} : RunnerOK(api', plan'[r], at'[r], found'[r])
       /\ \A d \in published : PublishedOK(api', d)
  BY <1>1, <1>9, <1>11, OthersKeep
<1>13. \A r \in Runners : RunnerOK(api', plan'[r], at'[r], found'[r])
  BY <1>6, <1>10, <1>12
<1>14. RunnersInv'
  BY <1>7, <1>8, <1>12, <1>13 DEF RunnersInv
<1> QED BY <1>1, <1>14 DEF DnsInv

\* A request that comes late.
LEMMA LateKeeps ==
  ASSUME DnsInv, LateRequest
  PROVE  DnsInv' /\ Evolves(api, api')
<1>1. PICK q \in late : late' = late \ {q} /\ api' = Apply(api, q)
  BY DEF LateRequest
<1>2. UNCHANGED <<plan, at, found, published>>
  BY DEF LateRequest, progress
<1>3. ApiOK(api') /\ Evolves(api, api')
  BY <1>1, ApplyKeeps DEF DnsInv, ServiceInv
<1>4. \A r \in late' : ReqOK(api', r)
  BY <1>1, <1>3, LateIsRight DEF DnsInv, ServiceInv
<1>5. ASSUME NEW p \in Runners
      PROVE  RunnerOK(api', plan'[p], at'[p], found'[p])
  <2>1. RunnerOK(api, plan[p], at[p], found[p])
    BY DEF DnsInv, RunnersInv
  <2> QED BY <1>2, <1>3, <2>1, RunnerKeeps
<1>6. ASSUME NEW d \in published'
      PROVE  PublishedOK(api', d)
  <2>1. PublishedOK(api, d)
    BY <1>2 DEF DnsInv, RunnersInv
  <2> QED BY <1>3, <2>1, PublishedKeeps
<1>7. RunnersInv'
  BY <1>2, <1>5, <1>6 DEF DnsInv, RunnersInv
<1> QED BY <1>3, <1>4, <1>7 DEF DnsInv, ServiceInv

\* The zone step: the domain is looked up, made or cleaned up.
LEMMA CheckKeeps ==
  ASSUME DnsInv, NEW p \in Runners, CheckDomainExists(p)
  PROVE  DnsInv' /\ Evolves(api, api')
<1>0. RunnersInv /\ ServiceInv
  BY DEF DnsInv
<1>1. Doing(p, "zone", "begin") /\ UNCHANGED <<api, late>>
  BY DEF CheckDomainExists, Read
<1>2. /\ RunnerOK(api, plan[p], "begin", found[p]) /\ plan[p] # <<>>
      /\ Head(plan[p]).do = "zone" /\ Head(plan[p]).zone \in Domains
  BY <1>1, InStep
<1>3. ServiceInv' /\ Evolves(api, api')
  BY <1>1, QuietStep
<1>4. CASE Head(plan[p]).zone \in api.exists /\ Goto(p, "list", {})
  <2>1. RunnerOK(api', plan[p], "list", {})
    BY <1>1, <1>2, <1>4 DEF RunnerOK, Places
  <2> QED BY <1>0, <1>3, <1>4, <2>1, GotoStep DEF DnsInv
<1>5. CASE Goto(p, "make", {})
  <2>1. RunnerOK(api', plan[p], "make", {})
    BY <1>1, <1>2, PlainPlace
  <2> QED BY <1>0, <1>3, <1>5, <2>1, GotoStep DEF DnsInv
<1>6. CASE StepFails(p)
  BY <1>0, <1>2, <1>3, <1>6, FailStep DEF DnsInv
<1>7. Goto(p, IF Head(plan[p]).zone \in api.exists THEN "list" ELSE "make", {})
      \/ StepFails(p)
  BY DEF CheckDomainExists
<1> QED BY <1>4, <1>5, <1>6, <1>7

\* CreateDomain, whatever comes of the call.
LEMMA CreateDomainKeeps ==
  ASSUME DnsInv, NEW p \in Runners, CreateDomain(p)
  PROVE  DnsInv' /\ Evolves(api, api')
<1>0. RunnersInv /\ ServiceInv /\ ApiOK(api)
  BY DEF DnsInv, ServiceInv
<1>1. Doing(p, "zone", "make")
  BY DEF CreateDomain
<1>2. /\ RunnerOK(api, plan[p], "make", found[p]) /\ plan[p] # <<>>
      /\ Head(plan[p]).do = "zone" /\ Head(plan[p]).zone \in Domains
  BY <1>1, InStep
<1>3a. PICK z : z = Head(plan[p]).zone
  OBVIOUS
<1>3. PICK ok \in BOOLEAN :
        /\ z = Head(plan[p]).zone /\ Call(Domain(z), ok)
        /\ IF ok THEN StepDone(p) ELSE StepFails(p)
  <2>1. PICK ok \in BOOLEAN :
          /\ Call([do |-> "domain", zone |-> Head(plan[p]).zone], ok)
          /\ IF ok THEN StepDone(p) ELSE StepFails(p)
    BY Zenon DEF CreateDomain
  <2> QED BY <1>3a, <2>1, Zenon DEF Domain
<1>4. ReqOK(api, Domain(z))
  BY <1>2, <1>3 DEF ReqOK
<1>5. ServiceInv' /\ Evolves(api, api') /\ (ok => api' = Apply(api, Domain(z)))
  BY <1>0, <1>3, <1>4, CallStep
<1>6. CASE ok
  <2>1. z \in api'.exists
    BY <1>0, <1>2, <1>3, <1>5, <1>6, DomainKeeps
  <2>2. Done(api', Head(plan[p]))
    BY <1>2, <1>3, <2>1 DEF Done
  <2> QED BY <1>0, <1>2, <1>3, <1>5, <1>6, <2>2, DoneStep DEF DnsInv
<1>7. CASE ~ok
  BY <1>0, <1>2, <1>3, <1>5, <1>7, FailStep DEF DnsInv
<1> QED BY <1>6, <1>7

\* What is listed for deletion is an A record of an earlier name.
LEMMA ListKeeps ==
  ASSUME DnsInv, NEW p \in Runners, ListLegacy(p)
  PROVE  DnsInv' /\ Evolves(api, api')
<1>0. RunnersInv /\ ServiceInv /\ ApiOK(api)
  BY DEF DnsInv, ServiceInv
<1>1. Doing(p, "zone", "list") /\ UNCHANGED <<api, late>>
  BY DEF ListLegacy, Read
<1> DEFINE z == Head(plan[p]).zone
<1>2. /\ RunnerOK(api, plan[p], "list", found[p]) /\ plan[p] # <<>>
      /\ Head(plan[p]).do = "zone" /\ z \in Domains
  BY <1>1, InStep
<1>3. ServiceInv' /\ Evolves(api, api')
  BY <1>1, QuietStep
<1>4. z \in api.exists
  BY <1>2 DEF RunnerOK
<1>5. ASSUME NEW page \in GetDNSRecords(z),
             Goto(p, "delete", {r.id : r \in {s \in page : Legacy(s)}})
      PROVE  DnsInv'
  <2> DEFINE ids == {r.id : r \in {s \in page : Legacy(s)}}
  <2>1. page \subseteq api.recs[z]
    BY DEF GetDNSRecords
  <2>2. ASSUME NEW i \in ids
        PROVE  Deletable(api, z, i)
    <3>1. PICK r \in page : Legacy(r) /\ r.id = i
      BY <2>2
    <3>2. r \in api.recs[z] /\ api.recs[z] \in SUBSET Entries
      BY <1>0, <1>2, <2>1 DEF ApiOK
    <3>3. r.id \in Nat /\ r.id < api.next
      BY <1>0, <1>2, <3>2 DEF ApiOK, Entries
    <3>4. \A u \in api.recs[z] : u.id = i => u = r
      BY <1>0, <1>2, <3>1, <3>2 DEF ApiOK
    <3> QED BY <3>1, <3>3, <3>4 DEF Deletable
  <2> HIDE DEF ids
  <2>3. RunnerOK(api', plan[p], "delete", ids)
    BY <1>1, <1>2, <1>4, <2>2 DEF RunnerOK, Places
  <2>4. Goto(p, "delete", ids)
    BY <1>5 DEF ids
  <2> QED BY <1>0, <1>3, <2>3, <2>4, GotoStep DEF DnsInv
<1>6. CASE StepDone(p)
  <2>1. Done(api', Head(plan[p]))
    BY <1>1, <1>2, <1>4 DEF Done
  <2> QED BY <1>0, <1>2, <1>3, <1>6, <2>1, DoneStep DEF DnsInv
<1> QED BY <1>3, <1>5, <1>6 DEF ListLegacy

\* What was listed is deleted, however long ago it was listed.
LEMMA DeleteStepKeeps ==
  ASSUME DnsInv, NEW p \in Runners, DeleteLegacy(p)
  PROVE  DnsInv' /\ Evolves(api, api')
<1>0. RunnersInv /\ ServiceInv /\ ApiOK(api)
  BY DEF DnsInv, ServiceInv
<1>1. Doing(p, "zone", "delete") /\ found[p] # {}
  BY DEF DeleteLegacy
<1>2. /\ RunnerOK(api, plan[p], "delete", found[p]) /\ plan[p] # <<>>
      /\ Head(plan[p]).do = "zone" /\ Head(plan[p]).zone \in Domains
  BY <1>1, InStep
<1>3. \A i \in found[p] : Deletable(api, Head(plan[p]).zone, i)
  BY <1>2 DEF RunnerOK
<1>4a. PICK z, id :
         /\ z = Head(plan[p]).zone
         /\ id = (CHOOSE i \in found[p] : \A j \in found[p] : i <= j)
  OBVIOUS
<1>4. PICK ok \in BOOLEAN :
        /\ z = Head(plan[p]).zone
        /\ id = (CHOOSE i \in found[p] : \A j \in found[p] : i <= j)
        /\ Call(Delete(z, id), ok) /\ Goto(p, "delete", found[p] \ {id})
  <2> DEFINE i0 == CHOOSE i \in found[p] : \A j \in found[p] : i <= j
  <2>1. PICK ok \in BOOLEAN :
          Call([do |-> "delete", zone |-> Head(plan[p]).zone, id |-> i0], ok)
    BY Zenon DEF DeleteLegacy
  <2>2. Goto(p, "delete", found[p] \ {i0})
    BY Zenon DEF DeleteLegacy
  <2> QED BY <1>4a, <2>1, <2>2, Zenon DEF Delete
<1>5. id \in found[p]
  <2>1. found[p] \in SUBSET Nat
    BY <1>3 DEF Deletable
  <2>2. \E i \in found[p] : \A j \in found[p] : i <= j
    BY <1>1, <2>1, Least
  <2> QED BY <1>4, <2>2
<1>6. Deletable(api, z, id) /\ id \in Nat
  BY <1>3, <1>4, <1>5 DEF Deletable
<1>7. ReqOK(api, Delete(z, id))
  BY <1>2, <1>4, <1>6 DEF ReqOK
<1>8. ServiceInv' /\ Evolves(api, api')
  BY <1>0, <1>4, <1>7, CallStep
<1>9. RunnerOK(api', plan[p], "delete", found[p])
  BY <1>2, <1>8, RunnerKeeps
<1>10. RunnerOK(api', plan[p], "delete", found[p] \ {id})
  BY <1>9 DEF RunnerOK
<1>11. PICK left : left = found[p] \ {id}
  OBVIOUS
<1>12. RunnersInv'
  BY <1>0, <1>4, <1>8, <1>10, <1>11, GotoStep
<1> QED BY <1>8, <1>12 DEF DnsInv

\* The end of the cleanup.
LEMMA CleanupKeeps ==
  ASSUME DnsInv, NEW p \in Runners, CleanupDone(p)
  PROVE  DnsInv' /\ Evolves(api, api')
<1>0. RunnersInv /\ ServiceInv
  BY DEF DnsInv
<1>1. Doing(p, "zone", "delete") /\ UNCHANGED <<api, late>> /\ StepDone(p)
  BY DEF CleanupDone
<1>2. /\ RunnerOK(api, plan[p], "delete", found[p]) /\ plan[p] # <<>>
      /\ Head(plan[p]).do = "zone"
  BY <1>1, InStep
<1>3. ServiceInv' /\ Evolves(api, api')
  BY <1>1, QuietStep
<1>4. Done(api', Head(plan[p]))
  BY <1>1, <1>2 DEF Done, RunnerOK
<1> QED BY <1>0, <1>1, <1>2, <1>3, <1>4, DoneStep DEF DnsInv

\* The upsert step: a record is looked for, and written.
LEMMA FindKeeps ==
  ASSUME DnsInv, NEW p \in Runners, FindDNSRecord(p)
  PROVE  DnsInv' /\ Evolves(api, api')
<1>0. RunnersInv /\ ServiceInv /\ ApiOK(api)
  BY DEF DnsInv, ServiceInv
<1>1. Doing(p, "upsert", "begin") /\ UNCHANGED <<api, late>>
  BY DEF FindDNSRecord, Read
<1> DEFINE z == Head(plan[p]).zone
<1>2. /\ RunnerOK(api, plan[p], "begin", found[p]) /\ plan[p] # <<>>
      /\ Head(plan[p]).do = "upsert" /\ z \in Domains
  BY <1>1, InStep
<1>3. ServiceInv' /\ Evolves(api, api')
  BY <1>1, QuietStep
<1>4. ASSUME NEW page \in GetDNSRecords(z), NEW r \in page,
             Same(r.rec, Head(plan[p]).rec), Goto(p, "write", {r.id})
      PROVE  DnsInv'
  <2>1. r \in api.recs[z] /\ api.recs[z] \in SUBSET Entries
    BY <1>0, <1>2 DEF GetDNSRecords, ApiOK
  <2>2. r.id \in Nat /\ r.id < api.next
    BY <1>0, <1>2, <2>1 DEF ApiOK, Entries
  <2>3. \A u \in api.recs[z] : u.id = r.id => u = r
    BY <1>0, <1>2, <2>1 DEF ApiOK
  <2>4. Holds(api, z, r.id, Head(plan[p]).rec)
    BY <1>4, <2>2, <2>3 DEF Holds
  <2>5. RunnerOK(api', plan[p], "write", {r.id})
    BY <1>1, <1>2, <2>4 DEF RunnerOK, Places
  <2> QED BY <1>0, <1>3, <1>4, <2>5, GotoStep DEF DnsInv
<1>5. CASE Goto(p, "write", {})
  <2>1. RunnerOK(api', plan[p], "write", {})
    BY <1>1, <1>2 DEF RunnerOK, Places
  <2> QED BY <1>0, <1>3, <1>5, <2>1, GotoStep DEF DnsInv
<1>6. CASE StepFails(p)
  BY <1>0, <1>2, <1>3, <1>6, FailStep DEF DnsInv
<1> QED BY <1>3, <1>4, <1>5, <1>6 DEF FindDNSRecord

\* The request of a write is right, whatever was found.
LEMMA WriteIsRight ==
  ASSUME DnsInv, NEW p \in Runners, Doing(p, "upsert", "write")
  PROVE  ReqOK(api, WriteRequest(p))
<1> DEFINE z == Head(plan[p]).zone
           rec == Head(plan[p]).rec
<1>1. /\ RunnerOK(api, plan[p], "write", found[p]) /\ plan[p] # <<>>
      /\ z \in Domains /\ rec \in OurRecords /\ z \in api.exists
  BY InStep
<1>2. CASE found[p] = {}
  <2>1. WriteRequest(p) = Create(z, rec)
    BY <1>2 DEF WriteRequest, Create
  <2> QED BY <1>1, <2>1 DEF ReqOK
<1>3. CASE found[p] # {}
  <2> DEFINE i == CHOOSE i \in found[p] : TRUE
  <2>1. i \in found[p]
    BY <1>3
  <2>2. WriteRequest(p) = Update(z, i, rec)
    BY <1>3 DEF WriteRequest, Update
  <2>3. Holds(api, z, i, rec) /\ i \in Nat
    BY <1>1, <2>1 DEF RunnerOK, Holds
  <2> HIDE DEF i
  <2> QED BY <1>1, <2>2, <2>3 DEF ReqOK
<1> QED BY <1>2, <1>3

\* A record that was accepted is there.
LEMMA WriteKeeps ==
  ASSUME DnsInv, NEW p \in Runners, WriteDNSRecord(p)
  PROVE  DnsInv' /\ Evolves(api, api')
<1>0. RunnersInv /\ ServiceInv /\ ApiOK(api)
  BY DEF DnsInv, ServiceInv
<1>1. Doing(p, "upsert", "write")
  BY DEF WriteDNSRecord
<1> DEFINE z == Head(plan[p]).zone
           rec == Head(plan[p]).rec
<1>2. /\ RunnerOK(api, plan[p], "write", found[p]) /\ plan[p] # <<>>
      /\ Head(plan[p]).do = "upsert" /\ z \in Domains /\ rec \in OurRecords /\ z \in api.exists
  BY <1>1, InStep
<1>3a. PICK q : q = WriteRequest(p)
  OBVIOUS
<1>3. PICK ok \in BOOLEAN :
        q = WriteRequest(p) /\ Call(q, ok) /\ IF ok THEN StepDone(p) ELSE StepFails(p)
  BY <1>3a, Zenon DEF WriteDNSRecord
<1>4. ReqOK(api, q)
  BY <1>1, <1>3, WriteIsRight
<1>5. /\ ServiceInv' /\ Evolves(api, api')
      /\ ok => Accepts(q) /\ api' = Apply(api, q)
  BY <1>0, <1>3, <1>4, CallStep
<1>6. CASE ok
  <2>1. Present(api', z, rec)
    <3>1. CASE found[p] = {}
      <4>1. q = Create(z, rec)
        BY <1>3, <3>1 DEF WriteRequest, Create
      <4> QED BY <1>0, <1>2, <1>5, <1>6, <4>1, CreateKeeps
    <3>2. CASE found[p] # {}
      <4> DEFINE i == CHOOSE i \in found[p] : TRUE
      <4>1. i \in found[p]
        BY <3>2
      <4>2. q = Update(z, i, rec)
        BY <1>3, <3>2 DEF WriteRequest, Update
      <4>3. Holds(api, z, i, rec) /\ i \in Nat
        BY <1>2, <4>1 DEF RunnerOK, Holds
      <4> HIDE DEF i
      <4>4. q.do = "update" /\ q.zone = z /\ q.id = i
        BY <4>2 DEF Update
      <4>5. \E r \in api.recs[z] : r.id = i
        BY <1>5, <1>6, <4>4 DEF Accepts
      <4> QED BY <1>0, <1>2, <1>5, <1>6, <4>2, <4>3, <4>5, UpdateKeeps
    <3> QED BY <3>1, <3>2
  <2>2. z \in api'.exists
    BY <1>2, <1>5 DEF Evolves
  <2>3. Done(api', Head(plan[p]))
    BY <1>2, <2>1, <2>2 DEF Done
  <2> QED BY <1>0, <1>2, <1>3, <1>5, <1>6, <2>3, DoneStep DEF DnsInv
<1>7. CASE ~ok
  BY <1>0, <1>2, <1>3, <1>5, <1>7, FailStep DEF DnsInv
<1> QED BY <1>6, <1>7

\* A step of the host, which asks nothing of the zones.
LEMMA HostStep ==
  ASSUME DnsInv, UNCHANGED <<api, late>>, NEW p \in Runners, NEW do \in {"ptr", "hostname"},
         NEW where, Doing(p, do, where),
         \/ StepDone(p) \/ StepFails(p)
         \/ \E b \in {"rename", "hostname", "hosts"} : \E what : Goto(p, b, what)
  PROVE  DnsInv' /\ Evolves(api, api')
<1>0. RunnersInv /\ ServiceInv
  BY DEF DnsInv
<1>1. /\ RunnerOK(api, plan[p], where, found[p]) /\ plan[p] # <<>> /\ Head(plan[p]).do = do
  BY InStep
<1>2. ServiceInv' /\ Evolves(api, api')
  BY QuietStep
<1>3. CASE StepDone(p)
  <2>1. Done(api', Head(plan[p]))
    BY <1>1 DEF Done
  <2> QED BY <1>0, <1>1, <1>2, <1>3, <2>1, DoneStep DEF DnsInv
<1>4. CASE StepFails(p)
  BY <1>0, <1>1, <1>2, <1>4, FailStep DEF DnsInv
<1>5. ASSUME NEW b \in {"rename", "hostname", "hosts"}, NEW what, Goto(p, b, what)
      PROVE  DnsInv'
  <2>1. RunnerOK(api, plan[p], b, what)
    BY <1>1, PlainPlace
  <2>2. RunnerOK(api', plan[p], b, what)
    BY <2>1
  <2> QED BY <1>0, <1>2, <1>5, <2>2, GotoStep DEF DnsInv
<1> QED BY <1>2, <1>3, <1>4, <1>5

\* The droplet, the hostname and /etc/hosts.
LEMMA HostKeeps ==
  ASSUME DnsInv, NEW p \in Runners,
         GetCurrentDroplet(p) \/ RenameDroplet(p) \/ UpdateLocalHostname(p) \/ WriteEtcHosts(p)
  PROVE  DnsInv' /\ Evolves(api, api')
<1>1. CASE GetCurrentDroplet(p)
  <2>1. Doing(p, "ptr", "begin") /\ UNCHANGED <<api, late>>
        /\ (StepDone(p) \/ Goto(p, "rename", {}))
    BY <1>1 DEF GetCurrentDroplet, Read
  <2> QED BY <2>1, HostStep
<1>2. CASE RenameDroplet(p)
  <2>1. Doing(p, "ptr", "rename") /\ UNCHANGED <<api, late>>
        /\ (StepDone(p) \/ Goto(p, "hostname", {}))
    BY <1>2 DEF RenameDroplet, Read
  <2> QED BY <2>1, HostStep
<1>3. CASE UpdateLocalHostname(p)
  <2>1. PICK do \in {"ptr", "hostname"} : \E where : Doing(p, do, where)
    BY <1>3 DEF UpdateLocalHostname, InHostname
  <2>2. UNCHANGED <<api, late>>
    BY <1>3 DEF UpdateLocalHostname
  <2>3. StepDone(p) \/ StepFails(p) \/ \E what : Goto(p, "hosts", what)
    BY <1>3 DEF UpdateLocalHostname, HostnameFails
  <2> QED BY <2>1, <2>2, <2>3, HostStep
<1>4. CASE WriteEtcHosts(p)
  <2>1. PICK do \in {"ptr", "hostname"} : \E where : Doing(p, do, where)
    BY <1>4 DEF WriteEtcHosts, InHostname
  <2>2. UNCHANGED <<api, late>>
    BY <1>4 DEF WriteEtcHosts
  <2>3. StepDone(p) \/ StepFails(p)
    BY <1>4 DEF WriteEtcHosts, HostnameFails
  <2> QED BY <2>1, <2>2, <2>3, HostStep
<1> QED BY <1>1, <1>2, <1>3, <1>4

\* Every step keeps the invariant and what any command relies on.
LEMMA DnsStep ==
  ASSUME DnsInv, [Next]_vars
  PROVE  DnsInv' /\ Evolves(api, api')
<1>1. CASE UNCHANGED vars
  <2>1. Evolves(api, api')
    BY <1>1, QuietStep DEF vars
  <2>2. DnsInv'
    BY <1>1 DEF vars, DnsInv, ServiceInv, RunnersInv
  <2> QED BY <2>1, <2>2
<1>2. CASE LateRequest
  BY <1>2, LateKeeps
<1>3. ASSUME NEW p \in Runners,
             \/ Start(p) \/ CheckDomainExists(p) \/ CreateDomain(p)
             \/ ListLegacy(p) \/ DeleteLegacy(p) \/ CleanupDone(p)
             \/ FindDNSRecord(p) \/ WriteDNSRecord(p)
             \/ GetCurrentDroplet(p) \/ RenameDroplet(p)
             \/ UpdateLocalHostname(p) \/ WriteEtcHosts(p)
      PROVE  DnsInv' /\ Evolves(api, api')
  BY <1>3, StartKeeps, CheckKeeps, CreateDomainKeeps, ListKeeps, DeleteStepKeeps,
     CleanupKeeps, FindKeeps, WriteKeeps, HostKeeps
<1> QED BY <1>1, <1>2, <1>3 DEF Next

\* However many administrators run `dns create` and the installer, whichever
\* of their calls fail, come late or are truncated: ids stay unique, a runner
\* updates only a record of the type and name it writes and deletes only the
\* A records of earlier names, and steps are taken only where the ones they
\* build on are done.
THEOREM DnsSound == Spec => []DnsInv
<1>1. Init => DnsInv
  BY DnsInit
<1>2. DnsInv /\ [Next]_vars => DnsInv'
  BY DnsStep
<1> QED BY <1>1, <1>2, PTL DEF Spec

\* A mail domain that `dns create` has reported as set up keeps its MX, SPF and
\* DMARC records, and the mail host's A record if the host has a name in it and
\* CleanupLegacyARecords knows that name ("@" or one beginning with mail).
THEOREM PublishedStays ==
  ASSUME \A d \in DOMAIN HostLabel : HostLabel[d] \in KeptNames
  PROVE  Spec => []PublishedStaysPublished
<1>1. DnsInv => PublishedStaysPublished
  <2> SUFFICES ASSUME DnsInv, NEW d \in published
               PROVE  LET have == {r.rec : r \in api.recs[d]} IN
                      /\ {MailRecords[i] : i \in 1..3} \subseteq have
                      /\ InHost(d) => HostRecord(d) \in have
    BY DEF PublishedStaysPublished
  <2>1. PublishedOK(api, d)
    BY DEF DnsInv, RunnersInv
  <2> DEFINE have == {r.rec : r \in api.recs[d]}
  <2>2. \A rec : Present(api, d, rec) => rec \in have
    BY DEF Present
  <2> HIDE DEF have
  <2>3. MailRecords[1] \in have /\ MailRecords[2] \in have /\ MailRecords[3] \in have
    BY <2>1, <2>2 DEF PublishedOK
  <2>4. InHost(d) => HostRecord(d) \in have
    <3>1. InHost(d) => Kept(HostRecord(d))
      BY RecordsDiffer DEF Kept, InHost
    <3> QED BY <2>1, <2>2, <3>1 DEF PublishedOK
  <2>5. \A i \in 1..3 : i = 1 \/ i = 2 \/ i = 3
    OBVIOUS
  <2>6. {MailRecords[i] : i \in 1..3} \subseteq have
    BY <2>3, <2>5
  <2> QED BY <2>4, <2>6 DEF have
<1> QED BY <1>1, DnsSound, PTL

\* Whatever the name of the mail host, the three mail records stay.
THEOREM MailRecordsStay ==
  Spec => [](\A d \in published : \A i \in 1..3 :
               MailRecords[i] \in {r.rec : r \in api.recs[d]})
<1>1. DnsInv => \A d \in published : \A i \in 1..3 :
                  MailRecords[i] \in {r.rec : r \in api.recs[d]}
  <2> SUFFICES ASSUME DnsInv, NEW d \in published, NEW i \in 1..3
               PROVE  \E r \in api.recs[d] : r.rec = MailRecords[i]
    BY Zenon
  <2>1. PublishedOK(api, d)
    BY DEF DnsInv, RunnersInv
  <2>2. i = 1 \/ i = 2 \/ i = 3
    OBVIOUS
  <2> QED BY <2>1, <2>2 DEF PublishedOK, Present
<1> QED BY <1>1, DnsSound, PTL

\* No step of any command, and no request that comes late, takes from a zone
\* anything but what an upsert replaces and the A records of earlier names.
THEOREM ForeignKept == Spec => ForeignRecordsKept
<1>1. ASSUME DnsInv, [Next]_vars
      PROVE  [\A d \in Domains : \A r \in api.recs[d] :
                r \in api'.recs[d] \/ Ours(r)
                  \/ (r.rec.type = "A" /\ r.rec.data = "ip" /\ r.rec.name # "@")]_vars
  <2>1. Evolves(api, api')
    BY <1>1, DnsStep
  <2> QED BY <2>1 DEF Evolves
<1> QED BY <1>1, DnsSound, PTL DEF Spec, ForeignRecordsKept

-----------------------------------------------------------------------------
\* /etc/hosts, which runs that overlap read and write.

\* A runner goes to "hosts" only with what it has just read.
LEMMA ToHosts ==
  ASSUME DnsInv, [Next]_vars
  PROVE  /\ hosts' \in {hosts, <<>>}
              \/ \E p \in Runners : at[p] = "hosts"
                   /\ \E lines \in found[p] : hosts' = UpdateEtcHosts(lines)
         /\ \A p \in Runners : at'[p] = "hosts" =>
              \/ at[p] = "hosts" /\ found'[p] = found[p]
              \/ found'[p] = {hosts}
         /\ hosts0' = hosts0
<1>0. /\ at \in [Runners -> Places] /\ found = [r \in Runners |-> found[r]]
  BY DEF DnsInv, RunnersInv
<1> DEFINE Goal == /\ hosts' \in {hosts, <<>>}
                        \/ \E p \in Runners : at[p] = "hosts"
                             /\ \E lines \in found[p] : hosts' = UpdateEtcHosts(lines)
                   /\ \A p \in Runners : at'[p] = "hosts" =>
                        \/ at[p] = "hosts" /\ found'[p] = found[p]
                        \/ found'[p] = {hosts}
                   /\ hosts0' = hosts0
<1>1. ASSUME NEW p \in Runners, NEW where, where # "hosts", NEW what, Goto(p, where, what)
      PROVE  \A r \in Runners : at'[r] = "hosts" => at[r] = "hosts" /\ found'[r] = found[r]
  BY <1>0, <1>1 DEF Goto
<1>2. ASSUME NEW p \in Runners, StepDone(p)
      PROVE  \A r \in Runners : at'[r] = "hosts" => at[r] = "hosts" /\ found'[r] = found[r]
  BY <1>0, <1>2 DEF StepDone
<1>3. ASSUME NEW p \in Runners, StepFails(p)
      PROVE  \A r \in Runners : at'[r] = "hosts" => at[r] = "hosts" /\ found'[r] = found[r]
  BY <1>0, <1>3 DEF StepFails
<1>4. CASE UNCHANGED vars
  BY <1>4 DEF vars
<1>5. CASE LateRequest
  BY <1>5 DEF LateRequest, local, progress
<1>6. ASSUME NEW p \in Runners, Start(p) PROVE Goal
  BY <1>0, <1>6 DEF Start, local
<1>7. ASSUME NEW p \in Runners, CheckDomainExists(p) PROVE Goal
  <2>1. hosts' = hosts /\ hosts0' = hosts0
    BY <1>7 DEF CheckDomainExists, local
  <2>2. (\E w \in {"list", "make"} : Goto(p, w, {})) \/ StepFails(p)
    BY <1>7 DEF CheckDomainExists
  <2> QED BY <1>1, <1>3, <2>1, <2>2
<1>8. ASSUME NEW p \in Runners, CreateDomain(p) PROVE Goal
  <2>1. hosts' = hosts /\ hosts0' = hosts0 /\ (StepDone(p) \/ StepFails(p))
    BY <1>8 DEF CreateDomain, local
  <2> QED BY <1>2, <1>3, <2>1
<1>9. ASSUME NEW p \in Runners, ListLegacy(p) PROVE Goal
  <2>1. hosts' = hosts /\ hosts0' = hosts0
    BY <1>9 DEF ListLegacy, local
  <2>2. (\E what : Goto(p, "delete", what)) \/ StepDone(p)
    BY <1>9 DEF ListLegacy
  <2> QED BY <1>1, <1>2, <2>1, <2>2
<1>10. ASSUME NEW p \in Runners, DeleteLegacy(p) PROVE Goal
  <2>1. hosts' = hosts /\ hosts0' = hosts0
    BY <1>10 DEF DeleteLegacy, local
  <2>2. \E what : Goto(p, "delete", what)
    BY <1>10 DEF DeleteLegacy
  <2> QED BY <1>1, <2>1, <2>2
<1>11. ASSUME NEW p \in Runners, CleanupDone(p) PROVE Goal
  <2>1. hosts' = hosts /\ hosts0' = hosts0 /\ StepDone(p)
    BY <1>11 DEF CleanupDone, local
  <2> QED BY <1>2, <2>1
<1>12. ASSUME NEW p \in Runners, FindDNSRecord(p) PROVE Goal
  <2>1. hosts' = hosts /\ hosts0' = hosts0
    BY <1>12 DEF FindDNSRecord, local
  <2>2. (\E what : Goto(p, "write", what)) \/ StepFails(p)
    BY <1>12 DEF FindDNSRecord
  <2> QED BY <1>1, <1>3, <2>1, <2>2
<1>13. ASSUME NEW p \in Runners, WriteDNSRecord(p) PROVE Goal
  <2>1. hosts' = hosts /\ hosts0' = hosts0 /\ (StepDone(p) \/ StepFails(p))
    BY <1>13 DEF WriteDNSRecord, local
  <2> QED BY <1>2, <1>3, <2>1
<1>14. ASSUME NEW p \in Runners, GetCurrentDroplet(p) PROVE Goal
  <2>1. hosts' = hosts /\ hosts0' = hosts0
    BY <1>14 DEF GetCurrentDroplet, local
  <2>2. Goto(p, "rename", {}) \/ StepDone(p)
    BY <1>14 DEF GetCurrentDroplet
  <2> QED BY <1>1, <1>2, <2>1, <2>2
<1>15. ASSUME NEW p \in Runners, RenameDroplet(p) PROVE Goal
  <2>1. hosts' = hosts /\ hosts0' = hosts0
    BY <1>15 DEF RenameDroplet
  <2>2. Goto(p, "hostname", {}) \/ StepDone(p)
    BY <1>15 DEF RenameDroplet
  <2> QED BY <1>1, <1>2, <2>1, <2>2
<1>16. ASSUME NEW p \in Runners, UpdateLocalHostname(p) PROVE Goal
  <2>1. hosts' = hosts /\ hosts0' = hosts0
    BY <1>16 DEF UpdateLocalHostname
  <2>2. Goto(p, "hosts", {hosts}) \/ StepDone(p) \/ StepFails(p)
    BY <1>16 DEF UpdateLocalHostname, HostnameFails
  <2>3. ASSUME Goto(p, "hosts", {hosts})
        PROVE  \A r \in Runners : \/ at'[r] = at[r] /\ found'[r] = found[r]
                                  \/ found'[r] = {hosts}
    BY <1>0, <2>3 DEF Goto
  <2> QED BY <1>2, <1>3, <2>1, <2>2, <2>3
<1>17. ASSUME NEW p \in Runners, WriteEtcHosts(p) PROVE Goal
  <2>1. hosts0' = hosts0 /\ (StepDone(p) \/ StepFails(p))
    BY <1>17 DEF WriteEtcHosts, HostnameFails
  <2>2. at[p] = "hosts"
    BY <1>17 DEF WriteEtcHosts, InHostname, Doing
  <2>3. hosts' \in {hosts, <<>>} \/ \E lines \in found[p] : hosts' = UpdateEtcHosts(lines)
    BY <1>17 DEF WriteEtcHosts
  <2> QED BY <1>2, <1>3, <2>1, <2>2, <2>3
<1> QED BY <1>4, <1>5, <1>6, <1>7, <1>8, <1>9, <1>10, <1>11, <1>12, <1>13, <1>14, <1>15,
           <1>16, <1>17 DEF Next

\* /etc/hosts and what the runners have read of it are, at any time, the lines
\* it began with, those lines with the host's name put in, or nothing.
THEOREM HostsSettle == Spec => []HostsConverge
<1>1. Init => HostsInv
  BY HostsAssumption DEF Init, HostsInv, Versions
<1>2. ASSUME DnsInv, HostsInv, [Next]_vars
      PROVE  HostsInv'
  <2>1. /\ hosts' \in {hosts, <<>>}
             \/ \E p \in Runners : at[p] = "hosts"
                  /\ \E lines \in found[p] : hosts' = UpdateEtcHosts(lines)
        /\ \A p \in Runners : at'[p] = "hosts" =>
             \/ at[p] = "hosts" /\ found'[p] = found[p]
             \/ found'[p] = {hosts}
        /\ hosts0' = hosts0
    BY <1>2, ToHosts
  <2>2. \A lines \in Versions : UpdateEtcHosts(lines) \in Versions
    BY <1>2, UpdateIdempotent DEF HostsInv, Versions
  <2>3. hosts \in Versions /\ <<>> \in Versions
        /\ \A p \in Runners : at[p] = "hosts" => found[p] \subseteq Versions
    BY <1>2 DEF HostsInv, Versions
  <2>4. Versions' = Versions
    BY <2>1 DEF Versions
  <2>5. hosts' \in Versions
    BY <2>1, <2>2, <2>3
  <2>6. \A p \in Runners : at'[p] = "hosts" => found'[p] \subseteq Versions
    BY <2>1, <2>3
  <2> QED BY <1>2, <2>1, <2>4, <2>5, <2>6 DEF HostsInv
<1>3. HostsInv => HostsConverge
  BY DEF HostsInv, HostsConverge, Versions
<1> QED BY <1>1, <1>2, <1>3, DnsSound, PTL DEF Spec

-----------------------------------------------------------------------------
\* Commands that run one after another.

OrderlyInv ==
  orderly =>
    /\ late = {}
    /\ \A p, q \in Runners : at[p] # "idle" /\ at[q] # "idle" => p = q
    /\ \A p \in Runners : at[p] = "write" /\ found[p] = {} =>
         \A r \in api.recs[Head(plan[p]).zone] : ~Same(r.rec, Head(plan[p]).rec)

OrderlyNext == OrderlyInv' /\ (orderly' => AddsOnce(api, api'))

\* A step of the one runner at work that does not end with nothing found.
LEMMA SoleStep ==
  ASSUME DnsInv, OrderlyInv, NEW p \in Runners, at[p] # "idle",
         orderly' => orderly /\ late' = late /\ AddsOnce(api, api'),
         \/ StepDone(p) \/ StepFails(p)
         \/ \E where, what : Goto(p, where, what) /\ (where = "write" => what # {})
  PROVE  OrderlyNext
<1>0. /\ at \in [Runners -> Places] /\ found = [r \in Runners |-> found[r]]
  BY DEF DnsInv, RunnersInv
<1>1. /\ \A r \in Runners \ {p} : at'[r] = at[r]
      /\ at'[p] = "write" => found'[p] # {}
  BY <1>0 DEF StepDone, StepFails, Goto
<1>2. ASSUME orderly'
      PROVE  /\ late' = {} /\ \A r \in Runners \ {p} : at'[r] = "idle"
  BY <1>1, <1>2 DEF OrderlyInv
<1>3. ASSUME orderly', NEW r \in Runners, at'[r] = "write", found'[r] = {}
      PROVE  FALSE
  BY <1>1, <1>2, <1>3
<1> QED BY <1>2, <1>3 DEF OrderlyInv, OrderlyNext

\* A call of a request that puts no record beside one of its kind.
LEMMA OrderlyCall ==
  ASSUME NEW q, NEW ok \in BOOLEAN, Call(q, ok), orderly => AddsOnce(api, Apply(api, q))
  PROVE  orderly' => orderly /\ late' = late /\ AddsOnce(api, api')
<1>1. AddsOnce(api, api)
  BY DEF AddsOnce
<1> QED BY <1>1 DEF Call

\* Every step keeps the order.
LEMMA OrderlyStep ==
  ASSUME DnsInv, OrderlyInv, [Next]_vars
  PROVE  OrderlyNext
<1>q. AddsOnce(api, api)
  BY DEF AddsOnce
<1>0. /\ at \in [Runners -> Places] /\ found = [r \in Runners |-> found[r]] /\ ApiOK(api)
  BY DEF DnsInv, RunnersInv, ServiceInv
<1>1. CASE UNCHANGED vars
  BY <1>q, <1>1 DEF vars, OrderlyInv, OrderlyNext
<1>2. CASE LateRequest
  BY <1>2 DEF LateRequest, OrderlyInv, OrderlyNext
<1>3. ASSUME NEW p \in Runners, Start(p) PROVE OrderlyNext
  <2>1. /\ at' = [at EXCEPT ![p] = "begin"] /\ late' = late /\ api' = api /\ found' = found
        /\ orderly' = (orderly /\ \A q \in Runners \ {p} : at[q] = "idle")
    BY <1>3 DEF Start
  <2>2. \A r \in Runners : at'[r] = IF r = p THEN "begin" ELSE at[r]
    BY <1>0, <2>1
  <2>3. orderly' => orderly /\ \A r \in Runners \ {p} : at[r] = "idle"
    BY <2>1, Zenon
  <2>4. ASSUME orderly', NEW r \in Runners
        PROVE  at'[r] # "write" /\ (at'[r] # "idle" => r = p)
    BY <2>2, <2>3, <2>4
  <2> QED BY <1>q, <2>1, <2>3, <2>4 DEF OrderlyInv, OrderlyNext
<1>4. ASSUME NEW p \in Runners, CheckDomainExists(p) PROVE OrderlyNext
  <2>1. at[p] # "idle" /\ api' = api /\ late' = late /\ orderly' = orderly
    BY <1>4 DEF CheckDomainExists, Read, Doing
  <2>2. (\E w \in {"list", "make"} : Goto(p, w, {})) \/ StepFails(p)
    BY <1>4 DEF CheckDomainExists
  <2> QED BY <1>q, <2>1, <2>2, SoleStep
<1>5. ASSUME NEW p \in Runners, CreateDomain(p) PROVE OrderlyNext
  <2>1. Doing(p, "zone", "make") /\ at[p] # "idle"
    BY <1>5 DEF CreateDomain, Doing
  <2>2. Head(plan[p]).zone \in Domains
    BY <2>1, InStep
  <2>3a. PICK z : z = Head(plan[p]).zone
    OBVIOUS
  <2>3. PICK ok \in BOOLEAN :
          /\ z = Head(plan[p]).zone /\ Call(Domain(z), ok)
          /\ IF ok THEN StepDone(p) ELSE StepFails(p)
    <3>1. PICK ok \in BOOLEAN :
            /\ Call([do |-> "domain", zone |-> Head(plan[p]).zone], ok)
            /\ IF ok THEN StepDone(p) ELSE StepFails(p)
      BY <1>5, Zenon DEF CreateDomain
    <3> QED BY <2>3a, <3>1, Zenon DEF Domain
  <2>4. AddsOnce(api, Apply(api, Domain(z)))
    BY <1>0, <2>2, <2>3, DomainKeeps
  <2>6. orderly' => orderly /\ late' = late /\ AddsOnce(api, api')
    BY <2>3, <2>4, OrderlyCall
  <2> QED BY <2>1, <2>3, <2>6, SoleStep
<1>6. ASSUME NEW p \in Runners, ListLegacy(p) PROVE OrderlyNext
  <2>1. at[p] # "idle" /\ api' = api /\ late' = late
    BY <1>6 DEF ListLegacy, Read, Doing
  <2>3. orderly' => orderly
    BY <1>6, Zenon DEF ListLegacy
  <2>2. (\E what : Goto(p, "delete", what)) \/ StepDone(p)
    BY <1>6 DEF ListLegacy
  <2> QED BY <1>q, <2>1, <2>2, <2>3, SoleStep
<1>7. ASSUME NEW p \in Runners, DeleteLegacy(p) PROVE OrderlyNext
  <2>1. Doing(p, "zone", "delete") /\ found[p] # {} /\ at[p] # "idle"
    BY <1>7 DEF DeleteLegacy, Doing
  <2>2. /\ RunnerOK(api, plan[p], "delete", found[p]) /\ Head(plan[p]).zone \in Domains
    BY <2>1, InStep
  <2>3. \A i \in found[p] : Deletable(api, Head(plan[p]).zone, i) /\ i \in Nat
    BY <2>2 DEF RunnerOK, Deletable
  <2>4a. PICK z, id :
           /\ z = Head(plan[p]).zone
           /\ id = (CHOOSE i \in found[p] : \A j \in found[p] : i <= j)
    OBVIOUS
  <2>4. PICK ok \in BOOLEAN :
          /\ z = Head(plan[p]).zone
          /\ id = (CHOOSE i \in found[p] : \A j \in found[p] : i <= j)
          /\ Call(Delete(z, id), ok) /\ Goto(p, "delete", found[p] \ {id})
    <3> DEFINE i0 == CHOOSE i \in found[p] : \A j \in found[p] : i <= j
    <3>1. PICK ok \in BOOLEAN :
            Call([do |-> "delete", zone |-> Head(plan[p]).zone, id |-> i0], ok)
      BY <1>7, Zenon DEF DeleteLegacy
    <3>2. Goto(p, "delete", found[p] \ {i0})
      BY <1>7, Zenon DEF DeleteLegacy
    <3> QED BY <2>4a, <3>1, <3>2, Zenon DEF Delete
  <2>5. id \in found[p]
    <3>1. \E i \in found[p] : \A j \in found[p] : i <= j
      BY <2>1, <2>3, Least
    <3> QED BY <2>4, <3>1
  <2>6. AddsOnce(api, Apply(api, Delete(z, id)))
    BY <1>0, <2>2, <2>3, <2>4, <2>5, DeleteKeeps
  <2>8. orderly' => orderly /\ late' = late /\ AddsOnce(api, api')
    BY <2>4, <2>6, OrderlyCall
  <2> QED BY <2>1, <2>4, <2>8, SoleStep
<1>8. ASSUME NEW p \in Runners, CleanupDone(p) PROVE OrderlyNext
  <2>1. at[p] # "idle" /\ api' = api /\ late' = late /\ orderly' = orderly /\ StepDone(p)
    BY <1>8 DEF CleanupDone, Doing
  <2> QED BY <1>q, <2>1, SoleStep
<1>9. ASSUME NEW p \in Runners, FindDNSRecord(p) PROVE OrderlyNext
  <2>0. orderly' => orderly
    BY <1>9, Zenon DEF FindDNSRecord
  <2>1. at[p] # "idle" /\ api' = api /\ late' = late /\ (orderly' => orderly)
    <3>1. at[p] # "idle" /\ api' = api /\ late' = late
      BY <1>9 DEF FindDNSRecord, Read, Doing
    <3> QED BY <2>0, <3>1
  <2>2. CASE StepFails(p)
    BY <1>q, <2>1, <2>2, SoleStep
  <2>3. ASSUME NEW page, NEW r \in page, Goto(p, "write", {r.id})
        PROVE  OrderlyNext
    BY <1>q, <2>1, <2>3, SoleStep
  <2>4. ASSUME NEW page \in GetDNSRecords(Head(plan[p]).zone),
               {r \in page : Same(r.rec, Head(plan[p]).rec)} = {}, Goto(p, "write", {}),
               orderly' = (orderly /\ page = api.recs[Head(plan[p]).zone])
        PROVE  OrderlyNext
    <3>1. /\ \A r \in Runners \ {p} : at'[r] = at[r] /\ at'[p] = "write"
          /\ plan' = plan
      BY <1>0, <2>4 DEF Goto
    <3>2. ASSUME orderly'
          PROVE  /\ late' = {} /\ \A r \in Runners \ {p} : at'[r] = "idle"
      BY <2>1, <3>1, <3>2 DEF OrderlyInv
    <3>3. ASSUME orderly'
          PROVE  \A r \in api'.recs[Head(plan'[p]).zone] : ~Same(r.rec, Head(plan'[p]).rec)
      BY <2>1, <2>4, <3>1, <3>3
    <3>4. ASSUME orderly', NEW u \in Runners, at'[u] = "write"
          PROVE  \A r \in api'.recs[Head(plan'[u]).zone] : ~Same(r.rec, Head(plan'[u]).rec)
      BY <3>2, <3>3, <3>4
    <3> QED BY <1>q, <2>1, <3>2, <3>4 DEF OrderlyInv, OrderlyNext
  <2> QED BY <1>9, <2>2, <2>3, <2>4 DEF FindDNSRecord
<1>10. ASSUME NEW p \in Runners, WriteDNSRecord(p) PROVE OrderlyNext
  <2>1. Doing(p, "upsert", "write") /\ at[p] = "write"
    BY <1>10 DEF WriteDNSRecord, Doing
  <2> DEFINE z == Head(plan[p]).zone
             rec == Head(plan[p]).rec
  <2>2. /\ RunnerOK(api, plan[p], "write", found[p]) /\ z \in Domains /\ rec \in OurRecords
        /\ z \in api.exists
    BY <2>1, InStep
  <2>3a. PICK q : q = WriteRequest(p)
    OBVIOUS
  <2>3. PICK ok \in BOOLEAN :
          q = WriteRequest(p) /\ Call(q, ok) /\ IF ok THEN StepDone(p) ELSE StepFails(p)
    BY <1>10, <2>3a, Zenon DEF WriteDNSRecord
  <2>5. orderly => AddsOnce(api, Apply(api, q))
    <3>1. CASE found[p] = {}
      <4>1. q = Create(z, rec)
        BY <2>3, <3>1 DEF WriteRequest, Create
      <4>2. orderly => \A r \in api.recs[z] : ~Same(r.rec, rec)
        BY <2>1, <3>1 DEF OrderlyInv
      <4> QED BY <1>0, <2>2, <4>1, <4>2, CreateKeeps
    <3>2. CASE found[p] # {}
      <4> DEFINE i == CHOOSE i \in found[p] : TRUE
      <4>1. i \in found[p]
        BY <3>2
      <4>2. q = Update(z, i, rec)
        BY <2>3, <3>2 DEF WriteRequest, Update
      <4>3. Holds(api, z, i, rec) /\ i \in Nat
        BY <2>2, <4>1 DEF RunnerOK, Holds
      <4> HIDE DEF i
      <4> QED BY <1>0, <2>2, <4>2, <4>3, UpdateKeeps
    <3> QED BY <3>1, <3>2
  <2>6. orderly' => orderly /\ late' = late /\ AddsOnce(api, api')
    BY <2>3, <2>5, OrderlyCall
  <2>8. at[p] # "idle"
    BY <2>1
  <2> QED BY <2>3, <2>6, <2>8, SoleStep
<1>11. ASSUME NEW p \in Runners, GetCurrentDroplet(p) PROVE OrderlyNext
  <2>1. at[p] # "idle" /\ api' = api /\ late' = late /\ orderly' = orderly
    BY <1>11 DEF GetCurrentDroplet, Read, Doing
  <2>2. Goto(p, "rename", {}) \/ StepDone(p)
    BY <1>11 DEF GetCurrentDroplet
  <2> QED BY <1>q, <2>1, <2>2, SoleStep
<1>12. ASSUME NEW p \in Runners, RenameDroplet(p) PROVE OrderlyNext
  <2>1. at[p] # "idle" /\ api' = api /\ late' = late /\ orderly' = orderly
    BY <1>12 DEF RenameDroplet, Read, Doing
  <2>2. Goto(p, "hostname", {}) \/ StepDone(p)
    BY <1>12 DEF RenameDroplet
  <2> QED BY <1>q, <2>1, <2>2, SoleStep
<1>13. ASSUME NEW p \in Runners, UpdateLocalHostname(p) PROVE OrderlyNext
  <2>1. at[p] # "idle" /\ api' = api /\ late' = late /\ orderly' = orderly
    BY <1>13 DEF UpdateLocalHostname, InHostname
  <2>2. Goto(p, "hosts", {hosts}) \/ StepDone(p) \/ StepFails(p)
    BY <1>13 DEF UpdateLocalHostname, HostnameFails
  <2> QED BY <1>q, <2>1, <2>2, SoleStep
<1>14. ASSUME NEW p \in Runners, WriteEtcHosts(p) PROVE OrderlyNext
  <2>1. at[p] # "idle" /\ api' = api /\ late' = late /\ orderly' = orderly
    BY <1>14 DEF WriteEtcHosts, InHostname
  <2>2. StepDone(p) \/ StepFails(p)
    BY <1>14 DEF WriteEtcHosts, HostnameFails
  <2> QED BY <1>q, <2>1, <2>2, SoleStep
<1> QED BY <1>1, <1>2, <1>3, <1>4, <1>5, <1>6, <1>7, <1>8, <1>9, <1>10, <1>11, <1>12, <1>13,
           <1>14 DEF Next

\* As long as commands run one after another, answers are complete and no
\* request comes late, no command puts a record beside one of its type and name:
\* one that failed after its record was written finds it again.
THEOREM NoDuplicateAdded == Spec => AddsNoDuplicate
<1>1. Init => OrderlyInv
  BY DEF Init, OrderlyInv
<1>2. DnsInv /\ OrderlyInv /\ [Next]_vars => OrderlyInv'
  BY OrderlyStep DEF OrderlyNext
<1>3. ASSUME DnsInv, OrderlyInv, [Next]_vars
      PROVE  [orderly' => \A d \in api.exists : \A r, t \in api'.recs[d] :
                Same(r.rec, t.rec) /\ r # t => \E u \in api.recs[d] : u.id = r.id]_vars
  BY <1>3, OrderlyStep DEF OrderlyNext, AddsOnce
<1> QED BY <1>1, <1>2, <1>3, DnsSound, PTL DEF Spec, AddsNoDuplicate
=============================================================================
