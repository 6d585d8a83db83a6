------------------------- MODULE CertificatesProofs -------------------------
(***************************************************************************)
(* Proofs about Certificates: what the commands and the timer leave on the *)
(* disk, for any lifetime, threshold and outage, and any number of days.   *)
(***************************************************************************)
EXTENDS Certificates, TLAPS

Steps == {"idle", "due", "client", "read", "issue", "cert", "key", "share",
          "reload", "configure", "timer", "selfsign", "webenv"}
CAs == {"production", "staging"}
Owners == {"root", "mailserver", "refused"}
KeyFiles == Nat \cup {CutKey}
CertFiles == [key : KeyFiles, until : Nat, ca : CAs \cup {"none"}]

\* Every variable has its type.
FilesTyped ==
  /\ dir \in {"none", "closed", "open"} /\ cert \in CertFiles /\ key \in KeyFiles
  /\ owner \in Owners /\ self \in Owners \cup {"none"} /\ known \in SUBSET CAs
  /\ web \in {"none", "acme", "self"}
ClockTyped ==
  /\ day \in Nat /\ keys \in Nat
  /\ timer \in BOOLEAN /\ ran \in BOOLEAN /\ torn \in BOOLEAN
JobsTyped ==
  /\ outage \in Nat
  /\ cmd \in [Actors -> {"none", "setup", "staging", "renew", "install"}]
  /\ at \in [Actors -> Steps]
  /\ got \in [Actors -> CertFiles]
  /\ alone \in [Actors -> BOOLEAN]
Typed == FilesTyped /\ ClockTyped /\ JobsTyped

\* A certificate file that was written today, whole.
Fresh == cert.key # CutKey /\ cert.key # 0 /\ cert.until = day + Lifetime

\* The files hold nothing, a truncation, or something of use.
FileInv ==
  /\ cert.key = 0 => cert = NoCert
  /\ cert.key = CutKey => cert = CutCert

Writing == {"cert", "key"}
Written == {"share", "reload", "configure", "timer"}

\* What is known of an actor's command at each of its steps.  A certificate
\* that it is about to write was issued today, for a key; once it has written
\* one, the file is from today, if it is whole, whoever else has written it.
JobInv(a) ==
  /\ at[a] = "idle" <=> cmd[a] = "none"
  /\ at[a] \in {"due", "read", "reload"} => cmd[a] = "renew"
  /\ at[a] = "timer" => cmd[a] \in Setups
  /\ at[a] \in {"selfsign", "share"} => cmd[a] = "install"
  /\ at[a] \in {"configure", "timer"} => cmd[a] # "renew"
  /\ at[a] = "webenv" => cmd[a] = "install" /\ (cert # NoCert \/ self # "none")
  /\ at[a] = "issue" /\ cmd[a] = "renew" => got[a].key \notin {0, CutKey}
  /\ at[a] \in {"read", "issue"} => CA(a) \in known
  /\ at[a] \in Writing \cup Written =>
       /\ got[a].key \notin {0, CutKey} /\ got[a].until = day + Lifetime
       /\ got[a].ca \in known
  /\ at[a] = "key" \/ at[a] \in Written => cert = CutCert \/ Fresh
  /\ at[a] \in Written => key # 0

\* An actor that runs alone runs alone: its own writes are what is there.
AloneInv(a) ==
  alone[a] =>
    /\ \A o \in Actors \ {a} : at[o] = "idle"
    /\ at[a] = "key" => cert = got[a]
    /\ at[a] \in Written => PairMatches

\* The CA that has issued the certificate knows the account.  The timer was set
\* up by a command that had written both files, and runs nothing but `ssl renew`.
TimerInv ==
  /\ cert.ca # "none" => cert.ca \in known
  /\ timer => cert # NoCert /\ key # 0
  /\ at["timer"] # "idle" => timer /\ ran /\ cmd["timer"] = "renew"

\* The days left.  Today's run of the timer may be still to come or to end;
\* every day on which it failed has cost one, and only MaxOutage of them in a
\* row can, because it fails without a fault only while a file is truncated or
\* the production CA does not know the account.
Failed == IF outage < MaxOutage THEN outage ELSE MaxOutage
Pending == IF ran /\ at["timer"] = "idle" THEN 0 ELSE 1
DaysInv ==
  timer /\ cert # CutCert /\ key # CutKey /\ cert.ca = "production" =>
    cert.until - day >= Threshold - Failed - Pending

\* As long as nothing was torn, one command runs at a time and the files are a
\* pair, or the first half of one that its command is about to complete.
Whole == (cert = NoCert /\ key = 0) \/ PairMatches
WholeInv ==
  ~torn =>
    /\ \A a, b \in Actors : at[a] = "idle" \/ at[b] = "idle" \/ a = b
    /\ \A a \in Actors : at[a] = "key" => cert = got[a]
    /\ (\A a \in Actors : at[a] # "key") => Whole
WebInv ==
  /\ web = "acme" => cert # NoCert
  /\ web = "self" => self # "none"

JobsInv == \A a \in Actors : JobInv(a)
AlonesInv == \A a \in Actors : AloneInv(a)

CertificatesInv ==
  /\ Typed /\ FileInv /\ JobsInv /\ AlonesInv
  /\ TimerInv /\ DaysInv /\ WholeInv /\ WebInv

-----------------------------------------------------------------------------
\* The model's special certificates have their types.
LEMMA CertTypes ==
  /\ NoCert \in CertFiles /\ CutCert \in CertFiles
  /\ NoCert.key = 0 /\ NoCert.until = 0 /\ CutCert.key = CutKey
  /\ NoCert.ca = "none" /\ CutCert.ca = "none"
  /\ CutKey \in KeyFiles /\ CutKey # 0 /\ CutKey < 0
  /\ NoCert # CutCert
BY DEF NoCert, CutCert, CutKey, CertFiles, KeyFiles

\* The three ways in which a step moves its actor.
LEMMA GotoTypes ==
  ASSUME JobsTyped, NEW a \in Actors, NEW step \in Steps, Goto(a, step), UNCHANGED outage
  PROVE  JobsTyped'
BY DEF JobsTyped, Goto

\* A job that ends keeps the types.
LEMMA FinishTypes ==
  ASSUME JobsTyped, NEW a \in Actors, NEW ok \in BOOLEAN, Finish(a, ok)
  PROVE  JobsTyped'
BY CertTypes DEF JobsTyped, Finish, Steps

\* So does one that fails to obtain a certificate.
LEMMA ObtainFailsTypes ==
  ASSUME JobsTyped, NEW a \in Actors, NEW fault \in BOOLEAN, ObtainFails(a, fault)
  PROVE  JobsTyped'
BY GotoTypes, FinishTypes DEF ObtainFails, Steps

\* Every step keeps the types.
LEMMA TypedStep ==
  ASSUME Typed, [Next]_vars
  PROVE  Typed'
<1> USE DEF Typed
<1>1. CASE NextDay
  <2>1. JobsTyped' /\ FilesTyped'
    BY <1>1 DEF NextDay, JobsTyped, FilesTyped, jobs, files
  <2>2. /\ day' = day + 1 /\ ran' = FALSE /\ timer' = timer /\ torn' = torn
        /\ keys' = keys
    BY <1>1 DEF NextDay
  <2>3. day' \in Nat
    BY <2>2 DEF ClockTyped
  <2>4. ClockTyped'
    BY <2>2, <2>3, Zenon DEF ClockTyped
  <2> QED
    BY <2>1, <2>4
<1>2. CASE ForceRenewal
  <2>1. JobsTyped'
    BY <1>2, GotoTypes DEF ForceRenewal, Actors, Steps, clock
  <2>2. ClockTyped' /\ FilesTyped'
    BY <1>2 DEF ForceRenewal, ClockTyped, FilesTyped, clock, files
  <2> QED
    BY <2>1, <2>2
<1>3. ASSUME NEW a \in Actors,
             NEW c \in {"setup", "staging", "renew", "install"}, Start(a, c)
      PROVE  Typed'
  <2>1. JobsTyped'
    BY <1>3 DEF Start, JobsTyped, Steps, Actors
  <2>2. ClockTyped' /\ FilesTyped'
    BY <1>3 DEF Start, ClockTyped, FilesTyped, files
  <2> QED
    BY <2>1, <2>2
<1>4. ASSUME NEW a \in Actors, CheckRenewal(a) PROVE Typed'
  <2>1. JobsTyped'
    BY <1>4, GotoTypes, FinishTypes, ObtainFailsTypes DEF CheckRenewal, Steps
  <2>2. ClockTyped' /\ FilesTyped'
    BY <1>4, CertTypes DEF CheckRenewal, ClockTyped, FilesTyped, JobsTyped,
       CertFiles, files
  <2> QED
    BY <2>1, <2>2
<1>5. ASSUME NEW a \in Actors, SetupClient(a) PROVE Typed'
  <2>1. JobsTyped'
    BY <1>5, GotoTypes, FinishTypes, ObtainFailsTypes DEF SetupClient, AccountKnown, Steps
  <2>2. ClockTyped' /\ FilesTyped'
    BY <1>5, CertTypes DEF SetupClient, AccountKnown, ClockTyped, FilesTyped, JobsTyped,
       CertFiles, files, CA, CAs, MakeDir
  <2> QED
    BY <2>1, <2>2
<1>6. ASSUME NEW a \in Actors, ReadPair(a) PROVE Typed'
  <2>1. CASE got' = [got EXCEPT ![a].key = key]
    <3>1. got[a] \in CertFiles /\ [got[a] EXCEPT !.key = key] \in CertFiles
      BY DEF JobsTyped, FilesTyped, CertFiles
    <3>2. got' = [got EXCEPT ![a] = [got[a] EXCEPT !.key = key]]
      BY <2>1
    <3>3. got' \in [Actors -> CertFiles]
      BY <3>1, <3>2 DEF JobsTyped
    <3>4. ~Finish(a, FALSE) => JobsTyped'
      BY <1>6, <3>3 DEF ReadPair, JobsTyped, Steps
    <3> QED
      BY <1>6, <3>4, FinishTypes DEF ReadPair, ClockTyped, FilesTyped, files
  <2>2. CASE Finish(a, FALSE)
    BY <1>6, <2>2, FinishTypes DEF ReadPair, ClockTyped, FilesTyped, files
  <2> QED
    BY <1>6, <2>1, <2>2 DEF ReadPair
<1>7. ASSUME NEW a \in Actors, Issue(a) PROVE Typed'
  <2>a. FilesTyped'
    BY <1>7 DEF Issue, FilesTyped, files
  <2>b. keys' \in Nat
    <3>1. keys' = keys \/ keys' = keys + 1
      BY <1>7, Zenon DEF Issue
    <3> QED
      BY <3>1 DEF ClockTyped
  <2>c. UNCHANGED <<day, timer, ran, torn>>
    BY <1>7 DEF Issue
  <2>1. ClockTyped' /\ FilesTyped'
    BY <2>a, <2>b, <2>c, Zenon DEF ClockTyped
  <2>2. CASE ObtainFails(a, TRUE)
    BY <2>1, <2>2, ObtainFailsTypes
  <2>3. CASE ~ObtainFails(a, TRUE)
    <3> DEFINE k == IF cmd[a] = "renew" THEN got[a].key ELSE keys'
               new == [key |-> k, until |-> day + Lifetime, ca |-> CA(a)]
    <3>1. k \in KeyFiles /\ day + Lifetime \in Nat
      BY <2>1, BoundAssumption DEF ClockTyped, JobsTyped, CertFiles, KeyFiles
    <3>2. new \in CertFiles
      BY <3>1 DEF CertFiles, CA, CAs
    <3>3. got' = [got EXCEPT ![a] = new]
      BY <1>7, <2>3 DEF Issue
    <3>4. got' \in [Actors -> CertFiles]
      BY <3>2, <3>3 DEF JobsTyped
    <3> QED
      BY <1>7, <2>1, <2>3, <3>4 DEF Issue, JobsTyped, Steps
  <2> QED
    BY <2>2, <2>3
<1>8. ASSUME NEW a \in Actors, WriteCert(a) PROVE Typed'
  <2>1. JobsTyped'
    BY <1>8, GotoTypes, FinishTypes, ObtainFailsTypes DEF WriteCert, Steps
  <2>a. FilesTyped'
    BY <1>8, CertTypes DEF WriteCert, FilesTyped, JobsTyped, files
  <2>b. UNCHANGED <<day, keys, timer, ran>>
    BY <1>8 DEF WriteCert
  <2>c. torn' \in BOOLEAN
    BY <1>8, Zenon DEF WriteCert, ClockTyped
  <2>2. ClockTyped' /\ FilesTyped'
    BY <2>a, <2>b, <2>c, Zenon DEF ClockTyped
  <2> QED
    BY <2>1, <2>2
<1>9. ASSUME NEW a \in Actors, WriteKey(a) PROVE Typed'
  <2>1. JobsTyped'
    BY <1>9, GotoTypes, FinishTypes, ObtainFailsTypes DEF WriteKey, Steps
  <2>a. FilesTyped'
    <3>1. key' \in {got[a].key, key, CutKey}
      BY <1>9 DEF WriteKey, KeyToWrite
    <3>2. got[a].key \in KeyFiles
      BY DEF JobsTyped, CertFiles
    <3>3. UNCHANGED <<dir, cert, owner, self, known, web>>
      BY <1>9 DEF WriteKey
    <3> QED
      BY <3>1, <3>2, <3>3, CertTypes DEF FilesTyped
  <2>b. UNCHANGED <<day, keys, timer, ran>>
    BY <1>9 DEF WriteKey
  <2>c. torn' \in BOOLEAN
    BY <1>9, Zenon DEF WriteKey, ClockTyped
  <2>2. ClockTyped' /\ FilesTyped'
    BY <2>a, <2>b, <2>c, Zenon DEF ClockTyped
  <2> QED
    BY <2>1, <2>2
<1>10. ASSUME NEW a \in Actors, ReloadPostfix(a) PROVE Typed'
  <2>1. JobsTyped'
    BY <1>10, GotoTypes, FinishTypes, ObtainFailsTypes DEF ReloadPostfix, Steps
  <2>2. ClockTyped' /\ FilesTyped'
    BY <1>10, CertTypes DEF ReloadPostfix, ClockTyped, FilesTyped, JobsTyped,
       CertFiles, files
  <2> QED
    BY <2>1, <2>2
<1>11. ASSUME NEW a \in Actors, ConfigurePostfix(a) PROVE Typed'
  <2>1. JobsTyped'
    BY <1>11, GotoTypes, FinishTypes, ObtainFailsTypes DEF ConfigurePostfix,
       Steps
  <2>2. ClockTyped' /\ FilesTyped'
    BY <1>11, CertTypes DEF ConfigurePostfix, ClockTyped, FilesTyped,
       JobsTyped, CertFiles, files
  <2> QED
    BY <2>1, <2>2
<1>12. ASSUME NEW a \in Actors, SetupAutoRenewal(a) PROVE Typed'
  <2>1. JobsTyped'
    BY <1>12, GotoTypes, FinishTypes, ObtainFailsTypes DEF SetupAutoRenewal,
       Steps
  <2>2. ClockTyped' /\ FilesTyped'
    BY <1>12, CertTypes DEF SetupAutoRenewal, ClockTyped, FilesTyped,
       JobsTyped, CertFiles, files
  <2> QED
    BY <2>1, <2>2
<1>13. ASSUME NEW a \in Actors, SelfSign(a) PROVE Typed'
  <2>1. JobsTyped'
    BY <1>13, GotoTypes, FinishTypes, ObtainFailsTypes DEF SelfSign, Steps
  <2>2. ClockTyped' /\ FilesTyped'
    BY <1>13, CertTypes DEF SelfSign, ClockTyped, FilesTyped, Owners, files
  <2> QED
    BY <2>1, <2>2
<1>14. ASSUME NEW a \in Actors, WriteWebEnv(a) PROVE Typed'
  <2>1. JobsTyped'
    BY <1>14, GotoTypes, FinishTypes, ObtainFailsTypes DEF WriteWebEnv, Steps
  <2>2. ClockTyped' /\ FilesTyped'
    BY <1>14, CertTypes DEF WriteWebEnv, ClockTyped, FilesTyped, JobsTyped,
       CertFiles, files, WebPair
  <2> QED
    BY <2>1, <2>2
<1>15. ASSUME NEW a \in Actors, Kill(a) PROVE Typed'
  <2>1. JobsTyped'
    BY <1>15, GotoTypes, FinishTypes, ObtainFailsTypes DEF Kill, Steps
  <2>a. FilesTyped'
    BY <1>15, CertTypes DEF Kill, FilesTyped, Owners, files
  <2>b. UNCHANGED <<day, keys, timer, ran>>
    BY <1>15 DEF Kill
  <2>c. torn' \in BOOLEAN
    BY <1>15, Zenon DEF Kill, ClockTyped
  <2>2. ClockTyped' /\ FilesTyped'
    BY <2>a, <2>b, <2>c, Zenon DEF ClockTyped
  <2> QED
    BY <2>1, <2>2
<1>16. ASSUME NEW a \in Actors, ShareKey(a) PROVE Typed'
  <2>1. JobsTyped'
    BY <1>16, GotoTypes DEF ShareKey, Steps, clock
  <2>2. ClockTyped' /\ FilesTyped'
    BY <1>16 DEF ShareKey, ClockTyped, FilesTyped, clock, Owners
  <2> QED
    BY <2>1, <2>2
<1>17. CASE UNCHANGED vars
  BY <1>17 DEF vars, JobsTyped, ClockTyped, FilesTyped
<1> QED
  BY <1>1, <1>2, <1>3, <1>4, <1>5, <1>6, <1>7, <1>8, <1>9, <1>10, <1>11,
     <1>12, <1>13, <1>14, <1>15, <1>16, <1>17 DEF Next

\* Every step leaves the certificate file empty, cut or whole.
LEMMA FileStep ==
  ASSUME Typed, FileInv, JobsInv, [Next]_vars
  PROVE  FileInv'
<1> USE CertTypes DEF FileInv, JobsInv, files
<1>1. CASE NextDay
  BY <1>1 DEF NextDay
<1>2. CASE ForceRenewal
  BY <1>2 DEF ForceRenewal
<1>3. ASSUME NEW a \in Actors,
             NEW c \in {"setup", "staging", "renew", "install"}, Start(a, c)
      PROVE  FileInv'
  BY <1>3 DEF Start
<1>4. ASSUME NEW a \in Actors, CheckRenewal(a) PROVE FileInv'
  BY <1>4 DEF CheckRenewal
<1>5. ASSUME NEW a \in Actors, SetupClient(a) PROVE FileInv'
  BY <1>5 DEF SetupClient, AccountKnown
<1>6. ASSUME NEW a \in Actors, ReadPair(a) PROVE FileInv'
  BY <1>6 DEF ReadPair
<1>7. ASSUME NEW a \in Actors, Issue(a) PROVE FileInv'
  BY <1>7 DEF Issue
<1>8. ASSUME NEW a \in Actors, WriteCert(a) PROVE FileInv'
  <2>1. got[a].key \notin {0, CutKey}
    BY <1>8 DEF WriteCert, JobInv, Writing
  <2> QED
    BY <1>8, <2>1 DEF WriteCert
<1>9. ASSUME NEW a \in Actors, WriteKey(a) PROVE FileInv'
  BY <1>9 DEF WriteKey
<1>10. ASSUME NEW a \in Actors, ReloadPostfix(a) PROVE FileInv'
  BY <1>10 DEF ReloadPostfix
<1>11. ASSUME NEW a \in Actors, ConfigurePostfix(a) PROVE FileInv'
  BY <1>11 DEF ConfigurePostfix
<1>12. ASSUME NEW a \in Actors, SetupAutoRenewal(a) PROVE FileInv'
  BY <1>12 DEF SetupAutoRenewal
<1>13. ASSUME NEW a \in Actors, SelfSign(a) PROVE FileInv'
  BY <1>13 DEF SelfSign
<1>14. ASSUME NEW a \in Actors, WriteWebEnv(a) PROVE FileInv'
  BY <1>14 DEF WriteWebEnv
<1>15. ASSUME NEW a \in Actors, Kill(a) PROVE FileInv'
  BY <1>15 DEF Kill
<1>16. ASSUME NEW a \in Actors, ShareKey(a) PROVE FileInv'
  BY <1>16 DEF ShareKey
<1>17. CASE UNCHANGED vars
  BY <1>17 DEF vars
<1> QED
  BY <1>1, <1>2, <1>3, <1>4, <1>5, <1>6, <1>7, <1>8, <1>9, <1>10, <1>11,
     <1>12, <1>13, <1>14, <1>15, <1>16, <1>17 DEF Next

\* Every step keeps what is known of both commands.
LEMMA JobStep ==
  ASSUME Typed, FileInv, TimerInv, JobsInv, [Next]_vars
  PROVE  JobsInv'
<1> USE CertTypes, BoundAssumption DEF JobsInv, JobInv, Fresh, Writing, Written,
      Setups, Typed, JobsTyped, FilesTyped, ClockTyped, CA, KeyToWrite,
      MayAgree, Goto, Finish, ObtainFails, files, clock, jobs
<1>1. CASE NextDay
  BY <1>1 DEF NextDay
<1>2. CASE ForceRenewal
  BY <1>2 DEF ForceRenewal
<1>3. ASSUME NEW a \in Actors,
             NEW c \in {"setup", "staging", "renew", "install"}, Start(a, c)
      PROVE  JobsInv'
  BY <1>3 DEF Start
<1>4. ASSUME NEW a \in Actors, CheckRenewal(a) PROVE JobsInv'
  BY <1>4 DEF CheckRenewal
<1>5. ASSUME NEW a \in Actors, SetupClient(a) PROVE JobsInv'
  BY <1>5 DEF SetupClient, AccountKnown
<1>6. ASSUME NEW a \in Actors, ReadPair(a) PROVE JobsInv'
  <2>1. CASE Finish(a, FALSE)
    BY <1>6, <2>1 DEF ReadPair
  <2>2. CASE got' = [got EXCEPT ![a].key = key] /\ key \notin {0, CutKey}
    <3>1. got'[a].key = key /\ \A b \in Actors : b # a => got'[b] = got[b]
      BY <2>2 DEF CertFiles
    <3>2. CASE ~Finish(a, FALSE)
      <4>1. at' = [at EXCEPT ![a] = "issue"] /\ cmd' = cmd
        BY <1>6, <3>2 DEF ReadPair
      <4>2. UNCHANGED <<day, cert, key, self, known, timer>>
        BY <1>6 DEF ReadPair
      <4>3. CA(a) \in known /\ cmd[a] = "renew"
        BY <1>6 DEF ReadPair
      <4> QED
        BY <2>2, <3>1, <4>1, <4>2, <4>3
    <3> QED
      BY <2>1, <3>2
  <2> QED
    BY <1>6, <2>1, <2>2 DEF ReadPair
<1>7. ASSUME NEW a \in Actors, Issue(a) PROVE JobsInv'
  BY <1>7 DEF Issue
<1>8. ASSUME NEW a \in Actors, WriteCert(a) PROVE JobsInv'
  BY <1>8 DEF WriteCert
<1>9. ASSUME NEW a \in Actors, WriteKey(a) PROVE JobsInv'
  BY <1>9 DEF WriteKey
<1>10. ASSUME NEW a \in Actors, ReloadPostfix(a) PROVE JobsInv'
  BY <1>10 DEF ReloadPostfix
<1>11. ASSUME NEW a \in Actors, ConfigurePostfix(a) PROVE JobsInv'
  BY <1>11 DEF ConfigurePostfix
<1>12. ASSUME NEW a \in Actors, SetupAutoRenewal(a) PROVE JobsInv'
  BY <1>12 DEF SetupAutoRenewal
<1>13. ASSUME NEW a \in Actors, SelfSign(a) PROVE JobsInv'
  BY <1>13 DEF SelfSign
<1>14. ASSUME NEW a \in Actors, WriteWebEnv(a) PROVE JobsInv'
  BY <1>14 DEF WriteWebEnv
<1>15. ASSUME NEW a \in Actors, Kill(a) PROVE JobsInv'
  BY <1>15 DEF Kill
<1>16. ASSUME NEW a \in Actors, ShareKey(a) PROVE JobsInv'
  BY <1>16 DEF ShareKey
<1>17. CASE UNCHANGED vars
  BY <1>17 DEF vars
<1> QED
  BY <1>1, <1>2, <1>3, <1>4, <1>5, <1>6, <1>7, <1>8, <1>9, <1>10, <1>11,
     <1>12, <1>13, <1>14, <1>15, <1>16, <1>17 DEF Next

\* Every step keeps what an actor that runs alone may rely on.
LEMMA AloneStep ==
  ASSUME Typed, JobsInv, AlonesInv, [Next]_vars
  PROVE  AlonesInv'
<1> USE CertTypes DEF AlonesInv, AloneInv, Writing, Written, Setups,
      PairMatches, JobsInv, JobInv, Typed, JobsTyped, Actors, KeyToWrite, Goto,
      Finish, ObtainFails, files, clock, jobs
<1>1. CASE NextDay
  BY <1>1 DEF NextDay
<1>2. CASE ForceRenewal
  BY <1>2 DEF ForceRenewal
<1>3. ASSUME NEW a \in Actors,
             NEW c \in {"setup", "staging", "renew", "install"}, Start(a, c)
      PROVE  AlonesInv'
  BY <1>3 DEF Start
<1>4. ASSUME NEW a \in Actors, CheckRenewal(a) PROVE AlonesInv'
  BY <1>4 DEF CheckRenewal
<1>5. ASSUME NEW a \in Actors, SetupClient(a) PROVE AlonesInv'
  BY <1>5 DEF SetupClient, AccountKnown
<1>6. ASSUME NEW a \in Actors, ReadPair(a) PROVE AlonesInv'
  BY <1>6 DEF ReadPair
<1>7. ASSUME NEW a \in Actors, Issue(a) PROVE AlonesInv'
  BY <1>7 DEF Issue
<1>8. ASSUME NEW a \in Actors, WriteCert(a) PROVE AlonesInv'
  BY <1>8 DEF WriteCert
<1>9. ASSUME NEW a \in Actors, WriteKey(a) PROVE AlonesInv'
  BY <1>9 DEF WriteKey
<1>10. ASSUME NEW a \in Actors, ReloadPostfix(a) PROVE AlonesInv'
  BY <1>10 DEF ReloadPostfix
<1>11. ASSUME NEW a \in Actors, ConfigurePostfix(a) PROVE AlonesInv'
  BY <1>11 DEF ConfigurePostfix
<1>12. ASSUME NEW a \in Actors, SetupAutoRenewal(a) PROVE AlonesInv'
  BY <1>12 DEF SetupAutoRenewal
<1>13. ASSUME NEW a \in Actors, SelfSign(a) PROVE AlonesInv'
  BY <1>13 DEF SelfSign
<1>14. ASSUME NEW a \in Actors, WriteWebEnv(a) PROVE AlonesInv'
  BY <1>14 DEF WriteWebEnv
<1>15. ASSUME NEW a \in Actors, Kill(a) PROVE AlonesInv'
  BY <1>15 DEF Kill
<1>16. ASSUME NEW a \in Actors, ShareKey(a) PROVE AlonesInv'
  BY <1>16 DEF ShareKey
<1>17. CASE UNCHANGED vars
  BY <1>17 DEF vars
<1> QED
  BY <1>1, <1>2, <1>3, <1>4, <1>5, <1>6, <1>7, <1>8, <1>9, <1>10, <1>11,
     <1>12, <1>13, <1>14, <1>15, <1>16, <1>17 DEF Next

\* Every step keeps what the timer may rely on.
LEMMA TimerStep ==
  ASSUME Typed, FileInv, JobsInv, TimerInv, [Next]_vars
  PROVE  TimerInv'
<1> USE CertTypes DEF TimerInv, JobsInv, JobInv, Writing, Written, Setups,
      Typed, JobsTyped, FilesTyped, ClockTyped, Actors, KeyToWrite, CA, Goto,
      Finish, ObtainFails, files, clock, jobs
<1>1. CASE NextDay
  BY <1>1 DEF NextDay
<1>2. CASE ForceRenewal
  BY <1>2 DEF ForceRenewal
<1>3. ASSUME NEW a \in Actors,
             NEW c \in {"setup", "staging", "renew", "install"}, Start(a, c)
      PROVE  TimerInv'
  BY <1>3 DEF Start
<1>4. ASSUME NEW a \in Actors, CheckRenewal(a) PROVE TimerInv'
  BY <1>4 DEF CheckRenewal
<1>5. ASSUME NEW a \in Actors, SetupClient(a) PROVE TimerInv'
  BY <1>5 DEF SetupClient, AccountKnown
<1>6. ASSUME NEW a \in Actors, ReadPair(a) PROVE TimerInv'
  BY <1>6 DEF ReadPair
<1>7. ASSUME NEW a \in Actors, Issue(a) PROVE TimerInv'
  BY <1>7 DEF Issue
<1>8. ASSUME NEW a \in Actors, WriteCert(a) PROVE TimerInv'
  BY <1>8 DEF WriteCert
<1>9. ASSUME NEW a \in Actors, WriteKey(a) PROVE TimerInv'
  BY <1>9 DEF WriteKey
<1>10. ASSUME NEW a \in Actors, ReloadPostfix(a) PROVE TimerInv'
  BY <1>10 DEF ReloadPostfix
<1>11. ASSUME NEW a \in Actors, ConfigurePostfix(a) PROVE TimerInv'
  BY <1>11 DEF ConfigurePostfix
<1>12. ASSUME NEW a \in Actors, SetupAutoRenewal(a) PROVE TimerInv'
  <2>1. cert # NoCert /\ key # 0
    BY <1>12 DEF SetupAutoRenewal, Fresh
  <2>2. UNCHANGED <<known, cert, key, ran>> /\ timer' \in {timer, TRUE}
    BY <1>12 DEF SetupAutoRenewal
  <2>3. a = "admin"
    BY <1>12 DEF SetupAutoRenewal
  <2>4. UNCHANGED <<at["timer"], cmd["timer"]>>
    BY <1>12, <2>3 DEF SetupAutoRenewal
  <2>5. timer => timer'
    BY <2>2
  <2> QED
    BY <2>1, <2>2, <2>4, <2>5
<1>13. ASSUME NEW a \in Actors, SelfSign(a) PROVE TimerInv'
  BY <1>13 DEF SelfSign
<1>14. ASSUME NEW a \in Actors, WriteWebEnv(a) PROVE TimerInv'
  BY <1>14 DEF WriteWebEnv
<1>15. ASSUME NEW a \in Actors, Kill(a) PROVE TimerInv'
  BY <1>15 DEF Kill
<1>16. ASSUME NEW a \in Actors, ShareKey(a) PROVE TimerInv'
  BY <1>16 DEF ShareKey
<1>17. CASE UNCHANGED vars
  BY <1>17 DEF vars
<1> QED
  BY <1>1, <1>2, <1>3, <1>4, <1>5, <1>6, <1>7, <1>8, <1>9, <1>10, <1>11,
     <1>12, <1>13, <1>14, <1>15, <1>16, <1>17 DEF Next

\* Every step keeps what webadmin is configured with.
LEMMA WebStep ==
  ASSUME Typed, JobsInv, WebInv, [Next]_vars
  PROVE  WebInv'
<1> USE CertTypes DEF WebInv, JobsInv, JobInv, WebPair, Goto, Finish,
      ObtainFails, files, clock, jobs
<1>1. CASE NextDay
  BY <1>1 DEF NextDay
<1>2. CASE ForceRenewal
  BY <1>2 DEF ForceRenewal
<1>3. ASSUME NEW a \in Actors,
             NEW c \in {"setup", "staging", "renew", "install"}, Start(a, c)
      PROVE  WebInv'
  BY <1>3 DEF Start
<1>4. ASSUME NEW a \in Actors, CheckRenewal(a) PROVE WebInv'
  BY <1>4 DEF CheckRenewal
<1>5. ASSUME NEW a \in Actors, SetupClient(a) PROVE WebInv'
  BY <1>5 DEF SetupClient, AccountKnown
<1>6. ASSUME NEW a \in Actors, ReadPair(a) PROVE WebInv'
  BY <1>6 DEF ReadPair
<1>7. ASSUME NEW a \in Actors, Issue(a) PROVE WebInv'
  BY <1>7 DEF Issue
<1>8. ASSUME NEW a \in Actors, WriteCert(a) PROVE WebInv'
  BY <1>8 DEF WriteCert, Writing
<1>9. ASSUME NEW a \in Actors, WriteKey(a) PROVE WebInv'
  BY <1>9 DEF WriteKey
<1>10. ASSUME NEW a \in Actors, ReloadPostfix(a) PROVE WebInv'
  BY <1>10 DEF ReloadPostfix
<1>11. ASSUME NEW a \in Actors, ConfigurePostfix(a) PROVE WebInv'
  BY <1>11 DEF ConfigurePostfix
<1>12. ASSUME NEW a \in Actors, SetupAutoRenewal(a) PROVE WebInv'
  BY <1>12 DEF SetupAutoRenewal
<1>13. ASSUME NEW a \in Actors, SelfSign(a) PROVE WebInv'
  BY <1>13 DEF SelfSign
<1>14. ASSUME NEW a \in Actors, WriteWebEnv(a) PROVE WebInv'
  BY <1>14 DEF WriteWebEnv
<1>15. ASSUME NEW a \in Actors, Kill(a) PROVE WebInv'
  BY <1>15 DEF Kill
<1>16. ASSUME NEW a \in Actors, ShareKey(a) PROVE WebInv'
  BY <1>16 DEF ShareKey
<1>17. CASE UNCHANGED vars
  BY <1>17 DEF vars
<1> QED
  BY <1>1, <1>2, <1>3, <1>4, <1>5, <1>6, <1>7, <1>8, <1>9, <1>10, <1>11,
     <1>12, <1>13, <1>14, <1>15, <1>16, <1>17 DEF Next

\* Every step but one that tears the pair keeps it whole.
LEMMA WholeStep ==
  ASSUME Typed, JobsInv, WholeInv, [Next]_vars
  PROVE  WholeInv'
<1> USE CertTypes DEF WholeInv, Whole, PairMatches, JobsInv, JobInv, Writing,
      Written, Setups, Typed, JobsTyped, FilesTyped, ClockTyped, KeyToWrite,
      Actors, Goto, Finish, ObtainFails, files, clock, jobs
<1>1. CASE NextDay
  BY <1>1 DEF NextDay
<1>2. CASE ForceRenewal
  BY <1>2 DEF ForceRenewal
<1>3. ASSUME NEW a \in Actors,
             NEW c \in {"setup", "staging", "renew", "install"}, Start(a, c)
      PROVE  WholeInv'
  BY <1>3 DEF Start
<1>4. ASSUME NEW a \in Actors, CheckRenewal(a) PROVE WholeInv'
  BY <1>4 DEF CheckRenewal
<1>5. ASSUME NEW a \in Actors, SetupClient(a) PROVE WholeInv'
  BY <1>5 DEF SetupClient, AccountKnown
<1>6. ASSUME NEW a \in Actors, ReadPair(a) PROVE WholeInv'
  BY <1>6 DEF ReadPair
<1>7. ASSUME NEW a \in Actors, Issue(a) PROVE WholeInv'
  BY <1>7 DEF Issue
<1>8. ASSUME NEW a \in Actors, WriteCert(a) PROVE WholeInv'
  BY <1>8 DEF WriteCert
<1>9. ASSUME NEW a \in Actors, WriteKey(a) PROVE WholeInv'
  BY <1>9 DEF WriteKey
<1>10. ASSUME NEW a \in Actors, ReloadPostfix(a) PROVE WholeInv'
  BY <1>10 DEF ReloadPostfix
<1>11. ASSUME NEW a \in Actors, ConfigurePostfix(a) PROVE WholeInv'
  BY <1>11 DEF ConfigurePostfix
<1>12. ASSUME NEW a \in Actors, SetupAutoRenewal(a) PROVE WholeInv'
  BY <1>12 DEF SetupAutoRenewal
<1>13. ASSUME NEW a \in Actors, SelfSign(a) PROVE WholeInv'
  BY <1>13 DEF SelfSign
<1>14. ASSUME NEW a \in Actors, WriteWebEnv(a) PROVE WholeInv'
  BY <1>14 DEF WriteWebEnv
<1>15. ASSUME NEW a \in Actors, Kill(a) PROVE WholeInv'
  BY <1>15 DEF Kill
<1>16. ASSUME NEW a \in Actors, ShareKey(a) PROVE WholeInv'
  BY <1>16 DEF ShareKey
<1>17. CASE UNCHANGED vars
  BY <1>17 DEF vars
<1> QED
  BY <1>1, <1>2, <1>3, <1>4, <1>5, <1>6, <1>7, <1>8, <1>9, <1>10, <1>11,
     <1>12, <1>13, <1>14, <1>15, <1>16, <1>17 DEF Next

\* Every step keeps the days left.
LEMMA DaysStep ==
  ASSUME Typed, FileInv, JobsInv, TimerInv, DaysInv, [Next]_vars
  PROVE  DaysInv'
<1> USE CertTypes, BoundAssumption DEF DaysInv, Failed, Pending, Fresh, Writing,
      Written, Setups, TimerInv, JobsInv, JobInv, Typed, JobsTyped, FilesTyped,
      ClockTyped, Actors, KeyToWrite, CA, MayFail, MayDecline, RenewalNeeded,
      Goto, Finish, ObtainFails, files, clock, jobs
<1>1. CASE NextDay
  <2>1. UNCHANGED <<cert, key, timer, outage, at>> /\ day' = day + 1 /\ ~ran'
    BY <1>1 DEF NextDay
  <2>2. timer => ran /\ at["timer"] = "idle"
    BY <1>1 DEF NextDay
  <2>3. Failed' = Failed /\ (timer => Pending = 0) /\ Pending' = 1
    BY <2>1, <2>2 DEF Failed, Pending
  <2>4. cert.until \in Int /\ Failed \in Int
    BY DEF CertFiles
  <2> QED
    <3> HIDE DEF Failed, Pending
    <3> QED
      BY <2>1, <2>3, <2>4
<1>2. CASE ForceRenewal
  BY <1>2 DEF ForceRenewal
<1>3. ASSUME NEW a \in Actors,
             NEW c \in {"setup", "staging", "renew", "install"}, Start(a, c)
      PROVE  DaysInv'
  BY <1>3 DEF Start
<1>4. ASSUME NEW a \in Actors, CheckRenewal(a) PROVE DaysInv'
  <2>1. UNCHANGED <<cert, key, timer, day, ran>>
    BY <1>4 DEF CheckRenewal
  <2>2. CASE a = "admin"
    <3>1. outage' = outage /\ at'["timer"] = at["timer"]
      BY <1>4, <2>2 DEF CheckRenewal
    <3> QED
      BY <2>1, <3>1
  <2>3. CASE a = "timer" /\ Goto(a, "client") /\ UNCHANGED outage
    BY <1>4, <2>1, <2>3 DEF CheckRenewal
  <2>4. CASE a = "timer" /\ cert = CutCert
    BY <2>1, <2>4
  <2>5. CASE a = "timer" /\ Finish(a, FALSE) /\ cert.until - day >= Threshold
    BY <2>1, <2>5 DEF CertFiles
  <2>6. ASSUME NEW left \in {cert.until - day - 1, cert.until - day},
     left >= Threshold
        PROVE  cert.until - day >= Threshold
    BY <2>6 DEF CertFiles
  <2>7. cert.until - day \in Int
    BY DEF CertFiles
  <2> QED
    BY <1>4, <2>2, <2>3, <2>4, <2>5, <2>6, <2>7 DEF CheckRenewal
<1>5. ASSUME NEW a \in Actors, SetupClient(a) PROVE DaysInv'
  BY <1>5 DEF SetupClient, AccountKnown
<1>6. ASSUME NEW a \in Actors, ReadPair(a) PROVE DaysInv'
  BY <1>6 DEF ReadPair
<1>7. ASSUME NEW a \in Actors, Issue(a) PROVE DaysInv'
  BY <1>7 DEF Issue
<1>8. ASSUME NEW a \in Actors, WriteCert(a) PROVE DaysInv'
  BY <1>8 DEF WriteCert
<1>9. ASSUME NEW a \in Actors, WriteKey(a) PROVE DaysInv'
  BY <1>9 DEF WriteKey
<1>10. ASSUME NEW a \in Actors, ReloadPostfix(a) PROVE DaysInv'
  BY <1>10 DEF ReloadPostfix
<1>11. ASSUME NEW a \in Actors, ConfigurePostfix(a) PROVE DaysInv'
  BY <1>11 DEF ConfigurePostfix
<1>12. ASSUME NEW a \in Actors, SetupAutoRenewal(a) PROVE DaysInv'
  BY <1>12 DEF SetupAutoRenewal
<1>13. ASSUME NEW a \in Actors, SelfSign(a) PROVE DaysInv'
  BY <1>13 DEF SelfSign
<1>14. ASSUME NEW a \in Actors, WriteWebEnv(a) PROVE DaysInv'
  BY <1>14 DEF WriteWebEnv
<1>15. ASSUME NEW a \in Actors, Kill(a) PROVE DaysInv'
  BY <1>15 DEF Kill
<1>16. ASSUME NEW a \in Actors, ShareKey(a) PROVE DaysInv'
  BY <1>16 DEF ShareKey
<1>17. CASE UNCHANGED vars
  BY <1>17 DEF vars
<1> QED
  BY <1>1, <1>2, <1>3, <1>4, <1>5, <1>6, <1>7, <1>8, <1>9, <1>10, <1>11,
     <1>12, <1>13, <1>14, <1>15, <1>16, <1>17 DEF Next

-----------------------------------------------------------------------------
(***************************************************************************)
(* The theorems                                                            *)
(***************************************************************************)

\* A machine without certificates satisfies the invariant.
LEMMA CertificatesInit == Init => CertificatesInv
<1> SUFFICES ASSUME Init PROVE CertificatesInv
  OBVIOUS
<1>1. Typed
  BY CertTypes, DirsAssumption DEF Init, Typed, FilesTyped, ClockTyped, JobsTyped, Steps,
     KeyFiles, Owners
<1>2. FileInv /\ TimerInv /\ DaysInv /\ WebInv
  BY CertTypes DEF Init, FileInv, TimerInv, DaysInv, WebInv, Actors
<1>3. WholeInv
  BY DEF Init, WholeInv, Whole
<1>4. JobsInv /\ AlonesInv
  BY DEF Init, JobsInv, JobInv, AlonesInv, AloneInv, Writing, Written
<1> QED
  BY <1>1, <1>2, <1>3, <1>4 DEF CertificatesInv

\* Every reachable state of the files, the clock and the commands satisfies
\* the inductive invariant.
THEOREM CertificatesInvariant == Spec => []CertificatesInv
<1>1. ASSUME CertificatesInv, [Next]_vars PROVE CertificatesInv'
  <2>1. /\ Typed /\ FileInv /\ TimerInv /\ DaysInv /\ WholeInv /\ WebInv
        /\ JobsInv /\ AlonesInv
    BY <1>1 DEF CertificatesInv
  <2>2. Typed' /\ FileInv'
    BY <1>1, <2>1, TypedStep, FileStep
  <2>3. JobsInv' /\ AlonesInv'
    BY <1>1, <2>1, JobStep, AloneStep
  <2>4. TimerInv' /\ DaysInv'
    BY <1>1, <2>1, TimerStep, DaysStep
  <2>5. WholeInv' /\ WebInv'
    BY <1>1, <2>1, WholeStep, WebStep
  <2> QED
    BY <2>2, <2>3, <2>4, <2>5 DEF CertificatesInv
<1> QED
  BY <1>1, CertificatesInit, PTL DEF Spec

\* A command that wrote both files and ran alone leaves a pair that fits.
THEOREM CommandsLeavePairs == Spec => []CommandLeavesPair
<1>1. CertificatesInv => CommandLeavesPair
  BY DEF CertificatesInv, AlonesInv, AloneInv, Written, CommandLeavesPair
<1> QED
  BY <1>1, CertificatesInvariant, PTL

\* Once the timer runs, a production certificate does not expire: MaxOutage days
\* of failed renewals in a row and the day still pending cost fewer days than the
\* threshold, of which every renewal or its refusal leaves that many.
THEOREM TimerKeepsItValid == Spec => []TimerKeepsValid
<1>1. CertificatesInv => TimerKeepsValid
  <2> SUFFICES ASSUME CertificatesInv, timer, cert # CutCert, key # CutKey
               PROVE  cert # NoCert /\ (cert.ca = "production" => day < cert.until)
    BY DEF TimerKeepsValid, Valid
  <2>1. cert # NoCert
    BY DEF CertificatesInv, TimerInv
  <2>2. cert.ca = "production" => cert.until - day >= Threshold - Failed - Pending
    BY DEF CertificatesInv, DaysInv
  <2>3. Failed <= MaxOutage /\ Failed \in Int /\ Pending \in {0, 1}
    BY BoundAssumption DEF CertificatesInv, Typed, JobsTyped, Failed, Pending
  <2>4. day \in Nat /\ cert.until \in Nat
    BY DEF CertificatesInv, Typed, ClockTyped, FilesTyped, CertFiles
  <2> QED
    BY <2>1, <2>2, <2>3, <2>4, BoundAssumption
<1> QED
  BY <1>1, CertificatesInvariant, PTL

\* The files webadmin is configured with are a pair that fits, unless the pair
\* was torn.
THEOREM WebPairAlwaysFits == Spec => []WebPairFits
<1>1. CertificatesInv => WebPairFits
  <2> SUFFICES ASSUME CertificatesInv, \A a \in Actors : at[a] = "idle", ~torn
               PROVE  (web = "acme" => PairMatches) /\ (web = "self" => self # "none")
    BY DEF WebPairFits
  <2>1. Whole
    BY DEF CertificatesInv, WholeInv
  <2> QED
    BY <2>1 DEF CertificatesInv, WebInv, Whole
<1> QED
  BY <1>1, CertificatesInvariant, PTL
=============================================================================
