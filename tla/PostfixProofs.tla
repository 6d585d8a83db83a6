--------------------------- MODULE PostfixProofs ----------------------------
(***************************************************************************)
(* Proofs about Postfix and what feeds it: about MailConfig, what any      *)
(* number of administrators who run, break off and repeat commands at the  *)
(* same time may do to the configuration of the machine, and about         *)
(* Delivery, the way of a message from the queue to a file, for any        *)
(* messages and any number of retries and requests.                        *)
(***************************************************************************)
EXTENDS MailConfig, Delivery, TLAPS

-----------------------------------------------------------------------------
(***************************************************************************)
(* The configuration.                                                      *)
(***************************************************************************)

DomainPoints == {"list", "write", "postconf", "reload"}

\* The points of an install at which its parts are in place.
AfterScript == {"master", "enable", "unit", "env", "webadmin"}
AfterUpdate == {"pipe"} \cup AfterScript
AfterSettings ==
  {"regex", "first", "update", "updateList", "updateMain"} \cup AfterUpdate
AfterPackages == {"configure", "settings"} \cup AfterSettings

\* As long as there is no domains.list, main.cf has a list of ours, or Postfix's
\* default alone.
ListInv ==
  "list" \notin files =>
    list = {} /\ (domains \subseteq Domains \/ domains = {Default})

\* What a command has read, and what is in place at each of its points.
CommandInv(a) ==
  /\ pc[a] \in DomainPoints <=> pc[a] # "done" /\ command[a].name \in {"add", "remove"}
  /\ At(a, "write", "remove") => known[a] \subseteq Domains
  /\ pc[a] \in {"updateList", "updateMain"} => known[a] \subseteq Domains
  /\ pc[a] \in {"postconf", "updateMain"} => "list" \in files
CommandsInv == \A a \in Admins : CommandInv(a)

\* An install has put in place what it has passed, and no command takes it
\* away.  The parameters are set but for those still to do.
InstallInv(a) ==
  /\ pc[a] \in AfterPackages \/ Finished(a) => "postfix" \in files
  /\ pc[a] = "settings" => Settings \ todo[a] \subseteq settings
  /\ pc[a] \in AfterSettings \/ Finished(a) => Transport \in settings
  /\ pc[a] \in {"regex", "first"} => Settings \subseteq settings
  /\ pc[a] \in AfterUpdate \/ Finished(a) => "list" \in files
  /\ pc[a] \in AfterScript \/ Finished(a) => "script" \in files
  /\ pc[a] \in AfterScript \ {"master"} \/ Finished(a) => "master" \in files
  /\ pc[a] \in {"unit", "env", "webadmin"} \/ Finished(a) => served # NotRunning
  /\ pc[a] \in {"env", "webadmin"} \/ Finished(a) => "unit" \in files
  /\ pc[a] = "webadmin" \/ Finished(a) => "env" \in files
InstallsInv == \A a \in Admins : InstallInv(a)

\* Where the transport is set, the rest is, unless an install that set it was
\* cut short or is still at it.
Whole == "regex" \in files /\ Settings \subseteq settings
WholeInv ==
  Transport \in settings =>
    Whole \/ cut \/ \E b \in Admins : HalfConfigured(b)

\* A command that has met no other finds the list and the parameter as it left
\* them itself.
AloneInv(a) ==
  /\ a \in changed =>
       pc[a] \notin {"idle", "list", "write", "packages", "configure", "update",
                     "updateList"}
  /\ a \in alone =>
       /\ \A b \in Admins \ {a} : pc[b] \in Idle
       /\ pc[a] \in DomainPoints => "list" \in files
       /\ pc[a] \in {"write", "postconf", "updateMain"} => known[a] = list
       /\ pc[a] \in {"regex", "first"} => domains = {Primary}
       /\ pc[a] = "settings" /\ a \in changed => domains = {Primary}
       /\ pc[a] \in PastConfig /\ a \in changed => domains = list
AlonesInv == \A a \in Admins : AloneInv(a)

MailConfigInv ==
  /\ TypeOK /\ ListInv /\ CommandsInv /\ InstallsInv /\ WholeInv /\ AlonesInv

-----------------------------------------------------------------------------
\* A command is an install or is about one of the domains.
LEMMA CommandTypes ==
  /\ NoCommand \in Commands /\ NoCommand.name = "none"
  /\ \A c \in Commands :
       /\ c.domain \in Domains /\ c.name \in {"none", "install", "add", "remove"}
       /\ c # NoCommand => c.name # "none"
BY DomainAssumption DEF Commands, NoCommand

\* What Postfix serves is not what stands for a Postfix that does not run.
LEMMA RunningServes ==
  ASSUME NEW S \in SUBSET (Domains \cup {Default})
  PROVE  S # NotRunning
BY StoppedAssumption DEF NotRunning

\* Every step keeps the types.
LEMMA TypeStep ==
  ASSUME TypeOK, ListInv, CommandsInv, [Next]_vars
  PROVE  TypeOK'
<1> USE CommandTypes, DomainAssumption DEF TypeOK, CommandsInv, CommandInv,
      ListDomains, machine, Step, At, Goto, Points, Idle, Busy, Files
<1>1. ASSUME NEW a \in Admins, Start(a) PROVE TypeOK'
  BY <1>1 DEF Start
<1>2. ASSUME NEW a \in Admins, Fail(a) PROVE TypeOK'
  BY <1>2 DEF Fail
<1>3. ASSUME NEW a \in Admins, ReadList(a) PROVE TypeOK'
  BY <1>3 DEF ReadList
<1>4. ASSUME NEW a \in Admins, AppendDomain(a) PROVE TypeOK'
  BY <1>4 DEF AppendDomain
<1>5. ASSUME NEW a \in Admins, RewriteList(a) PROVE TypeOK'
  BY <1>5 DEF RewriteList
<1>6. ASSUME NEW a \in Admins, PostconfDomains(a) PROVE TypeOK'
  BY <1>6 DEF PostconfDomains
<1>7. ASSUME NEW a \in Admins, Reload(a) PROVE TypeOK'
  BY <1>7 DEF Reload
<1>8. ASSUME NEW a \in Admins, InstallPackages(a) PROVE TypeOK'
  BY <1>8 DEF InstallPackages, Put
<1>9. ASSUME NEW a \in Admins, Configure(a) PROVE TypeOK'
  BY <1>9 DEF Configure
<1>10. ASSUME NEW a \in Admins, SetOne(a) PROVE TypeOK'
  BY <1>10 DEF SetOne
<1>11. ASSUME NEW a \in Admins, SetDomains(a) PROVE TypeOK'
  BY <1>11 DEF SetDomains
<1>12. ASSUME NEW a \in Admins, SettingsDone(a) PROVE TypeOK'
  BY <1>12 DEF SettingsDone
<1>13. ASSUME NEW a \in Admins, WriteRegex(a) PROVE TypeOK'
  BY <1>13 DEF WriteRegex, Put
<1>14. ASSUME NEW a \in Admins, FirstList(a) PROVE TypeOK'
  BY <1>14 DEF FirstList
<1>15. ASSUME NEW a \in Admins, UpdateDomains(a) PROVE TypeOK'
  BY <1>15 DEF UpdateDomains
<1>16. ASSUME NEW a \in Admins, UpdateList(a) PROVE TypeOK'
  BY <1>16 DEF UpdateList
<1>17. ASSUME NEW a \in Admins, UpdateMain(a) PROVE TypeOK'
  BY <1>17 DEF UpdateMain
<1>18. ASSUME NEW a \in Admins, CreatePipeScript(a) PROVE TypeOK'
  BY <1>18 DEF CreatePipeScript, Put
<1>19. ASSUME NEW a \in Admins, ConfigureMasterCF(a) PROVE TypeOK'
  BY <1>19 DEF ConfigureMasterCF, Put
<1>20. ASSUME NEW a \in Admins, EnablePostfix(a) PROVE TypeOK'
  BY <1>20 DEF EnablePostfix
<1>21. ASSUME NEW a \in Admins, InstallSystemdService(a) PROVE TypeOK'
  BY <1>21 DEF InstallSystemdService, Put
<1>22. ASSUME NEW a \in Admins, CreateEnvironmentFile(a) PROVE TypeOK'
  BY <1>22 DEF CreateEnvironmentFile, Put
<1>23. ASSUME NEW a \in Admins, InstallWebAdmin(a) PROVE TypeOK'
  BY <1>23 DEF InstallWebAdmin
<1>24. CASE UNCHANGED vars
  BY <1>24 DEF vars
<1> QED
  BY <1>1, <1>2, <1>3, <1>4, <1>5, <1>6, <1>7, <1>8, <1>9, <1>10, <1>11,
     <1>12, <1>13, <1>14, <1>15, <1>16, <1>17, <1>18, <1>19, <1>20, <1>21,
     <1>22, <1>23, <1>24
  DEF Next, Domain, Install

\* Every step keeps the default away from a list of ours.
LEMMA ListStep ==
  ASSUME TypeOK, ListInv, CommandsInv, [Next]_vars
  PROVE  ListInv'
<1> USE CommandTypes, DomainAssumption DEF ListInv, TypeOK, CommandsInv,
      CommandInv, machine, Step, At, Goto
<1>1. ASSUME NEW a \in Admins, Start(a) PROVE ListInv'
  BY <1>1 DEF Start
<1>2. ASSUME NEW a \in Admins, Fail(a) PROVE ListInv'
  BY <1>2 DEF Fail
<1>3. ASSUME NEW a \in Admins, ReadList(a) PROVE ListInv'
  BY <1>3 DEF ReadList
<1>4. ASSUME NEW a \in Admins, AppendDomain(a) PROVE ListInv'
  BY <1>4 DEF AppendDomain
<1>5. ASSUME NEW a \in Admins, RewriteList(a) PROVE ListInv'
  BY <1>5 DEF RewriteList
<1>6. ASSUME NEW a \in Admins, PostconfDomains(a) PROVE ListInv'
  BY <1>6 DEF PostconfDomains
<1>7. ASSUME NEW a \in Admins, Reload(a) PROVE ListInv'
  BY <1>7 DEF Reload
<1>8. ASSUME NEW a \in Admins, InstallPackages(a) PROVE ListInv'
  BY <1>8 DEF InstallPackages, Put
<1>9. ASSUME NEW a \in Admins, Configure(a) PROVE ListInv'
  BY <1>9 DEF Configure
<1>10. ASSUME NEW a \in Admins, SetOne(a) PROVE ListInv'
  BY <1>10 DEF SetOne
<1>11. ASSUME NEW a \in Admins, SetDomains(a) PROVE ListInv'
  BY <1>11 DEF SetDomains
<1>12. ASSUME NEW a \in Admins, SettingsDone(a) PROVE ListInv'
  BY <1>12 DEF SettingsDone
<1>13. ASSUME NEW a \in Admins, WriteRegex(a) PROVE ListInv'
  BY <1>13 DEF WriteRegex, Put
<1>14. ASSUME NEW a \in Admins, FirstList(a) PROVE ListInv'
  BY <1>14 DEF FirstList
<1>15. ASSUME NEW a \in Admins, UpdateDomains(a) PROVE ListInv'
  BY <1>15 DEF UpdateDomains
<1>16. ASSUME NEW a \in Admins, UpdateList(a) PROVE ListInv'
  BY <1>16 DEF UpdateList
<1>17. ASSUME NEW a \in Admins, UpdateMain(a) PROVE ListInv'
  BY <1>17 DEF UpdateMain
<1>18. ASSUME NEW a \in Admins, CreatePipeScript(a) PROVE ListInv'
  BY <1>18 DEF CreatePipeScript, Put
<1>19. ASSUME NEW a \in Admins, ConfigureMasterCF(a) PROVE ListInv'
  BY <1>19 DEF ConfigureMasterCF, Put
<1>20. ASSUME NEW a \in Admins, EnablePostfix(a) PROVE ListInv'
  BY <1>20 DEF EnablePostfix
<1>21. ASSUME NEW a \in Admins, InstallSystemdService(a) PROVE ListInv'
  BY <1>21 DEF InstallSystemdService, Put
<1>22. ASSUME NEW a \in Admins, CreateEnvironmentFile(a) PROVE ListInv'
  BY <1>22 DEF CreateEnvironmentFile, Put
<1>23. ASSUME NEW a \in Admins, InstallWebAdmin(a) PROVE ListInv'
  BY <1>23 DEF InstallWebAdmin
<1>24. CASE UNCHANGED vars
  BY <1>24 DEF vars
<1> QED
  BY <1>1, <1>2, <1>3, <1>4, <1>5, <1>6, <1>7, <1>8, <1>9, <1>10, <1>11,
     <1>12, <1>13, <1>14, <1>15, <1>16, <1>17, <1>18, <1>19, <1>20, <1>21,
     <1>22, <1>23, <1>24
  DEF Next, Domain, Install

\* Every step keeps what is known of the commands.
LEMMA CommandStep ==
  ASSUME TypeOK, ListInv, CommandsInv, [Next]_vars
  PROVE  CommandsInv'
<1> USE CommandTypes, DomainAssumption DEF CommandsInv, CommandInv, ListInv,
      ListDomains, DomainPoints, TypeOK, Idle, Busy, machine, Step, At, Goto
<1>1. ASSUME NEW a \in Admins, Start(a) PROVE CommandsInv'
  BY <1>1 DEF Start
<1>2. ASSUME NEW a \in Admins, Fail(a) PROVE CommandsInv'
  BY <1>2 DEF Fail
<1>3. ASSUME NEW a \in Admins, ReadList(a) PROVE CommandsInv'
  BY <1>3 DEF ReadList
<1>4. ASSUME NEW a \in Admins, AppendDomain(a) PROVE CommandsInv'
  BY <1>4 DEF AppendDomain
<1>5. ASSUME NEW a \in Admins, RewriteList(a) PROVE CommandsInv'
  BY <1>5 DEF RewriteList
<1>6. ASSUME NEW a \in Admins, PostconfDomains(a) PROVE CommandsInv'
  BY <1>6 DEF PostconfDomains
<1>7. ASSUME NEW a \in Admins, Reload(a) PROVE CommandsInv'
  BY <1>7 DEF Reload
<1>8. ASSUME NEW a \in Admins, InstallPackages(a) PROVE CommandsInv'
  BY <1>8 DEF InstallPackages, Put
<1>9. ASSUME NEW a \in Admins, Configure(a) PROVE CommandsInv'
  BY <1>9 DEF Configure
<1>10. ASSUME NEW a \in Admins, SetOne(a) PROVE CommandsInv'
  BY <1>10 DEF SetOne
<1>11. ASSUME NEW a \in Admins, SetDomains(a) PROVE CommandsInv'
  BY <1>11 DEF SetDomains
<1>12. ASSUME NEW a \in Admins, SettingsDone(a) PROVE CommandsInv'
  BY <1>12 DEF SettingsDone
<1>13. ASSUME NEW a \in Admins, WriteRegex(a) PROVE CommandsInv'
  BY <1>13 DEF WriteRegex, Put
<1>14. ASSUME NEW a \in Admins, FirstList(a) PROVE CommandsInv'
  BY <1>14 DEF FirstList
<1>15. ASSUME NEW a \in Admins, UpdateDomains(a) PROVE CommandsInv'
  BY <1>15 DEF UpdateDomains
<1>16. ASSUME NEW a \in Admins, UpdateList(a) PROVE CommandsInv'
  BY <1>16 DEF UpdateList
<1>17. ASSUME NEW a \in Admins, UpdateMain(a) PROVE CommandsInv'
  BY <1>17 DEF UpdateMain
<1>18. ASSUME NEW a \in Admins, CreatePipeScript(a) PROVE CommandsInv'
  BY <1>18 DEF CreatePipeScript, Put
<1>19. ASSUME NEW a \in Admins, ConfigureMasterCF(a) PROVE CommandsInv'
  BY <1>19 DEF ConfigureMasterCF, Put
<1>20. ASSUME NEW a \in Admins, EnablePostfix(a) PROVE CommandsInv'
  BY <1>20 DEF EnablePostfix
<1>21. ASSUME NEW a \in Admins, InstallSystemdService(a) PROVE CommandsInv'
  BY <1>21 DEF InstallSystemdService, Put
<1>22. ASSUME NEW a \in Admins, CreateEnvironmentFile(a) PROVE CommandsInv'
  BY <1>22 DEF CreateEnvironmentFile, Put
<1>23. ASSUME NEW a \in Admins, InstallWebAdmin(a) PROVE CommandsInv'
  BY <1>23 DEF InstallWebAdmin
<1>24. CASE UNCHANGED vars
  BY <1>24 DEF vars
<1> QED
  BY <1>1, <1>2, <1>3, <1>4, <1>5, <1>6, <1>7, <1>8, <1>9, <1>10, <1>11,
     <1>12, <1>13, <1>14, <1>15, <1>16, <1>17, <1>18, <1>19, <1>20, <1>21,
     <1>22, <1>23, <1>24
  DEF Next, Domain, Install

\* No step takes away what an install has put in place.
LEMMA InstallStep ==
  ASSUME TypeOK, ListInv, CommandsInv, InstallsInv, [Next]_vars
  PROVE  InstallsInv'
<1> USE CommandTypes, SettingsAssumption DEF InstallsInv, InstallInv,
      AfterPackages, AfterSettings, AfterUpdate, AfterScript, Finished,
      CommandsInv, CommandInv, DomainPoints, TypeOK, Idle, Busy, machine,
      Step, At, Goto
<1>1. ASSUME NEW a \in Admins, Start(a) PROVE InstallsInv'
  BY <1>1 DEF Start
<1>2. ASSUME NEW a \in Admins, Fail(a) PROVE InstallsInv'
  BY <1>2 DEF Fail
<1>3. ASSUME NEW a \in Admins, ReadList(a) PROVE InstallsInv'
  BY <1>3 DEF ReadList
<1>4. ASSUME NEW a \in Admins, AppendDomain(a) PROVE InstallsInv'
  BY <1>4 DEF AppendDomain
<1>5. ASSUME NEW a \in Admins, RewriteList(a) PROVE InstallsInv'
  BY <1>5 DEF RewriteList
<1>6. ASSUME NEW a \in Admins, PostconfDomains(a) PROVE InstallsInv'
  BY <1>6 DEF PostconfDomains
<1>7. ASSUME NEW a \in Admins, Reload(a) PROVE InstallsInv'
  <2>1. domains # NotRunning
    BY RunningServes
  <2>2. served # NotRunning => served' # NotRunning
    BY <1>7, <2>1 DEF Reload
  <2> QED
    BY <1>7, <2>2 DEF Reload
<1>8. ASSUME NEW a \in Admins, InstallPackages(a) PROVE InstallsInv'
  BY <1>8 DEF InstallPackages, Put
<1>9. ASSUME NEW a \in Admins, Configure(a) PROVE InstallsInv'
  BY <1>9 DEF Configure
<1>10. ASSUME NEW a \in Admins, SetOne(a) PROVE InstallsInv'
  BY <1>10 DEF SetOne
<1>11. ASSUME NEW a \in Admins, SetDomains(a) PROVE InstallsInv'
  BY <1>11 DEF SetDomains
<1>12. ASSUME NEW a \in Admins, SettingsDone(a) PROVE InstallsInv'
  BY <1>12 DEF SettingsDone
<1>13. ASSUME NEW a \in Admins, WriteRegex(a) PROVE InstallsInv'
  BY <1>13 DEF WriteRegex, Put
<1>14. ASSUME NEW a \in Admins, FirstList(a) PROVE InstallsInv'
  BY <1>14 DEF FirstList
<1>15. ASSUME NEW a \in Admins, UpdateDomains(a) PROVE InstallsInv'
  BY <1>15 DEF UpdateDomains, ListInv
<1>16. ASSUME NEW a \in Admins, UpdateList(a) PROVE InstallsInv'
  BY <1>16 DEF UpdateList
<1>17. ASSUME NEW a \in Admins, UpdateMain(a) PROVE InstallsInv'
  BY <1>17 DEF UpdateMain
<1>18. ASSUME NEW a \in Admins, CreatePipeScript(a) PROVE InstallsInv'
  BY <1>18 DEF CreatePipeScript, Put
<1>19. ASSUME NEW a \in Admins, ConfigureMasterCF(a) PROVE InstallsInv'
  BY <1>19 DEF ConfigureMasterCF, Put
<1>20. ASSUME NEW a \in Admins, EnablePostfix(a) PROVE InstallsInv'
  <2>1. served' # NotRunning
    BY <1>20, RunningServes DEF EnablePostfix
  <2> QED
    BY <1>20, <2>1 DEF EnablePostfix
<1>21. ASSUME NEW a \in Admins, InstallSystemdService(a) PROVE InstallsInv'
  BY <1>21 DEF InstallSystemdService, Put
<1>22. ASSUME NEW a \in Admins, CreateEnvironmentFile(a) PROVE InstallsInv'
  BY <1>22 DEF CreateEnvironmentFile, Put
<1>23. ASSUME NEW a \in Admins, InstallWebAdmin(a) PROVE InstallsInv'
  BY <1>23 DEF InstallWebAdmin
<1>24. CASE UNCHANGED vars
  BY <1>24 DEF vars
<1> QED
  BY <1>1, <1>2, <1>3, <1>4, <1>5, <1>6, <1>7, <1>8, <1>9, <1>10, <1>11,
     <1>12, <1>13, <1>14, <1>15, <1>16, <1>17, <1>18, <1>19, <1>20, <1>21,
     <1>22, <1>23, <1>24
  DEF Next, Domain, Install

\* Every step keeps the rest of the configuration with the transport, or tells
\* of an install that has set the one and not the other.
LEMMA WholeStep ==
  ASSUME TypeOK, InstallsInv, WholeInv, [Next]_vars
  PROVE  WholeInv'
<1> USE SettingsAssumption DEF TypeOK, WholeInv, Whole, HalfConfigured, Idle, Busy,
      machine, Step, At, Goto
<1>1. ASSUME NEW a \in Admins, Start(a) PROVE WholeInv'
  BY <1>1 DEF Start
<1>2. ASSUME NEW a \in Admins, Fail(a) PROVE WholeInv'
  BY <1>2 DEF Fail
<1>3. ASSUME NEW a \in Admins, Configure(a) PROVE WholeInv'
  BY <1>3 DEF Configure
<1>4. ASSUME NEW a \in Admins, SetOne(a) PROVE WholeInv'
  BY <1>4 DEF SetOne
<1>5. ASSUME NEW a \in Admins, SettingsDone(a) PROVE WholeInv'
  BY <1>5 DEF SettingsDone
<1>6. ASSUME NEW a \in Admins, WriteRegex(a) PROVE WholeInv'
  BY <1>6 DEF WriteRegex, Put, InstallsInv, InstallInv
<1>7. ASSUME NEW a \in Admins, SetDomains(a) \/ FirstList(a) PROVE WholeInv'
  BY <1>7 DEF SetDomains, FirstList
<1>8. ASSUME NEW a \in Admins,
             UpdateDomains(a) \/ UpdateList(a) \/ UpdateMain(a)
      PROVE  WholeInv'
  BY <1>8 DEF UpdateDomains, UpdateList, UpdateMain
<1>9. ASSUME NEW a \in Admins, Domain(a) PROVE WholeInv'
  BY <1>9
  DEF Domain, ReadList, AppendDomain, RewriteList, PostconfDomains, Reload
<1>10. ASSUME NEW a \in Admins,
              \/ InstallPackages(a) \/ CreatePipeScript(a)
              \/ ConfigureMasterCF(a) \/ InstallSystemdService(a)
              \/ CreateEnvironmentFile(a)
       PROVE  WholeInv'
  BY <1>10 DEF InstallPackages, CreatePipeScript, ConfigureMasterCF,
     InstallSystemdService, CreateEnvironmentFile, Put
<1>11. ASSUME NEW a \in Admins, EnablePostfix(a) \/ InstallWebAdmin(a)
       PROVE  WholeInv'
  BY <1>11 DEF EnablePostfix, InstallWebAdmin
<1>12. CASE UNCHANGED vars
  BY <1>12 DEF vars
<1> QED
  BY <1>1, <1>2, <1>3, <1>4, <1>5, <1>6, <1>7, <1>8, <1>9, <1>10, <1>11, <1>12
  DEF Next, Install

\* Every step keeps what a command that has met no other may rely on.
LEMMA AloneStep ==
  ASSUME TypeOK, CommandsInv, AlonesInv, [Next]_vars
  PROVE  AlonesInv'
<1> USE CommandTypes DEF AlonesInv, AloneInv, CommandsInv, CommandInv,
      DomainPoints, PastConfig, ListDomains, TypeOK, Idle, Busy, machine,
      Step, At, Goto
<1>1. ASSUME NEW a \in Admins, Start(a) PROVE AlonesInv'
  BY <1>1 DEF Start
<1>2. ASSUME NEW a \in Admins, Fail(a) PROVE AlonesInv'
  BY <1>2 DEF Fail
<1>3. ASSUME NEW a \in Admins, ReadList(a) PROVE AlonesInv'
  BY <1>3 DEF ReadList
<1>4. ASSUME NEW a \in Admins, AppendDomain(a) PROVE AlonesInv'
  BY <1>4 DEF AppendDomain
<1>5. ASSUME NEW a \in Admins, RewriteList(a) PROVE AlonesInv'
  BY <1>5 DEF RewriteList
<1>6. ASSUME NEW a \in Admins, PostconfDomains(a) PROVE AlonesInv'
  BY <1>6 DEF PostconfDomains
<1>7. ASSUME NEW a \in Admins, Reload(a) PROVE AlonesInv'
  BY <1>7 DEF Reload
<1>8. ASSUME NEW a \in Admins, InstallPackages(a) PROVE AlonesInv'
  BY <1>8 DEF InstallPackages, Put
<1>9. ASSUME NEW a \in Admins, Configure(a) PROVE AlonesInv'
  BY <1>9 DEF Configure
<1>10. ASSUME NEW a \in Admins, SetOne(a) PROVE AlonesInv'
  BY <1>10 DEF SetOne
<1>11. ASSUME NEW a \in Admins, SetDomains(a) PROVE AlonesInv'
  BY <1>11 DEF SetDomains
<1>12. ASSUME NEW a \in Admins, SettingsDone(a) PROVE AlonesInv'
  BY <1>12 DEF SettingsDone
<1>13. ASSUME NEW a \in Admins, WriteRegex(a) PROVE AlonesInv'
  BY <1>13 DEF WriteRegex, Put
<1>14. ASSUME NEW a \in Admins, FirstList(a) PROVE AlonesInv'
  BY <1>14 DEF FirstList
<1>15. ASSUME NEW a \in Admins, UpdateDomains(a) PROVE AlonesInv'
  BY <1>15 DEF UpdateDomains
<1>16. ASSUME NEW a \in Admins, UpdateList(a) PROVE AlonesInv'
  BY <1>16 DEF UpdateList
<1>17. ASSUME NEW a \in Admins, UpdateMain(a) PROVE AlonesInv'
  BY <1>17 DEF UpdateMain
<1>18. ASSUME NEW a \in Admins, CreatePipeScript(a) PROVE AlonesInv'
  BY <1>18 DEF CreatePipeScript, Put
<1>19. ASSUME NEW a \in Admins, ConfigureMasterCF(a) PROVE AlonesInv'
  BY <1>19 DEF ConfigureMasterCF, Put
<1>20. ASSUME NEW a \in Admins, EnablePostfix(a) PROVE AlonesInv'
  BY <1>20 DEF EnablePostfix
<1>21. ASSUME NEW a \in Admins, InstallSystemdService(a) PROVE AlonesInv'
  BY <1>21 DEF InstallSystemdService, Put
<1>22. ASSUME NEW a \in Admins, CreateEnvironmentFile(a) PROVE AlonesInv'
  BY <1>22 DEF CreateEnvironmentFile, Put
<1>23. ASSUME NEW a \in Admins, InstallWebAdmin(a) PROVE AlonesInv'
  BY <1>23 DEF InstallWebAdmin
<1>24. CASE UNCHANGED vars
  BY <1>24 DEF vars
<1> QED
  BY <1>1, <1>2, <1>3, <1>4, <1>5, <1>6, <1>7, <1>8, <1>9, <1>10, <1>11,
     <1>12, <1>13, <1>14, <1>15, <1>16, <1>17, <1>18, <1>19, <1>20, <1>21,
     <1>22, <1>23, <1>24
  DEF Next, Domain, Install

-----------------------------------------------------------------------------
(***************************************************************************)
(* The theorems                                                            *)
(***************************************************************************)

\* A machine without Postfix satisfies the invariant.
LEMMA MailConfigInit == Init => MailConfigInv
<1> SUFFICES ASSUME Init PROVE MailConfigInv
  OBVIOUS
<1>1. TypeOK
  <2>1. files \in SUBSET Files /\ list \in SUBSET Domains
        /\ settings \in SUBSET Settings /\ domains \in SUBSET (Domains \cup {Default})
    BY DEF Init
  <2>2. served \in {NotRunning} \cup SUBSET (Domains \cup {Default})
    BY DEF Init
  <2>3. pc \in [Admins -> Points] /\ command \in [Admins -> Commands]
    BY CommandTypes DEF Init, Points, Idle
  <2>4. known \in [Admins -> SUBSET (Domains \cup {Default})]
    BY DEF Init
  <2>5. todo \in [Admins -> SUBSET Settings]
    BY DEF Init
  <2>6. /\ changed \in SUBSET Admins /\ alone \in SUBSET Admins
        /\ cut \in BOOLEAN
    BY DEF Init
  <2> QED
    BY <2>1, <2>2, <2>3, <2>4, <2>5, <2>6 DEF TypeOK
<1>2. ListInv /\ CommandsInv
  BY CommandTypes DEF Init, ListInv, CommandsInv, CommandInv, DomainPoints, At
<1>3. InstallsInv
  BY DEF Init, InstallsInv, InstallInv, AfterPackages, AfterSettings, AfterUpdate,
     AfterScript, Finished
<1>4. AlonesInv
  BY DEF Init, AlonesInv, AloneInv
<1>5. WholeInv
  BY SettingsAssumption DEF Init, WholeInv
<1> QED
  BY <1>1, <1>2, <1>3, <1>4, <1>5 DEF MailConfigInv

\* Every reachable state of the machine and the commands satisfies the
\* inductive invariant.
THEOREM MailConfigInvariant == Spec => []MailConfigInv
<1>1. ASSUME MailConfigInv, [Next]_vars PROVE MailConfigInv'
  <2>1. TypeOK /\ ListInv /\ CommandsInv /\ InstallsInv /\ WholeInv /\ AlonesInv
    BY <1>1 DEF MailConfigInv
  <2>2. TypeOK' /\ ListInv' /\ CommandsInv'
    BY <1>1, <2>1, TypeStep, ListStep, CommandStep
  <2>3. InstallsInv' /\ WholeInv' /\ AlonesInv'
    BY <1>1, <2>1, InstallStep, WholeStep, AloneStep
  <2> QED
    BY <2>2, <2>3 DEF MailConfigInv
<1> QED
  BY <1>1, MailConfigInit, PTL DEF Spec

\* Every variable has its type, and Postfix's default never gets into
\* domains.list, although a command without a list reads main.cf and writes
\* what it has read.
THEOREM MailConfigTypes == Spec => []TypeOK
<1>1. MailConfigInv => TypeOK
  BY DEF MailConfigInv
<1> QED
  BY <1>1, MailConfigInvariant, PTL

\* An install that reports success has connected Postfix with the API, whatever
\* failed before it and whoever interferes; and Postfix has all its parameters
\* and its map of recipients unless an install was cut short between setting
\* the transport and these, or is there still.
THEOREM InstalledMeansConnected == Spec => []InstalledIsConnected
<1>1. MailConfigInv => InstalledIsConnected
  BY DEF MailConfigInv, InstallsInv, InstallInv, WholeInv, Whole,
     InstalledIsConnected, Files
<1> QED
  BY <1>1, MailConfigInvariant, PTL

\* A command that changes the domains, meets no other and finds a list leaves
\* main.cf and the list in agreement, whatever earlier ones left half done.
THEOREM CommandsReconcile == Spec => []Reconciles
<1>1. MailConfigInv => Reconciles
  BY DEF MailConfigInv, TypeOK, AlonesInv, AloneInv, Reconciles
<1> QED
  BY <1>1, MailConfigInvariant, PTL

-----------------------------------------------------------------------------
(***************************************************************************)
(* The pipe.                                                               *)
(***************************************************************************)

\* Postfix waits for the script that it has started; a script that waits has
\* sent a request; and the requests still to come fit in the bound.
MessageInv(m) ==
  /\ queue[m] = "running" <=> script[m] # "idle"
  /\ script[m] \in {"starting", "connecting"} =>
       sent[m] + retries[m] < MaxRequests
  /\ script[m] = "waiting" => sent[m] > 0 /\ sent[m] + retries[m] <= MaxRequests
  /\ queue[m] = "delivered" => \E n \in 1..sent[m] : file[<<m, n>>] = "complete"

\* What the API's contract guarantees of its answers.
AnswersInv == \A r \in Requests : wire[r] = "ok" => file[r] = "complete"

DeliveryInv ==
  PipeTypeOK /\ AnswersInv /\ \A m \in Messages : MessageInv(m)

-----------------------------------------------------------------------------
\* A step of Postfix or of a script, on which the API's files and answers do
\* not depend.
ScriptStep(m) == PickUp(m) \/ Script(m)

\* What a step of one message's script does to the other messages: nothing.
OtherMessages(m) ==
  \A o \in Messages : o # m =>
    /\ queue'[o] = queue[o] /\ script'[o] = script[o]
    /\ retries'[o] = retries[o] /\ sent'[o] = sent[o]

\* Such a step keeps the types, and its message's invariant.
LEMMA ScriptStepInv ==
  ASSUME DeliveryInv, NEW m \in Messages, ScriptStep(m)
  PROVE  /\ PipeTypeOK' /\ UNCHANGED <<file, wire>>
         /\ OtherMessages(m) /\ MessageInv(m)'
<1> USE BoundAssumption DEF DeliveryInv, PipeTypeOK, OtherMessages, MessageInv,
        Requests, Answers
<1>1. CASE PickUp(m)
  BY <1>1 DEF PickUp
<1>2. CASE Connect(m)
  <2> DEFINE r == <<m, sent[m] + 1>>
  <2>1. sent[m] + 1 \in 1..MaxRequests
    BY <1>2 DEF Connect
  <2>2. r \in Requests
    BY <2>1
  <2>3. sent' = [sent EXCEPT ![m] = sent[m] + 1] /\ live' = live \cup {r}
    BY <1>2 DEF Connect
  <2>4. live' \in SUBSET Requests
    BY <2>2, <2>3
  <2>5. PipeTypeOK' /\ OtherMessages(m)
    BY <1>2, <2>1, <2>3, <2>4 DEF Connect
  <2> QED
    BY <1>2, <2>1, <2>3, <2>5 DEF Connect
<1>3. CASE Refused(m)
  BY <1>3 DEF Refused, Ends
<1>4. CASE Answered(m)
  <2>1. sent[m] \in 1..MaxRequests /\ Current(m) \in Requests
    BY <1>4 DEF Answered, Current
  <2>2. CASE wire[Current(m)] = "ok" /\ Ends(m, "delivered")
    <3>1. file[<<m, sent[m]>>] = "complete"
      BY <2>1, <2>2 DEF AnswersInv, Current
    <3>2. /\ queue' = [queue EXCEPT ![m] = "delivered"]
          /\ script' = [script EXCEPT ![m] = "idle"]
          /\ UNCHANGED <<argv, env, retries, sent, server, live, file, wire>>
      BY <1>4, <2>2 DEF Answered, Ends
    <3>3. PipeTypeOK' /\ OtherMessages(m)
      BY <3>2
    <3>4. \E n \in 1..sent'[m] : file'[<<m, n>>] = "complete"
      <4> HIDE DEF DeliveryInv, PipeTypeOK, MessageInv, Requests
      <4>1. sent[m] \in 1..sent[m] /\ sent'[m] = sent[m] /\ file' = file
        BY <2>1, <3>2, BoundAssumption
      <4> QED
        BY <3>1, <4>1
    <3>5. queue'[m] = "delivered" /\ script'[m] = "idle"
      BY <3>2
    <3> QED
      <4> HIDE DEF DeliveryInv, PipeTypeOK, Requests
      <4> QED
        BY <3>2, <3>3, <3>4, <3>5
  <2>3. CASE Retry(m)
    BY <1>4, <2>1, <2>3 DEF Answered, Retry
  <2>4. CASE Ends(m, "queued")
    BY <1>4, <2>1, <2>4 DEF Answered, Ends
  <2> QED
    BY <1>4, <2>2, <2>3, <2>4 DEF Answered
<1>5. CASE CurlTimeout(m)
  <2>1. CASE Retry(m)
    BY <1>5, <2>1 DEF CurlTimeout, Retry
  <2>2. CASE Ends(m, "bounced")
    BY <1>5, <2>2 DEF CurlTimeout, Ends
  <2> QED
    BY <1>5, <2>1, <2>2 DEF CurlTimeout
<1>6. CASE Broken(m)
  BY <1>6 DEF Broken, Ends
<1>7. CASE LoadEnvironment(m)
  BY <1>7 DEF LoadEnvironment, Ends
<1> QED
  BY <1>1, <1>2, <1>3, <1>4, <1>5, <1>6, <1>7 DEF ScriptStep, Script

-----------------------------------------------------------------------------
\* A step of the API, the crash and the restart included.
ApiStep ==
  \/ \E r \in Requests : StoreBegins(r) \/ StoreCompletes(r) \/ Replies(r)
  \/ Crash \/ Restart

\* Such a step leaves the scripts alone, acknowledges only what is stored and
\* keeps every complete file.
LEMMA ApiStepInv ==
  ASSUME PipeTypeOK, AnswersInv, ApiStep
  PROVE  /\ PipeTypeOK' /\ AnswersInv' /\ UNCHANGED <<queue, script, retries, sent>>
         /\ \A r \in Requests : file[r] = "complete" => file'[r] = "complete"
<1> USE DEF PipeTypeOK, AnswersInv, scriptVars
<1>1. ASSUME NEW r \in Requests, StoreBegins(r)
      PROVE  /\ PipeTypeOK' /\ AnswersInv' /\ UNCHANGED <<queue, script, retries, sent>>
             /\ \A q \in Requests : file[q] = "complete" => file'[q] = "complete"
  BY <1>1 DEF StoreBegins, Api!Begin
<1>2. ASSUME NEW r \in Requests, StoreCompletes(r)
      PROVE  /\ PipeTypeOK' /\ AnswersInv' /\ UNCHANGED <<queue, script, retries, sent>>
             /\ \A q \in Requests : file[q] = "complete" => file'[q] = "complete"
  BY <1>2 DEF StoreCompletes, Api!Complete
<1>3. ASSUME NEW r \in Requests, Replies(r)
      PROVE  /\ PipeTypeOK' /\ AnswersInv' /\ UNCHANGED <<queue, script, retries, sent>>
             /\ \A q \in Requests : file[q] = "complete" => file'[q] = "complete"
  BY <1>3 DEF Replies, Api!Reply
<1>4. CASE Crash \/ Restart
  BY <1>4 DEF Crash, Restart
<1> QED
  BY <1>1, <1>2, <1>3, <1>4 DEF ApiStep

-----------------------------------------------------------------------------
\* Every reachable state satisfies the inductive invariant.
THEOREM DeliveryInvariant == PipeSpec => []DeliveryInv
<1>1. PipeInit => DeliveryInv
  <2> SUFFICES ASSUME PipeInit PROVE DeliveryInv
    OBVIOUS
  <2>1. PipeTypeOK
    <3>1. 0 \in 0..Retries /\ 0 \in 0..MaxRequests
      BY BoundAssumption
    <3>2. /\ queue \in [Messages -> {"queued", "running", "delivered", "bounced"}]
          /\ script \in [Messages -> {"idle", "starting", "connecting", "waiting"}]
          /\ argv \in Argvs /\ env \in EnvFiles
          /\ retries \in [Messages -> 0..Retries]
          /\ sent \in [Messages -> 0..MaxRequests]
      BY <3>1 DEF PipeInit
    <3>3. /\ file \in [Requests -> {"none", "partial", "complete"}]
          /\ wire \in [Requests -> Answers \cup {"none"}]
          /\ server \in {"up", "down"} /\ live \subseteq Requests
      BY DEF PipeInit, Api!Init
    <3> QED
      BY <3>2, <3>3 DEF PipeTypeOK
  <2>2. AnswersInv
    BY DEF PipeInit, Api!Init, AnswersInv
  <2>3. \A m \in Messages : MessageInv(m)
    BY DEF PipeInit, MessageInv
  <2> QED
    BY <2>1, <2>2, <2>3 DEF DeliveryInv
<1>2. ASSUME DeliveryInv, [PipeNext]_pipeVars PROVE DeliveryInv'
  <2>1. ASSUME NEW m \in Messages, ScriptStep(m) PROVE DeliveryInv'
    <3>1. PipeTypeOK' /\ UNCHANGED <<file, wire>> /\ OtherMessages(m) /\ MessageInv(m)'
      BY <1>2, <2>1, ScriptStepInv
    <3>2. AnswersInv'
      BY <1>2, <3>1 DEF DeliveryInv, AnswersInv
    <3>3. \A o \in Messages : o # m => MessageInv(o)'
      BY <1>2, <3>1 DEF DeliveryInv, OtherMessages, MessageInv
    <3> QED
      BY <3>1, <3>2, <3>3 DEF DeliveryInv
  <2>2. CASE ApiStep
    <3>1. /\ PipeTypeOK' /\ AnswersInv' /\ UNCHANGED <<queue, script, retries, sent>>
          /\ \A r \in Requests : file[r] = "complete" => file'[r] = "complete"
      BY <1>2, <2>2, ApiStepInv DEF DeliveryInv
    <3>2. ASSUME NEW m \in Messages PROVE MessageInv(m)'
      <4>1. MessageInv(m) /\ sent[m] \in 0..MaxRequests
        BY <1>2 DEF DeliveryInv, PipeTypeOK
      <4>2. ASSUME NEW n \in 1..sent[m], file[<<m, n>>] = "complete"
            PROVE  file'[<<m, n>>] = "complete"
        <5>1. <<m, n>> \in Requests
          BY <4>1, BoundAssumption DEF Requests
        <5> QED
          BY <3>1, <4>2, <5>1
      <4> QED
        BY <3>1, <4>1, <4>2 DEF MessageInv
    <3> QED
      BY <3>1, <3>2 DEF DeliveryInv
  <2>3. CASE UNCHANGED pipeVars
    BY <1>2, <2>3 DEF pipeVars, DeliveryInv, PipeTypeOK, AnswersInv, MessageInv
  <2> QED
    BY <1>2, <2>1, <2>2, <2>3 DEF PipeNext, ScriptStep, ApiStep
<1> QED
  BY <1>1, <1>2, PTL DEF PipeSpec

\* A message that Postfix takes off its queue as delivered is completely in a
\* file, whatever crashes, timeouts, retries and late answers there were, for
\* any number of messages, retries and requests.
THEOREM DeliveredIsStored == PipeSpec => []NoLoss
<1>1. DeliveryInv => NoLoss
  BY DEF DeliveryInv, MessageInv, NoLoss
<1> QED
  BY <1>1, DeliveryInvariant, PTL

\* The variables keep their types; in particular curl's retries never take a
\* message past the requests that its run of the script may make.
THEOREM DeliveryTypes == PipeSpec => []PipeTypeOK
<1>1. DeliveryInv => PipeTypeOK
  BY DEF DeliveryInv
<1> QED
  BY <1>1, DeliveryInvariant, PTL
=============================================================================
