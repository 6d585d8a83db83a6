----------------------------- MODULE MailConfig -----------------------------
(***************************************************************************)
(* The configuration that the install command and the domain commands keep *)
(* on a machine: internal/commands/install.go and domain.go, with          *)
(* internal/postfix/installer.go and manager.go.                           *)
(*                                                                         *)
(* The domains are in two places, the file domains.list and the parameter  *)
(* virtual_mailbox_domains of main.cf, and Postfix knows what main.cf said *)
(* when it was last started or reloaded.  A command is a series of steps,  *)
(* each a file it reads or writes or a program it runs.  Any step may fail *)
(* and end the command, which may be run again; commands take no lock.     *)
(*                                                                         *)
(* Two reads do not end a command when they fail: install asks postconf    *)
(* whether it has been here before, and reads domains.list, and takes a    *)
(* failure for an empty answer.  A file can be found missing only when it  *)
(* is.                                                                     *)
(*                                                                         *)
(* A list is the set of its domains, and the empty parameter stands for    *)
(* the "localhost" RemoveDomain writes in its place.  Every step that      *)
(* writes a file writes all of it.  The web admin's part of the install    *)
(* command touches none of this and is one step; no part is skipped.       *)
(***************************************************************************)
EXTENDS Integers, FiniteSets

CONSTANTS
  Admins,         \* processes that run commands
  Domains,
  Primary,        \* cfg.PrimaryDomain
  Default,        \* Postfix's own default for virtual_mailbox_domains
  Settings,       \* the other parameters configurePostfix sets
  Transport       \* the one of them that it tests: virtual_transport

ASSUME DomainAssumption == Primary \in Domains /\ Default \notin Domains
ASSUME SettingsAssumption == Transport \in Settings
ASSUME StoppedAssumption == "stopped" \notin Domains \cup {Default}

VARIABLES
  files,          \* the files in place
  list,           \* what domains.list holds
  settings,       \* the parameters of main.cf that have been set
  domains,        \* its virtual_mailbox_domains
  served,         \* the domains the running Postfix serves, if it runs
  pc, command,    \* of each process
  known,          \* the domains its command has read
  todo,           \* the parameters its configurePostfix has still to set
  changed,        \* history: processes whose command has changed the list
  alone,          \* history: processes whose command found a list, or is an
                  \* install, and has met no other
  cut             \* history: an install has ended after it set the transport
                  \* and before it had set and written the rest

machine == <<files, list, settings, domains, served>>
vars == <<files, list, settings, domains, served, pc, command, known, todo,
          changed, alone, cut>>

Files == {"postfix", "regex", "list", "script", "master", "unit", "env"}
NotRunning == {"stopped"}

NoCommand == [name |-> "none", domain |-> Primary]
Commands ==
  {NoCommand, [name |-> "install", domain |-> Primary]}
    \cup [name : {"add", "remove"}, domain : Domains]

Init ==
  /\ files = {} /\ list = {} /\ settings = {} /\ domains = {Default}
  /\ served = NotRunning
  /\ pc = [a \in Admins |-> "idle"]
  /\ command = [a \in Admins |-> NoCommand]
  /\ known = [a \in Admins |-> {}]
  /\ todo = [a \in Admins |-> {}]
  /\ changed = {} /\ alone = {} /\ cut = FALSE

-----------------------------------------------------------------------------
Idle == {"idle", "done"}
Busy == {a \in Admins : pc[a] \notin Idle}

Goto(a, point) == pc' = [pc EXCEPT ![a] = point]

\* One step of process a's command from one point to another.
Step(a, from, to) == pc[a] = from /\ Goto(a, to)

At(a, from, name) == pc[a] = from /\ command[a].name = name

\* A command starts.
Start(a) ==
  /\ pc[a] \in Idle
  /\ \E c \in Commands \ {NoCommand} :
       /\ command' = [command EXCEPT ![a] = c]
       /\ Goto(a, IF c.name = "install" THEN "packages" ELSE "list")
       /\ alone' = IF Busy = {} /\ (c.name = "install" \/ "list" \in files)
                   THEN {a} ELSE {}
  /\ known' = [known EXCEPT ![a] = {}]
  /\ changed' = changed \ {a}
  /\ UNCHANGED <<machine, todo, cut>>

\* An install has set the transport, and not yet all of what goes with it.
HalfConfigured(a) ==
  \/ pc[a] = "regex"
  \/ pc[a] = "settings" /\ Transport \notin todo[a]

\* A step returns an error, or the process is killed: the command ends, and
\* the machine stays as it is.
Fail(a) ==
  /\ a \in Busy
  /\ Goto(a, "idle")
  /\ command' = [command EXCEPT ![a] = NoCommand]
  /\ known' = [known EXCEPT ![a] = {}]
  /\ todo' = [todo EXCEPT ![a] = {}]
  /\ changed' = changed \ {a}
  /\ cut' = (cut \/ HalfConfigured(a))
  /\ UNCHANGED <<machine, alone>>

-----------------------------------------------------------------------------
(***************************************************************************)
(* domain add and domain remove.                                           *)
(***************************************************************************)

\* ListDomains: the file, or main.cf when there is none.
ListDomains == IF "list" \in files THEN list ELSE domains

\* AddDomain and RemoveDomain read the list.  A domain that is there already
\* makes AddDomain succeed; one that is not leaves RemoveDomain only to Fail.
ReadList(a) ==
  /\ pc[a] = "list"
  /\ known' = [known EXCEPT ![a] = ListDomains]
  /\ LET present == command[a].domain \in ListDomains
         adds == command[a].name = "add"
     IN \/ present # adds /\ Goto(a, "write")
        \/ present /\ adds /\ Goto(a, "reload")
  /\ UNCHANGED <<machine, command, todo, changed, alone, cut>>

\* AddDomain appends to the file, and makes it if need be.
AppendDomain(a) ==
  /\ At(a, "write", "add") /\ Goto(a, "postconf")
  /\ files' = files \cup {"list"}
  /\ list' = list \cup {command[a].domain}
  /\ known' = [known EXCEPT ![a] = @ \cup {command[a].domain}]
  /\ changed' = changed \cup {a}
  /\ UNCHANGED <<settings, domains, served, command, todo, alone, cut>>

\* RemoveDomain rewrites it.
RewriteList(a) ==
  /\ At(a, "write", "remove") /\ Goto(a, "postconf")
  /\ known' = [known EXCEPT ![a] = @ \ {command[a].domain}]
  /\ files' = files \cup {"list"}
  /\ list' = known[a] \ {command[a].domain}
  /\ changed' = changed \cup {a}
  /\ UNCHANGED <<settings, domains, served, command, todo, alone, cut>>

\* Mutant: the parameter gets the domains that were read, without the change.
PostconfDomains_Stale(a) ==
  /\ Step(a, "postconf", "reload")
  /\ domains' = IF command[a].name = "add" THEN known[a] \ {command[a].domain}
                                           ELSE known[a]
  /\ UNCHANGED <<files, list, settings, served, command, known, todo, changed,
                 alone, cut>>

\* Both then set the parameter to what they have worked out themselves.
PostconfDomains(a) ==
  /\ Step(a, "postconf", "reload")
  /\ domains' = known[a]
  /\ UNCHANGED <<files, list, settings, served, command, known, todo, changed,
                 alone, cut>>

\* The command reloads Postfix; a failure is only a warning.
Reload(a) ==
  /\ Step(a, "reload", "done")
  /\ \/ served # NotRunning /\ served' = domains
     \/ UNCHANGED served
  /\ UNCHANGED <<files, list, settings, domains, command, known, todo, changed,
                 alone, cut>>

-----------------------------------------------------------------------------
(***************************************************************************)
(* install.                                                                *)
(***************************************************************************)

\* A step that puts a file in place, or finds it there.
Put(a, from, file, to) ==
  /\ Step(a, from, to)
  /\ files' = files \cup {file}
  /\ UNCHANGED <<list, settings, domains, served, command, known, todo,
                 changed, alone, cut>>

InstallPackages(a) == Put(a, "packages", "postfix", "configure")

\* Mutant: configurePostfix looks at another parameter that it sets.
Configure_ByAnother(a) ==
  /\ pc[a] = "configure"
  /\ IF settings # {}
     THEN Goto(a, "update") /\ UNCHANGED todo
     ELSE Goto(a, "settings") /\ todo' = [todo EXCEPT ![a] = Settings]
  /\ UNCHANGED <<machine, command, known, changed, alone, cut>>

\* configurePostfix looks at virtual_transport alone: when it is set, the
\* rest is taken to be.  A postconf that fails has said nothing, and
\* everything is set anew.
Configure(a) ==
  /\ pc[a] = "configure"
  /\ \/ Transport \in settings /\ Goto(a, "update") /\ UNCHANGED todo
     \/ Goto(a, "settings") /\ todo' = [todo EXCEPT ![a] = Settings]
  /\ UNCHANGED <<machine, command, known, changed, alone, cut>>

\* The loop over the settings, in the random order of a Go map.  The domains
\* are one of them.
SetOne(a) ==
  /\ pc[a] = "settings"
  /\ \E k \in todo[a] :
       /\ settings' = settings \cup {k}
       /\ todo' = [todo EXCEPT ![a] = @ \ {k}]
  /\ UNCHANGED <<files, list, domains, served, pc, command, known, changed,
                 alone, cut>>

SetDomains(a) ==
  /\ pc[a] = "settings" /\ a \notin changed
  /\ domains' = {Primary}
  /\ changed' = changed \cup {a}
  /\ UNCHANGED <<files, list, settings, served, pc, command, known, todo,
                 alone, cut>>

SettingsDone(a) ==
  /\ todo[a] = {} /\ a \in changed
  /\ Step(a, "settings", "regex")
  /\ UNCHANGED <<machine, command, known, todo, changed, alone, cut>>

WriteRegex(a) == Put(a, "regex", "regex", "first")

\* domains.list, with the primary domain only.
FirstList(a) ==
  /\ Step(a, "first", "pipe")
  /\ files' = files \cup {"list"}
  /\ list' = {Primary}
  /\ UNCHANGED <<settings, domains, served, command, known, todo, changed,
                 alone, cut>>

\* Mutant: without a list, updateDomains takes what main.cf has.
UpdateDomains_FromMain(a) ==
  /\ pc[a] = "update"
  /\ known' = [known EXCEPT ![a] = ListDomains \cup {Primary}]
  /\ Goto(a, IF Primary \in ListDomains THEN "pipe" ELSE "updateList")
  /\ UNCHANGED <<machine, command, todo, changed, alone, cut>>

\* updateDomains reads the list, which counts as empty if it cannot be read,
\* and adds the primary domain if it is not there, to the list ...
UpdateDomains(a) ==
  /\ pc[a] = "update"
  /\ \E read \in {list, {}} :
       /\ known' = [known EXCEPT ![a] = read \cup {Primary}]
       /\ Goto(a, IF Primary \in read THEN "pipe" ELSE "updateList")
  /\ UNCHANGED <<machine, command, todo, changed, alone, cut>>

UpdateList(a) ==
  /\ Step(a, "updateList", "updateMain")
  /\ files' = files \cup {"list"}
  /\ list' = known[a]
  /\ changed' = changed \cup {a}
  /\ UNCHANGED <<settings, domains, served, command, known, todo, alone, cut>>

\* ... and to main.cf.
UpdateMain(a) ==
  /\ Step(a, "updateMain", "pipe")
  /\ domains' = known[a]
  /\ UNCHANGED <<files, list, settings, served, command, known, todo, changed,
                 alone, cut>>

CreatePipeScript(a) == Put(a, "pipe", "script", "master")
ConfigureMasterCF(a) == Put(a, "master", "master", "enable")

\* systemctl enable and restart.
EnablePostfix(a) ==
  /\ Step(a, "enable", "unit")
  /\ served' = domains
  /\ UNCHANGED <<files, list, settings, domains, command, known, todo, changed,
                 alone, cut>>

InstallSystemdService(a) == Put(a, "unit", "unit", "env")
CreateEnvironmentFile(a) == Put(a, "env", "env", "webadmin")

\* The web admin's part, which may fail like any other.
InstallWebAdmin(a) ==
  /\ Step(a, "webadmin", "done")
  /\ UNCHANGED <<machine, command, known, todo, changed, alone, cut>>

-----------------------------------------------------------------------------
Domain(a) ==
  \/ ReadList(a) \/ AppendDomain(a) \/ RewriteList(a) \/ PostconfDomains(a)
  \/ Reload(a)

Install(a) ==
  \/ InstallPackages(a) \/ Configure(a) \/ SetOne(a) \/ SetDomains(a)
  \/ SettingsDone(a) \/ WriteRegex(a) \/ FirstList(a) \/ UpdateDomains(a)
  \/ UpdateList(a) \/ UpdateMain(a) \/ CreatePipeScript(a)
  \/ ConfigureMasterCF(a) \/ EnablePostfix(a) \/ InstallSystemdService(a)
  \/ CreateEnvironmentFile(a) \/ InstallWebAdmin(a)

Next == \E a \in Admins : Start(a) \/ Domain(a) \/ Install(a) \/ Fail(a)

Spec == Init /\ [][Next]_vars

-----------------------------------------------------------------------------
(***************************************************************************)
(* Properties                                                              *)
(***************************************************************************)
Points ==
  Idle \cup {"list", "write", "postconf", "reload", "packages", "configure",
             "settings", "regex", "first", "update", "updateList",
             "updateMain", "pipe", "master", "enable", "unit", "env",
             "webadmin"}

\* Every variable has its type; Postfix's default never gets into the list,
\* although commands copy main.cf to it.
TypeOK ==
  /\ files \in SUBSET Files
  /\ list \in SUBSET Domains
  /\ settings \in SUBSET Settings
  /\ domains \in SUBSET (Domains \cup {Default})
  /\ served \in {NotRunning} \cup SUBSET (Domains \cup {Default})
  /\ pc \in [Admins -> Points]
  /\ command \in [Admins -> Commands]
  /\ known \in [Admins -> SUBSET (Domains \cup {Default})]
  /\ todo \in [Admins -> SUBSET Settings]
  /\ changed \in SUBSET Admins /\ alone \in SUBSET Admins /\ cut \in BOOLEAN

Finished(a) == pc[a] = "done" /\ command[a].name = "install"

\* "Installation complete!": whatever failed before and whoever interferes,
\* mail has a way to the API: Postfix runs, its transport leads to a script
\* that is there, and the list of domains and the API's service and token
\* are.  The other parameters and the map of recipients, which a later install
\* takes to be there when the transport is, are there too, unless an install
\* was cut short between the two, or is just there.
InstalledIsConnected ==
  \A a \in Admins :
    Finished(a) =>
      /\ Files \ {"regex"} \subseteq files
      /\ Transport \in settings /\ served # NotRunning
      /\ \/ "regex" \in files /\ Settings \subseteq settings
         \/ cut \/ \E b \in Admins : HalfConfigured(b)

\* Past the point where a command has set the parameter, main.cf and the list
\* agree again, whatever earlier commands left half done, if the command has
\* changed something, met no other, and found a list.
PastConfig == {"reload", "pipe", "master", "enable", "unit", "env", "webadmin",
               "done"}
Reconciles ==
  \A a \in changed \cap alone : pc[a] \in PastConfig => domains = list
=============================================================================
