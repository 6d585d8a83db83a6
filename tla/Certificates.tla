---------------------------- MODULE Certificates ----------------------------
(***************************************************************************)
(* The server's certificate: the commands `ssl setup` and `ssl renew`, the *)
(* certificate steps of `install`, and the systemd timer that `ssl setup`  *)
(* creates (internal/ssl, internal/commands/ssl.go and install.go).        *)
(*                                                                         *)
(* The certificate and its key are two files, written one after the other; *)
(* a write that is cut short leaves a truncated file.  Every step may fail *)
(* and a command may be killed anywhere; the administrator's command and   *)
(* the timer's run at the same time.  Days pass.  The two CAs, Let's       *)
(* Encrypt's production and staging, are external: one refuses an account  *)
(* that it does not know and that does not agree to its terms, issues a    *)
(* certificate for a new key, and on renewal for the key it is given.      *)
(***************************************************************************)
EXTENDS Integers, Sequences

CONSTANTS
  AdminCommands,  \* of "setup", "staging" (ssl setup --staging), "renew", "install"
  DirsAtStart,    \* initial values of dir
  Lifetime,       \* days a certificate is valid for
  Threshold,      \* renewal is due with fewer whole days left
  MaxOutage,      \* bound on the days in a row on which renewal cannot work
  MaxDays, MaxKeys  \* bounds on the days that pass and the keys made

\* An administrator may have made the directory before, passable to all.
ASSUME DirsAssumption == DirsAtStart \subseteq {"none", "open"}

ASSUME BoundAssumption ==
  /\ Lifetime \in Nat /\ Threshold \in 2..Lifetime /\ MaxOutage \in Nat
  /\ MaxOutage <= Threshold - 2
  /\ MaxDays \in Nat /\ MaxKeys \in Nat

VARIABLES
  day,
  dir,       \* /etc/mailserver/certs: "none", "closed" to all but root, or "open"
  cert,      \* cert.pem: [key, until, ca]; key 0 if there is no file
  key,       \* key.pem: the key, 0 if there is no file
  owner,     \* whose key.pem is: "root", "mailserver", "refused" if chown failed
  self,      \* the self-signed pair: "none", or whose it is, as above
  known,     \* the CAs that know the account of account.key
  timer,     \* the renewal timer is running
  ran,       \* it has fired today
  outage,    \* days in a row on which its command failed by a fault
  web,       \* the pair webadmin is configured with: "none", "acme" or "self"
  keys,      \* keys made so far
  cmd, at,   \* each actor's command, and the step it is at
  got,       \* the certificate it was issued
  alone,     \* no other command has run since it started
  torn       \* a command has ended in or between the writes, or two have run at once

files == <<dir, cert, key, owner, self, known, web>>
clock == <<day, ran, outage, timer>>
jobs == <<cmd, at, got, alone>>
vars == <<day, dir, cert, key, owner, self, known, timer, ran, outage, web, keys,
          cmd, at, got, alone, torn>>

Actors == {"admin", "timer"}
Setups == {"setup", "staging"}
NoCert == [key |-> 0, until |-> 0, ca |-> "none"]
CutKey == -1                                \* a truncated key.pem
CutCert == [key |-> CutKey, until |-> 0, ca |-> "none"]    \* a truncated cert.pem

Init ==
  /\ day = 0 /\ dir \in DirsAtStart /\ cert = NoCert /\ key = 0 /\ owner = "root"
  /\ self = "none" /\ known = {}
  /\ timer = FALSE /\ ran = FALSE /\ outage = 0 /\ web = "none" /\ keys = 0
  /\ cmd = [a \in Actors |-> "none"] /\ at = [a \in Actors |-> "idle"]
  /\ got = [a \in Actors |-> NoCert] /\ alone = [a \in Actors |-> FALSE]
  /\ torn = FALSE

-----------------------------------------------------------------------------
Goto(a, step) ==
  /\ at' = [at EXCEPT ![a] = step]
  /\ UNCHANGED <<cmd, got, alone>>

\* The command ends, by a fault or not.
Finish(a, fault) ==
  /\ at' = [at EXCEPT ![a] = "idle"]
  /\ cmd' = [cmd EXCEPT ![a] = "none"]
  /\ got' = [got EXCEPT ![a] = NoCert]
  /\ UNCHANGED alone
  /\ outage' = IF a # "timer" THEN outage ELSE IF fault THEN outage + 1 ELSE 0

\* A fault of the system: the CA or the disk does not do what it is asked.
\* On the timer's side it happens on MaxOutage days in a row at most.
MayFail(a) == a = "timer" => outage < MaxOutage

\* ObtainCertificate returns an error.  The installer goes on with a
\* self-signed certificate, the other commands end.
ObtainFails(a, fault) ==
  IF cmd[a] = "install" THEN Goto(a, "selfsign") /\ UNCHANGED outage
                        ELSE Finish(a, fault)

\* A command begins.  The installer obtains no certificate if there is one.
Start(a, c) ==
  /\ at[a] = "idle"
  /\ a = "timer" => timer /\ ~ran /\ c = "renew"
  /\ a = "admin" => c \in AdminCommands
  /\ cmd' = [cmd EXCEPT ![a] = c]
  /\ at' = [at EXCEPT ![a] =
              CASE c = "renew" -> "due"
                [] c = "install" /\ cert # NoCert -> "webenv"
                [] OTHER -> "client"]
  /\ LET others == \E o \in Actors \ {a} : at[o] # "idle" IN
     /\ alone' = [b \in Actors |-> b = a /\ ~others]
     /\ torn' = (torn \/ others)
  /\ ran' = (ran \/ a = "timer")
  /\ UNCHANGED <<day, outage, timer, files, keys, got>>

\* Mutant: renewal is due a day later.
RenewalNeeded_Late(left) == left < Threshold - 1

\* RenewalNeeded: the days left are truncated to whole ones.
RenewalNeeded(left) == left < Threshold

\* `ssl renew` asks whether it is time.  Without a certificate it is; with one
\* the hour of the day decides between the two numbers of days; one that does
\* not parse is an error.
CheckRenewal(a) ==
  /\ at[a] = "due"
  /\ \/ cert = NoCert /\ Goto(a, "client") /\ UNCHANGED outage
     \/ cert = CutCert /\ Finish(a, FALSE)
     \/ /\ cert \notin {NoCert, CutCert}
        /\ \E left \in {cert.until - day - 1, cert.until - day} :
             IF RenewalNeeded(left) THEN Goto(a, "client") /\ UNCHANGED outage
                                    ELSE Finish(a, FALSE)
  /\ UNCHANGED <<day, ran, timer, files, keys, torn>>

\* `ssl renew --force`: a certificate that does not parse is an error even so.
ForceRenewal ==
  /\ at["admin"] = "due" /\ cert # CutCert
  /\ Goto("admin", "client")
  /\ UNCHANGED <<clock, files, keys, torn>>

\* The terms are agreed to by the installer, by `ssl setup` with a flag, and
\* not by `ssl renew`.
MayAgree(a) == cmd[a] # "renew"
MayDecline(a) == cmd[a] # "install"

\* ObtainCertificate makes the directory if there is none.
MakeDir(a) == dir' = IF cmd[a] # "renew" /\ dir = "none" THEN "closed" ELSE dir

\* The CA of the client: `ssl renew` and the installer know no staging.
CA(a) == IF cmd[a] = "staging" THEN "staging" ELSE "production"

\* getOrCreateAccountKey: a key that is there is used again, and with it the
\* account of every CA it was registered with; a new one is known to none.
AccountKnown(a) == CA(a) \in known

\* setupClient: the account is registered, which one that the CA knows is again.
SetupClient(a) ==
  /\ at[a] = "client"
  /\ MakeDir(a)
  /\ \/ /\ AccountKnown(a) \/ MayAgree(a)
        /\ known' = known \cup {CA(a)}
        /\ Goto(a, IF cmd[a] = "renew" THEN "read" ELSE "issue")
        /\ UNCHANGED outage
     \/ ~AccountKnown(a) /\ MayDecline(a) /\ UNCHANGED known
        /\ ObtainFails(a, FALSE)
     \/ /\ MayFail(a) /\ ObtainFails(a, TRUE)
        /\ known' \in {known} \cup (IF MayAgree(a) THEN {known \cup {CA(a)}} ELSE {})
  /\ UNCHANGED <<day, ran, timer, cert, key, owner, self, web, keys, torn>>

\* RenewCertificate reads and parses both files; the new certificate is for the key read.
ReadPair(a) ==
  /\ at[a] = "read"
  /\ \/ /\ cert \notin {NoCert, CutCert} /\ key \notin {0, CutKey}
        /\ got' = [got EXCEPT ![a].key = key]
        /\ at' = [at EXCEPT ![a] = "issue"]
        /\ UNCHANGED <<cmd, alone, outage>>
     \/ /\ cert \in {NoCert, CutCert} \/ key \in {0, CutKey}
        /\ Finish(a, FALSE)
  /\ UNCHANGED <<day, ran, timer, files, keys, torn>>

\* The CA issues the certificate (Obtain, Renew).
Issue(a) ==
  /\ at[a] = "issue"
  /\ \/ /\ cmd[a] = "renew" \/ keys < MaxKeys
        /\ keys' = IF cmd[a] = "renew" THEN keys ELSE keys + 1
        /\ got' = [got EXCEPT ![a] =
             [key |-> IF cmd[a] = "renew" THEN @.key ELSE keys',
              until |-> day + Lifetime, ca |-> CA(a)]]
        /\ at' = [at EXCEPT ![a] = "cert"]
        /\ UNCHANGED <<cmd, alone, outage>>
     \/ MayFail(a) /\ ObtainFails(a, TRUE) /\ UNCHANGED keys
  /\ UNCHANGED <<day, ran, timer, files, torn>>

\* The certificate is written ...
WriteCert(a) ==
  /\ at[a] = "cert"
  /\ \/ cert' = got[a] /\ Goto(a, "key") /\ UNCHANGED <<outage, torn>>
     \/ /\ MayFail(a) /\ cert' \in {cert, CutCert} /\ ObtainFails(a, TRUE)
        /\ torn' = (torn \/ cert' = CutCert)
  /\ UNCHANGED <<day, ran, timer, dir, key, owner, self, known, web, keys>>

\* Mutant: a key file that is there is kept.
KeyToWrite_Keep(a) == IF key = 0 THEN got[a].key ELSE key

KeyToWrite(a) == got[a].key

\* ... and then its key: a file that is there keeps its owner and mode, a new
\* one is root's and private.
WriteKey(a) ==
  /\ at[a] = "key"
  /\ \/ /\ key' = KeyToWrite(a)
        /\ Goto(a, CASE cmd[a] = "renew" -> "reload" [] cmd[a] = "install" -> "share"
                     [] OTHER -> "configure")
        /\ UNCHANGED <<outage, torn>>
     \/ MayFail(a) /\ key' \in {key, CutKey} /\ ObtainFails(a, TRUE) /\ torn' = TRUE
  /\ UNCHANGED <<day, ran, timer, dir, cert, owner, self, known, web, keys>>

\* The installer gives the files it has obtained to mailserver, whom webadmin
\* runs as; a failure is a warning.
ShareKey(a) ==
  /\ at[a] = "share"
  /\ owner' \in {"mailserver", "refused"}
  /\ Goto(a, "configure")
  /\ UNCHANGED <<clock, dir, cert, key, self, known, web, keys, torn>>

\* The reload at the end of `ssl renew`: its failure is a warning.
ReloadPostfix(a) ==
  /\ at[a] = "reload"
  /\ Finish(a, FALSE)
  /\ UNCHANGED <<day, ran, timer, files, keys, torn>>

\* ConfigurePostfix: only a failed reload is an error, which ends `ssl setup`
\* and is a warning to the installer.
ConfigurePostfix(a) ==
  /\ at[a] = "configure"
  /\ \/ Goto(a, IF cmd[a] \in Setups THEN "timer" ELSE "webenv") /\ UNCHANGED outage
     \/ cmd[a] \in Setups /\ Finish(a, FALSE)
  /\ UNCHANGED <<day, ran, timer, files, keys, torn>>

\* SetupAutoRenewal, in `ssl setup` only; a failure is a warning.
SetupAutoRenewal(a) ==
  /\ at[a] = "timer"
  /\ timer' \in {timer, TRUE}
  /\ Finish(a, FALSE)
  /\ UNCHANGED <<day, ran, files, keys, torn>>

\* The installer's fallback; openssl may fail, which ends the installation.  Its
\* pair is given to mailserver; that it cannot be is a warning.
SelfSign(a) ==
  /\ at[a] = "selfsign"
  /\ \/ self' \in {"mailserver", "refused"} /\ Goto(a, "webenv") /\ UNCHANGED outage
     \/ UNCHANGED self /\ Finish(a, FALSE)
  /\ UNCHANGED <<day, ran, timer, dir, cert, key, owner, known, web, keys, torn>>

\* Mutant: the fallback is configured whatever there is.
WebPair_Self == "self"

\* The pair for webadmin is chosen by whether cert.pem is there ...
WebPair == IF cert # NoCert THEN "acme" ELSE "self"

\* ... and written to its environment file, unless that fails.
WriteWebEnv(a) ==
  /\ at[a] = "webenv"
  /\ web' \in {WebPair, web} /\ Finish(a, FALSE)
  /\ UNCHANGED <<day, ran, timer, dir, cert, key, owner, self, known, keys, torn>>

\* A command is killed, or the host restarts, perhaps in the middle of a write.
Kill(a) ==
  /\ at[a] # "idle" /\ MayFail(a)
  /\ cert' \in {cert} \cup (IF at[a] = "cert" THEN {CutCert} ELSE {})
  /\ key' \in {key} \cup (IF at[a] = "key" THEN {CutKey} ELSE {})
  /\ torn' = (torn \/ at[a] = "key" \/ cert' # cert)
  /\ self' \in {self} \cup (IF at[a] = "selfsign" /\ self = "none" THEN {"root"} ELSE {})
  /\ Finish(a, TRUE)
  /\ UNCHANGED <<day, ran, timer, dir, owner, known, web, keys>>

\* A day passes; the timer is persistent and fires every day, and a command
\* takes minutes: it ends on the day it begins.
NextDay ==
  /\ day < MaxDays /\ (timer => ran) /\ \A a \in Actors : at[a] = "idle"
  /\ day' = day + 1 /\ ran' = FALSE
  /\ UNCHANGED <<outage, timer, files, keys, jobs, torn>>

Next ==
  \/ NextDay \/ ForceRenewal
  \/ \E a \in Actors :
       \/ \E c \in {"setup", "staging", "renew", "install"} : Start(a, c)
       \/ CheckRenewal(a) \/ SetupClient(a) \/ ReadPair(a) \/ Issue(a)
       \/ WriteCert(a) \/ WriteKey(a) \/ ShareKey(a)
       \/ ReloadPostfix(a) \/ ConfigurePostfix(a)
       \/ SetupAutoRenewal(a) \/ SelfSign(a) \/ WriteWebEnv(a) \/ Kill(a)

Spec == Init /\ [][Next]_vars

-----------------------------------------------------------------------------
\* Mutual consistency of the two files.
PairMatches == cert.key = key /\ key \notin {0, CutKey}

Valid == day < cert.until

\* A command that was issued a certificate, wrote both files and ran alone has
\* left a pair that fits, whatever torn or mixed pair earlier commands that
\* failed or were killed have left behind.
CommandLeavesPair ==
  \A a \in Actors :
    at[a] \in {"share", "reload", "configure", "timer"} /\ alone[a] => PairMatches

\* Once the timer runs, a certificate of the production CA never expires, though
\* renewal may not work for MaxOutage days in a row, commands are killed, pairs
\* do not fit, and the administrator runs other commands at the same time; unless
\* one of the files is truncated, which `ssl renew` never repairs.  A certificate
\* of the staging CA may: `ssl renew` asks the production CA, which may not know
\* the account, and agrees to no terms.
TimerKeepsValid ==
  timer /\ cert # CutCert /\ key # CutKey =>
    cert # NoCert /\ (cert.ca = "production" => Valid)

\* The files webadmin is configured with are a pair that fits, unless some
\* command ended in or between the writes or two ran at once: a certificate
\* that is there decides for the one pair, and then its key is there too.
WebPairFits ==
  (\A a \in Actors : at[a] = "idle") /\ ~torn =>
    /\ web = "acme" => PairMatches
    /\ web = "self" => self # "none"

\* After an installation webadmin, which runs as mailserver, can read the pair it
\* is configured with, if nothing was torn and no chown has failed: the HTTPS
\* server "with existing SSL certificates" of the changelog.
WebAdminCanStart ==
  (\A a \in Actors : at[a] = "idle") /\ ~torn =>
    /\ web = "acme" /\ owner # "refused" => dir = "open" /\ owner = "mailserver"
    /\ web = "self" /\ self # "refused" => self = "mailserver"
=============================================================================
