------------------------------ MODULE Delivery ------------------------------
(***************************************************************************)
(* The way of a message from the Postfix queue to a file, through the pipe *)
(* script and transport that internal/postfix/installer.go installs and    *)
(* the mail API, of which only InboundContract is used (InboundServer is   *)
(* shown to implement it).                                                 *)
(*                                                                         *)
(* Postfix runs the script once per delivery attempt, as user nobody; the  *)
(* script reads its environment file, if there is one, and runs curl       *)
(* with --max-time 30 --retry 3 and turns its result into an exit status,  *)
(* which Postfix reads: 0 delivered, 75 try later, anything that is not a  *)
(* sysexits code bounced.  curl retries after a timeout of its own and     *)
(* after 429, 500 and 503, and not after a refused or broken connection;   *)
(* its failure ends the script, which runs under set -e, with curl's       *)
(* status.  The API process may crash; systemd starts it again.            *)
(***************************************************************************)
EXTENDS Integers, Sequences

CONSTANTS
  Messages,      \* messages in the Postfix queue, one recipient each
  Argvs,         \* the arguments a mailapi transport may give the script
  EnvFiles,      \* what /etc/sysconfig/mailserver may be to the script
  Retries,       \* curl's --retry
  MaxRequests    \* bound on the HTTP requests made for one message

ASSUME BoundAssumption == Retries \in Nat /\ MaxRequests \in Nat
ASSUME EnvAssumption == EnvFiles \subseteq {"absent", "readable", "unreadable"}

VARIABLES
  queue,      \* of Postfix: "queued", "running", "delivered" or "bounced"
  script,     \* the script: "idle", "starting", or its curl "connecting" or
              \* "waiting"
  argv,       \* the arguments that master.cf gives the script
  env,        \* the environment file, as nobody finds it
  retries,    \* retries left in this run of curl
  sent,       \* HTTP requests made for the message
  server,     \* the API process: "up" or "down"
  live,       \* the requests the running API process has accepted
  header,     \* X-Original-Sender and X-Original-Recipient of each request
  file, wire  \* of InboundContract

scriptVars == <<queue, script, argv, env, retries, sent, header>>
pipeVars == <<queue, script, argv, env, retries, sent, server, live, header, file,
              wire>>

Requests == Messages \X (1..MaxRequests)

\* The API's answers as curl tells them apart: "ok" for 200, "transient" for
\* 429, 500 and 503, "final" for 400, 401 and 405.
Answers == {"ok", "transient", "final"}

Api == INSTANCE InboundContract
  WITH Requests <- Requests, Answers <- Answers, file <- file, wire <- wire

\* The script's ${n:-unknown}.
Arg(n) == IF n <= Len(argv) THEN argv[n] ELSE "unknown"

\* Mutant: the recipient is not validated.
Acceptable_Sender(r) == header[r].sender # "unknown"

\* The API prefers these headers to the message's own From and To, and its
\* validator takes only addresses.
Acceptable(r) ==
  header[r].sender # "unknown" /\ header[r].recipient # "unknown"

Current(m) == <<m, sent[m]>>

PipeInit ==
  /\ queue = [m \in Messages |-> "queued"]
  /\ script = [m \in Messages |-> "idle"]
  /\ argv \in Argvs /\ env \in EnvFiles
  /\ retries = [m \in Messages |-> 0]
  /\ sent = [m \in Messages |-> 0]
  /\ server = "up" /\ live = {}
  /\ header = [r \in Requests |-> [sender |-> "", recipient |-> ""]]
  /\ Api!Init

-----------------------------------------------------------------------------
\* Postfix delivers a queued message through the mailapi transport.
PickUp(m) ==
  /\ queue[m] = "queued"
  /\ sent[m] + Retries < MaxRequests
  /\ queue' = [queue EXCEPT ![m] = "running"]
  /\ script' = [script EXCEPT ![m] = "starting"]
  /\ retries' = [retries EXCEPT ![m] = Retries]
  /\ UNCHANGED <<argv, env, sent, server, live, header, file, wire>>

\* The script ends, and Postfix acts on its exit status.
Ends(m, outcome) ==
  /\ queue' = [queue EXCEPT ![m] = outcome]
  /\ script' = [script EXCEPT ![m] = "idle"]
  /\ UNCHANGED retries

Retry(m) ==
  /\ retries[m] > 0
  /\ retries' = [retries EXCEPT ![m] = @ - 1]
  /\ script' = [script EXCEPT ![m] = "connecting"]
  /\ UNCHANGED queue

\* The script sources its environment file if it exists.  Under set -e a file
\* it may not read ends it, with status 1: install writes the file with mode
\* 0600 for root, and the script runs as nobody.
LoadEnvironment(m) ==
  /\ script[m] = "starting"
  /\ IF env = "unreadable"
     THEN Ends(m, "bounced")
     ELSE /\ script' = [script EXCEPT ![m] = "connecting"]
          /\ UNCHANGED <<queue, retries>>
  /\ UNCHANGED <<argv, env, sent, server, live, header, file, wire>>

\* curl sends the request ...
Connect(m) ==
  LET r == <<m, sent[m] + 1>> IN
  /\ script[m] = "connecting" /\ server = "up"
  /\ sent' = [sent EXCEPT ![m] = @ + 1]
  /\ header' = [header EXCEPT ![r] = [sender |-> Arg(2), recipient |-> Arg(3)]]
  /\ live' = live \cup {r}
  /\ script' = [script EXCEPT ![m] = "waiting"]
  /\ UNCHANGED <<queue, argv, env, retries, server, file, wire>>

\* ... or is refused (status 7).
Refused(m) ==
  /\ script[m] = "connecting" /\ server = "down"
  /\ Ends(m, "bounced")
  /\ UNCHANGED <<argv, env, sent, server, live, header, file, wire>>

\* Mutant: the script takes every answer for success.
Answered_Unchecked(m) ==
  /\ script[m] = "waiting"
  /\ wire[Current(m)] # "none"
  /\ Ends(m, "delivered")
  /\ UNCHANGED <<argv, env, sent, server, live, header, file, wire>>

\* An answer arrives: the script exits with 0 after 2xx and with 75 after
\* anything else that curl does not retry.
Answered(m) ==
  LET answer == wire[Current(m)] IN
  /\ script[m] = "waiting"
  /\ \/ answer = "ok" /\ Ends(m, "delivered")
     \/ answer = "transient" /\ Retry(m)
     \/ answer = "transient" /\ retries[m] = 0 /\ Ends(m, "queued")
     \/ answer = "final" /\ Ends(m, "queued")
  /\ UNCHANGED <<argv, env, sent, server, live, header, file, wire>>

\* Mutant: curl has no --max-time.
CurlTimeout_Never(m) == FALSE /\ UNCHANGED pipeVars

\* --max-time passes: curl retries, and at last fails (status 28).
CurlTimeout(m) ==
  /\ script[m] = "waiting"
  /\ \/ Retry(m)
     \/ retries[m] = 0 /\ Ends(m, "bounced")
  /\ UNCHANGED <<argv, env, sent, server, live, header, file, wire>>

\* The connection breaks with the process (status 52 or 56).
Broken(m) ==
  /\ script[m] = "waiting" /\ Current(m) \notin live
  /\ Ends(m, "bounced")
  /\ UNCHANGED <<argv, env, sent, server, live, header, file, wire>>

-----------------------------------------------------------------------------
\* The API handles a request, also one that its client has given up.
StoreBegins(r) ==
  /\ r \in live /\ wire[r] = "none" /\ Acceptable(r)
  /\ Api!Begin(r)
  /\ UNCHANGED <<scriptVars, server, live>>

StoreCompletes(r) ==
  /\ r \in live
  /\ Api!Complete(r)
  /\ UNCHANGED <<scriptVars, server, live>>

Replies(r) ==
  /\ r \in live
  /\ \E answer \in Answers : Api!Reply(r, answer)
  /\ UNCHANGED <<scriptVars, server, live>>

\* The process dies, leaving the files as they are, or is started again.
Crash ==
  /\ server = "up"
  /\ server' = "down" /\ live' = {}
  /\ UNCHANGED <<scriptVars, file, wire>>

Restart ==
  /\ server = "down"
  /\ server' = "up"
  /\ UNCHANGED <<scriptVars, live, file, wire>>

-----------------------------------------------------------------------------
Script(m) ==
  \/ LoadEnvironment(m) \/ Connect(m) \/ Refused(m)
  \/ Answered(m) \/ CurlTimeout(m) \/ Broken(m)

PipeNext ==
  \/ \E m \in Messages : PickUp(m) \/ Script(m)
  \/ \E r \in Requests : StoreBegins(r) \/ StoreCompletes(r) \/ Replies(r)
  \/ Crash \/ Restart

PipeSpec == PipeInit /\ [][PipeNext]_pipeVars

\* A running script takes its next step: curl's timer sees to it.  Nothing is
\* assumed of the API, of Postfix or of systemd.
FairSpec == PipeSpec /\ \A m \in Messages : WF_pipeVars(Script(m))

-----------------------------------------------------------------------------
(***************************************************************************)
(* Properties                                                              *)
(***************************************************************************)

\* Every variable has its type; curl makes no more requests than it may.
PipeTypeOK ==
  /\ queue \in [Messages -> {"queued", "running", "delivered", "bounced"}]
  /\ script \in [Messages -> {"idle", "starting", "connecting", "waiting"}]
  /\ argv \in Argvs /\ env \in EnvFiles
  /\ retries \in [Messages -> 0..Retries]
  /\ sent \in [Messages -> 0..MaxRequests]
  /\ server \in {"up", "down"} /\ live \subseteq Requests
  /\ file \in [Requests -> {"none", "partial", "complete"}]
  /\ wire \in [Requests -> Answers \cup {"none"}]

\* A message that Postfix takes off its queue as delivered is completely in a
\* file, whatever crashes, timeouts and retries there were on the way.
NoLoss ==
  \A m \in Messages :
    queue[m] = "delivered" => \E n \in 1..sent[m] : file[<<m, n>>] = "complete"

\* A run of the script comes to an end even if the API never answers.
ScriptEnds == \A m \in Messages : queue[m] = "running" ~> queue[m] # "running"

\* "EX_TEMPFAIL - tells Postfix to retry": a failed delivery is tried again
\* later; the script bounces nothing.
FailureIsTemporary == \A m \in Messages : queue[m] # "bounced"

\* An email is never stored under another envelope than its own.  The script
\* reads its second and third argument as sender and recipient, the transport
\* that the installer writes has the two as its first and second: a request with
\* such headers is refused, and the message stays in the queue.
StoredUnderItsEnvelope ==
  \A r \in Requests :
    file[r] # "none" => header[r] = [sender |-> "sender", recipient |-> "recipient"]
=============================================================================
