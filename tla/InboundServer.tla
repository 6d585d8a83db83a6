--------------------------- MODULE InboundServer ----------------------------
(***************************************************************************)
(* One run of the mail API process (internal/api/server.go behind the      *)
(* middleware chain of internal/middleware), as POST /mail/inbound drives  *)
(* it.                                                                     *)
(*                                                                         *)
(* A request has two goroutines when the handler timeout is configured:    *)
(* the connection's goroutine ("outer"), which waits in TimeoutMiddleware  *)
(* for the handler or the deadline, and the one that runs the rest of the  *)
(* chain ("inner").  They share the timeoutWriter.  Nothing stops the      *)
(* inner goroutine when the outer one gives up.                            *)
(*                                                                         *)
(* net/http's Server.Shutdown is external: it closes the listener and      *)
(* waits until every connection is idle, that is until every outer         *)
(* goroutine has returned.                                                 *)
(*                                                                         *)
(* The decision of the rate limiter is a free choice here.  Stored files   *)
(* have distinct names.                                                    *)
(***************************************************************************)
EXTENDS Integers, FiniteSets

CONSTANTS
  Requests,     \* HTTP requests, each sent once
  Valid,        \* those whose email is parsed, validated and not rejected by
                \* policy
  TimeoutOn     \* HandlerTimeout > 0: TimeoutMiddleware is in the chain

ASSUME RequestsAssumption == IsFiniteSet(Requests) /\ Valid \subseteq Requests
ASSUME TimeoutAssumption == TimeoutOn \in BOOLEAN

VARIABLES
  phase,          \* of the process; "serving" until Shutdown is called
  activeRequests, \* s.activeRequests
  totalEmails,    \* s.metrics.TotalEmails
  outer,          \* the connection's goroutine of each request
  inner,          \* the goroutine that runs its handler
  status,         \* the response the handler decided on
  tw,             \* the request's timeoutWriter
  wire,           \* the status line the client is sent
  file,           \* the file Store writes for the request
  lateWrite       \* history: requests whose inner goroutine wrote to the
                  \* ResponseWriter after the outer one had returned

serverVars == <<phase, activeRequests, totalEmails>>
vars == <<phase, activeRequests, totalEmails, outer, inner, status, tw, wire,
          file, lateWrite>>

(***************************************************************************)
(* Responses: ok 200, rejected 400/405, unauthorized 401, limited 429,     *)
(* error 500 after a failed Store, panic 500 from RecoveryMiddleware,      *)
(* unavailable 503 from the shutdown gate, timeout 503 from                *)
(* TimeoutMiddleware.                                                      *)
(***************************************************************************)
Answers == {"ok", "rejected", "unauthorized", "limited", "error", "panic",
            "unavailable", "timeout"}

Phases == {"serving", "stopping", "draining", "drained", "forced", "exited",
           "crashed"}
Running == Phases \ {"exited", "crashed"}

InnerPoints == {"none", "limiter", "gate", "entering", "handling", "storing",
                "stored", "ack", "header", "body", "leaving", "done"}

\* A handler that chose one of these was never counted, or no longer is: the
\* rate limiter and the gate answer before activeRequests is incremented, and
\* a panic has unwound through the deferred decrement.
Uncounted == {"limited", "unavailable", "panic"}

Init ==
  /\ phase = "serving" /\ activeRequests = 0 /\ totalEmails = 0
  /\ outer = [r \in Requests |-> "none"]
  /\ inner = [r \in Requests |-> "none"]
  /\ status = [r \in Requests |-> "none"]
  /\ tw = [r \in Requests |-> "fresh"]
  /\ wire = [r \in Requests |-> "none"]
  /\ file = [r \in Requests |-> "none"]
  /\ lateWrite = {}

-----------------------------------------------------------------------------
Goto(r, point) == inner' = [inner EXCEPT ![r] = point]

\* The handler picks an error response; SendErrorResponse writes it.
Answer(r, answer) ==
  /\ status' = [status EXCEPT ![r] = answer]
  /\ Goto(r, "header")

\* A request on an open listener enters the chain.
Arrive(r) ==
  /\ phase \in {"serving", "stopping"}
  /\ outer[r] = "none"
  /\ outer' = [outer EXCEPT ![r] = "waiting"]
  /\ Goto(r, "limiter")
  /\ UNCHANGED <<serverVars, status, tw, wire, file, lateWrite>>

\* RateLimiter.Middleware.
RateLimit(r) ==
  /\ inner[r] = "limiter"
  /\ \/ Goto(r, "gate") /\ UNCHANGED status
     \/ Answer(r, "limited")
  /\ UNCHANGED <<serverVars, outer, tw, wire, file, lateWrite>>

\* activeRequestsMiddleware: the test of shutdownStarted ...
Gate(r) ==
  /\ inner[r] = "gate"
  /\ IF phase = "serving"
     THEN Goto(r, "entering") /\ UNCHANGED status
     ELSE Answer(r, "unavailable")
  /\ UNCHANGED <<serverVars, outer, tw, wire, file, lateWrite>>

\* ... and, a step later, the increment.
Enter(r) ==
  /\ inner[r] = "entering"
  /\ activeRequests' = activeRequests + 1
  /\ Goto(r, "handling")
  /\ UNCHANGED <<phase, totalEmails, outer, status, tw, wire, file, lateWrite>>

\* requireAuth turns the request away, or handleMailInbound finds the method,
\* the body, the format, the addresses or the authentication result wanting.
Reject(r) ==
  /\ inner[r] = "handling"
  /\ \/ Answer(r, "unauthorized")
     \/ r \notin Valid /\ Answer(r, "rejected")
  /\ UNCHANGED <<serverVars, outer, tw, wire, file, lateWrite>>

\* Mutant: the decrement is not deferred.
HandlerPanics_StaysCounted(r) ==
  /\ inner[r] = "handling"
  /\ Answer(r, "panic")
  /\ UNCHANGED <<serverVars, outer, tw, wire, file, lateWrite>>

\* Parsing or verification panics: the stack unwinds through the deferred
\* decrement to RecoveryMiddleware.
HandlerPanics(r) ==
  /\ inner[r] = "handling"
  /\ activeRequests' = activeRequests - 1
  /\ Answer(r, "panic")
  /\ UNCHANGED <<phase, totalEmails, outer, tw, wire, file, lateWrite>>

(***************************************************************************)
(* FileStorage.Store: os.WriteFile creates the file and then fills it; an  *)
(* error leaves what has been written.                                     *)
(***************************************************************************)
StoreBegin(r) ==
  /\ inner[r] = "handling" /\ r \in Valid
  /\ file' = [file EXCEPT ![r] = "partial"]
  /\ Goto(r, "storing")
  /\ UNCHANGED <<serverVars, outer, status, tw, wire, lateWrite>>

StoreCompletes(r) ==
  /\ inner[r] = "storing"
  /\ file' = [file EXCEPT ![r] = "complete"]
  /\ Goto(r, "stored")
  /\ UNCHANGED <<serverVars, outer, status, tw, wire, lateWrite>>

\* Mutant: the error of Store is not looked at.
StoreFails_Ignored(r) ==
  /\ inner[r] = "storing"
  /\ Goto(r, "stored")
  /\ UNCHANGED <<serverVars, outer, status, tw, wire, file, lateWrite>>

\* The directory, the random name or the file cannot be made, or the write
\* stops short: handleMailInbound answers 500.
StoreFails(r) ==
  /\ \/ inner[r] = "handling" /\ r \in Valid
     \/ inner[r] = "storing"
  /\ Answer(r, "error")
  /\ UNCHANGED <<serverVars, outer, tw, wire, file, lateWrite>>

\* handleMailInbound counts the email before it answers.
RecordSuccess(r) ==
  /\ inner[r] = "stored"
  /\ totalEmails' = totalEmails + 1
  /\ status' = [status EXCEPT ![r] = "ok"]
  /\ Goto(r, "ack")
  /\ UNCHANGED <<phase, activeRequests, outer, tw, wire, file, lateWrite>>

\* Mutant: WriteHeader passes every status on.
WriteHeader_Unguarded(r) ==
  /\ inner[r] = "header"
  /\ tw' = [tw EXCEPT ![r] = "written"]
  /\ wire' = [wire EXCEPT ![r] = status[r]]
  /\ Goto(r, "body")
  /\ UNCHANGED <<serverVars, outer, status, file, lateWrite>>

(***************************************************************************)
(* timeoutWriter.  tw[r] is "fresh", "written" or, once the deadline found *)
(* it fresh, "timedOut" (written and timedOut both set).                   *)
(***************************************************************************)
WriteHeader(r) ==
  /\ inner[r] = "header"
  /\ IF tw[r] = "fresh"
     THEN /\ tw' = [tw EXCEPT ![r] = "written"]
          /\ wire' = [wire EXCEPT ![r] = status[r]]
     ELSE UNCHANGED <<tw, wire>>
  /\ Goto(r, "body")
  /\ UNCHANGED <<serverVars, outer, status, file, lateWrite>>

\* Mutant: Write passes everything on.
Write_Unguarded(r) ==
  /\ inner[r] \in {"body", "ack"}
  /\ tw' = [tw EXCEPT ![r] = "written"]
  /\ wire' = [wire EXCEPT ![r] = IF @ = "none" THEN "ok" ELSE @]
  /\ lateWrite' = IF outer[r] = "returned" THEN lateWrite \cup {r} ELSE lateWrite
  /\ Goto(r, "leaving")
  /\ UNCHANGED <<serverVars, outer, status, file>>

\* Write, by the JSON encoder: of an error body after its header, or of the
\* success body, whose first write sends the 200 header.  Discarded when
\* timedOut is set.
Write(r) ==
  /\ inner[r] \in {"body", "ack"}
  /\ IF tw[r] = "timedOut"
     THEN UNCHANGED <<tw, wire, lateWrite>>
     ELSE /\ tw' = [tw EXCEPT ![r] = "written"]
          /\ wire' = [wire EXCEPT ![r] = IF @ = "none" THEN "ok" ELSE @]
          /\ lateWrite' = IF outer[r] = "returned" THEN lateWrite \cup {r}
                                                   ELSE lateWrite
  /\ Goto(r, "leaving")
  /\ UNCHANGED <<serverVars, outer, status, file>>

\* Mutant: the decrement is deferred before the gate is tested.
Leave_Always(r) ==
  /\ inner[r] = "leaving"
  /\ activeRequests' = activeRequests - 1
  /\ Goto(r, "done")
  /\ UNCHANGED <<phase, totalEmails, outer, status, tw, wire, file, lateWrite>>

\* The deferred decrement, for requests that were counted.
Leave(r) ==
  /\ inner[r] = "leaving"
  /\ activeRequests' =
       IF status[r] \in Uncounted THEN activeRequests ELSE activeRequests - 1
  /\ Goto(r, "done")
  /\ UNCHANGED <<phase, totalEmails, outer, status, tw, wire, file, lateWrite>>

-----------------------------------------------------------------------------
(***************************************************************************)
(* The select of TimeoutMiddleware, in the connection's goroutine.         *)
(***************************************************************************)
HandlerDone(r) ==
  /\ outer[r] = "waiting" /\ inner[r] = "done"
  /\ outer' = [outer EXCEPT ![r] = "returned"]
  /\ UNCHANGED <<serverVars, inner, status, tw, wire, file, lateWrite>>

\* Mutant: the select waits for the handler only.
Deadline_NotSelected(r) == FALSE /\ UNCHANGED vars

\* The deadline passes or the client goes away.
Deadline(r) ==
  /\ TimeoutOn
  /\ outer[r] = "waiting"
  /\ outer' = [outer EXCEPT ![r] = "returned"]
  /\ IF tw[r] = "fresh"
     THEN /\ tw' = [tw EXCEPT ![r] = "timedOut"]
          /\ wire' = [wire EXCEPT ![r] = "timeout"]
     ELSE UNCHANGED <<tw, wire>>
  /\ UNCHANGED <<serverVars, inner, status, file, lateWrite>>

-----------------------------------------------------------------------------
(***************************************************************************)
(* Shutdown: a signal ends Start, Shutdown sets shutdownStarted, then      *)
(* httpServer.Shutdown closes the listener and returns nil when every      *)
(* connection is idle, or an error when 30 seconds have passed; the        *)
(* command then returns and the process exits.  A crash may come any time. *)
(***************************************************************************)
PhaseStep(from, to) ==
  /\ phase \in from
  /\ phase' = to
  /\ UNCHANGED <<activeRequests, totalEmails, outer, inner, status, tw, wire,
                 file, lateWrite>>

\* Mutants: the server is closed without waiting for its connections; the
\* command waits for every handler before it returns.
ShutdownReturns_AtOnce == PhaseStep({"draining"}, "drained")
Exit_Waits == activeRequests = 0 /\ PhaseStep({"drained", "forced"}, "exited")

ConnectionsIdle == \A r \in Requests : outer[r] # "waiting"

BeginShutdown == PhaseStep({"serving"}, "stopping")
CloseListener == PhaseStep({"stopping"}, "draining")
ShutdownReturns == ConnectionsIdle /\ PhaseStep({"draining"}, "drained")
ShutdownDeadline == PhaseStep({"draining"}, "forced")
Exit == PhaseStep({"drained", "forced"}, "exited")
Crash == PhaseStep(Running, "crashed")

InnerStep(r) ==
  \/ RateLimit(r) \/ Gate(r) \/ Enter(r) \/ Reject(r) \/ HandlerPanics(r)
  \/ StoreBegin(r) \/ StoreCompletes(r) \/ StoreFails(r) \/ RecordSuccess(r)
  \/ WriteHeader(r) \/ Write(r) \/ Leave(r)

OuterStep(r) == HandlerDone(r) \/ Deadline(r)

ShutdownStep == CloseListener \/ ShutdownReturns \/ ShutdownDeadline \/ Exit

\* Goroutines run only while the process does.
RequestStep(r) ==
  phase \in Running /\ (InnerStep(r) \/ OuterStep(r))

Gone == phase \in {"exited", "crashed"} /\ UNCHANGED vars

Next ==
  \/ \E r \in Requests : Arrive(r) \/ RequestStep(r)
  \/ BeginShutdown \/ ShutdownStep \/ Crash
  \/ Gone

Spec == Init /\ [][Next]_vars

(***************************************************************************)
(* The select of TimeoutMiddleware and Shutdown are scheduled, and their   *)
(* timers fire.  Nobody need send a request or the signal, and a handler   *)
(* may hang for ever, on its body, on DNS or on the disk.                  *)
(***************************************************************************)
Fairness ==
  /\ \A r \in Requests : WF_vars(phase \in Running /\ OuterStep(r))
  /\ WF_vars(ShutdownStep)

FairSpec == Spec /\ Fairness

-----------------------------------------------------------------------------
(***************************************************************************)
(* Properties                                                              *)
(***************************************************************************)

\* Every variable has its type; activeRequests, an atomic.Int64, is not
\* driven below zero by refusals and panics.
TypeOK ==
  /\ phase \in Phases
  /\ activeRequests \in Nat /\ totalEmails \in Nat
  /\ outer \in [Requests -> {"none", "waiting", "returned"}]
  /\ inner \in [Requests -> InnerPoints]
  /\ status \in [Requests -> Answers \cup {"none"}]
  /\ tw \in [Requests -> {"fresh", "written", "timedOut"}]
  /\ wire \in [Requests -> Answers \cup {"none"}]
  /\ file \in [Requests -> {"none", "partial", "complete"}]
  /\ lateWrite \in SUBSET Requests

\* The requests inside activeRequestsMiddleware's increment and decrement.
InHandler(r) ==
  \/ inner[r] \in {"handling", "storing", "stored", "ack"}
  \/ inner[r] \in {"header", "body", "leaving"} /\ status[r] \notin Uncounted

\* The emails that are stored and counted.
Recorded(r) == file[r] = "complete" /\ inner[r] # "stored"

\* activeRequests is the number of requests in the handler, through timeouts,
\* panics and refusals at the gate, and TotalEmails the number of complete
\* files of handlers past the count.
CountersExact ==
  /\ activeRequests = Cardinality({r \in Requests : InHandler(r)})
  /\ totalEmails = Cardinality({r \in Requests : Recorded(r)})

\* A client is told 200 only when its email is completely on disk, whatever
\* the deadline, the panics and the shutdown do meanwhile.
AckedIsStored == \A r \in Requests : wire[r] = "ok" => file[r] = "complete"

\* The server implements the contract its clients rely on: although the
\* deadline and the handler race for the timeoutWriter, only the first answers,
\* and only a stored email is acknowledged.
Contract == INSTANCE InboundContract
  WITH Requests <- Requests, Answers <- Answers, file <- file, wire <- wire
ImplementsContract == Contract!Spec

\* A connection whose goroutine has returned has been answered.
AnsweredBeforeReturn ==
  \A r \in Requests : outer[r] = "returned" => wire[r] # "none"

(***************************************************************************)
(* The inductive invariant: what is known of a request at each point of    *)
(* its handler.                                                            *)
(***************************************************************************)
RequestInv(r) ==
  /\ outer[r] = "none" <=> inner[r] = "none"
  /\ tw[r] = "fresh" <=> wire[r] = "none"
  /\ inner[r] \in {"none", "limiter", "gate", "entering", "handling"} =>
       file[r] = "none" /\ status[r] = "none"
  /\ inner[r] = "storing" => file[r] = "partial" /\ status[r] = "none"
  /\ inner[r] = "stored" => file[r] = "complete" /\ status[r] = "none"
  /\ inner[r] = "ack" => file[r] = "complete" /\ status[r] = "ok"
  /\ inner[r] \in {"header", "body"} =>
       file[r] # "complete" /\ status[r] \notin {"ok", "none"}
  /\ inner[r] \in {"body", "leaving", "done"} => wire[r] # "none"
  /\ inner[r] \in {"leaving", "done"} => file[r] = "complete" \/ status[r] # "ok"
  /\ wire[r] = "ok" => file[r] = "complete"
  /\ outer[r] = "returned" => wire[r] # "none"

ServerInv ==
  TypeOK /\ CountersExact /\ \A r \in Requests : RequestInv(r)

\* What Shutdown's success means, although it waits for connections and not for
\* handlers: an email still in its handler when the
\* process goes on to exit has been answered with the timeout, so that its
\* sender tries again.
DrainedLosesNothing ==
  phase = "drained" =>
    \A r \in Requests :
      inner[r] \in {"handling", "storing", "stored"} => wire[r] = "timeout"

\* A client that has been told of the timeout gets nothing more of the
\* handler's, although that runs on and may write to a connection that is no
\* longer its own (timeout.go:97).
TimeoutIsFinal == \A r \in lateWrite : wire[r] # "timeout"

\* Every request that has arrived is answered even if its handler hangs, unless
\* the process ends.
EveryRequestAnswered ==
  \A r \in Requests :
    outer[r] = "waiting" ~> outer[r] = "returned" \/ phase \notin Running

\* Shutdown ends, with every connection idle or by its own deadline, even if a
\* handler hangs.
ShutdownEnds == phase = "stopping" ~> phase \notin Running

=============================================================================
