----------------------------- MODULE ApiProofs ------------------------------
(***************************************************************************)
(* Proofs about the API: about InboundServer, the path of a request        *)
(* through the middleware, the handler and the storage, with crashes at    *)
(* any point, and about RateLimiter, which decides first; each for any     *)
(* number of requests, clients and goroutines.                             *)
(***************************************************************************)
EXTENDS InboundServer, RateLimiter, FiniteSetTheorems, TLAPS

-----------------------------------------------------------------------------
(***************************************************************************)
(* The server.                                                             *)
(***************************************************************************)

Handled == {r \in Requests : InHandler(r)}
Counted == {r \in Requests : Recorded(r)}

\* A step of a goroutine is one of the actions of a request.
StepOf(r) ==
  \/ Arrive(r) \/ InnerStep(r) \/ OuterStep(r)

\* What a step does to the requests other than its own: nothing.
Others(r) ==
  \A q \in Requests : q # r =>
    /\ outer'[q] = outer[q] /\ inner'[q] = inner[q] /\ status'[q] = status[q]
    /\ tw'[q] = tw[q] /\ wire'[q] = wire[q] /\ file'[q] = file[q]

\* The types, except that of the counter activeRequests.
Typed ==
  /\ phase \in Phases
  /\ totalEmails \in Nat
  /\ outer \in [Requests -> {"none", "waiting", "returned"}]
  /\ inner \in [Requests -> InnerPoints]
  /\ status \in [Requests -> Answers \cup {"none"}]
  /\ tw \in [Requests -> {"fresh", "written", "timedOut"}]
  /\ wire \in [Requests -> Answers \cup {"none"}]
  /\ file \in [Requests -> {"none", "partial", "complete"}]
  /\ lateWrite \in SUBSET Requests

\* A step keeps the types and leaves the other requests alone.
LEMMA StepTypes ==
  ASSUME Typed, NEW r \in Requests, StepOf(r)
  PROVE  Typed' /\ Others(r)
<1> USE DEF Typed, Others, serverVars, Goto, Answer, Answers, InnerPoints
<1>1. CASE Arrive(r)
  BY <1>1 DEF Arrive
<1>2. CASE RateLimit(r)
  BY <1>2 DEF RateLimit
<1>3. CASE Gate(r)
  BY <1>3 DEF Gate
<1>4. CASE Enter(r)
  BY <1>4 DEF Enter
<1>5. CASE Reject(r)
  BY <1>5 DEF Reject
<1>6. CASE HandlerPanics(r)
  BY <1>6 DEF HandlerPanics
<1>7. CASE StoreBegin(r)
  BY <1>7 DEF StoreBegin
<1>8. CASE StoreCompletes(r)
  BY <1>8 DEF StoreCompletes
<1>9. CASE StoreFails(r)
  BY <1>9 DEF StoreFails
<1>10. CASE RecordSuccess(r)
  BY <1>10 DEF RecordSuccess
<1>11. CASE WriteHeader(r)
  BY <1>11 DEF WriteHeader
<1>12. CASE Write(r)
  BY <1>12 DEF Write
<1>13. CASE Leave(r)
  BY <1>13 DEF Leave
<1>14. CASE HandlerDone(r)
  BY <1>14 DEF HandlerDone
<1>15. CASE Deadline(r)
  BY <1>15 DEF Deadline
<1> QED
  BY <1>1, <1>2, <1>3, <1>4, <1>5, <1>6, <1>7, <1>8, <1>9, <1>10, <1>11, <1>12,
     <1>13, <1>14, <1>15
  DEF StepOf, InnerStep, OuterStep

\* A step keeps what is known of its own request.
LEMMA StepRequest ==
  ASSUME Typed, NEW r \in Requests, RequestInv(r), StepOf(r)
  PROVE  RequestInv(r)'
<1> USE DEF Typed, RequestInv, serverVars, Goto, Answer, Answers, InnerPoints
<1>1. CASE Arrive(r)
  BY <1>1 DEF Arrive
<1>2. CASE RateLimit(r)
  BY <1>2 DEF RateLimit
<1>3. CASE Gate(r)
  BY <1>3 DEF Gate
<1>4. CASE Enter(r)
  BY <1>4 DEF Enter
<1>5. CASE Reject(r)
  BY <1>5 DEF Reject
<1>6. CASE HandlerPanics(r)
  BY <1>6 DEF HandlerPanics
<1>7. CASE StoreBegin(r)
  BY <1>7 DEF StoreBegin
<1>8. CASE StoreCompletes(r)
  BY <1>8 DEF StoreCompletes
<1>9. CASE StoreFails(r)
  BY <1>9 DEF StoreFails
<1>10. CASE RecordSuccess(r)
  BY <1>10 DEF RecordSuccess
<1>11. CASE WriteHeader(r)
  BY <1>11 DEF WriteHeader
<1>12. CASE Write(r)
  BY <1>12 DEF Write
<1>13. CASE Leave(r)
  BY <1>13 DEF Leave
<1>14. CASE HandlerDone(r)
  BY <1>14 DEF HandlerDone
<1>15. CASE Deadline(r)
  BY <1>15 DEF Deadline
<1> QED
  BY <1>1, <1>2, <1>3, <1>4, <1>5, <1>6, <1>7, <1>8, <1>9, <1>10, <1>11, <1>12,
     <1>13, <1>14, <1>15
  DEF StepOf, InnerStep, OuterStep

-----------------------------------------------------------------------------
(***************************************************************************)
(* The counters                                                            *)
(***************************************************************************)

\* How a step moves its request in or out of the handler and what it does to
\* activeRequests.
Stays(r) == activeRequests' = activeRequests /\ (InHandler(r)' <=> InHandler(r))
Enters(r) ==
  activeRequests' = activeRequests + 1 /\ InHandler(r)' /\ ~InHandler(r)
Leaves(r) ==
  activeRequests' = activeRequests - 1 /\ ~InHandler(r)' /\ InHandler(r)

\* activeRequests follows its request in every step.
LEMMA StepActive ==
  ASSUME Typed, NEW r \in Requests, RequestInv(r), StepOf(r)
  PROVE  Stays(r) \/ Enters(r) \/ Leaves(r)
<1> USE DEF Typed, RequestInv, serverVars, Goto, Answer, Answers, InnerPoints,
            Stays, Enters, Leaves, InHandler, Uncounted
<1>1. CASE Arrive(r)
  BY <1>1 DEF Arrive
<1>2. CASE RateLimit(r)
  BY <1>2 DEF RateLimit
<1>3. CASE Gate(r)
  BY <1>3 DEF Gate
<1>4. CASE Enter(r)
  BY <1>4 DEF Enter
<1>5. CASE Reject(r)
  BY <1>5 DEF Reject
<1>6. CASE HandlerPanics(r)
  BY <1>6 DEF HandlerPanics
<1>7. CASE StoreBegin(r)
  BY <1>7 DEF StoreBegin
<1>8. CASE StoreCompletes(r)
  BY <1>8 DEF StoreCompletes
<1>9. CASE StoreFails(r)
  BY <1>9 DEF StoreFails
<1>10. CASE RecordSuccess(r)
  BY <1>10 DEF RecordSuccess
<1>11. CASE WriteHeader(r)
  BY <1>11 DEF WriteHeader
<1>12. CASE Write(r)
  BY <1>12 DEF Write
<1>13. CASE Leave(r)
  BY <1>13 DEF Leave
<1>14. CASE HandlerDone(r)
  BY <1>14 DEF HandlerDone
<1>15. CASE Deadline(r)
  BY <1>15 DEF Deadline
<1> QED
  BY <1>1, <1>2, <1>3, <1>4, <1>5, <1>6, <1>7, <1>8, <1>9, <1>10, <1>11, <1>12,
     <1>13, <1>14, <1>15
  DEF StepOf, InnerStep, OuterStep

\* TotalEmails follows its request in every step.
LEMMA StepTotal ==
  ASSUME Typed, NEW r \in Requests, RequestInv(r), StepOf(r)
  PROVE  \/ totalEmails' = totalEmails /\ (Recorded(r)' <=> Recorded(r))
         \/ totalEmails' = totalEmails + 1 /\ Recorded(r)' /\ ~Recorded(r)
<1> USE DEF Typed, RequestInv, serverVars, Goto, Answer, Answers, InnerPoints,
            Recorded
<1>1. CASE Arrive(r)
  BY <1>1 DEF Arrive
<1>2. CASE RateLimit(r)
  BY <1>2 DEF RateLimit
<1>3. CASE Gate(r)
  BY <1>3 DEF Gate
<1>4. CASE Enter(r)
  BY <1>4 DEF Enter
<1>5. CASE Reject(r)
  BY <1>5 DEF Reject
<1>6. CASE HandlerPanics(r)
  BY <1>6 DEF HandlerPanics
<1>7. CASE StoreBegin(r)
  BY <1>7 DEF StoreBegin
<1>8. CASE StoreCompletes(r)
  BY <1>8 DEF StoreCompletes
<1>9. CASE StoreFails(r)
  BY <1>9 DEF StoreFails
<1>10. CASE RecordSuccess(r)
  BY <1>10 DEF RecordSuccess
<1>11. CASE WriteHeader(r)
  BY <1>11 DEF WriteHeader
<1>12. CASE Write(r)
  BY <1>12 DEF Write
<1>13. CASE Leave(r)
  BY <1>13 DEF Leave
<1>14. CASE HandlerDone(r)
  BY <1>14 DEF HandlerDone
<1>15. CASE Deadline(r)
  BY <1>15 DEF Deadline
<1> QED
  BY <1>1, <1>2, <1>3, <1>4, <1>5, <1>6, <1>7, <1>8, <1>9, <1>10, <1>11, <1>12,
     <1>13, <1>14, <1>15
  DEF StepOf, InnerStep, OuterStep

\* The sets behind the counters are finite.
LEMMA CountedFinite ==
  /\ IsFiniteSet(Handled) /\ Cardinality(Handled) \in Nat
  /\ IsFiniteSet(Counted) /\ Cardinality(Counted) \in Nat
<1>1. Handled \subseteq Requests /\ Counted \subseteq Requests
  BY DEF Handled, Counted
<1> QED
  BY <1>1, RequestsAssumption, FS_Subset, FS_CardinalityType

\* So both counters stay exact.
LEMMA StepCounters ==
  ASSUME Typed, CountersExact, NEW r \in Requests, RequestInv(r), StepOf(r)
  PROVE  CountersExact' /\ activeRequests' \in Nat
<1>o. Others(r)
  BY StepTypes
<1>c. activeRequests = Cardinality(Handled) /\ totalEmails = Cardinality(Counted)
  BY DEF CountersExact, Handled, Counted
<1>h. \A q \in Requests : q # r => (InHandler(q)' <=> InHandler(q))
  BY <1>o DEF Others, InHandler
<1>k. \A q \in Requests : q # r => (Recorded(q)' <=> Recorded(q))
  BY <1>o DEF Others, Recorded
<1>1. activeRequests' = Cardinality(Handled')
  <2>1. CASE Stays(r)
    <3>1. Handled' = Handled
      BY <2>1, <1>h DEF Handled, Stays
    <3> QED
      BY <3>1, <2>1, <1>c DEF Stays
  <2>2. CASE Enters(r)
    <3>1. Handled' = Handled \cup {r} /\ r \notin Handled
      BY <2>2, <1>h DEF Handled, Enters
    <3>2. Cardinality(Handled') = Cardinality(Handled) + 1
      BY <3>1, CountedFinite, FS_AddElement
    <3> QED
      BY <3>2, <2>2, <1>c DEF Enters
  <2>3. CASE Leaves(r)
    <3>1. Handled' = Handled \ {r} /\ r \in Handled
      BY <2>3, <1>h DEF Handled, Leaves
    <3>2. Cardinality(Handled') = Cardinality(Handled) - 1
      BY <3>1, CountedFinite, FS_RemoveElement
    <3> QED
      BY <3>2, <2>3, <1>c DEF Leaves
  <2> QED
    BY <2>1, <2>2, <2>3, StepActive
<1>2. totalEmails' = Cardinality(Counted')
  <2>1. CASE totalEmails' = totalEmails /\ (Recorded(r)' <=> Recorded(r))
    <3>1. Counted' = Counted
      BY <2>1, <1>k DEF Counted
    <3> QED
      BY <3>1, <2>1, <1>c
  <2>2. CASE totalEmails' = totalEmails + 1 /\ Recorded(r)' /\ ~Recorded(r)
    <3>1. Counted' = Counted \cup {r} /\ r \notin Counted
      BY <2>2, <1>k DEF Counted
    <3>2. Cardinality(Counted') = Cardinality(Counted) + 1
      BY <3>1, CountedFinite, FS_AddElement
    <3> QED
      BY <3>2, <2>2, <1>c
  <2> QED
    BY <2>1, <2>2, StepTotal
<1>3. Cardinality(Handled') \in Nat
  <2>1. Handled' \subseteq Requests
    BY DEF Handled
  <2> QED
    BY <2>1, RequestsAssumption, FS_Subset, FS_CardinalityType
<1> QED
  BY <1>1, <1>2, <1>3 DEF CountersExact, Handled, Counted

-----------------------------------------------------------------------------
(***************************************************************************)
(* The theorems                                                            *)
(***************************************************************************)

\* NewServer establishes the invariant.
LEMMA ServerInit == Init => ServerInv
<1> SUFFICES ASSUME Init PROVE ServerInv
  OBVIOUS
<1>1. TypeOK
  BY DEF Init, TypeOK, Phases, InnerPoints, Answers
<1>2. {r \in Requests : InHandler(r)} = {} /\ {r \in Requests : Recorded(r)} = {}
  BY DEF Init, InHandler, Recorded
<1>3. CountersExact
  BY <1>2, FS_EmptySet DEF Init, CountersExact
<1>4. \A r \in Requests : RequestInv(r)
  BY DEF Init, RequestInv
<1> QED
  BY <1>1, <1>3, <1>4 DEF ServerInv

\* A step that only moves the phase of the process, or nothing.
Elsewhere ==
  /\ phase' \in Phases
  /\ UNCHANGED <<activeRequests, totalEmails, outer, inner, status, tw, wire,
                 file, lateWrite>>

\* Every step is one of a request or leaves the requests alone.
LEMMA StepKinds ==
  ASSUME TypeOK, [Next]_vars
  PROVE  (\E r \in Requests : StepOf(r)) \/ Elsewhere
<1>1. CASE \E r \in Requests : Arrive(r) \/ RequestStep(r)
  BY <1>1 DEF StepOf, RequestStep
<1>2. CASE BeginShutdown \/ ShutdownStep \/ Crash
  BY <1>2 DEF BeginShutdown, ShutdownStep, Crash, CloseListener,
     ShutdownReturns, ShutdownDeadline, Exit, PhaseStep, Elsewhere, Phases
<1>3. CASE Gone \/ UNCHANGED vars
  BY <1>3 DEF Gone, vars, Elsewhere, TypeOK
<1> QED
  BY <1>1, <1>2, <1>3 DEF Next

\* Every reachable state of the process satisfies the inductive invariant.
THEOREM ServerInvariant == Spec => []ServerInv
<1>1. ASSUME ServerInv, [Next]_vars PROVE ServerInv'
  <2>t. Typed /\ TypeOK /\ CountersExact
    BY <1>1 DEF ServerInv, TypeOK, Typed
  <2>1. ASSUME NEW r \in Requests, StepOf(r) PROVE ServerInv'
    <3>1. RequestInv(r)
      BY <1>1 DEF ServerInv
    <3>2. Typed' /\ Others(r)
      BY <2>t, <2>1, StepTypes
    <3>3. CountersExact' /\ activeRequests' \in Nat
      BY <2>t, <2>1, <3>1, StepCounters
    <3>4. TypeOK'
      BY <3>2, <3>3 DEF TypeOK, Typed
    <3>5. RequestInv(r)'
      BY <2>t, <2>1, <3>1, StepRequest
    <3>6. \A q \in Requests : q # r => RequestInv(q)'
      BY <1>1, <3>2 DEF ServerInv, RequestInv, Others
    <3> QED
      BY <3>3, <3>4, <3>5, <3>6 DEF ServerInv
  <2>2. CASE Elsewhere
    BY <1>1, <2>2 DEF Elsewhere, ServerInv, TypeOK, CountersExact, InHandler,
       Recorded, RequestInv
  <2> QED
    BY <1>1, <2>t, <2>1, <2>2, StepKinds
<1> QED
  BY <1>1, ServerInit, PTL DEF Spec

\* Every variable has its type and activeRequests is never negative.
THEOREM ServerTypes == Spec => []TypeOK
<1>1. ServerInv => TypeOK
  BY DEF ServerInv
<1> QED
  BY <1>1, ServerInvariant, PTL

\* activeRequests and TotalEmails are exact for any number of requests,
\* however their deadlines, panics and refusals interleave.
THEOREM CountersAreExact == Spec => []CountersExact
<1>1. ServerInv => CountersExact
  BY DEF ServerInv
<1> QED
  BY <1>1, ServerInvariant, PTL

\* An acknowledged email is completely stored.
THEOREM AcknowledgedIsStored == Spec => []AckedIsStored
<1>1. ServerInv => AckedIsStored
  BY DEF ServerInv, RequestInv, AckedIsStored
<1> QED
  BY <1>1, ServerInvariant, PTL

\* No connection is given back without an answer.
THEOREM ReturnedIsAnswered == Spec => []AnsweredBeforeReturn
<1>1. ServerInv => AnsweredBeforeReturn
  BY DEF ServerInv, RequestInv, AnsweredBeforeReturn
<1> QED
  BY <1>1, ServerInvariant, PTL

-----------------------------------------------------------------------------
(***************************************************************************)
(* The deadline and the shutdown                                           *)
(***************************************************************************)

\* The client is sent the timeout exactly when the deadline has taken the
\* timeoutWriter; a handler that writes late has taken it before.  A handler
\* that has come to no answer yet has sent none.
TimeoutInv(r) ==
  /\ wire[r] = "timeout" <=> tw[r] = "timedOut"
  /\ status[r] # "timeout"
  /\ r \in lateWrite => tw[r] = "written"
  /\ inner[r] \in {"none", "limiter", "gate", "entering", "handling", "storing",
                   "stored", "ack", "header"} => wire[r] \in {"none", "timeout"}

\* Shutdown returns nil only when no connection is waiting, and none is
\* accepted after it.
DrainInv == phase = "drained" => ConnectionsIdle

LateInv == DrainInv /\ \A r \in Requests : TimeoutInv(r)

\* A step keeps this of its own request, and writes late for no other.
LEMMA StepTimeout ==
  ASSUME Typed, NEW r \in Requests, RequestInv(r), TimeoutInv(r), StepOf(r)
  PROVE  TimeoutInv(r)' /\ lateWrite' \subseteq lateWrite \cup {r}
<1> USE DEF Typed, RequestInv, TimeoutInv, serverVars, Goto, Answer, Answers,
            InnerPoints
<1>1. CASE Arrive(r)
  BY <1>1 DEF Arrive
<1>2. CASE RateLimit(r)
  BY <1>2 DEF RateLimit
<1>3. CASE Gate(r)
  BY <1>3 DEF Gate
<1>4. CASE Enter(r)
  BY <1>4 DEF Enter
<1>5. CASE Reject(r)
  BY <1>5 DEF Reject
<1>6. CASE HandlerPanics(r)
  BY <1>6 DEF HandlerPanics
<1>7. CASE StoreBegin(r)
  BY <1>7 DEF StoreBegin
<1>8. CASE StoreCompletes(r)
  BY <1>8 DEF StoreCompletes
<1>9. CASE StoreFails(r)
  BY <1>9 DEF StoreFails
<1>10. CASE RecordSuccess(r)
  BY <1>10 DEF RecordSuccess
<1>11. CASE WriteHeader(r)
  BY <1>11 DEF WriteHeader
<1>12. CASE Write(r)
  BY <1>12 DEF Write
<1>13. CASE Leave(r)
  BY <1>13 DEF Leave
<1>14. CASE HandlerDone(r)
  BY <1>14 DEF HandlerDone
<1>15. CASE Deadline(r)
  BY <1>15 DEF Deadline
<1> QED
  BY <1>1, <1>2, <1>3, <1>4, <1>5, <1>6, <1>7, <1>8, <1>9, <1>10, <1>11, <1>12,
     <1>13, <1>14, <1>15
  DEF StepOf, InnerStep, OuterStep

\* A step of a request leaves the phase, and only an arrival makes a
\* connection wait.
LEMMA StepPhase ==
  ASSUME Typed, NEW r \in Requests, StepOf(r)
  PROVE  /\ phase' = phase
         /\ phase \notin {"serving", "stopping"} /\ outer[r] # "waiting" =>
              outer'[r] # "waiting"
<1> USE DEF Typed, serverVars, Goto, Answer
<1>1. CASE Arrive(r)
  BY <1>1 DEF Arrive
<1>2. CASE RateLimit(r)
  BY <1>2 DEF RateLimit
<1>3. CASE Gate(r)
  BY <1>3 DEF Gate
<1>4. CASE Enter(r)
  BY <1>4 DEF Enter
<1>5. CASE Reject(r)
  BY <1>5 DEF Reject
<1>6. CASE HandlerPanics(r)
  BY <1>6 DEF HandlerPanics
<1>7. CASE StoreBegin(r)
  BY <1>7 DEF StoreBegin
<1>8. CASE StoreCompletes(r)
  BY <1>8 DEF StoreCompletes
<1>9. CASE StoreFails(r)
  BY <1>9 DEF StoreFails
<1>10. CASE RecordSuccess(r)
  BY <1>10 DEF RecordSuccess
<1>11. CASE WriteHeader(r)
  BY <1>11 DEF WriteHeader
<1>12. CASE Write(r)
  BY <1>12 DEF Write
<1>13. CASE Leave(r)
  BY <1>13 DEF Leave
<1>14. CASE HandlerDone(r)
  BY <1>14 DEF HandlerDone
<1>15. CASE Deadline(r)
  BY <1>15 DEF Deadline
<1> QED
  BY <1>1, <1>2, <1>3, <1>4, <1>5, <1>6, <1>7, <1>8, <1>9, <1>10, <1>11, <1>12,
     <1>13, <1>14, <1>15
  DEF StepOf, InnerStep, OuterStep

\* Every reachable state satisfies it.
THEOREM LateInvariant == Spec => []LateInv
<1>1. Init => LateInv
  BY DEF Init, LateInv, DrainInv, TimeoutInv
<1>2. ASSUME ServerInv, LateInv, [Next]_vars PROVE LateInv'
  <2>t. Typed /\ TypeOK
    BY <1>2 DEF ServerInv, TypeOK, Typed
  <2>1. ASSUME NEW r \in Requests, StepOf(r) PROVE LateInv'
    <3>1. RequestInv(r) /\ TimeoutInv(r)
      BY <1>2 DEF ServerInv, LateInv
    <3>2. Others(r)
      BY <2>t, <2>1, StepTypes
    <3>3. TimeoutInv(r)' /\ lateWrite' \subseteq lateWrite \cup {r}
      BY <2>t, <2>1, <3>1, StepTimeout
    <3>4. \A q \in Requests : q # r => TimeoutInv(q)'
      BY <1>2, <3>2, <3>3 DEF LateInv, TimeoutInv, Others
    <3>5. DrainInv'
      BY <1>2, <2>t, <2>1, <3>2, StepPhase
      DEF LateInv, DrainInv, ConnectionsIdle, Others
    <3> QED
      BY <3>3, <3>4, <3>5 DEF LateInv
  <2>2. CASE Elsewhere
    <3>1. \A r \in Requests : TimeoutInv(r)'
      BY <1>2, <2>2 DEF Elsewhere, LateInv, TimeoutInv
    <3>2. CASE phase' = "drained"
      <4>1. phase = "drained" \/ ConnectionsIdle
        <5>1. CASE \E r \in Requests : Arrive(r) \/ RequestStep(r)
          <6>1. PICK r \in Requests : StepOf(r)
            BY <5>1 DEF StepOf, RequestStep
          <6> QED
            BY <2>t, <3>2, <6>1, StepPhase
        <5>2. CASE BeginShutdown \/ ShutdownStep \/ Crash
          BY <3>2, <5>2 DEF BeginShutdown, ShutdownStep, Crash, CloseListener,
             ShutdownReturns, ShutdownDeadline, Exit, PhaseStep
        <5>3. CASE Gone \/ UNCHANGED vars
          BY <3>2, <5>3 DEF Gone, vars
        <5> QED
          BY <1>2, <5>1, <5>2, <5>3 DEF Next
      <4> QED
        BY <1>2, <2>2, <3>1, <4>1 DEF LateInv, DrainInv, ConnectionsIdle, Elsewhere
    <3>3. CASE phase' # "drained"
      BY <3>1, <3>3 DEF LateInv, DrainInv
    <3> QED
      BY <3>2, <3>3
  <2> QED
    BY <1>2, <2>t, <2>1, <2>2, StepKinds
<1> QED
  BY <1>1, <1>2, ServerInvariant, PTL DEF Spec

\* Nothing of a handler's follows the timeout to its client, although the
\* handler runs on after the connection's goroutine has returned.
THEOREM TimeoutsAreFinal == Spec => []TimeoutIsFinal
<1>1. ServerInv /\ LateInv => TimeoutIsFinal
  BY DEF ServerInv, TypeOK, LateInv, TimeoutInv, TimeoutIsFinal
<1> QED
  BY <1>1, ServerInvariant, LateInvariant, PTL

\* When Shutdown has succeeded, an email that is still in its handler has been
\* answered with the timeout.
THEOREM DrainLosesNothing == Spec => []DrainedLosesNothing
<1>1. ServerInv /\ LateInv => DrainedLosesNothing
  <2> SUFFICES ASSUME ServerInv, LateInv, phase = "drained", NEW r \in Requests,
                      inner[r] \in {"handling", "storing", "stored"}
               PROVE  wire[r] = "timeout"
    BY DEF DrainedLosesNothing
  <2>1. outer[r] # "none" /\ outer[r] # "waiting"
    BY DEF ServerInv, RequestInv, LateInv, DrainInv, ConnectionsIdle
  <2>2. outer[r] = "returned"
    BY <2>1 DEF ServerInv, TypeOK
  <2> QED
    BY <2>2 DEF ServerInv, RequestInv, LateInv, TimeoutInv
<1> QED
  BY <1>1, ServerInvariant, LateInvariant, PTL

\* A step of a request writes its file, gives its answer, or does neither.
LEMMA StepContract ==
  ASSUME Typed, NEW r \in Requests, RequestInv(r), StepOf(r)
  PROVE  Contract!Next \/ UNCHANGED <<file, wire>>
<1> USE DEF serverVars
<1>1. CASE StoreBegin(r)
  <2>1. file[r] = "none"
    BY <1>1 DEF StoreBegin, RequestInv
  <2>2. Contract!Begin(r)
    BY <1>1, <2>1 DEF StoreBegin, Contract!Begin
  <2> QED
    BY <2>2 DEF Contract!Next
<1>2. CASE StoreCompletes(r)
  <2>1. file[r] = "partial"
    BY <1>2 DEF StoreCompletes, RequestInv
  <2>2. Contract!Complete(r)
    BY <1>2, <2>1 DEF StoreCompletes, Contract!Complete
  <2> QED
    BY <2>2 DEF Contract!Next
<1>3. CASE WriteHeader(r)
  <2>1. CASE tw[r] = "fresh"
    <3>1. wire[r] = "none" /\ status[r] # "ok" /\ status[r] \in Answers
      BY <1>3, <2>1 DEF WriteHeader, RequestInv, Typed
    <3>2. Contract!Reply(r, status[r])
      BY <1>3, <2>1, <3>1 DEF WriteHeader, Contract!Reply
    <3> QED
      BY <3>1, <3>2 DEF Contract!Next
  <2>2. CASE tw[r] # "fresh"
    BY <1>3, <2>2 DEF WriteHeader
  <2> QED
    BY <2>1, <2>2
<1>4. CASE Write(r)
  <2>1. CASE wire[r] # "none" \/ tw[r] = "timedOut"
    BY <1>4, <2>1 DEF Write, Typed
  <2>2. CASE wire[r] = "none" /\ tw[r] # "timedOut"
    <3>1. file[r] = "complete"
      BY <1>4, <2>2 DEF Write, RequestInv
    <3>2. Contract!Reply(r, "ok")
      BY <1>4, <2>2, <3>1 DEF Write, Contract!Reply
    <3> QED
      BY <3>2 DEF Contract!Next, Answers
  <2> QED
    BY <2>1, <2>2
<1>5. CASE Deadline(r)
  <2>1. CASE tw[r] = "fresh"
    <3>1. wire[r] = "none"
      BY <2>1 DEF RequestInv
    <3>2. Contract!Reply(r, "timeout")
      BY <1>5, <2>1, <3>1 DEF Deadline, Contract!Reply
    <3> QED
      BY <3>2 DEF Contract!Next, Answers
  <2>2. CASE tw[r] # "fresh"
    BY <1>5, <2>2 DEF Deadline
  <2> QED
    BY <2>1, <2>2
<1>6. CASE \/ Arrive(r) \/ RateLimit(r) \/ Gate(r) \/ Enter(r) \/ Reject(r)
           \/ HandlerPanics(r) \/ StoreFails(r) \/ RecordSuccess(r)
           \/ Leave(r) \/ HandlerDone(r)
  BY <1>6 DEF Arrive, RateLimit, Gate, Enter, Reject, HandlerPanics,
     StoreFails, RecordSuccess, Leave, HandlerDone
<1> QED
  BY <1>1, <1>2, <1>3, <1>4, <1>5, <1>6 DEF StepOf, InnerStep, OuterStep

\* The server implements the contract that Delivery relies on.
THEOREM ServerImplementsContract == Spec => ImplementsContract
<1>1. Init => Contract!Init
  BY DEF Init, Contract!Init
<1>2. ASSUME ServerInv, [Next]_vars
      PROVE  [Contract!Next]_<<file, wire>>
  <2>1. Typed /\ TypeOK
    BY <1>2 DEF ServerInv, TypeOK, Typed
  <2>2. ASSUME NEW r \in Requests, StepOf(r)
        PROVE  [Contract!Next]_<<file, wire>>
    <3>1. RequestInv(r)
      BY <1>2 DEF ServerInv
    <3> QED
      BY <2>1, <2>2, <3>1, StepContract
  <2>3. CASE Elsewhere
    BY <2>3 DEF Elsewhere
  <2> QED
    BY <1>2, <2>1, <2>2, <2>3, StepKinds
<1> QED
  BY <1>1, <1>2, ServerInvariant, PTL DEF Spec, ImplementsContract, Contract!Spec

-----------------------------------------------------------------------------
(***************************************************************************)
(* The rate limiter, for every configuration in which an idle bucket fills *)
(* up within ttl.                                                          *)
(***************************************************************************)

(***************************************************************************)
(* Arithmetic                                                              *)
(***************************************************************************)

\* Multiplication by a natural number is monotone.
LEMMA TimesMono ==
  ASSUME NEW c \in Nat, NEW x \in Int, NEW y \in Int, x <= y
  PROVE  c * x <= c * y
OBVIOUS

\* A chain of inequalities.
LEMMA Chain ==
  ASSUME NEW u \in Int, NEW v \in Int, NEW w \in Int, NEW x \in Int,
         NEW y \in Int, NEW z \in Int,
         u <= v, v <= w + x, w <= y, x + y <= z
  PROVE  u <= z
OBVIOUS

\* A quotient, multiplied back, does not exceed the dividend.
LEMMA DivBelow ==
  ASSUME NEW x \in Nat, NEW d \in Nat \ {0}
  PROVE  x \div d \in Nat /\ d * (x \div d) <= x
OBVIOUS

\* One token is a positive amount.
LEMMA TokenType == Token \in Nat /\ Token > 0
BY ClockAssumption DEF Token

\* The tokens that a refill adds have been earned: the truncations of the
\* elapsed time and of the number of tokens only lose.
LEMMA RefillEarned ==
  ASSUME NEW e \in Nat
  PROVE  /\ ((e \div TicksPerSecond) * Rate) \div 60 \in Nat
         /\ Token * (((e \div TicksPerSecond) * Rate) \div 60) <= Rate * e
<1> DEFINE q == e \div TicksPerSecond
           a == (q * Rate) \div 60
<1>1. q \in Nat /\ TicksPerSecond * q <= e
  BY DivBelow, ClockAssumption
<1> HIDE DEF q
<1>2. q * Rate \in Nat
  BY <1>1, RateAssumption
<1>3. a \in Nat /\ 60 * a <= q * Rate
  BY <1>2, DivBelow
<1> HIDE DEF a
<1>4. TicksPerSecond * (60 * a) <= TicksPerSecond * (q * Rate)
  BY <1>2, <1>3, TimesMono, ClockAssumption
<1>5. Rate * (TicksPerSecond * q) <= Rate * e
  BY <1>1, TimesMono, RateAssumption, ClockAssumption
<1>6. Token * a = TicksPerSecond * (60 * a)
  BY <1>3, ClockAssumption DEF Token
<1>7. TicksPerSecond * (q * Rate) = Rate * (TicksPerSecond * q)
  BY <1>1, RateAssumption, ClockAssumption
<1>8. Token * a <= Rate * e
  BY <1>1, <1>2, <1>3, <1>4, <1>5, <1>6, <1>7, RateAssumption, ClockAssumption,
     TokenType
<1> QED
  BY <1>3, <1>8 DEF a, q

-----------------------------------------------------------------------------
(***************************************************************************)
(* The refill                                                              *)
(***************************************************************************)

\* What Allow's refill does to a bucket: it stays within Burst, adds no more
\* than its time has earned, and leaves an empty bucket as it was.
LEMMA RefillEffect ==
  ASSUME LimiterTypeOK, ClockInv, NEW b \in Buckets
  PROVE  /\ Refilled(b) \in 0..Burst
         /\ FilledAt(b) \in Nat
         /\ lastFill[b] <= FilledAt(b) /\ FilledAt(b) <= now
         /\ Token * Refilled(b) <=
              Token * tokens[b] + (Rate * FilledAt(b) - Rate * lastFill[b])
         /\ Refilled(b) = 0 => tokens[b] = 0 /\ FilledAt(b) = lastFill[b]
<1>1. /\ now \in Nat /\ lastFill[b] \in Nat /\ tokens[b] \in 0..Burst
      /\ lastFill[b] <= now
  BY DEF LimiterTypeOK, ClockInv
<1>2. now - lastFill[b] \in Nat
  BY <1>1
<1>3. /\ TokensToAdd(b) \in Nat
      /\ Token * TokensToAdd(b) <= Rate * (now - lastFill[b])
  BY <1>2, RefillEarned DEF TokensToAdd
<1>4. CASE TokensToAdd(b) > 0
  <2>1. Refilled(b) = AtMost(tokens[b] + TokensToAdd(b), Burst)
        /\ FilledAt(b) = now
    BY <1>4 DEF Refilled, FilledAt
  <2>2. Refilled(b) \in 0..Burst /\ Refilled(b) > 0
        /\ Refilled(b) <= tokens[b] + TokensToAdd(b)
    BY <2>1, <1>1, <1>3, <1>4, RateAssumption DEF AtMost
  <2>3. Token * Refilled(b) <= Token * (tokens[b] + TokensToAdd(b))
    <3>1. Refilled(b) \in Int /\ tokens[b] + TokensToAdd(b) \in Int
      BY <2>2, <1>1, <1>3
    <3>2. Token \in Nat
      BY TokenType
    <3> QED
      BY <3>1, <3>2, <2>2, TimesMono
  <2>4. Token * (tokens[b] + TokensToAdd(b))
          = Token * tokens[b] + Token * TokensToAdd(b)
    BY <1>1, <1>3, TokenType
  <2>5. Rate * (now - lastFill[b]) = Rate * now - Rate * lastFill[b]
    BY <1>1, RateAssumption
  <2>6. Token * Refilled(b) <=
          Token * tokens[b] + (Rate * now - Rate * lastFill[b])
    BY <2>2, <2>3, <2>4, <2>5, <1>1, <1>3, TokenType, RateAssumption
  <2> QED
    BY <2>1, <2>2, <2>6, <1>1
<1>5. CASE ~(TokensToAdd(b) > 0)
  <2>1. Refilled(b) = tokens[b] /\ FilledAt(b) = lastFill[b]
    BY <1>5 DEF Refilled, FilledAt
  <2> QED
    BY <2>1, <1>1, TokenType, RateAssumption
<1> QED
  BY <1>4, <1>5

-----------------------------------------------------------------------------
(***************************************************************************)
(* Types and clocks                                                        *)
(***************************************************************************)

\* A call that has found its bucket has a key and a bucket.
LEMMA CallType ==
  ASSUME LimiterTypeOK, NEW t \in Threads, InCall(t)
  PROVE  /\ call[t] = [key |-> call[t].key, bucket |-> call[t].bucket]
         /\ call[t].key \in Keys /\ call[t].bucket \in Buckets
BY DEF LimiterTypeOK, InCall

\* Every step keeps the types and the order of the clocks.
LEMMA TypeStep ==
  ASSUME LimiterTypeOK, ClockInv, SweepInv, [LimiterNext]_limiterVars
  PROVE  LimiterTypeOK' /\ ClockInv'
<1>1. ASSUME NEW t \in Threads, NEW k \in Keys, Find(t, k)
      PROVE  LimiterTypeOK' /\ ClockInv'
  BY <1>1 DEF Find, LimiterTypeOK, ClockInv, bucketVars, sweepVars, historyVars
<1>2. ASSUME NEW t \in Threads, NEW k \in Keys, Make(t, k)
      PROVE  LimiterTypeOK' /\ ClockInv'
  <2>1. Burst \in 0..Burst
    BY RateAssumption
  <2> QED
    BY <2>1, <1>2 DEF Make, LimiterTypeOK, ClockInv, sweepVars, historyVars
<1>3. ASSUME NEW t \in Threads, Take(t)
      PROVE  LimiterTypeOK' /\ ClockInv'
  <2> DEFINE k == call[t].key
             b == call[t].bucket
  <2>1. k \in Keys /\ b \in Buckets
    BY <1>3, CallType DEF Take
  <2>2. /\ Refilled(b) \in 0..Burst /\ FilledAt(b) \in Nat
        /\ FilledAt(b) <= now
    BY <2>1, RefillEffect
  <2>3. Refilled(b) > 0
    BY <1>3 DEF Take
  <2>4. Refilled(b) - 1 \in 0..Burst
    BY <2>2, <2>3, RateAssumption
  <2>5. /\ tokens' = [tokens EXCEPT ![b] = Refilled(b) - 1]
        /\ lastFill' = [lastFill EXCEPT ![b] = FilledAt(b)]
        /\ lastUsed' = [lastUsed EXCEPT ![b] = now]
        /\ call' = [call EXCEPT ![t] = NoCall]
        /\ allowed' = [allowed EXCEPT ![k] = @ + 1]
        /\ stray' = stray \/ stray' = [stray EXCEPT ![k] = @ + 1]
        /\ UNCHANGED <<now, buckets, sweepNow, sweepLeft, sweeping, evictions>>
    BY <1>3 DEF Take, Bump, sweepVars
  <2> HIDE DEF k, b
  <2>6. LimiterTypeOK'
    BY <2>1, <2>2, <2>4, <2>5 DEF LimiterTypeOK
  <2>7. ClockInv'
    BY <2>1, <2>2, <2>5 DEF LimiterTypeOK, ClockInv
  <2> QED
    BY <2>6, <2>7
<1>4. ASSUME NEW t \in Threads, Deny(t)
      PROVE  LimiterTypeOK' /\ ClockInv'
  <2> DEFINE b == call[t].bucket
  <2>1. b \in Buckets
    BY <1>4, CallType DEF Deny
  <2>2. Refilled(b) = 0
    BY <1>4 DEF Deny
  <2>3. FilledAt(b) = lastFill[b]
    BY <2>1, <2>2, RefillEffect
  <2>4. /\ tokens' = [tokens EXCEPT ![b] = 0]
        /\ lastFill' = [lastFill EXCEPT ![b] = lastFill[b]]
        /\ call' = [call EXCEPT ![t] = NoCall]
        /\ UNCHANGED <<now, buckets, lastUsed, sweepNow, sweepLeft, sweeping,
                       allowed, stray, evictions>>
    BY <1>4, <2>3 DEF Deny, sweepVars, historyVars
  <2>5. 0 \in 0..Burst
    BY RateAssumption
  <2> HIDE DEF b
  <2> QED
    BY <2>1, <2>4, <2>5 DEF LimiterTypeOK, ClockInv
<1>5. CASE SweepBegin
  BY <1>5 DEF SweepBegin, LimiterTypeOK, ClockInv, bucketVars, historyVars
<1>6. ASSUME NEW k \in Keys, SweepKey(k)
      PROVE  LimiterTypeOK' /\ ClockInv'
  BY <1>6 DEF SweepKey, LimiterTypeOK, ClockInv, bucketVars, Bump
<1>7. CASE SweepEnd
  BY <1>7 DEF SweepEnd, LimiterTypeOK, ClockInv, bucketVars, historyVars
<1>8. CASE Tick
  BY <1>8 DEF Tick, LimiterTypeOK, ClockInv, bucketVars, sweepVars, historyVars
<1>9. CASE UNCHANGED limiterVars
  BY <1>9 DEF limiterVars, LimiterTypeOK, ClockInv
<1> QED
  BY <1>1, <1>2, <1>3, <1>4, <1>5, <1>6, <1>7, <1>8, <1>9
  DEF LimiterNext, Lookup, Decide, Cleanup

-----------------------------------------------------------------------------
(***************************************************************************)
(* Ownership of buckets                                                    *)
(***************************************************************************)

\* A bucket that is not in use is no key's and no call's.
LEMMA FreshBucket ==
  ASSUME NEW b, b \notin InUse
  PROVE  /\ \A k \in Keys : buckets[k] # b
         /\ \A t \in Threads : call[t].bucket # b
BY DEF InUse

\* A bucket stays with one key: Make takes one that nobody holds.
LEMMA PerClientStep ==
  ASSUME LimiterTypeOK, SweepInv, PerClient, [LimiterNext]_limiterVars
  PROVE  PerClient' /\ SweepInv'
<1>1. ASSUME NEW t \in Threads, NEW k \in Keys, Find(t, k)
      PROVE  PerClient' /\ SweepInv'
  <2>1. /\ buckets' = buckets /\ sweepLeft' = sweepLeft
        /\ call' = [call EXCEPT ![t] = [key |-> k, bucket |-> buckets[k]]]
        /\ buckets[k] # NoBucket
    BY <1>1 DEF Find, sweepVars
  <2> QED
    BY <2>1 DEF PerClient, SweepInv, LimiterTypeOK, InCall
<1>2. ASSUME NEW t \in Threads, NEW k \in Keys, Make(t, k)
      PROVE  PerClient' /\ SweepInv'
  <2>1. PICK b \in Buckets \ InUse :
          /\ buckets' = [buckets EXCEPT ![k] = b]
          /\ call' = [call EXCEPT ![t] = [key |-> k, bucket |-> b]]
    BY <1>2 DEF Make
  <2>2. sweepLeft' = sweepLeft
    BY <1>2 DEF Make, sweepVars
  <2>3. /\ \A l \in Keys : buckets[l] # b
        /\ \A u \in Threads : call[u].bucket # b
    BY <2>1, FreshBucket
  <2>4. b # NoBucket
    BY <2>1, BucketAssumption
  <2> QED
    BY <2>1, <2>2, <2>3, <2>4 DEF PerClient, SweepInv, LimiterTypeOK, InCall
<1>3. ASSUME NEW t \in Threads, Take(t) \/ Deny(t)
      PROVE  PerClient' /\ SweepInv'
  <2>1. /\ buckets' = buckets /\ sweepLeft' = sweepLeft
        /\ call' = [call EXCEPT ![t] = NoCall]
    BY <1>3 DEF Take, Deny, sweepVars
  <2> QED
    BY <2>1 DEF PerClient, SweepInv, LimiterTypeOK, InCall
<1>4. CASE SweepBegin
  BY <1>4 DEF SweepBegin, PerClient, SweepInv, InCall
<1>5. ASSUME NEW k \in Keys, SweepKey(k)
      PROVE  PerClient' /\ SweepInv'
  <2>1. /\ buckets' = buckets \/ buckets' = [buckets EXCEPT ![k] = NoBucket]
        /\ call' = call /\ sweepLeft' = sweepLeft \ {k}
    BY <1>5 DEF SweepKey
  <2>2. \A u \in Threads : InCall(u) => call[u].bucket # NoBucket
    BY CallType, BucketAssumption
  <2> QED
    BY <2>1, <2>2 DEF PerClient, SweepInv, LimiterTypeOK, InCall
<1>6. CASE SweepEnd \/ Tick \/ UNCHANGED limiterVars
  BY <1>6 DEF SweepEnd, Tick, limiterVars, sweepVars, PerClient, SweepInv, InCall
<1> QED
  BY <1>1, <1>2, <1>3, <1>4, <1>5, <1>6
  DEF LimiterNext, Lookup, Decide, Cleanup

-----------------------------------------------------------------------------
(***************************************************************************)
(* The rate                                                                *)
(***************************************************************************)

\* What Earned says of one key.
EarnedBy(k) ==
  /\ buckets[k] # NoBucket =>
       Token * (allowed[k] - stray[k] + tokens[buckets[k]])
         <= Token * Burst + Rate * lastFill[buckets[k]]
  /\ buckets[k] = NoBucket => Token * (allowed[k] - stray[k]) <= Rate * now

\* Every step keeps Earned: a refill has been earned, a request takes what
\* the bucket loses, and a bucket left alone for ttl has earned a full one.
LEMMA EarnedStep ==
  ASSUME LimiterTypeOK, ClockInv, SweepInv, PerClient, Earned, [LimiterNext]_limiterVars, LimiterTypeOK'
  PROVE  Earned'
<1> SUFFICES ASSUME NEW k \in Keys PROVE EarnedBy(k)'
  BY DEF Earned, EarnedBy
<1>e. EarnedBy(k)
  BY DEF Earned, EarnedBy
<1>t. /\ now \in Nat /\ allowed[k] \in Nat /\ stray[k] \in Nat
      /\ buckets[k] \in Buckets \cup {NoBucket}
      /\ Rate \in Nat /\ Burst \in Nat /\ TTL \in Nat /\ Token \in Nat
  BY TokenType, RateAssumption, ClockAssumption DEF LimiterTypeOK
<1>1. CASE UNCHANGED <<buckets, tokens, lastFill, allowed, stray, now>>
  BY <1>1, <1>e DEF EarnedBy
<1>2. ASSUME NEW t \in Threads, NEW l \in Keys, Make(t, l)
      PROVE  EarnedBy(k)'
  <2>1. PICK b \in Buckets \ InUse :
          /\ buckets' = [buckets EXCEPT ![l] = b]
          /\ tokens' = [tokens EXCEPT ![b] = Burst]
          /\ lastFill' = [lastFill EXCEPT ![b] = now]
    BY <1>2 DEF Make
  <2>2. UNCHANGED <<now, allowed, stray>> /\ buckets[l] = NoBucket
    BY <1>2 DEF Make, historyVars
  <2>3. buckets[k] # b /\ b # NoBucket
    BY <2>1, FreshBucket, BucketAssumption
  <2>4. CASE k = l
    <3>1. buckets'[k] = b /\ tokens'[b] = Burst /\ lastFill'[b] = now
      BY <2>1, <2>4 DEF LimiterTypeOK
    <3>2. Token * (allowed[k] - stray[k]) <= Rate * now
      BY <2>2, <2>4, <1>e DEF EarnedBy
    <3>3. Token * (allowed[k] - stray[k] + Burst)
            = Token * (allowed[k] - stray[k]) + Token * Burst
      BY <1>t
    <3>4. Token * (allowed[k] - stray[k] + Burst)
            <= Token * Burst + Rate * now
      BY <3>2, <3>3, <1>t
    <3> QED
      BY <3>1, <3>4, <2>2, <2>3 DEF EarnedBy
  <2>5. CASE k # l
    <3>1. buckets'[k] = buckets[k]
      BY <2>1, <2>5 DEF LimiterTypeOK
    <3>2. buckets[k] # NoBucket =>
            /\ tokens'[buckets[k]] = tokens[buckets[k]]
            /\ lastFill'[buckets[k]] = lastFill[buckets[k]]
      BY <2>1, <2>3, <1>t DEF LimiterTypeOK
    <3> QED
      BY <3>1, <3>2, <2>2, <1>e DEF EarnedBy
  <2> QED
    BY <2>4, <2>5
<1>3. ASSUME NEW t \in Threads, Take(t)
      PROVE  EarnedBy(k)'
  <2> DEFINE l == call[t].key
             b == call[t].bucket
  <2>1. l \in Keys /\ b \in Buckets /\ b # NoBucket
    BY <1>3, CallType, BucketAssumption DEF Take
  <2>2. /\ tokens' = [tokens EXCEPT ![b] = Refilled(b) - 1]
        /\ lastFill' = [lastFill EXCEPT ![b] = FilledAt(b)]
        /\ allowed' = [allowed EXCEPT ![l] = @ + 1]
        /\ stray' = IF buckets[l] = b THEN stray
                    ELSE [stray EXCEPT ![l] = @ + 1]
        /\ UNCHANGED <<now, buckets>>
    BY <1>3 DEF Take, Bump
  <2>3. buckets[k] = b => k = l
    BY <1>3, <2>1 DEF PerClient, Take
  <2>4. /\ Refilled(b) \in 0..Burst /\ FilledAt(b) \in Nat
        /\ Token * Refilled(b) <=
              Token * tokens[b] + (Rate * FilledAt(b) - Rate * lastFill[b])
    BY <2>1, RefillEffect
  <2> HIDE DEF l, b
  <2>5. CASE buckets[k] = b
    <3>1. /\ allowed'[k] = allowed[k] + 1 /\ stray'[k] = stray[k]
          /\ buckets'[k] = b
          /\ tokens'[b] = Refilled(b) - 1 /\ lastFill'[b] = FilledAt(b)
      BY <2>1, <2>2, <2>3, <2>5 DEF LimiterTypeOK
    <3>2. Token * (allowed[k] - stray[k] + tokens[b])
            <= Token * Burst + Rate * lastFill[b]
      BY <2>1, <2>5, <1>e DEF EarnedBy
    <3>3. tokens[b] \in Nat /\ lastFill[b] \in Nat
      BY <2>1 DEF LimiterTypeOK
    <3>4. Token * (allowed[k] - stray[k] + tokens[b])
            = Token * (allowed[k] - stray[k]) + Token * tokens[b]
      BY <1>t, <3>3
    <3>5. Token * (allowed[k] - stray[k] + Refilled(b))
            = Token * (allowed[k] - stray[k]) + Token * Refilled(b)
      BY <1>t, <2>4
    <3>6. Token * (allowed[k] - stray[k] + Refilled(b))
            <= Token * Burst + Rate * FilledAt(b)
      BY <3>2, <3>3, <3>4, <3>5, <2>4, <1>t
    <3>7. allowed[k] - stray[k] + Refilled(b)
            = allowed'[k] - stray'[k] + tokens'[b]
      BY <3>1, <2>4, <1>t
    <3> QED
      BY <3>1, <3>6, <3>7, <2>1 DEF EarnedBy
  <2>6. CASE buckets[k] # b
    <3>1. allowed'[k] - stray'[k] = allowed[k] - stray[k]
      <4>1. CASE k = l
        BY <4>1, <2>1, <2>2, <2>6, <1>t DEF LimiterTypeOK
      <4>2. CASE k # l
        BY <4>2, <2>1, <2>2 DEF LimiterTypeOK
      <4> QED
        BY <4>1, <4>2
    <3>2. buckets[k] # NoBucket =>
            /\ tokens'[buckets[k]] = tokens[buckets[k]]
            /\ lastFill'[buckets[k]] = lastFill[buckets[k]]
      BY <2>1, <2>2, <2>6, <1>t DEF LimiterTypeOK
    <3> QED
      BY <3>1, <3>2, <2>2, <1>e DEF EarnedBy
  <2> QED
    BY <2>5, <2>6
<1>4. ASSUME NEW t \in Threads, Deny(t)
      PROVE  EarnedBy(k)'
  <2> DEFINE b == call[t].bucket
  <2>1. b \in Buckets /\ Refilled(b) = 0
    BY <1>4, CallType DEF Deny
  <2>2. tokens[b] = 0 /\ FilledAt(b) = lastFill[b]
    BY <2>1, RefillEffect
  <2>3. /\ tokens' = [tokens EXCEPT ![b] = 0]
        /\ lastFill' = [lastFill EXCEPT ![b] = FilledAt(b)]
        /\ UNCHANGED <<buckets, allowed, stray, now>>
    BY <1>4 DEF Deny, historyVars
  <2>4. tokens' = tokens /\ lastFill' = lastFill
    BY <2>1, <2>2, <2>3 DEF LimiterTypeOK
  <2> QED
    BY <2>3, <2>4, <1>1
<1>5. ASSUME NEW l \in Keys, SweepKey(l)
      PROVE  EarnedBy(k)'
  <2>1. UNCHANGED <<tokens, lastFill, allowed, stray, now>>
    BY <1>5 DEF SweepKey, bucketVars
  <2>2. CASE buckets' = buckets
    BY <2>1, <2>2, <1>1
  <2>3. CASE buckets' # buckets
    <3>1. /\ sweepNow - lastUsed[buckets[l]] > TTL
          /\ buckets' = [buckets EXCEPT ![l] = NoBucket]
          /\ l \in sweepLeft
      BY <1>5, <2>3 DEF SweepKey
    <3>2. CASE k # l
      BY <3>1, <3>2, <2>1, <1>e DEF EarnedBy, LimiterTypeOK
    <3>3. CASE k = l
      <4> DEFINE b == buckets[k]
      <4>1. b \in Buckets /\ b # NoBucket
        BY <3>1, <3>3, <1>t DEF SweepInv
      <4> HIDE DEF b
      <4>2. /\ lastFill[b] \in Nat /\ tokens[b] \in Nat
            /\ lastUsed[b] \in Nat /\ sweepNow \in Nat
        BY <4>1 DEF LimiterTypeOK
      <4>3. lastFill[b] + TTL <= now
        BY <3>1, <3>3, <4>1, <4>2, <1>t DEF ClockInv, b
      <4>4. Rate * (lastFill[b] + TTL) <= Rate * now
        BY <4>2, <4>3, <1>t, TimesMono
      <4>5. Rate * (lastFill[b] + TTL) = Rate * lastFill[b] + Rate * TTL
        BY <4>2, <1>t
      <4>6. Token * (allowed[k] - stray[k] + tokens[b])
              <= Token * Burst + Rate * lastFill[b]
        BY <4>1, <1>e DEF EarnedBy, b
      <4>7. Token * (allowed[k] - stray[k])
              <= Token * (allowed[k] - stray[k] + tokens[b])
        BY <4>2, <1>t, TimesMono
      <4>8. Token * (allowed[k] - stray[k]) <= Rate * now
        <5>1. Rate * lastFill[b] + Rate * TTL <= Rate * now
          BY <4>4, <4>5
        <5>2. /\ Token * (allowed[k] - stray[k]) \in Int
              /\ Token * (allowed[k] - stray[k] + tokens[b]) \in Int
              /\ Token * Burst \in Int /\ Rate * lastFill[b] \in Int
              /\ Rate * TTL \in Int /\ Rate * now \in Int
          BY <4>2, <1>t
        <5> QED
          BY <5>1, <5>2, <4>6, <4>7, TTLAssumption, Chain
      <4>9. buckets'[k] = NoBucket
        BY <3>1, <3>3 DEF LimiterTypeOK
      <4> QED
        BY <4>8, <4>9, <2>1 DEF EarnedBy
    <3> QED
      BY <3>2, <3>3
  <2> QED
    BY <2>2, <2>3
<1>6. CASE Tick
  <2>1. /\ UNCHANGED <<buckets, tokens, lastFill, allowed, stray>>
        /\ now' = now + 1
    BY <1>6 DEF Tick, bucketVars, historyVars
  <2>2. Rate * now <= Rate * (now + 1)
    BY <1>t, TimesMono
  <2>3. Token * (allowed[k] - stray[k]) <= Rate * now
          => Token * (allowed[k] - stray[k]) <= Rate * now'
    BY <2>1, <2>2, <1>t
  <2> QED
    BY <2>1, <2>3, <1>e DEF EarnedBy
<1>7. ASSUME NEW t \in Threads, NEW l \in Keys, Find(t, l)
      PROVE  EarnedBy(k)'
  BY <1>7, <1>1 DEF Find, bucketVars, historyVars
<1>8. CASE SweepBegin \/ SweepEnd \/ UNCHANGED limiterVars
  BY <1>8, <1>1 DEF SweepBegin, SweepEnd, bucketVars, historyVars, limiterVars
<1> QED
  BY <1>2, <1>3, <1>4, <1>5, <1>6, <1>7, <1>8
  DEF LimiterNext, Lookup, Decide, Cleanup

-----------------------------------------------------------------------------
(***************************************************************************)
(* Stray requests                                                          *)
(***************************************************************************)

\* The calls that cleanup has overtaken are finitely many.
LEMMA OvertakenFinite ==
  ASSUME NEW k
  PROVE  /\ IsFiniteSet(Overtaken(k))
         /\ Cardinality(Overtaken(k)) \in Nat
         /\ Cardinality(Overtaken(k)) <= Cardinality(Threads)
         /\ Cardinality(Threads) \in Nat
<1>1. Overtaken(k) \subseteq Threads
  BY DEF Overtaken
<1> QED
  BY <1>1, ThreadsAssumption, FS_Subset, FS_CardinalityType

\* Every step keeps StrayInv: an overtaken call makes at most one stray
\* request, and calls are overtaken only when cleanup deletes a bucket.
LEMMA StrayStep ==
  ASSUME LimiterTypeOK, PerClient, StrayInv, [LimiterNext]_limiterVars, LimiterTypeOK'
  PROVE  StrayInv'
<1> SUFFICES ASSUME NEW k \in Keys
             PROVE  stray'[k] + Cardinality(Overtaken(k)')
                      <= evictions'[k] * Cardinality(Threads)
  BY DEF StrayInv
<1>s. stray[k] + Cardinality(Overtaken(k)) <= evictions[k] * Cardinality(Threads)
  BY DEF StrayInv
<1>t. /\ stray[k] \in Nat /\ evictions[k] \in Nat
      /\ Cardinality(Threads) \in Nat /\ Cardinality(Overtaken(k)) \in Nat
  BY OvertakenFinite DEF LimiterTypeOK
<1>1. CASE Overtaken(k)' = Overtaken(k) /\ UNCHANGED <<stray, evictions>>
  BY <1>1, <1>s
<1>2. ASSUME NEW t \in Threads, NEW l \in Keys, Find(t, l)
      PROVE  Overtaken(k)' = Overtaken(k) /\ UNCHANGED <<stray, evictions>>
  <2>1. /\ buckets' = buckets /\ ~InCall(t)
        /\ call' = [call EXCEPT ![t] = [key |-> l, bucket |-> buckets[l]]]
        /\ UNCHANGED <<stray, evictions>>
    BY <1>2 DEF Find, historyVars
  <2> QED
    BY <2>1 DEF Overtaken, InCall, LimiterTypeOK
<1>3. ASSUME NEW t \in Threads, NEW l \in Keys, Make(t, l)
      PROVE  Overtaken(k)' = Overtaken(k) /\ UNCHANGED <<stray, evictions>>
  <2>1. PICK b \in Buckets \ InUse :
          /\ buckets' = [buckets EXCEPT ![l] = b]
          /\ call' = [call EXCEPT ![t] = [key |-> l, bucket |-> b]]
    BY <1>3 DEF Make
  <2>2. ~InCall(t) /\ buckets[l] = NoBucket /\ UNCHANGED <<stray, evictions>>
    BY <1>3 DEF Make, historyVars
  <2>3. \A u \in Threads : call[u].bucket # b
    BY <2>1, FreshBucket
  <2>4. \A u \in Threads : InCall(u) => call[u].bucket # NoBucket
    BY CallType, BucketAssumption
  <2> QED
    BY <2>1, <2>2, <2>3, <2>4 DEF Overtaken, InCall, LimiterTypeOK
<1>4. ASSUME NEW t \in Threads, Take(t)
      PROVE  stray'[k] + Cardinality(Overtaken(k)')
               <= evictions'[k] * Cardinality(Threads)
  <2> DEFINE l == call[t].key
             b == call[t].bucket
  <2>1. /\ l \in Keys
        /\ call' = [call EXCEPT ![t] = NoCall]
        /\ stray' = IF buckets[l] = b THEN stray
                    ELSE [stray EXCEPT ![l] = @ + 1]
        /\ UNCHANGED <<buckets, evictions>>
        /\ InCall(t)
    BY <1>4, CallType DEF Take, Bump
  <2>2. Overtaken(k)' = Overtaken(k) \ {t}
    BY <2>1 DEF Overtaken, InCall, LimiterTypeOK
  <2>3. CASE t \in Overtaken(k)
    <3>1. l = k /\ buckets[l] # b
      BY <2>3 DEF Overtaken
    <3>2. stray'[k] = stray[k] + 1
      BY <3>1, <2>1 DEF LimiterTypeOK
    <3>3. Cardinality(Overtaken(k)') = Cardinality(Overtaken(k)) - 1
      BY <2>2, <2>3, OvertakenFinite, FS_RemoveElement
    <3> QED
      BY <3>2, <3>3, <2>1, <1>s, <1>t
  <2>4. CASE t \notin Overtaken(k)
    <3>1. l = k => buckets[l] = b
      BY <2>1, <2>4 DEF Overtaken
    <3>2. stray'[k] = stray[k]
      BY <3>1, <2>1 DEF LimiterTypeOK
    <3>3. Overtaken(k)' = Overtaken(k)
      BY <2>2, <2>4
    <3> QED
      BY <3>2, <3>3, <2>1, <1>s
  <2> QED
    BY <2>3, <2>4
<1>5. ASSUME NEW t \in Threads, Deny(t)
      PROVE  stray'[k] + Cardinality(Overtaken(k)')
               <= evictions'[k] * Cardinality(Threads)
  <2>1. /\ call' = [call EXCEPT ![t] = NoCall]
        /\ UNCHANGED <<buckets, stray, evictions>>
    BY <1>5 DEF Deny, historyVars
  <2>2. Overtaken(k)' \subseteq Overtaken(k)
    BY <2>1 DEF Overtaken, InCall, LimiterTypeOK
  <2>3. Cardinality(Overtaken(k)') <= Cardinality(Overtaken(k))
        /\ Cardinality(Overtaken(k)') \in Nat
    BY <2>2, OvertakenFinite, FS_Subset, FS_CardinalityType
  <2> QED
    BY <2>1, <2>3, <1>s, <1>t
<1>6. ASSUME NEW l \in Keys, SweepKey(l)
      PROVE  stray'[k] + Cardinality(Overtaken(k)')
               <= evictions'[k] * Cardinality(Threads)
  <2>1. call' = call /\ stray' = stray
    BY <1>6 DEF SweepKey
  <2>2. CASE UNCHANGED <<buckets, evictions>>
    BY <1>1, <2>1, <2>2 DEF Overtaken, InCall
  <2>3. CASE /\ buckets' = [buckets EXCEPT ![l] = NoBucket]
             /\ evictions' = [evictions EXCEPT ![l] = @ + 1]
    <3>1. CASE k # l
      <4>1. buckets'[k] = buckets[k] /\ evictions'[k] = evictions[k]
        BY <3>1, <2>3 DEF LimiterTypeOK
      <4>2. Overtaken(k)' = Overtaken(k)
        BY <4>1, <2>1 DEF Overtaken, InCall
      <4> QED
        BY <4>1, <4>2, <2>1, <1>s
    <3>2. CASE k = l
      <4>1. evictions'[k] = evictions[k] + 1
        BY <3>2, <2>3 DEF LimiterTypeOK
      <4>2. Overtaken(k)' \subseteq Threads
        BY DEF Overtaken
      <4>3. Cardinality(Overtaken(k)') \in Nat
            /\ Cardinality(Overtaken(k)') <= Cardinality(Threads)
        BY <4>2, ThreadsAssumption, FS_Subset, FS_CardinalityType
      <4>4. (evictions[k] + 1) * Cardinality(Threads)
              = evictions[k] * Cardinality(Threads) + Cardinality(Threads)
        BY <1>t
      <4>5. evictions[k] * Cardinality(Threads) \in Nat
        BY <1>t
      <4> QED
        BY <4>1, <4>3, <4>4, <4>5, <2>1, <1>s, <1>t
    <3> QED
      BY <3>1, <3>2
  <2> QED
    BY <1>6, <2>2, <2>3 DEF SweepKey, Bump
<1>7. CASE SweepBegin \/ SweepEnd \/ Tick \/ UNCHANGED limiterVars
  <2>1. UNCHANGED <<buckets, call, stray, evictions>>
    BY <1>7 DEF SweepBegin, SweepEnd, Tick, limiterVars, historyVars
  <2> QED
    BY <2>1, <1>1 DEF Overtaken, InCall
<1> QED
  BY <1>1, <1>2, <1>3, <1>4, <1>5, <1>6, <1>7
  DEF LimiterNext, Lookup, Decide, Cleanup

-----------------------------------------------------------------------------
(***************************************************************************)
(* The theorems                                                            *)
(***************************************************************************)

\* NewRateLimiter establishes the inductive invariant.
LEMMA LimiterInvInit == LimiterInit => LimiterInv
<1> SUFFICES ASSUME LimiterInit PROVE LimiterInv
  OBVIOUS
<1>1. LimiterTypeOK
  BY RateAssumption DEF LimiterInit, LimiterTypeOK
<1>2. ClockInv /\ PerClient /\ SweepInv
  BY DEF LimiterInit, ClockInv, PerClient, SweepInv, InCall
<1>3. Earned
  <2>1. Token * (0 - 0) = 0 /\ Rate * 0 = 0
    BY TokenType, RateAssumption
  <2> QED
    BY <2>1 DEF LimiterInit, Earned
<1>4. StrayInv
  <2> SUFFICES ASSUME NEW k \in Keys
               PROVE  stray[k] + Cardinality(Overtaken(k))
                        <= evictions[k] * Cardinality(Threads)
    BY DEF StrayInv
  <2>1. Overtaken(k) = {}
    BY DEF LimiterInit, Overtaken, InCall
  <2>2. Cardinality(Overtaken(k)) = 0
    BY <2>1, FS_EmptySet
  <2>3. stray[k] = 0 /\ evictions[k] = 0 /\ Cardinality(Threads) \in Nat
    BY OvertakenFinite DEF LimiterInit
  <2> QED
    BY <2>2, <2>3
<1> QED
  BY <1>1, <1>2, <1>3, <1>4 DEF LimiterInv

\* Every reachable state of the limiter satisfies the inductive invariant.
THEOREM LimiterInvariant == LimiterSpec => []LimiterInv
<1>1. ASSUME LimiterInv, [LimiterNext]_limiterVars PROVE LimiterInv'
  <2>1. LimiterTypeOK' /\ ClockInv'
    BY <1>1, TypeStep DEF LimiterInv
  <2>2. PerClient' /\ SweepInv'
    BY <1>1, PerClientStep DEF LimiterInv
  <2>3. Earned' /\ StrayInv'
    BY <1>1, <2>1, EarnedStep, StrayStep DEF LimiterInv
  <2> QED
    BY <2>1, <2>2, <2>3 DEF LimiterInv
<1> QED
  BY <1>1, LimiterInvInit, PTL DEF LimiterSpec

\* Every variable has its type and every bucket between 0 and Burst tokens.
THEOREM LimiterTypes == LimiterSpec => []LimiterTypeOK
<1>1. LimiterInv => LimiterTypeOK
  BY DEF LimiterInv
<1> QED
  BY <1>1, LimiterInvariant, PTL

\* For every rate, burst and clock resolution, a client is allowed no more
\* than its burst and what its rate has earned, apart from stray requests:
\* deleting idle buckets gives nothing away.
THEOREM RateIsBounded == LimiterSpec => []RateBound
<1>1. ASSUME LimiterInv PROVE RateBound
  <2> SUFFICES ASSUME NEW k \in Keys
               PROVE  Token * (allowed[k] - stray[k])
                        <= Token * Burst + Rate * now
    BY DEF RateBound
  <2>t. /\ now \in Nat /\ allowed[k] \in Nat /\ stray[k] \in Nat
        /\ buckets[k] \in Buckets \cup {NoBucket}
        /\ Rate \in Nat /\ Burst \in Nat /\ Token \in Nat
    BY <1>1, TokenType, RateAssumption DEF LimiterInv, LimiterTypeOK
  <2>1. CASE buckets[k] = NoBucket
    <3>1. Token * (allowed[k] - stray[k]) <= Rate * now
      BY <1>1, <2>1 DEF LimiterInv, Earned
    <3>2. Token * Burst \in Nat
      BY <2>t
    <3> QED
      BY <3>1, <3>2, <2>t
  <2>2. CASE buckets[k] # NoBucket
    <3> DEFINE b == buckets[k]
    <3>1. b \in Buckets
      BY <2>2, <2>t
    <3>2. Token * (allowed[k] - stray[k] + tokens[b])
            <= Token * Burst + Rate * lastFill[b]
      BY <1>1, <2>2 DEF LimiterInv, Earned
    <3>3. tokens[b] \in Nat /\ lastFill[b] \in Nat /\ lastFill[b] <= now
      BY <1>1, <3>1, <2>t DEF LimiterInv, LimiterTypeOK, ClockInv
    <3> HIDE DEF b
    <3>4. Token * (allowed[k] - stray[k])
            <= Token * (allowed[k] - stray[k] + tokens[b])
      BY <3>3, <2>t, TimesMono
    <3>5. Rate * lastFill[b] <= Rate * now
      BY <3>3, <2>t, TimesMono
    <3>6. /\ Token * (allowed[k] - stray[k]) \in Int
          /\ Token * (allowed[k] - stray[k] + tokens[b]) \in Int
          /\ Token * Burst \in Int /\ Rate * lastFill[b] \in Int
          /\ Rate * now \in Int
      BY <3>3, <2>t
    <3> QED
      BY <3>2, <3>4, <3>5, <3>6
  <2> QED
    BY <2>1, <2>2
<1> QED
  BY <1>1, LimiterInvariant, PTL

\* Each deletion of a bucket costs at most one stray request per goroutine.
THEOREM StraysAreBounded == LimiterSpec => []StrayBound
<1>1. ASSUME LimiterInv PROVE StrayBound
  <2> SUFFICES ASSUME NEW k \in Keys
               PROVE  stray[k] <= evictions[k] * Cardinality(Threads)
    BY DEF StrayBound
  <2>1. /\ stray[k] \in Nat /\ evictions[k] \in Nat
        /\ Cardinality(Overtaken(k)) \in Nat /\ Cardinality(Threads) \in Nat
    BY <1>1, OvertakenFinite DEF LimiterInv, LimiterTypeOK
  <2>2. stray[k] + Cardinality(Overtaken(k))
          <= evictions[k] * Cardinality(Threads)
    BY <1>1 DEF LimiterInv, StrayInv
  <2>3. evictions[k] * Cardinality(Threads) \in Nat
    BY <2>1
  <2> QED
    BY <2>1, <2>2, <2>3
<1> QED
  BY <1>1, LimiterInvariant, PTL
=============================================================================
