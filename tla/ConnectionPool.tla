--------------------------- MODULE ConnectionPool ---------------------------
(***************************************************************************)
(* The storage connection pool of internal/storage/pool.go.                *)
(*                                                                         *)
(* Several callers use one pool through Get and Put (or Release).  A       *)
(* caller of the model is one Get and what follows until its connection is *)
(* back; a goroutine that holds several connections is several callers,    *)
(* which may interleave more than it does.                                 *)
(*                                                                         *)
(* The pool keeps its idle connections in a buffered Go channel and its    *)
(* counters under one mutex, but a call holds the mutex only around the    *)
(* counters: the channel operation, the factory call and the counter       *)
(* updates of one call are separate steps, and other calls run in between. *)
(* A step of this module is one critical section or one channel operation. *)
(*                                                                         *)
(* Left out: the statistics waitCount and waitDuration, time stamps, and   *)
(* the delegating storage methods, none of which the pool reads back.      *)
(***************************************************************************)
EXTENDS Integers, Sequences, FiniteSets

CONSTANTS
  Callers,      \* the uses of the pool that may be under way at once
  Conns,        \* identities of PooledConnection objects
  NoConn,       \* the nil *PooledConnection
  SizeArg,      \* the maxSize argument of NewConnectionPool
  IdleArg       \* its maxIdleConns argument

ASSUME CallersAssumption == IsFiniteSet(Callers) /\ Callers # {}
ASSUME ConnsAssumption == NoConn \notin Conns
ASSUME ArgsAssumption == SizeArg \in Int /\ IdleArg \in Int

\* The defaults and the clamp NewConnectionPool applies to its arguments.
MaxSize == IF SizeArg <= 0 THEN 100 ELSE SizeArg
MaxIdle ==
  LET requested == IF IdleArg <= 0 THEN 10 ELSE IdleArg
  IN  IF requested > MaxSize THEN MaxSize ELSE requested

VARIABLES
  connections,  \* the channel: a FIFO buffer of capacity MaxSize
  status,       \* of the channel: "open" or "closed"; or "panicked", when a
                \* goroutine has panicked and the process is gone
  created,      \* p.created
  active,       \* p.active
  idle,         \* p.idle
  inUse,        \* conn.inUse, per connection
  pc,           \* where each caller is inside Get or Put
  held,         \* the connection a caller has
  phantom,      \* history: pre-creations that failed in NewConnectionPool
  peak          \* history: the most callers that were inside the pool, or had
                \* a connection, at the same time

poolVars == <<connections, status, created, active, idle, inUse>>
vars == <<connections, status, created, active, idle, inUse,
          pc, held, phantom, peak>>

(***************************************************************************)
(* Control points.  A caller outside the pool is "out" without and         *)
(* "using" with a connection.                                              *)
(***************************************************************************)
GetPoints == {"empty", "received", "creating", "counted", "waiting"}
PutPoints == {"returning"}
PCs == {"out", "using"} \cup GetPoints \cup PutPoints

\* The points at which a caller owns a connection the channel does not.
Owning == {"received", "counted", "using", "returning"}

\* Points between the channel operation and its accounting, where idle counts
\* a connection the channel does not hold; and points on the way to a creation.
Idling == {"received", "returning"}
Coming == {"empty", "creating"}

Inside == PCs \ {"out"}

Count(points) == Cardinality({t \in Callers : pc[t] \in points})

Live == {connections[i] : i \in 1..Len(connections)}
          \cup {held[t] : t \in {u \in Callers : pc[u] \in Owning}}

Goto(t, point) == pc' = [pc EXCEPT ![t] = point]

\* A caller enters the pool.
Enter ==
  LET inside == Count(Inside) + 1 IN
  peak' = IF inside > peak THEN inside ELSE peak

Panic ==
  /\ status' = "panicked"
  /\ UNCHANGED <<connections, created, active, idle, inUse>>

-----------------------------------------------------------------------------
(***************************************************************************)
(* NewConnectionPool pre-creates MaxIdle connections, skips the ones whose *)
(* factory call fails, and then sets idle to MaxIdle all the same.         *)
(***************************************************************************)
NewConnectionPool ==
  /\ \E n \in 0..MaxIdle :
       /\ \E s \in [1..n -> Conns] :
            /\ \A i, j \in 1..n : i # j => s[i] # s[j]
            /\ connections = s
       /\ created = n
       /\ phantom = MaxIdle - n
  /\ idle = MaxIdle
  /\ active = 0
  /\ status = "open"
  /\ inUse = [c \in Conns |-> FALSE]

Init ==
  /\ NewConnectionPool
  /\ pc = [t \in Callers |-> "out"]
  /\ held = [t \in Callers |-> NoConn]
  /\ peak = 0

-----------------------------------------------------------------------------
\* Mutants of Get.  It creates without trying the channel; it ignores the
\* factory's error and uses the nil connection; its second select has no timer
\* case.
GetFindsEmpty_NotTried(t) ==
  /\ pc[t] = "out" /\ status = "open"
  /\ Goto(t, "empty") /\ Enter
  /\ UNCHANGED <<poolVars, held, phantom>>

CreateFails_Ignored(t) ==
  /\ pc[t] = "creating"
  /\ created' = created + 1
  /\ Goto(t, "counted")
  /\ UNCHANGED <<connections, status, active, idle, inUse, held, phantom, peak>>

WaitGivesUp_NoTimer(t) ==
  /\ pc[t] = "waiting" /\ status = "closed"
  /\ Goto(t, "out")
  /\ UNCHANGED <<poolVars, held, phantom, peak>>

-----------------------------------------------------------------------------
(***************************************************************************)
(* Get.  Its first select takes a connection if one is buffered, and goes  *)
(* on to the default branch if none is.  (A canceled context makes the     *)
(* same select return an error; that changes nothing.)  A receive from a   *)
(* closed channel yields nil, which the next line dereferences.            *)
(***************************************************************************)
Receive(t) ==
  IF connections # << >>
  THEN /\ held' = [held EXCEPT ![t] = Head(connections)]
       /\ connections' = Tail(connections)
       /\ Goto(t, "received")
       /\ UNCHANGED <<status, created, active, idle, inUse, phantom>>
  ELSE /\ status = "closed"
       /\ Panic
       /\ UNCHANGED <<pc, held, phantom>>

GetReceive(t) == pc[t] = "out" /\ Receive(t) /\ Enter

GetFindsEmpty(t) ==
  /\ pc[t] = "out"
  /\ connections = << >> /\ status = "open"
  /\ Goto(t, "empty") /\ Enter
  /\ UNCHANGED <<poolVars, held, phantom>>

\* The critical section after a receive: the connection changes from idle to
\* active.
GetAccount(t) ==
  /\ pc[t] = "received"
  /\ inUse' = [inUse EXCEPT ![held[t]] = TRUE]
  /\ idle' = idle - 1
  /\ active' = active + 1
  /\ Goto(t, "using")
  /\ UNCHANGED <<connections, status, created, held, phantom, peak>>

\* The size check; the mutex is released before the connection is created.
GetCheckSize(t) ==
  /\ pc[t] = "empty"
  /\ Goto(t, IF created < MaxSize THEN "creating" ELSE "waiting")
  /\ UNCHANGED <<poolVars, held, phantom, peak>>

\* createConnection, when the factory succeeds.
CreateConnection(t) ==
  /\ pc[t] = "creating"
  /\ \E c \in Conns \ Live : held' = [held EXCEPT ![t] = c]
  /\ created' = created + 1
  /\ Goto(t, "counted")
  /\ UNCHANGED <<connections, status, active, idle, inUse, phantom, peak>>

\* createConnection, when the factory fails: Get returns the error.
CreateFails(t) ==
  /\ pc[t] = "creating"
  /\ Goto(t, "out")
  /\ UNCHANGED <<poolVars, held, phantom, peak>>

\* The critical section after a creation.
GetActivate(t) ==
  /\ pc[t] = "counted"
  /\ inUse' = [inUse EXCEPT ![held[t]] = TRUE]
  /\ active' = active + 1
  /\ Goto(t, "using")
  /\ UNCHANGED <<connections, status, created, idle, held, phantom, peak>>

\* The second select: a connection arrives, or the timer or the context ends
\* the wait with an error.
WaitReceive(t) == pc[t] = "waiting" /\ Receive(t) /\ UNCHANGED peak

WaitGivesUp(t) ==
  /\ pc[t] = "waiting"
  /\ Goto(t, "out")
  /\ UNCHANGED <<poolVars, held, phantom, peak>>

-----------------------------------------------------------------------------
\* Mutants of Put.  A discarded connection stays counted; the test of the idle
\* limit is off by one; every connection is kept.
PutGiveUp_StaysCounted(t) ==
  /\ pc[t] = "using"
  /\ inUse' = [inUse EXCEPT ![held[t]] = FALSE]
  /\ active' = active - 1
  /\ IF idle < MaxIdle
     THEN idle' = idle + 1 /\ Goto(t, "returning") /\ UNCHANGED held
     ELSE /\ Goto(t, "out")
          /\ held' = [held EXCEPT ![t] = NoConn]
          /\ UNCHANGED idle
  /\ UNCHANGED <<connections, status, created, phantom, peak>>

PutKeepsIf(t, keep) ==
  /\ pc[t] = "using"
  /\ inUse' = [inUse EXCEPT ![held[t]] = FALSE]
  /\ active' = active - 1
  /\ IF keep
     THEN idle' = idle + 1 /\ Goto(t, "returning") /\ UNCHANGED <<created, held>>
     ELSE /\ created' = created - 1
          /\ Goto(t, "out")
          /\ held' = [held EXCEPT ![t] = NoConn]
          /\ UNCHANGED idle
  /\ UNCHANGED <<connections, status, phantom, peak>>
PutGiveUp_AlwaysKeeps(t) == PutKeepsIf(t, TRUE)

\* The caller keeps the connection it has released, and uses it on.
PutSend_KeptInHand(t) ==
  /\ pc[t] = "returning" /\ status = "open"
  /\ connections' = Append(connections, held[t])
  /\ Goto(t, "using")
  /\ UNCHANGED <<status, created, active, idle, inUse, held, phantom, peak>>

-----------------------------------------------------------------------------
(***************************************************************************)
(* Put, called by Release.  The first critical section gives the           *)
(* connection up and decides whether to keep it; the send comes after the  *)
(* mutex is released.                                                      *)
(***************************************************************************)
PutGiveUp(t) ==
  /\ pc[t] = "using"
  /\ inUse' = [inUse EXCEPT ![held[t]] = FALSE]
  /\ active' = active - 1
  /\ IF idle < MaxIdle
     THEN /\ idle' = idle + 1
          /\ Goto(t, "returning")
          /\ UNCHANGED <<created, held>>
     ELSE /\ created' = created - 1
          /\ Goto(t, "out")
          /\ held' = [held EXCEPT ![t] = NoConn]
          /\ UNCHANGED idle
  /\ UNCHANGED <<connections, status, phantom, peak>>

\* The send.  On a closed channel it panics; on a full one the default branch
\* takes the mutex again and discards the connection.
PutSend(t) ==
  /\ pc[t] = "returning"
  /\ IF status = "closed"
     THEN Panic /\ UNCHANGED <<pc, held>>
     ELSE /\ Goto(t, "out")
          /\ held' = [held EXCEPT ![t] = NoConn]
          /\ IF Len(connections) < MaxSize
             THEN /\ connections' = Append(connections, held[t])
                  /\ UNCHANGED <<created, idle>>
             ELSE /\ idle' = idle - 1
                  /\ created' = created - 1
                  /\ UNCHANGED connections
          /\ UNCHANGED <<status, active, inUse>>
  /\ UNCHANGED <<phantom, peak>>

(***************************************************************************)
(* Close closes and drains the channel and zeroes the counters, whoever is *)
(* still using the pool.  Closing a closed channel panics.                 *)
(***************************************************************************)
Close ==
  /\ IF status = "closed"
     THEN Panic
     ELSE /\ status' = "closed"
          /\ connections' = << >>
          /\ created' = 0 /\ active' = 0 /\ idle' = 0
          /\ UNCHANGED inUse
  /\ UNCHANGED <<pc, held, phantom, peak>>

-----------------------------------------------------------------------------
Get(t) ==
  \/ GetReceive(t) \/ GetFindsEmpty(t) \/ GetAccount(t) \/ GetCheckSize(t)
  \/ CreateConnection(t) \/ CreateFails(t) \/ GetActivate(t)
  \/ WaitReceive(t) \/ WaitGivesUp(t)

Put(t) == PutGiveUp(t) \/ PutSend(t)

Next ==
  \/ status # "panicked" /\ \E t \in Callers : Get(t) \/ Put(t)
  \/ status # "panicked" /\ Close
  \/ status = "panicked" /\ UNCHANGED vars      \* the process has died

Spec == Init /\ [][Next]_vars

(***************************************************************************)
(* A call that has entered the pool keeps running: goroutines are          *)
(* scheduled, the factory returns and the timer of the second select       *)
(* fires.  Nothing makes a caller call Get, Release or Close.              *)
(***************************************************************************)
CallStep(t) ==
  /\ status # "panicked"
  /\ \/ GetAccount(t) \/ GetCheckSize(t) \/ CreateConnection(t)
     \/ CreateFails(t) \/ GetActivate(t) \/ WaitReceive(t) \/ WaitGivesUp(t)
     \/ PutSend(t)

Fairness == \A t \in Callers : WF_vars(CallStep(t))

FairSpec == Spec /\ Fairness

-----------------------------------------------------------------------------
(***************************************************************************)
(* Properties                                                              *)
(***************************************************************************)

\* Every variable has the type the code declares; the channel never holds
\* more than its capacity.
TypeOK ==
  /\ connections \in Seq(Conns) /\ Len(connections) <= MaxSize
  /\ status \in {"open", "closed", "panicked"}
  /\ created \in Int /\ active \in Int /\ idle \in Int
  /\ inUse \in [Conns -> BOOLEAN]
  /\ pc \in [Callers -> PCs]
  /\ held \in [Callers -> Conns \cup {NoConn}]
  /\ \A t \in Callers : pc[t] \in Owning => held[t] \in Conns
  /\ phantom \in 0..MaxIdle /\ peak \in Nat

\* While the pool is open its three counters, each updated in critical
\* sections apart from the channel operation it accounts for, agree with
\* where the connections really are: created counts every connection that is
\* buffered or owned, active the ones a caller uses, and idle the rest plus
\* the pre-creations that failed.
Accounting ==
  status = "open" =>
    /\ created = Len(connections) + Count(Owning)
    /\ active = Count({"using"})
    /\ idle = Len(connections) + Count(Idling) + phantom

\* The pool never keeps more idle connections than MaxIdle, although Put
\* tests the counter before it sends and Get decrements it after it receives.
IdleBounded == status = "open" => idle <= MaxIdle

\* A connection is in at most one place: no two callers own it, none owns one
\* that is in the channel, and it is in the channel once; inUse is set exactly
\* while a caller uses it.
OneOwner ==
  \A t, u \in Callers :
    t # u /\ pc[t] \in Owning /\ pc[u] \in Owning => held[t] # held[u]
OwnedNotBuffered ==
  \A t \in Callers : pc[t] \in Owning =>
    \A i \in 1..Len(connections) : held[t] # connections[i]
BufferedOnce ==
  \A i, j \in 1..Len(connections) : i # j => connections[i] # connections[j]
InUseIsUsed ==
  \A c \in Conns :
    inUse[c] <=> \E t \in Callers : pc[t] = "using" /\ held[t] = c
ExclusiveUse == OneOwner /\ OwnedNotBuffered /\ BufferedOnce /\ InUseIsUsed

\* Put's default branch ("Pool is full, close the connection") is dead code:
\* a caller that is about to send always finds room in the channel.
SendNeverBlocks ==
  \A t \in Callers : pc[t] = "returning" => Len(connections) < MaxSize

\* Get checks created < maxSize and releases the mutex before it creates, so
\* any number of callers can pass the check together and the limit does not
\* bound the pool.  What bounds it is that Get tries the channel first: there
\* are never more connections than callers were at work or holding one at the
\* same time, or than MaxIdle if that is more.
CreatedBounded == status = "open" => created <= peak \/ created <= MaxIdle

(***************************************************************************)
(* The inductive strengthening of CreatedBounded: it also counts the       *)
(* callers that have found the channel empty and may still create.  And    *)
(* what the proofs need to know of a closed pool.                          *)
(***************************************************************************)
CreatedOrComing == created + Count(Coming)
CreatedInv ==
  status = "open" => CreatedOrComing <= peak \/ CreatedOrComing <= MaxIdle
PeakInv == Count(Inside) <= peak
ClosedIsDrained == status # "open" => connections = << >>

PoolInv ==
  /\ TypeOK /\ Accounting /\ IdleBounded /\ ExclusiveUse
  /\ CreatedInv /\ PeakInv /\ ClosedIsDrained

\* Seen from its callers the pool is PoolLease: whatever the interleaving of
\* Get, Put and Close, a connection is handed to one caller at a time.
lease == [t \in Callers |-> IF pc[t] = "using" THEN held[t] ELSE NoConn]
Lease == INSTANCE PoolLease
  WITH Callers <- Callers, Conns <- Conns, NoConn <- NoConn, lease <- lease
ImplementsLease == Lease!Spec

\* Every Get that has begun returns, with a connection or an error, even when
\* Put discards the connection it could have been given: the timer ends the
\* wait.
GetReturns ==
  \A t \in Callers :
    pc[t] \in GetPoints ~> pc[t] \in {"out", "using"} \/ status = "panicked"

=============================================================================
