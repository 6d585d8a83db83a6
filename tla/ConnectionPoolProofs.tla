------------------------ MODULE ConnectionPoolProofs ------------------------
(***************************************************************************)
(* Proofs about ConnectionPool, for any number of callers, any arguments   *)
(* of NewConnectionPool and any outcomes of the factory.                   *)
(***************************************************************************)
EXTENDS ConnectionPool, FiniteSetTheorems, TLAPS

USE CallersAssumption, ConnsAssumption, ArgsAssumption

-----------------------------------------------------------------------------
(***************************************************************************)
(* Counting                                                                *)
(***************************************************************************)

\* NewConnectionPool's clamps make the limits usable whatever its arguments:
\* at least one connection may be kept idle, and no more than fit the channel.
LEMMA Limits ==
  /\ MaxSize \in Nat /\ MaxIdle \in Nat
  /\ 1 <= MaxIdle /\ MaxIdle <= MaxSize
BY DEF MaxSize, MaxIdle

\* A count of callers is a natural number, at most the number of all.
LEMMA CountType ==
  ASSUME NEW f, NEW S
  PROVE  LET C == Cardinality({t \in Callers : f[t] \in S})
         IN  C \in Nat /\ C <= Cardinality(Callers)
<1> DEFINE T == {t \in Callers : f[t] \in S}
<1>1. IsFiniteSet(T) /\ Cardinality(T) <= Cardinality(Callers)
  BY FS_Subset
<1> QED
  BY <1>1, FS_CardinalityType

\* When one caller goes to another point, a count changes by that caller
\* alone.
LEMMA CountGoto ==
  ASSUME TypeOK, NEW t \in Callers, NEW point, Goto(t, point), NEW S
  PROVE  /\ pc[t] \in S /\ point \in S => Count(S)' = Count(S)
         /\ pc[t] \notin S /\ point \notin S => Count(S)' = Count(S)
         /\ pc[t] \in S /\ point \notin S => Count(S)' = Count(S) - 1
         /\ pc[t] \notin S /\ point \in S => Count(S)' = Count(S) + 1
<1> DEFINE F == {u \in Callers : pc[u] \in S}
           G == {u \in Callers : pc'[u] \in S}
<1>1. pc'[t] = point /\ \A u \in Callers \ {t} : pc'[u] = pc[u]
  BY DEF TypeOK, Goto
<1>2. IsFiniteSet(F) /\ IsFiniteSet(G)
  BY FS_Subset
<1>3. (pc[t] \in S <=> point \in S) => G = F
  BY <1>1
<1>4. pc[t] \in S /\ point \notin S => G = F \ {t} /\ t \in F
  BY <1>1
<1>5. pc[t] \notin S /\ point \in S => G = F \cup {t} /\ t \notin F
  BY <1>1
<1>6. pc[t] \in S /\ point \notin S => Cardinality(G) = Cardinality(F) - 1
  BY <1>2, <1>4, FS_RemoveElement
<1>7. pc[t] \notin S /\ point \in S => Cardinality(G) = Cardinality(F) + 1
  BY <1>2, <1>5, FS_AddElement
<1>8. Count(S) = Cardinality(F) /\ Count(S)' = Cardinality(G)
  BY DEF Count
<1> QED
  BY <1>3, <1>6, <1>7, <1>8

-----------------------------------------------------------------------------
(***************************************************************************)
(* Types                                                                   *)
(***************************************************************************)

\* TypeOK is inductive by itself.
LEMMA TypeInit == Init => TypeOK
<1> SUFFICES ASSUME Init PROVE TypeOK
  OBVIOUS
<1>1. connections \in Seq(Conns) /\ Len(connections) <= MaxSize
      /\ created \in Int /\ phantom \in 0..MaxIdle
  BY Limits DEF Init, NewConnectionPool
<1> QED
  BY <1>1, Limits DEF Init, NewConnectionPool, TypeOK, PCs, GetPoints, PutPoints, Owning

(***************************************************************************)
(* The outcomes of the two steps that touch the channel.                   *)
(***************************************************************************)
Crashed ==
  /\ status = "closed" /\ status' = "panicked"
  /\ UNCHANGED <<connections, created, active, idle, inUse, pc, held, phantom>>
  /\ peak' \in {peak, Count(Inside) + 1} /\ peak' >= peak

TookHead(t) ==
  /\ connections # << >>
  /\ connections' = Tail(connections)
  /\ pc[t] \in {"out", "waiting"} /\ Goto(t, "received")
  /\ held' = [held EXCEPT ![t] = Head(connections)]
  /\ UNCHANGED <<status, created, active, idle, inUse, phantom>>
  /\ peak' \in {peak, Count(Inside) + 1} /\ peak' >= peak
  /\ pc[t] = "out" => peak' > Count(Inside)

Sent(t) ==
  /\ status # "closed" /\ Len(connections) < MaxSize
  /\ pc[t] = "returning" /\ Goto(t, "out")
  /\ connections' = Append(connections, held[t])
  /\ held' = [held EXCEPT ![t] = NoConn]
  /\ UNCHANGED <<status, created, active, idle, inUse, phantom, peak>>

Overflowed(t) ==
  /\ status # "closed" /\ Len(connections) >= MaxSize
  /\ pc[t] = "returning" /\ Goto(t, "out")
  /\ idle' = idle - 1 /\ created' = created - 1
  /\ held' = [held EXCEPT ![t] = NoConn]
  /\ UNCHANGED <<status, connections, active, inUse, phantom, peak>>

\* A count of callers is a number.
LEMMA CountIsNat == ASSUME NEW S PROVE Count(S) \in Nat
BY CountType DEF Count

\* The peak never falls, and covers a caller that enters.
LEMMA EnterEffect ==
  ASSUME TypeOK, Enter
  PROVE  /\ peak' \in {peak, Count(Inside) + 1} /\ peak' \in Nat
         /\ peak' >= peak /\ peak' > Count(Inside)
<1>1. Count(Inside) \in Nat /\ peak \in Nat
  BY CountIsNat DEF TypeOK
<1> QED
  BY <1>1 DEF Enter

\* A receive takes the head of the channel, or finds it closed.
LEMMA ReceiveEffect ==
  ASSUME TypeOK, NEW t \in Callers, GetReceive(t) \/ WaitReceive(t)
  PROVE  TookHead(t) \/ Crashed
<1>0. /\ peak' \in {peak, Count(Inside) + 1} /\ peak' >= peak
      /\ pc[t] = "out" => peak' > Count(Inside)
  BY EnterEffect DEF GetReceive, WaitReceive, TypeOK
<1>1. CASE connections # << >>
  BY <1>0, <1>1 DEF GetReceive, WaitReceive, Receive, TookHead
<1>2. CASE connections = << >>
  BY <1>0, <1>2 DEF GetReceive, WaitReceive, Receive, Panic, Crashed
<1> QED
  BY <1>1, <1>2

\* A send appends the connection, discards it, or panics.
LEMMA PutSendEffect ==
  ASSUME TypeOK, NEW t \in Callers, PutSend(t)
  PROVE  Sent(t) \/ Overflowed(t) \/ Crashed
<1>1. CASE status = "closed"
  BY <1>1 DEF PutSend, Panic, Crashed, TypeOK
<1>2. CASE status # "closed" /\ Len(connections) < MaxSize
  BY <1>2 DEF PutSend, Sent
<1>3. CASE status # "closed" /\ ~(Len(connections) < MaxSize)
  BY <1>3, Limits DEF PutSend, Overflowed, TypeOK
<1> QED
  BY <1>1, <1>2, <1>3

\* What Head, Tail and Append do to a channel.
LEMMA HeadTail ==
  ASSUME TypeOK, connections # << >>
  PROVE  /\ Head(connections) = connections[1] /\ Head(connections) \in Conns
         /\ 1 \in 1..Len(connections)
         /\ Tail(connections) \in Seq(Conns)
         /\ Len(Tail(connections)) = Len(connections) - 1
         /\ \A i \in 1..(Len(connections) - 1) :
              /\ i + 1 \in 1..Len(connections)
              /\ Tail(connections)[i] = connections[i + 1]
BY DEF TypeOK

\* The elements of a sequence with one appended.
LEMMA AppendEnd ==
  ASSUME TypeOK, NEW c \in Conns
  PROVE  /\ Append(connections, c) \in Seq(Conns)
         /\ Len(Append(connections, c)) = Len(connections) + 1
         /\ \A i \in 1..Len(connections) :
              Append(connections, c)[i] = connections[i]
         /\ Append(connections, c)[Len(connections) + 1] = c
BY DEF TypeOK

\* Every step keeps the types.
LEMMA TypeStep == TypeOK /\ [Next]_vars => TypeOK'
<1> SUFFICES ASSUME TypeOK, [Next]_vars PROVE TypeOK'
  OBVIOUS
<1> USE Limits, CountIsNat DEF PCs, GetPoints, PutPoints, Owning, Goto, Panic, poolVars
<1>1. ASSUME NEW t \in Callers, GetReceive(t) \/ WaitReceive(t) PROVE TypeOK'
  <2>1. CASE TookHead(t)
    <3>1. connections' \in Seq(Conns) /\ Len(connections') <= MaxSize
          /\ Head(connections) \in Conns
      BY <2>1, HeadTail DEF TypeOK, TookHead
    <3> QED
      BY <2>1, <3>1 DEF TypeOK, TookHead
  <2>2. CASE Crashed
    BY <2>2 DEF TypeOK, Crashed
  <2> QED
    BY <1>1, <2>1, <2>2, ReceiveEffect
<1>2. ASSUME NEW t \in Callers, GetFindsEmpty(t) PROVE TypeOK'
  BY <1>2, EnterEffect DEF TypeOK, GetFindsEmpty
<1>3. ASSUME NEW t \in Callers, GetAccount(t) PROVE TypeOK'
  BY <1>3 DEF TypeOK, GetAccount
<1>4. ASSUME NEW t \in Callers, GetCheckSize(t) PROVE TypeOK'
  BY <1>4 DEF TypeOK, GetCheckSize
<1>5. ASSUME NEW t \in Callers, CreateConnection(t) PROVE TypeOK'
  BY <1>5 DEF TypeOK, CreateConnection
<1>6. ASSUME NEW t \in Callers, CreateFails(t) PROVE TypeOK'
  BY <1>6 DEF TypeOK, CreateFails
<1>7. ASSUME NEW t \in Callers, GetActivate(t) PROVE TypeOK'
  BY <1>7 DEF TypeOK, GetActivate
<1>8. ASSUME NEW t \in Callers, WaitGivesUp(t) PROVE TypeOK'
  BY <1>8 DEF TypeOK, WaitGivesUp
<1>9. ASSUME NEW t \in Callers, PutGiveUp(t) PROVE TypeOK'
  BY <1>9 DEF TypeOK, PutGiveUp
<1>10. ASSUME NEW t \in Callers, PutSend(t) PROVE TypeOK'
  <2>1. CASE Sent(t)
    <3>1. held[t] \in Conns
      BY <2>1 DEF TypeOK, Sent
    <3>2. connections' \in Seq(Conns) /\ Len(connections') <= MaxSize
      BY <2>1, <3>1, AppendEnd DEF TypeOK, Sent
    <3> QED
      BY <2>1, <3>2 DEF TypeOK, Sent
  <2>2. CASE Overflowed(t)
    BY <2>2 DEF TypeOK, Overflowed
  <2>3. CASE Crashed
    BY <2>3 DEF TypeOK, Crashed
  <2> QED
    BY <1>10, <2>1, <2>2, <2>3, PutSendEffect
<1>11. ASSUME Close PROVE TypeOK'
  <2>1. CASE status = "closed"
    BY <1>11, <2>1 DEF TypeOK, Close
  <2>2. CASE status # "closed"
    BY <1>11, <2>2 DEF TypeOK, Close
  <2> QED BY <2>1, <2>2
<1>12. CASE UNCHANGED vars
  BY <1>12 DEF TypeOK, vars
<1> QED
  BY <1>1, <1>2, <1>3, <1>4, <1>5, <1>6, <1>7, <1>8, <1>9, <1>10, <1>11,
     <1>12 DEF Next, Get, Put

-----------------------------------------------------------------------------
(***************************************************************************)
(* Counters                                                                *)
(***************************************************************************)
Counters == Accounting /\ IdleBounded /\ CreatedInv /\ ClosedIsDrained

\* The peak covers the callers that are inside, and never falls.
LEMMA PeakStep ==
  ASSUME TypeOK, PeakInv, [Next]_vars
  PROVE  PeakInv' /\ peak' \in Nat /\ peak' >= peak
<1>0. Count(Inside) \in Nat /\ peak \in Nat
  BY CountIsNat DEF TypeOK
<1> USE <1>0 DEF PeakInv, Inside, PCs, GetPoints, PutPoints
<1>1. ASSUME NEW t \in Callers, TookHead(t)
      PROVE  PeakInv' /\ peak' \in Nat /\ peak' >= peak
  <2>1. \/ pc[t] = "out" /\ Count(Inside)' = Count(Inside) + 1
        \/ pc[t] = "waiting" /\ Count(Inside)' = Count(Inside)
    BY <1>1, CountGoto DEF TookHead
  <2> QED BY <1>1, <2>1 DEF TookHead
<1>2. ASSUME NEW t \in Callers, GetFindsEmpty(t)
      PROVE  PeakInv' /\ peak' \in Nat /\ peak' >= peak
  <2>1. Count(Inside)' = Count(Inside) + 1
    BY <1>2, CountGoto DEF GetFindsEmpty
  <2> QED BY <1>2, <2>1, EnterEffect DEF GetFindsEmpty
<1>3. ASSUME NEW t \in Callers, NEW point, pc[t] # "out", Goto(t, point), peak' = peak
      PROVE  PeakInv' /\ peak' \in Nat /\ peak' >= peak
  <2>1. pc[t] \in Inside
    BY <1>3 DEF TypeOK
  <2>2. Count(Inside)' \in {Count(Inside), Count(Inside) - 1}
    BY <1>3, <2>1, CountGoto
  <2> QED BY <1>3, <2>2
<1>4. ASSUME NEW t \in Callers,
             \/ GetAccount(t) \/ GetCheckSize(t) \/ CreateConnection(t)
             \/ CreateFails(t) \/ GetActivate(t) \/ WaitGivesUp(t)
             \/ PutGiveUp(t) \/ Sent(t) \/ Overflowed(t)
      PROVE  PeakInv' /\ peak' \in Nat /\ peak' >= peak
  <2>1. pc[t] # "out" /\ peak' = peak /\ \E point : Goto(t, point)
    BY <1>4 DEF GetAccount, GetCheckSize, CreateConnection, CreateFails,
                GetActivate, WaitGivesUp, PutGiveUp, Sent, Overflowed
  <2> QED BY <1>3, <2>1
<1>5. ASSUME pc' = pc, peak' \in {peak, Count(Inside) + 1}, peak' >= peak
      PROVE  PeakInv' /\ peak' \in Nat /\ peak' >= peak
  BY <1>5 DEF Count
<1>6. Close \/ UNCHANGED vars => pc' = pc /\ peak' = peak
  BY DEF Close, vars
<1>7. Crashed => pc' = pc /\ peak' \in {peak, Count(Inside) + 1} /\ peak' >= peak
  BY DEF Crashed
<1> QED
  BY <1>1, <1>2, <1>4, <1>5, <1>6, <1>7, ReceiveEffect, PutSendEffect
  DEF Next, Get, Put

\* Callers that own a connection and callers about to create one are different
\* callers, and all of them are inside.
LEMMA OwningAndComing ==
  ASSUME NEW f
  PROVE  Cardinality({t \in Callers : f[t] \in Owning})
           + Cardinality({t \in Callers : f[t] \in Coming})
         <= Cardinality({t \in Callers : f[t] \in Inside})
<1> DEFINE A == {t \in Callers : f[t] \in Owning}
           B == {t \in Callers : f[t] \in Coming}
           N == {t \in Callers : f[t] \in Inside}
<1>1. IsFiniteSet(A) /\ IsFiniteSet(B) /\ A \cap B = {}
  BY FS_Subset DEF Owning, Coming
<1>2. IsFiniteSet(A \cup B) /\ Cardinality(A \cup B) <= Cardinality(N)
  <2>1. IsFiniteSet(N) /\ A \cup B \subseteq N
    BY FS_Subset DEF Owning, Coming, Inside, PCs, GetPoints, PutPoints
  <2> QED BY <2>1, FS_Subset
<1>3. Cardinality(A \cup B) = Cardinality(A) + Cardinality(B)
  <2>1. Cardinality(A \cup B)
          = Cardinality(A) + Cardinality(B) - Cardinality(A \cap B)
    BY <1>1, FS_Union
  <2>2. Cardinality(A \cap B) = 0
    BY <1>1, FS_EmptySet
  <2>3. Cardinality(A) \in Nat /\ Cardinality(B) \in Nat
    BY <1>1, FS_CardinalityType
  <2> QED
    BY <2>1, <2>2, <2>3
<1> QED
  BY <1>2, <1>3

\* The four counts the counters are compared with are natural numbers.
LEMMA CountsAreNat ==
  /\ Count(Owning) \in Nat /\ Count({"using"}) \in Nat
  /\ Count(Idling) \in Nat /\ Count(Coming) \in Nat
  /\ Count(Inside) \in Nat
BY CountIsNat

\* NewConnectionPool sets the counters right.
LEMMA CountersInit == Init => Counters
<1> SUFFICES ASSUME Init PROVE Counters
  OBVIOUS
<1>1. PICK n \in 0..MaxIdle :
        /\ \E s \in [1..n -> Conns] : connections = s
        /\ created = n /\ phantom = MaxIdle - n
  BY DEF Init, NewConnectionPool
<1>2. Len(connections) = n
  BY <1>1, Limits
<1>3. ASSUME NEW S, "out" \notin S PROVE Count(S) = 0
  <2>1. {t \in Callers : pc[t] \in S} = {}
    BY <1>3 DEF Init
  <2> QED
    BY <2>1, FS_EmptySet DEF Count
<1>4. /\ Count(Owning) = 0 /\ Count({"using"}) = 0
      /\ Count(Idling) = 0
      /\ Count(Coming) = 0
  BY <1>3 DEF Owning, Idling, Coming
<1>5. status = "open" /\ idle = MaxIdle /\ active = 0
  BY DEF Init, NewConnectionPool
<1>6. Accounting
  BY <1>1, <1>2, <1>4, <1>5, Limits DEF Accounting
<1>7. IdleBounded /\ ClosedIsDrained
  BY <1>5, Limits DEF IdleBounded, ClosedIsDrained
<1>8. CreatedInv
  BY <1>1, <1>4, Limits DEF CreatedInv, CreatedOrComing
<1> QED
  BY <1>6, <1>7, <1>8 DEF Counters

\* Nobody is inside at first.
LEMMA PeakInit == Init => PeakInv
<1> SUFFICES ASSUME Init PROVE PeakInv
  OBVIOUS
<1>1. {t \in Callers : pc[t] \in Inside} = {}
  BY DEF Init, Inside
<1> QED
  BY <1>1, FS_EmptySet DEF PeakInv, Count, Init

\* Every step keeps the counters right.
LEMMA CountersStep == TypeOK /\ PeakInv /\ Counters /\ [Next]_vars => Counters'
<1> SUFFICES ASSUME TypeOK, PeakInv, Counters, [Next]_vars PROVE Counters'
  OBVIOUS
<1>0. /\ Len(connections) \in Nat /\ peak \in Nat /\ peak' \in Nat /\ peak' >= peak
      /\ created \in Int /\ active \in Int /\ idle \in Int /\ phantom \in Int
  BY PeakStep DEF TypeOK
<1> USE Limits, CountsAreNat, <1>0
<1>1. ASSUME NEW t \in Callers, TookHead(t) PROVE Counters'
  <2>1. /\ Count(Owning)' = Count(Owning) + 1
        /\ Count({"using"})' = Count({"using"})
        /\ Count(Idling)' = Count(Idling) + 1
        /\ Count(Coming)' = Count(Coming)
    BY <1>1, CountGoto DEF TookHead, Owning, Idling, Coming
  <2>2. /\ Len(connections') = Len(connections) - 1
        /\ connections # << >>
        /\ UNCHANGED <<status, created, active, idle, phantom>>
    BY <1>1, HeadTail DEF TookHead, TypeOK
  <2>3. Accounting'
    <3> SUFFICES ASSUME status = "open"
                 PROVE  /\ created' = Len(connections') + Count(Owning)'
                        /\ active' = Count({"using"})'
                        /\ idle' = Len(connections') + Count(Idling)' + phantom'
      BY <2>2 DEF Accounting
    <3>1. /\ created = Len(connections) + Count(Owning)
          /\ active = Count({"using"})
          /\ idle = Len(connections) + Count(Idling) + phantom
      BY DEF Counters, Accounting
    <3>2. created' = Len(connections') + Count(Owning)'
      BY <2>1, <2>2, <3>1
    <3>3. active' = Count({"using"})'
      BY <2>1, <2>2, <3>1
    <3>4. idle' = Len(connections') + Count(Idling)' + phantom'
      BY <2>1, <2>2, <3>1
    <3> QED
      BY <3>2, <3>3, <3>4
  <2>4. IdleBounded'
    BY <2>2 DEF Counters, IdleBounded
  <2>5. CreatedInv'
    BY <2>1, <2>2 DEF Counters, CreatedInv, CreatedOrComing
  <2>6. ClosedIsDrained'
    BY <2>2 DEF Counters, ClosedIsDrained
  <2> QED
    BY <2>3, <2>4, <2>5, <2>6 DEF Counters
<1>2. ASSUME NEW t \in Callers, GetFindsEmpty(t) PROVE Counters'
  <2>1. /\ Count(Owning)' = Count(Owning)
        /\ Count({"using"})' = Count({"using"})
        /\ Count(Idling)' = Count(Idling)
        /\ Count(Coming)' = Count(Coming) + 1
    BY <1>2, CountGoto DEF GetFindsEmpty, Owning, Idling, Coming
  <2>2. /\ Len(connections) = 0
        /\ Count(Owning)' + Count(Coming)' <= Count(Inside)'
        /\ UNCHANGED <<connections, status, created, active, idle, phantom>>
    BY <1>2, OwningAndComing DEF GetFindsEmpty, Count, poolVars
  <2>3. Accounting'
    BY <2>1, <2>2 DEF Counters, Accounting
  <2>4. IdleBounded'
    BY <2>2 DEF Counters, IdleBounded
  <2>5. CreatedInv'
    <3>1. Count(Inside)' <= peak'
      BY PeakStep DEF PeakInv
    <3>2. Count(Inside)' \in Nat
      BY CountType DEF Count
    <3> QED
      BY <2>1, <2>2, <3>1, <3>2 DEF Counters, Accounting, CreatedInv, CreatedOrComing
  <2>6. ClosedIsDrained'
    BY <2>2 DEF Counters, ClosedIsDrained
  <2> QED
    BY <2>3, <2>4, <2>5, <2>6 DEF Counters
<1>3. ASSUME NEW t \in Callers, GetAccount(t) PROVE Counters'
  <2>1. /\ Count(Owning)' = Count(Owning)
        /\ Count({"using"})' = Count({"using"}) + 1
        /\ Count(Idling)' = Count(Idling) - 1
        /\ Count(Coming)' = Count(Coming)
    BY <1>3, CountGoto DEF GetAccount, Owning, Idling, Coming
  <2>2. /\ idle' = idle - 1 /\ active' = active + 1
        /\ UNCHANGED <<connections, status, created, phantom>>
    BY <1>3 DEF GetAccount
  <2>3. Accounting'
    BY <2>1, <2>2 DEF Counters, Accounting
  <2>4. IdleBounded'
    BY <2>2 DEF Counters, IdleBounded
  <2>5. CreatedInv'
    BY <2>1, <2>2 DEF Counters, CreatedInv, CreatedOrComing
  <2>6. ClosedIsDrained'
    BY <2>2 DEF Counters, ClosedIsDrained
  <2> QED
    BY <2>3, <2>4, <2>5, <2>6 DEF Counters
<1>4. ASSUME NEW t \in Callers, GetCheckSize(t), created < MaxSize PROVE Counters'
  <2>1. /\ Count(Owning)' = Count(Owning)
        /\ Count({"using"})' = Count({"using"})
        /\ Count(Idling)' = Count(Idling)
        /\ Count(Coming)' = Count(Coming)
    BY <1>4, CountGoto DEF GetCheckSize, Owning, Idling, Coming
  <2>2. UNCHANGED <<connections, status, created, active, idle, phantom>>
    BY <1>4 DEF GetCheckSize, poolVars
  <2>3. Accounting'
    BY <2>1, <2>2 DEF Counters, Accounting
  <2>4. IdleBounded'
    BY <2>2 DEF Counters, IdleBounded
  <2>5. CreatedInv'
    BY <2>1, <2>2 DEF Counters, CreatedInv, CreatedOrComing
  <2>6. ClosedIsDrained'
    BY <2>2 DEF Counters, ClosedIsDrained
  <2> QED
    BY <2>3, <2>4, <2>5, <2>6 DEF Counters
<1>5. ASSUME NEW t \in Callers, GetCheckSize(t), ~(created < MaxSize) PROVE Counters'
  <2>1. /\ Count(Owning)' = Count(Owning)
        /\ Count({"using"})' = Count({"using"})
        /\ Count(Idling)' = Count(Idling)
        /\ Count(Coming)' = Count(Coming) - 1
    BY <1>5, CountGoto DEF GetCheckSize, Owning, Idling, Coming
  <2>2. UNCHANGED <<connections, status, created, active, idle, phantom>>
    BY <1>5 DEF GetCheckSize, poolVars
  <2>3. Accounting'
    BY <2>1, <2>2 DEF Counters, Accounting
  <2>4. IdleBounded'
    BY <2>2 DEF Counters, IdleBounded
  <2>5. CreatedInv'
    BY <2>1, <2>2 DEF Counters, CreatedInv, CreatedOrComing
  <2>6. ClosedIsDrained'
    BY <2>2 DEF Counters, ClosedIsDrained
  <2> QED
    BY <2>3, <2>4, <2>5, <2>6 DEF Counters
<1>6. ASSUME NEW t \in Callers, CreateConnection(t) PROVE Counters'
  <2>1. /\ Count(Owning)' = Count(Owning) + 1
        /\ Count({"using"})' = Count({"using"})
        /\ Count(Idling)' = Count(Idling)
        /\ Count(Coming)' = Count(Coming) - 1
    BY <1>6, CountGoto DEF CreateConnection, Owning, Idling, Coming
  <2>2. /\ created' = created + 1
        /\ UNCHANGED <<connections, status, active, idle, phantom>>
    BY <1>6 DEF CreateConnection
  <2>3. Accounting'
    BY <2>1, <2>2 DEF Counters, Accounting
  <2>4. IdleBounded'
    BY <2>2 DEF Counters, IdleBounded
  <2>5. CreatedInv'
    BY <2>1, <2>2 DEF Counters, CreatedInv, CreatedOrComing
  <2>6. ClosedIsDrained'
    BY <2>2 DEF Counters, ClosedIsDrained
  <2> QED
    BY <2>3, <2>4, <2>5, <2>6 DEF Counters
<1>7. ASSUME NEW t \in Callers, CreateFails(t) PROVE Counters'
  <2>1. /\ Count(Owning)' = Count(Owning)
        /\ Count({"using"})' = Count({"using"})
        /\ Count(Idling)' = Count(Idling)
        /\ Count(Coming)' = Count(Coming) - 1
    BY <1>7, CountGoto DEF CreateFails, Owning, Idling, Coming
  <2>2. UNCHANGED <<connections, status, created, active, idle, phantom>>
    BY <1>7 DEF CreateFails, poolVars
  <2>3. Accounting'
    BY <2>1, <2>2 DEF Counters, Accounting
  <2>4. IdleBounded'
    BY <2>2 DEF Counters, IdleBounded
  <2>5. CreatedInv'
    BY <2>1, <2>2 DEF Counters, CreatedInv, CreatedOrComing
  <2>6. ClosedIsDrained'
    BY <2>2 DEF Counters, ClosedIsDrained
  <2> QED
    BY <2>3, <2>4, <2>5, <2>6 DEF Counters
<1>8. ASSUME NEW t \in Callers, GetActivate(t) PROVE Counters'
  <2>1. /\ Count(Owning)' = Count(Owning)
        /\ Count({"using"})' = Count({"using"}) + 1
        /\ Count(Idling)' = Count(Idling)
        /\ Count(Coming)' = Count(Coming)
    BY <1>8, CountGoto DEF GetActivate, Owning, Idling, Coming
  <2>2. /\ active' = active + 1
        /\ UNCHANGED <<connections, status, created, idle, phantom>>
    BY <1>8 DEF GetActivate
  <2>3. Accounting'
    BY <2>1, <2>2 DEF Counters, Accounting
  <2>4. IdleBounded'
    BY <2>2 DEF Counters, IdleBounded
  <2>5. CreatedInv'
    BY <2>1, <2>2 DEF Counters, CreatedInv, CreatedOrComing
  <2>6. ClosedIsDrained'
    BY <2>2 DEF Counters, ClosedIsDrained
  <2> QED
    BY <2>3, <2>4, <2>5, <2>6 DEF Counters
<1>9. ASSUME NEW t \in Callers, WaitGivesUp(t) PROVE Counters'
  <2>1. /\ Count(Owning)' = Count(Owning)
        /\ Count({"using"})' = Count({"using"})
        /\ Count(Idling)' = Count(Idling)
        /\ Count(Coming)' = Count(Coming)
    BY <1>9, CountGoto DEF WaitGivesUp, Owning, Idling, Coming
  <2>2. UNCHANGED <<connections, status, created, active, idle, phantom>>
    BY <1>9 DEF WaitGivesUp, poolVars
  <2>3. Accounting'
    BY <2>1, <2>2 DEF Counters, Accounting
  <2>4. IdleBounded'
    BY <2>2 DEF Counters, IdleBounded
  <2>5. CreatedInv'
    BY <2>1, <2>2 DEF Counters, CreatedInv, CreatedOrComing
  <2>6. ClosedIsDrained'
    BY <2>2 DEF Counters, ClosedIsDrained
  <2> QED
    BY <2>3, <2>4, <2>5, <2>6 DEF Counters
<1>10. ASSUME NEW t \in Callers, PutGiveUp(t), idle < MaxIdle PROVE Counters'
  <2>1. /\ Count(Owning)' = Count(Owning)
        /\ Count({"using"})' = Count({"using"}) - 1
        /\ Count(Idling)' = Count(Idling) + 1
        /\ Count(Coming)' = Count(Coming)
    BY <1>10, CountGoto DEF PutGiveUp, Owning, Idling, Coming
  <2>2. /\ idle < MaxIdle /\ idle' = idle + 1 /\ active' = active - 1
        /\ UNCHANGED <<connections, status, created, phantom>>
    BY <1>10 DEF PutGiveUp
  <2>3. Accounting'
    <3>1. status' = "open" =>
            /\ created' = Len(connections)' + Count(Owning)'
            /\ active' = Count({"using"})'
      BY <2>1, <2>2 DEF Counters, Accounting
    <3>2. status' = "open" => idle = Len(connections) + Count(Idling) + phantom
      BY <2>2 DEF Counters, Accounting
    <3>3. Len(connections)' = Len(connections) /\ phantom' = phantom
      BY <2>2
    <3>4. status' = "open" => idle' = Len(connections)' + Count(Idling)' + phantom'
      BY <2>1, <2>2, <3>2, <3>3
    <3> QED
      BY <3>1, <3>4 DEF Accounting
  <2>4. IdleBounded'
    BY <2>2 DEF Counters, IdleBounded
  <2>5. CreatedInv'
    BY <2>1, <2>2 DEF Counters, CreatedInv, CreatedOrComing
  <2>6. ClosedIsDrained'
    BY <2>2 DEF Counters, ClosedIsDrained
  <2> QED
    BY <2>3, <2>4, <2>5, <2>6 DEF Counters
<1>11. ASSUME NEW t \in Callers, PutGiveUp(t), ~(idle < MaxIdle) PROVE Counters'
  <2>1. /\ Count(Owning)' = Count(Owning) - 1
        /\ Count({"using"})' = Count({"using"}) - 1
        /\ Count(Idling)' = Count(Idling)
        /\ Count(Coming)' = Count(Coming)
    BY <1>11, CountGoto DEF PutGiveUp, Owning, Idling, Coming
  <2>2. /\ created' = created - 1 /\ active' = active - 1
        /\ UNCHANGED <<connections, status, idle, phantom>>
    BY <1>11 DEF PutGiveUp
  <2>3. Accounting'
    BY <2>1, <2>2 DEF Counters, Accounting
  <2>4. IdleBounded'
    BY <2>2 DEF Counters, IdleBounded
  <2>5. CreatedInv'
    BY <2>1, <2>2 DEF Counters, CreatedInv, CreatedOrComing
  <2>6. ClosedIsDrained'
    BY <2>2 DEF Counters, ClosedIsDrained
  <2> QED
    BY <2>3, <2>4, <2>5, <2>6 DEF Counters
<1>12. ASSUME NEW t \in Callers, Sent(t), status # "panicked" PROVE Counters'
  <2>1. /\ Count(Owning)' = Count(Owning) - 1
        /\ Count({"using"})' = Count({"using"})
        /\ Count(Idling)' = Count(Idling) - 1
        /\ Count(Coming)' = Count(Coming)
    <3>1. pc[t] = "returning" /\ Goto(t, "out")
      BY <1>12 DEF Sent
    <3> QED
      BY <3>1, CountGoto DEF Owning, Idling, Coming
  <2>2. /\ Len(connections') = Len(connections) + 1 /\ status = "open"
        /\ UNCHANGED <<status, created, active, idle, phantom>>
    BY <1>12, AppendEnd DEF Sent, TypeOK, Owning
  <2>3. Accounting'
    BY <2>1, <2>2 DEF Counters, Accounting
  <2>4. IdleBounded'
    BY <2>2 DEF Counters, IdleBounded
  <2>5. CreatedInv'
    BY <2>1, <2>2 DEF Counters, CreatedInv, CreatedOrComing
  <2>6. ClosedIsDrained'
    BY <2>2 DEF Counters, ClosedIsDrained
  <2> QED
    BY <2>3, <2>4, <2>5, <2>6 DEF Counters
<1>13. ASSUME NEW t \in Callers, Overflowed(t) PROVE Counters'
  <2>1. /\ Count(Owning)' = Count(Owning) - 1
        /\ Count({"using"})' = Count({"using"})
        /\ Count(Idling)' = Count(Idling) - 1
        /\ Count(Coming)' = Count(Coming)
    BY <1>13, CountGoto DEF Overflowed, Owning, Idling, Coming
  <2>2. /\ created' = created - 1 /\ idle' = idle - 1
        /\ UNCHANGED <<connections, status, active, phantom>>
    BY <1>13 DEF Overflowed
  <2>3. Accounting'
    <3> SUFFICES ASSUME status = "open"
                 PROVE  /\ created' = Len(connections') + Count(Owning)'
                        /\ active' = Count({"using"})'
                        /\ idle' = Len(connections') + Count(Idling)' + phantom'
      BY <2>2 DEF Accounting
    <3>1. /\ created = Len(connections) + Count(Owning)
          /\ active = Count({"using"})
          /\ idle = Len(connections) + Count(Idling) + phantom
      BY DEF Counters, Accounting
    <3>2. created' = Len(connections') + Count(Owning)'
      BY <2>1, <2>2, <3>1
    <3>3. active' = Count({"using"})'
      BY <2>1, <2>2, <3>1
    <3>4. idle' = Len(connections') + Count(Idling)' + phantom'
      <4>1. Len(connections') = Len(connections) /\ phantom' = phantom
        BY <2>2
      <4>2. idle' = idle - 1 /\ Count(Idling)' = Count(Idling) - 1
        BY <2>1, <2>2
      <4> QED
        BY <3>1, <4>1, <4>2
    <3> QED
      BY <3>2, <3>3, <3>4
  <2>4. IdleBounded'
    BY <2>2 DEF Counters, IdleBounded
  <2>5. CreatedInv'
    BY <2>1, <2>2 DEF Counters, CreatedInv, CreatedOrComing
  <2>6. ClosedIsDrained'
    BY <2>2 DEF Counters, ClosedIsDrained
  <2> QED
    BY <2>3, <2>4, <2>5, <2>6 DEF Counters
<1>14. ASSUME Close PROVE Counters'
  <2>1. status' # "open" /\ connections' = << >>
    BY <1>14 DEF Close, Panic, Counters, ClosedIsDrained
  <2> QED
    BY <2>1 DEF Counters, Accounting, IdleBounded, CreatedInv, ClosedIsDrained
<1>15. ASSUME Crashed PROVE Counters'
  BY <1>15 DEF Crashed, Counters, Accounting, IdleBounded, CreatedInv,
       ClosedIsDrained
<1>16. CASE UNCHANGED vars
  BY <1>16 DEF vars, Counters, Accounting, IdleBounded, CreatedInv,
       CreatedOrComing, ClosedIsDrained, Count
<1> QED
  BY <1>1, <1>2, <1>3, <1>4, <1>5, <1>6, <1>7, <1>8, <1>9, <1>10, <1>11,
     <1>12, <1>13, <1>14, <1>15, <1>16, ReceiveEffect, PutSendEffect
  DEF Next, Get, Put

-----------------------------------------------------------------------------
(***************************************************************************)
(* Ownership                                                               *)
(***************************************************************************)
LEMMA ExclusiveInit == Init => ExclusiveUse
<1> SUFFICES ASSUME Init PROVE ExclusiveUse
  OBVIOUS
<1>1. \A t \in Callers : pc[t] = "out"
  BY DEF Init
<1>2. OneOwner /\ OwnedNotBuffered
  BY <1>1 DEF OneOwner, OwnedNotBuffered, Owning
<1>3. InUseIsUsed
  BY <1>1 DEF InUseIsUsed, Init, NewConnectionPool
<1>4. BufferedOnce
  <2>1. PICK n \in 0..MaxIdle : \E s \in [1..n -> Conns] :
          /\ \A i, j \in 1..n : i # j => s[i] # s[j]
          /\ connections = s
    BY DEF Init, NewConnectionPool
  <2>2. Len(connections) = n
    BY <2>1, Limits
  <2> QED
    BY <2>1, <2>2 DEF BufferedOnce
<1> QED
  BY <1>2, <1>3, <1>4 DEF ExclusiveUse

\* Every step keeps each connection in one place.
LEMMA ExclusiveStep == TypeOK /\ ExclusiveUse /\ [Next]_vars => ExclusiveUse'
<1> SUFFICES ASSUME TypeOK, ExclusiveUse, [Next]_vars PROVE ExclusiveUse'
  OBVIOUS
<1> USE DEF Owning, Goto
<1>1. ASSUME NEW t \in Callers, TookHead(t) PROVE ExclusiveUse'
  <2>1. /\ connections # << >> /\ connections' = Tail(connections)
        /\ pc[t] \in {"out", "waiting"} /\ pc' = [pc EXCEPT ![t] = "received"]
        /\ held' = [held EXCEPT ![t] = Head(connections)] /\ inUse' = inUse
    BY <1>1 DEF TookHead
  <2>2. OneOwner'
    BY <2>1, HeadTail DEF TypeOK, ExclusiveUse, OneOwner, OwnedNotBuffered
  <2>3. OwnedNotBuffered' /\ BufferedOnce'
    <3>1. /\ Len(connections') = Len(connections) - 1
          /\ Len(connections) \in Nat
          /\ Head(connections) = connections[1] /\ 1 \in 1..Len(connections)
          /\ \A i \in 1..Len(connections') :
               /\ i + 1 \in 1..Len(connections) /\ i + 1 # 1
               /\ connections'[i] = connections[i + 1]
      BY <2>1, HeadTail DEF TypeOK
    <3>2. BufferedOnce'
      <4> SUFFICES ASSUME NEW i \in 1..Len(connections'),
                          NEW j \in 1..Len(connections'), i # j
                   PROVE  connections'[i] # connections'[j]
        BY DEF BufferedOnce
      <4>1. i \in Int /\ j \in Int
        BY <3>1
      <4>2. i + 1 \in 1..Len(connections) /\ j + 1 \in 1..Len(connections)
        BY <3>1
      <4>3. i + 1 # j + 1
        BY <4>1
      <4>4. connections[i + 1] # connections[j + 1]
        BY <4>2, <4>3 DEF ExclusiveUse, BufferedOnce
      <4> QED
        BY <3>1, <4>4
    <3>3. \A i \in 1..Len(connections') : connections'[i] # connections[1]
      BY <3>1 DEF ExclusiveUse, BufferedOnce
    <3>4. OwnedNotBuffered'
      BY <2>1, <3>1, <3>3 DEF TypeOK, ExclusiveUse, OwnedNotBuffered
    <3> QED
      BY <3>2, <3>4
  <2>4. InUseIsUsed'
    BY <2>1 DEF TypeOK, ExclusiveUse, InUseIsUsed
  <2> QED
    BY <2>2, <2>3, <2>4 DEF ExclusiveUse
<1>2. ASSUME NEW t \in Callers,
             GetFindsEmpty(t) \/ GetCheckSize(t) \/ CreateFails(t)
               \/ WaitGivesUp(t)
      PROVE  ExclusiveUse'
  <2>1. /\ pc[t] \notin Owning /\ UNCHANGED <<connections, inUse, held>>
        /\ \E p \in {"empty", "creating", "waiting", "out"} :
             pc' = [pc EXCEPT ![t] = p]
    BY <1>2 DEF GetFindsEmpty, GetCheckSize, CreateFails, WaitGivesUp, poolVars
  <2> QED
    BY <2>1 DEF TypeOK, ExclusiveUse, OneOwner, OwnedNotBuffered,
                BufferedOnce, InUseIsUsed
<1>3. ASSUME NEW t \in Callers, GetAccount(t) \/ GetActivate(t)
      PROVE  ExclusiveUse'
  <2>1. /\ pc[t] \in {"received", "counted"} /\ held[t] \in Conns
        /\ pc' = [pc EXCEPT ![t] = "using"]
        /\ inUse' = [inUse EXCEPT ![held[t]] = TRUE]
        /\ UNCHANGED <<connections, held>>
    BY <1>3 DEF GetAccount, GetActivate, TypeOK
  <2>2. OneOwner' /\ OwnedNotBuffered' /\ BufferedOnce'
    BY <2>1 DEF TypeOK, ExclusiveUse, OneOwner, OwnedNotBuffered, BufferedOnce
  <2>3. InUseIsUsed'
    BY <2>1 DEF TypeOK, ExclusiveUse, InUseIsUsed
  <2> QED
    BY <2>2, <2>3 DEF ExclusiveUse
<1>4. ASSUME NEW t \in Callers, CreateConnection(t) PROVE ExclusiveUse'
  <2>1. PICK c \in Conns \ Live : held' = [held EXCEPT ![t] = c]
    BY <1>4 DEF CreateConnection
  <2>2. /\ pc[t] = "creating" /\ pc' = [pc EXCEPT ![t] = "counted"]
        /\ UNCHANGED <<connections, inUse>>
    BY <1>4 DEF CreateConnection
  <2>3. /\ \A u \in Callers : pc[u] \in Owning => held[u] # c
        /\ \A i \in 1..Len(connections) : connections[i] # c
    BY <2>1 DEF Live
  <2>4. OneOwner'
    BY <2>1, <2>2, <2>3 DEF TypeOK, ExclusiveUse, OneOwner
  <2>5. OwnedNotBuffered' /\ BufferedOnce'
    BY <2>1, <2>2, <2>3 DEF TypeOK, ExclusiveUse, OwnedNotBuffered, BufferedOnce
  <2>6. InUseIsUsed'
    BY <2>1, <2>2 DEF TypeOK, ExclusiveUse, InUseIsUsed
  <2> QED
    BY <2>4, <2>5, <2>6 DEF ExclusiveUse
<1>5. ASSUME NEW t \in Callers, PutGiveUp(t) PROVE ExclusiveUse'
  <2>1. /\ pc[t] = "using" /\ held[t] \in Conns
        /\ inUse' = [inUse EXCEPT ![held[t]] = FALSE]
        /\ UNCHANGED connections
        /\ \/ pc' = [pc EXCEPT ![t] = "returning"] /\ held' = held
           \/ /\ pc' = [pc EXCEPT ![t] = "out"]
              /\ held' = [held EXCEPT ![t] = NoConn]
    BY <1>5 DEF PutGiveUp, TypeOK
  <2>2. OneOwner' /\ OwnedNotBuffered' /\ BufferedOnce'
    BY <2>1 DEF TypeOK, ExclusiveUse, OneOwner, OwnedNotBuffered, BufferedOnce
  <2>3. InUseIsUsed'
    BY <2>1 DEF TypeOK, ExclusiveUse, InUseIsUsed, OneOwner
  <2> QED
    BY <2>2, <2>3 DEF ExclusiveUse
<1>6. ASSUME NEW t \in Callers, Sent(t) PROVE ExclusiveUse'
  <2>1. /\ pc[t] = "returning" /\ held[t] \in Conns
        /\ pc' = [pc EXCEPT ![t] = "out"] /\ inUse' = inUse
        /\ held' = [held EXCEPT ![t] = NoConn]
        /\ connections' = Append(connections, held[t])
    BY <1>6 DEF Sent, TypeOK
  <2>2. /\ Len(connections') = Len(connections) + 1
        /\ Len(connections) \in Nat
        /\ \A i \in 1..Len(connections) : connections'[i] = connections[i]
        /\ connections'[Len(connections) + 1] = held[t]
    BY <2>1, AppendEnd DEF TypeOK
  <2>3. OneOwner' /\ InUseIsUsed'
    BY <2>1 DEF TypeOK, ExclusiveUse, OneOwner, InUseIsUsed
  <2>4. \A i \in 1..Len(connections') :
          i \in 1..Len(connections) \/ i = Len(connections) + 1
    BY <2>2
  <2>5. BufferedOnce'
    BY <2>1, <2>2, <2>4 DEF ExclusiveUse, OwnedNotBuffered, BufferedOnce
  <2>6. OwnedNotBuffered'
    BY <2>1, <2>2, <2>4 DEF TypeOK, ExclusiveUse, OneOwner, OwnedNotBuffered
  <2> QED
    BY <2>3, <2>5, <2>6 DEF ExclusiveUse
<1>7. ASSUME NEW t \in Callers, Overflowed(t) PROVE ExclusiveUse'
  <2>1. /\ pc[t] = "returning" /\ UNCHANGED <<connections, inUse>>
        /\ pc' = [pc EXCEPT ![t] = "out"]
        /\ held' = [held EXCEPT ![t] = NoConn]
    BY <1>7 DEF Overflowed
  <2> QED
    BY <2>1 DEF TypeOK, ExclusiveUse, OneOwner, OwnedNotBuffered,
                BufferedOnce, InUseIsUsed
<1>8. ASSUME Close PROVE ExclusiveUse'
  <2>1. /\ UNCHANGED <<inUse, pc, held>>
        /\ connections' = << >> \/ connections' = connections
    BY <1>8 DEF Close, Panic
  <2> QED
    BY <2>1 DEF ExclusiveUse, OneOwner, OwnedNotBuffered, BufferedOnce,
                InUseIsUsed
<1>9. ASSUME UNCHANGED <<connections, inUse, pc, held>> PROVE ExclusiveUse'
  BY <1>9 DEF ExclusiveUse, OneOwner, OwnedNotBuffered, BufferedOnce,
              InUseIsUsed
<1>10. Crashed \/ UNCHANGED vars => ExclusiveUse'
  BY <1>9 DEF Crashed, vars
<1> QED
  BY <1>1, <1>2, <1>3, <1>4, <1>5, <1>6, <1>7, <1>8, <1>10,
     ReceiveEffect, PutSendEffect
  DEF Next, Get, Put

-----------------------------------------------------------------------------
(***************************************************************************)
(* Theorems                                                                *)
(***************************************************************************)

\* The type invariant holds in every reachable state of the pool.
THEOREM TypeCorrect == Spec => []TypeOK
<1>1. Init => TypeOK
  BY TypeInit
<1>2. TypeOK /\ [Next]_vars => TypeOK'
  BY TypeStep
<1> QED
  BY <1>1, <1>2, PTL DEF Spec

\* The inductive invariant: the counters agree with the channel and the
\* callers, each connection is in one place, and the number of connections
\* that exist or are about to exist is bounded.
THEOREM PoolInvariant == Spec => []PoolInv
<1>1. Init => PoolInv
  BY TypeInit, CountersInit, PeakInit, ExclusiveInit DEF PoolInv, Counters
<1>2. PoolInv /\ [Next]_vars => PoolInv'
  BY TypeStep, CountersStep, PeakStep, ExclusiveStep DEF PoolInv, Counters
<1> QED
  BY <1>1, <1>2, PTL DEF Spec

\* The counters kept by Get and Put never drift from the connections they
\* count, however calls interleave.
THEOREM CountersAreRight == Spec => [](Accounting /\ IdleBounded)
<1>1. PoolInv => Accounting /\ IdleBounded
  BY DEF PoolInv
<1> QED
  BY <1>1, PoolInvariant, PTL

\* No connection is handed to two callers.
THEOREM UseIsExclusive == Spec => []ExclusiveUse
<1>1. PoolInv => ExclusiveUse
  BY DEF PoolInv
<1> QED
  BY <1>1, PoolInvariant, PTL

\* There are never more connections than callers were at work or holding one at
\* the same time or than MaxIdle, whichever is more, although the check against MaxSize is not atomic with the creation.
THEOREM PoolSizeBound == Spec => []CreatedBounded
<1>1. PoolInv => CreatedBounded
  <2> SUFFICES ASSUME PoolInv, status = "open"
               PROVE  created <= peak \/ created <= MaxIdle
    BY DEF CreatedBounded
  <2>1. created \in Int /\ peak \in Nat /\ CreatedInv
    BY DEF PoolInv, TypeOK
  <2> QED
    BY <2>1, CountsAreNat, Limits DEF CreatedInv, CreatedOrComing
<1> QED
  BY <1>1, PoolInvariant, PTL

\* The default branch of Put's send can never be taken.
THEOREM SendHasRoom == Spec => []SendNeverBlocks
<1>1. PoolInv => SendNeverBlocks
  <2> SUFFICES ASSUME PoolInv, NEW t \in Callers, pc[t] = "returning"
               PROVE  Len(connections) < MaxSize
    BY DEF SendNeverBlocks
  <2>1. Count(Idling) >= 1
    <3> DEFINE I == {u \in Callers : pc[u] \in Idling}
    <3>1. IsFiniteSet(I) /\ t \in I
      BY FS_Subset DEF Idling
    <3>2. Cardinality(I) # 0 /\ Cardinality(I) \in Nat
      BY <3>1, FS_EmptySet, FS_CardinalityType
    <3> QED
      BY <3>2 DEF Count
  <2>2. Len(connections) \in Nat /\ phantom \in Nat /\ idle \in Int
    BY Limits DEF PoolInv, TypeOK
  <2>3. CASE status = "open"
    <3>1. idle = Len(connections) + Count(Idling) + phantom /\ idle <= MaxIdle
      BY <2>3 DEF PoolInv, Accounting, IdleBounded
    <3> QED
      BY <2>1, <2>2, <3>1, Limits, CountsAreNat
  <2>4. CASE status # "open"
    BY <2>4, Limits DEF PoolInv, ClosedIsDrained
  <2> QED
    BY <2>3, <2>4
<1> QED
  BY <1>1, PoolInvariant, PTL

\* Every behaviour of the pool is a behaviour of PoolLease.
THEOREM PoolImplementsLease == Spec => ImplementsLease
<1> USE DEF Owning, Goto
<1>1. Init => Lease!Init
  BY DEF Init, lease, Lease!Init
<1>2. PoolInv /\ [Next]_vars => [Lease!Next]_lease
  <2> SUFFICES ASSUME PoolInv, [Next]_vars PROVE [Lease!Next]_lease
    OBVIOUS
  <2>1. ASSUME NEW t \in Callers, GetAccount(t) \/ GetActivate(t)
        PROVE  Lease!Acquire(t)
    <3>1. /\ pc[t] \in {"received", "counted"} /\ held[t] \in Conns
          /\ pc' = [pc EXCEPT ![t] = "using"] /\ held' = held
      BY <2>1 DEF GetAccount, GetActivate, PoolInv, TypeOK
    <3>2. lease[t] = NoConn /\ lease' = [lease EXCEPT ![t] = held[t]]
      BY <3>1 DEF lease, PoolInv, TypeOK
    <3>3. \A u \in Callers : lease[u] # held[t]
      BY <3>1 DEF lease, PoolInv, ExclusiveUse, OneOwner
    <3> QED
      BY <3>1, <3>2, <3>3 DEF Lease!Acquire
  <2>2. ASSUME NEW t \in Callers, PutGiveUp(t) PROVE Lease!GiveBack(t)
    <3>1. /\ pc[t] = "using" /\ held[t] \in Conns
          /\ \A u \in Callers \ {t} : pc'[u] = pc[u] /\ held'[u] = held[u]
          /\ pc'[t] # "using"
      BY <2>2 DEF PutGiveUp, PoolInv, TypeOK
    <3>2. lease[t] # NoConn /\ lease' = [lease EXCEPT ![t] = NoConn]
      BY <3>1 DEF lease
    <3> QED
      BY <3>2 DEF Lease!GiveBack
  <2>3. ASSUME NEW t \in Callers, pc[t] # "using", pc'[t] # "using",
               \A u \in Callers \ {t} : pc'[u] = pc[u] /\ held'[u] = held[u]
        PROVE  lease' = lease
    BY <2>3 DEF lease
  <2>4. ASSUME NEW t \in Callers,
               TookHead(t) \/ GetFindsEmpty(t) \/ GetCheckSize(t)
                 \/ CreateConnection(t) \/ CreateFails(t) \/ WaitGivesUp(t)
                 \/ Sent(t) \/ Overflowed(t)
        PROVE  lease' = lease
    <3>1. /\ pc[t] # "using" /\ pc'[t] # "using"
          /\ \A u \in Callers \ {t} : pc'[u] = pc[u] /\ held'[u] = held[u]
      BY <2>4 DEF TookHead, GetFindsEmpty, GetCheckSize, CreateConnection,
           CreateFails, WaitGivesUp, Sent, Overflowed, PoolInv, TypeOK
    <3> QED
      BY <2>3, <3>1
  <2>5. Close \/ Crashed \/ UNCHANGED vars => lease' = lease
    BY DEF Close, Crashed, vars, lease
  <2> QED
    BY <2>1, <2>2, <2>4, <2>5, ReceiveEffect, PutSendEffect
    DEF Next, Get, Put, Lease!Next, PoolInv
<1> QED
  BY <1>1, <1>2, PoolInvariant, PTL DEF Spec, ImplementsLease, Lease!Spec

=============================================================================
