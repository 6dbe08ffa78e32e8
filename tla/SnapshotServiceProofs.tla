------------------------ MODULE SnapshotServiceProofs ------------------------
(***************************************************************************)
(* Proofs about SnapshotService, for every set of requests, every list of  *)
(* sections, every TTL, every length of the run and a wall clock that is   *)
(* set at any time, back and forward: its type, the inductive invariant    *)
(* Inv, the promises to the clients that follow from it, and that the      *)
(* service implements TelemetryCache.                                      *)
(***************************************************************************)
EXTENDS SnapshotService, TLAPS

ClockMoves == Tick \/ SetClockBack \/ SetClockForward

NotAfter(i, j) == Atomic!NotAfter(i, j)

\* Time passes or the wall clock is set: neither is undone by the other.
LEMMA ClockStep ==
  ASSUME clock \in Instants, ClockMoves
  PROVE  /\ clock' \in Instants /\ NotAfter(clock, clock')
         /\ UNCHANGED <<mu, service, pc, ctx, local, resp, call, newest>>
<1> USE ConstantsAssumption DEF Instants, Time, NotAfter, Atomic!NotAfter
<1>1. CASE Tick
  BY <1>1 DEF Tick
<1>2. CASE SetClockBack
  BY <1>2 DEF SetClockBack
<1>3. CASE SetClockForward
  BY <1>3 DEF SetClockForward
<1> QED
  BY <1>1, <1>2, <1>3 DEF ClockMoves

\* An instant is made of numbers, and is no later than itself.
LEMMA InstantType ==
  ASSUME NEW i \in Instants
  PROVE  /\ i.time \in Int /\ i.back \in Int /\ i.ahead \in Int
         /\ i.time \in Time /\ NotAfter(i, i)
  BY ConstantsAssumption DEF Instants, Time, NotAfter, Atomic!NotAfter

LEMMA NotAfterTransitive ==
  ASSUME NEW i \in Instants, NEW j \in Instants, NEW k \in Instants,
         NotAfter(i, j), NotAfter(j, k)
  PROVE  NotAfter(i, k)
  BY InstantType DEF NotAfter, Atomic!NotAfter

\* The placeholder is a snapshot.
LEMMA UnavailableType ==
  ASSUME NEW t \in Time PROVE Unavailable(t) \in Snapshot
  BY DEF Unavailable, Snapshot, NoReading, Readings

\* NewServiceWithOptions builds a well-typed service.
LEMMA InitType == Init => TypeOK
<1> SUFFICES ASSUME Init PROVE TypeOK
    OBVIOUS
<1>1. 0 \in Time
  BY ConstantsAssumption DEF Time
<1>2. Unavailable(0) \in Snapshot /\ Start \in Instants
  BY <1>1, UnavailableType, ConstantsAssumption DEF Start, Instants
<1>3. Len(Order) \in Nat
  BY ConstantsAssumption
<1>4. 0 \in 0..Len(Order)
  BY <1>3
<1> QED
  BY <1>1, <1>2, <1>4 DEF Init, TypeOK, Kinds

\* Every step of a handler, a client or the clock keeps the types.
LEMMA StepType == TypeOK /\ [Next]_vars => TypeOK'
<1> SUFFICES ASSUME TypeOK, [Next]_vars
             PROVE  TypeOK'
    OBVIOUS
<1>0. clock \in Instants /\ clock.time \in Time /\ Start \in Instants /\ 0 \in Time
  BY InstantType, ConstantsAssumption DEF TypeOK, Start, Instants, Time
<1> USE ConstantsAssumption DEF TypeOK, Time
<1>1. ASSUME NEW r \in Requests, NEW k \in Kinds, Arrive(r, k) PROVE TypeOK'
  BY <1>0, <1>1 DEF Arrive, service, local
<1>2. ASSUME NEW r \in Requests, Cancel(r) PROVE TypeOK'
  BY <1>2 DEF Cancel, service, local, call
<1>3. ASSUME NEW r \in Requests, Lock(r) PROVE TypeOK'
  BY <1>3 DEF Lock, service, call
<1>4. ASSUME NEW r \in Requests, Block(r) PROVE TypeOK'
  BY <1>4 DEF Block, service, call
<1>5. ASSUME NEW r \in Requests, ServeHealth(r) PROVE TypeOK'
  BY <1>5 DEF ServeHealth, Unlock, service, local, call
<1>6. ASSUME NEW r \in Requests, ServeCached(r) PROVE TypeOK'
  BY <1>6 DEF ServeCached, Reply, Unlock, service, local, call
<1>7. ASSUME NEW r \in Requests, BeginCollect(r) PROVE TypeOK'
  BY <1>0, <1>7 DEF BeginCollect, service, call, Snapshot, NoReading, Readings
<1>8. ASSUME NEW r \in Requests, CollectSection(r) PROVE TypeOK'
  <2>1. Current(r) \in Sections
    <3>1. done[r] + 1 \in 1..Len(Order)
      <4>1. Len(Order) \in Nat
        BY ConstantsAssumption
      <4> QED
        BY <1>8, <4>1 DEF CollectSection
    <3> QED
      BY <3>1 DEF Current, Sections
  <2>2. draft' \in [Requests -> Snapshot]
    <3>1. PICK v \in {"measured", "absent"} :
            draft' = [draft EXCEPT ![r].reading[Current(r)] = v]
      BY <1>8 DEF CollectSection
    <3>2. [draft[r] EXCEPT !.reading = [@ EXCEPT ![Current(r)] = v]] \in Snapshot
      BY <2>1 DEF Snapshot, Readings
    <3> QED
      BY <3>1, <3>2
  <2>3. done' \in [Requests -> 0..Len(Order)]
    <3>1. Len(Order) \in Nat
      BY ConstantsAssumption
    <3>2. done[r] + 1 \in 0..Len(Order)
      BY <1>8, <3>1 DEF CollectSection
    <3>3. done' = [done EXCEPT ![r] = done[r] + 1]
      BY <1>8 DEF CollectSection
    <3> QED
      BY <3>2, <3>3
  <2>4. blocked' \in [Requests -> BOOLEAN]
    BY <1>8 DEF CollectSection
  <2> QED
    BY <1>8, <2>2, <2>3, <2>4 DEF CollectSection, service, call
<1>9. ASSUME NEW r \in Requests, FinishCollect(r) PROVE TypeOK'
  BY <1>9 DEF FinishCollect, Reply, Unlock, local, call
<1>10. ASSUME NEW r \in Requests, FailCollect(r) PROVE TypeOK'
  <2>1. Unavailable(seen[r].time) \in Snapshot
    BY InstantType, UnavailableType
  <2> QED
    BY <1>10, <2>1 DEF FailCollect, Reply, Unlock, local, call
<1>11. ASSUME NEW r \in Requests, Return(r) PROVE TypeOK'
  <2>1. Unavailable(0) \in Snapshot
    BY UnavailableType
  <2>2. newest' \in Time \cup {-1}
    BY <1>11 DEF Return, Snapshot
  <2> QED
    BY <1>0, <1>11, <2>1, <2>2 DEF Return, service, Kinds
<1>12. ASSUME ClockMoves PROVE TypeOK'
  BY <1>12, ClockStep DEF service, local, call
<1>13. ASSUME UNCHANGED vars PROVE TypeOK'
  BY <1>13 DEF vars, service, local, call
<1> QED
  BY <1>1, <1>2, <1>3, <1>4, <1>5, <1>6, <1>7, <1>8, <1>9, <1>10, <1>11,
     <1>12, <1>13 DEF Next, Handle, ClockMoves

\* Every field of Service, and every local of Snapshot, keeps its type.
THEOREM TypeCorrect == Spec => []TypeOK
  BY InitType, StepType, PTL DEF Spec

-------------------------------------------------------------------------------
Holding(r) == pc[r] \in {"locked", "collecting"}

\* Exactly the handler that holds the mutex is between Lock and Unlock.
MutualExclusion == \A r \in Requests : Holding(r) <=> mu = r

\* The cached snapshot is dated between the moment its collection was decided
\* on and now, and no client has received a later one.
CacheDated ==
  IF hasCache
    THEN /\ cache.collected /\ NotAfter(cacheAt, clock)
         /\ cacheAt.time <= cache.at /\ cache.at <= clock.time /\ newest <= cache.at
    ELSE newest = -1

\* What a handler knows of the past is past.
HandlerDated ==
  \A r \in Requests :
    /\ floor[r] <= newest
    /\ arrived[r] <= clock.time
    /\ Holding(r) => /\ arrived[r] <= seen[r].time /\ NotAfter(seen[r], clock)
                     /\ hasCache => NotAfter(cacheAt, seen[r])

\* A collection goes on only when the cache is not fresh, and what it collects
\* is no older than the cached snapshot.
CollectionDue ==
  \A r \in Requests : pc[r] = "collecting" =>
    /\ kind[r] = "stats" /\ ~Fresh(r)
    /\ draft[r].collected /\ seen[r].time <= draft[r].at /\ draft[r].at <= clock.time
    /\ hasCache => cache.at <= draft[r].at

\* An answer on its way out is no newer than the cached snapshot.
AnswerDated ==
  \A r \in Requests : pc[r] = "answered" /\ kind[r] = "stats" =>
    IF resp[r].collected
      THEN hasCache /\ floor[r] <= resp[r].at /\ resp[r].at <= cache.at
      ELSE floor[r] = -1

\* A handler without a request, or without an answer, holds nothing of either.
Quiescent ==
  \A r \in Requests :
    /\ pc[r] = "idle" => arrived[r] = 0 /\ kind[r] = "stats"
    /\ pc[r] # "answered" \/ kind[r] = "health" => resp[r] = Unavailable(0)

Inv ==
  /\ TypeOK
  /\ MutualExclusion
  /\ CacheDated
  /\ HandlerDated
  /\ CollectionDue
  /\ AnswerDated
  /\ Quiescent

\* Timestamps are integers, the ones the history variables hold too.
LEMMA Integral ==
  ASSUME TypeOK
  PROVE  /\ newest \in Int /\ cache.at \in Int
         /\ \A r \in Requests : floor[r] \in Int /\ resp[r].at \in Int
<1> USE ConstantsAssumption DEF TypeOK, Time
<1>1. newest \in Int
  OBVIOUS
<1>2. cache.at \in Int
  BY DEF Snapshot
<1>3. ASSUME NEW r \in Requests PROVE floor[r] \in Int /\ resp[r].at \in Int
  <2>1. floor[r] \in Int
    OBVIOUS
  <2>2. resp[r].at \in Int
    BY DEF Snapshot
  <2> QED
    BY <2>1, <2>2
<1> QED
  BY <1>1, <1>2, <1>3

\* Lock takes a free mutex and every return path releases it.
LEMMA StepMutex == Inv /\ [Next]_vars => MutualExclusion'
<1> SUFFICES ASSUME Inv, [Next]_vars PROVE MutualExclusion'
    OBVIOUS
<1> USE ConstantsAssumption DEF Inv, TypeOK, Time, MutualExclusion, Holding
<1>1. ASSUME NEW r \in Requests, NEW k \in Kinds, Arrive(r, k) PROVE MutualExclusion'
  BY <1>1 DEF Arrive, service, local
<1>2. ASSUME NEW r \in Requests, Cancel(r) PROVE MutualExclusion'
  BY <1>2 DEF Cancel, service, local, call
<1>3. ASSUME NEW r \in Requests, Lock(r) PROVE MutualExclusion'
  BY <1>3 DEF Lock, service, call
<1>4. ASSUME NEW r \in Requests, Block(r) PROVE MutualExclusion'
  BY <1>4 DEF Block, service, call
<1>5. ASSUME NEW r \in Requests, ServeHealth(r) PROVE MutualExclusion'
  BY <1>5 DEF ServeHealth, Unlock, service, local, call
<1>6. ASSUME NEW r \in Requests, ServeCached(r) PROVE MutualExclusion'
  BY <1>6 DEF ServeCached, Reply, Unlock, service, local, call
<1>7. ASSUME NEW r \in Requests, BeginCollect(r) PROVE MutualExclusion'
  BY <1>7 DEF BeginCollect, service, call
<1>8. ASSUME NEW r \in Requests, CollectSection(r) PROVE MutualExclusion'
  BY <1>8 DEF CollectSection, service, call
<1>9. ASSUME NEW r \in Requests, FinishCollect(r) PROVE MutualExclusion'
  BY <1>9 DEF FinishCollect, Reply, Unlock, local, call
<1>10. ASSUME NEW r \in Requests, FailCollect(r) PROVE MutualExclusion'
  BY <1>10 DEF FailCollect, Reply, Unlock, Unavailable, local, call
<1>11. ASSUME NEW r \in Requests, Return(r) PROVE MutualExclusion'
  BY <1>11 DEF Return, service, Unavailable
<1>12. ASSUME ClockMoves PROVE MutualExclusion'
  BY <1>12, ClockStep DEF service, local, call
<1>13. ASSUME UNCHANGED vars PROVE MutualExclusion'
  BY <1>13 DEF vars, service, local, call
<1> HIDE DEF Inv, TypeOK, Time, MutualExclusion, Holding
<1> QED
  BY <1>1, <1>2, <1>3, <1>4, <1>5, <1>6, <1>7, <1>8, <1>9, <1>10, <1>11,
     <1>12, <1>13 DEF Next, Handle, ClockMoves

\* FinishCollect replaces the cached snapshot by one dated later; Return
\* delivers one that is no later than the cached one.
LEMMA StepCache == Inv /\ [Next]_vars => CacheDated'
<1> SUFFICES ASSUME Inv, [Next]_vars PROVE CacheDated'
    OBVIOUS
<1> USE ConstantsAssumption DEF Inv, TypeOK, Time, CacheDated, MutualExclusion, Holding, HandlerDated, CollectionDue, AnswerDated, Snapshot
<1>1. ASSUME NEW r \in Requests, NEW k \in Kinds, Arrive(r, k) PROVE CacheDated'
  BY <1>1 DEF Arrive, service, local
<1>2. ASSUME NEW r \in Requests, Cancel(r) PROVE CacheDated'
  BY <1>2 DEF Cancel, service, local, call
<1>3. ASSUME NEW r \in Requests, Lock(r) PROVE CacheDated'
  BY <1>3 DEF Lock, service, call
<1>4. ASSUME NEW r \in Requests, Block(r) PROVE CacheDated'
  BY <1>4 DEF Block, service, call
<1>5. ASSUME NEW r \in Requests, ServeHealth(r) PROVE CacheDated'
  BY <1>5 DEF ServeHealth, Unlock, service, local, call
<1>6. ASSUME NEW r \in Requests, ServeCached(r) PROVE CacheDated'
  BY <1>6 DEF ServeCached, Reply, Unlock, service, local, call
<1>7. ASSUME NEW r \in Requests, BeginCollect(r) PROVE CacheDated'
  BY <1>7 DEF BeginCollect, service, call
<1>8. ASSUME NEW r \in Requests, CollectSection(r) PROVE CacheDated'
  BY <1>8 DEF CollectSection, service, call
<1>9. ASSUME NEW r \in Requests, FinishCollect(r) PROVE CacheDated'
  BY <1>9 DEF FinishCollect, Reply, Unlock, local, call
<1>10. ASSUME NEW r \in Requests, FailCollect(r) PROVE CacheDated'
  BY <1>10 DEF FailCollect, Reply, Unlock, Unavailable, local, call
<1>11. ASSUME NEW r \in Requests, Return(r) PROVE CacheDated'
  BY <1>11 DEF Return, service, Unavailable
<1>12. ASSUME ClockMoves PROVE CacheDated'
  <2>1. /\ clock \in Instants /\ clock' \in Instants /\ NotAfter(clock, clock')
        /\ newest' = newest /\ cache' = cache /\ hasCache' = hasCache /\ cacheAt' = cacheAt
    BY <1>12, ClockStep DEF service
  <2>2. clock.time \in Int /\ clock'.time \in Int /\ clock.time <= clock'.time
    BY <2>1, InstantType DEF NotAfter, Atomic!NotAfter
  <2>3. cacheAt \in Instants /\ cache.at \in Int
    BY Integral
  <2>4. ASSUME hasCache PROVE NotAfter(cacheAt, clock') /\ cache.at <= clock'.time
    BY <2>1, <2>2, <2>3, <2>4, NotAfterTransitive
  <2> HIDE DEF Inv, TypeOK, Time, MutualExclusion, HandlerDated, CollectionDue, AnswerDated, Snapshot, Holding
  <2> QED
    BY <2>1, <2>4 DEF Inv
<1>13. ASSUME UNCHANGED vars PROVE CacheDated'
  BY <1>13 DEF vars, service, local, call
<1> HIDE DEF Inv, TypeOK, Time, CacheDated, MutualExclusion, Holding, HandlerDated, CollectionDue, AnswerDated, Snapshot
<1> QED
  BY <1>1, <1>2, <1>3, <1>4, <1>5, <1>6, <1>7, <1>8, <1>9, <1>10, <1>11,
     <1>12, <1>13 DEF Next, Handle, ClockMoves

\* The clock, and newest, only grow.
LEMMA StepHandler == Inv /\ [Next]_vars => HandlerDated'
<1> SUFFICES ASSUME Inv, [Next]_vars PROVE HandlerDated'
    OBVIOUS
<1> USE ConstantsAssumption DEF Inv, TypeOK, Time, CacheDated, MutualExclusion, Holding, HandlerDated, CollectionDue, AnswerDated, Snapshot
<1>1. ASSUME NEW r \in Requests, NEW k \in Kinds, Arrive(r, k) PROVE HandlerDated'
  <2>1. clock.time <= clock.time /\ newest <= newest
    BY InstantType, Integral
  <2>2. /\ clock' = clock /\ newest' = newest /\ seen' = seen /\ hasCache' = hasCache
        /\ cacheAt' = cacheAt
        /\ \A q \in Requests : Holding(q)' => Holding(q) /\ arrived'[q] = arrived[q]
        /\ \A q \in Requests : floor'[q] = floor[q] \/ floor'[q] = newest
        /\ \A q \in Requests : arrived'[q] = arrived[q] \/ arrived'[q] = clock.time
    BY <1>1 DEF Arrive, service, local
  <2> HIDE DEF Inv, TypeOK, Time, CacheDated, MutualExclusion, CollectionDue, AnswerDated, Snapshot, Holding
  <2> QED
    BY <2>1, <2>2 DEF Inv
<1>2. ASSUME NEW r \in Requests, Cancel(r) PROVE HandlerDated'
  BY <1>2 DEF Cancel, service, local, call
<1>3. ASSUME NEW r \in Requests, Lock(r) PROVE HandlerDated'
  <2>1. NotAfter(clock, clock) /\ (hasCache => NotAfter(cacheAt, clock))
    BY InstantType
  <2>2. /\ clock' = clock /\ newest' = newest /\ floor' = floor /\ arrived' = arrived
        /\ hasCache' = hasCache /\ cacheAt' = cacheAt
        /\ \A q \in Requests :
             Holding(q)' => \/ seen'[q] = clock
                            \/ Holding(q) /\ seen'[q] = seen[q]
    BY <1>3 DEF Lock, service, call
  <2> HIDE DEF Inv, TypeOK, Time, CacheDated, MutualExclusion, CollectionDue, AnswerDated, Snapshot, Holding
  <2> QED
    BY <2>1, <2>2 DEF Inv
<1>4. ASSUME NEW r \in Requests, Block(r) PROVE HandlerDated'
  BY <1>4 DEF Block, service, call
<1>5. ASSUME NEW r \in Requests, ServeHealth(r) PROVE HandlerDated'
  BY <1>5 DEF ServeHealth, Unlock, service, local, call
<1>6. ASSUME NEW r \in Requests, ServeCached(r) PROVE HandlerDated'
  BY <1>6 DEF ServeCached, Reply, Unlock, service, local, call
<1>7. ASSUME NEW r \in Requests, BeginCollect(r) PROVE HandlerDated'
  BY <1>7 DEF BeginCollect, service, call
<1>8. ASSUME NEW r \in Requests, CollectSection(r) PROVE HandlerDated'
  BY <1>8 DEF CollectSection, service, call
<1>9. ASSUME NEW r \in Requests, FinishCollect(r) PROVE HandlerDated'
  BY <1>9 DEF FinishCollect, Reply, Unlock, local, call
<1>10. ASSUME NEW r \in Requests, FailCollect(r) PROVE HandlerDated'
  BY <1>10 DEF FailCollect, Reply, Unlock, Unavailable, local, call
<1>11. ASSUME NEW r \in Requests, Return(r) PROVE HandlerDated'
  <2>1. newest <= newest' /\ -1 <= newest'
    BY <1>11 DEF Return
  <2>2. \A q \in Requests : floor'[q] <= newest'
    <3> SUFFICES ASSUME NEW q \in Requests PROVE floor'[q] <= newest'
        OBVIOUS
    <3>1. CASE q = r
      BY <1>11, <2>1, <3>1 DEF Return
    <3>2. CASE q # r
      <4>1. floor'[q] = floor[q]
        BY <1>11, <3>2 DEF Return
      <4>2. newest \in Int /\ newest' \in Int /\ floor[q] \in Int
        BY <1>11, Integral DEF Return
      <4> QED
        BY <2>1, <4>1, <4>2
    <3> QED
      BY <3>1, <3>2
  <2>3. \A q \in Requests : Holding(q)' =>
          Holding(q) /\ seen'[q] = seen[q] /\ arrived'[q] = arrived[q]
    BY <1>11 DEF Return
  <2>4. \A q \in Requests : arrived'[q] <= clock.time
    <3>1. clock.time \in Time /\ 0 <= clock.time
      BY InstantType
    <3> QED
      BY <1>11, <3>1 DEF Return
  <2>5. clock' = clock /\ hasCache' = hasCache /\ cacheAt' = cacheAt
    BY <1>11 DEF Return, service
  <2> HIDE DEF Inv, TypeOK, Time, CacheDated, MutualExclusion, CollectionDue, AnswerDated, Snapshot, Holding
  <2> QED
    BY <2>2, <2>3, <2>4, <2>5 DEF Inv
<1>12. ASSUME ClockMoves PROVE HandlerDated'
  <2>1. /\ clock \in Instants /\ clock' \in Instants /\ NotAfter(clock, clock')
        /\ newest' = newest /\ floor' = floor /\ arrived' = arrived /\ seen' = seen
        /\ pc' = pc /\ hasCache' = hasCache /\ cacheAt' = cacheAt
    BY <1>12, ClockStep DEF service, local, call
  <2>2. \A q \in Requests : arrived[q] \in Int /\ seen[q] \in Instants
    OBVIOUS
  <2>3. clock.time \in Int /\ clock'.time \in Int /\ clock.time <= clock'.time
    BY <2>1, InstantType DEF NotAfter, Atomic!NotAfter
  <2>4. \A q \in Requests : arrived[q] <= clock'.time
    BY <2>2, <2>3
  <2>5. \A q \in Requests : Holding(q) => NotAfter(seen[q], clock')
    BY <2>1, <2>2, NotAfterTransitive
  <2>6. \A q \in Requests : Holding(q)' <=> Holding(q)
    BY <2>1
  <2> HIDE DEF Inv, TypeOK, Time, CacheDated, MutualExclusion, CollectionDue, AnswerDated, Snapshot, Holding
  <2> QED
    BY <2>1, <2>4, <2>5, <2>6 DEF Inv
<1>13. ASSUME UNCHANGED vars PROVE HandlerDated'
  BY <1>13 DEF vars, service, local, call
<1> HIDE DEF Inv, TypeOK, Time, CacheDated, MutualExclusion, Holding, HandlerDated, CollectionDue, AnswerDated, Snapshot
<1> QED
  BY <1>1, <1>2, <1>3, <1>4, <1>5, <1>6, <1>7, <1>8, <1>9, <1>10, <1>11,
     <1>12, <1>13 DEF Next, Handle, ClockMoves

\* collect starts from a stale cache, at a moment the lock holder has reached.
LEMMA CollectionBegun ==
  ASSUME Inv, NEW r \in Requests, BeginCollect(r) PROVE CollectionDue'
<1>1. /\ pc[r] = "locked" /\ kind[r] = "stats" /\ ~Fresh(r)
      /\ pc' = [pc EXCEPT ![r] = "collecting"]
      /\ draft' = [draft EXCEPT ![r] =
                     [at |-> clock.time, reading |-> NoReading, collected |-> TRUE]]
      /\ clock' = clock /\ cache' = cache /\ cacheAt' = cacheAt /\ hasCache' = hasCache
      /\ seen' = seen /\ kind' = kind
  BY DEF BeginCollect, service, call
<1>2. /\ seen[r].time <= clock.time /\ clock.time <= clock.time
      /\ hasCache => cache.at <= clock.time
  BY <1>1, InstantType
     DEF Inv, TypeOK, HandlerDated, Holding, CacheDated, NotAfter, Atomic!NotAfter
<1> SUFFICES ASSUME NEW q \in Requests, pc'[q] = "collecting"
             PROVE  /\ kind'[q] = "stats" /\ ~Fresh(q)'
                    /\ draft'[q].collected /\ seen'[q].time <= draft'[q].at
                    /\ draft'[q].at <= clock'.time
                    /\ hasCache' => cache'.at <= draft'[q].at
    BY DEF CollectionDue
<1>3. Fresh(q)' <=> Fresh(q)
  BY <1>1 DEF Fresh
<1>4. CASE q = r
  <2>1. draft'[q] = [at |-> clock.time, reading |-> NoReading, collected |-> TRUE]
    BY <1>1, <1>4 DEF Inv, TypeOK
  <2> QED
    BY <1>1, <1>2, <1>3, <1>4, <2>1
<1>5. CASE q # r
  <2>1. pc[q] = "collecting" /\ draft'[q] = draft[q]
    BY <1>1, <1>5 DEF Inv, TypeOK
  <2> QED
    BY <1>1, <1>3, <2>1 DEF Inv, CollectionDue
<1> QED
  BY <1>4, <1>5

\* Nobody refreshes the cache while a collection holds the mutex.
LEMMA StepCollection == Inv /\ [Next]_vars => CollectionDue'
<1> SUFFICES ASSUME Inv, [Next]_vars PROVE CollectionDue'
    OBVIOUS
<1> USE ConstantsAssumption DEF Inv, TypeOK, Time, CacheDated, MutualExclusion, Holding, HandlerDated, CollectionDue, Snapshot, Fresh
<1>1. ASSUME NEW r \in Requests, NEW k \in Kinds, Arrive(r, k) PROVE CollectionDue'
  BY <1>1 DEF Arrive, service, local
<1>2. ASSUME NEW r \in Requests, Cancel(r) PROVE CollectionDue'
  BY <1>2 DEF Cancel, service, local, call
<1>3. ASSUME NEW r \in Requests, Lock(r) PROVE CollectionDue'
  BY <1>3 DEF Lock, service, call
<1>4. ASSUME NEW r \in Requests, Block(r) PROVE CollectionDue'
  BY <1>4 DEF Block, service, call
<1>5. ASSUME NEW r \in Requests, ServeHealth(r) PROVE CollectionDue'
  BY <1>5 DEF ServeHealth, Unlock, service, local, call
<1>6. ASSUME NEW r \in Requests, ServeCached(r) PROVE CollectionDue'
  BY <1>6 DEF ServeCached, Reply, Unlock, service, local, call
<1>7. ASSUME NEW r \in Requests, BeginCollect(r) PROVE CollectionDue'
  BY <1>7, CollectionBegun
<1>8. ASSUME NEW r \in Requests, CollectSection(r) PROVE CollectionDue'
  BY <1>8 DEF CollectSection, service, call
<1>9. ASSUME NEW r \in Requests, FinishCollect(r) PROVE CollectionDue'
  BY <1>9 DEF FinishCollect, Reply, Unlock, local, call
<1>10. ASSUME NEW r \in Requests, FailCollect(r) PROVE CollectionDue'
  BY <1>10 DEF FailCollect, Reply, Unlock, Unavailable, local, call
<1>11. ASSUME NEW r \in Requests, Return(r) PROVE CollectionDue'
  BY <1>11 DEF Return, service, Unavailable
<1>12. ASSUME ClockMoves PROVE CollectionDue'
  <2>1. /\ clock \in Instants /\ clock' \in Instants /\ NotAfter(clock, clock')
        /\ pc' = pc /\ kind' = kind /\ draft' = draft /\ seen' = seen
        /\ cache' = cache /\ hasCache' = hasCache /\ cacheAt' = cacheAt
    BY <1>12, ClockStep DEF service, local, call
  <2>2. clock.time \in Int /\ clock'.time \in Int /\ clock.time <= clock'.time
    BY <2>1, InstantType DEF NotAfter, Atomic!NotAfter
  <2>3. \A q \in Requests : draft[q].at \in Int
    OBVIOUS
  <2>4. \A q \in Requests : pc[q] = "collecting" => draft[q].at <= clock'.time
    BY <2>2, <2>3
  <2>5. \A q \in Requests : Fresh(q)' <=> Fresh(q)
    BY <2>1
  <2> HIDE DEF Inv, TypeOK, Time, CacheDated, MutualExclusion, HandlerDated, Snapshot, Holding, Fresh
  <2> QED
    BY <2>1, <2>4, <2>5 DEF Inv
<1>13. ASSUME UNCHANGED vars PROVE CollectionDue'
  BY <1>13 DEF vars, service, local, call
<1> HIDE DEF Inv, TypeOK, Time, CacheDated, MutualExclusion, Holding, HandlerDated, CollectionDue, Snapshot, Fresh
<1> QED
  BY <1>1, <1>2, <1>3, <1>4, <1>5, <1>6, <1>7, <1>8, <1>9, <1>10, <1>11,
     <1>12, <1>13 DEF Next, Handle, ClockMoves

\* No request has seen a later snapshot than the cached one.
LEMMA FloorCached ==
  ASSUME TypeOK, CacheDated, HandlerDated, NEW r \in Requests
  PROVE  IF hasCache THEN cache.collected /\ floor[r] <= cache.at ELSE floor[r] = -1
<1>1. floor[r] <= newest /\ floor[r] \in Time \cup {-1}
  BY DEF HandlerDated, TypeOK
<1>2. CASE hasCache
  <2>1. cache.collected /\ newest <= cache.at
    BY <1>2 DEF CacheDated
  <2> QED
    BY <1>1, <1>2, <2>1, Integral
<1>3. CASE ~hasCache
  <2>1. newest = -1
    BY <1>3 DEF CacheDated
  <2> QED
    BY <1>1, <1>3, <2>1, ConstantsAssumption DEF Time
<1> QED
  BY <1>2, <1>3

\* What is being collected is no older than the cached snapshot.
LEMMA DraftDue ==
  ASSUME TypeOK, CacheDated, HandlerDated, CollectionDue,
         NEW r \in Requests, pc[r] = "collecting"
  PROVE  /\ draft[r].collected /\ draft[r].at \in Int
         /\ hasCache => cache.at <= draft[r].at
         /\ floor[r] <= draft[r].at
<1>1. draft[r].at \in Time
  BY DEF TypeOK, Snapshot
<1>2. draft[r].at \in Int /\ 0 <= draft[r].at
  BY <1>1, ConstantsAssumption DEF Time
<1>3. draft[r].collected /\ (hasCache => cache.at <= draft[r].at)
  BY DEF CollectionDue
<1>4. CASE hasCache
  BY <1>2, <1>3, <1>4, FloorCached, Integral
<1>5. CASE ~hasCache
  BY <1>2, <1>3, <1>5, FloorCached
<1> QED
  BY <1>2, <1>3, <1>4, <1>5

\* A collection that succeeds answers with the snapshot it caches.
LEMMA AnswerFinished ==
  ASSUME Inv, NEW r \in Requests, FinishCollect(r) PROVE AnswerDated'
<1>1. /\ hasCache' /\ cache' = draft[r] /\ floor' = floor /\ kind' = kind
      /\ pc[r] = "collecting" /\ pc' = [pc EXCEPT ![r] = "answered"]
      /\ resp' = [resp EXCEPT ![r] = draft[r]]
  BY DEF FinishCollect, Reply, Unlock, call
<1>2. /\ draft[r].collected /\ draft[r].at \in Int
      /\ hasCache => cache.at <= draft[r].at
      /\ floor[r] <= draft[r].at
  BY <1>1, DraftDue DEF Inv
<1> SUFFICES ASSUME NEW q \in Requests, pc'[q] = "answered", kind'[q] = "stats"
             PROVE  IF resp'[q].collected
                      THEN /\ hasCache' /\ floor'[q] <= resp'[q].at
                           /\ resp'[q].at <= cache'.at
                      ELSE floor'[q] = -1
    BY DEF AnswerDated
<1>3. CASE q = r
  <2>1. resp'[q] = draft[r]
    BY <1>1, <1>3 DEF Inv, TypeOK
  <2> QED
    BY <1>1, <1>2, <1>3, <2>1
<1>4. CASE q # r
  <2>1. pc[q] = "answered" /\ kind[q] = "stats" /\ resp'[q] = resp[q]
    BY <1>1, <1>4 DEF Inv, TypeOK
  <2>2. IF resp[q].collected
          THEN hasCache /\ floor[q] <= resp[q].at /\ resp[q].at <= cache.at
          ELSE floor[q] = -1
    BY <2>1 DEF Inv, AnswerDated
  <2>3. resp[q].at \in Int /\ cache.at \in Int
    BY Integral DEF Inv
  <2> QED
    BY <1>1, <1>2, <2>1, <2>2, <2>3
<1> QED
  BY <1>3, <1>4

\* A collection that fails answers with the cached snapshot, if there is one.
LEMMA AnswerFailed ==
  ASSUME Inv, NEW r \in Requests, FailCollect(r) PROVE AnswerDated'
<1>1. /\ cache' = cache /\ hasCache' = hasCache /\ floor' = floor /\ kind' = kind
      /\ pc' = [pc EXCEPT ![r] = "answered"]
      /\ resp' = [resp EXCEPT ![r] = IF hasCache THEN cache ELSE Unavailable(seen[r].time)]
  BY DEF FailCollect, Reply, Unlock, call
<1>2. IF hasCache THEN cache.collected /\ floor[r] <= cache.at ELSE floor[r] = -1
  BY FloorCached DEF Inv
<1>3. cache.at <= cache.at
  BY Integral DEF Inv
<1> SUFFICES ASSUME NEW q \in Requests, pc'[q] = "answered", kind'[q] = "stats"
             PROVE  IF resp'[q].collected
                      THEN /\ hasCache' /\ floor'[q] <= resp'[q].at
                           /\ resp'[q].at <= cache'.at
                      ELSE floor'[q] = -1
    BY DEF AnswerDated
<1>4. CASE q = r
  <2>1. resp'[q] = IF hasCache THEN cache ELSE Unavailable(seen[r].time)
    BY <1>1, <1>4 DEF Inv, TypeOK
  <2>2. ~Unavailable(seen[r].time).collected
    BY DEF Unavailable
  <2> QED
    BY <1>1, <1>2, <1>3, <1>4, <2>1, <2>2
<1>5. CASE q # r
  <2>1. pc[q] = "answered" /\ kind[q] = "stats" /\ resp'[q] = resp[q]
    BY <1>1, <1>5 DEF Inv, TypeOK
  <2> QED
    BY <1>1, <2>1 DEF Inv, AnswerDated
<1> QED
  BY <1>4, <1>5

\* An answer from the cache is the cached snapshot.
LEMMA AnswerCached ==
  ASSUME Inv, NEW r \in Requests, ServeCached(r) PROVE AnswerDated'
<1>1. /\ hasCache /\ cache' = cache /\ hasCache' = hasCache
      /\ floor' = floor /\ kind' = kind
      /\ pc' = [pc EXCEPT ![r] = "answered"] /\ resp' = [resp EXCEPT ![r] = cache]
  BY DEF ServeCached, Fresh, Reply, Unlock, service, call
<1>2. cache.collected /\ floor[r] <= cache.at
  BY <1>1, FloorCached DEF Inv
<1>3. cache.at <= cache.at
  BY Integral DEF Inv
<1> SUFFICES ASSUME NEW q \in Requests, pc'[q] = "answered", kind'[q] = "stats"
             PROVE  IF resp'[q].collected
                      THEN /\ hasCache' /\ floor'[q] <= resp'[q].at
                           /\ resp'[q].at <= cache'.at
                      ELSE floor'[q] = -1
    BY DEF AnswerDated
<1>4. CASE q = r
  <2>1. resp'[q] = cache
    BY <1>1, <1>4 DEF Inv, TypeOK
  <2> QED
    BY <1>1, <1>2, <1>3, <1>4, <2>1
<1>5. CASE q # r
  <2>1. pc[q] = "answered" /\ kind[q] = "stats" /\ resp'[q] = resp[q]
    BY <1>1, <1>5 DEF Inv, TypeOK
  <2> QED
    BY <1>1, <2>1 DEF Inv, AnswerDated
<1> QED
  BY <1>4, <1>5

\* An answer under way stays older than the cache, which only grows younger.
LEMMA StepAnswer == Inv /\ [Next]_vars => AnswerDated'
<1> SUFFICES ASSUME Inv, [Next]_vars PROVE AnswerDated'
    OBVIOUS
<1> USE ConstantsAssumption DEF Inv, TypeOK, Time, CacheDated, MutualExclusion, Holding, HandlerDated, CollectionDue, AnswerDated, Snapshot, Kinds
<1>1. ASSUME NEW r \in Requests, NEW k \in Kinds, Arrive(r, k) PROVE AnswerDated'
  <2>1. /\ cache' = cache /\ hasCache' = hasCache /\ resp' = resp
        /\ \A q \in Requests : pc'[q] = "answered" =>
             pc[q] = "answered" /\ kind'[q] = kind[q] /\ floor'[q] = floor[q]
    BY <1>1 DEF Arrive, service, local
  <2> QED
    BY <2>1
<1>2. ASSUME NEW r \in Requests, Cancel(r) PROVE AnswerDated'
  BY <1>2 DEF Cancel, service, local, call
<1>3. ASSUME NEW r \in Requests, Lock(r) PROVE AnswerDated'
  BY <1>3 DEF Lock, service, call
<1>4. ASSUME NEW r \in Requests, Block(r) PROVE AnswerDated'
  BY <1>4 DEF Block, service, call
<1>5. ASSUME NEW r \in Requests, ServeHealth(r) PROVE AnswerDated'
  BY <1>5 DEF ServeHealth, Unlock, service, local, call
<1>6. ASSUME NEW r \in Requests, ServeCached(r) PROVE AnswerDated'
  BY <1>6, AnswerCached
<1>7. ASSUME NEW r \in Requests, BeginCollect(r) PROVE AnswerDated'
  BY <1>7 DEF BeginCollect, service, call
<1>8. ASSUME NEW r \in Requests, CollectSection(r) PROVE AnswerDated'
  BY <1>8 DEF CollectSection, service, call
<1>9. ASSUME NEW r \in Requests, FinishCollect(r) PROVE AnswerDated'
  BY <1>9, AnswerFinished
<1>10. ASSUME NEW r \in Requests, FailCollect(r) PROVE AnswerDated'
  BY <1>10, AnswerFailed
<1>11. ASSUME NEW r \in Requests, Return(r) PROVE AnswerDated'
  BY <1>11 DEF Return, service, Unavailable
<1>12. ASSUME ClockMoves PROVE AnswerDated'
  BY <1>12, ClockStep DEF service, local, call
<1>13. ASSUME UNCHANGED vars PROVE AnswerDated'
  BY <1>13 DEF vars, service, local, call
<1> HIDE DEF Inv, TypeOK, Time, CacheDated, MutualExclusion, Holding, HandlerDated, CollectionDue, AnswerDated, Snapshot, Kinds
<1> QED
  BY <1>1, <1>2, <1>3, <1>4, <1>5, <1>6, <1>7, <1>8, <1>9, <1>10, <1>11,
     <1>12, <1>13 DEF Next, Handle, ClockMoves

\* Return clears what the request left behind.
LEMMA StepQuiescent == Inv /\ [Next]_vars => Quiescent'
<1> SUFFICES ASSUME Inv, [Next]_vars PROVE Quiescent'
    OBVIOUS
<1> USE ConstantsAssumption DEF Inv, TypeOK, Time, Quiescent
<1>1. ASSUME NEW r \in Requests, NEW k \in Kinds, Arrive(r, k) PROVE Quiescent'
  BY <1>1 DEF Arrive, service, local
<1>2. ASSUME NEW r \in Requests, Cancel(r) PROVE Quiescent'
  BY <1>2 DEF Cancel, service, local, call
<1>3. ASSUME NEW r \in Requests, Lock(r) PROVE Quiescent'
  BY <1>3 DEF Lock, service, call
<1>4. ASSUME NEW r \in Requests, Block(r) PROVE Quiescent'
  BY <1>4 DEF Block, service, call
<1>5. ASSUME NEW r \in Requests, ServeHealth(r) PROVE Quiescent'
  BY <1>5 DEF ServeHealth, Unlock, service, local, call
<1>6. ASSUME NEW r \in Requests, ServeCached(r) PROVE Quiescent'
  BY <1>6 DEF ServeCached, Reply, Unlock, service, local, call
<1>7. ASSUME NEW r \in Requests, BeginCollect(r) PROVE Quiescent'
  BY <1>7 DEF BeginCollect, service, call
<1>8. ASSUME NEW r \in Requests, CollectSection(r) PROVE Quiescent'
  BY <1>8 DEF CollectSection, service, call
<1>9. ASSUME NEW r \in Requests, FinishCollect(r) PROVE Quiescent'
  BY <1>9 DEF CollectionDue, FinishCollect, Reply, Unlock, local, call
<1>10. ASSUME NEW r \in Requests, FailCollect(r) PROVE Quiescent'
  BY <1>10 DEF CollectionDue, FailCollect, Reply, Unlock, local, call
<1>11. ASSUME NEW r \in Requests, Return(r) PROVE Quiescent'
  BY <1>11 DEF Return, service
<1>12. ASSUME ClockMoves PROVE Quiescent'
  BY <1>12, ClockStep DEF service, local, call
<1>13. ASSUME UNCHANGED vars PROVE Quiescent'
  BY <1>13 DEF vars, service, local, call
<1> HIDE DEF Inv, TypeOK, Time, Quiescent
<1> QED
  BY <1>1, <1>2, <1>3, <1>4, <1>5, <1>6, <1>7, <1>8, <1>9, <1>10, <1>11,
     <1>12, <1>13 DEF Next, Handle, ClockMoves

\* The invariant holds of a new service.
LEMMA InitInv == Init => Inv
<1> SUFFICES ASSUME Init PROVE Inv
    OBVIOUS
<1>1. TypeOK
  BY InitType
<1>2. MutualExclusion
  BY ConstantsAssumption DEF Init, MutualExclusion, Holding
<1>3. CacheDated
  BY DEF Init, CacheDated
<1>4. HandlerDated
  <2>1. \A r \in Requests : floor[r] = newest /\ newest = -1
    BY DEF Init
  <2>2. \A r \in Requests : arrived[r] = clock.time /\ clock.time = 0 /\ ~Holding(r)
    BY DEF Init, Start, Holding
  <2>3. -1 <= -1 /\ 0 <= 0
    OBVIOUS
  <2> QED
    BY <2>1, <2>2, <2>3 DEF HandlerDated
<1>5. CollectionDue
  BY DEF Init, CollectionDue
<1>6. AnswerDated
  BY DEF Init, AnswerDated
<1>7. Quiescent
  BY DEF Init, Quiescent
<1> QED
  BY <1>1, <1>2, <1>3, <1>4, <1>5, <1>6, <1>7 DEF Inv

\* The inductive invariant holds in every reachable state.
THEOREM Invariance == Spec => []Inv
<1>1. Inv /\ [Next]_vars => Inv'
  BY StepType, StepMutex, StepCache, StepHandler, StepCollection, StepAnswer,
     StepQuiescent DEF Inv
<1> QED
  BY InitInv, <1>1, PTL DEF Spec

\* What the wall clock says of two instants is the time between them, give or take
\* what it was set meanwhile: a fresh cache is younger than TTL or was filled before
\* the clock was set back, and one that is not has expired.
LEMMA FreshOrExpired ==
  ASSUME Inv, NEW r \in Requests, Holding(r), hasCache
  PROVE  /\ cacheAt.time <= seen[r].time
         /\ Fresh(r) => seen[r].time - cacheAt.time < TTL + (seen[r].back - cacheAt.back)
         /\ ~Fresh(r) => Expired(seen[r])
<1> DEFINE i == cacheAt
           j == seen[r]
<1>1. i \in Instants /\ j \in Instants /\ NotAfter(i, j)
  BY DEF Inv, TypeOK, HandlerDated
<1>2. /\ i.time \in Int /\ i.back \in Int /\ i.ahead \in Int
      /\ j.time \in Int /\ j.back \in Int /\ j.ahead \in Int
      /\ i.time <= j.time /\ i.back <= j.back /\ i.ahead <= j.ahead
  BY <1>1, InstantType DEF NotAfter, Atomic!NotAfter
<1>3. Fresh(r) <=> TTL > 0 /\ (j.time + j.ahead - j.back) - (i.time + i.ahead - i.back) < TTL
  BY DEF Fresh, Wall
<1>4. Expired(j) <=> j.time - i.time >= TTL - (j.ahead - i.ahead)
  BY DEF Expired
<1> HIDE DEF i, j
<1>5. TTL \in Nat
  BY ConstantsAssumption
<1>6. Fresh(r) => j.time - i.time < TTL + (j.back - i.back)
  BY <1>2, <1>3, <1>5
<1>7. ~Fresh(r) => Expired(j)
  BY <1>2, <1>3, <1>4, <1>5
<1> QED
  BY <1>2, <1>6, <1>7 DEF i, j

\* No client that asks after a snapshot was delivered gets an older one, or the
\* placeholder: AnswerDated says why, the answer is at least newest was.
THEOREM NeverBackwardsHolds == Spec => []NeverBackwards
<1>1. Inv => NeverBackwards
  BY DEF Inv, AnswerDated, NeverBackwards
<1> QED
  BY Invariance, <1>1, PTL

\* The host is collected with success at most once per TTL: only BeginCollect begins
\* a collection, and only FinishCollect replaces the cache; CollectionDue remembers
\* that it was not fresh under the very lock that is still held.
THEOREM RefreshesSpacedByTTLHolds == Spec => RefreshesSpacedByTTL
<1> DEFINE Spaced ==
       hasCache =>
         /\ \A r \in Requests :
              pc[r] # "collecting" /\ pc'[r] = "collecting" => Expired(seen[r])
         /\ cacheAt' # cacheAt \/ cache' # cache => Expired(cacheAt')
<1>1. Inv /\ [Next]_vars => [Spaced]_vars
  <2> SUFFICES ASSUME Inv, Next, hasCache PROVE Spaced
      OBVIOUS
  <2>1. ASSUME NEW r \in Requests, pc[r] # "collecting", pc'[r] = "collecting"
        PROVE  Expired(seen[r])
    <3>1. BeginCollect(r)
      <4>1. ASSUME NEW q \in Requests,
                   (\E k \in Kinds : Arrive(q, k)) \/ Cancel(q) \/ Lock(q) \/ Block(q)
            PROVE  FALSE
        BY <2>1, <4>1 DEF Inv, TypeOK, Arrive, Cancel, Lock, Block
      <4>2. ASSUME NEW q \in Requests, ServeHealth(q) \/ ServeCached(q) \/ CollectSection(q)
            PROVE  FALSE
        BY <2>1, <4>2 DEF Inv, TypeOK, ServeHealth, ServeCached, CollectSection, Reply, Unlock
      <4>3. ASSUME NEW q \in Requests, FinishCollect(q) \/ FailCollect(q) \/ Return(q)
            PROVE  FALSE
        BY <2>1, <4>3 DEF Inv, TypeOK, FinishCollect, FailCollect, Reply, Unlock, Return
      <4>4. ASSUME ClockMoves PROVE FALSE
        BY <2>1, <4>4, ClockStep DEF Inv, TypeOK
      <4>5. PICK q \in Requests : BeginCollect(q)
        BY <4>1, <4>2, <4>3, <4>4 DEF Next, Handle, ClockMoves
      <4> QED
        BY <2>1, <4>5 DEF BeginCollect, Inv, TypeOK
    <3>2. Holding(r) /\ ~Fresh(r)
      BY <3>1 DEF BeginCollect, Holding
    <3> QED
      BY <3>2, FreshOrExpired
  <2>2. ASSUME NEW r \in Requests, FinishCollect(r) PROVE Expired(cacheAt')
    <3>1. cacheAt' = seen[r] /\ ~Fresh(r) /\ Holding(r)
      BY <2>2 DEF FinishCollect, Inv, CollectionDue, Holding
    <3> QED
      BY <3>1, FreshOrExpired
  <2>3. \/ \E r \in Requests : FinishCollect(r)
        \/ cache' = cache /\ cacheAt' = cacheAt
    BY DEF Next, Handle, Arrive, Cancel, Lock, Block, ServeHealth, ServeCached,
           BeginCollect, CollectSection, FailCollect, Return, Tick, SetClockBack,
           SetClockForward, service
  <2> QED
    BY <2>1, <2>2, <2>3
<1> QED
  BY Invariance, <1>1, PTL DEF Spec, RefreshesSpacedByTTL

\* An answer as old as the TTL is the fallback of a failed collection, and sets
\* lastError: of the three steps that answer a stats call, ServeCached answers
\* less than TTL old and FinishCollect answers what it has just collected.
THEOREM StaleOnlyWhileDegradedHolds == Spec => StaleOnlyWhileDegraded
<1> DEFINE Owned ==
       \A r \in Requests :
         /\ kind[r] = "stats" /\ pc[r] # "answered" /\ pc'[r] = "answered"
         /\ resp'[r].at < seen[r].time
         /\ seen[r].time - resp'[r].at >= TTL + (seen[r].back - cacheAt.back)
         => lastError'
<1>1. Inv /\ [Next]_vars => [Owned]_vars
  <2> SUFFICES ASSUME Inv, Next, NEW r \in Requests,
                      kind[r] = "stats", pc[r] # "answered", pc'[r] = "answered",
                      resp'[r].at < seen[r].time,
                      seen[r].time - resp'[r].at >= TTL + (seen[r].back - cacheAt.back)
               PROVE  lastError'
      OBVIOUS
  <2>1. /\ cacheAt.time \in Int /\ cacheAt.back \in Int /\ cache.at \in Int
        /\ seen[r].time \in Int /\ seen[r].back \in Int /\ TTL \in Int
        /\ draft[r].at \in Int
    BY ConstantsAssumption, InstantType DEF Inv, TypeOK, Time, Snapshot
  <2>2. ServeCached(r) \/ FinishCollect(r) \/ FailCollect(r)
    BY DEF Inv, TypeOK, Next, Handle, Arrive, Cancel, Lock, Block, ServeHealth,
           ServeCached, BeginCollect, CollectSection, FinishCollect, FailCollect,
           Reply, Unlock, Return, Tick, SetClockBack, SetClockForward
  <2>3. CASE ServeCached(r)
    <3>1. resp'[r] = cache /\ Fresh(r)
      BY <2>3 DEF ServeCached, Reply, Inv, TypeOK
    <3>2. hasCache /\ Holding(r) /\ cacheAt.time <= cache.at
      BY <2>3, <3>1 DEF ServeCached, Holding, Fresh, Inv, CacheDated
    <3>3. seen[r].time - cacheAt.time < TTL + (seen[r].back - cacheAt.back)
      BY <3>1, <3>2, FreshOrExpired
    <3> QED
      BY <2>1, <3>1, <3>2, <3>3
  <2>4. CASE FinishCollect(r)
    <3>1. resp'[r] = draft[r] /\ seen[r].time <= draft[r].at
      BY <2>4 DEF FinishCollect, Reply, Inv, TypeOK, CollectionDue
    <3> QED
      BY <2>1, <3>1
  <2>5. CASE FailCollect(r)
    BY <2>5 DEF FailCollect
  <2> QED
    BY <2>2, <2>3, <2>4, <2>5
<1> QED
  BY Invariance, <1>1, PTL DEF Spec, StaleOnlyWhileDegraded

\* A new service is an empty atomic cache.
LEMMA InitAtomic == Init => Atomic!Init
  BY DEF Init, Atomic!Init, Phase, Since, Unavailable, Atomic!Placeholder, Start, Atomic!Start

\* A return of Snapshot is the end of an open call.
LEMMA ReplyAnswers ==
  ASSUME TypeOK, NEW r \in Requests, NEW s, Holding(r), kind[r] = "stats",
         Reply(r, s), UNCHANGED <<clock, call>>
  PROVE  Atomic!AnswerWith(r, s)
  BY DEF TypeOK, Holding, Reply, Unlock, call, Phase, Since, Atomic!AnswerWith

\* The time that a handler reads under the lock is an instant of its call.
LEMMA DecidedMeanwhile ==
  ASSUME Inv, NEW r \in Requests, Holding(r), kind[r] = "stats"
  PROVE  seen[r] \in Instants /\ Atomic!Meanwhile(r, seen[r])
  BY DEF Inv, TypeOK, HandlerDated, Since, NotAfter, Atomic!Meanwhile

\* Every step is a step of the atomic cache or invisible to it. The instant at
\* which ReadFresh, Publish and FallBack look at the cache is seen[r], the time
\* read under the lock.
LEMMA StepAtomic == Inv /\ [Next]_vars => [Atomic!Next]_(Atomic!vars)
<1> SUFFICES ASSUME Inv, [Next]_vars PROVE Atomic!Next \/ UNCHANGED Atomic!vars
    OBVIOUS
<1> USE DEF Inv, TypeOK, Time
<1>1. ASSUME NEW r \in Requests, Arrive(r, "stats") PROVE Atomic!Open(r)
  BY <1>1 DEF Arrive, service, local, Quiescent, Phase, Since, Atomic!Open
<1>2. ASSUME NEW r \in Requests, Arrive(r, "health") PROVE UNCHANGED Atomic!vars
  BY <1>2 DEF Arrive, service, local, Quiescent, Phase, Since, Atomic!vars
<1>3. ASSUME NEW r \in Requests, Cancel(r) PROVE UNCHANGED Atomic!vars
  BY <1>3 DEF Cancel, service, local, call, Phase, Since, Atomic!vars
<1>4. ASSUME NEW r \in Requests, Lock(r) PROVE UNCHANGED Atomic!vars
  BY <1>4 DEF Lock, service, call, Phase, Since, Atomic!vars
<1>5. ASSUME NEW r \in Requests, Block(r) PROVE UNCHANGED Atomic!vars
  BY <1>5 DEF Block, service, call, Phase, Since, Atomic!vars
<1>6. ASSUME NEW r \in Requests, ServeHealth(r) PROVE UNCHANGED Atomic!vars
  BY <1>6 DEF ServeHealth, Unlock, service, local, call, Phase, Since, Atomic!vars
<1>7. ASSUME NEW r \in Requests, BeginCollect(r) PROVE UNCHANGED Atomic!vars
  BY <1>7 DEF BeginCollect, service, call, Phase, Since, Atomic!vars
<1>8. ASSUME NEW r \in Requests, CollectSection(r) PROVE UNCHANGED Atomic!vars
  BY <1>8 DEF CollectSection, service, call, Phase, Since, Atomic!vars
<1>9. ASSUME NEW r \in Requests, ServeCached(r) PROVE Atomic!ReadFresh(r)
  <2>1. Atomic!AnswerWith(r, cache)
    BY <1>9, ReplyAnswers DEF ServeCached, Holding
  <2>2. hasCache /\ Holding(r) /\ Fresh(r)
    BY <1>9 DEF ServeCached, Fresh, Holding
  <2>3. seen[r].time - cacheAt.time < TTL + (seen[r].back - cacheAt.back)
    BY <2>2, FreshOrExpired
  <2>4. seen[r] \in Instants /\ Atomic!Meanwhile(r, seen[r])
    BY <1>9, <2>2, DecidedMeanwhile DEF ServeCached
  <2> QED
    BY <1>9, <2>1, <2>2, <2>3, <2>4 DEF ServeCached, service, Atomic!ReadFresh
<1>10. ASSUME NEW r \in Requests, FinishCollect(r) PROVE Atomic!Publish(r)
  <2>1. Holding(r) /\ kind[r] = "stats" /\ ~Fresh(r)
    BY <1>10 DEF FinishCollect, CollectionDue, Holding
  <2>2. Atomic!AnswerWith(r, draft[r])
    BY <1>10, <2>1, ReplyAnswers DEF FinishCollect
  <2>3. draft[r] \in Atomic!Snapshots
    BY <1>10 DEF FinishCollect, CollectionDue, Snapshot, Atomic!Snapshots
  <2>4. /\ seen[r].time <= draft[r].at /\ draft[r].at <= clock.time
        /\ hasCache => cache.at <= draft[r].at
    BY <1>10 DEF FinishCollect, CollectionDue
  <2>5. hasCache => seen[r].time - cacheAt.time >= TTL - (seen[r].ahead - cacheAt.ahead)
    BY <2>1, FreshOrExpired DEF Expired
  <2>6. hasCache => draft[r].at >= cache.at
    BY <2>4, Integral DEF Snapshot
  <2>7. seen[r] \in Instants /\ Atomic!Meanwhile(r, seen[r])
    BY <2>1, DecidedMeanwhile
  <2> QED
    BY <1>10, <2>2, <2>3, <2>4, <2>5, <2>6, <2>7 DEF FinishCollect, Atomic!Publish
<1>11. ASSUME NEW r \in Requests, FailCollect(r) PROVE Atomic!FallBack(r)
  <2>1. Holding(r) /\ kind[r] = "stats"
    BY <1>11 DEF FailCollect, CollectionDue, Holding
  <2>2. Atomic!AnswerWith(r, IF hasCache THEN cache ELSE Unavailable(seen[r].time))
    BY <1>11, <2>1, ReplyAnswers DEF FailCollect
  <2>3. Since[r] <= seen[r].time /\ seen[r].time <= clock.time /\ seen[r].time \in Time
    BY <2>1, DecidedMeanwhile, InstantType DEF Atomic!Meanwhile, Atomic!NotAfter
  <2>4. Unavailable(seen[r].time) = Atomic!Placeholder(seen[r].time)
    BY DEF Unavailable, Atomic!Placeholder
  <2>5. CASE hasCache
    BY <1>11, <2>2, <2>5 DEF FailCollect, Atomic!FallBack
  <2>6. CASE ~hasCache
    BY <1>11, <2>2, <2>3, <2>4, <2>6 DEF FailCollect, Atomic!FallBack
  <2> QED
    BY <2>5, <2>6
<1>12. ASSUME NEW r \in Requests, Return(r)
       PROVE  Atomic!Close(r) \/ UNCHANGED Atomic!vars
  <2>1. Unavailable(0) = Atomic!Placeholder(0)
    BY DEF Unavailable, Atomic!Placeholder
  <2>2. CASE kind[r] = "stats"
    BY <1>12, <2>1, <2>2 DEF Return, service, Phase, Since, Atomic!Close
  <2>3. CASE kind[r] = "health"
    BY <1>12, <2>3 DEF Return, service, Phase, Since, Quiescent, Atomic!vars
  <2> QED
    BY <2>2, <2>3 DEF Kinds
<1>13. ASSUME ClockMoves PROVE Atomic!Advance
  BY <1>13, ClockStep DEF service, local, call, Phase, Since, NotAfter, Atomic!Advance
<1>14. ASSUME UNCHANGED vars PROVE UNCHANGED Atomic!vars
  BY <1>14 DEF vars, service, local, call, Phase, Since, Atomic!vars
<1> QED
  BY <1>1, <1>2, <1>3, <1>4, <1>5, <1>6, <1>7, <1>8, <1>9, <1>10, <1>11,
     <1>12, <1>13, <1>14 DEF Next, Handle, ClockMoves, Kinds, Atomic!Next

\* SnapshotService implements TelemetryCache.
THEOREM Implementation == Spec => AtomicSpec
  BY Invariance, InitAtomic, StepAtomic, PTL DEF Spec, AtomicSpec, Atomic!Spec
==============================================================================
