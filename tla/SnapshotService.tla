---------------------------- MODULE SnapshotService ----------------------------
(***************************************************************************)
(* The telemetry service behind the HTTP API (internal/collector): one     *)
(* mutex, one cached snapshot, the error of the last collection, and the   *)
(* handler goroutines of net/http that call Snapshot (GET /v1/stats) and   *)
(* Health (GET /health).                                                   *)
(*                                                                         *)
(* Snapshot holds the mutex while it collects, section after section, so a *)
(* collection is many steps during which other requests arrive, time       *)
(* passes, and the client of any request may go away, which cancels that   *)
(* request's context and nothing else.                                     *)
(*                                                                         *)
(* The service reads the wall clock, which may be set meanwhile.           *)
(***************************************************************************)
EXTENDS Integers, Sequences

CONSTANTS
  Requests,      \* handler goroutines, each serving one request at a time
  NoRequest,     \* nobody
  Order,         \* the sections, in the order they are collected
  ContextAware,  \* sections whose collector gives up when its context is done
  Fallible,      \* sections whose collector may fail to read the host
  Blocking,      \* sections whose collector may block on the host
  CollectErrs,   \* whether collect may return an error
  TTL,           \* cache_ttl
  MaxTime,       \* bound on the time that passes
  MaxSet         \* bound on what the wall clock is set back and forward, together

Sections == {Order[i] : i \in 1..Len(Order)}

ASSUME ConstantsAssumption ==
  /\ NoRequest \notin Requests
  /\ Order \in Seq(STRING)
  /\ ContextAware \subseteq Sections
  /\ Fallible \subseteq Sections
  /\ Blocking \subseteq Sections
  /\ CollectErrs \in BOOLEAN
  /\ TTL \in Nat
  /\ MaxTime \in Nat /\ MaxSet \in Nat

VARIABLES
  clock,       \* see Instants
  mu,          \* holder of Service.mu
  cache,       \* Service.cache
  cacheAt,     \* Service.cacheAt
  hasCache,    \* Service.hasCache
  lastError,   \* Service.lastError # ""
  pc,          \* where each handler is
  kind,        \* the endpoint it serves
  ctx,         \* its request context
  seen,        \* Snapshot's local variable now
  draft,       \* the snapshot it is collecting
  done,        \* how many sections it has collected
  blocked,     \* whether its current collector is blocked
  resp,        \* the snapshot it answers with
  arrived,     \* history: when its request arrived
  floor,       \* history: newest when its request arrived
  newest       \* history: the latest Timestamp any client has received

service == <<cache, cacheAt, hasCache, lastError>>
local   == <<seen, draft, done, blocked>>
call    == <<kind, arrived, floor>>
vars    == <<clock, mu, service, pc, ctx, local, resp, call, newest>>

Time     == 0..MaxTime
\* The time that has truly passed, and what the wall clock was set back and forward
\* until then. The program reads no more of an instant than what the wall clock says.
Instants == [time: Time, back: 0..MaxSet, ahead: 0..MaxSet]
Wall(i)  == i.time + i.ahead - i.back
Start    == [time |-> 0, back |-> 0, ahead |-> 0]

Kinds    == {"stats", "health"}
Readings == [Sections -> {"measured", "absent"}]
NoReading == [s \in Sections |-> "absent"]
\* at stands for the Timestamp, and is when that was read of the clock.
Snapshot == [at: Time, reading: Readings, collected: BOOLEAN]

\* Slip: nothing tells the placeholder from a collected snapshot.
UnavailableUnmarked(t) == [at |-> t, reading |-> NoReading]

\* unavailableSnapshot: every section unavailable. Also the zero Snapshot.
Unavailable(t) == [at |-> t, reading |-> NoReading, collected |-> FALSE]

Init ==
  /\ clock = Start
  /\ mu = NoRequest
  /\ cache = Unavailable(0)
  /\ cacheAt = Start
  /\ hasCache = FALSE
  /\ lastError = FALSE
  /\ pc = [r \in Requests |-> "idle"]
  /\ kind = [r \in Requests |-> "stats"]
  /\ ctx = [r \in Requests |-> "live"]
  /\ seen = [r \in Requests |-> Start]
  /\ draft = [r \in Requests |-> Unavailable(0)]
  /\ done = [r \in Requests |-> 0]
  /\ blocked = [r \in Requests |-> FALSE]
  /\ resp = [r \in Requests |-> Unavailable(0)]
  /\ arrived = [r \in Requests |-> 0]
  /\ floor = [r \in Requests |-> -1]
  /\ newest = -1

-------------------------------------------------------------------------------
(* The clients and the clock.                                              *)

Arrive(r, k) ==
  /\ pc[r] = "idle"
  /\ pc' = [pc EXCEPT ![r] = "waiting"]
  /\ kind' = [kind EXCEPT ![r] = k]
  /\ arrived' = [arrived EXCEPT ![r] = clock.time]
  /\ floor' = [floor EXCEPT ![r] = newest]
  /\ UNCHANGED <<clock, mu, service, ctx, local, resp, newest>>

\* The client disconnects; net/http cancels the context of its request.
Cancel(r) ==
  /\ pc[r] \in {"waiting", "locked", "collecting"}
  /\ ctx[r] = "live"
  /\ ctx' = [ctx EXCEPT ![r] = "done"]
  /\ UNCHANGED <<clock, mu, service, pc, local, resp, call, newest>>

\* The handler writes its response and returns. Only a client that is still
\* connected receives it.
Return(r) ==
  /\ pc[r] = "answered"
  /\ pc' = [pc EXCEPT ![r] = "idle"]
  /\ newest' = IF /\ kind[r] = "stats" /\ ctx[r] = "live"
                  /\ resp[r].collected /\ resp[r].at > newest
               THEN resp[r].at ELSE newest
  /\ kind' = [kind EXCEPT ![r] = "stats"]
  /\ ctx' = [ctx EXCEPT ![r] = "live"]
  /\ seen' = [seen EXCEPT ![r] = Start]
  /\ draft' = [draft EXCEPT ![r] = Unavailable(0)]
  /\ done' = [done EXCEPT ![r] = 0]
  /\ resp' = [resp EXCEPT ![r] = Unavailable(0)]
  /\ arrived' = [arrived EXCEPT ![r] = 0]
  /\ floor' = [floor EXCEPT ![r] = -1]
  /\ UNCHANGED <<clock, mu, service, blocked>>

Tick ==
  /\ clock.time < MaxTime
  /\ clock' = [clock EXCEPT !.time = @ + 1]
  /\ UNCHANGED <<mu, service, pc, ctx, local, resp, call, newest>>

\* The wall clock is set: time.Now().UTC() keeps nothing of the monotonic clock.
SetClockBack ==
  /\ clock.back + clock.ahead < MaxSet
  /\ clock' = [clock EXCEPT !.back = @ + 1]
  /\ UNCHANGED <<mu, service, pc, ctx, local, resp, call, newest>>

SetClockForward ==
  /\ clock.back + clock.ahead < MaxSet
  /\ clock' = [clock EXCEPT !.ahead = @ + 1]
  /\ UNCHANGED <<mu, service, pc, ctx, local, resp, call, newest>>

-------------------------------------------------------------------------------
(* Service.Snapshot and Service.Health.                                    *)

\* Slip: the mutex guards nothing.
LockWithoutWaiting(r) ==
  /\ pc[r] = "waiting"
  /\ mu' = r
  /\ seen' = [seen EXCEPT ![r] = clock]
  /\ pc' = [pc EXCEPT ![r] = "locked"]
  /\ UNCHANGED <<clock, service, ctx, draft, done, blocked, resp, call, newest>>

\* s.mu.Lock(), and the time read first thing under it. The context is not
\* consulted: a request whose client is gone still takes its turn.
Lock(r) ==
  /\ pc[r] = "waiting"
  /\ mu = NoRequest
  /\ mu' = r
  /\ seen' = [seen EXCEPT ![r] = clock]
  /\ pc' = [pc EXCEPT ![r] = "locked"]
  /\ UNCHANGED <<clock, service, ctx, draft, done, blocked, resp, call, newest>>

\* The deferred Unlock runs as the method returns.
Unlock(r) ==
  /\ mu' = NoRequest
  /\ pc' = [pc EXCEPT ![r] = "answered"]

Reply(r, snapshot) ==
  /\ Unlock(r)
  /\ resp' = [resp EXCEPT ![r] = snapshot]

ServeHealth(r) ==
  /\ pc[r] = "locked" /\ kind[r] = "health"
  /\ Unlock(r)
  /\ UNCHANGED <<clock, service, ctx, local, resp, call, newest>>

\* Slip: the boundary of the TTL is off by one.
FreshTooBriefly(r) == hasCache /\ TTL > 0 /\ Wall(seen[r]) - Wall(cacheAt) < TTL - 1

\* By the wall clock, the cached snapshot is younger than the TTL. Its age may be
\* negative.
Fresh(r) == hasCache /\ TTL > 0 /\ Wall(seen[r]) - Wall(cacheAt) < TTL

ServeCached(r) ==
  /\ pc[r] = "locked" /\ kind[r] = "stats"
  /\ Fresh(r)
  /\ Reply(r, cache)
  /\ UNCHANGED <<clock, service, ctx, local, call, newest>>

\* collect is called; it stamps the snapshot before its first section.
BeginCollect(r) ==
  /\ pc[r] = "locked" /\ kind[r] = "stats"
  /\ ~Fresh(r)
  /\ pc' = [pc EXCEPT ![r] = "collecting"]
  /\ draft' = [draft EXCEPT ![r] =
                 [at |-> clock.time, reading |-> NoReading, collected |-> TRUE]]
  /\ UNCHANGED <<clock, mu, service, ctx, seen, done, blocked, resp, call, newest>>

Current(r) == Order[done[r] + 1]

\* Whether the collector of r's current section is told to stop.
Stopped(r) == Current(r) \in ContextAware /\ ctx[r] = "done"

\* A command, a device or a file system does not answer.
Block(r) ==
  /\ pc[r] = "collecting" /\ done[r] < Len(Order)
  /\ Current(r) \in Blocking /\ ~blocked[r]
  /\ blocked' = [blocked EXCEPT ![r] = TRUE]
  /\ UNCHANGED <<clock, mu, service, pc, ctx, seen, draft, done, resp, call, newest>>

\* One section collector returns: with a reading, or without one when it
\* failed or was stopped. A blocked collector returns only if it is stopped.
CollectSection(r) ==
  /\ pc[r] = "collecting" /\ done[r] < Len(Order)
  /\ blocked[r] => Stopped(r)
  /\ \E v \in {"measured", "absent"} :
       /\ v = "absent" => Current(r) \in Fallible \/ Stopped(r)
       /\ v = "measured" => ~blocked[r]
       /\ draft' = [draft EXCEPT ![r].reading[Current(r)] = v]
  /\ done' = [done EXCEPT ![r] = @ + 1]
  /\ blocked' = [blocked EXCEPT ![r] = FALSE]
  /\ UNCHANGED <<clock, mu, service, pc, ctx, seen, resp, call, newest>>

\* Slip: a collection that succeeds does not clear the error.
FinishStillDegraded(r) ==
  /\ pc[r] = "collecting" /\ done[r] = Len(Order)
  /\ cache' = draft[r]
  /\ cacheAt' = seen[r]
  /\ hasCache' = TRUE
  /\ Reply(r, draft[r])
  /\ UNCHANGED <<clock, lastError, ctx, local, call, newest>>

\* collect returned a snapshot: it replaces the cached one, dated to the
\* moment the lock was taken.
FinishCollect(r) ==
  /\ pc[r] = "collecting" /\ done[r] = Len(Order)
  /\ lastError' = FALSE
  /\ cache' = draft[r]
  /\ cacheAt' = seen[r]
  /\ hasCache' = TRUE
  /\ Reply(r, draft[r])
  /\ UNCHANGED <<clock, ctx, local, call, newest>>

\* Slip: the error is not recorded.
FailSilently(r) ==
  /\ CollectErrs
  /\ pc[r] = "collecting" /\ done[r] = Len(Order)
  /\ Reply(r, IF hasCache THEN cache ELSE Unavailable(seen[r].time))
  /\ UNCHANGED <<clock, service, ctx, local, call, newest>>

\* Slip: the error path returns without unlocking.
FailHoldingLock(r) ==
  /\ CollectErrs
  /\ pc[r] = "collecting" /\ done[r] = Len(Order)
  /\ lastError' = TRUE
  /\ pc' = [pc EXCEPT ![r] = "answered"]
  /\ resp' = [resp EXCEPT ![r] = IF hasCache THEN cache ELSE Unavailable(seen[r].time)]
  /\ UNCHANGED <<clock, mu, cache, cacheAt, hasCache, ctx, local, call, newest>>

\* collect returned an error: the cached snapshot is the answer, at any age.
FailCollect(r) ==
  /\ CollectErrs
  /\ pc[r] = "collecting" /\ done[r] = Len(Order)
  /\ lastError' = TRUE
  /\ Reply(r, IF hasCache THEN cache ELSE Unavailable(seen[r].time))
  /\ UNCHANGED <<clock, cache, cacheAt, hasCache, ctx, local, call, newest>>

-------------------------------------------------------------------------------
Handle(r) ==
  \/ ServeHealth(r) \/ ServeCached(r) \/ BeginCollect(r)
  \/ CollectSection(r) \/ FinishCollect(r) \/ FailCollect(r)
  \/ Return(r)

Next ==
  \/ \E r \in Requests :
       \/ \E k \in Kinds : Arrive(r, k)
       \/ Cancel(r) \/ Lock(r) \/ Block(r) \/ Handle(r)
  \/ Tick \/ SetClockBack \/ SetClockForward

Spec == Init /\ [][Next]_vars

\* A handler that can run does run, and a handler that waits for a mutex that
\* keeps being released gets it (sync.Mutex hands over in arrival order once a
\* waiter has waited for a millisecond).
Fairness ==
  \A r \in Requests : WF_vars(Handle(r)) /\ SF_vars(Lock(r))

FairSpec == Spec /\ Fairness

\* Clients that do not wait forever.
ImpatientSpec == FairSpec /\ \A r \in Requests : WF_vars(Cancel(r))

-------------------------------------------------------------------------------
TypeOK ==
  /\ clock \in Instants
  /\ mu \in Requests \cup {NoRequest}
  /\ cache \in Snapshot
  /\ cacheAt \in Instants
  /\ hasCache \in BOOLEAN
  /\ lastError \in BOOLEAN
  /\ pc \in [Requests -> {"idle", "waiting", "locked", "collecting", "answered"}]
  /\ kind \in [Requests -> Kinds]
  /\ ctx \in [Requests -> {"live", "done"}]
  /\ seen \in [Requests -> Instants]
  /\ draft \in [Requests -> Snapshot]
  /\ done \in [Requests -> 0..Len(Order)]
  /\ blocked \in [Requests -> BOOLEAN]
  /\ resp \in [Requests -> Snapshot]
  /\ arrived \in [Requests -> Time]
  /\ floor \in [Requests -> Time \cup {-1}]
  /\ newest \in Time \cup {-1}

-------------------------------------------------------------------------------
(* What the service promises its clients.                                  *)

\* A client never sees an older state of the host than one that was seen before: a
\* request that arrives after some client has received a collected snapshot is
\* answered with one that was collected no earlier, and never with the
\* "unavailable" placeholder, however the collections of other requests interleave
\* with it, and although the clock that decides about the cache is set (Snapshot,
\* under s.mu).
NeverBackwards ==
  \A r \in Requests : pc[r] = "answered" /\ kind[r] = "stats" =>
    IF resp[r].collected THEN resp[r].at >= floor[r] ELSE floor[r] = -1

\* A snapshot that was already TTL old when its request took the lock is
\* answered only as the fallback of a failed collection, and then /health
\* reports the service degraded from that step on. A wall clock that was set back
\* since the cache was filled prolongs that by as much and no more.
StaleOnlyWhileDegraded ==
  [][\A r \in Requests :
       /\ kind[r] = "stats" /\ pc[r] # "answered" /\ pc'[r] = "answered"
       /\ resp'[r].at < seen[r].time
       /\ seen[r].time - resp'[r].at >= TTL + (seen[r].back - cacheAt.back)
       => lastError']_vars

\* TTL has passed since the cached snapshot was decided on, but for what the wall
\* clock was set forward meanwhile.
Expired(i) == i.time - cacheAt.time >= TTL - (i.ahead - cacheAt.ahead)

\* The host is collected with success at most once per TTL: whatever the number of
\* requests that queue behind a collection, another one begins, and replaces the
\* cached snapshot, only when that has expired. One that fails does not count: the
\* next request collects again.
RefreshesSpacedByTTL ==
  [][hasCache =>
       /\ \A r \in Requests :
            pc[r] # "collecting" /\ pc'[r] = "collecting" => Expired(seen[r])
       /\ cacheAt' # cacheAt \/ cache' # cache => Expired(cacheAt')]_vars

\* Every request gets its answer: nobody is left waiting for the mutex, or
\* inside a collection, for ever.
EveryRequestAnswered ==
  \A r \in Requests : pc[r] = "waiting" ~> pc[r] = "answered"

\* A section collector that does not answer is given up on.
CollectorTimesOut ==
  \A r \in Requests : blocked[r] ~> ~blocked[r]

\* The refinement mapping: a stats call is open from its arrival to its
\* answer; a health request is no call at all.
Phase ==
  [r \in Requests |-> IF kind[r] = "health" \/ pc[r] = "idle" THEN "closed"
                      ELSE IF pc[r] = "answered" THEN "answered" ELSE "open"]
Since == [r \in Requests |-> IF kind[r] = "health" THEN 0 ELSE arrived[r]]

Atomic == INSTANCE TelemetryCache WITH
  Callers <- Requests, Time <- Time, Instants <- Instants, Contents <- Readings,
  Blank <- NoReading, published <- cache, publishedAt <- cacheAt, valid <- hasCache,
  degraded <- lastError, phase <- Phase, since <- Since, answer <- resp

\* The service implements the atomic cache of TelemetryCache: the step that
\* answers a stats call is the one that reads or replaces the published
\* snapshot, and what it answers is what that step may answer.
AtomicSpec == Atomic!Spec
===============================================================================
