---------------------------- MODULE TelemetryCache ----------------------------
(***************************************************************************)
(* What the telemetry snapshot promises the callers of GET /v1/stats,      *)
(* without the mutex, the section collectors and the request contexts that *)
(* SnapshotService uses to keep the promise.                               *)
(*                                                                         *)
(* A call is one atomic read of the published snapshot, made at an instant *)
(* between the moment the call is opened and the moment it is answered.    *)
(* The snapshot it gets is younger than TTL at that instant, or is         *)
(* published by the call itself, or is a fallback and the service is       *)
(* degraded from then on until the next publication.                       *)
(*                                                                         *)
(* The service goes by a wall clock that may be set. So a snapshot counts  *)
(* as young for longer by what that was set back since its publication,    *)
(* and is replaced earlier by what it was set forward, and by no more.     *)
(* Nothing that is done to the clock makes the cache go back to an older   *)
(* snapshot.                                                               *)
(***************************************************************************)
EXTENDS Integers

CONSTANTS
  Callers,      \* the clients' calls in flight
  Time,         \* the lengths of time that can pass
  Instants,     \* records of the time that passed, and of what the wall clock was
                \* set back and ahead until then
  Contents,     \* what a snapshot can hold
  Blank,        \* the contents of the placeholder snapshot
  TTL           \* how long a published snapshot is good for

VARIABLES
  clock,        \* the present instant
  published,    \* the last snapshot that was collected
  publishedAt,  \* the instant its collection was decided
  valid,        \* whether there is one
  degraded,     \* whether the last attempt to collect failed
  phase,        \* of each call: closed, open, answered
  since,        \* when the call was opened
  answer        \* what the call was answered

vars == <<clock, published, publishedAt, valid, degraded, phase, since, answer>>

Snapshots == [at: Time, reading: Contents, collected: {TRUE}]

Placeholder(t) == [at |-> t, reading |-> Blank, collected |-> FALSE]

\* i comes before j, or is j.
NotAfter(i, j) == i.time <= j.time /\ i.back <= j.back /\ i.ahead <= j.ahead

Start == [time |-> 0, back |-> 0, ahead |-> 0]

Init ==
  /\ clock = Start
  /\ published = Placeholder(0)
  /\ publishedAt = Start
  /\ valid = FALSE
  /\ degraded = FALSE
  /\ phase = [c \in Callers |-> "closed"]
  /\ since = [c \in Callers |-> 0]
  /\ answer = [c \in Callers |-> Placeholder(0)]

Open(c) ==
  /\ phase[c] = "closed"
  /\ phase' = [phase EXCEPT ![c] = "open"]
  /\ since' = [since EXCEPT ![c] = clock.time]
  /\ UNCHANGED <<clock, published, publishedAt, valid, degraded, answer>>

\* The call ends with s as its answer.
AnswerWith(c, s) ==
  /\ phase[c] = "open"
  /\ phase' = [phase EXCEPT ![c] = "answered"]
  /\ answer' = [answer EXCEPT ![c] = s]
  /\ UNCHANGED <<clock, since>>

\* An instant while the call was open, no earlier than the publication.
Meanwhile(c, i) ==
  /\ since[c] <= i.time /\ NotAfter(i, clock)
  /\ valid => NotAfter(publishedAt, i)

\* The published snapshot was younger than TTL while the call was open.
ReadFresh(c) ==
  /\ valid
  /\ AnswerWith(c, published)
  /\ \E i \in Instants :
       /\ Meanwhile(c, i)
       /\ i.time - publishedAt.time < TTL + (i.back - publishedAt.back)
  /\ UNCHANGED <<published, publishedAt, valid, degraded>>

\* A new snapshot replaces one that is at least TTL old and not younger.
Publish(c) ==
  /\ valid' = TRUE
  /\ degraded' = FALSE
  /\ \E s \in Snapshots :
       /\ AnswerWith(c, s)
       /\ published' = s
       /\ valid => s.at >= published.at
       /\ \E i \in Instants :
            /\ publishedAt' = i
            /\ Meanwhile(c, i)
            /\ i.time <= s.at /\ s.at <= clock.time
            /\ valid => i.time - publishedAt.time >= TTL - (i.ahead - publishedAt.ahead)

\* Collection failed: the call gets the last snapshot, however old, or a
\* placeholder when there never was one.
FallBack(c) ==
  /\ \/ valid /\ AnswerWith(c, published)
     \/ ~valid /\ \E t \in Time : /\ since[c] <= t /\ t <= clock.time
                                  /\ AnswerWith(c, Placeholder(t))
  /\ degraded' = TRUE
  /\ UNCHANGED <<published, publishedAt, valid>>

Close(c) ==
  /\ phase[c] = "answered"
  /\ phase' = [phase EXCEPT ![c] = "closed"]
  /\ since' = [since EXCEPT ![c] = 0]
  /\ answer' = [answer EXCEPT ![c] = Placeholder(0)]
  /\ UNCHANGED <<clock, published, publishedAt, valid, degraded>>

\* Time passes, or the wall clock is set.
Advance ==
  /\ clock' \in Instants /\ NotAfter(clock, clock')
  /\ UNCHANGED <<published, publishedAt, valid, degraded, phase, since, answer>>

Next ==
  \/ \E c \in Callers :
       Open(c) \/ ReadFresh(c) \/ Publish(c) \/ FallBack(c) \/ Close(c)
  \/ Advance

Spec == Init /\ [][Next]_vars
===============================================================================
