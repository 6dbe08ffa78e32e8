-------------------------- MODULE GpuDiscoveryProofs --------------------------
(***************************************************************************)
(* Proofs about GpuDiscovery, for every set of collectors and of hosts,    *)
(* every TTL and threshold, and every fault: its type, that the records in *)
(* use are true to their dates, that what the file answers was right less  *)
(* than a TTL ago, give or take what the clock was set back, and, for one  *)
(* collector whose saves come, that failures in a row rediscover.          *)
(***************************************************************************)
EXTENDS GpuDiscovery, TLAPS

Kept == Detectors \cup {None}

\* r was right when its age says.
True(r) == since[r.detector] <= r.age + back

\* The host's first choice is so now.
Current == since[FirstChoice(host)] = 0

FileTrue == file = "whole" => True(saved)

CollectorsTrue == \A c \in Collectors : HasRecord(c) => True(record[c])

Inv == TypeOK /\ Current /\ FileTrue /\ CollectorsTrue

-------------------------------------------------------------------------------
\* The registry has a first detector among those that apply (rediscover tries
\* them in order).
LEMMA FirstChoiceType == \A h : FirstChoice(h) \in Kept
<1> SUFFICES ASSUME NEW h PROVE FirstChoice(h) \in Kept
    OBVIOUS
<1>1. CASE Applies(h) = {}
  BY <1>1 DEF FirstChoice, Kept
<1>2. CASE Applies(h) # {}
  <2>1. Applies(h) \subseteq Detectors
    BY DEF Applies
  <2>2. /\ Rank["raspberry-pi"] = 1 /\ Rank["nvidia"] = 2 /\ Rank["amd"] = 3
        /\ Rank["intel"] = 4 /\ Rank["drm"] = 5
    BY DEF Rank, Detectors
  <2>3. \E d \in Applies(h) : \A e \in Applies(h) : Rank[d] <= Rank[e]
    BY <1>2, <2>1, <2>2 DEF Detectors
  <2> QED
    BY <1>2, <2>1, <2>3 DEF FirstChoice, Kept
<1> QED
  BY <1>1, <1>2

\* A discovery is a record, new, of the host's first choice.
LEMMA DiscoveredType ==
  ASSUME NEW h \in Hosts
  PROVE  /\ Discovered(h) \in Record
         /\ Discovered(h).detector = FirstChoice(h) /\ Discovered(h).age = 0
<1>1. h.name \in Names /\ h.card \in Vendors \cup {None}
  BY ConstantsAssumption DEF HostState, Names
<1>2. DeviceOf(FirstChoice(h), h) \in Vendors \cup {None}
  BY <1>1 DEF DeviceOf
<1>3. 0 \in Age /\ 0 \in 0..Threshold
  BY ConstantsAssumption DEF Age, Oldest
<1> QED
  BY <1>1, <1>2, <1>3, FirstChoiceType DEF Discovered, Record, Kept

\* The record of nothing, with which everything begins.
LEMMA NoRecordType == NoRecord \in Record
<1>1. 0 \in Age /\ 0 \in 0..Threshold
  BY ConstantsAssumption DEF Age, Oldest
<1> QED
  BY <1>1 DEF NoRecord, Record, Names

LEMMA InitInv == Init => Inv
<1> SUFFICES ASSUME Init PROVE Inv
    OBVIOUS
<1>1. TypeOK
  BY ConstantsAssumption, NoRecordType DEF Init, TypeOK, FileStates, Sections, Oldest
<1>2. Current
  BY FirstChoiceType DEF Init, Current, Kept
<1>3. FileTrue /\ CollectorsTrue
  BY DEF Init, FileTrue, CollectorsTrue, HasRecord
<1> QED
  BY <1>1, <1>2, <1>3 DEF Inv

-------------------------------------------------------------------------------
(* One step preserves the types. The steps of a collector change only what *)
(* is its own, the file, and the streak.                                   *)

Pcs   == {"idle", "cached", "discover", "collect", "save", "write", "answered"}
Nexts == {"answered", "discover", "collect"}

\* What a step of one collector may do to the state of all.
LEMMA LocalType ==
  ASSUME TypeOK, NEW c \in Collectors,
         NEW p \in Pcs, NEW r \in Record, NEW n \in Nexts, NEW s \in Sections
  PROVE  /\ [pc EXCEPT ![c] = p] \in [Collectors -> Pcs]
         /\ [record EXCEPT ![c] = r] \in [Collectors -> Record]
         /\ [next EXCEPT ![c] = n] \in [Collectors -> Nexts]
         /\ [section EXCEPT ![c] = s] \in [Collectors -> Sections]
  BY DEF TypeOK, Pcs, Nexts

\* An age that grows, or shrinks while the clock may still be set back, is one.
\* For RecordsTruthful, a record in use is not older than it says.
LEMMA AgeType ==
  ASSUME TypeOK, NEW n \in Age
  PROVE  /\ Later(n) \in Age /\ n <= Later(n)
         /\ back < MaxBack /\ n + back >= 0 => n - 1 \in Age
  BY ConstantsAssumption DEF TypeOK, Later, Age, Oldest

\* A record that is true is dated back by no more than the clock was.
LEMMA TrueAge ==
  ASSUME TypeOK, NEW r \in Record, True(r)
  PROVE  r.age \in Age /\ r.age + back >= 0
<1>1. since[r.detector] \in 0..Oldest /\ r.age \in Age /\ back \in 0..MaxBack
  BY DEF TypeOK, Record
<1> QED
  BY <1>1, ConstantsAssumption DEF True, Age, Oldest

\* The counters of failures stay within the threshold.
LEMMA CountType == 0 \in 0..Threshold /\ \A n \in 0..Threshold : Counted(n) \in 0..Threshold
  BY ConstantsAssumption DEF Counted

\* Every step keeps the types.
LEMMA StepType == Inv /\ [Next]_vars => TypeOK'
<1> SUFFICES ASSUME Inv, [Next]_vars
             PROVE  TypeOK'
    OBVIOUS
<1>0. TypeOK
  BY DEF Inv
<1> USE DEF TypeOK
<1>1. ASSUME NEW c \in Collectors, Load(c) \/ Step(c) PROVE TypeOK'
  <2> USE <1>1
  <2>1. CASE LoadUsable(c)
    BY <1>0, <2>1 DEF LoadUsable, Goto, Answer, disk, history, Sections
  <2>2. CASE LoadUnusable(c)
    BY <1>0, <2>2 DEF LoadUnusable, Goto, disk, local, history
  <2>3. CASE CachedSucceeds(c)
    <3>1. [record[c] EXCEPT !.failures = 0] \in Record
      BY <1>0, CountType DEF Record
    <3>2. record' \in [Collectors -> Record]
      BY <1>0, <2>3, <3>1 DEF CachedSucceeds
    <3>3. streak' \in 0..Threshold
      BY <2>3, CountType DEF CachedSucceeds
    <3> QED
      BY <1>0, <2>3, <3>2, <3>3 DEF CachedSucceeds, Goto, disk, Sections
  <2>4. CASE CachedFails(c)
    <3>1. [record[c] EXCEPT !.failures = Counted(@)] \in Record
      BY <1>0, CountType DEF Record
    <3>2. record' \in [Collectors -> Record]
      BY <1>0, <2>4, <3>1 DEF CachedFails
    <3>3. streak' \in 0..Threshold
      BY <1>0, <2>4, CountType DEF CachedFails
    <3> QED
      BY <1>0, <2>4, <3>2, <3>3 DEF CachedFails, Goto, disk, Sections
  <2>5. CASE Discover(c)
    <3>1. Discovered(host) \in Record
      BY <1>0, DiscoveredType
    <3>2. streak' \in 0..Threshold
      BY <2>5, CountType DEF Discover
    <3> QED
      BY <1>0, <2>5, <3>1, <3>2 DEF Discover, Goto, disk, Sections
  <2>6. CASE Collect(c)
    BY <1>0, <2>6 DEF Collect, Goto, Answer, disk, history, Sections
  <2>7. CASE Truncate(c)
    BY <1>0, <2>7, NoRecordType DEF Truncate, Goto, local, history, FileStates
  <2>8. CASE Write(c)
    BY <1>0, <2>8, NoRecordType DEF Write, Goto, local, history, FileStates
  <2>9. CASE OpenFails(c)
    BY <1>0, <2>9 DEF OpenFails, Goto, disk, local, history
  <2>10. CASE WriteFails(c)
    BY <1>0, <2>10, NoRecordType DEF WriteFails, Goto, disk, local, history, FileStates
  <2>11. CASE Return(c)
    BY <1>0, <2>11, NoRecordType DEF Return, Reset, disk, history, Sections
  <2> HIDE DEF TypeOK
  <2> QED
    BY <2>1, <2>2, <2>3, <2>4, <2>5, <2>6, <2>7, <2>8, <2>9, <2>10, <2>11 DEF Load, Step
<1>2. CASE ChangeHost
  <2>1. FirstChoice(host') \in Kept /\ 0 \in 0..Oldest
    BY FirstChoiceType, ConstantsAssumption DEF Oldest
  <2> QED
    BY <1>0, <1>2, <2>1, ConstantsAssumption DEF ChangeHost, disk, local, Kept
<1>3. CASE Tick
  <2>1. saved' \in Record /\ record' \in [Collectors -> Record]
    BY <1>0, <1>3, AgeType DEF Tick, Redate, Record
  <2>2. since' \in [Kept -> 0..Oldest]
    BY <1>0, <1>3, ConstantsAssumption DEF Tick, Older, Kept, Oldest
  <2> QED
    BY <1>0, <1>3, <2>1, <2>2 DEF Tick, Kept
<1>4. CASE SetClockBack
  <2>1. file = "whole" => saved.age - 1 \in Age
    BY <1>0, <1>4, TrueAge, AgeType DEF SetClockBack, Inv, FileTrue, Record
  <2>2. \A c \in Collectors : HasRecord(c) => record[c].age - 1 \in Age
    BY <1>0, <1>4, TrueAge, AgeType DEF SetClockBack, Inv, CollectorsTrue, Record
  <2>3. saved' \in Record
    BY <1>0, <1>4, <2>1 DEF SetClockBack, Redate, Record
  <2>4. record' \in [Collectors -> Record]
    BY <1>0, <1>4, <2>2 DEF SetClockBack, Redate, Record
  <2>5. back' \in 0..MaxBack
    <3>1. back \in 0..MaxBack /\ back < MaxBack /\ back' = back + 1
      BY <1>0, <1>4 DEF SetClockBack
    <3> HIDE DEF TypeOK
    <3> QED
      BY <3>1, ConstantsAssumption
  <2> QED
    BY <1>0, <1>4, <2>3, <2>4, <2>5 DEF SetClockBack
<1>5. CASE SetClockForward
  <2>1. saved' \in Record /\ record' \in [Collectors -> Record]
    BY <1>0, <1>5, AgeType DEF SetClockForward, Redate, Record
  <2> QED
    BY <1>0, <1>5, <2>1 DEF SetClockForward, history
<1>6. CASE Crash
  BY <1>0, <1>6, NoRecordType DEF Crash, disk, history, Sections
<1>7. CASE UNCHANGED vars
  BY <1>0, <1>7 DEF vars, disk, local, history
<1> HIDE DEF TypeOK
<1> QED
  BY <1>1, <1>2, <1>3, <1>4, <1>5, <1>6, <1>7 DEF Next

-------------------------------------------------------------------------------
(* The other parts of the invariant.                                       *)

\* The host's first choice stays so while the host does not change.
LEMMA StepCurrent == Inv /\ [Next]_vars => Current'
<1> SUFFICES ASSUME Inv, [Next]_vars
             PROVE  Current'
    OBVIOUS
<1>0. TypeOK /\ Current
  BY DEF Inv
<1>1. CASE UNCHANGED <<host, since>>
  BY <1>0, <1>1 DEF Current
<1>2. CASE ChangeHost
  BY <1>0, <1>2, FirstChoiceType DEF ChangeHost, Current, TypeOK, Kept
<1>3. CASE Tick
  BY <1>0, <1>3, FirstChoiceType DEF Tick, Current, Kept
<1>4. ASSUME NEW c \in Collectors, Load(c) \/ Step(c) PROVE UNCHANGED <<host, since>>
  BY <1>4 DEF Load, Step, LoadUsable, LoadUnusable, CachedSucceeds, CachedFails, Discover,
              Collect, Truncate, Write, OpenFails, WriteFails, Return, history
<1>5. SetClockBack \/ SetClockForward \/ Crash \/ UNCHANGED vars => UNCHANGED <<host, since>>
  BY DEF SetClockBack, SetClockForward, Crash, vars, history
<1> QED
  BY <1>1, <1>2, <1>3, <1>4, <1>5 DEF Next

\* Most steps of a collector hand on, to itself or to the file, a record that is
\* in use, with its detector and its age.
HandsOn(c) ==
  /\ UNCHANGED <<since, back>>
  /\ file' = "whole" => \/ file = "whole" /\ saved' = saved
                        \/ HasRecord(c) /\ saved' = record[c]
  /\ \A d \in Collectors \ {c} : pc'[d] = pc[d] /\ record'[d] = record[d]
  /\ HasRecord(c)' =>
       \/ HasRecord(c) /\ record'[c].detector = record[c].detector
                       /\ record'[c].age = record[c].age
       \/ file = "whole" /\ record'[c] = saved

\* A record that is handed on is as true as it was.
LEMMA HandsOnTruth ==
  ASSUME FileTrue, CollectorsTrue, NEW c \in Collectors, HandsOn(c)
  PROVE  FileTrue' /\ CollectorsTrue'
<1>1. FileTrue'
  BY DEF HandsOn, FileTrue, CollectorsTrue, True
<1>2. ASSUME NEW d \in Collectors, HasRecord(d)' PROVE True(record[d])'
  <2>1. CASE d = c
    BY <1>2, <2>1 DEF HandsOn, FileTrue, CollectorsTrue, True
  <2>2. CASE d # c
    BY <1>2, <2>2 DEF HandsOn, CollectorsTrue, True, HasRecord
  <2> QED
    BY <2>1, <2>2
<1> QED
  BY <1>1, <1>2 DEF CollectorsTrue

\* Every step of a collector but Discover hands on what it has.
LEMMA StepHandsOn ==
  ASSUME TypeOK, NEW c \in Collectors, Load(c) \/ Step(c), ~Discover(c)
  PROVE  HandsOn(c)
<1>0. /\ pc \in [Collectors -> Pcs] /\ record \in [Collectors -> Record]
      /\ next \in [Collectors -> Nexts]
  BY DEF TypeOK, Pcs, Nexts
<1> USE DEF HandsOn, HasRecord
<1>1. CASE LoadUsable(c)
  BY <1>0, <1>1 DEF LoadUsable, Goto, Answer, disk, history
<1>2. CASE LoadUnusable(c)
  BY <1>0, <1>2 DEF LoadUnusable, Goto, disk, local, history
<1>3. CASE CachedSucceeds(c)
  <2>1. /\ record'[c].detector = record[c].detector /\ record'[c].age = record[c].age
        /\ \A d \in Collectors \ {c} : record'[d] = record[d]
    BY <1>0, <1>3 DEF CachedSucceeds, Record
  <2> QED
    BY <1>0, <1>3, <2>1 DEF CachedSucceeds, Goto, disk
<1>4. CASE CachedFails(c)
  <2>1. /\ record'[c].detector = record[c].detector /\ record'[c].age = record[c].age
        /\ \A d \in Collectors \ {c} : record'[d] = record[d]
    BY <1>0, <1>4 DEF CachedFails, Record
  <2> QED
    BY <1>0, <1>4, <2>1 DEF CachedFails, Goto, disk
<1>5. CASE Collect(c)
  BY <1>0, <1>5 DEF Collect, Goto, Answer, disk, history
<1>6. CASE Truncate(c)
  BY <1>0, <1>6 DEF Truncate, Goto, local, history
<1>7. CASE Write(c)
  BY <1>0, <1>7 DEF Write, Goto, local, history
<1>8. CASE OpenFails(c)
  BY <1>0, <1>8 DEF OpenFails, Goto, disk, local, history
<1>9. CASE WriteFails(c)
  BY <1>0, <1>9 DEF WriteFails, Goto, disk, local, history
<1>10. CASE Return(c)
  BY <1>0, <1>10 DEF Return, Reset, disk, history
<1> HIDE DEF HandsOn, HasRecord
<1> QED
  BY <1>1, <1>2, <1>3, <1>4, <1>5, <1>6, <1>7, <1>8, <1>9, <1>10 DEF Load, Step

\* A discovery is true: it is of the host's first choice, at this moment.
LEMMA DiscoverTrue ==
  ASSUME TypeOK, Current, FileTrue, CollectorsTrue, NEW c \in Collectors, Discover(c)
  PROVE  FileTrue' /\ CollectorsTrue'
<1>0. /\ pc \in [Collectors -> Pcs] /\ record \in [Collectors -> Record]
      /\ host \in Hosts /\ back \in 0..MaxBack
  BY DEF TypeOK, Pcs
<1>1. UNCHANGED <<file, saved, since, back>>
  BY DEF Discover, disk
<1>2. record' = [record EXCEPT ![c] = Discovered(host)] /\ pc' = [pc EXCEPT ![c] = "save"]
  BY DEF Discover, Goto
<1>3. True(record[c])'
  <2>1. record'[c].detector = FirstChoice(host) /\ record'[c].age = 0
    BY <1>0, <1>2, DiscoveredType
  <2> QED
    BY <1>0, <1>1, <2>1, ConstantsAssumption DEF Current, True
<1>4. ASSUME NEW d \in Collectors \ {c}, HasRecord(d)' PROVE True(record[d])'
  BY <1>0, <1>1, <1>2, <1>4 DEF HasRecord, CollectorsTrue, True
<1>5. FileTrue'
  BY <1>1 DEF FileTrue, True
<1> QED
  BY <1>3, <1>4, <1>5 DEF CollectorsTrue

\* When time passes, the records in use age as much as anything does, as long as
\* the clock may tell.
LEMMA TickTrue ==
  ASSUME TypeOK, Current, FileTrue, CollectorsTrue, Tick
  PROVE  FileTrue' /\ CollectorsTrue'
<1>1. back \in 0..MaxBack /\ back' = back /\ file' = file /\ pc' = pc
  BY DEF TypeOK, Tick
<1>2. ASSUME NEW r \in Record, True(r), NEW s, s.detector = r.detector, s.age = Later(r.age)
      PROVE  since'[s.detector] <= s.age + back'
  <2>1. r.detector \in Kept /\ r.age \in Age
    BY DEF Record, Kept
  <2>2. since[r.detector] \in 0..Oldest
    BY <2>1 DEF TypeOK, Kept
  <2>3. since'[r.detector] \in {0, Older(since[r.detector])}
    BY <2>1 DEF Tick, Kept
  <2>4. since[r.detector] <= r.age + back
    BY <1>2 DEF True
  <2>5. r.age + back >= 0
    BY <1>1, <2>1, <2>2, <2>4, ConstantsAssumption DEF Age, Oldest
  <2> QED
    BY <1>1, <1>2, <2>1, <2>2, <2>3, <2>4, <2>5, ConstantsAssumption
       DEF Older, Later, Age, Oldest
<1>3. FileTrue'
  <2>1. file = "whole" => saved'.detector = saved.detector /\ saved'.age = Later(saved.age)
    BY DEF TypeOK, Tick, Redate, Record
  <2> QED
    BY <1>1, <1>2, <2>1 DEF TypeOK, FileTrue, True
<1>4. ASSUME NEW c \in Collectors, HasRecord(c)' PROVE True(record[c])'
  <2>1. HasRecord(c)
    BY <1>1, <1>4 DEF HasRecord
  <2>2. record'[c].detector = record[c].detector /\ record'[c].age = Later(record[c].age)
    BY <2>1 DEF TypeOK, Tick, Redate, Record
  <2> QED
    BY <1>2, <2>1, <2>2 DEF TypeOK, CollectorsTrue, True
<1> QED
  BY <1>3, <1>4 DEF CollectorsTrue

\* When the clock is set, what a record loses in age is kept in back.
LEMMA ClockTrue ==
  ASSUME TypeOK, FileTrue, CollectorsTrue, SetClockBack \/ SetClockForward
  PROVE  FileTrue' /\ CollectorsTrue'
<1>1. back \in 0..MaxBack /\ since' = since /\ file' = file /\ pc' = pc
  BY DEF TypeOK, SetClockBack, SetClockForward, history
<1>2. ASSUME NEW r \in Record, True(r), NEW s, s.detector = r.detector,
             \/ back' = back + 1 /\ s.age = r.age - 1
             \/ back' = back /\ s.age = Later(r.age)
      PROVE  since'[s.detector] <= s.age + back'
  <2>1. r.detector \in Kept /\ r.age \in Age
    BY DEF Record, Kept
  <2>2. since[r.detector] \in 0..Oldest
    BY <2>1 DEF TypeOK, Kept
  <2>3. since[r.detector] <= r.age + back
    BY <1>2 DEF True
  <2>4. r.age <= Later(r.age)
    BY <2>1, AgeType
  <2>5. Later(r.age) \in Age
    BY <2>1, AgeType
  <2> QED
    BY <1>1, <1>2, <2>1, <2>2, <2>3, <2>4, <2>5, ConstantsAssumption DEF Age, Oldest
<1>3. FileTrue'
  <2>1. file = "whole" =>
          /\ saved'.detector = saved.detector
          /\ \/ back' = back + 1 /\ saved'.age = saved.age - 1
             \/ back' = back /\ saved'.age = Later(saved.age)
    BY DEF TypeOK, SetClockBack, SetClockForward, Redate, Record, history
  <2> QED
    BY <1>1, <1>2, <2>1 DEF TypeOK, FileTrue, True
<1>4. ASSUME NEW c \in Collectors, HasRecord(c)' PROVE True(record[c])'
  <2>1. HasRecord(c)
    BY <1>1, <1>4 DEF HasRecord
  <2>2. /\ record'[c].detector = record[c].detector
        /\ \/ back' = back + 1 /\ record'[c].age = record[c].age - 1
           \/ back' = back /\ record'[c].age = Later(record[c].age)
    BY <2>1 DEF TypeOK, SetClockBack, SetClockForward, Redate, Record, history
  <2> QED
    BY <1>2, <2>1, <2>2 DEF TypeOK, CollectorsTrue, True
<1> QED
  BY <1>3, <1>4 DEF CollectorsTrue

\* Every step keeps the records in use true.
LEMMA StepTrue == Inv /\ [Next]_vars => FileTrue' /\ CollectorsTrue'
<1> SUFFICES ASSUME Inv, [Next]_vars
             PROVE  FileTrue' /\ CollectorsTrue'
    OBVIOUS
<1>0. TypeOK /\ Current /\ FileTrue /\ CollectorsTrue
  BY DEF Inv
<1>1. ASSUME NEW c \in Collectors, Load(c) \/ Step(c) PROVE FileTrue' /\ CollectorsTrue'
  BY <1>0, <1>1, DiscoverTrue, StepHandsOn, HandsOnTruth
<1>2. CASE ChangeHost
  <2>1. /\ UNCHANGED <<file, saved, pc, record, back>>
        /\ since' = [since EXCEPT ![FirstChoice(host')] = 0]
    BY <1>2 DEF ChangeHost, disk, local
  <2>2. back \in 0..MaxBack /\ since \in [Kept -> 0..Oldest]
    BY <1>0 DEF TypeOK, Kept
  <2>3. ASSUME NEW r \in Record, True(r) PROVE since'[r.detector] <= r.age + back
    <3>1. r.detector \in Kept /\ r.age \in Age
      BY DEF Record, Kept
    <3>2. since[r.detector] \in 0..Oldest /\ since'[r.detector] \in {0, since[r.detector]}
      BY <2>1, <2>2, <3>1
    <3> QED
      BY <2>2, <2>3, <3>1, <3>2, ConstantsAssumption DEF True, Age, Oldest
  <2>4. FileTrue'
    BY <1>0, <2>1, <2>3 DEF TypeOK, FileTrue, True
  <2>5. CollectorsTrue'
    BY <1>0, <2>1, <2>3 DEF TypeOK, CollectorsTrue, True, HasRecord
  <2> QED
    BY <2>4, <2>5
<1>3. CASE Tick
  BY <1>0, <1>3, TickTrue
<1>4. CASE SetClockBack \/ SetClockForward
  BY <1>0, <1>4, ClockTrue
<1>5. CASE Crash
  BY <1>0, <1>5 DEF Crash, disk, history, FileTrue, CollectorsTrue, HasRecord, True
<1>6. CASE UNCHANGED vars
  BY <1>0, <1>6 DEF vars, disk, local, history, FileTrue, CollectorsTrue, HasRecord, True
<1> QED
  BY <1>1, <1>2, <1>3, <1>4, <1>5, <1>6 DEF Next

\* The inductive invariant of the cache: types, and records that are true.
THEOREM Invariance == Spec => []Inv
<1>1. Inv /\ [Next]_vars => Inv'
  BY StepType, StepCurrent, StepTrue DEF Inv
<1> QED
  BY <1>1, InitInv, PTL DEF Spec

\* The host, the file and the collectors keep their types, also across crashes
\* and a clock that is set.
THEOREM TypeCorrect == Spec => []TypeOK
<1>1. Inv => TypeOK
  BY DEF Inv
<1> QED
  BY <1>1, Invariance, PTL

\* Whatever is saved by whom and when, every record in use is true to its date.
THEOREM RecordsTruthfulHolds == Spec => []RecordsTruthful
<1>1. Inv => RecordsTruthful
  BY DEF Inv, FileTrue, CollectorsTrue, True, RecordsTruthful, InUse
<1> QED
  BY <1>1, Invariance, PTL

\* Only LoadUsable takes an answer from the file.
LEMMA OnlyLoadUsable ==
  ASSUME TypeOK, Next, NEW c \in Collectors, pc[c] = "idle", pc'[c] \in {"cached", "answered"}
  PROVE  LoadUsable(c)
<1>0. pc \in [Collectors -> Pcs]
  BY DEF TypeOK, Pcs
<1>1. ASSUME NEW d \in Collectors, Load(d) \/ Step(d), d # c PROVE FALSE
  <2>1. UNCHANGED pc \/ \E p : pc' = [pc EXCEPT ![d] = p]
    BY <1>1 DEF Load, Step, LoadUsable, LoadUnusable, CachedSucceeds, CachedFails, Discover,
                Collect, Truncate, Write, OpenFails, WriteFails, Return, Reset, Goto, Answer
  <2> QED
    BY <1>0, <1>1, <2>1
<1>2. ~(Step(c) \/ LoadUnusable(c))
  <2>1. ~Step(c)
    BY DEF Step, CachedSucceeds, CachedFails, Discover, Collect, Truncate, Write, OpenFails,
           WriteFails, Return
  <2>2. ~LoadUnusable(c)
    BY <1>0 DEF LoadUnusable, Goto
  <2> QED
    BY <2>1, <2>2
<1>3. ~(ChangeHost \/ Tick \/ SetClockBack \/ SetClockForward \/ Crash)
  BY DEF ChangeHost, Tick, SetClockBack, SetClockForward, Crash
<1> QED
  BY <1>1, <1>2, <1>3 DEF Next, Load

\* Whatever is saved by whom and when, an answer from the file was right less than
\* its TTL ago, give or take what the clock was set back.
THEOREM AnswersRecentHolds == Spec => AnswersRecent
<1> DEFINE Recent ==
      \A c \in Collectors :
        pc[c] = "idle" /\ pc'[c] \in {"cached", "answered"}
          => since[record'[c].detector] < TTLOf(record'[c]) + back
<1>1. Inv /\ [Next]_vars => [Recent]_vars
  <2> SUFFICES ASSUME Inv, Next, NEW c \in Collectors,
                      pc[c] = "idle", pc'[c] \in {"cached", "answered"}
               PROVE  since[record'[c].detector] < TTLOf(record'[c]) + back
    OBVIOUS
  <2>0. TypeOK /\ FileTrue
    BY DEF Inv
  <2>1. LoadUsable(c)
    BY <2>0, OnlyLoadUsable
  <2>2. record'[c] = saved /\ file = "whole" /\ saved.age < TTLOf(saved)
    BY <2>0, <2>1 DEF LoadUsable, Usable, DiscoveryFresh, TypeOK
  <2>3. since[saved.detector] <= saved.age + back
    BY <2>0, <2>2 DEF FileTrue, True
  <2>4. saved.age \in Age /\ since[saved.detector] \in 0..Oldest /\ back \in 0..MaxBack
    BY <2>0 DEF TypeOK, Record
  <2>5. TTLOf(saved) \in Nat
    BY ConstantsAssumption DEF TTLOf
  <2> QED
    BY <2>2, <2>3, <2>4, <2>5, ConstantsAssumption DEF Age, Oldest
<1>2. Spec => [][Recent]_vars
  <2> HIDE DEF Recent
  <2> QED
    BY <1>1, Invariance, PTL DEF Spec
<1> QED
  BY <1>2 DEF AnswersRecent

-------------------------------------------------------------------------------
(* Failures in a row. They are told by the file alone, so that it takes a   *)
(* collector that nobody else's record overtakes, and whose own record is   *)
(* never lost without the one before: two collectors lose failures (see the *)
(* run GpuLostFailure), and so does a program that is killed, or that       *)
(* cannot open the file, between the failure and the write.                 *)

Alone     == \A c, d \in Collectors : c = d
SavesCome == Faults \cap {"crash", "open"} = {}

\* What the next collection will know of the failures in a row is no less than
\* their number. While the record is being saved, the file does not count.
FailuresTold ==
  \A c \in Collectors :
    /\ pc[c] \in {"cached", "save", "write"} => streak <= record[c].failures
    /\ pc[c] = "write" => file = "empty"
    /\ pc[c] \notin {"save", "write"} /\ file = "whole" => streak <= saved.failures

\* What setting the wall clock does to records, it does to their ages.
LEMMA RedateFailures ==
  ASSUME TypeOK, Tick \/ SetClockBack \/ SetClockForward
  PROVE  /\ UNCHANGED <<file, pc, streak>>
         /\ saved'.failures = saved.failures
         /\ \A c \in Collectors : record'[c].failures = record[c].failures
<1>1. saved \in Record /\ \A c \in Collectors : record[c] \in Record
  BY DEF TypeOK
<1>2. CASE Tick
  BY <1>1, <1>2 DEF Tick, Redate, Record
<1>3. CASE SetClockBack
  BY <1>1, <1>3 DEF SetClockBack, Redate, Record
<1>4. CASE SetClockForward
  BY <1>1, <1>4 DEF SetClockForward, Redate, Record, history
<1> QED
  BY <1>2, <1>3, <1>4

\* A failure is counted in the record as it is in the streak.
LEMMA CountedTogether ==
  ASSUME NEW m \in 0..Threshold, NEW n \in 0..Threshold, m <= n
  PROVE  /\ Counted(m) <= Counted(n)
         /\ Counted(m) = Threshold => n + 1 >= Threshold
  BY ConstantsAssumption DEF Counted

\* A collector that is alone loses no failure.
LEMMA StepTold ==
  ASSUME Alone, SavesCome, TypeOK, FailuresTold, [Next]_vars
  PROVE  FailuresTold'
<1> SUFFICES ASSUME NEW c \in Collectors
             PROVE  /\ pc'[c] \in {"cached", "save", "write"} => streak' <= record'[c].failures
                    /\ pc'[c] = "write" => file' = "empty"
                    /\ pc'[c] \notin {"save", "write"} /\ file' = "whole" =>
                         streak' <= saved'.failures
    BY DEF FailuresTold
<1>0. /\ pc \in [Collectors -> Pcs] /\ record \in [Collectors -> Record]
      /\ next \in [Collectors -> Nexts]
      /\ record[c] \in Record /\ record[c].failures \in 0..Threshold
      /\ saved \in Record /\ saved.failures \in 0..Threshold
      /\ streak \in 0..Threshold /\ Threshold \in Nat \ {0}
  BY ConstantsAssumption DEF TypeOK, Pcs, Nexts, Record
<1>1. /\ pc[c] \in {"cached", "save", "write"} => streak <= record[c].failures
      /\ pc[c] = "write" => file = "empty"
      /\ pc[c] \notin {"save", "write"} /\ file = "whole" => streak <= saved.failures
  BY DEF FailuresTold
<1>2. CASE UNCHANGED <<disk, pc, record, streak>>
  BY <1>1, <1>2 DEF disk
<1>3. CASE LoadUsable(c)
  BY <1>0, <1>1, <1>3 DEF LoadUsable, Goto, Answer, disk, history
<1>4. CASE LoadUnusable(c)
  BY <1>0, <1>1, <1>4 DEF LoadUnusable, Goto, disk, history
<1>5. CASE CachedSucceeds(c)
  <2>1. /\ streak' = 0 /\ UNCHANGED disk /\ pc' \in {[pc EXCEPT ![c] = "answered"], [pc EXCEPT ![c] = "save"]}
        /\ record'[c].failures = 0
    BY <1>0, <1>5 DEF CachedSucceeds, Goto, Record
  <2> QED
    BY <1>0, <2>1 DEF disk
<1>6. CASE CachedFails(c)
  <2>1. /\ pc[c] = "cached" /\ streak' = Counted(streak) /\ pc' = [pc EXCEPT ![c] = "save"]
        /\ record'[c].failures = Counted(record[c].failures)
    BY <1>0, <1>6 DEF CachedFails, Goto, Record
  <2>2. Counted(streak) <= Counted(record[c].failures)
    BY <1>0, <1>1, <2>1, CountedTogether
  <2> QED
    BY <1>0, <2>1, <2>2
<1>7. CASE Discover(c)
  <2>1. streak' = 0 /\ pc' = [pc EXCEPT ![c] = "save"] /\ record'[c].failures = 0
    BY <1>0, <1>7 DEF Discover, Goto, Discovered
  <2> QED
    BY <1>0, <2>1
<1>8. CASE Collect(c)
  BY <1>0, <1>1, <1>8 DEF Collect, Goto, Answer, disk, history
<1>9. CASE Truncate(c)
  BY <1>0, <1>1, <1>9 DEF Truncate, Goto, local, history
<1>10. CASE Write(c)
  <2>1. /\ pc[c] = "write" /\ pc' = [pc EXCEPT ![c] = next[c]] /\ UNCHANGED <<record, streak>>
        /\ file' = "whole" => saved' = record[c]
    BY <1>10 DEF Write, Goto, local, history
  <2>2. pc'[c] \in {"answered", "discover", "collect"}
    BY <1>0, <2>1 DEF Nexts
  <2> QED
    BY <1>1, <2>1, <2>2
<1>11. ~OpenFails(c) /\ ~Crash
  BY DEF OpenFails, Crash, SavesCome
<1>12. CASE WriteFails(c)
  <2>1. pc[c] = "write" /\ pc' = [pc EXCEPT ![c] = next[c]] /\ file' # "whole"
    BY <1>1, <1>12 DEF WriteFails, Goto, disk
  <2>2. pc'[c] \in {"answered", "discover", "collect"}
    BY <1>0, <2>1 DEF Nexts
  <2> QED
    BY <2>1, <2>2
<1>13. CASE Return(c)
  BY <1>0, <1>1, <1>13 DEF Return, Reset, disk, history
<1>14. CASE Tick \/ SetClockBack \/ SetClockForward
  BY <1>1, <1>14, RedateFailures
<1>15. CASE ChangeHost \/ UNCHANGED vars
  <2>1. UNCHANGED <<disk, pc, record, streak>>
    BY <1>15 DEF ChangeHost, vars, local, history
  <2> QED
    BY <1>2, <2>1
<1>16. ASSUME NEW d \in Collectors, Load(d) \/ Step(d)
       PROVE  Load(c) \/ Step(c)
  <2>1. c = d
    BY DEF Alone
  <2> QED
    BY <1>16, <2>1
<1> QED
  BY <1>3, <1>4, <1>5, <1>6, <1>7, <1>8, <1>9, <1>10, <1>11, <1>12, <1>13, <1>14, <1>15, <1>16
     DEF Next, Load, Step

\* Only a collection ends one that uses the cache, if nothing kills it.
LEMMA OnlyCached ==
  ASSUME Alone, SavesCome, TypeOK, Next, NEW c \in Collectors,
         pc[c] = "cached", pc'[c] # "cached"
  PROVE  CachedSucceeds(c) \/ CachedFails(c)
<1>1. ~(ChangeHost \/ Tick \/ SetClockBack \/ SetClockForward \/ Crash)
  BY DEF ChangeHost, Tick, SetClockBack, SetClockForward, Crash, SavesCome
<1>2. Load(c) \/ Step(c)
  BY <1>1 DEF Next, Alone
<1> QED
  BY <1>2 DEF Load, Step, LoadUsable, LoadUnusable, Discover, Collect, Truncate, Write,
              OpenFails, WriteFails, Return

\* For every threshold and every set of hosts, a single collector whose program is
\* not killed, and that can open its file, rediscovers after as many failures in a
\* row as the threshold says, also when requests are cancelled and writes fail.
THEOREM ConsecutiveFailuresRediscoverHolds ==
  ASSUME Alone, SavesCome
  PROVE  Spec => ConsecutiveFailuresRediscover
<1> DEFINE Rediscovers ==
      \A c \in Collectors :
        pc[c] = "cached" /\ pc'[c] # "cached" /\ streak' = Threshold
          => next'[c] = "discover"
<1>1. Init => FailuresTold
  BY DEF Init, FailuresTold
<1>2. TypeOK /\ FailuresTold /\ [Next]_vars => FailuresTold'
  BY StepTold
<1>3. TypeOK /\ FailuresTold /\ [Next]_vars => [Rediscovers]_vars
  <2> SUFFICES ASSUME TypeOK, FailuresTold, Next, NEW c \in Collectors,
                      pc[c] = "cached", pc'[c] # "cached", streak' = Threshold
               PROVE  next'[c] = "discover"
      OBVIOUS
  <2>1. Threshold \in Nat \ {0}
    BY ConstantsAssumption
  <2>2. CachedFails(c)
    BY <2>1, OnlyCached DEF CachedSucceeds
  <2>3. /\ streak \in 0..Threshold /\ record[c].failures \in 0..Threshold
        /\ next \in [Collectors -> Nexts]
    BY DEF TypeOK, Record, Nexts
  <2>4. streak <= record[c].failures /\ Counted(streak) = Threshold
    BY <2>2 DEF FailuresTold, CachedFails
  <2>5. record[c].failures + 1 >= Threshold
    BY <2>3, <2>4, CountedTogether
  <2> QED
    BY <2>2, <2>3, <2>5 DEF CachedFails
<1>4. Spec => [][Rediscovers]_vars
  <2> HIDE DEF Rediscovers
  <2> QED
    BY <1>1, <1>2, <1>3, TypeCorrect, PTL DEF Spec
<1> QED
  BY <1>4 DEF ConsecutiveFailuresRediscover
===============================================================================
