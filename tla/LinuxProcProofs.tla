---------------------------- MODULE LinuxProcProofs ----------------------------
(***************************************************************************)
(* Proofs about LinuxProc, for every set of cores, every number that /proc *)
(* tells and every length of a word: its types, that the memory adds up,   *)
(* that an estimate is not too optimistic where the memory fits a word,    *)
(* that a utilization is a share of some time and tells the time that      *)
(* truly passed, and that the cores are listed in their places.            *)
(***************************************************************************)
EXTENDS LinuxProc, SequenceTheorems, SumAndOrderTheorems

\* What a line of /proc/meminfo tells is a word once it is in bytes, and the
\* estimate is one, too.
LEMMA MemoryType ==
  ASSUME NEW m \in MemInfo
  PROVE  Bytes(m.MemTotal) \in 0..(Word - 1) /\ AvailableBytes(m) \in 0..Bytes(m.MemTotal)
<1>1. \A k \in Amounts : Bytes(k) \in 0..(Word - 1)
  <2>1. ASSUME NEW k \in Amounts PROVE Bytes(k) \in 0..(Word - 1)
    <3>1. k * Kilo \in Nat
      BY ConstantsAssumption
    <3> QED
      BY <3>1, ConstantsAssumption DEF Bytes
  <2> QED
    BY <2>1
<1>0. \A k \in Amounts : Bytes(k) \in Nat
  BY <1>1, ConstantsAssumption
<1>2. /\ m.MemTotal \in Amounts /\ m.MemFree \in Amounts /\ m.Buffers \in Amounts
      /\ m.Cached \in Amounts /\ m.SReclaimable \in Amounts /\ m.Shmem \in Amounts
      /\ m.MemAvailable \in Amounts \cup {Absent}
  BY DEF MemInfo
<1>3. Estimate(m) \in Nat
  <2>1. /\ Bytes(m.MemFree) \in Nat /\ Bytes(m.Buffers) \in Nat /\ Bytes(m.Cached) \in Nat
        /\ Bytes(m.SReclaimable) \in Nat /\ Bytes(m.Shmem) \in Nat
    BY <1>0, <1>2
  <2>2. Bytes(m.MemFree) + Bytes(m.Buffers) + Bytes(m.Cached) + Bytes(m.SReclaimable) \in Nat
    BY <2>1
  <2>3. Reclaimable(m) \in Nat
    BY <2>2, ConstantsAssumption DEF Reclaimable
  <2> QED
    BY <2>1, <2>3 DEF Estimate
<1> DEFINE told == IF m.MemAvailable = Absent THEN Estimate(m) ELSE Bytes(m.MemAvailable)
<1>4. told \in Nat
  BY <1>0, <1>2, <1>3
<1>5. Bytes(m.MemTotal) \in 0..(Word - 1)
  BY <1>1, <1>2
<1>6. AvailableBytes(m) = Min({Bytes(m.MemTotal), told})
  BY DEF AvailableBytes
<1> HIDE DEF told
<1>7. \E x \in {Bytes(m.MemTotal), told} : \A y \in {Bytes(m.MemTotal), told} : x <= y
  BY <1>4, <1>5, ConstantsAssumption
<1> QED
  BY <1>4, <1>5, <1>6, <1>7, ConstantsAssumption DEF Min

\* linuxMemoryFromMemInfo: what is available is held against the total, so that
\* the difference does not wrap.
LEMMA MemorySectionAddsUp ==
  ASSUME NEW m \in MemInfo
  PROVE  LET s == MemorySection(m) IN s.used + s.available = s.total
<1> DEFINE total == Bytes(m.MemTotal)
           left  == AvailableBytes(m)
<1>1. total \in 0..(Word - 1) /\ left \in 0..total
  BY MemoryType
<1>2. MemorySection(m) = [kind |-> "memory", total |-> total, available |-> left,
                          used |-> (total - left) % Word]
  BY DEF MemorySection
<1> HIDE DEF total, left
<1>3. (total - left) % Word = total - left
  BY <1>1, ConstantsAssumption
<1> QED
  BY <1>1, <1>2, <1>3, ConstantsAssumption

\* linuxMemoryFromMemInfo answers in words.
LEMMA MemorySectionType ==
  ASSUME NEW m \in MemInfo
  PROVE  MemorySection(m) \in MemorySections
<1> DEFINE total == Bytes(m.MemTotal)
           left  == AvailableBytes(m)
<1>1. total \in 0..(Word - 1) /\ left \in 0..total
  BY MemoryType
<1>2. MemorySection(m) = [kind |-> "memory", total |-> total, available |-> left,
                          used |-> (total - left) % Word]
  BY DEF MemorySection
<1> HIDE DEF total, left
<1>3. left \in 0..(Word - 1) /\ (total - left) % Word \in 0..(Word - 1)
  BY <1>1, ConstantsAssumption
<1> QED
  BY <1>1, <1>2, <1>3 DEF MemorySections

-------------------------------------------------------------------------------
(* The counters of all cores, summed up.                                   *)

CountersTyped == counter \in [Cores -> Counters]
ElapsedTyped  == elapsed \in [Cores -> [busy: Nat, idle: Nat]]

\* The first line of /proc/stat, field by field.
LEMMA CounterSum ==
  ASSUME NEW f \in Fields
  PROVE  \E sum : IsSum(sum, [c \in Cores |-> counter[c][f]], Cores) /\ Summed[f] = sum[Cores]
<1> DEFINE Step(sum) == [s \in SUBSET Cores |->
                            IF s = {} THEN 0 ELSE counter[Pick(s)][f] + sum[s \ {Pick(s)}]]
           chosen == CHOOSE sum : sum = Step(sum)
<1>1. PICK sum : IsSum(sum, [c \in Cores |-> counter[c][f]], Cores)
  BY SumExists, ConstantsAssumption
<1>2. sum = Step(sum)
  BY <1>1, PickType DEF IsSum
<1>3. chosen = Step(chosen)
  <2> HIDE DEF Step
  <2> QED
    BY <1>2
<1>4. Summed[f] = chosen[Cores]
  BY DEF Summed, MapThenSumSet, MapThenFoldSet, Pick
<1>5. IsSum(chosen, [c \in Cores |-> counter[c][f]], Cores)
  <2> HIDE DEF chosen
  <2> QED
    BY <1>3, PickType DEF IsSum
<1> QED
  BY <1>4, <1>5

\* The time that truly passed, on all cores.
LEMMA BusySum ==
  \E sum : IsSum(sum, [c \in Cores |-> elapsed[c].busy], Cores) /\ AllElapsed.busy = sum[Cores]
<1> DEFINE Step(sum) == [s \in SUBSET Cores |->
                            IF s = {} THEN 0 ELSE elapsed[Pick(s)].busy + sum[s \ {Pick(s)}]]
           chosen == CHOOSE sum : sum = Step(sum)
<1>1. PICK sum : IsSum(sum, [c \in Cores |-> elapsed[c].busy], Cores)
  BY SumExists, ConstantsAssumption
<1>2. sum = Step(sum)
  BY <1>1, PickType DEF IsSum
<1>3. chosen = Step(chosen)
  <2> HIDE DEF Step
  <2> QED
    BY <1>2
<1>4. AllElapsed.busy = chosen[Cores]
  BY DEF AllElapsed, MapThenSumSet, MapThenFoldSet, Pick
<1>5. IsSum(chosen, [c \in Cores |-> elapsed[c].busy], Cores)
  <2> HIDE DEF chosen
  <2> QED
    BY <1>3, PickType DEF IsSum
<1> QED
  BY <1>4, <1>5

\* The same of the time that was idle.
LEMMA IdleSum ==
  \E sum : IsSum(sum, [c \in Cores |-> elapsed[c].idle], Cores) /\ AllElapsed.idle = sum[Cores]
<1> DEFINE Step(sum) == [s \in SUBSET Cores |->
                            IF s = {} THEN 0 ELSE elapsed[Pick(s)].idle + sum[s \ {Pick(s)}]]
           chosen == CHOOSE sum : sum = Step(sum)
<1>1. PICK sum : IsSum(sum, [c \in Cores |-> elapsed[c].idle], Cores)
  BY SumExists, ConstantsAssumption
<1>2. sum = Step(sum)
  BY <1>1, PickType DEF IsSum
<1>3. chosen = Step(chosen)
  <2> HIDE DEF Step
  <2> QED
    BY <1>2
<1>4. AllElapsed.idle = chosen[Cores]
  BY DEF AllElapsed, MapThenSumSet, MapThenFoldSet, Pick
<1>5. IsSum(chosen, [c \in Cores |-> elapsed[c].idle], Cores)
  <2> HIDE DEF chosen
  <2> QED
    BY <1>3, PickType DEF IsSum
<1> QED
  BY <1>4, <1>5

\* The first line has a number in each field.
LEMMA SummedType ==
  ASSUME CountersTyped
  PROVE  Summed \in Counters
<1>1. ASSUME NEW f \in Fields
      PROVE  Summed[f] \in Nat
  <2>1. PICK sum : IsSum(sum, [c \in Cores |-> counter[c][f]], Cores) /\ Summed[f] = sum[Cores]
    BY CounterSum
  <2>2. [c \in Cores |-> counter[c][f]] \in [Cores -> Nat]
    BY DEF CountersTyped, Counters
  <2> QED
    BY <2>1, <2>2, SumNat, ConstantsAssumption
<1>2. Summed = [f \in Fields |-> Summed[f]]
  BY DEF Summed
<1> QED
  BY <1>1, <1>2 DEF Counters

\* The sums that are read off a line of /proc/stat.
LEMMA StatType ==
  ASSUME NEW n \in Counters
  PROVE  Stat(n) \in StatOf /\ Stat(n).total = n["user"] + n["idle"] + n["iowait"]
         /\ Stat(n).idle = n["idle"] + n["iowait"]
<1>1. n["user"] \in Nat /\ n["idle"] \in Nat /\ n["iowait"] \in Nat
  BY DEF Counters, Fields
<1> QED
  BY <1>1 DEF Stat, StatOf

-------------------------------------------------------------------------------
(* linuxCPUUtilization.                                                    *)

\* The guards leave a share of some time: none of the differences wraps.
LEMMA UtilizationIsProper ==
  ASSUME NEW a \in StatOf, NEW b \in StatOf, Advanced(a, b)
  PROVE  Utilization(a, b) \in Share /\ Proper(Utilization(a, b))
<1>1. a.total \in Nat /\ a.idle \in Nat /\ b.total \in Nat /\ b.idle \in Nat
  BY DEF StatOf
<1> QED
  BY <1>1 DEF Advanced, Utilization, Share, Proper

\* linuxCPUCoreNames lists cores in the order of their numbers.
LEMMA InOrderLists ==
  ASSUME NEW S \in SUBSET Cores
  PROVE  IsFiniteSet(S) /\ Lists(InOrder(S), S) /\ DOMAIN InOrder(S) = 1..Cardinality(S)
<1>1. S \in SUBSET Nat /\ IsFiniteSet(S)
  BY ConstantsAssumption, FS_Subset
<1>2. PICK s : Lists(s, S)
  BY <1>1, ListExists
<1>3. Cardinality(S) \in Nat
  BY <1>1, FS_CardinalityType
<1>4. \A i, j \in 1..Cardinality(S) : i # j => s[i] # s[j]
  <2>1. \A i \in 1..Cardinality(S) : s[i] \in Nat
    BY <1>1, <1>2 DEF Lists
  <2> QED
    BY <1>2, <1>3, <2>1 DEF Lists
<1>5. s \in SetToSeqs(S) /\ \A i, j \in DOMAIN s : i < j => s[i] < s[j]
  BY <1>2, <1>4 DEF SetToSeqs, Lists
<1>6. InOrder(S) \in SetToSeqs(S) /\ \A i, j \in DOMAIN InOrder(S) : i < j => InOrder(S)[i] < InOrder(S)[j]
  BY <1>5 DEF InOrder
<1>7. InOrder(S) \in [1..Cardinality(S) -> S]
  BY <1>6 DEF SetToSeqs
<1> QED
  BY <1>1, <1>6, <1>7 DEF Lists

-------------------------------------------------------------------------------
\* Only ReadMemInfo answers with a section of the memory.
LEMMA StepAddsUp == MemoryAddsUp /\ [Next]_vars => MemoryAddsUp'
<1> SUFFICES ASSUME MemoryAddsUp, [Next]_vars
             PROVE  MemoryAddsUp'
    OBVIOUS
<1> USE DEF MemoryAddsUp
<1>1. CASE ReadMemInfo
  <2>1. PICK m \in MemInfo : section' = IF Bytes(m.MemTotal) = 0 THEN Unavailable ELSE MemorySection(m)
    BY <1>1 DEF ReadMemInfo, Answer
  <2> QED
    BY <2>1, MemorySectionAddsUp DEF Unavailable
<1>2. CASE ReadStatFails \/ WaitCancelled \/ MeasureNothing
  BY <1>2 DEF ReadStatFails, WaitCancelled, MeasureNothing, Fallback, Answer
<1>3. CASE Measure
  <2>1. section'.kind = "cpu"
    BY <1>3 DEF Measure, Answer
  <2> QED
    BY <2>1
<1>4. CASE ReadMemInfoFails \/ ReadSystem \/ Return
  BY <1>4 DEF ReadMemInfoFails, ReadSystem, Return, Answer, Unavailable, NoSection
<1>5. ASSUME \/ \E c \in Cores, f \in Fields : Account(c, f)
             \/ \E c \in Cores, f \in {"idle", "iowait"} : SetBack(c, f)
             \/ \E c \in Cores : Hotplug(c)
             \/ Cancel \/ ReadStat \/ UNCHANGED vars
      PROVE  MemoryAddsUp'
  <2>1. UNCHANGED section
    BY <1>5 DEF Account, SetBack, Hotplug, HostMoves, Cancel, ReadStat, vars
  <2> QED
    BY <2>1
<1> HIDE DEF MemoryAddsUp
<1> QED
  BY <1>1, <1>2, <1>3, <1>4, <1>5 DEF Next

\* For every number of kilobytes and every length of a word, the memory adds up.
THEOREM MemoryAddsUpHolds == Spec => []MemoryAddsUp
<1>1. Init => MemoryAddsUp
  BY DEF Init, MemoryAddsUp, NoSection
<1> QED
  BY <1>1, StepAddsUp, PTL DEF Spec

-------------------------------------------------------------------------------
(* The estimate of what is available, without a line MemAvailable.         *)

\* No line tells as many kilobytes as a word counts bytes: the machine that the
\* kernel counts has an address for each of them.
AmountsFit == \A k \in Amounts : k * Kilo < Word

\* A word is no more than the number it is cut from.
LEMMA ModuloSmaller ==
  ASSUME NEW n \in Nat
  PROVE  n % Word \in Nat /\ n % Word <= n
BY ConstantsAssumption

\* linuxMemoryFromMemInfo: where nothing overflows, the estimate is no more than
\* what is left of the kilobytes that can be reclaimed.
LEMMA EstimateBounded ==
  ASSUME NEW m \in MemInfo, AmountsFit
  PROVE  Estimate(m) <= Kilo * Max({0, m.MemFree + m.Buffers + m.Cached + m.SReclaimable - m.Shmem})
         /\ Estimate(m) \in Nat
<1> DEFINE total == m.MemFree + m.Buffers + m.Cached + m.SReclaimable
           rest == total - m.Shmem
<1>1. /\ m.MemFree \in Nat /\ m.Buffers \in Nat /\ m.Cached \in Nat
      /\ m.SReclaimable \in Nat /\ m.Shmem \in Nat /\ Kilo \in Nat
  BY ConstantsAssumption DEF MemInfo
<1>2. \A k \in Amounts : Bytes(k) = k * Kilo
  <2>1. ASSUME NEW k \in Amounts
        PROVE  Bytes(k) = k * Kilo
    <3>1. k * Kilo \in Nat /\ k * Kilo < Word
      BY ConstantsAssumption DEF AmountsFit
    <3> QED
      BY <3>1, ConstantsAssumption DEF Bytes
  <2> QED
    BY <2>1
<1>3. /\ Bytes(m.MemFree) = m.MemFree * Kilo /\ Bytes(m.Buffers) = m.Buffers * Kilo
      /\ Bytes(m.Cached) = m.Cached * Kilo /\ Bytes(m.SReclaimable) = m.SReclaimable * Kilo
      /\ Bytes(m.Shmem) = m.Shmem * Kilo
  BY <1>2 DEF MemInfo
<1>4. total \in Nat /\ rest \in Int
  BY <1>1
<1>5. Bytes(m.MemFree) + Bytes(m.Buffers) + Bytes(m.Cached) + Bytes(m.SReclaimable)
        = total * Kilo
  BY <1>1, <1>3
<1>6. rest * Kilo = total * Kilo - m.Shmem * Kilo
  <2> HIDE DEF total
  <2> QED
    BY <1>1, <1>4
<1> HIDE DEF total, rest
<1>7. total * Kilo \in Nat /\ m.Shmem * Kilo \in Nat
  BY <1>1, <1>4
<1>8. Reclaimable(m) \in Nat /\ Reclaimable(m) <= total * Kilo
  BY <1>5, <1>7, ModuloSmaller DEF Reclaimable
<1>9. Max({0, rest}) = IF rest < 0 THEN 0 ELSE rest
  <2>1. \E x \in {0, rest} : \A y \in {0, rest} : x >= y
    BY <1>4
  <2> QED
    BY <1>4, <2>1 DEF Max
<1>10. ASSUME m.Shmem * Kilo < Reclaimable(m)
       PROVE  Estimate(m) <= Kilo * Max({0, rest}) /\ Estimate(m) \in Nat
  <2>1. Estimate(m) = Reclaimable(m) - m.Shmem * Kilo
    BY <1>3, <1>10 DEF Estimate
  <2>2. Estimate(m) <= rest * Kilo /\ Estimate(m) \in Nat /\ 0 < rest * Kilo
    BY <1>6, <1>7, <1>8, <1>10, <2>1
  <2>3. ~(rest < 0)
    BY <1>1, <1>4, <2>2
  <2>4. rest * Kilo = Kilo * rest
    BY <1>1, <1>4
  <2>5. Max({0, rest}) = rest
    BY <1>9, <2>3
  <2>6. Estimate(m) <= Kilo * Max({0, rest})
    BY <2>2, <2>4, <2>5
  <2> QED
    BY <2>2, <2>6
<1>11. ASSUME ~(m.Shmem * Kilo < Reclaimable(m))
       PROVE  Estimate(m) <= Kilo * Max({0, rest}) /\ Estimate(m) \in Nat
  <2>1. Estimate(m) = 0
    BY <1>3, <1>11 DEF Estimate
  <2>2. Max({0, rest}) \in Nat
    BY <1>4, <1>9
  <2>3. Kilo * Max({0, rest}) \in Nat
    BY <1>1, <2>2
  <2>4. Estimate(m) <= Kilo * Max({0, rest})
    BY <2>1, <2>3
  <2> QED
    BY <2>1, <2>4
<1>12. Estimate(m) <= Kilo * Max({0, rest}) /\ Estimate(m) \in Nat
  BY <1>10, <1>11
<1>13. rest = m.MemFree + m.Buffers + m.Cached + m.SReclaimable - m.Shmem
  BY <1>1 DEF rest, total
<1> QED
  BY <1>12, <1>13

\* What is available is the estimate, unless that is more than there is.
LEMMA AvailableBounded ==
  ASSUME NEW m \in MemInfo, m.MemAvailable = Absent, Estimate(m) \in Nat
  PROVE  AvailableBytes(m) <= Estimate(m) /\ AvailableBytes(m) \in Nat
<1>1. Bytes(m.MemTotal) \in Nat
  BY MemoryType, ConstantsAssumption
<1>2. AvailableBytes(m) = Min({Bytes(m.MemTotal), Estimate(m)})
  BY DEF AvailableBytes
<1>3. \E x \in {Bytes(m.MemTotal), Estimate(m)} : \A y \in {Bytes(m.MemTotal), Estimate(m)} : x <= y
  BY <1>1
<1> QED
  BY <1>1, <1>2, <1>3 DEF Min

\* Only ReadMemInfo answers with an estimate.
LEMMA StepNotOptimistic ==
  ASSUME AmountsFit, EstimateNotOptimistic, [Next]_vars
  PROVE  EstimateNotOptimistic'
<1> USE DEF EstimateNotOptimistic
<1>1. CASE ReadMemInfo
  <2>1. /\ meminfo' \in MemInfo
        /\ section' = IF Bytes(meminfo'.MemTotal) = 0 THEN Unavailable ELSE MemorySection(meminfo')
    BY <1>1 DEF ReadMemInfo, Answer
  <2> SUFFICES ASSUME section'.kind = "memory", meminfo'.MemAvailable = Absent
               PROVE  section'.available <= Kilo * Max({0, meminfo'.MemFree + meminfo'.Buffers
                        + meminfo'.Cached + meminfo'.SReclaimable - meminfo'.Shmem})
      OBVIOUS
  <2>2. section'.available = AvailableBytes(meminfo')
    BY <2>1 DEF Unavailable, MemorySection
  <2> DEFINE bound == Kilo * Max({0, meminfo'.MemFree + meminfo'.Buffers
                        + meminfo'.Cached + meminfo'.SReclaimable - meminfo'.Shmem})
  <2>3. Estimate(meminfo') <= bound /\ Estimate(meminfo') \in Nat
    BY <2>1, EstimateBounded
  <2>4. AvailableBytes(meminfo') <= Estimate(meminfo') /\ AvailableBytes(meminfo') \in Nat
    BY <2>1, <2>3, AvailableBounded
  <2>5. bound \in Int
    <3>1. /\ meminfo'.MemFree \in Nat /\ meminfo'.Buffers \in Nat /\ meminfo'.Cached \in Nat
          /\ meminfo'.SReclaimable \in Nat /\ meminfo'.Shmem \in Nat
      BY <2>1, ConstantsAssumption DEF MemInfo
    <3> DEFINE rest == meminfo'.MemFree + meminfo'.Buffers
                         + meminfo'.Cached + meminfo'.SReclaimable - meminfo'.Shmem
    <3>2. rest \in Int
      BY <3>1
    <3> HIDE DEF rest
    <3>3. \E x \in {0, rest} : \A y \in {0, rest} : x >= y
      BY <3>2
    <3>4. Max({0, rest}) \in Int
      BY <3>2, <3>3 DEF Max
    <3> QED
      BY <3>4, ConstantsAssumption DEF rest
  <2> HIDE DEF bound
  <2>6. AvailableBytes(meminfo') <= bound
    BY <2>3, <2>4, <2>5
  <2> QED
    BY <2>2, <2>6 DEF bound
<1>2. CASE ReadStatFails \/ WaitCancelled \/ MeasureNothing
  BY <1>2 DEF ReadStatFails, WaitCancelled, MeasureNothing, Fallback, Answer
<1>3. CASE Measure
  <2>1. section'.kind = "cpu"
    BY <1>3 DEF Measure, Answer
  <2> QED
    BY <2>1
<1>4. CASE ReadMemInfoFails \/ ReadSystem \/ Return
  BY <1>4 DEF ReadMemInfoFails, ReadSystem, Return, Answer, Unavailable, NoSection
<1>5. ASSUME \/ \E c \in Cores, f \in Fields : Account(c, f)
             \/ \E c \in Cores, f \in {"idle", "iowait"} : SetBack(c, f)
             \/ \E c \in Cores : Hotplug(c)
             \/ Cancel \/ ReadStat \/ UNCHANGED vars
      PROVE  EstimateNotOptimistic'
  <2>1. UNCHANGED <<section, meminfo>>
    BY <1>5 DEF Account, SetBack, Hotplug, HostMoves, Cancel, ReadStat, history, vars
  <2> QED
    BY <2>1
<1> HIDE DEF EstimateNotOptimistic
<1> QED
  BY <1>1, <1>2, <1>3, <1>4, <1>5 DEF Next

\* For every number of kilobytes that fits a machine, an estimate calls nothing
\* available but what is free or can be reclaimed without the shared memory.
THEOREM EstimateNotOptimisticHolds ==
  ASSUME AmountsFit
  PROVE  Spec => []EstimateNotOptimistic
<1>1. Init => EstimateNotOptimistic
  BY DEF Init, EstimateNotOptimistic, NoSection
<1>2. EstimateNotOptimistic /\ [Next]_vars => EstimateNotOptimistic'
  BY StepNotOptimistic
<1> QED
  BY <1>1, <1>2, PTL DEF Spec

-------------------------------------------------------------------------------
(* The CPU section. Unless a counter was set back, what the kernel has     *)
(* accounted to a core is where the counter started plus the time that     *)
(* truly passed, and the sum of all cores is the sum of both.              *)

\* A request finds the counters where they start.
AtStart ==
  pc = "idle" => counter = Booted /\ elapsed = [c \in Cores |-> NoTime] /\ setBack = {}

CoreStart == [total |-> Start + Start + Start, idle |-> Start + Start]

\* The first reading is of that start, for every core and for their sum.
FirstReading ==
  pc = "wait" =>
    /\ \A c \in DOMAIN first.core : first.core[c] = CoreStart
    /\ \E boot : /\ IsSum(boot, [c \in Cores |-> Start], Cores)
                 /\ first.cpu.total = boot[Cores] + boot[Cores] + boot[Cores]
                 /\ first.cpu.idle = boot[Cores] + boot[Cores]

\* The time of guests is in the user time, and idle time is idle or waiting.
Accounted ==
  \A c \in Cores \ setBack :
    /\ counter[c]["user"] = Start + elapsed[c].busy
    /\ counter[c]["idle"] + counter[c]["iowait"] = Start + Start + elapsed[c].idle

Counted == AtStart /\ FirstReading /\ Accounted

\* The second reading, once every counter only went forward.
LEMMA TrueSum ==
  ASSUME CountersTyped, ElapsedTyped, Accounted, setBack = {},
         NEW boot, IsSum(boot, [c \in Cores |-> Start], Cores)
  PROVE  /\ boot[Cores] \in Nat /\ AllElapsed.busy \in Nat /\ AllElapsed.idle \in Nat
         /\ Summed["user"] = boot[Cores] + AllElapsed.busy
         /\ Summed["idle"] + Summed["iowait"] = boot[Cores] + boot[Cores] + AllElapsed.idle
<1> DEFINE B  == [c \in Cores |-> Start]
           U  == [c \in Cores |-> counter[c]["user"]]
           I  == [c \in Cores |-> counter[c]["idle"]]
           W  == [c \in Cores |-> counter[c]["iowait"]]
           EB == [c \in Cores |-> elapsed[c].busy]
           EI == [c \in Cores |-> elapsed[c].idle]
           BB == [c \in Cores |-> Start + Start]
           IW == [c \in Cores |-> counter[c]["idle"] + counter[c]["iowait"]]
<1>1. /\ B \in [Cores -> Nat] /\ BB \in [Cores -> Nat]
      /\ U \in [Cores -> Nat] /\ I \in [Cores -> Nat] /\ W \in [Cores -> Nat]
      /\ EB \in [Cores -> Nat] /\ EI \in [Cores -> Nat] /\ IW \in [Cores -> Nat]
  <2>1. \A c \in Cores : /\ counter[c]["user"] \in Nat /\ counter[c]["idle"] \in Nat
                         /\ counter[c]["iowait"] \in Nat
                         /\ elapsed[c].busy \in Nat /\ elapsed[c].idle \in Nat
    BY DEF CountersTyped, ElapsedTyped, Counters, Fields
  <2>2. Start \in Nat /\ Start + Start \in Nat
    BY ConstantsAssumption
  <2> QED
    BY <2>1, <2>2
<1>2. /\ \A c \in Cores : U[c] = B[c] + EB[c]
      /\ \A c \in Cores : IW[c] = I[c] + W[c]
      /\ \A c \in Cores : BB[c] = B[c] + B[c]
      /\ \A c \in Cores : IW[c] = BB[c] + EI[c]
  BY DEF Accounted
<1>3. PICK u : IsSum(u, U, Cores) /\ Summed["user"] = u[Cores]
  BY CounterSum DEF Fields
<1>4. PICK i : IsSum(i, I, Cores) /\ Summed["idle"] = i[Cores]
  BY CounterSum DEF Fields
<1>5. PICK w : IsSum(w, W, Cores) /\ Summed["iowait"] = w[Cores]
  BY CounterSum DEF Fields
<1>6. PICK eb : IsSum(eb, EB, Cores) /\ AllElapsed.busy = eb[Cores]
  BY BusySum
<1>7. PICK ei : IsSum(ei, EI, Cores) /\ AllElapsed.idle = ei[Cores]
  BY IdleSum
<1>8. IsFiniteSet(Cores) /\ IsSum(boot, B, Cores)
  BY ConstantsAssumption
<1> HIDE DEF B, U, I, W, EB, EI, BB, IW
<1>9. PICK bb : IsSum(bb, BB, Cores)
  BY <1>8, SumExists
<1>10. PICK iw : IsSum(iw, IW, Cores)
  BY <1>8, SumExists
<1>11. u[Cores] = boot[Cores] + eb[Cores]
  <2>1. B \in [Cores -> Nat] /\ EB \in [Cores -> Nat] /\ U \in [Cores -> Nat]
    BY <1>1
  <2>2. \A c \in Cores : U[c] = B[c] + EB[c]
    BY <1>2
  <2>3. IsSum(boot, B, Cores) /\ IsSum(eb, EB, Cores) /\ IsSum(u, U, Cores) /\ IsFiniteSet(Cores)
    BY <1>3, <1>6, <1>8
  <2> QED
    BY <2>1, <2>2, <2>3, SumAdds
<1>12. iw[Cores] = i[Cores] + w[Cores]
  <2>1. I \in [Cores -> Nat] /\ W \in [Cores -> Nat] /\ IW \in [Cores -> Nat]
    BY <1>1
  <2>2. \A c \in Cores : IW[c] = I[c] + W[c]
    BY <1>2
  <2>3. IsSum(i, I, Cores) /\ IsSum(w, W, Cores) /\ IsSum(iw, IW, Cores) /\ IsFiniteSet(Cores)
    BY <1>4, <1>5, <1>8, <1>10
  <2> QED
    BY <2>1, <2>2, <2>3, SumAdds
<1>13. bb[Cores] = boot[Cores] + boot[Cores]
  <2>1. B \in [Cores -> Nat] /\ BB \in [Cores -> Nat]
    BY <1>1
  <2>2. \A c \in Cores : BB[c] = B[c] + B[c]
    BY <1>2
  <2>3. IsSum(boot, B, Cores) /\ IsSum(bb, BB, Cores) /\ IsFiniteSet(Cores)
    BY <1>8, <1>9
  <2> QED
    BY <2>1, <2>2, <2>3, SumAdds
<1>14. iw[Cores] = bb[Cores] + ei[Cores]
  <2>1. BB \in [Cores -> Nat] /\ EI \in [Cores -> Nat] /\ IW \in [Cores -> Nat]
    BY <1>1
  <2>2. \A c \in Cores : IW[c] = BB[c] + EI[c]
    BY <1>2
  <2>3. IsSum(bb, BB, Cores) /\ IsSum(ei, EI, Cores) /\ IsSum(iw, IW, Cores) /\ IsFiniteSet(Cores)
    BY <1>7, <1>8, <1>9, <1>10
  <2> QED
    BY <2>1, <2>2, <2>3, SumAdds
<1>15. boot[Cores] \in Nat /\ eb[Cores] \in Nat /\ ei[Cores] \in Nat
  BY <1>1, <1>6, <1>7, <1>8, SumNat
<1> QED
  BY <1>3, <1>4, <1>5, <1>6, <1>7, <1>11, <1>12, <1>13, <1>14, <1>15

\* The first reading.
LEMMA FirstOfAll ==
  ASSUME counter = Booted
  PROVE  \E boot : /\ IsSum(boot, [c \in Cores |-> Start], Cores)
                   /\ \A f \in Fields : Summed[f] = boot[Cores]
<1>1. PICK boot : IsSum(boot, [c \in Cores |-> Start], Cores)
  BY SumExists, ConstantsAssumption
<1>2. ASSUME NEW f \in Fields
      PROVE  Summed[f] = boot[Cores]
  <2>1. PICK sum : IsSum(sum, [c \in Cores |-> counter[c][f]], Cores) /\ Summed[f] = sum[Cores]
    BY CounterSum
  <2>2. [c \in Cores |-> counter[c][f]] = [c \in Cores |-> Start]
    BY DEF Booted
  <2>3. IsSum(sum, [c \in Cores |-> Start], Cores)
    BY <2>1, <2>2
  <2> DEFINE B == [c \in Cores |-> Start]
  <2>4. IsFiniteSet(Cores) /\ IsSum(sum, B, Cores) /\ IsSum(boot, B, Cores)
    BY <1>1, <2>3, ConstantsAssumption
  <2> HIDE DEF B
  <2>5. Cores \in SUBSET Cores /\ Cores \in SUBSET (Cores \cap Cores)
    OBVIOUS
  <2>6. sum[Cores] = boot[Cores]
    BY <2>4, <2>5, SumsAgree
  <2> QED
    BY <2>1, <2>6
<1> QED
  BY <1>1, <1>2

\* What a core tells at the second reading, and the first line.
LEMMA ProcStatType ==
  ASSUME TypeOK
  PROVE  /\ ProcStat.cpu = Stat(Summed) /\ Summed \in Counters /\ ProcStat.cpu \in StatOf
         /\ DOMAIN ProcStat.core = online
         /\ \A c \in online : ProcStat.core[c] = Stat(counter[c]) /\ ProcStat.core[c] \in StatOf
<1>1. CountersTyped /\ online \subseteq Cores
  BY DEF TypeOK, CountersTyped
<1>2. Summed \in Counters /\ Stat(Summed) \in StatOf
  BY <1>1, SummedType, StatType
<1>3. \A c \in online : Stat(counter[c]) \in StatOf
  BY <1>1, StatType DEF CountersTyped
<1> QED
  BY <1>2, <1>3 DEF ProcStat

\* A core that both readings have, and of which no counter was set back, shows
\* the time that truly passed.
LEMMA TrueCore ==
  ASSUME TypeOK, FirstReading, Accounted, pc = "wait", NEW c \in Shared, c \notin setBack
  PROVE  /\ Utilization(first.core[c], ProcStat.core[c]) = TrueShare(elapsed[c])
         /\ elapsed[c] # NoTime => Advanced(first.core[c], ProcStat.core[c])
<1>1. c \in Cores /\ c \in online /\ c \in DOMAIN first.core
  BY DEF Shared, TypeOK
<1>2. first.core[c] = CoreStart
  BY <1>1 DEF FirstReading
<1>3. counter[c] \in Counters /\ elapsed[c] \in [busy: Nat, idle: Nat]
  BY <1>1 DEF TypeOK
<1>4. /\ ProcStat.core[c].total = counter[c]["user"] + counter[c]["idle"] + counter[c]["iowait"]
      /\ ProcStat.core[c].idle = counter[c]["idle"] + counter[c]["iowait"]
  BY <1>1, <1>3, ProcStatType, StatType
<1>5. /\ counter[c]["user"] \in Nat /\ counter[c]["idle"] \in Nat /\ counter[c]["iowait"] \in Nat
      /\ elapsed[c].busy \in Nat /\ elapsed[c].idle \in Nat /\ Start \in Nat
  BY <1>3, ConstantsAssumption DEF Counters, Fields
<1>6. /\ counter[c]["user"] = Start + elapsed[c].busy
      /\ counter[c]["idle"] + counter[c]["iowait"] = Start + Start + elapsed[c].idle
  BY <1>1 DEF Accounted
<1>7. first.core[c].total = Start + Start + Start /\ first.core[c].idle = Start + Start
  BY <1>2 DEF CoreStart
<1> DEFINE a == first.core[c]
           b == ProcStat.core[c]
<1>8. /\ b.total - a.total = elapsed[c].busy + elapsed[c].idle
      /\ b.idle - a.idle = elapsed[c].idle
      /\ (b.total - a.total) - (b.idle - a.idle) = elapsed[c].busy
  BY <1>4, <1>5, <1>6, <1>7
<1>9. a.total \in Nat /\ a.idle \in Nat /\ b.total \in Nat /\ b.idle \in Nat
  BY <1>4, <1>5, <1>7
<1>10. elapsed[c] # NoTime => elapsed[c].busy + elapsed[c].idle # 0
  <2>1. elapsed[c] = [busy |-> elapsed[c].busy, idle |-> elapsed[c].idle]
    BY <1>3
  <2> QED
    BY <1>5, <2>1 DEF NoTime
<1> HIDE DEF a, b
<1>11. Utilization(a, b) = TrueShare(elapsed[c])
  BY <1>8 DEF Utilization, TrueShare
<1>12. elapsed[c] # NoTime => Advanced(a, b)
  BY <1>5, <1>8, <1>9, <1>10 DEF Advanced
<1> QED
  BY <1>11, <1>12 DEF a, b

\* What truly passed on all cores depends on what passed on each, and on no more.
BusyOf(e) == MapThenSumSet(LAMBDA c : e[c].busy, Cores)
IdleOf(e) == MapThenSumSet(LAMBDA c : e[c].idle, Cores)

LEMMA AllElapsedStays ==
  ASSUME elapsed' = elapsed
  PROVE  AllElapsed' = AllElapsed
<1>1. AllElapsed = [busy |-> BusyOf(elapsed), idle |-> IdleOf(elapsed)]
  BY Zenon DEF AllElapsed, BusyOf, IdleOf
<1>2. AllElapsed' = [busy |-> BusyOf(elapsed'), idle |-> IdleOf(elapsed')]
  BY DEF AllElapsed, BusyOf, IdleOf, MapThenSumSet, MapThenFoldSet
<1> QED
  BY <1>1, <1>2

\* collectCPU, when the counters advanced: the section has its type, every share
\* in it is proper, and what was not set back shows the time that truly passed.
LEMMA MeasureAnswers ==
  ASSUME TypeOK, FirstReading, Accounted, Measure
  PROVE  section' \in CPUSections /\ UtilizationProper' /\ UtilizationTrue' /\ PerCoreInPlace'
<1> DEFINE second == ProcStat
           cores == {c \in DOMAIN first.core \cap DOMAIN second.core :
                       Advanced(first.core[c], second.core[c])}
           names == InOrder(cores)
           whole == Utilization(first.cpu, second.cpu)
           parts == [i \in DOMAIN names |-> Utilization(first.core[names[i]], second.core[names[i]])]
<1>1. /\ pc = "wait" /\ pc' = "answered" /\ Advanced(first.cpu, second.cpu)
      /\ section' = [kind |-> "cpu", measured |-> TRUE, utilization |-> whole, perCore |-> parts]
      /\ UNCHANGED <<counter, online, steps, ctx, first, elapsed, setBack, meminfo>>
  BY DEF Measure, Answer, host, history
<1>2. /\ second.cpu \in StatOf /\ DOMAIN second.core = online
      /\ \A c \in online : second.core[c] \in StatOf
      /\ first.cpu \in StatOf
      /\ \A c \in DOMAIN first.core : first.core[c] \in StatOf
      /\ online \subseteq Cores
  BY ProcStatType DEF TypeOK
<1>3. second.cpu.total = Summed["user"] + Summed["idle"] + Summed["iowait"]
      /\ second.cpu.idle = Summed["idle"] + Summed["iowait"]
      /\ Summed["user"] \in Nat /\ Summed["idle"] \in Nat /\ Summed["iowait"] \in Nat
  <2>1. second.cpu = Stat(Summed) /\ Summed \in Counters
    BY ProcStatType
  <2> QED
    BY <2>1, StatType DEF Counters, Fields
<1>4. cores \subseteq Shared /\ cores \in SUBSET Cores
  BY <1>2 DEF Shared
<1>5. \A c \in Shared : c \notin setBack =>
        /\ Utilization(first.core[c], second.core[c]) = TrueShare(elapsed[c])
        /\ elapsed[c] # NoTime => Advanced(first.core[c], second.core[c])
  BY <1>1, TrueCore
<1>6. \A c \in cores : /\ Advanced(first.core[c], second.core[c])
                       /\ first.core[c] \in StatOf /\ second.core[c] \in StatOf
  BY <1>2
<1>7. \A c \in Shared : c \in cores <=> Advanced(first.core[c], second.core[c])
  BY <1>2 DEF Shared
<1> HIDE DEF second, cores
<1>8. IsFiniteSet(cores) /\ Lists(names, cores) /\ DOMAIN names = 1..Cardinality(cores)
      /\ Cardinality(cores) \in Nat
  BY <1>4, InOrderLists, FS_CardinalityType
<1>9. \A i \in DOMAIN names : names[i] \in cores
  <2> HIDE DEF names
  <2> QED
    BY <1>8 DEF Lists
<1>10. whole \in Share /\ Proper(whole)
  BY <1>1, <1>2, UtilizationIsProper
<1>11. \A i \in DOMAIN names : parts[i] \in Share /\ Proper(parts[i])
  BY <1>6, <1>9, UtilizationIsProper
<1>12. DOMAIN parts = 1..Cardinality(cores) /\ parts = [i \in 1..Cardinality(cores) |-> parts[i]]
  BY <1>8
<1>13. \A c \in cores : /\ Rank(cores, c) \in DOMAIN names
                        /\ parts[Rank(cores, c)] = Utilization(first.core[c], second.core[c])
  <2> TAKE c \in cores
  <2>1. cores \in SUBSET Nat
    BY <1>4, ConstantsAssumption
  <2>2. Rank(cores, c) \in DOMAIN names /\ names[Rank(cores, c)] = c
    BY <1>8, <2>1, RankType, ListInPlace
  <2> QED
    BY <2>2
<1> HIDE DEF names, parts, whole
<1>14. parts \in Seq(Share) /\ Len(parts) = Cardinality(cores)
  <2>1. parts \in [1..Cardinality(cores) -> Share]
    BY <1>8, <1>11, <1>12
  <2>2. parts \in Seq(Share)
    BY <1>8, <2>1, SeqDef
  <2>3. Len(parts) \in Nat /\ DOMAIN parts = 1..Len(parts)
    BY <2>2, LenProperties
  <2> QED
    BY <1>8, <1>12, <2>2, <2>3
<1>15. section' \in CPUSections
  BY <1>1, <1>10, <1>14 DEF CPUSections
<1>16. section'.utilization = whole /\ section'.perCore = parts
  BY <1>1
<1>17. UtilizationProper'
  BY <1>8, <1>10, <1>11, <1>12, <1>16 DEF UtilizationProper
<1>18. UtilizationTrue'
  <2> SUFFICES ASSUME setBack = {}
               PROVE  whole = TrueShare(AllElapsed')
    BY <1>1, <1>16 DEF UtilizationTrue
  <2>1. AllElapsed' = AllElapsed
    BY <1>1, AllElapsedStays
  <2>2. PICK boot : /\ IsSum(boot, [c \in Cores |-> Start], Cores)
                    /\ first.cpu.total = boot[Cores] + boot[Cores] + boot[Cores]
                    /\ first.cpu.idle = boot[Cores] + boot[Cores]
    BY <1>1 DEF FirstReading
  <2>3. /\ boot[Cores] \in Nat /\ AllElapsed.busy \in Nat /\ AllElapsed.idle \in Nat
        /\ Summed["user"] = boot[Cores] + AllElapsed.busy
        /\ Summed["idle"] + Summed["iowait"] = boot[Cores] + boot[Cores] + AllElapsed.idle
    BY <2>2, TrueSum DEF TypeOK, CountersTyped, ElapsedTyped
  <2> DEFINE n == boot[Cores]
  <2> HIDE DEF n
  <2>4. /\ second.cpu.total - first.cpu.total = AllElapsed.busy + AllElapsed.idle
        /\ (second.cpu.total - first.cpu.total) - (second.cpu.idle - first.cpu.idle) = AllElapsed.busy
    BY <1>3, <2>2, <2>3
  <2> QED
    BY <2>1, <2>4 DEF whole, Utilization, TrueShare
<1>19. PerCoreInPlace'
  <2>1. Shared' = Shared
    BY <1>1 DEF Shared
  <2> SUFFICES ASSUME \A c \in Shared : c \notin setBack /\ elapsed[c] # NoTime
               PROVE  /\ Len(parts) = Cardinality(Shared)
                      /\ \A c \in Shared : parts[Rank(Shared, c)] = TrueShare(elapsed[c])
    BY <1>1, <1>16, <2>1 DEF PerCoreInPlace, Rank, UpTo
  <2>2. cores = Shared
    BY <1>4, <1>5, <1>7
  <2> QED
    BY <1>5, <1>13, <1>14, <2>2
<1> QED
  BY <1>15, <1>17, <1>18, <1>19

-------------------------------------------------------------------------------
Inv == TypeOK /\ Counted /\ UtilizationProper /\ UtilizationTrue /\ PerCoreInPlace

\* At the start nothing is counted, read or answered.
LEMMA InitInv == Init => Inv
<1> SUFFICES ASSUME Init PROVE Inv
    OBVIOUS
<1> USE DEF Init
<1>1. Booted \in [Cores -> Counters] /\ \A c \in Cores : /\ Booted[c]["user"] = Start
                                                         /\ Booted[c]["idle"] = Start
                                                         /\ Booted[c]["iowait"] = Start
  BY ConstantsAssumption DEF Booted, Counters, Fields
<1>2. 0 \in 0..MaxSteps
  BY ConstantsAssumption
<1>3. NoStat.cpu \in StatOf /\ DOMAIN NoStat.core = {}
  BY DEF NoStat, StatOf
<1>4. [c \in Cores |-> NoTime] \in [Cores -> [busy: Nat, idle: Nat]]
  BY DEF NoTime
<1>5. TypeOK
  BY <1>1, <1>2, <1>3, <1>4 DEF TypeOK
<1>6. Counted
  BY <1>1, ConstantsAssumption DEF Counted, AtStart, FirstReading, Accounted, NoTime
<1> QED
  BY <1>5, <1>6 DEF Inv, UtilizationProper, UtilizationTrue, PerCoreInPlace, Measured

\* A tick is accounted as the time that truly passes.
LEMMA AccountCounts ==
  ASSUME TypeOK, Accounted, NEW c \in Cores, NEW f \in Fields, Account(c, f)
  PROVE  /\ counter' \in [Cores -> Counters] /\ elapsed' \in [Cores -> [busy: Nat, idle: Nat]]
         /\ Accounted'
<1>1. counter[c] \in Counters /\ elapsed[c] \in [busy: Nat, idle: Nat]
  BY DEF TypeOK
<1> DEFINE n == [g \in Fields |-> counter[c][g] + (IF g \in Charged(f) THEN 1 ELSE 0)]
           e == Passed(f, elapsed[c])
<1>2. /\ counter' = [counter EXCEPT ![c] = n] /\ elapsed' = [elapsed EXCEPT ![c] = e]
      /\ UNCHANGED setBack
  <2>1. counter' = [counter EXCEPT ![c] = n]
    BY Zenon DEF Account
  <2>2. elapsed' = [elapsed EXCEPT ![c] = e]
    BY Zenon DEF Account
  <2> QED
    BY <2>1, <2>2 DEF Account
<1>3. /\ n \in Counters
      /\ n["user"] = counter[c]["user"] + (IF "user" \in Charged(f) THEN 1 ELSE 0)
      /\ n["idle"] = counter[c]["idle"] + (IF "idle" \in Charged(f) THEN 1 ELSE 0)
      /\ n["iowait"] = counter[c]["iowait"] + (IF "iowait" \in Charged(f) THEN 1 ELSE 0)
  BY <1>1 DEF Counters, Fields
<1>4. /\ e \in [busy: Nat, idle: Nat]
      /\ f \in {"idle", "iowait"} => e.busy = elapsed[c].busy /\ e.idle = elapsed[c].idle + 1
      /\ f \notin {"idle", "iowait"} => e.busy = elapsed[c].busy + 1 /\ e.idle = elapsed[c].idle
  BY <1>1 DEF Passed
<1>5. /\ counter[c]["user"] \in Nat /\ counter[c]["idle"] \in Nat /\ counter[c]["iowait"] \in Nat
      /\ elapsed[c].busy \in Nat /\ elapsed[c].idle \in Nat /\ Start \in Nat
  BY <1>1, ConstantsAssumption DEF Counters, Fields
<1> HIDE DEF n, e
<1>6. counter' \in [Cores -> Counters] /\ elapsed' \in [Cores -> [busy: Nat, idle: Nat]]
  BY <1>2, <1>3, <1>4 DEF TypeOK
<1>7. counter'[c] = n /\ elapsed'[c] = e
  BY <1>2 DEF TypeOK
<1>8. \A d \in Cores \ {c} : counter'[d] = counter[d] /\ elapsed'[d] = elapsed[d]
  BY <1>2 DEF TypeOK
<1>9. \/ f = "user" /\ Charged(f) = {"user"}
      \/ f = "idle" /\ Charged(f) = {"idle"}
      \/ f = "iowait" /\ Charged(f) = {"iowait"}
      \/ f = "guest" /\ Charged(f) = {"user", "guest"}
  BY DEF Fields, Charged
<1>10. ASSUME /\ counter[c]["user"] = Start + elapsed[c].busy
              /\ counter[c]["idle"] + counter[c]["iowait"] = Start + Start + elapsed[c].idle
       PROVE  /\ n["user"] = Start + e.busy
              /\ n["idle"] + n["iowait"] = Start + Start + e.idle
  <2>1. CASE f = "user"
    BY <1>3, <1>4, <1>5, <1>9, <1>10, <2>1
  <2>2. CASE f = "idle"
    BY <1>3, <1>4, <1>5, <1>9, <1>10, <2>2
  <2>3. CASE f = "iowait"
    BY <1>3, <1>4, <1>5, <1>9, <1>10, <2>3
  <2>4. CASE f = "guest"
    BY <1>3, <1>4, <1>5, <1>9, <1>10, <2>4
  <2> QED
    BY <1>9, <2>1, <2>2, <2>3, <2>4
<1>11. Accounted'
  BY <1>2, <1>7, <1>8, <1>10 DEF Accounted
<1> QED
  BY <1>6, <1>11

\* A core of which a counter is set back is no longer held to it.
LEMMA SetBackCounts ==
  ASSUME TypeOK, Accounted, NEW c \in Cores, NEW f \in {"idle", "iowait"}, SetBack(c, f)
  PROVE  counter' \in [Cores -> Counters] /\ Accounted'
<1>1. counter[c] \in Counters /\ f \in Fields /\ counter[c][f] \in Nat /\ counter[c][f] > 0
  BY DEF TypeOK, SetBack, Fields, Counters
<1>2. /\ counter' = [counter EXCEPT ![c] = [counter[c] EXCEPT ![f] = counter[c][f] - 1]]
      /\ setBack' = setBack \cup {c} /\ UNCHANGED elapsed
  BY DEF SetBack
<1>3. [counter[c] EXCEPT ![f] = counter[c][f] - 1] \in Counters
  BY <1>1 DEF Counters
<1>4. counter' \in [Cores -> Counters]
  BY <1>2, <1>3 DEF TypeOK
<1>5. \A d \in Cores \ {c} : counter'[d] = counter[d]
  BY <1>2 DEF TypeOK
<1> QED
  BY <1>2, <1>4, <1>5 DEF Accounted

\* The first reading of a request finds every core where it starts.
LEMMA ReadStatReads ==
  ASSUME TypeOK, AtStart, ReadStat
  PROVE  FirstReading' /\ first'.cpu \in StatOf /\ DOMAIN first'.core = online
         /\ \A c \in online : first'.core[c] \in StatOf
<1>1. first' = ProcStat /\ counter = Booted /\ pc = "idle"
  BY DEF ReadStat, AtStart
<1>2. /\ ProcStat.cpu = Stat(Summed) /\ Summed \in Counters /\ ProcStat.cpu \in StatOf
      /\ DOMAIN ProcStat.core = online /\ online \subseteq Cores
      /\ \A c \in online : ProcStat.core[c] = Stat(counter[c]) /\ ProcStat.core[c] \in StatOf
  BY ProcStatType DEF TypeOK
<1>3. \A c \in online : Stat(counter[c]) = CoreStart
  BY <1>1, <1>2 DEF Booted, Stat, CoreStart, Fields
<1>4. PICK boot : /\ IsSum(boot, [c \in Cores |-> Start], Cores)
                  /\ \A f \in Fields : Summed[f] = boot[Cores]
  BY <1>1, FirstOfAll
<1>5. /\ Stat(Summed).total = boot[Cores] + boot[Cores] + boot[Cores]
      /\ Stat(Summed).idle = boot[Cores] + boot[Cores]
  BY <1>4 DEF Stat, Fields
<1> HIDE DEF ProcStat
<1>6. FirstReading'
  BY <1>1, <1>2, <1>3, <1>4, <1>5 DEF FirstReading
<1> QED
  BY <1>1, <1>2, <1>6

\* Every step keeps the invariant, of the kernel as of the request.
LEMMA StepInv == Inv /\ [Next]_vars => Inv'
<1> SUFFICES ASSUME Inv, [Next]_vars
             PROVE  Inv'
    OBVIOUS
<1>0. TypeOK /\ AtStart /\ FirstReading /\ Accounted
  BY DEF Inv, Counted
<1>t. /\ counter \in [Cores -> Counters] /\ online \subseteq Cores /\ steps \in 0..MaxSteps
      /\ pc \in {"idle", "wait", "answered"} /\ ctx \in {"live", "done"}
      /\ first.cpu \in StatOf
      /\ DOMAIN first.core \subseteq Cores /\ \A c \in DOMAIN first.core : first.core[c] \in StatOf
      /\ elapsed \in [Cores -> [busy: Nat, idle: Nat]] /\ setBack \subseteq Cores
  BY <1>0 DEF TypeOK
<1> DEFINE Section(s) == \/ s \in {NoSection, Unavailable}
                         \/ s \in CPUSections \/ s \in MemorySections \/ s \in SystemSections
<1>s. Section(section)
  BY <1>0 DEF TypeOK
<1>a. ASSUME pc' # "answered"
      PROVE  UtilizationProper' /\ UtilizationTrue' /\ PerCoreInPlace'
  BY <1>a DEF UtilizationProper, UtilizationTrue, PerCoreInPlace, Measured
<1>b. ASSUME HostMoves
      PROVE  /\ steps' \in 0..MaxSteps /\ pc = "wait" /\ pc' = "wait" /\ AtStart' /\ FirstReading'
             /\ UNCHANGED <<ctx, first, section, meminfo>>
  <2>1. pc = "wait" /\ steps < MaxSteps /\ steps' = steps + 1 /\ UNCHANGED <<pc, ctx, first, section, meminfo>>
    BY <1>b DEF HostMoves
  <2>2. steps' \in 0..MaxSteps
    BY <1>t, <2>1, ConstantsAssumption
  <2>3. AtStart'
    BY <2>1 DEF AtStart
  <2>4. FirstReading'
    BY <1>0, <2>1 DEF FirstReading
  <2> QED
    BY <2>1, <2>2, <2>3, <2>4
<1>1. ASSUME NEW c \in Cores, NEW f \in Fields, Account(c, f)
      PROVE  Inv'
  <2>1. HostMoves /\ UNCHANGED <<online, setBack>>
    BY <1>1 DEF Account
  <2>2. counter' \in [Cores -> Counters] /\ elapsed' \in [Cores -> [busy: Nat, idle: Nat]] /\ Accounted'
    BY <1>0, <1>1, AccountCounts
  <2>3. TypeOK'
    BY <1>t, <1>s, <1>b, <2>1, <2>2 DEF TypeOK
  <2> QED
    BY <1>a, <1>b, <2>1, <2>2, <2>3 DEF Inv, Counted
<1>2. ASSUME NEW c \in Cores, NEW f \in {"idle", "iowait"}, SetBack(c, f)
      PROVE  Inv'
  <2>1. HostMoves /\ UNCHANGED <<online, elapsed>> /\ setBack' \subseteq Cores
    BY <1>t, <1>2 DEF SetBack
  <2>2. counter' \in [Cores -> Counters] /\ Accounted'
    BY <1>0, <1>2, SetBackCounts
  <2>3. TypeOK'
    BY <1>t, <1>s, <1>b, <2>1, <2>2 DEF TypeOK
  <2> QED
    BY <1>a, <1>b, <2>1, <2>2, <2>3 DEF Inv, Counted
<1>3. ASSUME NEW c \in Cores, Hotplug(c)
      PROVE  Inv'
  <2>1. HostMoves /\ UNCHANGED <<counter, elapsed, setBack>> /\ online' \subseteq Cores
    BY <1>t, <1>3 DEF Hotplug
  <2>2. Accounted'
    BY <1>0, <2>1 DEF Accounted
  <2>3. TypeOK'
    BY <1>t, <1>s, <1>b, <2>1 DEF TypeOK
  <2> QED
    BY <1>a, <1>b, <2>1, <2>2, <2>3 DEF Inv, Counted
<1>4. CASE Cancel
  <2>1. /\ pc = "wait" /\ pc' = "wait" /\ ctx' = "done"
        /\ UNCHANGED <<counter, online, steps, first, section, elapsed, setBack, meminfo>>
    BY <1>4 DEF Cancel, host, history
  <2>2. TypeOK'
    BY <1>t, <1>s, <2>1 DEF TypeOK
  <2>3. Counted'
    BY <1>0, <2>1 DEF Counted, AtStart, FirstReading, Accounted
  <2> QED
    BY <1>a, <2>1, <2>2, <2>3 DEF Inv
<1>5. CASE ReadStat
  <2>1. pc' = "wait" /\ UNCHANGED <<counter, online, steps, ctx, section, elapsed, setBack, meminfo>>
    BY <1>5 DEF ReadStat, host, history
  <2>2. /\ FirstReading' /\ first'.cpu \in StatOf /\ DOMAIN first'.core = online
        /\ \A c \in online : first'.core[c] \in StatOf
    BY <1>0, <1>5, ReadStatReads
  <2>3. TypeOK'
    BY <1>t, <1>s, <2>1, <2>2 DEF TypeOK
  <2>4. Counted'
    BY <1>0, <2>1, <2>2 DEF Counted, AtStart, Accounted
  <2> QED
    BY <1>a, <2>1, <2>3, <2>4 DEF Inv
<1>6. ASSUME pc' = "answered", UNCHANGED <<counter, online, steps, ctx, first, elapsed, setBack>>,
             Section(section'), ~Measured'
      PROVE  Inv'
  <2>1. TypeOK'
    BY <1>t, <1>6 DEF TypeOK
  <2>2. Counted'
    BY <1>0, <1>6 DEF Counted, AtStart, FirstReading, Accounted
  <2> QED
    BY <1>6, <2>1, <2>2 DEF Inv, UtilizationProper, UtilizationTrue, PerCoreInPlace
<1>7. CASE ReadStatFails \/ WaitCancelled \/ MeasureNothing
  <2>1. /\ pc' = "answered" /\ section' = [kind |-> "cpu", measured |-> FALSE]
        /\ UNCHANGED <<counter, online, steps, ctx, first, elapsed, setBack>>
    BY <1>7 DEF ReadStatFails, WaitCancelled, MeasureNothing, Fallback, Answer, host, history
  <2>2. section' \in CPUSections /\ ~Measured'
    BY <2>1 DEF CPUSections, Measured
  <2> QED
    BY <1>6, <2>1, <2>2
<1>8. CASE Measure
  <2>1. pc' = "answered" /\ UNCHANGED <<counter, online, steps, ctx, first, elapsed, setBack>>
    BY <1>8 DEF Measure, Answer, host, history
  <2>2. section' \in CPUSections /\ UtilizationProper' /\ UtilizationTrue' /\ PerCoreInPlace'
    BY <1>0, <1>8, MeasureAnswers
  <2>3. TypeOK'
    BY <1>t, <2>1, <2>2 DEF TypeOK
  <2>4. Counted'
    BY <1>0, <2>1 DEF Counted, AtStart, FirstReading, Accounted
  <2> QED
    BY <2>2, <2>3, <2>4 DEF Inv
<1>9. CASE ReadMemInfo
  <2>1. /\ pc' = "answered" /\ meminfo' \in MemInfo
        /\ section' = IF Bytes(meminfo'.MemTotal) = 0 THEN Unavailable ELSE MemorySection(meminfo')
        /\ UNCHANGED <<counter, online, steps, ctx, first, elapsed, setBack>>
    BY <1>9 DEF ReadMemInfo, Answer, host
  <2>2. section' \in {Unavailable} \cup MemorySections
    BY <2>1, MemorySectionType
  <2>3. section'.kind # "cpu"
    BY <2>2 DEF Unavailable, MemorySections
  <2> QED
    BY <1>6, <2>1, <2>2, <2>3 DEF Measured
<1>10. CASE ReadMemInfoFails \/ ReadSystem
  <2>1. /\ pc' = "answered" /\ section' \in {Unavailable} \cup SystemSections
        /\ UNCHANGED <<counter, online, steps, ctx, first, elapsed, setBack>>
    <3>1. CASE ReadMemInfoFails
      BY <3>1 DEF ReadMemInfoFails, Answer, host, history
    <3>2. CASE ReadSystem
      <4>1. PICK uptime \in BOOLEAN, load \in BOOLEAN :
              section' = IF uptime \/ load THEN [kind |-> "system", uptime |-> uptime, load |-> load]
                         ELSE Unavailable
        BY <3>2 DEF ReadSystem, Answer
      <4>2. [kind |-> "system", uptime |-> uptime, load |-> load] \in SystemSections
        BY DEF SystemSections
      <4> QED
        BY <3>2, <4>1, <4>2 DEF ReadSystem, Answer, host, history
    <3> QED
      BY <1>10, <3>1, <3>2
  <2>2. section'.kind # "cpu"
    BY <2>1 DEF Unavailable, SystemSections
  <2> QED
    BY <1>6, <2>1, <2>2 DEF Measured
<1>11. CASE Return
  <2>1. /\ counter' = Booted /\ steps' = 0 /\ pc' = "idle" /\ ctx' = "live"
        /\ first' = NoStat /\ section' = NoSection
        /\ elapsed' = [c \in Cores |-> NoTime] /\ setBack' = {} /\ UNCHANGED online
    BY <1>11 DEF Return
  <2>2. Booted \in [Cores -> Counters] /\ \A c \in Cores : /\ Booted[c]["user"] = Start
                                                           /\ Booted[c]["idle"] = Start
                                                           /\ Booted[c]["iowait"] = Start
    BY ConstantsAssumption DEF Booted, Counters, Fields
  <2>3. /\ 0 \in 0..MaxSteps /\ NoStat.cpu \in StatOf /\ DOMAIN NoStat.core = {}
        /\ [c \in Cores |-> NoTime] \in [Cores -> [busy: Nat, idle: Nat]]
    BY ConstantsAssumption DEF NoStat, StatOf, NoTime
  <2>4. TypeOK'
    BY <1>t, <2>1, <2>2, <2>3 DEF TypeOK
  <2>5. Counted'
    BY <2>1, <2>2, ConstantsAssumption DEF Counted, AtStart, FirstReading, Accounted, NoTime
  <2> QED
    BY <1>a, <2>1, <2>4, <2>5 DEF Inv
<1>12. CASE UNCHANGED vars
  <2>1. UNCHANGED <<counter, online, steps, pc, ctx, first, section, elapsed, setBack, meminfo>>
    BY <1>12 DEF vars, host, history
  <2>2. TypeOK'
    BY <1>t, <1>s, <2>1 DEF TypeOK
  <2>3. Counted'
    BY <1>0, <2>1 DEF Counted, AtStart, FirstReading, Accounted
  <2>4. AllElapsed' = AllElapsed
    BY <2>1, AllElapsedStays
  <2>5. UtilizationProper' /\ UtilizationTrue' /\ PerCoreInPlace'
    BY <2>1, <2>4 DEF Inv, UtilizationProper, UtilizationTrue, PerCoreInPlace, Measured, Shared
  <2> QED
    BY <2>2, <2>3, <2>5 DEF Inv
<1> QED
  BY <1>1, <1>2, <1>3, <1>4, <1>5, <1>7, <1>8, <1>9, <1>10, <1>11, <1>12 DEF Next

\* The inductive invariant of a request for the CPU, memory and system sections.
THEOREM Invariance == Spec => []Inv
BY InitInv, StepInv, PTL DEF Spec

\* The counters, the reading and every section keep their types: what is answered
\* as bytes is a word, and a list of shares is a sequence.
THEOREM TypeCorrect == Spec => []TypeOK
<1>1. Inv => TypeOK
  BY DEF Inv
<1> QED
  BY <1>1, Invariance, PTL

\* For every set of cores, and whatever the kernel sets back, a utilization that
\* is answered is a share of some time.
THEOREM UtilizationProperHolds == Spec => []UtilizationProper
<1>1. Inv => UtilizationProper
  BY DEF Inv
<1> QED
  BY <1>1, Invariance, PTL

\* For every set of cores, of which any may come and go, a utilization tells the
\* time that truly passed unless a counter was set back.
THEOREM UtilizationTrueHolds == Spec => []UtilizationTrue
<1>1. Inv => UtilizationTrue
  BY DEF Inv
<1> QED
  BY <1>1, Invariance, PTL

\* For every set of cores, the list has each of those that both readings have in
\* its place.
THEOREM PerCoreInPlaceHolds == Spec => []PerCoreInPlace
<1>1. Inv => PerCoreInPlace
  BY DEF Inv
<1> QED
  BY <1>1, Invariance, PTL
===============================================================================
