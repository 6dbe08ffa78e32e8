------------------------------- MODULE LinuxProc -------------------------------
(***************************************************************************)
(* The sections that Linux answers from files of the kernel                *)
(* (internal/collector): the CPU section from two readings of /proc/stat a *)
(* tenth of a second apart, the memory section from /proc/meminfo, the     *)
(* system section from /proc/uptime and /proc/loadavg.                     *)
(*                                                                         *)
(* Between the two readings of /proc/stat the host goes on: time is        *)
(* accounted to its cores, cores come and go, the kernel sets a counter    *)
(* back, the client leaves. Requests share nothing, so one is modelled at  *)
(* a time, and the host only while it matters to one: what happens between *)
(* requests moves the counters that the next one starts from, and only     *)
(* their differences are ever used.                                        *)
(***************************************************************************)
EXTENDS Integers, Sequences, FiniteSetsExt, SequencesExt

CONSTANTS
  Cores,     \* the possible cores, by number
  Start,     \* where the counters of a core stand at the first reading
  MaxSteps,  \* bound on the steps of the host between the two readings
  Amounts,   \* the kilobytes that a line of /proc/meminfo may tell
  Kilo,      \* 1024
  Word       \* 2^64

Absent == -1   \* an older kernel has no line MemAvailable

ASSUME ConstantsAssumption ==
  /\ IsFiniteSet(Cores) /\ Cores # {} /\ Cores \subseteq Nat
  /\ Start \in Nat /\ MaxSteps \in Nat
  /\ Amounts \subseteq Nat
  /\ Kilo \in Nat \ {0} /\ Word \in Nat \ {0}

VARIABLES
  counter,   \* what the kernel has accounted to each core
  online,    \* the cores that have a line of their own in /proc/stat
  steps,     \* how often the host moved since the first reading
  pc,        \* where the request is
  ctx,       \* its context
  first,     \* the first reading of /proc/stat, parsed
  section,   \* the section it answers with
  elapsed,   \* history: the time truly spent since the first reading, by core
  setBack,   \* history: the cores of which a counter was set back since then
  meminfo    \* history: what /proc/meminfo told

host    == <<counter, online, steps>>
history == <<elapsed, setBack, meminfo>>
vars    == <<host, pc, ctx, first, section, history>>

\* Of the ten counters of a core, user stands for those that are busy time. Time
\* given to a guest is accounted to user and to guest.
Fields   == {"user", "idle", "iowait", "guest"}
Counters == [Fields -> Nat]
MemInfo  == [MemTotal: Amounts, MemFree: Amounts, Buffers: Amounts, Cached: Amounts,
             SReclaimable: Amounts, Shmem: Amounts, MemAvailable: Amounts \cup {Absent}]

NoStat    == [cpu |-> [total |-> 0, idle |-> 0], core |-> <<>>]
NoMemInfo == [MemTotal |-> 0]
NoTime    == [busy |-> 0, idle |-> 0]

-------------------------------------------------------------------------------
(* linuxCPUStatsFromProcStat, linuxCPUUtilization, linuxCPUCoreNames.      *)

\* Slip: the time of guests is counted twice.
StatWithGuests(n) ==
  [total |-> n["user"] + n["guest"] + n["idle"] + n["iowait"],
   idle  |-> n["idle"] + n["iowait"]]

Stat(n) == [total |-> n["user"] + n["idle"] + n["iowait"], idle |-> n["idle"] + n["iowait"]]

\* The first line sums up every possible core, online or not.
Summed == [f \in Fields |-> MapThenSumSet(LAMBDA c : counter[c][f], Cores)]

ProcStat == [cpu |-> Stat(Summed), core |-> [c \in online |-> Stat(counter[c])]]

\* Slip: the idle time is not looked at.
AdvancedInTotal(a, b) == b.total > a.total

Advanced(a, b) ==
  /\ b.total >= a.total /\ b.idle >= a.idle
  /\ b.total # a.total
  /\ b.idle - a.idle <= b.total - a.total

\* A utilization, as the two numbers that are divided.
Utilization(a, b) ==
  [busy |-> (b.total - a.total) - (b.idle - a.idle), total |-> b.total - a.total]

Leading(c) == IF c < 10 THEN c ELSE c \div 10

\* Slip: the names are sorted as strings, cpu10 before cpu2.
InNameOrder(cores) ==
  SetToSortSeq(cores, LAMBDA c, d : Leading(c) < Leading(d) \/ (Leading(c) = Leading(d) /\ c < d))

\* linuxCPUCoreNames, of the cores that both readings have.
InOrder(cores) ==
  CHOOSE s \in SetToSeqs(cores) : \A i, j \in DOMAIN s : i < j => s[i] < s[j]

-------------------------------------------------------------------------------
(* linuxMemoryFromMemInfo.                                                 *)

Bytes(kilobytes) == (kilobytes * Kilo) % Word

Reclaimable(m) ==
  (Bytes(m.MemFree) + Bytes(m.Buffers) + Bytes(m.Cached) + Bytes(m.SReclaimable)) % Word

\* Slip: the difference is a word.
EstimateWrapped(m) == (Reclaimable(m) - Bytes(m.Shmem)) % Word

\* Shared memory is in Cached, and cannot be reclaimed.
Estimate(m) == IF Bytes(m.Shmem) < Reclaimable(m) THEN Reclaimable(m) - Bytes(m.Shmem) ELSE 0

\* Slip: what is available is not held against the total.
AvailableUnclamped(m) ==
  IF m.MemAvailable = Absent THEN Estimate(m) ELSE Bytes(m.MemAvailable)

AvailableBytes(m) ==
  Min({Bytes(m.MemTotal), IF m.MemAvailable = Absent THEN Estimate(m) ELSE Bytes(m.MemAvailable)})

MemorySection(m) ==
  [kind |-> "memory", total |-> Bytes(m.MemTotal), available |-> AvailableBytes(m),
   used |-> (Bytes(m.MemTotal) - AvailableBytes(m)) % Word]

-------------------------------------------------------------------------------
NoSection   == [kind |-> "none"]
Unavailable == [kind |-> "unavailable"]

Booted == [c \in Cores |-> [f \in Fields |-> Start]]

Init ==
  /\ counter = Booted
  /\ online \in (SUBSET Cores) \ {{}}
  /\ steps = 0
  /\ pc = "idle" /\ ctx = "live"
  /\ first = NoStat /\ section = NoSection
  /\ elapsed = [c \in Cores |-> NoTime]
  /\ setBack = {}
  /\ meminfo = NoMemInfo

(* The host, while a request waits for its second reading.                 *)

HostMoves ==
  /\ pc = "wait" /\ steps < MaxSteps
  /\ steps' = steps + 1
  /\ UNCHANGED <<pc, ctx, first, section, meminfo>>

\* The time of a guest is accounted twice.
Charged(f) == IF f = "guest" THEN {"user", "guest"} ELSE {f}

\* A tick that truly passed.
Passed(f, e) ==
  IF f \in {"idle", "iowait"} THEN [e EXCEPT !.idle = @ + 1] ELSE [e EXCEPT !.busy = @ + 1]

\* A tick is accounted to a core.
Account(c, f) ==
  /\ c \in online
  /\ counter' = [counter EXCEPT ![c] =
                   [g \in Fields |-> @[g] + (IF g \in Charged(f) THEN 1 ELSE 0)]]
  /\ elapsed' = [elapsed EXCEPT ![c] = Passed(f, @)]
  /\ HostMoves
  /\ UNCHANGED <<online, setBack>>

\* The kernel corrects the time a core was idle.
SetBack(c, f) ==
  /\ counter[c][f] > 0
  /\ counter' = [counter EXCEPT ![c][f] = @ - 1]
  /\ setBack' = setBack \cup {c}
  /\ HostMoves
  /\ UNCHANGED <<online, elapsed>>

Hotplug(c) ==
  /\ online' = (IF c \in online THEN online \ {c} ELSE online \cup {c})
  /\ online' # {}
  /\ HostMoves
  /\ UNCHANGED <<counter, elapsed, setBack>>

\* The client disconnects.
Cancel ==
  /\ pc = "wait" /\ ctx = "live"
  /\ ctx' = "done"
  /\ UNCHANGED <<host, pc, first, section, history>>

-------------------------------------------------------------------------------
(* collectCPU.                                                             *)

Answer(s) == pc' = "answered" /\ section' = s

\* Slip: the section is left blank.
FallbackBlank ==
  /\ Answer([kind |-> "cpu"])
  /\ UNCHANGED <<host, ctx, first, history>>

\* linuxCPUFallback: available, with the number of cores and nothing else.
Fallback ==
  /\ Answer([kind |-> "cpu", measured |-> FALSE])
  /\ UNCHANGED <<host, ctx, first, history>>

ReadStat ==
  /\ pc = "idle"
  /\ first' = ProcStat
  /\ pc' = "wait"
  /\ UNCHANGED <<host, ctx, section, history>>

ReadStatFails == pc \in {"idle", "wait"} /\ Fallback

\* linuxWait ends early.
WaitCancelled == pc = "wait" /\ ctx = "done" /\ Fallback

\* The timer has fired, perhaps as the context ended: the second reading, and
\* linuxCPUFromProcStat. A core that one reading lacks, or that did not advance,
\* has no entry.
Measure ==
  /\ pc = "wait"
  /\ Advanced(first.cpu, ProcStat.cpu)
  /\ LET second == ProcStat
         cores  == {c \in DOMAIN first.core \cap DOMAIN second.core :
                      Advanced(first.core[c], second.core[c])}
         names  == InOrder(cores)
     IN Answer([kind |-> "cpu", measured |-> TRUE,
                utilization |-> Utilization(first.cpu, second.cpu),
                perCore |-> [i \in DOMAIN names |->
                               Utilization(first.core[names[i]], second.core[names[i]])]])
  /\ UNCHANGED <<host, ctx, first, history>>

\* linuxCPUFromProcStat: the counters did not advance.
MeasureNothing ==
  /\ pc = "wait"
  /\ ~Advanced(first.cpu, ProcStat.cpu)
  /\ Fallback

-------------------------------------------------------------------------------
(* collectMemory and collectSystem.                                        *)

\* A total of no kilobytes counts as missing.
ReadMemInfo ==
  /\ pc = "idle"
  /\ meminfo' \in MemInfo
  /\ Answer(IF Bytes(meminfo'.MemTotal) = 0 THEN Unavailable ELSE MemorySection(meminfo'))
  /\ UNCHANGED <<host, ctx, first, elapsed, setBack>>

ReadMemInfoFails ==
  /\ pc = "idle"
  /\ Answer(Unavailable)
  /\ UNCHANGED <<host, ctx, first, history>>

\* Either file may be unreadable; the section does without it.
ReadSystem ==
  /\ pc = "idle"
  /\ \E uptime, load \in BOOLEAN :
       Answer(IF uptime \/ load THEN [kind |-> "system", uptime |-> uptime, load |-> load]
              ELSE Unavailable)
  /\ UNCHANGED <<host, ctx, first, history>>

-------------------------------------------------------------------------------
\* The request returns. Whatever the counters are when the next one comes, they
\* may be called Start.
Return ==
  /\ pc = "answered"
  /\ counter' = Booted
  /\ steps' = 0
  /\ pc' = "idle" /\ ctx' = "live"
  /\ first' = NoStat /\ section' = NoSection
  /\ elapsed' = [c \in Cores |-> NoTime]
  /\ setBack' = {}
  /\ meminfo' = NoMemInfo
  /\ UNCHANGED online

Next ==
  \/ \E c \in Cores, f \in Fields : Account(c, f)
  \/ \E c \in Cores, f \in {"idle", "iowait"} : SetBack(c, f)
  \/ \E c \in Cores : Hotplug(c)
  \/ Cancel
  \/ ReadStat \/ ReadStatFails \/ WaitCancelled \/ Measure \/ MeasureNothing
  \/ ReadMemInfo \/ ReadMemInfoFails \/ ReadSystem
  \/ Return

Spec == Init /\ [][Next]_vars

-------------------------------------------------------------------------------
StatOf == [total: Nat, idle: Nat]
Share  == [busy: Int, total: Int]

CPUSections ==
  [kind: {"cpu"}, measured: {FALSE}]
    \cup [kind: {"cpu"}, measured: {TRUE}, utilization: Share, perCore: Seq(Share)]
MemorySections ==
  [kind: {"memory"}, total: 0..(Word - 1), available: 0..(Word - 1), used: 0..(Word - 1)]
SystemSections == [kind: {"system"}, uptime: BOOLEAN, load: BOOLEAN]

TypeOK ==
  /\ counter \in [Cores -> Counters]
  /\ online \subseteq Cores
  /\ steps \in 0..MaxSteps
  /\ pc \in {"idle", "wait", "answered"}
  /\ ctx \in {"live", "done"}
  /\ first.cpu \in StatOf
  /\ DOMAIN first.core \subseteq Cores /\ \A c \in DOMAIN first.core : first.core[c] \in StatOf
  /\ \/ section \in {NoSection, Unavailable}
     \/ section \in CPUSections
     \/ section \in MemorySections
     \/ section \in SystemSections
  /\ elapsed \in [Cores -> [busy: Nat, idle: Nat]]
  /\ setBack \subseteq Cores

Measured == pc = "answered" /\ section.kind = "cpu" /\ section.measured
Proper(u) == 0 <= u.busy /\ u.busy <= u.total /\ u.total > 0

\* What a core, or all of them, truly did since the first reading.
TrueShare(e) == [busy |-> e.busy, total |-> e.busy + e.idle]
AllElapsed ==
  [busy |-> MapThenSumSet(LAMBDA c : elapsed[c].busy, Cores),
   idle |-> MapThenSumSet(LAMBDA c : elapsed[c].idle, Cores)]

\* Every utilization is a share of some time, from 0 to 100%, also when the
\* kernel set counters back between the readings (the guards of
\* linuxCPUUtilization, before its unsigned subtractions).
UtilizationProper ==
  Measured => Proper(section.utilization) /\ \A i \in DOMAIN section.perCore : Proper(section.perCore[i])

\* Unless a counter was set back, the utilization is the busy share of the time
\* that truly passed on all cores, whichever of them came or went, and whatever
\* part of it guests had.
UtilizationTrue ==
  Measured /\ setBack = {} => section.utilization = TrueShare(AllElapsed)

Shared == DOMAIN first.core \cap online

\* When every core that both readings list has moved, and none was set back, the
\* list has one entry for each of them, in the order of their numbers (clients
\* name a sensor after the position).
PerCoreInPlace ==
  Measured /\ (\A c \in Shared : c \notin setBack /\ elapsed[c] # NoTime)
    => /\ Len(section.perCore) = Cardinality(Shared)
       /\ \A c \in Shared :
            section.perCore[Cardinality({d \in Shared : d <= c})] = TrueShare(elapsed[c])

\* The memory adds up as numbers, not only as words, whatever MemAvailable says.
MemoryAddsUp ==
  section.kind = "memory" => section.used + section.available = section.total

\* Without a line MemAvailable, no memory is called available but what is free
\* or can be reclaimed once shared memory is taken out, in unbounded numbers.
EstimateNotOptimistic ==
  section.kind = "memory" /\ meminfo.MemAvailable = Absent =>
    LET rest == meminfo.MemFree + meminfo.Buffers + meminfo.Cached
                  + meminfo.SReclaimable - meminfo.Shmem
    IN section.available <= Kilo * Max({0, rest})
===============================================================================
