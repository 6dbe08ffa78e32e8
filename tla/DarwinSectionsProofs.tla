-------------------------- MODULE DarwinSectionsProofs --------------------------
(***************************************************************************)
(* Proofs about DarwinSections, for every host, every set of commands that *)
(* fail or hang and every size of a word: its type, that the uptime is     *)
(* never negative, that the memory adds up, that an Apple GPU is named and  *)
(* that a volume that stays mounted is reported once.                      *)
(***************************************************************************)
EXTENDS DarwinSections, SequenceTheorems, FiniteSetTheorems, TLAPS

Places == Commands \cup {"idle", "boottime", "list", "health", "answered"}

\* What is known of the section at each place.
Shape ==
  /\ pc \in {"boottime", "sysctl", "uptime"} => section \in SystemSections
  /\ pc \in {"boottime", "sysctl"} => section.uptime = Unset
  /\ pc \in {"list", "health", "diskutil"} => section \in DisksSections
  /\ pc = "diskutil" => stats # <<>>
  /\ pc \in {"gpu vm_stat", "ioreg", "powermetrics"} => section \in GPUSections

\* s names an Apple GPU on a machine that has one.
Named(s) ==
  machine.brand = "Apple" =>
    s.available /\ \E i \in DOMAIN s.devices : s.devices[i].vendor = "Apple"

GpuNamed == section.kind = "gpu" => Named(section)

Inv == TypeOK /\ Shape /\ UptimeProper /\ MemoryAddsUp /\ GpuNamed

-------------------------------------------------------------------------------
\* Whatever a section is, it is of the kind it says.
SectionTypes ==
  {NoSection, [kind |-> "unavailable"]} \cup SystemSections \cup CPUSections
    \cup MemorySections \cup DisksSections \cup GPUSections

LEMMA Kinded ==
  /\ NoSection.kind = "none" /\ [kind |-> "unavailable"].kind = "unavailable"
  /\ \A s \in SystemSections : s.kind = "system"
  /\ \A s \in CPUSections : s.kind = "cpu"
  /\ \A s \in MemorySections : s.kind = "memory"
  /\ \A s \in DisksSections : s.kind = "disks"
  /\ \A s \in GPUSections : s.kind = "gpu"
  BY DEF NoSection, SystemSections, CPUSections, MemorySections, DisksSections, GPUSections

\* A machine is one, and its displays are a sequence.
LEMMA MachineType ==
  ASSUME NEW m \in Machines
  PROVE  /\ m.brand \in {"Apple", "Intel"} /\ m.displays \in Seq(Vendors)
         /\ m.brand = "Apple" /\ m.displays # <<>> =>
              \E i \in DOMAIN m.displays : m.displays[i] = "Apple"
  BY ConstantsAssumption DEF Machine, ToSet

-------------------------------------------------------------------------------
(* The GPU section.                                                        *)

\* A list of devices that keeps its length is one.
LEMMA DevicesType ==
  ASSUME NEW s \in Seq(Device), NEW d, d = [i \in DOMAIN s |-> d[i]],
         \A i \in DOMAIN s : d[i] \in Device
  PROVE  d \in Seq(Device)
<1>1. DOMAIN s = 1..Len(s) /\ Len(s) \in Nat
  OBVIOUS
<1>2. d \in [1..Len(s) -> Device]
  BY <1>1
<1> QED
  BY <1>1, <1>2

\* darwinGPUFromSystemProfiler and darwinGPUFromHardwareIdentity.
LEMMA GpuType ==
  ASSUME NEW v \in Seq(Vendors), NEW profiled \in BOOLEAN
  PROVE  /\ Gpu(v, profiled) \in GPUSections
         /\ Gpu(v, profiled).available = (v # <<>>)
         /\ DOMAIN Gpu(v, profiled).devices = DOMAIN v
         /\ \A i \in DOMAIN v : Gpu(v, profiled).devices[i].vendor = v[i]
<1> DEFINE d == [i \in DOMAIN v |-> [vendor |-> v[i], memory |-> FALSE, load |-> "none"]]
<1>1. DOMAIN v = 1..Len(v) /\ Len(v) \in Nat /\ \A i \in DOMAIN v : v[i] \in Vendors
  OBVIOUS
<1>2. d \in [1..Len(v) -> Device]
  BY <1>1 DEF Device
<1>3. d \in Seq(Device)
  BY <1>1, <1>2
<1>4. Gpu(v, profiled) = [kind |-> "gpu", profiled |-> profiled, available |-> v # <<>>,
                          devices |-> d]
  BY DEF Gpu
<1>5. /\ DOMAIN d = DOMAIN v
      /\ \A i \in DOMAIN v : d[i].vendor = v[i]
  OBVIOUS
<1> HIDE DEF d
<1> QED
  BY <1>3, <1>4, <1>5 DEF GPUSections

\* The two sources name the GPU of a machine with an Apple processor.
LEMMA SourceNamed ==
  ASSUME machine \in Machines
  PROVE  /\ IdentifiedGpu \in GPUSections /\ Named(IdentifiedGpu)
         /\ machine.displays # <<>> =>
              Gpu(machine.displays, TRUE) \in GPUSections /\ Named(Gpu(machine.displays, TRUE))
<1>1. CASE machine.brand = "Apple"
  <2>1. <<"Apple">> \in Seq(Vendors) /\ <<"Apple">> # <<>> /\ 1 \in DOMAIN <<"Apple">>
        /\ <<"Apple">>[1] = "Apple"
    BY DEF Vendors
  <2>2. IdentifiedGpu = Gpu(<<"Apple">>, FALSE)
    BY <1>1 DEF IdentifiedGpu
  <2>3. IdentifiedGpu \in GPUSections /\ Named(IdentifiedGpu)
    <3> DEFINE v == <<"Apple">>
    <3>1. /\ IdentifiedGpu \in GPUSections /\ IdentifiedGpu.available
          /\ 1 \in DOMAIN IdentifiedGpu.devices
          /\ IdentifiedGpu.devices[1].vendor = "Apple"
      <4>1. v \in Seq(Vendors) /\ v # <<>> /\ 1 \in DOMAIN v /\ v[1] = "Apple"
            /\ IdentifiedGpu = Gpu(v, FALSE)
        BY <2>1, <2>2
      <4> HIDE DEF v
      <4> QED
        BY <4>1, GpuType
    <3> QED
      BY <3>1 DEF Named
  <2>4. ASSUME machine.displays # <<>>
        PROVE  Gpu(machine.displays, TRUE) \in GPUSections /\ Named(Gpu(machine.displays, TRUE))
    <3>1. machine.displays \in Seq(Vendors)
      BY MachineType
    <3>2. PICK i \in DOMAIN machine.displays : machine.displays[i] = "Apple"
      BY <1>1, <2>4, MachineType
    <3> DEFINE g == Gpu(machine.displays, TRUE)
    <3>3. /\ g \in GPUSections
          /\ g.available = (machine.displays # <<>>)
          /\ DOMAIN g.devices = DOMAIN machine.displays
          /\ \A j \in DOMAIN machine.displays : g.devices[j].vendor = machine.displays[j]
      BY <3>1, GpuType
    <3>4. /\ g \in GPUSections /\ g.available
          /\ i \in DOMAIN g.devices /\ g.devices[i].vendor = "Apple"
      <4> HIDE DEF g
      <4> QED
        BY <2>4, <3>2, <3>3
    <3> QED
      BY <3>4 DEF Named
  <2> QED
    BY <2>3, <2>4
<1>2. CASE machine.brand # "Apple"
  <2>1. IdentifiedGpu = Gpu(<<>>, FALSE) /\ <<>> \in Seq(Vendors)
    BY <1>2 DEF IdentifiedGpu
  <2> QED
    BY <2>1, <1>2, MachineType, GpuType DEF Named
<1> QED
  BY <1>1, <1>2

\* s is r with other memory or load.
Refined(r, s) ==
  /\ s \in GPUSections /\ s.available = r.available /\ s.profiled = r.profiled
  /\ DOMAIN s.devices = DOMAIN r.devices
  /\ \A i \in DOMAIN r.devices : s.devices[i].vendor = r.devices[i].vendor

LEMMA RefinedNamed == \A r, s : Refined(r, s) /\ Named(r) => Named(s)
  BY DEF Refined, Named

\* darwinApplyUnifiedMemoryTotal, darwinApplyIORegistryGPU and
\* darwinApplyPowermetricsGPU refine.
LEMMA ApplyRefines ==
  ASSUME NEW r \in GPUSections
  PROVE  Refined(r, ApplyUnified(r))
<1> DEFINE d == [i \in DOMAIN r.devices |->
                   [r.devices[i] EXCEPT !.memory = @ \/ r.devices[i].vendor = "Apple"]]
<1>1. r.devices \in Seq(Device) /\ \A i \in DOMAIN r.devices : r.devices[i] \in Device
  BY DEF GPUSections
<1>2. \A i \in DOMAIN r.devices : d[i] \in Device /\ d[i].vendor = r.devices[i].vendor
  BY <1>1 DEF Device
<1>3. d \in Seq(Device)
  BY <1>1, <1>2, DevicesType
<1>4. ApplyUnified(r) = [r EXCEPT !.devices = d]
  BY DEF ApplyUnified
<1>5. DOMAIN d = DOMAIN r.devices
  OBVIOUS
<1> HIDE DEF d
<1> QED
  BY <1>2, <1>3, <1>4, <1>5 DEF GPUSections, Refined

LEMMA LoadedRefines ==
  ASSUME section \in GPUSections, NEW load \in {"ioreg", "powermetrics"}
  PROVE  Refined(section, Loaded(load))
<1> DEFINE d == [i \in DOMAIN section.devices |-> [section.devices[i] EXCEPT !.load = load]]
<1>1. section.devices \in Seq(Device)
      /\ \A i \in DOMAIN section.devices : section.devices[i] \in Device
  BY DEF GPUSections
<1>2. \A i \in DOMAIN section.devices :
        d[i] \in Device /\ d[i].vendor = section.devices[i].vendor
  BY <1>1 DEF Device
<1>3. d \in Seq(Device)
  BY <1>1, <1>2, DevicesType
<1>4. Loaded(load) = [section EXCEPT !.devices = d]
  BY DEF Loaded
<1>5. DOMAIN d = DOMAIN section.devices
  OBVIOUS
<1> HIDE DEF d
<1> QED
  BY <1>2, <1>3, <1>4, <1>5 DEF GPUSections, Refined

-------------------------------------------------------------------------------
(* Uptime and memory.                                                      *)

\* collectSystem: whatever the clock did, the difference is not negative.
LEMMA UptimeType ==
  ASSUME TypeOK
  PROVE  LET u == Uptime(0, BootTime)
         IN /\ u \in Int
            /\ u # Unset => /\ 0 <= u /\ u <= uptime + (IF shift < 0 THEN -shift ELSE 0)
                            /\ shift = 0 => u = uptime
<1>1. uptime \in Nat /\ shift \in Int
  BY ConstantsAssumption DEF TypeOK
<1> QED
  BY <1>1 DEF Uptime, BootTime, Unset

\* darwinMemoryFromVMStat: nothing is subtracted from less, and all is a word.
LEMMA MemoryType ==
  ASSUME NEW p \in Pages, NEW physical \in {0, Physical}
  PROVE  \/ MemorySection(p, physical) = [kind |-> "unavailable"]
         \/ /\ MemorySection(p, physical) \in MemorySections
            /\ MemorySection(p, physical).used + MemorySection(p, physical).available
                 = MemorySection(p, physical).total
<1>1. p.free \in Nat /\ p.active \in Nat /\ p.inactive \in Nat /\ p.wired \in Nat
      /\ p.purgeable \in Nat
  BY ConstantsAssumption DEF Pages
<1>2. CountedPages(p) \in Nat /\ CountedPages(p) < Word /\ Physical < Word /\ Physical \in Nat
      /\ Word \in Nat
  BY <1>1, ConstantsAssumption, CountsAssumption DEF CountedPages
<1> DEFINE total     == TotalPages(p, physical)
           available == AvailablePages(p, physical)
<1>3. total \in Nat /\ total < Word
  BY <1>2 DEF TotalPages
<1>4. available \in Nat /\ available <= total
  BY <1>1, <1>3 DEF AvailablePages
<1>5. (total - available) % Word = total - available
  BY <1>2, <1>3, <1>4
<1>6. total \in Bytes /\ available \in Bytes /\ total - available \in Bytes
  BY <1>2, <1>3, <1>4 DEF Bytes
<1>7. CASE total = 0
  BY <1>7 DEF MemorySection
<1>8. CASE total # 0
  <2>1. MemorySection(p, physical) =
          [kind |-> "memory", total |-> total, available |-> available,
           used |-> total - available]
    BY <1>5, <1>8 DEF MemorySection
  <2> HIDE DEF total, available
  <2> QED
    BY <2>1, <1>3, <1>4, <1>6 DEF MemorySections
<1> QED
  BY <1>7, <1>8

-------------------------------------------------------------------------------
(* Steps of the request.                                                   *)

\* What a step of a section leaves alone, and what it may do to its command.
Kept ==
  /\ UNCHANGED host
  /\ run' \in {"no", "running", "hung"}
  /\ ctx' \in {"live", "done"} /\ limit' \in {"live", "done"}

LEMMA StepKept ==
  ASSUME TypeOK
  PROVE  /\ \A place : Step(place) => Kept
         /\ \A command, ok : Ended(command, ok) => Kept /\ pc = command
  BY DEF TypeOK, Kept, Step, Ended, request

\* The parts of the type after such a step.
LEMMA Assemble ==
  ASSUME TypeOK, Kept, pc' \in Places, section' \in SectionTypes,
         stats' \in Seq(Volumes), stayed' \subseteq Volumes
  PROVE  TypeOK'
<1>1. \/ section' \in {NoSection, [kind |-> "unavailable"]}
      \/ section' \in SystemSections \cup CPUSections \cup MemorySections
      \/ section' \in DisksSections \/ section' \in GPUSections
  BY DEF SectionTypes
<1>2. machine' \in Machines /\ mounted' \in Seq(Volumes) /\ uptime' \in 0..MaxUptime
      /\ shift' \in Int /\ steps' \in 0..MaxSteps
  BY DEF TypeOK, Kept, host
<1> QED
  BY <1>1, <1>2 DEF TypeOK, Kept, Places

LEMMA SectionType == TypeOK => section \in SectionTypes
  BY DEF TypeOK, SectionTypes

\* A step to an answer, or to a command that leaves the section alone.
Neutral(place) == place \in {"iostat", "vm_stat", "system_profiler", "answered"}

LEMMA NeutralShape == Neutral(pc') => Shape'
  BY DEF Neutral, Shape

\* A section that is of no kind a promise is about.
LEMMA OtherKinds ==
  ASSUME section'.kind \notin {"system", "memory", "gpu"}
  PROVE  UptimeProper' /\ MemoryAddsUp' /\ GpuNamed'
  BY DEF UptimeProper, MemoryAddsUp, GpuNamed

\* The promises are about the section, the host and the clock only.
LEMMA SameSection ==
  ASSUME Inv, UNCHANGED <<section, machine, uptime, shift>>
  PROVE  UptimeProper' /\ MemoryAddsUp' /\ GpuNamed'
  BY DEF Inv, UptimeProper, MemoryAddsUp, GpuNamed, Named

\* Starting, hanging, giving up and leaving change no section.
LEMMA ContextInv ==
  ASSUME Inv, Start \/ Hang \/ Cancel \/ Expire
  PROVE  Inv'
<1>1. Kept /\ UNCHANGED <<pc, stats, section, stayed>>
  BY DEF Inv, TypeOK, Start, Hang, Cancel, Expire, Kept
<1>2. TypeOK'
  BY <1>1, SectionType, Assemble DEF Inv, TypeOK, Places
<1>3. Shape'
  BY <1>1 DEF Inv, Shape
<1> QED
  BY <1>1, <1>2, <1>3, SameSection DEF Inv, Kept, host

LEMMA BeginInv ==
  ASSUME Inv, BeginCPU \/ BeginMemory \/ BeginGPU
  PROVE  Inv'
<1>1. Kept /\ UNCHANGED <<stats, section, stayed>> /\ Neutral(pc') /\ pc' \in Places
  BY StepKept DEF Inv, BeginCPU, BeginMemory, BeginGPU, Goto, NotDisks, Neutral, Places, Commands
<1>2. TypeOK'
  BY <1>1, SectionType, Assemble DEF Inv, TypeOK
<1> QED
  BY <1>1, <1>2, NeutralShape, SameSection DEF Inv, Kept, host

\* collectSystem.
LEMMA SystemInv ==
  ASSUME Inv, BeginSystem \/ ReadBootTime \/ RunSysctl \/ RunUptime
  PROVE  Inv'
<1>1. Kept /\ UNCHANGED <<stats, stayed>>
  BY StepKept DEF Inv, BeginSystem, ReadBootTime, RunSysctl, RunUptime, NotDisks
<1>2. uptime' = uptime /\ shift' = shift
  BY <1>1 DEF Kept, host
<1>3. pc' \in {"boottime", "sysctl", "uptime", "answered"}
  BY DEF BeginSystem, ReadBootTime, RunSysctl, RunUptime, Goto, Answer
<1>4. section' \in SystemSections
  <2>1. BeginSystem => section' \in SystemSections
    BY DEF BeginSystem, SystemSections, Unset
  <2>2. ASSUME pc \in {"boottime", "sysctl", "uptime"}
        PROVE  section \in SystemSections
    BY <2>2 DEF Inv, Shape
  <2>3. ReadBootTime => section' \in SystemSections
    BY <2>2, UptimeType DEF Inv, ReadBootTime, Step, SystemSections
  <2>4. RunSysctl => section' \in SystemSections
    BY <2>2, UptimeType DEF Inv, RunSysctl, Ended, SystemSections, Unset
  <2>5. RunUptime => section' \in SystemSections
    BY <2>2 DEF RunUptime, Ended, Answer, SystemSections
  <2> QED
    BY <2>1, <2>3, <2>4, <2>5
<1>5. UptimeProper'
  <2>1. CASE BeginSystem
    BY <2>1 DEF BeginSystem, UptimeProper
  <2>2. CASE ReadBootTime \/ RunSysctl
    <3>1. section \in SystemSections
      BY <2>2 DEF Inv, Shape, ReadBootTime, RunSysctl, Step, Ended
    <3>2. section'.uptime \in {Uptime(0, BootTime), Unset}
      BY <2>2, <3>1 DEF ReadBootTime, RunSysctl, SystemSections
    <3> QED
      BY <3>2, <1>2, UptimeType DEF Inv, UptimeProper
  <2>3. CASE RunUptime
    <3>1. section \in SystemSections
      BY <2>3 DEF Inv, Shape, RunUptime, Ended
    <3>2. section'.uptime = section.uptime /\ section.kind = "system"
      BY <2>3, <3>1 DEF RunUptime, Answer, SystemSections
    <3> QED
      BY <3>2, <1>2 DEF Inv, UptimeProper
  <2> QED
    BY <2>1, <2>2, <2>3
<1>6. Shape'
  <2>1. BeginSystem => section'.uptime = Unset
    BY DEF BeginSystem
  <2>2. ~BeginSystem => pc' \in {"uptime", "answered"}
    BY DEF ReadBootTime, RunSysctl, RunUptime, Goto, Answer
  <2> QED
    BY <1>3, <1>4, <2>1, <2>2 DEF Shape
<1>7. TypeOK'
  BY <1>1, <1>3, <1>4, Assemble DEF Inv, TypeOK, SectionTypes, Places, Commands
<1>8. MemoryAddsUp' /\ GpuNamed'
  BY <1>4, Kinded DEF MemoryAddsUp, GpuNamed
<1> QED
  BY <1>5, <1>6, <1>7, <1>8 DEF Inv

\* collectCPU and collectMemory.
LEMMA NumbersInv ==
  ASSUME Inv, RunIostat \/ RunVMStat
  PROVE  Inv'
<1>1. Kept /\ UNCHANGED <<stats, stayed>> /\ pc' = "answered"
  BY StepKept DEF Inv, RunIostat, RunVMStat, NotDisks, Answer, Goto
<1>2. section'.kind \notin {"system", "gpu"} /\ section' \in SectionTypes /\ MemoryAddsUp'
  <2>1. CASE RunIostat
    BY <2>1, Kinded DEF RunIostat, Answer, CPUSections, SectionTypes, MemoryAddsUp
  <2>2. CASE RunVMStat
    <3>1. PhysicalMemory \in {0, Physical}
      BY DEF PhysicalMemory
    <3>2. \/ section' = [kind |-> "unavailable"]
          \/ \E q \in Pages : section' = MemorySection(q, PhysicalMemory)
      BY <2>2 DEF RunVMStat, Answer
    <3>3. \/ section' = [kind |-> "unavailable"]
          \/ /\ section' \in MemorySections
             /\ section'.used + section'.available = section'.total
      BY <3>1, <3>2, MemoryType
    <3> QED
      BY <3>3, Kinded DEF SectionTypes, MemoryAddsUp
  <2> QED
    BY <2>1, <2>2
<1>3. TypeOK'
  BY <1>1, <1>2, Assemble DEF Inv, TypeOK, Places
<1> QED
  BY <1>1, <1>2, <1>3, NeutralShape DEF Inv, Neutral, UptimeProper, GpuNamed

-------------------------------------------------------------------------------
(* collectDisks.                                                           *)

\* A volume is added to the section.
LEMMA HealthyType ==
  ASSUME section \in DisksSections, NEW v \in Volumes,
         NEW h \in {"available", "unsupported", "unavailable"}, Healthy(v, h)
  PROVE  section' \in DisksSections
<1> DEFINE r == [volume |-> v, health |-> h]
<1>1. r \in Report
  BY DEF Report
<1>2. section.volumes \in Seq(Report)
  BY DEF DisksSections
<1>3. Append(section.volumes, r) \in Seq(Report)
  BY <1>1, <1>2
<1>4. section' = [section EXCEPT !.volumes = Append(section.volumes, r)]
  BY DEF Healthy
<1> HIDE DEF r
<1> QED
  BY <1>3, <1>4 DEF DisksSections

\* The list of the mounted volumes, cut off.
LEMMA ListType ==
  ASSUME TypeOK, NEW n \in Nat
  PROVE  SubSeq(mounted, 1, IF n < Len(mounted) THEN n ELSE Len(mounted)) \in Seq(Volumes)
<1>1. mounted \in Seq(Volumes) /\ Len(mounted) \in Nat
  BY DEF TypeOK
<1>2. \A i \in 1..Len(mounted) : mounted[i] \in Volumes
  BY <1>1
<1> DEFINE m == IF n < Len(mounted) THEN n ELSE Len(mounted)
<1>3. m \in Nat /\ m <= Len(mounted)
  BY <1>1
<1> HIDE DEF m
<1>4. \A i \in 1..m : mounted[i] \in Volumes
  BY <1>1, <1>2, <1>3
<1>5. SubSeq(mounted, 1, m) \in Seq(Volumes)
  BY <1>1, <1>3, <1>4, SubSeqProperties
<1> QED
  BY <1>5 DEF m

LEMMA DisksInv ==
  ASSUME Inv,
         \/ CountVolumes \/ GetfsstatFails \/ ListVolumes \/ SkipVolume \/ HealthOfShare
         \/ HealthOfDisk \/ RunDiskutil \/ AnswerDisks
  PROVE  Inv'
<1>1. Kept
  <2>1. GetfsstatFails => Kept
    BY DEF Inv, TypeOK, GetfsstatFails, Kept, request
  <2> QED
    BY <2>1, StepKept
       DEF Inv, CountVolumes, ListVolumes, SkipVolume, HealthOfShare, HealthOfDisk,
           RunDiskutil, AnswerDisks
<1>2. ASSUME pc \in {"list", "health", "diskutil"} PROVE section \in DisksSections
  BY <1>2 DEF Inv, Shape
<1>3. mounted \in Seq(Volumes) /\ stats \in Seq(Volumes) /\ stayed \subseteq Volumes
  BY DEF Inv, TypeOK
<1>4. stats # <<>> => Head(stats) \in Volumes /\ Tail(stats) \in Seq(Volumes)
  BY <1>3
<1>5. /\ stats' \in Seq(Volumes) /\ stayed' \subseteq Volumes
      /\ pc' \in {"list", "health", "diskutil", "answered"}
      /\ \/ section' \in DisksSections
         \/ section' = [kind |-> "unavailable"] /\ pc' = "answered"
      /\ pc' = "diskutil" => stats' # <<>>
  <2>1. CASE CountVolumes
    <3>1. ToSet(mounted) \subseteq Volumes /\ Len(mounted) \in Nat /\ <<>> \in Seq(Report)
      BY <1>3 DEF ToSet
    <3> QED
      BY <2>1, <3>1, <1>3 DEF CountVolumes, Goto, DisksSections
  <2>2. CASE GetfsstatFails
    BY <2>2, <1>3 DEF GetfsstatFails, Answer, Goto, NotDisks
  <2>3. CASE ListVolumes
    <3>1. section \in DisksSections /\ section.count \in Nat
      BY <2>3, <1>2 DEF ListVolumes, Step, DisksSections
    <3> QED
      BY <2>3, <3>1, <1>3, ListType DEF Inv, ListVolumes, Goto
  <2>4. CASE SkipVolume
    BY <2>4, <1>2, <1>3, <1>4 DEF SkipVolume, Step
  <2>5. CASE HealthOfShare
    <3>1. section' \in DisksSections
      BY <2>5, <1>2, <1>4, HealthyType DEF HealthOfShare, Step
    <3> QED
      BY <2>5, <3>1, <1>3, <1>4 DEF HealthOfShare, Step
  <2>6. CASE HealthOfDisk
    BY <2>6, <1>2, <1>3 DEF HealthOfDisk, Step, Goto
  <2>7. CASE RunDiskutil
    <3>1. pc = "diskutil" /\ stats # <<>> /\ section \in DisksSections
      BY <2>7, <1>2 DEF Inv, Shape, RunDiskutil, Ended
    <3>2. section' \in DisksSections
      BY <2>7, <3>1, <1>4, HealthyType DEF RunDiskutil
    <3> QED
      BY <2>7, <3>1, <3>2, <1>3, <1>4 DEF RunDiskutil, Goto
  <2>8. CASE AnswerDisks
    <3>1. section \in DisksSections
      BY <2>8, <1>2 DEF AnswerDisks, Step
    <3> QED
      BY <2>8, <3>1, <1>3 DEF AnswerDisks, Answer, Goto, NotDisks, DisksSections
  <2> QED
    BY <2>1, <2>2, <2>3, <2>4, <2>5, <2>6, <2>7, <2>8
<1>6. TypeOK'
  BY <1>1, <1>5, Assemble DEF Inv, Places, Commands, SectionTypes
<1>7. Shape'
  BY <1>5 DEF Shape
<1>8. section'.kind \in {"disks", "unavailable"}
  BY <1>5, Kinded
<1> QED
  BY <1>6, <1>7, <1>8, OtherKinds DEF Inv

-------------------------------------------------------------------------------
(* collectGPU.                                                             *)

\* A step of the GPU section leaves one that names an Apple GPU.
LEMMA GpuInv ==
  ASSUME Inv, RunSystemProfiler \/ RunGpuVMStat \/ RunIoreg \/ RunPowermetrics
  PROVE  Inv'
<1>1. Kept /\ UNCHANGED <<stats, stayed>>
  BY StepKept
     DEF Inv, RunSystemProfiler, RunGpuVMStat, RunIoreg, RunPowermetrics, NotDisks
<1>2. pc' \in {"gpu vm_stat", "ioreg", "powermetrics", "answered"}
  BY DEF RunSystemProfiler, RunGpuVMStat, RunIoreg, RunPowermetrics, Goto, Metrics
<1>3. machine' = machine /\ machine \in Machines
  BY <1>1 DEF Kept, host, Inv, TypeOK
<1>4. section' \in GPUSections /\ Named(section')
  <2>1. CASE RunSystemProfiler
    <3>1. PICK s \in GPUSections : Named(s) /\ Metrics(s)
      BY <2>1, <1>3, SourceNamed DEF RunSystemProfiler
    <3>2. section' \in {s, ApplyUnified(s)}
      BY <3>1 DEF Metrics
    <3>3. Refined(s, ApplyUnified(s))
      BY ApplyRefines
    <3> QED
      BY <3>1, <3>2, <3>3, RefinedNamed DEF Refined
  <2>2. CASE RunGpuVMStat \/ RunIoreg \/ RunPowermetrics
    <3>1. section \in GPUSections /\ Named(section)
      <4>1. section \in GPUSections
        BY <2>2 DEF Inv, Shape, RunGpuVMStat, RunIoreg, RunPowermetrics, Ended
      <4> QED
        BY <4>1, Kinded DEF Inv, GpuNamed
    <3>2. section' \in {section, ApplyUnified(section), Loaded("ioreg"), Loaded("powermetrics")}
      BY <2>2 DEF RunGpuVMStat, RunIoreg, RunPowermetrics
    <3>3. /\ Refined(section, ApplyUnified(section))
          /\ Refined(section, Loaded("ioreg")) /\ Refined(section, Loaded("powermetrics"))
      BY <3>1, ApplyRefines, LoadedRefines
    <3> QED
      BY <3>1, <3>2, <3>3, RefinedNamed DEF Refined
  <2> QED
    BY <2>1, <2>2
<1>5. TypeOK'
  BY <1>1, <1>2, <1>4, Assemble DEF Inv, TypeOK, SectionTypes, Places, Commands
<1>6. Shape'
  BY <1>2, <1>4 DEF Shape
<1>7. GpuNamed'
  BY <1>3, <1>4 DEF GpuNamed, Named
<1>8. UptimeProper' /\ MemoryAddsUp'
  BY <1>4, Kinded DEF UptimeProper, MemoryAddsUp
<1> QED
  BY <1>5, <1>6, <1>7, <1>8 DEF Inv

-------------------------------------------------------------------------------
(* The host.                                                               *)

\* RemoveAt closes the gap.
LEMMA RemovedAt ==
  ASSUME NEW S, NEW s \in Seq(S), NEW k \in 1..Len(s)
  PROVE  /\ RemoveAt(s, k) \in Seq(S)
         /\ Len(RemoveAt(s, k)) = Len(s) - 1
         /\ \A j \in 1..(Len(s) - 1) : RemoveAt(s, k)[j] = IF j < k THEN s[j] ELSE s[j + 1]
<1> DEFINE a == SubSeq(s, 1, k - 1)
           b == SubSeq(s, k + 1, Len(s))
<1>1. k \in Int /\ 1 <= k /\ k <= Len(s) /\ Len(s) \in Nat /\ \A j \in 1..Len(s) : s[j] \in S
  OBVIOUS
<1>2. a \in Seq(S) /\ Len(a) = k - 1 /\ \A j \in 1..(k - 1) : a[j] = s[j]
  <2>1. k - 1 \in Int /\ \A j \in 1..(k - 1) : s[j] \in S
    BY <1>1
  <2>2. /\ a \in Seq(S)
        /\ Len(a) = IF 1 <= k - 1 THEN k - 1 - 1 + 1 ELSE 0
        /\ \A j \in 1..(k - 1 - 1 + 1) : a[j] = s[1 + j - 1]
    BY <2>1, SubSeqProperties
  <2> HIDE DEF a
  <2> QED
    BY <1>1, <2>2
<1>3. b \in Seq(S) /\ Len(b) = Len(s) - k /\ \A j \in 1..(Len(s) - k) : b[j] = s[k + j]
  <2>1. k + 1 \in Int /\ Len(s) \in Int /\ \A j \in (k + 1)..Len(s) : s[j] \in S
    BY <1>1
  <2>2. /\ b \in Seq(S)
        /\ Len(b) = IF k + 1 <= Len(s) THEN Len(s) - (k + 1) + 1 ELSE 0
        /\ \A j \in 1..(Len(s) - (k + 1) + 1) : b[j] = s[k + 1 + j - 1]
    BY <2>1, SubSeqProperties
  <2> HIDE DEF b
  <2> QED
    BY <1>1, <2>2
<1> HIDE DEF a, b
<1>4. /\ a \o b \in Seq(S) /\ Len(a \o b) = Len(a) + Len(b)
      /\ \A j \in 1..(Len(a) + Len(b)) :
           (a \o b)[j] = IF j <= Len(a) THEN a[j] ELSE b[j - Len(a)]
  BY <1>2, <1>3, ConcatProperties
<1>5. RemoveAt(s, k) = a \o b
  BY DEF RemoveAt, a, b
<1>6. ASSUME NEW j \in 1..(Len(s) - 1)
      PROVE  (a \o b)[j] = IF j < k THEN s[j] ELSE s[j + 1]
  <2>1. j \in 1..(Len(a) + Len(b))
    BY <1>1, <1>2, <1>3
  <2>2. CASE j < k
    BY <1>1, <1>2, <1>4, <2>1, <2>2
  <2>3. CASE ~(j < k)
    <3>1. j - (k - 1) \in 1..(Len(s) - k) /\ ~(j <= Len(a))
      BY <1>1, <1>2, <2>3
    <3>2. (a \o b)[j] = b[j - (k - 1)]
      BY <1>2, <1>4, <2>1, <3>1
    <3>3. b[j - (k - 1)] = s[k + (j - (k - 1))] /\ k + (j - (k - 1)) = j + 1
      BY <1>1, <1>3, <3>1
    <3> QED
      BY <2>3, <3>2, <3>3
  <2> QED
    BY <2>2, <2>3
<1>7. Len(a \o b) = Len(s) - 1
  BY <1>1, <1>2, <1>3, <1>4
<1> QED
  BY <1>4, <1>5, <1>6, <1>7

LEMMA HostInv ==
  ASSUME Inv, SetClock \/ Mount \/ Unmount
  PROVE  Inv'
<1>1. /\ UNCHANGED <<machine, uptime, pc, run, ctx, limit, stats, section>>
      /\ steps < MaxSteps /\ steps' = steps + 1
  BY DEF SetClock, Mount, Unmount, HostMoves, request
<1>2. mounted' \in Seq(Volumes) /\ shift' \in Int /\ stayed' \subseteq Volumes
  <2>1. CASE SetClock
    BY <2>1 DEF Inv, TypeOK, SetClock
  <2>2. CASE Mount
    BY <2>2 DEF Inv, TypeOK, Mount
  <2>3. CASE Unmount
    <3>1. PICK i \in DOMAIN mounted : mounted' = RemoveAt(mounted, i)
      BY <2>3 DEF Unmount
    <3>2. mounted \in Seq(Volumes) /\ i \in 1..Len(mounted)
      BY DEF Inv, TypeOK
    <3>3. RemoveAt(mounted, i) \in Seq(Volumes)
      BY <3>2, RemovedAt
    <3> QED
      BY <2>3, <3>1, <3>3 DEF Inv, TypeOK, Unmount
  <2> QED
    BY <2>1, <2>2, <2>3
<1>3. TypeOK'
  BY <1>1, <1>2, ConstantsAssumption DEF Inv, TypeOK
<1>4. Shape'
  BY <1>1 DEF Inv, Shape
<1>5. UptimeProper'
  <2>1. CASE SetClock
    <3>1. section \in SystemSections /\ section.uptime = Unset
      BY <2>1 DEF Inv, Shape, SetClock
    <3> QED
      BY <1>1, <3>1 DEF UptimeProper
  <2>2. CASE Mount \/ Unmount
    BY <1>1, <2>2 DEF Inv, UptimeProper, Mount, Unmount
  <2> QED
    BY <2>1, <2>2
<1> QED
  BY <1>1, <1>3, <1>4, <1>5 DEF Inv, MemoryAddsUp, GpuNamed, Named

LEMMA ReturnInv ==
  ASSUME Inv, Return
  PROVE  Inv'
<1>1. section' = NoSection /\ pc' = "idle"
  BY DEF Return
<1>2. TypeOK'
  <2>1. 0 \in 0..MaxSteps
    BY ConstantsAssumption
  <2> QED
    BY <2>1 DEF Inv, TypeOK, Return
<1>3. Shape'
  BY <1>1 DEF Shape
<1> QED
  BY <1>1, <1>2, <1>3, Kinded, OtherKinds DEF Inv

LEMMA InitInv == Init => Inv
<1> SUFFICES ASSUME Init PROVE Inv
    OBVIOUS
<1>1. section = NoSection /\ pc = "idle"
  BY DEF Init
<1>2. TypeOK
  <2>1. 0 \in 0..MaxSteps
    BY ConstantsAssumption
  <2>2. Cardinality(Volumes) \in Nat
    BY ConstantsAssumption, FS_CardinalityType
  <2>3. mounted \in Seq(Volumes)
    <3>1. PICK n \in 0..Cardinality(Volumes) : mounted \in [1..n -> Volumes]
      BY DEF Init, SeqOf
    <3>2. n \in Nat
      BY <2>2
    <3> QED
      BY <3>1, <3>2
  <2> QED
    BY <2>1, <2>3 DEF Init, TypeOK
<1>3. Shape
  BY <1>1 DEF Shape
<1> QED
  BY <1>1, <1>2, <1>3, Kinded DEF Inv, UptimeProper, MemoryAddsUp, GpuNamed

LEMMA StepInv == Inv /\ [Next]_vars => Inv'
<1> SUFFICES ASSUME Inv, [Next]_vars PROVE Inv'
    OBVIOUS
<1>1. CASE UNCHANGED vars
  <2>1. TypeOK' /\ Shape'
    BY <1>1 DEF Inv, TypeOK, Shape, vars, host, request
  <2>2. UptimeProper' /\ MemoryAddsUp'
    BY <1>1 DEF Inv, UptimeProper, MemoryAddsUp, vars, host
  <2>3. GpuNamed'
    BY <1>1 DEF Inv, GpuNamed, Named, vars, host
  <2> QED
    BY <2>1, <2>2, <2>3 DEF Inv
<1>2. CASE Next
  BY <1>2, ContextInv, BeginInv, SystemInv, NumbersInv, DisksInv, GpuInv, HostInv, ReturnInv
     DEF Next, Collect
<1> QED
  BY <1>1, <1>2

-------------------------------------------------------------------------------
\* For every host and every set of commands that fail or hang, the invariant.
THEOREM Invariance == Spec => []Inv
  BY InitInv, StepInv, PTL DEF Spec

\* Every part of the state keeps its type (collector_darwin.go).
THEOREM TypeCorrect == Spec => []TypeOK
<1>1. Inv => TypeOK
  BY DEF Inv
<1> QED
  BY <1>1, Invariance, PTL

\* The uptime is never negative, however often the clock is set between the time
\* collectSystem notes and its reading of the boot time.
THEOREM UptimeProperHolds == Spec => []UptimeProper
<1>1. Inv => UptimeProper
  BY DEF Inv
<1> QED
  BY <1>1, Invariance, PTL

\* Used and available memory add up to the total, whatever vm_stat counts, as long
\* as memory fits a word (darwinMemoryFromVMStat).
THEOREM MemoryAddsUpHolds == Spec => []MemoryAddsUp
<1>1. Inv => MemoryAddsUp
  BY DEF Inv
<1> QED
  BY <1>1, Invariance, PTL

\* On a machine with an Apple processor the GPU section names its GPU, whichever
\* of its commands fail, hang or are not started (collectGPU).
THEOREM AppleGpuNamedHolds == Spec => []AppleGpuNamed
<1>1. Inv => AppleGpuNamed
  BY DEF Inv, GpuNamed, Named, AppleGpuNamed
<1> QED
  BY <1>1, Invariance, PTL

-------------------------------------------------------------------------------
(* The volumes. Between the counting and the listing a volume can only move *)
(* to the front, by the unmounting of an older one; from then on each is    *)
(* either still to be asked about or reported, and never both.              *)

\* What may be owed to the volumes of st when those of s are still to be asked
\* about and volumes is reported.
Owed(st, s, volumes) ==
  /\ IsInjective(s)
  /\ \A i, j \in DOMAIN volumes : volumes[i].volume = volumes[j].volume => i = j
  /\ \A i \in DOMAIN volumes : \A j \in DOMAIN s : s[j] # volumes[i].volume
  /\ \A v \in st : KindOf[v] # "pseudo" =>
       \/ \E j \in DOMAIN s : s[j] = v
       \/ \E i \in DOMAIN volumes : volumes[i].volume = v

\* There is room for what was counted and stayed.
WithinCount == \A v \in stayed : \E i \in DOMAIN mounted : i <= section.count /\ mounted[i] = v

Reporting ==
  /\ IsInjective(mounted)
  /\ pc = "list" => section.volumes = <<>> /\ WithinCount
  /\ pc \in {"health", "diskutil"} => Owed(stayed, stats, section.volumes)
  /\ pc = "answered" /\ section.kind = "disks" => Owed(stayed, <<>>, section.volumes)

\* At the listing, all that was counted and stayed is to be asked about.
LEMMA ListingOwes ==
  ASSUME TypeOK, IsInjective(mounted), WithinCount, section.count \in Nat
  PROVE  LET n == IF section.count < Len(mounted) THEN section.count ELSE Len(mounted)
         IN Owed(stayed, SubSeq(mounted, 1, n), <<>>)
<1> DEFINE n == IF section.count < Len(mounted) THEN section.count ELSE Len(mounted)
           s == SubSeq(mounted, 1, n)
<1>1. mounted \in Seq(Volumes) /\ Len(mounted) \in Nat /\ DOMAIN mounted = 1..Len(mounted)
  BY DEF TypeOK
<1>2. n \in Nat /\ n <= Len(mounted)
  BY <1>1
<1>3. /\ s \in Seq(Volumes) /\ DOMAIN s = 1..n
      /\ \A i \in 1..n : s[i] = mounted[i]
  <2>0. \A i \in DOMAIN mounted : mounted[i] \in Volumes
    BY <1>1
  <2> HIDE DEF n
  <2>1. \A i \in 1..n : mounted[i] \in Volumes
    BY <1>1, <1>2, <2>0
  <2>2. /\ s \in Seq(Volumes) /\ Len(s) = (IF 1 <= n THEN n - 1 + 1 ELSE 0)
        /\ \A i \in 1..(n - 1 + 1) : s[i] = mounted[1 + i - 1]
    BY <1>2, <2>1, SubSeqProperties
  <2> HIDE DEF s
  <2> QED
    BY <1>2, <2>2
<1>4. \A i \in 1..Len(mounted) : i <= section.count => i \in 1..n
  BY <1>1
<1> HIDE DEF n, s
<1>5. IsInjective(s)
  BY <1>1, <1>2, <1>3 DEF IsInjective
<1>6. \A v \in stayed : \E j \in DOMAIN s : s[j] = v
  BY <1>1, <1>3, <1>4 DEF WithinCount
<1>7. DOMAIN <<>> = {}
  OBVIOUS
<1>8. Owed(stayed, s, <<>>)
  BY <1>5, <1>6, <1>7 DEF Owed
<1> QED
  BY <1>8 DEF s, n

\* The first volume is skipped, or asked about and reported.
LEMMA AnsweringOwes ==
  ASSUME NEW st, NEW s \in Seq(Volumes), s # <<>>, NEW volumes \in Seq(Report),
         Owed(st, s, volumes)
  PROVE  /\ KindOf[Head(s)] = "pseudo" => Owed(st, Tail(s), volumes)
         /\ \A r \in Report : r.volume = Head(s) => Owed(st, Tail(s), Append(volumes, r))
<1> DEFINE t == Tail(s)
<1>1. /\ Len(s) \in Nat /\ Len(s) # 0 /\ DOMAIN s = 1..Len(s) /\ Head(s) = s[1]
      /\ DOMAIN t = 1..(Len(s) - 1)
      /\ \A i \in 1..(Len(s) - 1) : t[i] = s[i + 1]
  BY HeadTailProperties
<1> HIDE DEF t
<1>2. IsInjective(t) /\ \A j \in DOMAIN t : t[j] # Head(s)
  <2>1. \A i \in DOMAIN t : i + 1 \in DOMAIN s /\ t[i] = s[i + 1] /\ i + 1 # 1
    BY <1>1
  <2>2. \A i, j \in DOMAIN s : s[i] = s[j] => i = j
    BY DEF Owed, IsInjective
  <2>3. 1 \in DOMAIN s
    BY <1>1
  <2>4. ASSUME NEW i \in DOMAIN t, NEW j \in DOMAIN t, t[i] = t[j]
        PROVE  i = j
    <3>1. i + 1 = j + 1
      BY <2>1, <2>2, <2>4
    <3> QED
      BY <1>1, <3>1
  <2> QED
    BY <1>1, <2>1, <2>2, <2>3, <2>4 DEF IsInjective
<1>3. \A v : (\E j \in DOMAIN s : s[j] = v) => v = Head(s) \/ \E j \in DOMAIN t : t[j] = v
  <2> SUFFICES ASSUME NEW j \in DOMAIN s, s[j] # Head(s)
               PROVE  \E k \in DOMAIN t : t[k] = s[j]
      OBVIOUS
  <2>1. j - 1 \in 1..(Len(s) - 1) /\ (j - 1) + 1 = j
    BY <1>1
  <2>2. t[j - 1] = s[j]
    BY <1>1, <2>1
  <2> QED
    BY <1>1, <2>1, <2>2
<1>4. \A j \in DOMAIN t : \E k \in DOMAIN s : t[j] = s[k]
  <2> SUFFICES ASSUME NEW j \in DOMAIN t
               PROVE  \E k \in DOMAIN s : t[j] = s[k]
      OBVIOUS
  <2>1. j + 1 \in DOMAIN s
    BY <1>1
  <2>2. t[j] = s[j + 1]
    BY <1>1
  <2> QED
    BY <2>1, <2>2
<1>5. ASSUME KindOf[Head(s)] = "pseudo"
      PROVE  Owed(st, t, volumes)
  <2>1. \A i \in DOMAIN volumes : \A j \in DOMAIN t : t[j] # volumes[i].volume
    BY <1>4 DEF Owed
  <2>2. \A v \in st : KindOf[v] # "pseudo" =>
          \/ \E j \in DOMAIN t : t[j] = v
          \/ \E i \in DOMAIN volumes : volumes[i].volume = v
    BY <1>3, <1>5 DEF Owed
  <2> QED
    BY <1>2, <2>1, <2>2 DEF Owed
<1>6. ASSUME NEW r \in Report, r.volume = Head(s)
      PROVE  Owed(st, t, Append(volumes, r))
  <2> DEFINE w == Append(volumes, r)
             m == Len(volumes) + 1
  <2>1. /\ DOMAIN volumes = 1..Len(volumes) /\ Len(volumes) \in Nat /\ DOMAIN w = 1..m
        /\ \A i \in DOMAIN volumes : w[i] = volumes[i]
        /\ w[m] = r
    BY AppendProperties
  <2>2. \A i \in DOMAIN w : i = m \/ i \in DOMAIN volumes
    BY <2>1
  <2>3. m \in DOMAIN w /\ \A i \in DOMAIN volumes : i \in DOMAIN w
    BY <2>1
  <2> HIDE DEF w, m
  <2>4. \A i \in DOMAIN volumes : volumes[i].volume # Head(s)
    BY <1>1 DEF Owed
  <2>5. \A i, j \in DOMAIN w : w[i].volume = w[j].volume => i = j
    BY <1>6, <2>1, <2>2, <2>4 DEF Owed
  <2>6. \A i \in DOMAIN w : \A j \in DOMAIN t : t[j] # w[i].volume
    <3>1. \A i \in DOMAIN volumes : \A j \in DOMAIN t : t[j] # volumes[i].volume
      BY <1>4 DEF Owed
    <3> QED
      BY <1>2, <1>6, <2>1, <2>2, <3>1
  <2>7. \A v \in st : KindOf[v] # "pseudo" =>
          \/ \E j \in DOMAIN t : t[j] = v
          \/ \E i \in DOMAIN w : w[i].volume = v
    <3> SUFFICES ASSUME NEW v \in st, KindOf[v] # "pseudo"
                 PROVE  \/ \E j \in DOMAIN t : t[j] = v
                        \/ \E i \in DOMAIN w : w[i].volume = v
        OBVIOUS
    <3>1. \/ \E j \in DOMAIN s : s[j] = v
          \/ \E i \in DOMAIN volumes : volumes[i].volume = v
      BY DEF Owed
    <3>2. CASE \E j \in DOMAIN s : s[j] = v
      <4>1. v = Head(s) \/ \E j \in DOMAIN t : t[j] = v
        BY <1>3, <3>2
      <4> QED
        BY <4>1, <1>6, <2>1, <2>3
    <3>3. CASE \E i \in DOMAIN volumes : volumes[i].volume = v
      BY <2>1, <2>3, <3>3
    <3> QED
      BY <3>1, <3>2, <3>3
  <2>8. Owed(st, t, w)
    BY <1>2, <2>5, <2>6, <2>7 DEF Owed
  <2> QED
    BY <2>8 DEF w
<1> QED
  BY <1>5, <1>6 DEF t

\* Collecting the disks.
LEMMA DisksReporting ==
  ASSUME Inv, Reporting,
         \/ CountVolumes \/ GetfsstatFails \/ ListVolumes \/ SkipVolume \/ HealthOfShare
         \/ HealthOfDisk \/ RunDiskutil \/ AnswerDisks
  PROVE  Reporting'
<1>1. mounted' = mounted
  BY DEF CountVolumes, GetfsstatFails, ListVolumes, SkipVolume, HealthOfShare, HealthOfDisk,
         RunDiskutil, AnswerDisks, Step, Ended, host
<1>2. mounted \in Seq(Volumes) /\ stats \in Seq(Volumes) /\ IsInjective(mounted)
  BY DEF Inv, TypeOK, Reporting
<1>3. ASSUME pc \in {"list", "health", "diskutil"}
      PROVE  section \in DisksSections /\ section.volumes \in Seq(Report) /\ section.count \in Nat
  BY <1>3 DEF Inv, Shape, DisksSections
<1>4. CASE CountVolumes
  <2>1. /\ section'.volumes = <<>> /\ section'.count = Len(mounted)
        /\ stayed' = ToSet(mounted)
        /\ pc' = IF mounted = <<>> THEN "answered" ELSE "list"
    BY <1>4 DEF CountVolumes, Goto
  <2>2. Len(mounted) \in Nat /\ DOMAIN mounted = 1..Len(mounted)
    BY <1>2
  <2>3. \A v \in stayed' : \E i \in DOMAIN mounted : i <= section'.count /\ mounted[i] = v
    BY <2>1, <2>2 DEF ToSet
  <2>4. CASE mounted # <<>>
    BY <1>1, <1>2, <2>1, <2>3, <2>4 DEF Reporting, WithinCount
  <2>5. CASE mounted = <<>>
    <3>1. DOMAIN <<>> = {} /\ stayed' = {}
      BY <2>1, <2>5 DEF ToSet
    <3>2. Owed(stayed', <<>>, section'.volumes)
      BY <2>1, <3>1 DEF Owed, IsInjective
    <3> QED
      BY <1>1, <1>2, <2>1, <2>5, <3>2 DEF Reporting
  <2> QED
    BY <2>4, <2>5
<1>5. CASE GetfsstatFails
  <2>1. pc' = "answered" /\ section'.kind # "disks"
    BY <1>5 DEF GetfsstatFails, Answer, Goto
  <2> QED
    BY <1>1, <1>2, <2>1 DEF Reporting
<1>6. CASE ListVolumes
  <2>1. pc = "list" /\ pc' = "health" /\ section' = section /\ stayed' = stayed
    BY <1>6 DEF ListVolumes, Step, Goto
  <2>2. Owed(stayed, stats', <<>>)
    BY <1>2, <1>3, <1>6, <2>1, ListingOwes DEF Inv, Reporting, ListVolumes
  <2>3. Owed(stayed', stats', section'.volumes)
    BY <2>1, <2>2 DEF Reporting
  <2> QED
    BY <1>1, <1>2, <2>1, <2>3 DEF Reporting
<1>7. CASE SkipVolume
  <2>1. /\ pc = "health" /\ stats # <<>> /\ KindOf[Head(stats)] = "pseudo" /\ stats' = Tail(stats)
        /\ pc' = pc /\ section' = section /\ stayed' = stayed
    BY <1>7 DEF SkipVolume, Step
  <2>2. Owed(stayed', stats', section'.volumes)
    BY <1>2, <1>3, <2>1, AnsweringOwes DEF Reporting
  <2> QED
    BY <1>1, <1>2, <2>1, <2>2 DEF Reporting
<1>8. CASE HealthOfShare \/ RunDiskutil
  <2>1. /\ pc \in {"health", "diskutil"} /\ stats # <<>> /\ stats' = Tail(stats)
        /\ pc' = "health" /\ stayed' = stayed
        /\ \E h \in {"available", "unsupported", "unavailable"} : Healthy(Head(stats), h)
    BY <1>8 DEF Inv, Shape, HealthOfShare, RunDiskutil, Step, Ended, Goto
  <2>2. PICK h \in {"available", "unsupported", "unavailable"} : Healthy(Head(stats), h)
    BY <2>1
  <2> DEFINE r == [volume |-> Head(stats), health |-> h]
  <2>3. r \in Report /\ r.volume = Head(stats)
    BY <1>2, <2>1 DEF Report
  <2>4. section'.volumes = Append(section.volumes, r)
    BY <1>3, <2>1, <2>2 DEF Healthy, DisksSections
  <2> HIDE DEF r
  <2>5. Owed(stayed', stats', section'.volumes)
    BY <1>2, <1>3, <2>1, <2>3, <2>4, AnsweringOwes DEF Reporting
  <2> QED
    BY <1>1, <1>2, <2>1, <2>5 DEF Reporting
<1>9. CASE HealthOfDisk
  BY <1>1, <1>9 DEF Reporting, HealthOfDisk, Step, Goto
<1>10. CASE AnswerDisks
  <2>1. pc = "health" /\ stats = <<>> /\ pc' = "answered" /\ stayed' = stayed
    BY <1>10 DEF AnswerDisks, Step, Answer, Goto, NotDisks
  <2>2. section'.volumes = section.volumes
    BY <1>3, <1>10, <2>1 DEF AnswerDisks, Answer, DisksSections
  <2>3. Owed(stayed', <<>>, section'.volumes)
    BY <2>1, <2>2 DEF Reporting
  <2> QED
    BY <1>1, <1>2, <2>1, <2>3 DEF Reporting
<1> QED
  BY <1>4, <1>5, <1>6, <1>7, <1>8, <1>9, <1>10

\* Mounting and unmounting before the listing. No volume moves to the back.
LEMMA MountReporting ==
  ASSUME Inv, Reporting, Mount \/ Unmount
  PROVE  Reporting'
<1>1. pc = "list" /\ pc' = pc /\ section' = section
  BY DEF Mount, Unmount, HostMoves
<1>2. /\ mounted \in Seq(Volumes) /\ Len(mounted) \in Nat /\ DOMAIN mounted = 1..Len(mounted)
      /\ IsInjective(mounted) /\ section.volumes = <<>> /\ WithinCount
      /\ section.count \in Nat
  BY <1>1 DEF Inv, TypeOK, Shape, DisksSections, Reporting
<1>3. IsInjective(mounted') /\ WithinCount'
  <2>1. CASE Mount
    <3>1. PICK v \in Volumes \ ToSet(mounted) : mounted' = Append(mounted, v)
      BY <2>1 DEF Mount
    <3> DEFINE m == Len(mounted) + 1
    <3>2. /\ DOMAIN mounted' = 1..m
          /\ \A i \in DOMAIN mounted : i \in DOMAIN mounted' /\ mounted'[i] = mounted[i]
          /\ \A i \in DOMAIN mounted' : i = m \/ i \in DOMAIN mounted
          /\ mounted'[m] = v
      BY <1>2, <3>1, AppendProperties
    <3>3. \A i \in DOMAIN mounted : mounted[i] # v
      BY <3>1 DEF ToSet
    <3>4. stayed' = stayed
      BY <2>1 DEF Mount
    <3> HIDE DEF m
    <3>5. IsInjective(mounted')
      BY <1>2, <3>2, <3>3 DEF IsInjective
    <3>6. WithinCount'
      BY <1>1, <1>2, <3>2, <3>4 DEF WithinCount
    <3> QED
      BY <3>5, <3>6
  <2>2. CASE Unmount
    <3>1. PICK k \in DOMAIN mounted : /\ mounted' = RemoveAt(mounted, k)
                                      /\ stayed' = stayed \ {mounted[k]}
      BY <2>2 DEF Unmount
    <3>2. /\ DOMAIN mounted' = 1..(Len(mounted) - 1)
          /\ \A j \in 1..(Len(mounted) - 1) :
               mounted'[j] = IF j < k THEN mounted[j] ELSE mounted[j + 1]
      BY <1>2, <3>1, RemovedAt
    <3>3. k \in 1..Len(mounted)
      BY <1>2
    <3>4. IsInjective(mounted')
      <4> DEFINE Old(j) == IF j < k THEN j ELSE j + 1
      <4>1. \A j \in DOMAIN mounted' : Old(j) \in DOMAIN mounted /\ mounted'[j] = mounted[Old(j)]
        BY <1>2, <3>2, <3>3
      <4>2. \A i, j \in DOMAIN mounted' : Old(i) = Old(j) => i = j
        BY <1>2, <3>2, <3>3
      <4> HIDE DEF Old
      <4> QED
        BY <1>2, <4>1, <4>2 DEF IsInjective
    <3>5. ASSUME NEW v \in stayed'
          PROVE  \E j \in DOMAIN mounted' : j <= section'.count /\ mounted'[j] = v
      <4>1. v \in stayed /\ v # mounted[k]
        BY <3>1
      <4>2. PICK i \in DOMAIN mounted : i <= section.count /\ mounted[i] = v
        BY <1>2, <4>1 DEF WithinCount
      <4>3. i \in 1..Len(mounted) /\ i # k
        BY <1>2, <4>1, <4>2
      <4>4. CASE i < k
        <5>1. i \in 1..(Len(mounted) - 1) /\ mounted'[i] = mounted[i]
          BY <1>2, <3>2, <3>3, <4>3, <4>4
        <5> QED
          BY <1>1, <3>2, <4>2, <5>1
      <4>5. CASE k < i
        <5>1. i - 1 \in 1..(Len(mounted) - 1) /\ ~(i - 1 < k) /\ (i - 1) + 1 = i
          BY <1>2, <3>3, <4>3, <4>5
        <5>2. mounted'[i - 1] = mounted[i]
          BY <3>2, <5>1
        <5>3. i - 1 <= section'.count
          BY <1>1, <1>2, <4>2, <4>3
        <5> QED
          BY <3>2, <4>2, <5>1, <5>2, <5>3
      <4> QED
        BY <3>3, <4>3, <4>4, <4>5
    <3> QED
      BY <3>4, <3>5 DEF WithinCount
  <2> QED
    BY <2>1, <2>2
<1> QED
  BY <1>1, <1>2, <1>3 DEF Reporting

\* The other steps report nothing.
LEMMA OthersReporting ==
  ASSUME Inv, Reporting, [Next]_vars,
         ~( \/ CountVolumes \/ GetfsstatFails \/ ListVolumes \/ SkipVolume \/ HealthOfShare
            \/ HealthOfDisk \/ RunDiskutil \/ AnswerDisks \/ Mount \/ Unmount )
  PROVE  Reporting'
<1>1. CASE UNCHANGED <<pc, mounted, stats, section, stayed>>
  BY <1>1 DEF Reporting, WithinCount
<1>2. ASSUME pc' \notin {"list", "health", "diskutil"}, mounted' = mounted,
             pc' = "answered" => section'.kind # "disks"
      PROVE  Reporting'
  BY <1>2 DEF Reporting
<1>3. CASE UNCHANGED vars \/ Start \/ Hang \/ Expire \/ Cancel \/ SetClock
  <2>1. UNCHANGED <<pc, mounted, stats, section, stayed>>
    BY <1>3 DEF vars, host, Start, Hang, Expire, Cancel, SetClock, HostMoves
  <2> QED
    BY <1>1, <2>1
<1>4. CASE BeginCPU \/ BeginMemory \/ BeginGPU \/ Return
  <2>1. pc' \in {"iostat", "vm_stat", "system_profiler", "idle"} /\ mounted' = mounted
    BY <1>4 DEF BeginCPU, BeginMemory, BeginGPU, Return, Step, Goto, host
  <2> QED
    BY <1>2, <2>1
<1>5. CASE BeginSystem \/ ReadBootTime \/ RunSysctl \/ RunUptime
  <2>1. pc' \in {"boottime", "sysctl", "uptime", "answered"} /\ mounted' = mounted
    BY <1>5 DEF BeginSystem, ReadBootTime, RunSysctl, RunUptime, Step, Ended, Goto, Answer, host
  <2>2. pc' = "answered" => RunUptime
    BY <1>5 DEF BeginSystem, ReadBootTime, RunSysctl, Goto
  <2>3. RunUptime => section'.kind = "system"
    <3> SUFFICES ASSUME RunUptime PROVE section'.kind = "system"
        OBVIOUS
    <3>1. section \in SystemSections
      BY DEF Inv, Shape, RunUptime, Ended
    <3> QED
      BY <3>1 DEF RunUptime, Answer, SystemSections
  <2> QED
    BY <1>2, <2>1, <2>2, <2>3
<1>6. CASE RunIostat
  <2>1. pc' = "answered" /\ mounted' = mounted /\ section'.kind = "cpu"
    BY <1>6 DEF RunIostat, Ended, Answer, Goto, host
  <2> QED
    BY <1>2, <2>1
<1>7. CASE RunVMStat
  <2>1. pc' = "answered" /\ mounted' = mounted
    BY <1>7 DEF RunVMStat, Ended, Answer, Goto, host
  <2>2. \/ section' = [kind |-> "unavailable"]
        \/ \E q \in Pages : section' = MemorySection(q, PhysicalMemory)
    BY <1>7 DEF RunVMStat, Answer
  <2>3. section'.kind # "disks"
    BY <2>2 DEF MemorySection
  <2> QED
    BY <1>2, <2>1, <2>3
<1>8. CASE RunSystemProfiler \/ RunGpuVMStat \/ RunIoreg \/ RunPowermetrics
  <2>1. pc' \in {"gpu vm_stat", "ioreg", "powermetrics", "answered"} /\ mounted' = mounted
    BY <1>8 DEF RunSystemProfiler, RunGpuVMStat, RunIoreg, RunPowermetrics, Ended, Metrics, Goto,
                host
  <2>2. pc' = "answered" => RunIoreg \/ RunPowermetrics
    BY <1>8 DEF RunSystemProfiler, RunGpuVMStat, Metrics, Goto
  <2>3. RunIoreg \/ RunPowermetrics => section'.kind = "gpu"
    <3> SUFFICES ASSUME RunIoreg \/ RunPowermetrics PROVE section'.kind = "gpu"
        OBVIOUS
    <3>1. section \in GPUSections
      BY DEF Inv, Shape, RunIoreg, RunPowermetrics, Ended
    <3>2. Loaded("ioreg") \in GPUSections /\ Loaded("powermetrics") \in GPUSections
      BY <3>1, LoadedRefines DEF Refined
    <3>3. section' \in {section, Loaded("ioreg"), Loaded("powermetrics")}
      BY DEF RunIoreg, RunPowermetrics
    <3> QED
      BY <3>1, <3>2, <3>3, Kinded
  <2> QED
    BY <1>2, <2>1, <2>2, <2>3
<1> QED
  BY <1>3, <1>4, <1>5, <1>6, <1>7, <1>8 DEF Next, Collect

LEMMA InitReporting == Init => Reporting
  BY DEF Init, Reporting

LEMMA StepReporting == Inv /\ Reporting /\ [Next]_vars => Reporting'
  BY DisksReporting, MountReporting, OthersReporting

\* What is owed to nobody any more is reported, each volume once.
LEMMA ReportedOnce ==
  ASSUME Reporting
  PROVE  MountedVolumesReported
<1> SUFFICES ASSUME pc = "answered", section.kind = "disks",
                    NEW v \in stayed, KindOf[v] # "pseudo"
             PROVE  Cardinality({i \in DOMAIN section.volumes : section.volumes[i].volume = v}) = 1
    BY DEF MountedVolumesReported
<1>1. Owed(stayed, <<>>, section.volumes)
  BY DEF Reporting
<1>2. PICK i \in DOMAIN section.volumes : section.volumes[i].volume = v
  BY <1>1 DEF Owed
<1>3. {j \in DOMAIN section.volumes : section.volumes[j].volume = v} = {i}
  BY <1>1, <1>2 DEF Owed
<1> QED
  BY <1>3, FS_Singleton

\* A volume that is mounted from the counting to the listing is answered exactly
\* once, for every number of volumes, mounts, unmounts and failures of diskutil
\* (collectDisks).
THEOREM MountedVolumesReportedHolds == Spec => []MountedVolumesReported
<1>1. Init => Reporting
  BY InitReporting
<1>2. Inv /\ Reporting /\ [Next]_vars => Reporting'
  BY StepReporting
<1>3. Reporting => MountedVolumesReported
  BY ReportedOnce
<1> QED
  BY <1>1, <1>2, <1>3, Invariance, PTL DEF Spec
===============================================================================
