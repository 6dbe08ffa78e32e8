----------------------------- MODULE DarwinSections -----------------------------
(***************************************************************************)
(* The sections on macOS (internal/collector/collector_darwin.go), most of *)
(* which run commands under the context of the request: a command that is  *)
(* running may fail, or hang, until its context ends. Only powermetrics    *)
(* has a time limit of its own.                                            *)
(*                                                                         *)
(* Requests share nothing, so one is modelled at a time, for one section,  *)
(* as GET /v1/system, /v1/cpu, /v1/memory, /v1/disks and /v1/gpu are and   *)
(* GET /v1/stats is five times over. The host moves while it matters. That *)
(* a command fails stands for output that cannot be parsed, too.           *)
(***************************************************************************)
EXTENDS Integers, Sequences, FiniteSets, SequencesExt

CONSTANTS
  Volumes,     \* the volumes that may be mounted
  KindOf,      \* what each is: see Kinds
  Machines,    \* what hardware the program may run on: see Machine
  PageCounts,  \* what vm_stat may count
  Physical,    \* hw.memsize, in pages
  Word,        \* 2^64
  Root,        \* whether the program runs as root
  Fallible,    \* the commands that may fail
  Blocking,    \* the commands that may hang
  MaxSteps,    \* bound on the steps of the host during one request
  MaxUptime    \* bound on the uptime

\* pseudo: what darwinSkipVolume skips. share: an smbfs.
Kinds    == {"disk", "share", "pseudo"}
Commands == {"sysctl", "uptime", "iostat", "vm_stat", "diskutil", "system_profiler",
             "gpu vm_stat", "ioreg", "powermetrics"}

Vendors  == {"Apple", "other"}

\* brand: machdep.cpu.brand_string. displays: the vendors system_profiler lists.
\* sysctls: the values that syscall.Sysctl returns in full length.
Machine == [brand: {"Apple", "Intel"}, displays: Seq(Vendors),
            sysctls: SUBSET {"boottime", "memsize"}]

\* The classes of pages overlap: what is purgeable is active or inactive, too.
Pages == [free: PageCounts, active: PageCounts, inactive: PageCounts, wired: PageCounts,
          purgeable: PageCounts]

ASSUME ConstantsAssumption ==
  /\ IsFiniteSet(Volumes) /\ KindOf \in [Volumes -> Kinds]
  /\ \A m \in Machines :
       \* An Apple processor has a GPU, which is listed if any is.
       m \in Machine /\ (m.brand = "Apple" => m.displays = <<>> \/ "Apple" \in ToSet(m.displays))
  /\ PageCounts \subseteq Nat
  /\ Physical \in Nat \ {0} /\ Word \in Nat \ {0}
  /\ Root \in BOOLEAN
  /\ Fallible \subseteq Commands /\ Blocking \subseteq Commands
  /\ MaxSteps \in Nat /\ MaxUptime \in Nat

VARIABLES
  machine,  \* the hardware
  mounted,  \* the mounted volumes, oldest first
  uptime,   \* for how long the host has been up, at the start of the request
  shift,    \* by how much the wall clock was set since then
  steps,    \* how often the host moved
  pc,       \* the command or the step the request is at
  run,      \* whether its command runs
  ctx,      \* the context of the request
  limit,    \* the context of powermetrics
  stats,    \* the volumes still to be asked about, after Getfsstat
  section,  \* the section as far as it is known
  stayed    \* history: the volumes mounted since Getfsstat counted

host    == <<machine, mounted, uptime, shift, steps>>
request == <<run, ctx, limit>>
vars    == <<host, pc, request, stats, section, stayed>>

NoSection == [kind |-> "none"]
Unset     == -1
Bytes     == 0..(Word - 1)

-------------------------------------------------------------------------------
(* Commands: darwinCommand, that is exec.CommandContext(...).Output().     *)

Live == ctx = "live" /\ (pc = "powermetrics" => limit = "live")

\* A context that has ended starts nothing.
Start ==
  /\ pc \in Commands /\ run = "no" /\ Live
  /\ run' = "running"
  /\ UNCHANGED <<host, pc, ctx, limit, stats, section, stayed>>

Hang ==
  /\ pc \in Blocking /\ run = "running"
  /\ run' = "hung"
  /\ UNCHANGED <<host, pc, ctx, limit, stats, section, stayed>>

\* The client disconnects.
Cancel ==
  /\ pc \notin {"idle", "answered"} /\ ctx = "live"
  /\ ctx' = "done"
  /\ UNCHANGED <<host, pc, run, limit, stats, section, stayed>>

\* Slip: powermetrics runs under the context of the request.
NeverExpires == FALSE /\ UNCHANGED vars

\* Two seconds have passed.
Expire ==
  /\ pc = "powermetrics" /\ limit = "live"
  /\ limit' = "done"
  /\ UNCHANGED <<host, pc, run, ctx, stats, section, stayed>>

Succeeds == run = "running"
Fails    == ~Live \/ (run = "running" /\ pc \in Fallible)

\* The command of the request has ended, and ok tells how.
Ended(command, ok) ==
  /\ pc = command
  /\ IF ok THEN Succeeds ELSE Fails
  /\ run' = "no"
  /\ UNCHANGED <<host, ctx, limit>>

Step(place) == pc = place /\ UNCHANGED <<host, request>>
Goto(place) == pc' = place
Answer(s)   == Goto("answered") /\ section' = s
\* What only the disks section uses.
NotDisks    == UNCHANGED <<stats, stayed>>

-------------------------------------------------------------------------------
(* collectSystem.                                                          *)

\* Slip: the difference is a word.
UptimeWrapped(now, boot) == (now - boot) % Word

\* The boot time is in wall-clock time, as is the time that the request began;
\* the clock may have been set in between.
Uptime(now, boot) == IF now >= boot THEN now - boot ELSE Unset

\* Boot times are told from the request's start.
BootTime == shift - uptime

BeginSystem ==
  /\ Step("idle")
  /\ section' = [kind |-> "system", uptime |-> Unset, load |-> FALSE, available |-> TRUE]
  /\ Goto(IF "boottime" \in machine.sysctls THEN "boottime" ELSE "sysctl")
  /\ NotDisks

ReadBootTime ==
  /\ Step("boottime")
  /\ section' = [section EXCEPT !.uptime = Uptime(0, BootTime)]
  /\ Goto("uptime")
  /\ NotDisks

\* darwinBootTimeSeconds, without the system call.
RunSysctl ==
  /\ \E ok \in BOOLEAN :
       /\ Ended("sysctl", ok)
       /\ section' = [section EXCEPT !.uptime = IF ok THEN Uptime(0, BootTime) ELSE Unset]
  /\ Goto("uptime")
  /\ NotDisks

RunUptime ==
  /\ \E ok \in BOOLEAN :
       /\ Ended("uptime", ok)
       /\ Answer([section EXCEPT !.load = ok, !.available = ok \/ section.uptime # Unset])
  /\ NotDisks

-------------------------------------------------------------------------------
(* collectCPU and collectMemory.                                           *)

BeginCPU == Step("idle") /\ Goto("iostat") /\ NotDisks /\ UNCHANGED section

\* Without iostat the section is available, and has no number.
RunIostat ==
  /\ \E ok \in BOOLEAN : Ended("iostat", ok) /\ Answer([kind |-> "cpu", measured |-> ok])
  /\ NotDisks

BeginMemory == Step("idle") /\ Goto("vm_stat") /\ NotDisks /\ UNCHANGED section

PhysicalMemory == IF "memsize" \in machine.sysctls THEN Physical ELSE 0

CountedPages(p) == p.free + p.active + p.inactive + p.wired

\* The memory of the machine fits a word.
ASSUME CountsAssumption == Physical < Word /\ \A p \in Pages : CountedPages(p) < Word

TotalPages(p, physical) == IF physical = 0 THEN CountedPages(p) ELSE physical

\* Slip: what is available is not held against the total.
AvailableAsCounted(p, physical) == p.free + p.inactive + p.purgeable

AvailablePages(p, physical) ==
  LET available == p.free + p.inactive + p.purgeable
      total     == TotalPages(p, physical)
  IN IF available > total THEN total ELSE available

\* darwinMemoryFromVMStat, of the pages and hw.memsize.
MemorySection(p, physical) ==
  LET total     == TotalPages(p, physical)
      available == AvailablePages(p, physical)
  IN IF total = 0 THEN [kind |-> "unavailable"]
     ELSE [kind |-> "memory", total |-> total, available |-> available,
           used |-> (total - available) % Word]

RunVMStat ==
  /\ \E ok \in BOOLEAN :
       /\ Ended("vm_stat", ok)
       /\ IF ok THEN \E p \in Pages : Answer(MemorySection(p, PhysicalMemory))
          ELSE Answer([kind |-> "unavailable"])
  /\ NotDisks

-------------------------------------------------------------------------------
(* collectDisks.                                                           *)

\* Getfsstat counts the mounted file systems.
CountVolumes ==
  /\ Step("idle")
  /\ section' = [kind |-> "disks", count |-> Len(mounted), volumes |-> <<>>, available |-> FALSE]
  /\ IF mounted = <<>> THEN Goto("answered") ELSE Goto("list")
  /\ stayed' = ToSet(mounted)
  /\ UNCHANGED stats

GetfsstatFails ==
  /\ pc \in {"idle", "list"}
  /\ Answer([kind |-> "unavailable"])
  /\ UNCHANGED <<host, request>>
  /\ NotDisks

\* It lists no more than there is room for, with the capacities.
ListVolumes ==
  /\ Step("list")
  /\ stats' = SubSeq(mounted, 1, IF section.count < Len(mounted)
                                   THEN section.count ELSE Len(mounted))
  /\ Goto("health")
  /\ UNCHANGED <<section, stayed>>

Healthy(v, health) ==
  section' = [section EXCEPT !.volumes = Append(@, [volume |-> v, health |-> health])]

\* darwinVolumeFromStatfs leaves out what darwinSkipVolume knows.
SkipVolume ==
  /\ Step("health") /\ stats # <<>> /\ KindOf[Head(stats)] = "pseudo"
  /\ stats' = Tail(stats)
  /\ UNCHANGED <<pc, section, stayed>>

\* darwinDiskHealth of a volume that diskutil does not know, and of another one.
HealthOfShare ==
  /\ Step("health") /\ stats # <<>> /\ KindOf[Head(stats)] = "share"
  /\ Healthy(Head(stats), "unsupported")
  /\ stats' = Tail(stats)
  /\ UNCHANGED <<pc, stayed>>

HealthOfDisk ==
  /\ Step("health") /\ stats # <<>> /\ KindOf[Head(stats)] = "disk"
  /\ Goto("diskutil")
  /\ UNCHANGED <<section, stats, stayed>>

\* Slip: a volume that diskutil cannot tell about is left out.
DropUnhealthy ==
  /\ \E ok \in BOOLEAN :
       /\ Ended("diskutil", ok)
       /\ IF ok THEN Healthy(Head(stats), "available") ELSE UNCHANGED section
  /\ stats' = Tail(stats)
  /\ Goto("health")
  /\ UNCHANGED stayed

\* Some devices have no SMART status. An error is the health of its volume.
RunDiskutil ==
  /\ \/ Ended("diskutil", TRUE) /\ \E h \in {"available", "unsupported"} : Healthy(Head(stats), h)
     \/ Ended("diskutil", FALSE) /\ Healthy(Head(stats), "unavailable")
  /\ stats' = Tail(stats)
  /\ Goto("health")
  /\ UNCHANGED stayed

AnswerDisks ==
  /\ Step("health") /\ stats = <<>>
  /\ Answer([section EXCEPT !.available = section.volumes # <<>>])
  /\ NotDisks

-------------------------------------------------------------------------------
(* collectGPU.                                                             *)

BeginGPU == Step("idle") /\ Goto("system_profiler") /\ NotDisks /\ UNCHANGED section

\* memory: whether the memory that is shared with the processor was filled in.
\* load: the command that told the utilization last.
Gpu(vendors, profiled) ==
  [kind |-> "gpu", profiled |-> profiled, available |-> vendors # <<>>,
   devices |-> [i \in DOMAIN vendors |-> [vendor |-> vendors[i], memory |-> FALSE, load |-> "none"]]]

\* Slip: nothing takes the place of system_profiler.
ProfileOnly == Gpu(<<>>, FALSE)

\* darwinGPUFromHardwareIdentity. Without a device the section is unsupported.
IdentifiedGpu == Gpu(IF machine.brand = "Apple" THEN <<"Apple">> ELSE <<>>, FALSE)

\* darwinApplyHostGPUMetrics begins with the memory that Apple devices share.
ApplyUnified(s) ==
  [s EXCEPT !.devices = [i \in DOMAIN s.devices |->
                           [s.devices[i] EXCEPT !.memory = @ \/ s.devices[i].vendor = "Apple"]]]

Metrics(s) ==
  IF "memsize" \in machine.sysctls THEN section' = ApplyUnified(s) /\ Goto("ioreg")
  ELSE section' = s /\ Goto("gpu vm_stat")

RunSystemProfiler ==
  /\ \/ /\ Ended("system_profiler", TRUE)
        /\ Metrics(IF machine.displays = <<>> THEN IdentifiedGpu ELSE Gpu(machine.displays, TRUE))
     \/ Ended("system_profiler", FALSE) /\ Metrics(IdentifiedGpu)
  /\ NotDisks

\* darwinUnifiedMemoryBytes, without hw.memsize.
RunGpuVMStat ==
  /\ \E ok \in BOOLEAN :
       /\ Ended("gpu vm_stat", ok)
       /\ section' = IF ok THEN ApplyUnified(section) ELSE section
  /\ Goto("ioreg")
  /\ NotDisks

\* Slip: the metrics take the place of their devices.
LoadedOnly(load) == [section EXCEPT !.devices = [i \in DOMAIN @ |-> [load |-> load]]]

Loaded(load) ==
  [section EXCEPT !.devices = [i \in DOMAIN section.devices |->
                                 [section.devices[i] EXCEPT !.load = load]]]

\* Only a section of system_profiler is refined by powermetrics, as root.
RunIoreg ==
  /\ \E ok \in BOOLEAN :
       /\ Ended("ioreg", ok)
       /\ section' = IF ok THEN Loaded("ioreg") ELSE section
  /\ Goto(IF section.profiled /\ Root THEN "powermetrics" ELSE "answered")
  /\ NotDisks

RunPowermetrics ==
  /\ \E ok \in BOOLEAN :
       /\ Ended("powermetrics", ok)
       /\ section' = IF ok THEN Loaded("powermetrics") ELSE section
  /\ Goto("answered")
  /\ NotDisks

-------------------------------------------------------------------------------
Init ==
  /\ machine \in Machines
  /\ mounted \in {m \in SeqOf(Volumes, Cardinality(Volumes)) : IsInjective(m)}
  /\ uptime \in 0..MaxUptime
  /\ shift = 0 /\ steps = 0
  /\ pc = "idle" /\ run = "no"
  /\ ctx = "live" /\ limit = "live"
  /\ stats = <<>> /\ section = NoSection /\ stayed = {}

HostMoves ==
  /\ steps < MaxSteps
  /\ steps' = steps + 1
  /\ UNCHANGED <<machine, uptime, pc, request, stats, section>>

\* The clock is set, and with it the boot time.
SetClock ==
  /\ pc \in {"boottime", "sysctl"}
  /\ \E d \in {-1, 1} : shift' = shift + d
  /\ HostMoves
  /\ UNCHANGED <<mounted, stayed>>

\* A new mount comes last in the kernel's list.
Mount ==
  /\ pc = "list"
  /\ \E v \in Volumes \ ToSet(mounted) : mounted' = Append(mounted, v)
  /\ HostMoves
  /\ UNCHANGED <<shift, stayed>>

Unmount ==
  /\ pc = "list"
  /\ \E i \in DOMAIN mounted :
       /\ mounted' = RemoveAt(mounted, i)
       /\ stayed' = stayed \ {mounted[i]}
  /\ HostMoves
  /\ UNCHANGED shift

Return ==
  /\ pc = "answered"
  /\ pc' = "idle"
  /\ ctx' = "live" /\ limit' = "live"
  /\ shift' = 0 /\ steps' = 0
  /\ stats' = <<>> /\ section' = NoSection /\ stayed' = {}
  /\ UNCHANGED <<machine, mounted, uptime, run>>

Collect ==
  \/ Start
  \/ ReadBootTime \/ RunSysctl \/ RunUptime
  \/ RunIostat \/ RunVMStat
  \/ ListVolumes \/ SkipVolume \/ HealthOfShare \/ HealthOfDisk \/ RunDiskutil \/ AnswerDisks
  \/ RunSystemProfiler \/ RunGpuVMStat \/ RunIoreg \/ RunPowermetrics

Next ==
  \/ BeginSystem \/ BeginCPU \/ BeginMemory \/ CountVolumes \/ GetfsstatFails \/ BeginGPU
  \/ Collect \/ Return
  \/ Hang \/ Expire \/ Cancel
  \/ SetClock \/ Mount \/ Unmount

Spec == Init /\ [][Next]_vars

\* A goroutine that can run does, a command that neither fails nor hangs ends,
\* and timers fire. Nobody has to give up, and commands may hang.
FairSpec == Spec /\ WF_vars(Collect) /\ WF_vars(Expire)

-------------------------------------------------------------------------------
Device == [vendor: Vendors, memory: BOOLEAN, load: {"none", "ioreg", "powermetrics"}]
Report == [volume: Volumes, health: {"available", "unsupported", "unavailable"}]

SystemSections == [kind: {"system"}, uptime: Int, load: BOOLEAN, available: BOOLEAN]
CPUSections    == [kind: {"cpu"}, measured: BOOLEAN]
MemorySections == [kind: {"memory"}, total: Bytes, available: Bytes, used: Bytes]
DisksSections  == [kind: {"disks"}, count: Nat, volumes: Seq(Report), available: BOOLEAN]
GPUSections    == [kind: {"gpu"}, profiled: BOOLEAN, available: BOOLEAN, devices: Seq(Device)]

TypeOK ==
  /\ machine \in Machines
  /\ mounted \in Seq(Volumes) /\ stats \in Seq(Volumes)
  /\ uptime \in 0..MaxUptime /\ shift \in Int /\ steps \in 0..MaxSteps
  /\ pc \in Commands \cup {"idle", "boottime", "list", "health", "answered"}
  /\ run \in {"no", "running", "hung"}
  /\ ctx \in {"live", "done"} /\ limit \in {"live", "done"}
  /\ \/ section \in {NoSection, [kind |-> "unavailable"]}
     \/ section \in SystemSections \cup CPUSections \cup MemorySections
     \/ section \in DisksSections \/ section \in GPUSections
  /\ stayed \subseteq Volumes

\* The uptime is never negative, as a word or as a number, and is off by no more
\* than the clock was set between the time the request noted and its reading of
\* the boot time (collectSystem subtracts a newer boot time from an older now).
UptimeProper ==
  section.kind = "system" /\ section.uptime # Unset =>
    /\ 0 <= section.uptime /\ section.uptime <= uptime + (IF shift < 0 THEN -shift ELSE 0)
    /\ shift = 0 => section.uptime = uptime

\* The memory adds up as numbers, not only as words, although the classes of
\* vm_stat overlap and its total, without hw.memsize, is a sum of some of them.
MemoryAddsUp ==
  section.kind = "memory" => section.used + section.available = section.total

\* A volume that is mounted from the counting to the listing is answered exactly
\* once, whatever is mounted and unmounted meanwhile, and whether or not diskutil
\* fails, hangs or is never started because the client is gone.
MountedVolumesReported ==
  pc = "answered" /\ section.kind = "disks" =>
    \A v \in stayed : KindOf[v] # "pseudo" =>
      Cardinality({i \in DOMAIN section.volumes : section.volumes[i].volume = v}) = 1

\* A machine with an Apple processor has an available GPU section that names its
\* GPU, whichever commands fail, hang or are not started.
AppleGpuNamed ==
  pc = "answered" /\ section.kind = "gpu" /\ machine.brand = "Apple" =>
    section.available /\ \E i \in DOMAIN section.devices : section.devices[i].vendor = "Apple"

\* powermetrics is given up on, though it may hang and its client wait.
PowermetricsGivenUp == pc = "powermetrics" ~> pc # "powermetrics"
===============================================================================
