# FleetPulse in TLA+

FleetPulse is a telemetry agent: one Go program per host that answers HTTP
requests with the state of its CPU, memory, disks, GPU and system. This directory
holds TLA+ models of the parts of it that are hard to test, the TLC
configurations that check them, and TLAPS proofs about them. Paths are relative
to the root of the repository.

## 1. The system

| Part | State it keeps | Operations | What is hard about it |
|---|---|---|---|
| Snapshot service, `internal/collector/collector.go` | `mu`, `cache`, `cacheAt`, `hasCache`, `lastError` | `Snapshot`, `Health` | one mutex held through a collection of many steps; requests that are cancelled; a fallback to a stale snapshot; a wall clock that may be set |
| GPU discovery, `collector_linux_gpu.go` | `gpu-discovery.json`, shared by all requests, unlocked, outliving the program | `collect`, `collectCached`, `rediscover`, `loadDiscovery`, `saveDiscovery` | load, collect, count and save are not one step; `os.WriteFile` truncates first; ages, TTLs, a failure threshold |
| Linux section collectors, `collector_linux.go`, `collector_linux_parse.go` | none | one per section | the host changes while it is read; unsigned arithmetic |
| macOS section collectors, `collector_darwin.go` | none | one per section | nine commands that fail, hang or are stopped; one time-out; fallbacks; the host changes meanwhile |
| Token file, `internal/token` | the token file | `EnsureFile`, `LoadFile`, `RotateFile` | three programs, two users, no lock |
| Installer and unit, `packaging/linux` | configuration, token file, systemd's view of the service | install, uninstall, restart on failure, boot | steps that a kill or a loss of power may separate; a service that runs meanwhile |
| Configuration, `internal/config`, `cmd/fleetpulse` | none after the start | defaults, file, environment, flags, `Validate` | four layers, one safety rule |
| HTTP API, `internal/api` | none | routes, methods, bearer authentication | its rules and those of the configuration together make the agent safe to expose |

How they meet: `runServe` lays the configuration out, obtains the token from the
token file, and builds one service and one handler. net/http runs each request in
a goroutine of its own, under a context that is cancelled when the client
disconnects. `/v1/stats` and `/health` call the service, which takes the mutex;
`/v1/gpu` runs a GPU collector outside of it; the collector of the GPU section runs
inside of it. So several collectors may be at the discovery file at once. The
token file is also written by the installer and by `fleetpulse token rotate`.

What makes each part correct:

- *Snapshot service*: no client is shown an older state of the host after a newer
  one; the host is collected with success at most once per TTL, and a stale snapshot
  is an announced fallback, both give or take what the wall clock was set meanwhile;
  every request is answered; to its clients it is an atomic cache.
- *GPU discovery*: a record tells the truth about the moment it is dated to; what
  it answers was right within its TTL; failures in a row rediscover; when the host
  is stable the answers become right.
- *Token*: an installation ends with a service that accepts the token in the
  file and nothing else; upgrades keep it; the service comes up whatever was killed, unless it was told to
  terminate.
- *Configuration and API*: nothing is given to other hosts without a token; the
  documented order of the layers decides.
- *Disks*: one volume per mount point, numbers that add up, nothing usable left out.
- *CPU and memory*: a utilization is a share of time that truly passed; the list of
  cores is in the order of their numbers, so that a core keeps its place as long as
  all of them advance (one that is missing in a sample, or did not advance, has no
  entry, and those after it move down); available memory is not overestimated.
- *macOS sections*: what a command that fails or hangs would have told is left out,
  and nothing else; the only time-out there is works.

`PROJECT.json` lists every component, modelled or not, and the hazards of the code
at their lines with the properties that cover them.

## 2. The modules

| Module | Models | Variables and actions |
|---|---|---|
| `TelemetryCache` | what the service promises: an atomic cache | a call opens, one step answers it from the published snapshot or publishes a new one |
| `SnapshotService` | `Service.Snapshot`, `Service.Health`, the request contexts | the fields of `Service` and the locals of each handler; `Lock`, `ServeCached`, `BeginCollect`, `CollectSection`, `FinishCollect`, `FailCollect`, `ServeHealth`, for the clients `Arrive`, `Cancel`, `Return`, for the clock `Tick`, `SetClockBack`, `SetClockForward` |
| `SnapshotServiceProofs` | proofs about `SnapshotService` | |
| `GpuDiscovery` | the discovery cache of `collector_linux_gpu.go` | `file` and `saved` are the file, `record` the discovery a collector works with; one action per stretch of code between two accesses to the file; `SetClockBack` and `SetClockForward` set the wall clock |
| `GpuDiscoveryProofs` | proofs about `GpuDiscovery` | |
| `TokenProvisioning` | `internal/token`, `install.sh`, `uninstall.sh`, the unit, `token rotate` | `file` (value and owner) and `config` as programs see them, `disk` and `synced` as they would survive a loss of power, the place and token of the three programs, what the server accepts, what systemd keeps running and starts at boot; `Kill` is a signal that counts as a failure, `Terminate` one that systemd takes for a clean end |
| `TokenProvisioningProofs` | proofs about `TokenProvisioning` | |
| `AgentServing` | `parseConfigFlags`, `internal/config`, `runServe`, `internal/api` | the layers, the configuration built from them stage by stage, the listener, the latest reply |
| `AgentServingProofs` | proofs about `AgentServing` | |
| `LinuxDisks` | `collectDisks`, `linuxVolumeFromStat`, the kernel's mount table | the table, the lines read, `seen`, the volumes; one action per iteration of the loop |
| `LinuxDisksProofs` | proofs about `LinuxDisks` | |
| `LinuxProc` | `collectCPU`, `collectMemory`, `collectSystem` and their parsers on Linux | the kernel's counters and cores, the first reading of `/proc/stat`, the section; one action per reading, and the host's steps between two of them |
| `LinuxProcProofs` | proofs about `LinuxProc` | |
| `SumAndOrderTheorems` | lemmas about sums over finite sets and ordered lists of numbers, for `LinuxProcProofs` | |
| `DarwinSections` | `collector_darwin.go` | the place of the request, whether its command runs or hangs, the two contexts, the section so far; one action per command and outcome, and the host's steps while they matter |
| `DarwinSectionsProofs` | proofs about `DarwinSections` | |
| `MC...` | instances for TLC | |

Definitions that begin with a comment "Slip:" are what a plausible bug would turn
the next definition into. Nothing uses them; `PROJECT.json` lists them as mutants,
each with the property it breaks.

### What is abstracted

- *SnapshotService*. A section is the reading it got or none. `time.Now().UTC()`
  keeps nothing of the monotonic clock, so the service goes by a wall clock that may
  be set at any time. An instant is the time that truly passed and what the clock was
  set back and forward until then; all that the code decides by is `Wall` of it.
  `at` stands for the `Timestamp`, and is the true time at which it was read: the
  properties speak of when the host was collected. What the `Timestamp` itself says
  goes back with the clock, also from one answer to the next, and no property denies
  it. `collect` may be any function
  that honours its contract: it may return an error (`CollectErrs`), although
  `collectLive`, the only one shipped, never does, so that the degraded state
  cannot be reached in the shipped program.
- *GpuDiscovery*. A discovery by the five detectors is one step; the metrics are
  not modelled, only whether a collection fails. Ages replace `DiscoveredAt`; they
  are ages by the wall clock, which may be set forward at any time and back by
  `MaxBack` in all, so that they may be negative. They saturate where no decision
  differs any more. Two writers in one truncated file leave a whole record or one
  that does not parse.
- *TokenProvisioning*. `fleetpulse` handles no signal, so SIGTERM, SIGINT and SIGHUP
  end it (`Terminate`), and `Restart=on-failure` leaves it ended until it is started
  again or the host boots; after any other signal that ends it (`Kill`), and after an
  exit with an error, systemd starts it again. Renames are atomic. A loss of power keeps what reached the
  disk, or also what had not, or leaves a new file without its contents. A program
  that finishes an installation and loses power before the file reached the disk
  does not count as installed: nothing in the code syncs, so `InstalledServiceListens`
  is not claimed across such a loss; it is claimed for the next installation, which
  finds the empty file and replaces it. The operator may remove the file, not damage
  it. `PURGE` is left out, and there is one token file, that of `STATE_DIR`. A
  configuration is the installer's own, an old version's that asks for no token, or
  one that was cut off; what an administrator writes is kept by the installer and not
  modelled. A token that nobody has any more may be generated again, which keeps the
  states few. The service reads its configuration and the token in one step, as
  only an installer that restarts it writes both. The address is assumed to be free: `ListenAndServe` succeeds.
- *AgentServing*. An address is the kind of its host. The configuration and the
  token file may be edited at any time; as the program reads each once, it finds
  anything they can hold. The six fields that are only reported are left out.
- *LinuxDisks*. The text of `/proc/mounts` is well formed and read at once. Sorting
  by mount point is left out, as is `percent_used`, which follows from the bytes.
  A mount point that was unmounted leads to the root file system or to nothing. A
  mount point is answered with the type of its oldest line, so a file system that an
  automounter mounted over its trigger is skipped as `autofs`: no property asks for
  it, as no document promises it.
- *LinuxProc*. One request for one section at a time: requests share nothing, and
  only differences of counters are used. Of the counters of a core, `user` stands for
  the six that are busy time. A utilization is a pair of numbers, not their quotient.
  A file that cannot be parsed counts as one that cannot be read. A core that goes or
  comes leaves the summed counters of the first line alone, as the kernel sums over
  all possible cores. `EstimateNotOptimistic`
  compares with unbounded numbers, for amounts each of which fits a word in bytes.
- *DarwinSections*. One request for one section at a time. Output that cannot be
  parsed counts as a command that failed. Volumes are names of a kind: their
  bytes are not modelled (they are computed as on Linux, without the clamp), nor is a second file system over the same mount point,
  which macOS would report twice. Devices that have memory of their own are not told
  apart. Whether `syscall.Sysctl` returns a value in full length is a property of the
  machine: it drops a zero byte at the end, so `hw.memsize` is never eight bytes long
  in practice and the total is a sum of pages; the model has both cases. The sysctl
  for the brand of the processor, whose error the code ignores, always succeeds.

## 3. The runs

| Run | Instance | Shows |
|---|---|---|
| `Snapshot` | two handlers, two sections of which the GPU obeys the context and may hang, errors, clients that give up, TTL 1, one tick, a clock that is set once, back or forward (614 thousand states) | `NeverBackwards`, `StaleOnlyWhileDegraded`, `RefreshesSpacedByTTL`, `AtomicSpec`: the service implements `TelemetryCache`, and `EveryRequestAnswered` |
| `SnapshotHang` | the five sections of `collectLive`, a GPU command that may hang, clients that wait | a violation of `CollectorTimesOut` |
| `GpuSafety` | two collectors, three hosts, one change, a clock set back once and forward at will, every other fault (984 thousand states) | `RecordsTruthful`, `AnswersRecent` |
| `GpuAlone` | one collector, nine hosts, two changes, cancellations and a full disk | `ConsecutiveFailuresRediscover`, `EventuallyRight` |
| `GpuLostFailure` | two collectors, no fault but the driver's | a violation of `ConsecutiveFailuresRediscover` |
| `GpuDeadPath` | one collector, a card that is taken out | a violation of `CachedPathWorks` |
| `TokenProvisioning` | two installations, a rotation by the service user, any two of kills, terminations, losses of power and removals of the file or the service, a new host or an old version (725 thousand states) | `InstalledTokenAccepted`, `InstalledServiceStarts`, `UpgradeKeepsToken`, `InstalledServiceListens` |
| `TokenRotated` | one installation, one rotation by root | a violation of `RotatedTokenAccepted` |
| `AgentServing` | the address and the authentication set in every combination by three layers, the other fields one at a time | `ExposedOnlyWithToken`, `HighestLayerDecides` |
| `LinuxDisks` | four mount points, four changes of the mount table, file systems that refuse, are overdrawn or have no device; words of four bits | `BytesAddUp`, `OneVolumePerPoint`, `UndisturbedComplete` |
| `LinuxProc` | three cores, one of them with a number of two digits, four steps of the host between the readings; amounts of memory from none to two kilobytes of two bytes, words of six bits (186 thousand states) | `UtilizationProper`, `UtilizationTrue`, `PerCoreInPlace`, `MemoryAddsUp`, `EstimateNotOptimistic` |
| `DarwinSections` | five machines, four volumes of every kind, each command failing or hanging, two steps of the host (296 thousand states) | `UptimeProper`, `MemoryAddsUp`, `MountedVolumesReported`, `AppleGpuNamed`, `PowermetricsGivenUp` |

Each passing run also checks the type invariant of its module.

*Why the bounds are enough.* Two handlers are what it takes for one to wait while
the other collects, and the one that waits may be served from the cache or
collect in turn. One tick with a TTL of one holds a refresh, its expiry and the
next one, and a collection that outlives the TTL; with the clock set by one, back or
forward, an expired cache is fresh again and a fresh one expires, with or without
the tick; the proofs lift the bounds.
Two collectors are what it takes to write an old record over a newer one; the
ages saturate, so time is not bounded, and one change of the host with one step of
the clock back is what makes an old record look new; two changes let a card come
and go. Threshold 2 and TTLs of 2 and 1 keep their order and the boundary. Two
installations and two kills, terminations, losses of power or removals let an upgrade follow a
broken installation while the service starts beside it; a removal lets both find no
token; `MCTokenProvisioning` assumes that tokens never run out. In
`LinuxDisks` four changes let a mount be covered and uncovered before and after the
table is read, and four-bit words let a product wrap. In `LinuxProc` four steps let
two cores move, one be set back and one go or come; every combination of seven lines
of `/proc/meminfo` is tried, and a negative difference would show in a word of six
bits, while no sum reaches it. In `DarwinSections` two steps let a volume go and
another come between counting and listing, or the clock be set twice; the two orders
of boot time and clock are there with an uptime of zero and one.

*Deadlock.* It is checked everywhere but in the two token runs, where the system
stops when a server listens and nobody installs, rotates, removes or kills any more.

### Fairness

- `SnapshotService`: weak fairness of each handler (the Go scheduler runs what can
  run) and strong fairness of `Lock`: a `sync.Mutex` is handed to the longest
  waiter once one has waited for a millisecond. `ImpatientSpec` adds that clients
  give up eventually: HTTP clients have time-outs (the Home Assistant integration
  asks for ten seconds). Without it a command that hangs is never stopped, which is
  what `SnapshotHang` shows. For a `statfs` on a dead server, which no context
  reaches, not even that helps: with `Blocking = {"disks"}` TLC finds the deadlock in
  which every handler waits for the mutex. No run is about it, as nothing the program
  promises covers it; the liveness checked by `Snapshot` assumes that only commands
  hang.
- `GpuDiscovery`: a request that has begun goes on, and time passes. Neither
  requests nor crashes are assumed to happen. `EventuallyRight` is therefore about
  the answers that are given.
- `TokenProvisioning`: a program that runs goes on, and systemd starts the service
  five seconds after it failed (`Restart=on-failure`, `RestartSec=5s`): after an exit
  with an error or a signal like SIGKILL. After SIGTERM, SIGINT or SIGHUP, a clean end
  to systemd, nothing is assumed to start it: `Terminate` makes `active` false, and
  `InstalledServiceListens` excepts a service that was told to terminate.
- `DarwinSections`: the goroutine of a request goes on, a command that neither fails
  nor hangs ends, and the timer of `context.WithTimeout` fires. Nobody is assumed to
  give up, and a command may hang for ever: `PowermetricsGivenUp` holds for the one
  command with a limit, and would not for the others.
- `LinuxProc`, `LinuxDisks`, `AgentServing`: no liveness is stated, so no fairness.

### What was found

1. `collector_timeout` is documented as a time-out of each collector and reaches
   none (`SnapshotHang`): a command that hangs holds the mutex, and `/health` waits
   with everybody else.
2. Two collectors that fail at once count one failure, so that the second failure in
   a row does not rediscover as planned (`GpuLostFailure`). With one collector it
   holds when the record can be saved or the failed save leaves nothing
   (`GpuAlone`, `ConsecutiveFailuresRediscoverHolds`); a crash, or a file that cannot
   be opened, also loses the count.
3. A card that was taken out keeps being answered as available for up to a day, as
   its fingerprint is taken from the record itself (`GpuDeadPath`).
4. The token that `rotate` prints is accepted only after a restart of the service,
   which the procedure of `docs/TOKEN_OPERATIONS.md` does not mention
   (`TokenRotated`).
5. No document speaks of it, so no run is about it: an installer that is killed, or
   runs out of disk, while it writes a new configuration leaves a partial one, which
   later installations keep. The service then exits at every start;
   `InstalledServiceListens` excepts this case.
6. Nor of this: as the age of the cache is a difference of wall-clock times, a clock
   that is set back by an hour keeps a snapshot for an hour longer, without an error.
   `StaleOnlyWhileDegraded` allows exactly that and no more.

## 4. The proofs

`SnapshotServiceProofs` proves, for every set of requests, list of sections, TTL and
length of the run, and a wall clock that is set back and forward any number of times,
from the named assumption `ConstantsAssumption` alone:

- `TypeCorrect`: the type invariant.
- `Invariance`: the inductive invariant `Inv`, which adds to the type that only the
  holder of the mutex is between lock and unlock (`MutualExclusion`), that the cache
  is dated between its decision and its stamp (`CacheDated`), that the instant at which
  a handler read the clock lies between its arrival, the cache and now (`HandlerDated`),
  that a collection is due, that is, replaces a cache that had expired
  (`CollectionDue`), that an answer is as new as the request's floor
  (`AnswerDated`), and that what is not in use is at rest (`Quiescent`). None
  of the promises is inductive alone: a cache may be replaced only because the
  handler that replaces it held the mutex since it saw it expire. Instants are ordered
  in all that happened until then, the time that passed and the settings of the clock
  (`NotAfter`), and not by what the wall clock said; `FreshOrExpired` is the only step
  from that to the true age of the cache, and where the slack of the two promises
  comes from.
- `NeverBackwardsHolds`, `RefreshesSpacedByTTLHolds`, `StaleOnlyWhileDegradedHolds`: the promises.
- `Implementation`: `Spec => AtomicSpec`. The atomic instant of a request is the
  step that answers it, and the time it decided on is `seen`.

`AgentServingProofs` proves, for every set of files, environments and flags, from
`LayersAssumption` alone, `TypeCorrect`, `ExposedOnlyWithTokenHolds` and
`HighestLayerDecidesHolds`. Its invariant says what the configuration is at each
stage (`Built`), that it is valid once checked (`Vetted`), that authentication has a
token to compare with (`Armed`), and that only a listener at a non-local address is
reached (`Reached`). `IsNonLocalAddr` decides by the text of the address and the
listener by what it binds; the proof rests on the first covering the second.

`GpuDiscoveryProofs` proves `TypeCorrect`, `RecordsTruthfulHolds` and
`AnswersRecentHolds` for every number of collectors on the file, every TTL and
threshold, every host and every fault, from `ConstantsAssumption`. Its invariant
says that the host's first choice is dated to now (`Current`), and that the file
(`FileTrue`) and each collector at work (`CollectorsTrue`) hold a record that is true
to its date: the property alone is not inductive, as a collector may save at any
time what it loaded long ago. `ConsecutiveFailuresRediscoverHolds` is about one collector (`Alone`)
whose program is not killed and can open the file (`SavesCome`), with every
threshold, every host, cancellations, full disks and a clock that is set. Both are
needed: `GpuLostFailure` shows what two collectors do, and a program that is killed
between the failure and the write forgets it. Its invariant `FailuresTold` says
that what the next collection will know of the failures in a row, from the file or
from the record that is being saved, is no less than their number; a save that
fails in the middle leaves an empty file, and then the next collection rediscovers.

`TokenProvisioningProofs` proves `TypeCorrect`, `InstalledTokenAcceptedHolds`,
`UpgradeKeepsTokenHolds` and `InstalledServiceStartsHolds` for every bound and
whoever rotates, from `ConstantsAssumption`. Its invariant says that only tokens are
renamed over the file (`Generated`), what the installer knows of the file at each of
its places (`Looked`), that its configuration asks for a token (`Configured`),
that only a server that listens accepts anything (`Listening`), and that after an
installation a server that is still writing holds the token in the file
(`Installed`). `InstalledServiceStarts` is the safety half of
`InstalledServiceListens`, which TLC checks under fairness: nothing that an
installation leaves, and nothing that happens after it but a rotation by root,
refuses the service a start, which systemd gives it unless it was told to terminate. It needs
more than it says (`Startable`): after the `chown` only the service user renames files
(`Handed`), only a loss of power empties a file, and it ends an installation whose
file had not reached the disk (`Filled`), and the configuration is there from the
moment the installer passed it (`Settled`).

`LinuxDisksProofs` proves `TypeCorrect`, `BytesAddUpHolds`,
`OneVolumePerPointHolds` and `UndisturbedCompleteHolds` for every mount table and
word size: the clamp makes the unsigned difference exact, a point is answered only
when it is first seen (`Visited`), and, as long as nothing is mounted or unmounted,
the lines that are left are the end of the table (`EndOfTable`), so that how many
are left tells which points were seen (`Followed`) and which volumes were found
(`FoundSoFar`).

`LinuxProcProofs` proves, for every set of cores, every content of `/proc` and every
word size, from `ConstantsAssumption`:

- `TypeCorrect` and `MemoryAddsUpHolds`, the latter as for the disks.
- `UtilizationProperHolds`, `UtilizationTrueHolds` and `PerCoreInPlaceHolds`. The
  invariant (`Counted`) says that while a request waits, the first reading has what every
  counter had then (`AtStart`, `FirstReading`), and that a core of which nothing was set back has since
  counted the time that truly passed, the guests' within the user time (`Accounted`).
- `EstimateNotOptimisticHolds`, under the assumption `AmountsFit` that no line of
  `/proc/meminfo` tells more than a word of bytes, as each of those bytes has an
  address. The sum of several lines may still wrap: it only gets smaller by it.

The first line of `/proc/stat` is the sum over all cores, and the community modules
define a sum over a set by recursion on it. `SumAndOrderTheorems` proves what is
needed of it (that there is one, that it is a number, that sums add up) without an
induction scheme: the exceptions to a claim, if any, include a set without a smaller
one, and it is none. In the same way it proves that a finite set of numbers
has a list in increasing order, with each number at the place that its rank gives.

`DarwinSectionsProofs` proves `TypeCorrect`, `UptimeProperHolds`,
`MemoryAddsUpHolds`, `AppleGpuNamedHolds` and `MountedVolumesReportedHolds` for every machine, set of volumes and
set of commands that fail or hang, from `ConstantsAssumption`, which says that the
GPU of an Apple processor is listed if any is, and `CountsAssumption`, which says
that the memory of the machine fits a word. Its invariant says which section is
built at each place, and that the uptime is not known before the boot time was read
(`Shape`), and that the section names the GPU from the moment it has devices, not
only when it is answered (`GpuNamed`): a command that fails later takes nothing away.
For the volumes, the invariant `Reporting` says that between the counting and the
listing a volume that stays only moves to the front, within what was counted
(`WithinCount`), and that from then on each is either still to be asked about or
reported, never both and never twice (`Owed`).

Only model-checked: liveness and everything under fairness, which TLAPS does not
reach (`EveryRequestAnswered`, `EventuallyRight`, `InstalledServiceListens`,
`PowermetricsGivenUp`). Every invariant and every action property of a passing run
is proved. The properties of the violation runs are false, with the one exception
above: `ConsecutiveFailuresRediscover` holds of one collector and not of two.

## 5. The plan

Built so far, in the order of what matters most: the snapshot service and its
abstract specification, the GPU discovery, the token, configuration with the API,
disks, then CPU and memory, the macOS sections, a wall clock that is set, a loss of
power, and proofs about each. Next:

1. *Proofs*: every safety property that is checked is proved; what is left is to
   say more: an abstract specification of the discovery file, as there is one of the
   snapshot service, and what the two of them together promise a reader of the GPU
   section.
2. *The installer*: a configuration that names another token file, and `PURGE`.
3. *GPU*: a discovery in several steps while the host changes.

### Not modelled

- The response schema (types only), the default collector (constants only) and
  containers (recipes).
- The macOS and Windows installers: variants of the Linux one without its ownership
  steps. The download installer and the release pipeline: programs of other
  machines, one run at a time, without state that outlives them here.
- How text is parsed: the lines of `/proc`, the output of commands, JSON. A reading
  succeeds or fails as a whole; tests reach that, and a model would repeat the code.
- The metrics of `nvidia-smi` and sysfs: they are formatted, not decided upon.
- The clients of the agent. The Home Assistant integration is not in this
  repository; `docs/superpowers/specs` says that it names the sensor of a core by
  its index, which is why `PerCoreInPlace` asks for it.
