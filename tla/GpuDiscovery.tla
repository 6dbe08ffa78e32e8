----------------------------- MODULE GpuDiscovery -----------------------------
(***************************************************************************)
(* The GPU section on Linux (internal/collector/collector_linux_gpu.go):   *)
(* which detector serves the host is discovered once and kept in a file,   *)
(* gpu-discovery.json, that later collections reuse while it is fresh and  *)
(* matches the host, and rewrite when a collection fails or recovers.      *)
(*                                                                         *)
(* Nothing locks the file. GET /v1/gpu runs a collector in each request,   *)
(* GET /v1/stats another one, so collectors interleave between the load,   *)
(* the command they run and the two halves of os.WriteFile, truncation and *)
(* write. The file outlives a crash of the program.                        *)
(*                                                                         *)
(* Time is kept as ages: of a record, since its DiscoveredAt; of a         *)
(* detector, since it was last the host's first choice. The age of a       *)
(* record is told by the wall clock, which may be set. Ages stop at Oldest,*)
(* beyond which the code does not tell them apart.                         *)
(***************************************************************************)
EXTENDS Integers

CONSTANTS
  Collectors,      \* requests that collect the GPU section
  Hosts,           \* the states the host may be in: see HostState
  AvailableTTL,    \* linuxGPUAvailableDiscoveryTTL
  UnsupportedTTL,  \* linuxGPUUnsupportedDiscoveryTTL
  Threshold,       \* linuxGPUFailureRediscoveryThreshold
  MaxChanges,      \* bound on the changes of the host
  MaxBack,         \* bound on how far the wall clock is set back in all
  Faults           \* what else may go wrong: see FaultKinds

Detectors == {"raspberry-pi", "nvidia", "amd", "intel", "drm"}
None      == "none"      \* linuxGPUUnsupportedDiscoveryDetector

\* board: what the device tree says. tool: nvidia-smi. card: the vendor of the
\* card in /sys/class/drm.
Vendors   == {"broadcom", "amd", "intel", "other"}
HostState == [name: STRING, board: {"pi", "pc"},
              tool: {"absent", "works", "fails"}, card: Vendors \cup {None}]

FaultKinds == {"crash", "cancel", "open", "write", "clock"}

ASSUME ConstantsAssumption ==
  /\ Hosts \subseteq HostState
  /\ AvailableTTL \in Nat /\ UnsupportedTTL \in Nat
  /\ UnsupportedTTL <= AvailableTTL
  /\ Threshold \in Nat \ {0}
  /\ MaxChanges \in Nat /\ MaxBack \in Nat
  /\ Faults \subseteq FaultKinds

VARIABLES
  host,      \* the host
  changes,   \* how often it changed
  file,      \* what gpu-discovery.json holds: see FileStates
  saved,     \* the discovery it holds, when it holds one
  pc,        \* where each collector is
  record,    \* the discovery it works with
  next,      \* where it goes on after saving it
  section,   \* the section it answers with
  back,      \* history: how far the wall clock was set back
  since,     \* history: time since each detector was the host's first choice
  streak     \* history: failures in a row of the cached detector

disk    == <<file, saved>>
local   == <<record, next, section>>
history == <<back, since, streak>>
vars    == <<host, changes, disk, pc, local, history>>

Oldest == AvailableTTL + MaxBack
Age    == (-MaxBack)..Oldest

\* The host of a fingerprint, or of none.
Names == {h.name : h \in Hosts} \cup {""}

\* card is the device of the fingerprint, None for a detector that has none.
Record == [detector: Detectors \cup {None}, age: Age, failures: 0..Threshold,
           name: Names, card: Vendors \cup {None}]

\* Only a whole file is a discovery for loadDiscovery. The next write tells an
\* empty file from one with parts of two records in it.
FileStates == {"absent", "empty", "torn", "whole"}

Sections == {"unset", "available", "unavailable", "unsupported"}

NoRecord == [detector |-> None, age |-> 0, failures |-> 0, name |-> "", card |-> None]

Available(r) == r.detector # None

-------------------------------------------------------------------------------
(* Detection.                                                              *)

\* The detectors of the registry that would discover a device on h.
Applies(h) ==
  {d \in Detectors :
     \/ d = "raspberry-pi" /\ (h.board = "pi" \/ h.card = "broadcom")
     \/ d = "nvidia"       /\ h.tool # "absent"
     \/ d \in {"amd", "intel"} /\ h.card = d
     \/ d = "drm"          /\ h.card # None}

Rank == [d \in Detectors |->
           CASE d = "raspberry-pi" -> 1 [] d = "nvidia" -> 2 [] d = "amd" -> 3
             [] d = "intel" -> 4 [] d = "drm" -> 5]

\* The first detector of the registry that applies.
FirstChoice(h) ==
  IF Applies(h) = {} THEN None
  ELSE CHOOSE d \in Applies(h) : \A e \in Applies(h) : Rank[d] <= Rank[e]

\* Only a device found under /sys/class/drm carries IDs into the fingerprint.
DeviceOf(d, h) ==
  IF d \in {"amd", "intel", "drm"} \/ (d = "raspberry-pi" /\ h.board = "pc")
  THEN h.card ELSE None

\* Slip: the fingerprint is left out.
DiscoveredAnywhere(h) ==
  [detector |-> FirstChoice(h), age |-> 0, failures |-> 0,
   card |-> DeviceOf(FirstChoice(h), h)]

Discovered(h) ==
  [detector |-> FirstChoice(h), age |-> 0, failures |-> 0,
   name |-> h.name, card |-> DeviceOf(FirstChoice(h), h)]

TTLOf(r) == IF Available(r) THEN AvailableTTL ELSE UnsupportedTTL

\* Slip: one TTL for both kinds of discovery.
FreshAsAvailable(r) == r.age < AvailableTTL

\* Slip: a discovery is good for ever.
FreshForEver(r) == TRUE

DiscoveryFresh(r) == r.age < TTLOf(r)

\* The IDs of a card that is gone are taken from the record itself.
FingerprintMatches(r) ==
  /\ r.name = host.name
  /\ r.card = None \/ host.card = None \/ host.card = r.card

Usable(r) == DiscoveryFresh(r) /\ FingerprintMatches(r)

\* Only nvidia-smi can fail a collection. The other detectors report whatever
\* they can read of the device, which may be nothing.
Fails(r, cancelled) ==
  r.detector = "nvidia" /\ (host.tool # "works" \/ cancelled)

MayCancel == IF "cancel" \in Faults THEN BOOLEAN ELSE {FALSE}

\* Counters stop at Threshold, beyond which no decision depends on them.
Counted(n) == IF n < Threshold THEN n + 1 ELSE n

Older(n) == IF n < Oldest THEN n + 1 ELSE n

\* Later on the clock can be set back by the rest of MaxBack only.
Later(n) == IF n < Oldest - back THEN n + 1 ELSE n

-------------------------------------------------------------------------------
Init ==
  /\ host \in Hosts
  /\ changes = 0
  /\ file = "absent"
  /\ saved = NoRecord
  /\ pc = [c \in Collectors |-> "idle"]
  /\ record = [c \in Collectors |-> NoRecord]
  /\ next = [c \in Collectors |-> "answered"]
  /\ section = [c \in Collectors |-> "unset"]
  /\ since = [d \in Detectors \cup {None} |->
                IF d = FirstChoice(host) THEN 0 ELSE Oldest]
  /\ streak = 0
  /\ back = 0

(* The world: the host changes, time passes, the clock is set, the program *)
(* is killed.                                                              *)

ChangeHost ==
  /\ changes < MaxChanges
  /\ changes' = changes + 1
  /\ host' \in Hosts \ {host}
  /\ since' = [since EXCEPT ![FirstChoice(host')] = 0]
  /\ UNCHANGED <<disk, pc, local, streak, back>>

\* A collector that is idle or discovering has no record of its own.
HasRecord(c) == pc[c] \notin {"idle", "discover"}

\* The wall clock moves, and with it the age of every record.
Redate(Aged(_)) ==
  /\ saved' = IF file = "whole" THEN [saved EXCEPT !.age = Aged(@)] ELSE saved
  /\ record' = [c \in Collectors |->
                  IF HasRecord(c) THEN [record[c] EXCEPT !.age = Aged(@)] ELSE record[c]]

Tick ==
  /\ Redate(Later)
  /\ since' = [d \in Detectors \cup {None} |->
                 IF d = FirstChoice(host) THEN 0 ELSE Older(since[d])]
  /\ UNCHANGED <<host, changes, file, pc, next, section, streak, back>>

\* The wall clock is set, without time passing.
SetClockBack ==
  /\ "clock" \in Faults /\ back < MaxBack
  /\ back' = back + 1
  /\ Redate(LAMBDA n : n - 1)
  /\ UNCHANGED <<host, changes, file, pc, next, section, since, streak>>

SetClockForward ==
  /\ "clock" \in Faults
  /\ Redate(Later)
  /\ UNCHANGED <<host, changes, file, pc, next, section, history>>

Reset(c) ==
  /\ pc' = [pc EXCEPT ![c] = "idle"]
  /\ record' = [record EXCEPT ![c] = NoRecord]
  /\ next' = [next EXCEPT ![c] = "answered"]
  /\ section' = [section EXCEPT ![c] = "unset"]

Crash ==
  /\ "crash" \in Faults
  /\ \E c \in Collectors : pc[c] # "idle"
  /\ pc' = [c \in Collectors |-> "idle"]
  /\ record' = [c \in Collectors |-> NoRecord]
  /\ next' = [c \in Collectors |-> "answered"]
  /\ section' = [c \in Collectors |-> "unset"]
  /\ UNCHANGED <<host, changes, disk, history>>

-------------------------------------------------------------------------------
(* collect, collectCached and rediscover.                                  *)

Goto(c, label) == pc' = [pc EXCEPT ![c] = label]
Answer(c, status) ==
  /\ Goto(c, "answered")
  /\ section' = [section EXCEPT ![c] = status]

\* collect: the file is read, and its discovery used if it is usable.
LoadUsable(c) ==
  /\ pc[c] = "idle"
  /\ file = "whole" /\ Usable(saved)
  /\ record' = [record EXCEPT ![c] = saved]
  /\ IF Available(saved)
       THEN Goto(c, "cached") /\ UNCHANGED section
       ELSE Answer(c, "unsupported")
  /\ UNCHANGED <<host, changes, disk, next, history>>

LoadUnusable(c) ==
  /\ pc[c] = "idle"
  /\ file = "whole" => ~Usable(saved)
  /\ Goto(c, "discover")
  /\ UNCHANGED <<host, changes, disk, local, history>>

\* Slip: a success renews DiscoveredAt.
CachedRenews(c) ==
  /\ pc[c] = "cached"
  /\ ~Fails(record[c], FALSE)
  /\ section' = [section EXCEPT ![c] = "available"]
  /\ record' = [record EXCEPT ![c].failures = 0, ![c].age = 0]
  /\ next' = [next EXCEPT ![c] = "answered"]
  /\ Goto(c, "save")
  /\ streak' = 0
  /\ UNCHANGED <<host, changes, disk, since, back>>

\* collectCached, the collection succeeds: earlier failures are cleared.
CachedSucceeds(c) ==
  /\ pc[c] = "cached"
  /\ ~Fails(record[c], FALSE)
  /\ section' = [section EXCEPT ![c] = "available"]
  /\ IF record[c].failures = 0
       THEN Goto(c, "answered") /\ UNCHANGED <<record, next>>
       ELSE /\ record' = [record EXCEPT ![c].failures = 0]
            /\ next' = [next EXCEPT ![c] = "answered"]
            /\ Goto(c, "save")
  /\ streak' = 0
  /\ UNCHANGED <<host, changes, disk, since, back>>

\* Slip: the threshold is off by one.
CachedFailsOnceMore(c) ==
  /\ pc[c] = "cached"
  /\ \E cancelled \in MayCancel : Fails(record[c], cancelled)
  /\ record' = [record EXCEPT ![c].failures = Counted(@)]
  /\ IF record[c].failures >= Threshold
       THEN next' = [next EXCEPT ![c] = "discover"] /\ UNCHANGED section
       ELSE /\ next' = [next EXCEPT ![c] = "answered"]
            /\ section' = [section EXCEPT ![c] = "unavailable"]
  /\ Goto(c, "save")
  /\ streak' = Counted(streak)
  /\ UNCHANGED <<host, changes, disk, since, back>>

\* collectCached, the collection fails: the failure is counted, and the
\* Threshold-th one rediscovers.
CachedFails(c) ==
  /\ pc[c] = "cached"
  /\ \E cancelled \in MayCancel : Fails(record[c], cancelled)
  /\ record' = [record EXCEPT ![c].failures = Counted(@)]
  /\ IF record[c].failures + 1 >= Threshold
       THEN next' = [next EXCEPT ![c] = "discover"] /\ UNCHANGED section
       ELSE /\ next' = [next EXCEPT ![c] = "answered"]
            /\ section' = [section EXCEPT ![c] = "unavailable"]
  /\ Goto(c, "save")
  /\ streak' = Counted(streak)
  /\ UNCHANGED <<host, changes, disk, since, back>>

\* rediscover: the detectors are tried in order.
Discover(c) ==
  /\ pc[c] = "discover"
  /\ record' = [record EXCEPT ![c] = Discovered(host)]
  /\ IF Applies(host) # {}
       THEN next' = [next EXCEPT ![c] = "collect"] /\ UNCHANGED section
       ELSE /\ next' = [next EXCEPT ![c] = "answered"]
            /\ section' = [section EXCEPT ![c] = "unsupported"]
  /\ Goto(c, "save")
  /\ streak' = 0
  /\ UNCHANGED <<host, changes, disk, since, back>>

\* rediscover: the detector that was found collects. A failure is not counted.
Collect(c) ==
  /\ pc[c] = "collect"
  /\ \E cancelled \in MayCancel :
       Answer(c, IF Fails(record[c], cancelled) THEN "unavailable" ELSE "available")
  /\ UNCHANGED <<host, changes, disk, record, next, history>>

\* saveDiscovery: os.WriteFile truncates the file, then writes it.
Truncate(c) ==
  /\ pc[c] = "save"
  /\ file' = "empty" /\ saved' = NoRecord
  /\ Goto(c, "write")
  /\ UNCHANGED <<host, changes, local, history>>

\* Another collector may have written after the truncation. The longer of the
\* two records then sticks out behind the shorter one.
Write(c) ==
  /\ pc[c] = "write"
  /\ \/ file' = "whole" /\ saved' = record[c]
     \/ file # "empty" /\ file' = "torn" /\ saved' = NoRecord
  /\ Goto(c, next[c])
  /\ UNCHANGED <<host, changes, local, history>>

\* The directory or the file cannot be opened. The error is ignored.
OpenFails(c) ==
  /\ "open" \in Faults
  /\ pc[c] = "save"
  /\ Goto(c, next[c])
  /\ UNCHANGED <<host, changes, disk, local, history>>

\* The disk is full: nothing, or a part of the record, is written.
WriteFails(c) ==
  /\ "write" \in Faults
  /\ pc[c] = "write"
  /\ \/ UNCHANGED disk
     \/ file' = "torn" /\ saved' = NoRecord
  /\ Goto(c, next[c])
  /\ UNCHANGED <<host, changes, local, history>>

Return(c) ==
  /\ pc[c] = "answered"
  /\ Reset(c)
  /\ UNCHANGED <<host, changes, disk, history>>

-------------------------------------------------------------------------------
Step(c) ==
  \/ CachedSucceeds(c) \/ CachedFails(c) \/ Discover(c) \/ Collect(c)
  \/ Truncate(c) \/ Write(c) \/ OpenFails(c) \/ WriteFails(c) \/ Return(c)

Load(c) == LoadUsable(c) \/ LoadUnusable(c)

Next ==
  \/ \E c \in Collectors : Load(c) \/ Step(c)
  \/ ChangeHost \/ Tick \/ SetClockBack \/ SetClockForward \/ Crash

Spec == Init /\ [][Next]_vars

\* A request that has begun goes on, and time passes.
FairSpec == Spec /\ WF_vars(Tick) /\ \A c \in Collectors : WF_vars(Step(c))

-------------------------------------------------------------------------------
TypeOK ==
  /\ host \in Hosts
  /\ changes \in 0..MaxChanges
  /\ file \in FileStates
  /\ saved \in Record
  /\ pc \in [Collectors -> {"idle", "cached", "discover", "collect", "save",
                            "write", "answered"}]
  /\ record \in [Collectors -> Record]
  /\ next \in [Collectors -> {"answered", "discover", "collect"}]
  /\ section \in [Collectors -> Sections]
  /\ since \in [Detectors \cup {None} -> 0..Oldest]
  /\ back \in 0..MaxBack
  /\ streak \in 0..Threshold

\* The records in use: the one in the file, and those of collectors at work.
InUse ==
  (IF file = "whole" THEN {saved} ELSE {})
    \cup {record[c] : c \in {d \in Collectors : HasRecord(d)}}

\* Every record tells the truth about the moment it is dated to: its detector
\* was the host's first choice no longer ago than the record is old, give or take
\* what the clock was set back. Collectors that save what they loaded long ago
\* over a newer discovery, crashes between the two halves of a write and writes on
\* top of each other do not change that (saveDiscovery keeps DiscoveredAt; only
\* rediscover sets it).
RecordsTruthful == \A r \in InUse : since[r.detector] <= r.age + back

\* A collection that trusts the file trusts a detector that was the host's first
\* choice less than the TTL ago: "unsupported" is not repeated an hour after a
\* GPU appeared, and a detector is not used a day after it lost its place. A clock
\* that is set back, before or after the discovery, prolongs that by as much and
\* no more; one that is set forward does not.
AnswersRecent ==
  [][\A c \in Collectors :
       pc[c] = "idle" /\ pc'[c] \in {"cached", "answered"}
         => since[record'[c].detector] < TTLOf(record'[c]) + back]_vars

\* Threshold failures of the cached detector in a row lead to rediscovery.
ConsecutiveFailuresRediscover ==
  [][\A c \in Collectors :
       pc[c] = "cached" /\ pc'[c] # "cached" /\ streak' = Threshold
         => next'[c] = "discover"]_vars

\* A collector that stops working is not reported as available from the cache.
CachedPathWorks ==
  [][\A c \in Collectors :
       pc[c] = "cached" /\ pc'[c] # "cached" /\ section'[c] = "available"
         => record[c].card \in {None, host.card}]_vars

\* Once the host stops changing, the answers come to be, and stay, those of the
\* detector that is the host's first choice, or "unsupported" when there is none,
\* whatever the file held and however often a cancelled request counts as a failure
\* or a failed write spoils it.
EventuallyRight ==
  <>[](\A c \in Collectors :
         pc[c] = "answered" => record[c].detector = FirstChoice(host))
===============================================================================
