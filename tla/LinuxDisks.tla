------------------------------ MODULE LinuxDisks ------------------------------
(***************************************************************************)
(* The disks section on Linux (internal/collector collectDisks and         *)
(* linuxVolumeFromStat): the mount table is read once, then each mount     *)
(* point in it is asked for its capacity, one system call after the other, *)
(* while file systems are mounted, mounted over one another and unmounted. *)
(*                                                                         *)
(* The lines of /proc/mounts are well formed: the kernel writes them. The  *)
(* order of the answer, by mount point, is left out.                       *)
(***************************************************************************)
EXTENDS Integers, Sequences, FiniteSetsExt, SequencesExt

CONSTANTS
  Root,         \* the mount point that is always there
  Points,       \* the other mount points
  Hidden,       \* those whose path begins with /proc, /sys or /dev
  PseudoTypes,  \* the types that linuxSkipVolume knows
  FileSystems,  \* what may be mounted
  RootFileSystems,  \* what may be mounted as the root
  Word,         \* 2^64
  MaxMounts,    \* bound on the mount table
  MaxChanges    \* bound on the changes of the mount table

\* answers: whether statfs succeeds for this user.
IsFileSystem(f) ==
  f \in [type: STRING, block: Nat, count: Nat, available: Nat, answers: BOOLEAN]

ASSUME ConstantsAssumption ==
  /\ Root \notin Points
  /\ Hidden \subseteq Points
  /\ PseudoTypes \subseteq STRING
  /\ \A f \in FileSystems : IsFileSystem(f)
  /\ RootFileSystems \subseteq FileSystems
  /\ Word \in Nat \ {0}
  /\ MaxMounts \in Nat \ {0} /\ MaxChanges \in Nat

VARIABLES
  table,    \* the mount table, oldest mount first
  changes,  \* how often it changed
  pc,       \* where the collector is
  mounts,   \* the lines it has read and not yet visited
  seen,     \* the mount points it has visited
  volumes,  \* the volumes it has found
  quiet     \* history: nothing was mounted or unmounted since the table was read

vars == <<table, changes, pc, mounts, seen, volumes, quiet>>

Mounts == [point: Points \cup {Root}, fs: FileSystems]

MountedAt(p) == {i \in DOMAIN table : table[i].point = p}

\* What a path leads to: what was mounted last at p, or the directory p of the
\* root file system.
Top(p) == table[Max(MountedAt(IF MountedAt(p) = {} THEN Root ELSE p))].fs

-------------------------------------------------------------------------------
(* linuxVolumeFromStat.                                                    *)

SkipVolume(p, type) == p \in Hidden \/ type \in PseudoTypes

\* Slip: the product is not a word.
FreeWhole(f) == f.block * f.available

\* Slip: more may be free than there is, as on macOS.
FreeUnclamped(f) == (f.block * f.available) % Word

TotalBytes(f) == (f.block * f.count) % Word

\* File systems that are overdrawn report a negative number of free blocks, in
\* an unsigned word.
FreeBytes(f) ==
  Min({(f.block * f.available) % Word, TotalBytes(f)})

Volume(p, type, f) ==
  [point |-> p, type |-> type, total |-> TotalBytes(f), free |-> FreeBytes(f),
   used |-> (TotalBytes(f) - FreeBytes(f)) % Word]

-------------------------------------------------------------------------------
Init ==
  /\ table \in {<<[point |-> Root, fs |-> f]>> : f \in RootFileSystems}
  /\ changes = 0
  /\ pc = "idle"
  /\ mounts = <<>>
  /\ seen = {}
  /\ volumes = {}
  /\ quiet = TRUE

(* The host.                                                               *)

Change ==
  /\ changes < MaxChanges
  /\ changes' = changes + 1
  /\ quiet' = FALSE
  /\ UNCHANGED <<pc, mounts, seen, volumes>>

Mount ==
  /\ Len(table) < MaxMounts
  /\ \E p \in Points, f \in FileSystems :
       table' = Append(table, [point |-> p, fs |-> f])
  /\ Change

Unmount ==
  /\ \E p \in Points :
       /\ MountedAt(p) # {}
       /\ table' = RemoveAt(table, Max(MountedAt(p)))
  /\ Change

-------------------------------------------------------------------------------
(* collectDisks.                                                           *)

ReadMounts ==
  /\ pc = "idle"
  /\ mounts' = table
  /\ quiet' = TRUE
  /\ pc' = "visit"
  /\ UNCHANGED <<table, changes, seen, volumes>>

\* /proc is not there to be read.
ReadFails ==
  /\ pc = "idle"
  /\ pc' = "failed"
  /\ UNCHANGED <<table, changes, mounts, seen, volumes, quiet>>

\* The mount point was visited before: the line is passed over.
Pass ==
  /\ pc = "visit" /\ mounts # <<>>
  /\ Head(mounts).point \in seen
  /\ mounts' = Tail(mounts)
  /\ UNCHANGED <<table, changes, pc, seen, volumes, quiet>>

\* Slip: a mount point that does not answer ends the collection.
StatFailsOnce ==
  /\ pc = "visit" /\ mounts # <<>>
  /\ LET p == Head(mounts).point IN
       /\ p \notin seen
       /\ seen' = seen \cup {p}
       /\ MountedAt(p) # {} => ~Top(p).answers
  /\ mounts' = <<>>
  /\ UNCHANGED <<table, changes, pc, volumes, quiet>>

\* statfs fails: the file system refuses, or was unmounted and its directory
\* removed.
StatFails ==
  /\ pc = "visit" /\ mounts # <<>>
  /\ LET p == Head(mounts).point IN
       /\ p \notin seen
       /\ seen' = seen \cup {p}
       /\ MountedAt(p) # {} => ~Top(p).answers
  /\ mounts' = Tail(mounts)
  /\ UNCHANGED <<table, changes, pc, volumes, quiet>>

\* Slip: the mount points visited are not remembered.
StatForgets ==
  /\ pc = "visit" /\ mounts # <<>>
  /\ LET p == Head(mounts).point
         type == Head(mounts).fs.type
     IN  /\ p \notin seen
         /\ Top(p).answers
         /\ volumes' = IF SkipVolume(p, type) THEN volumes
                       ELSE volumes \cup {Volume(p, type, Top(p))}
  /\ mounts' = Tail(mounts)
  /\ UNCHANGED <<table, changes, pc, seen, quiet>>

\* statfs answers for what the path leads to now. The type is the one that was
\* read.
Stat ==
  /\ pc = "visit" /\ mounts # <<>>
  /\ LET p == Head(mounts).point
         type == Head(mounts).fs.type
     IN  /\ p \notin seen
         /\ seen' = seen \cup {p}
         /\ Top(p).answers
         /\ volumes' = IF SkipVolume(p, type) THEN volumes
                       ELSE volumes \cup {Volume(p, type, Top(p))}
  /\ mounts' = Tail(mounts)
  /\ UNCHANGED <<table, changes, pc, quiet>>

\* Without a volume the section is unavailable.
Answer ==
  /\ pc = "visit" /\ mounts = <<>>
  /\ pc' = IF volumes = {} THEN "unavailable" ELSE "available"
  /\ UNCHANGED <<table, changes, mounts, seen, volumes, quiet>>

Return ==
  /\ pc \in {"available", "unavailable", "failed"}
  /\ pc' = "idle"
  /\ seen' = {}
  /\ volumes' = {}
  /\ UNCHANGED <<table, changes, mounts, quiet>>

Next ==
  \/ Mount \/ Unmount
  \/ ReadMounts \/ ReadFails \/ Pass \/ StatFails \/ Stat \/ Answer \/ Return

Spec == Init /\ [][Next]_vars

-------------------------------------------------------------------------------
Bytes == 0..(Word - 1)

TypeOK ==
  /\ table \in Seq(Mounts) /\ Len(table) <= MaxMounts
  /\ changes \in 0..MaxChanges
  /\ pc \in {"idle", "visit", "available", "unavailable", "failed"}
  /\ mounts \in Seq(Mounts)
  /\ seen \subseteq Points \cup {Root}
  /\ \A v \in volumes :
       v \in [point: Points \cup {Root}, type: STRING,
              total: Bytes, free: Bytes, used: Bytes]
  /\ quiet \in BOOLEAN

\* The bytes of a volume add up, as numbers and not only as words, also those
\* of a file system that is overdrawn and those of one that took the place of
\* another between the two halves of a collection (linuxVolumeFromStat).
BytesAddUp == \A v \in volumes : v.used + v.free = v.total

\* A mount point is answered once, however many file systems are mounted on it
\* before, during and after the reading of the table (the sensors of a client
\* are named after it).
OneVolumePerPoint ==
  \A v, w \in volumes : v.point = w.point => v = w

Usable(m) == ~SkipVolume(m.point, m.fs.type) /\ m.fs.answers

NothingMountedOver == \A i, j \in DOMAIN table : table[i].point = table[j].point => i = j

\* With nothing mounted over anything, an undisturbed collection answers with
\* every file system that is usable, with its own type and capacity, and with no
\* other: one that does not answer does not hide those after it.
UndisturbedComplete ==
  pc \in {"available", "unavailable"} /\ quiet /\ NothingMountedOver =>
    volumes = {Volume(m.point, m.fs.type, m.fs) : m \in {n \in Range(table) : Usable(n)}}
===============================================================================
