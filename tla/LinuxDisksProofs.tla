--------------------------- MODULE LinuxDisksProofs ---------------------------
(***************************************************************************)
(* Proofs about LinuxDisks, for every mount table, every set of file       *)
(* systems and every size of a word: its type, that the bytes of a volume  *)
(* add up, that a mount point is answered once, and that an undisturbed    *)
(* collection answers with every usable file system.                       *)
(***************************************************************************)
EXTENDS LinuxDisks, SequenceTheorems, WellFoundedInduction, TLAPS

Paths == Points \cup {Root}

\* Something is always mounted as the root, and first.
Rooted == Len(table) > 0 /\ table[1].point = Root

\* What was found was visited.
Visited == \A v \in volumes : v.point \in seen

Inv == TypeOK /\ Rooted /\ Visited /\ BytesAddUp /\ OneVolumePerPoint

-------------------------------------------------------------------------------
\* Words.
LEMMA WordType == \A n \in Nat : n % Word \in Bytes
  BY ConstantsAssumption DEF Bytes

LEMMA WordOf == \A n \in Bytes : n % Word = n
  BY ConstantsAssumption DEF Bytes

\* linuxVolumeFromStat: the smaller of two words is no more than the total, so
\* that the difference does not wrap.
LEMMA VolumeAddsUp ==
  ASSUME NEW p \in Paths, NEW type \in STRING, NEW f \in FileSystems
  PROVE  /\ Volume(p, type, f) \in [point: Paths, type: STRING, total: Bytes, free: Bytes,
                                    used: Bytes]
         /\ Volume(p, type, f).point = p
         /\ Volume(p, type, f).used + Volume(p, type, f).free = Volume(p, type, f).total
<1>1. f.block * f.available \in Nat /\ f.block * f.count \in Nat
  BY ConstantsAssumption DEF IsFileSystem
<1> DEFINE left == (f.block * f.available) % Word
<1>2. left \in Bytes /\ TotalBytes(f) \in Bytes
  BY <1>1, WordType DEF TotalBytes
<1>3. FreeBytes(f) \in Bytes /\ FreeBytes(f) <= TotalBytes(f)
  <2>1. FreeBytes(f) = Min({left, TotalBytes(f)})
    BY DEF FreeBytes
  <2> HIDE DEF left
  <2>2. \E x \in {left, TotalBytes(f)} : \A y \in {left, TotalBytes(f)} : x <= y
    BY <1>2, ConstantsAssumption DEF Bytes
  <2> QED
    BY <1>2, <2>1, <2>2 DEF Min
<1>4. TotalBytes(f) - FreeBytes(f) \in Bytes
  BY <1>2, <1>3, ConstantsAssumption DEF Bytes
<1>5. (TotalBytes(f) - FreeBytes(f)) % Word = TotalBytes(f) - FreeBytes(f)
  BY <1>4, WordOf
<1>6. FreeBytes(f) \in Int /\ TotalBytes(f) \in Int
  BY <1>2, <1>3, ConstantsAssumption DEF Bytes
<1> QED
  BY <1>2, <1>3, <1>4, <1>5, <1>6 DEF Volume

\* A set of positions has a last one.
LEMMA LastPosition ==
  ASSUME NEW n \in Nat, NEW S \in SUBSET (1..n), S # {}
  PROVE  Max(S) \in S
<1> DEFINE R == OpToRel(<, Nat)
           T == {n - i : i \in S}
<1>1. T \subseteq Nat /\ T # {}
  <2>1. \A i \in S : n - i \in Nat
    OBVIOUS
  <2>2. T # {}
    OBVIOUS
  <2> QED
    BY <2>1, <2>2
<1>2. PICK x \in T : \A y \in T : <<y, x>> \notin R
  BY <1>1, NatLessThanWellFounded, WFMin
<1>3. \A y \in T : ~(y < x)
  BY <1>1, <1>2 DEF OpToRel
<1>4. PICK i \in S : x = n - i
  BY <1>2
<1>5. \A j \in S : i >= j
  BY <1>3, <1>4
<1> QED
  BY <1>4, <1>5 DEF Max

-------------------------------------------------------------------------------
(* The mount table.                                                        *)

\* Every path leads to a file system.
LEMMA TopType ==
  ASSUME TypeOK, Rooted, NEW p \in Paths
  PROVE  Top(p) \in FileSystems
<1> DEFINE S == MountedAt(IF MountedAt(p) = {} THEN Root ELSE p)
<1>1. Len(table) \in Nat /\ DOMAIN table = 1..Len(table)
  BY LenProperties DEF TypeOK
<1>2. S \subseteq 1..Len(table)
  BY <1>1 DEF MountedAt
<1>3. S # {}
  BY <1>1 DEF MountedAt, Rooted
<1>4. Max(S) \in 1..Len(table)
  BY <1>1, <1>2, <1>3, LastPosition
<1>5. table[Max(S)] \in Mounts
  <2> HIDE DEF S
  <2> QED
    BY <1>4, ElementOfSeq DEF TypeOK
<1> QED
  BY <1>5 DEF Top, Mounts

\* Mounting and unmounting keep a table with a root.
LEMMA MountType ==
  ASSUME TypeOK, Rooted, Mount \/ Unmount
  PROVE  table' \in Seq(Mounts) /\ Len(table') <= MaxMounts /\ Rooted'
<1>0. table \in Seq(Mounts) /\ Len(table) \in Nat /\ Len(table) <= MaxMounts /\ MaxMounts \in Nat
  BY LenProperties, ConstantsAssumption DEF TypeOK
<1>1. CASE Mount
  <2>1. PICK m \in Mounts : table' = Append(table, m)
    BY <1>1 DEF Mount, Mounts
  <2>2. Len(table) < MaxMounts
    BY <1>1 DEF Mount
  <2> QED
    BY <1>0, <2>1, <2>2, AppendProperties DEF Rooted
<1>2. CASE Unmount
  <2>1. PICK p \in Points : MountedAt(p) # {} /\ table' = RemoveAt(table, Max(MountedAt(p)))
    BY <1>2 DEF Unmount
  <2> DEFINE i == Max(MountedAt(p))
  <2>2. i \in MountedAt(p)
    <3>1. MountedAt(p) \subseteq 1..Len(table)
      BY <1>0, LenProperties DEF MountedAt
    <3> QED
      BY <1>0, <2>1, <3>1, LastPosition
  <2>3. i \in 1..Len(table) /\ table[i].point = p
    BY <1>0, <2>2, LenProperties DEF MountedAt
  <2>4. i # 1
    BY <2>3, ConstantsAssumption DEF Rooted
  <2> HIDE DEF i
  <2>5. table' = SubSeq(table, 1, i - 1) \o SubSeq(table, i + 1, Len(table))
    BY <2>1 DEF RemoveAt, i
  <2>6. \A j \in 1..Len(table) : table[j] \in Mounts
    BY <1>0, ElementOfSeq
  <2>7. /\ SubSeq(table, 1, i - 1) \in Seq(Mounts) /\ Len(SubSeq(table, 1, i - 1)) = i - 1
        /\ SubSeq(table, 1, i - 1)[1] = table[1]
    BY <1>0, <2>3, <2>4, <2>6, SubSeqProperties
  <2>8. /\ SubSeq(table, i + 1, Len(table)) \in Seq(Mounts)
        /\ Len(SubSeq(table, i + 1, Len(table))) = Len(table) - i
    BY <1>0, <2>3, <2>6, SubSeqProperties
  <2>9. /\ table' \in Seq(Mounts) /\ Len(table') = Len(table) - 1 /\ table'[1] = table[1]
    <3> DEFINE before == SubSeq(table, 1, i - 1)
               after  == SubSeq(table, i + 1, Len(table))
    <3>1. /\ before \in Seq(Mounts) /\ after \in Seq(Mounts) /\ table' = before \o after
          /\ Len(before) = i - 1 /\ Len(after) = Len(table) - i /\ before[1] = table[1]
      BY <2>5, <2>7, <2>8
    <3>2. 1 <= i - 1 /\ i \in Nat
      BY <1>0, <2>3, <2>4
    <3> HIDE DEF before, after
    <3>3. /\ before \o after \in Seq(Mounts)
          /\ Len(before \o after) = Len(before) + Len(after)
          /\ \A k \in 1..(Len(before) + Len(after)) :
               (before \o after)[k] = IF k <= Len(before) THEN before[k] ELSE after[k - Len(before)]
      BY <3>1, ConcatProperties
    <3>4. 1 \in 1..(Len(before) + Len(after)) /\ 1 <= Len(before)
      BY <1>0, <2>3, <3>1, <3>2
    <3>5. Len(before) + Len(after) = Len(table) - 1
      BY <1>0, <3>1, <3>2
    <3> QED
      BY <3>1, <3>3, <3>4, <3>5
  <2> QED
    BY <1>0, <2>3, <2>4, <2>9 DEF Rooted
<1> QED
  BY <1>1, <1>2

-------------------------------------------------------------------------------
LEMMA InitInv == Init => Inv
<1> SUFFICES ASSUME Init PROVE Inv
    OBVIOUS
<1> USE DEF Init
<1>1. PICK f \in RootFileSystems : table = <<[point |-> Root, fs |-> f]>>
  OBVIOUS
<1>2. [point |-> Root, fs |-> f] \in Mounts
  BY ConstantsAssumption DEF Mounts
<1>3. table \in Seq(Mounts) /\ Len(table) = 1 /\ Rooted
  BY <1>1, <1>2 DEF Rooted
<1>4. 0 \in 0..MaxChanges /\ 1 <= MaxMounts
  BY ConstantsAssumption
<1>5. TypeOK
  BY <1>3, <1>4 DEF TypeOK
<1> QED
  BY <1>3, <1>5 DEF Inv, Visited, BytesAddUp, OneVolumePerPoint

\* The next line of the table, and the rest of them.
LEMMA LineType ==
  ASSUME TypeOK, mounts # <<>>
  PROVE  /\ Head(mounts).point \in Paths /\ Head(mounts).fs.type \in STRING
         /\ Tail(mounts) \in Seq(Mounts)
<1>1. Head(mounts) \in Mounts /\ Tail(mounts) \in Seq(Mounts)
  BY HeadTailProperties DEF TypeOK
<1>2. Head(mounts).point \in Paths /\ Head(mounts).fs \in FileSystems
  BY <1>1 DEF Mounts, Paths
<1> QED
  BY <1>1, <1>2, ConstantsAssumption DEF IsFileSystem

\* Every step keeps the invariant: a volume is added at a mount point that was
\* not visited, and the point is visited with it.
LEMMA StepInv == Inv /\ [Next]_vars => Inv'
<1> SUFFICES ASSUME Inv, [Next]_vars
             PROVE  Inv'
    OBVIOUS
<1>0. TypeOK /\ Rooted /\ Visited /\ BytesAddUp /\ OneVolumePerPoint
  BY DEF Inv
<1> USE DEF Visited, BytesAddUp, OneVolumePerPoint
<1>1. CASE Mount \/ Unmount
  <2>1. changes' \in 0..MaxChanges
    BY <1>0, <1>1, ConstantsAssumption DEF TypeOK, Mount, Unmount, Change
  <2>2. quiet' = FALSE /\ UNCHANGED <<pc, mounts, seen, volumes>>
    BY <1>1 DEF Mount, Unmount, Change
  <2> QED
    BY <1>0, <1>1, <2>1, <2>2, MountType DEF Inv, TypeOK
<1>2. CASE ReadMounts
  BY <1>0, <1>2 DEF Inv, TypeOK, Rooted, ReadMounts
<1>3. CASE ReadFails
  BY <1>0, <1>3 DEF Inv, TypeOK, Rooted, ReadFails
<1>4. CASE Pass
  BY <1>0, <1>4, LineType DEF Inv, TypeOK, Rooted, Pass
<1>5. CASE StatFails
  <2>1. UNCHANGED <<table, changes, pc, volumes, quiet>> /\ mounts' = Tail(mounts) /\ mounts # <<>>
        /\ seen' = seen \cup {Head(mounts).point}
    BY <1>5 DEF StatFails
  <2> QED
    BY <1>0, <2>1, LineType DEF Inv, TypeOK, Rooted, Paths
<1>6. CASE Stat
  <2> DEFINE p == Head(mounts).point
             v == Volume(p, Head(mounts).fs.type, Top(p))
  <2>1. /\ UNCHANGED <<table, changes, pc, quiet>> /\ mounts' = Tail(mounts) /\ mounts # <<>>
        /\ seen' = seen \cup {p} /\ p \notin seen
        /\ volumes' = volumes \/ volumes' = volumes \cup {v}
    BY <1>6 DEF Stat
  <2>2. p \in Paths /\ Head(mounts).fs.type \in STRING /\ Tail(mounts) \in Seq(Mounts)
    BY <1>0, <2>1, LineType
  <2>3. /\ v \in [point: Paths, type: STRING, total: Bytes, free: Bytes, used: Bytes]
        /\ v.point = p /\ v.used + v.free = v.total
    BY <1>0, <2>2, TopType, VolumeAddsUp
  <2> HIDE DEF p, v
  <2>4. TypeOK' /\ Rooted'
    BY <1>0, <2>1, <2>2, <2>3 DEF TypeOK, Rooted, Paths
  <2>5. Visited' /\ BytesAddUp' /\ OneVolumePerPoint'
    BY <1>0, <2>1, <2>3
  <2> QED
    BY <2>4, <2>5 DEF Inv
<1>7. CASE Answer
  BY <1>0, <1>7 DEF Inv, TypeOK, Rooted, Answer
<1>8. CASE Return
  BY <1>0, <1>8 DEF Inv, TypeOK, Rooted, Return
<1>9. CASE UNCHANGED vars
  BY <1>0, <1>9 DEF Inv, TypeOK, Rooted, vars
<1> QED
  BY <1>1, <1>2, <1>3, <1>4, <1>5, <1>6, <1>7, <1>8, <1>9 DEF Next

\* The inductive invariant of a collection of the disks.
THEOREM Invariance == Spec => []Inv
  BY InitInv, StepInv, PTL DEF Spec

\* The mount table and the collection keep their types.
THEOREM TypeCorrect == Spec => []TypeOK
<1>1. Inv => TypeOK
  BY DEF Inv
<1> QED
  BY <1>1, Invariance, PTL

\* For every size of a word, and file systems that overflow it, the bytes add up.
THEOREM BytesAddUpHolds == Spec => []BytesAddUp
<1>1. Inv => BytesAddUp
  BY DEF Inv
<1> QED
  BY <1>1, Invariance, PTL

\* For every mount table, and while it changes, a mount point is answered once.
THEOREM OneVolumePerPointHolds == Spec => []OneVolumePerPoint
<1>1. Inv => OneVolumePerPoint
  BY DEF Inv
<1> QED
  BY <1>1, Invariance, PTL

-------------------------------------------------------------------------------
(* An undisturbed collection. While nothing is mounted or unmounted, the   *)
(* lines that are left are the end of the table, so that how many are left *)
(* tells which were visited and what was found on them.                    *)

VisitedLines == 1..(Len(table) - Len(mounts))

\* What the first lines of a table without a mount over another come to.
Found(lines) ==
  {Volume(table[i].point, table[i].fs.type, table[i].fs) :
     i \in {j \in lines : Usable(table[j])}}

\* A collection starts from nothing.
FreshStart == pc = "idle" => seen = {} /\ volumes = {}

\* The lines that are left are the last ones of the table.
EndOfTable ==
  pc = "visit" /\ quiet =>
    /\ Len(mounts) <= Len(table)
    /\ \A i \in 1..Len(mounts) : mounts[i] = table[Len(table) - Len(mounts) + i]

\* The mount points of the others were visited, and no other.
Followed ==
  pc = "visit" /\ quiet => seen = {table[i].point : i \in VisitedLines}

\* And the usable ones among them were found, and no other.
FoundSoFar ==
  pc = "visit" /\ quiet /\ NothingMountedOver => volumes = Found(VisitedLines)

FoundAll ==
  pc \in {"available", "unavailable"} /\ quiet /\ NothingMountedOver =>
    volumes = Found(1..Len(table))

Collected == FreshStart /\ EndOfTable /\ Followed /\ FoundSoFar /\ FoundAll

\* With nothing mounted over anything, a mount point leads to its own line.
LEMMA TopOfLine ==
  ASSUME TypeOK, NothingMountedOver, NEW i \in 1..Len(table)
  PROVE  Top(table[i].point) = table[i].fs
<1>1. Len(table) \in Nat /\ DOMAIN table = 1..Len(table)
  BY LenProperties DEF TypeOK
<1>2. MountedAt(table[i].point) = {i}
  BY <1>1 DEF MountedAt, NothingMountedOver
<1>3. Max({i}) = i
  <2>1. Max({i}) \in {i}
    BY <1>1, LastPosition, {i} \in SUBSET (1..Len(table)), {i} # {}
  <2> QED
    BY <2>1
<1> QED
  BY <1>2, <1>3 DEF Top

\* The next line is the one after those visited; without it, one more is.
LEMMA NextLine ==
  ASSUME TypeOK, EndOfTable, pc = "visit", quiet, mounts # <<>>
  PROVE  /\ Len(table) - Len(mounts) + 1 \in 1..Len(table)
         /\ Head(mounts) = table[Len(table) - Len(mounts) + 1]
         /\ Len(Tail(mounts)) \in Nat /\ Len(Tail(mounts)) <= Len(table)
         /\ 1..(Len(table) - Len(Tail(mounts))) = VisitedLines \cup {Len(table) - Len(mounts) + 1}
         /\ \A i \in 1..Len(Tail(mounts)) :
              Tail(mounts)[i] = table[Len(table) - Len(Tail(mounts)) + i]
<1>1. Len(table) \in Nat /\ Len(mounts) \in Nat \ {0}
  BY LenProperties, EmptySeq DEF TypeOK
<1>2. /\ Len(mounts) <= Len(table)
      /\ \A i \in 1..Len(mounts) : mounts[i] = table[Len(table) - Len(mounts) + i]
  BY DEF EndOfTable
<1>3. /\ Head(mounts) = mounts[1]
      /\ Len(Tail(mounts)) = Len(mounts) - 1
      /\ \A i \in 1..Len(Tail(mounts)) : Tail(mounts)[i] = mounts[i + 1]
  <2>1. Head(mounts) = mounts[1]
    BY <1>1
  <2> QED
    BY <2>1, HeadTailProperties DEF TypeOK
<1>4. \A i \in 1..(Len(mounts) - 1) : mounts[i + 1] = table[Len(table) - (Len(mounts) - 1) + i]
  <2> TAKE i \in 1..(Len(mounts) - 1)
  <2>1. i + 1 \in 1..Len(mounts)
    BY <1>1
  <2>2. Len(table) - Len(mounts) + (i + 1) = Len(table) - (Len(mounts) - 1) + i
    BY <1>1
  <2> QED
    BY <1>2, <2>1, <2>2
<1>5. 1..(Len(table) - (Len(mounts) - 1)) = VisitedLines \cup {Len(table) - Len(mounts) + 1}
  BY <1>1, <1>2 DEF VisitedLines
<1>6. Head(mounts) = table[Len(table) - Len(mounts) + 1]
  BY <1>1, <1>2, <1>3
<1>7. Len(table) - Len(mounts) + 1 \in 1..Len(table)
  BY <1>1, <1>2
<1>8. Len(mounts) - 1 \in Nat /\ Len(mounts) - 1 <= Len(table)
  BY <1>1, <1>2
<1> QED
  BY <1>3, <1>4, <1>5, <1>6, <1>7, <1>8

\* What one more line adds to what was found.
LEMMA FoundAdds ==
  ASSUME NEW lines, NEW n, NEW new, new = lines \cup {n}
  PROVE  Found(new) = IF Usable(table[n])
                        THEN Found(lines) \cup {Volume(table[n].point, table[n].fs.type, table[n].fs)}
                        ELSE Found(lines)
BY DEF Found

LEMMA InitCollected == Init => Collected
BY DEF Init, Collected, FreshStart, EndOfTable, Followed, FoundSoFar, FoundAll

\* Every step keeps what is known of an undisturbed collection.
LEMMA StepCollected == Inv /\ Collected /\ [Next]_vars => Collected'
<1> SUFFICES ASSUME Inv, Collected, [Next]_vars
             PROVE  Collected'
    OBVIOUS
<1>0. TypeOK /\ FreshStart /\ EndOfTable /\ Followed /\ FoundSoFar /\ FoundAll
  BY DEF Inv, Collected
<1>l. Len(table) \in Nat /\ Len(mounts) \in Nat /\ DOMAIN table = 1..Len(table)
  BY <1>0, LenProperties DEF TypeOK
<1>1. CASE Mount \/ Unmount
  <2>1. quiet' = FALSE /\ UNCHANGED <<pc, mounts, seen, volumes>>
    BY <1>1 DEF Mount, Unmount, Change
  <2> QED
    BY <1>0, <2>1 DEF Collected, FreshStart, EndOfTable, Followed, FoundSoFar, FoundAll
<1>2. CASE ReadMounts
  <2>1. /\ UNCHANGED table /\ mounts' = table /\ quiet' = TRUE /\ pc' = "visit"
        /\ seen' = {} /\ volumes' = {}
    BY <1>0, <1>2 DEF ReadMounts, FreshStart
  <2>2. VisitedLines' = {}
    BY <1>l, <2>1 DEF VisitedLines
  <2>3. EndOfTable'
    BY <1>l, <2>1 DEF EndOfTable
  <2>4. Followed' /\ FoundSoFar'
    BY <2>1, <2>2 DEF Followed, FoundSoFar, Found
  <2> QED
    BY <2>1, <2>3, <2>4 DEF Collected, FreshStart, FoundAll
<1>3. CASE ReadFails
  BY <1>3 DEF ReadFails, Collected, FreshStart, EndOfTable, Followed, FoundSoFar, FoundAll
<1>4. CASE Pass \/ StatFails \/ Stat
  <2> DEFINE n == Len(table) - Len(mounts) + 1
             p == Head(mounts).point
  <2>1. /\ UNCHANGED <<table, changes, pc, quiet>> /\ pc = "visit" /\ mounts # <<>>
        /\ mounts' = Tail(mounts)
    BY <1>4 DEF Pass, StatFails, Stat
  <2>2. FreshStart' /\ FoundAll'
    BY <2>1 DEF FreshStart, FoundAll
  <2>3. ASSUME quiet
        PROVE  EndOfTable' /\ Followed' /\ FoundSoFar'
    <3>1. /\ n \in 1..Len(table) /\ Head(mounts) = table[n]
          /\ VisitedLines' = VisitedLines \cup {n}
          /\ Len(mounts') <= Len(table)
          /\ \A i \in 1..Len(mounts') : mounts'[i] = table[Len(table) - Len(mounts') + i]
      BY <1>0, <2>1, <2>3, NextLine DEF VisitedLines
    <3> HIDE DEF n
    <3>2. EndOfTable'
      BY <2>1, <3>1 DEF EndOfTable
    <3>3. seen = {table[i].point : i \in VisitedLines}
      BY <1>0, <2>1, <2>3 DEF Followed
    <3>4. seen' = seen \cup {p}
      BY <1>4 DEF Pass, StatFails, Stat
    <3>5. Followed'
      BY <2>1, <3>1, <3>3, <3>4 DEF Followed
    <3>6. ASSUME NothingMountedOver
          PROVE  volumes' = Found(VisitedLines \cup {n})
      <4>1. volumes = Found(VisitedLines)
        BY <1>0, <2>1, <2>3, <3>6 DEF FoundSoFar
      <4>2. n \notin VisitedLines /\ VisitedLines \subseteq 1..Len(table)
        BY <1>l DEF VisitedLines, n
      <4>3. p \notin seen
        BY <1>l, <3>1, <3>3, <3>6, <4>2 DEF NothingMountedOver
      <4>4. p = table[n].point /\ Top(p) = table[n].fs /\ MountedAt(p) # {}
        BY <1>0, <1>l, <3>1, <3>6, TopOfLine DEF MountedAt
      <4>5. CASE StatFails
        <5>1. ~Usable(table[n]) /\ volumes' = volumes
          BY <4>4, <4>5 DEF StatFails, Usable
        <5> QED
          BY <4>1, <5>1, FoundAdds
      <4>6. CASE Stat
        <5>1. /\ table[n].fs.answers
              /\ volumes' = IF SkipVolume(p, table[n].fs.type) THEN volumes
                            ELSE volumes \cup {Volume(p, table[n].fs.type, table[n].fs)}
          BY <3>1, <4>4, <4>6 DEF Stat
        <5> QED
          BY <4>1, <4>4, <5>1, FoundAdds DEF Usable
      <4>7. CASE Pass
        BY <4>3, <4>7 DEF Pass
      <4> QED
        BY <1>4, <4>5, <4>6, <4>7
    <3>7. FoundSoFar'
      <4>1. NothingMountedOver' = NothingMountedOver /\ Found(VisitedLines)' = Found(VisitedLines')
        BY <2>1 DEF NothingMountedOver, Found
      <4> QED
        BY <3>1, <3>6, <4>1 DEF FoundSoFar
    <3> QED
      BY <3>2, <3>5, <3>7
  <2>4. CASE ~quiet
    BY <2>1, <2>2, <2>4 DEF Collected, EndOfTable, Followed, FoundSoFar
  <2> QED
    BY <2>2, <2>3, <2>4 DEF Collected
<1>5. CASE Answer
  <2>1. /\ UNCHANGED <<table, mounts, seen, volumes, quiet>> /\ pc = "visit" /\ mounts = <<>>
        /\ pc' \in {"available", "unavailable"}
    BY <1>5 DEF Answer
  <2>2. Len(mounts) = 0
    BY <2>1
  <2>3. VisitedLines = 1..Len(table)
    BY <1>l, <2>2 DEF VisitedLines
  <2>4. ASSUME quiet, NothingMountedOver
        PROVE  volumes = Found(1..Len(table))
    BY <1>0, <2>1, <2>3, <2>4 DEF FoundSoFar
  <2>5. FoundAll'
    <3>1. /\ NothingMountedOver' = NothingMountedOver
          /\ Found(1..Len(table))' = Found(1..Len(table))
      BY <2>1 DEF NothingMountedOver, Found
    <3> QED
      BY <2>1, <2>4, <3>1 DEF FoundAll
  <2> QED
    BY <2>1, <2>5 DEF Collected, FreshStart, EndOfTable, Followed, FoundSoFar
<1>6. CASE Return
  BY <1>6 DEF Return, Collected, FreshStart, EndOfTable, Followed, FoundSoFar, FoundAll
<1>7. CASE UNCHANGED vars
  <2>1. UNCHANGED <<table, changes, pc, mounts, seen, volumes, quiet>>
    BY <1>7 DEF vars
  <2> QED
    BY <1>0, <2>1 DEF Collected, FreshStart, EndOfTable, Followed, FoundSoFar, FoundAll,
                      Found, VisitedLines, NothingMountedOver
<1> QED
  BY <1>1, <1>2, <1>3, <1>4, <1>5, <1>6, <1>7 DEF Next

\* What was found on every line is what the usable ones have.
LEMMA FoundIsUsable ==
  ASSUME TypeOK
  PROVE  Found(1..Len(table)) =
           {Volume(m.point, m.fs.type, m.fs) : m \in {n \in Range(table) : Usable(n)}}
<1>1. Range(table) = {table[i] : i \in 1..Len(table)}
  BY RangeEquality DEF TypeOK
<1> QED
  BY <1>1 DEF Found

\* For every mount table without a mount over another, however many lines it has
\* and whichever of them do not answer, an undisturbed collection answers with
\* every usable file system, with its own type and capacity, and with no other.
THEOREM UndisturbedCompleteHolds == Spec => []UndisturbedComplete
<1>1. Inv /\ Collected => UndisturbedComplete
  BY FoundIsUsable DEF Inv, Collected, FoundAll, UndisturbedComplete
<1>2. Init => Collected
  BY InitCollected
<1>3. Inv /\ Collected /\ [Next]_vars => Collected'
  BY StepCollected
<1> QED
  BY <1>1, <1>2, <1>3, Invariance, PTL DEF Spec
===============================================================================
