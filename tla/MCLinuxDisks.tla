----------------------------- MODULE MCLinuxDisks -----------------------------
(***************************************************************************)
(* Instances of LinuxDisks for TLC: words of four bits.                    *)
(***************************************************************************)
EXTENDS LinuxDisks

Disk     == [type |-> "ext4", block |-> 2, count |-> 5, available |-> 3, answers |-> TRUE]
\* One block more is used than there is for users: -1, as a word.
Overdrawn == [type |-> "ufs", block |-> 2, count |-> 6, available |-> 15, answers |-> TRUE]
Memory   == [type |-> "tmpfs", block |-> 1, count |-> 4, available |-> 4, answers |-> TRUE]
Refusing == [type |-> "fuse", block |-> 1, count |-> 9, available |-> 1, answers |-> FALSE]

Mixed    == {Disk, Overdrawn, Memory, Refusing}
MixedRoots == {Disk, Overdrawn, Memory}
Pseudo   == {"autofs", "tmpfs"}
===============================================================================
