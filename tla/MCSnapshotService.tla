-------------------------- MODULE MCSnapshotService --------------------------
(***************************************************************************)
(* Instances of SnapshotService for TLC.                                   *)
(***************************************************************************)
EXTENDS SnapshotService

\* A section that reads the host whatever happens to its request, then one
\* that runs a command under the request's context (nvidia-smi).
DisksThenGpu == <<"disks", "gpu">>

\* collectLive, in its order.
LiveOrder == <<"system", "cpu", "memory", "disks", "gpu">>
==============================================================================
