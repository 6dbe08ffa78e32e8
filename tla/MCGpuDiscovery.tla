---------------------------- MODULE MCGpuDiscovery ----------------------------
(***************************************************************************)
(* Instances of GpuDiscovery for TLC.                                      *)
(***************************************************************************)
EXTENDS GpuDiscovery, TLC

Interchangeable == Permutations(Collectors)

Box == [name |-> "box", board |-> "pc", tool |-> "absent", card |-> None]

\* A server whose card comes and goes, and that is renamed as it gets a second one.
Renamed ==
  {Box, [Box EXCEPT !.card = "amd"],
   [Box EXCEPT !.tool = "works", !.card = "amd", !.name = "renamed"]}

\* The same, with a driver that comes first.
Server == Renamed \cup {[Box EXCEPT !.tool = "works"]}

\* Every detector, and nvidia-smi without its driver.
Everything ==
  Server \cup
  {[Box EXCEPT !.tool = "fails"], [Box EXCEPT !.card = "intel"],
   [Box EXCEPT !.card = "other"], [Box EXCEPT !.card = "broadcom"],
   [Box EXCEPT !.board = "pi"]}

\* A machine with nvidia-smi, whose driver fails at times.
Nvidia == {[Box EXCEPT !.tool = "works"], [Box EXCEPT !.tool = "fails"], Box}
===============================================================================
