------------------------------ MODULE MCLinuxProc ------------------------------
(***************************************************************************)
(* Instances of LinuxProc for TLC.                                         *)
(***************************************************************************)
EXTENDS LinuxProc

\* One core has a number that sorts differently as a string.
ThreeCores == {0, 2, 10}

Few == 0..2
===============================================================================
