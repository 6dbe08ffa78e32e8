---------------------------- MODULE MCDarwinSections ----------------------------
(***************************************************************************)
(* Instances of DarwinSections for TLC.                                    *)
(***************************************************************************)
EXTENDS DarwinSections

KindOfEach == [v \in Volumes |-> CASE v = "/" -> "disk" [] v = "/Volumes/share" -> "share"
                                   [] v = "/Volumes/usb" -> "disk" [] v = "/dev" -> "pseudo"]

\* Apple silicon, a Mac with two GPUs, and machines of which system_profiler
\* knows no display.
Mac  == [brand |-> "Apple", displays |-> <<"Apple">>, sysctls |-> {"boottime"}]
Macs == {Mac, [Mac EXCEPT !.displays = <<>>], [Mac EXCEPT !.sysctls = {"boottime", "memsize"}],
         [Mac EXCEPT !.brand = "Intel", !.displays = <<"other", "other">>, !.sysctls = {}],
         [Mac EXCEPT !.brand = "Intel", !.displays = <<>>]}

Every == Commands
Few   == 0..2
===============================================================================
