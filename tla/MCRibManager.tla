---------------------------- MODULE MCRibManager -----------------------------
(* Instances of RibManager for TLC.                                        *)
EXTENDS RibManager, TLC

(* Two workers that poll devices.                                          *)
TwoPollers == 1 :> "nettlp_thread" @@ 2 :> "l2_repeater"

(* A worker that polls and the one that serves the tap interfaces.         *)
PollerAndTap == 1 :> "nettlp_thread" @@ 2 :> "tap_handler"

(* The same with a worker that listens to its own flag.                    *)
RepeaterAndTap == 1 :> "l2_repeater" @@ 2 :> "tap_handler"

OnePoller == 1 :> "nettlp_thread"

RibSymmetry == Permutations(RibIds)
=============================================================================
