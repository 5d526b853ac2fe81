---------------------------- MODULE MCBudsService ----------------------------
(***************************************************************************)
(* Small instances of BudsService.  In the safety run two devices have a   *)
(* profile and one has none, so that a session may pass from each kind to  *)
(* each other; the liveness runs have one or two devices.                  *)
(***************************************************************************)
EXTENDS BudsService, TLC

MCSupported == {"buds", "pro"}
MCOneDevice == {"buds"}
MCUnsupported == {}

\* Devices with a profile are interchangeable: discovery chooses among one only.
DeviceSymmetry == Permutations(Supported)
==============================================================================
