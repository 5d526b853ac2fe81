--------------------------- MODULE MCAvailability ----------------------------
(***************************************************************************)
(* Small instances of Availability.                                        *)
(***************************************************************************)
EXTENDS Availability

MCDevices == {"oneplus_buds", "oppo_buds"}
MCOnePlus == {"oneplus_buds"}
==============================================================================
