---------------------------- MODULE MCAncSession -----------------------------
(***************************************************************************)
(* A small instance of AncSession: two main modes and one strength, three  *)
(* earbud states.  "on" is met by both states that cancel noise; "deep" is *)
(* met by one of them.  Three sequence numbers make the counter wrap and   *)
(* collide with the fixed SET sequences.                                   *)
(***************************************************************************)
EXTENDS AncSession

MCMainModes == {"off", "on"}
MCStrengths == {"deep"}
MCStates == {"s_off", "s_light", "s_deep"}
MCMeets == [m \in {"off", "on", "deep"} |->
              CASE m = "off"  -> {"s_off"}
                [] m = "on"   -> {"s_light", "s_deep"}
                [] m = "deep" -> {"s_deep"}]
MCSetSequence == [m \in {"off", "on", "deep"} |-> IF m = "off" THEN 1 ELSE 2]
==============================================================================
