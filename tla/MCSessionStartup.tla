-------------------------- MODULE MCSessionStartup ---------------------------
(***************************************************************************)
(* A small instance of SessionStartup: two connect attempts, three for the *)
(* verifying socket.                                                       *)
(***************************************************************************)
EXTENDS SessionStartup

MCAttempts == [g \in Goals |-> IF g = "verify" THEN 3 ELSE 2]
==============================================================================
