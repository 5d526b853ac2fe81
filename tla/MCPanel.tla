------------------------------- MODULE MCPanel -------------------------------
(***************************************************************************)
(* A small instance of Panel: widgets, requests and generations are set in *)
(* the configuration.                                                      *)
(***************************************************************************)
EXTENDS Panel
==============================================================================
