----------------------------- MODULE MCEqSession -----------------------------
(***************************************************************************)
(* A small instance of EqSession: one factory preset and the custom entry, *)
(* two curves, which are interchangeable.  Sequence numbers wrap within    *)
(* one behaviour.                                                          *)
(***************************************************************************)
EXTENDS EqSession

MCIds == {"balanced", "custom"}

\* No definition tells one curve from another.
CurveSymmetry == Permutations(Curves)
==============================================================================
