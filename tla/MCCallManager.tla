--------------------------- MODULE MCCallManager ---------------------------
(***************************************************************************)
(* Instances of CallManager for TLC.                                        *)
(***************************************************************************)
EXTENDS CallManager, TLC

CONSTANTS c1, c2, c3

\* Call ids are only compared with each other.
IdSymmetry == Permutations(Ids)
=============================================================================
