--------------------------- MODULE MCReaperClock ---------------------------
(***************************************************************************)
(* Small instances of ReaperClock for TLC.                                 *)
(***************************************************************************)
EXTENDS ReaperClock, TLC

CONSTANTS s1, s2, s3

TwoSids == {s1, s2}
ThreeSids == {s1, s2, s3}
Symmetry == Permutations(Sids)
=============================================================================
