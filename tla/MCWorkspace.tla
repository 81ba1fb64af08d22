----------------------------- MODULE MCWorkspace -----------------------------
(***************************************************************************)
(* A small instance of Workspace for TLC: three uploads of different       *)
(* lengths, of which the longest is too long.                              *)
(***************************************************************************)
EXTENDS Workspace

CONSTANTS u1, u2, u3, d1, d2, p1

ThreeUploads == {u1, u2, u3}
TwoDeletes == {d1, d2}
OnePath == {p1}
Sizes == [u \in ThreeUploads |-> IF u = u1 THEN 1 ELSE IF u = u2 THEN 2 ELSE 3]
=============================================================================
