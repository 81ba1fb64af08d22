---------------------------- MODULE MCAuditTrail ----------------------------
(***************************************************************************)
(* A small instance of AuditTrail for TLC.                                 *)
(***************************************************************************)
EXTENDS AuditTrail

CONSTANTS r1, r2, s1, s2, c1, c2

TwoReqs == {r1, r2}
TwoSids == {s1, s2}
TwoCids == {c1, c2}

SomeFailures == {"run", "kernel", "kill"}
NoFault == {}
=============================================================================
