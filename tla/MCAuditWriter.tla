--------------------------- MODULE MCAuditWriter ---------------------------
(***************************************************************************)
(* A small instance of AuditWriter for TLC.                                *)
(***************************************************************************)
EXTENDS AuditWriter

CONSTANTS a1, a2

TwoAuditSids == {a1, a2}

AllFaults == {"open", "execute", "commit"}
=============================================================================
