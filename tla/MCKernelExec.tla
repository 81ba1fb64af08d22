---------------------------- MODULE MCKernelExec ----------------------------
(***************************************************************************)
(* A small instance of KernelExec for TLC.                                 *)
(***************************************************************************)
EXTENDS KernelExec

CONSTANTS e1, e2

TwoExecs == {e1, e2}

AllHazards == {"timeout", "destroy", "death"}
=============================================================================
