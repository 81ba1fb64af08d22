-------------------------- MODULE MCSessionManager --------------------------
(***************************************************************************)
(* Small instances of SessionManager for TLC.  Requests, conversations and *)
(* containers are interchangeable in the safety runs.                      *)
(***************************************************************************)
EXTENDS SessionManager, TLC

CONSTANTS r1, r2, r3, s1, s2, c1, c2, c3, c4

TwoReqs == {r1, r2}
ThreeReqs == {r1, r2, r3}
OneSid == {s1}
TwoSids == {s1, s2}
TwoCids == {c1, c2}
FourCids == {c1, c2, c3, c4}

NoFailure == {}
AllFailures == FailureKinds
FailuresDockerMends == {"run", "ports", "kernel", "die"}

Symmetry == Permutations(Reqs) \cup Permutations(Sids) \cup Permutations(Cids)
=============================================================================
