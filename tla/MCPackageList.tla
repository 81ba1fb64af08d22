---------------------------- MODULE MCPackageList ----------------------------
(***************************************************************************)
(* A small instance of PackageList for TLC: two templates of one image, a  *)
(* third of another, and a name that is not a template.                    *)
(***************************************************************************)
EXTENDS PackageList

CONSTANTS q1, q2, q3, x1, x2

ThreeLookups == {q1, q2, q3}
TwoCallers == {x1, x2}
SomeNames == {"default", "qa", "data", "unknown"}
SomeTemplates ==
    [t \in {"default", "qa", "data"} |-> IF t = "data" THEN "sandbox:data" ELSE "sandbox:1"]
=============================================================================
