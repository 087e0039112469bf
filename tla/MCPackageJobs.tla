--------------------------- MODULE MCPackageJobs ---------------------------
(* Small instances of PackageJobs for TLC. *)
EXTENDS PackageJobs, TLC

CONSTANTS p1, p2, p3, u1, u2, u3

TwoRequests == {p1, p2}
ThreeRequests == {p1, p2, p3}
TwoUnits == {u1, u2}
ThreeUnits == {u1, u2, u3}

\* Processes are interchangeable, and so are unit names.
Interchangeable2 == Permutations(TwoRequests) \cup Permutations(TwoUnits)
Interchangeable3 == Permutations(ThreeRequests) \cup Permutations(ThreeUnits)
=============================================================================
