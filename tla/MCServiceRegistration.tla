------------------------ MODULE MCServiceRegistration ------------------------
(* Instances of ServiceRegistration for TLC. *)
EXTENDS ServiceRegistration, TLC

CONSTANTS r1, r2, r3, n1, nobody

OneName == {n1}
OneRequest == {r1}
TwoRequests == {r1, r2}
ThreeRequests == {r1, r2, r3}

RequestSymmetry == Permutations(ThreeRequests)
=============================================================================
