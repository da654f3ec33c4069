-------------------------- MODULE MCKeycloakSession --------------------------
(* Instances of KeycloakSession for TLC. *)
EXTENDS KeycloakSession, TLC

CONSTANTS u1, u2, l1, l2, f1, f2

TwoUsers == {u1, u2}
TwoLogins == {l1, l2}
TwoFlows == {f1, f2}

SessionSymmetry ==
  Permutations(TwoUsers) \cup Permutations(TwoLogins) \cup Permutations(TwoFlows)
=============================================================================
