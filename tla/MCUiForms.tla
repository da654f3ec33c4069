----------------------------- MODULE MCUiForms -----------------------------
(* Instances of UiForms for TLC. *)
EXTENDS UiForms, TLC

CONSTANTS t1, t2, u1, u2

TwoTabs == {t1, t2}
TwoUsers == {u1, u2}

\* A name one short of the lower limit, one at the upper limit, one past it, and
\* one with a character not allowed.  Only the second passes the browser: what the
\* page does tells no two that pass apart, and each one more makes ten times the
\* states.  The names of the lower limit are in NamesFitHolds with all others.
EdgeNames ==
  {[length |-> l, run |-> l] : l \in {2, 63, 64}} \cup {[length |-> 5, run |-> 3]}

FormSymmetry == Permutations(TwoTabs) \cup Permutations(TwoUsers)
=============================================================================
