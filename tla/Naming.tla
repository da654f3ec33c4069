-------------------------------- MODULE Naming --------------------------------
(***************************************************************************)
(* Service names and the four places that limit them.  A name is its       *)
(* length and the length of its longest run: a stretch that begins with a  *)
(* lowercase letter or a digit and goes on with those or hyphens.          *)
(***************************************************************************)
EXTENDS Naturals

Name == [length : Nat, run : Nat]

\* HIERARCHY_REGEX as the server uses it: a search for a long enough run, anywhere.
HIERARCHY_REGEX(n) == n.run >= 3

\* Mutant: one character more than the other places.
FormPatternTooLong(n) == n.run = n.length /\ n.length \in 3..64

\* The input's pattern: browsers match it with the whole name.
FormPattern(n) == n.run = n.length /\ n.length \in 3..63

\* The column of the table; the model's min_length is not checked when a row is made.
ColumnHolds(n) == n.length <= 63

\* GET /service_config takes the name as a query parameter.
QueryAccepts(n) == n.length \in 3..63
=============================================================================
