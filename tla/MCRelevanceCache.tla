------------------------- MODULE MCRelevanceCache -------------------------
(* Instances of RelevanceCache for TLC. *)
EXTENDS RelevanceCache, TLC

CONSTANTS t1, t2, sem, rego, a, b

\* A project with a semantic constraint and one with a constraint in Rego,
\* which finds t1 violated.
TwoProjects == (a :> {sem}) @@ (b :> {rego}) @@ (NoProject :> {})
RegoOnT1 == {<<t1, rego>>}
Symmetry == Permutations(Evaluations)
=============================================================================
