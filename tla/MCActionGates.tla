--------------------------- MODULE MCActionGates ---------------------------
(* An instance of ActionGates for TLC. *)
EXTENDS ActionGates, TLC

CONSTANTS r1, r2, r3, s1, s2

\* r1 and r2 belong to one session, r3 to another.
TwoSessions == (r1 :> s1) @@ (r2 :> s1) @@ (r3 :> s2)

\* r1 and r2 can be swapped: SessionOf gives them the same session.
Symmetry ==
  Permutations(Gates) \cup Permutations({r1, r2})
=============================================================================
