--------------------------- MODULE MCStreamProxy ---------------------------
(* An instance of StreamProxy for TLC. *)
EXTENDS StreamProxy, TLC

\* No definition tells one request from another.
Symmetry == Permutations(Requests)
=============================================================================
