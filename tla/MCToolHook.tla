---------------------------- MODULE MCToolHook ----------------------------
(* Instances of ToolHook for TLC. *)
EXTENDS ToolHook, TLC

CONSTANTS c1, c2, e1, f, s1, s2

\* The second call edits the same file in the same session, or is a Bash call
\* of another session, or edits the file in a session without gates.
TwoInputs ==
  LET call(p, s, g) == [path |-> p, session |-> s, gated |-> g]
      first == c1 :> call(f, s1, TRUE)
  IN {first @@ (c2 :> call(f, s1, TRUE)),
      first @@ (c2 :> call(NoPath, s2, TRUE)),
      first @@ (c2 :> call(f, s2, FALSE))}
=============================================================================
