-------------------------- MODULE MCViolationLog --------------------------
(* An instance of Refinement, with the violation log under it, for TLC.    *)
EXTENDS Refinement, TLC

CONSTANTS w1, w2, a1, a2, c1, c2, x, y

\* What earlier sessions left: five annotated hits of c1, two of them false
\* positives, and three false positives of c2, which is another project's.
Left(n, k, text, mark) ==
  [id |-> n, session |-> None, c |-> k, text |-> text, mark |-> mark]
Earlier ==
  <<Left(1, c1, x, "fp"), Left(2, c1, y, "fp"), Left(3, c1, x, "tp"),
    Left(4, c1, x, "tp"), Left(5, c1, y, "tp"), Left(6, c2, y, "fp"),
    Left(7, c2, y, "fp"), Left(8, c2, y, "fp")>>
SomeBatches == {<<[c |-> c1, text |-> y]>>}
SomeMarks == {[index |-> 1, mark |-> "tp"], [index |-> 9, mark |-> "fp"]}

TypeOK == LogTypeOK /\ RefineTypeOK
Init == LogInit /\ RefineInit

\* What a refinement or the user does to rigor.yaml commutes with every step
\* on the log and with another's reading of it, and no property relates the
\* two files: the log comes first, to its end, then rigor.yaml.  Annotators,
\* which change a refinement by what it reads and not otherwise, keep to
\* behaviours without the second part.
LogDone == /\ \A w \in Writers: batch[w] = <<>> /\ held[w] = None
           /\ \A a \in Annotators: annotator[a] = "idle"
           /\ \A r \in Refiners: refiner[r] # "idle"
Next ==
  \/ Editing = {} /\ edits = 0 /\ LogNext /\ UNCHANGED refineVars
  \/ \E r \in Refiners: ReadLog(r)
  \/ LogDone /\ \E r \in Refiners: ReadYaml(r) \/ Truncate(r) \/ Write(r)
                                  \/ ReadAgain(r)
  \/ LogDone /\ UserEdit
Spec == Init /\ [][Next]_<<logVars, refineVars>>
Symmetry == Permutations({a1, a2})
=============================================================================
