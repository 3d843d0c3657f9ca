--------------------------- MODULE Argumentation ---------------------------
(***************************************************************************)
(* How strong the constraints of a rigor.yaml are, and what a violation of *)
(* them leads to (constraint/graph.rs, constraint/validator.rs,            *)
(* violation/types.rs, violation/collector.rs).                            *)
(*                                                                         *)
(* A configuration has the epistemic type of every constraint and the      *)
(* relations between them.  A strength is a number of 1/Scale; the code    *)
(* uses f64, and a product is cut to a multiple of 1/Scale here.           *)
(***************************************************************************)
EXTENDS Integers, FiniteSetsExt

CONSTANTS
  Constraints,  \* ids of constraints
  Scale,        \* the strength 1.0
  MaxRounds     \* rounds of the iteration (100 in the code)

ASSUME ArgumentationAssumption == Scale \in Nat \ {0} /\ MaxRounds \in Nat

Strength == 0 .. Scale
Epistemic == {"belief", "justification", "defeater"}
Relations ==
  [from : Constraints, to : Constraints,
   type : {"supports", "attacks", "undercuts"}]

\* The default strength of a constraint's type (add_constraint).
Base(type) ==
  CASE type = "belief"        -> (8 * Scale) \div 10
    [] type = "justification" -> (9 * Scale) \div 10
    [] type = "defeater"      -> (7 * Scale) \div 10

\* ConstraintValidator::validate: every id is declared, no relation is to
\* itself.
Validate(config) ==
  \A r \in config.relations :
    r.from # r.to /\ {r.from, r.to} \subseteq DOMAIN config.types

Supporters(config, c) ==
  {r.from : r \in {q \in config.relations : q.to = c /\ q.type = "supports"}}
Attackers(config, c) ==
  {r.from : r \in {q \in config.relations :
                     q.to = c /\ q.type \in {"attacks", "undercuts"}}}
\* The product of 1 - s over a set of constraints.
Agg(S, s) ==
  FoldSet(LAMBDA c, p : (p * (Scale - s[c])) \div Scale, Scale, S)

\* (mutation) the products of attackers and supporters are swapped
RoundSwapped(config, s) ==
  [c \in DOMAIN config.types |->
     LET combined == Agg(Supporters(config, c), s) - Agg(Attackers(config, c), s)
         tau == Base(config.types[c])
     IN  IF combined < 0
         THEN (tau * (Scale + combined)) \div Scale
         ELSE tau + ((Scale - tau) * combined) \div Scale]
\* One round of compute_strengths: every new strength comes from the old ones.
Round(config, s) ==
  [c \in DOMAIN config.types |->
     LET combined == Agg(Attackers(config, c), s) - Agg(Supporters(config, c), s)
         tau == Base(config.types[c])
     IN  IF combined < 0
         THEN (tau * (Scale + combined)) \div Scale
         ELSE tau + ((Scale - tau) * combined) \div Scale]

\* EPSILON = 0.001.
Settled(s, t) ==
  \A c \in DOMAIN s : 1000 * (t[c] - s[c]) \in (1 - Scale) .. (Scale - 1)

NotConverged == [c \in {} |-> 0]

\* compute_strengths: rounds until nothing changes by EPSILON or more; an
\* error when MaxRounds do not get there.
ComputeStrengths(config) ==
  LET start == [c \in DOMAIN config.types |-> Base(config.types[c])]
      Iterate[n \in 0 .. MaxRounds] ==
        [s \in [DOMAIN config.types -> Strength] |->
           IF n = 0 THEN NotConverged
           ELSE LET t == Round(config, s)
                IN  IF Settled(s, t) THEN t ELSE Iterate[n - 1][t]]
  IN  Iterate[MaxRounds][start]

\* SeverityThresholds::determine with the default thresholds 0.7 and 0.4.
Severity(s) ==
  IF 10 * s >= 7 * Scale THEN "block"
  ELSE IF 10 * s >= 4 * Scale THEN "warn" ELSE "allow"

\* collect_violations and determine_decision for the violated constraints.
Blocking(violated, s) == {c \in violated : Severity(s[c]) = "block"}
Decision(violated, s) ==
  IF Blocking(violated, s) # {} THEN "block"
  ELSE IF \E c \in violated : Severity(s[c]) = "warn" THEN "warn" ELSE "allow"
=============================================================================
