----------------------------- MODULE MCDaemon ------------------------------
(***************************************************************************)
(* Daemons that start, end and are killed, and an agent whose stop hook    *)
(* asks whether one is alive; all read the same project's configuration.   *)
(***************************************************************************)
EXTENDS Lifecycle, StopHook, TLC

CONSTANTS a, b, c

vars == <<lifeVars, hookVars>>

Types == [x \in {a, b, c} |-> CASE x = a -> "justification"
                               [] x = b -> "belief"
                               [] OTHER -> "defeater"]
Rel(x, type, y) == [from |-> x, to |-> y, type |-> type]
Project(relations) == [types |-> Types, relations |-> relations]

\* Alone; an attack; an attacker that is undercut; one against a supporter;
\* mutual attacks; three that attack in a circle, which has no fixed point; and
\* a relation to itself, which is refused.
Projects ==
  { Project({}),
    Project({Rel(c, "attacks", a)}),
    Project({Rel(c, "undercuts", b), Rel(b, "attacks", a)}),
    Project({Rel(b, "supports", a), Rel(c, "attacks", a)}),
    Project({Rel(a, "attacks", b), Rel(b, "attacks", a)}),
    Project({Rel(a, "attacks", b), Rel(b, "attacks", c), Rel(c, "attacks", a)}),
    Project({Rel(a, "supports", a)}) }

Init == LifeInit /\ HookInit(Projects \cup {NoConfig})

\* `rigor ground` loads the project; `rigor serve` does with --path, and
\* starts empty without it or where the path has no rigor.yaml.
LoadStep ==
  /\ UNCHANGED hookVars
  /\ \E d \in Daemons :
       \/ (d \in Serves \/ Computes) /\ Load(d)
       \/ ~Computes /\ (d \in Grounds \/ config # NoConfig) /\ LoadFails(d)

Next ==
  \/ LifeStep /\ UNCHANGED hookVars
  \/ LoadStep
  \/ (HookStep(DaemonAlive) \/ AgentStep) /\ UNCHANGED lifeVars

Spec == Init /\ [][Next]_vars
\* The agent goes on and its hook runs; nothing else is sure to happen.
FairSpec ==
  /\ Spec
  /\ WF_vars(Stop /\ UNCHANGED lifeVars)
  /\ WF_vars(HookStep(DaemonAlive) /\ UNCHANGED lifeVars)

TypeOK == LifeTypeOK /\ HookTypeOK
=============================================================================
