----------------------------- MODULE StopHook ------------------------------
(***************************************************************************)
(* The stop hook: a process the agent starts whenever it wants to end its  *)
(* turn, and whose answer can send it back to work (lib.rs, hook/input.rs, *)
(* hook/output.rs, config/lookup.rs).  Every failure on the way lets the   *)
(* turn end.                                                               *)
(***************************************************************************)
EXTENDS Argumentation

CONSTANTS
  NoConfig  \* a project without rigor.yaml, with or without a rigor.lock

VARIABLES
  config,     \* what the walk up from the working directory finds
  computed,   \* what loading it and computing its strengths gives
  turn,       \* the agent's turn: "working" or "over"
  active,     \* stop_hook_active: the turn goes on because a hook blocked it
  hook,       \* the hook's step, "none" when no hook runs
  strengths,  \* the strengths it computed
  violated    \* the constraints whose violation it found

hookVars == <<config, computed, turn, active, hook, strengths, violated>>

\* find_rigor_yaml, load_rigor_config and compute_strengths, in the hook and
\* in DaemonState::load: the strengths, or NotConverged for any failure.
Compute(cfg) ==
  IF cfg # NoConfig /\ Validate(cfg) THEN ComputeStrengths(cfg) ELSE NotConverged
Computes == computed # NotConverged

HookTypeOK ==
  /\ turn \in {"working", "over"}
  /\ active \in BOOLEAN
  /\ hook \in {"none", "started", "loaded", "judged"}
  /\ hook \in {"loaded", "judged"} => strengths \in [DOMAIN config.types -> Strength]
  /\ strengths \in {computed, NotConverged}
  /\ violated \subseteq DOMAIN strengths

HookInit(Configs) ==
  /\ config \in Configs
  /\ computed = Compute(config)
  /\ turn = "working" /\ active = FALSE
  /\ hook = "none"
  /\ strengths = NotConverged /\ violated = {}

\* (mutation) the answer does not tell the next hook that one has blocked
AnswerUnmarked(decision) ==
  /\ hook' = "none"
  /\ strengths' = NotConverged /\ violated' = {}
  /\ IF decision = "block" THEN UNCHANGED turn ELSE turn' = "over"
  /\ UNCHANGED <<config, computed, active>>
\* The hook's process ends; blocked or not, nothing of it stays.
Answer(decision) ==
  /\ hook' = "none"
  /\ strengths' = NotConverged /\ violated' = {}
  /\ IF decision = "block"
     THEN active' = TRUE /\ UNCHANGED turn
     ELSE turn' = "over" /\ active' = FALSE
  /\ UNCHANGED <<config, computed>>

\* The user asks for something; the agent wants to end its turn.
Prompt ==
  /\ turn = "over"
  /\ turn' = "working"
  /\ UNCHANGED <<config, computed, active, hook, strengths, violated>>
Stop ==
  /\ turn = "working" /\ hook = "none"
  /\ hook' = "started"
  /\ UNCHANGED <<config, computed, turn, active, strengths, violated>>

\* run_hook: without a daemon, or with input it cannot parse, nothing happens
\* (an error exit does not block the agent).
NoDaemon(alive) == hook = "started" /\ ~alive /\ Answer("allow")
BadInput == hook = "started" /\ Answer("allow")

\* A turn that a hook has already prolonged may end.
AllowActive(alive) == hook = "started" /\ alive /\ active /\ Answer("allow")
\* No rigor.yaml, one that does not load, or no fixed point: the turn may end.
AllowUnchecked(alive) ==
  hook = "started" /\ alive /\ ~active /\ ~Computes /\ Answer("allow")
\* evaluate_constraints up to the pipeline.
LoadConstraints(alive) ==
  /\ hook = "started" /\ alive /\ ~active /\ Computes
  /\ hook' = "loaded"
  /\ strengths' = computed
  /\ UNCHANGED <<config, computed, turn, active, violated>>
\* The policies do not compile.
PipelineFails == hook = "loaded" /\ Answer("allow")
\* The claims of the transcript violate some of the constraints, or none.
Evaluate ==
  /\ hook = "loaded"
  /\ \E V \in SUBSET DOMAIN strengths : violated' = V
  /\ hook' = "judged"
  /\ UNCHANGED <<config, computed, turn, active, strengths>>
\* A warning is an answer that allows and gives a reason.
Respond == hook = "judged" /\ Answer(Decision(violated, strengths))

HookStep(alive) ==
  \/ NoDaemon(alive) \/ BadInput
  \/ AllowActive(alive) \/ AllowUnchecked(alive) \/ LoadConstraints(alive)
  \/ PipelineFails \/ Evaluate \/ Respond
AgentStep == Prompt \/ Stop

-----------------------------------------------------------------------------
\* A turn is blocked on a constraint that others attack and none supports only
\* if every attacker is itself so defeated that its violation would not even
\* be a warning: attacks and the attacks on attackers reach the decision.
DefeatedDoesNotBlock ==
  hook = "judged" =>
    \A c \in Blocking(violated, strengths) :
      Supporters(config, c) = {} =>
        \A a \in Attackers(config, c) : Severity(strengths[a]) = "allow"

\* The agent's turn ends, although the claims it is blocked for may be in the
\* transcript at every stop.
TurnEnds == turn = "working" ~> turn = "over"
=============================================================================
