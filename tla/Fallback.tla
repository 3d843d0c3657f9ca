------------------------------ MODULE Fallback ------------------------------
(***************************************************************************)
(* FallbackConfig::execute of fallback/mod.rs under a configuration the    *)
(* daemon has read and validated: an operation of some component fails,    *)
(* with a category of its own each time, and is retried, skipped or        *)
(* blocked by the policy of the first failure.                             *)
(***************************************************************************)
EXTENDS FallbackPolicy

CONSTANTS
  Components, \* names operations are executed under
  Files,      \* the configurations a rigor.yaml may hold
  Unreadable  \* a fallback section with a policy of no known name

ASSUME FileAssumption == \A file \in Files: IsConfig(file)

VARIABLES
  config,    \* SharedState.fallback
  phase,     \* the daemon: "down", "refused" to start, or "up"
  component, \* the operation being executed
  op,        \* where it is, or how it ended
  first,     \* the category of its first failure
  retries    \* calls of it after the first

fallbackVars == <<config, phase, component, op, first, retries>>

FallbackTypeOK ==
  /\ phase \in {"down", "refused", "up"}
  /\ component \in Components
  /\ op \in {"idle", "called", "ok", "skipped", "blocked"}
  /\ first \in Categories \cup {NoPolicy}
  /\ retries \in Nat

FallbackInit ==
  /\ config = DefaultConfig /\ phase = "down"
  /\ component \in Components /\ op = "idle"
  /\ first = NoPolicy /\ retries = 0

\* DaemonState::load: what cannot be read is replaced by the default, what
\* is not valid keeps the daemon from starting.
LoadConfig ==
  /\ phase = "down"
  /\ \E file \in Files \cup {Unreadable}:
       config' = IF file = Unreadable THEN DefaultConfig ELSE file
  /\ phase' = IF Validate(config') THEN "up" ELSE "refused"
  /\ UNCHANGED <<component, op, first, retries>>

Execute ==
  /\ phase = "up" /\ op # "called"
  /\ component' \in Components
  /\ op' = "called" /\ first' = NoPolicy /\ retries' = 0
  /\ UNCHANGED <<config, phase>>

Succeeds ==
  /\ op = "called"
  /\ op' = "ok"
  /\ UNCHANGED <<config, phase, component, first, retries>>

FirstPolicy == PolicyFor(config, component, first')
Fails(cat) ==
  /\ op = "called"
  /\ first' = IF first = NoPolicy THEN cat ELSE first
  /\ IF RetriesLeft(FirstPolicy, retries)
       THEN op' = "called" /\ retries' = retries + 1
       ELSE op' = GivenUp(FirstPolicy) /\ UNCHANGED retries
  /\ UNCHANGED <<config, phase, component>>

FallbackNext ==
  LoadConfig \/ Execute \/ Succeeds \/ (\E cat \in Categories: Fails(cat))
FallbackSpec == FallbackInit /\ [][FallbackNext]_fallbackVars

GroupOf(c) ==
  IF c \in DOMAIN config.components THEN config.components[c].group ELSE NoGroup

\* "Safety floors that cannot be overridden looser": if a floor for the
\* group of the component, or for all of them, says that a failure of this
\* category blocks, no request gets past it, whatever the default and the
\* overrides say; and an operation is called once and as often again as its
\* policy allows before it is given up.
FloorsHeld ==
  /\ op = "skipped" => \A floor \in FloorsFor(config, GroupOf(component), first):
                         floor.kind \notin Blocking
  /\ op \in {"skipped", "blocked"} =>
       retries = PolicyFor(config, component, first).attempts
=============================================================================
