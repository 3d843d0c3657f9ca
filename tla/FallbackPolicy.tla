--------------------------- MODULE FallbackPolicy ---------------------------
(***************************************************************************)
(* The fallback policies of fallback/{types,minimums,config}.rs: what the  *)
(* daemon does when a component of its request path fails, the floors no   *)
(* policy may be below, and the check of both when the daemon starts.      *)
(*                                                                         *)
(* A configuration has one policy per failure category, overrides by       *)
(* component, a floor for configuration errors and floors by group.  How   *)
(* long a retry waits, and the retry sections nothing reads, are left out. *)
(***************************************************************************)
EXTENDS Naturals

CONSTANTS
  Categories, \* the FailureCategory values, "config_error" among them
  Groups,     \* the named groups of floors, "privacy_sensitive" and others
  NoGroup,    \* a component that is in none
  NoPolicy    \* no override; no floor

ASSUME CategoryAssumption == "config_error" \in Categories
ASSUME GroupAssumption == NoGroup \notin Groups
ASSUME NoPolicyAssumption == NoPolicy \notin Categories

Strictness ==
  [fail_startup |-> 7, fail_closed |-> 6, retry_then_fail_closed |-> 5,
   retry_then_degrade |-> 4, degrade_with_warn |-> 3,
   retry_then_fail_open |-> 2, fail_open |-> 1]

Retrying == {"retry_then_fail_closed", "retry_then_degrade",
             "retry_then_fail_open"}
Blocking == {"fail_startup", "fail_closed", "retry_then_fail_closed"}

\* A policy without retries has no attempts and no backoff.
Policy(kind) == [kind |-> kind, attempts |-> 0, delays |-> 0]
Retry(kind, attempts, delays) ==
  [kind |-> kind, attempts |-> attempts, delays |-> delays]

\* Only the retrying kinds have attempts.
Policies ==
  {p \in [kind: DOMAIN Strictness, attempts: Nat, delays: Nat]:
     p.kind \in Retrying \/ (p.attempts = 0 /\ p.delays = 0)}
PoliciesOrNone == [Categories -> Policies \cup {NoPolicy}]

\* FallbackConfig: the floors of some groups, the overrides of some components.
IsConfig(cfg) ==
  /\ cfg = [floor |-> cfg.floor, floors |-> cfg.floors, default |-> cfg.default,
            components |-> cfg.components]
  /\ cfg.floor \in Policies \cup {NoPolicy}
  /\ cfg.floors \in [DOMAIN cfg.floors -> PoliciesOrNone]
  /\ DOMAIN cfg.floors \subseteq Groups
  /\ cfg.default \in [Categories -> Policies]
  /\ cfg.components \in [DOMAIN cfg.components ->
                          [group: Groups \cup {NoGroup}, override: PoliciesOrNone]]

\* The configuration of a daemon whose file has none, or cannot be read.
DefaultConfig ==
  [floor |-> NoPolicy, floors |-> [g \in {} |-> NoPolicy],
   default |-> [cat \in Categories |->
     CASE cat = "transient_error"  -> Retry("retry_then_fail_closed", 3, 3)
       [] cat = "persistent_error" -> Policy("fail_closed")
       [] OTHER                    -> Policy("fail_startup")],
   components |-> [c \in {} |-> NoPolicy]]

\* policy_for: the component's override, or the default.
PolicyFor(cfg, component, cat) ==
  IF component \in DOMAIN cfg.components
       /\ cfg.components[component].override[cat] # NoPolicy
  THEN cfg.components[component].override[cat]
  ELSE cfg.default[cat]

\* The floors that hold for a category of failure in a group.
FloorsFor(cfg, group, cat) ==
  ((IF cat = "config_error" THEN {cfg.floor} ELSE {})
   \cup (IF group \in DOMAIN cfg.floors THEN {cfg.floors[group][cat]} ELSE {}))
  \ {NoPolicy}

\* Minimums::enforce.
Enforced(cfg, group, cat, policy) ==
  \A floor \in FloorsFor(cfg, group, cat):
    Strictness[policy.kind] >= Strictness[floor.kind]

\* (mutation) only what a component overrides is held against the floors
ValidateOverrides(cfg) ==
  /\ \A cat \in Categories: Enforced(cfg, NoGroup, cat, cfg.default[cat])
  /\ \A c \in DOMAIN cfg.components: \A cat \in Categories:
       LET policy == cfg.components[c].override[cat] IN
       policy # NoPolicy => Enforced(cfg, cfg.components[c].group, cat, policy)

RetryValid(policy) ==
  policy.kind \in Retrying => policy.attempts > 0 /\ policy.delays > 0

\* FallbackConfig::validate: the policies a component resolves to, those it
\* takes from the default included, are held against the floors.
Validate(cfg) ==
  /\ \A cat \in Categories:
       RetryValid(cfg.default[cat]) /\ Enforced(cfg, NoGroup, cat, cfg.default[cat])
  /\ \A c \in DOMAIN cfg.components: \A cat \in Categories:
       LET override == cfg.components[c].override[cat] IN
       /\ override # NoPolicy => RetryValid(override)
       /\ Enforced(cfg, cfg.components[c].group, cat, PolicyFor(cfg, c, cat))

\* (mutation) one attempt too many: 0..=attempts
OneMoreRetry(policy, retries) ==
  policy.kind \in Retrying /\ retries <= policy.attempts

\* apply_policy and its retry_loop after a failure: the operation is called
\* again, or its caller is told that it is blocked or skipped.
RetriesLeft(policy, retries) ==
  policy.kind \in Retrying /\ retries < policy.attempts
GivenUp(policy) == IF policy.kind \in Blocking THEN "blocked" ELSE "skipped"
=============================================================================
