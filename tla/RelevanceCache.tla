--------------------------- MODULE RelevanceCache ---------------------------
(***************************************************************************)
(* How semantic constraints are enforced.  An evaluation never asks the    *)
(* judge: it reads the process-wide cache of relevance verdicts            *)
(* (daemon/proxy.rs, RELEVANCE_CACHE), directly in the daemon and over     *)
(* HTTP in the stop hook, and takes a missing verdict for "allow".  The    *)
(* evaluation at the end of a response then starts one background call of  *)
(* the judge, if RELEVANCE_SEMAPHORE is free, whose answer fills the cache *)
(* for the evaluations to come.  Meanwhile register_project may replace    *)
(* the daemon's constraints by those of another project.                   *)
(*                                                                         *)
(* A claim is its text, a constraint its id.  What Rego says of a text is  *)
(* a constant relation; what the judge answers is a free choice.           *)
(***************************************************************************)
EXTENDS Naturals

CONSTANTS
  Texts,         \* what claims say
  Constraints,   \* ids of constraints
  Semantic,      \* those tagged semantic or without Rego
  RegoViolates,  \* pairs <<text, constraint>> that Rego finds violated
  Strong,        \* constraints strong enough for a violation to block
  Foreign,       \* an id the judge may make up
  Projects,      \* the directories with a rigor.yaml, and NoProject
  NoProject,     \* the daemon started without one
  Declares,      \* the constraints of each project
  Evaluations,   \* of a response, by the daemon or by a stop hook
  MaxAttempts    \* calls of the judge before a rate limit is final (4)

ASSUME SemanticAssumption == Semantic \subseteq Constraints
ASSUME ForeignAssumption == Foreign \notin Constraints
ASSUME ProjectAssumption ==
  /\ NoProject \in Projects
  /\ Declares \in [Projects -> SUBSET Constraints]
  /\ Declares[NoProject] = {}
ASSUME AttemptAssumption == MaxAttempts \in Nat \ {0}

VARIABLES
  config,    \* the project whose constraints the daemon has loaded
  cache,     \* the cached verdicts: per text, constraints found relevant
  permit,    \* RELEVANCE_SEMAPHORE is taken
  stage,     \* where each evaluation is
  kind,      \* in mid-stream, at the end of a response, or in a stop hook
  project,   \* whose constraints it evaluates against
  claims,    \* the texts of its claims
  unread,    \* pairs it has not evaluated yet
  flagged,   \* pairs it found violated
  reported,  \* whether it told the dashboard "block"
  judge,     \* the background call it started
  attempt,   \* how often the judge has turned that call away
  about,     \* the project whose constraints the call asks about
  batch,     \* the texts the call asks about
  lines,     \* lines of the answer that are not cached yet
  owed       \* history: its pairs with a verdict cached when it began

evalVars  == <<stage, kind, project, claims, unread, flagged, reported, owed>>
judgeVars == <<judge, attempt, about, batch, lines>>
vars == <<config, cache, permit, evalVars, judgeVars>>

Kind == {"chunk", "final", "hook"}
Stage == {"new", "open", "reading", "reported", "deciding", "done"}
Call == {"none", "started", "asking", "writing", "returned", "panicked"}
Named == Constraints \cup {Foreign}
Pairs == Texts \X Constraints

TypeOK ==
  /\ config \in Projects
  /\ cache \in [Texts -> SUBSET Named]
  /\ permit \in BOOLEAN
  /\ stage \in [Evaluations -> Stage]
  /\ kind \in [Evaluations -> Kind]
  /\ project \in [Evaluations -> Projects]
  /\ claims \in [Evaluations -> SUBSET Texts]
  /\ unread \in [Evaluations -> SUBSET Pairs]
  /\ flagged \in [Evaluations -> SUBSET Pairs]
  /\ reported \in [Evaluations -> BOOLEAN]
  /\ judge \in [Evaluations -> Call]
  /\ attempt \in [Evaluations -> 0 .. MaxAttempts - 1]
  /\ about \in [Evaluations -> Projects]
  /\ batch \in [Evaluations -> SUBSET Texts]
  /\ lines \in [Evaluations -> SUBSET (Texts \X Named)]
  /\ owed \in [Evaluations -> SUBSET Pairs]

Init ==
  /\ config \in Projects
  /\ cache = [t \in Texts |-> {}]
  /\ permit = FALSE
  /\ stage = [e \in Evaluations |-> "new"]
  /\ kind \in [Evaluations -> Kind]
  /\ project = [e \in Evaluations |-> NoProject]
  /\ claims = [e \in Evaluations |-> {}]
  /\ unread = [e \in Evaluations |-> {}]
  /\ flagged = [e \in Evaluations |-> {}]
  /\ reported = [e \in Evaluations |-> FALSE]
  /\ judge = [e \in Evaluations |-> "none"]
  /\ attempt = [e \in Evaluations |-> 0]
  /\ about = [e \in Evaluations |-> NoProject]
  /\ batch = [e \in Evaluations |-> {}]
  /\ lines = [e \in Evaluations |-> {}]
  /\ owed = [e \in Evaluations |-> {}]

-----------------------------------------------------------------------------
(* register_project: the project of a session takes the place of whichever *)
(* was loaded, with reload_config; one that is loaded already stays, and   *)
(* so does the old one when the new file does not load.                    *)

Reload(p) ==
  /\ config' = p
  /\ UNCHANGED <<permit, evalVars, judgeVars>>

\* (mutation) a reload forgets the verdicts, with evaluations still running
RegisterClearing(p) ==
  p # config /\ Reload(p) /\ cache' = [t \in Texts |-> {}]

Register(p) == p # config /\ Reload(p) /\ UNCHANGED cache

-----------------------------------------------------------------------------
(* Evaluations.                                                            *)

Begin(e, from, to, p, T) ==
  /\ stage[e] = from
  /\ stage' = [stage EXCEPT ![e] = to]
  /\ project' = [project EXCEPT ![e] = p]
  /\ claims' = [claims EXCEPT ![e] = T]
  /\ unread' = [unread EXCEPT ![e] = T \X Declares[p]]
  /\ owed' = [owed EXCEPT ![e] =
       {q \in T \X (Declares[p] \cap Semantic): q[2] \in cache[q[1]]}]
  /\ UNCHANGED <<config, cache, permit, kind, flagged, reported,
                 judgeVars>>

\* A stream copies the loaded constraints at its start, and the claims of its
\* chunks are evaluated against the copy.
OpenStream(e) ==
  /\ kind[e] = "chunk" /\ stage[e] = "new"
  /\ stage' = [stage EXCEPT ![e] = "open"]
  /\ project' = [project EXCEPT ![e] = config]
  /\ UNCHANGED <<config, cache, permit, kind, claims, unread, flagged,
                 reported, owed, judgeVars>>

BeginChunk(e) == \E T \in SUBSET Texts \ {{}}:
  Begin(e, "open", "reading", project[e], T)

\* The evaluation at the end takes the constraints that are loaded by then.
BeginFinal(e) ==
  /\ kind[e] = "final"
  /\ \E T \in SUBSET Texts: Begin(e, "new", "reading", config, T)

\* A stop hook reads the rigor.yaml of its own directory.
BeginHook(e) ==
  /\ kind[e] = "hook"
  /\ \E p \in Projects \ {NoProject}, T \in SUBSET Texts \ {{}}:
       Begin(e, "new", "reading", p, T)

\* A whole response with personal data in it is reported as blocked, and
\* nothing of it evaluated or judged.
ReportPii(e) ==
  /\ kind[e] = "final" /\ stage[e] = "new"
  /\ stage' = [stage EXCEPT ![e] = "reported"]
  /\ \E T \in SUBSET Texts: claims' = [claims EXCEPT ![e] = T]
  /\ reported' = [reported EXCEPT ![e] = TRUE]
  /\ UNCHANGED <<config, cache, permit, kind, project, unread, flagged,
                 owed, judgeVars>>

\* evaluate_text_inline: what the stream acts on is a second evaluation of
\* the same text.  For a response that was not streamed there is none.
Again(e) == Begin(e, "reported", "deciding", config, claims[e])

\* EvaluatorPipeline: a semantic constraint is violated by the texts that
\* have a verdict on it in `verdicts`, any other by what Rego says.
Violated(pair, verdicts) ==
  IF pair[2] \in Semantic THEN pair[2] \in verdicts ELSE pair \in RegoViolates

Evaluate(e, pairs, verdicts) ==
  /\ unread' = [unread EXCEPT ![e] = @ \ pairs]
  /\ flagged' =
       [flagged EXCEPT ![e] = @ \cup {q \in pairs: Violated(q, verdicts)}]
  /\ UNCHANGED <<config, cache, permit, stage, kind, project, claims, reported,
                 owed, judgeVars>>

\* The pairs still to do, claim by claim.
Unread(e, t) == {q \in unread[e]: q[1] = t}
InTurn(e, t) ==
  \A u \in claims[e] \ {t}: Unread(e, u) \in {{}, {u} \X Declares[project[e]]}

\* InProcessLookup: one lookup per pair, each under the cache's lock.
Lookup(e) ==
  /\ stage[e] \in {"reading", "deciding"} /\ kind[e] # "hook"
  /\ \E q \in unread[e]: InTurn(e, q[1]) /\ Evaluate(e, {q}, cache[q[1]])

\* HttpLookup: one fetch per text, remembered for all the constraints; a
\* failed fetch is an empty answer and is remembered as well.
Fetch(e) ==
  /\ stage[e] = "reading" /\ kind[e] = "hook"
  /\ \E t \in claims[e], answered \in BOOLEAN:
       /\ Unread(e, t) # {}
       /\ Evaluate(e, Unread(e, t), IF answered THEN cache[t] ELSE {})

Blocks(e) == \E q \in flagged[e]: q[2] \in Strong

\* An evaluation in mid-stream or in a hook, and the second one of a whole
\* response, end with a decision.
Finish(e) ==
  /\ unread[e] = {}
  /\ \/ stage[e] = "reading" /\ kind[e] # "final"
     \/ stage[e] = "deciding"
  /\ stage' = [stage EXCEPT ![e] = "done"]
  /\ project' = [project EXCEPT ![e] = NoProject]
  /\ claims' = [claims EXCEPT ![e] = {}]
  /\ flagged' = [flagged EXCEPT ![e] = {}]
  /\ owed' = [owed EXCEPT ![e] = {}]
  /\ reported' = [reported EXCEPT ![e] = FALSE]
  /\ UNCHANGED <<config, cache, permit, kind, unread, judgeVars>>

\* (mutation) the semaphore is set without looking whether it was free
ReportUngated(e) ==
  /\ kind[e] = "final" /\ stage[e] = "reading" /\ unread[e] = {}
  /\ stage' = [stage EXCEPT ![e] = "reported"]
  /\ reported' = [reported EXCEPT ![e] = Blocks(e)]
  /\ IF claims[e] # {}
       THEN /\ permit' = TRUE
            /\ judge' = [judge EXCEPT ![e] = "started"]
            /\ about' = [about EXCEPT ![e] = project[e]]
            /\ batch' = [batch EXCEPT ![e] = claims[e]]
       ELSE UNCHANGED <<permit, judge, about, batch>>
  /\ project' = [project EXCEPT ![e] = NoProject]
  /\ flagged' = [flagged EXCEPT ![e] = {}]
  /\ owed' = [owed EXCEPT ![e] = {}]
  /\ UNCHANGED <<config, cache, kind, claims, unread, attempt, lines>>

\* extract_and_evaluate_text ends with a report, and starts a call of the
\* judge about its claims and constraints unless one is in flight.
Report(e) ==
  /\ kind[e] = "final" /\ stage[e] = "reading" /\ unread[e] = {}
  /\ stage' = [stage EXCEPT ![e] = "reported"]
  /\ reported' = [reported EXCEPT ![e] = Blocks(e)]
  /\ IF claims[e] # {} /\ ~permit
       THEN /\ permit' = TRUE
            /\ judge' = [judge EXCEPT ![e] = "started"]
            /\ about' = [about EXCEPT ![e] = project[e]]
            /\ batch' = [batch EXCEPT ![e] = claims[e]]
       ELSE UNCHANGED <<permit, judge, about, batch>>
  /\ project' = [project EXCEPT ![e] = NoProject]
  /\ flagged' = [flagged EXCEPT ![e] = {}]
  /\ owed' = [owed EXCEPT ![e] = {}]
  /\ UNCHANGED <<config, cache, kind, claims, unread, attempt, lines>>

-----------------------------------------------------------------------------
(* score_claim_relevance, in a task of its own.                            *)

\* The task is gone, and with it what it kept.
Ends(e, how) ==
  /\ judge' = [judge EXCEPT ![e] = how]
  /\ attempt' = [attempt EXCEPT ![e] = 0]
  /\ batch' = [batch EXCEPT ![e] = {}]
  /\ lines' = [lines EXCEPT ![e] = {}]
  /\ about' = [about EXCEPT ![e] = NoProject]
  /\ UNCHANGED <<config, cache, evalVars>>

Return(e) == Ends(e, "returned") /\ permit' = FALSE

Uncached(e) == {t \in batch[e]: cache[t] = {}}

\* The daemon has no API key, or there is nothing to ask.
NothingToAsk(e) == judge[e] = "started" /\ Return(e)

Ask(e) ==
  /\ judge[e] = "started"
  /\ Declares[about[e]] # {} /\ Uncached(e) # {}
  /\ judge' = [judge EXCEPT ![e] = "asking"]
  /\ batch' = [batch EXCEPT ![e] = Uncached(e)]
  /\ UNCHANGED <<config, cache, permit, evalVars, attempt, about, lines>>

\* (mutation) the length of the table of delays is taken for its last index
RateLimitedOffByOne(e) ==
  /\ judge[e] = "asking" /\ attempt[e] + 1 <= MaxAttempts
  /\ attempt' = [attempt EXCEPT ![e] = @ + 1]
  /\ UNCHANGED <<config, cache, permit, evalVars, judge, about, batch, lines>>

\* Status 429: another attempt, after a pause, if any is left.
RateLimited(e) ==
  /\ judge[e] = "asking" /\ attempt[e] + 1 < MaxAttempts
  /\ attempt' = [attempt EXCEPT ![e] = @ + 1]
  /\ UNCHANGED <<config, cache, permit, evalVars, judge, about, batch, lines>>

\* The last 429, a failed or timed-out call, an answer that is not JSON.
CallFails(e) == judge[e] = "asking" /\ Return(e)

\* (mutation) the permit goes back as soon as the answer is in
AnsweredReleasing(e) ==
  /\ judge[e] = "asking"
  /\ judge' = [judge EXCEPT ![e] = "writing"]
  /\ permit' = FALSE
  /\ \E L \in SUBSET (batch[e] \X (Declares[about[e]] \cup {Foreign})):
       lines' = [lines EXCEPT ![e] = L]
  /\ UNCHANGED <<config, cache, evalVars, attempt, about, batch>>

\* The lines of the answer that name a claim asked about and say high or
\* medium; the constraint each names is not checked.
Answered(e) ==
  /\ judge[e] = "asking"
  /\ judge' = [judge EXCEPT ![e] = "writing"]
  /\ \E L \in SUBSET (batch[e] \X (Declares[about[e]] \cup {Foreign})):
       lines' = [lines EXCEPT ![e] = L]
  /\ UNCHANGED <<config, cache, permit, evalVars, attempt, about, batch>>

\* The answer is logged up to its 800th byte, its text up to the 500th: the
\* task panics if that is inside a character, and nothing gives the permit
\* back.
Panics(e) == judge[e] = "asking" /\ Ends(e, "panicked") /\ UNCHANGED permit

\* (mutation) a verdict is inserted in place of the ones before it
CacheLineReplacing(e) ==
  /\ judge[e] = "writing"
  /\ \E l \in lines[e]:
       /\ cache' = [cache EXCEPT ![l[1]] = {l[2]}]
       /\ lines' = [lines EXCEPT ![e] = @ \ {l}]
  /\ UNCHANGED <<config, permit, evalVars, judge, attempt, about, batch>>

\* Each verdict is pushed to its text's entry under the lock.
CacheLine(e) ==
  /\ judge[e] = "writing"
  /\ \E l \in lines[e]:
       /\ cache' = [cache EXCEPT ![l[1]] = @ \cup {l[2]}]
       /\ lines' = [lines EXCEPT ![e] = @ \ {l}]
  /\ UNCHANGED <<config, permit, evalVars, judge, attempt, about, batch>>

JudgeReturns(e) == judge[e] = "writing" /\ lines[e] = {} /\ Return(e)

-----------------------------------------------------------------------------
EvalStep(e) ==
  \/ OpenStream(e) \/ BeginChunk(e) \/ BeginFinal(e) \/ BeginHook(e)
  \/ ReportPii(e) \/ Again(e) \/ Lookup(e) \/ Fetch(e)
  \/ Finish(e) \/ Report(e)

JudgeStep(e) ==
  \/ NothingToAsk(e) \/ Ask(e) \/ RateLimited(e) \/ CallFails(e)
  \/ Answered(e) \/ Panics(e) \/ CacheLine(e) \/ JudgeReturns(e)

Next ==
  \/ \E p \in Projects \ {NoProject}: Register(p)
  \/ \E e \in Evaluations: EvalStep(e) \/ JudgeStep(e)

Spec == Init /\ [][Next]_vars

\* The runtime polls a task that can go on, and every call of the judge has
\* an end: 30 s for its headers, and an upstream that ends its body.  What is
\* violated is so although every call is brought to its end.
Fairness == \A e \in Evaluations: WF_vars(JudgeStep(e))
FairSpec == Spec /\ Fairness

-----------------------------------------------------------------------------
(* Properties.                                                             *)

InFlight(e) == judge[e] \in {"started", "asking", "writing"}

\* Only one relevance scoring call is in flight at a time, and while it is
\* the permit is taken: the semaphore of the spawned scoring task.
SingleFlight ==
  /\ \A d, e \in Evaluations: InFlight(d) /\ InFlight(e) => d = e
  /\ \A e \in Evaluations: InFlight(e) => permit

\* A text that has verdicts is not judged again: no call asks about a text
\* that has some, though the claims are looked up, the judge is asked and its
\* lines are pushed one by one, while other evaluations come to their end.
JudgedOnce == \A e \in Evaluations:
  judge[e] = "asking" => \A t \in batch[e]: cache[t] = {}

\* A verdict that was cached when a daemon evaluation began is enforced by
\* it, though it looks the cache up anew for each of its constraints while
\* the judge goes on writing.
KnownVerdictsBite == \A e \in Evaluations:
  kind[e] # "hook" => owed[e] \subseteq flagged[e] \cup unread[e]

\* Whatever a daemon evaluation or a stop hook flagged as a semantic
\* violation stays a violation for those that come after: a hook never
\* blocks on a verdict the daemon no longer holds.
FlagsStand == \A e \in Evaluations: \A q \in flagged[e]:
  q[2] \in Semantic => q[2] \in cache[q[1]]

\* "Rate limited: skips if a scoring request is already in flight." -- and
\* for no other reason (daemon/proxy.rs:2715).
Skips(e) == /\ stage[e] = "reading" /\ stage'[e] = "reported"
            /\ claims[e] # {} /\ judge'[e] = "none"
SkipsOnlyInFlight ==
  [][\A e \in Evaluations: Skips(e) => \E d \in Evaluations: InFlight(d)]_vars
=============================================================================
