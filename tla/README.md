# A TLA+ model of rigor

rigor puts itself between a coding agent and its language model: a local proxy
("the daemon") forwards the agent's requests, extracts the claims in each
answer, evaluates them against constraints written in `rigor.yaml`, and blocks,
retries or warns.  Around it are a Claude Code stop hook, tool-call hooks that
snapshot files, a preload layer that redirects connections, and a dashboard.
This directory models the parts of it where the order of events decides what
happens, checks them with TLC and proves what can be proved with TLAPS.

Paths below are relative to `src/crates/rigor/src/` unless they start with
`src/`; line numbers are those of the commit in `src/`.

## Inventory

Several processes meet here.  The daemon is one tokio process; all its mutable
state is `Arc<Mutex<DaemonState>>` (`daemon/mod.rs:148`), plus two process-wide
statics (the relevance cache and its semaphore).  Handlers and spawned tasks take
the mutex for short critical sections and never across an await, so the unit of
atomicity inside the daemon is one `state.lock()` block.  The grounded agent runs
with the preload layer in it.  Hooks and commands are processes of their own,
started by the agent or the user; they meet the daemon over HTTP and each other
in files under `~/.rigor`, `rigor.yaml` and the git working tree, none of which
anybody locks: there the unit is one system call or one git command, and
`writeln!` on a file is two of them, the text and its newline.  Where a module
takes several writes in one step, its section says why.

| component | code | state it keeps | operations | what makes it hard | module |
|---|---|---|---|---|---|
| Action gates | `daemon/gate.rs`, `daemon/gate_api.rs`, three places of `daemon/proxy.rs` | gate table with oneshot senders, last decision per session, active streams, blocked requests | judge tasks open gates; operators decide; the next request waits; the stream is cut | tasks, requests and operators interleave between critical sections; timeouts race verdicts | `ActionGates` |
| Streaming proxy | `daemon/proxy.rs:1201-2052` | one evaluator task per stream, a bounded channel to the client | forward, evaluate, BLOCK, retry once, verify, final evaluation | every await can fail; the client can be slow or gone; judges fail open; panics drop the task | `StreamProxy`, `ClientStream` |
| Request path | `daemon/proxy.rs:768-1200` | none of its own | pause, redact, inject, send | a truncated preview reused as content; retries of the chain | `RequestPath` |
| Governance and budget | `daemon/governance.rs`, `daemon/proxy.rs:1754-1799` | `block_next`, `proxy_paused`, costs | toggles, cost accumulation, automatic pause | toggles race with the code that reads and clears them | `StreamProxy`, `RequestPath` |
| Filter chain | `daemon/egress/` | per-request context | ordered filters on a copy of the body | one of several failing | `RequestPath` |
| Fallback policies | `fallback/` | configuration | `execute`, retry loop, validation against floors | policy chosen by the first failure; inheritance of defaults | `FallbackPolicy`, `Fallback` |
| Tool hooks | `cli/gate.rs`, snapshot half of `daemon/gate_api.rs` | git stashes, snapshots per session | pre-tool stash and register, post-tool poll and revert | separate processes; killed between steps; decisions and snapshots keyed by session only | `ToolHook` |
| Relevance cache | `daemon/proxy.rs:2749-2981`, `evaluator/relevance.rs` | global cache, single-flight permit | a background judge fills it, later evaluations read it | permit lost on panic; reload under way | `RelevanceCache` |
| Evaluator pipeline, policy engine | `evaluator/pipeline.rs`, `policy/engine.rs` | compiled Rego | routes claims to evaluators | fail-open on errors | `RelevanceCache` |
| Argumentation graph, decision | `constraint/graph.rs`, `violation/` | strengths | DF-QuAD iteration, thresholds | may not converge; boundaries | `Argumentation` |
| Stop hook | `lib.rs`, `hook/` | none (a process per call) | read transcript, evaluate, answer | fail-open exits; blocking for ever | `StopHook` |
| Lifecycle | `cli/serve.rs`, `cli/ground.rs`, `daemon/mod.rs:20-66` | two pid files, session registry | start, stop, clean up | several daemons; pids reused; registry rewritten | `Lifecycle` |
| Violation log | `logging/`, `memory/episodic.rs` | `violations.jsonl` | append, annotate by rewriting, summarise | appends racing each other and a rewrite, from several processes | `SharedFile`, `ViolationLog` |
| Refinement | `cli/refine.rs` | `rigor.yaml` | note, exclusion | read, truncate and write by several at once | `Refinement` |
| Preload layer | `src/layer/` | tables of blocks and sockets | six detours | threads; memory and descriptors reused | `Layer` |
| TLS interception | `daemon/sni.rs`, `daemon/tls.rs`, `cli/ground.rs`, `daemon/proxy.rs:367-431` | one connection | peek, route, replay, copy | bytes read before the decision | `Tunnel` |
| Claim extraction, dashboard and read-only APIs, LSP client, other commands | `claim/`, `daemon/ws.rs`, `lsp/`, `cli/` | files, sockets | I/O | no control that another part depends on | none |

How they interact: the layer sends the agent's connections to the daemon, which
tunnels or decrypts them.  A decrypted request enters `proxy_request`; the paused
switch lets it pass raw; the session's retroactive gates may hold it; the filter
chain injects the constraints; the upstream's stream is handed to an evaluator
task.  The task forwards chunks through a channel, spawns a scope-judge task per
intent to act, evaluates claims with the policy engine and the relevance cache,
reads `block_next`, on BLOCK talks to the upstream once more, and in the end adds
the costs, logs violations and spawns a refinement.  Judge tasks reach the stream
only through `blocked_requests`, and later requests only through the gate table.
Operators act through the HTTP API, hooks through `register-snapshot` and
`decision`.  The stop hook asks the pid file whether to do anything, and evaluates
by itself.

What should be true of each is listed in `PROJECT.json` under `hazards`: what
can go wrong, at which line, and which property would show it.

## Modules

| module | what it is |
|---|---|
| `ActionGates` | the gates, with requests, judge tasks and operator calls as processes |
| `ActionGatesProofs` | the inductive invariant and the theorems |
| `ClientStream` | what a client is promised of a streamed response (abstract) |
| `StreamProxy` | the evaluator task; implements `ClientStream` |
| `StreamProxyProofs` | its theorems, and the refinement step by step |
| `RelevanceCache` | evaluations, the cache of the judge's verdicts, the scoring calls that fill it, reloads |
| `RelevanceCacheProofs` | the inductive invariant and the theorems |
| `ToolHook` | pre-tool and post-tool hooks around a working tree, and the daemon's snapshots |
| `ToolHookProofs` | the inductive invariant and the theorems |
| `FallbackPolicy` | policies, floors and their validation, as operators |
| `Fallback` | a daemon that loads a configuration and executes an operation under it |
| `RequestPath` | requests up to their forwarding, and the budget |
| `SharedFile` | a file that some append to and others replace through a temporary one |
| `ViolationLog` | the log, its writers, annotators and summaries; an instance of `SharedFile` |
| `Refinement` | `rigor.yaml` and what refines it; extends `ViolationLog` |
| `Layer` | the preload layer in a process with threads |
| `Tunnel` | a connection through the daemon |
| `Argumentation` | strengths, severities and the decision, as operators |
| `StopHook` | the agent's turn and its stop hook; extends `Argumentation` |
| `Lifecycle` | daemons, `rigor serve stop`, pid files and the registry |
| `RequestPathProofs`, `ViolationLogProofs`, `RedirectProofs`, `DaemonProofs` | theorems about the compositions of `MCRequestPath`, `MCViolationLog`, `MCRedirect`, `MCDaemon` |
| `MC...` | instances for TLC; `MCLiveness` has `StreamProxy` and `ActionGates`, `MCRedirect` composes `Layer` with `Tunnel`, `MCDaemon` composes `Lifecycle` with `StopHook`, `MCRequestPath` has `RequestPath` and `Fallback` |

`ActionGates` and `StreamProxy` share `blocked_requests`: `ActionGates!BlockRequest`
appears in `StreamProxy` as `GateCut`, which may happen at any time after the
stream has started, and `StreamProxy`'s task appears in `ActionGates` as a request
that streams, ends and is cleaned up.  Each is thus checked against everything the
other can do to it.  What an evaluation finds is a free choice in `StreamProxy`
and `StopHook`; `RelevanceCache` is the evaluation, mid-stream, at the end of a
response, or in a stop hook.  `ToolHook!Decide` and `Consume` are what
`ActionGates` does to a session's decision.

Definitions marked `(mutation)` are not part of the model.  Each is the
definition below it with one plausible mistake; replacing the one by the other
must break the property named for it in `PROJECT.json`.

### ActionGates

State: `action_gates`, `gate_decisions`, `active_streams` and `blocked_requests`
are the fields of `DaemonState`.  `decision_tx` and `oneshot` are the two ends of
a realtime gate's channel: the sender in the table entry, and what the channel
holds (`closed` when the receiver has been dropped by the timeout).  `request`
and `pending_gate` are the control state and the local variable of
`proxy_request`; `judge` and `judged_request` those of a judge task; `call` is an
operator's call between the two critical sections of `apply_decision`.
`verdict` and `late` are history, read by properties only.

A gate id is the judge task that may open it (the code draws a uuid there), so
a gate's session is that of the request the task was spawned for.  A request id
is fresh for each request.  One action is one critical section, or one
interaction outside it:

* `LookUp`, `Poll`, `ConsumeDecision`, `ExpireGate`: `proxy.rs:807-868`.  The
  decision is read under one lock and consumed under a later one, so anything
  can happen between.  A round that finds no decision of its gate either sleeps
  (a stutter) or, past the deadline, expires.
* `StartStream`, `ReadChunk`, `ForwardChunk`, `EndStream`, `Cleanup`, `Panic`:
  what the stream does to gates.  `ReadChunk` looks at `blocked_requests`,
  `ForwardChunk` sends and then spawns judge tasks.  `Panic` is the byte slice
  at `proxy.rs:2276`, reached from the final judge or the retry's: the runtime
  drops the task before its cleanup.
* `JudgeWithinScope`, `JudgeOutOfScope`, `CreateRealtimeGate`,
  `RegisterRetroactiveGate`, `AwaitDecision`, `BlockRequest`: the judge task of
  `proxy.rs:1369-1423` with `gate.rs:10-96`.  Whether the stream is active is
  read in one critical section, the gate is created in another.
* `ApplyDecision`, `RecordDecision`: `gate.rs:99-119`.

Time is a choice: wherever the code has a deadline, the step that takes it is
enabled.  Poisoning of the mutex is not modelled: no critical section modelled
here panics.

### StreamProxy and ClientStream

`ClientStream` says what the comment at `proxy.rs:1201-1205` says: chunks; on
BLOCK no more of them, then at most one error event or retried response; then
the end.  It leaves open when to block.

`StreamProxy` has one task per request.  `task` is where it stands, `text`,
`refused`, `tail` are its local variables, `requested` counts its upstream
requests, `judged` is the last verification's outcome.  `client` is everything
put into the client's channel, `taken` how much of it the client has read; a
send waits while the difference is `Capacity` and fails once the client is
gone.  What an evaluation or a judge finds is a free choice: the properties
must hold whatever the text.  The two BLOCK branches of the code
(`1472-1746`, `1856-2022`) are the same steps except for a retry that cannot be
sent, which only the first reports to the client.  Inputs: whether the request's
system text carries the marker of a retry, and `RIGOR_NO_RETRY`.

Left out: cost accounting (`1754-1799`, in `RequestPath`), event broadcasts, violation logging,
auto-refinement; whether the retried body carries the feedback (it does not if
the system prompt is an array or absent); and the non-streaming branch, which
evaluates in the background and never blocks.

### RelevanceCache

A claim is its text, a constraint its id, and the cache a set of constraint ids
for each text: only `high` and `medium` verdicts are ever cached
(`daemon/proxy.rs:2764-2774`).  `config` is the project whose `rigor.yaml` the
daemon has loaded, `permit` is `RELEVANCE_SEMAPHORE`.  Each member of
`Evaluations` is one evaluation, of the `kind` it has from the start, and the
scoring call it may spawn:

* `stage`, `project`, `claims`, `unread`, `flagged`: the evaluation.  `Lookup` is
  one turn of the loops of `EvaluatorPipeline::run`, which locks the cache anew
  for each pair; `Fetch` is a stop hook's, which fetches once per text, remembers
  the answer for the run, and takes a failure for an empty one.  Claims are
  done one after the other; their order, and that of the constraints, is free.
* `OpenStream`, `BeginChunk`: a stream copies the constraints at its start.
  `BeginFinal`: the end of a response takes those loaded by then.  `BeginHook`: a
  hook reads its own directory's.
* `ReportPii`, `Report`, `Again`, `Finish`: the end of a response is evaluated
  once for the report (`extract_and_evaluate_text`) and, if it was a stream, a
  second time for the decision (`evaluate_text_inline`).  `Report` also starts
  the scoring call.
* `judge`, `attempt`, `about`, `batch`, `lines`: the scoring call
  (`score_claim_relevance`).  Its cache lookup, the call of the judge, and each
  push of a verdict are separate steps.  The judge may name any constraint it was
  given, and one it made up (`Foreign`).  `Panics` is the byte slice of its debug
  output.
* `Register`: `register_project` with `reload_config`.

`owed` is history: the pairs whose verdict was cached when the evaluation began.
Variables that are local to an evaluation or a task return to their initial
values when it ends.  Left out: the wording and severity of violations (a
violation blocks if its constraint is in `Strong`), warnings, logging and
auto-refinement, the forced block (in `StreamProxy`), and projects whose policy
does not compile, which evaluate nothing.

### ToolHook

A file's content is named after whoever wrote it last; a stash has the name of the
call that made it.  `pre` and `post` are the hooks of each call, between two git
commands or HTTP requests: `CheckDirty`, `StashPush`, `Register` and `Pop` are
`cli/gate.rs:84-148` with `pop_stash_by_message`; `Poll`, `PollFails`,
`PollTimesOut`, `Revert` and `Drop` are 193-296.  `Register` has the outcomes of a
request with a 2 s timeout: taken and answered, taken and answered too late,
taken after the hook gave up (`inflight`, `TakeLate`), or not at all.  `up`,
`gate_snapshots` and `decision` are the daemon, whose memory is lost when it
stops.  `written`, `taken` and `ruled` are history.  A `Bash` call stashes nothing
and still registers.  The hook takes part if gates are enabled for the session
(`TakesPart`) and the pid file names a living process.

### RequestPath, FallbackPolicy, Fallback

`RequestPath` is one request from the pause switch to the upstream's answer:
`Arrive` (`proxy.rs:768-806`), `ForwardRaw`, `Prepare` (parsing, the preview and
its panic, redaction), `Inject` (one run of the chain and what the policy of its
failure says), `Send`, `Charge` (1754-1799).  A message is whether it parses, is
one string, is longer than 200 bytes, has a character across byte 200, and where
its secret is.  `RunChain` works on a copy, as the closure given to `execute` does.

`FallbackPolicy` translates the pure functions of `fallback/`: `PolicyFor`,
`FloorsFor`, `Enforced`, `Validate`, `RetriesLeft`, `GivenUp`.  `Fallback` loads
one of the files of the instance, refuses to start if `Validate` fails, and
executes an operation whose every failure has a category of its own.  In the
instance the two machines run one after the other and not side by side, since they
share only the operators.

### SharedFile, ViolationLog, Refinement

A name refers to an inode, and whoever has opened an inode writes to it whatever
the name refers to by then: `OpenToAppend`, `AppendText` and `EndLine` are
`ViolationLogger::log`, `OpenTemp`, `WriteTemp` and `Rename` are `rewrite_log`.
`log` has opened a plain `File`, so that its `writeln!` is one call for the entry
and another for the newline.  Between them the inode is `unended`, and a text
appended to it makes one unreadable line of two; the newlines that follow are an
ended line and an empty one.  `WriteTemp` writes all lines in one step, since with
one annotator nobody else sees the temporary file, and with several at once
`LogKept` promises nothing.
Two annotators share the temporary file, which `OpenTemp` truncates and
`WriteTemp` fills from offset 0; what is left of the other's lines shows behind,
the first of them torn (`Overlays`).  `ViolationLog` has streams and hooks with
violations to log, and annotators; `exposed` and `tangled` are history: what was
logged into a rewrite, and whether two rewrites overlapped; so is `crowded`, which
has the entries that came to share a line with another.  A writer in `ending` that
takes no further step was killed between its two writes.  `Stats`, `Episodes`
and `Candidates` are the three loops over the entries, as functions.

`Refinement` adds `rigor.yaml`: notes, exclusions and the user's last edit.
`ReadLog` computes the candidates, `ReadYaml`, `Truncate`, `Write`, `ReadAgain`
are the reads and writes of `auto_refine` (the second pair only there) and of
`rigor refine --apply`; `fs::write` is two steps, because it truncates first.
`crossed` is history: some write came between another's read and write.

### Layer and Tunnel

`Layer` has the table of addrinfo blocks (`managed`) with the heap under it, and
the table of redirected sockets with the descriptors under it.  `Free` and `Freed`
are one call of `freeaddrinfo`: between them the entry is gone and the block not
yet.  `bypass` is the guard that lets what libc calls from inside a hook pass.
`env` says which hooks could be installed, as failures to install are
"non-critical".  `Close` changes no table: close is not hooked.

`Tunnel` is a connection: what the client sends is three pieces, of which `Peek`
reads one or two.  `Route` is the choice of `rigor ground` and of CONNECT, and
`AcceptAll` that of `rigor daemon`; `Read`, `Copy` and `Replay` move the pieces;
`Serve` is the catch-all handler.  `MCRedirect` lets every connection that `Layer`
redirects arrive at `Tunnel`'s listener.

### Argumentation, StopHook, Lifecycle

`Argumentation` computes with multiples of 1/10000 where the code has f64.
`Round`, `Settled` and `ComputeStrengths` are the loop of `compute_strengths` with
its 100 rounds and its error after them, `Severity` and `Decision` the thresholds.
A configuration is a set of relations, so a relation listed twice, which counts
twice in the code, is not in the model.

`StopHook` has the agent's turn and one hook at a time.  Each early exit of
`run_hook` and `evaluate_constraints` is an action: no daemon, unreadable input,
`stop_hook_active`, no or unusable configuration, policies that do not compile.
The configuration does not change in a behaviour; what loading it gives is
computed once (`computed`).

`Lifecycle` has starts of `rigor serve` and `rigor ground`, each in a `phase`, with
a pid the system may give to another afterwards.  `RegisterSession` and
`EndSessionLine` are the two writes of `register_session`, between which another
daemon may register (`unended`) or the daemon be killed.  `ReadRegistry` and
`WriteRegistry` are the two halves of `update_session`; that `fs::write` truncates
first is left out of the latter: who reads an empty or half registry marks fewer
sessions, never a wrong one.  `RemovePidFile` and
`Leave` are the clean-up of `rigor serve`; `FindServe`, `Terminate`, `SeeItGone`
and `ForceKill` are `rigor serve stop`.  `MCDaemon` gives `StopHook` the answer of
`daemon_alive` from the pid file.

## Runs

| run | instance | shows |
|---|---|---|
| `action_gates` | 3 requests in 2 sessions, 2 gates, 1 call | the five safety properties of the gates |
| `stream_proxy` | 2 streams, 1 chunk, channel of 1, 1 arming | safety of blocking, retrying and the switch |
| `liveness` | 3 requests of one session, 1 gate, 1 call, fair; or 1 stream, 3 chunks, channel of 2, fair | waits, cut streams and judge tasks end; `StreamProxy` implements `ClientStream`; every stream closes |
| `relevance_cache` | 2 evaluations of any kind, 2 texts, 2 projects with a constraint each, 2 attempts | the five safety properties of the cache |
| `relevance_cache_permit` | 2 evaluations, 1 text, fair | violation: scoring is skipped with none in flight (`daemon/proxy.rs:2715`) |
| `tool_hook` | 2 calls, 1 file, 1 user edit, 2 sessions, 2 failed polls | no write is lost, no stash orphaned by a hook that ends, no other session's file touched |
| `tool_hook_absolute` | the same with absolute paths | violation: a rejected edit deletes a tracked file (`cli/gate.rs:241`) |
| `request_path` | 2 requests, 2 filters, 4 policies, costs 0, 2, 4 with a budget of 3; 2376 fallback configurations of 2 categories and 1 group | whole injections, redaction, budget, floors |
| `violation_log` | 2 streams with a violation each, 2 annotators, 8 earlier entries, 3 refinements, 1 user edit | what an overlap can lose and nothing else can; summaries agree |
| `violation_log_append` | 1 stream and 1 stop hook with a violation each, no annotator | violation: two entries on one line, which nobody reads (`logging/violation_log.rs:37`) |
| `redirect` | 2 threads, 2 descriptors, 1 block, 2 hosts, table of 1, 5 setups | memory, peers and bytes |
| `daemon` | 1 serve, 1 ground, 2 pids, 3 constraints, 8 configurations, fair | registry, decision, turns end |

`liveness` is two instances in one run: its initial states choose whether the gates
run or a stream, and the other stays as it is.  It relates nothing of the one to the
other.

Deadlock is checked in `redirect` and `daemon`, which go on for ever.  Elsewhere it is
not: those systems may stop, since clients, users and operators need not act and
every instance has finitely many requests, calls and edits.

Why the bounds are enough.  *Gates*: a gate touches one judge task, one request
that opened it and at most the requests of its session; two requests of one
session, one of another, and two gates give a waiter, the stream it waits for, a
stranger, and a second gate whose decision can be mistaken for the first's or
overwrite it.  A single call in flight already interleaves with the other
steps of the system, and a second decision on either gate can follow; that two
calls are in flight together is covered by the proofs.  *Streams*: requests meet
only in `block_next`, so two of them and one arming show a switch used twice;
chunks, channel and client are independent of other streams, and three chunks with
a channel of two reach a full channel with more to send.  *Relevance*: two
evaluations give two scoring calls that compete for the permit, a writer and a
reader of the cache, and a hook beside the daemon; two texts give a call that finds
one of them cached and the other not; a semantic and a Rego constraint in different
projects make a reload change what is evaluated.  Two attempts stand for the four
of the code: what differs is only whether one is left.  *Tool hooks*: two calls
are an earlier snapshot and a later one; the second edits the same file, is a call
without a file in another session, or runs without gates.  Two failed polls stand
for three.  *Requests*: two share the switch and the total; costs and budget are
such that one response exceeds it, two do, or none; two filters can fail at the
first, at the second, or not at all.  *Log*: two annotators and two appenders meet
in every order, and two appenders are what it takes to spoil a line; the earlier
entries make one constraint a candidate for both thresholds, which an annotation
can take off the list, and another, of a different project, one for the command's
lower threshold only.  What happens to
`rigor.yaml` commutes with what happens to the log, and no property relates the
two: `MCViolationLog` explores the log to its end first.  *Redirect*: the
table is dropped when it has more than `MaxTracked` entries, 1024 in the code and 0
here; one descriptor is followed into the daemon.  *Daemon*: two daemons of the two
kinds overwrite each other's files; two pids make one reused.  The seven
configurations with a `rigor.yaml` are an attack, an undercut attacker, an attacker
against a supporter, mutual attack, attack in a circle, no relation and an invalid
one.

Fairness.  `ActionGates!Fairness`: tokio reschedules a task that can run, timers
fire, an upstream that streams sends another chunk or ends, a client takes what
it is sent or goes away.  Not fair: an operator's decision, a new request, the
end of an upstream's stream, a judge's particular answer.  `StreamProxy!Fairness`
asks the same of evaluator tasks and clients.  Two assumptions are the
environment's and not the code's: that the bodies of judge answers end, and that
a retry is answered; the HTTP client has no timeout of its own
(`daemon/mod.rs:235-238`), and only the beginning of a judge's answer is limited
to ten seconds.  The liveness results hold of a daemon whose upstream does not
hang there.  `RelevanceCache!FairSpec` makes every scoring call come to its end,
on the same assumption; it is there so that the violation is not that of a
system that merely stopped.  `MCDaemon!FairSpec`: the agent that works wants to
stop some time, and a hook's process runs; nothing is assumed of daemons, of the
user, or of what the hook finds, which may be a violation every time.

## Proofs

`ActionGatesProofs` proves, for every set of requests, sessions, gates and
operator calls and every assignment of requests to sessions:

| theorem | property |
|---|---|
| `TypeCorrect` | `TypeOK` |
| `WaitsNeverChain` | `WaitsOnlyOnFinishedStreams` |
| `ReleaseIsDecided` | `ReleaseNeedsVerdict` |
| `CutIsRefused` | `CutNeedsRefusal` |
| `LateChunksBounded` | `AtMostOneLateChunk` |

The only assumptions are that each request has a session and that the null
values are no gate and no request.

None of the properties is inductive.  That a request waits only for a finished
stream depends on retroactive gates being opened only by tasks that found the
stream inactive, that depends on a stream staying in `active_streams` until its
cleanup, and on no request being streamed twice: `RequestInv`, `JudgeInv` and
`TableInv` carry this.  That a release has a verdict needs the same of decisions
recorded and of decisions in flight (`DecisionInv`).  That a cut has a refusal
needs the contents of the oneshot channel to be the first verdict
(`OneshotInv`), because a later verdict can contradict it, and the reason to
survive until the block (`CutInv`).  The bound on late chunks needs that a
request that is about to forward has not done so since it was blocked
(`LateInv`).  `IInv` is their conjunction with the types.  One lemma per action
shows that it keeps each part; `Invariance` combines them.

`RelevanceCacheProofs` proves, for every set of texts, constraints, projects and
evaluations, whatever Rego and the judge say:

| theorem | property |
|---|---|
| `CacheTypes` | `TypeOK` |
| `OneCallInFlight` | `SingleFlight` |
| `NeverJudgedTwice` | `JudgedOnce` |
| `VerdictsAreEnforced` | `KnownVerdictsBite` |
| `VerdictsAgree` | `FlagsStand` |

The assumptions: the made-up id is no constraint, the state without a project
declares none, semantic constraints are constraints, and there is at least one
attempt.  `SingleFlight` is inductive: only the call that holds the permit gives
it back.  `JudgedOnce` is not: that no other call writes needs `SingleFlight`, and
that a finished one has nothing left to write needs `LinesAsked`.
`KnownVerdictsBite` needs that a verdict seen at the start is there still when
its pair's turn comes (`OwedCached`), which is that nothing ever leaves the cache,
as `FlagsStand` does.

`StreamProxyProofs` proves, for every set of requests, any positive capacity of
the clients' channels, any length of the responses and any number of toggles:

| theorem | property |
|---|---|
| `TypeCorrect` | `TypeOK` |
| `ForcedBlocksAreArmed` | `ForcedBlocksNeedArming` |
| `MidStreamBlocksTold` | `MidStreamBlockSignalled` |
| `ViolatingRetriesWithheld` | `ViolatingRetryWithheld` |
| `ClientSeesPromise` | `KeepsPromise` |

`BlockInv` ties a task's place to whether and when it was blocked and to how many
upstream requests it has made; `ReplacementInv` says that only the one item in
`tail` ever takes the place of the rest; `JudgedInv` and `SignalInv` carry the
retry's verdict and the notice to the client to the end.  `ClientSeesPromise` is
the refinement of `ClientStream`: `InitRefines` and `NextRefines` map the initial
states and every step, the latter from `Phases`, which computes the abstract phase
from the task's place alone.  The refinement mapping `StreamPhase` used to be a
CASE with overlapping guards, which TLC takes in order and TLA+ does not; that
its value could not be proved is how this was noticed, and the guards are now
disjoint.

`ToolHookProofs` proves, for every set of calls, edits, files and sessions and
whatever the hooks are run with:

| theorem | property |
|---|---|
| `TypeCorrect` | `TypeOK` |
| `NoWriteLost` | `LastWriteSurvives` |
| `NoStashOrphaned` | `NoOrphanStash` |
| `SessionsSeparate` | `ActsOnOwnSession` |
| `RelativeFilesRestored` | `TrackedFilesRestored`, if every hook is given relative paths |

They assume that calls, edits and the two names of a file nobody has written are
different (`WriterAssumption`, `NoneAssumption`).  `UntouchedInv` is what makes
`LastWriteSurvives` inductive: a file no decision has been seen on, and nobody has
written to, is as git has it and in no stash, so that a stash taken of it holds
the last write.  `RuledInv` and `DaemonInv` say where a decision may apply.
`RelativeFilesRestored` is the other half of the run `tool_hook_absolute`: what
fails there for absolute names holds of all others.  Of the invariant it needs the
types: a hook acts on a call there is, whose file `git cat-file` then finds.

`RequestPathProofs` proves, for every set of requests, chain of filters, set of
costs and budget, and for every set of categories, groups, components and
configurations, the invalid ones included:

| theorem | property |
|---|---|
| `TypeCorrect` | `TypeOK` |
| `WholeInjection` | `InjectedWholeOrNot` |
| `SecretsStay` | `SecretsRedacted` |
| `BudgetHolds` | `OverBudgetNotCharged` |
| `FloorsAreHeld` | `FloorsHeld` |
| `BothKeepTheirPromises` | the last four of the composition |

The first four are about either machine on its own (`RequestSpec`, `FallbackSpec`)
and carry over to the composition by `BothSpecs`, which maps each of its steps
to a step or a stutter of both.  They assume that costs and the budget are natural
numbers, that the failures' policies are policies, that what is loaded has the
shape of a configuration, and that no category is called "no policy".  `BudgetInv`
is the reason why a charge of a request that arrived over budget cannot happen: a
total over the budget means paused, unless somebody resumed.  `RetryInv` is the
bound on retries and the outcome under the policy of the *first* failure, which is
the one the code keeps to; `FloorsHeld` follows from it and from `Validate`, which
held when the daemon came up.

`DaemonProofs` proves, for any number of daemons and pids and any sequence of starts, ends,
kills and reuses, and any set of configurations that are projects:

| theorem | property |
|---|---|
| `TypeCorrect` | `TypeOK` |
| `MarkedSessionsAreOver` | `EndedMeansOver` |
| `DefeatedNeverBlocks` | `DefeatedDoesNotBlock`, of the stop hook in any environment |
| `DefeatedNeverBlocksBesides` | the same, of the hook beside the daemons |

`EndedMeansOver` needs the same of every copy of the registry that some daemon has
read and will write back (`ReadMeansOver`).  `DefeatedDoesNotBlock` is about what
`compute_strengths` returns: the value of its last round, which differs from the
one before by less than the tolerance (`ComputeFacts`); of the product over the
attackers, that no factor is exceeded (`AggFacts`); and that a strength can then
reach the threshold of a block only if each attacker's stays below that of a
warning, rounding included.

These, and those of the log, are about functions that are defined by recursion.
The induction is by sets: a non-empty set of naturals has a least element
(`WFMin` of `WellFoundedInduction` with the order on `Nat`), hence a set with 0 and
with the successor of each member has all (`SetInduction`), hence a recursively
defined function exists and obeys its equation at each argument.  What
`ComputeStrengths`, the fold in `Agg`, `Parsed`, the loops of the summaries and the
injection of exclusions compute is thus proved for every input.

`RedirectProofs` proves, for any number of threads, descriptors, blocks, hosts and
connections, any table size, and any set of environments and modes:

| theorem | property |
|---|---|
| `TypeCorrect` | `TypeOK` |
| `PeersAreBelieved` | `PeersBelieved` |
| `BlocksFreedByOwner` | `FreedByOwner`, a part of `TypeOK` |
| `BytesDelivered` | `Delivered` |

They assume that no block and no host is the null value and that what names no
host is not listed.  `OwnerInv` is needed because a block is out of the table before
it is freed: no two threads are freeing the same one, and none that the table has.
It holds only where the detour of `freeaddrinfo` is installed; the other case is
among the observations.  `RecordInv` says that every descriptor whose connect was
hooked, and that was not evicted, has the entry of its last connect.  `KeptInv`
says for each stage how many of the client's pieces are where: what was peeked and
replayed, and what was read since, are the beginning of what was sent.

`ViolationLogProofs` proves, for any number of streams, hooks, annotators and
refinements, whatever log there was before and whatever users ask for:

| theorem | property |
|---|---|
| `TypeCorrect` | `TypeOK` |
| `EntriesStay` | `LogKept` |
| `SummariesMatch` | `SummariesAgree` |
| `YamlIsKept` | `YamlKept` |
| `NothingTwice` | `NothingRefinedTwice` |
| `CheckedKept` | all of these, of the specification TLC runs |

All but the last are about `Interleaved`, in which steps on the log and on
`rigor.yaml` come in any order; `SpecInterleaves` shows that it has every behaviour
of the run, so the order that keeps the run small hides nothing.  They assume that
there are finitely many processes and constraints, that writers and annotators
differ, that two
violations at most are logged of a response, and that the command's threshold is not
above the daemon's.

While rewrites do not overlap (`~tangled`), `LogInv` says that at most one
annotator is at work, that the temporary file is its own (`TempInv`), and that the
entries a reader finds in the log, the annotator's copy and the temporary file
each have every entry that was neither exposed nor crowded, once, with the marks of
those that are done; the last two have the annotator's own mark as well
(`KeepInv`), so that a rename keeps all of it.  An append may take an entry away,
the one whose line has no newline yet, and makes it crowded by that
(`ParsedTorn`: what a reader finds in the new log are the entries before it).  What
keeps `LogKept` is that this is never an entry somebody has annotated
(`BegunInv`): an annotation that is done has replaced the file by ended lines.
Nothing is assumed of writers that stop between their two writes.  That
an id is not given twice needs room for what is still pending.  `YamlInv` has two
halves.  `OnceInv`, that no constraint has two notes and no exclusion is there
twice, holds of the file and of every draft and survives any overlap.  `WholeInv`,
while windows do not overlap (`~crossed`), says what the file has between the two
halves of a write, when it is empty and the draft has everything.

`SummariesAgree` needs nothing of the invariant but that the log is a sequence of
entries: it is about what the summaries compute.  `Counted` and `Remembered` say what
`Stats` and `Episodes` have after each entry (`StatsFacts`, `EpisodesFacts`), in terms
of sets of entries; sums over constraints and over sessions are then cardinalities of
disjoint parts (`SumIs`, `SumOfParts`, `SumOfOnes`).

Only model-checked: liveness (`WaitEnds`, `BlockedStreamEnds`,
`JudgeEnds`, `StreamsClose`, `TurnEnds`), which is outside the prover's reach; and
the three properties that a run shows violated, one of which is proved under the
condition above.

## Observations

Met while translating; where a step is modelled, it is as the code has it.  Three of them are
shown by a run and listed as findings in `PROJECT.json`: the permit of the
relevance cache is lost when the debug output slices an answer inside a character
(`daemon/proxy.rs:2919`); a rejected edit of a tracked file, named by its
absolute path, deletes it (`cli/gate.rs:243`); and two violations logged at the
same time can end up on one line and be lost (`logging/violation_log.rs:47`).

Gates and streams.
* A stream does not await its realtime gate, though `daemon/gate.rs:9` speaks of it:
  the judge is a spawned task, and chunks go on meanwhile.
* A realtime gate whose wait timed out stays in the table: `cleanup_expired_gates`
  (`daemon/gate.rs:122`) has no caller.
* A task that panics, as the slice of the judge's prompt at byte 2000 can make it
  (`daemon/proxy.rs:2276`), ends the client's stream without a word, and
  `active_streams` keeps the request; `MidStreamBlockSignalled` excepts it.
* When the retry after a post-stream BLOCK cannot be sent, the client is sent nothing
  (`daemon/proxy.rs:2011`; compare 1926-1928 and 1738-1743).
* `block_next` is looked at only mid-stream, behind the pre-filter: a short or
  claim-free response passes with the switch on (`daemon/proxy.rs:1460`,
  `daemon/mod.rs:172`).
* `evaluate_text_inline` reports one evaluation and acts on a second one, without
  the PII scan and under what may be another configuration
  (`daemon/proxy.rs:2445-2454`).

Requests.
* A paused proxy, the one over its budget included, forwards unevaluated and
  uncounted.
* PII is searched in the first 200 bytes of the last message; a longer message with
  a secret there is replaced by the preview, and a secret after it goes out.  A
  character across byte 200 panics the handler (`daemon/proxy.rs:940`).
* The chain that the daemon builds has one filter, which never fails
  (`daemon/proxy.rs:1046-1048`); `Inject` has the failing branches of `chain.rs` and
  of the policies for the chains that may come, and today's daemon never takes them.
* The policy of the first failure governs all retries; a component that the
  configuration does not list is in no group and escapes the groups' floors;
  `reload_config` does not reload the fallback policies.
* The pass-through of other paths drops the query string; `/responses` gets no
  injection; `build_epistemic_context` shows the violations of all sessions as those
  of "THIS SESSION".

Hooks.
* Hooks know a session by the agent's id, the proxy by a hash of the credentials
  (`daemon/proxy.rs:808-819`): in the deployed system a gate's decision does not
  reach a hook's snapshot.  `Decide` lets it, which is what the code is for.
* Decisions are per session and snapshots are never removed: a rejection can revert
  the file of an earlier call, one that was skipped as dirty included.  An empty
  session id is kept by the pre-tool hook (line 72) and replaced by the post-tool
  hook (183).

Files.
* An entry and its newline are two writes.  What another stream or hook writes
  between them, or after a writer killed there, shares the line, and no reader finds
  either; `LogKept` excepts both as `crowded`.
* What is logged while an annotation rewrites the log is lost, and overlapping
  annotations share one temporary file, "atomically" (`logging/annotate.rs:36`)
  notwithstanding.  Lines that a reader cannot parse do not survive a rewrite.
  `alerts.json` is rewritten in the same way.
* `rigor log annotate` counts entries from the oldest; its help speaks of the
  numbers of `rigor log last`.
* `fs::write` truncates `rigor.yaml` first; whoever reads then takes it for empty
  and writes that back.  The daemon does not load what a refinement has written.
  Which words become an exclusion depends on the order of a hash map.
* `update_session` gives up at the first line it cannot parse, which two
  registrations at once are enough to make: no session is marked as ended from then
  on.  It also loses registrations and marks made between its read and its write.
  `EndedMeansOver` is only about marks that are there, since nothing in the code
  says the registry is complete.

Daemons.
* A pid file is overwritten by whoever starts and removed by whoever ends:
  `daemon_alive` can be false while a daemon serves, and hooks then silently
  allow.  `rigor serve` that cannot bind its port runs into the same clean-up;
  `rigor ground` never removes its file.  A recycled pid can make `rigor serve
  stop` end another process.
* Three constraints that attack in a circle have no fixed point: loading fails in
  the daemon, and the stop hook allows whatever any constraint says
  (`constraint/graph.rs:145`; the test of cycles has two nodes).

Redirection.
* A connection without a server name is tunnelled to 127.0.0.1:443, the daemon's
  own listener if the TLS port is 443.  The peek has no timeout.  `rigor daemon`
  decrypts whatever arrives.
* `connectx` records nothing; `getpeername` of a reused descriptor tells the
  earlier peer (close is not hooked), and that of a socket whose record was dropped
  with a full table the proxy's; `PeersBelieved` excepts both.  IPv6 is not
  intercepted; `getaddrinfo` ignores the port asked for; children are not
  intercepted.
* If the detour of `freeaddrinfo` cannot be installed the others still are, and libc
  frees the layer's blocks.

## Plan

Every safety property that a run shows to hold is a theorem; liveness is out of the
prover's reach.  What the model may still grow by is listed below.

## Not modelled

The dashboard's event stream and read-only APIs, the LSP client, claim extraction
by regular expressions, webhooks and the remaining CLI commands: input and output
without control that another part depends on.  Parsing of a ClientHello, of YAML
and of SSE, and the making of certificates: work on bytes in external formats.
What Rego says of a text and what a judge answers are choices.  Of `DaemonState`,
a reload whose policies do not compile (`daemon/mod.rs:364`) is left out.
`cleanup_expired_gates` and the response half of the filter chain have no caller
and are no actions; `tool_completed` only logs; `disabled_constraints` is only
listed.  Poisoned mutexes are not modelled.  `rigor daemon`, `rigor gate install`,
`uninstall` and `status` are not modelled; of the macOS detours neither are
SecTrust and `dns_configuration`.
