------------------------- MODULE RequestPathProofs -------------------------
(***************************************************************************)
(* Proofs about RequestPath and Fallback, for every set of requests, chain *)
(* of filters, policies, costs and configurations, and about the two side  *)
(* by side.                                                                *)
(***************************************************************************)
EXTENDS MCRequestPath, SequenceTheorems, TLAPS

-----------------------------------------------------------------------------
(* The request path: the inductive invariant, in parts. *)

\* What a request sends is its body, and it sends nothing before its chain
\* has gone through or has been skipped as a whole.
InjectInv == \A r \in Requests:
  /\ pc[r] \in {"new", "raw", "arrived"} => body[r] = Unmodified
  /\ pc[r] = "injecting" => body[r].filters = <<>>
  /\ pc[r] \in {"new", "raw", "arrived", "injecting", "sending"} => upstream[r] = {}
  /\ upstream[r] \subseteq {body[r]}
  /\ pc[r] = "sending" \/ upstream[r] # {} =>
       \/ body[r].filters = Filters
       \/ body[r].filters = <<>> /\ (pc[r] = "passed" \/ GivenUp(policy) = "skipped")

\* The message was rewritten before the chain, which leaves it alone.
RedactInv == \A r \in Requests:
  pc[r] \in {"injecting", "sending"} \/ (upstream[r] # {} /\ pc[r] # "passed") =>
    body[r].text = Rewrite(msg[r])

\* A budget that ran over has paused the proxy, until somebody resumes it.
BudgetInv == total > MaxCost /\ ~resumed => proxy_paused

RequestInv ==
  /\ RequestTypeOK
  /\ InjectInv
  /\ RedactInv
  /\ BudgetInv
  /\ OverBudgetNotCharged

-----------------------------------------------------------------------------
(* The fallback: the inductive invariant, in parts. *)

\* Only a valid configuration is executed under.
ConfigInv ==
  /\ IsConfig(config)
  /\ phase = "up" => Validate(config)
  /\ phase # "up" => op = "idle" /\ first = NoPolicy

\* The policy of the first failure rules how often an operation is called
\* again and how it ends.
RetryInv ==
  LET p == PolicyFor(config, component, first) IN
  /\ first = NoPolicy => retries = 0 /\ op \notin {"skipped", "blocked"}
  /\ first # NoPolicy => retries <= p.attempts
  /\ op \in {"skipped", "blocked"} => op = GivenUp(p) /\ retries = p.attempts

FallbackInv ==
  /\ FallbackTypeOK
  /\ ConfigInv
  /\ RetryInv

-----------------------------------------------------------------------------
(* The operators. *)

\* Every part of the chain of filters is a sequence, the empty one among them.
LEMMA ChainFacts ==
  /\ Filters \in Seq({Filters[i]: i \in DOMAIN Filters})
  /\ Filters = SubSeq(Filters, 1, Len(Filters))
  /\ <<>> = SubSeq(Filters, 1, 0)
  /\ Len(Filters) \in Nat
<1> DEFINE S == {Filters[i]: i \in DOMAIN Filters}
<1>1. Filters \in Seq(S)
  BY FilterAssumption
<1>2. SubSeq(Filters, 1, Len(Filters)) = Filters
  BY <1>1, SubSeqFull
<1>3. SubSeq(Filters, 1, 0) = <<>>
  BY SubSeqEmpty
<1> QED BY <1>1, <1>2, <1>3

\* The bodies a request can have.
LEMMA BodyFacts ==
  /\ Unmodified \in Bodies
  /\ \A b \in Bodies: [b EXCEPT !.filters = Filters] \in Bodies
  /\ \A b \in Bodies, t \in {"verbatim", "redacted", "preview"}:
       [b EXCEPT !.text = t] \in Bodies
<1>0. 0 \in 0 .. Len(Filters) /\ Len(Filters) \in 0 .. Len(Filters)
  BY ChainFacts
<1>1. Filters \in {SubSeq(Filters, 1, n): n \in 0 .. Len(Filters)}
  BY <1>0, ChainFacts, Zenon
<1>2. <<>> \in {SubSeq(Filters, 1, n): n \in 0 .. Len(Filters)}
  BY <1>0, ChainFacts, Zenon
<1> QED BY <1>1, <1>2 DEF Bodies, Unmodified

\* A message is forwarded as it is, redacted, or cut to its redacted preview.
LEMMA RewriteFacts ==
  ASSUME NEW m \in Messages
  PROVE  /\ Rewrite(m) \in {"verbatim", "redacted", "preview"}
         /\ m.text /\ m.secret = "head" => Rewrite(m) # "verbatim"
BY DEF Messages, Rewrite

\* The chain goes through whole or leaves the body as it was.
LEMMA RunChainFacts ==
  ASSUME NEW b \in Bodies, NEW failing \in 1 .. Len(Filters) + 1
  PROVE  /\ RunChain(b, failing) \in Bodies
         /\ RunChain(b, failing).text = b.text
         /\ RunChain(b, failing).filters =
              IF failing > Len(Filters) THEN Filters ELSE b.filters
<1>1. b.filters = b.filters /\ b = [text |-> b.text, filters |-> b.filters]
  BY DEF Bodies
<1> QED BY <1>1, BodyFacts DEF RunChain

-----------------------------------------------------------------------------
(* Each action of the request path preserves its invariant. *)

\* A request that arrives over budget finds the proxy paused.
LEMMA ArriveStep ==
  ASSUME RequestInv, NEW r \in Requests, Arrive(r)
  PROVE  RequestInv'
<1> USE DEF RequestInv, RequestTypeOK, Arrive, Goes
<1>1. RequestTypeOK'
  <2>1. msg' \in [Requests -> Messages]
    OBVIOUS
  <2>2. pc' \in [Requests -> {"new", "raw", "arrived", "injecting", "sending",
                             "waiting", "answered", "passed"}]
    OBVIOUS
  <2>3. over' \subseteq Requests
    OBVIOUS
  <2> QED BY <2>1, <2>2, <2>3
<1>2. InjectInv'
  BY DEF InjectInv, Unmodified
<1>3. RedactInv'
  BY DEF RedactInv, InjectInv
<1>4. BudgetInv'
  BY BudgetAssumption DEF BudgetInv, Exceeded
<1>5. OverBudgetNotCharged'
  BY DEF OverBudgetNotCharged, BudgetInv
<1> QED BY <1>1, <1>2, <1>3, <1>4, <1>5

\* A paused proxy forwards the body it got.
LEMMA ForwardRawStep ==
  ASSUME RequestInv, NEW r \in Requests, ForwardRaw(r)
  PROVE  RequestInv'
<1> USE DEF RequestInv, RequestTypeOK, ForwardRaw, Goes
<1>1. RequestTypeOK'
  BY BodyFacts
<1>2. InjectInv'
  BY DEF InjectInv, Unmodified
<1>3. RedactInv'
  BY DEF RedactInv, InjectInv
<1>4. BudgetInv'
  BY BudgetAssumption DEF BudgetInv, Exceeded
<1>5. OverBudgetNotCharged'
  BY DEF OverBudgetNotCharged, BudgetInv
<1> QED BY <1>1, <1>2, <1>3, <1>4, <1>5

\* The message is rewritten, or the request is refused.
LEMMA PrepareStep ==
  ASSUME RequestInv, NEW r \in Requests, Prepare(r)
  PROVE  RequestInv'
<1> USE DEF RequestInv, RequestTypeOK, Prepare, Goes
<1> DEFINE R == Rewrite(msg[r])
<1>1. R \in {"verbatim", "redacted", "preview"}
  BY RewriteFacts
<1>2. \/ pc'[r] = "answered" /\ body' = body
      \/ pc'[r] = "injecting" /\ body' = [body EXCEPT ![r] = [body[r] EXCEPT !.text = R]]
  OBVIOUS
<1>3. [body[r] EXCEPT !.text = R] \in Bodies
  BY <1>1, BodyFacts
<1>4. body[r] = Unmodified
  BY DEF InjectInv
<1> HIDE DEF R
<1>5. RequestTypeOK'
  <2>1. body' \in [Requests -> Bodies]
    BY <1>2, <1>3
  <2>2. pc' \in [Requests -> {"new", "raw", "arrived", "injecting", "sending",
                             "waiting", "answered", "passed"}]
    OBVIOUS
  <2> QED BY <2>1, <2>2
<1>6. InjectInv'
  BY <1>2, <1>4 DEF InjectInv, Unmodified
<1>7. RedactInv'
  <2>1. pc'[r] = "injecting" => body'[r].text = R
    BY <1>2, <1>4 DEF Unmodified
  <2>2. upstream'[r] = {}
    BY DEF InjectInv
  <2> QED BY <1>2, <2>1, <2>2 DEF RedactInv, R
<1>8. BudgetInv' /\ OverBudgetNotCharged'
  BY DEF BudgetInv, OverBudgetNotCharged
<1> QED BY <1>5, <1>6, <1>7, <1>8

\* The chain is run on a copy, and again while its policy allows.
LEMMA InjectStep ==
  ASSUME RequestInv, NEW r \in Requests, Inject(r)
  PROVE  RequestInv'
<1> USE DEF RequestInv, RequestTypeOK, Goes
<1>1. PICK failing \in 1 .. Len(Filters) + 1:
        /\ pc[r] = "injecting"
        /\ body' = [body EXCEPT ![r] = RunChain(@, failing)]
        /\ IF failing <= Len(Filters) /\ RetriesLeft(policy, tries[r])
             THEN UNCHANGED pc /\ tries' = [tries EXCEPT ![r] = @ + 1]
             ELSE /\ UNCHANGED tries
                  /\ IF failing > Len(Filters) \/ GivenUp(policy) = "skipped"
                       THEN Goes(r, "injecting", "sending")
                       ELSE Goes(r, "injecting", "answered")
        /\ UNCHANGED <<policy, msg, upstream, proxy_paused, total, resumed, over>>
  BY DEF Inject
<1>2. /\ body'[r] \in Bodies
      /\ body'[r].text = body[r].text
      /\ body'[r].filters = IF failing > Len(Filters) THEN Filters ELSE <<>>
      /\ \A q \in Requests \ {r}: body'[q] = body[q]
  <2>1. body[r] \in Bodies /\ body[r].filters = <<>>
    BY <1>1 DEF InjectInv
  <2>2. /\ RunChain(body[r], failing) \in Bodies
        /\ RunChain(body[r], failing).text = body[r].text
        /\ RunChain(body[r], failing).filters =
             IF failing > Len(Filters) THEN Filters ELSE <<>>
    BY <2>1, RunChainFacts
  <2>3. body'[r] = RunChain(body[r], failing) /\ \A q \in Requests \ {r}: body'[q] = body[q]
    BY <1>1
  <2> QED BY <2>2, <2>3
<1>3. /\ pc'[r] = "sending" =>
           failing > Len(Filters) \/ GivenUp(policy) = "skipped"
      /\ pc'[r] = "injecting" => failing <= Len(Filters)
      /\ pc'[r] \in {"injecting", "sending", "answered"}
      /\ \A q \in Requests \ {r}: pc'[q] = pc[q]
  BY <1>1, ChainFacts
<1>4. upstream[r] = {} /\ body[r].text = Rewrite(msg[r])
  BY <1>1 DEF InjectInv, RedactInv
<1>5. RequestTypeOK'
  <2>1. tries' \in [Requests -> 0 .. policy.attempts]
    <3>1. policy.attempts \in Nat
      BY InjectionAssumption DEF Policies
    <3>2. CASE tries' = tries
      BY <3>2
    <3>3. CASE tries' = [tries EXCEPT ![r] = @ + 1] /\ tries[r] < policy.attempts
      BY <3>1, <3>3
    <3> QED BY <1>1, <3>2, <3>3 DEF RetriesLeft
  <2>2. body' \in [Requests -> Bodies]
    BY <1>1, <1>2
  <2>3. pc' \in [Requests -> {"new", "raw", "arrived", "injecting", "sending",
                             "waiting", "answered", "passed"}]
    BY <1>1
  <2> QED BY <1>1, <2>1, <2>2, <2>3
<1>6. InjectInv'
  BY <1>1, <1>2, <1>3, <1>4, ChainFacts DEF InjectInv
<1>7. RedactInv'
  BY <1>1, <1>2, <1>3, <1>4 DEF RedactInv
<1>8. BudgetInv' /\ OverBudgetNotCharged'
  BY <1>1, <1>3 DEF BudgetInv, OverBudgetNotCharged
<1> QED BY <1>5, <1>6, <1>7, <1>8

\* What is sent is the body.
LEMMA SendStep ==
  ASSUME RequestInv, NEW r \in Requests, Send(r)
  PROVE  RequestInv'
<1> USE DEF RequestInv, RequestTypeOK, Send, Goes
<1>1. RequestTypeOK'
  BY BudgetAssumption
<1>2. InjectInv'
  BY DEF InjectInv, Unmodified
<1>3. RedactInv'
  BY DEF RedactInv, InjectInv
<1>4. BudgetInv'
  BY BudgetAssumption DEF BudgetInv, Exceeded
<1>5. OverBudgetNotCharged'
  BY DEF OverBudgetNotCharged, BudgetInv
<1> QED BY <1>1, <1>2, <1>3, <1>4, <1>5

\* A response that goes over budget pauses the proxy in the same step.
LEMMA ChargeStep ==
  ASSUME RequestInv, NEW r \in Requests, Charge(r)
  PROVE  RequestInv'
<1> USE DEF RequestInv, RequestTypeOK, Charge, Goes
<1>1. RequestTypeOK'
  <2>1. total' \in Nat
    BY BudgetAssumption
  <2>2. proxy_paused' \in BOOLEAN /\ resumed' \in BOOLEAN
    <3>1. CASE UNCHANGED <<total, proxy_paused, resumed>>
      BY <3>1
    <3>2. CASE resumed' = FALSE /\ \E cost \in Costs:
                 proxy_paused' = (proxy_paused \/ Exceeded(cost))
      BY <3>2
    <3> QED BY <3>1, <3>2
  <2>3. pc' \in [Requests -> {"new", "raw", "arrived", "injecting", "sending",
                             "waiting", "answered", "passed"}]
    OBVIOUS
  <2> QED BY <2>1, <2>2, <2>3
<1>2. InjectInv'
  BY DEF InjectInv, Unmodified
<1>3. RedactInv'
  BY DEF RedactInv, InjectInv
<1>4. BudgetInv'
  BY BudgetAssumption DEF BudgetInv, Exceeded
<1>5. OverBudgetNotCharged'
  BY DEF OverBudgetNotCharged, BudgetInv
<1> QED BY <1>1, <1>2, <1>3, <1>4, <1>5

\* Only an operator's toggle resumes an exhausted proxy.
LEMMA TogglePauseStep ==
  ASSUME RequestInv, TogglePause
  PROVE  RequestInv'
<1> USE DEF RequestInv, RequestTypeOK, TogglePause, Goes
<1>1. RequestTypeOK'
  BY BudgetAssumption
<1>2. InjectInv'
  BY DEF InjectInv, Unmodified
<1>3. RedactInv'
  BY DEF RedactInv, InjectInv
<1>4. BudgetInv'
  BY BudgetAssumption DEF BudgetInv, Exceeded
<1>5. OverBudgetNotCharged'
  BY DEF OverBudgetNotCharged, BudgetInv
<1> QED BY <1>1, <1>2, <1>3, <1>4, <1>5

\* No request has come.
LEMMA RequestInitInv == RequestInit => RequestInv
<1> SUFFICES ASSUME RequestInit PROVE RequestInv
  OBVIOUS
<1> USE DEF RequestInit
<1>1. RequestTypeOK
  <2>1. policy.attempts \in Nat
    BY InjectionAssumption DEF Policies
  <2>2. tries \in [Requests -> 0 .. policy.attempts]
    BY <2>1
  <2>3. Blank \in Messages
    BY DEF Blank, Messages
  <2>4. body \in [Requests -> Bodies] /\ msg \in [Requests -> Messages]
    BY <2>3, BodyFacts
  <2> QED BY <2>2, <2>4 DEF RequestTypeOK
<1>2. InjectInv /\ RedactInv
  BY DEF InjectInv, RedactInv
<1>3. BudgetInv /\ OverBudgetNotCharged
  BY BudgetAssumption DEF BudgetInv, OverBudgetNotCharged
<1> QED BY <1>1, <1>2, <1>3 DEF RequestInv

\* Every step of the request path preserves it.
LEMMA RequestNextInv == RequestInv /\ [RequestNext]_requestVars => RequestInv'
<1> SUFFICES ASSUME RequestInv, [RequestNext]_requestVars PROVE RequestInv'
  OBVIOUS
<1>1. ASSUME NEW r \in Requests,
             \/ Arrive(r) \/ ForwardRaw(r) \/ Prepare(r)
             \/ Inject(r) \/ Send(r) \/ Charge(r)
      PROVE  RequestInv'
  BY <1>1, ArriveStep, ForwardRawStep, PrepareStep, InjectStep, SendStep, ChargeStep
<1>2. CASE TogglePause
  BY <1>2, TogglePauseStep
<1>3. CASE UNCHANGED requestVars
  BY <1>3 DEF requestVars, RequestInv, RequestTypeOK, InjectInv, RedactInv,
              BudgetInv, OverBudgetNotCharged
<1> QED BY <1>1, <1>2, <1>3 DEF RequestNext

\* The inductive invariant holds of every behaviour of the request path.
THEOREM RequestInvariance == RequestSpec => []RequestInv
BY RequestInitInv, RequestNextInv, PTL DEF RequestSpec

-----------------------------------------------------------------------------
(* What follows from it. *)

\* What an evaluated request sends upstream has been through every filter or
\* through none, and through none only where the policy skips; it is sent at
\* most once, for any chain, any policy and any number of retries.
THEOREM WholeInjection == RequestSpec => []InjectedWholeOrNot
<1>1. RequestInv => InjectedWholeOrNot
  <2> SUFFICES ASSUME RequestInv, NEW r \in Requests, NEW b \in upstream[r]
               PROVE  /\ \/ b.filters = Filters
                         \/ /\ b.filters = <<>>
                            /\ pc[r] = "passed" \/ GivenUp(policy) = "skipped"
                      /\ upstream[r] = {b}
    BY DEF InjectedWholeOrNot
  <2>1. b = body[r] /\ upstream[r] # {}
    BY DEF RequestInv, InjectInv
  <2> QED BY <2>1 DEF RequestInv, InjectInv
<1> QED BY <1>1, RequestInvariance, PTL

\* A secret in what the proxy looks at is never forwarded as it came, unless
\* the proxy was paused, whatever the chain and the upstream do.
THEOREM SecretsStay == RequestSpec => []SecretsRedacted
<1>1. RequestInv => SecretsRedacted
  <2> SUFFICES ASSUME RequestInv, NEW r \in Requests, NEW b \in upstream[r],
                      msg[r].text, msg[r].secret = "head", pc[r] # "passed"
               PROVE  b.text # "verbatim"
    BY DEF SecretsRedacted
  <2>1. b = body[r] /\ b.text = Rewrite(msg[r])
    BY DEF RequestInv, InjectInv, RedactInv
  <2>2. msg[r] \in Messages
    BY DEF RequestInv, RequestTypeOK
  <2> QED BY <2>1, <2>2, RewriteFacts
<1> QED BY <1>1, RequestInvariance, PTL

\* A request that comes over budget is never evaluated nor charged, however
\* many responses were still out and whatever they cost.
THEOREM BudgetHolds == RequestSpec => []OverBudgetNotCharged
<1>1. RequestInv => OverBudgetNotCharged
  BY DEF RequestInv
<1> QED BY <1>1, RequestInvariance, PTL

-----------------------------------------------------------------------------
(* The operators of the fallback. *)

\* A daemon without a configuration of its own has one.
LEMMA DefaultIsConfig == IsConfig(DefaultConfig)
<1>1. \A cat \in Categories: DefaultConfig.default[cat] \in Policies
  BY DEF DefaultConfig, Policy, Retry, Policies, Strictness, Retrying
<1>2. DefaultConfig.default \in [Categories -> Policies]
  BY <1>1 DEF DefaultConfig
<1> QED BY <1>2 DEF IsConfig, DefaultConfig

\* What a component resolves to is a policy.
LEMMA PolicyForFacts ==
  ASSUME NEW cfg, IsConfig(cfg), NEW c, NEW cat \in Categories
  PROVE  PolicyFor(cfg, c, cat) \in Policies
BY DEF IsConfig, PolicyFor, PoliciesOrNone

\* The blocking kinds are the strictest ones.
LEMMA StrictestBlock ==
  ASSUME NEW k \in DOMAIN Strictness, NEW l \in DOMAIN Strictness,
         Strictness[k] >= Strictness[l], l \in Blocking
  PROVE  k \in Blocking
BY DEF Strictness, Blocking

\* A policy that is not retried has no attempts left from the start.
LEMMA RetriesLeftFacts ==
  ASSUME NEW p \in Policies, NEW n \in 0 .. p.attempts
  PROVE  /\ p.attempts \in Nat
         /\ RetriesLeft(p, n) => n + 1 \in 0 .. p.attempts
         /\ ~RetriesLeft(p, n) => n = p.attempts
BY DEF Policies, RetriesLeft

\* A policy a component resolves to in a valid configuration is as strict as
\* every floor of its group, taken from the default or not.
LEMMA ValidMeansEnforced ==
  ASSUME IsConfig(config), Validate(config), NEW c, NEW cat \in Categories
  PROVE  Enforced(config, GroupOf(c), cat, PolicyFor(config, c, cat))
<1>1. CASE c \in DOMAIN config.components
  BY <1>1 DEF Validate, GroupOf
<1>2. CASE c \notin DOMAIN config.components
  BY <1>2 DEF Validate, GroupOf, PolicyFor
<1> QED BY <1>1, <1>2

\* The floors are policies.
LEMMA FloorsFacts ==
  ASSUME IsConfig(config), NEW g, NEW cat \in Categories
  PROVE  FloorsFor(config, g, cat) \subseteq Policies
BY DEF IsConfig, FloorsFor, PoliciesOrNone

\* What holds of a configuration holds of it as long as it is loaded.
LEMMA SameConfig ==
  ASSUME config' = config
  PROVE  /\ IsConfig(config)' <=> IsConfig(config)
         /\ Validate(config)' <=> Validate(config)
<1>1. IsConfig(config)' <=> IsConfig(config)
  BY DEF IsConfig, PoliciesOrNone
<1>2. Validate(config)' <=> Validate(config)
  BY DEF Validate, RetryValid, Enforced, PolicyFor, FloorsFor
<1> QED BY <1>1, <1>2

-----------------------------------------------------------------------------
(* Each action of the fallback preserves its invariant. *)

\* Only what is valid is brought up.
LEMMA LoadConfigStep == ASSUME FallbackInv, LoadConfig PROVE FallbackInv'
<1> USE DEF FallbackInv, FallbackTypeOK, LoadConfig
<1>1. FallbackTypeOK'
  OBVIOUS
<1>2. IsConfig(config)'
  <2>1. IsConfig(config')
    BY DefaultIsConfig, FileAssumption
  <2> QED BY <2>1 DEF IsConfig, PoliciesOrNone
<1>3. op = "idle" /\ first = NoPolicy /\ retries = 0
  BY DEF ConfigInv, RetryInv
<1>4. phase' = "up" => Validate(config')
  OBVIOUS
<1>5. Validate(config)' <=> Validate(config')
  BY DEF Validate, RetryValid, Enforced, PolicyFor, FloorsFor
<1>6. ConfigInv'
  BY <1>2, <1>3, <1>4, <1>5 DEF ConfigInv
<1>7. RetryInv'
  BY <1>3 DEF RetryInv
<1> QED BY <1>1, <1>6, <1>7

\* An operation starts with no failure and no retry.
LEMMA ExecuteStep == ASSUME FallbackInv, Execute PROVE FallbackInv'
<1> USE DEF FallbackInv, FallbackTypeOK, Execute
<1>1. FallbackTypeOK'
  OBVIOUS
<1>2. ConfigInv'
  BY SameConfig DEF ConfigInv
<1>3. RetryInv'
  BY DEF RetryInv
<1> QED BY <1>1, <1>2, <1>3

\* An answer ends the operation, whatever was retried before.
LEMMA SucceedsStep == ASSUME FallbackInv, Succeeds PROVE FallbackInv'
<1> USE DEF FallbackInv, FallbackTypeOK, Succeeds
<1>1. FallbackTypeOK'
  OBVIOUS
<1>2. ConfigInv'
  BY SameConfig DEF ConfigInv
<1>3. RetryInv'
  BY DEF RetryInv, PolicyFor
<1> QED BY <1>1, <1>2, <1>3

\* A failure is retried within the attempts of the policy of the first one, or
\* ends the operation when there are none left.
LEMMA FailsStep ==
  ASSUME FallbackInv, NEW cat \in Categories, Fails(cat)
  PROVE  FallbackInv'
<1> USE DEF FallbackInv, FallbackTypeOK, Fails
<1> DEFINE p == PolicyFor(config, component, first')
<1>1. first' \in Categories /\ first' # NoPolicy
  BY NoPolicyAssumption
<1>2. IsConfig(config)
  BY DEF ConfigInv
<1>3. p \in Policies
  BY <1>1, <1>2, PolicyForFacts
<1>4. retries \in 0 .. p.attempts
  BY <1>3, RetriesLeftFacts DEF RetryInv, Policies
<1>5. PolicyFor(config, component, first)' = p
  BY DEF PolicyFor
<1>6. IF RetriesLeft(p, retries)
        THEN op' = "called" /\ retries' = retries + 1
        ELSE op' = GivenUp(p) /\ retries' = retries
  BY DEF FirstPolicy
<1> HIDE DEF p
<1>7. /\ retries' \in 0 .. p.attempts
      /\ \/ op' = "called"
         \/ op' = GivenUp(p) /\ retries' = p.attempts
  BY <1>3, <1>4, <1>6, RetriesLeftFacts
<1>8. FallbackTypeOK'
  <2>1. retries' \in Nat
    BY <1>3, <1>4, <1>7, RetriesLeftFacts
  <2> QED BY <1>1, <1>7, <2>1 DEF GivenUp
<1>9. ConfigInv'
  BY SameConfig DEF ConfigInv
<1>10. RetryInv'
  BY <1>1, <1>3, <1>5, <1>7, RetriesLeftFacts DEF RetryInv
<1> QED BY <1>8, <1>9, <1>10

\* The daemon is not up before it has a configuration.
LEMMA FallbackInitInv == FallbackInit => FallbackInv
<1> SUFFICES ASSUME FallbackInit PROVE FallbackInv
  OBVIOUS
<1>1. FallbackTypeOK
  BY DEF FallbackInit, FallbackTypeOK
<1>2. ConfigInv
  BY DefaultIsConfig DEF FallbackInit, ConfigInv
<1>3. RetryInv
  BY DEF FallbackInit, RetryInv
<1> QED BY <1>1, <1>2, <1>3 DEF FallbackInv

\* Every step of the fallback, and a stutter, preserves its invariant.
LEMMA FallbackNextInv == FallbackInv /\ [FallbackNext]_fallbackVars => FallbackInv'
<1> SUFFICES ASSUME FallbackInv, [FallbackNext]_fallbackVars PROVE FallbackInv'
  OBVIOUS
<1>1. CASE LoadConfig
  BY <1>1, LoadConfigStep
<1>2. CASE Execute
  BY <1>2, ExecuteStep
<1>3. CASE Succeeds
  BY <1>3, SucceedsStep
<1>4. ASSUME NEW cat \in Categories, Fails(cat) PROVE FallbackInv'
  BY <1>4, FailsStep
<1>5. CASE UNCHANGED fallbackVars
  <2> USE <1>5 DEF fallbackVars, FallbackInv
  <2>1. FallbackTypeOK'
    BY DEF FallbackTypeOK
  <2>2. ConfigInv'
    BY SameConfig DEF ConfigInv
  <2>3. RetryInv'
    BY DEF RetryInv, PolicyFor
  <2> QED BY <2>1, <2>2, <2>3
<1> QED BY <1>1, <1>2, <1>3, <1>4, <1>5 DEF FallbackNext

\* The inductive invariant holds of every behaviour of the fallback.
THEOREM FallbackInvariance == FallbackSpec => []FallbackInv
BY FallbackInitInv, FallbackNextInv, PTL DEF FallbackSpec

\* No failure gets past a floor that blocks, and an operation is given up after
\* exactly the attempts of its policy, for any categories, groups, components
\* and configurations, the valid and the invalid ones.
THEOREM FloorsAreHeld == FallbackSpec => []FloorsHeld
<1>1. FallbackInv => FloorsHeld
  <2> SUFFICES ASSUME FallbackInv PROVE FloorsHeld
    OBVIOUS
  <2> DEFINE p == PolicyFor(config, component, first)
  <2>1. op \in {"skipped", "blocked"} =>
          first \in Categories /\ op = GivenUp(p) /\ retries = p.attempts
    BY DEF FallbackInv, FallbackTypeOK, RetryInv
  <2>2. ASSUME op = "skipped",
               NEW floor \in FloorsFor(config, GroupOf(component), first)
        PROVE  floor.kind \notin Blocking
    <3>1. IsConfig(config) /\ Validate(config)
      BY <2>2 DEF FallbackInv, FallbackTypeOK, ConfigInv
    <3>2. first \in Categories /\ GivenUp(p) = "skipped"
      BY <2>1, <2>2
    <3>3. p \in Policies /\ p.kind \notin Blocking
      BY <3>1, <3>2, PolicyForFacts DEF GivenUp
    <3>4. Strictness[p.kind] >= Strictness[floor.kind]
      BY <3>1, <3>2, ValidMeansEnforced DEF Enforced
    <3>5. floor \in Policies
      BY <3>1, <3>2, FloorsFacts
    <3> HIDE DEF p
    <3> QED BY <3>3, <3>4, <3>5, StrictestBlock DEF Policies
  <2> QED BY <2>1, <2>2 DEF FloorsHeld
<1> QED BY <1>1, FallbackInvariance, PTL

-----------------------------------------------------------------------------
(* The two side by side. *)

\* A step of either is a stutter of the other.
LEMMA BothSpecs == Spec => RequestSpec /\ FallbackSpec
<1>1. Init => RequestInit /\ FallbackInit
  BY DEF Init
<1>2. [Next]_<<requestVars, fallbackVars>> =>
        [RequestNext]_requestVars /\ [FallbackNext]_fallbackVars
  BY DEF Next
<1> QED BY <1>1, <1>2, PTL DEF Spec, RequestSpec, FallbackSpec

\* Every variable of the request path and of the fallback keeps its type; no
\* chain is retried more often than its policy allows.
THEOREM TypeCorrect == Spec => []TypeOK
<1>1. RequestInv /\ FallbackInv => TypeOK
  BY DEF RequestInv, FallbackInv, TypeOK
<1> QED BY <1>1, BothSpecs, RequestInvariance, FallbackInvariance, PTL

\* What holds of each of them holds of the two.
THEOREM BothKeepTheirPromises ==
  Spec => [](InjectedWholeOrNot /\ SecretsRedacted /\ OverBudgetNotCharged /\ FloorsHeld)
BY BothSpecs, WholeInjection, SecretsStay, BudgetHolds, FloorsAreHeld, PTL
=============================================================================
