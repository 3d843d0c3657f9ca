---------------------------- MODULE RequestPath ----------------------------
(***************************************************************************)
(* proxy_request of daemon/proxy.rs up to the forwarding of a request, and *)
(* the cost accounting of its response: the pause switch, the redaction of *)
(* the last user message, the filter chain under its fallback policy, and  *)
(* the budget that pauses the proxy.  Action gates and what is done with a *)
(* stream are other modules; requests run side by side and an operator     *)
(* flips the switch between any two of their steps.                        *)
(*                                                                         *)
(* A message is where its secrets are and how long it is: the proxy looks  *)
(* at the first 200 bytes only.                                            *)
(***************************************************************************)
EXTENDS FallbackPolicy, Sequences

CONSTANTS
  Requests,
  Filters,   \* the egress filters of a request, outer first
  InjectionPolicies, \* policies for a persistent error of claim_injection
  Costs,     \* what a response may cost
  MaxCost    \* --max-cost

ASSUME FilterAssumption == Filters \in Seq({Filters[i]: i \in DOMAIN Filters})
ASSUME InjectionAssumption == InjectionPolicies \subseteq Policies
ASSUME BudgetAssumption == Costs \subseteq Nat /\ MaxCost \in Nat

Messages == [json: BOOLEAN, text: BOOLEAN, long: BOOLEAN,
             split: BOOLEAN, secret: {"none", "head", "tail"}]
\* Only a long message has anything after, or a character across, byte 200;
\* what a body that does not parse holds makes no difference.
Possible(m) ==
  /\ m.split \/ m.secret = "tail" => m.long
  /\ ~m.json => m.text /\ ~m.long /\ m.secret = "none"

VARIABLES
  policy,    \* PolicyFor(config, "claim_injection", "persistent_error")
  pc,        \* where each request is
  msg,       \* the message of each request
  body,      \* body_json, then modified_body
  tries,     \* retries of its filter chain
  upstream,  \* what the upstream API has received, by request
  proxy_paused,
  total,     \* cumulative_cost_usd
  resumed,   \* history: an operator resumed the proxy after the last charge
  over       \* history: requests that came over budget, with nobody resuming

requestVars == <<policy, pc, msg, body, tries, upstream, proxy_paused, total,
                 resumed, over>>

Unmodified == [text |-> "verbatim", filters |-> <<>>]
Bodies == [text: {"verbatim", "redacted", "preview"},
           filters: {SubSeq(Filters, 1, n): n \in 0 .. Len(Filters)}]

RequestTypeOK ==
  /\ policy \in InjectionPolicies
  /\ pc \in [Requests -> {"new", "raw", "arrived", "injecting", "sending",
                          "waiting", "answered", "passed"}]
  /\ msg \in [Requests -> Messages]
  /\ body \in [Requests -> Bodies]
  /\ tries \in [Requests -> 0 .. policy.attempts]
  /\ upstream \in [Requests -> SUBSET Bodies]
  /\ proxy_paused \in BOOLEAN /\ resumed \in BOOLEAN
  /\ total \in Nat
  /\ over \subseteq Requests

Blank == [json |-> TRUE, text |-> TRUE, long |-> FALSE, split |-> FALSE,
          secret |-> "none"]

RequestInit ==
  /\ policy \in InjectionPolicies
  /\ pc = [r \in Requests |-> "new"]
  /\ msg = [r \in Requests |-> Blank]
  /\ body = [r \in Requests |-> Unmodified]
  /\ tries = [r \in Requests |-> 0]
  /\ upstream = [r \in Requests |-> {}]
  /\ proxy_paused = FALSE /\ total = 0 /\ resumed = FALSE /\ over = {}

Goes(r, from, to) == pc[r] = from /\ pc' = [pc EXCEPT ![r] = to]

\* The switch is read once, before a request waits for a gate and is read.
Arrive(r) ==
  /\ IF proxy_paused THEN Goes(r, "new", "raw") ELSE Goes(r, "new", "arrived")
  /\ \E m \in {m \in Messages: Possible(m)}: msg' = [msg EXCEPT ![r] = m]
  /\ over' = IF total > MaxCost /\ ~resumed THEN over \cup {r} ELSE over
  /\ UNCHANGED <<policy, body, tries, upstream, proxy_paused, total, resumed>>

\* A paused proxy forwards the bytes it got, and counts nothing.
ForwardRaw(r) ==
  /\ Goes(r, "raw", "passed")
  /\ upstream' = [upstream EXCEPT ![r] = @ \cup {Unmodified}]
  /\ UNCHANGED <<policy, msg, body, tries, proxy_paused, total, resumed, over>>

\* (mutation) secrets are reported and the message is left as it is
DetectOnly(m) == "verbatim"

\* detect_pii, redact_with_tags and replace_last_user_content, given the
\* preview of a message that is one string.
Rewrite(m) ==
  CASE m.text /\ m.secret = "head" /\ m.long  -> "preview"
    [] m.text /\ m.secret = "head" /\ ~m.long -> "redacted"
    [] ~m.text \/ m.secret # "head"           -> "verbatim"

\* The body is decoded and parsed, or refused; cutting the preview at byte
\* 200 panics inside a character, and the connection is closed.
Prepare(r) ==
  /\ IF msg[r].json /\ ~(msg[r].text /\ msg[r].split)
       THEN /\ Goes(r, "arrived", "injecting")
            /\ body' = [body EXCEPT ![r].text = Rewrite(msg[r])]
       ELSE Goes(r, "arrived", "answered") /\ UNCHANGED body
  /\ UNCHANGED <<policy, msg, tries, upstream, proxy_paused, total, resumed, over>>

\* (mutation) the chain works on the body itself
RunChainInPlace(b, failing) == [b EXCEPT !.filters = SubSeq(Filters, 1, failing - 1)]

\* FilterChain::apply_request on a copy of the body: the first filter that
\* fails ends it, and the copy is dropped.
RunChain(b, failing) ==
  IF failing > Len(Filters) THEN [b EXCEPT !.filters = Filters] ELSE b

Inject(r) ==
  \E failing \in 1 .. Len(Filters) + 1:
    /\ pc[r] = "injecting"
    /\ body' = [body EXCEPT ![r] = RunChain(@, failing)]
    /\ IF failing <= Len(Filters) /\ RetriesLeft(policy, tries[r])
         THEN UNCHANGED pc /\ tries' = [tries EXCEPT ![r] = @ + 1]
         ELSE /\ UNCHANGED tries
              /\ IF failing > Len(Filters) \/ GivenUp(policy) = "skipped"
                   THEN Goes(r, "injecting", "sending")
                   ELSE Goes(r, "injecting", "answered")
    /\ UNCHANGED <<policy, msg, upstream, proxy_paused, total, resumed, over>>

\* The upstream takes the request, or takes it and does not answer, or
\* cannot be reached.
Send(r) ==
  /\ \/ /\ Goes(r, "sending", "waiting") \/ Goes(r, "sending", "answered")
        /\ upstream' = [upstream EXCEPT ![r] = @ \cup {body[r]}]
     \/ Goes(r, "sending", "answered") /\ UNCHANGED upstream
  /\ UNCHANGED <<policy, msg, body, tries, proxy_paused, total, resumed, over>>

\* (mutation) the budget is looked at before the cost is added
ExceededBefore(cost) == cost # 0 /\ total > MaxCost

Exceeded(cost) == total + cost > MaxCost

\* The token usage of the response, under one lock.
Charge(r) ==
  /\ Goes(r, "waiting", "answered")
  /\ \E cost \in Costs:
       IF cost = 0 THEN UNCHANGED <<total, proxy_paused, resumed>>
       ELSE /\ total' = total + cost
            /\ proxy_paused' = (proxy_paused \/ Exceeded(cost))
            /\ resumed' = FALSE
  /\ UNCHANGED <<policy, msg, body, tries, upstream, over>>

TogglePause ==
  /\ proxy_paused' = ~proxy_paused
  /\ resumed' = proxy_paused
  /\ UNCHANGED <<policy, pc, msg, body, tries, upstream, total, over>>

RequestNext ==
  \/ \E r \in Requests: \/ Arrive(r) \/ ForwardRaw(r) \/ Prepare(r)
                        \/ Inject(r) \/ Send(r) \/ Charge(r)
  \/ TogglePause

RequestSpec == RequestInit /\ [][RequestNext]_requestVars

-----------------------------------------------------------------------------
\* "Fail-closed: the first error aborts the chain and the request is
\* rejected": what an evaluated request sends upstream has been through all
\* filters, or, if the policy allows it, through none, never through some;
\* and it is sent once, however often the chain was retried.
InjectedWholeOrNot == \A r \in Requests: \A b \in upstream[r]:
  /\ \/ b.filters = Filters
     \/ b.filters = <<>> /\ (pc[r] = "passed" \/ GivenUp(policy) = "skipped")
  /\ upstream[r] = {b}

\* Secrets in the part of the message the proxy looks at are not forwarded,
\* injected or not, retried or not, unless the proxy was paused.
SecretsRedacted == \A r \in Requests: \A b \in upstream[r]:
  msg[r].text /\ msg[r].secret = "head" /\ b.text = "verbatim" =>
    pc[r] = "passed"

\* "Budget exceeded -- proxy paused": a request that comes when the budget
\* is spent is not evaluated and adds no cost, whichever responses were
\* still out when the budget ran over, unless an operator has resumed.
OverBudgetNotCharged == \A r \in over: pc[r] \in {"raw", "passed"}
=============================================================================
