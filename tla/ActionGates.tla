---------------------------- MODULE ActionGates ----------------------------
(***************************************************************************)
(* The action gates of the rigor daemon (daemon/gate.rs, the approve and   *)
(* reject handlers of daemon/gate_api.rs, and the three places of          *)
(* daemon/proxy.rs that use them).                                         *)
(*                                                                         *)
(* While a response streams, every claim that states an intent to act is   *)
(* sent to a scope judge in a task of its own.  When the judge finds the   *)
(* action out of scope the task opens a gate: a realtime gate if the       *)
(* stream is still active, whose rejection cuts the stream, otherwise a    *)
(* retroactive gate, on which the session's next request waits.  The       *)
(* operator approves or rejects gates by id from the dashboard.            *)
(*                                                                         *)
(* Every step between two acquisitions of the daemon's mutex is an action  *)
(* of its own, so that requests, judge tasks and operator calls interleave *)
(* where the code lets them.  A gate id is the judge task that may open it *)
(* (the code draws a fresh uuid in the task), and time is the choice of a  *)
(* timeout step wherever the code has a deadline.                          *)
(***************************************************************************)
EXTENDS Naturals

CONSTANTS
  Requests,     \* proxied requests; a request id is used once
  Sessions,     \* session ids: a prefix of sha256 of the credentials sent
  SessionOf,    \* the session of each request
  Gates,        \* gate ids, one per scope-judge task
  Calls,        \* approve and reject calls that can be in flight together
  NoGate, NoRequest, NoDecision, NoCall

ASSUME SessionOfAssumption == SessionOf \in [Requests -> Sessions]
ASSUME NullAssumption == /\ NoGate \notin Gates
                         /\ NoRequest \notin Requests

VARIABLES
  action_gates,     \* the gate table: type of each gate in it, or "absent"
  decision_tx,      \* the table entries that still hold their oneshot sender
  oneshot,          \* what the oneshot channel of each realtime gate holds
  gate_decisions,   \* the last decision recorded for each session
  active_streams,   \* requests whose response is streaming
  blocked_requests, \* requests whose stream an unapproved gate must cut
  request,          \* where each request is in proxy_request
  pending_gate,     \* the retroactive gate a request waits for
  judge,            \* where each judge task is
  judged_request,   \* the request whose stream spawned the task
  call,             \* the decision a call in flight has still to record
  verdict,          \* history: first verdict an operator gave on each gate
  late              \* history: chunks forwarded after the request was blocked

gateVars    == <<action_gates, decision_tx, oneshot, gate_decisions>>
streamVars  == <<active_streams, blocked_requests, late>>
requestVars == <<request, pending_gate>>
judgeVars   == <<judge, judged_request>>
callVars    == <<call, verdict>>
vars == <<gateVars, streamVars, requestVars, judgeVars, callVars>>

Decision == [gate_id : Gates, approved : BOOLEAN]
GateType == {"RealTime", "Retroactive"}
RequestPc == {"new", "waiting", "matched", "expired", "upstream",
              "streaming", "checked", "ending", "done"}
JudgePc == {"idle", "judging", "active", "inactive", "awaiting",
            "rejecting", "done"}

TypeOK ==
  /\ action_gates \in [Gates -> GateType \cup {"absent"}]
  /\ decision_tx \in SUBSET Gates
  /\ oneshot \in [Gates -> {"none", "empty", "true", "false", "closed"}]
  /\ gate_decisions \in [Sessions -> Decision \cup {NoDecision}]
  /\ active_streams \in SUBSET Requests
  /\ blocked_requests \in SUBSET Requests
  /\ request \in [Requests -> RequestPc]
  /\ pending_gate \in [Requests -> Gates \cup {NoGate}]
  /\ judge \in [Gates -> JudgePc]
  /\ judged_request \in [Gates -> Requests \cup {NoRequest}]
  /\ call \in [Calls -> Decision \cup {NoCall}]
  /\ verdict \in [Gates -> {"none", "approved", "rejected"}]
  /\ late \in [Requests -> 0..2]

Init ==
  /\ action_gates = [g \in Gates |-> "absent"]
  /\ decision_tx = {}
  /\ oneshot = [g \in Gates |-> "none"]
  /\ gate_decisions = [s \in Sessions |-> NoDecision]
  /\ active_streams = {}
  /\ blocked_requests = {}
  /\ request = [r \in Requests |-> "new"]
  /\ pending_gate = [r \in Requests |-> NoGate]
  /\ judge = [g \in Gates |-> "idle"]
  /\ judged_request = [g \in Gates |-> NoRequest]
  /\ call = [c \in Calls |-> NoCall]
  /\ verdict = [g \in Gates |-> "none"]
  /\ late = [r \in Requests |-> 0]

-----------------------------------------------------------------------------
(* A request before it is sent upstream. *)

\* The session a gate entry was created with.
GateSession(g) == SessionOf[judged_request[g]]

\* (mutation) any session's gates
PendingGatesOfAnySession(s) == {g \in Gates : action_gates[g] = "Retroactive"}

\* The retroactive gates of a session in the table.
PendingGates(s) ==
  {g \in Gates : action_gates[g] = "Retroactive" /\ GateSession(g) = s}

\* (mutation) any decision of the session releases the request
MatchesAnyGate(r) == gate_decisions[SessionOf[r]] # NoDecision

\* The decision recorded for the session of r is about the gate r waits for.
Matches(r) ==
  LET d == gate_decisions[SessionOf[r]]
  IN  d # NoDecision /\ d.gate_id = pending_gate[r]

\* Looks for any one retroactive gate of the request's session.
LookUp(r) ==
  /\ request[r] = "new"
  /\ \/ /\ PendingGates(SessionOf[r]) = {}
        /\ request' = [request EXCEPT ![r] = "upstream"]
        /\ UNCHANGED pending_gate
     \/ \E g \in PendingGates(SessionOf[r]) :
          /\ request' = [request EXCEPT ![r] = "waiting"]
          /\ pending_gate' = [pending_gate EXCEPT ![r] = g]
  /\ UNCHANGED <<gateVars, streamVars, judgeVars, callVars>>

\* (mutation) no deadline
PollWithoutDeadline(r) ==
  /\ request[r] = "waiting"
  /\ Matches(r)
  /\ request' = [request EXCEPT ![r] = "matched"]
  /\ UNCHANGED <<gateVars, streamVars, pending_gate, judgeVars, callVars>>

\* One round of the polling loop: it reads the session's decision under the
\* lock and acts on it under a second one; the deadline is looked at only
\* when the decision read is not about the gate waited for.
Poll(r) ==
  /\ request[r] = "waiting"
  /\ request' = [request EXCEPT ![r] = IF Matches(r) THEN "matched"
                                                     ELSE "expired"]
  /\ UNCHANGED <<gateVars, streamVars, pending_gate, judgeVars, callVars>>

\* A round that reads another decision, or none, before the deadline sleeps
\* and changes nothing: it is a stuttering step.

\* (mutation) the session's entry is cleared to a placeholder, not removed
ConsumeDecisionToPlaceholder(r) ==
  /\ request[r] = "matched"
  /\ action_gates' = [action_gates EXCEPT ![pending_gate[r]] = "absent"]
  /\ decision_tx' = decision_tx \ {pending_gate[r]}
  /\ gate_decisions' = [gate_decisions EXCEPT ![SessionOf[r]] = NoGate]
  /\ request' = [request EXCEPT ![r] = "upstream"]
  /\ pending_gate' = [pending_gate EXCEPT ![r] = NoGate]
  /\ UNCHANGED <<oneshot, streamVars, judgeVars, callVars>>

\* Removes the gate and whatever decision the session has by now.
ConsumeDecision(r) ==
  /\ request[r] = "matched"
  /\ action_gates' = [action_gates EXCEPT ![pending_gate[r]] = "absent"]
  /\ decision_tx' = decision_tx \ {pending_gate[r]}
  /\ gate_decisions' = [gate_decisions EXCEPT ![SessionOf[r]] = NoDecision]
  /\ request' = [request EXCEPT ![r] = "upstream"]
  /\ pending_gate' = [pending_gate EXCEPT ![r] = NoGate]
  /\ UNCHANGED <<oneshot, streamVars, judgeVars, callVars>>

\* The deadline has passed: removes the gate, records no decision.
ExpireGate(r) ==
  /\ request[r] = "expired"
  /\ action_gates' = [action_gates EXCEPT ![pending_gate[r]] = "absent"]
  /\ decision_tx' = decision_tx \ {pending_gate[r]}
  /\ request' = [request EXCEPT ![r] = "upstream"]
  /\ pending_gate' = [pending_gate EXCEPT ![r] = NoGate]
  /\ UNCHANGED <<oneshot, gate_decisions, streamVars, judgeVars, callVars>>

-----------------------------------------------------------------------------
(* A request whose response streams. *)

\* The upstream answers with a stream; any other answer ends the request
\* without a gate having anything to do with it.
StartStream(r) ==
  /\ request[r] = "upstream"
  /\ \/ /\ request' = [request EXCEPT ![r] = "streaming"]
        /\ active_streams' = active_streams \cup {r}
     \/ /\ request' = [request EXCEPT ![r] = "done"]
        /\ UNCHANGED active_streams
  /\ UNCHANGED <<gateVars, blocked_requests, late, pending_gate, judgeVars,
                 callVars>>

\* (mutation) blocked_requests is not looked at
ReadChunkUnchecked(r) ==
  /\ request[r] = "streaming"
  /\ request' = [request EXCEPT ![r] = "checked"]
  /\ UNCHANGED <<gateVars, streamVars, pending_gate, judgeVars, callVars>>

\* The next chunk arrives and the task looks whether a gate cut the stream.
ReadChunk(r) ==
  /\ request[r] = "streaming"
  /\ request' = [request EXCEPT ![r] = IF r \in blocked_requests
                                         THEN "ending" ELSE "checked"]
  /\ UNCHANGED <<gateVars, streamVars, pending_gate, judgeVars, callVars>>

\* The chunk goes to the client before anything is evaluated; then a judge
\* task is spawned for each intent to act found in the text so far.
ForwardChunk(r) ==
  /\ request[r] = "checked"
  /\ request' = [request EXCEPT ![r] = "streaming"]
  /\ late' = [late EXCEPT ![r] = IF r \in blocked_requests /\ @ < 2
                                   THEN @ + 1 ELSE @]
  /\ \E S \in SUBSET {g \in Gates : judge[g] = "idle"} :
       /\ judge' = [g \in Gates |-> IF g \in S THEN "judging" ELSE judge[g]]
       /\ judged_request' =
            [g \in Gates |-> IF g \in S THEN r ELSE judged_request[g]]
  /\ UNCHANGED <<gateVars, active_streams, blocked_requests, pending_gate,
                 callVars>>

\* The upstream ends or fails, the client goes away, or evaluation blocks.
EndStream(r) ==
  /\ request[r] \in {"streaming", "checked"}
  /\ request' = [request EXCEPT ![r] = "ending"]
  /\ UNCHANGED <<gateVars, streamVars, pending_gate, judgeVars, callVars>>

\* After the evaluation of the whole response the task removes its traces.
Cleanup(r) ==
  /\ request[r] = "ending"
  /\ request' = [request EXCEPT ![r] = "done"]
  /\ active_streams' = active_streams \ {r}
  /\ blocked_requests' = blocked_requests \ {r}
  /\ UNCHANGED <<gateVars, late, pending_gate, judgeVars, callVars>>

\* A judge prompt is cut at byte 2000 of the text; where that is inside a
\* multi-byte character the slice panics, the runtime drops the task, and
\* what it would have removed stays.
Panic(r) ==
  /\ request[r] = "ending"
  /\ request' = [request EXCEPT ![r] = "done"]
  /\ UNCHANGED <<gateVars, streamVars, pending_gate, judgeVars, callVars>>

-----------------------------------------------------------------------------
(* A scope-judge task. *)

\* The judge answers YES, or its call fails; that counts as "within scope".
JudgeWithinScope(g) ==
  /\ judge[g] = "judging"
  /\ judge' = [judge EXCEPT ![g] = "done"]
  /\ UNCHANGED <<gateVars, streamVars, requestVars, judged_request, callVars>>

\* Out of scope (any other answer): the kind of gate is chosen under one lock ...
JudgeOutOfScope(g) ==
  /\ judge[g] = "judging"
  /\ judge' = [judge EXCEPT ![g] = IF judged_request[g] \in active_streams
                                     THEN "active" ELSE "inactive"]
  /\ UNCHANGED <<gateVars, streamVars, requestVars, judged_request, callVars>>

\* ... and the gate is created under a later one.
CreateRealtimeGate(g) ==
  /\ judge[g] = "active"
  /\ judge' = [judge EXCEPT ![g] = "awaiting"]
  /\ action_gates' = [action_gates EXCEPT ![g] = "RealTime"]
  /\ decision_tx' = decision_tx \cup {g}
  /\ oneshot' = [oneshot EXCEPT ![g] = "empty"]
  /\ UNCHANGED <<gate_decisions, streamVars, requestVars, judged_request,
                 callVars>>

RegisterRetroactiveGate(g) ==
  /\ judge[g] = "inactive"
  /\ judge' = [judge EXCEPT ![g] = "done"]
  /\ action_gates' = [action_gates EXCEPT ![g] = "Retroactive"]
  /\ UNCHANGED <<decision_tx, oneshot, gate_decisions, streamVars, requestVars,
                 judged_request, callVars>>

\* (mutation) the sense of the verdict is inverted
AwaitDecisionInverted(g) ==
  /\ judge[g] = "awaiting"
  /\ judge' = [judge EXCEPT ![g] = IF oneshot[g] = "false" THEN "done"
                                                           ELSE "rejecting"]
  /\ oneshot' = [oneshot EXCEPT ![g] = IF @ = "empty" THEN "closed" ELSE @]
  /\ UNCHANGED <<action_gates, decision_tx, gate_decisions, streamVars,
                 requestVars, judged_request, callVars>>

\* (mutation) no timeout
AwaitDecisionForever(g) ==
  /\ judge[g] = "awaiting"
  /\ oneshot[g] # "empty"
  /\ judge' = [judge EXCEPT ![g] = IF oneshot[g] = "true" THEN "done"
                                                          ELSE "rejecting"]
  /\ UNCHANGED <<gateVars, streamVars, requestVars, judged_request, callVars>>

\* The awaited oneshot yields a verdict, or the timeout drops the receiver;
\* a value already in the channel wins over the timeout.
AwaitDecision(g) ==
  /\ judge[g] = "awaiting"
  /\ judge' = [judge EXCEPT ![g] = IF oneshot[g] = "true" THEN "done"
                                                          ELSE "rejecting"]
  /\ oneshot' = [oneshot EXCEPT ![g] = IF @ = "empty" THEN "closed" ELSE @]
  /\ UNCHANGED <<action_gates, decision_tx, gate_decisions, streamVars,
                 requestVars, judged_request, callVars>>

\* Not approved: marks the request, whether or not its stream still runs.
BlockRequest(g) ==
  /\ judge[g] = "rejecting"
  /\ judge' = [judge EXCEPT ![g] = "done"]
  /\ blocked_requests' = blocked_requests \cup {judged_request[g]}
  /\ UNCHANGED <<gateVars, active_streams, late, requestVars, judged_request,
                 callVars>>

-----------------------------------------------------------------------------
(* apply_decision: two critical sections. *)

\* The first takes the sender, if the entry still has it, and sends; sending
\* on a channel whose receiver is gone has no effect.  The gate stays in the
\* table and can be decided again.
ApplyDecision(c, g, approved) ==
  /\ call[c] = NoCall
  /\ action_gates[g] # "absent"
  /\ oneshot' = [oneshot EXCEPT ![g] =
                   IF g \in decision_tx /\ @ = "empty"
                     THEN IF approved THEN "true" ELSE "false"
                     ELSE @]
  /\ decision_tx' = decision_tx \ {g}
  /\ call' = [call EXCEPT ![c] = [gate_id |-> g, approved |-> approved]]
  /\ verdict' = [verdict EXCEPT ![g] =
                   IF @ # "none" THEN @
                   ELSE IF approved THEN "approved" ELSE "rejected"]
  /\ UNCHANGED <<action_gates, gate_decisions, streamVars, requestVars,
                 judgeVars>>

\* The second overwrites the session's decision.
RecordDecision(c) ==
  /\ call[c] # NoCall
  /\ gate_decisions' =
       [gate_decisions EXCEPT ![GateSession(call[c].gate_id)] = call[c]]
  /\ call' = [call EXCEPT ![c] = NoCall]
  /\ UNCHANGED <<action_gates, decision_tx, oneshot, streamVars, requestVars,
                 judgeVars, verdict>>

-----------------------------------------------------------------------------
RequestStep(r) ==
  \/ LookUp(r) \/ Poll(r) \/ ConsumeDecision(r) \/ ExpireGate(r)
  \/ StartStream(r) \/ ReadChunk(r) \/ ForwardChunk(r) \/ EndStream(r)
  \/ Cleanup(r) \/ Panic(r)

JudgeStep(g) ==
  \/ JudgeWithinScope(g) \/ JudgeOutOfScope(g) \/ CreateRealtimeGate(g)
  \/ RegisterRetroactiveGate(g) \/ AwaitDecision(g) \/ BlockRequest(g)

CallStep(c) ==
  \/ \E g \in Gates, approved \in BOOLEAN : ApplyDecision(c, g, approved)
  \/ RecordDecision(c)

Next ==
  \/ \E r \in Requests : RequestStep(r)
  \/ \E g \in Gates : JudgeStep(g)
  \/ \E c \in Calls : CallStep(c)

Spec == Init /\ [][Next]_vars

(***************************************************************************)
(* The runtime schedules every task again while it can take a step: timers *)
(* fire, the upstream sends another chunk or ends, a client takes what it  *)
(* is sent or goes away, a retry gets its answer, and the judge answers    *)
(* (its response has ten seconds to begin; that it ends is assumed, since  *)
(* no timeout covers the reading of its body).  Nothing makes an operator decide, a       *)
(* client send a request, or an upstream end its stream; a call that has   *)
(* taken a gate's sender goes on to record its decision.                   *)
(***************************************************************************)
Fairness ==
  /\ \A r \in Requests :
       /\ WF_vars(Poll(r)) /\ WF_vars(ConsumeDecision(r))
       /\ WF_vars(ExpireGate(r)) /\ WF_vars(StartStream(r))
       /\ WF_vars(ReadChunk(r)) /\ WF_vars(ForwardChunk(r))
       /\ WF_vars(Cleanup(r))
  /\ \A g \in Gates : WF_vars(JudgeStep(g))
  /\ \A c \in Calls : WF_vars(RecordDecision(c))

-----------------------------------------------------------------------------
(* Properties. *)

\* A request only ever waits for a gate of its own session whose stream is
\* over (proxy.rs opens a retroactive gate only when the request has left
\* active_streams).  So waits never chain: no request waits for itself or for
\* a request that waits, whatever the order of judges, lookups and cleanups.
WaitsOnlyOnFinishedStreams ==
  \A r \in Requests : pending_gate[r] # NoGate =>
    LET q == judged_request[pending_gate[r]]
    IN  /\ q # NoRequest
        /\ request[q] = "done"
        /\ SessionOf[q] = SessionOf[r]

\* The polling loop lets a request go on a decision only if an operator gave
\* a verdict on the very gate it waits for; a decision left behind by another
\* gate of the session (realtime decisions are never removed) does not.
ReleaseNeedsVerdict ==
  \A r \in Requests :
    request[r] = "matched" => verdict[pending_gate[r]] # "none"

\* A stream is marked for cutting only on account of a gate of its own that
\* was first rejected, or that nobody decided in time.  A later contrary
\* decision, or one on another request's gate, never cuts it.
CutNeedsRefusal ==
  \A r \in blocked_requests : \E g \in Gates :
    /\ judged_request[g] = r
    /\ judge[g] = "done"
    /\ verdict[g] = "rejected" \/ oneshot[g] = "closed"

\* The check of blocked_requests and the send that follows are not atomic, so
\* a chunk can follow the rejection, but never a second one.
AtMostOneLateChunk == \A r \in Requests : late[r] <= 1

\* Every wait of a request for a retroactive gate ends.
WaitEnds ==
  \A r \in Requests : pending_gate[r] # NoGate ~> pending_gate[r] = NoGate

\* A stream marked by an unapproved gate ends even if the upstream would go
\* on sending for ever.
BlockedStreamEnds ==
  \A r \in Requests :
    r \in blocked_requests /\ request[r] \in {"streaming", "checked"}
      ~> request[r] = "done"

\* Every judge task ends, whether or not anybody decides its gate.
JudgeEnds == \A g \in Gates : judge[g] # "idle" ~> judge[g] = "done"
=============================================================================
