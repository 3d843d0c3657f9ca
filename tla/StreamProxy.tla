---------------------------- MODULE StreamProxy ----------------------------
(***************************************************************************)
(* The streaming branch of proxy_request (daemon/proxy.rs): the evaluator  *)
(* task that forwards a response chunk by chunk, evaluates it on the way   *)
(* and once more at its end, and on BLOCK replaces the rest by the answer  *)
(* to one retry or by an error event; with the dashboard's block_next      *)
(* switch (daemon/governance.rs) and the action gates' cut as they meet it.*)
(*                                                                         *)
(* What the text says is abstracted to what the code branches on: whether  *)
(* there is any, and what each evaluation and each judge makes of it.  The *)
(* task's channel to the client is bounded and the client may go away at   *)
(* any time.  Requests are those whose answer is a stream and that arrive  *)
(* while the proxy is not paused.                                          *)
(***************************************************************************)
EXTENDS Naturals, Sequences

CONSTANTS
  Requests,
  Capacity,    \* of the channel from the task to the client's body (64)
  MaxChunks,   \* bound: chunks an upstream sends
  MaxToggles   \* bound: calls of toggle_block_next

ASSUME CapacityAssumption == Capacity \in Nat \ {0}
ASSUME BoundAssumption == MaxChunks \in Nat /\ MaxToggles \in Nat

VARIABLES
  block_next,     \* the switch: force-block the next response
  blocked,        \* requests in blocked_requests
  task,           \* where the evaluator task of each request is
  text,           \* whether it has extracted any assistant text
  refused,        \* the task's `blocked`, and in which phase it was set
  requested,      \* upstream requests made for the client's one
  tail,           \* what the task is about to put in place of the rest
  judged,         \* what the last retry verification came to
  client,         \* what went into the client's channel, in order
  taken,          \* how many of these the client has taken out
  connected,      \* whether the client still is
  marked,         \* input: the request's system text has the retry's marker
  retries_disabled, \* input: RIGOR_NO_RETRY is set
  armings,        \* history: times block_next was switched on
  forced          \* history: blocks it forced

switchVars == <<block_next, armings, forced>>
inputVars  == <<marked, retries_disabled>>
streamVars == <<text, refused, requested, tail, judged>>
clientVars == <<client, taken, connected>>
vars == <<switchVars, inputVars, streamVars, clientVars, blocked, task>>

Item == {"chunk", "error", "retry"}
Pc == {"new", "streaming", "sending", "evaluating", "ended", "judging",
       "blocking", "retrying", "verifying", "replacing", "cleanup", "done"}
Judgement == {"none", "violated", "clean", "unjudged", "panicked"}

TypeOK ==
  /\ block_next \in BOOLEAN
  /\ blocked \in SUBSET Requests
  /\ task \in [Requests -> Pc]
  /\ text \in [Requests -> BOOLEAN]
  /\ refused \in [Requests -> {"no", "mid-stream", "post-stream"}]
  /\ requested \in [Requests -> 0..2]
  /\ tail \in [Requests -> {"none", "error", "retry"}]
  /\ judged \in [Requests -> Judgement]
  /\ client \in [Requests -> Seq(Item)]
  /\ taken \in [Requests -> 0..MaxChunks + 1]
  /\ connected \in [Requests -> BOOLEAN]
  /\ marked \in SUBSET Requests
  /\ retries_disabled \in BOOLEAN
  /\ armings \in 0..MaxToggles
  /\ forced \in 0..MaxToggles

Init ==
  /\ block_next = FALSE
  /\ blocked = {}
  /\ task = [r \in Requests |-> "new"]
  /\ text = [r \in Requests |-> FALSE]
  /\ refused = [r \in Requests |-> "no"]
  /\ requested = [r \in Requests |-> 0]
  /\ tail = [r \in Requests |-> "none"]
  /\ judged = [r \in Requests |-> "none"]
  /\ client = [r \in Requests |-> << >>]
  /\ taken = [r \in Requests |-> 0]
  /\ connected = [r \in Requests |-> TRUE]
  /\ marked \in SUBSET Requests
  /\ retries_disabled \in BOOLEAN
  /\ armings = 0
  /\ forced = 0

Goto(r, pc) == task' = [task EXCEPT ![r] = pc]

\* A send waits for room in the channel, and fails once the client has gone.
CanSend(r) == connected[r] => Len(client[r]) - taken[r] < Capacity
Put(r, item) ==
  client' = [client EXCEPT ![r] = IF connected[r] THEN Append(@, item) ELSE @]

-----------------------------------------------------------------------------
(* The stream. *)

\* The upstream has answered; the handler spawns the task and returns the
\* channel's other end to the client.
Start(r) ==
  /\ task[r] = "new"
  /\ Goto(r, "streaming")
  /\ requested' = [requested EXCEPT ![r] = 1]
  /\ UNCHANGED <<switchVars, inputVars, text, refused, tail, judged,
                 clientVars, blocked>>

\* A chunk arrives, with assistant text in it or not; a stream that a gate
\* has cut ends here, before the chunk is forwarded.
Receive(r) ==
  /\ task[r] = "streaming"
  /\ Len(client[r]) < MaxChunks
  /\ Goto(r, IF r \in blocked THEN "ended" ELSE "sending")
  /\ \E some \in BOOLEAN : text' = [text EXCEPT ![r] = @ \/ some]
  /\ UNCHANGED <<switchVars, inputVars, refused, requested, tail, judged,
                 clientVars, blocked>>

\* The upstream's stream ends or fails.
UpstreamEnds(r) ==
  /\ task[r] = "streaming"
  /\ Goto(r, "ended")
  /\ UNCHANGED <<switchVars, inputVars, streamVars, clientVars, blocked>>

\* (mutation) a failed send is not noticed: it waits for room for ever
ForwardToNobody(r) ==
  /\ task[r] = "sending"
  /\ Len(client[r]) - taken[r] < Capacity
  /\ Put(r, "chunk")
  /\ Goto(r, "evaluating")
  /\ UNCHANGED <<switchVars, inputVars, streamVars, taken, connected, blocked>>

\* The chunk goes to the client before it is evaluated.
Forward(r) ==
  /\ task[r] = "sending"
  /\ CanSend(r)
  /\ Put(r, "chunk")
  /\ Goto(r, IF connected[r] THEN "evaluating" ELSE "ended")
  /\ UNCHANGED <<switchVars, inputVars, streamVars, taken, connected, blocked>>

\* No sentence ended, no keyword, no claim in it, or no policy engine.
SkipEvaluation(r) ==
  /\ task[r] = "evaluating"
  /\ Goto(r, "streaming")
  /\ UNCHANGED <<switchVars, inputVars, streamVars, clientVars, blocked>>

\* (mutation) the switch stays on
EvaluateUnreset(r) ==
  /\ task[r] = "evaluating"
  /\ text[r]
  /\ \E violation \in BOOLEAN :
       IF violation \/ block_next
         THEN /\ Goto(r, "blocking")
              /\ refused' = [refused EXCEPT ![r] = "mid-stream"]
         ELSE Goto(r, "streaming") /\ UNCHANGED refused
  /\ forced' = IF block_next THEN forced + 1 ELSE forced
  /\ UNCHANGED <<block_next, armings, inputVars, text, requested, tail, judged,
                 clientVars, blocked>>

\* (mutation) the block is recorded but the loop goes on
EvaluateWithoutBreak(r) ==
  /\ task[r] = "evaluating"
  /\ text[r]
  /\ \E violation \in BOOLEAN :
       /\ Goto(r, "streaming")
       /\ refused' = [refused EXCEPT ![r] =
                        IF violation \/ block_next THEN "mid-stream" ELSE @]
  /\ block_next' = FALSE
  /\ forced' = IF block_next THEN forced + 1 ELSE forced
  /\ UNCHANGED <<armings, inputVars, text, requested, tail, judged,
                 clientVars, blocked>>

\* The text so far has claims.  They are evaluated against the constraints;
\* then the switch is read and cleared under one lock, and forces a BLOCK
\* whatever the evaluation found.
Evaluate(r) ==
  /\ task[r] = "evaluating"
  /\ text[r]
  /\ \E violation \in BOOLEAN :
       IF violation \/ block_next
         THEN /\ Goto(r, "blocking")
              /\ refused' = [refused EXCEPT ![r] = "mid-stream"]
         ELSE Goto(r, "streaming") /\ UNCHANGED refused
  /\ block_next' = FALSE
  /\ forced' = IF block_next THEN forced + 1 ELSE forced
  /\ UNCHANGED <<armings, inputVars, text, requested, tail, judged,
                 clientVars, blocked>>

-----------------------------------------------------------------------------
(* The end of the stream: the whole text is evaluated once more. *)

\* Phase 1, the constraints' rules.  The switch is not looked at.
FinalEvaluate(r) ==
  /\ task[r] = "ended"
  /\ \/ ~text[r] /\ Goto(r, "cleanup") /\ UNCHANGED refused
     \/ /\ text[r]
        /\ \/ Goto(r, "judging") /\ UNCHANGED refused
           \/ /\ Goto(r, "blocking")
              /\ refused' = [refused EXCEPT ![r] = "post-stream"]
  /\ UNCHANGED <<switchVars, inputVars, text, requested, tail, judged,
                 clientVars, blocked>>

\* Phase 2, a judge where the rules found nothing: only its YES blocks; no
\* key, no constraints or no answer all pass.
FinalJudge(r) ==
  /\ task[r] = "judging"
  /\ \/ Goto(r, "cleanup") /\ UNCHANGED refused
     \/ /\ Goto(r, "blocking")
        /\ refused' = [refused EXCEPT ![r] = "post-stream"]
  /\ UNCHANGED <<switchVars, inputVars, text, requested, tail, judged,
                 clientVars, blocked>>

-----------------------------------------------------------------------------
(* BLOCK.  The two phases have the same steps but for a retry that fails. *)

\* The request was itself no retry, and retries are not off.
MayRetry(r) == r \notin marked /\ ~retries_disabled

\* Otherwise the client gets an error event.
GiveUp(r) ==
  /\ task[r] = "blocking"
  /\ ~MayRetry(r)
  /\ tail' = [tail EXCEPT ![r] = "error"]
  /\ Goto(r, "replacing")
  /\ UNCHANGED <<switchVars, inputVars, text, refused, requested, judged,
                 clientVars, blocked>>

\* The request is sent again with the truths it violated.
Resend(r) == requested' = [requested EXCEPT ![r] = @ + 1]
Retry(r) ==
  /\ task[r] = "blocking"
  /\ MayRetry(r)
  /\ Resend(r)
  /\ Goto(r, "retrying")
  /\ UNCHANGED <<switchVars, inputVars, text, refused, tail, judged,
                 clientVars, blocked>>

\* (mutation) no error is sent
RetryFailsSilently(r) ==
  /\ task[r] = "retrying"
  /\ Goto(r, "cleanup")
  /\ UNCHANGED <<switchVars, inputVars, streamVars, clientVars, blocked>>

\* The upstream cannot be reached.  Mid-stream the client gets an error event;
RetryFails(r) ==
  /\ task[r] = "retrying"
  /\ refused[r] = "mid-stream"
  /\ tail' = [tail EXCEPT ![r] = "error"]
  /\ Goto(r, "replacing")
  /\ UNCHANGED <<switchVars, inputVars, text, refused, requested, judged,
                 clientVars, blocked>>
\* after the stream it gets nothing.
RetryFailsAtEnd(r) ==
  /\ task[r] = "retrying"
  /\ refused[r] = "post-stream"
  /\ Goto(r, "cleanup")
  /\ UNCHANGED <<switchVars, inputVars, streamVars, clientVars, blocked>>

\* The answer, whatever its status, is read to its end; errors are skipped.
RetryAnswers(r) ==
  /\ task[r] = "retrying"
  /\ Goto(r, "verifying")
  /\ UNCHANGED <<switchVars, inputVars, streamVars, clientVars, blocked>>

\* (mutation) the verification's result is ignored
VerifyNothing(r) ==
  /\ task[r] = "verifying"
  /\ \E j \in {"violated", "clean", "unjudged"} :
       /\ judged' = [judged EXCEPT ![r] = j]
       /\ tail' = [tail EXCEPT ![r] = "retry"]
  /\ Goto(r, "replacing")
  /\ UNCHANGED <<switchVars, inputVars, text, refused, requested,
                 clientVars, blocked>>

\* What the client gets of an answer so judged.
ReplacementFor(j) == IF j = "violated" THEN "error" ELSE "retry"

\* A judge reads the answer.  Without text, key, violations or an answer from
\* the judge it counts as clean.
Verify(r) ==
  /\ task[r] = "verifying"
  /\ \E j \in {"violated", "clean", "unjudged"} :
       /\ judged' = [judged EXCEPT ![r] = j]
       /\ tail' = [tail EXCEPT ![r] = ReplacementFor(j)]
  /\ Goto(r, "replacing")
  /\ UNCHANGED <<switchVars, inputVars, text, refused, requested,
                 clientVars, blocked>>

\* The prompt of either judge is cut at byte 2000 of the text; inside a
\* multi-byte character the slice panics and the runtime drops the task.
Panic(r) ==
  /\ task[r] \in {"judging", "verifying"}
  /\ judged' = [judged EXCEPT ![r] = "panicked"]
  /\ Goto(r, "done")
  /\ UNCHANGED <<switchVars, inputVars, text, refused, requested, tail,
                 clientVars, blocked>>

\* The error event or the retried response goes to the client.
Replace(r) ==
  /\ task[r] = "replacing"
  /\ CanSend(r)
  /\ Put(r, tail[r])
  /\ Goto(r, "cleanup")
  /\ UNCHANGED <<switchVars, inputVars, streamVars, taken, connected, blocked>>

\* The task ends, and with it its end of the channel.
Cleanup(r) ==
  /\ task[r] = "cleanup"
  /\ blocked' = blocked \ {r}
  /\ Goto(r, "done")
  /\ UNCHANGED <<switchVars, inputVars, streamVars, clientVars>>

-----------------------------------------------------------------------------
(* The others: the client, the gates' judge tasks, the dashboard. *)

Take(r) ==
  /\ connected[r]
  /\ taken[r] < Len(client[r])
  /\ taken' = [taken EXCEPT ![r] = @ + 1]
  /\ UNCHANGED <<switchVars, inputVars, streamVars, client, connected, blocked,
                 task>>

Disconnect(r) ==
  /\ task[r] # "new"
  /\ connected[r]
  /\ connected' = [connected EXCEPT ![r] = FALSE]
  /\ UNCHANGED <<switchVars, inputVars, streamVars, client, taken, blocked,
                 task>>

\* A realtime gate of the stream was not approved (ActionGates!BlockRequest).
GateCut(r) ==
  /\ task[r] # "new"
  /\ blocked' = blocked \cup {r}
  /\ UNCHANGED <<switchVars, inputVars, streamVars, clientVars, task>>

ToggleBlockNext ==
  /\ block_next' = ~block_next
  /\ armings < MaxToggles
  /\ armings' = IF block_next THEN armings ELSE armings + 1
  /\ UNCHANGED <<forced, inputVars, streamVars, clientVars, blocked, task>>

-----------------------------------------------------------------------------
TaskStep(r) ==
  \/ Start(r) \/ Receive(r) \/ UpstreamEnds(r) \/ Forward(r)
  \/ SkipEvaluation(r) \/ Evaluate(r) \/ FinalEvaluate(r) \/ FinalJudge(r)
  \/ GiveUp(r) \/ Retry(r) \/ RetryFails(r) \/ RetryFailsAtEnd(r)
  \/ RetryAnswers(r) \/ Verify(r) \/ Panic(r) \/ Replace(r) \/ Cleanup(r)

Next ==
  \/ \E r \in Requests :
       TaskStep(r) \/ Take(r) \/ Disconnect(r) \/ GateCut(r)
  \/ ToggleBlockNext

Spec == Init /\ [][Next]_vars

(***************************************************************************)
(* A spawned task runs on while it can: its upstream sends or ends, and    *)
(* the retry and the judges, whose bodies no timeout covers, answer.  A    *)
(* client takes what it is sent or goes away.                              *)
(***************************************************************************)
Fairness ==
  \A r \in Requests :
    /\ WF_vars(task[r] # "new" /\ TaskStep(r))
    /\ WF_vars(Take(r) \/ Disconnect(r))

-----------------------------------------------------------------------------
(* Refinement: the client's view. *)

Replaced(r) == \E i \in 1..Len(client[r]) : client[r][i] # "chunk"

StreamPhase ==
  [r \in Requests |->
     CASE task[r] = "new"  -> "idle"
       [] task[r] = "done" -> "closed"
       [] OTHER -> IF Replaced(r) THEN "replaced"
                   ELSE IF refused[r] # "no" THEN "blocked" ELSE "open"]

Promise == INSTANCE ClientStream WITH sent <- client, phase <- StreamPhase

-----------------------------------------------------------------------------
(* Properties. *)

\* The client's stream is what the design comment of the streaming branch
\* promises: chunks, none after a BLOCK, then at most one error event or
\* retried response and only after a BLOCK, then the end.
KeepsPromise == Promise!Spec

\* Every block that block_next forces uses up one arming of its own, however
\* the responses that could take it and the operators' toggles interleave.
ForcedBlocksNeedArming ==
  forced + (IF block_next THEN 1 ELSE 0) <= armings

\* A client that stays connected learns of every mid-stream BLOCK: its stream
\* does not just stop, whatever becomes of the retry and its judge, unless the
\* task panicked.
MidStreamBlockSignalled ==
  \A r \in Requests :
    task[r] = "done" /\ refused[r] = "mid-stream" /\ connected[r]
      /\ judged[r] # "panicked" => Replaced(r)

\* A retried response that its judge found violating never reaches the client,
\* from either phase.
ViolatingRetryWithheld ==
  \A r \in Requests :
    judged[r] = "violated" =>
      \A i \in 1..Len(client[r]) : client[r][i] # "retry"

\* Every stream closes, also for a client that goes away while the task waits
\* for room in its channel.
StreamsClose == \A r \in Requests : task[r] # "new" ~> task[r] = "done"
=============================================================================
