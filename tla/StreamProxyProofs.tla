------------------------- MODULE StreamProxyProofs -------------------------
(***************************************************************************)
(* Proofs about StreamProxy, for every set of requests, capacity of the    *)
(* clients' channels, length of the responses and number of toggles.       *)
(***************************************************************************)
EXTENDS StreamProxy, TLAPS

-----------------------------------------------------------------------------
(* The inductive invariant, in parts. *)

\* Where a task is before anything blocked its stream, and while a block is
\* being dealt with; after that nothing more is sent.
Flowing  == {"new", "streaming", "sending", "evaluating", "ended", "judging"}
Refusing == {"blocking", "retrying", "verifying", "replacing"}
Over     == {"cleanup", "done"}

\* The channel holds at most the upstream's chunks and one item in their place.
LengthInv ==
  \A r \in Requests :
    /\ taken[r] <= Len(client[r])
    /\ task[r] = "sending" => Len(client[r]) < MaxChunks
    /\ task[r] \notin Over => Len(client[r]) <= MaxChunks
    /\ Len(client[r]) <= MaxChunks + 1

\* The phase of the block is recorded exactly when there is one, and the
\* upstream is asked a second time only after it.
BlockInv ==
  \A r \in Requests :
    /\ task[r] \in Flowing => refused[r] = "no"
    /\ task[r] \in Refusing => refused[r] # "no"
    /\ task[r] = "new" => requested[r] = 0
    /\ task[r] \in (Flowing \cup {"blocking"}) \ {"new"} => requested[r] = 1

\* Only the replacement settled on takes the place of the rest, last of all.
ReplacementInv ==
  \A r \in Requests :
    /\ task[r] \notin Over => ~Replaced(r)
    /\ Replaced(r) => refused[r] # "no"
    /\ task[r] = "replacing" => tail[r] # "none"
    /\ \A i \in 1..Len(client[r]) : client[r][i] \in {"chunk", tail[r]}

\* Of a retry judged violating an error is settled on.
JudgedInv ==
  \A r \in Requests :
    /\ judged[r] # "none" => task[r] \in {"replacing", "cleanup", "done"}
    /\ judged[r] = "violated" => tail[r] = "error"

\* A task that got past a mid-stream block has told a connected client.
SignalInv ==
  \A r \in Requests :
    task[r] \in Over /\ refused[r] = "mid-stream" /\ connected[r]
      /\ judged[r] # "panicked" => Replaced(r)

IInv ==
  /\ TypeOK
  /\ ForcedBlocksNeedArming
  /\ LengthInv
  /\ BlockInv
  /\ ReplacementInv
  /\ JudgedInv
  /\ SignalInv

-----------------------------------------------------------------------------
(* Each action preserves the inductive invariant. *)

\* A first request goes upstream and the stream opens.
LEMMA StartStep ==
  ASSUME IInv, NEW r \in Requests, Start(r)
  PROVE  IInv'
<1> USE DEF IInv, TypeOK, Start, Goto, switchVars, inputVars, streamVars, clientVars
<1>1. TypeOK'
  BY DEF Pc, Judgement, Item
<1>2. ForcedBlocksNeedArming'
  BY DEF ForcedBlocksNeedArming
<1>3. LengthInv'
  BY DEF LengthInv, Over
<1>4. BlockInv'
  BY DEF BlockInv, Flowing, Refusing
<1>5. ReplacementInv'
  BY DEF ReplacementInv, Replaced, BlockInv, Over, Flowing, Refusing
<1>6. JudgedInv'
  BY DEF JudgedInv
<1>7. SignalInv'
  BY DEF SignalInv, ReplacementInv, Replaced, BlockInv, Over, Flowing, Refusing
<1> QED BY <1>1, <1>2, <1>3, <1>4, <1>5, <1>6, <1>7

\* Only a chunk that fits the bound is forwarded.
LEMMA ReceiveStep ==
  ASSUME IInv, NEW r \in Requests, Receive(r)
  PROVE  IInv'
<1> USE DEF IInv, TypeOK, Receive, Goto, switchVars, inputVars, streamVars, clientVars
<1>1. TypeOK'
  BY DEF Pc, Judgement, Item
<1>2. ForcedBlocksNeedArming'
  BY DEF ForcedBlocksNeedArming
<1>3. LengthInv'
  BY DEF LengthInv, Over
<1>4. BlockInv'
  BY DEF BlockInv, Flowing, Refusing
<1>5. ReplacementInv'
  BY DEF ReplacementInv, Replaced, BlockInv, Over, Flowing, Refusing
<1>6. JudgedInv'
  BY DEF JudgedInv
<1>7. SignalInv'
  BY DEF SignalInv, ReplacementInv, Replaced, BlockInv, Over, Flowing, Refusing
<1> QED BY <1>1, <1>2, <1>3, <1>4, <1>5, <1>6, <1>7

\* The upstream's end changes nothing but where the task is.
LEMMA UpstreamEndsStep ==
  ASSUME IInv, NEW r \in Requests, UpstreamEnds(r)
  PROVE  IInv'
<1> USE DEF IInv, TypeOK, UpstreamEnds, Goto, switchVars, inputVars, streamVars, clientVars
<1>1. TypeOK'
  BY DEF Pc, Judgement, Item
<1>2. ForcedBlocksNeedArming'
  BY DEF ForcedBlocksNeedArming
<1>3. LengthInv'
  BY DEF LengthInv, Over
<1>4. BlockInv'
  BY DEF BlockInv, Flowing, Refusing
<1>5. ReplacementInv'
  BY DEF ReplacementInv, Replaced, BlockInv, Over, Flowing, Refusing
<1>6. JudgedInv'
  BY DEF JudgedInv
<1>7. SignalInv'
  BY DEF SignalInv, ReplacementInv, Replaced, BlockInv, Over, Flowing, Refusing
<1> QED BY <1>1, <1>2, <1>3, <1>4, <1>5, <1>6, <1>7

\* A chunk is appended before anything blocks its stream.
LEMMA ForwardStep ==
  ASSUME IInv, NEW r \in Requests, Forward(r)
  PROVE  IInv'
<1> USE DEF IInv, TypeOK, Forward, Goto, Put, switchVars, inputVars, streamVars, clientVars
<1>1. TypeOK'
  BY DEF Pc, Judgement, Item
<1>2. ForcedBlocksNeedArming'
  BY DEF ForcedBlocksNeedArming
<1>3. LengthInv'
  BY BoundAssumption DEF LengthInv, Over
<1>4. BlockInv'
  BY DEF BlockInv, Flowing, Refusing
<1>5. ReplacementInv'
  BY DEF ReplacementInv, Replaced, BlockInv, Over, Flowing, Refusing
<1>6. JudgedInv'
  BY DEF JudgedInv
<1>7. SignalInv'
  BY DEF SignalInv, ReplacementInv, Replaced, BlockInv, Over, Flowing, Refusing
<1> QED BY <1>1, <1>2, <1>3, <1>4, <1>5, <1>6, <1>7

\* A chunk that is not evaluated changes nothing but where the task is.
LEMMA SkipEvaluationStep ==
  ASSUME IInv, NEW r \in Requests, SkipEvaluation(r)
  PROVE  IInv'
<1> USE DEF IInv, TypeOK, SkipEvaluation, Goto, switchVars, inputVars, streamVars, clientVars
<1>1. TypeOK'
  BY DEF Pc, Judgement, Item
<1>2. ForcedBlocksNeedArming'
  BY DEF ForcedBlocksNeedArming
<1>3. LengthInv'
  BY DEF LengthInv, Over
<1>4. BlockInv'
  BY DEF BlockInv, Flowing, Refusing
<1>5. ReplacementInv'
  BY DEF ReplacementInv, Replaced, BlockInv, Over, Flowing, Refusing
<1>6. JudgedInv'
  BY DEF JudgedInv
<1>7. SignalInv'
  BY DEF SignalInv, ReplacementInv, Replaced, BlockInv, Over, Flowing, Refusing
<1> QED BY <1>1, <1>2, <1>3, <1>4, <1>5, <1>6, <1>7

\* A block forced by the switch uses up its arming in the same step.
LEMMA EvaluateStep ==
  ASSUME IInv, NEW r \in Requests, Evaluate(r)
  PROVE  IInv'
<1> USE DEF IInv, TypeOK, Evaluate, Goto, switchVars, inputVars, streamVars, clientVars
<1>1. TypeOK'
  <2>1. forced' \in 0..MaxToggles
    BY BoundAssumption DEF ForcedBlocksNeedArming
  <2>2. task' \in [Requests -> Pc]
        /\ refused' \in [Requests -> {"no", "mid-stream", "post-stream"}]
    BY DEF Pc
  <2> QED BY <2>1, <2>2
<1>2. ForcedBlocksNeedArming'
  BY DEF ForcedBlocksNeedArming
<1>3. LengthInv'
  BY DEF LengthInv, Over
<1>4. BlockInv'
  BY DEF BlockInv, Flowing, Refusing
<1>5. ReplacementInv'
  BY DEF ReplacementInv, Replaced, BlockInv, Over, Flowing, Refusing
<1>6. JudgedInv'
  BY DEF JudgedInv
<1>7. SignalInv'
  BY DEF SignalInv, ReplacementInv, Replaced, BlockInv, Over, Flowing, Refusing
<1> QED BY <1>1, <1>2, <1>3, <1>4, <1>5, <1>6, <1>7

\* A violation at the end of the stream is recorded with its phase.
LEMMA FinalEvaluateStep ==
  ASSUME IInv, NEW r \in Requests, FinalEvaluate(r)
  PROVE  IInv'
<1> USE DEF IInv, TypeOK, FinalEvaluate, Goto, switchVars, inputVars, streamVars, clientVars
<1>1. TypeOK'
  BY DEF Pc, Judgement, Item
<1>2. ForcedBlocksNeedArming'
  BY DEF ForcedBlocksNeedArming
<1>3. LengthInv'
  BY DEF LengthInv, Over
<1>4. BlockInv'
  BY DEF BlockInv, Flowing, Refusing
<1>5. ReplacementInv'
  BY DEF ReplacementInv, Replaced, BlockInv, Over, Flowing, Refusing
<1>6. JudgedInv'
  BY DEF JudgedInv
<1>7. SignalInv'
  <2>1. refused[r] = "no" /\ task'[r] \in {"cleanup", "judging", "blocking"}
    BY DEF BlockInv, Flowing
  <2>2. task'[r] = "cleanup" => refused'[r] = "no"
    BY <2>1
  <2> SUFFICES ASSUME NEW q \in Requests, task'[q] \in Over,
                      refused'[q] = "mid-stream", (connected[q] /\ judged[q] # "panicked")'
               PROVE  Replaced(q)'
    BY DEF SignalInv
  <2>3. q # r
    BY <2>1, <2>2 DEF Over
  <2>4. task[q] \in Over /\ refused[q] = "mid-stream"
    BY <2>3
  <2> QED BY <2>4 DEF SignalInv, Replaced
<1> QED BY <1>1, <1>2, <1>3, <1>4, <1>5, <1>6, <1>7

\* So is the judge's.
LEMMA FinalJudgeStep ==
  ASSUME IInv, NEW r \in Requests, FinalJudge(r)
  PROVE  IInv'
<1> USE DEF IInv, TypeOK, FinalJudge, Goto, switchVars, inputVars, streamVars, clientVars
<1>1. TypeOK'
  BY DEF Pc, Judgement, Item
<1>2. ForcedBlocksNeedArming'
  BY DEF ForcedBlocksNeedArming
<1>3. LengthInv'
  BY DEF LengthInv, Over
<1>4. BlockInv'
  BY DEF BlockInv, Flowing, Refusing
<1>5. ReplacementInv'
  BY DEF ReplacementInv, Replaced, BlockInv, Over, Flowing, Refusing
<1>6. JudgedInv'
  BY DEF JudgedInv
<1>7. SignalInv'
  <2>1. refused[r] = "no" /\ task'[r] \in {"cleanup", "judging", "blocking"}
    BY DEF BlockInv, Flowing
  <2>2. task'[r] = "cleanup" => refused'[r] = "no"
    BY <2>1
  <2> SUFFICES ASSUME NEW q \in Requests, task'[q] \in Over,
                      refused'[q] = "mid-stream", (connected[q] /\ judged[q] # "panicked")'
               PROVE  Replaced(q)'
    BY DEF SignalInv
  <2>3. q # r
    BY <2>1, <2>2 DEF Over
  <2>4. task[q] \in Over /\ refused[q] = "mid-stream"
    BY <2>3
  <2> QED BY <2>4 DEF SignalInv, Replaced
<1> QED BY <1>1, <1>2, <1>3, <1>4, <1>5, <1>6, <1>7

\* Without a retry the client will get an error.
LEMMA GiveUpStep ==
  ASSUME IInv, NEW r \in Requests, GiveUp(r)
  PROVE  IInv'
<1> USE DEF IInv, TypeOK, GiveUp, Goto, switchVars, inputVars, streamVars, clientVars
<1>1. TypeOK'
  BY DEF Pc, Judgement, Item
<1>2. ForcedBlocksNeedArming'
  BY DEF ForcedBlocksNeedArming
<1>3. LengthInv'
  BY DEF LengthInv, Over
<1>4. BlockInv'
  BY DEF BlockInv, Flowing, Refusing
<1>5. ReplacementInv'
  BY DEF ReplacementInv, Replaced, BlockInv, Over, Flowing, Refusing
<1>6. JudgedInv'
  BY DEF JudgedInv
<1>7. SignalInv'
  BY DEF SignalInv, ReplacementInv, Replaced, BlockInv, Over, Flowing, Refusing
<1> QED BY <1>1, <1>2, <1>3, <1>4, <1>5, <1>6, <1>7

\* The second request goes upstream.
LEMMA RetryStep ==
  ASSUME IInv, NEW r \in Requests, Retry(r)
  PROVE  IInv'
<1> USE DEF IInv, TypeOK, Retry, Goto, Resend, switchVars, inputVars, streamVars, clientVars
<1>1. TypeOK'
  <2>1. requested[r] = 1
    BY DEF BlockInv, Flowing
  <2>2. requested' \in [Requests -> 0..2] /\ task' \in [Requests -> Pc]
    BY <2>1 DEF Pc
  <2> QED BY <2>2
<1>2. ForcedBlocksNeedArming'
  BY DEF ForcedBlocksNeedArming
<1>3. LengthInv'
  BY DEF LengthInv, Over
<1>4. BlockInv'
  BY DEF BlockInv, Flowing, Refusing
<1>5. ReplacementInv'
  BY DEF ReplacementInv, Replaced, BlockInv, Over, Flowing, Refusing
<1>6. JudgedInv'
  BY DEF JudgedInv
<1>7. SignalInv'
  BY DEF SignalInv, ReplacementInv, Replaced, BlockInv, Over, Flowing, Refusing
<1> QED BY <1>1, <1>2, <1>3, <1>4, <1>5, <1>6, <1>7

\* A mid-stream retry that fails leaves the client an error.
LEMMA RetryFailsStep ==
  ASSUME IInv, NEW r \in Requests, RetryFails(r)
  PROVE  IInv'
<1> USE DEF IInv, TypeOK, RetryFails, Goto, switchVars, inputVars, streamVars, clientVars
<1>1. TypeOK'
  BY DEF Pc, Judgement, Item
<1>2. ForcedBlocksNeedArming'
  BY DEF ForcedBlocksNeedArming
<1>3. LengthInv'
  BY DEF LengthInv, Over
<1>4. BlockInv'
  BY DEF BlockInv, Flowing, Refusing
<1>5. ReplacementInv'
  BY DEF ReplacementInv, Replaced, BlockInv, Over, Flowing, Refusing
<1>6. JudgedInv'
  BY DEF JudgedInv
<1>7. SignalInv'
  BY DEF SignalInv, ReplacementInv, Replaced, BlockInv, Over, Flowing, Refusing
<1> QED BY <1>1, <1>2, <1>3, <1>4, <1>5, <1>6, <1>7

\* One that fails after the stream leaves it nothing.
LEMMA RetryFailsAtEndStep ==
  ASSUME IInv, NEW r \in Requests, RetryFailsAtEnd(r)
  PROVE  IInv'
<1> USE DEF IInv, TypeOK, RetryFailsAtEnd, Goto, switchVars, inputVars, streamVars, clientVars
<1>1. TypeOK'
  BY DEF Pc, Judgement, Item
<1>2. ForcedBlocksNeedArming'
  BY DEF ForcedBlocksNeedArming
<1>3. LengthInv'
  BY DEF LengthInv, Over
<1>4. BlockInv'
  BY DEF BlockInv, Flowing, Refusing
<1>5. ReplacementInv'
  BY DEF ReplacementInv, Replaced, BlockInv, Over, Flowing, Refusing
<1>6. JudgedInv'
  BY DEF JudgedInv
<1>7. SignalInv'
  BY DEF SignalInv, ReplacementInv, Replaced, BlockInv, Over, Flowing, Refusing
<1> QED BY <1>1, <1>2, <1>3, <1>4, <1>5, <1>6, <1>7

\* The answer is read before it is judged.
LEMMA RetryAnswersStep ==
  ASSUME IInv, NEW r \in Requests, RetryAnswers(r)
  PROVE  IInv'
<1> USE DEF IInv, TypeOK, RetryAnswers, Goto, switchVars, inputVars, streamVars, clientVars
<1>1. TypeOK'
  BY DEF Pc, Judgement, Item
<1>2. ForcedBlocksNeedArming'
  BY DEF ForcedBlocksNeedArming
<1>3. LengthInv'
  BY DEF LengthInv, Over
<1>4. BlockInv'
  BY DEF BlockInv, Flowing, Refusing
<1>5. ReplacementInv'
  BY DEF ReplacementInv, Replaced, BlockInv, Over, Flowing, Refusing
<1>6. JudgedInv'
  BY DEF JudgedInv
<1>7. SignalInv'
  BY DEF SignalInv, ReplacementInv, Replaced, BlockInv, Over, Flowing, Refusing
<1> QED BY <1>1, <1>2, <1>3, <1>4, <1>5, <1>6, <1>7

\* An answer judged violating is replaced by an error.
LEMMA VerifyStep ==
  ASSUME IInv, NEW r \in Requests, Verify(r)
  PROVE  IInv'
<1> USE DEF IInv, TypeOK, Verify, Goto, ReplacementFor, switchVars, inputVars, streamVars, clientVars
<1>1. TypeOK'
  BY DEF Pc, Judgement, Item
<1>2. ForcedBlocksNeedArming'
  BY DEF ForcedBlocksNeedArming
<1>3. LengthInv'
  BY DEF LengthInv, Over
<1>4. BlockInv'
  BY DEF BlockInv, Flowing, Refusing
<1>5. ReplacementInv'
  BY DEF ReplacementInv, Replaced, BlockInv, Over, Flowing, Refusing
<1>6. JudgedInv'
  BY DEF JudgedInv
<1>7. SignalInv'
  BY DEF SignalInv, ReplacementInv, Replaced, BlockInv, Over, Flowing, Refusing
<1> QED BY <1>1, <1>2, <1>3, <1>4, <1>5, <1>6, <1>7

\* A panic ends the task where it is.
LEMMA PanicStep ==
  ASSUME IInv, NEW r \in Requests, Panic(r)
  PROVE  IInv'
<1> USE DEF IInv, TypeOK, Panic, Goto, switchVars, inputVars, streamVars, clientVars
<1>1. TypeOK'
  BY DEF Pc, Judgement, Item
<1>2. ForcedBlocksNeedArming'
  BY DEF ForcedBlocksNeedArming
<1>3. LengthInv'
  BY DEF LengthInv, Over
<1>4. BlockInv'
  BY DEF BlockInv, Flowing, Refusing
<1>5. ReplacementInv'
  BY DEF ReplacementInv, Replaced, BlockInv, Over, Flowing, Refusing
<1>6. JudgedInv'
  BY DEF JudgedInv
<1>7. SignalInv'
  BY DEF SignalInv, ReplacementInv, Replaced, BlockInv, Over, Flowing, Refusing
<1> QED BY <1>1, <1>2, <1>3, <1>4, <1>5, <1>6, <1>7

\* What was settled on is the last item, and goes to a client that is there.
LEMMA ReplaceStep ==
  ASSUME IInv, NEW r \in Requests, Replace(r)
  PROVE  IInv'
<1> USE DEF IInv, TypeOK, Replace, Goto, Put, switchVars, inputVars, streamVars, clientVars
<1>1. TypeOK'
  BY DEF ReplacementInv, Pc, Judgement, Item
<1>2. ForcedBlocksNeedArming'
  BY DEF ForcedBlocksNeedArming
<1>3. LengthInv'
  BY BoundAssumption DEF LengthInv, Over
<1>4. BlockInv'
  BY DEF BlockInv, Flowing, Refusing
<1>5. ReplacementInv'
  BY DEF ReplacementInv, Replaced, BlockInv, Over, Flowing, Refusing
<1>6. JudgedInv'
  BY DEF JudgedInv
<1>7. SignalInv'
  <2>1. CASE connected[r]
    <3> DEFINE n == Len(client[r]) + 1
    <3>1. n \in 1..Len(client'[r]) /\ client'[r][n] = tail[r]
      BY <2>1 DEF Item, ReplacementInv
    <3>2. Replaced(r)'
      BY <3>1 DEF Replaced, ReplacementInv
    <3> QED BY <3>2 DEF SignalInv, Replaced, Over
  <2>2. CASE ~connected[r]
    BY <2>2 DEF SignalInv, Replaced, Over
  <2> QED BY <2>1, <2>2
<1> QED BY <1>1, <1>2, <1>3, <1>4, <1>5, <1>6, <1>7

\* The end of the task changes nothing the client sees.
LEMMA CleanupStep ==
  ASSUME IInv, NEW r \in Requests, Cleanup(r)
  PROVE  IInv'
<1> USE DEF IInv, TypeOK, Cleanup, Goto, switchVars, inputVars, streamVars, clientVars
<1>1. TypeOK'
  BY DEF Pc, Judgement, Item
<1>2. ForcedBlocksNeedArming'
  BY DEF ForcedBlocksNeedArming
<1>3. LengthInv'
  BY DEF LengthInv, Over
<1>4. BlockInv'
  BY DEF BlockInv, Flowing, Refusing
<1>5. ReplacementInv'
  BY DEF ReplacementInv, Replaced, BlockInv, Over, Flowing, Refusing
<1>6. JudgedInv'
  BY DEF JudgedInv
<1>7. SignalInv'
  BY DEF SignalInv, ReplacementInv, Replaced, BlockInv, Over, Flowing, Refusing
<1> QED BY <1>1, <1>2, <1>3, <1>4, <1>5, <1>6, <1>7

\* The client takes no more than there is.
LEMMA TakeStep ==
  ASSUME IInv, NEW r \in Requests, Take(r)
  PROVE  IInv'
<1> USE DEF IInv, TypeOK, Take, switchVars, inputVars, streamVars, clientVars
<1>1. TypeOK'
  BY BoundAssumption DEF LengthInv, Pc, Judgement, Item
<1>2. ForcedBlocksNeedArming'
  BY DEF ForcedBlocksNeedArming
<1>3. LengthInv'
  BY DEF LengthInv, Over
<1>4. BlockInv'
  BY DEF BlockInv, Flowing, Refusing
<1>5. ReplacementInv'
  BY DEF ReplacementInv, Replaced, BlockInv, Over, Flowing, Refusing
<1>6. JudgedInv'
  BY DEF JudgedInv
<1>7. SignalInv'
  BY DEF SignalInv, ReplacementInv, Replaced, BlockInv, Over, Flowing, Refusing
<1> QED BY <1>1, <1>2, <1>3, <1>4, <1>5, <1>6, <1>7

\* A client that has gone is told nothing.
LEMMA DisconnectStep ==
  ASSUME IInv, NEW r \in Requests, Disconnect(r)
  PROVE  IInv'
<1> USE DEF IInv, TypeOK, Disconnect, switchVars, inputVars, streamVars, clientVars
<1>1. TypeOK'
  BY DEF Pc, Judgement, Item
<1>2. ForcedBlocksNeedArming'
  BY DEF ForcedBlocksNeedArming
<1>3. LengthInv'
  BY DEF LengthInv, Over
<1>4. BlockInv'
  BY DEF BlockInv, Flowing, Refusing
<1>5. ReplacementInv'
  BY DEF ReplacementInv, Replaced, BlockInv, Over, Flowing, Refusing
<1>6. JudgedInv'
  BY DEF JudgedInv
<1>7. SignalInv'
  BY DEF SignalInv, ReplacementInv, Replaced, BlockInv, Over, Flowing, Refusing
<1> QED BY <1>1, <1>2, <1>3, <1>4, <1>5, <1>6, <1>7

\* A gate's cut is noticed only at the next chunk.
LEMMA GateCutStep ==
  ASSUME IInv, NEW r \in Requests, GateCut(r)
  PROVE  IInv'
<1> USE DEF IInv, TypeOK, GateCut, switchVars, inputVars, streamVars, clientVars
<1>1. TypeOK'
  BY DEF Pc, Judgement, Item
<1>2. ForcedBlocksNeedArming'
  BY DEF ForcedBlocksNeedArming
<1>3. LengthInv'
  BY DEF LengthInv, Over
<1>4. BlockInv'
  BY DEF BlockInv, Flowing, Refusing
<1>5. ReplacementInv'
  BY DEF ReplacementInv, Replaced, BlockInv, Over, Flowing, Refusing
<1>6. JudgedInv'
  BY DEF JudgedInv
<1>7. SignalInv'
  BY DEF SignalInv, ReplacementInv, Replaced, BlockInv, Over, Flowing, Refusing
<1> QED BY <1>1, <1>2, <1>3, <1>4, <1>5, <1>6, <1>7

\* A toggle that switches on is an arming; one that switches off takes none back.
LEMMA ToggleStep ==
  ASSUME IInv, ToggleBlockNext
  PROVE  IInv'
<1> USE DEF IInv, TypeOK, ToggleBlockNext, inputVars, streamVars, clientVars
<1>1. TypeOK' /\ ForcedBlocksNeedArming'
  BY BoundAssumption DEF ForcedBlocksNeedArming
<1>2. LengthInv' /\ BlockInv'
  BY DEF LengthInv, BlockInv
<1>3. ReplacementInv' /\ JudgedInv' /\ SignalInv'
  BY DEF ReplacementInv, JudgedInv, SignalInv, Replaced
<1> QED BY <1>1, <1>2, <1>3

\* So does a step that changes nothing.
LEMMA StutterStep ==
  ASSUME IInv, UNCHANGED vars
  PROVE  IInv'
<1> USE DEF IInv, vars, switchVars, inputVars, streamVars, clientVars
<1>1. TypeOK' /\ ForcedBlocksNeedArming'
  BY DEF TypeOK, ForcedBlocksNeedArming
<1>2. LengthInv' /\ BlockInv'
  BY DEF LengthInv, BlockInv
<1>3. ReplacementInv' /\ JudgedInv' /\ SignalInv'
  BY DEF ReplacementInv, JudgedInv, SignalInv, Replaced
<1> QED BY <1>1, <1>2, <1>3

-----------------------------------------------------------------------------
(* The invariant is inductive. *)

\* No stream has started.
LEMMA InitIInv == Init => IInv
<1> SUFFICES ASSUME Init PROVE IInv
  OBVIOUS
<1> USE DEF Init
<1>1. TypeOK
  <2>1. task \in [Requests -> Pc] /\ judged \in [Requests -> Judgement]
    BY DEF Pc, Judgement
  <2>2. client \in [Requests -> Seq(Item)]
    OBVIOUS
  <2>3. text \in [Requests -> BOOLEAN] /\ connected \in [Requests -> BOOLEAN]
    OBVIOUS
  <2>4. 0 \in 0..MaxToggles /\ taken \in [Requests -> 0..MaxChunks + 1]
    BY BoundAssumption
  <2>5. /\ refused \in [Requests -> {"no", "mid-stream", "post-stream"}]
        /\ requested \in [Requests -> 0..2]
        /\ tail \in [Requests -> {"none", "error", "retry"}]
    OBVIOUS
  <2>6. block_next \in BOOLEAN /\ blocked \in SUBSET Requests
        /\ armings \in 0..MaxToggles /\ forced \in 0..MaxToggles
    BY <2>4
  <2>7. marked \in SUBSET Requests /\ retries_disabled \in BOOLEAN
    OBVIOUS
  <2> HIDE DEF Init
  <2> QED BY <2>1, <2>2, <2>3, <2>4, <2>5, <2>6, <2>7 DEF TypeOK
<1>2. ForcedBlocksNeedArming /\ LengthInv /\ BlockInv
  BY BoundAssumption DEF ForcedBlocksNeedArming, LengthInv, BlockInv, Over, Flowing, Refusing
<1>3. ReplacementInv /\ JudgedInv /\ SignalInv
  BY DEF ReplacementInv, JudgedInv, SignalInv, Replaced, Over
<1> QED BY <1>1, <1>2, <1>3 DEF IInv

\* Every step preserves it.
LEMMA NextIInv == IInv /\ [Next]_vars => IInv'
<1> SUFFICES ASSUME IInv, [Next]_vars PROVE IInv'
  OBVIOUS
<1>1. ASSUME NEW r \in Requests, TaskStep(r) PROVE IInv'
  BY <1>1, StartStep, ReceiveStep, UpstreamEndsStep, ForwardStep,
     SkipEvaluationStep, EvaluateStep, FinalEvaluateStep, FinalJudgeStep,
     GiveUpStep, RetryStep, RetryFailsStep, RetryFailsAtEndStep,
     RetryAnswersStep, VerifyStep, PanicStep, ReplaceStep, CleanupStep
  DEF TaskStep
<1>2. ASSUME NEW r \in Requests, Take(r) \/ Disconnect(r) \/ GateCut(r)
      PROVE  IInv'
  BY <1>2, TakeStep, DisconnectStep, GateCutStep
<1>3. CASE ToggleBlockNext
  BY <1>3, ToggleStep
<1>4. CASE UNCHANGED vars
  BY <1>4, StutterStep
<1> QED BY <1>1, <1>2, <1>3, <1>4 DEF Next

\* The inductive invariant holds of every behaviour of the specification.
THEOREM Invariance == Spec => []IInv
BY InitIInv, NextIInv, PTL DEF Spec

-----------------------------------------------------------------------------
(* What follows from it. *)

\* Every variable keeps its type: the client's channel never holds more than
\* the chunks and one item in place of the rest, the upstream is asked twice at
\* most, for any number of streams.
THEOREM TypeCorrect == Spec => []TypeOK
<1>1. IInv => TypeOK
  BY DEF IInv
<1> QED BY <1>1, Invariance, PTL

\* Whatever the interleaving of the streams' evaluations with the dashboard's
\* toggles, each block the switch forces uses up an arming of its own.
THEOREM ForcedBlocksAreArmed == Spec => []ForcedBlocksNeedArming
<1>1. IInv => ForcedBlocksNeedArming
  BY DEF IInv
<1> QED BY <1>1, Invariance, PTL

\* A connected client is told of every mid-stream BLOCK, through any course of
\* the retry and its judge but a panic.
THEOREM MidStreamBlocksTold == Spec => []MidStreamBlockSignalled
<1>1. IInv => MidStreamBlockSignalled
  BY DEF IInv, SignalInv, Over, MidStreamBlockSignalled
<1> QED BY <1>1, Invariance, PTL

\* A retried response judged violating reaches no client.
THEOREM ViolatingRetriesWithheld == Spec => []ViolatingRetryWithheld
<1>1. IInv => ViolatingRetryWithheld
  BY DEF IInv, ReplacementInv, JudgedInv, ViolatingRetryWithheld
<1> QED BY <1>1, Invariance, PTL

-----------------------------------------------------------------------------
(* The refinement of ClientStream. *)

\* What the client's phase is, by where the task is.
Phases ==
  \A r \in Requests :
    /\ task[r] = "new" => StreamPhase[r] = "idle"
    /\ task[r] \in Flowing \ {"new"} => StreamPhase[r] = "open"
    /\ task[r] \in Refusing => StreamPhase[r] = "blocked"
    /\ task[r] = "cleanup" => StreamPhase[r] =
         IF Replaced(r) THEN "replaced"
         ELSE IF refused[r] # "no" THEN "blocked" ELSE "open"
    /\ task[r] = "done" => StreamPhase[r] = "closed"

\* The invariant gives each place of the task its phase.
LEMMA PhasesHold == IInv => Phases
<1> SUFFICES ASSUME IInv PROVE Phases
  OBVIOUS
<1> SUFFICES ASSUME NEW r \in Requests PROVE Phases!(r)
  BY DEF Phases
<1> QED BY DEF StreamPhase, IInv, BlockInv, ReplacementInv, Flowing, Refusing, Over

\* A step of one stream leaves the phases of the others alone.
LEMMA OtherPhases ==
  ASSUME NEW r \in Requests,
         \A q \in Requests \ {r} :
           task'[q] = task[q] /\ refused'[q] = refused[q] /\ client'[q] = client[q]
  PROVE  /\ StreamPhase' = [StreamPhase EXCEPT ![r] = StreamPhase'[r]]
         /\ StreamPhase'[r] = StreamPhase[r] => UNCHANGED StreamPhase
<1>1. \A q \in Requests \ {r} : StreamPhase'[q] = StreamPhase[q]
  BY DEF StreamPhase, Replaced
<1>2. StreamPhase = [q \in Requests |-> StreamPhase[q]]
      /\ StreamPhase' = [q \in Requests |-> StreamPhase'[q]]
  BY DEF StreamPhase
<1> QED BY <1>1, <1>2

\* Before the upstream has answered the client has no stream.
LEMMA InitRefines == Init => Promise!Init
BY DEF Init, Promise!Init, StreamPhase

\* The steps the client does not see: they leave its stream and its phase alone.
LEMMA UnseenSteps ==
  ASSUME IInv, IInv', Phases, Phases', NEW r \in Requests,
         \/ Receive(r) \/ UpstreamEnds(r) \/ SkipEvaluation(r) \/ GiveUp(r)
         \/ Retry(r) \/ RetryFails(r) \/ RetryFailsAtEnd(r) \/ RetryAnswers(r)
         \/ Verify(r) \/ Take(r) \/ Disconnect(r) \/ GateCut(r)
  PROVE  UNCHANGED <<client, StreamPhase>>
<1>1. UNCHANGED <<client, refused>>
  BY DEF Receive, UpstreamEnds, SkipEvaluation, GiveUp, Retry, RetryFails,
     RetryFailsAtEnd, RetryAnswers, Verify, Take, Disconnect, GateCut,
     streamVars, clientVars
<1>2. /\ \A q \in Requests \ {r} : task'[q] = task[q]
      /\ \/ task'[r] = task[r]
         \/ {task[r], task'[r]} \subseteq Flowing \ {"new"}
         \/ {task[r], task'[r]} \subseteq Refusing
         \/ task[r] = "retrying" /\ task'[r] = "cleanup"
  <2> USE DEF IInv, TypeOK, Goto, Flowing, Refusing
  <2>1. CASE Receive(r) \/ UpstreamEnds(r) \/ SkipEvaluation(r)
    BY <2>1 DEF Receive, UpstreamEnds, SkipEvaluation
  <2>2. CASE GiveUp(r) \/ Retry(r) \/ RetryFails(r) \/ RetryFailsAtEnd(r)
    BY <2>2 DEF GiveUp, Retry, RetryFails, RetryFailsAtEnd
  <2>3. CASE RetryAnswers(r) \/ Verify(r)
    BY <2>3 DEF RetryAnswers, Verify
  <2>4. CASE Take(r) \/ Disconnect(r) \/ GateCut(r)
    BY <2>4 DEF Take, Disconnect, GateCut
  <2> QED BY <2>1, <2>2, <2>3, <2>4
<1>3. StreamPhase'[r] = StreamPhase[r] => UNCHANGED StreamPhase
  BY <1>1, <1>2, OtherPhases
<1>4. StreamPhase'[r] = StreamPhase[r]
  <2>1. CASE task'[r] = task[r]
    BY <1>1, <2>1 DEF StreamPhase, Replaced
  <2>2. CASE {task[r], task'[r]} \subseteq Flowing \ {"new"}
    BY <2>2 DEF Phases
  <2>3. CASE {task[r], task'[r]} \subseteq Refusing
    BY <2>3 DEF Phases
  <2>4. CASE task[r] = "retrying" /\ task'[r] = "cleanup"
    <3>1. refused[r] # "no" /\ ~Replaced(r) /\ StreamPhase[r] = "blocked"
      BY <2>4 DEF IInv, BlockInv, ReplacementInv, Refusing, Over, Phases
    <3>2. refused'[r] # "no" /\ ~Replaced(r)'
      BY <1>1, <3>1 DEF Replaced
    <3> QED BY <2>4, <3>1, <3>2 DEF Phases
  <2> QED BY <1>2, <2>1, <2>2, <2>3, <2>4
<1> QED BY <1>1, <1>3, <1>4

\* The first answer of the upstream opens the client's stream.
LEMMA StartOpens ==
  ASSUME IInv, IInv', Phases, Phases', NEW r \in Requests, Start(r)
  PROVE  Promise!Open(r)
<1> USE DEF IInv, TypeOK, Start, Goto, clientVars
<1>1. StreamPhase' = [StreamPhase EXCEPT ![r] = StreamPhase'[r]]
  BY OtherPhases
<1>2. StreamPhase[r] = "idle" /\ StreamPhase'[r] = "open"
  BY DEF Phases, Flowing
<1> QED BY <1>1, <1>2 DEF Promise!Open

\* A chunk goes to an open stream, or nowhere.
LEMMA ForwardSends ==
  ASSUME IInv, IInv', Phases, Phases', NEW r \in Requests, Forward(r)
  PROVE  Promise!Chunk(r) \/ UNCHANGED <<client, StreamPhase>>
<1> USE DEF IInv, TypeOK, Forward, Goto, Put, streamVars
<1>1. StreamPhase'[r] = StreamPhase[r] => UNCHANGED StreamPhase
  <2>1. \A q \in Requests \ {r} :
          task'[q] = task[q] /\ refused'[q] = refused[q] /\ client'[q] = client[q]
    OBVIOUS
  <2> HIDE DEF IInv, TypeOK, Forward, Goto, Put, streamVars
  <2> QED BY <2>1, OtherPhases
<1>2. StreamPhase[r] = "open" /\ StreamPhase'[r] = "open"
  BY DEF Phases, Flowing
<1> QED BY <1>1, <1>2 DEF Promise!Chunk

\* A violation blocks an open stream.
LEMMA EvaluationsBlock ==
  ASSUME IInv, IInv', Phases, Phases', NEW r \in Requests,
         Evaluate(r) \/ FinalEvaluate(r) \/ FinalJudge(r)
  PROVE  Promise!Block(r) \/ UNCHANGED <<client, StreamPhase>>
<1>1. /\ UNCHANGED client
      /\ task[r] \in Flowing \ {"new"}
      /\ \A q \in Requests \ {r} : task'[q] = task[q] /\ refused'[q] = refused[q]
      /\ \/ task'[r] \in Flowing \ {"new"}
         \/ task'[r] = "blocking"
         \/ task'[r] = "cleanup" /\ refused'[r] = refused[r]
  <2> USE DEF IInv, TypeOK, Goto, clientVars, Flowing
  <2>1. CASE Evaluate(r)
    BY <2>1 DEF Evaluate
  <2>2. CASE FinalEvaluate(r)
    BY <2>2 DEF FinalEvaluate
  <2>3. CASE FinalJudge(r)
    BY <2>3 DEF FinalJudge
  <2> QED BY <2>1, <2>2, <2>3
<1>2. /\ StreamPhase' = [StreamPhase EXCEPT ![r] = StreamPhase'[r]]
      /\ StreamPhase'[r] = StreamPhase[r] => UNCHANGED StreamPhase
  BY <1>1, OtherPhases
<1>3. StreamPhase[r] = "open" /\ refused[r] = "no" /\ ~Replaced(r)
  BY <1>1 DEF IInv, BlockInv, ReplacementInv, Phases, Flowing, Over
<1>4. StreamPhase'[r] = "open" \/ StreamPhase'[r] = "blocked"
  <2>1. CASE task'[r] \in Flowing \ {"new"}
    BY <2>1 DEF Phases
  <2>2. CASE task'[r] = "blocking"
    BY <2>2 DEF Phases, Refusing
  <2>3. CASE task'[r] = "cleanup" /\ refused'[r] = refused[r]
    <3>1. refused'[r] = "no" /\ ~Replaced(r)'
      BY <1>1, <1>3, <2>3 DEF Replaced
    <3> QED BY <2>3, <3>1 DEF Phases
  <2> QED BY <1>1, <2>1, <2>2, <2>3
<1> QED BY <1>1, <1>2, <1>3, <1>4 DEF Promise!Block

\* What was settled on takes the place of the rest of a blocked stream, once.
LEMMA ReplaceReplaces ==
  ASSUME IInv, IInv', Phases, Phases', NEW r \in Requests, Replace(r)
  PROVE  Promise!Replace(r) \/ UNCHANGED <<client, StreamPhase>>
<1> USE DEF IInv, TypeOK, Replace, Goto, Put, streamVars
<1>1. /\ StreamPhase' = [StreamPhase EXCEPT ![r] = StreamPhase'[r]]
      /\ StreamPhase'[r] = StreamPhase[r] => UNCHANGED StreamPhase
  BY OtherPhases
<1>2. /\ StreamPhase[r] = "blocked"
      /\ refused[r] # "no"
      /\ ~Replaced(r)
      /\ tail[r] \in {"error", "retry"}
  <2>1. task[r] = "replacing" /\ tail[r] \in {"none", "error", "retry"}
    OBVIOUS
  <2>2. Phases /\ BlockInv /\ ReplacementInv
    OBVIOUS
  <2> HIDE DEF IInv, TypeOK, Replace, Goto, Put, streamVars
  <2> QED BY <2>1, <2>2 DEF Phases, BlockInv, ReplacementInv, Refusing, Over
<1>3. CASE connected[r]
  <2> DEFINE n == Len(client[r]) + 1
  <2>1. n \in 1..Len(client'[r]) /\ client'[r][n] = tail[r]
    BY <1>2, <1>3 DEF Item
  <2>2. Replaced(r)'
    BY <1>2, <2>1 DEF Replaced
  <2>3. StreamPhase'[r] = "replaced"
    BY <2>2 DEF Phases
  <2>4. client' = [client EXCEPT ![r] = Append(@, tail[r])]
    BY <1>3
  <2> QED BY <1>1, <1>2, <2>3, <2>4 DEF Promise!Replace
<1>4. CASE ~connected[r]
  <2>1. client' = client
    BY <1>4
  <2>2. StreamPhase'[r] = "blocked"
    BY <1>2, <2>1 DEF Phases, Replaced
  <2> QED BY <1>1, <1>2, <2>1, <2>2
<1> QED BY <1>3, <1>4

\* The end of the task, regular or not, closes a stream that was opened.
LEMMA EndsClose ==
  ASSUME IInv, IInv', Phases, Phases', NEW r \in Requests, Panic(r) \/ Cleanup(r)
  PROVE  Promise!Close(r)
<1>1. /\ UNCHANGED <<client, refused>>
      /\ task[r] \in {"judging", "verifying", "cleanup"}
      /\ task'[r] = "done"
      /\ \A q \in Requests \ {r} : task'[q] = task[q]
  BY DEF IInv, TypeOK, Panic, Cleanup, Goto, streamVars, clientVars
<1>2. StreamPhase' = [StreamPhase EXCEPT ![r] = StreamPhase'[r]]
  BY <1>1, OtherPhases
<1>3. StreamPhase[r] \in {"open", "blocked", "replaced"}
  BY <1>1 DEF Phases, Flowing, Refusing
<1>4. StreamPhase'[r] = "closed"
  BY <1>1 DEF Phases
<1> QED BY <1>1, <1>2, <1>3, <1>4 DEF Promise!Close

\* Every step of the proxy is a step of the promise or one it does not show.
LEMMA NextRefines ==
  IInv /\ IInv' /\ Phases /\ Phases' /\ [Next]_vars
    => [Promise!Next]_<<client, StreamPhase>>
<1> SUFFICES ASSUME IInv, IInv', Phases, Phases', [Next]_vars
             PROVE  [Promise!Next]_<<client, StreamPhase>>
  OBVIOUS
<1>1. ASSUME NEW r \in Requests, TaskStep(r)
      PROVE  [Promise!Next]_<<client, StreamPhase>>
  BY <1>1, UnseenSteps, StartOpens, ForwardSends, EvaluationsBlock,
     ReplaceReplaces, EndsClose DEF TaskStep, Promise!Next
<1>2. ASSUME NEW r \in Requests, Take(r) \/ Disconnect(r) \/ GateCut(r)
      PROVE  UNCHANGED <<client, StreamPhase>>
  BY <1>2, UnseenSteps
<1>3. CASE ToggleBlockNext \/ UNCHANGED vars
  BY <1>3 DEF ToggleBlockNext, vars, streamVars, clientVars, StreamPhase, Replaced
<1> QED BY <1>1, <1>2, <1>3 DEF Next

\* What a client sees of a streamed response is what the design comment of the
\* streaming branch promises, for any number of streams, any channel capacity
\* and any interleaving with the switch, the gates and the clients.
THEOREM ClientSeesPromise == Spec => KeepsPromise
<1>1. IInv' => Phases'
  BY PhasesHold, PTL
<1> QED BY InitRefines, Invariance, PhasesHold, <1>1, NextRefines, PTL
        DEF Spec, KeepsPromise, Promise!Spec
=============================================================================
