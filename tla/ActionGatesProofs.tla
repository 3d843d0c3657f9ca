------------------------- MODULE ActionGatesProofs -------------------------
(***************************************************************************)
(* Proofs about ActionGates, for every set of requests, sessions, gates    *)
(* and concurrent operator calls.                                          *)
(***************************************************************************)
EXTENDS ActionGates, TLAPS

-----------------------------------------------------------------------------
(* The inductive invariant, in parts. *)

\* Where a request is, against what is recorded about it elsewhere.
RequestInv ==
  /\ \A r \in Requests :
       pending_gate[r] # NoGate => request[r] \in {"waiting", "matched", "expired"}
  /\ \A r \in Requests :
       request[r] \in {"waiting", "matched", "expired"} => pending_gate[r] # NoGate
  /\ \A r \in Requests :
       request[r] \in {"streaming", "checked", "ending"} => r \in active_streams

\* A judge task belongs to a request that has been streaming, and a task that
\* found the stream inactive belongs to a request that is over.
JudgeInv ==
  /\ \A g \in Gates : judge[g] = "idle" <=> judged_request[g] = NoRequest
  /\ \A g \in Gates : judged_request[g] # NoRequest =>
       request[judged_request[g]] \in {"streaming", "checked", "ending", "done"}
  /\ \A g \in Gates :
       judge[g] = "inactive" => request[judged_request[g]] = "done"

\* The table only has gates whose task has opened them, and a retroactive
\* gate's request is over.
TableInv ==
  /\ \A g \in Gates :
       action_gates[g] # "absent" => judge[g] \in {"awaiting", "rejecting", "done"}
  /\ \A g \in Gates : action_gates[g] = "Retroactive" =>
       /\ judge[g] = "done"
       /\ oneshot[g] = "none"
       /\ request[judged_request[g]] = "done"
  /\ \A r \in Requests : pending_gate[r] # NoGate =>
       LET g == pending_gate[r]
       IN  /\ judge[g] = "done"
           /\ oneshot[g] = "none"
           /\ request[judged_request[g]] = "done"
           /\ GateSession(g) = SessionOf[r]

\* Decisions, recorded or still in flight, come from a verdict on their gate.
DecisionInv ==
  /\ \A g \in Gates :
       verdict[g] # "none" => judge[g] \in {"awaiting", "rejecting", "done"}
  /\ \A s \in Sessions :
       gate_decisions[s] # NoDecision => verdict[gate_decisions[s].gate_id] # "none"
  /\ \A c \in Calls : call[c] # NoCall => verdict[call[c].gate_id] # "none"
  /\ ReleaseNeedsVerdict

\* What a oneshot channel holds is the first verdict on its gate.
OneshotInv ==
  /\ \A g \in Gates : oneshot[g] = "empty" => g \in decision_tx /\ verdict[g] = "none"
  /\ \A g \in Gates : oneshot[g] = "true" => verdict[g] = "approved"
  /\ \A g \in Gates : oneshot[g] = "false" => verdict[g] = "rejected"
  /\ \A g \in Gates :
       judge[g] \in {"idle", "judging", "active", "inactive"} => oneshot[g] = "none"
  /\ \A g \in Gates : judge[g] = "awaiting" => oneshot[g] \in {"empty", "true", "false"}
  /\ \A g \in Gates : judge[g] = "rejecting" => oneshot[g] \in {"false", "closed"}

\* A blocked request has a gate whose channel says why.
CutInv ==
  \A r \in blocked_requests : \E g \in Gates :
    /\ judged_request[g] = r
    /\ judge[g] = "done"
    /\ oneshot[g] \in {"false", "closed"}

\* A request about to forward a chunk has forwarded none since it was blocked.
LateInv ==
  /\ AtMostOneLateChunk
  /\ \A r \in Requests : request[r] = "checked" => late[r] = 0
  /\ \A r \in Requests :
       r \notin blocked_requests /\ request[r] # "done" => late[r] = 0

IInv ==
  /\ TypeOK
  /\ RequestInv
  /\ JudgeInv
  /\ TableInv
  /\ DecisionInv
  /\ OneshotInv
  /\ CutInv
  /\ LateInv

-----------------------------------------------------------------------------
(* Each action preserves the inductive invariant. *)

\* A request starts to wait only for a gate of its session whose stream is over.
LEMMA LookUpStep ==
  ASSUME IInv, NEW r \in Requests, LookUp(r)
  PROVE  IInv'
<1> USE DEF IInv, TypeOK, LookUp, gateVars, streamVars, judgeVars, callVars
<1>1. TypeOK'
  BY DEF PendingGates, RequestPc
<1>2. RequestInv'
  BY NullAssumption DEF RequestInv, PendingGates
<1>3. JudgeInv'
  BY DEF JudgeInv
<1>4. TableInv'
  BY DEF JudgeInv, TableInv, GateSession, PendingGates
<1>5. DecisionInv'
  BY DEF DecisionInv, ReleaseNeedsVerdict
<1>6. LateInv'
  BY DEF LateInv, AtMostOneLateChunk
<1>7. OneshotInv' /\ CutInv'
  BY DEF OneshotInv, CutInv
<1> QED BY <1>1, <1>2, <1>3, <1>4, <1>5, <1>6, <1>7

\* A request is let go only on a decision about its gate.
LEMMA PollStep ==
  ASSUME IInv, NEW r \in Requests, Poll(r)
  PROVE  IInv'
<1> USE DEF IInv, TypeOK, Poll, gateVars, streamVars, judgeVars, callVars
<1>1. TypeOK'
  BY DEF RequestPc
<1>2. RequestInv'
  BY DEF RequestInv
<1>3. JudgeInv'
  BY DEF JudgeInv
<1>4. TableInv'
  BY DEF TableInv, GateSession
<1>5. DecisionInv'
  <2>1. CASE Matches(r)
    <3>1. gate_decisions[SessionOf[r]] # NoDecision
      BY <2>1 DEF Matches
    <3>2. verdict[pending_gate[r]] # "none"
      <4>1. SessionOf[r] \in Sessions
        BY SessionOfAssumption
      <4>2. gate_decisions[SessionOf[r]].gate_id = pending_gate[r]
        BY <2>1 DEF Matches
      <4> QED BY <3>1, <4>1, <4>2 DEF DecisionInv
    <3>3. ReleaseNeedsVerdict'
      <4> SUFFICES ASSUME NEW q \in Requests, request'[q] = "matched"
                   PROVE  verdict'[pending_gate'[q]] # "none"
        BY DEF ReleaseNeedsVerdict
      <4>1. q = r \/ request[q] = "matched"
        OBVIOUS
      <4> QED BY <3>2, <4>1 DEF DecisionInv, ReleaseNeedsVerdict
    <3> QED BY <3>3 DEF DecisionInv
  <2>2. CASE ~Matches(r)
    BY <2>2 DEF DecisionInv, ReleaseNeedsVerdict
  <2> QED BY <2>1, <2>2
<1>6. LateInv'
  BY DEF LateInv, AtMostOneLateChunk
<1>7. OneshotInv' /\ CutInv'
  BY DEF OneshotInv, CutInv
<1> QED BY <1>1, <1>2, <1>3, <1>4, <1>5, <1>6, <1>7

\* The gate leaves the table and the wait ends together.
LEMMA ConsumeDecisionStep ==
  ASSUME IInv, NEW r \in Requests, ConsumeDecision(r)
  PROVE  IInv'
<1> USE DEF IInv, TypeOK, ConsumeDecision, streamVars, judgeVars, callVars
<1>1. TypeOK'
  BY DEF RequestPc
<1>2. RequestInv'
  BY DEF RequestInv
<1>3. JudgeInv'
  BY DEF JudgeInv
<1>4. TableInv'
  BY DEF TableInv, GateSession
<1>5. DecisionInv'
  BY DEF DecisionInv, ReleaseNeedsVerdict
<1>6. OneshotInv'
  BY DEF DecisionInv, ReleaseNeedsVerdict, OneshotInv
<1>7. LateInv'
  BY DEF LateInv, AtMostOneLateChunk
<1>8. CutInv'
  BY DEF CutInv
<1> QED BY <1>1, <1>2, <1>3, <1>4, <1>5, <1>6, <1>7, <1>8

\* The gate leaves the table and the wait ends together, without a decision.
LEMMA ExpireGateStep ==
  ASSUME IInv, NEW r \in Requests, ExpireGate(r)
  PROVE  IInv'
<1> USE DEF IInv, TypeOK, ExpireGate, streamVars, judgeVars, callVars
<1>1. TypeOK'
  BY DEF RequestInv, RequestPc
<1>2. RequestInv'
  BY DEF RequestInv
<1>3. JudgeInv'
  BY DEF JudgeInv
<1>4. TableInv'
  BY DEF TableInv, GateSession
<1>5. DecisionInv'
  BY DEF DecisionInv, ReleaseNeedsVerdict
<1>6. OneshotInv'
  BY DEF RequestInv, TableInv, OneshotInv
<1>7. LateInv'
  BY DEF LateInv, AtMostOneLateChunk
<1>8. CutInv'
  BY DEF CutInv
<1> QED BY <1>1, <1>2, <1>3, <1>4, <1>5, <1>6, <1>7, <1>8

\* No task has the request yet: it has not been streaming.
LEMMA StartStreamStep ==
  ASSUME IInv, NEW r \in Requests, StartStream(r)
  PROVE  IInv'
<1> USE DEF IInv, TypeOK, StartStream, gateVars, judgeVars, callVars
<1>1. TypeOK'
  BY DEF RequestPc
<1>2. RequestInv'
  BY DEF RequestInv
<1>3. JudgeInv'
  BY DEF JudgeInv
<1>4. TableInv'
  BY DEF JudgeInv, TableInv, GateSession
<1>5. DecisionInv'
  BY DEF DecisionInv, ReleaseNeedsVerdict
<1>6. LateInv'
  BY DEF LateInv, AtMostOneLateChunk
<1>7. OneshotInv' /\ CutInv'
  BY DEF OneshotInv, CutInv
<1> QED BY <1>1, <1>2, <1>3, <1>4, <1>5, <1>6, <1>7

\* A chunk is let through only for a request not blocked at that moment.
LEMMA ReadChunkStep ==
  ASSUME IInv, NEW r \in Requests, ReadChunk(r)
  PROVE  IInv'
<1> USE DEF IInv, TypeOK, ReadChunk, gateVars, streamVars, judgeVars, callVars
<1>1. TypeOK'
  BY DEF RequestPc
<1>2. RequestInv'
  BY DEF RequestInv
<1>3. JudgeInv'
  BY DEF JudgeInv
<1>4. TableInv'
  BY DEF TableInv, GateSession
<1>5. DecisionInv'
  BY DEF DecisionInv, ReleaseNeedsVerdict
<1>6. LateInv'
  BY DEF LateInv, AtMostOneLateChunk
<1>7. OneshotInv' /\ CutInv'
  BY DEF OneshotInv, CutInv
<1> QED BY <1>1, <1>2, <1>3, <1>4, <1>5, <1>6, <1>7

\* The tasks spawned were idle and get a streaming request.
LEMMA ForwardChunkStep ==
  ASSUME IInv, NEW r \in Requests, ForwardChunk(r)
  PROVE  IInv'
<1> USE DEF IInv, TypeOK, ForwardChunk, gateVars, callVars
<1>1. TypeOK'
  BY DEF RequestPc, JudgePc
<1>2. RequestInv'
  BY DEF RequestInv
<1>3. JudgeInv'
  BY NullAssumption DEF JudgeInv
<1>4. TableInv'
  BY DEF TableInv, GateSession
<1>5. DecisionInv'
  BY DEF DecisionInv, ReleaseNeedsVerdict
<1>6. OneshotInv'
  BY DEF OneshotInv
<1>7. CutInv'
  BY DEF CutInv
<1>8. LateInv'
  BY DEF LateInv, AtMostOneLateChunk
<1> QED BY <1>1, <1>2, <1>3, <1>4, <1>5, <1>6, <1>7, <1>8

\* The request stays active until its cleanup.
LEMMA EndStreamStep ==
  ASSUME IInv, NEW r \in Requests, EndStream(r)
  PROVE  IInv'
<1> USE DEF IInv, TypeOK, EndStream, gateVars, streamVars, judgeVars, callVars
<1>1. TypeOK'
  BY DEF RequestPc
<1>2. RequestInv'
  BY DEF RequestInv
<1>3. JudgeInv'
  BY DEF JudgeInv
<1>4. TableInv'
  BY DEF TableInv, GateSession
<1>5. DecisionInv'
  BY DEF DecisionInv, ReleaseNeedsVerdict
<1>6. LateInv'
  BY DEF LateInv, AtMostOneLateChunk
<1>7. OneshotInv' /\ CutInv'
  BY DEF OneshotInv, CutInv
<1> QED BY <1>1, <1>2, <1>3, <1>4, <1>5, <1>6, <1>7

\* The request leaves both sets as it becomes done.
LEMMA CleanupStep ==
  ASSUME IInv, NEW r \in Requests, Cleanup(r)
  PROVE  IInv'
<1> USE DEF IInv, TypeOK, Cleanup, gateVars, judgeVars, callVars
<1>1. TypeOK'
  BY DEF RequestPc
<1>2. RequestInv'
  BY DEF RequestInv
<1>3. JudgeInv'
  BY DEF JudgeInv
<1>4. TableInv'
  BY DEF TableInv, GateSession
<1>5. DecisionInv'
  BY DEF DecisionInv, ReleaseNeedsVerdict
<1>6. CutInv'
  BY DEF CutInv
<1>7. LateInv'
  BY DEF LateInv, AtMostOneLateChunk
<1>8. OneshotInv'
  BY DEF OneshotInv
<1> QED BY <1>1, <1>2, <1>3, <1>4, <1>5, <1>6, <1>7, <1>8

\* The request becomes done and both sets keep it.
LEMMA PanicStep ==
  ASSUME IInv, NEW r \in Requests, Panic(r)
  PROVE  IInv'
<1> USE DEF IInv, TypeOK, Panic, gateVars, streamVars, judgeVars, callVars
<1>1. TypeOK'
  BY DEF RequestPc
<1>2. RequestInv'
  BY DEF RequestInv
<1>3. JudgeInv'
  BY DEF JudgeInv
<1>4. TableInv'
  BY DEF TableInv, GateSession
<1>5. DecisionInv'
  BY DEF DecisionInv, ReleaseNeedsVerdict
<1>6. LateInv'
  BY DEF LateInv, AtMostOneLateChunk
<1>7. OneshotInv' /\ CutInv'
  BY DEF OneshotInv, CutInv
<1> QED BY <1>1, <1>2, <1>3, <1>4, <1>5, <1>6, <1>7

\* A task ends without a gate.
LEMMA JudgeWithinScopeStep ==
  ASSUME IInv, NEW g \in Gates, JudgeWithinScope(g)
  PROVE  IInv'
<1> USE DEF IInv, TypeOK, JudgeWithinScope, gateVars,
            streamVars, requestVars, callVars
<1>1. TypeOK'
  BY DEF JudgePc
<1>2. JudgeInv'
  BY DEF JudgeInv
<1>3. TableInv'
  BY DEF TableInv, GateSession
<1>4. DecisionInv'
  BY DEF DecisionInv, ReleaseNeedsVerdict
<1>5. OneshotInv'
  BY DEF OneshotInv
<1>6. CutInv'
  BY DEF CutInv
<1>7. RequestInv' /\ LateInv'
  BY DEF RequestInv, LateInv, AtMostOneLateChunk
<1> QED BY <1>1, <1>2, <1>3, <1>4, <1>5, <1>6, <1>7

\* A stream found inactive is over, and a stream that is over stays so.
LEMMA JudgeOutOfScopeStep ==
  ASSUME IInv, NEW g \in Gates, JudgeOutOfScope(g)
  PROVE  IInv'
<1> USE DEF IInv, TypeOK, JudgeOutOfScope, gateVars,
            streamVars, requestVars, callVars
<1>1. TypeOK'
  BY DEF JudgePc
<1>2. JudgeInv'
  BY DEF RequestInv, JudgeInv
<1>3. TableInv'
  BY DEF TableInv, GateSession
<1>4. DecisionInv'
  BY DEF DecisionInv, ReleaseNeedsVerdict
<1>5. OneshotInv'
  BY DEF OneshotInv
<1>6. CutInv'
  BY DEF CutInv
<1>7. RequestInv' /\ LateInv'
  BY DEF RequestInv, LateInv, AtMostOneLateChunk
<1> QED BY <1>1, <1>2, <1>3, <1>4, <1>5, <1>6, <1>7

\* A new gate has its sender, an empty channel and no verdict.
LEMMA CreateRealtimeGateStep ==
  ASSUME IInv, NEW g \in Gates, CreateRealtimeGate(g)
  PROVE  IInv'
<1> USE DEF IInv, TypeOK, CreateRealtimeGate, streamVars, requestVars, callVars
<1>1. TypeOK'
  BY DEF GateType, JudgePc
<1>2. JudgeInv'
  BY DEF JudgeInv
<1>3. TableInv'
  BY DEF TableInv, GateSession
<1>4. DecisionInv'
  BY DEF DecisionInv, ReleaseNeedsVerdict
<1>5. OneshotInv'
  BY DEF DecisionInv, OneshotInv
<1>6. CutInv'
  BY DEF CutInv
<1>7. RequestInv' /\ LateInv'
  BY DEF RequestInv, LateInv, AtMostOneLateChunk
<1> QED BY <1>1, <1>2, <1>3, <1>4, <1>5, <1>6, <1>7

\* A retroactive gate has no channel, and its request is over.
LEMMA RegisterRetroactiveGateStep ==
  ASSUME IInv, NEW g \in Gates, RegisterRetroactiveGate(g)
  PROVE  IInv'
<1> USE DEF IInv, TypeOK, RegisterRetroactiveGate, streamVars,
            requestVars, callVars
<1>1. TypeOK'
  BY DEF GateType, JudgePc
<1>2. JudgeInv'
  BY DEF JudgeInv
<1>3. TableInv'
  BY DEF JudgeInv, TableInv, OneshotInv, GateSession
<1>4. DecisionInv'
  BY DEF DecisionInv, ReleaseNeedsVerdict
<1>5. OneshotInv'
  BY DEF OneshotInv
<1>6. CutInv'
  BY DEF CutInv
<1>7. RequestInv' /\ LateInv'
  BY DEF RequestInv, LateInv, AtMostOneLateChunk
<1> QED BY <1>1, <1>2, <1>3, <1>4, <1>5, <1>6, <1>7

\* The channel yields the verdict it holds, or closes empty.
LEMMA AwaitDecisionStep ==
  ASSUME IInv, NEW g \in Gates, AwaitDecision(g)
  PROVE  IInv'
<1> USE DEF IInv, TypeOK, AwaitDecision, streamVars, requestVars, callVars
<1>1. TypeOK'
  BY DEF JudgePc
<1>2. JudgeInv'
  BY DEF JudgeInv
<1>3. TableInv'
  BY DEF TableInv, GateSession
<1>4. DecisionInv'
  BY DEF DecisionInv, ReleaseNeedsVerdict
<1>5. OneshotInv'
  BY DEF OneshotInv
<1>6. CutInv'
  BY DEF CutInv
<1>7. RequestInv' /\ LateInv'
  BY DEF RequestInv, LateInv, AtMostOneLateChunk
<1> QED BY <1>1, <1>2, <1>3, <1>4, <1>5, <1>6, <1>7

\* The gate of the task itself is the reason for the cut.
LEMMA BlockRequestStep ==
  ASSUME IInv, NEW g \in Gates, BlockRequest(g)
  PROVE  IInv'
<1> USE DEF IInv, TypeOK, BlockRequest, gateVars, requestVars, callVars
<1>1. TypeOK'
  BY DEF JudgeInv, JudgePc
<1>2. JudgeInv'
  BY DEF JudgeInv
<1>3. TableInv'
  BY DEF TableInv, GateSession
<1>4. DecisionInv'
  BY DEF DecisionInv, ReleaseNeedsVerdict
<1>5. OneshotInv'
  BY DEF OneshotInv
<1>6. CutInv'
  BY DEF OneshotInv, CutInv
<1>7. LateInv'
  BY DEF LateInv, AtMostOneLateChunk
<1>8. RequestInv'
  BY DEF RequestInv
<1> QED BY <1>1, <1>2, <1>3, <1>4, <1>5, <1>6, <1>7, <1>8

\* A verdict fills the channel only if it is the gate's first.
LEMMA ApplyDecisionStep ==
  ASSUME IInv, NEW c \in Calls, NEW g \in Gates, NEW approved \in BOOLEAN,
         ApplyDecision(c, g, approved)
  PROVE  IInv'
<1> USE DEF IInv, TypeOK, ApplyDecision, streamVars, requestVars, judgeVars
<1>1. TypeOK'
  BY DEF Decision
<1>2. TableInv'
  BY DEF TableInv, GateSession
<1>3. DecisionInv'
  BY DEF TableInv, DecisionInv, ReleaseNeedsVerdict
<1>4. OneshotInv'
  BY DEF OneshotInv
<1>5. CutInv'
  BY DEF CutInv
<1>6. RequestInv' /\ JudgeInv' /\ LateInv'
  BY DEF RequestInv, JudgeInv, LateInv, AtMostOneLateChunk
<1> QED BY <1>1, <1>2, <1>3, <1>4, <1>5, <1>6

\* A decision recorded was in flight, so its gate has a verdict.
LEMMA RecordDecisionStep ==
  ASSUME IInv, NEW c \in Calls, RecordDecision(c)
  PROVE  IInv'
<1> USE DEF IInv, TypeOK, RecordDecision, streamVars, requestVars, judgeVars
<1>1. TypeOK'
  BY SessionOfAssumption DEF JudgeInv, DecisionInv, GateSession, Decision
<1>2. DecisionInv'
  BY DEF DecisionInv, ReleaseNeedsVerdict
<1>3. RequestInv' /\ JudgeInv' /\ TableInv' /\ OneshotInv' /\ CutInv' /\ LateInv'
  BY DEF RequestInv, JudgeInv, TableInv, GateSession, OneshotInv,
    CutInv, LateInv, AtMostOneLateChunk
<1> QED BY <1>1, <1>2, <1>3

-----------------------------------------------------------------------------
(* The invariant is inductive. *)

\* Nothing is recorded of anything initially.
LEMMA InitIInv == Init => IInv
<1> SUFFICES ASSUME Init PROVE IInv
  OBVIOUS
<1> USE DEF Init
<1>1. TypeOK
  BY DEF TypeOK, RequestPc, JudgePc
<1>2. RequestInv /\ JudgeInv /\ TableInv
  BY DEF RequestInv, JudgeInv, TableInv
<1>3. DecisionInv /\ OneshotInv
  BY DEF DecisionInv, ReleaseNeedsVerdict, OneshotInv
<1>4. CutInv /\ LateInv
  BY DEF CutInv, LateInv, AtMostOneLateChunk
<1> QED BY <1>1, <1>2, <1>3, <1>4 DEF IInv

\* A step that changes nothing preserves it.
LEMMA StutterStep == ASSUME IInv, UNCHANGED vars PROVE IInv'
<1> USE DEF IInv, vars, gateVars, streamVars, requestVars, judgeVars, callVars
<1>1. TypeOK'
  BY DEF TypeOK
<1>2. RequestInv' /\ JudgeInv' /\ TableInv'
  BY DEF RequestInv, JudgeInv, TableInv, GateSession
<1>3. DecisionInv' /\ OneshotInv'
  BY DEF DecisionInv, ReleaseNeedsVerdict, OneshotInv
<1>4. CutInv' /\ LateInv'
  BY DEF CutInv, LateInv, AtMostOneLateChunk
<1> QED BY <1>1, <1>2, <1>3, <1>4

\* Every step preserves it.
LEMMA NextIInv == IInv /\ [Next]_vars => IInv'
<1> SUFFICES ASSUME IInv, [Next]_vars PROVE IInv'
  OBVIOUS
<1>1. ASSUME NEW r \in Requests, RequestStep(r) PROVE IInv'
  BY <1>1, LookUpStep, PollStep, ConsumeDecisionStep, ExpireGateStep,
     StartStreamStep, ReadChunkStep, ForwardChunkStep, EndStreamStep,
     CleanupStep, PanicStep DEF RequestStep
<1>2. ASSUME NEW g \in Gates, JudgeStep(g) PROVE IInv'
  BY <1>2, JudgeWithinScopeStep, JudgeOutOfScopeStep, CreateRealtimeGateStep,
     RegisterRetroactiveGateStep, AwaitDecisionStep, BlockRequestStep
  DEF JudgeStep
<1>3. ASSUME NEW c \in Calls, CallStep(c) PROVE IInv'
  BY <1>3, ApplyDecisionStep, RecordDecisionStep DEF CallStep
<1>4. CASE UNCHANGED vars
  BY <1>4, StutterStep
<1> QED BY <1>1, <1>2, <1>3, <1>4 DEF Next

\* The inductive invariant holds of every behaviour of the specification.
THEOREM Invariance == Spec => []IInv
BY InitIInv, NextIInv, PTL DEF Spec

-----------------------------------------------------------------------------
(* What follows from it. *)

\* Every variable keeps its type: table entries, decisions in flight and
\* recorded ones are what the code's types say, for any number of requests,
\* gates and operator calls.
THEOREM TypeCorrect == Spec => []TypeOK
<1>1. IInv => TypeOK
  BY DEF IInv
<1> QED BY <1>1, Invariance, PTL

\* A request only waits for a gate of its own session whose stream is over,
\* whatever the order of judge tasks, lookups and cleanups.
THEOREM WaitsNeverChain == Spec => []WaitsOnlyOnFinishedStreams
<1>1. IInv => WaitsOnlyOnFinishedStreams
  <2> SUFFICES ASSUME IInv, NEW r \in Requests, pending_gate[r] # NoGate
               PROVE  LET q == judged_request[pending_gate[r]]
                      IN  q # NoRequest /\ request[q] = "done"
                            /\ SessionOf[q] = SessionOf[r]
    BY DEF WaitsOnlyOnFinishedStreams
  <2> DEFINE g == pending_gate[r]
  <2>1. g \in Gates
    BY DEF IInv, TypeOK
  <2>2. judge[g] = "done" /\ request[judged_request[g]] = "done"
           /\ GateSession(g) = SessionOf[r]
    BY DEF IInv, TableInv
  <2>3. judged_request[g] # NoRequest
    BY <2>1, <2>2 DEF IInv, JudgeInv
  <2> QED BY <2>2, <2>3 DEF GateSession
<1> QED BY <1>1, Invariance, PTL

\* No request is released on a decision unless an operator gave a verdict on
\* the gate it waits for.
THEOREM ReleaseIsDecided == Spec => []ReleaseNeedsVerdict
<1>1. IInv => ReleaseNeedsVerdict
  BY DEF IInv, DecisionInv
<1> QED BY <1>1, Invariance, PTL

\* A stream is only ever cut for a gate of its own that was first rejected or
\* that nobody decided in time.
THEOREM CutIsRefused == Spec => []CutNeedsRefusal
<1>1. IInv => CutNeedsRefusal
  <2> SUFFICES ASSUME IInv, NEW r \in blocked_requests
               PROVE  \E g \in Gates :
                        /\ judged_request[g] = r
                        /\ judge[g] = "done"
                        /\ verdict[g] = "rejected" \/ oneshot[g] = "closed"
    BY DEF CutNeedsRefusal
  <2>1. PICK g \in Gates : /\ judged_request[g] = r
                           /\ judge[g] = "done"
                           /\ oneshot[g] \in {"false", "closed"}
    BY DEF IInv, CutInv
  <2>2. oneshot[g] = "false" => verdict[g] = "rejected"
    BY DEF IInv, OneshotInv
  <2> QED BY <2>1, <2>2
<1> QED BY <1>1, Invariance, PTL

\* A chunk can slip out after the rejection of a stream, a second one cannot.
THEOREM LateChunksBounded == Spec => []AtMostOneLateChunk
<1>1. IInv => AtMostOneLateChunk
  BY DEF IInv, LateInv
<1> QED BY <1>1, Invariance, PTL
=============================================================================
