----------------------------- MODULE MCLiveness -----------------------------
(* Fair instances of StreamProxy and of ActionGates for TLC: the initial    *)
(* state decides which of the two runs, and the other stays as it is.       *)
EXTENDS StreamProxy

CONSTANTS Several, Session, Gates, Calls, NoGate, NoRequest, NoDecision, NoCall

VARIABLES
  gated,   \* whether it is the gates of several requests that run
  action_gates, decision_tx, oneshot, gate_decisions, active_streams,
  blocked_requests, request, pending_gate, judge, judged_request, call,
  verdict, late

gatesVars ==
  <<action_gates, decision_tx, oneshot, gate_decisions, active_streams,
    blocked_requests, request, pending_gate, judge, judged_request, call,
    verdict, late>>

\* All requests with gates belong to one session.
Gated == INSTANCE ActionGates WITH
  Requests <- Several, Sessions <- {Session},
  SessionOf <- [r \in Several |-> Session]

EitherInit ==
  /\ gated \in BOOLEAN /\ Gated!Init /\ Init
  /\ gated => marked = {} /\ ~retries_disabled
EitherNext ==
  \/ gated /\ Gated!Next /\ UNCHANGED <<vars, gated>>
  \/ ~gated /\ Next /\ UNCHANGED <<gatesVars, gated>>

\* The fairness of each is only about requests that have begun, so that of
\* the one that does not run asks for nothing.
EitherSpec ==
  /\ EitherInit /\ [][EitherNext]_<<vars, gatesVars, gated>>
  /\ Gated!Fairness /\ Fairness

\* Every wait of a request for a retroactive gate ends, though its decision
\* may have been overwritten or given to another.
WaitEnds == Gated!WaitEnds

\* A stream marked by an unapproved gate ends even if the upstream would go
\* on sending for ever.
BlockedStreamEnds == Gated!BlockedStreamEnds

\* Every judge task ends, whether or not anybody decides its gate.
JudgeEnds == Gated!JudgeEnds
=============================================================================
