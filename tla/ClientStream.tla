---------------------------- MODULE ClientStream ----------------------------
(***************************************************************************)
(* What the proxy promises the client of a streamed response, in the words *)
(* of the design comment at the head of the streaming branch of            *)
(* proxy_request: chunks are forwarded as they come; on BLOCK the upstream *)
(* is dropped, something is put in place of the rest, and the stream is    *)
(* closed.  Which chunks, when to block and what takes the place of the    *)
(* rest are left open.                                                     *)
(***************************************************************************)
EXTENDS Sequences

CONSTANT Requests

VARIABLES
  sent,   \* the items put into the client's stream, in order
  phase   \* of each stream

Init ==
  /\ sent = [r \in Requests |-> << >>]
  /\ phase = [r \in Requests |-> "idle"]

Open(r) ==
  /\ phase[r] = "idle"
  /\ phase' = [phase EXCEPT ![r] = "open"]
  /\ UNCHANGED sent

\* A chunk of the upstream's response: only while the stream is not blocked.
Chunk(r) ==
  /\ phase[r] = "open"
  /\ sent' = [sent EXCEPT ![r] = Append(@, "chunk")]
  /\ UNCHANGED phase

Block(r) ==
  /\ phase[r] = "open"
  /\ phase' = [phase EXCEPT ![r] = "blocked"]
  /\ UNCHANGED sent

\* In place of the rest of a blocked response: one error event or one retried
\* response, never both and never without a BLOCK.
Replace(r) ==
  /\ phase[r] = "blocked"
  /\ phase' = [phase EXCEPT ![r] = "replaced"]
  /\ \E tail \in {"error", "retry"} :
       sent' = [sent EXCEPT ![r] = Append(@, tail)]

Close(r) ==
  /\ phase[r] \in {"open", "blocked", "replaced"}
  /\ phase' = [phase EXCEPT ![r] = "closed"]
  /\ UNCHANGED sent

Next ==
  \E r \in Requests :
    Open(r) \/ Chunk(r) \/ Block(r) \/ Replace(r) \/ Close(r)

Spec == Init /\ [][Next]_<<sent, phase>>
=============================================================================
