--------------------------- MODULE ToolHookProofs ---------------------------
(***************************************************************************)
(* Proofs about ToolHook, for every set of tool calls, files, sessions and *)
(* user's edits and whatever the hooks are run with.                       *)
(***************************************************************************)
EXTENDS ToolHook, TLAPS

-----------------------------------------------------------------------------
(* The inductive invariant, in parts. *)

\* Those who write to files.
Writers == Calls \cup Edits

\* A hook that touches a file or registers takes part; it has no stash before
\* it has pushed one, and afterwards only of the file it was run for.
HookInv ==
  \A c \in Calls:
    /\ pre[c] \in {"checking", "clean", "stashed"} => TakesPart(c)
    /\ pre[c] \in {"idle", "checking", "clean"} => stash[c] = None
    /\ stash[c] # None => PathOf(c) # NoPath

\* The daemon knows a call by the session its hook was run in.
DaemonInv ==
  /\ \A c \in inflight: TakesPart(c)
  /\ \A s \in Sessions: \A i \in 1..Len(gate_snapshots[s]):
       LET d == gate_snapshots[s][i]
       IN  SessionOf(d) = s /\ TakesPart(d) /\ d \in taken

\* The file of a snapshot a post-tool hook acts on has been ruled on.
RuledInv == \A c \in Calls: PathsOf(seen[c]) \subseteq ruled

\* A file that nobody has ruled on and nobody has written to is as it was, in
\* the tree and in no stash.
UntouchedInv == \A p \in Paths \ ruled:
  \/ written[p] \in Writers
  \/ /\ work[p] = Clean(p) /\ written[p] = Clean(p)
     /\ \A c \in Calls: PathOf(c) = p => stash[c] = None

IInv ==
  /\ TypeOK
  /\ HookInv
  /\ DaemonInv
  /\ RuledInv
  /\ UntouchedInv
  /\ LastWriteSurvives
  /\ NoOrphanStash
  /\ ActsOnOwnSession

-----------------------------------------------------------------------------
(* What the inputs of the hooks are. *)

\* A call is run for a file or none, in one of the sessions.
LEMMA InputFacts ==
  ASSUME TypeOK, NEW c \in Calls
  PROVE  PathOf(c) \in Paths \cup {NoPath} /\ SessionOf(c) \in Sessions
BY InputAssumption DEF TypeOK, PathOf, SessionOf

\* The marks are no writers.
LEMMA WriterFacts ==
  ASSUME NEW p
  PROVE  Clean(p) \notin Writers /\ None \notin Content /\ Clean(p) \in Content
BY WriterAssumption, NoneAssumption DEF Writers, Clean, Content

-----------------------------------------------------------------------------
(* Each action preserves the inductive invariant. *)

\* A hook starts without a stash.
LEMMA PreStartStep ==
  ASSUME IInv, NEW c \in Calls, PreStart(c)
  PROVE  IInv'
<1> USE DEF IInv, TypeOK, PreStart, PreGoes, tree, daemon, preVars, postVars, userVars
<1>1. TypeOK'
  BY DEF PrePc, PostPc, Content
<1>2. HookInv'
  BY DEF HookInv, TakesPart, PathOf
<1>3. DaemonInv'
  BY DEF DaemonInv, TakesPart, SessionOf
<1>4. RuledInv'
  BY DEF RuledInv, PathsOf, PathOf
<1>5. UntouchedInv'
  BY DEF UntouchedInv, Clean, PathOf
<1>6. LastWriteSurvives'
  BY DEF LastWriteSurvives, PathOf
<1>7. NoOrphanStash'
  BY DEF NoOrphanStash, HookInv
<1>8. ActsOnOwnSession'
  BY DEF ActsOnOwnSession, TakesPart, SessionOf
<1> QED BY <1>1, <1>2, <1>3, <1>4, <1>5, <1>6, <1>7, <1>8

\* The check does not touch the file.
LEMMA CheckDirtyStep ==
  ASSUME IInv, NEW c \in Calls, CheckDirty(c)
  PROVE  IInv'
<1> USE DEF IInv, TypeOK, CheckDirty, PreGoes, tree, daemon, preVars, postVars, userVars
<1>1. TypeOK'
  BY DEF PrePc, PostPc, Content
<1>2. HookInv'
  BY DEF HookInv, TakesPart, PathOf
<1>3. DaemonInv'
  BY DEF DaemonInv, TakesPart, SessionOf
<1>4. RuledInv'
  BY DEF RuledInv, PathsOf, PathOf
<1>5. UntouchedInv'
  BY DEF UntouchedInv, Clean, PathOf
<1>6. LastWriteSurvives'
  BY DEF LastWriteSurvives, PathOf
<1>7. NoOrphanStash'
  BY DEF NoOrphanStash, HookInv
<1>8. ActsOnOwnSession'
  BY DEF ActsOnOwnSession, TakesPart, SessionOf
<1> QED BY <1>1, <1>2, <1>3, <1>4, <1>5, <1>6, <1>7, <1>8

\* What leaves the file is in the stash, which was free.
LEMMA StashPushStep ==
  ASSUME IInv, NEW c \in Calls, StashPush(c)
  PROVE  IInv'
<1> USE DEF IInv, TypeOK, StashPush, PreGoes, tree, daemon, preVars, postVars, userVars
<1>1. TypeOK'
  <2>1. PathOf(c) # NoPath => PathOf(c) \in Paths /\ Clean(PathOf(c)) \in Content
    BY InputFacts, WriterFacts
  <2>2. work' \in [Paths -> Content] /\ stash' \in [Calls -> Content \cup {None}]
    <3>1. CASE UNCHANGED tree
      BY <3>1
    <3>2. CASE ~UNCHANGED tree
      <4>1. /\ PathOf(c) # NoPath
            /\ stash' = [stash EXCEPT ![c] = work[PathOf(c)]]
            /\ work' = [work EXCEPT ![PathOf(c)] = Clean(PathOf(c))]
        BY <3>2
      <4>2. work \in [Paths -> Content] /\ stash \in [Calls -> Content \cup {None}]
        OBVIOUS
      <4> HIDE DEF IInv, TypeOK, StashPush, PreGoes, tree, daemon, preVars, postVars, userVars
      <4> QED BY <2>1, <4>1, <4>2
    <3> QED BY <3>1, <3>2
  <2>3. pre' \in [Calls -> PrePc]
    <3>1. pre' = [pre EXCEPT ![c] = "stashed"] /\ pre \in [Calls -> PrePc]
      OBVIOUS
    <3> HIDE DEF IInv, TypeOK, StashPush, PreGoes, tree, daemon, preVars, postVars, userVars
    <3> QED BY <3>1 DEF PrePc
  <2> QED BY <2>2, <2>3
<1>2. HookInv'
  BY DEF HookInv, TakesPart, PathOf
<1>3. DaemonInv'
  BY DEF DaemonInv, TakesPart, SessionOf
<1>4. RuledInv'
  BY DEF RuledInv, PathsOf, PathOf
<1>5. UntouchedInv'
  BY DEF UntouchedInv, Clean, PathOf
<1>6. LastWriteSurvives'
  <2> SUFFICES ASSUME NEW p \in Paths \ ruled
               PROVE  \/ work'[p] = written[p]
                      \/ \E d \in Calls: PathOf(d) = p /\ stash'[d] = written[p]
    BY DEF LastWriteSurvives, PathOf
  <2>1. written[p] # None
    <3>1. written[p] \in Content
      OBVIOUS
    <3> QED BY <3>1, WriterFacts
  <2>2. stash[c] = None
    BY DEF HookInv
  <2>3. CASE work[p] = written[p]
    BY <2>3
  <2>4. CASE \E d \in Calls: PathOf(d) = p /\ stash[d] = written[p]
    BY <2>1, <2>2, <2>4
  <2> QED BY <2>3, <2>4 DEF LastWriteSurvives
<1>7. NoOrphanStash'
  BY DEF NoOrphanStash, HookInv
<1>8. ActsOnOwnSession'
  BY DEF ActsOnOwnSession, TakesPart, SessionOf
<1> QED BY <1>1, <1>2, <1>3, <1>4, <1>5, <1>6, <1>7, <1>8

\* The daemon knows the snapshot, or may hear of it later.
LEMMA RegisterStep ==
  ASSUME IInv, NEW c \in Calls, Register(c)
  PROVE  IInv'
<1> USE DEF IInv, TypeOK, Register, PreGoes, Take, tree, daemon, preVars, postVars, userVars
<1>1. TypeOK'
  <2>1. /\ gate_snapshots' \in [Sessions -> Seq(Calls)]
        /\ taken' \in SUBSET Calls
    <3>1. CASE Take(c)
      BY <3>1, InputFacts
    <3>2. CASE UNCHANGED <<gate_snapshots, taken>>
      BY <3>2
    <3> QED BY <3>1, <3>2
  <2>2. pre' \in [Calls -> PrePc]
    BY DEF PrePc
  <2>3. inflight' = inflight \/ inflight' = inflight \cup {c}
    OBVIOUS
  <2>4. inflight' \in SUBSET Calls
    BY <2>3
  <2> QED BY <2>1, <2>2, <2>4
<1>2. HookInv'
  BY DEF HookInv, TakesPart, PathOf
<1>3. DaemonInv'
  <2>1. TakesPart(c)
    BY DEF HookInv, DaemonInv
  <2>2. \A d \in inflight': TakesPart(d)
    BY <2>1 DEF DaemonInv
  <2>3. ASSUME NEW s \in Sessions, NEW i \in 1..Len(gate_snapshots'[s])
        PROVE  LET d == gate_snapshots'[s][i]
               IN  SessionOf(d) = s /\ TakesPart(d) /\ d \in taken'
    <3>1. CASE Take(c)
      <4>1. SessionOf(c) \in Sessions
        BY InputFacts
      <4>2. CASE s # SessionOf(c)
        BY <3>1, <4>2 DEF DaemonInv
      <4>3. CASE s = SessionOf(c)
        <5>1. gate_snapshots'[s] = Append(gate_snapshots[s], c)
          BY <3>1, <4>1, <4>3
        <5> QED BY <2>1, <3>1, <4>3, <5>1 DEF DaemonInv
      <4> QED BY <4>2, <4>3
    <3>2. CASE UNCHANGED <<gate_snapshots, taken>>
      BY <3>2 DEF DaemonInv
    <3> QED BY <3>1, <3>2
  <2> QED BY <2>2, <2>3 DEF DaemonInv, TakesPart, SessionOf
<1>4. RuledInv'
  BY DEF RuledInv, PathsOf, PathOf
<1>5. UntouchedInv'
  BY DEF UntouchedInv, Clean, PathOf
<1>6. LastWriteSurvives'
  BY DEF LastWriteSurvives, PathOf
<1>7. NoOrphanStash'
  BY DEF NoOrphanStash, HookInv
<1>8. ActsOnOwnSession'
  BY DEF ActsOnOwnSession, TakesPart, SessionOf
<1> QED BY <1>1, <1>2, <1>3, <1>4, <1>5, <1>6, <1>7, <1>8

\* A late registration is of a hook that took part.
LEMMA TakeLateStep ==
  ASSUME IInv, NEW c \in Calls, TakeLate(c)
  PROVE  IInv'
<1> USE DEF IInv, TypeOK, TakeLate, Take, tree, daemon, preVars, postVars, userVars
<1>1. TypeOK'
  <2>1. gate_snapshots' \in [Sessions -> Seq(Calls)]
    BY InputFacts
  <2> QED BY <2>1 DEF PrePc
<1>2. HookInv'
  BY DEF HookInv, TakesPart, PathOf
<1>3. DaemonInv'
  <2>1. TakesPart(c)
    BY DEF HookInv, DaemonInv
  <2>2. \A d \in inflight': TakesPart(d)
    BY <2>1 DEF DaemonInv
  <2>3. ASSUME NEW s \in Sessions, NEW i \in 1..Len(gate_snapshots'[s])
        PROVE  LET d == gate_snapshots'[s][i]
               IN  SessionOf(d) = s /\ TakesPart(d) /\ d \in taken'
    <3>1. SessionOf(c) \in Sessions
      BY InputFacts
    <3>2. /\ gate_snapshots \in [Sessions -> Seq(Calls)]
          /\ gate_snapshots' = [gate_snapshots EXCEPT ![SessionOf(c)] = Append(@, c)]
          /\ taken' = taken \cup {c}
      OBVIOUS
    <3>3. DaemonInv
      OBVIOUS
    <3> HIDE DEF IInv, TypeOK, TakeLate, Take, tree, daemon, preVars, postVars, userVars
    <3>4. CASE s = SessionOf(c) /\ i = Len(gate_snapshots[s]) + 1
      <4>1. gate_snapshots'[s][i] = c
        BY <3>2, <3>4
      <4> QED BY <2>1, <3>2, <3>4, <4>1
    <3>5. CASE ~(s = SessionOf(c) /\ i = Len(gate_snapshots[s]) + 1)
      <4>1. i \in 1 .. Len(gate_snapshots[s]) /\ gate_snapshots'[s][i] = gate_snapshots[s][i]
        BY <3>1, <3>2, <3>5
      <4> QED BY <3>2, <3>3, <4>1 DEF DaemonInv
    <3> QED BY <3>4, <3>5
  <2>4. input' = input
    OBVIOUS
  <2> HIDE DEF IInv, TypeOK, TakeLate, Take, tree, daemon, preVars, postVars, userVars
  <2> QED BY <2>2, <2>3, <2>4 DEF DaemonInv, TakesPart, SessionOf
<1>4. RuledInv'
  BY DEF RuledInv, PathsOf, PathOf
<1>5. UntouchedInv'
  BY DEF UntouchedInv, Clean, PathOf
<1>6. LastWriteSurvives'
  BY DEF LastWriteSurvives, PathOf
<1>7. NoOrphanStash'
  BY DEF NoOrphanStash, HookInv
<1>8. ActsOnOwnSession'
  BY DEF ActsOnOwnSession, TakesPart, SessionOf
<1> QED BY <1>1, <1>2, <1>3, <1>4, <1>5, <1>6, <1>7, <1>8

\* What leaves the stash is in the file, which was as at HEAD.
LEMMA PopStep ==
  ASSUME IInv, NEW c \in Calls, Pop(c)
  PROVE  IInv'
<1> USE DEF IInv, TypeOK, Pop, PreGoes, tree, daemon, preVars, postVars, userVars
<1>1. TypeOK'
  <2>1. stash[c] # None => PathOf(c) \in Paths
    BY InputFacts DEF HookInv
  <2>2. work' \in [Paths -> Content] /\ stash' \in [Calls -> Content \cup {None}]
    BY <2>1
  <2>3. pre' \in [Calls -> PrePc]
    BY DEF PrePc
  <2> QED BY <2>2, <2>3
<1>2. HookInv'
  BY DEF HookInv, TakesPart, PathOf
<1>3. DaemonInv'
  BY DEF DaemonInv, TakesPart, SessionOf
<1>4. RuledInv'
  BY DEF RuledInv, PathsOf, PathOf
<1>5. UntouchedInv'
  BY DEF UntouchedInv, Clean, PathOf
<1>6. LastWriteSurvives'
  <2> SUFFICES ASSUME NEW p \in Paths \ ruled
               PROVE  \/ work'[p] = written[p]
                      \/ \E d \in Calls: PathOf(d) = p /\ stash'[d] = written[p]
    BY DEF LastWriteSurvives, PathOf
  <2>1. CASE UNCHANGED tree
    BY <2>1 DEF LastWriteSurvives
  <2>2. CASE /\ stash[c] # None /\ work[PathOf(c)] = Clean(PathOf(c))
             /\ work' = [work EXCEPT ![PathOf(c)] = stash[c]]
             /\ stash' = [stash EXCEPT ![c] = None]
    <3>1. CASE PathOf(c) # p
      BY <2>2, <3>1 DEF LastWriteSurvives
    <3>2. CASE PathOf(c) = p
      <4>1. written[p] \in Writers
        BY <2>2, <3>2 DEF UntouchedInv
      <4>2. work[p] # written[p]
        BY <2>2, <3>2, <4>1, WriterFacts
      <4>3. PICK d \in Calls: PathOf(d) = p /\ stash[d] = written[p]
        BY <4>2 DEF LastWriteSurvives
      <4>4. CASE d = c
        BY <2>2, <3>2, <4>3, <4>4
      <4>5. CASE d # c
        BY <2>2, <4>3, <4>5
      <4> QED BY <4>4, <4>5
    <3> QED BY <3>1, <3>2
  <2> QED BY <2>1, <2>2
<1>7. NoOrphanStash'
  BY DEF NoOrphanStash, HookInv
<1>8. ActsOnOwnSession'
  BY DEF ActsOnOwnSession, TakesPart, SessionOf
<1> QED BY <1>1, <1>2, <1>3, <1>4, <1>5, <1>6, <1>7, <1>8

\* A killed hook leaves its stash where it is.
LEMMA KillPreStep ==
  ASSUME IInv, NEW c \in Calls, KillPre(c)
  PROVE  IInv'
<1> USE DEF IInv, TypeOK, KillPre, tree, daemon, preVars, postVars, userVars
<1>1. TypeOK'
  BY DEF PrePc, PostPc, Content
<1>2. HookInv'
  BY DEF HookInv, TakesPart, PathOf
<1>3. DaemonInv'
  BY DEF DaemonInv, TakesPart, SessionOf
<1>4. RuledInv'
  BY DEF RuledInv, PathsOf, PathOf
<1>5. UntouchedInv'
  BY DEF UntouchedInv, Clean, PathOf
<1>6. LastWriteSurvives'
  BY DEF LastWriteSurvives, PathOf
<1>7. NoOrphanStash'
  BY DEF NoOrphanStash, HookInv
<1>8. ActsOnOwnSession'
  BY DEF ActsOnOwnSession, TakesPart, SessionOf
<1> QED BY <1>1, <1>2, <1>3, <1>4, <1>5, <1>6, <1>7, <1>8

\* A tool's write is the last to its file.
LEMMA RunToolStep ==
  ASSUME IInv, NEW c \in Calls, RunTool(c)
  PROVE  IInv'
<1> USE DEF IInv, TypeOK, RunTool, Write, tree, daemon, preVars, postVars, userVars
<1>1. TypeOK'
  BY DEF PrePc, PostPc, Content
<1>2. HookInv'
  BY DEF HookInv, TakesPart, PathOf
<1>3. DaemonInv'
  BY DEF DaemonInv, TakesPart, SessionOf
<1>4. RuledInv'
  BY DEF RuledInv, PathsOf, PathOf
<1>5. UntouchedInv'
  <2>1. PathOf(c) # NoPath => PathOf(c) \in Paths /\ written'[PathOf(c)] \in Writers
    BY InputFacts DEF Writers
  <2> QED BY <2>1 DEF UntouchedInv, PathOf
<1>6. LastWriteSurvives'
  <2>1. PathOf(c) # NoPath => PathOf(c) \in Paths
    BY InputFacts
  <2> QED BY <2>1 DEF LastWriteSurvives, PathOf
<1>7. NoOrphanStash'
  BY DEF NoOrphanStash, HookInv
<1>8. ActsOnOwnSession'
  BY DEF ActsOnOwnSession, TakesPart, SessionOf
<1> QED BY <1>1, <1>2, <1>3, <1>4, <1>5, <1>6, <1>7, <1>8

\* So is the user's.
LEMMA UserEditStep ==
  ASSUME IInv, NEW e \in Edits, UserEdit(e)
  PROVE  IInv'
<1> USE DEF IInv, TypeOK, UserEdit, Write, tree, daemon, preVars, postVars, userVars
<1>1. TypeOK'
  BY DEF PrePc, PostPc, Content
<1>2. HookInv'
  BY DEF HookInv, TakesPart, PathOf
<1>3. DaemonInv'
  BY DEF DaemonInv, TakesPart, SessionOf
<1>4. RuledInv'
  BY DEF RuledInv, PathsOf, PathOf
<1>5. UntouchedInv'
  BY DEF UntouchedInv, PathOf, Writers
<1>6. LastWriteSurvives'
  BY DEF LastWriteSurvives, PathOf
<1>7. NoOrphanStash'
  BY DEF NoOrphanStash, HookInv
<1>8. ActsOnOwnSession'
  BY DEF ActsOnOwnSession, TakesPart, SessionOf
<1> QED BY <1>1, <1>2, <1>3, <1>4, <1>5, <1>6, <1>7, <1>8

\* A post-tool hook that starts acts on nothing yet.
LEMMA PostStartStep ==
  ASSUME IInv, NEW c \in Calls, PostStart(c)
  PROVE  IInv'
<1> USE DEF IInv, TypeOK, PostStart, PostGoes, tree, daemon, preVars, postVars, userVars
<1>1. TypeOK'
  BY DEF PrePc, PostPc, Content
<1>2. HookInv'
  BY DEF HookInv, TakesPart, PathOf
<1>3. DaemonInv'
  BY DEF DaemonInv, TakesPart, SessionOf
<1>4. RuledInv'
  BY DEF RuledInv, PathsOf, PathOf
<1>5. UntouchedInv'
  BY DEF UntouchedInv, Clean, PathOf
<1>6. LastWriteSurvives'
  BY DEF LastWriteSurvives, PathOf
<1>7. NoOrphanStash'
  BY DEF NoOrphanStash, HookInv
<1>8. ActsOnOwnSession'
  BY DEF ActsOnOwnSession, TakesPart, SessionOf
<1> QED BY <1>1, <1>2, <1>3, <1>4, <1>5, <1>6, <1>7, <1>8

\* A decision names the latest snapshot of the hook's own session.
LEMMA PollStep ==
  ASSUME IInv, NEW c \in Calls, Poll(c)
  PROVE  IInv'
<1> USE DEF IInv, TypeOK, Poll, PostGoes, tree, daemon, preVars, postVars, userVars
<1>1. TypeOK'
  <2>1. SessionOf(c) \in Sessions
    BY InputFacts
  <2>2. Latest(SessionOf(c)) \in Calls \cup {None}
    BY <2>1 DEF Latest, Last
  <2>3. PathsOf(Latest(SessionOf(c))) \subseteq Paths
    BY <2>2, InputFacts, NoneAssumption DEF PathsOf
  <2>4. seen' \in [Calls -> Calls \cup {None}] /\ ruled' \in SUBSET Paths
    BY <2>2, <2>3
  <2>5. post' \in [Calls -> PostPc]
    BY DEF PostPc
  <2>6. errors' \in [Calls -> 0 .. MaxErrors - 1]
    BY ErrorAssumption
  <2> QED BY <2>4, <2>5, <2>6
<1>2. HookInv'
  <2>1. UNCHANGED <<input, pre, stash>> /\ HookInv
    OBVIOUS
  <2> HIDE DEF IInv, TypeOK, Poll, PostGoes, tree, daemon, preVars, postVars, userVars
  <2> QED BY <2>1 DEF HookInv, TakesPart, PathOf
<1>3. DaemonInv'
  BY DEF DaemonInv, TakesPart, SessionOf
<1>4. RuledInv'
  BY DEF RuledInv, PathsOf, PathOf
<1>5. UntouchedInv'
  <2>1. /\ UNCHANGED <<input, work, stash, written>>
        /\ ruled \subseteq ruled'
    OBVIOUS
  <2>2. UntouchedInv
    OBVIOUS
  <2> HIDE DEF IInv, TypeOK, Poll, PostGoes, tree, daemon, preVars, postVars, userVars
  <2> QED BY <2>1, <2>2 DEF UntouchedInv, Clean, PathOf
<1>6. LastWriteSurvives'
  BY DEF LastWriteSurvives, PathOf
<1>7. NoOrphanStash'
  BY DEF NoOrphanStash, HookInv
<1>8. ActsOnOwnSession'
  <2> DEFINE s == SessionOf(c)
  <2>1. s \in Sessions
    BY InputFacts
  <2>2. ASSUME Latest(s) # None
        PROVE  SessionOf(Latest(s)) = s /\ TakesPart(Latest(s)) /\ Latest(s) \in taken
    <3>1. Len(gate_snapshots[s]) \in 1..Len(gate_snapshots[s])
      BY <2>1, <2>2 DEF Latest
    <3> QED BY <2>1, <2>2, <3>1 DEF Latest, Last, DaemonInv
  <2>3. \A d \in Calls: seen'[d] = seen[d] \/ (d = c /\ seen'[d] = Latest(s))
    OBVIOUS
  <2> QED BY <2>2, <2>3 DEF ActsOnOwnSession, TakesPart, SessionOf
<1> QED BY <1>1, <1>2, <1>3, <1>4, <1>5, <1>6, <1>7, <1>8

\* Errors in a row are fewer than end the hook.
LEMMA PollFailsStep ==
  ASSUME IInv, NEW c \in Calls, PollFails(c)
  PROVE  IInv'
<1> USE DEF IInv, TypeOK, PollFails, PostGoes, tree, daemon, preVars, postVars, userVars
<1>1. TypeOK'
  <2>1. post' \in [Calls -> PostPc]
    BY DEF PostPc
  <2>2. errors' \in [Calls -> 0 .. MaxErrors - 1]
    <3>1. CASE errors[c] + 1 < MaxErrors
      <4>1. errors[c] + 1 \in 0 .. MaxErrors - 1
        BY <3>1, ErrorAssumption
      <4>2. errors' = [errors EXCEPT ![c] = errors[c] + 1]
        BY <3>1
      <4>3. errors \in [Calls -> 0 .. MaxErrors - 1]
        OBVIOUS
      <4> HIDE DEF IInv, TypeOK, PollFails, PostGoes, tree, daemon, preVars, postVars, userVars
      <4> QED BY <4>1, <4>2, <4>3
    <3>2. CASE ~(errors[c] + 1 < MaxErrors)
      <4>1. 0 \in 0 .. MaxErrors - 1
        BY ErrorAssumption
      <4>2. errors' = [errors EXCEPT ![c] = 0]
        BY <3>2
      <4>3. errors \in [Calls -> 0 .. MaxErrors - 1]
        OBVIOUS
      <4> HIDE DEF IInv, TypeOK, PollFails, PostGoes, tree, daemon, preVars, postVars, userVars
      <4> QED BY <4>1, <4>2, <4>3
    <3> QED BY <3>1, <3>2
  <2> QED BY <2>1, <2>2
<1>2. HookInv'
  BY DEF HookInv, TakesPart, PathOf
<1>3. DaemonInv'
  BY DEF DaemonInv, TakesPart, SessionOf
<1>4. RuledInv'
  BY DEF RuledInv, PathsOf, PathOf
<1>5. UntouchedInv'
  BY DEF UntouchedInv, Clean, PathOf
<1>6. LastWriteSurvives'
  BY DEF LastWriteSurvives, PathOf
<1>7. NoOrphanStash'
  BY DEF NoOrphanStash, HookInv
<1>8. ActsOnOwnSession'
  BY DEF ActsOnOwnSession, TakesPart, SessionOf
<1> QED BY <1>1, <1>2, <1>3, <1>4, <1>5, <1>6, <1>7, <1>8

\* A hook that gives up touches nothing.
LEMMA PollTimesOutStep ==
  ASSUME IInv, NEW c \in Calls, PollTimesOut(c)
  PROVE  IInv'
<1> USE DEF IInv, TypeOK, PollTimesOut, PostGoes, tree, daemon, preVars, postVars, userVars
<1>1. TypeOK'
  BY ErrorAssumption DEF PostPc
<1>2. HookInv'
  BY DEF HookInv, TakesPart, PathOf
<1>3. DaemonInv'
  BY DEF DaemonInv, TakesPart, SessionOf
<1>4. RuledInv'
  BY DEF RuledInv, PathsOf, PathOf
<1>5. UntouchedInv'
  BY DEF UntouchedInv, Clean, PathOf
<1>6. LastWriteSurvives'
  BY DEF LastWriteSurvives, PathOf
<1>7. NoOrphanStash'
  BY DEF NoOrphanStash, HookInv
<1>8. ActsOnOwnSession'
  BY DEF ActsOnOwnSession, TakesPart, SessionOf
<1> QED BY <1>1, <1>2, <1>3, <1>4, <1>5, <1>6, <1>7, <1>8

\* Only files that have been ruled on are reverted.
LEMMA RevertStep ==
  ASSUME IInv, NEW c \in Calls, Revert(c)
  PROVE  IInv'
<1> USE DEF IInv, TypeOK, Revert, PostGoes, tree, daemon, preVars, postVars, userVars
<1>1. TypeOK'
  <2>1. work' \in [Paths -> Content]
    BY DEF Content
  <2> QED BY <2>1 DEF PostPc
<1>2. HookInv'
  BY DEF HookInv, TakesPart, PathOf
<1>3. DaemonInv'
  BY DEF DaemonInv, TakesPart, SessionOf
<1>4. RuledInv'
  BY DEF RuledInv, PathsOf, PathOf
<1>5. UntouchedInv'
  <2>1. \A p \in Paths \ ruled: work'[p] = work[p]
    BY DEF RuledInv
  <2> QED BY <2>1 DEF UntouchedInv, PathOf
<1>6. LastWriteSurvives'
  <2>1. \A p \in Paths \ ruled: work'[p] = work[p]
    BY DEF RuledInv
  <2> QED BY <2>1 DEF LastWriteSurvives, PathOf
<1>7. NoOrphanStash'
  BY DEF NoOrphanStash, HookInv
<1>8. ActsOnOwnSession'
  BY DEF ActsOnOwnSession, TakesPart, SessionOf
<1> QED BY <1>1, <1>2, <1>3, <1>4, <1>5, <1>6, <1>7, <1>8

\* Only the stash of such a file is dropped.
LEMMA DropStep ==
  ASSUME IInv, NEW c \in Calls, Drop(c)
  PROVE  IInv'
<1> USE DEF IInv, TypeOK, Drop, PostGoes, tree, daemon, preVars, postVars, userVars
<1>1. TypeOK'
  BY DEF PrePc, PostPc, Content
<1>2. HookInv'
  BY DEF HookInv, TakesPart, PathOf
<1>3. DaemonInv'
  BY DEF DaemonInv, TakesPart, SessionOf
<1>4. RuledInv'
  BY DEF RuledInv, PathsOf, PathOf
<1>5. UntouchedInv'
  BY DEF UntouchedInv, Clean, PathOf
<1>6. LastWriteSurvives'
  <2>1. \A p \in Paths \ ruled, d \in Calls: PathOf(d) = p => stash'[d] = stash[d]
    BY PathAssumption, NoneAssumption DEF RuledInv, PathsOf
  <2> QED BY <2>1 DEF LastWriteSurvives, PathOf
<1>7. NoOrphanStash'
  BY DEF NoOrphanStash, HookInv
<1>8. ActsOnOwnSession'
  BY DEF ActsOnOwnSession, TakesPart, SessionOf
<1> QED BY <1>1, <1>2, <1>3, <1>4, <1>5, <1>6, <1>7, <1>8

\* A killed hook acts on nothing any more.
LEMMA KillPostStep ==
  ASSUME IInv, NEW c \in Calls, KillPost(c)
  PROVE  IInv'
<1> USE DEF IInv, TypeOK, KillPost, tree, daemon, preVars, postVars, userVars
<1>1. TypeOK'
  BY ErrorAssumption DEF PostPc
<1>2. HookInv'
  BY DEF HookInv, TakesPart, PathOf
<1>3. DaemonInv'
  BY DEF DaemonInv, TakesPart, SessionOf
<1>4. RuledInv'
  BY DEF RuledInv, PathsOf, PathOf
<1>5. UntouchedInv'
  BY DEF UntouchedInv, Clean, PathOf
<1>6. LastWriteSurvives'
  BY DEF LastWriteSurvives, PathOf
<1>7. NoOrphanStash'
  BY DEF NoOrphanStash, HookInv
<1>8. ActsOnOwnSession'
  BY DEF ActsOnOwnSession, TakesPart, SessionOf
<1> QED BY <1>1, <1>2, <1>3, <1>4, <1>5, <1>6, <1>7, <1>8

\* A verdict changes only the decision.
LEMMA DecideStep ==
  ASSUME IInv, NEW s \in Sessions, Decide(s)
  PROVE  IInv'
<1> USE DEF IInv, TypeOK, Decide, tree, daemon, preVars, postVars, userVars
<1>1. TypeOK'
  BY DEF PrePc, PostPc, Content
<1>2. HookInv'
  BY DEF HookInv, TakesPart, PathOf
<1>3. DaemonInv'
  BY DEF DaemonInv, TakesPart, SessionOf
<1>4. RuledInv'
  BY DEF RuledInv, PathsOf, PathOf
<1>5. UntouchedInv'
  BY DEF UntouchedInv, Clean, PathOf
<1>6. LastWriteSurvives'
  BY DEF LastWriteSurvives, PathOf
<1>7. NoOrphanStash'
  BY DEF NoOrphanStash, HookInv
<1>8. ActsOnOwnSession'
  BY DEF ActsOnOwnSession, TakesPart, SessionOf
<1> QED BY <1>1, <1>2, <1>3, <1>4, <1>5, <1>6, <1>7, <1>8

\* Nor does its removal change more.
LEMMA ConsumeStep ==
  ASSUME IInv, NEW s \in Sessions, Consume(s)
  PROVE  IInv'
<1> USE DEF IInv, TypeOK, Consume, tree, daemon, preVars, postVars, userVars
<1>1. TypeOK'
  BY DEF PrePc, PostPc, Content
<1>2. HookInv'
  BY DEF HookInv, TakesPart, PathOf
<1>3. DaemonInv'
  BY DEF DaemonInv, TakesPart, SessionOf
<1>4. RuledInv'
  BY DEF RuledInv, PathsOf, PathOf
<1>5. UntouchedInv'
  BY DEF UntouchedInv, Clean, PathOf
<1>6. LastWriteSurvives'
  BY DEF LastWriteSurvives, PathOf
<1>7. NoOrphanStash'
  BY DEF NoOrphanStash, HookInv
<1>8. ActsOnOwnSession'
  BY DEF ActsOnOwnSession, TakesPart, SessionOf
<1> QED BY <1>1, <1>2, <1>3, <1>4, <1>5, <1>6, <1>7, <1>8

\* The daemon forgets its snapshots; the stashes stay.
LEMMA StopStep ==
  ASSUME IInv, Stop
  PROVE  IInv'
<1> USE DEF IInv, TypeOK, Stop, tree, daemon, preVars, postVars, userVars
<1>1. TypeOK'
  <2>1. gate_snapshots' \in [Sessions -> Seq(Calls)]
    OBVIOUS
  <2>2. decision' \in [Sessions -> {"none", "approved", "rejected"}]
    OBVIOUS
  <2> QED BY <2>1, <2>2
<1>2. HookInv'
  BY DEF HookInv, TakesPart, PathOf
<1>3. DaemonInv'
  BY DEF DaemonInv, TakesPart, SessionOf
<1>4. RuledInv'
  BY DEF RuledInv, PathsOf, PathOf
<1>5. UntouchedInv'
  BY DEF UntouchedInv, Clean, PathOf
<1>6. LastWriteSurvives'
  BY DEF LastWriteSurvives, PathOf
<1>7. NoOrphanStash'
  BY DEF NoOrphanStash, HookInv
<1>8. ActsOnOwnSession'
  BY DEF ActsOnOwnSession, TakesPart, SessionOf
<1> QED BY <1>1, <1>2, <1>3, <1>4, <1>5, <1>6, <1>7, <1>8

\* A daemon starts with nothing known.
LEMMA RestartStep ==
  ASSUME IInv, Restart
  PROVE  IInv'
<1> USE DEF IInv, TypeOK, Restart, tree, daemon, preVars, postVars, userVars
<1>1. TypeOK'
  BY DEF PrePc, PostPc, Content
<1>2. HookInv'
  BY DEF HookInv, TakesPart, PathOf
<1>3. DaemonInv'
  BY DEF DaemonInv, TakesPart, SessionOf
<1>4. RuledInv'
  BY DEF RuledInv, PathsOf, PathOf
<1>5. UntouchedInv'
  BY DEF UntouchedInv, Clean, PathOf
<1>6. LastWriteSurvives'
  BY DEF LastWriteSurvives, PathOf
<1>7. NoOrphanStash'
  BY DEF NoOrphanStash, HookInv
<1>8. ActsOnOwnSession'
  BY DEF ActsOnOwnSession, TakesPart, SessionOf
<1> QED BY <1>1, <1>2, <1>3, <1>4, <1>5, <1>6, <1>7, <1>8

\* A step that changes nothing preserves it.
LEMMA StutterStep ==
  ASSUME IInv, UNCHANGED vars
  PROVE  IInv'
<1> USE DEF IInv, vars, tree, daemon, preVars, postVars, userVars
<1>1. TypeOK'
  BY DEF TypeOK
<1>2. HookInv' /\ DaemonInv' /\ RuledInv'
  BY DEF HookInv, DaemonInv, RuledInv, PathsOf, PathOf, SessionOf, TakesPart
<1>3. UntouchedInv' /\ LastWriteSurvives'
  BY DEF UntouchedInv, LastWriteSurvives, PathOf
<1>4. NoOrphanStash' /\ ActsOnOwnSession'
  BY DEF NoOrphanStash, ActsOnOwnSession, SessionOf, TakesPart
<1> QED BY <1>1, <1>2, <1>3, <1>4

-----------------------------------------------------------------------------
(* The invariant is inductive. *)

\* Nothing is stashed, registered or written.
LEMMA InitIInv == Init => IInv
<1> SUFFICES ASSUME Init PROVE IInv
  OBVIOUS
<1>1. TypeOK
  <2> USE DEF Init
  <2>1. work \in [Paths -> Content] /\ written \in [Paths -> Content]
    BY WriterFacts
  <2>2. /\ pre \in [Calls -> PrePc]
        /\ post \in [Calls -> PostPc]
        /\ errors \in [Calls -> 0 .. MaxErrors - 1]
    BY ErrorAssumption DEF PrePc, PostPc
  <2>3. gate_snapshots \in [Sessions -> Seq(Calls)]
    OBVIOUS
  <2>4. /\ stash \in [Calls -> Content \cup {None}]
        /\ seen \in [Calls -> Calls \cup {None}]
        /\ decision \in [Sessions -> {"none", "approved", "rejected"}]
    OBVIOUS
  <2> QED BY <2>1, <2>2, <2>3, <2>4 DEF TypeOK
<1> USE DEF Init
<1>2. HookInv /\ DaemonInv /\ RuledInv
  BY DEF HookInv, DaemonInv, RuledInv, PathsOf
<1>3. UntouchedInv /\ LastWriteSurvives
  BY DEF UntouchedInv, LastWriteSurvives
<1>4. NoOrphanStash /\ ActsOnOwnSession
  BY DEF NoOrphanStash, ActsOnOwnSession
<1> QED BY <1>1, <1>2, <1>3, <1>4 DEF IInv

\* Every step preserves it.
LEMMA NextIInv == IInv /\ [Next]_vars => IInv'
<1> SUFFICES ASSUME IInv, [Next]_vars PROVE IInv'
  OBVIOUS
<1>1. ASSUME NEW c \in Calls, PreStep(c) \/ KillPre(c) \/ TakeLate(c) \/ RunTool(c)
      PROVE  IInv'
  BY <1>1, PreStartStep, CheckDirtyStep, StashPushStep, RegisterStep, PopStep,
     KillPreStep, TakeLateStep, RunToolStep DEF PreStep
<1>2. ASSUME NEW c \in Calls, PostStep(c) \/ KillPost(c)
      PROVE  IInv'
  BY <1>2, PostStartStep, PollStep, PollFailsStep, PollTimesOutStep, RevertStep,
     DropStep, KillPostStep DEF PostStep
<1>3. ASSUME NEW e \in Edits, UserEdit(e) PROVE IInv'
  BY <1>3, UserEditStep
<1>4. ASSUME NEW s \in Sessions, Decide(s) \/ Consume(s) PROVE IInv'
  BY <1>4, DecideStep, ConsumeStep
<1>5. CASE Stop \/ Restart \/ UNCHANGED vars
  BY <1>5, StopStep, RestartStep, StutterStep
<1> QED BY <1>1, <1>2, <1>3, <1>4, <1>5 DEF Next

\* The inductive invariant holds of every behaviour of the specification.
THEOREM Invariance == Spec => []IInv
BY InitIInv, NextIInv, PTL DEF Spec

-----------------------------------------------------------------------------
(* What follows from it. *)

\* Every variable keeps its type: a hook never counts more failed polls than
\* end it, a decision is acted on only for a call there is.
THEOREM TypeCorrect == Spec => []TypeOK
<1>1. IInv => TypeOK
  BY DEF IInv
<1> QED BY <1>1, Invariance, PTL

\* The last write to a file is in the tree or in a stash of it, through any
\* interleaving of hooks, kills, timeouts, daemon restarts and the user's
\* edits, until a hook has seen a decision on the file.
THEOREM NoWriteLost == Spec => []LastWriteSurvives
<1>1. IInv => LastWriteSurvives
  BY DEF IInv
<1> QED BY <1>1, Invariance, PTL

\* A pre-tool hook that was not cut short leaves no stash the daemon was not
\* told of.
THEOREM NoStashOrphaned == Spec => []NoOrphanStash
<1>1. IInv => NoOrphanStash
  BY DEF IInv
<1> QED BY <1>1, Invariance, PTL

\* A post-tool hook only reverts and drops for its own session.
THEOREM SessionsSeparate == Spec => []ActsOnOwnSession
<1>1. IInv => ActsOnOwnSession
  BY DEF IInv
<1> QED BY <1>1, Invariance, PTL

\* Where every hook is given its file relative to the repository, a rejection
\* does restore tracked files to what they are at HEAD: what the comment of
\* revert_paths says fails for absolute names only.
THEOREM RelativeFilesRestored ==
  ASSUME Calls \subseteq Relative
  PROVE  Spec => TrackedFilesRestored
<1> DEFINE Restores ==
      \A c \in Calls: post[c] = "reverting" /\ post'[c] = "dropping" =>
        \A p \in PathsOf(seen[c]) \cap Tracked: work'[p] = "head"
<1>1. IInv /\ [Next]_vars => Restores
  <2> SUFFICES ASSUME IInv, [Next]_vars, NEW c \in Calls,
                      post[c] = "reverting", post'[c] = "dropping",
                      NEW p \in PathsOf(seen[c]), p \in Tracked
               PROVE  work'[p] = "head"
    OBVIOUS
  <2> USE DEF IInv, TypeOK
  <2>1. CASE Revert(c)
    <3>1. seen[c] \in Calls /\ PathOf(seen[c]) = p
      BY DEF PathsOf
    <3>2. ExistedAtHead(seen[c])
      BY <3>1 DEF ExistedAtHead
    <3> QED BY <2>1, <3>2, PathAssumption DEF Revert
  <2>2. ASSUME post' = post PROVE FALSE
    BY <2>2
  <2>3. Revert(c)
    <3> USE DEF PostGoes, postVars, vars
    <3>1. ASSUME NEW d \in Calls, PreStep(d) \/ KillPre(d) \/ TakeLate(d) \/ RunTool(d)
          PROVE  post' = post
      BY <3>1 DEF PreStep, PreStart, CheckDirty, StashPush, Register, Pop,
                  KillPre, TakeLate, RunTool
    <3>2. ASSUME NEW d \in Calls, PostStep(d) \/ KillPost(d)
          PROVE  Revert(c)
      <4>1. CASE Revert(d)
        BY <4>1 DEF Revert
      <4>2. CASE PostStart(d) \/ PollFails(d) \/ PollTimesOut(d) \/ Drop(d) \/ KillPost(d)
        BY <4>2 DEF PostStart, PollFails, PollTimesOut, Drop, KillPost
      <4>3. CASE Poll(d)
        <5>1. post[d] = "polling" /\ \E to \in PostPc: post' = [post EXCEPT ![d] = to]
          BY <4>3 DEF Poll, PostPc
        <5> QED BY <5>1
      <4> QED BY <3>2, <4>1, <4>2, <4>3 DEF PostStep
    <3>3. ASSUME \/ \E e \in Edits: UserEdit(e)
                 \/ \E s \in Sessions: Decide(s) \/ Consume(s)
                 \/ Stop \/ Restart \/ UNCHANGED vars
          PROVE  post' = post
      BY <3>3 DEF UserEdit, Decide, Consume, Stop, Restart
    <3> QED BY <2>2, <3>1, <3>2, <3>3 DEF Next
  <2> QED BY <2>1, <2>3
<1> QED BY <1>1, Invariance, PTL DEF Spec, TrackedFilesRestored
=============================================================================
