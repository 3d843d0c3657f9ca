------------------------------ MODULE ToolHook ------------------------------
(***************************************************************************)
(* The tool hooks of cli/gate.rs around a git working tree, with the half  *)
(* of daemon/gate_api.rs that serves them.  The pre-tool hook stashes the  *)
(* file a tool call is about to edit and registers the stash with the      *)
(* daemon; the post-tool hook polls the session's decision and drops the   *)
(* stash or reverts the file.  Each git command, and each request to the   *)
(* daemon, is a step of its own: hooks are killed, the daemon comes and    *)
(* goes, tool calls run side by side, and the user goes on editing.        *)
(*                                                                         *)
(* What a file contains is named after whoever wrote it last.              *)
(***************************************************************************)
EXTENDS Naturals, Sequences, SequencesExt

CONSTANTS
  Calls,     \* tool calls of the agent, each with a pre- and a post-tool hook
  Edits,     \* edits by the user
  Paths,     \* files
  NoPath,    \* a tool that is neither Edit nor Write
  Tracked,   \* files that exist at HEAD
  Relative,  \* calls that name their file from the root of the repository
  Sessions,  \* session ids
  Inputs,    \* what the hooks of the calls may be run with
  MaxErrors, \* failed polls in a row that end a post-tool hook (3)
  None       \* no stash; no snapshot

ASSUME PathAssumption == NoPath \notin Paths /\ Tracked \subseteq Paths
ASSUME InputAssumption ==
  Inputs \subseteq [Calls -> [path: Paths \cup {NoPath}, session: Sessions,
                       gated: BOOLEAN]]
ASSUME NoneAssumption == None \notin Calls \cup Edits \cup {"head", "absent"}
ASSUME WriterAssumption ==
  Calls \cap Edits = {} /\ (Calls \cup Edits) \cap {"head", "absent"} = {}
ASSUME ErrorAssumption == MaxErrors \in Nat \ {0}

VARIABLES
  input,     \* what each call's hooks read: file, session id, RIGOR_GATE_ENABLED
  work,      \* the working tree: what each file contains
  stash,     \* the stash named after each call: what it holds of its file
  up,        \* the daemon answers
  gate_snapshots, \* the calls registered in each session, oldest first
  decision,  \* the decision in gate_decisions for each session
  inflight,  \* registrations the daemon will take after the hook gave up
  pre,       \* where each pre-tool hook is
  ran,       \* calls whose tool has run
  post,      \* where each post-tool hook is
  errors,    \* polls of each post-tool hook that failed in a row
  seen,      \* the snapshot in the decision a post-tool hook acts on
  edited,    \* edits the user has made
  written,   \* history: what a tool or the user wrote last to each file
  taken,     \* history: calls the daemon has registered
  ruled      \* history: files of snapshots a post-tool hook saw decided

tree     == <<work, stash>>
daemon   == <<up, gate_snapshots, decision, inflight, taken>>
preVars  == <<pre, ran>>
postVars == <<post, errors, seen, ruled>>
userVars == <<edited, written>>
vars == <<input, tree, daemon, preVars, postVars, userVars>>

Content == Calls \cup Edits \cup {"head", "absent"}
PrePc == {"idle", "checking", "clean", "stashed", "unregistered", "done",
          "stopped"}   \* stopped: killed, or git refused to pop
PostPc == {"idle", "polling", "reverting", "dropping", "done"}

PathOf(c) == input[c].path
SessionOf(c) == input[c].session

TypeOK ==
  /\ input \in Inputs
  /\ work \in [Paths -> Content]
  /\ stash \in [Calls -> Content \cup {None}]
  /\ up \in BOOLEAN
  /\ gate_snapshots \in [Sessions -> Seq(Calls)]
  /\ decision \in [Sessions -> {"none", "approved", "rejected"}]
  /\ inflight \in SUBSET Calls
  /\ pre \in [Calls -> PrePc]
  /\ ran \in SUBSET Calls
  /\ post \in [Calls -> PostPc]
  /\ errors \in [Calls -> 0 .. MaxErrors - 1]
  /\ seen \in [Calls -> Calls \cup {None}]
  /\ edited \in SUBSET Edits
  /\ written \in [Paths -> Content]
  /\ taken \in SUBSET Calls
  /\ ruled \in SUBSET Paths

\* What a file contains when it has no uncommitted changes.
Clean(p) == IF p \in Tracked THEN "head" ELSE "absent"

Init ==
  /\ input \in Inputs
  /\ work = [p \in Paths |-> Clean(p)]
  /\ stash = [c \in Calls |-> None]
  /\ up \in BOOLEAN
  /\ gate_snapshots = [s \in Sessions |-> <<>>]
  /\ decision = [s \in Sessions |-> "none"]
  /\ inflight = {}
  /\ pre = [c \in Calls |-> "idle"]
  /\ ran = {}
  /\ post = [c \in Calls |-> "idle"]
  /\ errors = [c \in Calls |-> 0]
  /\ seen = [c \in Calls |-> None]
  /\ edited = {}
  /\ written = [p \in Paths |-> Clean(p)]
  /\ taken = {}
  /\ ruled = {}

-----------------------------------------------------------------------------
(* The pre-tool hook.                                                      *)

PreGoes(c, from, to) == pre[c] = from /\ pre' = [pre EXCEPT ![c] = to]

\* A hook takes part if its session is gated and the pid in daemon.pid is
\* that of a process; after a crash another process may have the pid.
TakesPart(c) == input[c].gated
PreStart(c) ==
  /\ \/ TakesPart(c) /\ PathOf(c) # NoPath /\ PreGoes(c, "idle", "checking")
     \/ TakesPart(c) /\ PathOf(c) = NoPath /\ PreGoes(c, "idle", "clean")
     \/ ~(TakesPart(c) /\ up) /\ PreGoes(c, "idle", "done")
  /\ UNCHANGED <<input, tree, daemon, ran, postVars, userVars>>

\* git status --porcelain: the gate is not engaged for a dirty file.
CheckDirty(c) ==
  /\ \/ /\ PathOf(c) # NoPath /\ work[PathOf(c)] = Clean(PathOf(c))
        /\ PreGoes(c, "checking", "clean")
     \/ /\ PathOf(c) # NoPath /\ work[PathOf(c)] # Clean(PathOf(c))
        /\ PreGoes(c, "checking", "done")
  /\ UNCHANGED <<input, tree, daemon, ran, postVars, userVars>>

\* git stash push: saves and removes whatever has changed since the check,
\* and succeeds without a stash if nothing has.
StashPush(c) ==
  LET p == PathOf(c) IN
  /\ PreGoes(c, "clean", "stashed")
  /\ \/ UNCHANGED tree
     \/ /\ p # NoPath /\ work[p] # Clean(p)
        /\ stash' = [stash EXCEPT ![c] = work[p]]
        /\ work' = [work EXCEPT ![p] = Clean(p)]
  /\ UNCHANGED <<input, daemon, ran, postVars, userVars>>

\* register_snapshot.
Take(c) ==
  /\ up
  /\ gate_snapshots' = [gate_snapshots EXCEPT ![SessionOf(c)] = Append(@, c)]
  /\ taken' = taken \cup {c}

\* The request, given 2 s: the daemon registers the snapshot and the hook is
\* told so; or it registers and the answer is late; or it does so later, or
\* not at all.
Register(c) ==
  /\ \/ Take(c) /\ PreGoes(c, "stashed", "done") /\ UNCHANGED inflight
     \/ Take(c) /\ PreGoes(c, "stashed", "unregistered") /\ UNCHANGED inflight
     \/ /\ PreGoes(c, "stashed", "unregistered")
        /\ inflight' \in {inflight} \cup (IF up THEN {inflight \cup {c}} ELSE {})
        /\ UNCHANGED <<gate_snapshots, taken>>
  /\ UNCHANGED <<input, tree, up, decision, ran, postVars, userVars>>

TakeLate(c) ==
  /\ c \in inflight
  /\ Take(c)
  /\ inflight' = inflight \ {c}
  /\ UNCHANGED <<input, tree, up, decision, preVars, postVars, userVars>>

\* (mutation) the stash is dropped where it should be popped
PopDropping(c) ==
  /\ PreGoes(c, "unregistered", "done")
  /\ stash' = [stash EXCEPT ![c] = None]
  /\ UNCHANGED <<input, work, daemon, ran, postVars, userVars>>

\* (mutation) the stash is left where it is
PopNothing(c) ==
  /\ PreGoes(c, "unregistered", "done")
  /\ UNCHANGED <<input, tree, daemon, ran, postVars, userVars>>

\* pop_stash_by_message: git applies and drops the stash, or refuses both if
\* the file has changed again.
Pop(c) ==
  LET p == PathOf(c) IN
  /\ \/ /\ stash[c] = None
        /\ PreGoes(c, "unregistered", "done") /\ UNCHANGED tree
     \/ /\ stash[c] # None /\ work[p] = Clean(p)
        /\ PreGoes(c, "unregistered", "done")
        /\ work' = [work EXCEPT ![p] = stash[c]]
        /\ stash' = [stash EXCEPT ![c] = None]
     \/ /\ stash[c] # None /\ work[p] # Clean(p)
        /\ PreGoes(c, "unregistered", "stopped") /\ UNCHANGED tree
  /\ UNCHANGED <<input, daemon, ran, postVars, userVars>>

\* The agent's timeout, or an interrupt.
KillPre(c) ==
  /\ pre[c] \in {"checking", "clean", "stashed", "unregistered"}
  /\ pre' = [pre EXCEPT ![c] = "stopped"]
  /\ UNCHANGED <<input, tree, daemon, ran, postVars, userVars>>

-----------------------------------------------------------------------------
(* The tool and the user.                                                  *)

Write(p, writer) ==
  /\ work' = [work EXCEPT ![p] = writer]
  /\ written' = [written EXCEPT ![p] = writer]

RunTool(c) ==
  /\ pre[c] \in {"done", "stopped"} /\ c \notin ran
  /\ ran' = ran \cup {c}
  /\ IF PathOf(c) = NoPath THEN UNCHANGED <<work, written>>
                          ELSE Write(PathOf(c), c)
  /\ UNCHANGED <<input, stash, daemon, pre, postVars, edited>>

UserEdit(e) ==
  /\ e \notin edited
  /\ edited' = edited \cup {e}
  /\ \E p \in Paths: Write(p, e)
  /\ UNCHANGED <<input, stash, daemon, preVars, postVars>>

-----------------------------------------------------------------------------
(* The post-tool hook.                                                     *)

PostGoes(c, from, to) == post[c] = from /\ post' = [post EXCEPT ![c] = to]

PostStart(c) ==
  /\ c \in ran
  /\ \/ TakesPart(c) /\ PostGoes(c, "idle", "polling")
     \/ ~(TakesPart(c) /\ up) /\ PostGoes(c, "idle", "done")
  /\ UNCHANGED <<input, tree, daemon, preVars, errors, seen, ruled, userVars>>

\* (mutation) the latest snapshot of any session
LatestOfAny(s) ==
  IF \E t \in Sessions: gate_snapshots[t] # <<>>
  THEN Last(gate_snapshots[CHOOSE t \in Sessions: gate_snapshots[t] # <<>>])
  ELSE None

\* get_decision answers with the session's latest snapshot, whichever call
\* registered it.
Latest(s) == IF gate_snapshots[s] = <<>> THEN None ELSE Last(gate_snapshots[s])

PathsOf(snapshot) ==
  IF snapshot = None THEN {} ELSE {PathOf(snapshot)} \ {NoPath}

\* compute_decision_response, and what the hook makes of its status.
Poll(c) ==
  LET s == SessionOf(c) IN
  /\ up
  /\ CASE decision[s] = "none" /\ Latest(s) = None ->
            PostGoes(c, "polling", "done") /\ UNCHANGED <<seen, ruled>>
       [] decision[s] = "none" /\ Latest(s) # None ->
            PostGoes(c, "polling", "polling") /\ UNCHANGED <<seen, ruled>>
       [] decision[s] # "none" ->
            /\ IF decision[s] = "rejected"
                 THEN PostGoes(c, "polling", "reverting")
                 ELSE PostGoes(c, "polling", "dropping")
            /\ seen' = [seen EXCEPT ![c] = Latest(s)]
            /\ ruled' = ruled \cup PathsOf(Latest(s))
  /\ errors' = [errors EXCEPT ![c] = 0]
  /\ UNCHANGED <<input, tree, daemon, preVars, userVars>>

\* (mutation) one error more before the hook gives up
PollFailsOnceMore(c) ==
  /\ ~up
  /\ IF errors[c] + 1 <= MaxErrors
       THEN /\ PostGoes(c, "polling", "polling")
            /\ errors' = [errors EXCEPT ![c] = @ + 1]
       ELSE /\ PostGoes(c, "polling", "done")
            /\ errors' = [errors EXCEPT ![c] = 0]
  /\ UNCHANGED <<input, tree, daemon, preVars, seen, ruled, userVars>>

PollFails(c) ==
  /\ ~up
  /\ IF errors[c] + 1 < MaxErrors
       THEN /\ PostGoes(c, "polling", "polling")
            /\ errors' = [errors EXCEPT ![c] = @ + 1]
       ELSE /\ PostGoes(c, "polling", "done")
            /\ errors' = [errors EXCEPT ![c] = 0]
  /\ UNCHANGED <<input, tree, daemon, preVars, seen, ruled, userVars>>

\* 60 s have passed since the hook began to poll.
PollTimesOut(c) ==
  /\ PostGoes(c, "polling", "done")
  /\ errors' = [errors EXCEPT ![c] = 0]
  /\ UNCHANGED <<input, tree, daemon, preVars, seen, ruled, userVars>>

\* path_existed_at_head: git looks a name up in HEAD only if it is relative.
ExistedAtHead(c) == c \in Relative /\ PathOf(c) \in Tracked

\* git checkout HEAD, or the file is removed.
Revert(c) ==
  /\ PostGoes(c, "reverting", "dropping")
  /\ work' = [p \in Paths |->
       IF p \in PathsOf(seen[c])
       THEN IF ExistedAtHead(seen[c]) THEN "head" ELSE "absent"
       ELSE work[p]]
  /\ UNCHANGED <<input, stash, daemon, preVars, errors, seen, ruled, userVars>>

\* drop_stash: the stash of that name, if there is one.
Drop(c) ==
  /\ PostGoes(c, "dropping", "done")
  /\ stash' = [d \in Calls |-> IF d = seen[c] THEN None ELSE stash[d]]
  /\ seen' = [seen EXCEPT ![c] = None]
  /\ UNCHANGED <<input, work, daemon, preVars, errors, ruled, userVars>>

KillPost(c) ==
  /\ post[c] \in {"polling", "reverting", "dropping"}
  /\ post' = [post EXCEPT ![c] = "done"]
  /\ seen' = [seen EXCEPT ![c] = None]
  /\ errors' = [errors EXCEPT ![c] = 0]
  /\ UNCHANGED <<input, tree, daemon, preVars, ruled, userVars>>

-----------------------------------------------------------------------------
(* The daemon.                                                             *)

\* apply_decision records an operator's verdict on some gate of the session;
\* a request that waited for that gate removes it.
Decide(s) ==
  /\ up
  /\ \E verdict \in {"approved", "rejected"}:
       decision' = [decision EXCEPT ![s] = verdict]
  /\ UNCHANGED <<input, tree, up, gate_snapshots, inflight, taken, preVars, postVars,
                 userVars>>

Consume(s) ==
  /\ decision[s] # "none"
  /\ decision' = [decision EXCEPT ![s] = "none"]
  /\ UNCHANGED <<input, tree, up, gate_snapshots, inflight, taken, preVars, postVars,
                 userVars>>

\* Snapshots and decisions are in the daemon's memory only.
Stop ==
  /\ up
  /\ up' = FALSE
  /\ gate_snapshots' = [s \in Sessions |-> <<>>]
  /\ decision' = [s \in Sessions |-> "none"]
  /\ inflight' = {}
  /\ UNCHANGED <<input, tree, preVars, postVars, userVars, taken>>

Restart ==
  /\ ~up
  /\ up' = TRUE
  /\ UNCHANGED <<input, tree, preVars, postVars, userVars, gate_snapshots, decision,
                 inflight, taken>>

-----------------------------------------------------------------------------
PreStep(c) ==
  PreStart(c) \/ CheckDirty(c) \/ StashPush(c) \/ Register(c) \/ Pop(c)
PostStep(c) ==
  \/ PostStart(c) \/ Poll(c) \/ PollFails(c) \/ PollTimesOut(c)
  \/ Revert(c) \/ Drop(c)

Next ==
  \/ \E c \in Calls: \/ PreStep(c) \/ KillPre(c) \/ TakeLate(c)
                     \/ RunTool(c) \/ PostStep(c) \/ KillPost(c)
  \/ \E e \in Edits: UserEdit(e)
  \/ \E s \in Sessions: Decide(s) \/ Consume(s)
  \/ Stop \/ Restart

Spec == Init /\ [][Next]_vars

-----------------------------------------------------------------------------
(* Properties.                                                             *)

\* Whatever a tool or the user wrote last to a file is in it still, or in a
\* stash of it: no timeout, late registration, killed hook or daemon that
\* went away loses it.  Only a hook that saw a decision on a snapshot of the
\* file may have thrown it away.
LastWriteSurvives == \A p \in Paths \ ruled:
  \/ work[p] = written[p]
  \/ \E c \in Calls: PathOf(c) = p /\ stash[c] = written[p]

\* "Put the working tree back the way we found it so no orphan stash
\* remains": a pre-tool hook that ran to its end leaves a stash only if the
\* daemon has been told of it.
NoOrphanStash == \A c \in Calls:
  pre[c] = "done" /\ stash[c] # None => c \in taken

\* A post-tool hook acts on files of its own session only, although it is
\* another call's snapshot that it may be given.
ActsOnOwnSession == \A c \in Calls:
  seen[c] # None => /\ SessionOf(seen[c]) = SessionOf(c)
                    /\ TakesPart(seen[c])
                    /\ seen[c] \in taken

\* "For tracked files, checkout HEAD restores to committed state": after a
\* rejection a tracked file is what it is at HEAD (cli/gate.rs:238).
TrackedFilesRestored ==
  [][\A c \in Calls: post[c] = "reverting" /\ post'[c] = "dropping" =>
       \A p \in PathsOf(seen[c]) \cap Tracked: work'[p] = "head"]_vars
=============================================================================
