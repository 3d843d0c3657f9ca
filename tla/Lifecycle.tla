----------------------------- MODULE Lifecycle -----------------------------
(***************************************************************************)
(* The processes that run a daemon, and the files they share: the two pid  *)
(* files and the session registry (cli/serve.rs, cli/ground.rs,            *)
(* daemon/mod.rs, logging/session_registry.rs).                            *)
(*                                                                         *)
(* A daemon is one start of `rigor serve` or `rigor ground`; its name      *)
(* stands for its session id, a fresh UUID.  Pids are given out by the     *)
(* system, again once their process has ended.  Any process can be killed  *)
(* between two steps; the files stay as they are.                          *)
(***************************************************************************)
EXTENDS Integers, Sequences, SequencesExt

CONSTANTS
  Serves,    \* starts of `rigor serve`, in the foreground or background
  Grounds,   \* starts of `rigor ground <command>`
  Pids,      \* process ids
  NoPid,     \* no process, or no pid file
  Malformed  \* a line of the registry that is not a session

Daemons == Serves \cup Grounds

VARIABLES
  phase,       \* how far each daemon is
  pid,         \* its process id
  daemon_pid,  \* ~/.rigor/daemon.pid
  serve_pid,   \* ~/.rigor/serve.pid
  registry,    \* ~/.rigor/sessions.jsonl
  unended,     \* whether its last line has no newline yet
  contents,    \* what a daemon that updates its session has read of it
  stopper      \* the `rigor serve stop` that runs: its step and the pid it read

lifeVars ==
  <<phase, pid, daemon_pid, serve_pid, registry, unended, contents, stopper>>

\* "started" is before the configuration is loaded; "registering" between the
\* text of the session's line and its newline; "registered" before the pid
\* files; "advertised" between the two of them.  A daemon "serves" until
\* its signal or its child's exit, is "ending" until the registry is read,
\* "updating" until it is written, and "cleaning" while pid files remain.
Phases ==
  {"new", "started", "loaded", "registering", "registered", "advertised", "serving",
   "ending", "updating", "cleaning", "unadvertised", "gone"}

Entry == [id : Daemons, ended : BOOLEAN]

LifeTypeOK ==
  /\ phase \in [Daemons -> Phases]
  /\ pid \in [Daemons -> Pids \cup {NoPid}]
  /\ daemon_pid \in Pids \cup {NoPid}
  /\ serve_pid \in Pids \cup {NoPid}
  /\ registry \in Seq(Entry \cup {Malformed}) /\ unended \in BOOLEAN
  /\ contents \in [Daemons -> Seq(Entry)]
  /\ stopper \in [step : {"idle", "found", "waiting"}, pid : Pids \cup {NoPid}]

LifeInit ==
  /\ phase = [d \in Daemons |-> "new"]
  /\ pid = [d \in Daemons |-> NoPid]
  /\ daemon_pid = NoPid
  /\ serve_pid = NoPid
  /\ registry \in {<<>>, <<Malformed>>} /\ unended = FALSE
  /\ contents = [d \in Daemons |-> <<>>]
  /\ stopper = [step |-> "idle", pid |-> NoPid]

\* kill(p, 0): some process has the pid.
Alive(p) == \E d \in Daemons : pid[d] = p /\ p # NoPid

\* daemon_alive: what the hooks ask before they do anything.
DaemonAlive == Alive(daemon_pid)

Goto(d, p) == phase' = [phase EXCEPT ![d] = p]
\* The process of d is over, whatever it was doing.
Exit(d) ==
  /\ Goto(d, "gone")
  /\ pid' = [pid EXCEPT ![d] = NoPid]
  /\ contents' = [contents EXCEPT ![d] = <<>>]

-----------------------------------------------------------------------------
(* Starting. *)

\* A process starts and has not loaded its configuration yet.  In the
\* background `rigor serve` first looks whether one runs, and clears the file
\* of one that does not.
Start(d) ==
  /\ phase[d] = "new"
  /\ \E p \in Pids : ~Alive(p) /\ pid' = [pid EXCEPT ![d] = p]
  /\ Goto(d, "started")
  /\ UNCHANGED <<daemon_pid, registry, unended, contents, stopper>>
RunForeground(d) == Start(d) /\ UNCHANGED serve_pid
RunBackground(d) == d \in Serves /\ ~Alive(serve_pid) /\ Start(d) /\ serve_pid' = NoPid

\* DaemonState::load succeeds, or its error ends the process.
Load(d) ==
  /\ phase[d] = "started"
  /\ Goto(d, "loaded")
  /\ UNCHANGED <<pid, daemon_pid, serve_pid, registry, unended, contents, stopper>>
LoadFails(d) ==
  /\ phase[d] = "started"
  /\ Exit(d)
  /\ UNCHANGED <<daemon_pid, serve_pid, registry, unended, stopper>>

\* register_session appends a line by writeln! on an unbuffered file: the text
\* in one write, behind one without newline to the harm of both, ...
Session(d) == [id |-> d, ended |-> FALSE]
RegisterSession(d) ==
  /\ phase[d] = "loaded"
  /\ registry' = IF unended THEN Append(Front(registry), Malformed)
                 ELSE Append(registry, Session(d))
  /\ unended' = TRUE
  /\ Goto(d, "registering")
  /\ UNCHANGED <<pid, daemon_pid, serve_pid, contents, stopper>>

\* ... the newline in another; an empty line is skipped by all readers.
EndSessionLine(d) ==
  /\ phase[d] = "registering"
  /\ unended' = FALSE
  /\ Goto(d, "registered")
  /\ UNCHANGED <<pid, daemon_pid, serve_pid, registry, contents, stopper>>

\* write_pid_file; `rigor serve` writes its own file after it.
WritePidFile(d) ==
  /\ phase[d] = "registered"
  /\ daemon_pid' = pid[d]
  /\ Goto(d, IF d \in Serves THEN "advertised" ELSE "serving")
  /\ UNCHANGED <<pid, serve_pid, registry, unended, contents, stopper>>
WriteServePid(d) ==
  /\ phase[d] = "advertised"
  /\ serve_pid' = pid[d]
  /\ Goto(d, "serving")
  /\ UNCHANGED <<pid, daemon_pid, registry, unended, contents, stopper>>

-----------------------------------------------------------------------------
(* Ending. *)

\* The child of `rigor ground` exits or cannot be spawned; `rigor serve` gets
\* its signal, or cannot bind its port and runs into the same clean-up.
Finish(d) ==
  /\ phase[d] = "serving"
  /\ Goto(d, "ending")
  /\ UNCHANGED <<pid, daemon_pid, serve_pid, registry, unended, contents, stopper>>

AfterUpdate(d) == IF d \in Serves THEN "cleaning" ELSE "unadvertised"

\* (mutation) lines that cannot be parsed are read like the others
ReadAnything(d) ==
  /\ phase[d] = "ending"
  /\ Goto(d, "updating") /\ contents' = [contents EXCEPT ![d] = registry]
  /\ UNCHANGED <<pid, daemon_pid, serve_pid, registry, unended, stopper>>
\* update_session reads the whole registry and gives up at a line it cannot
\* parse, ...
ReadRegistry(d) ==
  /\ phase[d] = "ending"
  /\ IF Malformed \in ToSet(registry)
     THEN Goto(d, AfterUpdate(d)) /\ UNCHANGED contents
     ELSE Goto(d, "updating") /\ contents' = [contents EXCEPT ![d] = registry]
  /\ UNCHANGED <<pid, daemon_pid, serve_pid, registry, unended, stopper>>

\* (mutation) the id is not compared: the first entry not ended is marked
EndedFirst(entries, d) ==
  [i \in DOMAIN entries |->
     IF \A j \in 1 .. i - 1 : entries[j].ended
     THEN [entries[i] EXCEPT !.ended = TRUE] ELSE entries[i]]
\* ... marks the entry with its id, ...
Ended(entries, d) ==
  [i \in DOMAIN entries |->
     IF entries[i].id = d THEN [entries[i] EXCEPT !.ended = TRUE] ELSE entries[i]]

\* ... and writes the whole file; what others wrote meanwhile is lost.
\* Truncation and write are one step here.
WriteRegistry(d) ==
  /\ phase[d] = "updating"
  /\ registry' = Ended(contents[d], d) /\ unended' = FALSE
  /\ contents' = [contents EXCEPT ![d] = <<>>]
  /\ Goto(d, AfterUpdate(d))
  /\ UNCHANGED <<pid, daemon_pid, serve_pid, stopper>>

\* `rigor serve` removes both pid files, whoever wrote them; `rigor ground`
\* leaves its own.
RemovePidFile(d) ==
  /\ phase[d] = "cleaning"
  /\ daemon_pid' = NoPid
  /\ Goto(d, "unadvertised")
  /\ UNCHANGED <<pid, serve_pid, registry, unended, contents, stopper>>
Leave(d) ==
  /\ phase[d] = "unadvertised"
  /\ serve_pid' = IF d \in Serves THEN NoPid ELSE serve_pid
  /\ Exit(d)
  /\ UNCHANGED <<daemon_pid, registry, unended, stopper>>

\* SIGKILL, a panic, or a signal nobody handles yet.
Kill(d) ==
  /\ pid[d] # NoPid
  /\ Exit(d)
  /\ UNCHANGED <<daemon_pid, serve_pid, registry, unended, stopper>>

-----------------------------------------------------------------------------
(* rigor serve stop *)

\* stop_serve reads the file; a pid that is not alive is cleared.
FindServe ==
  /\ stopper.step = "idle"
  /\ serve_pid # NoPid
  /\ IF Alive(serve_pid)
     THEN stopper' = [step |-> "found", pid |-> serve_pid] /\ UNCHANGED serve_pid
     ELSE serve_pid' = NoPid /\ UNCHANGED stopper
  /\ UNCHANGED <<phase, pid, daemon_pid, registry, unended, contents>>

\* SIGTERM ends a serving `rigor serve` in good order and is already being
\* obeyed by one that ends; in any other process nothing handles it.
Terminate ==
  /\ stopper.step = "found"
  /\ stopper' = [stopper EXCEPT !.step = "waiting"]
  /\ UNCHANGED <<daemon_pid, serve_pid, registry, unended>>
  /\ \/ /\ ~Alive(stopper.pid)
        /\ UNCHANGED <<phase, pid, contents>>
     \/ \E d \in Daemons :
          /\ pid[d] = stopper.pid
          /\ IF d \in Serves /\ phase[d] = "serving"
             THEN Goto(d, "ending") /\ UNCHANGED <<pid, contents>>
             ELSE IF d \in Serves
                     /\ phase[d] \in {"ending", "updating", "cleaning", "unadvertised"}
             THEN UNCHANGED <<phase, pid, contents>>
             ELSE Exit(d)

\* The process is seen to be gone, or is killed after two seconds.
SeeItGone ==
  /\ stopper.step = "waiting"
  /\ ~Alive(stopper.pid)
  /\ serve_pid' = NoPid
  /\ stopper' = [step |-> "idle", pid |-> NoPid]
  /\ UNCHANGED <<phase, pid, daemon_pid, registry, unended, contents>>
ForceKill ==
  /\ stopper.step = "waiting"
  /\ \E d \in Daemons : pid[d] = stopper.pid /\ Exit(d)
  /\ serve_pid' = NoPid
  /\ stopper' = [step |-> "idle", pid |-> NoPid]
  /\ UNCHANGED <<daemon_pid, registry, unended>>

-----------------------------------------------------------------------------
\* Every step but loading, which depends on the configuration.
LifeStep ==
  \/ \E d \in Daemons :
       \/ RunForeground(d) \/ RunBackground(d)
       \/ RegisterSession(d) \/ EndSessionLine(d)
       \/ WritePidFile(d) \/ WriteServePid(d)
       \/ Finish(d) \/ ReadRegistry(d) \/ WriteRegistry(d)
       \/ RemovePidFile(d) \/ Leave(d) \/ Kill(d)
  \/ FindServe \/ Terminate \/ SeeItGone \/ ForceKill

-----------------------------------------------------------------------------
\* A session the registry calls ended has ended, however the read, the change
\* and the write of several daemons that end, start or are killed interleave:
\* none marks another's, and no mark is older than the session.
EndedMeansOver ==
  \A i \in DOMAIN registry :
    (registry[i] # Malformed /\ registry[i].ended) =>
      phase[registry[i].id] \in {"cleaning", "unadvertised", "gone"}
=============================================================================
