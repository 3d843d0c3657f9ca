-------------------------------- MODULE Layer --------------------------------
(***************************************************************************)
(* The preload layer of a grounded process (layer/src/lib.rs).  It stands  *)
(* before getaddrinfo, freeaddrinfo, gethostbyname, connect, connectx and  *)
(* getpeername: names of LLM hosts resolve to the daemon, connections to   *)
(* port 443 go to it, and the application is told the peer it asked for.   *)
(*                                                                         *)
(* The threads of the process share the table of addrinfo blocks the layer *)
(* made, the table of redirected sockets, the heap and the descriptors.    *)
(* Each hook of a thread runs under a guard: what libc calls from inside a *)
(* hook goes straight through.                                             *)
(***************************************************************************)
EXTENDS Naturals, FiniteSets, Functions

CONSTANTS
  Threads, Fds,
  Blocks,           \* heap addresses
  Hosts, Loopback,
  INTERCEPT_HOSTS,  \* the hosts resolved to the daemon
  MaxTracked,       \* 1024 in the code
  Environments,     \* how the layer may be loaded, see Environment
  NoBlock, Closed

ASSUME TrackedAssumption == MaxTracked \in Nat
ASSUME BlockAssumption == NoBlock \notin Blocks

VARIABLES
  env,       \* how it was loaded: never changes
  bypass,    \* DETOUR_BYPASS of each thread
  call,      \* the hook each thread is in, and the block it is about
  heap,      \* which allocator each block belongs to
  managed,   \* MANAGED_ADDRINFO
  sockets,   \* INTERCEPTED_SOCKETS
  fds,       \* what each descriptor is connected to
  evicted    \* history: open descriptors whose record a full table dropped

layerVars == <<env, bypass, call, heap, managed, sockets, fds, evicted>>
unchangedHeap == UNCHANGED <<heap, managed>>
unchangedSockets == UNCHANGED <<sockets, fds, evicted>>

\* An address is IPv4 unless it says otherwise; only port 443 is told apart.
Addr == [ip: Hosts \cup {Loopback}, port: {"https", "daemon", "other"}, v4: BOOLEAN]
A(ip, port) == [ip |-> ip, port |-> port, v4 |-> TRUE]
DaemonAddr == A(Loopback, IF env.on443 THEN "https" ELSE "daemon")

\* RIGOR_TRANSPARENT is set; RIGOR_DAEMON_TLS_PORT is 443; the system has
\* connectx; the functions install_hooks could replace, each failure being
\* "non-critical".
Environment == [transparent: BOOLEAN, on443: BOOLEAN, macos: BOOLEAN,
                hooks: SUBSET {"getaddrinfo", "freeaddrinfo", "gethostbyname",
                               "connect", "connectx", "getpeername"}]
ASSUME EnvironmentAssumption == Environments \subseteq Environment
Hooked(f) == f \in env.hooks

Idle == [hook |-> "none", block |-> NoBlock, ours |-> FALSE]

\* A block in the table is the layer's, and one being freed goes to the
\* allocator it came from, although a block one thread has freed is at once
\* another's, from the other allocator.
FreedByOwner ==
  "freeaddrinfo" \in env.hooks =>
    /\ \A b \in managed: heap[b] = "layer"
    /\ \A t \in Threads: call[t].hook = "freeaddrinfo" =>
         heap[call[t].block] = IF call[t].ours THEN "layer" ELSE "libc"

LayerTypeOK ==
  /\ env \in Environments
  /\ bypass \in [Threads -> BOOLEAN]
  /\ call \in [Threads -> [hook: {"none", "getaddrinfo", "freeaddrinfo"},
                           block: Blocks \cup {NoBlock}, ours: BOOLEAN]]
  /\ \A t \in Threads: bypass[t] <=> call[t] # Idle
  /\ heap \in [Blocks -> {"free", "layer", "libc"}]
  /\ managed \subseteq Blocks
  /\ DOMAIN sockets \subseteq Fds /\ Range(sockets) \subseteq Addr
  /\ Cardinality(DOMAIN sockets) <= MaxTracked + 1
  /\ \A fd \in Fds: fds[fd] = Closed
       \/ fds[fd] \in [host: Hosts, asked: Addr, actual: Addr, hooked: BOOLEAN]
  /\ FreedByOwner
  /\ evicted \subseteq Fds

LayerInit ==
  /\ env \in Environments
  /\ bypass = [t \in Threads |-> FALSE]
  /\ call = [t \in Threads |-> Idle]
  /\ heap = [b \in Blocks |-> "free"]
  /\ managed = {}
  /\ sockets = [fd \in {} |-> DaemonAddr]
  /\ fds = [fd \in Fds |-> Closed]
  /\ evicted = {}

Enter(t, hook, block, ours) ==
  /\ ~bypass[t]
  /\ bypass' = [bypass EXCEPT ![t] = TRUE]
  /\ call' = [call EXCEPT ![t] = [hook |-> hook, block |-> block, ours |-> ours]]
Leave(t) ==
  /\ bypass' = [bypass EXCEPT ![t] = FALSE]
  /\ call' = [call EXCEPT ![t] = Idle]

-----------------------------------------------------------------------------
(* Names.                                                                  *)

\* The default hosts and those of RIGOR_INTERCEPT_HOSTS.
Intercepted(h) == h \in INTERCEPT_HOSTS

\* What the application connects to for https at host h, by the resolver it
\* uses: getaddrinfo, gethostbyname, its own, or its own for IPv6.
Resolved(h, how) ==
  CASE Intercepted(h) /\ how = "getaddrinfo" /\ Hooked(how) -> DaemonAddr
    [] Intercepted(h) /\ how = "gethostbyname" /\ Hooked(how) ->
         A(Loopback, "https")
    [] how = "ipv6" -> [A(h, "https") EXCEPT !.v4 = FALSE]
    [] OTHER        -> A(h, "https")

\* getaddrinfo of an intercepted host: a block of the layer's own.
ResolveHere(t) ==
  \E b \in Blocks:
    /\ Hooked("getaddrinfo") /\ ~bypass[t] /\ heap[b] = "free"
    /\ heap' = [heap EXCEPT ![b] = "layer"]
    /\ managed' = managed \cup {b}
    /\ UNCHANGED <<env, bypass, call>> /\ unchangedSockets

\* getaddrinfo of any other host, up to libc's and back.
ResolveThere(t) ==
  /\ Hooked("getaddrinfo") /\ Enter(t, "getaddrinfo", NoBlock, FALSE)
  /\ UNCHANGED env /\ unchangedHeap /\ unchangedSockets
ResolvedThere(t) ==
  \E b \in Blocks:
    /\ call[t].hook = "getaddrinfo" /\ heap[b] = "free"
    /\ heap' = [heap EXCEPT ![b] = "libc"]
    /\ Leave(t)
    /\ UNCHANGED <<env, managed>> /\ unchangedSockets

\* The application frees a block once.
Freeable(b) == heap[b] # "free" /\ \A t \in Threads: call[t].block # b

\* (mutation) freed first, forgotten later
FreeFirst(t, b) ==
  /\ Freeable(b)
  /\ Enter(t, "freeaddrinfo", NoBlock, b \in managed)
  /\ heap' = [heap EXCEPT ![b] = "free"]
  /\ UNCHANGED <<env, managed>> /\ unchangedSockets

\* freeaddrinfo: the block leaves the table and is then freed by whichever
\* allocator it came from.
Free(t, b) ==
  /\ Hooked("freeaddrinfo") /\ Freeable(b)
  /\ Enter(t, "freeaddrinfo", b, b \in managed)
  /\ managed' = managed \ {b}
  /\ UNCHANGED <<env, heap>> /\ unchangedSockets
Freed(t) ==
  LET b == call[t].block IN
  /\ call[t].hook = "freeaddrinfo"
  /\ heap' = [x \in Blocks |-> IF x = b THEN "free" ELSE heap[x]]
  /\ managed' = managed \ {b}
  /\ Leave(t)
  /\ UNCHANGED env /\ unchangedSockets
\* Without the hook libc frees what is not its own, and the table keeps it.
FreeUnhooked(b) ==
  /\ ~Hooked("freeaddrinfo") /\ Freeable(b)
  /\ heap' = [heap EXCEPT ![b] = "free"]
  /\ UNCHANGED <<env, bypass, call, managed>> /\ unchangedSockets

-----------------------------------------------------------------------------
(* Sockets.                                                                *)

\* is_localhost_443 or is_transparent_443
Redirected(a, f) ==
  /\ Hooked(f) /\ a.v4 /\ a.port = "https"
  /\ \/ a.ip = Loopback /\ ~env.on443
     \/ a.ip # Loopback /\ env.transparent
Actual(a, f) == IF Redirected(a, f) THEN DaemonAddr ELSE a

Open(fd, h, a, actual, hooked) ==
  /\ fds[fd] = Closed
  /\ fds' = [fds EXCEPT ![fd] = [host |-> h, asked |-> a, actual |-> actual,
                                 hooked |-> hooked]]

Full == Cardinality(DOMAIN sockets) > MaxTracked
With(table, fd, a) == [f \in DOMAIN table \cup {fd} |-> IF f = fd THEN a ELSE table[f]]
Nothing == [f \in {} |-> DaemonAddr]

\* (mutation) recorded, then the full table dropped with it
TrackThenClear(fd, a) == IF Full THEN Nothing ELSE With(sockets, fd, a)
\* A table of more than 1024 is dropped whole before the socket is recorded.
Track(fd, a) == With(IF Full THEN Nothing ELSE sockets, fd, a)

Connect(t, fd, h, how) ==
  LET a == Resolved(h, how) IN
  /\ ~bypass[t]
  /\ Open(fd, h, a, Actual(a, "connect"), Redirected(a, "connect"))
  /\ IF Redirected(a, "connect")
       THEN /\ sockets' = Track(fd, a)
            /\ evicted' = (IF Full THEN evicted \cup DOMAIN sockets ELSE evicted) \ {fd}
       ELSE UNCHANGED sockets /\ evicted' = evicted \ {fd}
  /\ UNCHANGED <<env, bypass, call>> /\ unchangedHeap

\* connectx of macOS redirects alike and records nothing.
Connectx(t, fd, h, how) ==
  LET a == Resolved(h, how) IN
  /\ env.macos /\ ~bypass[t]
  /\ Open(fd, h, a, Actual(a, "connectx"), FALSE)
  /\ evicted' = evicted \ {fd}
  /\ UNCHANGED <<env, bypass, call, sockets>> /\ unchangedHeap

\* libc connects from inside a hook, as a resolver does.
ConnectInside(t, fd, h) ==
  /\ bypass[t] /\ call[t].hook = "getaddrinfo"
  /\ Open(fd, h, A(h, "https"), A(h, "https"), FALSE)
  /\ evicted' = evicted \ {fd}
  /\ UNCHANGED <<env, bypass, call, sockets>> /\ unchangedHeap

\* close is not hooked: the record stays.
Close(fd) ==
  /\ fds[fd] # Closed
  /\ fds' = [fds EXCEPT ![fd] = Closed]
  /\ UNCHANGED <<env, bypass, call, sockets, evicted>> /\ unchangedHeap

getpeername(fd) == IF Hooked("getpeername") /\ fd \in DOMAIN sockets THEN sockets[fd] ELSE fds[fd].actual

-----------------------------------------------------------------------------
\* "Return the ORIGINAL destination address": an application is told the
\* peer it asked for on every socket that was redirected, whatever was
\* opened and closed since, unless a full table was dropped meanwhile.
PeersBelieved == \A fd \in Fds:
  IF Hooked("getpeername") /\ fds[fd] # Closed /\ fd \notin evicted
    THEN fds[fd].hooked => getpeername(fd) = fds[fd].asked
    ELSE TRUE
=============================================================================
