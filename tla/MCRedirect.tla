------------------------------ MODULE MCRedirect ------------------------------
(***************************************************************************)
(* A grounded process and its daemon: what the layer redirects arrives at  *)
(* the listener, what a proxy setting sends arrives as CONNECT.            *)
(***************************************************************************)
EXTENDS Layer, Sequences, TLC

CONSTANTS
  None, MITM_HOSTS, Modes,
  Followed   \* descriptors whose connections are followed into the daemon
VARIABLES mode, conn

D == INSTANCE Tunnel WITH Conns <- Followed

ASSUME ModeAssumption == Modes \subseteq D!Mode
\* What names no host is not listed.
ASSUME ListedAssumption == None \notin MITM_HOSTS

AllHooks == {"getaddrinfo", "freeaddrinfo", "gethostbyname", "connect",
             "connectx", "getpeername"}
Loaded(transparent, on443, macos, missing) ==
  [transparent |-> transparent, on443 |-> on443, macos |-> macos,
   hooks |-> AllHooks \ missing]
Started(kind, mitm, ca, legacy) ==
  [kind |-> kind, mitm |-> mitm, ca |-> ca, legacy |-> legacy, skip |-> ~legacy]
\* On Linux and macOS, transparent or not, with hooks missing; the daemon with
\* and without --mitm, without a CA, and without the peek.
Setups ==
  {<<Loaded(TRUE, FALSE, FALSE, {"connectx"}), Started("ground", TRUE, TRUE, TRUE)>>,
   <<Loaded(FALSE, TRUE, FALSE, {"connectx", "getaddrinfo"}),
     Started("ground", FALSE, TRUE, TRUE)>>,
   <<Loaded(TRUE, FALSE, TRUE, {"freeaddrinfo", "getpeername"}),
     Started("daemon", FALSE, FALSE, TRUE)>>,
   <<Loaded(FALSE, FALSE, TRUE, {}), Started("serve", TRUE, FALSE, FALSE)>>,
   <<Loaded(FALSE, FALSE, FALSE, {"connectx"}), Started("serve", TRUE, TRUE, FALSE)>>}
SomeEnvironments == {s[1]: s \in Setups}
SomeModes == {s[2]: s \in Setups}

Init == LayerInit /\ D!TunnelInit /\ <<env, mode>> \in Setups
vars == <<layerVars, mode, conn>>
TypeOK == LayerTypeOK /\ D!TunnelTypeOK

Arrived(fd, h) ==
  IF fd \in Followed /\ fds'[fd].actual = DaemonAddr /\ mode.kind # "serve"
    THEN \E hello \in D!Hellos: D!Arrives(fd, h, hello, "listener")
    ELSE UNCHANGED <<mode, conn>>

\* HTTPS_PROXY: the application connects to the daemon's HTTP port itself.
\* `rigor ground` sets it unless the layer is transparent.
ConnectToProxy(t, fd, h) ==
  LET a == A(Loopback, "other") IN
  /\ mode.kind = "ground" => ~env.transparent
  /\ fd \in Followed
  /\ ~bypass[t]
  /\ Open(fd, h, a, a, FALSE)
  /\ evicted' = evicted \ {fd}
  /\ UNCHANGED <<env, bypass, call, sockets>> /\ unchangedHeap
  /\ \E hello \in {"sni", "no tls"}: D!Arrives(fd, h, hello, "connect")

Hung(fd) == Close(fd) /\ UNCHANGED mode
            /\ conn' = [c \in Followed |-> IF c = fd THEN None ELSE conn[c]]

Opening == \E t \in Threads, fd \in Fds, h \in Hosts:
  \/ \E how \in {"getaddrinfo", "gethostbyname", "own", "ipv6"}:
       (Connect(t, fd, h, how) \/ Connectx(t, fd, h, how)) /\ Arrived(fd, h)
  \/ ConnectToProxy(t, fd, h)
Names == \E t \in Threads:
  \/ ResolveHere(t) \/ ResolveThere(t) \/ ResolvedThere(t) \/ Freed(t)
  \/ \E b \in Blocks: Free(t, b) \/ FreeUnhooked(b)
  \/ \E fd \in Fds, h \in Hosts: ConnectInside(t, fd, h)

Next ==
  \/ Opening
  \/ \E fd \in Fds: Hung(fd)
  \/ Names /\ UNCHANGED <<mode, conn>>
  \/ D!TunnelNext /\ UNCHANGED layerVars

Symmetry == Permutations(Threads) \cup Permutations(Fds \ Followed)
Spec == Init /\ [][Next]_vars
Delivered == D!Delivered
=============================================================================
