------------------------------- MODULE Tunnel -------------------------------
(***************************************************************************)
(* Where the daemon takes a connection of a grounded process: the TLS      *)
(* listener of `rigor ground` (cli/ground.rs, daemon/sni.rs), which looks  *)
(* at the server name in the ClientHello, the CONNECT method and the       *)
(* catch-all handler (daemon/proxy.rs), and the TLS listener of            *)
(* `rigor daemon` (daemon/mod.rs).  A connection is decrypted, or tunnelled*)
(* as it is to the host it names.                                          *)
(*                                                                         *)
(* What a client sends is three pieces: the header of a TLS record, the    *)
(* rest of the record, the request.  got is what the other end has read.   *)
(***************************************************************************)
EXTENDS Naturals, Sequences

CONSTANTS
  Conns,
  Hosts,
  MITM_HOSTS,
  None,
  Modes        \* how the daemon may have been started, see Mode

VARIABLES
  mode,
  conn         \* each connection, None before it arrives

tunnelVars == <<mode, conn>>

\* The command; --mitm, which rigor serve implies; whether a CA and the
\* certificate for all hosts could be made; RIGOR_SKIP_INTERNAL.
Mode == [kind: {"ground", "serve", "daemon"}, mitm: BOOLEAN, ca: BOOLEAN,
         legacy: BOOLEAN, skip: BOOLEAN]

Stages == {"accepted", "asked", "peeked", "dialing", "tunnel", "handshake",
           "mitm", "served", "gone"}
Hellos == {"sni", "no sni", "no tls"}
Listener == "127.0.0.1:443"
Request == [path: {"llm", "internal", "other"}, to: Hosts, evaluated: BOOLEAN]
Pieces == <<1, 2, 3>>

TunnelTypeOK ==
  /\ mode \in Modes
  /\ \A c \in Conns: conn[c] = None \/ conn[c] \in
       [stage: Stages, via: {"listener", "connect"}, host: Hosts, hello: Hellos,
        target: Hosts \cup {None, Listener}, taken: 0 .. 3, prefix: 0 .. 2,
        pos: 0 .. 2, got: UNION {[1 .. n -> 1 .. 3]: n \in 0 .. 3},
        request: Request \cup {None}]

TunnelInit ==
  /\ mode \in Modes
  /\ conn = [c \in Conns |-> None]

\* A client that means host h, at the TLS listener or with CONNECT.
Arrives(c, h, hello, via) ==
  /\ conn[c] = None
  /\ via = "listener" => mode.kind # "serve"
  /\ conn' = [conn EXCEPT ![c] =
       [stage |-> IF via = "connect" THEN "asked" ELSE "accepted", via |-> via,
        host |-> h, hello |-> hello, target |-> None, taken |-> 0, prefix |-> 0,
        pos |-> 0, got |-> <<>>, request |-> None]]
  /\ UNCHANGED mode

Step(c, from, new) ==
  /\ conn[c] # None
  /\ conn[c].stage \in from
  /\ conn' = [conn EXCEPT ![c] = new]
  /\ UNCHANGED mode
Goes(c, from, to) == Step(c, from, [conn[c] EXCEPT !.stage = to])

\* The client closes, or anything fails on the way.
Gone(c) ==
  [stage |-> "gone", via |-> conn[c].via, host |-> conn[c].host,
   hello |-> conn[c].hello, target |-> None, taken |-> 0, prefix |-> 0,
   pos |-> 0, got |-> <<>>, request |-> None]
Ends(c) == Step(c, Stages \ {"gone"}, Gone(c))

-----------------------------------------------------------------------------
\* peek_client_hello: no more than the header unless it is a TLS handshake.
Peek(c) ==
  LET n == IF conn[c].hello = "no tls" THEN 1 ELSE 2 IN
  /\ mode.kind = "ground"
  /\ Step(c, {"accepted"},
          [conn[c] EXCEPT !.stage = "peeked", !.taken = n, !.prefix = n])

\* The TLS listener of rigor daemon looks at nothing.
AcceptAll(c) == mode.kind = "daemon" /\ Goes(c, {"accepted"}, "handshake")

\* The host as the daemon knows it.
Name(c) == IF conn[c].via = "connect" \/ conn[c].hello = "sni" THEN conn[c].host
           ELSE None

\* (mutation) whether the switch is on is not asked
ShouldMitmAlways(name) == name \in MITM_HOSTS
should_mitm_target(name) == mode.mitm /\ name \in MITM_HOSTS

Certificate(c) == conn[c].via = "connect" => mode.ca \/ mode.legacy

Route(c) ==
  /\ conn[c].stage \in {"peeked", "asked"}
  /\ IF should_mitm_target(Name(c))
       THEN Step(c, {"peeked", "asked"},
              IF Certificate(c) THEN [conn[c] EXCEPT !.stage = "handshake"] ELSE Gone(c))
       ELSE Step(c, {"peeked", "asked"},
              [conn[c] EXCEPT !.stage = "dialing",
                 !.target = IF Name(c) = None THEN Listener ELSE Name(c)])

-----------------------------------------------------------------------------
(* Bytes.                                                                  *)

\* The tunnel: what was peeked first, then the rest as it comes.
Dial(c) ==
  Step(c, {"dialing"}, [conn[c] EXCEPT !.stage = "tunnel",
                                       !.got = SubSeq(Pieces, 1, conn[c].prefix)])

FromSocket(r) == [r EXCEPT !.taken = @ + 1, !.got = Append(@, Pieces[r.taken + 1])]

Copy(c) == conn[c].taken < 3 /\ Step(c, {"tunnel"}, FromSocket(conn[c]))

\* (mutation) pos is set to the length read, not advanced by it
ReplayUncounted(r, n) ==
  [r EXCEPT !.pos = n, !.got = @ \o SubSeq(Pieces, r.pos + 1, r.pos + n)]
\* PrependedStream::poll_read with room for n pieces.
Replay(r, n) ==
  [r EXCEPT !.pos = @ + n, !.got = @ \o SubSeq(Pieces, r.pos + 1, r.pos + n)]

Read(c) ==
  LET r == conn[c] IN
  /\ Len(r.got) < IF r.stage = "handshake" THEN 2 ELSE 3
  /\ IF r.pos < r.prefix
       THEN \E n \in 1 .. r.prefix - r.pos: Step(c, {"handshake", "mitm"}, Replay(r, n))
       ELSE r.taken < 3 /\ Step(c, {"handshake", "mitm"}, FromSocket(r))

\* Only a ClientHello completes the handshake.
Handshake(c) ==
  /\ conn[c].hello # "no tls"
  /\ Len(conn[c].got) >= 2
  /\ Goes(c, {"handshake"}, "mitm")

-----------------------------------------------------------------------------
(* Requests.                                                               *)

\* The catch-all handler: evaluated if it is for an LLM endpoint, and, with
\* RIGOR_SKIP_INTERNAL, not rigor's own; else passed on to its Host, which is
\* the host of the connection.
Dispatch(c, path) ==
  [path |-> path, to |-> conn[c].host,
   evaluated |-> path = "llm" \/ (path = "internal" /\ ~mode.skip)]

Serve(c) ==
  \E path \in {"llm", "internal", "other"}:
    /\ Len(conn[c].got) = 3
    /\ Step(c, {"mitm"}, [conn[c] EXCEPT !.stage = "served",
                                         !.request = Dispatch(c, path)])

TunnelNext == \E c \in Conns:
  conn[c] # None /\ (\/ Ends(c) \/ Peek(c) \/ AcceptAll(c) \/ Route(c) \/ Dial(c)
                     \/ Copy(c) \/ Read(c) \/ Handshake(c) \/ Serve(c))

-----------------------------------------------------------------------------
\* Only what is listed is decrypted, and only with --mitm: "everything else
\* gets a blind tunnel -- bytes pass through unchanged".  A connection that
\* names its host ends there; what was read to learn the name arrives too,
\* first and once.
Delivered == \A c \in Conns:
  LET r == conn[c] IN
  IF r = None THEN TRUE ELSE
    /\ r.got = SubSeq(Pieces, 1, Len(r.got))
    /\ r.stage \in {"handshake", "mitm", "served"} /\ mode.kind # "daemon" =>
         mode.mitm /\ r.host \in MITM_HOSTS
    /\ r.stage = "tunnel" /\ Name(c) # None =>
         r.target = r.host /\ Len(r.got) = r.taken
    /\ r.stage = "served" =>
         r.request.to = r.host /\ r.got = Pieces
=============================================================================
