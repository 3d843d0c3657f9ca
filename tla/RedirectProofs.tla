--------------------------- MODULE RedirectProofs ---------------------------
(***************************************************************************)
(* Proofs about MCRedirect: the preload layer and the daemon's tunnel, for *)
(* every number of threads, descriptors and blocks, every size of the      *)
(* table, and every way the two may have been started.                     *)
(***************************************************************************)
EXTENDS MCRedirect, FiniteSetTheorems, SequenceTheorems, TLAPS

-----------------------------------------------------------------------------
(* The inductive invariant of the layer, in parts. *)

\* The part of the layer's type invariant that is about names and the heap.
HeapTypeOK ==
  /\ env \in Environments
  /\ bypass \in [Threads -> BOOLEAN]
  /\ call \in [Threads -> [hook: {"none", "getaddrinfo", "freeaddrinfo"},
                           block: Blocks \cup {NoBlock}, ours: BOOLEAN]]
  /\ \A t \in Threads: bypass[t] <=> call[t] # Idle
  /\ heap \in [Blocks -> {"free", "layer", "libc"}]
  /\ managed \subseteq Blocks

\* A block is the business of at most one freeing thread, which has taken it
\* out of the table; every other block of the layer's is in the table.
OwnerInv == "freeaddrinfo" \in env.hooks =>
  /\ \A b \in managed: heap[b] = "layer"
  /\ \A t \in Threads: call[t].hook = "freeaddrinfo" =>
       /\ call[t].block \in Blocks \ managed
       /\ heap[call[t].block] = IF call[t].ours THEN "layer" ELSE "libc"
  /\ \A t, u \in Threads:
       call[t].hook = "freeaddrinfo" /\ call[u].hook = "freeaddrinfo"
         /\ call[t].block = call[u].block => t = u
  /\ \A t \in Threads: call[t].hook # "freeaddrinfo" => call[t].block = NoBlock
  /\ \A b \in Blocks: heap[b] = "layer" =>
       b \in managed \/ \E t \in Threads: call[t].block = b

HeapInv == HeapTypeOK /\ OwnerInv

\* The part that is about sockets.
SocketTypeOK ==
  /\ DOMAIN sockets \subseteq Fds /\ IsFiniteSet(DOMAIN sockets)
  /\ \A fd \in DOMAIN sockets: sockets[fd] \in Addr
  /\ Cardinality(DOMAIN sockets) <= MaxTracked + 1
  /\ fds = [fd \in Fds |-> fds[fd]]
  /\ \A fd \in Fds: fds[fd] = Closed
       \/ fds[fd] \in [host: Hosts, asked: Addr, actual: Addr, hooked: BOOLEAN]
  /\ evicted \subseteq Fds

\* An open socket that was redirected has its record, unless it was dropped
\* with the table: the record of an earlier socket of the same descriptor was
\* replaced when this one was redirected.
RecordInv == \A fd \in Fds:
  (fds[fd] # Closed /\ fds[fd].hooked /\ fd \notin evicted) =>
    fd \in DOMAIN sockets /\ sockets[fd] = fds[fd].asked

SocketInv == SocketTypeOK /\ RecordInv

-----------------------------------------------------------------------------
(* Names and the heap. *)

heapVars == <<env, bypass, call, heap, managed>>

\* getaddrinfo gives a block that nobody has.
LEMMA ResolveStep ==
  ASSUME HeapInv, NEW t \in Threads,
         ResolveHere(t) \/ ResolveThere(t) \/ ResolvedThere(t)
  PROVE  HeapInv'
<1> USE DEF HeapInv, Hooked
<1>1. CASE ResolveHere(t)
  <2>1. PICK b \in Blocks:
          /\ heap[b] = "free" /\ heap' = [heap EXCEPT ![b] = "layer"]
          /\ managed' = managed \cup {b} /\ UNCHANGED <<env, bypass, call>>
    BY <1>1 DEF ResolveHere
  <2>2. HeapTypeOK'
    BY <2>1 DEF HeapTypeOK, Idle
  <2>3. OwnerInv'
    BY <2>1 DEF HeapTypeOK, OwnerInv
  <2> QED BY <2>2, <2>3
<1>2. CASE ResolveThere(t)
  <2>1. /\ ~bypass[t] /\ bypass' = [bypass EXCEPT ![t] = TRUE]
        /\ call' = [call EXCEPT ![t] = [hook |-> "getaddrinfo", block |-> NoBlock,
                                        ours |-> FALSE]]
        /\ UNCHANGED <<env, heap, managed>>
    BY <1>2 DEF ResolveThere, Enter, unchangedHeap
  <2>2. HeapTypeOK'
    BY <2>1 DEF HeapTypeOK, Idle
  <2>3. call[t].hook = "none" /\ call[t].block = NoBlock
    BY <2>1 DEF HeapTypeOK, Idle
  <2>4. OwnerInv'
    BY <2>1, <2>3, BlockAssumption DEF HeapTypeOK, OwnerInv
  <2> QED BY <2>2, <2>4
<1>3. CASE ResolvedThere(t)
  <2>1. PICK b \in Blocks:
          /\ call[t].hook = "getaddrinfo" /\ heap[b] = "free"
          /\ heap' = [heap EXCEPT ![b] = "libc"]
          /\ bypass' = [bypass EXCEPT ![t] = FALSE]
          /\ call' = [call EXCEPT ![t] = Idle]
          /\ UNCHANGED <<env, managed>>
    BY <1>3 DEF ResolvedThere, Leave
  <2>2. HeapTypeOK'
    BY <2>1 DEF HeapTypeOK, Idle
  <2>3. OwnerInv'
    BY <2>1, BlockAssumption DEF HeapTypeOK, OwnerInv, Idle
  <2> QED BY <2>2, <2>3
<1> QED BY <1>1, <1>2, <1>3

\* A block leaves the table before it is freed, by the allocator it is from.
LEMMA FreeStep ==
  ASSUME HeapInv, NEW t \in Threads, NEW b \in Blocks,
         Free(t, b) \/ FreeUnhooked(b)
  PROVE  HeapInv'
<1> USE DEF HeapInv, Hooked
<1>1. CASE Free(t, b)
  <2>1. /\ "freeaddrinfo" \in env.hooks
        /\ heap[b] # "free" /\ \A u \in Threads: call[u].block # b
        /\ ~bypass[t] /\ bypass' = [bypass EXCEPT ![t] = TRUE]
        /\ call' = [call EXCEPT ![t] = [hook |-> "freeaddrinfo", block |-> b,
                                        ours |-> b \in managed]]
        /\ managed' = managed \ {b}
        /\ UNCHANGED <<env, heap>>
    BY <1>1 DEF Free, Freeable, Enter
  <2>2. HeapTypeOK'
    BY <2>1 DEF HeapTypeOK, Idle
  <2>3. call[t].block = NoBlock
    BY <2>1 DEF HeapTypeOK, Idle
  <2>4. heap[b] = IF b \in managed THEN "layer" ELSE "libc"
    BY <2>1 DEF HeapTypeOK, OwnerInv
  <2>5. /\ call'[t].hook = "freeaddrinfo" /\ call'[t].block = b
        /\ call'[t].ours <=> b \in managed
        /\ \A u \in Threads \ {t}: call'[u] = call[u]
    BY <2>1 DEF HeapTypeOK
  <2>6. /\ \A x \in managed': heap'[x] = "layer"
        /\ \A u \in Threads: call'[u].hook # "freeaddrinfo" => call'[u].block = NoBlock
    BY <2>1, <2>5 DEF OwnerInv
  <2>7. ASSUME NEW u \in Threads, call'[u].hook = "freeaddrinfo"
        PROVE  /\ call'[u].block \in Blocks \ managed'
               /\ heap'[call'[u].block] = IF call'[u].ours THEN "layer" ELSE "libc"
    <3>1. CASE u = t
      BY <2>1, <2>4, <2>5, <3>1
    <3>2. CASE u # t
      BY <2>1, <2>5, <2>7, <3>2 DEF OwnerInv
    <3> QED BY <3>1, <3>2
  <2>8. ASSUME NEW u \in Threads, NEW v \in Threads,
               call'[u].hook = "freeaddrinfo", call'[v].hook = "freeaddrinfo",
               call'[u].block = call'[v].block
        PROVE  u = v
    <3>1. CASE u # t /\ v # t
      BY <2>1, <2>5, <2>8, <3>1 DEF OwnerInv
    <3>2. CASE u = t \/ v = t
      BY <2>1, <2>5, <2>8, <3>2
    <3> QED BY <3>1, <3>2
  <2>9. ASSUME NEW x \in Blocks, heap'[x] = "layer"
        PROVE  x \in managed' \/ \E u \in Threads: call'[u].block = x
    <3>1. CASE x = b
      BY <2>5, <3>1
    <3>2. CASE x # b /\ x \in managed
      BY <2>1, <3>2
    <3>3. CASE x # b /\ x \notin managed
      <4>1. PICK u \in Threads: call[u].block = x
        BY <2>1, <2>9, <3>3 DEF OwnerInv
      <4>2. u # t
        BY <2>3, <4>1, BlockAssumption
      <4> QED BY <2>5, <4>1, <4>2
    <3> QED BY <3>1, <3>2, <3>3
  <2>10. OwnerInv'
    BY <2>6, <2>7, <2>8, <2>9 DEF OwnerInv
  <2> QED BY <2>2, <2>10
<1>2. CASE FreeUnhooked(b)
  <2>1. HeapTypeOK'
    BY <1>2 DEF FreeUnhooked, HeapTypeOK, Idle
  <2>2. OwnerInv'
    BY <1>2 DEF FreeUnhooked, OwnerInv
  <2> QED BY <2>1, <2>2
<1> QED BY <1>1, <1>2

\* The block is free again.
LEMMA FreedStep ==
  ASSUME HeapInv, NEW t \in Threads, Freed(t)
  PROVE  HeapInv'
<1> USE DEF HeapInv, Hooked
<1> DEFINE b == call[t].block
<1>1. /\ call[t].hook = "freeaddrinfo"
      /\ heap' = [x \in Blocks |-> IF x = b THEN "free" ELSE heap[x]]
      /\ managed' = managed \ {b}
      /\ bypass' = [bypass EXCEPT ![t] = FALSE]
      /\ call' = [call EXCEPT ![t] = Idle]
      /\ UNCHANGED env
  BY DEF Freed, Leave
<1>2. HeapTypeOK'
  BY <1>1 DEF HeapTypeOK, Idle
<1>3. OwnerInv'
  BY <1>1, BlockAssumption DEF HeapTypeOK, OwnerInv, Idle
<1> QED BY <1>2, <1>3

-----------------------------------------------------------------------------
(* Sockets. *)

socketVars == <<env, sockets, fds, evicted>>

\* Whatever resolver is used, the application asks for an address.
LEMMA ResolvedFacts ==
  ASSUME NEW h \in Hosts, NEW how
  PROVE  Resolved(h, how) \in Addr
BY DEF Resolved, DaemonAddr, A, Addr

\* Redirected or not, it is connected to an address.
LEMMA ActualFacts ==
  ASSUME NEW x \in Addr, NEW f
  PROVE  Actual(x, f) \in Addr
BY DEF Actual, DaemonAddr, A, Addr

\* A socket that opens is open as it was opened, and no other changes.
LEMMA OpenFacts ==
  ASSUME SocketTypeOK, NEW fd \in Fds, NEW h \in Hosts, NEW x \in Addr,
         NEW y \in Addr, NEW hooked \in BOOLEAN, Open(fd, h, x, y, hooked)
  PROVE  /\ fds' = [f \in Fds |-> fds'[f]]
         /\ \A f \in Fds: fds'[f] = Closed
              \/ fds'[f] \in [host: Hosts, asked: Addr, actual: Addr, hooked: BOOLEAN]
         /\ fds'[fd] = [host |-> h, asked |-> x, actual |-> y, hooked |-> hooked]
         /\ \A f \in Fds \ {fd}: fds'[f] = fds[f]
<1> DEFINE new == [host |-> h, asked |-> x, actual |-> y, hooked |-> hooked]
<1>1. fds' = [fds EXCEPT ![fd] = new] /\ fds = [f \in Fds |-> fds[f]]
  BY DEF Open, SocketTypeOK
<1>2. new \in [host: Hosts, asked: Addr, actual: Addr, hooked: BOOLEAN]
  OBVIOUS
<1> HIDE DEF new
<1>3. fds' = [f \in Fds |-> IF f = fd THEN new ELSE fds[f]]
  BY <1>1
<1> QED BY <1>2, <1>3 DEF SocketTypeOK, new

\* A socket that is opened without being recorded owes nothing to the table.
LEMMA UnrecordedStep ==
  ASSUME SocketInv, NEW fd \in Fds, NEW h \in Hosts, NEW x \in Addr, NEW y \in Addr,
         Open(fd, h, x, y, FALSE), sockets' = sockets, evicted' = evicted \ {fd}
  PROVE  SocketInv'
<1> USE DEF SocketInv
<1>1. SocketTypeOK'
  BY OpenFacts DEF SocketTypeOK
<1>2. ~fds'[fd].hooked /\ \A f \in Fds \ {fd}: fds'[f] = fds[f]
  <2> DEFINE new == [host |-> h, asked |-> x, actual |-> y, hooked |-> FALSE]
  <2>1. fds' = [fds EXCEPT ![fd] = new] /\ fds = [f \in Fds |-> fds[f]]
    BY DEF Open, SocketTypeOK
  <2>2. ~new.hooked
    OBVIOUS
  <2> HIDE DEF new
  <2> QED BY <2>1, <2>2
<1>3. RecordInv'
  BY <1>2 DEF RecordInv
<1> QED BY <1>1, <1>3

\* A redirected socket is recorded; a full table is dropped first, and what is
\* still open of it is known to be.
LEMMA TrackFacts ==
  ASSUME SocketTypeOK, NEW fd \in Fds, NEW x \in Addr
  PROVE  /\ DOMAIN Track(fd, x) = {fd} \cup (IF Full THEN {} ELSE DOMAIN sockets)
         /\ IsFiniteSet(DOMAIN Track(fd, x))
         /\ \A f \in DOMAIN Track(fd, x): Track(fd, x)[f] \in Addr
         /\ Cardinality(DOMAIN Track(fd, x)) <= MaxTracked + 1
         /\ Track(fd, x)[fd] = x
         /\ ~Full => \A f \in DOMAIN sockets \ {fd}: Track(fd, x)[f] = sockets[f]
<1>1. MaxTracked \in Nat
  BY TrackedAssumption
<1>2. CASE Full
  <2>1. Track(fd, x) = [f \in {fd} |-> x]
    BY <1>2 DEF Track, With, Nothing
  <2>2. IsFiniteSet({fd}) /\ Cardinality({fd}) = 1
    BY FS_Singleton
  <2> QED BY <1>1, <1>2, <2>1, <2>2
<1>3. CASE ~Full
  <2>1. Track(fd, x) = [f \in DOMAIN sockets \cup {fd} |-> IF f = fd THEN x ELSE sockets[f]]
    BY <1>3 DEF Track, With
  <2>2. IsFiniteSet(DOMAIN sockets) /\ Cardinality(DOMAIN sockets) \in Nat
    BY FS_CardinalityType DEF SocketTypeOK
  <2>3. Cardinality(DOMAIN sockets) <= MaxTracked
    BY <1>1, <1>3, <2>2 DEF Full
  <2>4. /\ IsFiniteSet(DOMAIN sockets \cup {fd})
        /\ Cardinality(DOMAIN sockets \cup {fd}) <= Cardinality(DOMAIN sockets) + 1
    <3>1. Cardinality(DOMAIN sockets \cup {fd}) =
            IF fd \in DOMAIN sockets THEN Cardinality(DOMAIN sockets)
            ELSE Cardinality(DOMAIN sockets) + 1
      BY <2>2, FS_AddElement
    <3> QED BY <2>2, <3>1, FS_AddElement
  <2>5. Cardinality(DOMAIN sockets \cup {fd}) <= MaxTracked + 1
    BY <1>1, <2>2, <2>3, <2>4, FS_CardinalityType
  <2>6. \A f \in DOMAIN sockets: sockets[f] \in Addr
    BY DEF SocketTypeOK
  <2> QED BY <1>3, <2>1, <2>4, <2>5, <2>6
<1> QED BY <1>2, <1>3

\* connect, the only way to a record.
LEMMA ConnectStep ==
  ASSUME SocketInv, NEW t, NEW fd \in Fds, NEW h \in Hosts, NEW how,
         Connect(t, fd, h, how)
  PROVE  SocketInv'
<1> USE DEF SocketInv
<1> DEFINE x == Resolved(h, how)
           r == Redirected(x, "connect")
<1>1. x \in Addr /\ Actual(x, "connect") \in Addr /\ r \in BOOLEAN
  BY ResolvedFacts, ActualFacts DEF Redirected, Hooked
<1>2. Open(fd, h, x, Actual(x, "connect"), r)
  BY DEF Connect
<1>3. IF r
      THEN /\ sockets' = Track(fd, x)
           /\ evicted' = (IF Full THEN evicted \cup DOMAIN sockets ELSE evicted) \ {fd}
      ELSE sockets' = sockets /\ evicted' = evicted \ {fd}
  BY DEF Connect
<1> HIDE DEF x, r
<1>4. CASE ~r
  <2>1. Open(fd, h, x, Actual(x, "connect"), FALSE)
    BY <1>1, <1>2, <1>4
  <2> QED BY <1>1, <1>3, <1>4, <2>1, UnrecordedStep
<1>5. CASE r
  <2>1. /\ sockets' = Track(fd, x)
        /\ evicted' = (IF Full THEN evicted \cup DOMAIN sockets ELSE evicted) \ {fd}
    BY <1>3, <1>5
  <2>2. /\ fds' = [f \in Fds |-> fds'[f]]
        /\ \A f \in Fds: fds'[f] = Closed
             \/ fds'[f] \in [host: Hosts, asked: Addr, actual: Addr, hooked: BOOLEAN]
        /\ fds'[fd] = [host |-> h, asked |-> x, actual |-> Actual(x, "connect"),
                       hooked |-> r]
        /\ \A f \in Fds \ {fd}: fds'[f] = fds[f]
    BY <1>1, <1>2, OpenFacts
  <2>3. /\ DOMAIN sockets' = {fd} \cup (IF Full THEN {} ELSE DOMAIN sockets)
        /\ IsFiniteSet(DOMAIN sockets')
        /\ \A f \in DOMAIN sockets': sockets'[f] \in Addr
        /\ Cardinality(DOMAIN sockets') <= MaxTracked + 1
        /\ sockets'[fd] = x
        /\ ~Full => \A f \in DOMAIN sockets \ {fd}: sockets'[f] = sockets[f]
    <3> DEFINE track == Track(fd, x)
    <3>1. /\ DOMAIN track = {fd} \cup (IF Full THEN {} ELSE DOMAIN sockets)
          /\ IsFiniteSet(DOMAIN track)
          /\ \A f \in DOMAIN track: track[f] \in Addr
          /\ Cardinality(DOMAIN track) <= MaxTracked + 1
          /\ track[fd] = x
          /\ ~Full => \A f \in DOMAIN sockets \ {fd}: track[f] = sockets[f]
      BY <1>1, TrackFacts
    <3>2. sockets' = track
      BY <2>1
    <3> HIDE DEF track
    <3> QED BY <3>1, <3>2
  <2>4. SocketTypeOK'
    BY <2>1, <2>2, <2>3 DEF SocketTypeOK
  <2>5. RecordInv'
    <3> SUFFICES ASSUME NEW f \in Fds, fds'[f] # Closed, fds'[f].hooked, f \notin evicted'
                 PROVE  f \in DOMAIN sockets' /\ sockets'[f] = fds'[f].asked
      BY DEF RecordInv
    <3>1. CASE f = fd
      BY <2>2, <2>3, <3>1
    <3>2. CASE f # fd
      <4>1. fds'[f] = fds[f] /\ f \notin evicted
        BY <2>1, <2>2, <3>2
      <4>2. f \in DOMAIN sockets /\ sockets[f] = fds[f].asked
        BY <4>1 DEF RecordInv
      <4>3. ~Full
        BY <2>1, <3>2, <4>2
      <4> QED BY <2>3, <3>2, <4>1, <4>2, <4>3
    <3> QED BY <3>1, <3>2
  <2> QED BY <2>4, <2>5
<1> QED BY <1>4, <1>5

\* What connects without the layer's record: connectx, libc inside a hook, the
\* application to the daemon as its proxy.
LEMMA OtherConnectsStep ==
  ASSUME SocketInv, NEW t, NEW fd \in Fds, NEW h \in Hosts, NEW how,
         Connectx(t, fd, h, how) \/ ConnectInside(t, fd, h) \/ ConnectToProxy(t, fd, h)
  PROVE  SocketInv'
<1>1. CASE Connectx(t, fd, h, how)
  BY <1>1, ResolvedFacts, ActualFacts, UnrecordedStep DEF Connectx
<1>2. CASE ConnectInside(t, fd, h)
  <2>1. A(h, "https") \in Addr
    BY DEF A, Addr
  <2> QED BY <1>2, <2>1, UnrecordedStep DEF ConnectInside
<1>3. CASE ConnectToProxy(t, fd, h)
  <2>1. A(Loopback, "other") \in Addr
    BY DEF A, Addr
  <2> QED BY <1>3, <2>1, UnrecordedStep DEF ConnectToProxy
<1> QED BY <1>1, <1>2, <1>3

\* A record outlives its socket.
LEMMA CloseStep ==
  ASSUME SocketInv, NEW fd \in Fds, Close(fd)
  PROVE  SocketInv'
<1> USE DEF SocketInv
<1>1. /\ fds' = [f \in Fds |-> IF f = fd THEN Closed ELSE fds[f]]
      /\ sockets' = sockets /\ evicted' = evicted
  BY DEF Close, SocketTypeOK
<1>2. SocketTypeOK'
  BY <1>1 DEF SocketTypeOK
<1>3. RecordInv'
  BY <1>1 DEF RecordInv
<1> QED BY <1>2, <1>3

-----------------------------------------------------------------------------
(* The layer. *)

\* Before anything was resolved or connected.
LEMMA LayerInitInv == LayerInit => HeapInv /\ SocketInv
<1> SUFFICES ASSUME LayerInit PROVE HeapInv /\ SocketInv
  OBVIOUS
<1> USE DEF LayerInit
<1>1. HeapTypeOK
  BY DEF HeapTypeOK, Idle
<1>2. OwnerInv
  BY DEF OwnerInv, Idle
<1>3. SocketTypeOK
  <2>1. DOMAIN sockets = {} /\ IsFiniteSet({}) /\ Cardinality({}) = 0
    BY FS_EmptySet
  <2> QED BY <2>1, TrackedAssumption DEF SocketTypeOK
<1>4. RecordInv
  BY DEF RecordInv
<1> QED BY <1>1, <1>2, <1>3, <1>4 DEF HeapInv, SocketInv

\* Every step of the instance is one of these, for the layer.
LEMMA LayerCases ==
  ASSUME Next
  PROVE  \/ UNCHANGED layerVars
         \/ /\ UNCHANGED socketVars
            /\ \E t \in Threads: \/ ResolveHere(t) \/ ResolveThere(t)
                                 \/ ResolvedThere(t) \/ Freed(t)
                                 \/ \E b \in Blocks: Free(t, b) \/ FreeUnhooked(b)
         \/ /\ UNCHANGED heapVars
            /\ \E t \in Threads, fd \in Fds, h \in Hosts:
                 \/ \E how: Connect(t, fd, h, how) \/ Connectx(t, fd, h, how)
                 \/ ConnectInside(t, fd, h) \/ ConnectToProxy(t, fd, h)
         \/ UNCHANGED heapVars /\ \E fd \in Fds: Close(fd)
<1> USE DEF heapVars, socketVars, layerVars, unchangedHeap, unchangedSockets
<1>1. CASE Opening
  <2>1. PICK t \in Threads, fd \in Fds, h \in Hosts:
          \/ \E how: Connect(t, fd, h, how)
          \/ \E how: Connectx(t, fd, h, how)
          \/ ConnectToProxy(t, fd, h)
    BY <1>1 DEF Opening
  <2>2. UNCHANGED heapVars
    BY <2>1 DEF Connect, Connectx, ConnectToProxy
  <2> QED BY <2>1, <2>2
<1>2. CASE \E fd \in Fds: Hung(fd)
  BY <1>2 DEF Hung, Close
<1>3. CASE Names
  <2>1. PICK t \in Threads:
          \/ ResolveHere(t) \/ ResolveThere(t) \/ ResolvedThere(t) \/ Freed(t)
          \/ \E b \in Blocks: Free(t, b) \/ FreeUnhooked(b)
          \/ \E fd \in Fds, h \in Hosts: ConnectInside(t, fd, h)
    BY <1>3 DEF Names
  <2>2. CASE \E fd \in Fds, h \in Hosts: ConnectInside(t, fd, h)
    BY <2>2 DEF ConnectInside
  <2>3. CASE ResolveHere(t) \/ ResolveThere(t) \/ ResolvedThere(t) \/ Freed(t)
    BY <2>3 DEF ResolveHere, ResolveThere, ResolvedThere, Freed
  <2>4. CASE \E b \in Blocks: Free(t, b) \/ FreeUnhooked(b)
    BY <2>4 DEF Free, FreeUnhooked
  <2> QED BY <2>1, <2>2, <2>3, <2>4
<1>4. CASE UNCHANGED layerVars
  BY <1>4
<1> QED BY <1>1, <1>2, <1>3, <1>4 DEF Next

\* A step of either part of the layer leaves the invariant of the other alone.
LEMMA LayerNextInv ==
  HeapInv /\ SocketInv /\ [Next]_vars => (HeapInv /\ SocketInv)'
<1> SUFFICES ASSUME HeapInv, SocketInv, [Next]_vars
             PROVE  HeapInv' /\ SocketInv'
  OBVIOUS
<1>1. UNCHANGED heapVars => HeapInv'
  BY DEF heapVars, HeapInv, HeapTypeOK, OwnerInv
<1>2. UNCHANGED socketVars => SocketInv'
  BY DEF socketVars, SocketInv, SocketTypeOK, RecordInv
<1>3. CASE UNCHANGED layerVars
  BY <1>1, <1>2, <1>3 DEF layerVars, heapVars, socketVars
<1>4. ASSUME UNCHANGED socketVars, NEW t \in Threads,
             \/ ResolveHere(t) \/ ResolveThere(t) \/ ResolvedThere(t) \/ Freed(t)
             \/ \E b \in Blocks: Free(t, b) \/ FreeUnhooked(b)
      PROVE  HeapInv' /\ SocketInv'
  BY <1>2, <1>4, ResolveStep, FreedStep, FreeStep
<1>5. ASSUME UNCHANGED heapVars, NEW t \in Threads, NEW fd \in Fds, NEW h \in Hosts,
             \/ \E how: Connect(t, fd, h, how) \/ Connectx(t, fd, h, how)
             \/ ConnectInside(t, fd, h) \/ ConnectToProxy(t, fd, h)
      PROVE  HeapInv' /\ SocketInv'
  BY <1>1, <1>5, ConnectStep, OtherConnectsStep
<1>6. CASE UNCHANGED heapVars /\ \E fd \in Fds: Close(fd)
  BY <1>1, <1>6, CloseStep
<1>7. CASE UNCHANGED vars
  BY <1>3, <1>7 DEF vars
<1> QED BY <1>3, <1>4, <1>5, <1>6, <1>7, LayerCases

\* The inductive invariant holds of the layer, whatever the daemon does.
THEOREM LayerInvariance == Spec => [](HeapInv /\ SocketInv)
<1>1. Init => HeapInv /\ SocketInv
  BY LayerInitInv DEF Init
<1> QED BY <1>1, LayerNextInv, PTL DEF Spec

\* An application is told the peer it asked for, on every socket that was
\* redirected and is not known to have been dropped with a full table, for any
\* number of threads and descriptors and any size of the table.
THEOREM PeersAreBelieved == Spec => []PeersBelieved
<1>1. SocketInv => PeersBelieved
  BY DEF SocketInv, RecordInv, PeersBelieved, getpeername
<1> QED BY <1>1, LayerInvariance, PTL

\* A block in the layer's table is the layer's, and one that is being freed
\* goes to the allocator it came from.
THEOREM BlocksFreedByOwner == Spec => []FreedByOwner
<1>1. HeapInv => FreedByOwner
  BY DEF HeapInv, OwnerInv, FreedByOwner
<1> QED BY <1>1, LayerInvariance, PTL

-----------------------------------------------------------------------------
(* The inductive invariant of the daemon's side, in parts. *)

\* What may have been read of a connection, and the connection.
Readings == UNION {[1 .. n -> 1 .. 3]: n \in 0 .. 3}
Connection ==
  [stage: D!Stages, via: {"listener", "connect"}, host: Hosts, hello: D!Hellos,
   target: Hosts \cup {None, D!Listener}, taken: 0 .. 3, prefix: 0 .. 2,
   pos: 0 .. 2, got: Readings,
   request: D!Request \cup {None}]

\* The first n pieces of what the client sends.
First(n) == SubSeq(D!Pieces, 1, n)

\* What is peeked at the daemon's listener is kept, unread.
KeptInv(r) ==
  /\ r.stage \in {"accepted", "asked"} => r.taken = 0 /\ r.prefix = 0
  /\ r.stage \in {"accepted", "asked", "peeked", "dialing"} =>
       r.pos = 0 /\ r.got = <<>> /\ r.taken = r.prefix
  /\ r.stage = "tunnel" => r.got = First(r.taken)
  /\ r.stage \in {"handshake", "mitm"} =>
       /\ r.pos <= r.prefix /\ r.prefix <= r.taken
       /\ r.pos < r.prefix => r.taken = r.prefix
       /\ r.got = First(IF r.pos < r.prefix THEN r.pos ELSE r.taken)
  /\ r.stage = "served" => r.got = D!Pieces
  /\ r.stage = "gone" => r.got = <<>>

\* It goes to the host it names, and is decrypted only if that is listed.
RoutedInv(r) ==
  /\ r.stage \in {"dialing", "tunnel"} /\ (r.via = "connect" \/ r.hello = "sni") =>
       r.target = r.host \/ r.host = None
  /\ r.stage \in {"handshake", "mitm", "served"} /\ mode.kind # "daemon" =>
       mode.mitm /\ r.host \in MITM_HOSTS
  /\ r.stage = "served" => r.request.to = r.host

Fine(r) == r \in Connection /\ KeptInv(r) /\ RoutedInv(r)

TunnelInv ==
  /\ mode \in Modes
  /\ conn = [c \in Followed |-> conn[c]]
  /\ \A c \in Followed: conn[c] = None \/ Fine(conn[c])

-----------------------------------------------------------------------------
(* Pieces. *)

\* The pieces come in order, each once.
LEMMA PiecesFacts ==
  /\ First(0) = <<>> /\ First(3) = D!Pieces
  /\ \A n \in 0 .. 3: First(n) \in [1 .. n -> 1 .. 3] /\ Len(First(n)) = n
  /\ \A n \in 0 .. 2: Append(First(n), D!Pieces[n + 1]) = First(n + 1)
  /\ \A p \in 0 .. 2, n \in 1 .. 2: p + n <= 2 =>
       First(p) \o SubSeq(D!Pieces, p + 1, p + n) = First(p + n)
<1> DEFINE S == 1 .. 3
<1>1. D!Pieces \in Seq(S) /\ Len(D!Pieces) = 3
  BY DEF D!Pieces
<1>2. \A i \in 1 .. 3: D!Pieces[i] \in S
  BY DEF D!Pieces
<1>3. First(0) = <<>>
  BY SubSeqEmpty DEF First
<1>4. First(3) = D!Pieces
  BY <1>1, SubSeqFull DEF First
<1>5. ASSUME NEW n \in 0 .. 3
      PROVE  First(n) \in Seq(S) /\ First(n) \in [1 .. n -> S] /\ Len(First(n)) = n
  <2>1. \A i \in 1 .. n: D!Pieces[i] \in S
    BY <1>2
  <2>2. First(n) \in Seq(S) /\ Len(First(n)) = n
    BY <2>1, SubSeqProperties DEF First
  <2> QED BY <2>2, LenProperties
<1>6. ASSUME NEW n \in 0 .. 2
      PROVE  Append(First(n), D!Pieces[n + 1]) = First(n + 1)
  <2>1. First(n) \in Seq(S) /\ D!Pieces[n + 1] \in S
    BY <1>5, <1>2
  <2>2. SubSeq(D!Pieces, 1, n + 1) =
          SubSeq(D!Pieces, 1, (n + 1) - 1) \o <<D!Pieces[n + 1]>>
    BY <1>1, SubSeqRecursiveSecond
  <2>3. (n + 1) - 1 = n
    OBVIOUS
  <2> QED BY <2>1, <2>2, <2>3, AppendIsConcat DEF First
<1>7. ASSUME NEW p \in 0 .. 2, NEW n \in 1 .. 2, p + n <= 2
      PROVE  First(p) \o SubSeq(D!Pieces, p + 1, p + n) = First(p + n)
  <2>1. p \in 1 - 1 .. 3 /\ p + n \in p .. 3 /\ 1 \in 1 .. 3 + 1
    BY <1>7
  <2> QED BY <1>1, <2>1, ConcatAdjacentSubSeq DEF First
<1> QED BY <1>3, <1>4, <1>5, <1>6, <1>7

\* Some number of first pieces is what may have been read.
LEMMA GotFacts == (\A n \in 0 .. 3: First(n) \in Readings) /\ <<>> \in Readings
BY PiecesFacts DEF Readings

-----------------------------------------------------------------------------
(* Each step of a connection. *)

\* A connection that a step leaves fine leaves them all fine.
LEMMA StepFacts ==
  ASSUME TunnelInv, NEW k \in Followed, NEW new, Fine(new),
         conn' = [conn EXCEPT ![k] = new], mode' = mode
  PROVE  TunnelInv'
<1>1. conn' = [j \in Followed |-> IF j = k THEN new ELSE conn[j]]
  BY DEF TunnelInv
<1>2. \A j \in Followed: conn'[j] = None \/ Fine(conn'[j])
  BY <1>1 DEF TunnelInv
<1>3. \A j \in Followed: Fine(conn'[j]) => Fine(conn[j])'
  BY DEF Fine, Connection, KeptInv, RoutedInv, First
<1>4. conn' = [j \in Followed |-> conn'[j]]
  BY <1>1
<1> QED BY <1>2, <1>3, <1>4 DEF TunnelInv

\* A connection arrives with nothing read of it.
LEMMA ArrivesStep ==
  ASSUME TunnelInv, NEW k \in Followed, NEW h \in Hosts, NEW hello \in D!Hellos,
         NEW via \in {"listener", "connect"}, D!Arrives(k, h, hello, via)
  PROVE  TunnelInv'
<1> DEFINE new ==
      [stage |-> IF via = "connect" THEN "asked" ELSE "accepted", via |-> via,
       host |-> h, hello |-> hello, target |-> None, taken |-> 0, prefix |-> 0,
       pos |-> 0, got |-> <<>>, request |-> None]
<1>1. conn' = [conn EXCEPT ![k] = new] /\ mode' = mode
  BY DEF D!Arrives
<1>2. <<>> \in Readings
  BY GotFacts
<1>3. new \in Connection
  BY <1>2 DEF Connection, D!Stages
<1>4. KeptInv(new) /\ RoutedInv(new)
  BY DEF KeptInv, RoutedInv
<1> HIDE DEF new
<1> QED BY <1>1, <1>3, <1>4, StepFacts DEF Fine

\* A connection that ends has nothing left.
LEMMA GoneFacts ==
  ASSUME TunnelInv, NEW k \in Followed, Fine(conn[k])
  PROVE  Fine(D!Gone(k))
<1> DEFINE r == conn[k]
           new == D!Gone(k)
<1>1. r \in Connection
  BY DEF Fine
<1>2. new \in Connection /\ new.stage = "gone" /\ new.got = <<>>
  BY <1>1, GotFacts DEF D!Gone, Connection, D!Stages
<1> HIDE DEF new
<1>3. Fine(new)
  BY <1>2 DEF Fine, KeptInv, RoutedInv
<1> QED BY <1>3 DEF new

\* What the daemon calls a connection is its host, or nothing.
LEMMA NameFacts ==
  ASSUME NEW k
  PROVE  D!Name(k) = IF conn[k].via = "connect" \/ conn[k].hello = "sni"
                     THEN conn[k].host ELSE None
BY DEF D!Name

\* The peek keeps what it has read; rigor daemon accepts all unseen.
LEMMA AcceptStep ==
  ASSUME TunnelInv, NEW k \in Followed, conn[k] # None, D!Peek(k) \/ D!AcceptAll(k)
  PROVE  TunnelInv'
<1> DEFINE r == conn[k]
<1>1. r \in Connection /\ KeptInv(r) /\ RoutedInv(r)
  BY DEF TunnelInv, Fine
<1>2. CASE D!Peek(k)
  <2> DEFINE n == IF r.hello = "no tls" THEN 1 ELSE 2
             new == [r EXCEPT !.stage = "peeked", !.taken = n, !.prefix = n]
  <2>1. r.stage = "accepted" /\ conn' = [conn EXCEPT ![k] = new] /\ mode' = mode
    BY <1>2 DEF D!Peek, D!Step
  <2>2. n \in 1 .. 2
    OBVIOUS
  <2> HIDE DEF n, r
  <2>3. n \in 0 .. 3 /\ n \in 0 .. 2 /\ "peeked" \in D!Stages
    BY <2>2 DEF D!Stages
  <2>4. /\ new \in Connection /\ new.stage = "peeked" /\ new.taken = n /\ new.prefix = n
        /\ new.pos = r.pos /\ new.got = r.got
    <3> HIDE DEF new
    <3> DEFINE one == [r EXCEPT !.stage = "peeked"]
               two == [one EXCEPT !.taken = n]
               three == [two EXCEPT !.prefix = n]
    <3>1. one \in Connection /\ one.stage = "peeked" /\ one.pos = r.pos /\ one.got = r.got
      BY <1>1, <2>3 DEF Connection
    <3>2. new = three
      BY <1>1 DEF new, Connection
    <3> HIDE DEF one
    <3>3. /\ two \in Connection /\ two.stage = "peeked" /\ two.taken = n
          /\ two.pos = r.pos /\ two.got = r.got
      BY <3>1, <2>3 DEF Connection
    <3> HIDE DEF two
    <3>4. /\ three \in Connection /\ three.stage = "peeked" /\ three.taken = n
          /\ three.prefix = n /\ three.pos = r.pos /\ three.got = r.got
      BY <3>3, <2>3 DEF Connection
    <3> QED BY <3>2, <3>4
  <2>5. r.pos = 0 /\ r.got = <<>>
    BY <1>1, <2>1 DEF KeptInv
  <2> HIDE DEF new
  <2>6. Fine(new)
    BY <2>4, <2>5 DEF Fine, KeptInv, RoutedInv
  <2> USE DEF r
  <2> QED BY <2>1, <2>6, StepFacts
<1>3. CASE D!AcceptAll(k)
  <2> DEFINE new == [r EXCEPT !.stage = "handshake"]
  <2>1. /\ r.stage = "accepted" /\ conn' = [conn EXCEPT ![k] = new] /\ mode' = mode
        /\ mode.kind = "daemon"
    BY <1>3 DEF D!AcceptAll, D!Goes, D!Step
  <2>2. /\ new \in Connection /\ new.stage = "handshake" /\ new.taken = r.taken
        /\ new.prefix = r.prefix /\ new.pos = r.pos /\ new.got = r.got
    BY <1>1 DEF Connection, D!Stages
  <2>3. r.pos = 0 /\ r.got = First(0) /\ r.taken = 0 /\ r.prefix = 0
    BY <1>1, <2>1, PiecesFacts DEF KeptInv
  <2> HIDE DEF new
  <2>4. KeptInv(new) /\ RoutedInv(new)
    BY <2>1, <2>2, <2>3 DEF KeptInv, RoutedInv
  <2> QED BY <2>1, <2>2, <2>4, StepFacts DEF Fine
<1> QED BY <1>2, <1>3

\* A connection whose name is listed is decrypted, if --mitm is set; any other
\* goes where it names, what was peeked being kept for it.
LEMMA RouteStep ==
  ASSUME TunnelInv, NEW k \in Followed, conn[k] # None, D!Route(k)
  PROVE  TunnelInv'
<1> DEFINE r == conn[k]
<1>1. r \in Connection /\ KeptInv(r) /\ RoutedInv(r) /\ Fine(r)
  BY DEF TunnelInv, Fine
<1>2. r.stage \in {"peeked", "asked"}
  BY DEF D!Route
<1>3. /\ r.pos = 0 /\ r.got = First(0) /\ r.got = <<>>
      /\ r.taken = r.prefix /\ r.prefix \in 0 .. 2
  BY <1>1, <1>2, PiecesFacts DEF KeptInv, Connection
<1>4. CASE D!should_mitm_target(D!Name(k)) /\ D!Certificate(k)
  <2> DEFINE new == [r EXCEPT !.stage = "handshake"]
  <2>1. conn' = [conn EXCEPT ![k] = new] /\ mode' = mode
    BY <1>4 DEF D!Route, D!Step
  <2>2. /\ new \in Connection /\ new.stage = "handshake" /\ new.taken = r.taken
        /\ new.prefix = r.prefix /\ new.pos = r.pos /\ new.got = r.got
        /\ new.host = r.host
    BY <1>1 DEF Connection, D!Stages
  <2>3. mode.mitm /\ r.host \in MITM_HOSTS
    BY <1>4, NameFacts, ListedAssumption DEF D!should_mitm_target
  <2> HIDE DEF new
  <2>4. KeptInv(new) /\ RoutedInv(new)
    BY <1>3, <2>2, <2>3 DEF KeptInv, RoutedInv
  <2> QED BY <2>1, <2>2, <2>4, StepFacts DEF Fine
<1>5. CASE D!should_mitm_target(D!Name(k)) /\ ~D!Certificate(k)
  <2>1. conn' = [conn EXCEPT ![k] = D!Gone(k)] /\ mode' = mode
    BY <1>5 DEF D!Route, D!Step
  <2> QED BY <1>1, <2>1, GoneFacts, StepFacts
<1>6. CASE ~D!should_mitm_target(D!Name(k))
  <2> DEFINE to == IF D!Name(k) = None THEN D!Listener ELSE D!Name(k)
             new == [r EXCEPT !.stage = "dialing", !.target = to]
  <2>1. conn' = [conn EXCEPT ![k] = new] /\ mode' = mode
    BY <1>6 DEF D!Route, D!Step
  <2>2. to \in Hosts \cup {None, D!Listener}
    BY <1>1, NameFacts DEF Connection
  <2>3. r.via = "connect" \/ r.hello = "sni" => to = r.host \/ r.host = None
    BY NameFacts
  <2> HIDE DEF to
  <2>4. /\ new \in Connection /\ new.stage = "dialing" /\ new.taken = r.taken
        /\ new.prefix = r.prefix /\ new.pos = r.pos /\ new.got = r.got
        /\ new.host = r.host /\ new.via = r.via /\ new.hello = r.hello
        /\ new.target = to
    BY <1>1, <2>2 DEF Connection, D!Stages
  <2> HIDE DEF new
  <2>5. KeptInv(new) /\ RoutedInv(new)
    BY <1>3, <2>3, <2>4 DEF KeptInv, RoutedInv
  <2> QED BY <2>1, <2>4, <2>5, StepFacts DEF Fine
<1> QED BY <1>4, <1>5, <1>6

\* Dialled, the host is sent what was peeked, first.
LEMMA DialStep ==
  ASSUME TunnelInv, NEW k \in Followed, conn[k] # None, D!Dial(k)
  PROVE  TunnelInv'
<1> DEFINE r == conn[k]
           new == [r EXCEPT !.stage = "tunnel", !.got = First(r.prefix)]
<1>1. r \in Connection /\ KeptInv(r) /\ RoutedInv(r)
  BY DEF TunnelInv, Fine
<1>2. r.stage = "dialing" /\ conn' = [conn EXCEPT ![k] = new] /\ mode' = mode
  BY DEF D!Dial, D!Step, First
<1>3. r.taken = r.prefix /\ First(r.prefix) \in Readings
  BY <1>1, <1>2, GotFacts DEF KeptInv, Connection
<1>4. /\ new \in Connection /\ new.stage = "tunnel" /\ new.taken = r.taken
      /\ new.got = First(r.prefix) /\ new.host = r.host /\ new.via = r.via
      /\ new.hello = r.hello /\ new.target = r.target
  BY <1>1, <1>3 DEF Connection, D!Stages
<1> HIDE DEF new
<1>5. KeptInv(new) /\ RoutedInv(new)
  BY <1>1, <1>2, <1>3, <1>4 DEF KeptInv, RoutedInv
<1> QED BY <1>2, <1>4, <1>5, StepFacts DEF Fine

\* One more piece off the socket.
LEMMA FromSocketFacts ==
  ASSUME NEW r \in Connection, r.taken < 3, r.got = First(r.taken)
  PROVE  LET new == D!FromSocket(r) IN
         /\ new \in Connection /\ new.taken = r.taken + 1 /\ new.got = First(r.taken + 1)
         /\ new.stage = r.stage /\ new.prefix = r.prefix /\ new.pos = r.pos
         /\ new.host = r.host /\ new.via = r.via /\ new.hello = r.hello
         /\ new.target = r.target /\ new.request = r.request
<1>1. r.taken \in 0 .. 2 /\ r.taken + 1 \in 0 .. 3
  BY DEF Connection
<1>2. Append(r.got, D!Pieces[r.taken + 1]) = First(r.taken + 1)
  BY <1>1, PiecesFacts
<1>3. First(r.taken + 1) \in Readings
  BY <1>1, GotFacts
<1> DEFINE one == [r EXCEPT !.taken = r.taken + 1]
           two == [one EXCEPT !.got = First(r.taken + 1)]
<1>4. D!FromSocket(r) = two
  BY <1>2 DEF D!FromSocket, Connection
<1>5. /\ one \in Connection /\ one.taken = r.taken + 1
      /\ one.stage = r.stage /\ one.prefix = r.prefix /\ one.pos = r.pos
      /\ one.host = r.host /\ one.via = r.via /\ one.hello = r.hello
      /\ one.target = r.target /\ one.request = r.request
  BY <1>1 DEF Connection
<1> HIDE DEF one
<1>6. /\ two \in Connection /\ two.taken = r.taken + 1 /\ two.got = First(r.taken + 1)
      /\ two.stage = r.stage /\ two.prefix = r.prefix /\ two.pos = r.pos
      /\ two.host = r.host /\ two.via = r.via /\ two.hello = r.hello
      /\ two.target = r.target /\ two.request = r.request
  BY <1>3, <1>5 DEF Connection
<1> QED BY <1>4, <1>6

\* The tunnel copies in order.
LEMMA CopyStep ==
  ASSUME TunnelInv, NEW k \in Followed, conn[k] # None, D!Copy(k)
  PROVE  TunnelInv'
<1> DEFINE r == conn[k]
           new == D!FromSocket(r)
<1>1. r \in Connection /\ KeptInv(r) /\ RoutedInv(r)
  BY DEF TunnelInv, Fine
<1>2. /\ r.stage = "tunnel" /\ conn' = [conn EXCEPT ![k] = new] /\ mode' = mode
      /\ r.taken < 3
  BY DEF D!Copy, D!Step
<1>3. r.got = First(r.taken)
  BY <1>1, <1>2 DEF KeptInv
<1> HIDE DEF r
<1>4. /\ new \in Connection /\ new.taken = r.taken + 1 /\ new.got = First(r.taken + 1)
      /\ new.stage = r.stage /\ new.host = r.host /\ new.via = r.via
      /\ new.hello = r.hello /\ new.target = r.target
  BY <1>1, <1>2, <1>3, FromSocketFacts
<1> HIDE DEF new
<1>5. KeptInv(new) /\ RoutedInv(new)
  BY <1>1, <1>2, <1>4 DEF KeptInv, RoutedInv
<1> QED BY <1>2, <1>4, <1>5, StepFacts DEF Fine, r

\* What was peeked is read first, in as many parts as the reader likes, and
\* then the rest: no piece twice, none left out.
LEMMA ReadStep ==
  ASSUME TunnelInv, NEW k \in Followed, conn[k] # None, D!Read(k)
  PROVE  TunnelInv'
<1> DEFINE r == conn[k]
<1>1. r \in Connection /\ KeptInv(r) /\ RoutedInv(r)
  BY DEF TunnelInv, Fine
<1>2. r.stage \in {"handshake", "mitm"}
  BY DEF D!Read, D!Step
<1>3. CASE r.pos < r.prefix
  <2>1. PICK n \in 1 .. r.prefix - r.pos: D!Step(k, {"handshake", "mitm"}, D!Replay(r, n))
    BY <1>3 DEF D!Read
  <2> DEFINE new == D!Replay(r, n)
  <2>2. conn' = [conn EXCEPT ![k] = new] /\ mode' = mode
    BY <2>1 DEF D!Step
  <2>3. r.taken = r.prefix /\ r.got = First(r.pos)
    BY <1>1, <1>2, <1>3 DEF KeptInv
  <2> HIDE DEF r
  <2>4. /\ r.pos \in 0 .. 2 /\ r.prefix \in 0 .. 2 /\ n \in 1 .. 2
        /\ r.pos + n <= r.prefix /\ r.pos + n \in 0 .. 2
    BY <1>1, <1>3 DEF Connection
  <2>5. r.got \o SubSeq(D!Pieces, r.pos + 1, r.pos + n) = First(r.pos + n)
    <3> DEFINE p == r.pos
    <3>1. p \in 0 .. 2 /\ p + n <= 2
      BY <2>4
    <3> HIDE DEF p
    <3>2. First(p) \o SubSeq(D!Pieces, p + 1, p + n) = First(p + n)
      BY <2>4, <3>1, PiecesFacts
    <3> QED BY <2>3, <3>2 DEF p
  <2>6. First(r.pos + n) \in Readings
    BY <2>4, GotFacts
  <2> DEFINE one == [r EXCEPT !.pos = r.pos + n]
             two == [one EXCEPT !.got = First(r.pos + n)]
  <2>7. new = two
    BY <1>1, <2>5 DEF D!Replay, Connection
  <2>8. /\ one \in Connection /\ one.pos = r.pos + n
        /\ one.stage = r.stage /\ one.prefix = r.prefix /\ one.taken = r.taken
        /\ one.host = r.host /\ one.request = r.request
    BY <1>1, <2>4 DEF Connection
  <2> HIDE DEF one, new
  <2>9. /\ two \in Connection /\ two.pos = r.pos + n /\ two.got = First(r.pos + n)
        /\ two.stage = r.stage /\ two.prefix = r.prefix /\ two.taken = r.taken
        /\ two.host = r.host /\ two.request = r.request
    BY <2>6, <2>8 DEF Connection
  <2> HIDE DEF two
  <2>10. KeptInv(two) /\ RoutedInv(two)
    BY <1>1, <1>2, <2>3, <2>4, <2>9 DEF KeptInv, RoutedInv
  <2> USE DEF r
  <2> QED BY <2>2, <2>7, <2>9, <2>10, StepFacts DEF Fine
<1>4. CASE ~(r.pos < r.prefix)
  <2> DEFINE new == D!FromSocket(r)
  <2>1. conn' = [conn EXCEPT ![k] = new] /\ mode' = mode /\ r.taken < 3
    BY <1>4 DEF D!Read, D!Step
  <2>2. r.got = First(r.taken) /\ r.prefix <= r.taken /\ r.pos <= r.prefix
    BY <1>1, <1>2, <1>4 DEF KeptInv
  <2> HIDE DEF r
  <2>3. /\ new \in Connection /\ new.taken = r.taken + 1 /\ new.got = First(r.taken + 1)
        /\ new.stage = r.stage /\ new.prefix = r.prefix /\ new.pos = r.pos
        /\ new.host = r.host
    BY <1>1, <2>1, <2>2, FromSocketFacts
  <2>4. r.taken \in 0 .. 3 /\ r.prefix \in 0 .. 2 /\ r.pos \in 0 .. 2
    BY <1>1 DEF Connection
  <2> HIDE DEF new
  <2>5. KeptInv(new) /\ RoutedInv(new)
    BY <1>1, <1>2, <1>4, <2>2, <2>3, <2>4 DEF KeptInv, RoutedInv
  <2> USE DEF r
  <2> QED BY <2>1, <2>3, <2>5, StepFacts DEF Fine
<1> QED BY <1>3, <1>4

\* The handshake reads and no more.
LEMMA HandshakeStep ==
  ASSUME TunnelInv, NEW k \in Followed, conn[k] # None, D!Handshake(k)
  PROVE  TunnelInv'
<1> DEFINE r == conn[k]
           new == [r EXCEPT !.stage = "mitm"]
<1>1. r \in Connection /\ KeptInv(r) /\ RoutedInv(r)
  BY DEF TunnelInv, Fine
<1>2. r.stage = "handshake" /\ conn' = [conn EXCEPT ![k] = new] /\ mode' = mode
  BY DEF D!Handshake, D!Goes, D!Step
<1>3. /\ new \in Connection /\ new.stage = "mitm" /\ new.taken = r.taken
      /\ new.prefix = r.prefix /\ new.pos = r.pos /\ new.got = r.got
      /\ new.host = r.host
  BY <1>1 DEF Connection, D!Stages
<1> HIDE DEF new
<1>4. KeptInv(new) /\ RoutedInv(new)
  BY <1>1, <1>2, <1>3 DEF KeptInv, RoutedInv
<1> QED BY <1>2, <1>3, <1>4, StepFacts DEF Fine

\* A request is served when it has arrived, and goes to the host it was for.
LEMMA ServeStep ==
  ASSUME TunnelInv, NEW k \in Followed, conn[k] # None, D!Serve(k)
  PROVE  TunnelInv'
<1> DEFINE r == conn[k]
<1>1. r \in Connection /\ KeptInv(r) /\ RoutedInv(r)
  BY DEF TunnelInv, Fine
<1>2. PICK path \in {"llm", "internal", "other"}:
        /\ Len(r.got) = 3
        /\ D!Step(k, {"mitm"}, [r EXCEPT !.stage = "served",
                                         !.request = D!Dispatch(k, path)])
  BY DEF D!Serve
<1> DEFINE q == D!Dispatch(k, path)
           one == [r EXCEPT !.stage = "served"]
           new == [one EXCEPT !.request = q]
<1>3. r.stage = "mitm" /\ conn' = [conn EXCEPT ![k] = new] /\ mode' = mode
  BY <1>1, <1>2 DEF D!Step, Connection
<1>4. q \in D!Request /\ q.to = r.host
  BY <1>1 DEF D!Dispatch, D!Request, Connection
<1>5. r.got = D!Pieces
  <2> DEFINE m == IF r.pos < r.prefix THEN r.pos ELSE r.taken
  <2>1. r.got = First(m)
    BY <1>1, <1>3 DEF KeptInv
  <2>2. m \in 0 .. 3
    BY <1>1 DEF Connection
  <2> HIDE DEF m
  <2>3. Len(First(m)) = m
    BY <2>2, PiecesFacts
  <2>4. m = 3
    BY <1>2, <2>1, <2>3
  <2> QED BY <2>1, <2>4, PiecesFacts
<1> HIDE DEF r, q
<1>6. /\ one \in Connection /\ one.stage = "served" /\ one.got = r.got
      /\ one.host = r.host
  BY <1>1 DEF Connection, D!Stages
<1> HIDE DEF one
<1>7. /\ new \in Connection /\ new.stage = "served" /\ new.got = r.got
      /\ new.host = r.host /\ new.request = q
  BY <1>4, <1>6 DEF Connection
<1> HIDE DEF new
<1>8. KeptInv(new) /\ RoutedInv(new)
  BY <1>1, <1>3, <1>4, <1>5, <1>7 DEF KeptInv, RoutedInv
<1> USE DEF r
<1> QED BY <1>3, <1>7, <1>8, StepFacts DEF Fine

\* A connection that ends.
LEMMA EndsStep ==
  ASSUME TunnelInv, NEW k \in Followed, conn[k] # None, D!Ends(k)
  PROVE  TunnelInv'
<1>1. Fine(conn[k])
  BY DEF TunnelInv
<1>2. conn' = [conn EXCEPT ![k] = D!Gone(k)] /\ mode' = mode
  BY DEF D!Ends, D!Step
<1> QED BY <1>1, <1>2, GoneFacts, StepFacts

\* The steps of the daemon keep its invariant.
LEMMA TunnelStepInv == TunnelInv /\ D!TunnelNext => TunnelInv'
<1> SUFFICES ASSUME TunnelInv, D!TunnelNext PROVE TunnelInv'
  OBVIOUS
<1>1. PICK k \in Followed:
        conn[k] # None /\ (\/ D!Ends(k) \/ D!Peek(k) \/ D!AcceptAll(k) \/ D!Route(k)
                           \/ D!Dial(k) \/ D!Copy(k) \/ D!Read(k) \/ D!Handshake(k)
                           \/ D!Serve(k))
  BY DEF D!TunnelNext
<1>2. CASE D!Ends(k)
  BY <1>1, <1>2, EndsStep
<1>3. CASE D!Peek(k) \/ D!AcceptAll(k)
  BY <1>1, <1>3, AcceptStep
<1>4. CASE D!Route(k)
  BY <1>1, <1>4, RouteStep
<1>5. CASE D!Dial(k)
  BY <1>1, <1>5, DialStep
<1>6. CASE D!Copy(k)
  BY <1>1, <1>6, CopyStep
<1>7. CASE D!Read(k)
  BY <1>1, <1>7, ReadStep
<1>8. CASE D!Handshake(k)
  BY <1>1, <1>8, HandshakeStep
<1>9. CASE D!Serve(k)
  BY <1>1, <1>9, ServeStep
<1> QED BY <1>1, <1>2, <1>3, <1>4, <1>5, <1>6, <1>7, <1>8, <1>9

\* A descriptor that is closed is forgotten.
LEMMA HungStep ==
  ASSUME TunnelInv, NEW fd, Hung(fd)
  PROVE  TunnelInv'
<1>1. mode' = mode /\ conn' = [j \in Followed |-> IF j = fd THEN None ELSE conn[j]]
  BY DEF Hung
<1>2. \A j \in Followed: conn'[j] = None \/ conn'[j] = conn[j]
  BY <1>1
<1>3. \A j \in Followed: Fine(conn[j]) /\ conn'[j] = conn[j] => Fine(conn[j])'
  BY <1>1 DEF Fine, Connection, KeptInv, RoutedInv, First
<1>4. conn' = [j \in Followed |-> conn'[j]]
  BY <1>1
<1> QED BY <1>1, <1>2, <1>3, <1>4 DEF TunnelInv

\* Nothing of the daemon changes.
LEMMA TunnelRests == TunnelInv /\ UNCHANGED <<mode, conn>> => TunnelInv'
BY DEF TunnelInv, Fine, Connection, KeptInv, RoutedInv, First

\* Every step of the process and of its daemon keeps the daemon's invariant.
LEMMA TunnelNextInv == TunnelInv /\ [Next]_vars => TunnelInv'
<1> SUFFICES ASSUME TunnelInv, [Next]_vars PROVE TunnelInv'
  OBVIOUS
<1>1. CASE Opening
  <2>1. PICK t \in Threads, fd \in Fds, h \in Hosts:
          \/ \E how \in {"getaddrinfo", "gethostbyname", "own", "ipv6"}: Arrived(fd, h)
          \/ ConnectToProxy(t, fd, h)
    BY <1>1 DEF Opening
  <2>2. CASE Arrived(fd, h)
    <3>1. CASE UNCHANGED <<mode, conn>>
      BY <3>1, TunnelRests
    <3>2. ASSUME fd \in Followed, NEW hello \in D!Hellos,
                 D!Arrives(fd, h, hello, "listener")
          PROVE  TunnelInv'
      BY <3>2, ArrivesStep
    <3> QED BY <2>2, <3>1, <3>2 DEF Arrived
  <2>3. CASE ConnectToProxy(t, fd, h)
    <3>1. fd \in Followed
      BY <2>3 DEF ConnectToProxy
    <3>2. PICK hello \in {"sni", "no tls"}: D!Arrives(fd, h, hello, "connect")
      BY <2>3 DEF ConnectToProxy
    <3>3. hello \in D!Hellos
      BY DEF D!Hellos
    <3> QED BY <3>1, <3>2, <3>3, ArrivesStep
  <2> QED BY <2>1, <2>2, <2>3
<1>2. CASE \E fd \in Fds: Hung(fd)
  BY <1>2, HungStep
<1>3. CASE Names /\ UNCHANGED <<mode, conn>>
  BY <1>3, TunnelRests
<1>4. CASE D!TunnelNext /\ UNCHANGED layerVars
  BY <1>4, TunnelStepInv
<1>5. CASE UNCHANGED vars
  BY <1>5, TunnelRests DEF vars
<1> QED BY <1>1, <1>2, <1>3, <1>4, <1>5 DEF Next

\* The inductive invariant holds of the daemon, whatever the process does.
THEOREM TunnelInvariance == Spec => []TunnelInv
<1>1. Init => TunnelInv
  BY DEF Init, D!TunnelInit, TunnelInv
<1> QED BY <1>1, TunnelNextInv, PTL DEF Spec

\* Only what is listed is decrypted; a connection that names its host is
\* tunnelled there; what was peeked arrives first and once, however the reads
\* fall: for any hosts and any number of connections.
THEOREM BytesDelivered == Spec => []Delivered
<1>1. ASSUME TunnelInv, NEW k \in Followed, conn[k] # None
      PROVE  LET r == conn[k] IN
             /\ r.got = SubSeq(D!Pieces, 1, Len(r.got))
             /\ r.stage \in {"handshake", "mitm", "served"} /\ mode.kind # "daemon" =>
                  mode.mitm /\ r.host \in MITM_HOSTS
             /\ r.stage = "tunnel" /\ D!Name(k) # None =>
                  r.target = r.host /\ Len(r.got) = r.taken
             /\ r.stage = "served" => r.request.to = r.host /\ r.got = D!Pieces
  <2> DEFINE r == conn[k]
  <2>1. r \in Connection /\ KeptInv(r) /\ RoutedInv(r)
    BY <1>1 DEF TunnelInv, Fine
  <2>2. PICK m \in 0 .. 3: r.got = First(m) /\ (r.stage = "tunnel" => m = r.taken)
    <3>1. r.taken \in 0 .. 3 /\ r.prefix \in 0 .. 2 /\ r.pos \in 0 .. 2 /\ r.stage \in D!Stages
      BY <2>1 DEF Connection
    <3>2. CASE r.stage \in {"accepted", "asked", "peeked", "dialing", "gone"}
      BY <2>1, <3>2, PiecesFacts DEF KeptInv
    <3>3. CASE r.stage = "tunnel"
      BY <2>1, <3>1, <3>3 DEF KeptInv
    <3>4. CASE r.stage \in {"handshake", "mitm"}
      <4> DEFINE m == IF r.pos < r.prefix THEN r.pos ELSE r.taken
      <4>1. r.got = First(m) /\ m \in 0 .. 3 /\ r.stage # "tunnel"
        BY <2>1, <3>1, <3>4 DEF KeptInv
      <4> HIDE DEF m
      <4> QED BY <4>1
    <3>5. CASE r.stage = "served"
      BY <2>1, <3>5, PiecesFacts DEF KeptInv
    <3> QED BY <3>1, <3>2, <3>3, <3>4, <3>5 DEF D!Stages
  <2>3. Len(r.got) = m
    BY <2>2, PiecesFacts
  <2>4. r.got = SubSeq(D!Pieces, 1, Len(r.got))
    BY <2>2, <2>3 DEF First
  <2>5. r.stage = "tunnel" /\ D!Name(k) # None => r.target = r.host
    BY <2>1, NameFacts DEF RoutedInv
  <2>6. r.stage = "served" => r.request.to = r.host /\ r.got = D!Pieces
    BY <2>1 DEF KeptInv, RoutedInv
  <2>7. r.stage \in {"handshake", "mitm", "served"} /\ mode.kind # "daemon" =>
          mode.mitm /\ r.host \in MITM_HOSTS
    BY <2>1 DEF RoutedInv
  <2> QED BY <2>2, <2>3, <2>4, <2>5, <2>6, <2>7
<1>2. TunnelInv => Delivered
  BY <1>1 DEF Delivered, D!Delivered
<1> QED BY <1>2, TunnelInvariance, PTL

\* The type invariant of the composition.
THEOREM TypeCorrect == Spec => []TypeOK
<1>1. ASSUME HeapInv, SocketInv PROVE LayerTypeOK
  <2>1. Range(sockets) \subseteq Addr
    BY <1>1 DEF SocketInv, SocketTypeOK, Range
  <2>2. FreedByOwner
    BY <1>1 DEF HeapInv, OwnerInv, FreedByOwner
  <2> QED BY <1>1, <2>1, <2>2
          DEF LayerTypeOK, HeapInv, HeapTypeOK, SocketInv, SocketTypeOK
<1>2. TunnelInv => D!TunnelTypeOK
  BY DEF TunnelInv, Fine, Connection, Readings, D!TunnelTypeOK
<1>3. HeapInv /\ SocketInv /\ TunnelInv => TypeOK
  BY <1>1, <1>2 DEF TypeOK
<1> QED BY <1>3, LayerInvariance, TunnelInvariance, PTL
=============================================================================
