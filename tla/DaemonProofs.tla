---------------------------- MODULE DaemonProofs ----------------------------
(***************************************************************************)
(* Proofs about Lifecycle and StopHook, side by side as in MCDaemon, for   *)
(* every set of daemons and process ids and every configuration.           *)
(***************************************************************************)
EXTENDS MCDaemon, FiniteSetTheorems, TLAPS

-----------------------------------------------------------------------------
(* The daemons: the inductive invariant, in parts. *)

\* The phases from which a session that was marked does not come back.
Over == {"cleaning", "unadvertised", "gone"}

\* What a daemon has read of the registry and will write back is as true as
\* the registry: a session that ended meanwhile is missing in it, none is
\* marked too early.
ReadMeansOver == \A d \in Daemons: \A i \in DOMAIN contents[d]:
  contents[d][i].ended => phase[contents[d][i].id] \in Over

LifeInv ==
  /\ LifeTypeOK
  /\ ReadMeansOver
  /\ EndedMeansOver

\* A step that only takes daemons onwards, and drops what some of them have
\* read, preserves it.
LEMMA OnwardsPreserves ==
  ASSUME LifeInv, LifeTypeOK', registry' = registry,
         \A d \in Daemons: phase[d] \in Over => phase'[d] \in Over,
         \A d \in Daemons: contents'[d] \in {contents[d], <<>>}
  PROVE  LifeInv'
<1> USE DEF LifeInv
<1>1. ReadMeansOver'
  <2> SUFFICES ASSUME NEW d \in Daemons, NEW i \in DOMAIN contents'[d],
                      contents'[d][i].ended
               PROVE  phase'[contents'[d][i].id] \in Over
    BY DEF ReadMeansOver
  <2>1. contents'[d] = contents[d]
    OBVIOUS
  <2>2. contents[d][i] \in Entry
    BY <2>1 DEF LifeTypeOK
  <2> QED BY <2>1, <2>2 DEF ReadMeansOver, Entry
<1>2. EndedMeansOver'
  <2> SUFFICES ASSUME NEW i \in DOMAIN registry, registry[i] # Malformed,
                      registry[i].ended
               PROVE  phase'[registry[i].id] \in Over
    BY DEF EndedMeansOver, Over
  <2>1. registry[i] \in Entry
    BY DEF LifeTypeOK
  <2> QED BY <2>1 DEF EndedMeansOver, Entry, Over
<1> QED BY <1>1, <1>2

\* A process that is over has nothing read and is nowhere.
LEMMA ExitFacts ==
  ASSUME LifeTypeOK, NEW d \in Daemons, Exit(d)
  PROVE  /\ phase' \in [Daemons -> Phases]
         /\ pid' \in [Daemons -> Pids \cup {NoPid}]
         /\ contents' \in [Daemons -> Seq(Entry)]
         /\ \A e \in Daemons: phase[e] \in Over => phase'[e] \in Over
         /\ \A e \in Daemons: contents'[e] \in {contents[e], <<>>}
<1> USE DEF LifeTypeOK, Exit, Goto, Over, Phases
<1>1. contents' \in [Daemons -> Seq(Entry)]
  <2>1. <<>> \in Seq(Entry)
    OBVIOUS
  <2> QED BY <2>1
<1>2. phase' \in [Daemons -> Phases] /\ pid' \in [Daemons -> Pids \cup {NoPid}]
  OBVIOUS
<1>3. ASSUME NEW e \in Daemons, phase[e] \in Over PROVE phase'[e] \in Over
  BY <1>3
<1>4. ASSUME NEW e \in Daemons PROVE contents'[e] \in {contents[e], <<>>}
  OBVIOUS
<1> QED BY <1>1, <1>2, <1>3, <1>4

\* The steps of one daemon that leave the registry alone.
LEMMA StartStep ==
  ASSUME LifeInv, NEW d \in Daemons,
         Start(d) /\ serve_pid' \in Pids \cup {NoPid}
  PROVE  LifeInv'
<1> USE DEF LifeInv, Start, Goto
<1>1. LifeTypeOK'
  BY DEF LifeTypeOK, Phases
<1>2. \A e \in Daemons: phase[e] \in Over => phase'[e] \in Over
  BY DEF LifeTypeOK, Over
<1> QED BY <1>1, <1>2, OnwardsPreserves

\* Loading the configuration, or failing to.
LEMMA LoadsStep ==
  ASSUME LifeInv, NEW d \in Daemons, Load(d) \/ LoadFails(d)
  PROVE  LifeInv'
<1>1. CASE Load(d)
  <2> USE <1>1 DEF LifeInv, Load, Goto
  <2>1. LifeTypeOK'
    BY DEF LifeTypeOK, Phases
  <2>2. \A e \in Daemons: phase[e] \in Over => phase'[e] \in Over
    BY DEF LifeTypeOK, Over
  <2> QED BY <2>1, <2>2, OnwardsPreserves
<1>2. CASE LoadFails(d)
  <2>1. Exit(d)
    BY <1>2 DEF LoadFails
  <2>2. LifeTypeOK' /\ registry' = registry
    BY <1>2, <2>1, ExitFacts DEF LifeInv, LoadFails, LifeTypeOK
  <2> QED BY <2>1, <2>2, ExitFacts, OnwardsPreserves DEF LifeInv
<1> QED BY <1>1, <1>2

\* A newline and the pid files change nothing of the sessions.
LEMMA PidFileStep ==
  ASSUME LifeInv, NEW d \in Daemons,
         \/ EndSessionLine(d) \/ WritePidFile(d) \/ WriteServePid(d)
         \/ RemovePidFile(d) \/ Finish(d)
  PROVE  LifeInv'
<1> USE DEF LifeInv, EndSessionLine, WritePidFile, WriteServePid, RemovePidFile, Finish, Goto
<1>1. LifeTypeOK'
  <2>1. phase' \in [Daemons -> Phases]
    BY DEF LifeTypeOK, Phases
  <2>2. /\ daemon_pid' \in Pids \cup {NoPid} /\ serve_pid' \in Pids \cup {NoPid}
        /\ unended' \in BOOLEAN
    BY DEF LifeTypeOK
  <2> QED BY <2>1, <2>2 DEF LifeTypeOK
<1>2. \A e \in Daemons: phase[e] \in Over => phase'[e] \in Over
  BY DEF LifeTypeOK, Over
<1> QED BY <1>1, <1>2, OnwardsPreserves

\* A daemon leaves, or is killed, at any point.
LEMMA LeavesStep ==
  ASSUME LifeInv, NEW d \in Daemons, Leave(d) \/ Kill(d)
  PROVE  LifeInv'
<1>1. Exit(d) /\ registry' = registry
  BY DEF Leave, Kill
<1>2. LifeTypeOK'
  BY <1>1, ExitFacts DEF LifeInv, Leave, Kill, LifeTypeOK
<1> QED BY <1>1, <1>2, ExitFacts, OnwardsPreserves DEF LifeInv

\* A session that is appended has not ended, and a line that two of them share
\* is no session.
LEMMA RegisterSessionStep ==
  ASSUME LifeInv, NEW d \in Daemons, RegisterSession(d)
  PROVE  LifeInv'
<1> USE DEF LifeInv, RegisterSession, Goto
<1>1. Session(d) \in Entry /\ ~Session(d).ended
  BY DEF Session, Entry
<1> DEFINE X == Entry \cup {Malformed}
           rest == Front(registry)
<1>0. /\ rest \in Seq(X) /\ \A i \in DOMAIN rest: i \in DOMAIN registry /\ rest[i] = registry[i]
      /\ DOMAIN Append(rest, Malformed) = 1 .. Len(rest) + 1
      /\ DOMAIN rest = 1 .. Len(rest) /\ Len(rest) \in Nat
      /\ Append(rest, Malformed)[Len(rest) + 1] = Malformed
      /\ \A i \in 1 .. Len(rest): Append(rest, Malformed)[i] = rest[i]
  <2>1. registry \in Seq(X)
    BY DEF LifeTypeOK
  <2> HIDE DEF LifeInv, RegisterSession, Goto, X
  <2>2. rest \in Seq(X) /\ \A i \in DOMAIN rest: i \in DOMAIN registry /\ rest[i] = registry[i]
    BY <2>1 DEF Front
  <2> HIDE DEF rest
  <2> QED BY <2>2
<1> HIDE DEF rest
<1>2. LifeTypeOK'
  <2>1. registry' \in Seq(X)
    BY <1>0, <1>1 DEF LifeTypeOK, rest
  <2> QED BY <2>1 DEF LifeTypeOK, Phases
<1>3. \A e \in Daemons: phase[e] \in Over => phase'[e] \in Over
  BY DEF LifeTypeOK, Over
<1>4. ReadMeansOver'
  <2> SUFFICES ASSUME NEW e \in Daemons, NEW i \in DOMAIN contents[e],
                      contents[e][i].ended
               PROVE  phase'[contents[e][i].id] \in Over
    BY DEF ReadMeansOver
  <2>1. contents[e][i] \in Entry
    BY DEF LifeTypeOK
  <2> QED BY <1>3, <2>1 DEF ReadMeansOver, Entry
<1>5. EndedMeansOver'
  <2> SUFFICES ASSUME NEW i \in DOMAIN registry', registry'[i] # Malformed,
                      registry'[i].ended
               PROVE  phase'[registry'[i].id] \in Over
    BY DEF EndedMeansOver, Over
  <2>1. i \in DOMAIN registry /\ registry'[i] = registry[i]
    <3>1. CASE unended
      <4>1. registry' = Append(rest, Malformed)
        BY <3>1 DEF rest
      <4>2. i \in 1 .. Len(rest)
        BY <1>0, <4>1
      <4> QED BY <1>0, <4>1, <4>2
    <3>2. CASE ~unended
      BY <1>1, <3>2 DEF LifeTypeOK
    <3> QED BY <3>1, <3>2
  <2>2. registry[i] \in Entry
    BY <2>1 DEF LifeTypeOK
  <2> QED BY <1>3, <2>1, <2>2 DEF EndedMeansOver, Entry, Over
<1> QED BY <1>2, <1>4, <1>5

\* A registry with a line that is no session is left alone; else what is read
\* is entries only.
LEMMA ReadRegistryStep ==
  ASSUME LifeInv, NEW d \in Daemons, ReadRegistry(d)
  PROVE  LifeInv'
<1> USE DEF LifeInv, ReadRegistry, Goto
<1>1. \A e \in Daemons: phase[e] \in Over => phase'[e] \in Over
  BY DEF LifeTypeOK, Over, AfterUpdate
<1>2. CASE Malformed \in ToSet(registry)
  <2>1. LifeTypeOK'
    BY <1>2 DEF LifeTypeOK, Phases, AfterUpdate
  <2> QED BY <1>1, <1>2, <2>1, OnwardsPreserves
<1>3. CASE Malformed \notin ToSet(registry)
  <2>1. \A i \in DOMAIN registry: registry[i] \in Entry /\ registry[i] # Malformed
    BY <1>3 DEF LifeTypeOK, ToSet
  <2>2. registry \in Seq(Entry)
    <3>1. registry \in Seq(Entry \cup {Malformed})
      BY DEF LifeTypeOK
    <3> HIDE DEF LifeInv, ReadRegistry, Goto
    <3> QED BY <2>1, <3>1
  <2>3. LifeTypeOK'
    <3>1. phase' \in [Daemons -> Phases]
      BY <1>3 DEF LifeTypeOK, Phases
    <3>2. contents' \in [Daemons -> Seq(Entry)]
      BY <1>3, <2>2 DEF LifeTypeOK
    <3>3. UNCHANGED <<pid, daemon_pid, serve_pid, registry, unended, stopper>>
      BY <1>3
    <3> QED BY <3>1, <3>2, <3>3 DEF LifeTypeOK
  <2>4. EndedMeansOver'
    BY <1>1, <2>1 DEF EndedMeansOver, Entry, Over
  <2>5. ReadMeansOver'
    <3> SUFFICES ASSUME NEW e \in Daemons, NEW i \in DOMAIN contents'[e],
                        contents'[e][i].ended
                 PROVE  phase'[contents'[e][i].id] \in Over
      BY DEF ReadMeansOver
    <3>1. CASE e = d
      <4>1. contents'[e] = registry
        BY <1>3, <3>1 DEF LifeTypeOK
      <4> QED BY <2>1, <2>4, <4>1 DEF EndedMeansOver, Over
    <3>2. CASE e # d
      <4>1. contents'[e] = contents[e] /\ contents[e][i] \in Entry
        BY <1>3, <3>2 DEF LifeTypeOK
      <4> QED BY <1>1, <4>1 DEF ReadMeansOver, Entry
    <3> QED BY <3>1, <3>2
  <2> QED BY <2>3, <2>4, <2>5
<1> QED BY <1>2, <1>3

\* What is written back marks the daemon's own session, which is then over,
\* and nobody else's.
LEMMA WriteRegistryStep ==
  ASSUME LifeInv, NEW d \in Daemons, WriteRegistry(d)
  PROVE  LifeInv'
<1> USE DEF LifeInv, WriteRegistry, Goto
<1>1. /\ \A e \in Daemons: phase[e] \in Over => phase'[e] \in Over
      /\ phase'[d] \in Over
  BY DEF LifeTypeOK, Over, AfterUpdate
<1>2. contents[d] \in Seq(Entry)
  BY DEF LifeTypeOK
<1>3. ASSUME NEW i \in DOMAIN registry'
      PROVE  /\ registry'[i] \in Entry
             /\ registry'[i].ended => phase'[registry'[i].id] \in Over
  <2>1. i \in DOMAIN contents[d] /\ contents[d][i] \in Entry
    BY <1>2 DEF Ended
  <2>2. CASE contents[d][i].id = d
    <3>1. registry'[i] = [contents[d][i] EXCEPT !.ended = TRUE]
      BY <2>1, <2>2 DEF Ended
    <3> QED BY <1>1, <2>1, <2>2, <3>1 DEF Entry
  <2>3. CASE contents[d][i].id # d
    <3>1. registry'[i] = contents[d][i]
      BY <2>1, <2>3 DEF Ended
    <3> QED BY <1>1, <2>1, <3>1 DEF Entry, ReadMeansOver
  <2> QED BY <2>2, <2>3
<1>4. registry' \in Seq(Entry \cup {Malformed})
  <2>1. DOMAIN registry' = 1 .. Len(contents[d]) /\ Len(contents[d]) \in Nat
    BY <1>2 DEF Ended
  <2>2. registry' = [i \in 1 .. Len(contents[d]) |-> registry'[i]]
    BY <1>2, <2>1 DEF Ended
  <2> QED BY <1>3, <2>1, <2>2
<1>5. contents' \in [Daemons -> Seq(Entry)]
  <2>1. <<>> \in Seq(Entry)
    OBVIOUS
  <2> QED BY <2>1 DEF LifeTypeOK
<1>6. LifeTypeOK'
  BY <1>4, <1>5 DEF LifeTypeOK, Phases, AfterUpdate
<1>7. EndedMeansOver'
  BY <1>3 DEF EndedMeansOver, Over
<1>8. ReadMeansOver'
  <2> SUFFICES ASSUME NEW e \in Daemons, NEW i \in DOMAIN contents'[e],
                      contents'[e][i].ended
               PROVE  phase'[contents'[e][i].id] \in Over
    BY DEF ReadMeansOver
  <2>1. contents'[e] = contents[e] /\ contents[e][i] \in Entry
    BY DEF LifeTypeOK
  <2> QED BY <1>1, <2>1 DEF ReadMeansOver, Entry
<1> QED BY <1>6, <1>7, <1>8

\* `rigor serve stop` sends a daemon to its end or kills it.
LEMMA StopperStep ==
  ASSUME LifeInv, FindServe \/ Terminate \/ SeeItGone \/ ForceKill
  PROVE  LifeInv'
<1> USE DEF LifeInv
<1>1. CASE FindServe \/ SeeItGone
  <2>1. LifeTypeOK'
    BY <1>1 DEF LifeTypeOK, FindServe, SeeItGone
  <2> QED BY <1>1, <2>1, OnwardsPreserves DEF FindServe, SeeItGone
<1>2. CASE ForceKill
  <2>1. PICK d \in Daemons: Exit(d)
    BY <1>2 DEF ForceKill
  <2>2. LifeTypeOK' /\ registry' = registry
    BY <1>2, <2>1, ExitFacts DEF ForceKill, LifeTypeOK
  <2> QED BY <2>1, <2>2, ExitFacts, OnwardsPreserves
<1>3. CASE Terminate
  <2>1. stopper' \in [step : {"idle", "found", "waiting"}, pid : Pids \cup {NoPid}]
    BY <1>3 DEF Terminate, LifeTypeOK
  <2>2. CASE UNCHANGED <<phase, pid, contents>>
    <3>1. LifeTypeOK' /\ registry' = registry
      BY <1>3, <2>1, <2>2 DEF Terminate, LifeTypeOK
    <3> QED BY <2>2, <3>1, OnwardsPreserves
  <2>3. ASSUME NEW d \in Daemons, phase[d] = "serving", Goto(d, "ending"),
               UNCHANGED <<pid, contents>>
        PROVE  LifeInv'
    <3>1. LifeTypeOK' /\ registry' = registry
      BY <1>3, <2>1, <2>3 DEF Terminate, LifeTypeOK, Goto, Phases
    <3>2. \A e \in Daemons: phase[e] \in Over => phase'[e] \in Over
      BY <2>3 DEF LifeTypeOK, Over, Goto
    <3> QED BY <2>3, <3>1, <3>2, OnwardsPreserves
  <2>4. ASSUME NEW d \in Daemons, Exit(d) PROVE LifeInv'
    <3>1. LifeTypeOK' /\ registry' = registry
      BY <1>3, <2>1, <2>4, ExitFacts DEF Terminate, LifeTypeOK
    <3> QED BY <2>4, <3>1, ExitFacts, OnwardsPreserves
  <2> QED BY <1>3, <2>2, <2>3, <2>4 DEF Terminate
<1> QED BY <1>1, <1>2, <1>3

\* No session is marked before there is one.
LEMMA LifeInitInv == LifeInit => LifeInv
<1> SUFFICES ASSUME LifeInit PROVE LifeInv
  OBVIOUS
<1> USE DEF LifeInit
<1>1. /\ registry \in Seq(Entry \cup {Malformed})
      /\ \A i \in DOMAIN registry: registry[i] = Malformed
  <2>1. CASE registry = <<>>
    BY <2>1
  <2>2. CASE registry = <<Malformed>>
    BY <2>2
  <2> QED BY <2>1, <2>2
<1>2. contents \in [Daemons -> Seq(Entry)]
  <2>1. <<>> \in Seq(Entry)
    OBVIOUS
  <2> QED BY <2>1
<1>3. LifeTypeOK
  BY <1>1, <1>2 DEF LifeTypeOK, Phases
<1> QED BY <1>1, <1>3 DEF LifeInv, EndedMeansOver, ReadMeansOver

\* Every step of the daemons and of what stops them preserves the invariant.
LEMMA LifeStepInv == ASSUME LifeInv, LifeStep PROVE LifeInv'
<1>1. ASSUME NEW d \in Daemons, RunForeground(d) \/ RunBackground(d) PROVE LifeInv'
  <2>1. Start(d) /\ serve_pid' \in Pids \cup {NoPid}
    BY <1>1 DEF RunForeground, RunBackground, LifeInv, LifeTypeOK
  <2> QED BY <2>1, StartStep
<1>2. ASSUME NEW d \in Daemons, RegisterSession(d) PROVE LifeInv'
  BY <1>2, RegisterSessionStep
<1>3. ASSUME NEW d \in Daemons,
             \/ EndSessionLine(d) \/ WritePidFile(d) \/ WriteServePid(d)
             \/ RemovePidFile(d) \/ Finish(d)
      PROVE  LifeInv'
  BY <1>3, PidFileStep
<1>4. ASSUME NEW d \in Daemons, ReadRegistry(d) PROVE LifeInv'
  BY <1>4, ReadRegistryStep
<1>5. ASSUME NEW d \in Daemons, WriteRegistry(d) PROVE LifeInv'
  BY <1>5, WriteRegistryStep
<1>6. ASSUME NEW d \in Daemons, Leave(d) \/ Kill(d) PROVE LifeInv'
  BY <1>6, LeavesStep
<1>7. CASE FindServe \/ Terminate \/ SeeItGone \/ ForceKill
  BY <1>7, StopperStep
<1> QED BY <1>1, <1>2, <1>3, <1>4, <1>5, <1>6, <1>7 DEF LifeStep

\* The inductive invariant holds of the daemons, whatever the hook does.
THEOREM LifeInvariance == Spec => []LifeInv
<1>1. Init => LifeInv
  BY LifeInitInv DEF Init
<1>2. LifeInv /\ [Next]_vars => LifeInv'
  <2> SUFFICES ASSUME LifeInv, [Next]_vars PROVE LifeInv'
    OBVIOUS
  <2>1. CASE LifeStep
    BY <2>1, LifeStepInv
  <2>2. CASE LoadStep
    BY <2>2, LoadsStep DEF LoadStep
  <2>3. CASE UNCHANGED lifeVars
    BY <2>3 DEF lifeVars, LifeInv, LifeTypeOK, ReadMeansOver, EndedMeansOver
  <2> QED BY <2>1, <2>2, <2>3 DEF Next, vars
<1> QED BY <1>1, <1>2, PTL DEF Spec

\* A session that the registry calls ended has ended, for any number of daemons
\* that start, end, are stopped and are killed, and any reuse of process ids.
THEOREM MarkedSessionsAreOver == Spec => []EndedMeansOver
BY LifeInvariance, PTL DEF LifeInv

-----------------------------------------------------------------------------
(* Induction, by a set rather than a predicate.                            *)

\* Every set of natural numbers has a least element.
LEMMA LeastNatural ==
  ASSUME NEW T, T \subseteq Nat, T # {}
  PROVE  \E n \in T: \A m \in T: n <= m
<1> DEFINE R == OpToRel(<, Nat)
<1>1. IsWellFoundedOn(R, Nat)
  BY NatLessThanWellFounded
<1>2. \E x \in T : \A y \in T : ~ (<<y, x>> \in R)
  <2> HIDE DEF R
  <2> QED BY <1>1, WFMin
<1>3. \A x, y \in Nat: y < x => <<y, x>> \in R
  BY DEF OpToRel
<1> HIDE DEF R
<1>4. PICK n \in T: \A m \in T: <<m, n>> \notin R
  BY <1>2
<1>5. ASSUME NEW m \in T PROVE n <= m
  <2>1. n \in Nat /\ m \in Nat /\ ~(m < n)
    BY <1>3, <1>4
  <2> QED BY <2>1
<1> QED BY <1>5

\* Induction, for a set of natural numbers.
LEMMA SetInduction ==
  ASSUME NEW T, 0 \in T, \A n \in Nat: n \in T => n + 1 \in T
  PROVE  Nat \subseteq T
<1> SUFFICES ASSUME Nat \ T # {} PROVE FALSE
  OBVIOUS
<1>1. PICK n \in Nat \ T: \A m \in Nat \ T: n <= m
  BY LeastNatural
<1>2. n - 1 \in Nat
  BY <1>1
<1>3. n - 1 \in T
  BY <1>1, <1>2
<1> QED BY <1>1, <1>2, <1>3

-----------------------------------------------------------------------------
(* Strengths.                                                              *)

\* A product of two parts of a whole is a part of each.
LEMMA PartFacts ==
  ASSUME NEW n \in Nat \ {0}, NEW x \in 0 .. n, NEW y \in 0 .. n
  PROVE  /\ (x * y) \div n \in 0 .. n
         /\ (x * y) \div n <= x
         /\ (x * y) \div n <= y
<1> DEFINE q == (x * y) \div n
<1>1. q \in Int /\ n * q <= x * y
  OBVIOUS
<1>2. x * y >= 0 
  OBVIOUS
<1>3. q >= 0
  BY <1>2
<1>4. x * y <= x * n
  OBVIOUS
<1>5. x * y <= y * n
  OBVIOUS
<1> HIDE DEF q
<1>6. n * q <= n * x /\ n * q <= n * y
  BY <1>1, <1>4, <1>5
<1>7. q <= x 
  BY <1>1, <1>6
<1>8. q <= y
  BY <1>1, <1>6
<1> QED BY <1>1, <1>3, <1>7, <1>8 DEF q

\* What FoldSet computes for t from what g has for the smaller sets.
FoldStep(s, g, t) ==
  IF t = {} THEN Scale
  ELSE LET x == CHOOSE x \in t : TRUE IN (g[t \ {x}] * (Scale - s[x])) \div Scale

\* There is a function that FoldSet defines, by induction on the size of sets.
LEMMA FoldExists ==
  ASSUME NEW S, IsFiniteSet(S), NEW s
  PROVE  \E g: g = [t \in SUBSET S |-> FoldStep(s, g, t)]
<1> DEFINE Upto(n) == {t \in SUBSET S: Cardinality(t) <= n}
           Has(n) == \E g: /\ g = [t \in SUBSET S |-> g[t]]
                           /\ \A t \in Upto(n): g[t] = FoldStep(s, g, t)
           T == {n \in Nat: Has(n)}
<1>1. \A t \in SUBSET S: IsFiniteSet(t) /\ Cardinality(t) \in Nat /\ Cardinality(t) <= Cardinality(S)
  BY FS_Subset, FS_CardinalityType
<1>2. 0 \in T
  <2> DEFINE g == [t \in SUBSET S |-> Scale]
  <2>1. ASSUME NEW t \in Upto(0) PROVE t = {}
    BY <1>1, FS_EmptySet
  <2>2. \A t \in Upto(0): g[t] = FoldStep(s, g, t)
    BY <2>1 DEF FoldStep
  <2>3. g = [t \in SUBSET S |-> g[t]]
    OBVIOUS
  <2> HIDE DEF g
  <2> QED BY <2>2, <2>3
<1>3. ASSUME NEW n \in Nat, n \in T PROVE n + 1 \in T
  <2>1. PICK g: /\ g = [t \in SUBSET S |-> g[t]]
                /\ \A t \in Upto(n): g[t] = FoldStep(s, g, t)
    BY <1>3
  <2> DEFINE h == [t \in SUBSET S |-> FoldStep(s, g, t)]
  <2>2. \A t \in Upto(n): h[t] = g[t]
    BY <2>1
  <2>3. ASSUME NEW t \in Upto(n + 1) PROVE h[t] = FoldStep(s, h, t)
    <3>1. CASE t = {}
      BY <3>1 DEF FoldStep
    <3>2. CASE t # {}
      <4> DEFINE x == CHOOSE x \in t : TRUE
      <4>1. x \in t
        BY <3>2
      <4> HIDE DEF x
      <4>2. t \ {x} \in Upto(n)
        BY <1>1, <4>1, FS_RemoveElement
      <4>3. h[t \ {x}] = g[t \ {x}]
        BY <2>2, <4>2
      <4>4. h[t] = FoldStep(s, g, t)
        OBVIOUS
      <4>5. FoldStep(s, g, t) = FoldStep(s, h, t)
        BY <3>2, <4>3 DEF FoldStep, x
      <4> QED BY <4>4, <4>5
    <3> QED BY <3>1, <3>2
  <2>4. h = [t \in SUBSET S |-> h[t]]
    OBVIOUS
  <2> HIDE DEF h
  <2>5. Has(n + 1)
    BY <2>3, <2>4
  <2> HIDE DEF Has
  <2> QED BY <2>5
<1>4. Cardinality(S) \in T
  <2> HIDE DEF T
  <2> QED BY <1>2, <1>3, SetInduction, FS_CardinalityType
<1>5. PICK g: /\ g = [t \in SUBSET S |-> g[t]]
              /\ \A t \in Upto(Cardinality(S)): g[t] = FoldStep(s, g, t)
  BY <1>4
<1>6. \A t \in SUBSET S: g[t] = FoldStep(s, g, t)
  BY <1>1, <1>5
<1>7. g = [t \in SUBSET S |-> FoldStep(s, g, t)]
  BY <1>5, <1>6
<1> QED BY <1>7

\* Agg is that function at S.
LEMMA AggDef ==
  ASSUME NEW S, IsFiniteSet(S), NEW s
  PROVE  \E g: /\ g = [t \in SUBSET S |-> FoldStep(s, g, t)]
               /\ Agg(S, s) = g[S]
<1> DEFINE g == CHOOSE g: g = [t \in SUBSET S |-> FoldStep(s, g, t)]
<1>1. g = [t \in SUBSET S |-> FoldStep(s, g, t)]
  BY FoldExists
<1>2. Agg(S, s) = g[S]
  BY DEF Agg, FoldSet, MapThenFoldSet, FoldStep
<1> HIDE DEF g
<1> QED BY <1>1, <1>2

\* What remains of a strength after a set of others is a strength, and no more
\* than each of them leaves.
LEMMA AggFacts ==
  ASSUME NEW D, IsFiniteSet(D), NEW s \in [D -> Strength],
         NEW S, S \subseteq D
  PROVE  /\ Agg(S, s) \in Strength
         /\ \A k \in S: Agg(S, s) <= Scale - s[k]
<1>1. IsFiniteSet(S) /\ Scale \in Nat \ {0}
  BY FS_Subset, ArgumentationAssumption
<1>2. PICK g: /\ g = [t \in SUBSET S |-> FoldStep(s, g, t)]
              /\ Agg(S, s) = g[S]
  BY <1>1, AggDef
<1> DEFINE Fine(t) == g[t] \in Strength /\ \A k \in t: g[t] <= Scale - s[k]
           T == {n \in Nat: \A t \in SUBSET S: Cardinality(t) = n => Fine(t)}
<1>3. \A t \in SUBSET S: IsFiniteSet(t) /\ Cardinality(t) \in Nat
  BY <1>1, FS_Subset, FS_CardinalityType
<1>4. 0 \in T
  <2> SUFFICES ASSUME NEW t \in SUBSET S, Cardinality(t) = 0 PROVE Fine(t)
    OBVIOUS
  <2>1. t = {}
    BY <1>3, FS_EmptySet
  <2>2. g[t] = Scale
    BY <1>2, <2>1 DEF FoldStep
  <2> QED BY <1>1, <2>1, <2>2 DEF Strength
<1>5. ASSUME NEW n \in Nat, n \in T PROVE n + 1 \in T
  <2> SUFFICES ASSUME NEW t \in SUBSET S, Cardinality(t) = n + 1 PROVE Fine(t)
    OBVIOUS
  <2>1. t # {}
    BY FS_EmptySet
  <2> DEFINE x == CHOOSE x \in t : TRUE
             u == t \ {x}
  <2>2. x \in t
    BY <2>1
  <2>3. g[t] = (g[u] * (Scale - s[x])) \div Scale
    BY <1>2, <2>1 DEF FoldStep
  <2> HIDE DEF x
  <2>4. Cardinality(u) = n
    BY <1>3, <2>2, FS_RemoveElement
  <2>5. Fine(u)
    BY <1>5, <2>4
  <2> HIDE DEF u
  <2>6. s[x] \in Strength /\ Scale - s[x] \in 0 .. Scale
    BY <1>1, <2>2 DEF Strength
  <2>7. g[t] \in 0 .. Scale /\ g[t] <= g[u] /\ g[t] <= Scale - s[x]
    BY <1>1, <2>3, <2>5, <2>6, PartFacts DEF Strength
  <2>8. ASSUME NEW k \in t PROVE g[t] <= Scale - s[k]
    <3>1. CASE k = x
      BY <2>7, <3>1
    <3>2. CASE k # x
      <4>1. g[u] <= Scale - s[k] /\ s[k] \in Strength
        BY <2>5, <3>2 DEF u
      <4> QED BY <1>1, <2>5, <2>7, <4>1 DEF Strength
    <3> QED BY <3>1, <3>2
  <2> QED BY <2>7, <2>8 DEF Strength
<1>6. Cardinality(S) \in T
  <2> HIDE DEF T
  <2> QED BY <1>3, <1>4, <1>5, SetInduction, FS_CardinalityType
<1>7. Fine(S)
  BY <1>6
<1> QED BY <1>2, <1>7

\* Nothing counts for a whole.
LEMMA AggNothing == \A s: Agg({}, s) = Scale
<1> SUFFICES ASSUME NEW s PROVE Agg({}, s) = Scale
  OBVIOUS
<1>1. PICK g: /\ g = [t \in SUBSET {} |-> FoldStep(s, g, t)]
              /\ Agg({}, s) = g[{}]
  BY AggDef, FS_EmptySet
<1> QED BY <1>1 DEF FoldStep

\* A configuration as the loader leaves it.
IsProject(project) ==
  /\ IsFiniteSet(DOMAIN project.types)
  /\ project.types \in [DOMAIN project.types -> Epistemic]

\* A default strength is at most 0.9.
LEMMA BaseFacts ==
  ASSUME NEW type \in Epistemic
  PROVE  Base(type) \in Strength /\ 10 * Base(type) <= 9 * Scale
<1>1. Scale \in Nat \ {0}
  BY ArgumentationAssumption
<1>2. \A k \in {7, 8, 9}: (k * Scale) \div 10 \in Nat /\ 10 * ((k * Scale) \div 10) <= k * Scale
  BY <1>1
<1>3. \E k \in {7, 8, 9}: Base(type) = (k * Scale) \div 10
  BY DEF Base, Epistemic
<1> QED BY <1>1, <1>2, <1>3 DEF Strength

\* Of a valid configuration all relations are between its constraints.
LEMMA EnemiesFacts ==
  ASSUME NEW project, Validate(project), NEW k
  PROVE  /\ Attackers(project, k) \subseteq DOMAIN project.types
         /\ Supporters(project, k) \subseteq DOMAIN project.types
BY DEF Validate, Attackers, Supporters

\* A round makes strengths of strengths.
LEMMA RoundFacts ==
  ASSUME NEW project, IsProject(project), Validate(project),
         NEW s \in [DOMAIN project.types -> Strength]
  PROVE  Round(project, s) \in [DOMAIN project.types -> Strength]
<1> SUFFICES ASSUME NEW k \in DOMAIN project.types
             PROVE  Round(project, s)[k] \in Strength
  BY DEF Round
<1> DEFINE combined == Agg(Attackers(project, k), s) - Agg(Supporters(project, k), s)
           tau == Base(project.types[k])
<1>1. Scale \in Nat \ {0}
  BY ArgumentationAssumption
<1>2. combined \in (-Scale) .. Scale
  BY <1>1, EnemiesFacts, AggFacts DEF IsProject, Strength
<1>3. tau \in 0 .. Scale
  BY BaseFacts DEF IsProject, Strength
<1>4. Round(project, s)[k] = IF combined < 0
         THEN (tau * (Scale + combined)) \div Scale
         ELSE tau + ((Scale - tau) * combined) \div Scale
  BY DEF Round
<1> HIDE DEF combined, tau
<1>5. CASE combined < 0
  <2>1. Scale + combined \in 0 .. Scale
    BY <1>1, <1>2, <1>5
  <2>2. (tau * (Scale + combined)) \div Scale \in 0 .. Scale
    BY <1>1, <1>3, <2>1, PartFacts
  <2> QED BY <1>4, <1>5, <2>2 DEF Strength
<1>6. CASE ~(combined < 0)
  <2>1. combined \in 0 .. Scale /\ Scale - tau \in 0 .. Scale
    BY <1>1, <1>2, <1>3, <1>6
  <2> DEFINE q == ((Scale - tau) * combined) \div Scale
  <2>2. q \in 0 .. Scale /\ q <= Scale - tau
    BY <1>1, <2>1, PartFacts
  <2> HIDE DEF q
  <2>3. tau + q \in 0 .. Scale
    BY <1>1, <1>3, <2>2
  <2> QED BY <1>4, <1>6, <2>3 DEF Strength, q
<1> QED BY <1>5, <1>6

\* What an iteration of so many rounds from some strengths ends with.
RoundStep(project, g, n, s) ==
  IF n = 0 THEN NotConverged
  ELSE LET t == Round(project, s)
       IN  IF Settled(s, t) THEN t ELSE g[n - 1][t]

\* There is a function that the iteration defines, by induction on the rounds.
LEMMA IterateExists ==
  ASSUME NEW project, IsProject(project), Validate(project)
  PROVE  \E g: g = [n \in 0 .. MaxRounds |-> [s \in [DOMAIN project.types -> Strength] |->
                      RoundStep(project, g, n, s)]]
<1> DEFINE V == [DOMAIN project.types -> Strength]
           Has(m) == \E g: /\ g = [n \in 0 .. MaxRounds |-> [s \in V |-> g[n][s]]]
                           /\ \A n \in 0 .. MaxRounds, s \in V:
                                n <= m => g[n][s] = RoundStep(project, g, n, s)
           T == {m \in Nat: Has(m)}
<1>1. MaxRounds \in Nat
  BY ArgumentationAssumption
<1>2. 0 \in T
  <2> DEFINE g == [n \in 0 .. MaxRounds |-> [s \in V |-> NotConverged]]
  <2>1. g = [n \in 0 .. MaxRounds |-> [s \in V |-> g[n][s]]]
    OBVIOUS
  <2>2. \A n \in 0 .. MaxRounds, s \in V: n <= 0 => g[n][s] = RoundStep(project, g, n, s)
    BY DEF RoundStep
  <2> HIDE DEF g
  <2> QED BY <2>1, <2>2
<1>3. ASSUME NEW m \in Nat, m \in T PROVE m + 1 \in T
  <2>1. PICK g: /\ g = [n \in 0 .. MaxRounds |-> [s \in V |-> g[n][s]]]
                /\ \A n \in 0 .. MaxRounds, s \in V:
                     n <= m => g[n][s] = RoundStep(project, g, n, s)
    BY <1>3
  <2> DEFINE h == [n \in 0 .. MaxRounds |-> [s \in V |-> RoundStep(project, g, n, s)]]
  <2>2. \A n \in 0 .. MaxRounds, s \in V: n <= m => h[n][s] = g[n][s]
    BY <2>1
  <2>3. ASSUME NEW n \in 0 .. MaxRounds, NEW s \in V, n <= m + 1
        PROVE  h[n][s] = RoundStep(project, h, n, s)
    <3>1. CASE n = 0
      BY <3>1 DEF RoundStep
    <3>2. CASE n # 0
      <4> DEFINE t == Round(project, s)
      <4>1. t \in V
        BY RoundFacts
      <4> HIDE DEF t
      <4>2. n - 1 \in 0 .. MaxRounds /\ n - 1 <= m
        BY <1>1, <2>3, <3>2
      <4>3. h[n - 1][t] = g[n - 1][t]
        BY <2>2, <4>1, <4>2
      <4>4. h[n][s] = RoundStep(project, g, n, s)
        OBVIOUS
      <4> HIDE DEF h
      <4>5. RoundStep(project, g, n, s) = RoundStep(project, h, n, s)
        BY <3>2, <4>3 DEF RoundStep, t
      <4> QED BY <4>4, <4>5
    <3> QED BY <3>1, <3>2
  <2>4. h = [n \in 0 .. MaxRounds |-> [s \in V |-> h[n][s]]]
    OBVIOUS
  <2> HIDE DEF h
  <2>5. Has(m + 1)
    BY <2>3, <2>4
  <2> HIDE DEF Has
  <2> QED BY <2>5
<1>4. MaxRounds \in T
  <2> HIDE DEF T
  <2> QED BY <1>1, <1>2, <1>3, SetInduction
<1>5. PICK g: /\ g = [n \in 0 .. MaxRounds |-> [s \in V |-> g[n][s]]]
              /\ \A n \in 0 .. MaxRounds, s \in V:
                   n <= MaxRounds => g[n][s] = RoundStep(project, g, n, s)
  BY <1>4
<1>6. \A n \in 0 .. MaxRounds, s \in V: g[n][s] = RoundStep(project, g, n, s)
  <2> SUFFICES ASSUME NEW n \in 0 .. MaxRounds, NEW s \in V
               PROVE  g[n][s] = RoundStep(project, g, n, s)
    OBVIOUS
  <2>1. n <= MaxRounds
    BY <1>1
  <2> HIDE DEF V
  <2> QED BY <1>5, <2>1
<1>7. g = [n \in 0 .. MaxRounds |-> [s \in V |-> RoundStep(project, g, n, s)]]
  BY <1>5, <1>6
<1> QED BY <1>7

\* The strengths are what that function has for MaxRounds and the defaults.
LEMMA ComputeDef ==
  ASSUME NEW project, IsProject(project), Validate(project)
  PROVE  \E g:
    /\ g = [n \in 0 .. MaxRounds |-> [s \in [DOMAIN project.types -> Strength] |->
              RoundStep(project, g, n, s)]]
    /\ ComputeStrengths(project) =
         g[MaxRounds][[k \in DOMAIN project.types |-> Base(project.types[k])]]
<1> DEFINE g == CHOOSE g:
                  g = [n \in 0 .. MaxRounds |-> [s \in [DOMAIN project.types -> Strength] |->
                         RoundStep(project, g, n, s)]]
<1>1. g = [n \in 0 .. MaxRounds |-> [s \in [DOMAIN project.types -> Strength] |->
              RoundStep(project, g, n, s)]]
  BY IterateExists
<1>2. ComputeStrengths(project) =
         g[MaxRounds][[k \in DOMAIN project.types |-> Base(project.types[k])]]
  BY DEF ComputeStrengths, RoundStep
<1> HIDE DEF g
<1> QED BY <1>1, <1>2

\* Strengths that were computed are strengths, which the round that gave them
\* changed by less than EPSILON.
LEMMA ComputeFacts ==
  ASSUME NEW project, IsProject(project), Validate(project),
         ComputeStrengths(project) # NotConverged
  PROVE  \E s \in [DOMAIN project.types -> Strength]:
           /\ ComputeStrengths(project) = Round(project, s)
           /\ Settled(s, ComputeStrengths(project))
<1> DEFINE V == [DOMAIN project.types -> Strength]
           start == [k \in DOMAIN project.types |-> Base(project.types[k])]
           Fine(t) == t # NotConverged =>
                        \E s \in V: t = Round(project, s) /\ Settled(s, t)
<1>1. PICK g: /\ g = [n \in 0 .. MaxRounds |-> [s \in V |-> RoundStep(project, g, n, s)]]
              /\ ComputeStrengths(project) = g[MaxRounds][start]
  BY ComputeDef
<1>2. MaxRounds \in Nat
  BY ArgumentationAssumption
<1>3. start \in V
  BY BaseFacts DEF IsProject
<1> HIDE DEF start
<1> DEFINE T == {m \in Nat: \A s \in V: m <= MaxRounds => Fine(g[m][s])}
<1>4. 0 \in T
  BY <1>1, <1>2 DEF RoundStep
<1>5. ASSUME NEW m \in Nat, m \in T PROVE m + 1 \in T
  <2> SUFFICES ASSUME NEW s \in V, m + 1 <= MaxRounds PROVE Fine(g[m + 1][s])
    OBVIOUS
  <2> DEFINE t == Round(project, s)
  <2>1. t \in V
    BY RoundFacts
  <2>2. m + 1 \in 0 .. MaxRounds /\ m + 1 # 0 /\ (m + 1) - 1 = m /\ m <= MaxRounds
    BY <1>2
  <2>3. g[m + 1][s] = IF Settled(s, t) THEN t ELSE g[m][t]
    <3> DEFINE k == m + 1
    <3>1. g[k][s] = RoundStep(project, g, k, s)
      <4>1. k \in 0 .. MaxRounds
        BY <2>2
      <4> HIDE DEF t, T, Fine, k
      <4>2. g[k] = [r \in V |-> RoundStep(project, g, k, r)]
        BY <1>1, <4>1
      <4> HIDE DEF V
      <4> QED BY <4>2
    <3> QED BY <2>2, <3>1 DEF RoundStep
  <2>4. CASE Settled(s, t)
    BY <2>3, <2>4
  <2>5. CASE ~Settled(s, t)
    <3>1. Fine(g[m][t])
      BY <1>5, <2>1, <2>2
    <3> QED BY <2>3, <2>5, <3>1
  <2> QED BY <2>4, <2>5
<1>6. MaxRounds \in T
  <2> HIDE DEF T
  <2> QED BY <1>2, <1>4, <1>5, SetInduction
<1>7. Fine(g[MaxRounds][start])
  BY <1>2, <1>3, <1>6
<1> QED BY <1>1, <1>7

\* A constraint that blocks and that nothing supports has only attackers whose
\* own violation would be allowed: what each of them leaves of it bounds its
\* strength, and the last round changed none of them much.
LEMMA BlockingNeedsDefeatedAttackers ==
  ASSUME NEW project, IsProject(project), Validate(project),
         NEW result, result = ComputeStrengths(project), result # NotConverged,
         NEW x \in DOMAIN project.types, Severity(result[x]) = "block",
         Supporters(project, x) = {},
         NEW y \in Attackers(project, x)
  PROVE  Severity(result[y]) = "allow"
<1> DEFINE D == DOMAIN project.types
<1>1. PICK s \in [D -> Strength]: result = Round(project, s) /\ Settled(s, result)
  BY ComputeFacts
<1>2. Scale \in Nat \ {0}
  BY ArgumentationAssumption
<1>3. y \in D
  BY EnemiesFacts
<1>4. result \in [D -> Strength]
  BY <1>1, RoundFacts
<1> DEFINE left == Agg(Attackers(project, x), s)
           tau == Base(project.types[x])
<1>5. left \in 0 .. Scale /\ left <= Scale - s[y]
  BY AggFacts, EnemiesFacts DEF IsProject, Strength
<1>6. tau \in 0 .. Scale /\ 10 * tau <= 9 * Scale
  BY BaseFacts DEF IsProject, Strength
<1>7. result[x] = IF left - Scale < 0
                  THEN (tau * (Scale + (left - Scale))) \div Scale
                  ELSE tau + ((Scale - tau) * (left - Scale)) \div Scale
  BY <1>1, AggNothing DEF Round
<1>8. 1000 * (result[y] - s[y]) <= Scale - 1
  <2>1. 1000 * (result[y] - s[y]) \in (1 - Scale) .. (Scale - 1)
    BY <1>1, <1>3 DEF Settled
  <2> QED BY <1>2, <2>1
<1>9. result[x] \in 0 .. Scale /\ result[y] \in 0 .. Scale /\ s[y] \in 0 .. Scale
  BY <1>3, <1>4 DEF Strength
<1>10. 10 * result[x] >= 7 * Scale
  BY DEF Severity
<1> HIDE DEF left, tau
<1>11. Scale * result[x] <= tau * left
  <2>1. CASE left < Scale
    <3>1. result[x] = (tau * left) \div Scale
      BY <1>2, <1>5, <1>7, <2>1
    <3>2. tau * left \in Nat
      BY <1>2, <1>5, <1>6
    <3> QED BY <1>2, <3>1, <3>2
  <2>2. CASE left = Scale
    <3>1. (Scale - tau) * 0 = 0
      BY <1>2, <1>6
    <3>2. result[x] = tau
      BY <1>2, <1>6, <1>7, <2>2, <3>1
    <3> QED BY <1>2, <1>6, <2>2, <3>2
  <2> QED BY <1>2, <1>5, <2>1, <2>2
<1>12. 7 * Scale <= 9 * left
  <2>1. (10 * tau) * left <= (9 * Scale) * left
    BY <1>2, <1>5, <1>6
  <2>2. Scale * (7 * Scale) <= Scale * (10 * result[x])
    BY <1>2, <1>9, <1>10
  <2>3. Scale * (10 * result[x]) <= (10 * tau) * left
    BY <1>2, <1>5, <1>6, <1>9, <1>11
  <2>4. Scale * (7 * Scale) <= Scale * (9 * left)
    BY <1>2, <1>5, <1>6, <1>9, <2>1, <2>2, <2>3
  <2> DEFINE u == 7 * Scale
             v == 9 * left
  <2>5. u \in Int /\ v \in Int /\ Scale * u <= Scale * v
    BY <1>2, <1>5, <2>4
  <2> HIDE DEF u, v
  <2>6. u <= v
    BY <1>2, <2>5
  <2> QED BY <2>6 DEF u, v
<1>13. 10 * result[y] < 4 * Scale
  BY <1>2, <1>5, <1>8, <1>9, <1>12
<1>14. ~(10 * result[y] >= 7 * Scale) /\ ~(10 * result[y] >= 4 * Scale)
  BY <1>2, <1>9, <1>13
<1> QED BY <1>14 DEF Severity

-----------------------------------------------------------------------------
(* The stop hook: the inductive invariant, in parts. *)

\* What the project computes never changes, and a hook that got beyond loading
\* judges by it; one that did not has nothing to judge by.
HookInv ==
  /\ HookTypeOK
  /\ config = NoConfig \/ IsProject(config)
  /\ computed = Compute(config)
  /\ hook \in {"loaded", "judged"} => Computes /\ strengths = computed
  /\ hook \notin {"loaded", "judged"} => strengths = NotConverged /\ violated = {}

\* Strengths that were computed are those of a valid project.
LEMMA ComputedFacts ==
  ASSUME config = NoConfig \/ IsProject(config), computed = Compute(config), Computes
  PROVE  /\ IsProject(config) /\ Validate(config)
         /\ computed = ComputeStrengths(config) /\ computed # NotConverged
         /\ computed \in [DOMAIN config.types -> Strength]
<1>1. config # NoConfig /\ Validate(config) /\ computed # NotConverged
  BY DEF Compute, Computes
<1>2. computed = ComputeStrengths(config)
  BY <1>1 DEF Compute
<1>3. IsProject(config)
  BY <1>1
<1>4. PICK s \in [DOMAIN config.types -> Strength]: computed = Round(config, s)
  BY <1>1, <1>2, <1>3, ComputeFacts
<1>5. computed \in [DOMAIN config.types -> Strength]
  BY <1>1, <1>3, <1>4, RoundFacts
<1> QED BY <1>1, <1>2, <1>3, <1>5

\* A hook starts with nothing.
LEMMA HookInitInv ==
  ASSUME NEW Configs, \A cfg \in Configs: cfg = NoConfig \/ IsProject(cfg)
  PROVE  HookInit(Configs) => HookInv
BY DEF HookInit, HookInv, HookTypeOK

\* What a project computes is a function of the project.
LEMMA SameProject ==
  ASSUME config' = config
  PROVE  /\ IsProject(config)' <=> IsProject(config)
         /\ Compute(config)' = Compute(config)
<1>1. IsProject(config)' <=> IsProject(config)
  BY DEF IsProject
<1>2. Compute(config)' = Compute(config)
  BY DEF Compute, Validate, ComputeStrengths, Round, Attackers, Supporters
<1> QED BY <1>1, <1>2

\* An answer leaves nothing behind.
LEMMA AnswerStep ==
  ASSUME HookInv, NEW decision, Answer(decision)
  PROVE  HookInv'
<1>1. /\ config' = config /\ computed' = computed
      /\ hook' = "none" /\ strengths' = NotConverged /\ violated' = {}
      /\ turn' \in {"working", "over"} /\ active' \in BOOLEAN
  BY DEF Answer, HookInv, HookTypeOK
<1>2. /\ IsProject(config)' <=> IsProject(config)
      /\ Compute(config)' = Compute(config)
  BY <1>1, SameProject
<1>4. HookTypeOK'
  BY <1>1 DEF HookTypeOK
<1> QED BY <1>1, <1>2, <1>4 DEF HookInv

\* The steps of a hook before its answer, and those of the agent.
LEMMA BeforeAnswerStep ==
  ASSUME HookInv, NEW alive,
         LoadConstraints(alive) \/ Evaluate \/ Prompt \/ Stop
  PROVE  HookInv'
<1> USE DEF HookInv
<1>1. config' = config /\ computed' = computed
  BY DEF LoadConstraints, Evaluate, Prompt, Stop
<1>2. /\ IsProject(config)' <=> IsProject(config)
      /\ Compute(config)' = Compute(config)
  BY <1>1, SameProject
<1>3. Computes' <=> Computes
  BY <1>1 DEF Computes
<1>4. CASE LoadConstraints(alive)
  <2>1. computed \in [DOMAIN config.types -> Strength]
    BY <1>4, ComputedFacts DEF LoadConstraints
  <2>2. HookTypeOK'
    BY <1>1, <1>4, <2>1 DEF LoadConstraints, HookTypeOK
  <2> QED BY <1>1, <1>2, <1>3, <1>4, <2>2 DEF LoadConstraints
<1>5. CASE Evaluate
  <2>1. HookTypeOK'
    BY <1>1, <1>5 DEF Evaluate, HookTypeOK
  <2> QED BY <1>1, <1>2, <1>3, <1>5, <2>1 DEF Evaluate
<1>6. CASE Prompt \/ Stop
  <2>1. HookTypeOK'
    BY <1>1, <1>6 DEF Prompt, Stop, HookTypeOK
  <2> QED BY <1>1, <1>2, <1>3, <1>6, <2>1 DEF Prompt, Stop
<1> QED BY <1>4, <1>5, <1>6

\* The behaviours of the hook alone, whichever answer it gets to whether a
\* daemon is alive, over some configurations.
HookSpec(Configs) ==
  /\ HookInit(Configs)
  /\ [][(\E alive \in BOOLEAN: HookStep(alive)) \/ AgentStep]_hookVars

\* The inductive invariant holds of them.
THEOREM HookInvariance ==
  ASSUME NEW Configs, \A cfg \in Configs: cfg = NoConfig \/ IsProject(cfg)
  PROVE  HookSpec(Configs) => []HookInv
<1>1. HookInit(Configs) => HookInv
  BY HookInitInv
<1>2. HookInv /\ [(\E alive \in BOOLEAN: HookStep(alive)) \/ AgentStep]_hookVars
        => HookInv'
  <2> SUFFICES ASSUME HookInv,
                      [(\E alive \in BOOLEAN: HookStep(alive)) \/ AgentStep]_hookVars
               PROVE  HookInv'
    OBVIOUS
  <2>1. ASSUME NEW alive \in BOOLEAN, HookStep(alive) PROVE HookInv'
    <3>1. CASE LoadConstraints(alive) \/ Evaluate
      BY <3>1, BeforeAnswerStep
    <3>2. CASE \E decision: Answer(decision)
      BY <3>2, AnswerStep
    <3>3. NoDaemon(alive) \/ BadInput \/ AllowActive(alive) \/ AllowUnchecked(alive)
            \/ PipelineFails \/ Respond => \E decision: Answer(decision)
      BY DEF NoDaemon, BadInput, AllowActive, AllowUnchecked, PipelineFails, Respond
    <3> QED BY <2>1, <3>1, <3>2, <3>3 DEF HookStep
  <2>2. CASE AgentStep
    BY <2>2, BeforeAnswerStep DEF AgentStep
  <2>3. CASE UNCHANGED hookVars
    BY <2>3, SameProject DEF hookVars, HookInv, HookTypeOK, Computes
  <2> QED BY <2>1, <2>2, <2>3
<1> QED BY <1>1, <1>2, PTL DEF HookSpec

\* A turn is never blocked on a constraint that nothing supports and an
\* undefeated one attacks, for any set of constraints and relations, any scale
\* of strengths and any number of rounds.
THEOREM DefeatedNeverBlocks ==
  ASSUME NEW Configs, \A cfg \in Configs: cfg = NoConfig \/ IsProject(cfg)
  PROVE  HookSpec(Configs) => []DefeatedDoesNotBlock
<1>1. HookInv => DefeatedDoesNotBlock
  <2> SUFFICES ASSUME HookInv, hook = "judged",
                      NEW x \in Blocking(violated, strengths),
                      Supporters(config, x) = {},
                      NEW y \in Attackers(config, x)
               PROVE  Severity(strengths[y]) = "allow"
    BY DEF DefeatedDoesNotBlock
  <2>1. strengths = computed /\ Computes /\ x \in DOMAIN strengths
    BY DEF HookInv, HookTypeOK, Blocking
  <2>2. Severity(strengths[x]) = "block"
    BY DEF Blocking
  <2>3. /\ IsProject(config) /\ Validate(config)
        /\ computed = ComputeStrengths(config) /\ computed # NotConverged
        /\ computed \in [DOMAIN config.types -> Strength]
    BY <2>1, ComputedFacts DEF HookInv
  <2> QED BY <2>1, <2>2, <2>3, BlockingNeedsDefeatedAttackers
<1> QED BY <1>1, HookInvariance, PTL

-----------------------------------------------------------------------------
(* The two side by side. *)

\* The projects of the instance are projects.
LEMMA ProjectsFacts == \A cfg \in Projects \cup {NoConfig}: cfg = NoConfig \/ IsProject(cfg)
<1>1. DOMAIN Types = {a, b, c} /\ Types \in [{a, b, c} -> Epistemic]
  BY DEF Types, Epistemic
<1>2. IsFiniteSet({a, b, c})
  <2>1. IsFiniteSet({} \cup {a}) /\ {} \cup {a} = {a}
    BY FS_EmptySet, FS_AddElement
  <2>2. IsFiniteSet({a} \cup {b}) /\ {a} \cup {b} = {a, b}
    BY <2>1, FS_AddElement
  <2>3. IsFiniteSet({a, b} \cup {c}) /\ {a, b} \cup {c} = {a, b, c}
    BY <2>2, FS_AddElement
  <2> QED BY <2>3
<1>3. \A relations: IsProject(Project(relations))
  BY <1>1, <1>2 DEF IsProject, Project
<1> QED BY <1>3 DEF Projects

\* A step of a daemon is a stutter of the hook.
LEMMA HookOfBoth == Spec => HookSpec(Projects \cup {NoConfig})
<1>1. Init => HookInit(Projects \cup {NoConfig})
  BY DEF Init
<1>2. [Next]_vars => [(\E alive \in BOOLEAN: HookStep(alive)) \/ AgentStep]_hookVars
  <2>1. DaemonAlive \in BOOLEAN
    BY DEF DaemonAlive, Alive
  <2>2. HookStep(DaemonAlive) => \E alive \in BOOLEAN: HookStep(alive)
    BY <2>1
  <2> QED BY <2>2 DEF Next, vars, LoadStep
<1> QED BY <1>1, <1>2, PTL DEF Spec, HookSpec

\* The same of the hook beside the daemons, which come and go under it.
THEOREM DefeatedNeverBlocksBesides == Spec => []DefeatedDoesNotBlock
BY HookOfBoth, DefeatedNeverBlocks, ProjectsFacts

\* Every variable of the daemons and of the hook keeps its type; strengths are
\* always those of the project, or none.
THEOREM TypeCorrect == Spec => []TypeOK
<1>1. Spec => []HookInv
  BY HookOfBoth, HookInvariance, ProjectsFacts
<1>2. LifeInv /\ HookInv => TypeOK
  BY DEF LifeInv, HookInv, TypeOK
<1> QED BY <1>1, <1>2, LifeInvariance, PTL
=============================================================================
