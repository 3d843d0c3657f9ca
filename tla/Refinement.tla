----------------------------- MODULE Refinement -----------------------------
(***************************************************************************)
(* cli/refine.rs over the violation log: constraints that were mostly      *)
(* marked as false positives get a note and an exclusion in rigor.yaml.    *)
(* Every batch a stream logs spawns an automatic refinement, `rigor refine *)
(* --apply` is another process, and the user edits the same file; nobody   *)
(* locks it, and fs::write truncates it before it writes.                  *)
(***************************************************************************)
EXTENDS ViolationLog

CONSTANTS
  Cli,       \* a run of rigor refine --apply
  Known,     \* the constraints of rigor.yaml; the log has other projects' too
  AutoMin,   \* annotated hits for an automatic refinement (5)
  CliMin,    \* and for rigor refine (3)
  MaxEdits,  \* bound: edits by the user
  Empty, Damaged \* what is left of rigor.yaml by halves of writes

ASSUME RefineAssumption ==
  /\ IsFiniteSet(Constraints) /\ Known \subseteq Constraints
  /\ CliMin <= AutoMin /\ MaxEdits \in Nat /\ Cli \notin Streams

VARIABLES
  yaml,      \* rigor.yaml
  refiner,   \* where each refinement is
  found,     \* the pattern it has for each constraint to refine
  draft,     \* the text it is about to write
  edits,     \* edits the user has made
  crossed    \* history: a write came between another's read and write

refineVars == <<yaml, refiner, found, draft, edits, crossed>>

Refiners == Streams \cup {Cli}
Patterns == UNION {[1 .. n -> Texts]: n \in 0 .. 3}
NothingFound == [c \in {} |-> <<>>]
\* notes: comment lines above the constraint; exclusions: the lines put
\* before its `v := {`; edit: the user's last edit.
Text == [notes: [Known -> Nat], exclusions: [Known -> Seq(Patterns)],
         edit: 0 .. MaxEdits]
ASSUME TextAssumption == Empty \notin Text /\ Damaged \notin Text
Good(y) == y \notin {Empty, Damaged}

RefineTypeOK ==
  /\ Good(yaml) => yaml \in Text
  /\ refiner \in [Refiners -> {"idle", "hits", "noted", "cut", "reread",
                               "excluded", "cut2", "done"}]
  /\ \A r \in Refiners: found[r] \in [DOMAIN found[r] -> Patterns]
  /\ \A r \in Refiners: Good(draft[r]) => draft[r] \in Text
  /\ edits \in 0 .. MaxEdits
  /\ crossed \in BOOLEAN

RefineInit ==
  /\ yaml = [notes |-> [c \in Known |-> 0],
             exclusions |-> [c \in Known |-> <<>>], edit |-> 0]
  /\ refiner = [r \in Refiners |-> "idle"]
  /\ found = [r \in Refiners |-> NothingFound]
  /\ draft = [r \in Refiners |-> Empty]
  /\ edits = 0
  /\ crossed = FALSE

-----------------------------------------------------------------------------
(* What is written.                                                        *)

\* build_regex_hint: the three most frequent words, in an order that the hash
\* map decides among equals; a text stands for its distinctive word.
Hints(es, hits) ==
  LET texts == {es[i].text: i \in hits}
      times(t) == Cardinality({i \in hits: es[i].text = t})
  IN {SubSeq(s, 1, IF Len(s) < 3 THEN Len(s) ELSE 3): s \in
        {q \in SetToSeqs(texts): \A i, j \in DOMAIN q:
           i < j => times(q[i]) >= times(q[j])}}

\* (mutation) a note that is there already is not looked for
NoteAgain(y, cs) == [y EXCEPT !.notes =
  [c \in Known |-> IF c \in cs THEN @[c] + 1 ELSE @[c]]]
\* apply_to_yaml: a note above each constraint, unless it has one.
Note(y, cs) == [y EXCEPT !.notes =
  [c \in Known |-> IF c \in cs /\ @[c] = 0 THEN 1 ELSE @[c]]]
ApplyToYaml(y, cs) == IF Good(y) THEN Note(y, cs) ELSE y

\* inject_rego_exclusion for each constraint in turn: not if the same line is
\* anywhere in the file.
Inject(y, c, p) ==
  IF c \in Known /\ \A d \in Known: p \notin ToSet(y.exclusions[d])
  THEN [y EXCEPT !.exclusions =
          [d \in Known |-> IF d = c THEN Append(@[d], p) ELSE @[d]]]
  ELSE y
InjectEach(y, patterns, order) ==
  Loop(LAMBDA acc, c: Inject(acc, c, patterns[c]), y, order)
InjectAll(y, patterns) ==
  IF Good(y)
  THEN {InjectEach(y, patterns, order): order \in SetToSeqs(DOMAIN patterns)}
  ELSE {y}

-----------------------------------------------------------------------------
(* The steps of a refinement.                                              *)

RefinerGoes(r, from, to) ==
  /\ refiner[r] = from
  /\ refiner' = [refiner EXCEPT ![r] = to]

\* Those between a read of rigor.yaml and the end of the write that follows.
Editing == {r \in Refiners: refiner[r] \in {"noted", "cut", "excluded", "cut2"}}
Cross(r) == crossed' = (crossed \/ Editing \ {r} # {})

\* A task is spawned once the violations of a response are logged.
Spawned(r) == r # Cli => batch[r] = <<>> /\ held[r] = None
MinHits(r) == IF r = Cli THEN CliMin ELSE AutoMin

ReadLog(r) ==
  /\ refiner[r] = "idle" /\ Spawned(r)
  /\ LET cs == Candidates(entries, MinHits(r))
         hints == [c \in cs |->
                     Hints(entries, {i \in Hits(entries, c): entries[i].mark = "fp"})]
     IN IF cs = {}
        THEN RefinerGoes(r, "idle", "done") /\ UNCHANGED found
        ELSE /\ RefinerGoes(r, "idle", "hits")
             /\ \E p \in [cs -> UNION Range(hints)]:
                  /\ \A c \in cs: p[c] \in hints[c]
                  /\ found' = [found EXCEPT ![r] = p]
  /\ UNCHANGED <<logVars, yaml, draft, edits, crossed>>

ReadYaml(r) ==
  /\ RefinerGoes(r, "hits", "noted")
  /\ draft' = [draft EXCEPT ![r] = ApplyToYaml(yaml, DOMAIN found[r])]
  /\ Cross(r)
  /\ UNCHANGED <<logVars, yaml, found, edits>>

\* fs::write: first nothing is left of the file,
Truncate(r) ==
  /\ \/ RefinerGoes(r, "noted", "cut")
     \/ RefinerGoes(r, "excluded", "cut2")
  /\ yaml' = Empty
  /\ Cross(r)
  /\ UNCHANGED <<logVars, found, draft, edits>>

\* then it is written, over whatever another writer has put there since.
Write(r) ==
  /\ \/ r = Cli /\ RefinerGoes(r, "cut", "done")
     \/ r # Cli /\ RefinerGoes(r, "cut", "reread")
     \/ RefinerGoes(r, "cut2", "done")
  /\ yaml' \in IF yaml = Empty THEN {draft[r]} ELSE {draft[r], Damaged}
  /\ draft' = [draft EXCEPT ![r] = Empty]
  /\ Cross(r)
  /\ UNCHANGED <<logVars, found, edits>>

\* (mutation) the exclusions go into the text as it was read first.
ReadAgainStale(r) ==
  /\ RefinerGoes(r, "reread", "excluded")
  /\ Good(yaml)
  /\ \E y \in InjectAll([yaml EXCEPT !.notes = [c \in Known |-> 0]], found[r]):
       draft' = [draft EXCEPT ![r] = y]
  /\ Cross(r)
  /\ UNCHANGED <<logVars, yaml, found, edits>>
\* An automatic refinement reads its own result, or another's, back.
ReadAgain(r) ==
  /\ RefinerGoes(r, "reread", "excluded")
  /\ \E y \in InjectAll(yaml, found[r]): draft' = [draft EXCEPT ![r] = y]
  /\ Cross(r)
  /\ UNCHANGED <<logVars, yaml, found, edits>>

UserEdit ==
  /\ edits < MaxEdits /\ Good(yaml)
  /\ edits' = edits + 1
  /\ yaml' = [yaml EXCEPT !.edit = edits + 1]
  /\ crossed' = (crossed \/ Editing # {})
  /\ UNCHANGED <<logVars, refiner, found, draft>>

RefineNext ==
  \/ LogNext /\ UNCHANGED refineVars
  \/ \E r \in Refiners: ReadLog(r) \/ ReadYaml(r) \/ Truncate(r) \/ Write(r)
                        \/ ReadAgain(r)
  \/ UserEdit

-----------------------------------------------------------------------------
(* Correctness.                                                            *)

\* As long as the windows between reading and writing rigor.yaml do not
\* overlap, the file stays whole: it has the user's last edit, a note on each
\* constraint refined, and each exclusion an automatic refinement found.
YamlKept ==
  ~crossed /\ Editing = {} =>
    /\ Good(yaml)
    /\ yaml.edit = edits
    /\ \A r \in Refiners: refiner[r] \in {"reread", "done"} =>
         \A c \in DOMAIN found[r] \cap Known: yaml.notes[c] > 0
    /\ \A r \in Streams: refiner[r] = "done" =>
         \A c \in DOMAIN found[r] \cap Known:
           \E d \in Known: found[r][c] \in ToSet(yaml.exclusions[d])

\* However refinements interleave, no constraint gets a second note and no
\* exclusion is put into the file twice.
NothingRefinedTwice ==
  Good(yaml) =>
    /\ \A c \in Known: yaml.notes[c] <= 1
    /\ \A c, d \in Known: \A i \in DOMAIN yaml.exclusions[c],
                             j \in DOMAIN yaml.exclusions[d]:
         yaml.exclusions[c][i] = yaml.exclusions[d][j] => c = d /\ i = j
=============================================================================
