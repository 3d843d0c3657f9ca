---------------------------- MODULE ViolationLog ----------------------------
(***************************************************************************)
(* ~/.rigor/violations.jsonl.  Streams of the daemon and stop hooks append *)
(* the violations of a response, one line each, in two writes              *)
(* (logging/violation_log.rs); `rigor log annotate` reads the file, sets the *)
(* mark of one entry and replaces the file (logging/annotate.rs);          *)
(* statistics, memory and refinement each summarise what they read.        *)
(***************************************************************************)
EXTENDS Naturals, Sequences, FiniteSets, SequencesExt

CONSTANTS
  Streams,     \* responses that the daemon judges and logs
  Hooks,       \* stop hooks that log; each writer is a session of its own
  Annotators,  \* runs of rigor log annotate
  Constraints,
  Texts,       \* texts of claims
  Torn, None,
  InitialLog,  \* what earlier sessions left
  Asked,       \* the annotations users ask for: [index, mark]
  Batches      \* what a response may violate: sequences of [c, text]

VARIABLES
  content, unended, name, temp, held,  \* the file, see SharedFile
  batch,       \* what each writer has yet to log
  ending,      \* writers between the text of a line and its newline
  annotator,   \* where each annotator is
  copy,        \* the entries it writes back
  verdict,     \* the annotation it makes: id and mark
  next_id,     \* history: the id of the next entry
  logged,      \* history: entries whose line was written
  exposed,     \* history: those written into or past a rewrite
  crowded,     \* history: those that share their line with another
  tangled      \* history: two rewrites overlapped

Writers == Streams \cup Hooks
Marks == {"none", "fp", "tp"}
Violation == [c: Constraints, text: Texts]
MaxEntries == Len(InitialLog) + 2 * Cardinality(Writers)
Entry == [id: 1 .. MaxEntries, session: Writers \cup {None}, c: Constraints,
          text: Texts, mark: Marks]
Processes == Writers \cup Annotators

Inodes == 1 .. Cardinality(Processes) + 2

ASSUME ProcessAssumption ==
  /\ IsFiniteSet(Writers) /\ IsFiniteSet(Annotators)
  /\ Writers \cap Annotators = {}
  /\ None \notin Inodes
\* Entries are numbered in the order of their lines; two violations at most
\* are logged of a response.
ASSUME LogAssumption ==
  /\ InitialLog \in Seq(Entry) /\ Torn \notin Entry
  /\ \A i \in DOMAIN InitialLog: InitialLog[i].id = i
  /\ \A b \in Batches: b \in Seq(Violation) /\ Len(b) <= 2
  /\ Asked \subseteq [index: Nat, mark: Marks]

F == INSTANCE SharedFile

logVars == <<content, unended, name, temp, held, batch, ending, annotator,
             copy, verdict, next_id, logged, exposed, crowded, tangled>>

LogTypeOK ==
  /\ F!FileTypeOK(Entry \cup {Torn})
  /\ batch \in [Writers -> Seq(Violation)]
  /\ ending \subseteq Writers
  /\ annotator \in [Annotators -> {"idle", "read", "created", "wrote", "done",
                                   "failed"}]
  /\ copy \in [Annotators -> Seq(Entry)]
  /\ verdict \in [Annotators -> [id: 0 .. MaxEntries, mark: Marks]]
  /\ next_id \in 1 .. MaxEntries + 1
  /\ logged \subseteq 1 .. MaxEntries
  /\ exposed \subseteq logged /\ crowded \subseteq 1 .. MaxEntries
  /\ tangled \in BOOLEAN

LogInit ==
  /\ F!FileInit(InitialLog)
  /\ batch \in [Writers -> Batches]
  /\ ending = {}
  /\ annotator = [a \in Annotators |-> "idle"]
  /\ copy = [a \in Annotators |-> <<>>]
  /\ verdict = [a \in Annotators |-> [id |-> 0, mark |-> "none"]]
  /\ next_id = Len(InitialLog) + 1
  /\ logged = 1 .. Len(InitialLog)
  /\ exposed = {} /\ crowded = {}
  /\ tangled = FALSE

entries == F!Readable
Rewriting == {a \in Annotators: annotator[a] \in {"read", "created", "wrote"}}

-----------------------------------------------------------------------------
(* Appending.                                                              *)

\* (mutation) the log opened to be written from its start.
OpenLogTruncating(w) ==
  /\ batch[w] # <<>> /\ held[w] = None
  /\ content' = [content EXCEPT ![name] = <<>>]
  /\ held' = [held EXCEPT ![w] = name]
  /\ UNCHANGED <<unended, name, temp, batch, ending, annotator, copy, verdict,
                 next_id, logged, exposed, crowded, tangled>>

OpenLog(w) ==
  /\ batch[w] # <<>> /\ held[w] = None
  /\ F!OpenToAppend(w)
  /\ UNCHANGED <<batch, ending, annotator, copy, verdict, next_id, logged,
                 exposed, crowded, tangled>>

\* The first write of writeln!.
Log(w) ==
  LET v == Head(batch[w])
      entry == [id |-> next_id, session |-> w, c |-> v.c, text |-> v.text,
                mark |-> "none"]
      begun == IF held[w] \in unended
               THEN {next_id} \cup {e.id: e \in F!LastOf(content[held[w]])}
               ELSE {}
  IN
  /\ held[w] # None /\ w \notin ending
  /\ F!AppendText(w, entry)
  /\ batch' = [batch EXCEPT ![w] = Tail(@)]
  /\ ending' = ending \cup {w}
  /\ next_id' = next_id + 1
  /\ logged' = logged \cup {next_id}
  /\ exposed' = IF held[w] # name \/ Rewriting # {} THEN exposed \cup {next_id}
                ELSE exposed
  /\ crowded' = crowded \cup begun
  /\ UNCHANGED <<annotator, copy, verdict, tangled>>

\* The second one; a writer that is killed before it just takes no further
\* step, and leaves the line as it is.
EndEntry(w) ==
  /\ w \in ending
  /\ F!EndLine(w)
  /\ ending' = ending \ {w}
  /\ UNCHANGED <<batch, annotator, copy, verdict, next_id, logged, exposed,
                 crowded, tangled>>

-----------------------------------------------------------------------------
(* Annotating.                                                             *)

AnnotatorGoes(a, from, to) ==
  /\ annotator[a] = from
  /\ annotator' = [annotator EXCEPT ![a] = to]

\* read_all, then annotate_entry: the index counts from the oldest entry.
AnnotateEntry(a) ==
  /\ AnnotatorGoes(a, "idle", "read")
  /\ \E ask \in Asked:
       /\ ask.index \in DOMAIN entries
       /\ verdict' = [verdict EXCEPT ![a] = [id |-> entries[ask.index].id,
                                             mark |-> ask.mark]]
       /\ copy' = [copy EXCEPT ![a] =
                     [entries EXCEPT ![ask.index].mark = ask.mark]]
  /\ tangled' = (tangled \/ Rewriting # {})
  /\ UNCHANGED <<content, unended, name, temp, held, batch, ending, next_id,
                 logged, exposed, crowded>>

\* Index out of range.
AnnotateNothing(a) ==
  /\ AnnotatorGoes(a, "idle", "failed")
  /\ \E ask \in Asked: ask.index \notin DOMAIN entries
  /\ UNCHANGED <<content, unended, name, temp, held, batch, ending, copy,
                 verdict, next_id, logged, exposed, crowded, tangled>>

CreateTemp(a) ==
  /\ AnnotatorGoes(a, "read", "created")
  /\ F!OpenTemp(a)
  /\ UNCHANGED <<batch, ending, copy, verdict, next_id, logged, exposed,
                 crowded, tangled>>

WriteCopy(a) ==
  /\ AnnotatorGoes(a, "created", "wrote")
  /\ F!WriteTemp(a, copy[a])
  /\ copy' = [copy EXCEPT ![a] = <<>>]
  /\ UNCHANGED <<batch, ending, verdict, next_id, logged, exposed, crowded,
                 tangled>>

ReplaceLog(a) ==
  /\ \/ AnnotatorGoes(a, "wrote", "done") /\ F!Rename
     \/ AnnotatorGoes(a, "wrote", "failed") /\ F!RenameFails
  /\ UNCHANGED <<batch, ending, copy, verdict, next_id, logged, exposed,
                 crowded, tangled>>

LogNext ==
  \/ \E w \in Writers: OpenLog(w) \/ Log(w) \/ EndEntry(w)
  \/ \E a \in Annotators:
       \/ AnnotateEntry(a) \/ AnnotateNothing(a) \/ CreateTemp(a)
       \/ WriteCopy(a) \/ ReplaceLog(a)

-----------------------------------------------------------------------------
(* Summaries of the entries es: `rigor log stats` (logging/query.rs), the  *)
(* cross-session memory (memory/episodic.rs) and the candidates for        *)
(* refinement (cli/refine.rs), each with the counters its loop keeps.      *)

\* Where in es the hits of c are, and how many entries of those are marked.
Hits(es, c) == {i \in DOMAIN es: es[i].c = c}
Marked(es, hits, mark) == Cardinality({i \in hits: es[i].mark = mark})

\* A loop over the entries, as a function rather than FoldLeft, whose
\* definition makes TLC build a set of functions for each step.
Loop(step(_, _), start, es) ==
  LET f[i \in 0 .. Len(es)] == IF i = 0 THEN start ELSE step(f[i - 1], es[i])
  IN f[Len(es)]

Stats(es) ==
  Loop(LAMBDA s, e:
         [total |-> s.total + 1,
          constraints |-> [s.constraints EXCEPT ![e.c] = @ + 1],
          sessions |-> s.sessions \cup {e.session},
          false_positives |-> s.false_positives
                              + IF e.mark = "fp" THEN 1 ELSE 0],
       [total |-> 0, constraints |-> [c \in Constraints |-> 0],
        sessions |-> {}, false_positives |-> 0], es)

\* (mutation) a constraint listed for each of its hits.
RememberRepeating(ep, e) ==
  [total |-> ep.total + 1,
   constraint_ids |-> Append(ep.constraint_ids, e.c),
   fp |-> ep.fp + IF e.mark = "fp" THEN 1 ELSE 0,
   tp |-> ep.tp + IF e.mark = "tp" THEN 1 ELSE 0]
\* One entry of a session's episode; constraint_ids without repetition.
Remember(ep, e) ==
  [total |-> ep.total + 1,
   constraint_ids |-> IF e.c \in ToSet(ep.constraint_ids) THEN ep.constraint_ids
                      ELSE Append(ep.constraint_ids, e.c),
   fp |-> ep.fp + IF e.mark = "fp" THEN 1 ELSE 0,
   tp |-> ep.tp + IF e.mark = "tp" THEN 1 ELSE 0]
Episodes(es) ==
  Loop(LAMBDA eps, e: [eps EXCEPT ![e.session] = Remember(@, e)],
       [s \in Writers \cup {None} |->
          [total |-> 0, constraint_ids |-> <<>>, fp |-> 0, tp |-> 0]], es)
Outcome(ep) ==
  IF ep.tp > 0 /\ ep.tp >= ep.fp THEN "verified"
  ELSE IF ep.fp > ep.tp THEN "false_positive_dominant"
  ELSE "unreviewed"
\* top_relevant_constraints: in how many sessions c fired, but for those
\* that turned out to be mostly false positives.
FiredIn(eps, c) ==
  SumFunction([k \in DOMAIN eps |->
    IF Outcome(eps[k]) = "false_positive_dominant" THEN 0
    ELSE Cardinality({i \in DOMAIN eps[k].constraint_ids:
                        eps[k].constraint_ids[i] = c})])

\* compute_refinements: the constraints with at least min annotated hits, of
\* which more than 30 % were false positives.
Candidates(es, min) ==
  {c \in Constraints:
     LET fp == Marked(es, Hits(es, c), "fp")
         annotated == fp + Marked(es, Hits(es, c), "tp")
     IN annotated >= min /\ 10 * fp > 3 * annotated}

-----------------------------------------------------------------------------
(* Correctness.                                                            *)

Present(es, id) == \E i \in DOMAIN es: es[i].id = id

\* A violation that has a line to itself stays in the log, and so does an
\* annotation that succeeded, however many append and annotate, and wherever
\* one is killed: as long as no two annotations overlap, nothing is lost but
\* what is logged while one of them is rewriting the file, or put on a line
\* that another writer has begun and not ended, with what that one wrote.  An
\* entry never gets a second line.
LogKept ==
  LET es == entries IN
  ~tangled =>
    /\ \A id \in logged \ (exposed \cup crowded): Present(es, id)
    /\ \A a \in Annotators: annotator[a] = "done" =>
         \E i \in DOMAIN es:
           /\ es[i].id = verdict[a].id
           /\ es[i].mark = verdict[a].mark
              \/ \E b \in Annotators \ {a}:
                   annotator[b] = "done" /\ verdict[b] # verdict[a]
                                         /\ verdict[b].id = verdict[a].id
    /\ IsInjective([i \in DOMAIN es |-> es[i].id])

\* violation_log.rs:37: log "appends a single JSON line to the log file", so
\* that what is logged while nobody annotates is there to be read.
EachHasItsLine == Rewriting = {} =>
  \A id \in logged \ exposed: Present(entries, id)

\* The summaries of a log agree, whatever was appended and annotated when it
\* was read: hits per constraint, and per session, add up to the number of
\* entries, and marks per session to those of the whole; a session counts
\* once for each constraint that fired in it, and not at all when more of its
\* entries are false positives than true ones; what refines by itself, `rigor
\* refine` would refine too, and never on fewer than three hits.
SummariesAgree ==
  LET es == entries
      s == Stats(es)
      eps == Episodes(es)
  IN /\ s.total = Len(es)
     /\ SumFunction(s.constraints) = s.total
     /\ SumFunction([k \in DOMAIN eps |-> eps[k].total]) = s.total
     /\ SumFunction([k \in DOMAIN eps |-> eps[k].fp]) = s.false_positives
     /\ Candidates(es, 5) \subseteq Candidates(es, 3)
     /\ \A c \in Candidates(es, 3): s.constraints[c] >= 3
     /\ \A c \in Constraints:
          FiredIn(eps, c) = Cardinality({k \in s.sessions:
            /\ \E i \in DOMAIN es: es[i].session = k /\ es[i].c = c
            /\ LET mine == {i \in DOMAIN es: es[i].session = k} IN
               Marked(es, mine, "fp") <= Marked(es, mine, "tp")})
=============================================================================
