------------------------- MODULE ViolationLogProofs -------------------------
(***************************************************************************)
(* Proofs about the violation log and about refinement, for any number of  *)
(* writers, annotators and refiners, whatever log there was before.  They  *)
(* are about Interleaved, where the steps on the two files come in any     *)
(* order: it has every behaviour of Spec, which TLC runs.                  *)
(***************************************************************************)
EXTENDS MCViolationLog, FiniteSetTheorems, SequenceTheorems, TLAPS

vars == <<logVars, refineVars>>
Interleaved == Init /\ [][RefineNext]_vars

-----------------------------------------------------------------------------
(* Induction, by a set rather than a predicate.                            *)

\* Induction, for a set of natural numbers.
LEMMA SetInduction ==
  ASSUME NEW T, 0 \in T, \A n \in Nat: n \in T => n + 1 \in T
  PROVE  Nat \subseteq T
<1> SUFFICES ASSUME Nat \ T # {} PROVE FALSE
  OBVIOUS
<1> DEFINE R == OpToRel(<, Nat)
<1>1. IsWellFoundedOn(R, Nat)
  BY NatLessThanWellFounded
<1>2. \E n \in Nat \ T: \A m \in Nat \ T: ~(<<m, n>> \in R)
  <2> HIDE DEF R
  <2> QED BY <1>1, WFMin
<1>3. PICK n \in Nat \ T: \A m \in Nat \ T: ~(<<m, n>> \in R)
  BY <1>2
<1>4. n # 0 /\ n - 1 \in Nat
  OBVIOUS
<1>5. <<n - 1, n>> \in R
  BY <1>4 DEF OpToRel
<1> HIDE DEF R
<1>6. n - 1 \in T
  BY <1>3, <1>4, <1>5
<1>7. (n - 1) + 1 \in T
  BY <1>4, <1>6
<1> QED BY <1>7

\* A function may be defined by what it has for 0 and by a step to each i of
\* 1 .. n from what it has for i - 1.
LEMMA Recursion ==
  ASSUME NEW V, NEW v0 \in V, NEW n \in Nat, NEW step \in [1 .. n -> [V -> V]]
  PROVE  \E g \in [0 .. n -> V]:
           g[0] = v0 /\ \A i \in 1 .. n: g[i] = step[i][g[i - 1]]
<1> DEFINE Upto(m) == \E g \in [0 .. n -> V]:
             g[0] = v0 /\ \A i \in 1 .. n: i <= m => g[i] = step[i][g[i - 1]]
           T == {m \in Nat: Upto(m)}
<1>1. 0 \in T
  <2> DEFINE g == [i \in 0 .. n |-> v0]
  <2>1. g \in [0 .. n -> V] /\ g[0] = v0
    OBVIOUS
  <2>2. \A i \in 1 .. n: ~(i <= 0)
    OBVIOUS
  <2> QED BY <2>1, <2>2
<1>2. ASSUME NEW m \in Nat, m \in T PROVE m + 1 \in T
  <2>1. PICK g \in [0 .. n -> V]:
          g[0] = v0 /\ \A i \in 1 .. n: i <= m => g[i] = step[i][g[i - 1]]
    BY <1>2
  <2>2. CASE m + 1 \in 1 .. n
    <3> DEFINE h == [i \in 0 .. n |-> IF i = m + 1 THEN step[m + 1][g[m]] ELSE g[i]]
    <3>1. g[m] \in V /\ step[m + 1][g[m]] \in V
      BY <2>1, <2>2
    <3>2. h \in [0 .. n -> V] /\ h[0] = v0
      BY <2>1, <3>1
    <3>3. \A i \in 1 .. n: i <= m + 1 => h[i] = step[i][h[i - 1]]
      BY <2>1
    <3> HIDE DEF h
    <3> QED BY <3>2, <3>3
  <2>3. CASE m + 1 \notin 1 .. n
    <3>1. \A i \in 1 .. n: i <= m + 1 => i <= m
      BY <2>3
    <3>2. Upto(m + 1)
      BY <2>1, <3>1
    <3> HIDE DEF Upto
    <3> QED BY <3>2
  <2> QED BY <2>2, <2>3
<1>3. n \in T
  <2> HIDE DEF T
  <2> QED BY <1>1, <1>2, SetInduction
<1>4. PICK g \in [0 .. n -> V]:
        g[0] = v0 /\ \A i \in 1 .. n: i <= n => g[i] = step[i][g[i - 1]]
  BY <1>3
<1> QED BY <1>4

-----------------------------------------------------------------------------
(* What a reader gets of a file.                                           *)

\* The lines that parse, up to each.
LEMMA ParsedDef ==
  ASSUME NEW X, NEW lines \in Seq(X \cup {Torn})
  PROVE  \E kept \in [0 .. Len(lines) -> Seq(X)]:
           /\ F!Parsed(lines) = kept[Len(lines)]
           /\ kept[0] = <<>>
           /\ \A i \in 1 .. Len(lines):
                kept[i] = IF lines[i] = Torn THEN kept[i - 1]
                          ELSE Append(kept[i - 1], lines[i])
<1> DEFINE len == Len(lines)
           turn == [i \in 1 .. len |-> [v \in Seq(X) |->
                      IF lines[i] = Torn THEN v ELSE Append(v, lines[i])]]
<1>1. len \in Nat /\ <<>> \in Seq(X)
  OBVIOUS
<1>2. turn \in [1 .. len -> [Seq(X) -> Seq(X)]]
  OBVIOUS
<1>3. \E g \in [0 .. len -> Seq(X)]:
        g[0] = <<>> /\ \A i \in 1 .. len: g[i] = turn[i][g[i - 1]]
  <2> DEFINE W == Seq(X)
             w == <<>>
  <2>1. w \in W /\ turn \in [1 .. len -> [W -> W]]
    BY <1>1, <1>2
  <2> HIDE DEF turn, len, W, w
  <2>2. \E g \in [0 .. len -> W]:
          g[0] = w /\ \A i \in 1 .. len: g[i] = turn[i][g[i - 1]]
    BY <1>1, <2>1, Recursion
  <2> QED BY <2>2 DEF W, w
<1>4. \E g: g = [i \in 0 .. len |->
               IF i = 0 THEN <<>>
               ELSE IF lines[i] = Torn THEN g[i - 1] ELSE Append(g[i - 1], lines[i])]
  <2>1. PICK g \in [0 .. len -> Seq(X)]:
          g[0] = <<>> /\ \A i \in 1 .. len: g[i] = turn[i][g[i - 1]]
    BY <1>3
  <2>2. \A i \in 1 .. len: i - 1 \in 0 .. len /\ g[i - 1] \in Seq(X)
    BY <1>1
  <2>3. \A i \in 1 .. len: turn[i][g[i - 1]] =
          IF lines[i] = Torn THEN g[i - 1] ELSE Append(g[i - 1], lines[i])
    BY <2>2
  <2> HIDE DEF turn, len
  <2>4. \A i \in 0 .. len: g[i] =
          IF i = 0 THEN <<>>
          ELSE IF lines[i] = Torn THEN g[i - 1] ELSE Append(g[i - 1], lines[i])
    <3> SUFFICES ASSUME NEW i \in 0 .. len, i # 0
                 PROVE  g[i] = IF lines[i] = Torn THEN g[i - 1]
                               ELSE Append(g[i - 1], lines[i])
      BY <2>1
    <3>1. i \in 1 .. len
      BY <1>1
    <3> QED BY <2>1, <2>3, <3>1
  <2>5. g = [i \in 0 .. len |->
               IF i = 0 THEN <<>>
               ELSE IF lines[i] = Torn THEN g[i - 1] ELSE Append(g[i - 1], lines[i])]
    BY <2>1, <2>4
  <2> QED BY <2>5
<1> DEFINE Def(g) == g = [i \in 0 .. len |->
             IF i = 0 THEN <<>>
             ELSE IF lines[i] = Torn THEN g[i - 1] ELSE Append(g[i - 1], lines[i])]
           kept == CHOOSE g: Def(g)
<1>5. Def(kept)
  <2>1. \E g: Def(g)
    BY <1>4
  <2> HIDE DEF Def
  <2> QED BY <2>1
<1>6. F!Parsed(lines) = kept[len]
  BY DEF F!Parsed
<1> HIDE DEF kept, turn
<1>7. kept[0] = <<>> /\ \A i \in 1 .. len:
        kept[i] = IF lines[i] = Torn THEN kept[i - 1] ELSE Append(kept[i - 1], lines[i])
  <2> HIDE DEF len
  <2>1. 0 \in 0 .. len /\ \A i \in 1 .. len: i \in 0 .. len /\ i # 0
    BY <1>1
  <2> QED BY <1>5, <2>1
<1>8. \A i \in 0 .. len: kept[i] \in Seq(X)
  <2> DEFINE T == {i \in Nat: i <= len => kept[i] \in Seq(X)}
  <2>1. 0 \in T
    BY <1>1, <1>7
  <2>2. ASSUME NEW i \in Nat, i \in T PROVE i + 1 \in T
    <3> SUFFICES ASSUME i + 1 <= len PROVE kept[i + 1] \in Seq(X)
      OBVIOUS
    <3>1. i + 1 \in 1 .. len /\ i <= len /\ (i + 1) - 1 = i
      BY <1>1
    <3>2. kept[i] \in Seq(X)
      BY <2>2, <3>1
    <3>3. kept[i + 1] = IF lines[i + 1] = Torn THEN kept[i] ELSE Append(kept[i], lines[i + 1])
      BY <1>7, <3>1
    <3>4. lines[i + 1] \in X \cup {Torn}
      BY <3>1
    <3> QED BY <3>2, <3>3, <3>4
  <2>3. Nat \subseteq T
    <3> HIDE DEF T
    <3> QED BY <2>1, <2>2, SetInduction
  <2> QED BY <1>1, <2>3
<1>9. kept = [i \in 0 .. len |-> kept[i]]
  BY <1>5
<1> QED BY <1>6, <1>7, <1>8, <1>9

\* What is read of lines is lines that parse, and all of them if they all do.
LEMMA ParsedFacts ==
  ASSUME NEW X, NEW lines \in Seq(X \cup {Torn})
  PROVE  /\ F!Parsed(lines) \in Seq(X)
         /\ lines \in Seq(X) /\ Torn \notin X => F!Parsed(lines) = lines
<1>1. PICK kept \in [0 .. Len(lines) -> Seq(X)]:
        /\ F!Parsed(lines) = kept[Len(lines)]
        /\ kept[0] = <<>>
        /\ \A i \in 1 .. Len(lines):
             kept[i] = IF lines[i] = Torn THEN kept[i - 1] ELSE Append(kept[i - 1], lines[i])
  BY ParsedDef
<1> DEFINE n == Len(lines)
<1>2. n \in Nat
  OBVIOUS
<1>3. ASSUME lines \in Seq(X), Torn \notin X PROVE F!Parsed(lines) = lines
  <2> DEFINE T == {i \in Nat: i <= n => kept[i] = SubSeq(lines, 1, i)}
  <2>1. 0 \in T
    BY <1>1, SubSeqEmpty
  <2>2. ASSUME NEW i \in Nat, i \in T PROVE i + 1 \in T
    <3> SUFFICES ASSUME i + 1 <= n PROVE kept[i + 1] = SubSeq(lines, 1, i + 1)
      OBVIOUS
    <3>1. i + 1 \in 1 .. n /\ i <= n /\ (i + 1) - 1 = i /\ i \in 0 .. n
      BY <1>2
    <3>2. lines[i + 1] \in X
      BY <1>3, <3>1
    <3>3. kept[i + 1] = Append(kept[i], lines[i + 1])
      BY <1>1, <1>3, <3>1, <3>2
    <3>4. kept[i] = SubSeq(lines, 1, i) /\ kept[i] \in Seq(X)
      BY <1>1, <2>2, <3>1
    <3>5. SubSeq(lines, 1, i + 1) = SubSeq(lines, 1, (i + 1) - 1) \o <<lines[i + 1]>>
      BY <1>3, <3>1, SubSeqRecursiveSecond
    <3>6. Append(kept[i], lines[i + 1]) = kept[i] \o <<lines[i + 1]>>
      BY <3>2, <3>4, AppendIsConcat
    <3> QED BY <3>1, <3>3, <3>4, <3>5, <3>6
  <2>3. Nat \subseteq T
    <3> HIDE DEF T
    <3> QED BY <2>1, <2>2, SetInduction
  <2>4. kept[n] = SubSeq(lines, 1, n)
    BY <1>2, <2>3
  <2> QED BY <1>1, <1>3, <2>4, SubSeqFull
<1>4. kept[n] \in Seq(X)
  BY <1>1, <1>2
<1> QED BY <1>1, <1>3, <1>4

\* One more line is one more entry, if it parses.
LEMMA ParsedAppend ==
  ASSUME NEW X, NEW lines \in Seq(X \cup {Torn}), NEW line \in X \cup {Torn}
  PROVE  F!Parsed(Append(lines, line)) =
           IF line = Torn THEN F!Parsed(lines) ELSE Append(F!Parsed(lines), line)
<1> DEFINE n == Len(lines)
           longer == Append(lines, line)
<1>1. /\ n \in Nat /\ longer \in Seq(X \cup {Torn}) /\ Len(longer) = n + 1
      /\ longer[n + 1] = line /\ \A i \in 1 .. n: longer[i] = lines[i]
  OBVIOUS
<1> HIDE DEF longer
<1>2. PICK short \in [0 .. n -> Seq(X)]:
        /\ F!Parsed(lines) = short[n]
        /\ short[0] = <<>>
        /\ \A i \in 1 .. n: short[i] = IF lines[i] = Torn THEN short[i - 1]
                                       ELSE Append(short[i - 1], lines[i])
  BY ParsedDef
<1>3. PICK long \in [0 .. n + 1 -> Seq(X)]:
        /\ F!Parsed(longer) = long[n + 1]
        /\ long[0] = <<>>
        /\ \A i \in 1 .. n + 1: long[i] = IF longer[i] = Torn THEN long[i - 1]
                                          ELSE Append(long[i - 1], longer[i])
  <2> DEFINE Is(g, m) == /\ F!Parsed(longer) = g[m]
                         /\ g[0] = <<>>
                         /\ \A i \in 1 .. m: g[i] = IF longer[i] = Torn THEN g[i - 1]
                                                   ELSE Append(g[i - 1], longer[i])
  <2>1. \E g \in [0 .. Len(longer) -> Seq(X)]: Is(g, Len(longer))
    BY <1>1, ParsedDef
  <2> HIDE DEF Is
  <2>2. \E g \in [0 .. n + 1 -> Seq(X)]: Is(g, n + 1)
    BY <1>1, <2>1
  <2> QED BY <2>2 DEF Is
<1> HIDE DEF n
<1> DEFINE T == {i \in Nat: i <= n => long[i] = short[i]}
<1>4. 0 \in T
  BY <1>2, <1>3
<1>5. ASSUME NEW i \in Nat, i \in T PROVE i + 1 \in T
  <2> SUFFICES ASSUME i + 1 <= n PROVE long[i + 1] = short[i + 1]
    OBVIOUS
  <2>1. i + 1 \in 1 .. n /\ i + 1 \in 1 .. n + 1 /\ i <= n /\ (i + 1) - 1 = i
    BY <1>1
  <2>2. long[i] = short[i] /\ longer[i + 1] = lines[i + 1]
    BY <1>1, <1>5, <2>1
  <2>3. short[i + 1] = IF lines[i + 1] = Torn THEN short[i]
                       ELSE Append(short[i], lines[i + 1])
    BY <1>2, <2>1
  <2>4. long[i + 1] = IF longer[i + 1] = Torn THEN long[i]
                      ELSE Append(long[i], longer[i + 1])
    BY <1>3, <2>1
  <2> QED BY <2>2, <2>3, <2>4
<1>6. n \in T
  <2> HIDE DEF T
  <2> QED BY <1>1, <1>4, <1>5, SetInduction
<1>7. long[n + 1] = IF line = Torn THEN long[n] ELSE Append(long[n], line)
  <2>1. n + 1 \in 1 .. n + 1 /\ (n + 1) - 1 = n
    BY <1>1
  <2> QED BY <1>1, <1>3, <2>1
<1>8. long[n] = short[n]
  BY <1>1, <1>6
<1> QED BY <1>2, <1>3, <1>7, <1>8 DEF longer

\* The last of some lines.
LEMMA LastFacts ==
  ASSUME NEW X, NEW lines \in Seq(X), NEW line
  PROVE  /\ F!LastOf(Append(lines, line)) = {line} \ {Torn}
         /\ F!LastOf(lines) \subseteq X
<1>1. DOMAIN Append(lines, line) = 1 .. Len(lines) + 1 /\ Len(lines) \in Nat
      /\ Len(Append(lines, line)) = Len(lines) + 1
      /\ Append(lines, line)[Len(lines) + 1] = line
  OBVIOUS
<1> DEFINE longer == Append(lines, line)
           m == Len(lines) + 1
<1>2. DOMAIN longer \cap {m} = {m} /\ Len(longer) = m /\ longer[m] = line
  BY <1>1
<1> HIDE DEF longer, m
<1>3. F!LastOf(longer) = {line} \ {Torn}
  BY <1>2 DEF F!LastOf
<1>4. F!LastOf(lines) \subseteq X
  BY DEF F!LastOf
<1> QED BY <1>3, <1>4 DEF longer

\* When the last line is torn, what is read lacks the entry it had, if any.
LEMMA ParsedTorn ==
  ASSUME NEW X, NEW lines \in Seq(X \cup {Torn}), Torn \notin X,
         NEW torn, torn = Append(F!Front(lines), Torn)
  PROVE  /\ torn \in Seq(X \cup {Torn}) /\ F!LastOf(torn) = {}
         /\ \/ F!Parsed(torn) = F!Parsed(lines)
            \/ \E e \in F!LastOf(lines): F!Parsed(lines) = Append(F!Parsed(torn), e)
<1> DEFINE front == F!Front(lines)
           n == Len(lines)
           last == lines[n]
<1>1. front \in Seq(X \cup {Torn})
  <2> DEFINE lo == 1
             hi == Len(lines) - 1
  <2>1. lo \in Int /\ hi \in Int /\ \A j \in lo .. hi: lines[j] \in X \cup {Torn}
    OBVIOUS
  <2>2. front = SubSeq(lines, lo, hi)
    BY DEF F!Front
  <2> HIDE DEF lo, hi, front
  <2> QED BY <2>1, <2>2, SubSeqProperties
<1>2. F!Parsed(torn) = F!Parsed(front) /\ torn \in Seq(X \cup {Torn})
  <2> HIDE DEF front
  <2>1. Torn \in X \cup {Torn} /\ torn = Append(front, Torn)
    BY DEF front
  <2>2. torn \in Seq(X \cup {Torn})
    BY <1>1, <2>1
  <2>3. F!Parsed(Append(front, Torn)) = IF Torn = Torn THEN F!Parsed(front)
                                        ELSE Append(F!Parsed(front), Torn)
    BY <1>1, <2>1, ParsedAppend
  <2> QED BY <2>1, <2>2, <2>3
<1>3. F!LastOf(torn) = {}
  <2> HIDE DEF front
  <2>1. torn = Append(front, Torn)
    BY DEF front
  <2> QED BY <1>1, <2>1, LastFacts
<1>4. CASE lines = <<>>
  <2>1. front = lines
    BY <1>4 DEF F!Front
  <2> QED BY <1>2, <1>3, <2>1
<1>5. CASE lines # <<>>
  <2>1. n \in Nat \ {0} /\ last \in X \cup {Torn} /\ DOMAIN lines \cap {Len(lines)} = {n}
    BY <1>5
  <2>2. lines = Append(front, last)
    <3>1. lines = front \o <<last>>
      <4>1. SubSeq(lines, 1, n) = SubSeq(lines, 1, n - 1) \o <<lines[n]>>
        BY <2>1, SubSeqRecursiveSecond
      <4>2. SubSeq(lines, 1, n) = lines
        BY SubSeqFull
      <4> QED BY <4>1, <4>2 DEF F!Front
    <3> HIDE DEF front, last
    <3> QED BY <1>1, <2>1, <3>1, AppendIsConcat
  <2>3. F!LastOf(lines) = {last} \ {Torn}
    BY <2>1 DEF F!LastOf
  <2> HIDE DEF front, last
  <2>4. F!Parsed(lines) = IF last = Torn THEN F!Parsed(front) ELSE Append(F!Parsed(front), last)
    BY <1>1, <2>1, <2>2, ParsedAppend
  <2> QED BY <1>2, <1>3, <2>3, <2>4
<1> QED BY <1>4, <1>5

-----------------------------------------------------------------------------
(* The inductive invariant of the log, in parts.                           *)

Line == Entry \cup {Torn}

\* The type invariant, with what bounds next_id: what is yet to be logged.
Pending == {p \in Writers \X (1 .. 2): p[2] <= Len(batch[p[1]])}
LogTypes ==
  /\ content \in [Inodes -> Seq(Line)] /\ unended \subseteq Inodes
  /\ name \in Inodes /\ temp \in Inodes \cup {None}
  /\ held \in [Processes -> Inodes \cup {None}]
  /\ batch \in [Writers -> Seq(Violation)] /\ ending \subseteq Writers
  /\ \A w \in Writers: /\ Len(batch[w]) <= 2
                       /\ held[w] # None => batch[w] # <<>> \/ w \in ending
  /\ annotator \in [Annotators -> {"idle", "read", "created", "wrote", "done",
                                   "failed"}]
  /\ \A a \in Annotators: annotator[a] = "created" <=> held[a] # None
  /\ copy \in [Annotators -> Seq(Entry)]
  /\ verdict \in [Annotators -> [id: 0 .. MaxEntries, mark: Marks]]
  /\ next_id \in Nat \ {0}
  /\ next_id + Cardinality(Pending) <= MaxEntries + 1
  /\ logged = 1 .. next_id - 1 /\ exposed \subseteq logged
  /\ crowded \subseteq 1 .. MaxEntries
  /\ tangled \in BOOLEAN

\* What s keeps: an entry for each id of kept, none twice, and the annotations
\* of those in D, as v has them, but for one that another contradicts.
Keeps(s, kept, D, v, n) ==
  /\ s \in Seq(Entry)
  /\ \A i \in 1 .. Len(s): s[i].id < n
  /\ \A i, j \in 1 .. Len(s): s[i].id = s[j].id => i = j
  /\ \A id \in kept: \E i \in 1 .. Len(s): s[i].id = id
  /\ \A d \in D: \E i \in 1 .. Len(s):
       /\ s[i].id = v[d].id
       /\ s[i].mark = v[d].mark
            \/ \E e \in D \ {d}: v[e] # v[d] /\ v[e].id = v[d].id

Done == {a \in Annotators: annotator[a] = "done"}
Kept == logged \ (exposed \cup crowded)

\* With one rewrite at a time the temporary file is its own.
TempInv ==
  /\ \A a, b \in Rewriting: a = b
  /\ \A a \in Annotators: annotator[a] \in {"created", "wrote"} =>
       /\ temp \in Inodes /\ temp # name /\ temp \notin unended
       /\ \A w \in Writers: held[w] # temp
  /\ \A a \in Annotators: annotator[a] = "created" =>
       held[a] = temp /\ content[temp] = <<>>
  /\ temp # None => \E a \in Annotators: annotator[a] \in {"created", "wrote"}

\* What another writer may yet tear has no annotation that is done.
BegunInv ==
  name \in unended =>
    \A e \in F!LastOf(content[name]): \A d \in Done: verdict[d].id # e.id

\* Then what is in the log is kept, in the log and in what is to replace it.
KeepInv ==
  /\ BegunInv
  /\ Keeps(entries, Kept, Done, verdict, next_id)
  /\ \A a \in Annotators: annotator[a] \in {"read", "created"} =>
       Keeps(copy[a], Kept, Done \cup {a}, verdict, next_id)
  /\ \A a \in Annotators: annotator[a] = "wrote" =>
       Keeps(content[temp], Kept, Done \cup {a}, verdict, next_id)

LogInv == LogTypes /\ (~tangled => TempInv /\ KeepInv)

-----------------------------------------------------------------------------
(* What a sequence of entries keeps.                                       *)

\* It keeps no less than it is asked for.
LEMMA KeepsLess ==
  ASSUME NEW s, NEW ids, NEW D, NEW v, NEW n \in Nat, Keeps(s, ids, D, v, n),
         NEW less, less \subseteq ids, NEW m \in Nat, n <= m,
         NEW u, \A d \in D: u[d] = v[d]
  PROVE  Keeps(s, less, D, u, m)
<1>1. \A i \in 1 .. Len(s): s[i] \in Entry
  BY DEF Keeps
<1>2. \A i \in 1 .. Len(s): s[i].id \in Int
  BY <1>1 DEF Entry
<1> QED BY <1>2 DEF Keeps

\* It keeps a new entry that is appended.
LEMMA KeepsAppend ==
  ASSUME NEW s, NEW ids, NEW D, NEW v, NEW n \in Nat, Keeps(s, ids, D, v, n),
         NEW e \in Entry, e.id = n
  PROVE  Keeps(Append(s, e), ids \cup {n}, D, v, n + 1)
<1> DEFINE t == Append(s, e)
<1>1. s \in Seq(Entry) /\ Len(s) \in Nat
  BY DEF Keeps
<1>2. t \in Seq(Entry) /\ Len(t) = Len(s) + 1 /\ t[Len(s) + 1] = e
  BY <1>1
<1>3. \A i \in 1 .. Len(s): t[i] = s[i] /\ i \in 1 .. Len(t)
  BY <1>1
<1>4. \A i \in 1 .. Len(s): s[i].id \in Int /\ s[i].id < n
  <2>1. \A i \in 1 .. Len(s): s[i] \in Entry
    BY <1>1
  <2> QED BY <2>1 DEF Keeps, Entry
<1>5. \A i \in 1 .. Len(t): i \in 1 .. Len(s) \/ i = Len(s) + 1
  BY <1>1, <1>2
<1> HIDE DEF t
<1>6. \A i \in 1 .. Len(t): t[i].id < n + 1
  BY <1>2, <1>3, <1>4, <1>5
<1>7. \A i, j \in 1 .. Len(t): t[i].id = t[j].id => i = j
  BY <1>2, <1>3, <1>4, <1>5 DEF Keeps
<1>8. \A id \in ids \cup {n}: \E i \in 1 .. Len(t): t[i].id = id
  <2>1. Len(s) + 1 \in 1 .. Len(t)
    BY <1>1, <1>2
  <2> QED BY <2>1, <1>2, <1>3 DEF Keeps
<1>9. \A d \in D: \E i \in 1 .. Len(t):
        /\ t[i].id = v[d].id
        /\ t[i].mark = v[d].mark
             \/ \E f \in D \ {d}: v[f] # v[d] /\ v[f].id = v[d].id
  BY <1>3 DEF Keeps
<1>10. Keeps(t, ids \cup {n}, D, v, n + 1)
  BY <1>2, <1>6, <1>7, <1>8, <1>9 DEF Keeps
<1> QED BY <1>10 DEF t

\* With one mark changed it keeps that annotation too.
LEMMA KeepsMark ==
  ASSUME NEW s, NEW ids, NEW D, NEW v, NEW n, Keeps(s, ids, D, v, n),
         NEW k \in 1 .. Len(s), NEW m \in Marks, NEW t, NEW d, d \notin D, NEW u,
         t \in Seq(Entry), Len(t) = Len(s),
         \A i \in 1 .. Len(s): t[i].id = s[i].id,
         \A i \in 1 .. Len(s): i # k => t[i] = s[i],
         t[k].mark = m,
         u[d].id = s[k].id, u[d].mark = m, \A e \in D: u[e] = v[e]
  PROVE  Keeps(t, ids, D \cup {d}, u, n)
<1>1. \A i \in 1 .. Len(t): t[i].id < n
  BY DEF Keeps
<1>2. \A i, j \in 1 .. Len(t): t[i].id = t[j].id => i = j
  BY DEF Keeps
<1>3. \A id \in ids: \E i \in 1 .. Len(t): t[i].id = id
  BY DEF Keeps
<1>4. ASSUME NEW e \in D
      PROVE  \E i \in 1 .. Len(t):
               /\ t[i].id = u[e].id
               /\ t[i].mark = u[e].mark
                    \/ \E f \in (D \cup {d}) \ {e}: u[f] # u[e] /\ u[f].id = u[e].id
  <2>1. PICK i \in 1 .. Len(s):
          /\ s[i].id = v[e].id
          /\ s[i].mark = v[e].mark
               \/ \E f \in D \ {e}: v[f] # v[e] /\ v[f].id = v[e].id
    BY DEF Keeps
  <2>2. t[i].id = u[e].id
    BY <2>1
  <2>3. CASE \E f \in D \ {e}: v[f] # v[e] /\ v[f].id = v[e].id
    BY <2>2, <2>3
  <2>4. CASE s[i].mark = v[e].mark /\ i # k
    BY <2>1, <2>2, <2>4
  <2>5. CASE i = k
    <3>1. t[i].mark = u[e].mark \/ u[d] # u[e]
      BY <2>5
    <3>2. u[d].id = u[e].id /\ d # e
      BY <2>1, <2>5
    <3> QED BY <2>2, <3>1, <3>2
  <2> QED BY <2>1, <2>3, <2>4, <2>5
<1>5. \E i \in 1 .. Len(t): t[i].id = u[d].id /\ t[i].mark = u[d].mark
  OBVIOUS
<1> QED BY <1>1, <1>2, <1>3, <1>4, <1>5 DEF Keeps

\* Without its last entry it keeps the rest.
LEMMA KeepsCut ==
  ASSUME NEW s \in Seq(Entry), NEW e, NEW ids, NEW D, NEW v, NEW n,
         Keeps(Append(s, e), ids, D, v, n), \A d \in D: v[d].id # e.id
  PROVE  Keeps(s, ids \ {e.id}, D, v, n)
<1> DEFINE t == Append(s, e)
<1>1. Len(s) \in Nat /\ Len(t) = Len(s) + 1 /\ t[Len(s) + 1] = e
  OBVIOUS
<1>2. \A i \in 1 .. Len(s): t[i] = s[i] /\ i \in 1 .. Len(t)
  BY <1>1
<1>3. \A i \in 1 .. Len(t): i \in 1 .. Len(s) \/ t[i] = e
  BY <1>1
<1>4. Keeps(t, ids, D, v, n)
  OBVIOUS
<1> HIDE DEF t
<1>5. /\ \A i \in 1 .. Len(s): s[i].id < n
      /\ \A i, j \in 1 .. Len(s): s[i].id = s[j].id => i = j
  BY <1>2, <1>4 DEF Keeps
<1>6. \A id \in ids \ {e.id}: \E i \in 1 .. Len(s): s[i].id = id
  BY <1>2, <1>3, <1>4 DEF Keeps
<1>7. ASSUME NEW d \in D
      PROVE  \E i \in 1 .. Len(s):
               /\ s[i].id = v[d].id
               /\ s[i].mark = v[d].mark
                    \/ \E f \in D \ {d}: v[f] # v[d] /\ v[f].id = v[d].id
  <2>1. PICK i \in 1 .. Len(t):
          /\ t[i].id = v[d].id
          /\ t[i].mark = v[d].mark
               \/ \E f \in D \ {d}: v[f] # v[d] /\ v[f].id = v[d].id
    BY <1>4 DEF Keeps
  <2>2. i \in 1 .. Len(s)
    BY <1>3, <2>1
  <2> QED BY <1>2, <2>1, <2>2
<1> QED BY <1>5, <1>6, <1>7 DEF Keeps

-----------------------------------------------------------------------------
(* Inodes.                                                                 *)

\* One inode is free whenever there is no temporary file.
LEMMA FreeFacts ==
  ASSUME LogTypes, temp = None
  PROVE  /\ F!FreeInode \in Inodes /\ F!FreeInode # name
         /\ \A p \in Processes: held[p] # F!FreeInode
<1> DEFINE R == Range(held)
           N == Cardinality(Processes)
<1>1. IsFiniteSet(Processes) /\ N \in Nat
  BY ProcessAssumption, FS_Union, FS_CardinalityType DEF Processes
<1>2. held \in Surjection(Processes, R)
  BY DEF LogTypes, Range, Surjection
<1>3. IsFiniteSet(R) /\ Cardinality(R) <= N /\ Cardinality(R) \in Nat
  BY <1>1, <1>2, FS_Surjection, FS_CardinalityType
<1> DEFINE U == R \cup {name}
<1>4. IsFiniteSet(U) /\ Cardinality(U) <= N + 1 /\ Cardinality(U) \in Nat
  <2> HIDE DEF R, N
  <2>1. IsFiniteSet(U) /\ (Cardinality(U) = Cardinality(R) \/ Cardinality(U) = Cardinality(R) + 1)
    BY <1>3, FS_AddElement
  <2> QED BY <1>1, <1>3, <2>1, FS_CardinalityType
<1>5. IsFiniteSet(Inodes) /\ Cardinality(Inodes) = N + 2
  <2> HIDE DEF N
  <2>1. 1 \in Int /\ N + 2 \in Int /\ Inodes = 1 .. N + 2
    BY <1>1 DEF Inodes, N
  <2> QED BY <1>1, <2>1, FS_Interval
<1>6. \E i \in Inodes: i \notin U
  <2> SUFFICES ASSUME Inodes \subseteq U PROVE FALSE
    OBVIOUS
  <2> HIDE DEF U, N
  <2>1. Cardinality(Inodes) <= Cardinality(U)
    BY <1>4, FS_Subset
  <2> QED BY <1>1, <1>4, <1>5, <2>1
<1>7. PICK i \in Inodes: i \notin U
  BY <1>6
<1>8. F!Referenced(name, temp, held) \subseteq U /\ U \ {None} \subseteq F!Referenced(name, temp, held)
  BY DEF F!Referenced, F!Range, Range
<1>9. F!FreeInode \in Inodes /\ F!FreeInode \notin F!Referenced(name, temp, held)
  BY <1>7, <1>8 DEF F!FreeInode
<1>10. F!FreeInode \notin U
  BY <1>8, <1>9, ProcessAssumption
<1> QED BY <1>9, <1>10 DEF LogTypes, Range

\* What is under either name survives collection.
LEMMA CollectFacts ==
  ASSUME NEW cs \in [Inodes -> Seq(Line)], NEW n \in Inodes, NEW t \in Inodes \cup {None},
         NEW h
  PROVE  /\ F!Collect(cs, n, t, h) \in [Inodes -> Seq(Line)]
         /\ F!Collect(cs, n, t, h)[n] = cs[n]
         /\ t # None => F!Collect(cs, n, t, h)[t] = cs[t]
<1>1. n # None
  BY ProcessAssumption
<1>2. n \in F!Referenced(n, t, h) /\ (t # None => t \in F!Referenced(n, t, h))
  BY <1>1 DEF F!Referenced
<1>3. <<>> \in Seq(Line)
  OBVIOUS
<1> QED BY <1>2, <1>3 DEF F!Collect

-----------------------------------------------------------------------------
(* Each step on the log.                                                   *)

\* What is yet to be logged is finite, and MaxEntries is a number.
LEMMA PendingFacts ==
  /\ IsFiniteSet(Pending) /\ Cardinality(Pending) \in Nat
  /\ Cardinality(Pending) <= 2 * Cardinality(Writers)
  /\ Cardinality(Writers) \in Nat /\ MaxEntries \in Nat
<1>1. IsFiniteSet(Writers) /\ Cardinality(Writers) \in Nat
  BY ProcessAssumption, FS_CardinalityType
<1>2. IsFiniteSet(1 .. 2) /\ Cardinality(1 .. 2) = 2
  <2> DEFINE lo == 1
             hi == 2
  <2>1. lo \in Int /\ hi \in Int
    OBVIOUS
  <2> HIDE DEF lo, hi
  <2>2. IsFiniteSet(lo .. hi) /\ Cardinality(lo .. hi) = IF lo > hi THEN 0 ELSE hi - lo + 1
    BY <2>1, FS_Interval
  <2> QED BY <2>2 DEF lo, hi
<1>3. /\ IsFiniteSet(Writers \X (1 .. 2))
      /\ Cardinality(Writers \X (1 .. 2)) = Cardinality(Writers) * 2
  BY <1>1, <1>2, FS_Product
<1>4. Pending \subseteq Writers \X (1 .. 2)
  BY DEF Pending
<1>5. /\ IsFiniteSet(Pending) /\ Cardinality(Pending) \in Nat
      /\ Cardinality(Pending) <= Cardinality(Writers) * 2
  BY <1>3, <1>4, FS_Subset, FS_CardinalityType
<1>6. Len(InitialLog) \in Nat
  BY LogAssumption
<1> QED BY <1>1, <1>5, <1>6 DEF MaxEntries

\* What earlier sessions left.
LEMMA LogInitInv == ASSUME LogInit PROVE LogInv
<1> DEFINE n == Len(InitialLog)
<1>1. n \in Nat /\ InitialLog \in Seq(Entry) /\ \A i \in 1 .. n: InitialLog[i].id = i
  BY LogAssumption
<1>2. Cardinality(Processes) \in Nat
  BY ProcessAssumption, FS_Union, FS_CardinalityType DEF Processes
<1>3. 1 \in Inodes
  BY <1>2 DEF Inodes
<1>4. name = 1 /\ temp = None /\ content[1] = InitialLog /\ held = [p \in Processes |-> None]
  BY <1>3 DEF LogInit, F!FileInit
<1>5. LogTypes
  <2>1. content \in [Inodes -> Seq(Line)]
    <3>1. InitialLog \in Seq(Line) /\ <<>> \in Seq(Line)
      BY <1>1 DEF Line
    <3> QED BY <3>1 DEF LogInit, F!FileInit
  <2>2. \A w \in Writers: batch[w] \in Seq(Violation) /\ Len(batch[w]) <= 2
    BY LogAssumption DEF LogInit
  <2>3. batch \in [Writers -> Seq(Violation)]
    BY <2>2 DEF LogInit
  <2>4. copy \in [Annotators -> Seq(Entry)]
    BY DEF LogInit
  <2>5. /\ next_id \in Nat \ {0} /\ next_id + Cardinality(Pending) <= MaxEntries + 1
        /\ logged = 1 .. next_id - 1
    BY <1>1, PendingFacts DEF LogInit, MaxEntries
  <2>6. verdict \in [Annotators -> [id: 0 .. MaxEntries, mark: Marks]]
    BY PendingFacts DEF LogInit, Marks
  <2>7. \A a \in Annotators: a \in Processes /\ annotator[a] = "idle"
    BY DEF LogInit, Processes
  <2>8. annotator \in [Annotators -> {"idle", "read", "created", "wrote", "done",
                                   "failed"}]
    BY DEF LogInit
  <2>9. \A w \in Writers: held[w] = None
    BY <1>4 DEF Processes
  <2>10. unended = {} /\ ending = {} /\ exposed = {} /\ crowded = {} /\ tangled = FALSE
    BY DEF LogInit, F!FileInit
  <2> QED BY <1>3, <1>4, <2>1, <2>2, <2>3, <2>4, <2>5, <2>6, <2>7, <2>8, <2>9, <2>10
          DEF LogTypes
<1>6. \A a \in Annotators: annotator[a] = "idle"
  BY DEF LogInit
<1>7. TempInv
  BY <1>4, <1>6 DEF TempInv, Rewriting
<1>8. Keeps(entries, Kept, Done, verdict, next_id)
  <2>1. Done = {} /\ Kept = 1 .. n /\ next_id = n + 1
    BY <1>6 DEF Done, Kept, LogInit
  <2>2. Keeps(InitialLog, 1 .. n, {}, verdict, n + 1)
    BY <1>1 DEF Keeps
  <2>3. entries = InitialLog
    <3> DEFINE ls == InitialLog
    <3>1. entries = F!Parsed(ls)
      BY <1>4 DEF entries, F!Readable
    <3>2. ls \in Seq(Entry) /\ ls \in Seq(Entry \cup {Torn}) /\ Torn \notin Entry
      BY <1>1, LogAssumption
    <3> HIDE DEF ls
    <3>3. F!Parsed(ls) = ls
      BY <3>2, ParsedFacts
    <3> QED BY <3>1, <3>3 DEF ls
  <2> QED BY <2>1, <2>2, <2>3
<1>9. BegunInv
  BY DEF BegunInv, LogInit, F!FileInit
<1>10. KeepInv
  BY <1>6, <1>8, <1>9 DEF KeepInv
<1> QED BY <1>5, <1>7, <1>10 DEF LogInv

\* What is read of the log is what is under its name.
LEMMA EntriesSame ==
  ASSUME content'[name'] = content[name]
  PROVE  entries' = entries /\ F!LastOf(content[name])' = F!LastOf(content[name])
BY DEF entries, F!Readable, F!LastOf

\* The log is opened under the name it has.
LEMMA OpenLogStep ==
  ASSUME LogInv, NEW w \in Writers, OpenLog(w)
  PROVE  LogInv'
<1>1. /\ batch[w] # <<>> /\ held' = [held EXCEPT ![w] = name]
      /\ UNCHANGED <<content, unended, name, temp, batch, ending, annotator, copy>>
      /\ UNCHANGED <<verdict, next_id, logged, exposed, crowded, tangled>>
  BY DEF OpenLog, F!OpenToAppend
<1>2. LogTypes /\ w \in Processes /\ \A a \in Annotators: a # w
  BY ProcessAssumption DEF LogInv, Processes
<1>3. LogTypes'
  <2>1. held' \in [Processes -> Inodes \cup {None}]
    BY <1>1, <1>2 DEF LogTypes
  <2>2. \A p \in Processes: p # w => held'[p] = held[p]
    BY <1>1, <1>2 DEF LogTypes
  <2>3. Pending' = Pending
    BY <1>1 DEF Pending
  <2>4. Writers \subseteq Processes /\ Annotators \subseteq Processes
    BY DEF Processes
  <2> QED BY <1>1, <1>2, <2>1, <2>2, <2>3, <2>4 DEF LogTypes
<1>4. ASSUME TempInv PROVE TempInv'
  BY <1>1, <1>2, <1>4 DEF TempInv, LogTypes, Processes, Rewriting
<1>5. ASSUME KeepInv PROVE KeepInv'
  <2>1. Kept' = Kept /\ Done' = Done /\ entries' = entries
    BY <1>1, EntriesSame DEF Kept, Done
  <2>2. BegunInv'
    BY <1>1, <1>5, <2>1, EntriesSame DEF KeepInv, BegunInv
  <2>3. Keeps(entries, Kept, Done, verdict, next_id)'
    BY <1>1, <1>5, <2>1 DEF KeepInv, Keeps
  <2>4. ASSUME NEW a \in Annotators, annotator'[a] \in {"read", "created"}
        PROVE  Keeps(copy[a], Kept, Done \cup {a}, verdict, next_id)'
    <3>1. Keeps(copy[a], Kept, Done \cup {a}, verdict, next_id)
      BY <1>1, <1>5, <2>4 DEF KeepInv
    <3> QED BY <1>1, <2>1, <3>1 DEF Keeps
  <2>5. ASSUME NEW a \in Annotators, annotator'[a] = "wrote"
        PROVE  Keeps(content[temp], Kept, Done \cup {a}, verdict, next_id)'
    <3>1. Keeps(content[temp], Kept, Done \cup {a}, verdict, next_id)
      BY <1>1, <1>5, <2>5 DEF KeepInv
    <3> QED BY <1>1, <2>1, <3>1 DEF Keeps
  <2> QED BY <2>2, <2>3, <2>4, <2>5 DEF KeepInv
<1> QED BY <1>1, <1>3, <1>4, <1>5 DEF LogInv

\* One violation fewer is pending when one is logged.
LEMMA PendingStep ==
  ASSUME LogTypes, NEW w \in Writers, batch[w] # <<>>,
         batch' = [batch EXCEPT ![w] = Tail(@)]
  PROVE  /\ batch' \in [Writers -> Seq(Violation)]
         /\ Cardinality(Pending') = Cardinality(Pending) - 1
         /\ Cardinality(Pending) \in Nat \ {0}
         /\ Len(batch'[w]) <= 2
<1> DEFINE n == Len(batch[w])
           slot == <<w, n>>
<1>0. batch[w] \in Seq(Violation) /\ n <= 2
  BY DEF LogTypes
<1>1. batch[w] \in Seq(Violation) /\ n \in 1 .. 2
  <2> DEFINE b == batch[w]
  <2>1. b \in Seq(Violation) /\ b # <<>>
    BY <1>0
  <2> HIDE DEF b
  <2>2. Len(b) \in Nat \ {0}
    BY <2>1
  <2>3. n = Len(b)
    BY DEF b
  <2> HIDE DEF n
  <2>4. n \in 1 .. 2
    BY <1>0, <2>2, <2>3
  <2> QED BY <1>0, <2>4
<1>2. Tail(batch[w]) \in Seq(Violation) /\ Len(Tail(batch[w])) = n - 1
  BY <1>1
<1>3. /\ batch' \in [Writers -> Seq(Violation)]
      /\ \A z \in Writers: batch'[z] = IF z = w THEN Tail(batch[w]) ELSE batch[z]
  BY <1>2 DEF LogTypes
<1>4. slot \in Pending
  <2>1. slot \in Writers \X (1 .. 2) /\ slot[1] = w /\ slot[2] = n
    BY <1>1
  <2> HIDE DEF slot
  <2> QED BY <2>1 DEF Pending
<1>5. Pending' = Pending \ {slot}
  <2>1. Pending' = {p \in Writers \X (1 .. 2): p[2] <= Len(batch'[p[1]])}
    BY DEF Pending
  <2>2. ASSUME NEW p \in Writers \X (1 .. 2)
        PROVE  p[2] <= Len(batch'[p[1]]) <=> p[2] <= Len(batch[p[1]]) /\ p # slot
    <3>1. PICK z \in Writers, i \in 1 .. 2: p = <<z, i>>
      OBVIOUS
    <3>4. p = slot <=> z = w /\ i = n
      BY <3>1
    <3>5. p[1] = z /\ p[2] = i
      BY <3>1
    <3>2. CASE z = w
      <4>1. Len(batch'[z]) = n - 1 /\ Len(batch[z]) = n /\ n \in Int /\ i \in Int
        BY <1>1, <1>2, <1>3, <3>2
      <4> HIDE DEF n, slot
      <4> QED BY <3>2, <3>4, <3>5, <4>1
    <3>3. CASE z # w
      <4>1. batch'[z] = batch[z]
        BY <1>3, <3>3
      <4> HIDE DEF slot
      <4> QED BY <3>3, <3>4, <3>5, <4>1
    <3> QED BY <3>2, <3>3
  <2> HIDE DEF slot
  <2> QED BY <2>1, <2>2 DEF Pending
<1>6. Cardinality(Pending \ {slot}) = Cardinality(Pending) - 1
  BY <1>4, PendingFacts, FS_RemoveElement
<1>7. Cardinality(Pending) # 0
  BY <1>4, PendingFacts, FS_EmptySet
<1>8. Cardinality(Pending') = Cardinality(Pending) - 1
  BY <1>5, <1>6
<1>9. Cardinality(Pending) \in Nat \ {0}
  BY <1>7, PendingFacts
<1>10. Len(batch'[w]) <= 2
  <2>1. batch'[w] = Tail(batch[w])
    BY <1>3
  <2>2. Len(batch'[w]) = n - 1
    BY <1>2, <2>1
  <2> HIDE DEF n
  <2> QED BY <1>1, <2>2
<1> QED BY <1>3, <1>8, <1>9, <1>10

\* The text of a violation is written; the entry is exposed if that is not in
\* the log by now, or another rewrites the log, and crowded, with the one
\* before it, if that has no newline.
LEMMA LogStep ==
  ASSUME LogInv, NEW w \in Writers, Log(w)
  PROVE  LogInv'
<1> DEFINE v == Head(batch[w])
           e == [id |-> next_id, session |-> w, c |-> v.c, text |-> v.text,
                 mark |-> "none"]
           i == held[w]
           lines == content[i]
           torn == Append(F!Front(lines), Torn)
           longer == Append(lines, e)
           new == IF i \in unended THEN torn ELSE longer
           last == {f.id: f \in F!LastOf(lines)}
<1>1. /\ i # None /\ w \notin ending
      /\ content' = [content EXCEPT ![i] = new]
      /\ unended' = unended \cup {i}
      /\ batch' = [batch EXCEPT ![w] = Tail(@)] /\ ending' = ending \cup {w}
      /\ next_id' = next_id + 1 /\ logged' = logged \cup {next_id}
      /\ exposed' = IF i # name \/ Rewriting # {} THEN exposed \cup {next_id}
                    ELSE exposed
      /\ crowded' = crowded \cup IF i \in unended THEN {next_id} \cup last ELSE {}
      /\ UNCHANGED <<name, temp, held, annotator, copy, verdict, tangled>>
  BY DEF Log, F!AppendText
<1>2. LogTypes /\ w \in Processes /\ \A a \in Annotators: a # w
  BY ProcessAssumption DEF LogInv, Processes
<1>3. batch[w] # <<>> /\ i \in Inodes /\ lines \in Seq(Entry \cup {Torn}) /\ Torn \notin Entry
  BY <1>1, <1>2, LogAssumption DEF LogTypes, Line
<1>4. /\ batch' \in [Writers -> Seq(Violation)]
      /\ Cardinality(Pending') = Cardinality(Pending) - 1
      /\ Cardinality(Pending) \in Nat \ {0}
      /\ Len(batch'[w]) <= 2
  BY <1>1, <1>2, <1>3, PendingStep
<1>5. next_id \in 1 .. MaxEntries
  BY <1>2, <1>4, PendingFacts DEF LogTypes
<1>6. e \in Entry /\ e.id = next_id
  <2>1. v \in Violation
    BY <1>2, <1>3 DEF LogTypes
  <2> HIDE DEF v
  <2> QED BY <1>5, <2>1 DEF Entry, Violation, Marks
<1> HIDE DEF e, v, lines
<1>7. /\ longer \in Seq(Entry \cup {Torn}) /\ F!LastOf(longer) = {e} \ {Torn}
      /\ F!Parsed(longer) = Append(F!Parsed(lines), e)
      /\ F!LastOf(lines) \subseteq Entry \cup {Torn}
  <2>1. e \in Entry \cup {Torn} /\ e # Torn
    BY <1>3, <1>6
  <2>2. /\ F!LastOf(longer) = {e} \ {Torn}
        /\ F!LastOf(lines) \subseteq Entry \cup {Torn}
    BY <1>3, LastFacts
  <2>3. F!Parsed(longer) = IF e = Torn THEN F!Parsed(lines) ELSE Append(F!Parsed(lines), e)
    BY <1>3, <2>1, ParsedAppend
  <2> QED BY <1>3, <2>1, <2>2, <2>3
<1>8. /\ torn \in Seq(Entry \cup {Torn}) /\ F!LastOf(torn) = {}
      /\ \/ F!Parsed(torn) = F!Parsed(lines)
         \/ \E f \in F!LastOf(lines): F!Parsed(lines) = Append(F!Parsed(torn), f)
  <2>1. torn = Append(F!Front(lines), Torn)
    OBVIOUS
  <2> HIDE DEF torn
  <2> QED BY <1>3, <2>1, ParsedTorn
<1> HIDE DEF torn, longer
<1>9. last \subseteq 1 .. MaxEntries
  <2>1. \A f \in F!LastOf(lines): f \in Entry
    BY <1>7 DEF F!LastOf
  <2> QED BY <2>1 DEF Entry
<1> HIDE DEF last
<1>10. /\ content' \in [Inodes -> Seq(Line)] /\ content'[i] = new
       /\ \A j \in Inodes: j # i => content'[j] = content[j]
  <2>1. new \in Seq(Line)
    BY <1>7, <1>8 DEF Line
  <2> HIDE DEF new
  <2> QED BY <1>1, <1>2, <1>3, <2>1 DEF LogTypes
<1>11. LogTypes'
  <2>1. \A z \in Writers: z # w => batch'[z] = batch[z]
    BY <1>1, <1>2 DEF LogTypes
  <2>2. \A z \in Writers: /\ Len(batch'[z]) <= 2
                          /\ held'[z] # None => batch'[z] # <<>> \/ z \in ending'
    BY <1>1, <1>2, <1>4, <2>1 DEF LogTypes
  <2>3. next_id' \in Nat \ {0} /\ next_id' + Cardinality(Pending') <= MaxEntries + 1
    <3>1. next_id \in Nat \ {0} /\ next_id + Cardinality(Pending) <= MaxEntries + 1
      BY <1>2 DEF LogTypes
    <3>2. Cardinality(Pending) \in Nat /\ MaxEntries \in Nat
      BY PendingFacts
    <3>3. next_id' = next_id + 1
      BY <1>1
    <3>4. Cardinality(Pending') = Cardinality(Pending) - 1
      BY <1>4
    <3> QED BY <3>1, <3>2, <3>3, <3>4
  <2>4. logged' = 1 .. next_id' - 1 /\ exposed' \subseteq logged'
    BY <1>1, <1>2 DEF LogTypes
  <2>5. crowded' \subseteq 1 .. MaxEntries
    BY <1>1, <1>2, <1>5, <1>9 DEF LogTypes
  <2>6. unended' \subseteq Inodes /\ ending' \subseteq Writers
    BY <1>1, <1>2, <1>3 DEF LogTypes
  <2> HIDE DEF new, i
  <2> QED BY <1>1, <1>2, <1>4, <1>10, <2>2, <2>3, <2>4, <2>5, <2>6 DEF LogTypes
<1>12. ASSUME TempInv PROVE TempInv'
  <2>1. \A a \in Annotators: annotator[a] \in {"created", "wrote"} =>
          content'[temp] = content[temp] /\ temp \notin unended'
    BY <1>1, <1>10, <1>12 DEF TempInv
  <2>2. UNCHANGED <<name, temp, held, annotator>>
    BY <1>1
  <2> HIDE DEF new, i
  <2> QED BY <1>12, <2>1, <2>2 DEF TempInv, Rewriting
<1>13. ASSUME TempInv, KeepInv PROVE KeepInv'
  <2>1. Done' = Done /\ next_id \in Nat /\ next_id + 1 \in Nat /\ next_id <= next_id + 1
    BY <1>1, <1>2 DEF Done, LogTypes
  <2>2. Kept' \subseteq Kept \cup {next_id}
    BY <1>1 DEF Kept
  <2>3. i # name \/ Rewriting # {} \/ i \in unended => Kept' \subseteq Kept
    BY <1>1, <1>2 DEF Kept, LogTypes
  <2>4. i \in unended => Kept' \subseteq Kept \ last
    BY <1>1, <2>3 DEF Kept
  <2>5. Keeps(entries, Kept, Done, verdict, next_id) /\ BegunInv
    BY <1>13 DEF KeepInv
  <2>6. entries = F!Parsed(content[name]) /\ entries' = F!Parsed(content'[name])
    BY <1>1 DEF entries, F!Readable
  <2>7. Keeps(entries', Kept', Done, verdict, next_id + 1)
    <3>1. CASE i = name /\ i \notin unended
      <4>1. entries = F!Parsed(lines) /\ entries' = F!Parsed(longer)
        BY <1>10, <2>6, <3>1 DEF lines
      <4>2. Keeps(Append(entries, e), Kept \cup {next_id}, Done, verdict, next_id + 1)
        BY <1>6, <2>1, <2>5, KeepsAppend
      <4>3. Keeps(entries', Kept \cup {next_id}, Done, verdict, next_id + 1)
        BY <1>7, <4>1, <4>2
      <4> QED BY <2>1, <2>2, <4>3, KeepsLess
    <3>2. CASE i = name /\ i \in unended
      <4>1. entries = F!Parsed(lines) /\ entries' = F!Parsed(torn)
        BY <1>10, <2>6, <3>2 DEF lines
      <4>2. CASE F!Parsed(torn) = F!Parsed(lines)
        BY <2>1, <2>3, <2>5, <3>2, <4>1, <4>2, KeepsLess
      <4>3. CASE \E f \in F!LastOf(lines): F!Parsed(lines) = Append(F!Parsed(torn), f)
        <5>1. PICK f \in F!LastOf(lines): entries = Append(entries', f)
          BY <4>1, <4>3
        <5>2. f.id \in last /\ \A d \in Done: verdict[d].id # f.id
          BY <2>5, <3>2, <5>1 DEF BegunInv, last, lines
        <5>3. entries' \in Seq(Entry)
          BY <1>8, <4>1, ParsedFacts
        <5> DEFINE rest == entries'
        <5>4. /\ rest \in Seq(Entry)
              /\ Keeps(Append(rest, f), Kept, Done, verdict, next_id)
          BY <2>5, <5>1, <5>3
        <5> HIDE DEF rest
        <5>5. Keeps(rest, Kept \ {f.id}, Done, verdict, next_id)
          BY <5>2, <5>4, KeepsCut
        <5>6. Kept' \subseteq Kept \ {f.id}
          BY <2>4, <3>2, <5>2
        <5>7. Keeps(rest, Kept', Done, verdict, next_id + 1)
          BY <2>1, <5>5, <5>6, KeepsLess
        <5> QED BY <5>7 DEF rest
      <4> QED BY <1>8, <4>2, <4>3
    <3>3. CASE i # name
      <4>1. entries' = entries
        BY <1>2, <1>10, <2>6, <3>3 DEF LogTypes
      <4> QED BY <2>1, <2>3, <2>5, <3>3, <4>1, KeepsLess
    <3> QED BY <3>1, <3>2, <3>3
  <2>8. ASSUME NEW a \in Annotators, annotator[a] \in {"read", "created"}
        PROVE  Keeps(copy[a], Kept', Done \cup {a}, verdict, next_id + 1)
    <3>1. Rewriting # {}
      BY <2>8 DEF Rewriting
    <3>2. Keeps(copy[a], Kept, Done \cup {a}, verdict, next_id)
      BY <1>13, <2>8 DEF KeepInv
    <3> QED BY <2>1, <2>3, <3>1, <3>2, KeepsLess
  <2>9. ASSUME NEW a \in Annotators, annotator[a] = "wrote"
        PROVE  Keeps(content'[temp], Kept', Done \cup {a}, verdict, next_id + 1)
    <3>1. Rewriting # {}
      BY <2>9 DEF Rewriting
    <3>2. Keeps(content[temp], Kept, Done \cup {a}, verdict, next_id)
      BY <1>13, <2>9 DEF KeepInv
    <3>3. temp \in Inodes /\ i # temp
      BY <1>13, <2>9 DEF TempInv
    <3>4. content'[temp] = content[temp]
      BY <1>10, <3>3
    <3> QED BY <2>1, <2>3, <3>1, <3>2, <3>4, KeepsLess
  <2>10. ASSUME name \in unended'
         PROVE  \A f \in F!LastOf(content'[name]): \A d \in Done: verdict[d].id # f.id
    <3>1. CASE i # name
      <4>1. name \in unended /\ content'[name] = content[name]
        BY <1>1, <1>2, <1>10, <2>10, <3>1 DEF LogTypes
      <4> QED BY <2>5, <4>1 DEF BegunInv
    <3>2. CASE i = name /\ i \in unended
      BY <1>8, <1>10, <3>2
    <3>3. CASE i = name /\ i \notin unended
      <4>1. \A f \in F!LastOf(content'[name]): f.id = next_id
        BY <1>6, <1>7, <1>10, <3>3
      <4>2. \A d \in Done: verdict[d].id # next_id
        <5> SUFFICES ASSUME NEW d \in Done PROVE verdict[d].id # next_id
          OBVIOUS
        <5>1. PICK j \in 1 .. Len(entries): entries[j].id = verdict[d].id
          BY <2>5 DEF Keeps
        <5>2. entries[j].id < next_id
          BY <2>5 DEF Keeps
        <5> QED BY <2>1, <5>1, <5>2
      <4> QED BY <4>1, <4>2
    <3> QED BY <3>1, <3>2, <3>3
  <2>11. UNCHANGED <<name, temp, annotator, copy, verdict>> /\ next_id' = next_id + 1
    BY <1>1
  <2> HIDE DEF new, i
  <2>12. Keeps(entries, Kept, Done, verdict, next_id)'
    BY <2>1, <2>7, <2>11 DEF Keeps
  <2>13. ASSUME NEW a \in Annotators, annotator'[a] \in {"read", "created"}
         PROVE  Keeps(copy[a], Kept, Done \cup {a}, verdict, next_id)'
    <3>1. Keeps(copy[a], Kept', Done \cup {a}, verdict, next_id + 1)
      BY <2>8, <2>11, <2>13
    <3> QED BY <2>1, <2>11, <3>1 DEF Keeps
  <2>14. ASSUME NEW a \in Annotators, annotator'[a] = "wrote"
         PROVE  Keeps(content[temp], Kept, Done \cup {a}, verdict, next_id)'
    <3>1. Keeps(content'[temp], Kept', Done \cup {a}, verdict, next_id + 1)
      BY <2>9, <2>11, <2>14
    <3> QED BY <2>1, <2>11, <3>1 DEF Keeps
  <2>15. BegunInv'
    BY <2>1, <2>10, <2>11 DEF BegunInv, F!LastOf
  <2> QED BY <2>12, <2>13, <2>14, <2>15 DEF KeepInv
<1> QED BY <1>1, <1>11, <1>12, <1>13 DEF LogInv

\* A newline changes no entry.
LEMMA EndEntryStep ==
  ASSUME LogInv, NEW w \in Writers, EndEntry(w)
  PROVE  LogInv'
<1>1. /\ held' = [held EXCEPT ![w] = None] /\ ending' = ending \ {w}
      /\ content' = F!Collect(content, name, temp, held') /\ unended' \subseteq unended
      /\ UNCHANGED <<name, temp, batch, annotator, copy, verdict>>
      /\ UNCHANGED <<next_id, logged, exposed, crowded, tangled>>
  BY DEF EndEntry, F!EndLine, F!Settle
<1>2. LogTypes /\ w \in Processes /\ \A a \in Annotators: a # w
  BY ProcessAssumption DEF LogInv, Processes
<1>3. /\ content' \in [Inodes -> Seq(Line)] /\ content'[name] = content[name]
      /\ temp # None => content'[temp] = content[temp]
  <2> DEFINE held1 == held'
  <2>1. content \in [Inodes -> Seq(Line)] /\ name \in Inodes /\ temp \in Inodes \cup {None}
    BY <1>2 DEF LogTypes
  <2> HIDE DEF held1
  <2>2. /\ F!Collect(content, name, temp, held1) \in [Inodes -> Seq(Line)]
        /\ F!Collect(content, name, temp, held1)[name] = content[name]
        /\ temp # None => F!Collect(content, name, temp, held1)[temp] = content[temp]
    BY <2>1, CollectFacts
  <2> QED BY <1>1, <2>2 DEF held1
<1>4. /\ held' \in [Processes -> Inodes \cup {None}]
      /\ \A p \in Processes: held'[p] = IF p = w THEN None ELSE held[p]
  BY <1>1, <1>2 DEF LogTypes
<1>5. Kept' = Kept /\ Done' = Done /\ Rewriting' = Rewriting /\ Pending' = Pending
      /\ entries' = entries
  BY <1>1, <1>3, EntriesSame DEF Kept, Done, Rewriting, Pending
<1>6. LogTypes'
  <2>1. \A z \in Writers: /\ Len(batch'[z]) <= 2
                          /\ held'[z] # None => batch'[z] # <<>> \/ z \in ending'
    BY <1>1, <1>2, <1>4 DEF LogTypes, Processes
  <2>2. \A a \in Annotators: held'[a] = held[a]
    BY <1>2, <1>4 DEF Processes
  <2>3. unended' \subseteq Inodes /\ ending' \subseteq Writers
    BY <1>1, <1>2 DEF LogTypes
  <2> QED BY <1>1, <1>2, <1>3, <1>4, <1>5, <2>1, <2>2, <2>3 DEF LogTypes
<1>7. ASSUME TempInv PROVE TempInv'
  <2>1. \A a \in Annotators: held'[a] = held[a]
    BY <1>2, <1>4 DEF Processes
  <2>2. \A z \in Writers: held'[z] = held[z] \/ held'[z] = None
    BY <1>4 DEF Processes
  <2>3. \A a \in Annotators: annotator[a] \in {"created", "wrote"} =>
          /\ temp # None /\ content'[temp] = content[temp]
          /\ temp \notin unended' /\ \A z \in Writers: held'[z] # temp
    BY <1>1, <1>3, <1>7, <2>2, ProcessAssumption DEF TempInv
  <2> QED BY <1>1, <1>5, <1>7, <2>1, <2>3 DEF TempInv
<1>8. ASSUME TempInv, KeepInv PROVE KeepInv'
  <2>1. BegunInv'
    BY <1>1, <1>3, <1>5, <1>8, EntriesSame DEF KeepInv, BegunInv
  <2>2. Keeps(entries, Kept, Done, verdict, next_id)'
    BY <1>1, <1>5, <1>8 DEF KeepInv, Keeps
  <2>3. ASSUME NEW a \in Annotators, annotator'[a] \in {"read", "created"}
        PROVE  Keeps(copy[a], Kept, Done \cup {a}, verdict, next_id)'
    <3>1. Keeps(copy[a], Kept, Done \cup {a}, verdict, next_id)
      BY <1>1, <1>8, <2>3 DEF KeepInv
    <3> QED BY <1>1, <1>5, <3>1 DEF Keeps
  <2>4. ASSUME NEW a \in Annotators, annotator'[a] = "wrote"
        PROVE  Keeps(content[temp], Kept, Done \cup {a}, verdict, next_id)'
    <3>1. Keeps(content[temp], Kept, Done \cup {a}, verdict, next_id)
      BY <1>1, <1>8, <2>4 DEF KeepInv
    <3>2. content'[temp] = content[temp]
      BY <1>1, <1>3, <1>8, <2>4, ProcessAssumption DEF TempInv
    <3>3. Keeps(content'[temp], Kept, Done \cup {a}, verdict, next_id)
      BY <3>1, <3>2
    <3>4. UNCHANGED <<temp, verdict, next_id>>
      BY <1>1
    <3> QED BY <1>5, <3>3, <3>4 DEF Keeps
  <2> QED BY <2>1, <2>2, <2>3, <2>4 DEF KeepInv
<1> QED BY <1>1, <1>6, <1>7, <1>8 DEF LogInv

\* An annotator's marked copy keeps what the log it read kept, and its mark.
LEMMA AnnotateEntryStep ==
  ASSUME LogInv, NEW a \in Annotators, AnnotateEntry(a)
  PROVE  LogInv'
<1> DEFINE es == entries
<1>1. PICK ask \in Asked:
        /\ ask.index \in DOMAIN es
        /\ verdict' = [verdict EXCEPT ![a] = [id |-> es[ask.index].id,
                                              mark |-> ask.mark]]
        /\ copy' = [copy EXCEPT ![a] = [es EXCEPT ![ask.index].mark = ask.mark]]
  BY DEF AnnotateEntry
<1>2. /\ annotator[a] = "idle" /\ annotator' = [annotator EXCEPT ![a] = "read"]
      /\ tangled' = (tangled \/ Rewriting # {})
      /\ UNCHANGED <<content, unended, name, temp, held, batch, ending>>
      /\ UNCHANGED <<next_id, logged, exposed, crowded>>
  BY DEF AnnotateEntry, AnnotatorGoes
<1> DEFINE k == ask.index
           m == ask.mark
           t == [es EXCEPT ![k].mark = m]
<1>3. LogTypes /\ m \in Marks
  BY LogAssumption DEF LogInv
<1>4. es \in Seq(Entry)
  <2> DEFINE ls == content[name]
  <2>1. ls \in Seq(Entry \cup {Torn})
    BY <1>3 DEF LogTypes, Line
  <2>2. es = F!Parsed(ls)
    BY DEF entries, F!Readable
  <2> HIDE DEF ls, es
  <2> QED BY <2>1, <2>2, ParsedFacts
<1>0. es' = es
  BY <1>2, EntriesSame
<1> HIDE DEF es
<1>5. k \in 1 .. Len(es) /\ es[k] \in Entry
  BY <1>1, <1>4
<1>6. /\ t \in Seq(Entry) /\ Len(t) = Len(es)
      /\ \A i \in 1 .. Len(es): t[i].id = es[i].id /\ (i # k => t[i] = es[i])
      /\ t[k].mark = m
  <2> DEFINE r == [es[k] EXCEPT !.mark = m]
  <2>1. r \in Entry /\ r.id = es[k].id /\ r.mark = m
    BY <1>3, <1>5 DEF Entry
  <2>2. t = [es EXCEPT ![k] = r]
    BY <1>5
  <2> HIDE DEF r, k, m, t
  <2> QED BY <1>4, <1>5, <2>1, <2>2
<1>7. /\ verdict'[a].id = es[k].id /\ verdict'[a].mark = m
      /\ \A b \in Annotators: b # a => verdict'[b] = verdict[b]
      /\ verdict' \in [Annotators -> [id: 0 .. MaxEntries, mark: Marks]]
  <2>1. es[k].id \in 0 .. MaxEntries
    BY <1>5, PendingFacts DEF Entry
  <2> HIDE DEF k, m
  <2> QED BY <1>1, <1>3, <2>1 DEF LogTypes, k, m
<1>8. /\ copy' \in [Annotators -> Seq(Entry)] /\ copy'[a] = t
  <2> HIDE DEF t
  <2>1. copy' = [copy EXCEPT ![a] = t]
    BY <1>1 DEF t
  <2> QED BY <1>3, <1>6, <2>1 DEF LogTypes
<1> HIDE DEF t, k, m
<1>9. /\ \A b \in Annotators: annotator'[b] = IF b = a THEN "read" ELSE annotator[b]
      /\ annotator' \in [Annotators -> {"idle", "read", "created", "wrote", "done",
                                        "failed"}]
  BY <1>2, <1>3 DEF LogTypes
<1>10. LogTypes'
  <2>1. Pending' = Pending
    BY <1>2 DEF Pending
  <2>2. \A b \in Annotators: annotator'[b] = "created" <=> held'[b] # None
    BY <1>2, <1>3, <1>9 DEF LogTypes
  <2>3. tangled' \in BOOLEAN
    BY <1>2, <1>3 DEF LogTypes
  <2> QED BY <1>2, <1>3, <1>7, <1>8, <1>9, <2>1, <2>2, <2>3 DEF LogTypes
<1>11. ASSUME ~tangled' PROVE TempInv' /\ KeepInv'
  <2>1. ~tangled /\ Rewriting = {} /\ TempInv /\ KeepInv
    BY <1>2, <1>11 DEF LogInv
  <2>2. \A b \in Annotators: annotator[b] \notin {"read", "created", "wrote"}
    BY <2>1 DEF Rewriting
  <2>3. \A b \in Annotators: annotator'[b] \in {"read", "created", "wrote"} =>
          b = a /\ annotator'[b] = "read"
    BY <1>9, <2>2
  <2>4. temp' = None
    BY <1>2, <2>1, <2>2 DEF TempInv
  <2>5. TempInv'
    BY <2>3, <2>4 DEF TempInv, Rewriting
  <2>6. Kept' = Kept /\ Done' = Done /\ a \notin Done /\ Done \subseteq Annotators
    BY <1>2, <1>9 DEF Kept, Done
  <2>7. Keeps(es, Kept, Done, verdict, next_id)
    BY <2>1 DEF KeepInv, es
  <2>8. BegunInv'
    <3>1. \A d \in Done: verdict'[d] = verdict[d]
      BY <1>7, <2>6
    <3> QED BY <1>2, <2>1, <2>6, <3>1, EntriesSame DEF KeepInv, BegunInv
  <2>9. next_id \in Nat /\ next_id <= next_id /\ \A d \in Done: verdict'[d] = verdict[d]
    BY <1>3, <1>7, <2>6 DEF LogTypes
  <2>10. Keeps(es, Kept, Done, verdict', next_id)
    BY <2>7, <2>9, KeepsLess
  <2>11. Keeps(t, Kept, Done \cup {a}, verdict', next_id)
    <3> DEFINE u == verdict'
    <3>1. /\ \A d \in Done: u[d] = verdict[d]
          /\ u[a].id = es[k].id /\ u[a].mark = m
      BY <1>7, <2>9
    <3> HIDE DEF u
    <3>2. /\ a \notin Done /\ m \in Marks /\ k \in 1 .. Len(es)
          /\ t \in Seq(Entry) /\ Len(t) = Len(es) /\ t[k].mark = m
          /\ \A i \in 1 .. Len(es): t[i].id = es[i].id
          /\ \A i \in 1 .. Len(es): i # k => t[i] = es[i]
      BY <1>3, <1>5, <1>6, <2>6
    <3>3. Keeps(t, Kept, Done \cup {a}, u, next_id)
      BY <2>7, <3>1, <3>2, KeepsMark, Z3
    <3> QED BY <3>3 DEF u
  <2>12. Keeps(entries, Kept, Done, verdict, next_id)'
    BY <1>0, <1>2, <2>6, <2>10 DEF Keeps, es
  <2>13. ASSUME NEW b \in Annotators, annotator'[b] \in {"read", "created"}
         PROVE  Keeps(copy[b], Kept, Done \cup {b}, verdict, next_id)'
    <3>1. b = a /\ copy'[b] = t
      BY <1>8, <2>3, <2>13
    <3> QED BY <1>2, <2>6, <2>11, <3>1 DEF Keeps
  <2>14. \A b \in Annotators: annotator'[b] # "wrote"
    BY <2>3
  <2> QED BY <2>5, <2>8, <2>12, <2>13, <2>14 DEF KeepInv
<1> QED BY <1>10, <1>11 DEF LogInv

\* An annotator that fails leaves everything as it was.
LEMMA AnnotateNothingStep ==
  ASSUME LogInv, NEW a \in Annotators, AnnotateNothing(a)
  PROVE  LogInv'
<1>1. /\ annotator[a] = "idle" /\ annotator' = [annotator EXCEPT ![a] = "failed"]
      /\ UNCHANGED <<content, unended, name, temp, held, batch, ending, copy>>
      /\ UNCHANGED <<verdict, next_id, logged, exposed, crowded, tangled>>
  BY DEF AnnotateNothing, AnnotatorGoes
<1>2. LogTypes
  BY DEF LogInv
<1>3. /\ \A b \in Annotators: annotator'[b] = IF b = a THEN "failed" ELSE annotator[b]
      /\ annotator' \in [Annotators -> {"idle", "read", "created", "wrote", "done",
                                        "failed"}]
  BY <1>1, <1>2 DEF LogTypes
<1>4. \A b \in Annotators: \A at \in {"read", "created", "wrote", "done"}:
        annotator'[b] = at <=> annotator[b] = at
  BY <1>1, <1>3
<1>5. Pending' = Pending
  BY <1>1 DEF Pending
<1>6. Kept' = Kept /\ Done' = Done /\ Rewriting' = Rewriting /\ entries' = entries
  BY <1>1, <1>4, EntriesSame DEF Kept, Done, Rewriting
<1>7. LogTypes'
  BY <1>1, <1>2, <1>3, <1>4, <1>5 DEF LogTypes
<1>8. ASSUME TempInv PROVE TempInv'
  BY <1>1, <1>4, <1>6, <1>8 DEF TempInv
<1>9. ASSUME KeepInv PROVE KeepInv'
  <2>1. Keeps(entries, Kept, Done, verdict, next_id)'
    BY <1>1, <1>6, <1>9 DEF KeepInv, Keeps
  <2>2. ASSUME NEW b \in Annotators, annotator'[b] \in {"read", "created"}
        PROVE  Keeps(copy[b], Kept, Done \cup {b}, verdict, next_id)'
    <3>1. Keeps(copy[b], Kept, Done \cup {b}, verdict, next_id)
      BY <1>4, <1>9, <2>2 DEF KeepInv
    <3> QED BY <1>1, <1>6, <3>1 DEF Keeps
  <2>3. ASSUME NEW b \in Annotators, annotator'[b] = "wrote"
        PROVE  Keeps(content[temp], Kept, Done \cup {b}, verdict, next_id)'
    <3>1. Keeps(content[temp], Kept, Done \cup {b}, verdict, next_id)
      BY <1>4, <1>9, <2>3 DEF KeepInv
    <3> QED BY <1>1, <1>6, <3>1 DEF Keeps
  <2>4. BegunInv'
    BY <1>1, <1>6, <1>9, EntriesSame DEF KeepInv, BegunInv
  <2> QED BY <2>1, <2>2, <2>3, <2>4 DEF KeepInv
<1> QED BY <1>1, <1>7, <1>8, <1>9 DEF LogInv

\* The temporary file is neither the log nor open in any writer.
LEMMA CreateTempStep ==
  ASSUME LogInv, NEW a \in Annotators, CreateTemp(a)
  PROVE  LogInv'
<1> DEFINE i == IF temp = None THEN F!FreeInode ELSE temp
<1>1. /\ annotator[a] = "read" /\ annotator' = [annotator EXCEPT ![a] = "created"]
      /\ temp' = i /\ held' = [held EXCEPT ![a] = i]
      /\ content' = [content EXCEPT ![i] = <<>>] /\ unended' = unended \ {i}
      /\ UNCHANGED <<name, batch, ending, copy, verdict>>
      /\ UNCHANGED <<next_id, logged, exposed, crowded, tangled>>
  BY DEF CreateTemp, AnnotatorGoes, F!OpenTemp
<1>2. LogTypes /\ a \in Processes /\ a \notin Writers
  BY ProcessAssumption DEF LogInv, Processes
<1>3. /\ i \in Inodes
      /\ temp = None => i # name /\ \A p \in Processes: held[p] # i
  BY <1>2, FreeFacts DEF LogTypes
<1> HIDE DEF i
<1>4. i # None
  BY <1>3, ProcessAssumption
<1>5. /\ \A b \in Annotators: annotator'[b] = IF b = a THEN "created" ELSE annotator[b]
      /\ annotator' \in [Annotators -> {"idle", "read", "created", "wrote", "done",
                                        "failed"}]
  BY <1>1, <1>2 DEF LogTypes
<1>6. /\ held' \in [Processes -> Inodes \cup {None}]
      /\ \A p \in Processes: held'[p] = IF p = a THEN i ELSE held[p]
  BY <1>1, <1>2, <1>3 DEF LogTypes
<1>7. /\ content' \in [Inodes -> Seq(Line)] /\ content'[i] = <<>>
      /\ \A j \in Inodes: j # i => content'[j] = content[j]
  <2>1. <<>> \in Seq(Line)
    OBVIOUS
  <2> QED BY <1>1, <1>2, <1>3, <2>1 DEF LogTypes
<1>8. Pending' = Pending
  BY <1>1 DEF Pending
<1>9. LogTypes'
  <2>1. \A b \in Annotators: annotator'[b] = "created" <=> held'[b] # None
    BY <1>2, <1>4, <1>5, <1>6 DEF LogTypes, Processes
  <2>2. \A w \in Writers: /\ Len(batch'[w]) <= 2
                          /\ held'[w] # None => batch'[w] # <<>> \/ w \in ending'
    BY <1>1, <1>2, <1>6 DEF LogTypes, Processes
  <2> QED BY <1>1, <1>2, <1>3, <1>5, <1>6, <1>7, <1>8, <2>1, <2>2 DEF LogTypes
<1>10. ASSUME ~tangled' PROVE TempInv' /\ KeepInv'
  <2>1. TempInv /\ KeepInv
    BY <1>1, <1>10 DEF LogInv
  <2>2. Rewriting = {a} /\ Rewriting' = {a}
    BY <1>1, <1>5, <2>1 DEF TempInv, Rewriting
  <2>3. \A b \in Annotators: b # a => /\ annotator[b] \notin {"read", "created", "wrote"}
                                      /\ annotator'[b] \notin {"read", "created", "wrote"}
    BY <2>2 DEF Rewriting
  <2>4. temp = None /\ i # name /\ \A p \in Processes: held[p] # i
    <3>1. temp = None
      BY <1>1, <2>1, <2>3 DEF TempInv
    <3> QED BY <1>3, <3>1
  <2>5. TempInv'
    <3>1. \A w \in Writers: held'[w] # temp'
      BY <1>1, <1>2, <1>6, <2>4 DEF Processes
    <3>2. /\ temp' \in Inodes /\ temp' # name' /\ held'[a] = temp'
          /\ content'[temp'] = <<>> /\ temp' \notin unended'
      BY <1>1, <1>2, <1>3, <1>6, <1>7, <2>4
    <3>3. annotator'[a] = "created"
      BY <1>5
    <3> QED BY <2>2, <2>3, <3>1, <3>2, <3>3 DEF TempInv
  <2>0. content'[name'] = content[name]
    BY <1>1, <1>2, <1>7, <2>4 DEF LogTypes
  <2>6. Kept' = Kept /\ Done' = Done /\ entries' = entries
    BY <1>1, <1>5, <2>0, EntriesSame DEF Kept, Done
  <2>7. Keeps(entries, Kept, Done, verdict, next_id)' /\ BegunInv'
    <3>1. BegunInv'
      BY <1>1, <2>0, <2>1, <2>6, EntriesSame DEF KeepInv, BegunInv
    <3> QED BY <1>1, <2>1, <2>6, <3>1 DEF KeepInv, Keeps
  <2>8. ASSUME NEW b \in Annotators, annotator'[b] \in {"read", "created"}
        PROVE  Keeps(copy[b], Kept, Done \cup {b}, verdict, next_id)'
    <3>1. b = a
      BY <2>3, <2>8
    <3>2. Keeps(copy[a], Kept, Done \cup {a}, verdict, next_id)
      BY <1>1, <2>1 DEF KeepInv
    <3> QED BY <1>1, <2>6, <3>1, <3>2 DEF Keeps
  <2>9. \A b \in Annotators: annotator'[b] # "wrote"
    BY <1>5, <2>3
  <2> QED BY <2>5, <2>7, <2>8, <2>9 DEF KeepInv
<1> QED BY <1>9, <1>10 DEF LogInv

\* What may come of writing over a file: lines, and just those written if it
\* was empty.
LEMMA OverlayFacts ==
  ASSUME NEW new \in Seq(Entry), NEW old \in Seq(Line), NEW result \in F!Overlays(new, old)
  PROVE  result \in Seq(Line) /\ (old = <<>> => result = new)
<1>1. new \in Seq(Line) /\ Len(new) \in Nat /\ Len(old) \in Nat
  BY DEF Line
<1> DEFINE rest == SubSeq(old, Len(new) + 2, Len(old))
<1>2. ASSUME Len(old) > Len(new) PROVE new \o <<Torn>> \o rest \in Seq(Line)
  <2>1. rest \in Seq(Line)
    <3> DEFINE lo == Len(new) + 2
               hi == Len(old)
    <3>1. lo \in Int /\ hi \in Int /\ \A j \in lo .. hi: old[j] \in Line
      BY <1>1
    <3> HIDE DEF lo, hi
    <3>2. SubSeq(old, lo, hi) \in Seq(Line)
      BY <3>1, SubSeqProperties
    <3> QED BY <3>2 DEF lo, hi
  <2> HIDE DEF rest
  <2>2. <<Torn>> \in Seq(Line)
    BY DEF Line
  <2> QED BY <1>1, <2>1, <2>2
<1>3. new \o <<Torn>> \in Seq(Line)
  <2>1. <<Torn>> \in Seq(Line)
    BY DEF Line
  <2> QED BY <1>1, <2>1
<1>4. \/ result = new
      \/ Len(old) > Len(new) /\ result = new \o <<Torn>> \o rest
      \/ old # <<>> /\ result = new \o <<Torn>>
  BY DEF F!Overlays
<1>5. old = <<>> => Len(old) = 0
  OBVIOUS
<1> DEFINE behind == new \o <<Torn>> \o rest
           torn == new \o <<Torn>>
<1>6. /\ Len(old) > Len(new) => behind \in Seq(Line)
      /\ torn \in Seq(Line)
      /\ \/ result = new
         \/ Len(old) > Len(new) /\ result = behind
         \/ old # <<>> /\ result = torn
  BY <1>2, <1>3, <1>4
<1> HIDE DEF rest, behind, torn
<1> QED BY <1>1, <1>5, <1>6

\* The copy is written to the temporary file, and nothing else is there.
LEMMA WriteCopyStep ==
  ASSUME LogInv, NEW a \in Annotators, WriteCopy(a)
  PROVE  LogInv'
<1> DEFINE i == held[a]
<1>1. PICK result \in F!Overlays(copy[a], content[i]):
        /\ content' = F!Collect([content EXCEPT ![i] = result], name, temp, held')
        /\ held' = [held EXCEPT ![a] = None] /\ UNCHANGED <<name, temp>>
        /\ unended' \subseteq unended
  BY DEF WriteCopy, F!WriteTemp, F!Settle
<1>2. /\ annotator[a] = "created" /\ annotator' = [annotator EXCEPT ![a] = "wrote"]
      /\ held' = [held EXCEPT ![a] = None] /\ copy' = [copy EXCEPT ![a] = <<>>]
      /\ unended' \subseteq unended /\ UNCHANGED <<name, temp, batch, ending, verdict>>
      /\ UNCHANGED <<next_id, logged, exposed, crowded, tangled>>
  BY <1>1 DEF WriteCopy, AnnotatorGoes
<1>3. LogTypes /\ a \in Processes /\ a \notin Writers
  BY ProcessAssumption DEF LogInv, Processes
<1>4. i \in Inodes
  BY <1>2, <1>3 DEF LogTypes
<1>5. result \in Seq(Line) /\ (content[i] = <<>> => result = copy[a])
  <2> DEFINE new == copy[a]
             old == content[i]
  <2>1. new \in Seq(Entry) /\ old \in Seq(Line) /\ result \in F!Overlays(new, old)
    BY <1>1, <1>3, <1>4 DEF LogTypes
  <2> HIDE DEF new, old
  <2>2. result \in Seq(Line) /\ (old = <<>> => result = new)
    BY <2>1, OverlayFacts
  <2> QED BY <2>2 DEF new, old
<1> DEFINE cs == [content EXCEPT ![i] = result]
<1>6. /\ content' \in [Inodes -> Seq(Line)] /\ content'[name] = cs[name]
      /\ temp # None => content'[temp] = cs[temp]
  <2> DEFINE held1 == held'
             cs1 == cs
  <2>1. cs1 \in [Inodes -> Seq(Line)] /\ name \in Inodes /\ temp \in Inodes \cup {None}
    BY <1>3, <1>5 DEF LogTypes
  <2> HIDE DEF cs1, held1
  <2>2. /\ F!Collect(cs1, name, temp, held1) \in [Inodes -> Seq(Line)]
        /\ F!Collect(cs1, name, temp, held1)[name] = cs1[name]
        /\ temp # None => F!Collect(cs1, name, temp, held1)[temp] = cs1[temp]
    BY <2>1, CollectFacts
  <2>3. content' = F!Collect(cs1, name, temp, held1)
    BY <1>1 DEF cs1, held1
  <2> HIDE DEF cs
  <2> QED BY <2>2, <2>3 DEF cs1
<1>7. /\ \A b \in Annotators: annotator'[b] = IF b = a THEN "wrote" ELSE annotator[b]
      /\ annotator' \in [Annotators -> {"idle", "read", "created", "wrote", "done",
                                        "failed"}]
  BY <1>2, <1>3 DEF LogTypes
<1>8. /\ held' \in [Processes -> Inodes \cup {None}]
      /\ \A p \in Processes: held'[p] = IF p = a THEN None ELSE held[p]
  BY <1>2, <1>3 DEF LogTypes
<1>9. copy' \in [Annotators -> Seq(Entry)]
  <2>1. <<>> \in Seq(Entry)
    OBVIOUS
  <2> QED BY <1>2, <1>3, <2>1 DEF LogTypes
<1>10. Pending' = Pending
  BY <1>2 DEF Pending
<1>11. LogTypes'
  <2>1. \A b \in Annotators: annotator'[b] = "created" <=> held'[b] # None
    BY <1>3, <1>7, <1>8 DEF LogTypes, Processes
  <2>2. \A w \in Writers: /\ Len(batch'[w]) <= 2
                          /\ held'[w] # None => batch'[w] # <<>> \/ w \in ending'
    BY <1>2, <1>3, <1>8 DEF LogTypes, Processes
  <2> QED BY <1>2, <1>3, <1>6, <1>7, <1>8, <1>9, <1>10, <2>1, <2>2 DEF LogTypes
<1>12. ASSUME ~tangled' PROVE TempInv' /\ KeepInv'
  <2>1. TempInv /\ KeepInv
    BY <1>2, <1>12 DEF LogInv
  <2>2. Rewriting = {a} /\ Rewriting' = {a}
    BY <1>2, <1>7, <2>1 DEF TempInv, Rewriting
  <2>3. \A b \in Annotators: b # a => /\ annotator[b] \notin {"read", "created", "wrote"}
                                      /\ annotator'[b] \notin {"read", "created", "wrote"}
    BY <2>2 DEF Rewriting
  <2>4. /\ i = temp /\ content[temp] = <<>> /\ temp # name /\ temp \in Inodes
        /\ temp \notin unended /\ \A w \in Writers: held[w] # temp
    BY <1>2, <2>1 DEF TempInv
  <2>5. content'[temp] = copy[a] /\ content'[name] = content[name]
    <3>1. result = copy[a] /\ temp # None
      BY <1>5, <2>4, ProcessAssumption
    <3>2. cs[temp] = copy[a] /\ cs[name] = content[name]
      BY <1>3, <2>4, <3>1 DEF LogTypes
    <3> QED BY <1>6, <3>1, <3>2
  <2> HIDE DEF i, cs
  <2>6. TempInv'
    <3>1. \A w \in Writers: held'[w] # temp'
      <4>1. temp # None
        BY <2>4, ProcessAssumption
      <4> QED BY <1>2, <1>3, <1>8, <2>4, <4>1 DEF Processes
    <3>2. annotator'[a] = "wrote"
      BY <1>7
    <3> QED BY <1>2, <2>2, <2>3, <2>4, <3>1, <3>2 DEF TempInv
  <2>7. Kept' = Kept /\ Done' = Done /\ entries' = entries
    BY <1>2, <1>7, <2>5, EntriesSame DEF Kept, Done
  <2>8. Keeps(entries, Kept, Done, verdict, next_id)' /\ BegunInv'
    <3>1. BegunInv'
      BY <1>2, <2>1, <2>5, <2>7, EntriesSame DEF KeepInv, BegunInv
    <3> QED BY <1>2, <2>1, <2>7, <3>1 DEF KeepInv, Keeps
  <2>9. \A b \in Annotators: annotator'[b] \notin {"read", "created"}
    BY <1>7, <2>3
  <2>10. ASSUME NEW b \in Annotators, annotator'[b] = "wrote"
         PROVE  Keeps(content[temp], Kept, Done \cup {b}, verdict, next_id)'
    <3>1. b = a
      BY <2>3, <2>10
    <3>2. Keeps(copy[a], Kept, Done \cup {a}, verdict, next_id)
      BY <1>2, <2>1 DEF KeepInv
    <3>3. Keeps(content'[temp], Kept, Done \cup {a}, verdict, next_id)
      BY <2>5, <3>2
    <3> QED BY <1>2, <2>7, <3>1, <3>3 DEF Keeps
  <2> QED BY <2>6, <2>8, <2>9, <2>10 DEF KeepInv
<1> QED BY <1>11, <1>12 DEF LogInv

\* What replaces the log keeps what the log kept, and the annotation.
LEMMA ReplaceLogStep ==
  ASSUME LogInv, NEW a \in Annotators, ReplaceLog(a)
  PROVE  LogInv'
<1> DEFINE at == annotator'[a]
<1>1. /\ annotator[a] = "wrote"
      /\ \/ annotator' = [annotator EXCEPT ![a] = "done"] /\ F!Rename
         \/ annotator' = [annotator EXCEPT ![a] = "failed"] /\ F!RenameFails
      /\ UNCHANGED <<batch, ending, copy, verdict, next_id>>
      /\ UNCHANGED <<logged, exposed, crowded, tangled>>
  BY DEF ReplaceLog, AnnotatorGoes
<1>2. LogTypes
  BY DEF LogInv
<1>3. /\ at \in {"done", "failed"}
      /\ \A b \in Annotators: b # a => annotator'[b] = annotator[b]
      /\ annotator' \in [Annotators -> {"idle", "read", "created", "wrote", "done",
                                        "failed"}]
  BY <1>1, <1>2 DEF LogTypes
<1>4. Pending' = Pending
  BY <1>1 DEF Pending
<1>5. CASE F!RenameFails
  <2>1. temp = None /\ UNCHANGED <<content, unended, name, temp, held>>
    BY <1>5 DEF F!RenameFails, F!fileVars
  <2>2. LogTypes'
    BY <1>1, <1>2, <1>3, <1>4, <2>1 DEF LogTypes
  <2>3. tangled'
    BY <1>1, <2>1, ProcessAssumption DEF LogInv, TempInv
  <2> QED BY <2>2, <2>3 DEF LogInv
<1>6. CASE F!Rename /\ annotator' = [annotator EXCEPT ![a] = "done"]
  <2>1. /\ temp # None /\ name' = temp /\ temp' = None /\ held' = held
        /\ content' = F!Collect(content, temp, None, held) /\ unended' \subseteq unended
    BY <1>6 DEF F!Rename, F!Settle
  <2>2. content' \in [Inodes -> Seq(Line)] /\ content'[temp] = content[temp] /\ temp \in Inodes
    <3> DEFINE none == None
    <3>1. temp \in Inodes /\ none \in Inodes \cup {None} /\ content \in [Inodes -> Seq(Line)]
      BY <1>2, <2>1 DEF LogTypes
    <3> HIDE DEF none
    <3>2. /\ F!Collect(content, temp, none, held) \in [Inodes -> Seq(Line)]
          /\ F!Collect(content, temp, none, held)[temp] = content[temp]
          /\ none # None => F!Collect(content, temp, none, held)[none] = content[none]
      BY <3>1, CollectFacts
    <3> QED BY <2>1, <3>1, <3>2 DEF none
  <2>3. LogTypes'
    BY <1>1, <1>2, <1>3, <1>4, <2>1, <2>2 DEF LogTypes
  <2>4. ASSUME ~tangled' PROVE TempInv' /\ KeepInv'
    <3>1. TempInv /\ KeepInv
      BY <1>1, <2>4 DEF LogInv
    <3>2. \A b \in Annotators: annotator'[b] \notin {"read", "created", "wrote"}
      BY <1>1, <1>3, <3>1 DEF TempInv, Rewriting
    <3>3. TempInv'
      BY <2>1, <3>2 DEF TempInv, Rewriting
    <3>4. Kept' = Kept /\ Done' = Done \cup {a}
      BY <1>1, <1>2, <1>6 DEF Kept, Done, LogTypes
    <3>5. Keeps(content[temp], Kept, Done \cup {a}, verdict, next_id)
      BY <1>1, <3>1 DEF KeepInv
    <3>6. Keeps(entries, Kept, Done, verdict, next_id)'
      <4> DEFINE ls == content[temp]
      <4>1. content'[name'] = ls /\ ls \in Seq(Entry) /\ ls \in Seq(Entry \cup {Torn})
        BY <1>2, <2>1, <2>2, <3>5 DEF Keeps, LogTypes, Line
      <4>2. UNCHANGED <<verdict, next_id>>
        BY <1>1
      <4>3. entries' = F!Parsed(ls)
        BY <4>1 DEF entries, F!Readable
      <4> HIDE DEF ls
      <4>4. entries' = ls
        BY <4>1, <4>3, ParsedFacts, LogAssumption
      <4> QED BY <3>4, <3>5, <4>2, <4>4 DEF Keeps, ls
    <3>7. BegunInv'
      <4>1. temp \notin unended
        BY <1>1, <3>1 DEF TempInv
      <4> QED BY <2>1, <4>1 DEF BegunInv
    <3> QED BY <3>2, <3>3, <3>6, <3>7 DEF KeepInv
  <2> QED BY <2>3, <2>4 DEF LogInv
<1> QED BY <1>1, <1>5, <1>6

\* Every step on the log.
LEMMA LogNextInv == ASSUME LogInv, LogNext PROVE LogInv'
BY OpenLogStep, LogStep, EndEntryStep, AnnotateEntryStep, AnnotateNothingStep, CreateTempStep,
   WriteCopyStep, ReplaceLogStep DEF LogNext

\* A step that leaves the log alone.
LEMMA LogStutter == ASSUME LogInv, UNCHANGED logVars PROVE LogInv'
<1>1. /\ UNCHANGED <<content, unended, name, temp, held, batch, ending, annotator>>
      /\ UNCHANGED <<copy, verdict, next_id, logged, exposed, crowded, tangled>>
  BY DEF logVars
<1>2. /\ Pending' = Pending /\ Kept' = Kept /\ Done' = Done /\ Rewriting' = Rewriting
      /\ entries' = entries
  BY <1>1, EntriesSame DEF Pending, Kept, Done, Rewriting
<1>3. ASSUME LogTypes PROVE LogTypes'
  BY <1>1, <1>2, <1>3 DEF LogTypes
<1>4. ASSUME TempInv PROVE TempInv'
  BY <1>1, <1>2, <1>4 DEF TempInv
<1>5. ASSUME KeepInv PROVE KeepInv'
  <2>1. BegunInv'
    BY <1>1, <1>2, <1>5, EntriesSame DEF KeepInv, BegunInv
  <2> QED BY <1>1, <1>2, <1>5, <2>1 DEF KeepInv, Keeps
<1> QED BY <1>1, <1>3, <1>4, <1>5 DEF LogInv

\* Only refinements and the user leave the log alone.
LEMMA RefineNextLog == ASSUME LogInv, [RefineNext]_vars PROVE LogInv'
<1>1. LogNext \/ UNCHANGED logVars
  BY DEF RefineNext, ReadLog, ReadYaml, Truncate, Write, ReadAgain, UserEdit, vars
<1> QED BY <1>1, LogNextInv, LogStutter

\* The invariant of the log holds however the steps on the two files
\* interleave.
THEOREM LogInvariance == Interleaved => []LogInv
<1>1. Init => LogInv
  BY LogInitInv DEF Init
<1>2. LogInv /\ [RefineNext]_vars => LogInv'
  BY RefineNextLog
<1> QED BY <1>1, <1>2, PTL DEF Interleaved

\* What TLC runs takes only steps of the two files.
LEMMA SpecInterleaves == Spec => Interleaved
<1>1. [Next]_<<logVars, refineVars>> => [RefineNext]_vars
  BY DEF Next, RefineNext, vars
<1> QED BY <1>1, PTL DEF Spec, Interleaved

\* With the invariant, the log keeps what it should.
LEMMA LogInvKept == ASSUME LogInv PROVE LogKept
<1> SUFFICES ASSUME ~tangled PROVE LogKept
  BY DEF LogKept
<1> DEFINE es == entries
<1>3. Keeps(es, Kept, Done, verdict, next_id) /\ DOMAIN es = 1 .. Len(es)
  BY DEF LogInv, KeepInv, Keeps
<1> HIDE DEF es
<1>4. \A id \in logged \ (exposed \cup crowded): Present(es, id)
  BY <1>3 DEF Keeps, Kept, Present
<1>5. ASSUME NEW a \in Annotators, annotator[a] = "done"
      PROVE  \E i \in DOMAIN es:
               /\ es[i].id = verdict[a].id
               /\ es[i].mark = verdict[a].mark
                  \/ \E b \in Annotators \ {a}:
                       annotator[b] = "done" /\ verdict[b] # verdict[a]
                                             /\ verdict[b].id = verdict[a].id
  <2>1. a \in Done /\ \A b \in Done \ {a}: b \in Annotators \ {a} /\ annotator[b] = "done"
    BY <1>5 DEF Done
  <2>2. PICK i \in 1 .. Len(es):
          /\ es[i].id = verdict[a].id
          /\ es[i].mark = verdict[a].mark
               \/ \E b \in Done \ {a}: verdict[b] # verdict[a] /\ verdict[b].id = verdict[a].id
    BY <1>3, <2>1 DEF Keeps
  <2> QED BY <1>3, <2>1, <2>2
<1>6. IsInjective([i \in DOMAIN es |-> es[i].id])
  BY <1>3 DEF Keeps, IsInjective
<1> QED BY <1>4, <1>5, <1>6 DEF LogKept, es

\* However the single writes of all processes interleave, the log keeps what
\* LogKept says: unless two annotations overlap, every entry but those written
\* while another process rewrites the file, and those that share their line.
THEOREM EntriesStay == Interleaved => []LogKept
<1>1. LogInv => LogKept
  BY LogInvKept
<1> QED BY <1>1, LogInvariance, PTL

-----------------------------------------------------------------------------
(* The inductive invariant of rigor.yaml, in parts.                        *)

AnyText == Text \cup {Empty, Damaged}
Found == UNION {[cs -> Patterns]: cs \in SUBSET Constraints}
YamlTypes ==
  /\ yaml \in AnyText
  /\ refiner \in [Refiners -> {"idle", "hits", "noted", "cut", "reread",
                               "excluded", "cut2", "done"}]
  /\ found \in [Refiners -> Found]
  /\ \A r \in Refiners: refiner[r] = "idle" => DOMAIN found[r] = {}
  /\ draft \in [Refiners -> AnyText]
  /\ edits \in 0 .. MaxEdits /\ crossed \in BOOLEAN

\* Neither a note nor an exclusion is in txt twice.
Once(txt) ==
  /\ \A c \in Known: txt.notes[c] <= 1
  /\ \A c, d \in Known: \A i \in 1 .. Len(txt.exclusions[c]),
                           j \in 1 .. Len(txt.exclusions[d]):
       txt.exclusions[c][i] = txt.exclusions[d][j] => c = d /\ i = j
OnceInv ==
  /\ yaml \in Text => Once(yaml)
  /\ \A r \in Refiners: draft[r] \in Text => Once(draft[r])

\* txt has a note on each constraint of cs, an exclusion for each of p.
NotesOn(txt, cs) == \A c \in cs \cap Known: txt.notes[c] > 0
Excludes(txt, p) ==
  \A c \in DOMAIN p \cap Known: \E d \in Known: \E i \in 1 .. Len(txt.exclusions[d]):
    txt.exclusions[d][i] = p[c]

\* txt has all that was written to rigor.yaml so far: e edits, and what the
\* refinements that are at that point have found.
Whole(txt, e, at, fd) ==
  /\ txt \in Text /\ txt.edit = e
  /\ \A r \in Refiners: at[r] \in {"reread", "excluded", "cut2", "done"} =>
       NotesOn(txt, DOMAIN fd[r])
  /\ \A r \in Streams: at[r] = "done" => Excludes(txt, fd[r])

\* One refinement at a time edits the file; what it is about to write is
\* whole, and so is the file but between the halves of a write.
WholeInv ==
  /\ \A r, q \in Editing: r = q
  /\ (\A r \in Refiners: refiner[r] \notin {"cut", "cut2"}) =>
       Whole(yaml, edits, refiner, found)
  /\ \A r \in Refiners: refiner[r] \in {"cut", "cut2"} => yaml = Empty
  /\ \A r \in Refiners: refiner[r] \in {"noted", "cut", "excluded", "cut2"} =>
       Whole(draft[r], edits, refiner, found)
  /\ \A r \in Refiners: refiner[r] \in {"noted", "cut"} =>
       NotesOn(draft[r], DOMAIN found[r])
  /\ \A r \in Refiners: refiner[r] \in {"excluded", "cut2"} =>
       Excludes(draft[r], found[r])

YamlInv == YamlTypes /\ OnceInv /\ (~crossed => WholeInv)

-----------------------------------------------------------------------------
(* What is written.                                                        *)

\* A text is none of the halves of writes.
LEMMA TextFacts ==
  ASSUME NEW txt \in AnyText
  PROVE  Good(txt) <=> txt \in Text
BY TextAssumption DEF Good, AnyText

\* A note is put where there is none, and nothing else changes.
LEMMA NoteFacts ==
  ASSUME NEW txt \in Text, NEW cs
  PROVE  /\ Note(txt, cs) \in Text
         /\ Note(txt, cs).exclusions = txt.exclusions /\ Note(txt, cs).edit = txt.edit
         /\ \A c \in Known: Note(txt, cs).notes[c] =
              IF c \in cs /\ txt.notes[c] = 0 THEN 1 ELSE txt.notes[c]
<1> DEFINE ns == [c \in Known |-> IF c \in cs /\ txt.notes[c] = 0 THEN 1 ELSE txt.notes[c]]
<1>1. ns \in [Known -> Nat]
  BY DEF Text
<1>2. Note(txt, cs) = [txt EXCEPT !.notes = ns]
  BY DEF Note
<1>3. \A c \in Known: ns[c] = IF c \in cs /\ txt.notes[c] = 0 THEN 1 ELSE txt.notes[c]
  OBVIOUS
<1> HIDE DEF ns
<1> QED BY <1>1, <1>2, <1>3 DEF Text

\* An exclusion is appended unless it is anywhere in the text.
LEMMA InjectFacts ==
  ASSUME NEW txt \in Text, NEW k, NEW p \in Patterns, NEW res, res = Inject(txt, k, p)
  PROVE  /\ res \in Text /\ res.notes = txt.notes /\ res.edit = txt.edit
         /\ \A d \in Known: /\ Len(txt.exclusions[d]) <= Len(res.exclusions[d])
                            /\ \A i \in 1 .. Len(txt.exclusions[d]):
                                 res.exclusions[d][i] = txt.exclusions[d][i]
         /\ k \in Known => \E d \in Known: \E i \in 1 .. Len(res.exclusions[d]):
              res.exclusions[d][i] = p
         /\ Once(txt) => Once(res)
<1> DEFINE old == txt.exclusions
           new == [d \in Known |-> IF d = k THEN Append(old[d], p) ELSE old[d]]
<1>1. old \in [Known -> Seq(Patterns)]
  BY DEF Text
<1>2. new \in [Known -> Seq(Patterns)]
  BY <1>1
<1>3. CASE k \in Known /\ \A d \in Known: p \notin ToSet(old[d])
  <2>1. res = [txt EXCEPT !.exclusions = new]
    BY <1>3 DEF Inject
  <2> HIDE DEF old, new
  <2>2. /\ res \in Text /\ res.notes = txt.notes /\ res.edit = txt.edit
        /\ res.exclusions = new
    BY <1>2, <2>1 DEF Text
  <2>3. \A d \in Known: Len(old[d]) \in Nat /\ Len(new[d]) \in Nat
    BY <1>1, <1>2
  <2>4. \A d \in Known: \A i \in 1 .. Len(old[d]): new[d][i] = old[d][i]
    BY <1>1 DEF new
  <2>5. /\ Len(new[k]) = Len(old[k]) + 1 /\ new[k][Len(old[k]) + 1] = p
        /\ \A d \in Known: d # k => new[d] = old[d]
    BY <1>1, <1>3 DEF new
  <2>6. \A d \in Known: \A i \in 1 .. Len(old[d]): old[d][i] # p
    BY <1>1, <1>3 DEF ToSet
  <2>7. ASSUME Once(txt) PROVE Once(res)
    <3>1. \A d \in Known: \A i \in 1 .. Len(new[d]):
            i \in 1 .. Len(old[d]) \/ (d = k /\ i = Len(old[k]) + 1)
      BY <2>3, <2>5
    <3>2. \A c, d \in Known: \A i \in 1 .. Len(old[c]), j \in 1 .. Len(old[d]):
            old[c][i] = old[d][j] => c = d /\ i = j
      BY <2>7 DEF Once, old
    <3>3. \A c, d \in Known: \A i \in 1 .. Len(new[c]), j \in 1 .. Len(new[d]):
            new[c][i] = new[d][j] => c = d /\ i = j
      BY <2>4, <2>5, <2>6, <3>1, <3>2
    <3> QED BY <2>2, <2>7, <3>3 DEF Once
  <2>8. \E i \in 1 .. Len(new[k]): new[k][i] = p
    BY <1>3, <2>3, <2>5
  <2>9. \A d \in Known: Len(old[d]) <= Len(new[d])
    BY <2>3, <2>5
  <2> QED BY <1>3, <2>2, <2>4, <2>7, <2>8, <2>9 DEF old
<1>4. CASE ~(k \in Known /\ \A d \in Known: p \notin ToSet(old[d]))
  <2>1. res = txt
    BY <1>4 DEF Inject
  <2>2. \A d \in Known: Len(old[d]) \in Nat
    BY <1>1
  <2>3. k \in Known => \E d \in Known: \E i \in 1 .. Len(old[d]): old[d][i] = p
    BY <1>1, <1>4 DEF ToSet
  <2> QED BY <2>1, <2>2, <2>3
<1> QED BY <1>3, <1>4

\* A text with every exclusion of pats, and all that txt has.
Injected(txt, pats, res) ==
  /\ res \in Text /\ res.notes = txt.notes /\ res.edit = txt.edit
  /\ \A d \in Known: /\ Len(txt.exclusions[d]) <= Len(res.exclusions[d])
                     /\ \A i \in 1 .. Len(txt.exclusions[d]):
                          res.exclusions[d][i] = txt.exclusions[d][i]
  /\ Excludes(res, pats)
  /\ Once(txt) => Once(res)

\* What the loop over the constraints has for each of them.
LEMMA LoopFacts ==
  ASSUME NEW txt \in Text, NEW order, Len(order) \in Nat, NEW pats,
         \A i \in 1 .. Len(order): pats[order[i]] \in Patterns
  PROVE  \E g \in [0 .. Len(order) -> Text]:
           /\ g[0] = txt
           /\ \A i \in 1 .. Len(order): g[i] = Inject(g[i - 1], order[i], pats[order[i]])
           /\ InjectEach(txt, pats, order) = g[Len(order)]
<1> DEFINE last == Len(order)
<1>0. last \in Nat /\ \A i \in 1 .. last: pats[order[i]] \in Patterns
  OBVIOUS
<1> HIDE DEF last
<1> DEFINE turn == [i \in 1 .. last |-> [v \in Text |-> Inject(v, order[i], pats[order[i]])]]
<1>1. turn \in [1 .. last -> [Text -> Text]]
  <2>1. \A i \in 1 .. last: \A v \in Text: Inject(v, order[i], pats[order[i]]) \in Text
    <3> SUFFICES ASSUME NEW i \in 1 .. last, NEW v \in Text
                 PROVE  Inject(v, order[i], pats[order[i]]) \in Text
      BY <1>0
    <3> DEFINE j == order[i]
               q == pats[j]
               out == Inject(v, j, q)
    <3>1. q \in Patterns /\ out = Inject(v, j, q)
      BY <1>0
    <3> HIDE DEF j, q, out
    <3>2. out \in Text
      BY <3>1, InjectFacts
    <3> QED BY <3>2 DEF j, q, out
  <2> QED BY <2>1
<1>2. PICK h \in [0 .. last -> Text]:
        h[0] = txt /\ \A i \in 1 .. last: h[i] = turn[i][h[i - 1]]
  <2> DEFINE W == Text
  <2>1. txt \in W /\ turn \in [1 .. last -> [W -> W]]
    BY <1>1
  <2> HIDE DEF turn, W
  <2>2. \E g \in [0 .. last -> W]: g[0] = txt /\ \A i \in 1 .. last: g[i] = turn[i][g[i - 1]]
    <3>1. last \in Nat
      BY <1>0
    <3> QED BY <2>1, <3>1, Recursion
  <2> QED BY <2>2 DEF W
<1>3. \A i \in 1 .. last: h[i] = Inject(h[i - 1], order[i], pats[order[i]])
  <2> SUFFICES ASSUME NEW i \in 1 .. last PROVE h[i] = Inject(h[i - 1], order[i], pats[order[i]])
    BY <1>0
  <2>1. h[i - 1] \in Text
    BY <1>0
  <2> QED BY <1>2, <2>1
<1> HIDE DEF turn
<1> DEFINE Def(g) == g = [i \in 0 .. last |-> IF i = 0 THEN txt
                            ELSE Inject(g[i - 1], order[i], pats[order[i]])]
           kept == CHOOSE g: Def(g)
<1>4. Def(kept)
  <2>1. \A i \in 0 .. last: h[i] = IF i = 0 THEN txt
                            ELSE Inject(h[i - 1], order[i], pats[order[i]])
    <3> SUFFICES ASSUME NEW i \in 0 .. last, i # 0
                 PROVE  h[i] = Inject(h[i - 1], order[i], pats[order[i]])
      BY <1>2
    <3>1. i \in 1 .. last
      BY <1>0
    <3> QED BY <1>3, <3>1
  <2>2. Def(h)
    BY <1>2, <2>1
  <2>3. \E g: Def(g)
    BY <2>2
  <2> HIDE DEF Def
  <2> QED BY <2>3
<1>5. InjectEach(txt, pats, order) = kept[last]
  BY DEF InjectEach, Loop, last
<1> HIDE DEF kept
<1>6. kept[0] = txt /\ \A i \in 1 .. last: kept[i] = Inject(kept[i - 1], order[i], pats[order[i]])
  <2>1. 0 \in 0 .. last /\ \A i \in 1 .. last: i \in 0 .. last /\ i # 0
    BY <1>0
  <2> QED BY <1>4, <2>1
<1>7. \A i \in 0 .. last: kept[i] = h[i]
  <2> DEFINE T == {i \in Nat: i <= last => kept[i] = h[i]}
  <2>1. 0 \in T
    BY <1>2, <1>6
  <2>2. ASSUME NEW i \in Nat, i \in T PROVE i + 1 \in T
    <3> SUFFICES ASSUME i + 1 <= last PROVE kept[i + 1] = h[i + 1]
      BY <1>0
    <3>1. i + 1 \in 1 .. last /\ (i + 1) - 1 = i /\ kept[i] = h[i]
      BY <1>0, <2>2
    <3> QED BY <1>3, <1>6, <3>1
  <2>3. Nat \subseteq T
    <3> HIDE DEF T
    <3> QED BY <2>1, <2>2, SetInduction
  <2> QED BY <1>0, <2>3
<1>8. InjectEach(txt, pats, order) = h[last]
  <2>1. last \in 0 .. last
    BY <1>0
  <2> QED BY <1>5, <1>7, <2>1
<1> QED BY <1>2, <1>3, <1>8 DEF last

\* An order of a finite set lists it, whatever the order.
LEMMA OrderFacts ==
  ASSUME NEW S, IsFiniteSet(S), NEW order \in SetToSeqs(S)
  PROVE  /\ order \in Seq(S) /\ Len(order) = Cardinality(S) /\ Len(order) \in Nat
         /\ \A el \in S: \E i \in 1 .. Len(order): order[i] = el
<1> DEFINE n == Cardinality(S)
           D == 1 .. n
<1>1. n \in Nat
  BY FS_CardinalityType
<1>2. order \in [D -> S] /\ \A i, j \in D: i # j => order[i] # order[j]
  BY DEF SetToSeqs
<1>3. order \in Injection(D, S)
  BY <1>2 DEF Injection, IsInjective
<1>4. IsFiniteSet(D) /\ Cardinality(D) = n
  <2> DEFINE lo == 1
  <2>1. lo \in Int /\ n \in Int
    BY <1>1
  <2> HIDE DEF lo, n
  <2>2. IsFiniteSet(lo .. n) /\ Cardinality(lo .. n) = IF lo > n THEN 0 ELSE n - lo + 1
    BY <2>1, FS_Interval
  <2> QED BY <1>1, <2>2 DEF lo
<1>5. order \in Surjection(D, S)
  <2> HIDE DEF D
  <2> QED BY <1>3, <1>4, FS_Injection
<1>6. order \in Seq(S) /\ Len(order) = n
  <2> HIDE DEF n
  <2> QED BY <1>1, <1>2
<1>7. \A el \in S: \E i \in D: order[i] = el
  <2> HIDE DEF D
  <2> QED BY <1>5 DEF Surjection
<1> QED BY <1>1, <1>6, <1>7

\* Whatever the order, every exclusion is in, and nothing is lost.
LEMMA InjectAllFacts ==
  ASSUME NEW txt \in Text, NEW pats \in Found, NEW res \in InjectAll(txt, pats)
  PROVE  Injected(txt, pats, res)
<1> DEFINE S == DOMAIN pats
<1>1. S \subseteq Constraints /\ \A c \in S: pats[c] \in Patterns
  BY DEF Found
<1>2. IsFiniteSet(S)
  BY <1>1, RefineAssumption, FS_Subset
<1>3. PICK order \in SetToSeqs(S):
        res = InjectEach(txt, pats, order)
  BY TextAssumption DEF InjectAll, Good
<1> DEFINE len == Len(order)
<1>4. /\ order \in Seq(S) /\ len \in Nat
      /\ \A c \in S: \E i \in 1 .. len: order[i] = c
  <2> HIDE DEF S
  <2> QED BY <1>2, OrderFacts
<1> HIDE DEF len
<1>5. \A i \in 1 .. len: order[i] \in S /\ pats[order[i]] \in Patterns
  BY <1>1, <1>4 DEF len
<1>6. PICK g \in [0 .. len -> Text]:
        /\ g[0] = txt
        /\ \A i \in 1 .. len: g[i] = Inject(g[i - 1], order[i], pats[order[i]])
        /\ InjectEach(txt, pats, order) = g[len]
  <2>1. Len(order) \in Nat /\ \A i \in 1 .. Len(order): pats[order[i]] \in Patterns
    BY <1>4, <1>5 DEF len
  <2> QED BY <2>1, LoopFacts DEF len
<1> DEFINE In(it, q) == \E d \in Known: \E i \in 1 .. Len(it.exclusions[d]):
                          it.exclusions[d][i] = q
           Keeping(a, b) ==
             /\ b.notes = a.notes /\ b.edit = a.edit
             /\ \A d \in Known: /\ Len(a.exclusions[d]) <= Len(b.exclusions[d])
                                /\ \A i \in 1 .. Len(a.exclusions[d]):
                                     b.exclusions[d][i] = a.exclusions[d][i]
             /\ Once(a) => Once(b)
           T == {i \in Nat: i <= len =>
                   /\ Keeping(txt, g[i])
                   /\ \A j \in 1 .. i: order[j] \in Known => In(g[i], pats[order[j]])}
<1>7. \A it \in Text: \A d \in Known: Len(it.exclusions[d]) \in Nat
  <2> SUFFICES ASSUME NEW it \in Text, NEW d \in Known PROVE Len(it.exclusions[d]) \in Nat
    OBVIOUS
  <2>1. it.exclusions[d] \in Seq(Patterns)
    BY DEF Text
  <2> QED BY <2>1
<1>8. \A a, b, c \in Text: Keeping(a, b) /\ Keeping(b, c) => Keeping(a, c)
  <2> HIDE DEF Keeping
  <2> SUFFICES ASSUME NEW a \in Text, NEW b \in Text, NEW c \in Text,
                      Keeping(a, b), Keeping(b, c)
               PROVE  Keeping(a, c)
    OBVIOUS
  <2>1. ASSUME NEW d \in Known
        PROVE  /\ Len(a.exclusions[d]) <= Len(c.exclusions[d])
               /\ \A i \in 1 .. Len(a.exclusions[d]): c.exclusions[d][i] = a.exclusions[d][i]
    <3>1. /\ Len(a.exclusions[d]) \in Nat /\ Len(b.exclusions[d]) \in Nat
          /\ Len(c.exclusions[d]) \in Nat
      BY <1>7
    <3>2. /\ Len(a.exclusions[d]) <= Len(b.exclusions[d])
          /\ Len(b.exclusions[d]) <= Len(c.exclusions[d])
          /\ \A i \in 1 .. Len(a.exclusions[d]): b.exclusions[d][i] = a.exclusions[d][i]
          /\ \A i \in 1 .. Len(b.exclusions[d]): c.exclusions[d][i] = b.exclusions[d][i]
      BY DEF Keeping
    <3> DEFINE la == Len(a.exclusions[d])
               lb == Len(b.exclusions[d])
               lc == Len(c.exclusions[d])
    <3> HIDE DEF la, lb, lc
    <3>3. la <= lc /\ \A i \in 1 .. la: i \in 1 .. lb
      BY <3>1, <3>2 DEF la, lb, lc
    <3> QED BY <3>2, <3>3 DEF la, lb, lc
  <2> QED BY <2>1 DEF Keeping
<1>9. \A a, b \in Text: \A q: Keeping(a, b) /\ In(a, q) => In(b, q)
  <2> SUFFICES ASSUME NEW a \in Text, NEW b \in Text, NEW q, Keeping(a, b), In(a, q)
               PROVE  In(b, q)
    OBVIOUS
  <2>1. PICK d \in Known: \E i \in 1 .. Len(a.exclusions[d]): a.exclusions[d][i] = q
    OBVIOUS
  <2>2. PICK i \in 1 .. Len(a.exclusions[d]): a.exclusions[d][i] = q
    BY <2>1
  <2>3. Len(a.exclusions[d]) <= Len(b.exclusions[d]) /\ b.exclusions[d][i] = q
    BY <2>2
  <2>4. Len(a.exclusions[d]) \in Nat /\ Len(b.exclusions[d]) \in Nat
    BY <1>7
  <2>5. i \in 1 .. Len(b.exclusions[d])
    <3> DEFINE la == Len(a.exclusions[d])
               lb == Len(b.exclusions[d])
    <3>1. i \in 1 .. la /\ la <= lb /\ la \in Nat /\ lb \in Nat
      BY <2>2, <2>3, <2>4
    <3> HIDE DEF la, lb
    <3>2. i \in 1 .. lb
      BY <3>1
    <3> QED BY <3>2 DEF lb
  <2> QED BY <2>3, <2>5
<1>10. 0 \in T
  <2>1. Keeping(txt, txt)
    BY <1>7
  <2>2. \A j \in 1 .. 0: FALSE
    OBVIOUS
  <2> HIDE DEF Keeping, In
  <2> QED BY <1>6, <2>1, <2>2
<1>11. ASSUME NEW i \in Nat, i \in T PROVE i + 1 \in T
  <2> SUFFICES ASSUME i + 1 <= len
               PROVE  /\ Keeping(txt, g[i + 1])
                      /\ \A j \in 1 .. i + 1: order[j] \in Known => In(g[i + 1], pats[order[j]])
    OBVIOUS
  <2> DEFINE z == i + 1
             a == g[i]
             b == g[z]
             k == order[z]
             q == pats[k]
  <2>1. z \in 1 .. len /\ z - 1 = i /\ a \in Text /\ b \in Text
    <3>1. z \in 1 .. len /\ z - 1 = i /\ i \in 0 .. len /\ z \in 0 .. len
      BY <1>4
    <3> HIDE DEF z
    <3> QED BY <1>6, <3>1
  <2>2. b = Inject(a, k, q) /\ q \in Patterns
    BY <1>5, <1>6, <2>1
  <2>3. /\ Keeping(txt, a)
        /\ \A j \in 1 .. i: order[j] \in Known => In(a, pats[order[j]])
    <3>1. i <= len
      BY <1>4
    <3> HIDE DEF Keeping, In
    <3> QED BY <1>11, <3>1
  <2>4. Keeping(a, b) /\ (k \in Known => In(b, q))
    <3> HIDE DEF a, b, k, q
    <3> QED BY <2>1, <2>2, InjectFacts
  <2> HIDE DEF a, b, Keeping, In
  <2>5. Keeping(txt, b)
    BY <1>8, <2>1, <2>3, <2>4
  <2>6. \A j \in 1 .. z: order[j] \in Known => In(b, pats[order[j]])
    <3> SUFFICES ASSUME NEW j \in 1 .. z, order[j] \in Known PROVE In(b, pats[order[j]])
      OBVIOUS
    <3>1. CASE j = z
      BY <2>4, <3>1
    <3>2. CASE j # z
      <4>1. j \in 1 .. i
        BY <3>2
      <4>2. In(a, pats[order[j]])
        BY <2>3, <4>1
      <4> QED BY <1>9, <2>1, <2>4, <4>2
    <3> QED BY <3>1, <3>2
  <2> QED BY <2>5, <2>6 DEF b
<1>12. Nat \subseteq T
  <2> HIDE DEF T
  <2> QED BY <1>10, <1>11, SetInduction
<1>13. /\ Keeping(txt, res) /\ res \in Text
       /\ \A j \in 1 .. len: order[j] \in Known => In(res, pats[order[j]])
  <2>1. res = g[len] /\ len \in 0 .. len
    BY <1>3, <1>4, <1>6
  <2>2. Keeping(txt, g[len]) /\ \A j \in 1 .. len: order[j] \in Known => In(g[len], pats[order[j]])
    <3> HIDE DEF Keeping, In
    <3> QED BY <1>4, <1>12
  <2> QED BY <1>6, <2>1, <2>2
<1>14. Excludes(res, pats)
  <2> SUFFICES ASSUME NEW c \in S, c \in Known PROVE In(res, pats[c])
    BY DEF Excludes
  <2>1. PICK j \in 1 .. len: order[j] = c
    BY <1>4
  <2> HIDE DEF In
  <2> QED BY <1>13, <2>1
<1> QED BY <1>13, <1>14 DEF Injected

\* A hint is a pattern.
LEMMA HintsFacts ==
  ASSUME NEW es \in Seq(Entry), NEW hits, hits \subseteq 1 .. Len(es)
  PROVE  Hints(es, hits) \subseteq Patterns
<1> DEFINE texts == {es[i].text: i \in hits}
           f == [i \in hits |-> es[i].text]
<1>1. texts \subseteq Texts
  <2>1. \A i \in 1 .. Len(es): es[i] \in Entry
    OBVIOUS
  <2> QED BY <2>1 DEF Entry
<1>2. IsFiniteSet(hits)
  <2> DEFINE lo == 1
             n == Len(es)
  <2>1. lo \in Int /\ n \in Int
    OBVIOUS
  <2> HIDE DEF lo, n
  <2>2. IsFiniteSet(lo .. n)
    BY <2>1, FS_Interval
  <2> QED BY <2>2, FS_Subset DEF lo, n
<1>3. IsFiniteSet(texts)
  <2>1. f \in Surjection(hits, texts)
    BY DEF Surjection
  <2> HIDE DEF f, texts
  <2> QED BY <1>2, <2>1, FS_Surjection
<1> HIDE DEF texts, f
<1>4. ASSUME NEW q \in SetToSeqs(texts)
      PROVE  SubSeq(q, 1, IF Len(q) < 3 THEN Len(q) ELSE 3) \in Patterns
  <2>1. q \in Seq(Texts) /\ Len(q) \in Nat
    <3>1. q \in Seq(texts) /\ Len(q) \in Nat
      BY <1>3, OrderFacts
    <3> QED BY <1>1, <3>1
  <2> DEFINE m == IF Len(q) < 3 THEN Len(q) ELSE 3
             s == SubSeq(q, 1, m)
  <2>2. m \in 0 .. 3 /\ m <= Len(q)
    <3> DEFINE l == Len(q)
    <3>1. l \in Nat
      BY <2>1
    <3> HIDE DEF l
    <3>2. m = IF l < 3 THEN l ELSE 3
      BY DEF l
    <3> HIDE DEF m
    <3>3. m \in 0 .. 3 /\ m <= l
      BY <3>1, <3>2
    <3> QED BY <3>3 DEF l
  <2>3. s \in [1 .. m -> Texts]
    <3> HIDE DEF m
    <3>1. \A i \in 1 .. m: i \in 1 .. Len(q) /\ q[i] \in Texts
      BY <2>1, <2>2
    <3>2. /\ SubSeq(q, 1, m) \in Seq(Texts)
          /\ Len(SubSeq(q, 1, m)) = IF 1 <= m THEN m - 1 + 1 ELSE 0
      <4> DEFINE lo == 1
      <4>1. lo \in Int /\ m \in Int /\ q \in Seq(Texts) /\ \A i \in lo .. m: q[i] \in Texts
        BY <2>1, <2>2, <3>1
      <4> HIDE DEF lo
      <4> QED BY <4>1, SubSeqProperties DEF lo
    <3>3. s \in Seq(Texts) /\ Len(s) = m
      <4> HIDE DEF m
      <4> QED BY <2>2, <3>2
    <3> HIDE DEF s, m
    <3> QED BY <2>2, <3>3
  <2> HIDE DEF m, s
  <2>4. s \in Patterns
    BY <2>2, <2>3 DEF Patterns
  <2> QED BY <2>4 DEF s, m
<1>5. ASSUME NEW pt \in Hints(es, hits) PROVE pt \in Patterns
  <2>1. PICK q \in SetToSeqs(texts): pt = SubSeq(q, 1, IF Len(q) < 3 THEN Len(q) ELSE 3)
    BY DEF Hints, texts
  <2> QED BY <1>4, <2>1
<1> QED BY <1>5

-----------------------------------------------------------------------------
(* Each step on rigor.yaml.                                                *)

Places == {"idle", "hits", "noted", "cut", "reread", "excluded", "cut2", "done"}

\* Nothing is in an empty file.
LEMMA YamlInitInv == ASSUME RefineInit PROVE YamlInv
<1>1. /\ yaml = [notes |-> [c \in Known |-> 0],
                 exclusions |-> [c \in Known |-> <<>>], edit |-> 0]
      /\ refiner = [r \in Refiners |-> "idle"]
      /\ found = [r \in Refiners |-> NothingFound]
      /\ draft = [r \in Refiners |-> Empty]
      /\ edits = 0 /\ crossed = FALSE
  BY DEF RefineInit
<1>2. yaml \in Text /\ yaml.edit = 0
  <2>1. 0 \in 0 .. MaxEdits /\ <<>> \in Seq(Patterns)
    BY RefineAssumption
  <2> QED BY <1>1, <2>1 DEF Text
<1>3. NothingFound \in Found /\ DOMAIN NothingFound = {}
  <2>1. NothingFound \in [{} -> Patterns] /\ DOMAIN NothingFound = {}
    BY DEF NothingFound
  <2>2. {} \in SUBSET Constraints
    OBVIOUS
  <2> HIDE DEF NothingFound
  <2> QED BY <2>1, <2>2 DEF Found
<1>4. YamlTypes
  <2>1. /\ yaml \in AnyText /\ refiner \in [Refiners -> Places]
        /\ draft \in [Refiners -> AnyText]
    BY <1>1, <1>2 DEF AnyText, Places
  <2>2. edits \in 0 .. MaxEdits /\ crossed \in BOOLEAN
    <3>1. 0 \in 0 .. MaxEdits
      BY RefineAssumption
    <3>2. edits = 0 /\ crossed = FALSE
      BY <1>1
    <3> QED BY <3>1, <3>2
  <2>3. found \in [Refiners -> Found] /\ \A r \in Refiners: DOMAIN found[r] = {}
    <3> HIDE DEF NothingFound
    <3> QED BY <1>1, <1>3
  <2> QED BY <2>1, <2>2, <2>3 DEF YamlTypes, Places
<1>5. Once(yaml)
  BY <1>1 DEF Once
<1>6. \A r \in Refiners: draft[r] \notin Text
  BY <1>1, TextAssumption
<1>7. \A r \in Refiners: refiner[r] = "idle" /\ r \notin Editing
  BY <1>1 DEF Editing
<1>8. WholeInv
  BY <1>1, <1>2, <1>7 DEF WholeInv, Whole, Editing, Refiners
<1> QED BY <1>4, <1>5, <1>6, <1>8 DEF YamlInv, OnceInv

\* A step that leaves rigor.yaml and the refinements alone.
LEMMA YamlStutter == ASSUME YamlInv, UNCHANGED refineVars PROVE YamlInv'
<1>1. UNCHANGED <<yaml, refiner, found, draft, edits, crossed>>
  BY DEF refineVars
<1>2. ASSUME YamlTypes PROVE YamlTypes'
  BY <1>1, <1>2 DEF YamlTypes
<1>3. ASSUME OnceInv PROVE OnceInv'
  BY <1>1, <1>3 DEF OnceInv, Once
<1>4. ASSUME WholeInv PROVE WholeInv'
  BY <1>1, <1>4 DEF WholeInv, Whole, NotesOn, Excludes, Editing
<1> QED BY <1>1, <1>2, <1>3, <1>4 DEF YamlInv

\* A step of one refinement that leaves rigor.yaml and its edits alone and
\* neither starts editing nor has a text of its own to write.
LEMMA PassiveStep ==
  ASSUME YamlInv, NEW r \in Refiners, NEW to \in {"hits", "done"}, NEW p \in Found,
         refiner[r] = "idle", refiner' = [refiner EXCEPT ![r] = to],
         found' = [found EXCEPT ![r] = p], to = "done" => DOMAIN p = {},
         UNCHANGED <<yaml, draft, edits, crossed>>
  PROVE  YamlInv'
<1>1. YamlTypes
  BY DEF YamlInv
<1>2. /\ refiner' \in [Refiners -> Places] /\ found' \in [Refiners -> Found]
      /\ \A q \in Refiners: /\ refiner'[q] = IF q = r THEN to ELSE refiner[q]
                            /\ found'[q] = IF q = r THEN p ELSE found[q]
  BY <1>1 DEF YamlTypes, Places
<1>3. YamlTypes'
  BY <1>1, <1>2 DEF YamlTypes, Places
<1>4. OnceInv'
  BY DEF YamlInv, OnceInv, Once
<1>5. ASSUME WholeInv PROVE WholeInv'
  <2>1. \A q \in Refiners: \A at \in {"noted", "cut", "excluded", "cut2"}:
          refiner'[q] = at <=> refiner[q] = at
    BY <1>2
  <2>2. Editing' = Editing
    BY <2>1 DEF Editing
  <2>3. ASSUME NEW it, Whole(it, edits, refiner, found)
        PROVE  Whole(it, edits, refiner', found')
    <3>1. \A q \in Refiners: refiner'[q] \in {"reread", "excluded", "cut2", "done"} =>
            NotesOn(it, DOMAIN found'[q])
      <4> SUFFICES ASSUME NEW q \in Refiners,
                          refiner'[q] \in {"reread", "excluded", "cut2", "done"}
                   PROVE  NotesOn(it, DOMAIN found'[q])
        OBVIOUS
      <4>1. CASE q = r
        BY <1>2, <4>1 DEF NotesOn
      <4>2. CASE q # r
        BY <1>2, <2>3, <4>2 DEF Whole
      <4> QED BY <4>1, <4>2
    <3>2. \A q \in Streams: refiner'[q] = "done" => Excludes(it, found'[q])
      <4> SUFFICES ASSUME NEW q \in Streams, refiner'[q] = "done"
                   PROVE  Excludes(it, found'[q])
        OBVIOUS
      <4>1. q \in Refiners
        BY DEF Refiners
      <4>2. CASE q = r
        BY <1>2, <4>1, <4>2 DEF Excludes
      <4>3. CASE q # r
        BY <1>2, <2>3, <4>1, <4>3 DEF Whole
      <4> QED BY <4>2, <4>3
    <3> QED BY <2>3, <3>1, <3>2 DEF Whole
  <2>4. Whole(yaml, edits, refiner', found') \/ \E q \in Refiners: refiner[q] \in {"cut", "cut2"}
    BY <1>5, <2>3 DEF WholeInv
  <2>5. ASSUME NEW q \in Refiners, refiner'[q] \in {"noted", "cut", "excluded", "cut2"}
        PROVE  Whole(draft[q], edits, refiner', found') /\ q # r /\ refiner[q] = refiner'[q]
    <3>1. refiner[q] \in {"noted", "cut", "excluded", "cut2"} /\ q # r
      BY <1>2, <2>5
    <3>2. Whole(draft[q], edits, refiner, found)
      BY <1>5, <3>1 DEF WholeInv
    <3> QED BY <1>2, <2>3, <3>1, <3>2
  <2>6. ASSUME NEW q \in Refiners, refiner'[q] \in {"noted", "cut"}
        PROVE  NotesOn(draft[q], DOMAIN found'[q])
    <3>1. q # r /\ refiner[q] = refiner'[q] /\ found'[q] = found[q]
      BY <1>2, <2>5, <2>6
    <3> QED BY <1>5, <2>6, <3>1 DEF WholeInv
  <2>7. ASSUME NEW q \in Refiners, refiner'[q] \in {"excluded", "cut2"}
        PROVE  Excludes(draft[q], found'[q])
    <3>1. q # r /\ refiner[q] = refiner'[q] /\ found'[q] = found[q]
      BY <1>2, <2>5, <2>7
    <3> QED BY <1>5, <2>7, <3>1 DEF WholeInv
  <2>8. (\A q \in Refiners: refiner[q] \notin {"cut", "cut2"}) =>
          Whole(yaml, edits, refiner, found)'
    BY <2>4 DEF Whole, NotesOn, Excludes
  <2>9. \A q \in Refiners: refiner'[q] \in {"noted", "cut", "excluded", "cut2"} =>
          Whole(draft[q], edits, refiner, found)'
    BY <2>5 DEF Whole, NotesOn, Excludes
  <2>10. /\ \A q \in Refiners: refiner'[q] \in {"noted", "cut"} =>
              NotesOn(draft[q], DOMAIN found[q])'
         /\ \A q \in Refiners: refiner'[q] \in {"excluded", "cut2"} =>
              Excludes(draft[q], found[q])'
    BY <2>6, <2>7 DEF NotesOn, Excludes
  <2>11. /\ \A q \in Refiners: refiner'[q] \in {"cut", "cut2"} => yaml' = Empty
         /\ \A q, z \in Editing': q = z
    BY <1>5, <2>1, <2>2 DEF WholeInv
  <2> QED BY <2>1, <2>8, <2>9, <2>10, <2>11 DEF WholeInv
<1> QED BY <1>3, <1>4, <1>5 DEF YamlInv

\* A refinement finds patterns for constraints, or nothing to do.
LEMMA ReadLogStep ==
  ASSUME LogInv, YamlInv, NEW r \in Refiners, ReadLog(r)
  PROVE  YamlInv'
<1> DEFINE es == entries
           cs == Candidates(es, MinHits(r))
           hints == [c \in cs |-> Hints(es, {i \in Hits(es, c): es[i].mark = "fp"})]
<1>1. refiner[r] = "idle" /\ UNCHANGED <<yaml, draft, edits, crossed>>
  BY DEF ReadLog
<1>2. YamlTypes
  BY DEF YamlInv
<1>3. es \in Seq(Entry)
  <2> DEFINE ls == content[name]
  <2>1. ls \in Seq(Entry \cup {Torn})
    BY DEF LogInv, LogTypes, Line
  <2>2. es = F!Parsed(ls)
    BY DEF entries, F!Readable
  <2> HIDE DEF ls, es
  <2> QED BY <2>1, <2>2, ParsedFacts
<1>4. cs \subseteq Constraints
  BY DEF Candidates
<1>5. \A c \in cs: hints[c] \subseteq Patterns
  <2> SUFFICES ASSUME NEW c \in cs PROVE hints[c] \subseteq Patterns
    OBVIOUS
  <2> DEFINE hs == {i \in Hits(es, c): es[i].mark = "fp"}
  <2>1. hs \subseteq 1 .. Len(es)
    BY <1>3 DEF Hits
  <2> HIDE DEF hs, es
  <2>2. Hints(es, hs) \subseteq Patterns
    BY <1>3, <2>1, HintsFacts
  <2> HIDE DEF cs
  <2>3. hints[c] = Hints(es, hs)
    BY DEF hs
  <2> QED BY <2>2, <2>3
<1>6. CASE cs = {}
  <2> DEFINE p == found[r]
             to == "done"
  <2>1. refiner' = [refiner EXCEPT ![r] = to] /\ found' = found
    BY <1>6 DEF ReadLog, RefinerGoes
  <2>2. p \in Found /\ DOMAIN p = {} /\ found' = [found EXCEPT ![r] = p]
        /\ to \in {"hits", "done"}
    BY <1>1, <1>2, <2>1 DEF YamlTypes
  <2> HIDE DEF p, to
  <2> QED BY <1>1, <2>1, <2>2, PassiveStep
<1>7. CASE cs # {}
  <2> DEFINE to == "hits"
  <2>1. /\ refiner' = [refiner EXCEPT ![r] = to]
        /\ \E p \in [cs -> UNION Range(hints)]:
             /\ \A c \in cs: p[c] \in hints[c]
             /\ found' = [found EXCEPT ![r] = p]
    BY <1>7 DEF ReadLog, RefinerGoes
  <2> HIDE DEF hints, cs
  <2>2. PICK p \in [cs -> UNION Range(hints)]:
          /\ \A c \in cs: p[c] \in hints[c]
          /\ found' = [found EXCEPT ![r] = p]
    BY <2>1
  <2>3. p \in Found
    <3>1. p \in [cs -> Patterns]
      BY <1>5, <2>2
    <3> QED BY <1>4, <3>1 DEF Found
  <2>4. to \in {"hits", "done"} /\ (to = "done" => DOMAIN p = {})
    OBVIOUS
  <2> HIDE DEF to
  <2> QED BY <1>1, <2>1, <2>2, <2>3, <2>4, PassiveStep
<1> QED BY <1>6, <1>7

\* What is whole stays so when no refinement gets further by a step.
LEMMA WholeStays ==
  ASSUME NEW it, NEW e, NEW at, NEW fd, Whole(it, e, at, fd), NEW to,
         \A q \in Refiners:
           /\ to[q] \in {"reread", "excluded", "cut2", "done"} =>
                at[q] \in {"reread", "excluded", "cut2", "done"}
           /\ to[q] = "done" => at[q] = "done"
  PROVE  Whole(it, e, to, fd)
BY DEF Whole, Refiners

\* A step of an edit by r preserves the invariant if its text is whole, as
\* long as no other edit is under way.
LEMMA EditStep ==
  ASSUME YamlInv, NEW r \in Refiners, refiner[r] # "idle",
         refiner' \in [Refiners -> Places], refiner'[r] # "idle",
         \A q \in Refiners: q # r => refiner'[q] = refiner[q] /\ draft'[q] = draft[q],
         draft' \in [Refiners -> AnyText], yaml' \in AnyText, Cross(r),
         UNCHANGED <<found, edits>>,
         yaml' \in Text => Once(yaml'), draft'[r] \in Text => Once(draft'[r]),
         WholeInv /\ Editing \ {r} = {} =>
           /\ refiner'[r] \notin {"cut", "cut2"} => Whole(yaml', edits, refiner', found)
           /\ refiner'[r] \in {"cut", "cut2"} => yaml' = Empty
           /\ refiner'[r] \in {"noted", "cut", "excluded", "cut2"} =>
                Whole(draft'[r], edits, refiner', found)
           /\ refiner'[r] \in {"noted", "cut"} => NotesOn(draft'[r], DOMAIN found[r])
           /\ refiner'[r] \in {"excluded", "cut2"} => Excludes(draft'[r], found[r])
  PROVE  YamlInv'
<1>1. YamlTypes /\ OnceInv /\ (~crossed => WholeInv)
  BY DEF YamlInv
<1>2. crossed' = (crossed \/ Editing \ {r} # {})
  BY DEF Cross
<1>3. YamlTypes'
  <2>1. \A q \in Refiners: refiner'[q] = "idle" => DOMAIN found'[q] = {}
    BY <1>1 DEF YamlTypes
  <2>2. crossed' \in BOOLEAN
    BY <1>1, <1>2 DEF YamlTypes
  <2> QED BY <1>1, <2>1, <2>2 DEF YamlTypes, Places
<1>4. OnceInv'
  <2>1. \A q \in Refiners: draft'[q] \in Text => Once(draft'[q])
    BY <1>1 DEF OnceInv
  <2>2. yaml' \in Text => Once(yaml)'
    BY DEF Once
  <2>3. \A q \in Refiners: draft'[q] \in Text => Once(draft[q])'
    BY <2>1 DEF Once
  <2> QED BY <2>2, <2>3 DEF OnceInv
<1>5. ASSUME ~crossed' PROVE WholeInv'
  <2>1. WholeInv /\ Editing \ {r} = {}
    BY <1>1, <1>2, <1>5
  <2>2. \A q \in Refiners: q # r => refiner'[q] \notin {"noted", "cut", "excluded", "cut2"}
    BY <2>1 DEF Editing
  <2>3. (\A q \in Refiners: refiner'[q] \notin {"cut", "cut2"}) =>
          Whole(yaml', edits, refiner', found)
    BY <2>1
  <2>4. \A q \in Refiners: refiner'[q] \in {"cut", "cut2"} => yaml' = Empty
    BY <2>1, <2>2
  <2>5. \A q \in Refiners: refiner'[q] \in {"noted", "cut", "excluded", "cut2"} =>
          Whole(draft'[q], edits, refiner', found)
    BY <2>1, <2>2
  <2>6. \A q \in Refiners: refiner'[q] \in {"noted", "cut"} =>
          NotesOn(draft'[q], DOMAIN found[q])
    BY <2>1, <2>2
  <2>7. \A q \in Refiners: refiner'[q] \in {"excluded", "cut2"} =>
          Excludes(draft'[q], found[q])
    BY <2>1, <2>2
  <2>8. \A q, z \in Editing': q = z
    BY <2>2 DEF Editing
  <2>9. (\A q \in Refiners: refiner'[q] \notin {"cut", "cut2"}) =>
          Whole(yaml, edits, refiner, found)'
    BY <2>3 DEF Whole, NotesOn, Excludes
  <2>10. \A q \in Refiners: refiner'[q] \in {"noted", "cut", "excluded", "cut2"} =>
           Whole(draft[q], edits, refiner, found)'
    BY <2>5 DEF Whole, NotesOn, Excludes
  <2>11. /\ \A q \in Refiners: refiner'[q] \in {"noted", "cut"} =>
              NotesOn(draft[q], DOMAIN found[q])'
         /\ \A q \in Refiners: refiner'[q] \in {"excluded", "cut2"} =>
              Excludes(draft[q], found[q])'
    BY <2>6, <2>7 DEF NotesOn, Excludes
  <2> QED BY <2>4, <2>8, <2>9, <2>10, <2>11 DEF WholeInv
<1> QED BY <1>3, <1>4, <1>5 DEF YamlInv

\* rigor.yaml is read, and notes are put into what was read.
LEMMA ReadYamlStep ==
  ASSUME YamlInv, NEW r \in Refiners, ReadYaml(r)
  PROVE  YamlInv'
<1> DEFINE cs == DOMAIN found[r]
           it == ApplyToYaml(yaml, cs)
<1>1. /\ refiner[r] = "hits" /\ refiner' = [refiner EXCEPT ![r] = "noted"]
      /\ draft' = [draft EXCEPT ![r] = it] /\ Cross(r)
      /\ UNCHANGED <<yaml, found, edits>>
  BY DEF ReadYaml, RefinerGoes
<1>2. YamlTypes
  BY DEF YamlInv
<1> HIDE DEF cs
<1>3. /\ yaml \in Text => it = Note(yaml, cs)
      /\ yaml \notin Text => it = yaml
  BY <1>2, TextFacts DEF ApplyToYaml, YamlTypes
<1> DEFINE nt == Note(yaml, cs)
<1>4. yaml \in Text =>
        /\ nt \in Text
        /\ nt.exclusions = yaml.exclusions /\ nt.edit = yaml.edit
        /\ \A c \in Known: nt.notes[c] =
             IF c \in cs /\ yaml.notes[c] = 0 THEN 1 ELSE yaml.notes[c]
  BY NoteFacts
<1> HIDE DEF it, nt
<1>5. it \in AnyText
  BY <1>2, <1>3, <1>4 DEF AnyText, YamlTypes, nt
<1>6. /\ refiner' \in [Refiners -> Places] /\ refiner'[r] = "noted"
      /\ draft' \in [Refiners -> AnyText] /\ draft'[r] = it
      /\ \A q \in Refiners: q # r => refiner'[q] = refiner[q] /\ draft'[q] = draft[q]
  BY <1>1, <1>2, <1>5 DEF YamlTypes, Places
<1>7. yaml' \in Text => Once(yaml')
  BY <1>1 DEF YamlInv, OnceInv, Once
<1>8. draft'[r] \in Text => Once(draft'[r])
  <2> SUFFICES ASSUME it \in Text PROVE Once(it)
    BY <1>6
  <2>1. yaml \in Text /\ it = nt
    BY <1>3 DEF nt
  <2>2. Once(yaml)
    BY <2>1 DEF YamlInv, OnceInv
  <2> QED BY <1>4, <2>1, <2>2 DEF Once
<1>9. ASSUME WholeInv, Editing \ {r} = {}
      PROVE  /\ Whole(yaml', edits, refiner', found)
             /\ Whole(draft'[r], edits, refiner', found)
             /\ NotesOn(draft'[r], DOMAIN found[r])
  <2>1. \A q \in Refiners: refiner[q] \notin {"cut", "cut2"}
    BY <1>1, <1>9 DEF Editing
  <2>2. Whole(yaml, edits, refiner, found)
    BY <1>9, <2>1 DEF WholeInv
  <2> DEFINE at == refiner'
  <2>3. \A q \in Refiners:
          /\ at[q] \in {"reread", "excluded", "cut2", "done"} =>
               refiner[q] \in {"reread", "excluded", "cut2", "done"}
          /\ at[q] = "done" => refiner[q] = "done"
    BY <1>6
  <2>4. Whole(yaml, edits, at, found)
    <3> HIDE DEF at
    <3> QED BY <2>2, <2>3, WholeStays
  <2>5. yaml \in Text /\ it = nt /\ \A c \in Known: yaml.notes[c] \in Nat
    BY <1>3, <2>2 DEF Whole, Text, nt
  <2>6. \A c \in Known: it.notes[c] > 0 <=> c \in cs \/ yaml.notes[c] > 0
    BY <1>4, <2>5
  <2>7. NotesOn(it, cs)
    BY <2>6 DEF NotesOn
  <2>8. \A ds: NotesOn(yaml, ds) => NotesOn(it, ds)
    BY <2>6 DEF NotesOn
  <2>9. \A p: Excludes(yaml, p) => Excludes(it, p)
    BY <1>4, <2>5 DEF Excludes
  <2>10. Whole(it, edits, at, found)
    <3> HIDE DEF at
    <3> QED BY <1>4, <2>4, <2>5, <2>8, <2>9 DEF Whole
  <2> QED BY <1>1, <1>6, <2>4, <2>7, <2>10 DEF cs
<1>10. /\ refiner[r] # "idle" /\ refiner'[r] # "idle" /\ yaml' \in AnyText /\ Cross(r)
       /\ UNCHANGED <<found, edits>>
  BY <1>1, <1>2, <1>6 DEF YamlTypes
<1>11. WholeInv /\ Editing \ {r} = {} =>
         /\ refiner'[r] \notin {"cut", "cut2"} => Whole(yaml', edits, refiner', found)
         /\ refiner'[r] \in {"cut", "cut2"} => yaml' = Empty
         /\ refiner'[r] \in {"noted", "cut", "excluded", "cut2"} =>
              Whole(draft'[r], edits, refiner', found)
         /\ refiner'[r] \in {"noted", "cut"} => NotesOn(draft'[r], DOMAIN found[r])
         /\ refiner'[r] \in {"excluded", "cut2"} => Excludes(draft'[r], found[r])
  BY <1>6, <1>9
<1> QED BY <1>6, <1>7, <1>8, <1>10, <1>11, EditStep

\* A write first leaves nothing of the file.
LEMMA TruncateStep ==
  ASSUME YamlInv, NEW r \in Refiners, Truncate(r)
  PROVE  YamlInv'
<1>1. PICK to \in {"cut", "cut2"}:
        /\ refiner[r] = IF to = "cut" THEN "noted" ELSE "excluded"
        /\ refiner' = [refiner EXCEPT ![r] = to]
  BY DEF Truncate, RefinerGoes
<1>2. yaml' = Empty /\ Cross(r) /\ UNCHANGED <<found, draft, edits>>
  BY DEF Truncate
<1>3. YamlTypes
  BY DEF YamlInv
<1>4. /\ refiner' \in [Refiners -> Places] /\ refiner'[r] = to
      /\ \A q \in Refiners: q # r => refiner'[q] = refiner[q] /\ draft'[q] = draft[q]
  BY <1>1, <1>2, <1>3 DEF YamlTypes, Places
<1>5. yaml' \in AnyText /\ yaml' \notin Text /\ draft' \in [Refiners -> AnyText]
  BY <1>2, <1>3, TextAssumption DEF AnyText, YamlTypes
<1>6. draft'[r] \in Text => Once(draft'[r])
  BY <1>2 DEF YamlInv, OnceInv, Once
<1>7. ASSUME WholeInv, Editing \ {r} = {}
      PROVE  /\ Whole(draft'[r], edits, refiner', found)
             /\ to = "cut" => NotesOn(draft'[r], DOMAIN found[r])
             /\ to = "cut2" => Excludes(draft'[r], found[r])
  <2> DEFINE it == draft[r]
             at == refiner'
  <2>1. /\ Whole(it, edits, refiner, found)
        /\ to = "cut" => NotesOn(it, DOMAIN found[r])
        /\ to = "cut2" => Excludes(it, found[r])
    BY <1>1, <1>7 DEF WholeInv
  <2>2. \A q \in Refiners:
          /\ at[q] \in {"reread", "excluded", "cut2", "done"} =>
               refiner[q] \in {"reread", "excluded", "cut2", "done"}
          /\ at[q] = "done" => refiner[q] = "done"
    BY <1>1, <1>4
  <2> HIDE DEF it, at
  <2>3. Whole(it, edits, at, found)
    BY <2>1, <2>2, WholeStays
  <2>4. draft'[r] = it
    BY <1>2 DEF it
  <2> QED BY <2>1, <2>3, <2>4 DEF at
<1>8. refiner[r] # "idle" /\ refiner'[r] # "idle"
  BY <1>1, <1>4
<1>9. WholeInv /\ Editing \ {r} = {} =>
        /\ refiner'[r] \notin {"cut", "cut2"} => Whole(yaml', edits, refiner', found)
        /\ refiner'[r] \in {"cut", "cut2"} => yaml' = Empty
        /\ refiner'[r] \in {"noted", "cut", "excluded", "cut2"} =>
             Whole(draft'[r], edits, refiner', found)
        /\ refiner'[r] \in {"noted", "cut"} => NotesOn(draft'[r], DOMAIN found[r])
        /\ refiner'[r] \in {"excluded", "cut2"} => Excludes(draft'[r], found[r])
  BY <1>2, <1>4, <1>7
<1> QED BY <1>2, <1>4, <1>5, <1>6, <1>8, <1>9, EditStep

\* Then the file is what the refinement made, or damaged.
LEMMA WriteStep ==
  ASSUME YamlInv, NEW r \in Refiners, Write(r)
  PROVE  YamlInv'
<1>1. PICK to \in {"reread", "done"}:
        /\ \/ r = Cli /\ refiner[r] = "cut" /\ to = "done"
           \/ r # Cli /\ refiner[r] = "cut" /\ to = "reread"
           \/ refiner[r] = "cut2" /\ to = "done"
        /\ refiner' = [refiner EXCEPT ![r] = to]
  BY DEF Write, RefinerGoes
<1>2. /\ yaml' \in IF yaml = Empty THEN {draft[r]} ELSE {draft[r], Damaged}
      /\ draft' = [draft EXCEPT ![r] = Empty] /\ Cross(r) /\ UNCHANGED <<found, edits>>
  BY DEF Write
<1>3. YamlTypes
  BY DEF YamlInv
<1>4. /\ refiner' \in [Refiners -> Places] /\ refiner'[r] = to
      /\ \A q \in Refiners: q # r => refiner'[q] = refiner[q]
  BY <1>1, <1>3 DEF YamlTypes, Places
<1>5. /\ draft' \in [Refiners -> AnyText] /\ draft'[r] \notin Text
      /\ \A q \in Refiners: q # r => draft'[q] = draft[q]
  BY <1>2, <1>3, TextAssumption DEF AnyText, YamlTypes
<1>6. yaml' \in AnyText /\ (yaml' \in Text => yaml' = draft[r])
  BY <1>2, <1>3, TextAssumption DEF AnyText, YamlTypes
<1>7. yaml' \in Text => Once(yaml')
  BY <1>6 DEF YamlInv, OnceInv
<1>8. ASSUME WholeInv, Editing \ {r} = {}
      PROVE  Whole(yaml', edits, refiner', found)
  <2> DEFINE it == draft[r]
             at == refiner'
  <2>1. /\ Whole(it, edits, refiner, found) /\ yaml = Empty
        /\ refiner[r] = "cut" => NotesOn(it, DOMAIN found[r])
        /\ refiner[r] = "cut2" => Excludes(it, found[r])
    BY <1>1, <1>8 DEF WholeInv
  <2>2. yaml' = it
    BY <1>2, <2>1
  <2>3. \A q \in Refiners: at[q] = IF q = r THEN to ELSE refiner[q]
    BY <1>4
  <2> HIDE DEF it, at
  <2>4. NotesOn(it, DOMAIN found[r])
    <3>1. refiner[r] = "cut2" => NotesOn(it, DOMAIN found[r])
      BY <2>1 DEF Whole
    <3> QED BY <1>1, <2>1, <3>1
  <2>5. \A q \in Refiners: at[q] \in {"reread", "excluded", "cut2", "done"} =>
          NotesOn(it, DOMAIN found[q])
    BY <2>1, <2>3, <2>4 DEF Whole
  <2>6. ASSUME NEW q \in Streams, at[q] = "done" PROVE Excludes(it, found[q])
    <3>1. q \in Refiners /\ q # Cli
      BY RefineAssumption DEF Refiners
    <3>2. CASE q = r
      <4>1. refiner[r] = "cut2"
        BY <1>1, <2>3, <2>6, <3>1, <3>2
      <4> QED BY <2>1, <3>2, <4>1
    <3>3. CASE q # r
      BY <2>1, <2>3, <2>6, <3>1, <3>3 DEF Whole
    <3> QED BY <3>2, <3>3
  <2>7. Whole(it, edits, at, found)
    BY <2>1, <2>5, <2>6 DEF Whole
  <2> QED BY <2>2, <2>7 DEF at
<1>9. refiner[r] # "idle" /\ refiner'[r] # "idle"
  BY <1>1, <1>4
<1>10. WholeInv /\ Editing \ {r} = {} =>
         /\ refiner'[r] \notin {"cut", "cut2"} => Whole(yaml', edits, refiner', found)
         /\ refiner'[r] \in {"cut", "cut2"} => yaml' = Empty
         /\ refiner'[r] \in {"noted", "cut", "excluded", "cut2"} =>
              Whole(draft'[r], edits, refiner', found)
         /\ refiner'[r] \in {"noted", "cut"} => NotesOn(draft'[r], DOMAIN found[r])
         /\ refiner'[r] \in {"excluded", "cut2"} => Excludes(draft'[r], found[r])
  BY <1>4, <1>8
<1> QED BY <1>2, <1>4, <1>5, <1>6, <1>7, <1>9, <1>10, EditStep

\* An automatic refinement reads the file again for its exclusions.
LEMMA ReadAgainStep ==
  ASSUME YamlInv, NEW r \in Refiners, ReadAgain(r)
  PROVE  YamlInv'
<1>1. /\ refiner[r] = "reread" /\ refiner' = [refiner EXCEPT ![r] = "excluded"]
      /\ Cross(r) /\ UNCHANGED <<yaml, found, edits>>
  BY DEF ReadAgain, RefinerGoes
<1>2. PICK it \in InjectAll(yaml, found[r]): draft' = [draft EXCEPT ![r] = it]
  BY DEF ReadAgain
<1>3. YamlTypes
  BY DEF YamlInv
<1>4. /\ yaml \in Text => Injected(yaml, found[r], it)
      /\ yaml \notin Text => it = yaml
  <2>1. ASSUME yaml \in Text PROVE Injected(yaml, found[r], it)
    <3> DEFINE txt == yaml
               pats == found[r]
    <3>1. txt \in Text /\ pats \in Found /\ it \in InjectAll(txt, pats)
      BY <1>2, <1>3, <2>1 DEF YamlTypes
    <3> HIDE DEF txt, pats
    <3>2. Injected(txt, pats, it)
      BY <3>1, InjectAllFacts
    <3> QED BY <3>2 DEF txt, pats
  <2>2. ASSUME yaml \notin Text PROVE it = yaml
    BY <1>2, <1>3, <2>2, TextFacts DEF InjectAll, YamlTypes
  <2> QED BY <2>1, <2>2
<1>5. it \in AnyText
  BY <1>3, <1>4 DEF AnyText, YamlTypes, Injected
<1>6. /\ refiner' \in [Refiners -> Places] /\ refiner'[r] = "excluded"
      /\ draft' \in [Refiners -> AnyText] /\ draft'[r] = it
      /\ \A q \in Refiners: q # r => refiner'[q] = refiner[q] /\ draft'[q] = draft[q]
  BY <1>1, <1>2, <1>3, <1>5 DEF YamlTypes, Places
<1>7. yaml' \in Text => Once(yaml')
  BY <1>1 DEF YamlInv, OnceInv, Once
<1>8. draft'[r] \in Text => Once(draft'[r])
  <2> SUFFICES ASSUME it \in Text PROVE Once(it)
    BY <1>6
  <2>1. yaml \in Text
    BY <1>4
  <2>2. Once(yaml)
    BY <2>1 DEF YamlInv, OnceInv
  <2> QED BY <1>4, <2>1, <2>2 DEF Injected
<1>9. ASSUME WholeInv, Editing \ {r} = {}
      PROVE  /\ Whole(yaml', edits, refiner', found)
             /\ Whole(draft'[r], edits, refiner', found)
             /\ Excludes(draft'[r], found[r])
  <2>1. \A q \in Refiners: refiner[q] \notin {"cut", "cut2"}
    BY <1>1, <1>9 DEF Editing
  <2>2. Whole(yaml, edits, refiner, found)
    BY <1>9, <2>1 DEF WholeInv
  <2> DEFINE at == refiner'
  <2>3. \A q \in Refiners:
          /\ at[q] \in {"reread", "excluded", "cut2", "done"} =>
               refiner[q] \in {"reread", "excluded", "cut2", "done"}
          /\ at[q] = "done" => refiner[q] = "done"
    BY <1>1, <1>6
  <2> HIDE DEF at
  <2>4. Whole(yaml, edits, at, found)
    BY <2>2, <2>3, WholeStays
  <2>5. Injected(yaml, found[r], it)
    BY <1>4, <2>2 DEF Whole
  <2>6. \A cs: NotesOn(yaml, cs) => NotesOn(it, cs)
    BY <2>5 DEF NotesOn, Injected
  <2>7. \A d \in Known: Len(yaml.exclusions[d]) \in Nat /\ Len(it.exclusions[d]) \in Nat
    <3> SUFFICES ASSUME NEW d \in Known
                 PROVE  Len(yaml.exclusions[d]) \in Nat /\ Len(it.exclusions[d]) \in Nat
      OBVIOUS
    <3>1. yaml.exclusions[d] \in Seq(Patterns) /\ it.exclusions[d] \in Seq(Patterns)
      BY <2>2, <2>5 DEF Whole, Injected, Text
    <3> QED BY <3>1
  <2>8. \A d \in Known: \A i \in 1 .. Len(yaml.exclusions[d]):
          i \in 1 .. Len(it.exclusions[d]) /\ it.exclusions[d][i] = yaml.exclusions[d][i]
    BY <2>5, <2>7 DEF Injected
  <2>9. \A p: Excludes(yaml, p) => Excludes(it, p)
    BY <2>8 DEF Excludes
  <2>10. Whole(it, edits, at, found)
    BY <2>4, <2>5, <2>6, <2>9 DEF Whole, Injected
  <2> QED BY <1>1, <1>6, <2>4, <2>5, <2>10 DEF at, Injected
<1>10. /\ refiner[r] # "idle" /\ refiner'[r] # "idle" /\ yaml' \in AnyText /\ Cross(r)
       /\ UNCHANGED <<found, edits>>
  BY <1>1, <1>3, <1>6 DEF YamlTypes
<1>11. WholeInv /\ Editing \ {r} = {} =>
         /\ refiner'[r] \notin {"cut", "cut2"} => Whole(yaml', edits, refiner', found)
         /\ refiner'[r] \in {"cut", "cut2"} => yaml' = Empty
         /\ refiner'[r] \in {"noted", "cut", "excluded", "cut2"} =>
              Whole(draft'[r], edits, refiner', found)
         /\ refiner'[r] \in {"noted", "cut"} => NotesOn(draft'[r], DOMAIN found[r])
         /\ refiner'[r] \in {"excluded", "cut2"} => Excludes(draft'[r], found[r])
  BY <1>6, <1>9
<1> QED BY <1>6, <1>7, <1>8, <1>10, <1>11, EditStep

\* The user edits a file that is whole.
LEMMA UserEditStep ==
  ASSUME YamlInv, UserEdit
  PROVE  YamlInv'
<1>1. /\ edits < MaxEdits /\ Good(yaml) /\ edits' = edits + 1
      /\ yaml' = [yaml EXCEPT !.edit = edits + 1]
      /\ crossed' = (crossed \/ Editing # {})
      /\ UNCHANGED <<refiner, found, draft>>
  BY DEF UserEdit
<1>2. YamlTypes /\ yaml \in Text
  BY <1>1, TextFacts DEF YamlInv, YamlTypes
<1>3. edits + 1 \in 0 .. MaxEdits
  BY <1>1, <1>2, RefineAssumption DEF YamlTypes
<1>4. /\ yaml' \in Text /\ yaml'.edit = edits + 1
      /\ yaml'.notes = yaml.notes /\ yaml'.exclusions = yaml.exclusions
  BY <1>1, <1>2, <1>3 DEF Text
<1>5. YamlTypes'
  BY <1>1, <1>2, <1>3, <1>4 DEF YamlTypes, AnyText
<1>6. OnceInv'
  <2>1. Once(yaml) /\ \A r \in Refiners: draft[r] \in Text => Once(draft[r])
    BY <1>2 DEF YamlInv, OnceInv
  <2>2. Once(yaml)'
    BY <1>4, <2>1 DEF Once
  <2>3. \A r \in Refiners: draft'[r] \in Text => Once(draft[r])'
    BY <1>1, <2>1 DEF Once
  <2> QED BY <2>2, <2>3 DEF OnceInv
<1>7. ASSUME ~crossed' PROVE WholeInv'
  <2>1. Editing = {} /\ WholeInv
    BY <1>1, <1>7 DEF YamlInv
  <2>2. \A r \in Refiners: refiner[r] \notin {"noted", "cut", "excluded", "cut2"}
    BY <2>1 DEF Editing
  <2>3. Whole(yaml, edits, refiner, found)
    BY <2>1, <2>2 DEF WholeInv
  <2>4. /\ \A cs: NotesOn(yaml, cs) => NotesOn(yaml', cs)
        /\ \A p: Excludes(yaml, p) => Excludes(yaml', p)
    BY <1>4 DEF NotesOn, Excludes
  <2>5. Whole(yaml', edits', refiner, found)
    BY <1>1, <1>4, <2>3, <2>4 DEF Whole
  <2>6. Whole(yaml, edits, refiner, found)'
    BY <1>1, <2>5 DEF Whole, NotesOn, Excludes
  <2>7. \A r \in Refiners: refiner'[r] \notin {"noted", "cut", "excluded", "cut2"}
    BY <1>1, <2>2
  <2> QED BY <2>6, <2>7 DEF WholeInv, Editing
<1> QED BY <1>5, <1>6, <1>7 DEF YamlInv

\* Every step but those on the log alone.
LEMMA RefineNextYaml ==
  ASSUME LogInv, YamlInv, [RefineNext]_vars
  PROVE  YamlInv'
<1>1. CASE UNCHANGED refineVars
  BY <1>1, YamlStutter
<1>2. CASE \E r \in Refiners: ReadLog(r) \/ ReadYaml(r) \/ Truncate(r) \/ Write(r)
                              \/ ReadAgain(r)
  BY <1>2, ReadLogStep, ReadYamlStep, TruncateStep, WriteStep, ReadAgainStep
<1>3. CASE UserEdit
  BY <1>3, UserEditStep
<1> QED BY <1>1, <1>2, <1>3 DEF RefineNext, vars

\* The invariants of both files hold however all steps interleave.
THEOREM RefineInvariance == Interleaved => [](LogInv /\ YamlInv)
<1>1. Init => LogInv /\ YamlInv
  BY LogInitInv, YamlInitInv DEF Init
<1>2. LogInv /\ YamlInv /\ [RefineNext]_vars => LogInv' /\ YamlInv'
  BY RefineNextLog, RefineNextYaml
<1> QED BY <1>1, <1>2, PTL DEF Interleaved

\* With the invariant, rigor.yaml has what it should.
LEMMA YamlInvKept == ASSUME YamlInv PROVE YamlKept
<1> SUFFICES ASSUME ~crossed, Editing = {} PROVE YamlKept
  BY DEF YamlKept
<1>1. \A r \in Refiners: refiner[r] \notin {"cut", "cut2"}
  BY DEF Editing
<1>2. Whole(yaml, edits, refiner, found)
  BY <1>1 DEF YamlInv, WholeInv
<1>3. yaml \in Text /\ Good(yaml) /\ yaml.edit = edits
  BY <1>2, TextAssumption DEF Whole, Good
<1>4. \A r \in Refiners: refiner[r] \in {"reread", "done"} =>
        \A c \in DOMAIN found[r] \cap Known: yaml.notes[c] > 0
  BY <1>2 DEF Whole, NotesOn
<1>5. ASSUME NEW r \in Streams, refiner[r] = "done", NEW c \in DOMAIN found[r] \cap Known
      PROVE  \E d \in Known: found[r][c] \in ToSet(yaml.exclusions[d])
  <2>1. PICK d \in Known: \E i \in 1 .. Len(yaml.exclusions[d]):
          yaml.exclusions[d][i] = found[r][c]
    BY <1>2, <1>5 DEF Whole, Excludes
  <2>2. DOMAIN yaml.exclusions[d] = 1 .. Len(yaml.exclusions[d])
    <3>1. yaml.exclusions[d] \in Seq(Patterns)
      BY <1>3 DEF Text
    <3> QED BY <3>1
  <2> QED BY <2>1, <2>2 DEF ToSet
<1> QED BY <1>3, <1>4, <1>5 DEF YamlKept

\* As long as the windows in which rigor.yaml is read and written do not
\* overlap, it keeps the user's last edit, every note and every exclusion.
THEOREM YamlIsKept == Interleaved => []YamlKept
<1>1. YamlInv => YamlKept
  BY YamlInvKept
<1> QED BY <1>1, RefineInvariance, PTL

\* However refinements and edits interleave, nothing is refined twice.
THEOREM NothingTwice == Interleaved => []NothingRefinedTwice
<1>1. YamlInv => NothingRefinedTwice
  <2> SUFFICES ASSUME YamlInv, Good(yaml) PROVE NothingRefinedTwice
    BY DEF NothingRefinedTwice
  <2>1. yaml \in Text /\ Once(yaml)
    BY TextFacts DEF YamlInv, YamlTypes, OnceInv
  <2>2. \A c \in Known: DOMAIN yaml.exclusions[c] = 1 .. Len(yaml.exclusions[c])
    <3> SUFFICES ASSUME NEW c \in Known
                 PROVE  DOMAIN yaml.exclusions[c] = 1 .. Len(yaml.exclusions[c])
      OBVIOUS
    <3>1. yaml.exclusions[c] \in Seq(Patterns)
      BY <2>1 DEF Text
    <3> QED BY <3>1
  <2>3. \A c \in Known: yaml.notes[c] <= 1
    BY <2>1 DEF Once
  <2>4. \A c, d \in Known: \A i \in DOMAIN yaml.exclusions[c],
                              j \in DOMAIN yaml.exclusions[d]:
          yaml.exclusions[c][i] = yaml.exclusions[d][j] => c = d /\ i = j
    <3> SUFFICES ASSUME NEW c \in Known, NEW d \in Known,
                        NEW i \in DOMAIN yaml.exclusions[c],
                        NEW j \in DOMAIN yaml.exclusions[d],
                        yaml.exclusions[c][i] = yaml.exclusions[d][j]
                 PROVE  c = d /\ i = j
      OBVIOUS
    <3>1. i \in 1 .. Len(yaml.exclusions[c]) /\ j \in 1 .. Len(yaml.exclusions[d])
      BY <2>2
    <3>2. \A p, q \in Known: \A k \in 1 .. Len(yaml.exclusions[p]),
                                  l \in 1 .. Len(yaml.exclusions[q]):
            yaml.exclusions[p][k] = yaml.exclusions[q][l] => p = q /\ k = l
      BY <2>1 DEF Once
    <3> QED BY <3>1, <3>2
  <2> QED BY <2>3, <2>4 DEF NothingRefinedTwice
<1> QED BY <1>1, RefineInvariance, PTL

\* The variables keep their types.
THEOREM TypeCorrect == Interleaved => []TypeOK
<1>1. LogInv => LogTypeOK
  <2> SUFFICES ASSUME LogTypes PROVE LogTypeOK
    BY DEF LogInv
  <2>1. F!FileTypeOK(Entry \cup {Torn})
    BY DEF LogTypes, F!FileTypeOK, Line
  <2>2. next_id \in 1 .. MaxEntries + 1 /\ logged \subseteq 1 .. MaxEntries
    BY PendingFacts DEF LogTypes
  <2> QED BY <2>1, <2>2 DEF LogTypeOK, LogTypes
<1>2. YamlInv => RefineTypeOK
  <2> SUFFICES ASSUME YamlTypes PROVE RefineTypeOK
    BY DEF YamlInv
  <2>1. /\ Good(yaml) => yaml \in Text
        /\ \A r \in Refiners: Good(draft[r]) => draft[r] \in Text
    BY TextFacts DEF YamlTypes
  <2>2. \A r \in Refiners: found[r] \in [DOMAIN found[r] -> Patterns]
    BY DEF YamlTypes, Found
  <2> QED BY <2>1, <2>2 DEF RefineTypeOK, YamlTypes
<1>3. LogInv /\ YamlInv => TypeOK
  BY <1>1, <1>2 DEF TypeOK
<1> QED BY <1>3, RefineInvariance, PTL

-----------------------------------------------------------------------------
(* The summaries of a log.                                                 *)

\* What SumFunction computes for t from what g has for the smaller sets.
SumStep(f, g, t) ==
  IF t = {} THEN 0
  ELSE LET el == CHOOSE el \in t: TRUE IN f[el] + g[t \ {el}]

\* What is 0 for nothing and grows with each element by what f has of it.
Sums(D, f, G) ==
  /\ G \in [SUBSET D -> Nat] /\ G[{}] = 0
  /\ \A S \in SUBSET D: \A el \in S: G[S] = f[el] + G[S \ {el}]

\* That is the sum.
LEMMA SumIs ==
  ASSUME NEW D, IsFiniteSet(D), NEW f, DOMAIN f = D, NEW G, Sums(D, f, G)
  PROVE  SumFunction(f) = G[D]
<1> USE DEF Sums
<1> DEFINE Def(g) == g = [t \in SUBSET D |-> SumStep(f, g, t)]
           sum == CHOOSE g: Def(g)
<1>1. SumFunction(f) = sum[D]
  BY DEF SumFunction, SumFunctionOnSet, FoldFunctionOnSet, MapThenFoldSet, SumStep
<1>2. Def(G)
  <2>1. ASSUME NEW t \in SUBSET D PROVE G[t] = SumStep(f, G, t)
    <3>1. CASE t = {}
      BY <3>1 DEF SumStep
    <3>2. CASE t # {}
      <4> DEFINE el == CHOOSE el \in t: TRUE
      <4>1. el \in t
        BY <3>2
      <4>2. SumStep(f, G, t) = f[el] + G[t \ {el}]
        BY <3>2 DEF SumStep
      <4> HIDE DEF el
      <4> QED BY <4>1, <4>2
    <3> QED BY <3>1, <3>2
  <2> QED BY <2>1
<1>3. Def(sum)
  <2> HIDE DEF Def
  <2> QED BY <1>2
<1>4. \A t \in SUBSET D: sum[t] = SumStep(f, sum, t)
  <2> HIDE DEF sum
  <2> QED BY <1>3
<1> HIDE DEF sum, Def
<1> DEFINE T == {n \in Nat: \A t \in SUBSET D: Cardinality(t) = n => sum[t] = G[t]}
<1>5. \A t \in SUBSET D: IsFiniteSet(t) /\ Cardinality(t) \in Nat
  BY FS_Subset, FS_CardinalityType
<1>6. 0 \in T
  <2> SUFFICES ASSUME NEW t \in SUBSET D, Cardinality(t) = 0 PROVE sum[t] = G[t]
    OBVIOUS
  <2>1. t = {}
    BY <1>5, FS_EmptySet
  <2> QED BY <1>4, <2>1 DEF SumStep
<1>7. ASSUME NEW n \in Nat, n \in T PROVE n + 1 \in T
  <2> SUFFICES ASSUME NEW t \in SUBSET D, Cardinality(t) = n + 1 PROVE sum[t] = G[t]
    OBVIOUS
  <2>1. t # {}
    <3> SUFFICES ASSUME t = {} PROVE FALSE
      OBVIOUS
    <3>1. Cardinality(t) = 0
      BY FS_EmptySet
    <3> QED BY <3>1
  <2> DEFINE el == CHOOSE el \in t: TRUE
  <2>2. el \in t
    BY <2>1
  <2>3. sum[t] = f[el] + sum[t \ {el}]
    BY <1>4, <2>1 DEF SumStep
  <2> HIDE DEF el
  <2>4. t \ {el} \in SUBSET D /\ Cardinality(t \ {el}) = n
    <3>1. Cardinality(t \ {el}) = Cardinality(t) - 1
      BY <1>5, <2>2, FS_RemoveElement
    <3> QED BY <3>1
  <2>5. sum[t \ {el}] = G[t \ {el}]
    BY <1>7, <2>4
  <2> QED BY <2>2, <2>3, <2>5
<1>8. Cardinality(D) \in T
  <2> HIDE DEF T
  <2> QED BY <1>5, <1>6, <1>7, SetInduction
<1> QED BY <1>1, <1>8

\* Those of P that h puts in each place of D add up to those it puts in D.
LEMMA SumOfParts ==
  ASSUME NEW places, IsFiniteSet(places), NEW P, IsFiniteSet(P), NEW h
  PROVE  SumFunction([k \in places |-> Cardinality({i \in P: h[i] = k})])
           = Cardinality({i \in P: h[i] \in places})
<1> DEFINE parts == [k \in places |-> Cardinality({i \in P: h[i] = k})]
           sums == [S \in SUBSET places |-> Cardinality({i \in P: h[i] \in S})]
<1>1. \A S: IsFiniteSet({i \in P: h[i] \in S})
  BY FS_Subset
<1>2. sums \in [SUBSET places -> Nat]
  BY <1>1, FS_CardinalityType
<1>3. sums[{}] = 0
  BY FS_EmptySet
<1>4. ASSUME NEW S \in SUBSET places, NEW el \in S PROVE sums[S] = parts[el] + sums[S \ {el}]
  <2> DEFINE A == {i \in P: h[i] = el}
             B == {i \in P: h[i] \in S \ {el}}
  <2>1. IsFiniteSet(A) /\ IsFiniteSet(B)
    BY FS_Subset
  <2>2. A \cap B = {} /\ A \cup B = {i \in P: h[i] \in S}
    OBVIOUS
  <2>3. Cardinality(A \cap B) = 0
    BY <2>2, FS_EmptySet
  <2> HIDE DEF A, B
  <2>4. Cardinality(A \cup B) = Cardinality(A) + Cardinality(B)
    <3>1. Cardinality(A \cup B) = Cardinality(A) + Cardinality(B) - Cardinality(A \cap B)
      BY <2>1, FS_Union
    <3>2. Cardinality(A) \in Nat /\ Cardinality(B) \in Nat
      BY <2>1, FS_CardinalityType
    <3> QED BY <2>3, <3>1, <3>2
  <2>5. parts[el] = Cardinality(A) /\ sums[S \ {el}] = Cardinality(B)
    BY DEF A, B
  <2> QED BY <2>2, <2>4, <2>5
<1>5. DOMAIN parts = places /\ sums[places] = Cardinality({i \in P: h[i] \in places})
  OBVIOUS
<1>6. SumFunction(parts) = sums[places]
  <2>1. \A S \in SUBSET places: \A el \in S: sums[S] = parts[el] + sums[S \ {el}]
    BY <1>4
  <2>2. Sums(places, parts, sums)
    BY <1>2, <1>3, <2>1 DEF Sums
  <2> HIDE DEF parts, sums
  <2> QED BY <1>5, <2>2, SumIs
<1> QED BY <1>5, <1>6

\* The ones in a sum of ones and zeros.
LEMMA SumOfOnes ==
  ASSUME NEW places, IsFiniteSet(places), NEW ones, DOMAIN ones = places, NEW Q,
         \A k \in places: ones[k] = IF k \in Q THEN 1 ELSE 0
  PROVE  SumFunction(ones) = Cardinality(places \cap Q)
<1> DEFINE sums == [S \in SUBSET places |-> Cardinality(S \cap Q)]
<1>1. \A S \in SUBSET places: IsFiniteSet(S \cap Q)
  BY FS_Subset
<1>2. sums \in [SUBSET places -> Nat]
  BY <1>1, FS_CardinalityType
<1>3. sums[{}] = 0
  BY FS_EmptySet
<1>4. ASSUME NEW S \in SUBSET places, NEW el \in S PROVE sums[S] = ones[el] + sums[S \ {el}]
  <2> DEFINE A == S \cap Q
             B == (S \ {el}) \cap Q
  <2>1. IsFiniteSet(A) /\ Cardinality(A) \in Nat
    BY <1>1, FS_CardinalityType
  <2>2. sums[S] = Cardinality(A) /\ sums[S \ {el}] = Cardinality(B)
    OBVIOUS
  <2>3. CASE el \in Q
    <3>1. el \in A /\ B = A \ {el}
      BY <2>3
    <3> HIDE DEF A, B
    <3>2. Cardinality(B) = Cardinality(A) - 1
      BY <2>1, <3>1, FS_RemoveElement
    <3> QED BY <2>1, <2>2, <2>3, <3>2
  <2>4. CASE el \notin Q
    <3>1. B = A
      BY <2>4
    <3> HIDE DEF A, B
    <3> QED BY <2>1, <2>2, <2>4, <3>1
  <2> QED BY <2>3, <2>4
<1>5. SumFunction(ones) = sums[places]
  <2>1. \A S \in SUBSET places: \A el \in S: sums[S] = ones[el] + sums[S \ {el}]
    BY <1>4
  <2>2. Sums(places, ones, sums)
    BY <1>2, <1>3, <2>1 DEF Sums
  <2> HIDE DEF sums
  <2> QED BY <2>2, SumIs
<1> QED BY <1>5

\* How many of P are among the first n.
First(P, n) == Cardinality(P \cap (1 .. n))

\* They are counted one after the other.
LEMMA FirstFacts ==
  ASSUME NEW P, NEW n \in Nat
  PROVE  /\ First(P, n) \in Nat /\ First(P, 0) = 0
         /\ First(P, n + 1) = First(P, n) + (IF n + 1 \in P THEN 1 ELSE 0)
<1>1. \A m \in Nat: IsFiniteSet(P \cap (1 .. m))
  <2> SUFFICES ASSUME NEW m \in Nat PROVE IsFiniteSet(P \cap (1 .. m))
    OBVIOUS
  <2> DEFINE lo == 1
  <2>1. IsFiniteSet(lo .. m)
    <3>1. lo \in Int /\ m \in Int
      OBVIOUS
    <3> HIDE DEF lo
    <3> QED BY <3>1, FS_Interval
  <2> QED BY <2>1, FS_Subset
<1>2. \A m \in Nat: First(P, m) \in Nat
  BY <1>1, FS_CardinalityType DEF First
<1>3. First(P, 0) = 0
  <2>1. P \cap (1 .. 0) = {}
    OBVIOUS
  <2> QED BY <2>1, FS_EmptySet DEF First
<1>4. CASE n + 1 \in P
  <2> DEFINE S == P \cap (1 .. n)
             el == n + 1
  <2>1. P \cap (1 .. n + 1) = S \cup {el} /\ el \notin S
    BY <1>4
  <2>2. IsFiniteSet(S) /\ Cardinality(S) = First(P, n)
    BY <1>1 DEF First
  <2> HIDE DEF S, el
  <2>3. Cardinality(S \cup {el}) = Cardinality(S) + 1
    BY <2>1, <2>2, FS_AddElement
  <2>4. First(P, n + 1) = Cardinality(S \cup {el})
    BY <2>1 DEF First
  <2> QED BY <1>2, <1>3, <1>4, <2>2, <2>3, <2>4
<1>5. CASE n + 1 \notin P
  <2>1. P \cap (1 .. n + 1) = P \cap (1 .. n)
    BY <1>5
  <2>2. First(P, n + 1) = First(P, n)
    BY <2>1 DEF First
  <2> QED BY <1>2, <1>3, <1>5, <2>2
<1> QED BY <1>4, <1>5

\* A turn of the loop of Stats.
Count(s, e) ==
  [total |-> s.total + 1,
   constraints |-> [s.constraints EXCEPT ![e.c] = s.constraints[e.c] + 1],
   sessions |-> s.sessions \cup {e.session},
   false_positives |-> s.false_positives + IF e.mark = "fp" THEN 1 ELSE 0]

Sessions == Writers \cup {None}
FalsePositives(es) == {i \in DOMAIN es: es[i].mark = "fp"}

\* What the loop has counted after i entries.
Counted(s, es, i) ==
  /\ s = [total |-> s.total, constraints |-> s.constraints, sessions |-> s.sessions,
          false_positives |-> s.false_positives]
  /\ s.total = i
  /\ s.constraints = [c \in Constraints |-> First(Hits(es, c), i)]
  /\ s.sessions = {es[j].session: j \in 1 .. i}
  /\ s.false_positives = First(FalsePositives(es), i)

\* A turn counts one entry.
LEMMA CountedNext ==
  ASSUME NEW es \in Seq(Entry), NEW i \in Nat, i + 1 <= Len(es), NEW s, Counted(s, es, i)
  PROVE  Counted(Count(s, es[i + 1]), es, i + 1)
<1> DEFINE e == es[i + 1]
           t == Count(s, e)
<1>1. e \in Entry /\ i + 1 \in DOMAIN es
  OBVIOUS
<1>2. e.c \in Constraints
  BY <1>1 DEF Entry
<1>3. /\ t.total = s.total + 1
      /\ t.constraints = [s.constraints EXCEPT ![e.c] = s.constraints[e.c] + 1]
      /\ t.sessions = s.sessions \cup {e.session}
      /\ t.false_positives = s.false_positives + (IF e.mark = "fp" THEN 1 ELSE 0)
      /\ t = [total |-> t.total, constraints |-> t.constraints, sessions |-> t.sessions,
              false_positives |-> t.false_positives]
  BY DEF Count
<1>4. /\ s.total = i
      /\ s.constraints = [c \in Constraints |-> First(Hits(es, c), i)]
      /\ s.sessions = {es[j].session: j \in 1 .. i}
      /\ s.false_positives = First(FalsePositives(es), i)
  BY DEF Counted
<1>5. \A c \in Constraints: i + 1 \in Hits(es, c) <=> e.c = c
  BY <1>1 DEF Hits
<1>6. i + 1 \in FalsePositives(es) <=> e.mark = "fp"
  BY <1>1 DEF FalsePositives
<1> HIDE DEF t
<1>7. t.constraints = [c \in Constraints |-> First(Hits(es, c), i + 1)]
  <2>1. \A c \in Constraints: First(Hits(es, c), i + 1) =
          First(Hits(es, c), i) + (IF e.c = c THEN 1 ELSE 0)
    <3> SUFFICES ASSUME NEW c \in Constraints
                 PROVE  First(Hits(es, c), i + 1) =
                          First(Hits(es, c), i) + (IF e.c = c THEN 1 ELSE 0)
      OBVIOUS
    <3> DEFINE hits == Hits(es, c)
    <3>1. First(hits, i + 1) = First(hits, i) + (IF i + 1 \in hits THEN 1 ELSE 0)
      <4> HIDE DEF hits
      <4> QED BY FirstFacts
    <3> QED BY <1>5, <3>1
  <2>2. \A c \in Constraints: First(Hits(es, c), i) \in Nat
    BY FirstFacts
  <2> HIDE DEF e
  <2>3. t.constraints = [c \in Constraints |-> IF c = e.c THEN First(Hits(es, c), i) + 1
                                               ELSE First(Hits(es, c), i)]
    BY <1>2, <1>3, <1>4
  <2> QED BY <2>1, <2>2, <2>3
<1>8. t.sessions = {es[j].session: j \in 1 .. i + 1}
  <2>1. 1 .. i + 1 = (1 .. i) \cup {i + 1}
    OBVIOUS
  <2> QED BY <1>3, <1>4, <2>1
<1>9. t.false_positives = First(FalsePositives(es), i + 1)
  <2> DEFINE P == FalsePositives(es)
  <2>1. First(P, i + 1) = First(P, i) + (IF i + 1 \in P THEN 1 ELSE 0)
    <3> HIDE DEF P
    <3> QED BY FirstFacts
  <2> QED BY <1>3, <1>4, <1>6, <2>1
<1>10. t.total = i + 1
  BY <1>3, <1>4
<1> QED BY <1>3, <1>7, <1>8, <1>9, <1>10 DEF Counted, t

\* What Stats gives for a log.
LEMMA StatsFacts ==
  ASSUME NEW es \in Seq(Entry)
  PROVE  Counted(Stats(es), es, Len(es))
<1> DEFINE len == Len(es)
           Tallies == [total: Nat, constraints: [Constraints -> Nat],
                 sessions: SUBSET Sessions, false_positives: Nat]
           start == [total |-> 0, constraints |-> [c \in Constraints |-> 0],
                     sessions |-> {}, false_positives |-> 0]
           turn == [i \in 1 .. len |-> [s \in Tallies |-> Count(s, es[i])]]
           Def(g) == g = [i \in 0 .. len |->
                            IF i = 0 THEN start ELSE Count(g[i - 1], es[i])]
           loop == CHOOSE g: Def(g)
<1>1. len \in Nat /\ \A i \in 1 .. len: es[i] \in Entry
  OBVIOUS
<1>2. start \in Tallies
  OBVIOUS
<1>3. turn \in [1 .. len -> [Tallies -> Tallies]]
  <2> SUFFICES ASSUME NEW i \in 1 .. len, NEW s \in Tallies PROVE Count(s, es[i]) \in Tallies
    OBVIOUS
  <2> DEFINE e == es[i]
  <2>1. e.c \in Constraints /\ e.session \in Sessions
    BY <1>1 DEF Entry, Sessions
  <2> HIDE DEF e
  <2>2. [s.constraints EXCEPT ![e.c] = s.constraints[e.c] + 1] \in [Constraints -> Nat]
    BY <2>1
  <2> QED BY <2>1, <2>2 DEF Count, e
<1>4. PICK g \in [0 .. len -> Tallies]:
        g[0] = start /\ \A i \in 1 .. len: g[i] = turn[i][g[i - 1]]
  <2>1. start \in Tallies /\ len \in Nat /\ turn \in [1 .. len -> [Tallies -> Tallies]]
    BY <1>1, <1>2, <1>3
  <2> HIDE DEF len, Tallies, start, turn
  <2>2. \E g \in [0 .. len -> Tallies]:
          g[0] = start /\ \A i \in 1 .. len: g[i] = turn[i][g[i - 1]]
    BY <2>1, Recursion
  <2> QED BY <2>2
<1>5. Def(g)
  <2>1. \A i \in 1 .. len: i - 1 \in 0 .. len /\ g[i - 1] \in Tallies
    <3> HIDE DEF Tallies
    <3> QED BY <1>1
  <2> HIDE DEF Tallies, start
  <2>2. \A i \in 1 .. len: g[i] = Count(g[i - 1], es[i])
    BY <1>4, <2>1
  <2> HIDE DEF turn, len
  <2>3. \A i \in 0 .. len: g[i] = IF i = 0 THEN start ELSE Count(g[i - 1], es[i])
    <3> SUFFICES ASSUME NEW i \in 0 .. len, i # 0 PROVE g[i] = Count(g[i - 1], es[i])
      BY <1>4
    <3>1. i \in 1 .. len
      BY <1>1
    <3> QED BY <2>2, <3>1
  <2> QED BY <2>3
<1>6. Def(loop)
  <2> HIDE DEF Def
  <2> QED BY <1>5
<1>7. Stats(es) = loop[len]
  BY DEF Stats, Loop, Count
<1> HIDE DEF loop, turn, len, Tallies
<1>8. loop[0] = start /\ \A i \in 1 .. len: loop[i] = Count(loop[i - 1], es[i])
  <2> HIDE DEF start
  <2>1. 0 \in 0 .. len /\ \A i \in 1 .. len: i \in 0 .. len /\ i # 0
    BY <1>1
  <2> QED BY <1>6, <2>1
<1> DEFINE T == {i \in Nat: i <= len => Counted(loop[i], es, i)}
<1>9. 0 \in T
  <2>1. [c \in Constraints |-> First(Hits(es, c), 0)] = [c \in Constraints |-> 0]
    BY FirstFacts
  <2>2. First(FalsePositives(es), 0) = 0
    BY FirstFacts
  <2>3. {es[j].session: j \in 1 .. 0} = {}
    OBVIOUS
  <2> QED BY <1>8, <2>1, <2>2, <2>3 DEF Counted
<1>10. ASSUME NEW i \in Nat, i \in T PROVE i + 1 \in T
  <2> SUFFICES ASSUME i + 1 <= len PROVE Counted(loop[i + 1], es, i + 1)
    OBVIOUS
  <2>1. i + 1 \in 1 .. len /\ (i + 1) - 1 = i /\ i <= len
    BY <1>1
  <2>2. loop[i + 1] = Count(loop[i], es[i + 1])
    BY <1>8, <2>1
  <2>3. Counted(loop[i], es, i)
    BY <1>10, <2>1
  <2> QED BY <2>2, <2>3, CountedNext DEF len
<1>11. Nat \subseteq T
  <2> HIDE DEF T
  <2> QED BY <1>9, <1>10, SetInduction
<1> QED BY <1>1, <1>7, <1>11 DEF len

Mine(es, k) == {i \in DOMAIN es: es[i].session = k}
MineMarked(es, k, mark) == {i \in Mine(es, k): es[i].mark = mark}

\* The constraints of session k among the first i entries, each of them once.
Listed(ids, es, k, i) ==
  /\ ids \in Seq(Constraints)
  /\ \A p, q \in 1 .. Len(ids): ids[p] = ids[q] => p = q
  /\ \A c: (\E p \in 1 .. Len(ids): ids[p] = c)
             <=> \E j \in 1 .. i: es[j].session = k /\ es[j].c = c

\* What the loop remembers of session k after i entries.
Remembered(ep, es, k, i) ==
  /\ ep = [total |-> ep.total, constraint_ids |-> ep.constraint_ids, fp |-> ep.fp,
           tp |-> ep.tp]
  /\ ep.total = First(Mine(es, k), i)
  /\ ep.fp = First(MineMarked(es, k, "fp"), i)
  /\ ep.tp = First(MineMarked(es, k, "tp"), i)
  /\ Listed(ep.constraint_ids, es, k, i)

\* A constraint is listed when it first fires.
LEMMA ListedNext ==
  ASSUME NEW es \in Seq(Entry), NEW i \in Nat, i + 1 <= Len(es), NEW ids,
         NEW k, es[i + 1].session = k, Listed(ids, es, k, i)
  PROVE  Listed(IF es[i + 1].c \in ToSet(ids) THEN ids
                ELSE Append(ids, es[i + 1].c), es, k, i + 1)
<1> DEFINE c == es[i + 1].c
           len == Len(ids)
<1>1. c \in Constraints
  <2>1. es[i + 1] \in Entry
    OBVIOUS
  <2> QED BY <2>1 DEF Entry
<1>2. /\ ids \in Seq(Constraints) /\ len \in Nat
      /\ \A p, q \in 1 .. len: ids[p] = ids[q] => p = q
      /\ \A d: (\E p \in 1 .. len: ids[p] = d)
                 <=> \E j \in 1 .. i: es[j].session = k /\ es[j].c = d
  <2>1. ids \in Seq(Constraints)
    BY DEF Listed
  <2>2. len \in Nat
    BY <2>1
  <2> QED BY <2>1, <2>2, Zenon DEF Listed
<1>3. c \in ToSet(ids) <=> \E p \in 1 .. len: ids[p] = c
  BY <1>2 DEF ToSet
<1>4. \A d: (\E j \in 1 .. i + 1: es[j].session = k /\ es[j].c = d)
              <=> d = c \/ \E j \in 1 .. i: es[j].session = k /\ es[j].c = d
  <2>1. 1 .. i + 1 = (1 .. i) \cup {i + 1}
    OBVIOUS
  <2> QED BY <2>1
<1>5. CASE c \in ToSet(ids)
  <2> HIDE DEF c, len
  <2>1. \A d: (\E p \in 1 .. len: ids[p] = d)
                <=> \E j \in 1 .. i + 1: es[j].session = k /\ es[j].c = d
    BY <1>2, <1>3, <1>4, <1>5
  <2>2. Listed(ids, es, k, i + 1)
    BY <1>2, <2>1 DEF Listed, len
  <2> QED BY <1>5, <2>2 DEF c
<1>6. CASE c \notin ToSet(ids)
  <2> DEFINE new == Append(ids, c)
  <2>1. /\ new \in Seq(Constraints) /\ Len(new) = len + 1
        /\ new[len + 1] = c /\ \A p \in 1 .. len: new[p] = ids[p]
    BY <1>1, <1>2
  <2> HIDE DEF new, c, len
  <2>2. \A p \in 1 .. len + 1: p \in 1 .. len \/ p = len + 1
    BY <1>2
  <2>3. ASSUME NEW p \in 1 .. len + 1, NEW q \in 1 .. len + 1, new[p] = new[q]
        PROVE  p = q
    BY <1>2, <1>3, <1>6, <2>1, <2>2, <2>3
  <2>4. \A d: (\E p \in 1 .. len + 1: new[p] = d)
                <=> d = c \/ \E p \in 1 .. len: ids[p] = d
    <3>1. len + 1 \in 1 .. len + 1 /\ \A p \in 1 .. len: p \in 1 .. len + 1
      BY <1>2
    <3> QED BY <2>1, <2>2, <3>1
  <2>5. \A d: (\E p \in 1 .. len + 1: new[p] = d)
                <=> \E j \in 1 .. i + 1: es[j].session = k /\ es[j].c = d
    BY <1>2, <1>4, <2>4
  <2>6. Listed(new, es, k, i + 1)
    BY <2>1, <2>3, <2>5 DEF Listed
  <2> QED BY <1>6, <2>6 DEF new, c
<1> QED BY <1>5, <1>6

\* A turn of the loop of Episodes remembers an entry of the session.
LEMMA RememberedNext ==
  ASSUME NEW es \in Seq(Entry), NEW i \in Nat, i + 1 <= Len(es), NEW ep,
         NEW k, Remembered(ep, es, k, i)
  PROVE  Remembered(IF es[i + 1].session = k THEN Remember(ep, es[i + 1]) ELSE ep,
                    es, k, i + 1)
<1> DEFINE e == es[i + 1]
<1>1. /\ i + 1 \in DOMAIN es
      /\ i + 1 \in Mine(es, k) <=> e.session = k
      /\ i + 1 \in MineMarked(es, k, "fp") <=> e.session = k /\ e.mark = "fp"
      /\ i + 1 \in MineMarked(es, k, "tp") <=> e.session = k /\ e.mark = "tp"
  BY DEF Mine, MineMarked
<1>2. \A P: First(P, i + 1) = First(P, i) + (IF i + 1 \in P THEN 1 ELSE 0)
  BY FirstFacts
<1>3. /\ First(Mine(es, k), i) \in Nat
      /\ First(MineMarked(es, k, "fp"), i) \in Nat
      /\ First(MineMarked(es, k, "tp"), i) \in Nat
  BY FirstFacts
<1>4. CASE e.session = k
  <2> DEFINE t == Remember(ep, e)
  <2>1. /\ t = [total |-> t.total, constraint_ids |-> t.constraint_ids, fp |-> t.fp,
                tp |-> t.tp]
        /\ t.total = ep.total + 1
        /\ t.fp = ep.fp + (IF e.mark = "fp" THEN 1 ELSE 0)
        /\ t.tp = ep.tp + (IF e.mark = "tp" THEN 1 ELSE 0)
        /\ t.constraint_ids = IF e.c \in ToSet(ep.constraint_ids) THEN ep.constraint_ids
                              ELSE Append(ep.constraint_ids, e.c)
    BY DEF Remember
  <2>2. Listed(t.constraint_ids, es, k, i + 1)
    <3> DEFINE list == ep.constraint_ids
    <3>1. Listed(list, es, k, i)
      BY DEF Remembered
    <3> HIDE DEF t, list
    <3>2. Listed(IF es[i + 1].c \in ToSet(list) THEN list
                 ELSE Append(list, es[i + 1].c), es, k, i + 1)
      BY <1>4, <3>1, ListedNext
    <3> QED BY <2>1, <3>2 DEF list
  <2> HIDE DEF t
  <2>3. /\ t.total = First(Mine(es, k), i + 1)
        /\ t.fp = First(MineMarked(es, k, "fp"), i + 1)
        /\ t.tp = First(MineMarked(es, k, "tp"), i + 1)
    BY <1>1, <1>2, <1>3, <1>4, <2>1 DEF Remembered
  <2>4. Remembered(t, es, k, i + 1)
    BY <2>1, <2>2, <2>3 DEF Remembered
  <2> QED BY <1>4, <2>4 DEF t
<1>5. CASE e.session # k
  <2>1. /\ First(Mine(es, k), i + 1) = First(Mine(es, k), i)
        /\ First(MineMarked(es, k, "fp"), i + 1) = First(MineMarked(es, k, "fp"), i)
        /\ First(MineMarked(es, k, "tp"), i + 1) = First(MineMarked(es, k, "tp"), i)
    BY <1>1, <1>2, <1>3, <1>5
  <2>2. \A c: (\E j \in 1 .. i + 1: es[j].session = k /\ es[j].c = c)
                <=> \E j \in 1 .. i: es[j].session = k /\ es[j].c = c
    <3>1. 1 .. i + 1 = (1 .. i) \cup {i + 1}
      OBVIOUS
    <3> QED BY <1>5, <3>1
  <2>3. Remembered(ep, es, k, i + 1)
    BY <2>1, <2>2 DEF Remembered, Listed
  <2> QED BY <1>5, <2>3
<1> QED BY <1>4, <1>5

Memory == [total: Nat, constraint_ids: Seq(Constraints), fp: Nat, tp: Nat]

\* A turn of the loop of Episodes.
Turn(eps, e) == [eps EXCEPT ![e.session] = Remember(eps[e.session], e)]

\* It keeps the memory of every session in shape.
LEMMA TurnTyped ==
  ASSUME NEW e \in Entry, NEW eps \in [Sessions -> Memory]
  PROVE  /\ e.session \in Sessions
         /\ Turn(eps, e) \in [Sessions -> Memory]
<1>1. e.c \in Constraints /\ e.session \in Sessions
  BY DEF Entry, Sessions
<1>2. Remember(eps[e.session], e) \in Memory
  <2> DEFINE ep == eps[e.session]
             list == ep.constraint_ids
  <2>1. ep \in Memory
    BY <1>1
  <2> HIDE DEF ep
  <2>2. /\ ep.total \in Nat /\ ep.fp \in Nat /\ ep.tp \in Nat
        /\ ep.constraint_ids \in Seq(Constraints)
    BY <2>1 DEF Memory
  <2>3. Append(list, e.c) \in Seq(Constraints)
    BY <1>1, <2>2
  <2>4. (IF e.c \in ToSet(list) THEN list ELSE Append(list, e.c)) \in Seq(Constraints)
    BY <2>2, <2>3
  <2>5. /\ ep.total + 1 \in Nat
        /\ ep.fp + (IF e.mark = "fp" THEN 1 ELSE 0) \in Nat
        /\ ep.tp + (IF e.mark = "tp" THEN 1 ELSE 0) \in Nat
    BY <2>2
  <2> HIDE DEF list
  <2>6. Remember(ep, e) \in Memory
    BY <2>4, <2>5 DEF Remember, Memory, list
  <2> QED BY <2>6 DEF ep
<1> QED BY <1>1, <1>2 DEF Turn

\* What Episodes gives for a log.
LEMMA EpisodesFacts ==
  ASSUME NEW es \in Seq(Entry)
  PROVE  /\ DOMAIN Episodes(es) = Sessions
         /\ \A k \in Sessions: Remembered(Episodes(es)[k], es, k, Len(es))
<1> DEFINE len == Len(es)
           Memories == [Sessions -> Memory]
           start == [k \in Sessions |->
                       [total |-> 0, constraint_ids |-> <<>>, fp |-> 0, tp |-> 0]]
           turn == [i \in 1 .. len |-> [s \in Memories |-> Turn(s, es[i])]]
           Def(g) == g = [i \in 0 .. len |->
                            IF i = 0 THEN start ELSE Turn(g[i - 1], es[i])]
           loop == CHOOSE g: Def(g)
<1>1. len \in Nat /\ \A i \in 1 .. len: es[i] \in Entry
  OBVIOUS
<1>2. start \in Memories
  <2>1. <<>> \in Seq(Constraints)
    OBVIOUS
  <2> QED BY <2>1 DEF Memory
<1>3. turn \in [1 .. len -> [Memories -> Memories]]
  BY <1>1, TurnTyped
<1>4. PICK g \in [0 .. len -> Memories]:
        g[0] = start /\ \A i \in 1 .. len: g[i] = turn[i][g[i - 1]]
  <2>1. start \in Memories /\ len \in Nat /\ turn \in [1 .. len -> [Memories -> Memories]]
    BY <1>1, <1>2, <1>3
  <2> HIDE DEF len, Memories, start, turn
  <2>2. \E g \in [0 .. len -> Memories]:
          g[0] = start /\ \A i \in 1 .. len: g[i] = turn[i][g[i - 1]]
    BY <2>1, Recursion
  <2> QED BY <2>2
<1>5. Def(g)
  <2>1. \A i \in 1 .. len: i - 1 \in 0 .. len /\ g[i - 1] \in Memories
    <3> HIDE DEF Memories
    <3> QED BY <1>1
  <2> HIDE DEF Memories, start
  <2>2. \A i \in 1 .. len: g[i] = Turn(g[i - 1], es[i])
    BY <1>4, <2>1
  <2> HIDE DEF turn, len
  <2>3. \A i \in 0 .. len: g[i] = IF i = 0 THEN start ELSE Turn(g[i - 1], es[i])
    <3> SUFFICES ASSUME NEW i \in 0 .. len, i # 0 PROVE g[i] = Turn(g[i - 1], es[i])
      BY <1>4
    <3>1. i \in 1 .. len
      BY <1>1
    <3> QED BY <2>2, <3>1
  <2> QED BY <2>3
<1>6. Def(loop)
  <2> HIDE DEF Def
  <2> QED BY <1>5
<1>7. Episodes(es) = loop[len]
  BY DEF Episodes, Loop, Turn, Sessions
<1> HIDE DEF loop, turn, len, Memories
<1>8. loop[0] = start /\ \A i \in 1 .. len: loop[i] = Turn(loop[i - 1], es[i])
  <2> HIDE DEF start
  <2>1. 0 \in 0 .. len /\ \A i \in 1 .. len: i \in 0 .. len /\ i # 0
    BY <1>1
  <2> QED BY <1>6, <2>1
<1> DEFINE Holds(i) == /\ loop[i] \in Memories
                       /\ \A k \in Sessions: Remembered(loop[i][k], es, k, i)
           T == {i \in Nat: i <= len => Holds(i)}
<1>9. 0 \in T
  <2> SUFFICES ASSUME NEW k \in Sessions PROVE Remembered(loop[0][k], es, k, 0)
    BY <1>2, <1>8
  <2>1. loop[0][k] = [total |-> 0, constraint_ids |-> <<>>, fp |-> 0, tp |-> 0]
    BY <1>8
  <2>2. \A P: First(P, 0) = 0
    BY FirstFacts
  <2>3. Listed(<<>>, es, k, 0)
    BY DEF Listed
  <2> QED BY <2>1, <2>2, <2>3 DEF Remembered
<1>10. ASSUME NEW i \in Nat, i \in T PROVE i + 1 \in T
  <2> SUFFICES ASSUME i + 1 <= len PROVE Holds(i + 1)
    OBVIOUS
  <2>1. i + 1 \in 1 .. len /\ (i + 1) - 1 = i /\ i <= len
    BY <1>1
  <2> DEFINE now == loop[i]
             e == es[i + 1]
  <2>2. loop[i + 1] = Turn(now, e)
    BY <1>8, <2>1
  <2>3. now \in Memories /\ \A k \in Sessions: Remembered(now[k], es, k, i)
    BY <1>10, <2>1
  <2>4. e \in Entry
    BY <1>1, <2>1
  <2> HIDE DEF now
  <2>5. e.session \in Sessions /\ Turn(now, e) \in Memories
    <3> HIDE DEF e
    <3> QED BY <2>3, <2>4, TurnTyped DEF Memories
  <2>6. ASSUME NEW k \in Sessions PROVE Remembered(Turn(now, e)[k], es, k, i + 1)
    <3>1. Turn(now, e)[k] = IF e.session = k THEN Remember(now[k], e) ELSE now[k]
      <4> HIDE DEF e
      <4> QED BY <2>3, <2>5 DEF Turn, Memories
    <3>2. Remembered(IF es[i + 1].session = k THEN Remember(now[k], es[i + 1]) ELSE now[k],
                     es, k, i + 1)
      <4> DEFINE ep == now[k]
      <4>1. Remembered(ep, es, k, i)
        BY <2>3
      <4> HIDE DEF ep
      <4>2. Remembered(IF es[i + 1].session = k THEN Remember(ep, es[i + 1]) ELSE ep,
                       es, k, i + 1)
        BY <2>1, <4>1, RememberedNext DEF len
      <4> QED BY <4>2 DEF ep
    <3> QED BY <3>1, <3>2
  <2> QED BY <2>2, <2>5, <2>6
<1>11. Nat \subseteq T
  <2> HIDE DEF T
  <2> QED BY <1>9, <1>10, SetInduction
<1>12. Holds(len)
  BY <1>1, <1>11
<1> QED BY <1>7, <1>12 DEF len, Memories

\* A log is a finite number of entries, all of which are counted in the end.
LEMMA PlacesFacts ==
  ASSUME NEW es \in Seq(Entry)
  PROVE  /\ IsFiniteSet(DOMAIN es) /\ Cardinality(DOMAIN es) = Len(es)
         /\ \A P \in SUBSET DOMAIN es:
              /\ IsFiniteSet(P) /\ Cardinality(P) \in Nat
              /\ First(P, Len(es)) = Cardinality(P)
<1> DEFINE lo == 1
           len == Len(es)
<1>1. len \in Nat /\ DOMAIN es = lo .. len
  OBVIOUS
<1>2. IsFiniteSet(lo .. len) /\ Cardinality(lo .. len) = len
  <2>1. lo \in Int /\ len \in Int
    BY <1>1
  <2> HIDE DEF lo, len
  <2>2. /\ IsFiniteSet(lo .. len)
        /\ Cardinality(lo .. len) = IF lo > len THEN 0 ELSE len - lo + 1
    BY <2>1, FS_Interval
  <2> QED BY <1>1, <2>2 DEF lo
<1> HIDE DEF len
<1>3. ASSUME NEW P \in SUBSET DOMAIN es
      PROVE  /\ IsFiniteSet(P) /\ Cardinality(P) \in Nat
             /\ First(P, len) = Cardinality(P)
  <2>1. P \cap (1 .. len) = P
    BY <1>1
  <2>2. IsFiniteSet(P)
    BY <1>1, <1>2, FS_Subset
  <2> QED BY <2>1, <2>2, FS_CardinalityType DEF First
<1> QED BY <1>1, <1>2, <1>3 DEF len

\* The summaries of any log, in terms of sets of its entries.
LEMMA SummaryFacts ==
  ASSUME NEW es \in Seq(Entry)
  PROVE  /\ Stats(es).total = Len(es)
         /\ Stats(es).constraints = [c \in Constraints |-> Cardinality(Hits(es, c))]
         /\ Stats(es).sessions = {es[j].session: j \in DOMAIN es}
         /\ Stats(es).false_positives = Cardinality(FalsePositives(es))
         /\ DOMAIN Episodes(es) = Sessions
         /\ \A k \in Sessions:
              /\ Episodes(es)[k].total = Cardinality(Mine(es, k))
              /\ Episodes(es)[k].fp = Cardinality(MineMarked(es, k, "fp"))
              /\ Episodes(es)[k].tp = Cardinality(MineMarked(es, k, "tp"))
              /\ Listed(Episodes(es)[k].constraint_ids, es, k, Len(es))
<1> DEFINE len == Len(es)
           s == Stats(es)
           eps == Episodes(es)
<1>1. Counted(s, es, len)
  BY StatsFacts
<1>2. /\ DOMAIN eps = Sessions
      /\ \A k \in Sessions: Remembered(eps[k], es, k, len)
  BY EpisodesFacts
<1>3. DOMAIN es = 1 .. len
  OBVIOUS
<1>4. \A P \in SUBSET DOMAIN es: First(P, len) = Cardinality(P)
  BY PlacesFacts
<1> HIDE DEF len, s, eps
<1>5. \A c: First(Hits(es, c), len) = Cardinality(Hits(es, c))
  BY <1>4 DEF Hits
<1>6. First(FalsePositives(es), len) = Cardinality(FalsePositives(es))
  BY <1>4 DEF FalsePositives
<1>7. \A k: First(Mine(es, k), len) = Cardinality(Mine(es, k))
  BY <1>4 DEF Mine
<1>8. \A k, m: First(MineMarked(es, k, m), len) = Cardinality(MineMarked(es, k, m))
  BY <1>4 DEF MineMarked, Mine
<1>9. /\ s.total = len
      /\ s.constraints = [c \in Constraints |-> Cardinality(Hits(es, c))]
      /\ s.sessions = {es[j].session: j \in DOMAIN es}
      /\ s.false_positives = Cardinality(FalsePositives(es))
  BY <1>1, <1>3, <1>5, <1>6 DEF Counted
<1>10. ASSUME NEW k \in Sessions
       PROVE  /\ eps[k].total = Cardinality(Mine(es, k))
              /\ eps[k].fp = Cardinality(MineMarked(es, k, "fp"))
              /\ eps[k].tp = Cardinality(MineMarked(es, k, "tp"))
              /\ Listed(eps[k].constraint_ids, es, k, len)
  BY <1>2, <1>7, <1>8 DEF Remembered
<1> QED BY <1>2, <1>9, <1>10 DEF len, s, eps

\* There are finitely many sessions.
LEMMA SessionsFinite == IsFiniteSet(Sessions)
<1>1. IsFiniteSet({None})
  BY FS_Singleton
<1> QED BY <1>1, ProcessAssumption, FS_Union DEF Sessions

\* What is counted per constraint and per session adds up.
LEMMA SumsAgree ==
  ASSUME NEW es \in Seq(Entry)
  PROVE  /\ SumFunction([c \in Constraints |-> Cardinality(Hits(es, c))]) = Len(es)
         /\ SumFunction([k \in Sessions |-> Cardinality(Mine(es, k))]) = Len(es)
         /\ SumFunction([k \in Sessions |-> Cardinality(MineMarked(es, k, "fp"))])
              = Cardinality(FalsePositives(es))
<1> DEFINE D == DOMAIN es
           cs == [i \in D |-> es[i].c]
           ks == [i \in D |-> es[i].session]
           FPs == FalsePositives(es)
<1>1. \A i \in D: cs[i] = es[i].c /\ ks[i] = es[i].session
  OBVIOUS
<1>2. \A i \in D: cs[i] \in Constraints /\ ks[i] \in Sessions
  <2>1. \A i \in D: es[i] \in Entry
    OBVIOUS
  <2> QED BY <1>1, <2>1 DEF Entry, Sessions
<1>3. IsFiniteSet(D) /\ Cardinality(D) = Len(es) /\ FPs \subseteq D /\ IsFiniteSet(FPs)
  BY PlacesFacts DEF FalsePositives
<1>4. \A c: Hits(es, c) = {i \in D: cs[i] = c}
  BY <1>1 DEF Hits
<1>5. \A k: Mine(es, k) = {i \in D: ks[i] = k}
  BY <1>1 DEF Mine
<1>6. \A k: MineMarked(es, k, "fp") = {i \in FPs: ks[i] = k}
  BY <1>1 DEF MineMarked, Mine, FalsePositives
<1>7. /\ {i \in D: cs[i] \in Constraints} = D
      /\ {i \in D: ks[i] \in Sessions} = D
      /\ {i \in FPs: ks[i] \in Sessions} = FPs
  BY <1>2, <1>3
<1> HIDE DEF D, cs, ks, FPs
<1>8. SumFunction([k \in Constraints |-> Cardinality({i \in D: cs[i] = k})]) = Cardinality(D)
  BY <1>3, <1>7, SumOfParts, RefineAssumption
<1>9. SumFunction([k \in Sessions |-> Cardinality({i \in D: ks[i] = k})]) = Cardinality(D)
  BY <1>3, <1>7, SumOfParts, SessionsFinite
<1>10. SumFunction([k \in Sessions |-> Cardinality({i \in FPs: ks[i] = k})]) = Cardinality(FPs)
  BY <1>3, <1>7, SumOfParts, SessionsFinite
<1>11. /\ [c \in Constraints |-> Cardinality(Hits(es, c))]
            = [k \in Constraints |-> Cardinality({i \in D: cs[i] = k})]
       /\ [k \in Sessions |-> Cardinality(Mine(es, k))]
            = [k \in Sessions |-> Cardinality({i \in D: ks[i] = k})]
       /\ [k \in Sessions |-> Cardinality(MineMarked(es, k, "fp"))]
            = [k \in Sessions |-> Cardinality({i \in FPs: ks[i] = k})]
  BY <1>4, <1>5, <1>6
<1> QED BY <1>3, <1>8, <1>9, <1>10, <1>11 DEF FPs

\* A candidate has as many hits as it has marks at least.
LEMMA CandidateFacts ==
  ASSUME NEW es \in Seq(Entry)
  PROVE  /\ Candidates(es, 5) \subseteq Candidates(es, 3)
         /\ \A c \in Candidates(es, 3): Cardinality(Hits(es, c)) >= 3
<1>1. ASSUME NEW c
      PROVE  /\ Marked(es, Hits(es, c), "fp") \in Nat
             /\ Marked(es, Hits(es, c), "tp") \in Nat
             /\ Cardinality(Hits(es, c)) \in Nat
             /\ Marked(es, Hits(es, c), "fp") + Marked(es, Hits(es, c), "tp")
                  <= Cardinality(Hits(es, c))
  <2> DEFINE H == Hits(es, c)
             FP == {i \in H: es[i].mark = "fp"}
             TP == {i \in H: es[i].mark = "tp"}
  <2>1. H \subseteq DOMAIN es
    BY DEF Hits
  <2>2. IsFiniteSet(H) /\ Cardinality(H) \in Nat
    <3> HIDE DEF H
    <3> QED BY <2>1, PlacesFacts
  <2>3. FP \subseteq H /\ TP \subseteq H /\ FP \cap TP = {} /\ FP \cup TP \subseteq H
    OBVIOUS
  <2>4. Marked(es, H, "fp") = Cardinality(FP) /\ Marked(es, H, "tp") = Cardinality(TP)
    BY DEF Marked
  <2> HIDE DEF FP, TP, H
  <2>5. IsFiniteSet(FP) /\ IsFiniteSet(TP) /\ Cardinality(FP) \in Nat /\ Cardinality(TP) \in Nat
    BY <2>2, <2>3, FS_Subset, FS_CardinalityType
  <2>6. Cardinality(FP \cup TP) = Cardinality(FP) + Cardinality(TP)
    <3>1. Cardinality(FP \cup TP) = Cardinality(FP) + Cardinality(TP) - Cardinality(FP \cap TP)
      BY <2>5, FS_Union
    <3>2. Cardinality(FP \cap TP) = 0
      BY <2>3, FS_EmptySet
    <3> QED BY <2>5, <3>1, <3>2
  <2>7. Cardinality(FP \cup TP) <= Cardinality(H)
    BY <2>2, <2>3, FS_Subset
  <2> QED BY <2>2, <2>4, <2>5, <2>6, <2>7 DEF H
<1>2. Candidates(es, 5) \subseteq Candidates(es, 3)
  <2> SUFFICES ASSUME NEW c \in Candidates(es, 5) PROVE c \in Candidates(es, 3)
    OBVIOUS
  <2> QED BY <1>1 DEF Candidates
<1>3. ASSUME NEW c \in Candidates(es, 3) PROVE Cardinality(Hits(es, c)) >= 3
  BY <1>1 DEF Candidates
<1> QED BY <1>2, <1>3

\* How often ids lists c, and whether c fired in session k.
Times(ids, c) == Cardinality({i \in DOMAIN ids: ids[i] = c})
Fired(es, k, c) == \E i \in DOMAIN es: es[i].session = k /\ es[i].c = c

\* A session lists a constraint once, and if it fired there.
LEMMA ListedOnce ==
  ASSUME NEW es \in Seq(Entry), NEW k, NEW ids, Listed(ids, es, k, Len(es)), NEW c
  PROVE  Times(ids, c) = IF Fired(es, k, c) THEN 1 ELSE 0
<1> DEFINE S == {i \in DOMAIN ids: ids[i] = c}
           len == Len(ids)
<1>1. ids \in Seq(Constraints)
  BY DEF Listed
<1>2. DOMAIN ids = 1 .. len /\ DOMAIN es = 1 .. Len(es)
  BY <1>1
<1>3. /\ \A p, q \in 1 .. len: ids[p] = ids[q] => p = q
      /\ (\E p \in 1 .. len: ids[p] = c) <=> Fired(es, k, c)
  BY <1>2, Zenon DEF Listed, Fired
<1>4. CASE Fired(es, k, c)
  <2>1. PICK p \in 1 .. len: ids[p] = c
    BY <1>3, <1>4
  <2>2. S = {p}
    BY <1>2, <1>3, <2>1
  <2>3. Cardinality({p}) = 1
    BY FS_Singleton
  <2> QED BY <1>4, <2>2, <2>3 DEF Times
<1>5. CASE ~Fired(es, k, c)
  <2>1. S = {}
    BY <1>2, <1>3, <1>5
  <2>2. Cardinality({}) = 0
    BY FS_EmptySet
  <2> QED BY <1>5, <2>1, <2>2 DEF Times
<1> QED BY <1>4, <1>5

\* A constraint counts for each session where it fired and that has no more
\* false positives than true ones.
LEMMA FiredInFacts ==
  ASSUME NEW es \in Seq(Entry), NEW c \in Constraints
  PROVE  FiredIn(Episodes(es), c) = Cardinality({k \in Stats(es).sessions:
           /\ \E i \in DOMAIN es: es[i].session = k /\ es[i].c = c
           /\ LET mine == {i \in DOMAIN es: es[i].session = k} IN
              Marked(es, mine, "fp") <= Marked(es, mine, "tp")})
<1> DEFINE eps == Episodes(es)
           fp(k) == Cardinality(MineMarked(es, k, "fp"))
           tp(k) == Cardinality(MineMarked(es, k, "tp"))
           Those == {k \in Sessions: Fired(es, k, c) /\ fp(k) <= tp(k)}
           tally == [k \in Sessions |->
                       IF Outcome(eps[k]) = "false_positive_dominant" THEN 0
                       ELSE Times(eps[k].constraint_ids, c)]
<1>1. DOMAIN eps = Sessions
  BY SummaryFacts
<1>2. FiredIn(eps, c) = SumFunction(tally)
  BY <1>1 DEF FiredIn, Times
<1>3. \A k \in Sessions: tally[k] = IF k \in Those THEN 1 ELSE 0
  <2> SUFFICES ASSUME NEW k \in Sessions PROVE tally[k] = IF k \in Those THEN 1 ELSE 0
    OBVIOUS
  <2> DEFINE ep == eps[k]
             list == ep.constraint_ids
  <2>1. ep.fp = fp(k) /\ ep.tp = tp(k) /\ Listed(list, es, k, Len(es))
    BY SummaryFacts
  <2>2. fp(k) \in Nat /\ tp(k) \in Nat
    <3>1. MineMarked(es, k, "fp") \subseteq DOMAIN es /\ MineMarked(es, k, "tp") \subseteq DOMAIN es
      BY DEF MineMarked, Mine
    <3> QED BY <3>1, PlacesFacts
  <2>3. tally[k] = IF Outcome(ep) = "false_positive_dominant" THEN 0 ELSE Times(list, c)
    OBVIOUS
  <2>4. k \in Those <=> Fired(es, k, c) /\ fp(k) <= tp(k)
    OBVIOUS
  <2> HIDE DEF list, tally, Those, ep, fp, tp
  <2>5. Times(list, c) = IF Fired(es, k, c) THEN 1 ELSE 0
    BY <2>1, ListedOnce
  <2>6. Outcome(ep) = "false_positive_dominant" <=> ~(fp(k) <= tp(k))
    BY <2>1, <2>2 DEF Outcome
  <2> QED BY <2>3, <2>4, <2>5, <2>6
<1>4. SumFunction(tally) = Cardinality(Sessions \cap Those)
  <2>1. DOMAIN tally = Sessions
    OBVIOUS
  <2> HIDE DEF tally, Those
  <2> QED BY <1>3, <2>1, SessionsFinite, SumOfOnes
<1>5. Sessions \cap Those = {k \in Stats(es).sessions:
           /\ \E i \in DOMAIN es: es[i].session = k /\ es[i].c = c
           /\ LET mine == {i \in DOMAIN es: es[i].session = k} IN
              Marked(es, mine, "fp") <= Marked(es, mine, "tp")}
  <2>1. Stats(es).sessions = {es[j].session: j \in DOMAIN es}
    BY SummaryFacts
  <2>2. \A j \in DOMAIN es: es[j].session \in Sessions
    <3>1. \A j \in DOMAIN es: es[j] \in Entry
      OBVIOUS
    <3> QED BY <3>1 DEF Entry, Sessions
  <2>3. \A k: /\ fp(k) = Marked(es, {i \in DOMAIN es: es[i].session = k}, "fp")
              /\ tp(k) = Marked(es, {i \in DOMAIN es: es[i].session = k}, "tp")
    BY DEF Marked, MineMarked, Mine
  <2> HIDE DEF fp, tp
  <2>4. \A k: Fired(es, k, c) => k \in Sessions /\ k \in Stats(es).sessions
    BY <2>1, <2>2 DEF Fired
  <2>5. Sessions \cap Those = {k \in Stats(es).sessions: Fired(es, k, c) /\ fp(k) <= tp(k)}
    BY <2>4
  <2> QED BY <2>3, <2>5 DEF Fired
<1> QED BY <1>2, <1>4, <1>5

\* Whatever log is read, the summaries made of it agree.
LEMMA LogInvSummaries == ASSUME LogInv PROVE SummariesAgree
<1> DEFINE es == entries
           s == Stats(es)
           eps == Episodes(es)
<1>1. es \in Seq(Entry)
  <2>1. content[name] \in Seq(Entry \cup {Torn})
    BY DEF LogInv, LogTypes, Line
  <2> QED BY <2>1, ParsedFacts DEF F!Readable, entries
<1> HIDE DEF es
<1>2. /\ s.total = Len(es)
      /\ s.constraints = [c \in Constraints |-> Cardinality(Hits(es, c))]
      /\ s.false_positives = Cardinality(FalsePositives(es))
      /\ DOMAIN eps = Sessions
      /\ \A k \in Sessions: /\ eps[k].total = Cardinality(Mine(es, k))
                            /\ eps[k].fp = Cardinality(MineMarked(es, k, "fp"))
  BY <1>1, SummaryFacts
<1> HIDE DEF s, eps
<1>3. SumFunction(s.constraints) = s.total
  BY <1>1, <1>2, SumsAgree
<1>4. SumFunction([k \in DOMAIN eps |-> eps[k].total]) = s.total
  <2>1. [k \in DOMAIN eps |-> eps[k].total] = [k \in Sessions |-> Cardinality(Mine(es, k))]
    BY <1>2
  <2> QED BY <1>1, <1>2, <2>1, SumsAgree
<1>5. SumFunction([k \in DOMAIN eps |-> eps[k].fp]) = s.false_positives
  <2>1. [k \in DOMAIN eps |-> eps[k].fp]
          = [k \in Sessions |-> Cardinality(MineMarked(es, k, "fp"))]
    BY <1>2
  <2> QED BY <1>1, <1>2, <2>1, SumsAgree
<1>6. Candidates(es, 5) \subseteq Candidates(es, 3)
  BY <1>1, CandidateFacts
<1>7. \A c \in Candidates(es, 3): s.constraints[c] >= 3
  <2>1. \A c \in Candidates(es, 3): c \in Constraints
    BY DEF Candidates
  <2> QED BY <1>1, <1>2, <2>1, CandidateFacts
<1>8. \A c \in Constraints:
        FiredIn(eps, c) = Cardinality({k \in s.sessions:
          /\ \E i \in DOMAIN es: es[i].session = k /\ es[i].c = c
          /\ LET mine == {i \in DOMAIN es: es[i].session = k} IN
             Marked(es, mine, "fp") <= Marked(es, mine, "tp")})
  BY <1>1, FiredInFacts DEF s, eps
<1> QED BY <1>2, <1>3, <1>4, <1>5, <1>6, <1>7, <1>8, Zenon DEF SummariesAgree, es, s, eps

\* Statistics, memory and refinement agree on the log, however appends and
\* annotations interleaved before they read it.
THEOREM SummariesMatch == Interleaved => []SummariesAgree
<1>1. LogInv => SummariesAgree
  BY LogInvSummaries
<1> QED BY <1>1, LogInvariance, PTL

-----------------------------------------------------------------------------
\* All of it holds of what TLC runs.
THEOREM CheckedKept ==
  Spec => [](LogKept /\ SummariesAgree /\ YamlKept /\ NothingRefinedTwice /\ TypeOK)
<1>1. Interleaved =>
        [](LogKept /\ SummariesAgree /\ YamlKept /\ NothingRefinedTwice /\ TypeOK)
  BY EntriesStay, SummariesMatch, YamlIsKept, NothingTwice, TypeCorrect, PTL
<1> QED BY <1>1, SpecInterleaves, PTL
=============================================================================
