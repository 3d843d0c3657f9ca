------------------------ MODULE RelevanceCacheProofs ------------------------
(***************************************************************************)
(* The safety properties of RelevanceCache hold for any number of          *)
(* evaluations, texts, constraints and projects.  Each of them is a part   *)
(* of one inductive invariant, with two facts of the code that no run      *)
(* names: what the answer of the judge is about, and that what an          *)
(* evaluation saw cached at its start is cached still.                     *)
(***************************************************************************)
EXTENDS RelevanceCache, TLAPS

\* Lines still to be cached are about texts the call asked about, and there
\* are none but in a call that is writing.
LinesAsked == \A e \in Evaluations:
  /\ lines[e] \subseteq batch[e] \X Named
  /\ judge[e] # "writing" => lines[e] = {}

\* Verdicts are never withdrawn while an evaluation counts on them.
OwedCached == \A e \in Evaluations: \A q \in owed[e]:
  q[2] \in Semantic /\ q[2] \in cache[q[1]]

IInv ==
  /\ TypeOK
  /\ SingleFlight
  /\ JudgedOnce
  /\ LinesAsked
  /\ OwedCached
  /\ KnownVerdictsBite
  /\ FlagsStand

-----------------------------------------------------------------------------
(* The initial states satisfy it.                                          *)

LEMMA InitIInv == Init => IInv
<1> SUFFICES ASSUME Init PROVE IInv
  OBVIOUS
<1>1. TypeOK
  <2>1. 0 \in 0 .. MaxAttempts - 1
    BY AttemptAssumption
  <2>2. attempt \in [Evaluations -> 0 .. MaxAttempts - 1]
    BY <2>1 DEF Init
  <2>3. /\ config \in Projects
        /\ permit \in BOOLEAN
        /\ stage \in [Evaluations -> Stage]
        /\ kind \in [Evaluations -> Kind]
        /\ reported \in [Evaluations -> BOOLEAN]
        /\ judge \in [Evaluations -> Call]
    BY DEF Init, Stage, Call
  <2>4. /\ project \in [Evaluations -> Projects]
        /\ about \in [Evaluations -> Projects]
    BY ProjectAssumption DEF Init
  <2>5. /\ cache \in [Texts -> SUBSET Named]
        /\ claims \in [Evaluations -> SUBSET Texts]
        /\ unread \in [Evaluations -> SUBSET Pairs]
        /\ flagged \in [Evaluations -> SUBSET Pairs]
        /\ owed \in [Evaluations -> SUBSET Pairs]
        /\ batch \in [Evaluations -> SUBSET Texts]
        /\ lines \in [Evaluations -> SUBSET (Texts \X Named)]
    BY DEF Init
  <2> QED BY <2>2, <2>3, <2>4, <2>5 DEF TypeOK
<1>2. SingleFlight /\ JudgedOnce
  BY DEF Init, SingleFlight, JudgedOnce, InFlight
<1>3. LinesAsked /\ OwedCached /\ KnownVerdictsBite /\ FlagsStand
  BY DEF Init, LinesAsked, OwedCached, KnownVerdictsBite, FlagsStand
<1> QED BY <1>1, <1>2, <1>3 DEF IInv

-----------------------------------------------------------------------------
(* Every step preserves it: one lemma per action, and in it one step per   *)
(* part.                                                                   *)

LEMMA RegisterStep ==
  ASSUME IInv, NEW p \in Projects, Register(p) PROVE IInv'
<1>1. TypeOK'
  BY ProjectAssumption, AttemptAssumption, SemanticAssumption
  DEF IInv, TypeOK, Pairs, Named, Stage, Call, LinesAsked, Register, Reload, evalVars, judgeVars
<1>2. SingleFlight'
  BY DEF IInv, TypeOK, SingleFlight, InFlight, Register, Reload, evalVars, judgeVars
<1>3. JudgedOnce'
  BY DEF IInv, TypeOK, JudgedOnce, SingleFlight, InFlight, Register, Reload, evalVars, judgeVars
<1>4. LinesAsked'
  BY DEF IInv, TypeOK, LinesAsked, Register, Reload, evalVars, judgeVars
<1>5. OwedCached'
  BY DEF IInv, TypeOK, OwedCached, Register, Reload, evalVars, judgeVars
<1>6. KnownVerdictsBite'
  BY DEF IInv, TypeOK, KnownVerdictsBite, OwedCached, Register, Reload, evalVars, judgeVars
<1>7. FlagsStand'
  BY DEF IInv, TypeOK, FlagsStand, Register, Reload, evalVars, judgeVars
<1> QED BY <1>1, <1>2, <1>3, <1>4, <1>5, <1>6, <1>7 DEF IInv

LEMMA OpenStreamStep ==
  ASSUME IInv, NEW e \in Evaluations, OpenStream(e) PROVE IInv'
<1>1. TypeOK'
  BY ProjectAssumption, AttemptAssumption, SemanticAssumption
  DEF IInv, TypeOK, Pairs, Named, Stage, Call, LinesAsked, OpenStream, judgeVars
<1>2. SingleFlight'
  BY DEF IInv, TypeOK, SingleFlight, InFlight, OpenStream, judgeVars
<1>3. JudgedOnce'
  BY DEF IInv, TypeOK, JudgedOnce, SingleFlight, InFlight, OpenStream, judgeVars
<1>4. LinesAsked'
  BY DEF IInv, TypeOK, LinesAsked, OpenStream, judgeVars
<1>5. OwedCached'
  BY DEF IInv, TypeOK, OwedCached, OpenStream, judgeVars
<1>6. KnownVerdictsBite'
  BY DEF IInv, TypeOK, KnownVerdictsBite, OwedCached, OpenStream, judgeVars
<1>7. FlagsStand'
  BY DEF IInv, TypeOK, FlagsStand, OpenStream, judgeVars
<1> QED BY <1>1, <1>2, <1>3, <1>4, <1>5, <1>6, <1>7 DEF IInv

LEMMA BeginChunkStep ==
  ASSUME IInv, NEW e \in Evaluations, BeginChunk(e) PROVE IInv'
<1>1. TypeOK'
  BY ProjectAssumption, AttemptAssumption, SemanticAssumption
  DEF IInv, TypeOK, Pairs, Named, Stage, Call, LinesAsked, BeginChunk, Begin, judgeVars
<1>2. SingleFlight'
  BY DEF IInv, TypeOK, SingleFlight, InFlight, BeginChunk, Begin, judgeVars
<1>3. JudgedOnce'
  BY DEF IInv, TypeOK, JudgedOnce, SingleFlight, InFlight, BeginChunk, Begin, judgeVars
<1>4. LinesAsked'
  BY DEF IInv, TypeOK, LinesAsked, BeginChunk, Begin, judgeVars
<1>5. OwedCached'
  BY DEF IInv, TypeOK, OwedCached, BeginChunk, Begin, judgeVars
<1>6. KnownVerdictsBite'
  BY DEF IInv, TypeOK, KnownVerdictsBite, OwedCached, BeginChunk, Begin, judgeVars
<1>7. FlagsStand'
  BY DEF IInv, TypeOK, FlagsStand, BeginChunk, Begin, judgeVars
<1> QED BY <1>1, <1>2, <1>3, <1>4, <1>5, <1>6, <1>7 DEF IInv

LEMMA BeginFinalStep ==
  ASSUME IInv, NEW e \in Evaluations, BeginFinal(e) PROVE IInv'
<1>1. TypeOK'
  BY ProjectAssumption, AttemptAssumption, SemanticAssumption
  DEF IInv, TypeOK, Pairs, Named, Stage, Call, LinesAsked, BeginFinal, Begin, judgeVars
<1>2. SingleFlight'
  BY DEF IInv, TypeOK, SingleFlight, InFlight, BeginFinal, Begin, judgeVars
<1>3. JudgedOnce'
  BY DEF IInv, TypeOK, JudgedOnce, SingleFlight, InFlight, BeginFinal, Begin, judgeVars
<1>4. LinesAsked'
  BY DEF IInv, TypeOK, LinesAsked, BeginFinal, Begin, judgeVars
<1>5. OwedCached'
  BY DEF IInv, TypeOK, OwedCached, BeginFinal, Begin, judgeVars
<1>6. KnownVerdictsBite'
  BY DEF IInv, TypeOK, KnownVerdictsBite, OwedCached, BeginFinal, Begin, judgeVars
<1>7. FlagsStand'
  BY DEF IInv, TypeOK, FlagsStand, BeginFinal, Begin, judgeVars
<1> QED BY <1>1, <1>2, <1>3, <1>4, <1>5, <1>6, <1>7 DEF IInv

LEMMA BeginHookStep ==
  ASSUME IInv, NEW e \in Evaluations, BeginHook(e) PROVE IInv'
<1>1. TypeOK'
  BY ProjectAssumption, AttemptAssumption, SemanticAssumption
  DEF IInv, TypeOK, Pairs, Named, Stage, Call, LinesAsked, BeginHook, Begin, judgeVars
<1>2. SingleFlight'
  BY DEF IInv, TypeOK, SingleFlight, InFlight, BeginHook, Begin, judgeVars
<1>3. JudgedOnce'
  BY DEF IInv, TypeOK, JudgedOnce, SingleFlight, InFlight, BeginHook, Begin, judgeVars
<1>4. LinesAsked'
  BY DEF IInv, TypeOK, LinesAsked, BeginHook, Begin, judgeVars
<1>5. OwedCached'
  BY DEF IInv, TypeOK, OwedCached, BeginHook, Begin, judgeVars
<1>6. KnownVerdictsBite'
  BY DEF IInv, TypeOK, KnownVerdictsBite, OwedCached, BeginHook, Begin, judgeVars
<1>7. FlagsStand'
  BY DEF IInv, TypeOK, FlagsStand, BeginHook, Begin, judgeVars
<1> QED BY <1>1, <1>2, <1>3, <1>4, <1>5, <1>6, <1>7 DEF IInv

LEMMA ReportPiiStep ==
  ASSUME IInv, NEW e \in Evaluations, ReportPii(e) PROVE IInv'
<1>1. TypeOK'
  BY ProjectAssumption, AttemptAssumption, SemanticAssumption
  DEF IInv, TypeOK, Pairs, Named, Stage, Call, LinesAsked, ReportPii, judgeVars
<1>2. SingleFlight'
  BY DEF IInv, TypeOK, SingleFlight, InFlight, ReportPii, judgeVars
<1>3. JudgedOnce'
  BY DEF IInv, TypeOK, JudgedOnce, SingleFlight, InFlight, ReportPii, judgeVars
<1>4. LinesAsked'
  BY DEF IInv, TypeOK, LinesAsked, ReportPii, judgeVars
<1>5. OwedCached'
  BY DEF IInv, TypeOK, OwedCached, ReportPii, judgeVars
<1>6. KnownVerdictsBite'
  BY DEF IInv, TypeOK, KnownVerdictsBite, OwedCached, ReportPii, judgeVars
<1>7. FlagsStand'
  BY DEF IInv, TypeOK, FlagsStand, ReportPii, judgeVars
<1> QED BY <1>1, <1>2, <1>3, <1>4, <1>5, <1>6, <1>7 DEF IInv

LEMMA AgainStep ==
  ASSUME IInv, NEW e \in Evaluations, Again(e) PROVE IInv'
<1>1. TypeOK'
  BY ProjectAssumption, AttemptAssumption, SemanticAssumption
  DEF IInv, TypeOK, Pairs, Named, Stage, Call, LinesAsked, Again, Begin, judgeVars
<1>2. SingleFlight'
  BY DEF IInv, TypeOK, SingleFlight, InFlight, Again, Begin, judgeVars
<1>3. JudgedOnce'
  BY DEF IInv, TypeOK, JudgedOnce, SingleFlight, InFlight, Again, Begin, judgeVars
<1>4. LinesAsked'
  BY DEF IInv, TypeOK, LinesAsked, Again, Begin, judgeVars
<1>5. OwedCached'
  BY DEF IInv, TypeOK, OwedCached, Again, Begin, judgeVars
<1>6. KnownVerdictsBite'
  BY DEF IInv, TypeOK, KnownVerdictsBite, OwedCached, Again, Begin, judgeVars
<1>7. FlagsStand'
  BY DEF IInv, TypeOK, FlagsStand, Again, Begin, judgeVars
<1> QED BY <1>1, <1>2, <1>3, <1>4, <1>5, <1>6, <1>7 DEF IInv

LEMMA LookupStep ==
  ASSUME IInv, NEW e \in Evaluations, Lookup(e) PROVE IInv'
<1>1. TypeOK'
  BY ProjectAssumption, AttemptAssumption, SemanticAssumption
  DEF IInv, TypeOK, Pairs, Named, Stage, Call, LinesAsked, Lookup, Evaluate, Violated, judgeVars
<1>2. SingleFlight'
  BY DEF IInv, TypeOK, SingleFlight, InFlight, Lookup, Evaluate, Violated, judgeVars
<1>3. JudgedOnce'
  BY DEF IInv, TypeOK, JudgedOnce, SingleFlight, InFlight, Lookup, Evaluate, Violated, judgeVars
<1>4. LinesAsked'
  BY DEF IInv, TypeOK, LinesAsked, Lookup, Evaluate, Violated, judgeVars
<1>5. OwedCached'
  BY DEF IInv, TypeOK, OwedCached, Lookup, Evaluate, Violated, judgeVars
<1>6. KnownVerdictsBite'
  BY DEF IInv, TypeOK, KnownVerdictsBite, OwedCached, Lookup, Evaluate, Violated, judgeVars
<1>7. FlagsStand'
  BY DEF IInv, TypeOK, FlagsStand, Lookup, Evaluate, Violated, judgeVars
<1> QED BY <1>1, <1>2, <1>3, <1>4, <1>5, <1>6, <1>7 DEF IInv

LEMMA FetchStep ==
  ASSUME IInv, NEW e \in Evaluations, Fetch(e) PROVE IInv'
<1>1. TypeOK'
  BY ProjectAssumption, AttemptAssumption, SemanticAssumption
  DEF IInv, TypeOK, Pairs, Named, Stage, Call, LinesAsked, Fetch, Evaluate, Violated, Unread, judgeVars
<1>2. SingleFlight'
  BY DEF IInv, TypeOK, SingleFlight, InFlight, Fetch, Evaluate, Violated, Unread, judgeVars
<1>3. JudgedOnce'
  BY DEF IInv, TypeOK, JudgedOnce, SingleFlight, InFlight, Fetch, Evaluate, Violated, Unread, judgeVars
<1>4. LinesAsked'
  BY DEF IInv, TypeOK, LinesAsked, Fetch, Evaluate, Violated, Unread, judgeVars
<1>5. OwedCached'
  BY DEF IInv, TypeOK, OwedCached, Fetch, Evaluate, Violated, Unread, judgeVars
<1>6. KnownVerdictsBite'
  BY DEF IInv, TypeOK, KnownVerdictsBite, OwedCached, Fetch, Evaluate, Violated, Unread, judgeVars
<1>7. FlagsStand'
  BY DEF IInv, TypeOK, FlagsStand, Fetch, Evaluate, Violated, Unread, judgeVars
<1> QED BY <1>1, <1>2, <1>3, <1>4, <1>5, <1>6, <1>7 DEF IInv

LEMMA FinishStep ==
  ASSUME IInv, NEW e \in Evaluations, Finish(e) PROVE IInv'
<1>1. TypeOK'
  BY ProjectAssumption, AttemptAssumption, SemanticAssumption
  DEF IInv, TypeOK, Pairs, Named, Stage, Call, LinesAsked, Finish, judgeVars
<1>2. SingleFlight'
  BY DEF IInv, TypeOK, SingleFlight, InFlight, Finish, judgeVars
<1>3. JudgedOnce'
  BY DEF IInv, TypeOK, JudgedOnce, SingleFlight, InFlight, Finish, judgeVars
<1>4. LinesAsked'
  BY DEF IInv, TypeOK, LinesAsked, Finish, judgeVars
<1>5. OwedCached'
  BY DEF IInv, TypeOK, OwedCached, Finish, judgeVars
<1>6. KnownVerdictsBite'
  BY DEF IInv, TypeOK, KnownVerdictsBite, OwedCached, Finish, judgeVars
<1>7. FlagsStand'
  BY DEF IInv, TypeOK, FlagsStand, Finish, judgeVars
<1> QED BY <1>1, <1>2, <1>3, <1>4, <1>5, <1>6, <1>7 DEF IInv

LEMMA ReportStep ==
  ASSUME IInv, NEW e \in Evaluations, Report(e) PROVE IInv'
<1>1. TypeOK'
  <2>1. TypeOK
    BY DEF IInv
  <2>2. judge' \in [Evaluations -> Call] /\ about' \in [Evaluations -> Projects]
    BY <2>1 DEF TypeOK, Call, Report
  <2>3. batch' \in [Evaluations -> SUBSET Texts] /\ permit' \in BOOLEAN
    BY <2>1 DEF TypeOK, Report
  <2>4. stage' \in [Evaluations -> Stage] /\ reported' \in [Evaluations -> BOOLEAN]
    BY <2>1 DEF TypeOK, Stage, Report, Blocks
  <2>5. project' \in [Evaluations -> Projects]
    BY <2>1, ProjectAssumption DEF TypeOK, Report
  <2>6. flagged' \in [Evaluations -> SUBSET Pairs] /\ owed' \in [Evaluations -> SUBSET Pairs]
    BY <2>1 DEF TypeOK, Report
  <2>7. UNCHANGED <<config, cache, kind, claims, unread, attempt, lines>>
    BY DEF Report
  <2> QED BY <2>1, <2>2, <2>3, <2>4, <2>5, <2>6, <2>7 DEF TypeOK
<1>2. SingleFlight'
  BY DEF IInv, TypeOK, SingleFlight, InFlight, Report, Blocks
<1>3. JudgedOnce'
  BY DEF IInv, TypeOK, JudgedOnce, SingleFlight, InFlight, Report, Blocks
<1>4. LinesAsked'
  BY DEF IInv, TypeOK, LinesAsked, SingleFlight, InFlight, Report, Blocks
<1>5. OwedCached'
  BY DEF IInv, TypeOK, OwedCached, Report, Blocks
<1>6. KnownVerdictsBite'
  BY DEF IInv, TypeOK, KnownVerdictsBite, OwedCached, Report, Blocks
<1>7. FlagsStand'
  BY DEF IInv, TypeOK, FlagsStand, Report, Blocks
<1> QED BY <1>1, <1>2, <1>3, <1>4, <1>5, <1>6, <1>7 DEF IInv

\* What every way out of a call does to the types.
LEMMA EndsTyped ==
  ASSUME TypeOK, NEW e \in Evaluations, Ends(e, "returned"), permit' = FALSE
  PROVE  TypeOK'
<1>1. judge' \in [Evaluations -> Call]
  BY DEF TypeOK, Ends, Call
<1>2. attempt' \in [Evaluations -> 0 .. MaxAttempts - 1]
  <2>1. 0 \in 0 .. MaxAttempts - 1
    BY AttemptAssumption
  <2> QED BY <2>1 DEF TypeOK, Ends
<1>3. /\ about' \in [Evaluations -> Projects]
      /\ batch' \in [Evaluations -> SUBSET Texts]
      /\ lines' \in [Evaluations -> SUBSET (Texts \X Named)]
  BY ProjectAssumption DEF TypeOK, Ends
<1> QED BY <1>1, <1>2, <1>3 DEF TypeOK, Ends, evalVars

LEMMA NothingToAskStep ==
  ASSUME IInv, NEW e \in Evaluations, NothingToAsk(e) PROVE IInv'
<1>1. TypeOK'
  BY EndsTyped DEF NothingToAsk, Return, IInv
<1>2. SingleFlight'
  BY DEF IInv, TypeOK, SingleFlight, InFlight, NothingToAsk, Return, Ends, evalVars
<1>3. JudgedOnce'
  BY DEF IInv, TypeOK, JudgedOnce, SingleFlight, InFlight, NothingToAsk, Return, Ends, evalVars
<1>4. LinesAsked'
  BY DEF IInv, TypeOK, LinesAsked, NothingToAsk, Return, Ends, evalVars
<1>5. OwedCached'
  BY DEF IInv, TypeOK, OwedCached, NothingToAsk, Return, Ends, evalVars
<1>6. KnownVerdictsBite'
  BY DEF IInv, TypeOK, KnownVerdictsBite, OwedCached, NothingToAsk, Return, Ends, evalVars
<1>7. FlagsStand'
  BY DEF IInv, TypeOK, FlagsStand, NothingToAsk, Return, Ends, evalVars
<1> QED BY <1>1, <1>2, <1>3, <1>4, <1>5, <1>6, <1>7 DEF IInv

LEMMA AskStep ==
  ASSUME IInv, NEW e \in Evaluations, Ask(e) PROVE IInv'
<1>1. TypeOK'
  BY ProjectAssumption, AttemptAssumption, SemanticAssumption
  DEF IInv, TypeOK, Pairs, Named, Stage, Call, LinesAsked, Ask, Uncached, evalVars
<1>2. SingleFlight'
  BY DEF IInv, TypeOK, SingleFlight, InFlight, Ask, Uncached, evalVars
<1>3. JudgedOnce'
  BY DEF IInv, TypeOK, JudgedOnce, SingleFlight, InFlight, Ask, Uncached, evalVars
<1>4. LinesAsked'
  BY DEF IInv, TypeOK, LinesAsked, Ask, Uncached, evalVars
<1>5. OwedCached'
  BY DEF IInv, TypeOK, OwedCached, Ask, Uncached, evalVars
<1>6. KnownVerdictsBite'
  BY DEF IInv, TypeOK, KnownVerdictsBite, OwedCached, Ask, Uncached, evalVars
<1>7. FlagsStand'
  BY DEF IInv, TypeOK, FlagsStand, Ask, Uncached, evalVars
<1> QED BY <1>1, <1>2, <1>3, <1>4, <1>5, <1>6, <1>7 DEF IInv

LEMMA RateLimitedStep ==
  ASSUME IInv, NEW e \in Evaluations, RateLimited(e) PROVE IInv'
<1>1. TypeOK'
  BY ProjectAssumption, AttemptAssumption, SemanticAssumption
  DEF IInv, TypeOK, Pairs, Named, Stage, Call, LinesAsked, RateLimited, evalVars
<1>2. SingleFlight'
  BY DEF IInv, TypeOK, SingleFlight, InFlight, RateLimited, evalVars
<1>3. JudgedOnce'
  BY DEF IInv, TypeOK, JudgedOnce, SingleFlight, InFlight, RateLimited, evalVars
<1>4. LinesAsked'
  BY DEF IInv, TypeOK, LinesAsked, RateLimited, evalVars
<1>5. OwedCached'
  BY DEF IInv, TypeOK, OwedCached, RateLimited, evalVars
<1>6. KnownVerdictsBite'
  BY DEF IInv, TypeOK, KnownVerdictsBite, OwedCached, RateLimited, evalVars
<1>7. FlagsStand'
  BY DEF IInv, TypeOK, FlagsStand, RateLimited, evalVars
<1> QED BY <1>1, <1>2, <1>3, <1>4, <1>5, <1>6, <1>7 DEF IInv

LEMMA CallFailsStep ==
  ASSUME IInv, NEW e \in Evaluations, CallFails(e) PROVE IInv'
<1>1. TypeOK'
  BY EndsTyped DEF CallFails, Return, IInv
<1>2. SingleFlight'
  BY DEF IInv, TypeOK, SingleFlight, InFlight, CallFails, Return, Ends, evalVars
<1>3. JudgedOnce'
  BY DEF IInv, TypeOK, JudgedOnce, SingleFlight, InFlight, CallFails, Return, Ends, evalVars
<1>4. LinesAsked'
  BY DEF IInv, TypeOK, LinesAsked, CallFails, Return, Ends, evalVars
<1>5. OwedCached'
  BY DEF IInv, TypeOK, OwedCached, CallFails, Return, Ends, evalVars
<1>6. KnownVerdictsBite'
  BY DEF IInv, TypeOK, KnownVerdictsBite, OwedCached, CallFails, Return, Ends, evalVars
<1>7. FlagsStand'
  BY DEF IInv, TypeOK, FlagsStand, CallFails, Return, Ends, evalVars
<1> QED BY <1>1, <1>2, <1>3, <1>4, <1>5, <1>6, <1>7 DEF IInv

LEMMA AnsweredStep ==
  ASSUME IInv, NEW e \in Evaluations, Answered(e) PROVE IInv'
<1>1. TypeOK'
  BY ProjectAssumption, AttemptAssumption, SemanticAssumption
  DEF IInv, TypeOK, Pairs, Named, Stage, Call, LinesAsked, Answered, evalVars
<1>2. SingleFlight'
  BY DEF IInv, TypeOK, SingleFlight, InFlight, Answered, evalVars
<1>3. JudgedOnce'
  BY DEF IInv, TypeOK, JudgedOnce, SingleFlight, InFlight, Answered, evalVars
<1>4. LinesAsked'
  BY ProjectAssumption DEF IInv, TypeOK, LinesAsked, Named, Answered, evalVars
<1>5. OwedCached'
  BY DEF IInv, TypeOK, OwedCached, Answered, evalVars
<1>6. KnownVerdictsBite'
  BY DEF IInv, TypeOK, KnownVerdictsBite, OwedCached, Answered, evalVars
<1>7. FlagsStand'
  BY DEF IInv, TypeOK, FlagsStand, Answered, evalVars
<1> QED BY <1>1, <1>2, <1>3, <1>4, <1>5, <1>6, <1>7 DEF IInv

LEMMA PanicsStep ==
  ASSUME IInv, NEW e \in Evaluations, Panics(e) PROVE IInv'
<1>1. TypeOK'
  BY ProjectAssumption, AttemptAssumption, SemanticAssumption
  DEF IInv, TypeOK, Pairs, Named, Stage, Call, LinesAsked, Panics, Ends, evalVars
<1>2. SingleFlight'
  BY DEF IInv, TypeOK, SingleFlight, InFlight, Panics, Ends, evalVars
<1>3. JudgedOnce'
  BY DEF IInv, TypeOK, JudgedOnce, SingleFlight, InFlight, Panics, Ends, evalVars
<1>4. LinesAsked'
  BY DEF IInv, TypeOK, LinesAsked, Panics, Ends, evalVars
<1>5. OwedCached'
  BY DEF IInv, TypeOK, OwedCached, Panics, Ends, evalVars
<1>6. KnownVerdictsBite'
  BY DEF IInv, TypeOK, KnownVerdictsBite, OwedCached, Panics, Ends, evalVars
<1>7. FlagsStand'
  BY DEF IInv, TypeOK, FlagsStand, Panics, Ends, evalVars
<1> QED BY <1>1, <1>2, <1>3, <1>4, <1>5, <1>6, <1>7 DEF IInv

LEMMA CacheLineStep ==
  ASSUME IInv, NEW e \in Evaluations, CacheLine(e) PROVE IInv'
<1>1. TypeOK'
  BY ProjectAssumption, AttemptAssumption, SemanticAssumption
  DEF IInv, TypeOK, Pairs, Named, Stage, Call, LinesAsked, CacheLine, evalVars
<1>2. SingleFlight'
  BY DEF IInv, TypeOK, SingleFlight, InFlight, CacheLine, evalVars
<1>3. JudgedOnce'
  BY DEF IInv, TypeOK, JudgedOnce, SingleFlight, InFlight, CacheLine, evalVars
<1>4. LinesAsked'
  BY DEF IInv, TypeOK, LinesAsked, CacheLine, evalVars
<1>5. OwedCached'
  BY DEF IInv, TypeOK, OwedCached, CacheLine, evalVars
<1>6. KnownVerdictsBite'
  BY DEF IInv, TypeOK, KnownVerdictsBite, OwedCached, CacheLine, evalVars
<1>7. FlagsStand'
  BY DEF IInv, TypeOK, FlagsStand, CacheLine, evalVars
<1> QED BY <1>1, <1>2, <1>3, <1>4, <1>5, <1>6, <1>7 DEF IInv

LEMMA JudgeReturnsStep ==
  ASSUME IInv, NEW e \in Evaluations, JudgeReturns(e) PROVE IInv'
<1>1. TypeOK'
  BY EndsTyped DEF JudgeReturns, Return, IInv
<1>2. SingleFlight'
  BY DEF IInv, TypeOK, SingleFlight, InFlight, JudgeReturns, Return, Ends, evalVars
<1>3. JudgedOnce'
  BY DEF IInv, TypeOK, JudgedOnce, SingleFlight, InFlight, JudgeReturns, Return, Ends, evalVars
<1>4. LinesAsked'
  BY DEF IInv, TypeOK, LinesAsked, JudgeReturns, Return, Ends, evalVars
<1>5. OwedCached'
  BY DEF IInv, TypeOK, OwedCached, JudgeReturns, Return, Ends, evalVars
<1>6. KnownVerdictsBite'
  BY DEF IInv, TypeOK, KnownVerdictsBite, OwedCached, JudgeReturns, Return, Ends, evalVars
<1>7. FlagsStand'
  BY DEF IInv, TypeOK, FlagsStand, JudgeReturns, Return, Ends, evalVars
<1> QED BY <1>1, <1>2, <1>3, <1>4, <1>5, <1>6, <1>7 DEF IInv

LEMMA StutterStep ==
  ASSUME IInv, UNCHANGED vars PROVE IInv'
BY DEF IInv, TypeOK, SingleFlight, InFlight, JudgedOnce, LinesAsked, OwedCached,
       KnownVerdictsBite, FlagsStand, vars, evalVars, judgeVars

LEMMA NextIInv == IInv /\ [Next]_vars => IInv'
<1> SUFFICES ASSUME IInv, [Next]_vars PROVE IInv'
  OBVIOUS
<1>1. ASSUME NEW p \in Projects \ {NoProject}, Register(p) PROVE IInv'
  BY <1>1, RegisterStep
<1>2. ASSUME NEW e \in Evaluations, EvalStep(e) PROVE IInv'
  BY <1>2, OpenStreamStep, BeginChunkStep, BeginFinalStep, BeginHookStep,
     ReportPiiStep, AgainStep, LookupStep, FetchStep, FinishStep, ReportStep DEF EvalStep
<1>3. ASSUME NEW e \in Evaluations, JudgeStep(e) PROVE IInv'
  BY <1>3, NothingToAskStep, AskStep, RateLimitedStep, CallFailsStep,
     AnsweredStep, PanicsStep, CacheLineStep, JudgeReturnsStep DEF JudgeStep
<1>4. CASE UNCHANGED vars
  BY <1>4, StutterStep
<1> QED BY <1>1, <1>2, <1>3, <1>4 DEF Next

-----------------------------------------------------------------------------
(* The theorems.                                                           *)

\* The inductive invariant holds in every reachable state.
THEOREM CacheInvariance == Spec => []IInv
BY InitIInv, NextIInv, PTL DEF Spec

\* The state of the evaluations, the judge's calls and the cache is of the
\* types the code gives it; a retry never runs off the table of delays.
THEOREM CacheTypes == Spec => []TypeOK
<1>1. IInv => TypeOK
  BY DEF IInv
<1> QED BY <1>1, CacheInvariance, PTL

\* However many responses end at once, one call of the judge is in flight at
\* most, and the semaphore is taken as long as it is.
THEOREM OneCallInFlight == Spec => []SingleFlight
<1>1. IInv => SingleFlight
  BY DEF IInv
<1> QED BY <1>1, CacheInvariance, PTL

\* A text that has verdicts is never judged again: the lookup of a call and
\* the writes of the one before it cannot overlap.
THEOREM NeverJudgedTwice == Spec => []JudgedOnce
<1>1. IInv => JudgedOnce
  BY DEF IInv
<1> QED BY <1>1, CacheInvariance, PTL

\* A daemon evaluation enforces every verdict that was cached when it began,
\* though it looks the cache up once for each constraint.
THEOREM VerdictsAreEnforced == Spec => []KnownVerdictsBite
<1>1. IInv => KnownVerdictsBite
  BY DEF IInv
<1> QED BY <1>1, CacheInvariance, PTL

\* What one evaluation, of the daemon or of a stop hook, holds for a semantic
\* violation, every later lookup will as well.
THEOREM VerdictsAgree == Spec => []FlagsStand
<1>1. IInv => FlagsStand
  BY DEF IInv
<1> QED BY <1>1, CacheInvariance, PTL
=============================================================================
