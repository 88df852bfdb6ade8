---------------------------- MODULE PipelineProofs -----------------------------
(***************************************************************************)
(* Proofs about Pipeline, for any texts, requests, contexts, answers and   *)
(* outputs of the spec agent and any repair budget.                        *)
(*                                                                         *)
(* Three inductive invariants, each on top of the one before: Inv, what a  *)
(* PipelineState is like at every node; Typed; and Settling, what the      *)
(* answers of the history have settled.                                    *)
(***************************************************************************)
EXTENDS Pipeline, FiniteSetTheorems, WellFoundedInduction, TLAPS

-------------------------------------------------------------------------------
(***************************************************************************)
(* Specifications.                                                         *)
(***************************************************************************)

\* Nothing is left to ask about.
Settled(spec) ==
    /\ spec.goal \notin GenericGoals
    /\ spec.return_value \notin GenericReturns
    /\ spec.input_path # NeedsClarification

\* What every specification that evaluate_spec returns is like.
Evaluated(spec) ==
    /\ spec.clarification_target \in Targets
    /\ spec.clarification_target = "none" => Settled(spec)
    /\ spec.clarification_target # "none" => spec.clarification_question \in Questions

LEMMA EvaluateSpecEvaluated ==
    ASSUME NEW raw, NEW failed, NEW req, NEW con, NEW history, NEW candidate
    PROVE  Evaluated(EvaluateSpec(raw, failed, req, con, history, candidate))
<1>. DEFINE merged == MergeHistory(raw, history)
            path   == NormalizeInputPath(merged, req, con, history, candidate)
            target == Blocker(merged.goal, merged.return_value, path)
            spec   == EvaluateSpec(raw, failed, req, con, history, candidate)
<1>1. /\ spec.goal = merged.goal
      /\ spec.return_value = merged.return_value
      /\ spec.input_path = path
      /\ spec.clarification_target = target
      /\ spec.clarification_question = BuildQuestion(target, req, merged.goal)
  BY DEF EvaluateSpec
<1>. HIDE DEF merged, path, spec
<1>2. target \in Targets
  BY DEF Blocker, Targets
<1>3. target = "none" =>
          /\ merged.goal \notin GenericGoals
          /\ merged.return_value \notin GenericReturns
          /\ path # NeedsClarification
  BY DEF Blocker
<1>4. target # "none" => BuildQuestion(target, req, merged.goal) \in Questions
  BY DEF Blocker, BuildQuestion, Questions
<1>5. Evaluated(spec)
  BY <1>1, <1>2, <1>3, <1>4 DEF Evaluated, Settled
<1>. QED
  BY <1>5 DEF spec

-------------------------------------------------------------------------------
\* What a session puts into its history.
Entries == [question : Questions, answer : Answers, target : Targets]

-------------------------------------------------------------------------------
(***************************************************************************)
(* Induction over numbers, from the well-foundedness of finite sets: a     *)
(* property is the set S of the numbers that have it.                      *)
(***************************************************************************)

LEMMA SmallestFiniteSet ==
    ASSUME NEW T, T # {}, \A U \in T : IsFiniteSet(U)
    PROVE  \E U \in T : \A V \in T : ~(V \subseteq U /\ V # U)
<1>. DEFINE S == UNION T
<1>1. IsWellFoundedOn(StrictSubsetOrdering(S), FiniteSubsetsOf(S))
  BY FS_StrictSubsetOrderingWellFounded
<1>2. T \subseteq FiniteSubsetsOf(S)
  BY DEF FiniteSubsetsOf
<1>. HIDE DEF S
<1>3. PICK U \in T : \A V \in T : ~(<<V, U>> \in StrictSubsetOrdering(S))
  BY <1>1, <1>2, WFMin, Zenon
<1>4. ASSUME NEW V \in T, V \subseteq U, V # U
      PROVE  FALSE
  <2>1. <<V, U>> \in StrictSubsetOrdering(S)
    BY <1>4 DEF StrictSubsetOrdering, S
  <2>. QED
    BY <2>1, <1>3, Zenon
<1>. QED
  BY <1>4

LEMMA LeastNumber ==
    ASSUME NEW T \in SUBSET Nat, T # {}
    PROVE  \E x \in T : \A y \in T : x <= y
<1>. DEFINE I == {1..n : n \in T}
<1>1. I # {} /\ \A U \in I : IsFiniteSet(U)
  <2>1. ASSUME NEW n \in T
        PROVE  IsFiniteSet(1..n)
    BY FS_Interval
  <2>. QED
    BY <2>1
<1>2. PICK U \in I : \A V \in I : ~(V \subseteq U /\ V # U)
  <2>. HIDE DEF I
  <2>. QED
    BY <1>1, SmallestFiniteSet
<1>3. PICK x \in T : U = 1..x
  BY <1>2
<1>4. ASSUME NEW y \in T, y < x
      PROVE  FALSE
  <2>1. 1..y \subseteq 1..x /\ x \in 1..x /\ x \notin 1..y
    BY <1>4
  <2>2. 1..y \in I
    BY <1>4
  <2>. HIDE DEF I
  <2>. QED
    BY <2>1, <2>2, <1>2, <1>3
<1>. QED
  BY <1>4

LEMMA NumbersByInduction ==
    ASSUME NEW S, 0 \in S, \A n \in Nat : n \in S => n + 1 \in S
    PROVE  Nat \subseteq S
<1>. SUFFICES ASSUME Nat \ S # {}
              PROVE  FALSE
  OBVIOUS
<1>1. PICK x \in Nat \ S : \A y \in Nat \ S : x <= y
  BY LeastNumber
<1>2. x - 1 \in Nat /\ x - 1 \notin Nat \ S
  BY <1>1
<1>. QED
  BY <1>1, <1>2

-------------------------------------------------------------------------------
(***************************************************************************)
(* Merging the answers of a history into a specification, step by step.    *)
(***************************************************************************)

\* The table over the subsets of Numbers that the fold over h builds.
IsFold(f, raw, h, Numbers) ==
    f = [s \in SUBSET Numbers |->
            IF s = {} THEN raw
            ELSE MergeEntry(f[s \ {Max(s)}], h[Max(s)])]

LEMMA MergeIsFold ==
    ASSUME NEW raw, NEW h
    PROVE  MergeHistory(raw, h) = (CHOOSE f : IsFold(f, raw, h, DOMAIN h))[DOMAIN h]
  BY DEF MergeHistory, IsFold, FoldLeft, MapThenFoldSet

LEMMA LargestNumber ==
    ASSUME NEW n \in Nat, NEW s, s \subseteq 1..n, n \in s
    PROVE  Max(s) = n
<1>1. n \in s /\ \A y \in s : n >= y
  OBVIOUS
<1>2. \A x \in s : (\A y \in s : x >= y) => x = n
  OBVIOUS
<1>. QED
  BY <1>1, <1>2, Zenon DEF Max

LEMMA FoldExists ==
    ASSUME NEW raw, NEW h, NEW k \in Nat
    PROVE  \E f : IsFold(f, raw, h, 1..k)
<1>. DEFINE S == {n \in Nat : \E f : IsFold(f, raw, h, 1..n)}
<1>1. 0 \in S
  <2>1. 1..0 = {}
    OBVIOUS
  <2>2. PICK f : f = [s \in {{}} |-> raw]
    OBVIOUS
  <2>3. IsFold(f, raw, h, {})
    BY <2>2 DEF IsFold
  <2>. QED
    BY <2>1, <2>3
<1>2. ASSUME NEW n \in Nat, n \in S
      PROVE  n + 1 \in S
  <2>1. PICK f : IsFold(f, raw, h, 1..n)
    BY <1>2
  <2>2. /\ f = [s \in SUBSET (1..n) |-> f[s]]
        /\ \A s \in SUBSET (1..n) :
              f[s] = IF s = {} THEN raw ELSE MergeEntry(f[s \ {Max(s)}], h[Max(s)])
    BY <2>1 DEF IsFold
  <2>3. PICK g : g = [s \in SUBSET (1..(n + 1)) |->
                        IF n + 1 \in s THEN MergeEntry(f[s \ {n + 1}], h[n + 1]) ELSE f[s]]
    OBVIOUS
  <2>4. ASSUME NEW s \in SUBSET (1..(n + 1))
        PROVE  g[s] = IF s = {} THEN raw ELSE MergeEntry(g[s \ {Max(s)}], h[Max(s)])
    <3>1. CASE n + 1 \in s
      <4>1. Max(s) = n + 1
        <5>1. n + 1 \in Nat /\ s \subseteq 1..(n + 1)
          OBVIOUS
        <5>. QED
          BY ONLY <3>1, <5>1, LargestNumber
      <4>2. s \ {n + 1} \in SUBSET (1..(n + 1)) /\ n + 1 \notin s \ {n + 1}
        OBVIOUS
      <4>3. g[s \ {n + 1}] = f[s \ {n + 1}]
        BY <2>3, <4>2
      <4>4. g[s] = MergeEntry(f[s \ {n + 1}], h[n + 1])
        BY <2>3, <3>1
      <4>5. g[s] = MergeEntry(g[s \ {Max(s)}], h[Max(s)])
        BY <4>1, <4>3, <4>4, Zenon
      <4>. QED
        BY <3>1, <4>5
    <3>2. CASE n + 1 \notin s
      <4>1. s \in SUBSET (1..n)
        BY <3>2
      <4>2. \A x : s \ {x} \in SUBSET (1..(n + 1)) /\ n + 1 \notin s \ {x}
        BY <3>2
      <4>3. \A x : g[s \ {x}] = f[s \ {x}]
        BY <2>3, <4>2
      <4>. QED
        BY <2>2, <2>3, <3>2, <4>1, <4>3
    <3>. QED
      BY <3>1, <3>2
  <2>5. IsFold(g, raw, h, 1..(n + 1))
    <3>1. g = [s \in SUBSET (1..(n + 1)) |-> g[s]]
      BY <2>3
    <3>. QED
      BY <2>4, <3>1 DEF IsFold
  <2>. QED
    BY <2>5
<1>. HIDE DEF S
<1>3. Nat \subseteq S
  BY <1>1, <1>2, NumbersByInduction
<1>. QED
  BY <1>3 DEF S

\* Merging a history is merging its entries one after the other.
LEMMA MergeSteps ==
    ASSUME NEW raw, NEW E, NEW h \in Seq(E)
    PROVE  \E m : /\ m[0] = raw
                  /\ \A k \in 1..Len(h) : m[k] = MergeEntry(m[k - 1], h[k])
                  /\ MergeHistory(raw, h) = m[Len(h)]
<1>. DEFINE n == Len(h)
<1>1. n \in Nat /\ DOMAIN h = 1..n
  OBVIOUS
<1>. HIDE DEF n
<1>2. PICK f : IsFold(f, raw, h, 1..n) /\ MergeHistory(raw, h) = f[1..n]
  <2>1. \E f : IsFold(f, raw, h, 1..n)
    BY <1>1, FoldExists
  <2>2. IsFold(CHOOSE f : IsFold(f, raw, h, 1..n), raw, h, 1..n)
    BY <2>1, Zenon
  <2>. QED
    BY <1>1, <2>2, MergeIsFold
<1>3. \A s \in SUBSET (1..n) :
          f[s] = IF s = {} THEN raw ELSE MergeEntry(f[s \ {Max(s)}], h[Max(s)])
  BY <1>2 DEF IsFold
<1>4. PICK m : m = [k \in 0..n |-> f[1..k]]
  OBVIOUS
<1>5. m[0] = raw
  <2>1. 1..0 = {} /\ 0 \in 0..n
    BY <1>1
  <2>2. f[{}] = raw
    BY <1>3
  <2>. QED
    BY <1>4, <2>1, <2>2
<1>6. ASSUME NEW k \in 1..n
      PROVE  m[k] = MergeEntry(m[k - 1], h[k])
  <2>1. /\ k \in Nat /\ k \in 0..n /\ k - 1 \in 0..n
        /\ 1..k \in SUBSET (1..n) /\ k \in 1..k
        /\ (1..k) \ {k} = 1..(k - 1)
    BY <1>1
  <2>2. Max(1..k) = k
    BY <2>1, LargestNumber
  <2>. QED
    BY <1>3, <1>4, <2>1, <2>2
<1>7. MergeHistory(raw, h) = m[n]
  BY <1>1, <1>2, <1>4
<1>. QED
  BY <1>5, <1>6, <1>7 DEF n

-------------------------------------------------------------------------------
(***************************************************************************)
(* What an answer settles stays settled.                                   *)
(***************************************************************************)

\* The field that the answer of entry e was asked for says something in raw.
Filled(e, raw) ==
    /\ e.target = "goal" => raw.goal \notin GenericGoals
    /\ e.target = "return_value" => raw.return_value \notin GenericReturns
    /\ e.target = "input_path" => raw.input_path \notin {Empty, NeedsClarification}

LEMMA PathIsNoMarker ==
    ASSUME NEW t \in Texts, CanonicalPath[t] # None
    PROVE  CanonicalPath[t] \in Texts \ {Empty, NotApplicable, NeedsClarification}
  BY TextsAssumption, MarkersAssumption

LEMMA MergePathAnswerIs ==
    ASSUME NEW path \in Texts, NEW answer \in Texts
    PROVE  /\ MergePathAnswer(path, answer) \in Texts
           /\ path \notin {Empty, NeedsClarification}
                  => MergePathAnswer(path, answer) \notin {Empty, NeedsClarification}
           /\ answer \notin {Empty, NeedsClarification}
                  => MergePathAnswer(path, answer) \notin {Empty, NeedsClarification}
<1>1. NotApplicable \in Texts /\ NotApplicable \notin {Empty, NeedsClarification}
  BY TextsAssumption, MarkersAssumption
<1>2. CASE CanonicalPath[answer] # None
  BY <1>2, PathIsNoMarker DEF MergePathAnswer
<1>3. CASE CanonicalPath[answer] = None
  BY <1>1, <1>3 DEF MergePathAnswer
<1>. QED
  BY <1>2, <1>3

\* The three fields after one answer.
LEMMA MergeEntryIs ==
    ASSUME NEW raw \in RawSpecs, NEW e \in Entries
    PROVE  LET r == MergeEntry(raw, e) IN
           /\ r \in RawSpecs
           /\ r.goal = IF /\ e.answer # Empty /\ e.target = "goal"
                          /\ raw.goal \in GenericGoals
                       THEN e.answer ELSE raw.goal
           /\ r.return_value = IF /\ e.answer # Empty /\ e.target = "return_value"
                                  /\ raw.return_value \in GenericReturns
                               THEN e.answer ELSE raw.return_value
           /\ r.input_path = IF e.answer # Empty /\ e.target = "input_path"
                             THEN MergePathAnswer(raw.input_path, e.answer)
                             ELSE raw.input_path
<1>1. /\ raw.goal \in Texts /\ raw.return_value \in Texts /\ raw.input_path \in Texts
      /\ e.answer \in Texts
  BY PipelineAssumption DEF RawSpecs, Entries
<1>2. PICK p : p = MergePathAnswer(raw.input_path, e.answer)
  OBVIOUS
<1>3. p \in Texts
  BY <1>1, <1>2, MergePathAnswerIs
<1>4. PICK r : r = MergeEntry(raw, e)
  OBVIOUS
<1>5. r = IF e.answer = Empty THEN raw
          ELSE CASE e.target = "goal" /\ raw.goal \in GenericGoals
                      -> [raw EXCEPT !.goal = e.answer]
                 [] e.target = "return_value" /\ raw.return_value \in GenericReturns
                      -> [raw EXCEPT !.return_value = e.answer]
                 [] e.target = "input_path" -> [raw EXCEPT !.input_path = p]
                 [] OTHER -> raw
  BY <1>2, <1>4 DEF MergeEntry
<1>6. CASE e.answer = Empty
  BY <1>4, <1>5, <1>6
<1>7. CASE e.answer # Empty /\ e.target = "goal"
  <2>1. r = IF raw.goal \in GenericGoals THEN [raw EXCEPT !.goal = e.answer] ELSE raw
    BY <1>5, <1>7
  <2>. QED
    BY <1>1, <1>4, <1>7, <2>1 DEF RawSpecs
<1>8. CASE e.answer # Empty /\ e.target = "return_value"
  <2>1. r = IF raw.return_value \in GenericReturns
            THEN [raw EXCEPT !.return_value = e.answer] ELSE raw
    BY <1>5, <1>8
  <2>. QED
    BY <1>1, <1>4, <1>8, <2>1 DEF RawSpecs
<1>9. CASE e.answer # Empty /\ e.target = "input_path"
  <2>1. r = [raw EXCEPT !.input_path = p]
    BY <1>5, <1>9
  <2>. QED
    BY <1>1, <1>2, <1>3, <1>4, <1>9, <2>1 DEF RawSpecs
<1>10. CASE e.answer # Empty /\ e.target = "none"
  <2>1. r = raw
    BY <1>5, <1>10
  <2>. QED
    BY <1>4, <1>10, <2>1
<1>. QED
  BY <1>6, <1>7, <1>8, <1>9, <1>10 DEF Entries, Targets

LEMMA MergeEntryFills ==
    ASSUME NEW raw \in RawSpecs, NEW e \in Entries
    PROVE  /\ Settles(e) => Filled(e, MergeEntry(raw, e))
           /\ \A d \in Entries : Filled(d, raw) => Filled(d, MergeEntry(raw, e))
<1>1. /\ raw.goal \in Texts /\ raw.return_value \in Texts /\ raw.input_path \in Texts
      /\ e.answer \in Texts /\ e.target \in Targets
  BY PipelineAssumption DEF RawSpecs, Entries
<1>2. PICK r : r = MergeEntry(raw, e)
  OBVIOUS
<1>3. PICK p : p = MergePathAnswer(raw.input_path, e.answer)
  OBVIOUS
<1>4. /\ raw.input_path \notin {Empty, NeedsClarification} => p \notin {Empty, NeedsClarification}
      /\ e.answer \notin {Empty, NeedsClarification} => p \notin {Empty, NeedsClarification}
  BY <1>1, <1>3, MergePathAnswerIs
<1>5. /\ r.goal = IF /\ e.answer # Empty /\ e.target = "goal" /\ raw.goal \in GenericGoals
                  THEN e.answer ELSE raw.goal
      /\ r.return_value = IF /\ e.answer # Empty /\ e.target = "return_value"
                             /\ raw.return_value \in GenericReturns
                          THEN e.answer ELSE raw.return_value
      /\ r.input_path = IF e.answer # Empty /\ e.target = "input_path"
                        THEN p ELSE raw.input_path
  BY <1>2, <1>3, MergeEntryIs
<1>6. Empty \in GenericGoals /\ Empty \in GenericReturns
  BY TextsAssumption
<1>7. Settles(e) => Filled(e, r)
  BY <1>1, <1>4, <1>5, <1>6 DEF Settles, Filled, Targets
<1>8. ASSUME NEW d \in Entries, Filled(d, raw)
      PROVE  Filled(d, r)
  <2>1. d.target = "goal" => r.goal \notin GenericGoals
    BY <1>5, <1>8 DEF Filled
  <2>2. d.target = "return_value" => r.return_value \notin GenericReturns
    BY <1>5, <1>8 DEF Filled
  <2>3. d.target = "input_path" => r.input_path \notin {Empty, NeedsClarification}
    BY <1>4, <1>5, <1>8 DEF Filled
  <2>. QED
    BY <2>1, <2>2, <2>3 DEF Filled
<1>. QED
  BY <1>2, <1>7, <1>8

\* Every answer of a history that settles its blocker has it settled after the
\* whole history.
LEMMA MergeHistoryFills ==
    ASSUME NEW raw \in RawSpecs, NEW h \in Seq(Entries)
    PROVE  /\ MergeHistory(raw, h) \in RawSpecs
           /\ \A i \in 1..Len(h) : Settles(h[i]) => Filled(h[i], MergeHistory(raw, h))
<1>1. PICK m : /\ m[0] = raw
               /\ \A k \in 1..Len(h) : m[k] = MergeEntry(m[k - 1], h[k])
               /\ MergeHistory(raw, h) = m[Len(h)]
  BY MergeSteps
<1>2. Len(h) \in Nat /\ \A i \in 1..Len(h) : h[i] \in Entries
  OBVIOUS
<1>. DEFINE S == {k \in Nat : k <= Len(h) =>
                      /\ m[k] \in RawSpecs
                      /\ \A i \in 1..k : Settles(h[i]) => Filled(h[i], m[k])}
<1>3. 0 \in S
  BY <1>1
<1>4. ASSUME NEW k \in Nat, k \in S
      PROVE  k + 1 \in S
  <2>. SUFFICES ASSUME k + 1 <= Len(h)
                PROVE  /\ m[k + 1] \in RawSpecs
                       /\ \A i \in 1..(k + 1) : Settles(h[i]) => Filled(h[i], m[k + 1])
    OBVIOUS
  <2>1. /\ m[k] \in RawSpecs
        /\ \A i \in 1..k : Settles(h[i]) => Filled(h[i], m[k])
    BY <1>2, <1>4
  <2>2. k + 1 \in 1..Len(h) /\ (k + 1) - 1 = k
    BY <1>2
  <2>3. m[k + 1] = MergeEntry(m[k], h[k + 1])
    BY <1>1, <2>2
  <2>4. h[k + 1] \in Entries /\ \A i \in 1..k : h[i] \in Entries
    BY <1>2, <2>2
  <2>5. m[k + 1] \in RawSpecs
    BY <2>1, <2>3, <2>4, MergeEntryIs
  <2>6. Settles(h[k + 1]) => Filled(h[k + 1], m[k + 1])
    BY ONLY <2>1, <2>3, <2>4, MergeEntryFills
  <2>7. \A i \in 1..k : Settles(h[i]) => Filled(h[i], m[k + 1])
    BY ONLY <2>1, <2>3, <2>4, MergeEntryFills
  <2>8. \A i \in 1..(k + 1) : i \in 1..k \/ i = k + 1
    OBVIOUS
  <2>. QED
    BY ONLY <2>5, <2>6, <2>7, <2>8
<1>. HIDE DEF S
<1>5. Nat \subseteq S
  BY <1>3, <1>4, NumbersByInduction
<1>6. Len(h) \in S /\ Len(h) <= Len(h)
  BY <1>2, <1>5
<1>. QED
  BY <1>1, <1>6 DEF S

\* evaluate_spec returns a NormalizedSpec.
LEMMA EvaluateSpecType ==
    ASSUME NEW raw \in RawSpecs, NEW failed \in BOOLEAN, NEW req, NEW con \in Contexts,
           NEW h \in Seq(Entries), NEW c \in Candidates(con)
    PROVE  EvaluateSpec(raw, failed, req, con, h, c) \in NormalizedSpecs
<1>1. PICK merged : merged = MergeHistory(raw, h)
  OBVIOUS
<1>2. merged \in RawSpecs
  BY <1>1, MergeHistoryFills
<1>3. /\ merged.goal \in Texts /\ merged.return_value \in Texts /\ merged.input_path \in Texts
  BY <1>2 DEF RawSpecs
<1>4. PICK path : path = NormalizeInputPath(merged, req, con, h, c)
  OBVIOUS
<1>5. path \in Texts
  <2>1. c \in Texts \union {None}
    BY TextsAssumption DEF Contexts, Candidates
  <2>2. ResolveInputPath(merged.input_path, c) \in Texts \union {None}
    BY <1>3, <2>1, TextsAssumption DEF ResolveInputPath
  <2>3. NotApplicable \in Texts /\ NeedsClarification \in Texts
    BY TextsAssumption
  <2>. QED
    BY <1>3, <1>4, <2>2, <2>3 DEF NormalizeInputPath
<1>6. PICK target : target = Blocker(merged.goal, merged.return_value, path)
  OBVIOUS
<1>7. target \in Targets
  BY <1>6 DEF Blocker, Targets
<1>8. PICK q : q = BuildQuestion(target, req, merged.goal)
  OBVIOUS
<1>9. q \in Questions \union {None}
  BY <1>7, <1>8 DEF BuildQuestion, Questions, Targets
<1>10. EvaluateSpec(raw, failed, req, con, h, c) =
           [goal |-> merged.goal, return_value |-> merged.return_value,
            input_path |-> path, spec_parse_failed |-> failed,
            clarification_target |-> target, clarification_question |-> q]
  BY <1>1, <1>4, <1>6, <1>8 DEF EvaluateSpec
<1>. QED
  BY ONLY <1>3, <1>5, <1>7, <1>9, <1>10, failed \in BOOLEAN DEF NormalizedSpecs

\* No answer of history that settles its blocker leaves spec blocked on it.
AnswersSettle(spec, history) ==
    \A e \in ToSet(history) : Settles(e) => spec.clarification_target # e.target

LEMMA EvaluateSpecSettles ==
    ASSUME NEW raw \in RawSpecs, NEW failed, NEW req, NEW con \in Contexts,
           NEW h \in Seq(Entries), NEW c \in Candidates(con)
    PROVE  AnswersSettle(EvaluateSpec(raw, failed, req, con, h, c), h)
<1>1. PICK merged : merged = MergeHistory(raw, h)
  OBVIOUS
<1>2. PICK path : path = NormalizeInputPath(merged, req, con, h, c)
  OBVIOUS
<1>3. PICK spec : spec = EvaluateSpec(raw, failed, req, con, h, c)
  OBVIOUS
<1>4. spec.clarification_target = Blocker(merged.goal, merged.return_value, path)
  BY <1>1, <1>2, <1>3 DEF EvaluateSpec
<1>. SUFFICES ASSUME NEW e \in ToSet(h), Settles(e)
              PROVE  spec.clarification_target # e.target
  BY <1>3 DEF AnswersSettle
<1>5. PICK i \in 1..Len(h) : e = h[i]
  BY DEF ToSet
<1>6. e \in Entries
  BY <1>5
<1>7. Filled(e, merged) /\ merged \in RawSpecs
  BY <1>1, <1>5, MergeHistoryFills
<1>8. CASE e.target = "goal"
  BY <1>4, <1>7, <1>8 DEF Blocker, Filled
<1>9. CASE e.target = "return_value"
  BY <1>4, <1>7, <1>9 DEF Blocker, Filled
<1>10. CASE e.target = "input_path"
  <2>1. e.answer \in PathAnswers(h) \ {Empty}
    BY <1>10 DEF PathAnswers, Settles
  <2>2. merged.input_path \in Texts \ {Empty, NeedsClarification}
    BY <1>7, <1>10 DEF Filled, RawSpecs
  <2>3. NotApplicable # NeedsClarification
    BY MarkersAssumption
  <2>4. ResolveInputPath(merged.input_path, c) # NeedsClarification
    <3>1. c # NeedsClarification
      BY TextsAssumption, MarkersAssumption DEF Contexts, Candidates
    <3>. QED
      BY <2>2, <3>1, PathIsNoMarker DEF ResolveInputPath
  <2>5. path # NeedsClarification
    BY <1>2, <2>1, <2>2, <2>3, <2>4 DEF NormalizeInputPath
  <2>. QED
    BY <1>4, <1>10, <2>5 DEF Blocker
<1>11. CASE e.target = "none"
  BY <1>11 DEF Settles
<1>. QED
  BY <1>6, <1>8, <1>9, <1>10, <1>11 DEF Entries, Targets

-------------------------------------------------------------------------------
(***************************************************************************)
(* The inductive invariant.                                                *)
(***************************************************************************)

Fields ==
    {"phase", "clarification_answer", "clarification_question",
     "clarification_history", "is_ambiguous", "clarifying", "spec_approved",
     "spec", "code", "generation_attempt", "validation_success",
     "validation_output", "validation_error", "error"}

\* No two entries of a history have the same question.
NoRepeats(history) ==
    \A i, j \in 1..Len(history) : history[i].question = history[j].question => i = j

\* A PipelineState at any point of a session.
WellFormed(s) ==
    /\ DOMAIN s = Fields
    /\ s.clarification_history \in Seq(Entries)
    /\ NoRepeats(s.clarification_history)
    /\ s.generation_attempt \in 0..(MAX_REPAIRS + 1)
    /\ s.code # None => s.spec_approved /\ Settled(s.spec)

\* No code has been generated, no specification approved, nothing has failed.
Unapproved(s) ==
    s.code = None /\ s.generation_attempt = 0 /\ s.spec_approved = FALSE /\ s.error = None

\* The session asks a question that it has not asked before.
Asks(s) ==
    /\ Unapproved(s)
    /\ s.spec.clarification_target \in Targets \ {"none"}
    /\ s.clarification_question = s.spec.clarification_question
    /\ s.clarification_question \in Questions \ Asked(s.clarification_history)
    /\ s.clarification_answer = None /\ s.clarifying = FALSE

\* The code has been accepted and has run.
Passed(s) == s.code.valid /\ s.code.runs

\* A PipelineState that a caller may hold.
Resting(s) ==
    /\ s.phase \in {"", "clarification_needed", "done", "error"}
    /\ s.phase = "" => s.clarification_history = <<>>
    /\ s.phase = "clarification_needed" => Asks(s)
    /\ s.phase = "done" => Passed(s)

\* A PipelineState that a run can start with; it comes back if the run fails.
Startable(s) ==
    /\ WellFormed(s) /\ Unapproved(s)
    /\ s.phase = "running"
    /\ s.clarifying \in BOOLEAN
    /\ s.clarifying = FALSE => s.clarification_answer = None

BeforeReview ==
    node \in {"extract_context", "spec", "update_spec", "clarifier"} =>
        /\ Startable(state)
        /\ node \in {"spec", "clarifier"} => state.clarifying = FALSE

AfterReview ==
    /\ node = "clarification_needed" => Asks(state)
    /\ node \in {"generate", "validate"} => state.spec_approved /\ Settled(state.spec)
    /\ node = "generate" => state.generation_attempt <= MAX_REPAIRS
    /\ node = "done" => Passed(state)
    /\ node = "error" /\ state.spec_approved => state.generation_attempt = MAX_REPAIRS + 1

Inv ==
    /\ node \in Nodes \union {"idle"}
    /\ WellFormed(state)
    /\ node = "idle" => Resting(state)
    /\ node # "idle" => Startable(base) /\ base.clarification_history = state.clarification_history
    /\ BeforeReview
    /\ AfterReview

LEMMA InitialStateStartable ==
    /\ Startable(InitialState)
    /\ WellFormed(UnstartedState)
    /\ UnstartedState.phase = "" /\ UnstartedState.clarification_history = <<>>
<1>1. /\ DOMAIN InitialState = Fields
      /\ DOMAIN UnstartedState = Fields
  BY DEF InitialState, UnstartedState, Fields
<1>2. \A s \in {InitialState, UnstartedState} :
          /\ s.clarification_history = <<>> /\ s.generation_attempt = 0
          /\ s.code = None /\ s.spec_approved = FALSE /\ s.error = None
          /\ s.clarifying = FALSE /\ s.clarification_answer = None
  <2>1. /\ InitialState.clarification_history = <<>> /\ InitialState.generation_attempt = 0
        /\ InitialState.code = None /\ InitialState.spec_approved = FALSE
        /\ InitialState.error = None
        /\ InitialState.clarifying = FALSE /\ InitialState.clarification_answer = None
    BY DEF InitialState
  <2>2. \A f \in Fields \ {"phase"} : UnstartedState[f] = InitialState[f]
    BY <1>1 DEF UnstartedState
  <2>3. /\ UnstartedState.clarification_history = <<>> /\ UnstartedState.generation_attempt = 0
        /\ UnstartedState.code = None /\ UnstartedState.spec_approved = FALSE
        /\ UnstartedState.error = None
        /\ UnstartedState.clarifying = FALSE /\ UnstartedState.clarification_answer = None
    BY <2>1, <2>2 DEF Fields
  <2>. QED
    BY <2>1, <2>3
<1>3. <<>> \in Seq(Entries) /\ NoRepeats(<<>>)
  BY DEF NoRepeats
<1>4. 0 \in 0..(MAX_REPAIRS + 1)
  BY PipelineAssumption
<1>5. \A s \in {InitialState, UnstartedState} : WellFormed(s)
  BY <1>1, <1>2, <1>3, <1>4 DEF WellFormed
<1>6. InitialState.phase = "running" /\ UnstartedState.phase = ""
  BY DEF InitialState, UnstartedState
<1>. QED
  BY <1>2, <1>5, <1>6 DEF Startable, Unapproved

LEMMA InvInit == Init => Inv
<1>. SUFFICES ASSUME Init PROVE Inv
  OBVIOUS
<1>1. /\ WellFormed(state) /\ node = "idle"
      /\ state.phase = "" /\ state.clarification_history = <<>>
  BY InitialStateStartable DEF Init
<1>. QED
  BY <1>1 DEF Inv, Resting, BeforeReview, AfterReview

-------------------------------------------------------------------------------
(***************************************************************************)
(* The RPCs.                                                               *)
(***************************************************************************)

\* _state_to_response only ever fills in the error of a failed session.
LEMMA ResponseKeeps ==
    ASSUME NEW s, WellFormed(s), Resting(s)
    PROVE  WellFormed(Response(s)) /\ Resting(Response(s))
<1>1. CASE Response(s) = s
  BY <1>1
<1>2. CASE Response(s) # s
  <2>1. s.phase = "error" /\ Response(s) = [s EXCEPT !.error = "diagnostics"]
    BY <1>2 DEF Response
  <2>2. PICK r : r = [s EXCEPT !.error = "diagnostics"]
    OBVIOUS
  <2>3. /\ DOMAIN r = DOMAIN s
        /\ r.clarification_history = s.clarification_history
        /\ r.generation_attempt = s.generation_attempt
        /\ r.code = s.code /\ r.spec_approved = s.spec_approved /\ r.spec = s.spec
        /\ r.phase = s.phase
    BY <2>2 DEF WellFormed, Fields
  <2>4. WellFormed(r)
    BY <2>3 DEF WellFormed
  <2>5. Resting(r)
    BY <2>1, <2>3 DEF Resting
  <2>. QED
    BY <2>1, <2>2, <2>4, <2>5
<1>. QED
  BY <1>1, <1>2

\* A state that goes back to the caller.
LEMMA ReturnStep ==
    ASSUME NEW s, WellFormed(s), Resting(s), Return(s)
    PROVE  Inv'
<1>1. WellFormed(state') /\ Resting(state') /\ node' = "idle"
  BY ResponseKeeps DEF Return
<1>2. WellFormed(state)' /\ Resting(state)'
  BY <1>1 DEF WellFormed, Resting, Asks, Unapproved, Passed
<1>. QED
  BY <1>1, <1>2 DEF Inv, BeforeReview, AfterReview

\* A run that starts.
LEMMA InvokeStep ==
    ASSUME NEW s, Startable(s), Invoke(s)
    PROVE  Inv'
<1>1. state' = s /\ base' = s /\ node' = "extract_context"
  BY DEF Invoke
<1>2. Startable(state)' /\ Startable(base)' /\ WellFormed(state)'
  BY <1>1 DEF Startable, WellFormed, Unapproved
<1>. QED
  BY <1>1, <1>2 DEF Inv, BeforeReview, AfterReview, Nodes

\* A call that is turned away changes nothing.
LEMMA RefuseKeeps ==
    ASSUME Inv, NEW code, Refuse(code)
    PROVE  Inv' /\ UNCHANGED <<request, context, state, base, node>>
<1>1. UNCHANGED <<request, context, state, base, node>>
  BY DEF Refuse
<1>. QED
  BY <1>1 DEF Inv, WellFormed, Resting, Startable, Unapproved, Asks, Passed,
              BeforeReview, AfterReview

\* What the RPCs do with a state that a caller may hold.
LEMMA StartOrContinueIs ==
    ASSUME Inv, StartOrContinue
    PROVE  /\ WellFormed(state) /\ Resting(state) /\ node = "idle"
           /\ \/ \E code \in {"INVALID_ARGUMENT", "FAILED_PRECONDITION"} : Refuse(code)
              \/ state.phase = "" /\ Invoke(InitialState)
              \/ state.phase \in {"done", "error"} /\ Return(state)
BY DEF Inv, StartOrContinue, Resting

LEMMA AnswerClarificationIs ==
    ASSUME Inv, NEW answer, AnswerClarification(answer)
    PROVE  /\ WellFormed(state) /\ Resting(state) /\ node = "idle"
           /\ \/ \E code \in {"INVALID_ARGUMENT", "FAILED_PRECONDITION"} : Refuse(code)
              \/ /\ state.phase = "clarification_needed" /\ Asks(state)
                 /\ Invoke(Resumed(state, answer))
BY DEF Inv, AnswerClarification, Resting

LEMMA StartOrContinueStep == Inv /\ StartOrContinue => Inv'
<1>. SUFFICES ASSUME Inv, StartOrContinue PROVE Inv'
  OBVIOUS
<1>1. CASE Invoke(InitialState)
  BY ONLY <1>1, InvokeStep, InitialStateStartable
<1>2. CASE Return(state)
  BY <1>2, StartOrContinueIs, ReturnStep
<1>. QED
  BY <1>1, <1>2, StartOrContinueIs, RefuseKeeps

\* The answered question joins the history, where it was not before.
LEMMA AskedGrows ==
    ASSUME NEW h \in Seq(Entries), NEW e \in Entries, NoRepeats(h),
           e.question \notin Asked(h)
    PROVE  Append(h, e) \in Seq(Entries) /\ NoRepeats(Append(h, e))
<1>1. Append(h, e) \in Seq(Entries)
  OBVIOUS
<1>2. PICK g : g = Append(h, e)
  OBVIOUS
<1>3. /\ Len(g) = Len(h) + 1 /\ Len(h) \in Nat
      /\ \A i \in 1..Len(h) : g[i] = h[i]
      /\ g[Len(h) + 1] = e
  BY <1>2
<1>4. \A i \in 1..Len(h) : h[i].question # e.question
  BY DEF Asked, ToSet
<1>5. NoRepeats(g)
  BY <1>3, <1>4 DEF NoRepeats
<1>. QED
  BY <1>1, <1>2, <1>5

LEMMA AnswerClarificationStep ==
    ASSUME Inv, NEW answer \in Answers, AnswerClarification(answer)
    PROVE  Inv'
<1>1. WellFormed(state)
  BY AnswerClarificationIs
<1>2. CASE Asks(state) /\ Invoke(Resumed(state, answer))
  <2>1. Asks(state) /\ Invoke(Resumed(state, answer))
    BY <1>2
  <2>2. PICK e : e = [question |-> state.clarification_question,
                      answer   |-> answer,
                      target   |-> state.spec.clarification_target]
    OBVIOUS
  <2>3. e \in Entries /\ e.question \notin Asked(state.clarification_history)
    BY <2>1, <2>2 DEF Asks, Entries
  <2>4. PICK h : h = Append(state.clarification_history, e)
    OBVIOUS
  <2>5. h \in Seq(Entries) /\ NoRepeats(h)
    BY ONLY <1>1, <2>3, <2>4, AskedGrows DEF WellFormed
  <2>6. PICK s : s = Resumed(state, answer)
    OBVIOUS
  <2>7. DOMAIN state = Fields
    BY <1>1 DEF WellFormed
  <2>8. s = [state EXCEPT !.clarification_history = h,
                          !.clarification_answer = answer,
                          !.clarifying = TRUE,
                          !.phase = "running"]
    BY <2>2, <2>4, <2>6 DEF Resumed
  <2>9. /\ DOMAIN s = Fields
        /\ s.clarification_history = h /\ s.clarifying = TRUE /\ s.phase = "running"
        /\ s.generation_attempt = state.generation_attempt
        /\ s.code = state.code /\ s.spec_approved = state.spec_approved
        /\ s.spec = state.spec /\ s.error = state.error
    BY ONLY <2>7, <2>8 DEF Fields
  <2>10. Startable(s)
    BY <1>1, <2>1, <2>5, <2>9 DEF Startable, WellFormed, Asks, Unapproved
  <2>. QED
    BY ONLY <2>1, <2>6, <2>10, InvokeStep
<1>. QED
  BY <1>2, AnswerClarificationIs, RefuseKeeps

-------------------------------------------------------------------------------
(***************************************************************************)
(* The graph.                                                              *)
(***************************************************************************)

LEMMA ExtractContextStep == Inv /\ ExtractContext => Inv'
<1>. SUFFICES ASSUME Inv, ExtractContext PROVE Inv'
  OBVIOUS
<1>1. /\ state' = state /\ base' = base
      /\ node' = RouteEntry(state)
      /\ node = "extract_context"
  BY DEF ExtractContext, Step
<1>2. /\ Startable(state) /\ WellFormed(state)
      /\ Startable(base) /\ base.clarification_history = state.clarification_history
  BY <1>1 DEF Inv, BeforeReview
<1>3. Startable(state)' /\ WellFormed(state)' /\ Startable(base)'
  BY <1>1, <1>2 DEF Startable, WellFormed, Unapproved
<1>4. \/ node' = "update_spec"
      \/ node' = "spec" /\ state.clarifying = FALSE
  BY <1>1, <1>2 DEF RouteEntry, Startable
<1>. QED
  BY <1>1, <1>2, <1>3, <1>4 DEF Inv, BeforeReview, AfterReview, Nodes

\* Where a run goes from spec and update_spec.
LEMMA ToClarifier ==
    ASSUME Inv, node # "idle", NEW s, Startable(s), s.clarifying = FALSE,
           s.clarification_history = state.clarification_history,
           Step("clarifier", s)
    PROVE  Inv'
<1>1. state' = s /\ base' = base /\ node' = "clarifier"
  BY DEF Step
<1>2. Startable(base) /\ base.clarification_history = state.clarification_history
  BY DEF Inv
<1>3. Startable(state)' /\ WellFormed(state)' /\ Startable(base)'
  BY <1>1, <1>2 DEF Startable, WellFormed, Unapproved
<1>. QED
  BY <1>1, <1>2, <1>3 DEF Inv, BeforeReview, AfterReview, Nodes

LEMMA SpecNodeStep == Inv /\ SpecNode => Inv'
<1>. SUFFICES ASSUME Inv, SpecNode PROVE Inv'
  OBVIOUS
<1>1. PICK spec : Step("clarifier", [state EXCEPT !.spec = spec])
  BY DEF SpecNode
<1>2. node = "spec" /\ Startable(state) /\ state.clarifying = FALSE
  BY DEF Inv, SpecNode, BeforeReview
<1>3. PICK s : s = [state EXCEPT !.spec = spec]
  OBVIOUS
<1>4. /\ DOMAIN s = Fields
      /\ s.clarification_history = state.clarification_history
      /\ s.phase = state.phase /\ s.clarifying = state.clarifying
      /\ s.clarification_answer = state.clarification_answer
      /\ s.generation_attempt = state.generation_attempt
      /\ s.code = state.code /\ s.spec_approved = state.spec_approved
      /\ s.error = state.error
  BY ONLY <1>2, <1>3 DEF Startable, WellFormed, Fields
<1>5. Startable(s)
  BY <1>2, <1>4 DEF Startable, WellFormed, Unapproved
<1>. QED
  BY ONLY <1>1, <1>2, <1>3, <1>4, <1>5, Inv, ToClarifier

LEMMA UpdateSpecNodeStep == Inv /\ UpdateSpecNode => Inv'
<1>. SUFFICES ASSUME Inv, UpdateSpecNode PROVE Inv'
  OBVIOUS
<1>1. PICK spec : Step("clarifier", UpdatedSpec(state, spec))
  BY DEF UpdateSpecNode
<1>2. node = "update_spec" /\ Startable(state)
  BY DEF Inv, UpdateSpecNode, BeforeReview
<1>3. PICK s : s = UpdatedSpec(state, spec)
  OBVIOUS
<1>4. /\ DOMAIN s = Fields
      /\ s.clarification_history = state.clarification_history
      /\ s.phase = state.phase /\ s.clarifying = FALSE
      /\ s.clarification_answer = None
      /\ s.generation_attempt = state.generation_attempt
      /\ s.code = state.code /\ s.spec_approved = state.spec_approved
      /\ s.error = state.error
  BY ONLY <1>2, <1>3 DEF Startable, WellFormed, Fields, UpdatedSpec
<1>5. Startable(s)
  BY <1>2, <1>4 DEF Startable, WellFormed, Unapproved
<1>. QED
  BY ONLY <1>1, <1>2, <1>3, <1>4, <1>5, Inv, ToClarifier

\* What clarifier_node makes of a state s: a question to ask, an approved
\* specification, or an error.
Reviewed(s, spec, r) ==
    /\ DOMAIN r = Fields
    /\ r.clarification_history = s.clarification_history
    /\ r.code = None /\ r.generation_attempt = 0 /\ r.spec = spec
    /\ \/ RouteAfterClarifier(r) = "clarification_needed" /\ Asks(r)
       \/ RouteAfterClarifier(r) = "generate" /\ r.spec_approved /\ Settled(spec)
       \/ RouteAfterClarifier(r) = "error" /\ r.spec_approved = FALSE

LEMMA ClarifiedIs ==
    ASSUME NEW spec, Evaluated(spec), NEW s, Startable(s), s.clarifying = FALSE
    PROVE  Reviewed(s, spec, Clarified(s, spec))
<1>. SUFFICES ASSUME NEW r, r = Clarified(s, spec) PROVE Reviewed(s, spec, r)
  OBVIOUS
<1>. USE DEF Reviewed
<1>. DEFINE decision == ClarifierDecision(spec, s.clarification_history)
<1>1. /\ DOMAIN s = Fields /\ s.phase = "running" /\ s.error = None
      /\ s.code = None /\ s.generation_attempt = 0 /\ s.clarification_answer = None
  BY DEF Startable, WellFormed, Unapproved
<1>2. PICK q : q = IF decision = "question" THEN spec.clarification_question ELSE None
  OBVIOUS
<1>3. PICK reviewed : reviewed = [s EXCEPT
            !.spec = spec,
            !.is_ambiguous = decision = "question",
            !.clarification_question = q,
            !.spec_approved = decision = "approved"]
  OBVIOUS
<1>4. /\ DOMAIN reviewed = Fields
      /\ reviewed.spec = spec
      /\ reviewed.is_ambiguous = (decision = "question")
      /\ reviewed.clarification_question = q
      /\ reviewed.spec_approved = (decision = "approved")
      /\ reviewed.clarification_history = s.clarification_history
      /\ reviewed.code = s.code /\ reviewed.generation_attempt = s.generation_attempt
      /\ reviewed.phase = s.phase /\ reviewed.error = s.error
      /\ reviewed.clarifying = s.clarifying
      /\ reviewed.clarification_answer = s.clarification_answer
  BY ONLY <1>1, <1>3 DEF Fields
<1>5. r = IF decision = "blocked"
          THEN [reviewed EXCEPT !.phase = "error", !.error = "unresolved clarification"]
          ELSE reviewed
  BY <1>2, <1>3 DEF Clarified
<1>6. CASE decision = "blocked"
  <2>1. r = [reviewed EXCEPT !.phase = "error", !.error = "unresolved clarification"]
    BY <1>5, <1>6
  <2>2. /\ DOMAIN r = Fields /\ r.phase = "error"
        /\ r.spec = reviewed.spec /\ r.spec_approved = reviewed.spec_approved
        /\ r.clarification_history = reviewed.clarification_history
        /\ r.code = reviewed.code /\ r.generation_attempt = reviewed.generation_attempt
    BY ONLY <1>4, <2>1 DEF Fields
  <2>. QED
    BY <1>1, <1>4, <1>6, <2>2 DEF RouteAfterClarifier
<1>7. CASE decision = "question"
  <2>1. /\ spec.clarification_target # "none"
        /\ spec.clarification_question \notin Asked(s.clarification_history)
    BY <1>7 DEF ClarifierDecision, QuestionWasAlreadyAsked
  <2>2. r = reviewed /\ q = spec.clarification_question
    BY <1>2, <1>5, <1>7
  <2>3. Asks(r)
    BY <1>1, <1>4, <1>7, <2>1, <2>2 DEF Asks, Unapproved, Evaluated
  <2>4. RouteAfterClarifier(r) = "clarification_needed"
    BY <1>1, <1>4, <1>7, <2>2 DEF RouteAfterClarifier, Present
  <2>. QED
    BY <1>1, <1>4, <2>2, <2>3, <2>4
<1>8. CASE decision = "approved"
  <2>1. spec.clarification_target = "none"
    BY <1>8 DEF ClarifierDecision
  <2>2. r = reviewed
    BY <1>5, <1>8
  <2>3. RouteAfterClarifier(r) = "generate"
    BY <1>1, <1>4, <1>8, <2>2 DEF RouteAfterClarifier, Present
  <2>. QED
    BY <1>1, <1>4, <1>8, <2>1, <2>2, <2>3 DEF Evaluated
<1>. QED
  BY <1>6, <1>7, <1>8 DEF ClarifierDecision

LEMMA ClarifierNodeStep == Inv /\ ClarifierNode => Inv'
<1>. SUFFICES ASSUME Inv, ClarifierNode PROVE Inv'
  OBVIOUS
<1>1. /\ node = "clarifier" /\ Startable(state) /\ state.clarifying = FALSE
      /\ Startable(base) /\ base.clarification_history = state.clarification_history
  BY DEF Inv, BeforeReview, ClarifierNode
<1>2. PICK c : Step(RouteAfterClarifier(Clarified(state,
                        ReevaluateSpec(state.spec, request, context,
                                       state.clarification_history, c))),
                    Clarified(state, ReevaluateSpec(state.spec, request, context,
                                                    state.clarification_history, c)))
  BY DEF ClarifierNode
<1>3. PICK spec : spec = ReevaluateSpec(state.spec, request, context,
                                        state.clarification_history, c)
  OBVIOUS
<1>4. Evaluated(spec)
  BY ONLY <1>3, EvaluateSpecEvaluated DEF ReevaluateSpec
<1>5. PICK r : r = Clarified(state, spec)
  OBVIOUS
<1>6. /\ DOMAIN r = Fields
      /\ r.clarification_history = state.clarification_history
      /\ r.code = None /\ r.generation_attempt = 0 /\ r.spec = spec
      /\ \/ RouteAfterClarifier(r) = "clarification_needed" /\ Asks(r)
         \/ RouteAfterClarifier(r) = "generate" /\ r.spec_approved /\ Settled(spec)
         \/ RouteAfterClarifier(r) = "error" /\ r.spec_approved = FALSE
  <2>1. Reviewed(state, spec, r)
    BY ONLY <1>1, <1>4, <1>5, ClarifiedIs
  <2>. QED
    BY ONLY <2>1 DEF Reviewed
<1>7. state' = r /\ node' = RouteAfterClarifier(r) /\ base' = base
  BY <1>2, <1>3, <1>5 DEF Step
<1>8. WellFormed(r)
  BY <1>1, <1>6, PipelineAssumption DEF WellFormed, Startable
<1>9. WellFormed(state)' /\ Startable(base)'
      /\ base'.clarification_history = state'.clarification_history
  BY <1>1, <1>6, <1>7, <1>8 DEF WellFormed, Startable, Unapproved
<1>10. BeforeReview'
  BY <1>6, <1>7 DEF BeforeReview
<1>11. AfterReview'
  BY <1>6, <1>7, PipelineAssumption DEF AfterReview, Asks, Unapproved
<1>. QED
  BY <1>6, <1>7, <1>9, <1>10, <1>11 DEF Inv, Nodes

LEMMA GenerateNodeStep == Inv /\ GenerateNode => Inv'
<1>. SUFFICES ASSUME Inv, GenerateNode PROVE Inv'
  OBVIOUS
<1>1. /\ node = "generate" /\ WellFormed(state)
      /\ state.spec_approved /\ Settled(state.spec)
      /\ state.generation_attempt <= MAX_REPAIRS
      /\ Startable(base) /\ base.clarification_history = state.clarification_history
  BY DEF Inv, AfterReview, GenerateNode
<1>2. PICK code : Step("validate", [state EXCEPT !.code = code, !.generation_attempt = @ + 1])
  BY DEF GenerateNode
<1>3. PICK s : s = [state EXCEPT !.code = code, !.generation_attempt = @ + 1]
  OBVIOUS
<1>4. /\ DOMAIN s = Fields
      /\ s.generation_attempt = state.generation_attempt + 1
      /\ s.clarification_history = state.clarification_history
      /\ s.spec = state.spec /\ s.spec_approved = state.spec_approved
  BY ONLY <1>1, <1>3 DEF WellFormed, Fields
<1>5. WellFormed(s)
  BY <1>1, <1>4, PipelineAssumption DEF WellFormed
<1>6. state' = s /\ node' = "validate" /\ base' = base
  BY <1>2, <1>3 DEF Step
<1>7. WellFormed(state)' /\ Startable(base)'
  BY <1>1, <1>5, <1>6 DEF WellFormed, Startable, Unapproved
<1>. QED
  BY <1>1, <1>4, <1>6, <1>7 DEF Inv, BeforeReview, AfterReview, Nodes

\* Only code that the checker accepted and that ran gets a good verdict.
LEMMA GoodVerdict ==
    ASSUME NEW code, NEW v \in Verdicts(code), v.success
    PROVE  code.valid /\ code.runs
<1>1. \A o, e : Verdict(FALSE, o, e).success = FALSE
  BY DEF Verdict
<1>2. \A w \in CheckerFailures(code) : w.success = FALSE
  BY ONLY <1>1 DEF CheckerFailures
<1>3. code.valid /\ v \in ValidatorVerdicts(code)
  BY <1>2 DEF Verdicts
<1>4. ~code.runs => \A w \in ValidatorVerdicts(code) : w.success = FALSE
  BY ONLY <1>1 DEF ValidatorVerdicts
<1>. QED
  BY <1>3, <1>4

LEMMA ValidateNodeStep == Inv /\ ValidateNode => Inv'
<1>. SUFFICES ASSUME Inv, ValidateNode PROVE Inv'
  OBVIOUS
<1>1. /\ node = "validate" /\ WellFormed(state)
      /\ state.spec_approved /\ Settled(state.spec)
      /\ Startable(base) /\ base.clarification_history = state.clarification_history
  BY DEF Inv, AfterReview, ValidateNode
<1>2. PICK v \in Verdicts(state.code) :
          LET next == [state EXCEPT !.validation_success = v.success,
                                    !.validation_output = v.output,
                                    !.validation_error = v.error]
          IN  Step(RouteAfterValidate(next), next)
  BY DEF ValidateNode
<1>3. PICK s : s = [state EXCEPT !.validation_success = v.success,
                                 !.validation_output = v.output,
                                 !.validation_error = v.error]
  OBVIOUS
<1>4. /\ DOMAIN s = Fields
      /\ s.validation_success = v.success
      /\ s.code = state.code
      /\ s.generation_attempt = state.generation_attempt
      /\ s.clarification_history = state.clarification_history
      /\ s.spec = state.spec /\ s.spec_approved = state.spec_approved
  BY ONLY <1>1, <1>3 DEF WellFormed, Fields
<1>5. WellFormed(s)
  BY <1>1, <1>4 DEF WellFormed
<1>6. state' = s /\ node' = RouteAfterValidate(s) /\ base' = base
  BY <1>2, <1>3 DEF Step
<1>7. WellFormed(state)' /\ Startable(base)'
  BY <1>1, <1>5, <1>6 DEF WellFormed, Startable, Unapproved
<1>8. \/ node' = "done" /\ Passed(s)
      \/ node' = "generate" /\ s.generation_attempt <= MAX_REPAIRS
      \/ node' = "error" /\ s.generation_attempt = MAX_REPAIRS + 1
  <2>1. s.generation_attempt \in 0..(MAX_REPAIRS + 1)
    BY <1>5 DEF WellFormed
  <2>2. CASE s.validation_success
    BY <1>4, <1>6, <2>2, GoodVerdict DEF RouteAfterValidate, Passed
  <2>3. CASE ~s.validation_success
    BY <1>6, <2>1, <2>3, PipelineAssumption DEF RouteAfterValidate
  <2>. QED
    BY <2>2, <2>3
<1>. QED
  BY <1>1, <1>4, <1>6, <1>7, <1>8 DEF Inv, BeforeReview, AfterReview, Passed, Nodes

\* The terminal nodes.
LEMMA ClarificationNeededStep == Inv /\ ClarificationNeededNode => Inv'
<1>. SUFFICES ASSUME Inv, ClarificationNeededNode PROVE Inv'
  OBVIOUS
<1>1. WellFormed(state) /\ Asks(state)
  BY DEF Inv, AfterReview, ClarificationNeededNode
<1>2. PICK s : s = [state EXCEPT !.phase = "clarification_needed"]
  OBVIOUS
<1>3. /\ DOMAIN s = Fields /\ s.phase = "clarification_needed"
      /\ s.clarification_history = state.clarification_history
      /\ s.clarification_question = state.clarification_question
      /\ s.clarification_answer = state.clarification_answer
      /\ s.clarifying = state.clarifying
      /\ s.generation_attempt = state.generation_attempt
      /\ s.code = state.code /\ s.spec = state.spec
      /\ s.spec_approved = state.spec_approved /\ s.error = state.error
  BY ONLY <1>1, <1>2 DEF WellFormed, Fields
<1>4. WellFormed(s) /\ Resting(s)
  BY <1>1, <1>3 DEF WellFormed, Resting, Asks, Unapproved
<1>5. Return(s)
  BY <1>2 DEF ClarificationNeededNode
<1>. QED
  BY ONLY <1>4, <1>5, ReturnStep

LEMMA DoneStep == Inv /\ DoneNode => Inv'
<1>. SUFFICES ASSUME Inv, DoneNode PROVE Inv'
  OBVIOUS
<1>1. WellFormed(state) /\ Passed(state)
  BY DEF Inv, AfterReview, DoneNode
<1>2. PICK s : s = [state EXCEPT !.phase = "done"]
  OBVIOUS
<1>3. /\ DOMAIN s = Fields /\ s.phase = "done"
      /\ s.clarification_history = state.clarification_history
      /\ s.generation_attempt = state.generation_attempt
      /\ s.code = state.code /\ s.spec = state.spec
      /\ s.spec_approved = state.spec_approved
  BY ONLY <1>1, <1>2 DEF WellFormed, Fields
<1>4. WellFormed(s) /\ Resting(s)
  BY <1>1, <1>3 DEF WellFormed, Resting, Passed
<1>5. Return(s)
  BY <1>2 DEF DoneNode
<1>. QED
  BY ONLY <1>4, <1>5, ReturnStep

LEMMA ErrorStep == Inv /\ ErrorNode => Inv'
<1>. SUFFICES ASSUME Inv, ErrorNode PROVE Inv'
  OBVIOUS
<1>1. WellFormed(state)
  BY DEF Inv
<1>2. PICK e : e = Or(state.validation_error, Or(state.error, "unknown error"))
  OBVIOUS
<1>3. PICK s : s = [state EXCEPT !.phase = "error", !.error = e]
  OBVIOUS
<1>4. WellFormed(s) /\ s.phase = "error"
  <2>1. /\ DOMAIN s = Fields /\ s.phase = "error"
        /\ s.clarification_history = state.clarification_history
        /\ s.generation_attempt = state.generation_attempt
        /\ s.code = state.code /\ s.spec = state.spec /\ s.spec_approved = state.spec_approved
    BY ONLY <1>1, <1>3 DEF WellFormed, Fields
  <2>. QED
    BY <1>1, <2>1 DEF WellFormed
<1>5. Return(s)
  BY <1>2, <1>3 DEF ErrorNode
<1>6. Resting(s)
  BY <1>4 DEF Resting
<1>. QED
  BY ONLY <1>4, <1>5, <1>6, ReturnStep

LEMMA RunFailsStep == Inv /\ RunFails => Inv'
<1>. SUFFICES ASSUME Inv, RunFails PROVE Inv'
  OBVIOUS
<1>1. WellFormed(base)
  BY DEF Inv, RunFails, Startable
<1>2. PICK text : Return([base EXCEPT !.phase = "error", !.error = text])
  BY DEF RunFails
<1>3. PICK s : s = [base EXCEPT !.phase = "error", !.error = text]
  OBVIOUS
<1>4. WellFormed(s) /\ s.phase = "error"
  <2>1. /\ DOMAIN s = Fields /\ s.phase = "error"
        /\ s.clarification_history = base.clarification_history
        /\ s.generation_attempt = base.generation_attempt
        /\ s.code = base.code /\ s.spec = base.spec /\ s.spec_approved = base.spec_approved
    BY ONLY <1>1, <1>3 DEF WellFormed, Fields
  <2>. QED
    BY <1>1, <2>1 DEF WellFormed
<1>5. Resting(s)
  BY <1>4 DEF Resting
<1>. QED
  BY ONLY <1>2, <1>3, <1>4, <1>5, ReturnStep

-------------------------------------------------------------------------------
LEMMA InvStep == Inv /\ [Next]_vars => Inv'
<1>. SUFFICES ASSUME Inv, [Next]_vars PROVE Inv'
  OBVIOUS
<1>1. CASE StartOrContinue
  BY <1>1, StartOrContinueStep
<1>2. CASE UserAnswers
  BY <1>2, AnswerClarificationStep DEF UserAnswers
<1>3. CASE ExtractContext
  BY <1>3, ExtractContextStep
<1>4. CASE SpecNode
  BY <1>4, SpecNodeStep
<1>5. CASE UpdateSpecNode
  BY <1>5, UpdateSpecNodeStep
<1>6. CASE ClarifierNode
  BY <1>6, ClarifierNodeStep
<1>7. CASE GenerateNode
  BY <1>7, GenerateNodeStep
<1>8. CASE ValidateNode
  BY <1>8, ValidateNodeStep
<1>9. CASE ClarificationNeededNode
  BY <1>9, ClarificationNeededStep
<1>10. CASE DoneNode
  BY <1>10, DoneStep
<1>11. CASE ErrorNode
  BY <1>11, ErrorStep
<1>12. CASE RunFails
  BY <1>12, RunFailsStep
<1>13. CASE UNCHANGED vars
  BY <1>13 DEF vars, Inv, WellFormed, Resting, Startable, Unapproved, Asks, Passed,
               BeforeReview, AfterReview
<1>. QED
  BY <1>1, <1>2, <1>3, <1>4, <1>5, <1>6, <1>7, <1>8, <1>9, <1>10, <1>11, <1>12, <1>13
     DEF Next, RunStep

\* The conjuncts above hold in every reachable state.
THEOREM InvAlways == Spec => []Inv
<1>. QED
  BY InvInit, InvStep, PTL DEF Spec

\* Code that a session hands out as done was accepted by the static checker
\* and ran to its end (validate_node, route_after_validate).
THEOREM DoneCodePassed == Spec => []DoneCodePassedBothStages
<1>1. Inv => DoneCodePassedBothStages
  BY DEF Inv, Resting, Passed, DoneCodePassedBothStages
<1>. QED
  BY <1>1, InvAlways, PTL

\* Code is generated from approved specifications only, which have a goal, a
\* return value and a settled input path (clarifier_node, generate_node).
THEOREM CodeIsApproved == Spec => []CodeComesFromApprovedSpec
<1>1. Inv => CodeComesFromApprovedSpec
  BY DEF Inv, WellFormed, AfterReview, Settled, CodeComesFromApprovedSpec
<1>. QED
  BY <1>1, InvAlways, PTL

\* A session that waits for an answer can be resumed: it has a question, the
\* one of its specification, and nothing of a finished run.
THEOREM WaitingIsResumable == Spec => []WaitingStateIsResumable
<1>1. Inv => WaitingStateIsResumable
  BY DEF Inv, Resting, Asks, Unapproved, WaitingStateIsResumable
<1>. QED
  BY <1>1, InvAlways, PTL

-------------------------------------------------------------------------------
(***************************************************************************)
(* The questions of a session.                                             *)
(***************************************************************************)

QuestionsOf(history) == [i \in DOMAIN history |-> history[i].question]

LEMMA QuestionsOfType ==
    ASSUME NEW h \in Seq(Entries)
    PROVE  /\ QuestionsOf(h) \in Seq(Questions)
           /\ Len(QuestionsOf(h)) = Len(h)
           /\ \A i \in 1..Len(h) : QuestionsOf(h)[i] = h[i].question
           /\ ToSet(QuestionsOf(h)) = Asked(h)
<1>1. /\ Len(h) \in Nat /\ DOMAIN h = 1..Len(h)
      /\ \A i \in 1..Len(h) : h[i] \in Entries
  OBVIOUS
<1>2. \A i \in 1..Len(h) : h[i].question \in Questions
  BY <1>1 DEF Entries
<1>3. PICK g : g = QuestionsOf(h)
  OBVIOUS
<1>4. g \in [1..Len(h) -> Questions] /\ \A i \in 1..Len(h) : g[i] = h[i].question
  BY <1>1, <1>2, <1>3 DEF QuestionsOf
<1>5. g \in Seq(Questions) /\ Len(g) = Len(h)
  BY ONLY <1>1, <1>4
<1>6. ToSet(g) = Asked(h)
  BY <1>1, <1>4 DEF ToSet, Asked
<1>. QED
  BY <1>3, <1>4, <1>5, <1>6

LEMMA QuestionsOfAppend ==
    ASSUME NEW h \in Seq(Entries), NEW e \in Entries
    PROVE  QuestionsOf(Append(h, e)) = Append(QuestionsOf(h), e.question)
<1>1. PICK k : k = Append(h, e)
  OBVIOUS
<1>2. PICK p, q : p = QuestionsOf(k) /\ q = QuestionsOf(h)
  OBVIOUS
<1>3. e.question \in Questions
  BY DEF Entries
<1>4. /\ k \in Seq(Entries) /\ Len(k) = Len(h) + 1
      /\ \A i \in 1..Len(h) : k[i] = h[i]
      /\ k[Len(h) + 1] = e
  BY <1>1
<1>5. /\ p \in Seq(Questions) /\ Len(p) = Len(k)
      /\ \A i \in 1..Len(k) : p[i] = k[i].question
      /\ q \in Seq(Questions) /\ Len(q) = Len(h)
      /\ \A i \in 1..Len(h) : q[i] = h[i].question
  BY <1>2, <1>4, QuestionsOfType
<1>6. PICK x, a : x = e.question /\ a = Append(q, x)
  OBVIOUS
<1>7. /\ a \in Seq(Questions) /\ Len(a) = Len(h) + 1
      /\ \A i \in 1..Len(h) : a[i] = q[i]
      /\ a[Len(h) + 1] = x
  BY ONLY <1>3, <1>5, <1>6
<1>8. \A i \in 1..(Len(h) + 1) : p[i] = a[i]
  BY ONLY <1>4, <1>5, <1>6, <1>7
<1>9. p = a
  BY ONLY <1>4, <1>5, <1>7, <1>8
<1>. QED
  BY <1>1, <1>2, <1>6, <1>9

LEMMA InvNoRepeats == Inv => QuestionsNeverRepeat
<1>. SUFFICES ASSUME Inv PROVE QuestionsNeverRepeat
  OBVIOUS
<1>1. PICK h : h = state.clarification_history
  OBVIOUS
<1>2. PICK g : g = QuestionsOf(h)
  OBVIOUS
<1>3. h \in Seq(Entries) /\ NoRepeats(h)
  BY <1>1 DEF Inv, WellFormed
<1>4. /\ g \in Seq(Questions) /\ Len(g) = Len(h)
      /\ \A i \in 1..Len(h) : g[i] = h[i].question
      /\ ToSet(g) = Asked(h)
  BY <1>2, <1>3, QuestionsOfType
<1>5. \A i, j \in 1..Len(g) : g[i] = g[j] => i = j
  BY ONLY <1>3, <1>4 DEF NoRepeats
<1>6. AskedQuestions = g
  BY <1>1, <1>2 DEF AskedQuestions, History, QuestionsOf
<1>7. CASE Pending = <<>>
  <2>1. g \o <<>> = g
    BY <1>4
  <2>. QED
    BY <1>4, <1>5, <1>6, <1>7, <2>1 DEF QuestionsNeverRepeat, IsInjective
<1>8. CASE Pending # <<>>
  <2>1. PICK q : q = state.clarification_question
    OBVIOUS
  <2>2. Pending = <<q>> /\ Asks(state)
    BY <1>8, <2>1 DEF Pending, Inv, AfterReview, Resting
  <2>3. q \in Questions /\ q \notin Asked(h)
    BY <1>1, <2>1, <2>2 DEF Asks
  <2>4. \A i \in 1..Len(g) : g[i] # q
    BY ONLY <1>4, <2>3 DEF ToSet
  <2>5. PICK a : a = g \o <<q>>
    OBVIOUS
  <2>6. /\ DOMAIN a = 1..(Len(g) + 1) /\ Len(g) \in Nat
        /\ \A i \in 1..Len(g) : a[i] = g[i]
        /\ a[Len(g) + 1] = q
    BY ONLY <1>4, <2>3, <2>5
  <2>7. \A i, j \in DOMAIN a : a[i] = a[j] => i = j
    BY ONLY <1>5, <2>4, <2>6
  <2>. QED
    BY <1>6, <2>2, <2>5, <2>7 DEF QuestionsNeverRepeat, IsInjective
<1>. QED
  BY <1>7, <1>8

\* No question is put to the user twice, however long the session is and
\* whatever the spec agent returns (_question_was_already_asked).
THEOREM NeverRepeats == Spec => []QuestionsNeverRepeat
<1>. QED
  BY InvAlways, InvNoRepeats, PTL

-------------------------------------------------------------------------------
(***************************************************************************)
(* The pipeline takes the steps of Dialogue and no others.                 *)
(***************************************************************************)

\* The session as its caller sees it, when it holds the PipelineState s.
RestingView(s) ==
    [phase |-> IF s.phase = "" THEN "new" ELSE s.phase,
     asked |-> QuestionsOf(s.clarification_history)
               \o (IF s.phase = "clarification_needed"
                   THEN <<s.clarification_question>> ELSE <<>>)]

\* The session as its caller sees it during a run, when h is its history.
RunningView(h) ==
    [phase |-> IF h = <<>> THEN "new" ELSE "clarification_needed",
     asked |-> QuestionsOf(h)]

LEMMA Views ==
    /\ node = "idle" => SessionView = RestingView(state)
    /\ node # "idle" /\ base.clarification_history = state.clarification_history
           => SessionView = RunningView(state.clarification_history)
BY DEF SessionView, RestingView, RunningView, Pending, AskedQuestions, History, QuestionsOf

LEMMA ViewsNext ==
    /\ node' = "idle" => SessionView' = RestingView(state')
    /\ node' # "idle" /\ base'.clarification_history = state'.clarification_history
           => SessionView' = RunningView(state'.clarification_history)
BY DEF SessionView, RestingView, RunningView, Pending, AskedQuestions, History, QuestionsOf

\* A run that comes back is a turn of the dialogue.
LEMMA ReturnIsTurn ==
    ASSUME Inv, node # "idle", NEW s, WellFormed(s), Resting(s), s.phase # "",
           s.clarification_history = state.clarification_history, Return(s)
    PROVE  D!Next
<1>1. PICK h : h = state.clarification_history
  OBVIOUS
<1>2. h \in Seq(Entries)
  BY <1>1 DEF Inv, WellFormed
<1>3. PICK g : g = QuestionsOf(h)
  OBVIOUS
<1>4. g \in Seq(Questions) /\ ToSet(g) = Asked(h)
  BY <1>2, <1>3, QuestionsOfType
<1>5. SessionView = RunningView(h)
  BY <1>1, Views DEF Inv
<1>6. PICK r : r = Response(s)
  OBVIOUS
<1>7. SessionView' = RestingView(r)
  BY <1>6, ViewsNext DEF Return
<1>8. /\ r.phase = s.phase /\ r.clarification_history = s.clarification_history
      /\ r.phase = "clarification_needed" => r = s
  <2>1. r = s \/ (s.phase = "error" /\ r = [s EXCEPT !.error = "diagnostics"])
    BY <1>6 DEF Response
  <2>. QED
    BY <2>1 DEF WellFormed, Fields
<1>9. /\ SessionView.phase \in {"new", "clarification_needed"}
      /\ SessionView.asked = g
  BY <1>3, <1>5 DEF RunningView
<1>10. r.phase \in {"clarification_needed", "done", "error"}
  BY <1>8 DEF Resting
<1>11. CASE r.phase = "clarification_needed"
  <2>1. PICK q : q = r.clarification_question
    OBVIOUS
  <2>2. q \in Questions \ ToSet(g)
    BY <1>1, <1>4, <1>8, <1>11, <2>1 DEF Resting, Asks
  <2>3. g \o <<q>> = Append(g, q)
    BY ONLY <1>4, <2>2
  <2>4. SessionView' = [phase |-> "clarification_needed", asked |-> Append(g, q)]
    BY <1>1, <1>3, <1>7, <1>8, <1>11, <2>1, <2>3 DEF RestingView
  <2>. QED
    BY <1>9, <2>2, <2>4 DEF D!Next, D!Turn, D!Terminal, D!Successors, D!Unasked, D!ToSet, ToSet
<1>12. CASE r.phase \in {"done", "error"}
  <2>1. g \o <<>> = g
    <3>1. g \in Seq(Questions)
      BY <1>4
    <3>. QED
      BY ONLY <3>1
  <2>2. SessionView' = [phase |-> r.phase, asked |-> g]
    BY <1>1, <1>3, <1>7, <1>8, <1>12, <2>1 DEF RestingView
  <2>. QED
    BY <1>9, <1>12, <2>2 DEF D!Next, D!Turn, D!Terminal, D!Successors
<1>. QED
  BY <1>10, <1>11, <1>12

\* A run that goes on does not show.
LEMMA StepIsHidden ==
    ASSUME Inv, node # "idle", NEW m, NEW s, m # "idle", Step(m, s),
           s.clarification_history = state.clarification_history
    PROVE  UNCHANGED SessionView
BY Views, ViewsNext DEF Inv, Step

LEMMA StartOrContinueShows ==
    Inv /\ StartOrContinue => UNCHANGED SessionView
<1>. SUFFICES ASSUME Inv, StartOrContinue PROVE UNCHANGED SessionView
  OBVIOUS
<1>1. WellFormed(state) /\ Resting(state) /\ node = "idle"
  BY StartOrContinueIs
<1>2. SessionView = RestingView(state)
  BY <1>1, Views
<1>3. CASE state.phase = "" /\ Invoke(InitialState)
  <2>1. /\ state.phase = "" /\ state.clarification_history = <<>>
    BY <1>1, <1>3 DEF Resting
  <2>2. Invoke(InitialState)
    BY <1>3
  <2>3. InitialState.clarification_history = <<>>
    BY DEF InitialState
  <2>4. SessionView' = RunningView(<<>>)
    BY <2>2, <2>3, ViewsNext DEF Invoke
  <2>5. QuestionsOf(<<>>) = <<>>
    BY DEF QuestionsOf
  <2>6. QuestionsOf(<<>>) \o <<>> = <<>>
    BY <2>5
  <2>. QED
    BY <1>2, <2>1, <2>4, <2>5, <2>6 DEF RestingView, RunningView
<1>4. CASE state.phase \in {"done", "error"} /\ Return(state)
  <2>1. Return(state)
    BY <1>4
  <2>2. SessionView' = RestingView(Response(state))
    BY <2>1, ViewsNext DEF Return
  <2>3. PICK r : r = Response(state)
    OBVIOUS
  <2>4. r = state \/ r = [state EXCEPT !.error = "diagnostics"]
    BY <2>3 DEF Response
  <2>5. r.phase = state.phase /\ r.clarification_history = state.clarification_history
    BY <1>1, <2>4 DEF WellFormed, Fields
  <2>. QED
    BY <1>2, <1>4, <2>2, <2>3, <2>5 DEF RestingView
<1>5. CASE \E code \in {"INVALID_ARGUMENT", "FAILED_PRECONDITION"} : Refuse(code)
  <2>1. UNCHANGED <<state, base, node>>
    BY <1>5 DEF Refuse
  <2>. QED
    BY <1>1, <1>2, <2>1, ViewsNext
<1>. QED
  BY <1>3, <1>4, <1>5, StartOrContinueIs

\* The answered question was already visible.
LEMMA AnswerShows ==
    ASSUME Inv, NEW answer \in Answers, AnswerClarification(answer)
    PROVE  UNCHANGED SessionView
<1>1. WellFormed(state) /\ Resting(state) /\ node = "idle"
  BY AnswerClarificationIs
<1>2. SessionView = RestingView(state)
  BY <1>1, Views
<1>3. CASE /\ state.phase = "clarification_needed" /\ Asks(state)
           /\ Invoke(Resumed(state, answer))
  <2>1. PICK h : h = state.clarification_history
    OBVIOUS
  <2>2. PICK e : e = [question |-> state.clarification_question,
                      answer   |-> answer,
                      target   |-> state.spec.clarification_target]
    OBVIOUS
  <2>3. h \in Seq(Entries) /\ e \in Entries
    BY <1>1, <1>3, <2>1, <2>2 DEF WellFormed, Resting, Asks, Entries
  <2>4. PICK k : k = Append(h, e)
    OBVIOUS
  <2>5. k # <<>>
    BY <2>3, <2>4
  <2>6. Invoke(Resumed(state, answer))
    BY <1>3
  <2>7. Resumed(state, answer).clarification_history = k
    BY <1>1, <2>1, <2>2, <2>4 DEF Resumed, WellFormed, Fields
  <2>8. SessionView' = RunningView(k)
    BY <2>6, <2>7, ViewsNext DEF Invoke
  <2>9. PICK g, q : g = QuestionsOf(h) /\ q = state.clarification_question
    OBVIOUS
  <2>10. g \in Seq(Questions) /\ q \in Questions
    BY <1>1, <1>3, <2>3, <2>9, QuestionsOfType DEF Resting, Asks
  <2>11. QuestionsOf(k) = Append(g, q)
    BY <2>2, <2>3, <2>4, <2>9, QuestionsOfAppend
  <2>12. g \o <<q>> = Append(g, q)
    BY ONLY <2>10
  <2>. QED
    BY <1>2, <1>3, <2>1, <2>5, <2>8, <2>9, <2>11, <2>12 DEF RestingView, RunningView
<1>4. CASE \E code \in {"INVALID_ARGUMENT", "FAILED_PRECONDITION"} : Refuse(code)
  <2>1. UNCHANGED <<state, base, node>>
    BY <1>4 DEF Refuse
  <2>. QED
    BY <1>1, <1>2, <2>1, ViewsNext
<1>. QED
  BY <1>3, <1>4, AnswerClarificationIs

LEMMA RunStepShows ==
    ASSUME Inv, RunStep
    PROVE  D!Next \/ UNCHANGED SessionView
<1>1. CASE ExtractContext
  <2>1. node # "idle" /\ Step(RouteEntry(state), state) /\ RouteEntry(state) # "idle"
    BY <1>1 DEF ExtractContext, RouteEntry
  <2>. QED
    BY ONLY Inv, <2>1, StepIsHidden
<1>2. CASE SpecNode
  <2>1. PICK spec : Step("clarifier", [state EXCEPT !.spec = spec])
    BY <1>2 DEF SpecNode
  <2>2. PICK s : s = [state EXCEPT !.spec = spec]
    OBVIOUS
  <2>3. node # "idle" /\ s.clarification_history = state.clarification_history
    BY <1>2, <2>2 DEF SpecNode, Inv, WellFormed, Fields
  <2>. QED
    BY ONLY Inv, <2>1, <2>2, <2>3, StepIsHidden
<1>3. CASE UpdateSpecNode
  <2>1. PICK spec : Step("clarifier", UpdatedSpec(state, spec))
    BY <1>3 DEF UpdateSpecNode
  <2>2. PICK s : s = UpdatedSpec(state, spec)
    OBVIOUS
  <2>3. node # "idle" /\ s.clarification_history = state.clarification_history
    BY <1>3, <2>2 DEF UpdateSpecNode, UpdatedSpec, Inv, WellFormed, Fields
  <2>. QED
    BY ONLY Inv, <2>1, <2>2, <2>3, StepIsHidden
<1>4. CASE ClarifierNode
  <2>1. /\ node # "idle" /\ Startable(state) /\ state.clarifying = FALSE
    BY <1>4 DEF ClarifierNode, Inv, BeforeReview
  <2>2. PICK spec, r : /\ Evaluated(spec) /\ r = Clarified(state, spec)
                       /\ Step(RouteAfterClarifier(r), r)
    <3>1. PICK c : Step(RouteAfterClarifier(Clarified(state,
                            ReevaluateSpec(state.spec, request, context,
                                           state.clarification_history, c))),
                        Clarified(state, ReevaluateSpec(state.spec, request, context,
                                                        state.clarification_history, c)))
      BY <1>4 DEF ClarifierNode
    <3>2. Evaluated(ReevaluateSpec(state.spec, request, context,
                                   state.clarification_history, c))
      BY ONLY EvaluateSpecEvaluated DEF ReevaluateSpec
    <3>. QED
      BY <3>1, <3>2
  <2>3. Reviewed(state, spec, r)
    BY ONLY <2>1, <2>2, ClarifiedIs
  <2>4. /\ r.clarification_history = state.clarification_history
        /\ RouteAfterClarifier(r) # "idle"
    BY <2>3 DEF Reviewed
  <2>. QED
    BY ONLY Inv, <2>1, <2>2, <2>4, StepIsHidden
<1>5. CASE GenerateNode
  <2>1. PICK code : Step("validate", [state EXCEPT !.code = code,
                                                   !.generation_attempt = @ + 1])
    BY <1>5 DEF GenerateNode
  <2>2. PICK s : s = [state EXCEPT !.code = code, !.generation_attempt = @ + 1]
    OBVIOUS
  <2>3. node # "idle" /\ s.clarification_history = state.clarification_history
    BY <1>5, <2>2 DEF GenerateNode, Inv, WellFormed, Fields
  <2>. QED
    BY ONLY Inv, <2>1, <2>2, <2>3, StepIsHidden
<1>6. CASE ValidateNode
  <2>1. PICK s, v :
            /\ s = [state EXCEPT !.validation_success = v.success,
                                 !.validation_output = v.output,
                                 !.validation_error = v.error]
            /\ Step(RouteAfterValidate(s), s)
    BY <1>6 DEF ValidateNode
  <2>2. /\ node # "idle" /\ s.clarification_history = state.clarification_history
        /\ RouteAfterValidate(s) # "idle"
    BY <1>6, <2>1 DEF ValidateNode, RouteAfterValidate, Inv, WellFormed, Fields
  <2>. QED
    BY ONLY Inv, <2>1, <2>2, StepIsHidden
<1>7. CASE ClarificationNeededNode
  <2>1. node # "idle" /\ WellFormed(state) /\ Asks(state)
    BY <1>7 DEF ClarificationNeededNode, Inv, AfterReview
  <2>2. PICK s : s = [state EXCEPT !.phase = "clarification_needed"]
    OBVIOUS
  <2>3. Return(s)
    BY <1>7, <2>2 DEF ClarificationNeededNode
  <2>4. /\ DOMAIN s = Fields /\ s.phase = "clarification_needed"
        /\ s.clarification_history = state.clarification_history
        /\ s.clarification_question = state.clarification_question
        /\ s.clarification_answer = state.clarification_answer
        /\ s.clarifying = state.clarifying
        /\ s.generation_attempt = state.generation_attempt
        /\ s.code = state.code /\ s.spec = state.spec
        /\ s.spec_approved = state.spec_approved /\ s.error = state.error
    BY ONLY <2>1, <2>2 DEF WellFormed, Fields
  <2>5. WellFormed(s) /\ Resting(s) /\ s.phase # ""
    BY <2>1, <2>4 DEF WellFormed, Resting, Asks, Unapproved
  <2>. QED
    BY ONLY Inv, <2>1, <2>3, <2>4, <2>5, ReturnIsTurn
<1>8. CASE DoneNode
  <2>1. node # "idle" /\ WellFormed(state) /\ Passed(state)
    BY <1>8 DEF DoneNode, Inv, AfterReview
  <2>2. PICK s : s = [state EXCEPT !.phase = "done"]
    OBVIOUS
  <2>3. Return(s)
    BY <1>8, <2>2 DEF DoneNode
  <2>4. /\ DOMAIN s = Fields /\ s.phase = "done"
        /\ s.clarification_history = state.clarification_history
        /\ s.generation_attempt = state.generation_attempt
        /\ s.code = state.code /\ s.spec = state.spec
        /\ s.spec_approved = state.spec_approved
    BY ONLY <2>1, <2>2 DEF WellFormed, Fields
  <2>5. WellFormed(s) /\ Resting(s) /\ s.phase # ""
    BY <2>1, <2>4 DEF WellFormed, Resting, Passed
  <2>. QED
    BY ONLY Inv, <2>1, <2>3, <2>4, <2>5, ReturnIsTurn
<1>9. CASE ErrorNode
  <2>1. node # "idle" /\ WellFormed(state)
    BY <1>9 DEF ErrorNode, Inv
  <2>2. PICK s, e : s = [state EXCEPT !.phase = "error", !.error = e] /\ Return(s)
    BY <1>9 DEF ErrorNode
  <2>3. /\ DOMAIN s = Fields /\ s.phase = "error"
        /\ s.clarification_history = state.clarification_history
        /\ s.generation_attempt = state.generation_attempt
        /\ s.code = state.code /\ s.spec = state.spec
        /\ s.spec_approved = state.spec_approved
    BY ONLY <2>1, <2>2 DEF WellFormed, Fields
  <2>4. WellFormed(s) /\ Resting(s) /\ s.phase # ""
    BY <2>1, <2>3 DEF WellFormed, Resting
  <2>. QED
    BY ONLY Inv, <2>1, <2>2, <2>3, <2>4, ReturnIsTurn
<1>10. CASE RunFails
  <2>1. /\ node # "idle" /\ WellFormed(base)
        /\ base.clarification_history = state.clarification_history
    BY <1>10 DEF RunFails, Inv, Startable
  <2>2. PICK s, text : s = [base EXCEPT !.phase = "error", !.error = text] /\ Return(s)
    BY <1>10 DEF RunFails
  <2>3. /\ DOMAIN s = Fields /\ s.phase = "error"
        /\ s.clarification_history = base.clarification_history
        /\ s.generation_attempt = base.generation_attempt
        /\ s.code = base.code /\ s.spec = base.spec
        /\ s.spec_approved = base.spec_approved
    BY ONLY <2>1, <2>2 DEF WellFormed, Fields
  <2>4. WellFormed(s) /\ Resting(s) /\ s.phase # ""
    BY <2>1, <2>3 DEF WellFormed, Resting
  <2>. QED
    BY ONLY Inv, <2>1, <2>2, <2>3, <2>4, ReturnIsTurn
<1>. QED
  BY <1>1, <1>2, <1>3, <1>4, <1>5, <1>6, <1>7, <1>8, <1>9, <1>10 DEF RunStep

\* Every session is one that Dialogue allows: a call, however the run inside it
\* goes and fails, is one turn that asks a new question or ends the session,
\* and an ended session stays as it is.  (What is left of ImplementsDialogue
\* is its fairness.)
THEOREM StepsOfDialogue == Spec => D!Init /\ [][D!Next]_SessionView
<1>1. Init => D!Init
  <2>. SUFFICES ASSUME Init PROVE D!Init
    OBVIOUS
  <2>1. node = "idle" /\ state.phase = "" /\ state.clarification_history = <<>>
    BY InitialStateStartable DEF Init
  <2>2. QuestionsOf(<<>>) = <<>> /\ QuestionsOf(<<>>) \o <<>> = <<>>
    BY DEF QuestionsOf
  <2>3. SessionView = [phase |-> "new", asked |-> <<>>]
    BY <2>1, <2>2, Views DEF RestingView
  <2>. QED
    BY <2>3 DEF D!Init, D!NewDialogue
<1>2. Inv /\ [Next]_vars => [D!Next]_SessionView
  <2>. SUFFICES ASSUME Inv, [Next]_vars PROVE D!Next \/ UNCHANGED SessionView
    OBVIOUS
  <2>1. CASE StartOrContinue
    BY <2>1, StartOrContinueShows
  <2>2. CASE UserAnswers
    BY <2>2, AnswerShows DEF UserAnswers
  <2>3. CASE RunStep
    BY <2>3, RunStepShows
  <2>4. CASE UNCHANGED vars
    BY <2>4 DEF vars, SessionView, AskedQuestions, Pending, History
  <2>. QED
    BY <2>1, <2>2, <2>3, <2>4 DEF Next
<1>. QED
  BY <1>1, <1>2, InvAlways, PTL DEF Spec

-------------------------------------------------------------------------------
(***************************************************************************)
(* The type invariant.                                                     *)
(***************************************************************************)

Typed ==
    /\ TypeOK
    /\ node = "clarifier" => state.spec \in NormalizedSpecs

LEMMA EntriesAreHistoryEntries == Seq(Entries) \subseteq Seq(HistoryEntries)
<1>1. Entries \subseteq HistoryEntries
  BY PipelineAssumption DEF Entries, HistoryEntries
<1>. QED
  BY <1>1

LEMMA TypedInit == Init => Typed
<1>. SUFFICES ASSUME Init PROVE Typed
  OBVIOUS
<1>1. <<>> \in Seq(HistoryEntries)
  OBVIOUS
<1>2. InitialState \in States
  BY ONLY <1>1 DEF InitialState, States, Phases
<1>3. UnstartedState \in States
  <2>1. "" \in Phases
    BY DEF Phases
  <2>. QED
    BY ONLY <1>2, <2>1 DEF UnstartedState, States
<1>. QED
  BY <1>3 DEF Init, Typed, TypeOK, Nodes

LEMMA ReturnTyped ==
    ASSUME TypeOK, NEW s \in States, Return(s)
    PROVE  Typed'
<1>1. Response(s) \in States
  <2>1. "diagnostics" \in Errors
    BY DEF Errors
  <2>2. [s EXCEPT !.error = "diagnostics"] \in States
    BY ONLY <2>1, s \in States DEF States
  <2>. QED
    BY <2>2 DEF Response
<1>. QED
  BY <1>1 DEF Return, TypeOK, Typed

LEMMA InvokeTyped ==
    ASSUME TypeOK, NEW s \in States, Invoke(s)
    PROVE  Typed'
  BY DEF Invoke, TypeOK, Typed, Nodes

LEMMA StepTyped ==
    ASSUME TypeOK, NEW m \in Nodes, NEW s \in States, Step(m, s),
           m = "clarifier" => s.spec \in NormalizedSpecs
    PROVE  Typed'
  BY DEF Step, TypeOK, Typed

LEMMA RefuseTyped ==
    ASSUME Typed, NEW code \in {"INVALID_ARGUMENT", "FAILED_PRECONDITION"}, Refuse(code)
    PROVE  Typed'
  BY DEF Refuse, Typed, TypeOK

LEMMA StartOrContinueTyped == Inv /\ Typed /\ StartOrContinue => Typed'
<1>. SUFFICES ASSUME Inv, Typed, StartOrContinue PROVE Typed'
  OBVIOUS
<1>1. TypeOK /\ state \in States
  BY DEF Typed, TypeOK
<1>2. InitialState \in States
  <2>1. <<>> \in Seq(HistoryEntries)
    OBVIOUS
  <2>. QED
    BY ONLY <2>1 DEF InitialState, States, Phases
<1>. QED
  BY <1>1, <1>2, StartOrContinueIs, InvokeTyped, ReturnTyped, RefuseTyped

LEMMA AnswerTyped ==
    ASSUME Inv, Typed, NEW answer \in Answers, AnswerClarification(answer)
    PROVE  Typed'
<1>1. TypeOK /\ state \in States
  BY DEF Typed, TypeOK
<1>2. CASE Asks(state) /\ Invoke(Resumed(state, answer))
  <2>1. Asks(state) /\ Invoke(Resumed(state, answer))
    BY <1>2
  <2>2. PICK e : e = [question |-> state.clarification_question, answer |-> answer,
                      target |-> state.spec.clarification_target]
    OBVIOUS
  <2>3. e \in HistoryEntries
    BY <2>1, <2>2, PipelineAssumption DEF Asks, HistoryEntries
  <2>4. PICK h : h = Append(state.clarification_history, e)
    OBVIOUS
  <2>5. h \in Seq(HistoryEntries)
    <3>1. state.clarification_history \in Seq(HistoryEntries)
      BY <1>1 DEF States
    <3>. QED
      BY <2>3, <2>4, <3>1
  <2>6. PICK s : s = Resumed(state, answer)
    OBVIOUS
  <2>7. s = [state EXCEPT !.clarification_history = h,
                          !.clarification_answer = answer,
                          !.clarifying = TRUE,
                          !.phase = "running"]
    BY <1>1, <2>2, <2>4, <2>6 DEF Resumed, States
  <2>8. "running" \in Phases
    BY DEF Phases
  <2>9. s \in States
    BY ONLY <1>1, <2>5, <2>7, <2>8, answer \in Answers DEF States
  <2>. QED
    BY ONLY <1>1, <2>1, <2>6, <2>9, InvokeTyped
<1>. QED
  BY <1>2, AnswerClarificationIs, RefuseTyped

\* What spec and update_spec get from the spec agent.
LEMMA SpecAgentResultsAre ==
    ASSUME Inv, TypeOK, NEW spec \in SpecAgentResults(state.clarification_history)
    PROVE  /\ spec \in NormalizedSpecs
           /\ AnswersSettle(spec, state.clarification_history)
<1>1. /\ state.clarification_history \in Seq(Entries)
      /\ context \in Contexts
  BY PipelineAssumption DEF Inv, WellFormed, TypeOK
<1>2. [goal |-> Empty, return_value |-> Empty, input_path |-> Empty] \in RawSpecs
  BY TextsAssumption DEF RawSpecs
<1>. DEFINE Results(raw, failed) ==
                {EvaluateSpec(raw, failed, request, context, state.clarification_history, c) :
                    c \in Candidates(context)}
<1>3. ASSUME NEW raw \in RawSpecs, NEW failed \in BOOLEAN, spec \in Results(raw, failed)
      PROVE  /\ spec \in NormalizedSpecs
             /\ AnswersSettle(spec, state.clarification_history)
  <2>1. PICK c \in Candidates(context) :
            spec = EvaluateSpec(raw, failed, request, context, state.clarification_history, c)
    BY <1>3
  <2>2. raw \in RawSpecs /\ c \in Candidates(context) /\ failed \in BOOLEAN
    OBVIOUS
  <2>. QED
    BY ONLY <1>1, <2>1, <2>2, EvaluateSpecType, EvaluateSpecSettles
<1>. DEFINE Parsed(raw) == Results(raw, FALSE)
            Unparsed == Results([goal |-> Empty, return_value |-> Empty,
                                 input_path |-> Empty], TRUE)
<1>4. PICK family, rest :
          /\ family = {Parsed(raw) : raw \in SpecAgentOutputs} /\ rest = Unparsed
          /\ spec \in rest \union UNION family
  BY DEF SpecAgentResults
<1>5. (\E results \in family : spec \in results) \/ spec \in rest
  BY ONLY <1>4
<1>6. SpecAgentOutputs \subseteq RawSpecs /\ FALSE \in BOOLEAN /\ TRUE \in BOOLEAN
  BY PipelineAssumption
<1>7. CASE \E results \in family : spec \in results
  <2>1. PICK raw \in SpecAgentOutputs : spec \in Parsed(raw)
    BY <1>4, <1>7
  <2>2. raw \in RawSpecs
    BY <1>6
  <2>. HIDE DEF Results
  <2>. QED
    BY ONLY <1>3, <1>6, <2>1, <2>2 DEF Parsed
<1>8. CASE spec \in rest
  <2>1. spec \in Unparsed
    BY <1>4, <1>8
  <2>. HIDE DEF Results
  <2>. QED
    BY ONLY <1>2, <1>3, <1>6, <2>1 DEF Unparsed
<1>. QED
  BY ONLY <1>5, <1>7, <1>8

LEMMA SpecNodeTyped == Inv /\ Typed /\ SpecNode => Typed'
<1>. SUFFICES ASSUME Inv, Typed, SpecNode PROVE Typed'
  OBVIOUS
<1>1. TypeOK /\ state \in States
  BY DEF Typed, TypeOK
<1>2. PICK spec \in SpecAgentResults(state.clarification_history) :
          Step("clarifier", [state EXCEPT !.spec = spec])
  BY DEF SpecNode
<1>3. spec \in NormalizedSpecs
  BY <1>1, SpecAgentResultsAre
<1>4. PICK s : s = [state EXCEPT !.spec = spec]
  OBVIOUS
<1>5. s \in States /\ s.spec = spec
  BY ONLY <1>1, <1>3, <1>4 DEF States
<1>6. "clarifier" \in Nodes
  BY DEF Nodes
<1>. QED
  BY ONLY <1>1, <1>2, <1>3, <1>4, <1>5, <1>6, StepTyped

LEMMA UpdateSpecNodeTyped == Inv /\ Typed /\ UpdateSpecNode => Typed'
<1>. SUFFICES ASSUME Inv, Typed, UpdateSpecNode PROVE Typed'
  OBVIOUS
<1>1. TypeOK /\ state \in States
  BY DEF Typed, TypeOK
<1>2. PICK spec \in SpecAgentResults(state.clarification_history) :
          Step("clarifier", UpdatedSpec(state, spec))
  BY DEF UpdateSpecNode
<1>3. spec \in NormalizedSpecs
  BY <1>1, SpecAgentResultsAre
<1>4. PICK s : s = UpdatedSpec(state, spec)
  OBVIOUS
<1>5. s \in States /\ s.spec = spec
  BY ONLY <1>1, <1>3, <1>4 DEF States, UpdatedSpec
<1>6. "clarifier" \in Nodes
  BY DEF Nodes
<1>. QED
  BY ONLY <1>1, <1>2, <1>3, <1>4, <1>5, <1>6, StepTyped

\* What the clarifier makes of the specification before it.
LEMMA ReevaluatedIs ==
    ASSUME Inv, Typed, node = "clarifier", NEW c \in Candidates(context), NEW spec,
           spec = ReevaluateSpec(state.spec, request, context,
                                 state.clarification_history, c)
    PROVE  /\ spec \in NormalizedSpecs
           /\ AnswersSettle(spec, state.clarification_history)
<1>1. /\ state.clarification_history \in Seq(Entries)
      /\ context \in Contexts
  BY PipelineAssumption DEF Inv, WellFormed, Typed, TypeOK
<1>2. PICK raw : raw = [goal |-> state.spec.goal, return_value |-> state.spec.return_value,
                        input_path |-> state.spec.input_path]
  OBVIOUS
<1>3. PICK failed : failed = state.spec.spec_parse_failed
  OBVIOUS
<1>4. raw \in RawSpecs /\ failed \in BOOLEAN
  BY <1>2, <1>3 DEF Typed, NormalizedSpecs, RawSpecs
<1>5. spec = EvaluateSpec(raw, failed, request, context, state.clarification_history, c)
  BY ONLY <1>2, <1>3, spec = ReevaluateSpec(state.spec, request, context,
                                            state.clarification_history, c)
     DEF ReevaluateSpec
<1>. QED
  BY ONLY <1>1, <1>4, <1>5, c \in Candidates(context), EvaluateSpecType, EvaluateSpecSettles

LEMMA ClarifiedType ==
    ASSUME NEW s \in States, NEW spec \in NormalizedSpecs, Evaluated(spec)
    PROVE  Clarified(s, spec) \in States
<1>. DEFINE decision == ClarifierDecision(spec, s.clarification_history)
<1>1. PICK q : q = IF decision = "question" THEN spec.clarification_question ELSE None
  OBVIOUS
<1>2. q \in Questions \union {None}
  BY <1>1 DEF ClarifierDecision, Evaluated
<1>3. PICK a, b : a = (decision = "question") /\ b = (decision = "approved")
  OBVIOUS
<1>9. a \in BOOLEAN /\ b \in BOOLEAN
  BY <1>3
<1>4. PICK reviewed : reviewed = [s EXCEPT !.spec = spec, !.is_ambiguous = a,
                                           !.clarification_question = q,
                                           !.spec_approved = b]
  OBVIOUS
<1>5. reviewed \in States
  BY ONLY <1>2, <1>9, <1>4, s \in States, spec \in NormalizedSpecs DEF States
<1>6. "error" \in Phases /\ "unresolved clarification" \in Errors
  BY DEF Phases, Errors
<1>7. [reviewed EXCEPT !.phase = "error", !.error = "unresolved clarification"] \in States
  BY ONLY <1>5, <1>6 DEF States
<1>8. Clarified(s, spec) =
          IF decision = "blocked"
          THEN [reviewed EXCEPT !.phase = "error", !.error = "unresolved clarification"]
          ELSE reviewed
  BY <1>1, <1>3, <1>4 DEF Clarified
<1>. QED
  BY ONLY <1>5, <1>7, <1>8

LEMMA ClarifierNodeTyped == Inv /\ Typed /\ ClarifierNode => Typed'
<1>. SUFFICES ASSUME Inv, Typed, ClarifierNode PROVE Typed'
  OBVIOUS
<1>1. TypeOK /\ state \in States /\ node = "clarifier"
  BY DEF Typed, TypeOK, ClarifierNode
<1>2. PICK c \in Candidates(context) :
          LET spec == ReevaluateSpec(state.spec, request, context,
                                     state.clarification_history, c)
              next == Clarified(state, spec)
          IN  Step(RouteAfterClarifier(next), next)
  BY DEF ClarifierNode
<1>3. PICK spec : spec = ReevaluateSpec(state.spec, request, context,
                                        state.clarification_history, c)
  OBVIOUS
<1>4. spec \in NormalizedSpecs /\ Evaluated(spec)
  <2>1. Evaluated(spec)
    BY ONLY <1>3, EvaluateSpecEvaluated DEF ReevaluateSpec
  <2>. QED
    BY <1>1, <1>3, <2>1, ReevaluatedIs
<1>5. PICK r : r = Clarified(state, spec)
  OBVIOUS
<1>6. r \in States
  BY ONLY <1>1, <1>4, <1>5, ClarifiedType
<1>7. Step(RouteAfterClarifier(r), r)
  BY <1>2, <1>3, <1>5
<1>8. RouteAfterClarifier(r) \in Nodes \ {"clarifier"}
  BY DEF RouteAfterClarifier, Nodes
<1>. QED
  BY ONLY <1>1, <1>6, <1>7, <1>8, StepTyped

LEMMA GenerateNodeTyped == Typed /\ GenerateNode => Typed'
<1>. SUFFICES ASSUME Typed, GenerateNode PROVE Typed'
  OBVIOUS
<1>1. TypeOK /\ state \in States
  BY DEF Typed, TypeOK
<1>2. PICK code \in Codes :
          Step("validate", [state EXCEPT !.code = code, !.generation_attempt = @ + 1])
  BY DEF GenerateNode
<1>3. PICK s : s = [state EXCEPT !.code = code, !.generation_attempt = @ + 1]
  OBVIOUS
<1>4. PICK n : n = state.generation_attempt + 1
  OBVIOUS
<1>5. n \in Nat
  BY <1>1, <1>4 DEF States
<1>6. s = [state EXCEPT !.code = code, !.generation_attempt = n]
  BY ONLY <1>1, <1>3, <1>4 DEF States
<1>7. s \in States
  BY ONLY <1>1, <1>5, <1>6, code \in Codes DEF States
<1>8. "validate" \in Nodes
  BY DEF Nodes
<1>. QED
  BY ONLY <1>1, <1>2, <1>3, <1>7, <1>8, StepTyped

LEMMA VerdictsType ==
    ASSUME NEW code, NEW v \in Verdicts(code)
    PROVE  v.success \in BOOLEAN /\ v.output \in Outputs /\ v.error \in Errors
<1>1. \A a \in BOOLEAN, o \in Outputs, e \in Errors :
          /\ Verdict(a, o, e).success \in BOOLEAN
          /\ Verdict(a, o, e).output \in Outputs
          /\ Verdict(a, o, e).error \in Errors
  BY DEF Verdict
<1>2. PICK a \in BOOLEAN, o \in Outputs, e \in Errors : v = Verdict(a, o, e)
  <2>1. {"", "violations", "stdout"} \subseteq Outputs
    BY DEF Outputs
  <2>2. {"", "checker unavailable", "static validation failed", "validator unavailable",
         "stderr"} \subseteq Errors
    BY DEF Errors
  <2>3. CASE v \in CheckerFailures(code)
    BY <2>1, <2>2, <2>3 DEF CheckerFailures
  <2>4. CASE v \in ValidatorVerdicts(code)
    BY <2>1, <2>2, <2>4 DEF ValidatorVerdicts
  <2>. QED
    BY <2>3, <2>4 DEF Verdicts
<1>. QED
  BY <1>1, <1>2

LEMMA ValidateNodeTyped == Typed /\ ValidateNode => Typed'
<1>. SUFFICES ASSUME Typed, ValidateNode PROVE Typed'
  OBVIOUS
<1>1. TypeOK /\ state \in States
  BY DEF Typed, TypeOK
<1>2. PICK v \in Verdicts(state.code) :
          LET next == [state EXCEPT !.validation_success = v.success,
                                    !.validation_output = v.output,
                                    !.validation_error = v.error]
          IN  Step(RouteAfterValidate(next), next)
  BY DEF ValidateNode
<1>3. PICK s : s = [state EXCEPT !.validation_success = v.success,
                                 !.validation_output = v.output,
                                 !.validation_error = v.error]
  OBVIOUS
<1>4. v.success \in BOOLEAN /\ v.output \in Outputs /\ v.error \in Errors
  BY VerdictsType
<1>5. s \in States
  BY ONLY <1>1, <1>3, <1>4 DEF States
<1>6. Step(RouteAfterValidate(s), s)
  BY <1>2, <1>3
<1>7. RouteAfterValidate(s) \in Nodes \ {"clarifier"}
  BY DEF RouteAfterValidate, Nodes
<1>. QED
  BY ONLY <1>1, <1>5, <1>6, <1>7, StepTyped

LEMMA ReturningTyped ==
    Typed /\ (ClarificationNeededNode \/ DoneNode \/ ErrorNode \/ RunFails) => Typed'
<1>. SUFFICES ASSUME Typed
              PROVE  ClarificationNeededNode \/ DoneNode \/ ErrorNode \/ RunFails => Typed'
  OBVIOUS
<1>1. TypeOK /\ state \in States /\ base \in States
  BY DEF Typed, TypeOK
<1>2. ASSUME NEW s \in States, NEW p \in Phases, NEW e \in Errors
      PROVE  [s EXCEPT !.phase = p] \in States /\ [s EXCEPT !.phase = p, !.error = e] \in States
  BY ONLY s \in States, p \in Phases, e \in Errors DEF States
<1>3. {"clarification_needed", "done", "error"} \subseteq Phases
  BY DEF Phases
<1>4. ASSUME ClarificationNeededNode \/ DoneNode PROVE Typed'
  BY <1>1, <1>2, <1>3, <1>4, ReturnTyped DEF ClarificationNeededNode, DoneNode, Errors
<1>5. ASSUME ErrorNode PROVE Typed'
  <2>1. PICK e : e = Or(state.validation_error, Or(state.error, "unknown error"))
    OBVIOUS
  <2>2. state.validation_error \in Errors \union {None} /\ state.error \in Errors \union {None}
    BY <1>1 DEF States
  <2>3. e \in Errors
    BY <2>1, <2>2 DEF Or, Present, Errors
  <2>. QED
    BY <1>1, <1>2, <1>3, <1>5, <2>1, <2>3, ReturnTyped DEF ErrorNode
<1>6. ASSUME RunFails PROVE Typed'
  <2>1. ExceptionTexts \subseteq Errors
    BY DEF ExceptionTexts, Errors
  <2>. QED
    BY <1>1, <1>2, <1>3, <1>6, <2>1, ReturnTyped DEF RunFails
<1>. QED
  BY <1>4, <1>5, <1>6

LEMMA TypedStep == Inv /\ Typed /\ [Next]_vars => Typed'
<1>. SUFFICES ASSUME Inv, Typed, [Next]_vars PROVE Typed'
  OBVIOUS
<1>1. CASE StartOrContinue
  BY <1>1, StartOrContinueTyped
<1>2. CASE UserAnswers
  BY <1>2, AnswerTyped DEF UserAnswers
<1>3. CASE ExtractContext
  <2>1. /\ TypeOK /\ state \in States /\ Step(RouteEntry(state), state)
        /\ RouteEntry(state) \in Nodes \ {"clarifier"}
    BY <1>3 DEF Typed, TypeOK, ExtractContext, RouteEntry, Nodes
  <2>. QED
    BY ONLY <2>1, StepTyped
<1>4. CASE SpecNode
  BY <1>4, SpecNodeTyped
<1>5. CASE UpdateSpecNode
  BY <1>5, UpdateSpecNodeTyped
<1>6. CASE ClarifierNode
  BY <1>6, ClarifierNodeTyped
<1>7. CASE GenerateNode
  BY <1>7, GenerateNodeTyped
<1>8. CASE ValidateNode
  BY <1>8, ValidateNodeTyped
<1>9. CASE ClarificationNeededNode \/ DoneNode \/ ErrorNode \/ RunFails
  BY <1>9, ReturningTyped
<1>10. CASE UNCHANGED vars
  BY <1>10 DEF vars, Typed, TypeOK
<1>. QED
  BY <1>1, <1>2, <1>3, <1>4, <1>5, <1>6, <1>7, <1>8, <1>9, <1>10 DEF Next, RunStep

\* Every PipelineState that the service returns is one that it accepts again
\* (PipelineState, _make_initial_state, the nodes of the graph).
THEOREM PipelineTypeCorrect == Spec => []TypeOK
<1>1. Spec => []Typed
  BY TypedInit, TypedStep, InvAlways, PTL DEF Spec
<1>2. Typed => TypeOK
  BY DEF Typed
<1>. QED
  BY <1>1, <1>2, PTL

-------------------------------------------------------------------------------
(***************************************************************************)
(* What has been settled.                                                  *)
(***************************************************************************)

\* Nothing has been validated yet.
Undiagnosed(s) == s.validation_output = None /\ s.validation_error = None

\* The specification agrees with the answers, unless there is none, or the
\* state is the one a failed run was started with.
AnswersCount(s) ==
    s.spec # None /\ s.error \notin ExceptionTexts =>
        AnswersSettle(s.spec, s.clarification_history)

\* A PipelineState that a caller may hold.
RestSettled(s) ==
    /\ s.phase = "clarification_needed" => Undiagnosed(s)
    /\ Response(s) = s
    /\ AnswersCount(s)

Settling ==
    /\ node # "idle" => Undiagnosed(base)
    /\ node \in {"extract_context", "spec", "update_spec", "clarifier", "clarification_needed"}
           => Undiagnosed(state)
    /\ node \notin {"idle", "extract_context", "spec", "update_spec"}
           => AnswersSettle(state.spec, state.clarification_history)
    /\ node = "idle" => RestSettled(state)

LEMMA SettlingInit == Init => Settling
<1>. SUFFICES ASSUME Init PROVE Settling
  OBVIOUS
<1>1. /\ node = "idle" /\ state = UnstartedState
      /\ state.phase = "" /\ state.spec = None
  BY DEF Init, UnstartedState, InitialState
<1>2. Response(state) = state
  BY <1>1 DEF Response
<1>. QED
  BY <1>1, <1>2 DEF Settling, RestSettled, AnswersCount

\* _state_to_response fills in the error once.
LEMMA ResponseIs ==
    ASSUME NEW s, DOMAIN s = Fields
    PROVE  /\ Response(Response(s)) = Response(s)
           /\ \/ Response(s) = s
              \/ /\ ~Present(s.error) /\ ~Undiagnosed(s) /\ s.phase = "error"
                 /\ Response(s).error = "diagnostics" /\ Response(s).phase = s.phase
                 /\ Response(s).spec = s.spec
                 /\ Response(s).clarification_history = s.clarification_history
<1>1. CASE Response(s) = s
  BY <1>1
<1>2. CASE Response(s) # s
  <2>1. PICK r : r = [s EXCEPT !.error = "diagnostics"]
    OBVIOUS
  <2>2. /\ Response(s) = r
        /\ s.phase = "error" /\ ~Present(s.error)
        /\ Present(s.validation_error) \/ Present(s.validation_output)
    BY <1>2, <2>1 DEF Response
  <2>3. /\ r.error = "diagnostics" /\ r.phase = s.phase /\ r.spec = s.spec
        /\ r.clarification_history = s.clarification_history
    BY <2>1 DEF Fields
  <2>4. Response(r) = r
    <3>1. r.phase = "error" /\ (~Present(r.error) => [r EXCEPT !.error = "diagnostics"] = r)
      <4>1. [r EXCEPT !.error = "diagnostics"] = r
        BY <2>1, <2>3
      <4>. QED
        BY <2>2, <2>3, <4>1
    <3>. QED
      BY <3>1 DEF Response
  <2>. QED
    BY <2>2, <2>3, <2>4 DEF Present, Undiagnosed
<1>. QED
  BY <1>1, <1>2

\* A run that ends: with answers that count, or as it was started.
LEMMA ReturnSettles ==
    ASSUME NEW s, DOMAIN s = Fields, Return(s),
           s.phase = "clarification_needed" => Undiagnosed(s),
           \/ AnswersSettle(s.spec, s.clarification_history)
           \/ Undiagnosed(s) /\ s.error \in ExceptionTexts
    PROVE  Settling'
<1>1. PICK r : r = Response(s)
  OBVIOUS
<1>2. RestSettled(r)
  <2>1. Response(r) = r /\ (r.phase = "clarification_needed" => Undiagnosed(r))
    BY <1>1, ResponseIs
  <2>2. AnswersCount(r)
    BY <1>1, ResponseIs DEF AnswersCount
  <2>. QED
    BY <2>1, <2>2 DEF RestSettled
<1>3. state' = r /\ node' = "idle"
  BY <1>1 DEF Return
<1>4. RestSettled(state)'
  BY <1>2, <1>3 DEF RestSettled, AnswersCount, AnswersSettle, Undiagnosed, Response
<1>. QED
  BY <1>3, <1>4 DEF Settling

\* A run that starts.
LEMMA InvokeSettles ==
    ASSUME NEW s, Undiagnosed(s), Invoke(s)
    PROVE  Settling'
  BY DEF Invoke, Settling, Undiagnosed

\* A run that goes on.
LEMMA StepSettles ==
    ASSUME Settling, node # "idle", NEW s, NEW m, Step(m, s), m # "idle",
           m \in {"extract_context", "spec", "update_spec", "clarifier", "clarification_needed"}
               => Undiagnosed(s),
           m \notin {"extract_context", "spec", "update_spec"}
               => AnswersSettle(s.spec, s.clarification_history)
    PROVE  Settling'
<1>1. state' = s /\ node' = m /\ base' = base
  BY DEF Step
<1>2. AnswersSettle(state.spec, state.clarification_history)'
          <=> AnswersSettle(s.spec, s.clarification_history)
  BY <1>1 DEF AnswersSettle
<1>. QED
  BY <1>1, <1>2 DEF Settling, Undiagnosed

LEMMA RefuseSettles ==
    ASSUME Settling, NEW code, Refuse(code)
    PROVE  Settling'
  BY DEF Refuse, Settling, RestSettled, Undiagnosed, AnswersCount, AnswersSettle, Response

LEMMA StartOrContinueSettles == Inv /\ Settling /\ StartOrContinue => Settling'
<1>. SUFFICES ASSUME Inv, Settling, StartOrContinue PROVE Settling'
  OBVIOUS
<1>1. Resting(state) /\ DOMAIN state = Fields /\ RestSettled(state) /\ node = "idle"
  BY StartOrContinueIs DEF WellFormed, Settling
<1>2. CASE Invoke(InitialState)
  <2>2. Undiagnosed(InitialState)
    BY DEF Undiagnosed, InitialState
  <2>. QED
    BY ONLY <1>2, <2>2, InvokeSettles
<1>3. CASE Return(state)
  <2>2. state' = state /\ node' = node
    BY <1>1, <1>3 DEF Return, RestSettled
  <2>. QED
    BY <1>1, <2>2 DEF Settling, RestSettled, Undiagnosed, AnswersCount, AnswersSettle, Response
<1>. QED
  BY <1>2, <1>3, StartOrContinueIs, RefuseSettles

LEMMA AnswerSettles ==
    ASSUME Inv, Settling, NEW answer, AnswerClarification(answer)
    PROVE  Settling'
<1>1. DOMAIN state = Fields /\ RestSettled(state)
  BY AnswerClarificationIs DEF WellFormed, Settling
<1>2. CASE state.phase = "clarification_needed" /\ Invoke(Resumed(state, answer))
  <2>1. Invoke(Resumed(state, answer)) /\ Undiagnosed(state)
    BY <1>1, <1>2 DEF RestSettled
  <2>2. Undiagnosed(Resumed(state, answer))
    BY <1>1, <2>1 DEF Undiagnosed, Resumed, Fields
  <2>. QED
    BY ONLY <2>1, <2>2, InvokeSettles
<1>. QED
  BY <1>2, AnswerClarificationIs, RefuseSettles

\* The spec agent's result takes every answer into account.
LEMMA SpecNodeSettles == Inv /\ Typed /\ Settling /\ (SpecNode \/ UpdateSpecNode) => Settling'
<1>. SUFFICES ASSUME Inv, Typed, Settling, SpecNode \/ UpdateSpecNode PROVE Settling'
  OBVIOUS
<1>1. /\ DOMAIN state = Fields /\ node # "idle" /\ Undiagnosed(state) /\ TypeOK
  BY DEF Inv, WellFormed, Settling, Typed, SpecNode, UpdateSpecNode
<1>2. PICK spec \in SpecAgentResults(state.clarification_history) :
          \/ Step("clarifier", [state EXCEPT !.spec = spec])
          \/ Step("clarifier", UpdatedSpec(state, spec))
  BY DEF SpecNode, UpdateSpecNode
<1>3. AnswersSettle(spec, state.clarification_history)
  BY <1>1, SpecAgentResultsAre
<1>4. PICK s : /\ s = [state EXCEPT !.spec = spec] \/ s = UpdatedSpec(state, spec)
               /\ Step("clarifier", s)
  BY <1>2
<1>5. /\ s.spec = spec /\ s.clarification_history = state.clarification_history
      /\ s.validation_output = state.validation_output
      /\ s.validation_error = state.validation_error
  BY ONLY <1>1, <1>4 DEF UpdatedSpec, Fields
<1>6. Undiagnosed(s)
  BY <1>1, <1>5 DEF Undiagnosed
<1>. QED
  BY <1>1, <1>3, <1>4, <1>5, <1>6, StepSettles

LEMMA ClarifierNodeSettles == Inv /\ Typed /\ Settling /\ ClarifierNode => Settling'
<1>. SUFFICES ASSUME Inv, Typed, Settling, ClarifierNode PROVE Settling'
  OBVIOUS
<1>1. DOMAIN state = Fields /\ node = "clarifier" /\ Undiagnosed(state)
  BY DEF Inv, WellFormed, Settling, ClarifierNode
<1>2. PICK c \in Candidates(context) :
          LET spec == ReevaluateSpec(state.spec, request, context,
                                     state.clarification_history, c)
              next == Clarified(state, spec)
          IN  Step(RouteAfterClarifier(next), next)
  BY DEF ClarifierNode
<1>3. PICK spec : spec = ReevaluateSpec(state.spec, request, context,
                                        state.clarification_history, c)
  OBVIOUS
<1>4. AnswersSettle(spec, state.clarification_history)
  BY <1>1, <1>3, ReevaluatedIs
<1>5. PICK r : r = Clarified(state, spec)
  OBVIOUS
<1>6. /\ r.spec = spec /\ r.clarification_history = state.clarification_history
      /\ r.validation_output = state.validation_output
      /\ r.validation_error = state.validation_error
  BY ONLY <1>1, <1>5 DEF Clarified, Fields
<1>7. Undiagnosed(r)
  BY <1>1, <1>6 DEF Undiagnosed
<1>8. Step(RouteAfterClarifier(r), r)
  BY <1>2, <1>3, <1>5
<1>9. RouteAfterClarifier(r) # "idle"
  BY DEF RouteAfterClarifier
<1>. QED
  BY <1>1, <1>4, <1>6, <1>7, <1>8, <1>9, StepSettles

\* After the review the specification and the history do not change.
LEMMA GenerateAndValidateSettle ==
    Inv /\ Settling /\ (GenerateNode \/ ValidateNode) => Settling'
<1>. SUFFICES ASSUME Inv, Settling, GenerateNode \/ ValidateNode PROVE Settling'
  OBVIOUS
<1>1. /\ DOMAIN state = Fields /\ node # "idle"
      /\ AnswersSettle(state.spec, state.clarification_history)
  BY DEF Inv, WellFormed, Settling, GenerateNode, ValidateNode
<1>2. CASE GenerateNode
  <2>1. PICK code : Step("validate", [state EXCEPT !.code = code, !.generation_attempt = @ + 1])
    BY <1>2 DEF GenerateNode
  <2>2. PICK s : s = [state EXCEPT !.code = code, !.generation_attempt = @ + 1]
    OBVIOUS
  <2>3. s.spec = state.spec /\ s.clarification_history = state.clarification_history
    BY ONLY <1>1, <2>2 DEF Fields
  <2>. QED
    BY <1>1, <2>1, <2>2, <2>3, StepSettles
<1>3. CASE ValidateNode
  <2>1. PICK v, s : /\ s = [state EXCEPT !.validation_success = v.success,
                                         !.validation_output = v.output,
                                         !.validation_error = v.error]
                    /\ Step(RouteAfterValidate(s), s)
    BY <1>3 DEF ValidateNode
  <2>2. s.spec = state.spec /\ s.clarification_history = state.clarification_history
    BY ONLY <1>1, <2>1 DEF Fields
  <2>3. RouteAfterValidate(s) \in {"done", "generate", "error"}
    BY DEF RouteAfterValidate
  <2>. QED
    BY <1>1, <2>1, <2>2, <2>3, StepSettles
<1>. QED
  BY <1>2, <1>3

LEMMA ReturningSettles ==
    Inv /\ Settling /\ (ClarificationNeededNode \/ DoneNode \/ ErrorNode \/ RunFails)
        => Settling'
<1>. SUFFICES ASSUME Inv, Settling
              PROVE  ClarificationNeededNode \/ DoneNode \/ ErrorNode \/ RunFails => Settling'
  OBVIOUS
<1>1. /\ DOMAIN state = Fields
      /\ node # "idle" => DOMAIN base = Fields /\ Undiagnosed(base)
      /\ node \in {"clarification_needed", "done", "error"}
             => AnswersSettle(state.spec, state.clarification_history)
      /\ node = "clarification_needed" => Undiagnosed(state)
  BY DEF Inv, WellFormed, Startable, Settling
<1>2. ASSUME NEW p, p \in {"clarification_needed", "done"},
             node = p, Return([state EXCEPT !.phase = p])
      PROVE  Settling'
  <2>1. PICK s : s = [state EXCEPT !.phase = p]
    OBVIOUS
  <2>2. /\ DOMAIN s = Fields /\ s.phase = p
        /\ s.spec = state.spec /\ s.clarification_history = state.clarification_history
        /\ s.validation_output = state.validation_output
        /\ s.validation_error = state.validation_error
    BY ONLY <1>1, <2>1 DEF Fields
  <2>3. s.phase = "clarification_needed" => Undiagnosed(s)
    BY <1>1, <1>2, <2>2 DEF Undiagnosed
  <2>. QED
    BY <1>1, <1>2, <2>1, <2>2, <2>3, ReturnSettles
<1>3. ASSUME ErrorNode PROVE Settling'
  <2>1. PICK e, s : s = [state EXCEPT !.phase = "error", !.error = e] /\ Return(s)
    BY <1>3 DEF ErrorNode
  <2>2. /\ DOMAIN s = Fields /\ s.phase = "error"
        /\ s.spec = state.spec /\ s.clarification_history = state.clarification_history
    BY ONLY <1>1, <2>1 DEF Fields
  <2>. QED
    BY <1>1, <1>3, <2>1, <2>2, ReturnSettles DEF ErrorNode
<1>4. ASSUME RunFails PROVE Settling'
  <2>1. PICK text, s :
            /\ text \in ExceptionTexts
            /\ s = [base EXCEPT !.phase = "error", !.error = text] /\ Return(s)
    BY <1>4 DEF RunFails
  <2>2. DOMAIN base = Fields /\ Undiagnosed(base)
    BY <1>1, <1>4 DEF RunFails
  <2>3. /\ DOMAIN s = Fields /\ s.phase = "error" /\ s.error = text
        /\ s.validation_output = base.validation_output
        /\ s.validation_error = base.validation_error
    BY ONLY <2>1, <2>2 DEF Fields
  <2>4. Undiagnosed(s)
    BY <2>2, <2>3 DEF Undiagnosed
  <2>. QED
    BY <2>1, <2>3, <2>4, ReturnSettles
<1>. QED
  BY <1>2, <1>3, <1>4 DEF ClarificationNeededNode, DoneNode

LEMMA SettlingStep == Inv /\ Typed /\ Settling /\ [Next]_vars => Settling'
<1>. SUFFICES ASSUME Inv, Typed, Settling, [Next]_vars PROVE Settling'
  OBVIOUS
<1>1. CASE StartOrContinue
  BY <1>1, StartOrContinueSettles
<1>2. CASE UserAnswers
  BY <1>2, AnswerSettles DEF UserAnswers
<1>3. CASE ExtractContext
  <2>1. /\ node # "idle" /\ Step(RouteEntry(state), state) /\ Undiagnosed(state)
        /\ RouteEntry(state) \in {"spec", "update_spec"}
    BY <1>3 DEF ExtractContext, RouteEntry, Settling
  <2>. QED
    BY <2>1, StepSettles
<1>4. CASE SpecNode \/ UpdateSpecNode
  BY <1>4, SpecNodeSettles
<1>5. CASE ClarifierNode
  BY <1>5, ClarifierNodeSettles
<1>6. CASE GenerateNode \/ ValidateNode
  BY <1>6, GenerateAndValidateSettle
<1>7. CASE ClarificationNeededNode \/ DoneNode \/ ErrorNode \/ RunFails
  BY <1>7, ReturningSettles
<1>8. CASE UNCHANGED vars
  BY <1>8 DEF vars, Settling, RestSettled, Undiagnosed, AnswersCount, AnswersSettle, Response
<1>. QED
  BY <1>1, <1>2, <1>3, <1>4, <1>5, <1>6, <1>7, <1>8 DEF Next, RunStep

THEOREM SettlingAlways == Spec => [](Inv /\ Typed /\ Settling)
<1>1. Init => Inv /\ Typed /\ Settling
  BY InvInit, TypedInit, SettlingInit
<1>2. Inv /\ Typed /\ Settling /\ [Next]_vars => (Inv /\ Typed /\ Settling)'
  BY InvStep, TypedStep, SettlingStep
<1>. QED
  BY <1>1, <1>2, PTL DEF Spec

\* An answer that settled a blocker keeps it settled for the rest of the
\* session: no later specification is blocked on it, however many answers
\* there are and whatever the spec agent extracts in between
\* (_merge_clarification_history, evaluate_spec).
THEOREM SettledForGood == Spec => []SettledBlockersStaySettled
<1>1. Inv /\ Settling => SettledBlockersStaySettled
  BY DEF Inv, Nodes, Settling, RestSettled, AnswersCount, AnswersSettle,
         SettledBlockersStaySettled, SpecIsCurrent, History
<1>. QED
  BY <1>1, SettlingAlways, PTL

-------------------------------------------------------------------------------
(***************************************************************************)
(* The repair budget.                                                      *)
(***************************************************************************)

\* A run goes on until it is at a terminal node or fails.
LEMMA RunsEndAtTheirEnds ==
    ASSUME Inv, [Next]_vars, node # "idle", node' = "idle"
    PROVE  ClarificationNeededNode \/ DoneNode \/ ErrorNode \/ RunFails
<1>1. ~ StartOrContinue /\ ~ UserAnswers
  BY DEF StartOrContinue, UserAnswers, AnswerClarification
<1>2. ~ ExtractContext
  BY DEF ExtractContext, Step, RouteEntry
<1>3. ~ SpecNode /\ ~ UpdateSpecNode /\ ~ GenerateNode
  BY DEF SpecNode, UpdateSpecNode, GenerateNode, Step
<1>4. ~ ClarifierNode
  <2>1. \A s : RouteAfterClarifier(s) # "idle"
    BY DEF RouteAfterClarifier
  <2>. QED
    BY <2>1, Zenon DEF ClarifierNode, Step
<1>5. ~ ValidateNode
  <2>1. \A s : RouteAfterValidate(s) # "idle"
    BY DEF RouteAfterValidate
  <2>. QED
    BY <2>1, Zenon DEF ValidateNode, Step
<1>. QED
  BY <1>1, <1>2, <1>3, <1>4, <1>5 DEF Next, RunStep, vars

\* What a run leaves of the state it returns.
LEMMA Returned ==
    ASSUME NEW s, DOMAIN s = Fields, Return(s)
    PROVE  /\ state'.phase = s.phase
           /\ state'.generation_attempt = s.generation_attempt
           /\ Undiagnosed(s) => state'.error = s.error
<1>1. state' = Response(s)
  BY DEF Return
<1>2. CASE Response(s) = s
  BY <1>1, <1>2
<1>3. CASE Response(s) # s
  <2>1. PICK r : r = [s EXCEPT !.error = "diagnostics"]
    OBVIOUS
  <2>2. /\ state' = r
        /\ Present(s.validation_error) \/ Present(s.validation_output)
    BY <1>1, <1>3, <2>1 DEF Response
  <2>3. r.phase = s.phase /\ r.generation_attempt = s.generation_attempt
    BY ONLY <2>1, DOMAIN s = Fields DEF Fields
  <2>. QED
    BY <2>2, <2>3 DEF Present, Undiagnosed
<1>. QED
  BY <1>2, <1>3

LEMMA BudgetStep ==
    ASSUME Inv, Settling, [Next]_vars
    PROVE  [SpendsTheBudget]_vars
<1>1. state'.generation_attempt <= MAX_REPAIRS + 1
  <2>1. WellFormed(state)'
    BY InvStep DEF Inv
  <2>. QED
    BY <2>1, PipelineAssumption DEF WellFormed
<1>2. ASSUME GivesUpOnCode
      PROVE  \/ node = "error" /\ state'.generation_attempt = MAX_REPAIRS + 1
             \/ node = "generate" /\ state'.error \in ExceptionTexts
  <2>1. /\ node # "idle" /\ state.spec_approved
        /\ node' = "idle" /\ state'.phase = "error"
    BY <1>2 DEF GivesUpOnCode
  <2>2. /\ DOMAIN state = Fields /\ DOMAIN base = Fields
        /\ Undiagnosed(base)
    BY <2>1 DEF Inv, WellFormed, Startable, Settling
  <2>3. ASSUME NEW p, p \in {"clarification_needed", "done"},
               Return([state EXCEPT !.phase = p])
        PROVE  FALSE
    <3>1. PICK s : s = [state EXCEPT !.phase = p]
      OBVIOUS
    <3>2. DOMAIN s = Fields /\ s.phase = p
      BY ONLY <2>2, <3>1 DEF Fields
    <3>3. Return(s)
      BY <2>3, <3>1
    <3>4. state'.phase = p
      BY ONLY <3>2, <3>3, Returned
    <3>. QED
      BY <2>1, <2>3, <3>4
  <2>4. CASE ErrorNode
    <3>1. PICK e, s : s = [state EXCEPT !.phase = "error", !.error = e] /\ Return(s)
      BY <2>4 DEF ErrorNode
    <3>2. DOMAIN s = Fields /\ s.generation_attempt = state.generation_attempt
      BY ONLY <2>2, <3>1 DEF Fields
    <3>3. state'.generation_attempt = state.generation_attempt
      BY ONLY <3>1, <3>2, Returned
    <3>. QED
      BY <2>1, <2>4, <3>3 DEF ErrorNode, Inv, AfterReview
  <2>5. CASE RunFails
    <3>1. PICK text, s :
              /\ text \in ExceptionTexts
              /\ s = [base EXCEPT !.phase = "error", !.error = text] /\ Return(s)
      BY <2>5 DEF RunFails
    <3>2. /\ DOMAIN s = Fields /\ s.error = text
          /\ s.validation_output = base.validation_output
          /\ s.validation_error = base.validation_error
      BY ONLY <2>2, <3>1 DEF Fields
    <3>3. Undiagnosed(s)
      BY <2>2, <3>2 DEF Undiagnosed
    <3>4. state'.error = text
      BY ONLY <3>1, <3>2, <3>3, Returned
    <3>5. node \in {"spec", "update_spec"} => ~ state.spec_approved
      BY DEF Inv, BeforeReview, Startable, Unapproved
    <3>. QED
      BY <2>1, <2>5, <3>1, <3>4, <3>5 DEF RunFails
  <2>. QED
    BY <2>1, <2>3, <2>4, <2>5, RunsEndAtTheirEnds DEF ClarificationNeededNode, DoneNode
<1>. QED
  BY <1>1, <1>2 DEF SpendsTheBudget

\* Whatever MAX_REPAIRS is, a session generates code at most MAX_REPAIRS + 1
\* times, and a run that gives up on an approved specification has spent all of
\* them or reports that the call of the language model failed
\* (route_after_validate, error_node, the except clauses of main.py).
THEOREM BudgetIsExact == Spec => RepairBudgetIsExact
<1>1. Inv /\ Typed /\ Settling /\ [Next]_vars => [SpendsTheBudget]_vars
  BY BudgetStep
<1>. QED
  BY <1>1, SettlingAlways, PTL DEF Spec, RepairBudgetIsExact
===============================================================================
