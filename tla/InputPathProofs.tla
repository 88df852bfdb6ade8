---------------------------- MODULE InputPathProofs ----------------------------
(***************************************************************************)
(* Proofs about ContextNormalizer, for any set of keys, and about          *)
(* InputPath, for any contexts, requests and search terms.                 *)
(***************************************************************************)
EXTENDS InputPath, SequenceTheorems, FiniteSetTheorems, WellFoundedInduction, TLAPS

-------------------------------------------------------------------------------
\* The parts of the frame are four different paths.
LEMMA FramePaths == Frame \subseteq Paths /\ <<>> \in Frame
BY KeysAssumption DEF Frame, Paths

\* Normalising gives a function on the frame and the values of the sections.
LEMMA NormalizeApplied ==
    ASSUME NEW doc
    PROVE  /\ DOMAIN Normalize(doc) =
                Frame \union {q \in DOMAIN doc : InSection(q)}
           /\ \A p \in DOMAIN Normalize(doc) :
                Normalize(doc)[p] = IF p \in Frame THEN "object" ELSE doc[p]
           /\ Normalize(doc) = [p \in DOMAIN Normalize(doc) |-> Normalize(doc)[p]]
BY DEF Normalize

\* A context that has the frame can be normalised.
LEMMA FramedIsNormalizable ==
    ASSUME NEW doc,
           \A p \in Frame : p \in DOMAIN doc /\ doc[p] = "object"
    PROVE  Normalizable(doc)
<1>1. doc # NoContext
  BY FramePaths DEF NoContext
<1>2. doc[<<>>] = "object"
  BY FramePaths
<1>3. \A p \in Frame : KindAt(doc, p) = "object"
  BY DEF KindAt
<1>. QED
  BY <1>1, <1>2, <1>3 DEF Normalizable, Fillable

\* Normalising twice changes nothing more.
LEMMA NormalizeTwice ==
    ASSUME NEW doc
    PROVE  Normalize(Normalize(doc)) = Normalize(doc)
<1>. DEFINE once == Normalize(doc)
            twice == Normalize(once)
            Rest(d) == {q \in DOMAIN d : InSection(q)}
<1>1. DOMAIN once = Frame \union Rest(doc)
  BY NormalizeApplied
<1>2. DOMAIN twice = Frame \union Rest(once)
  BY NormalizeApplied
<1>3. DOMAIN twice = DOMAIN once
  BY <1>1, <1>2
<1>4. \A p \in DOMAIN once : twice[p] = once[p]
  <2>. SUFFICES ASSUME NEW p \in DOMAIN once
                PROVE  twice[p] = once[p]
    OBVIOUS
  <2>1. twice[p] = IF p \in Frame THEN "object" ELSE once[p]
    BY <1>3, NormalizeApplied
  <2>2. p \in Frame => once[p] = "object"
    BY NormalizeApplied
  <2>. QED
    BY <2>1, <2>2
<1>5. twice = [p \in DOMAIN once |-> twice[p]]
  BY <1>3, NormalizeApplied
<1>6. once = [p \in DOMAIN once |-> once[p]]
  BY NormalizeApplied
<1>. HIDE DEF once, twice
<1>7. twice = once
  BY <1>4, <1>5, <1>6
<1>. QED
  BY <1>7 DEF once, twice

\* The default context is what an empty object is normalised to.
LEMMA DefaultNormalizes ==
    Normalize(DefaultContext) = DefaultContext /\ Normalizable(DefaultContext)
<1>1. DOMAIN DefaultContext = Frame /\ \A p \in Frame : DefaultContext[p] = "object"
  BY DEF DefaultContext
<1>2. Frame \union {q \in DOMAIN DefaultContext : InSection(q)} = Frame
  BY <1>1
<1>3. Normalize(DefaultContext) = DefaultContext
  BY <1>2 DEF Normalize, DefaultContext
<1>4. Normalizable(DefaultContext)
  BY <1>1, FramedIsNormalizable
<1>. QED
  BY <1>3, <1>4

\* main.py normalises the context of a session and graph.py normalises it again for
\* the validator: the second time changes nothing, so that the search for an input
\* path and the script read the same values (normalize_context_safe).
THEOREM NormalizeSafeTwice ==
    ASSUME NEW doc
    PROVE  NormalizeSafe(NormalizeSafe(doc)) = NormalizeSafe(doc)
<1>1. CASE Normalizable(doc)
  <2>1. NormalizeSafe(doc) = Normalize(doc)
    BY <1>1 DEF NormalizeSafe
  <2>2. Normalizable(Normalize(doc))
    <3>1. \A p \in Frame : p \in DOMAIN Normalize(doc) /\ Normalize(doc)[p] = "object"
      BY NormalizeApplied
    <3>. QED
      BY <3>1, FramedIsNormalizable
  <2>. QED
    BY <2>1, <2>2, NormalizeTwice DEF NormalizeSafe
<1>2. CASE ~Normalizable(doc)
  BY <1>2, DefaultNormalizes DEF NormalizeSafe
<1>. QED
  BY <1>1, <1>2

\* A path of one key.
LEMMA OneSegment ==
    ASSUME NEW p \in Seq(Keys), Len(p) = 1
    PROVE  p = <<p[1]>>
OBVIOUS

\* All but the root of a context of the described form is in wf.
LEMMA WfHoldsTheRest ==
    ASSUME NEW doc, WellFormed(doc), NEW p \in DOMAIN doc, p # <<>>
    PROVE  <<"wf">> \in DOMAIN doc
<1>1. p \in Paths
  BY DEF WellFormed, IsDocument
<1>2. /\ <<"wf">>[1] = "wf" /\ <<"wf", "vars">>[1] = "wf"
      /\ <<"wf", "initVariables">>[1] = "wf"
  OBVIOUS
<1>3. p \in Frame => p[1] = "wf"
  BY <1>2, Zenon DEF Frame
<1>4. p[1] = "wf"
  BY <1>3 DEF WellFormed, InSection
<1>5. CASE Len(p) = 1
  <2>1. p = <<p[1]>>
    BY <1>1, <1>5, OneSegment DEF Paths
  <2>. QED
    BY <1>4, <2>1
<1>6. CASE Len(p) > 1
  <2>1. 1 \in 0..(Len(p) - 1)
    BY <1>1, <1>6 DEF Paths
  <2>2. SubSeq(p, 1, 1) \in DOMAIN doc
    BY <2>1 DEF WellFormed, IsDocument
  <2>3. SubSeq(p, 1, 1) = <<p[1]>>
    <3>1. SubSeq(p, 1, 1) \in Seq(Keys) /\ Len(SubSeq(p, 1, 1)) = 1
      BY <1>1, <1>6 DEF Paths
    <3>2. SubSeq(p, 1, 1)[1] = p[1]
      BY <1>1, <1>6 DEF Paths
    <3>. QED
      BY <3>1, <3>2, OneSegment
  <2>. QED
    BY <1>4, <2>2, <2>3
<1>7. Len(p) # 0
  BY <1>1 DEF Paths
<1>. QED
  BY <1>1, <1>5, <1>6, <1>7 DEF Paths

\* The frame has no value of a section.
LEMMA FrameIsOutside == \A p \in Frame : ~InSection(p)
<1>1. /\ ~(Len(<<>>) > 2) /\ ~(Len(<<"wf">>) > 2)
      /\ ~(Len(<<"wf", "vars">>) > 2) /\ ~(Len(<<"wf", "initVariables">>) > 2)
  OBVIOUS
<1>2. \A p \in Frame : ~(Len(p) > 2)
  BY <1>1, Zenon DEF Frame
<1>. QED
  BY <1>2 DEF InSection

\* Nothing of a context of the form that the product describes is lost or changed
\* (normalize_context).
THEOREM NormalisationKeepsData ==
    ASSUME NEW doc, WellFormed(doc)
    PROVE  \A p \in DOMAIN doc :
             p \in DOMAIN NormalizeSafe(doc) /\ NormalizeSafe(doc)[p] = doc[p]
<1>1. <<>> \in DOMAIN doc /\ doc # NoContext
  BY DEF WellFormed, IsDocument, NoContext
<1>2. \A p \in Frame : ~InSection(p)
  BY FrameIsOutside
<1>3. \A p \in Frame \intersect DOMAIN doc : doc[p] = "object"
  BY <1>2 DEF WellFormed
<1>4. doc[<<>>] = "object"
  BY <1>1, <1>3, FramePaths
<1>5. \A p \in Frame : KindAt(doc, p) \in Fillable
  BY <1>3 DEF KindAt, Fillable
<1>6. NormalizeSafe(doc) = Normalize(doc)
  BY <1>1, <1>4, <1>5 DEF NormalizeSafe, Normalizable
<1>7. \A p \in DOMAIN doc : p \in DOMAIN Normalize(doc)
  BY NormalizeApplied DEF WellFormed
<1>8. \A p \in DOMAIN doc : Normalize(doc)[p] = doc[p]
  BY <1>3, <1>7, NormalizeApplied
<1>. QED
  BY <1>6, <1>7, <1>8

-------------------------------------------------------------------------------
\* The context of the pipeline is the normalised one, and the script gets what
\* normalising it again yields.
Contexts ==
    /\ context = NormalizeSafe(given)
    /\ node = "done" => seen = ScriptPaths(NormalizeSafe(context))

LEMMA ContextsInit == Init => Contexts
BY DEF Init, InitialContext, Contexts

LEMMA ContextsStep == Contexts /\ [Next]_vars => Contexts'
<1>. SUFFICES ASSUME Contexts, [Next]_vars PROVE Contexts'
  OBVIOUS
<1>. USE DEF Contexts, inputs
<1>1. CASE SpecNode
  BY <1>1 DEF SpecNode
<1>2. CASE ClarifierNode
  BY <1>2 DEF ClarifierNode
<1>3. CASE ValidateNode
  BY <1>3 DEF ValidateNode
<1>4. CASE UNCHANGED vars
  BY <1>4 DEF vars
<1>. QED
  BY <1>1, <1>2, <1>3, <1>4 DEF Next

THEOREM ContextsAlways == Spec => []Contexts
BY ContextsInit, ContextsStep, PTL DEF Spec

-------------------------------------------------------------------------------
\* A normalised context has an object wf.
LEMMA NormalizedHasWf ==
    ASSUME NEW doc
    PROVE  <<"wf">> \in DOMAIN NormalizeSafe(doc) /\ NormalizeSafe(doc)[<<"wf">>] = "object"
<1>1. <<"wf">> \in Frame
  BY DEF Frame
<1>. QED
  BY <1>1 DEF NormalizeSafe, Normalize, DefaultContext

\* The paths of a context with a member wf: those of that member.
WfPaths(doc) == {p \in DOMAIN doc : p # <<>> /\ p[1] = "wf"}

LEMMA SearchedPaths ==
    ASSUME NEW doc, <<"wf">> \in DOMAIN doc
    PROVE  FlattenContextPaths(doc) = WfPaths(doc) /\ PathsOf(doc) = WfPaths(doc)
<1>1. doc # NoContext
  BY DEF NoContext
<1>. QED
  BY <1>1 DEF PathsOf, FlattenContextPaths, WfPaths

\* In a context with an object wf, search and script see the same but for the nulls.
LEMMA OneView ==
    ASSUME NEW doc, <<"wf">> \in DOMAIN doc, doc[<<"wf">>] = "object"
    PROVE  ScriptPaths(doc) = {p \in PathsOf(doc) : KindAt(doc, p) # "null"}
<1>1. KindAt(doc, <<"wf">>) \notin {"absent", "null"}
  BY DEF KindAt
<1>2. ScriptPaths(doc) = {p \in DOMAIN doc : p # <<>> /\ p[1] = "wf" /\ doc[p] # "null"}
  BY <1>1 DEF ScriptPaths
<1>. QED
  BY <1>2, SearchedPaths DEF WfPaths, KindAt

\* What a script finds, in terms of the context of the pipeline.
LEMMA SeenAtTheEnd ==
    ASSUME Contexts, node = "done"
    PROVE  seen = {p \in PathsOf(context) : KindAt(context, p) # "null"}
<1>1. NormalizeSafe(context) = context
  BY NormalizeSafeTwice DEF Contexts
<1>2. <<"wf">> \in DOMAIN context /\ context[<<"wf">>] = "object"
  BY NormalizedHasWf DEF Contexts
<1>. QED
  BY <1>1, <1>2, OneView DEF Contexts

\* A path that the search found is there when the script runs if its value is not null,
\* and only then, whatever the context that was given (extract_context_node,
\* resolve_input_path, validate_node, dkjson.decode).
THEOREM InputIsFound == Spec => []ScriptFindsItsInput
<1>1. Contexts => ScriptFindsItsInput
  BY SeenAtTheEnd DEF ScriptFindsItsInput
<1>. QED
  BY <1>1, ContextsAlways, PTL

\* Every value of a context of the described form reaches the script but the nulls, and
\* they do not (_make_initial_state, validate_node, dkjson.decode).
THEOREM GivenDataIsSeen == Spec => []ScriptSeesWhatWasGiven
<1>1. Contexts => ScriptSeesWhatWasGiven
  <2>. SUFFICES ASSUME Contexts, node = "done", given # NoContext, WellFormed(given),
                       NEW p \in PathsOf(given)
                PROVE  p \in seen <=> KindAt(given, p) # "null"
    BY DEF ScriptSeesWhatWasGiven
  <2>1. \A q \in DOMAIN given : q \in DOMAIN context /\ context[q] = given[q]
    BY NormalisationKeepsData DEF Contexts
  <2>2. <<"wf">> \in DOMAIN context /\ context[<<"wf">>] = "object"
    BY NormalizedHasWf DEF Contexts
  <2>3. CASE <<"wf">> \in DOMAIN given
    <3>1. p \in DOMAIN given /\ p \in WfPaths(context)
      BY <2>1, <2>3, SearchedPaths DEF WfPaths
    <3>2. KindAt(context, p) = KindAt(given, p)
      BY <2>1, <3>1 DEF KindAt
    <3>. QED
      BY <2>2, <3>1, <3>2, SearchedPaths, SeenAtTheEnd
  <2>4. CASE <<"wf">> \notin DOMAIN given
    <3>1. \A q \in DOMAIN given : q = <<>>
      BY <2>4, WfHoldsTheRest
    <3>2. p = <<"wf">>
      <4>1. DOMAIN given = {<<>>}
        BY <3>1 DEF WellFormed, IsDocument
      <4>2. <<"wf">> \o <<>> = <<"wf">>
        OBVIOUS
      <4>3. PathsOf(given) = {<<"wf">> \o q : q \in DOMAIN given}
        BY <2>4 DEF PathsOf, FlattenContextPaths
      <4>. QED
        BY <4>1, <4>2, <4>3
    <3>3. p \in WfPaths(context) /\ KindAt(context, p) # "null"
      BY <2>2, <3>2 DEF WfPaths, KindAt
    <3>4. KindAt(given, p) # "null"
      BY <2>4, <3>2 DEF KindAt
    <3>. QED
      BY <2>2, <3>3, <3>4, SearchedPaths, SeenAtTheEnd
  <2>. QED
    BY <2>3, <2>4
<1>. QED
  BY <1>1, ContextsAlways, PTL

-------------------------------------------------------------------------------
(***************************************************************************)
(* The greatest element of a set of numbers.  That it exists is proved by  *)
(* descent: the interval up to a number is a finite set, and among finite  *)
(* sets there is a smallest one.                                           *)
(***************************************************************************)

LEMMA SmallestFiniteSet ==
    ASSUME NEW T, T # {}, \A U \in T : IsFiniteSet(U)
    PROVE  \E U \in T : \A V \in T : ~(V \subseteq U /\ V # U)
<1>. DEFINE S == UNION T
<1>1. IsWellFoundedOn(StrictSubsetOrdering(S), FiniteSubsetsOf(S))
  BY FS_StrictSubsetOrderingWellFounded
<1>2. T \subseteq FiniteSubsetsOf(S)
  BY DEF FiniteSubsetsOf
<1>. HIDE DEF S
<1>3. PICK U \in T : \A V \in T : ~(<<V, U>> \in StrictSubsetOrdering(S))
  BY <1>1, <1>2, WFMin, Zenon
<1>4. ASSUME NEW V \in T, V \subseteq U, V # U
      PROVE  FALSE
  <2>1. <<V, U>> \in StrictSubsetOrdering(S)
    BY <1>4 DEF StrictSubsetOrdering, S
  <2>. QED
    BY <2>1, <1>3, Zenon
<1>. QED
  BY <1>4

LEMMA LeastNumber ==
    ASSUME NEW T \in SUBSET Nat, T # {}
    PROVE  \E x \in T : \A y \in T : x <= y
<1>. DEFINE I == {1..n : n \in T}
<1>1. I # {} /\ \A U \in I : IsFiniteSet(U)
  <2>1. ASSUME NEW n \in T
        PROVE  IsFiniteSet(1..n)
    BY FS_Interval
  <2>. QED
    BY <2>1
<1>2. PICK U \in I : \A V \in I : ~(V \subseteq U /\ V # U)
  <2>. HIDE DEF I
  <2>. QED
    BY <1>1, SmallestFiniteSet
<1>3. PICK x \in T : U = 1..x
  BY <1>2
<1>4. ASSUME NEW y \in T, y < x
      PROVE  FALSE
  <2>1. 1..y \subseteq 1..x /\ x \in 1..x /\ x \notin 1..y
    BY <1>4
  <2>2. 1..y \in I
    BY <1>4
  <2>. HIDE DEF I
  <2>. QED
    BY <2>1, <2>2, <1>2, <1>3
<1>. QED
  BY <1>4

LEMMA MaxOfNumbers ==
    ASSUME NEW S \in SUBSET Nat, S # {}, NEW b \in Nat, \A x \in S : x <= b
    PROVE  Max(S) \in S /\ \A x \in S : Max(S) >= x
<1>. DEFINE T == {b - x : x \in S}
<1>1. T \in SUBSET Nat /\ T # {}
  <2>1. \A x \in S : x \in Nat /\ b - x \in Nat
    OBVIOUS
  <2>. QED
    BY <2>1
<1>2. PICK t \in T : \A u \in T : t <= u
  <2>. HIDE DEF T
  <2>. QED
    BY <1>1, LeastNumber
<1>3. PICK m \in S : t = b - m
  BY <1>2
<1>4. \A x \in S : m >= x
  <2>1. ASSUME NEW x \in S
        PROVE  m >= x
    <3>1. b - x \in T
      OBVIOUS
    <3>2. b - m <= b - x
      BY <1>2, <1>3, <3>1
    <3>. QED
      BY <3>2
  <2>. QED
    BY <2>1
<1>. QED
  BY <1>4, Zenon DEF Max

LEMMA MinOfNumbers ==
    ASSUME NEW S \in SUBSET Nat, S # {}
    PROVE  Min(S) \in S /\ \A x \in S : Min(S) <= x
BY LeastNumber, Zenon DEF Min

-------------------------------------------------------------------------------
(***************************************************************************)
(* _extract_canonical_path                                                 *)
(***************************************************************************)

\* The places where a path may end in a text.
Ends(text) ==
    {n \in 3..Len(text) :
        /\ text[1] \in EndsInWf
        /\ text[2] \in Sections
        /\ \A i \in 3..n : Cut[text[i]] # ""
        /\ \A i \in 3..(n - 1) : Cut[text[i]] = text[i]}

LEMMA LastEnd ==
    ASSUME NEW text \in Seq(Segments), Ends(text) # {}
    PROVE  /\ Max(Ends(text)) \in Ends(text)
           /\ \A n \in Ends(text) : Max(Ends(text)) >= n
<1>1. Len(text) \in Nat
  BY LenProperties
<1>2. Ends(text) \subseteq 3..Len(text)
  BY DEF Ends
<1>3. Ends(text) \in SUBSET Nat /\ \A n \in Ends(text) : n <= Len(text)
  BY <1>1, <1>2
<1>. QED
  BY <1>1, <1>3, MaxOfNumbers

LEMMA PathEnds ==
    ASSUME NEW text
    PROVE  PathAtStart(text) =
             IF Ends(text) = {} THEN NoPath
             ELSE [SubSeq(text, 1, Max(Ends(text))) EXCEPT ![1] = "wf", ![Max(Ends(text))] = Cut[@]]
BY DEF PathAtStart, Ends

\* The first members of a sequence.
LEMMA PrefixProperties ==
    ASSUME NEW S, NEW s \in Seq(S), NEW n \in 1..Len(s)
    PROVE  /\ SubSeq(s, 1, n) \in Seq(S) /\ Len(SubSeq(s, 1, n)) = n
           /\ \A i \in 1..n : SubSeq(s, 1, n)[i] = s[i]
OBVIOUS

\* A sequence with another first and another last member.
LEMMA EndsReplaced ==
    ASSUME NEW S, NEW s \in Seq(S), NEW n \in Nat, n >= 3, Len(s) = n, NEW d \in S, NEW e \in S
    PROVE  LET t == [s EXCEPT ![1] = d, ![n] = e]
           IN  t \in Seq(S) /\ Len(t) = n /\ t[1] = d /\ t[2] = s[2]
OBVIOUS

\* What is found at the start of a text has the form of a path.
LEMMA PathForm ==
    ASSUME NEW text \in Seq(Segments)
    PROVE  PathAtStart(text) # NoPath =>
             /\ PathAtStart(text) \in Seq(Segments)
             /\ Len(PathAtStart(text)) >= 3
             /\ PathAtStart(text)[1] = "wf" /\ PathAtStart(text)[2] \in Sections
<1>. DEFINE n == Max(Ends(text))
            p == SubSeq(text, 1, n)
            e == Cut[text[n]]
<1>1. PathAtStart(text) # NoPath => Ends(text) # {}
  BY PathEnds
<1>2. ASSUME Ends(text) # {}
      PROVE  n \in Ends(text)
  BY <1>2, LastEnd
<1>3. ASSUME n \in Ends(text)
      PROVE  n \in 3..Len(text) /\ text[1] \in EndsInWf /\ text[2] \in Sections /\ e # ""
  <2>1. n \in 3..Len(text) /\ (\A i \in 3..n : Cut[text[i]] # "")
    BY <1>3 DEF Ends
  <2>2. \A m \in 3..Len(text) : m \in 3..m
    OBVIOUS
  <2>. QED
    BY <1>3, <2>1, <2>2 DEF Ends
<1>4. Len(text) \in Nat
  BY LenProperties
<1>. HIDE DEF n
<1>5. ASSUME n \in 3..Len(text)
      PROVE  /\ n \in Nat /\ n >= 3 /\ n \in 1..Len(text) /\ 1 \in 1..n /\ 2 \in 1..n
             /\ n \in 1..n
  BY <1>4, <1>5
<1>6. ASSUME n \in 3..Len(text)
      PROVE  p \in Seq(Segments) /\ Len(p) = n /\ p[1] = text[1] /\ p[2] = text[2] /\ p[n] = text[n]
  BY <1>5, <1>6, PrefixProperties
<1>7. ASSUME n \in 3..Len(text)
      PROVE  e \in Segments \union {""}
  <2>1. text[n] \in Segments
    BY <1>5, <1>7, ElementOfSeq
  <2>2. Cut \in [Segments -> Segments \union {""}]
    BY SegmentsAssumption
  <2>. QED
    BY <2>1, <2>2
<1>8. ASSUME n \in Ends(text)
      PROVE  PathAtStart(text) = [p EXCEPT ![1] = "wf", ![n] = e]
  <2>1. PathAtStart(text) = [p EXCEPT ![1] = "wf", ![n] = Cut[p[n]]]
    BY <1>8, PathEnds DEF n
  <2>. QED
    BY <1>3, <1>6, <1>8, <2>1
<1>. HIDE DEF p, e
<1>9. ASSUME n \in 3..Len(text), e \in Segments
      PROVE  LET q == [p EXCEPT ![1] = "wf", ![n] = e]
             IN  q \in Seq(Segments) /\ Len(q) = n /\ q[1] = "wf" /\ q[2] = p[2]
  <2>1. "wf" \in Segments
    BY SegmentsAssumption
  <2>. QED
    BY <1>5, <1>6, <1>9, <2>1, EndsReplaced
<1>. QED
  BY <1>1, <1>2, <1>3, <1>5, <1>6, <1>7, <1>8, <1>9

\* The rest of a text is a text.
LEMMA RestOfText ==
    ASSUME NEW S, NEW s \in Seq(S), NEW i \in 1..Len(s)
    PROVE  SubSeq(s, i, Len(s)) \in Seq(S)
OBVIOUS

\* The places where a path starts in a text.
Starts(text) == {i \in 1..Len(text) : PathAtStart(From(text, i)) # NoPath}

LEMMA FirstStart ==
    ASSUME NEW text \in Seq(Segments), Starts(text) # {}
    PROVE  Min(Starts(text)) \in Starts(text) /\ \A i \in Starts(text) : Min(Starts(text)) <= i
<1>1. Len(text) \in Nat
  BY LenProperties
<1>2. Starts(text) \subseteq 1..Len(text)
  BY DEF Starts
<1>3. Starts(text) \in SUBSET Nat
  BY <1>1, <1>2
<1>. QED
  BY <1>3, MinOfNumbers

LEMMA CanonicalPathStarts ==
    ASSUME NEW text
    PROVE  CanonicalPath(text) =
             IF Starts(text) = {} THEN NoPath ELSE PathAtStart(From(text, Min(Starts(text))))
BY DEF CanonicalPath, Starts

\* What is found anywhere has the form of a path.
LEMMA CanonicalPathForm ==
    ASSUME NEW text \in Seq(Segments)
    PROVE  CanonicalPath(text) # NoPath =>
             /\ CanonicalPath(text) \in Seq(Segments)
             /\ Len(CanonicalPath(text)) >= 3
             /\ CanonicalPath(text)[1] = "wf" /\ CanonicalPath(text)[2] \in Sections
<1>. DEFINE i == Min(Starts(text))
<1>1. SUFFICES ASSUME CanonicalPath(text) # NoPath
               PROVE  /\ CanonicalPath(text) \in Seq(Segments)
                      /\ Len(CanonicalPath(text)) >= 3
                      /\ CanonicalPath(text)[1] = "wf" /\ CanonicalPath(text)[2] \in Sections
  OBVIOUS
<1>2. Starts(text) # {} /\ CanonicalPath(text) = PathAtStart(From(text, i))
  BY <1>1, CanonicalPathStarts
<1>3. i \in 1..Len(text)
  BY <1>2, FirstStart DEF Starts
<1>. HIDE DEF i
<1>4. From(text, i) \in Seq(Segments)
  BY <1>3, RestOfText DEF From
<1>. QED
  BY <1>1, <1>2, <1>4, PathForm

\* The first and the last member of a sequence replaced by themselves.
LEMMA EndsKept ==
    ASSUME NEW S, NEW s \in Seq(S), NEW n, NEW d, d = s[1]
    PROVE  [s EXCEPT ![1] = d, ![n] = s[n]] = s
OBVIOUS

\* A path of identifiers in a section is found whole at the start.
LEMMA PathWhole ==
    ASSUME NEW p \in Seq(Segments)
    PROVE  Len(p) >= 3 /\ p[1] = "wf" /\ p[2] \in Sections /\ Spellable(p) => PathAtStart(p) = p
<1>. DEFINE n == Len(p)
<1>1. n \in Nat /\ DOMAIN p = 1..n
  BY LenProperties
<1>2. ASSUME Spellable(p)
      PROVE  \A i \in 1..n : p[i] # "" /\ Cut[p[i]] = p[i]
  BY <1>1, <1>2, Zenon DEF Spellable, ToSet
<1>. HIDE DEF n
<1>3. ASSUME n >= 3
      PROVE  /\ n \in 3..n /\ n \in 1..n
             /\ (\A i \in 3..n : i \in 1..n) /\ (\A i \in 3..(n - 1) : i \in 1..n)
  BY <1>1, <1>3
<1>4. ASSUME n >= 3, p[1] = "wf", p[2] \in Sections, Spellable(p)
      PROVE  n \in Ends(p)
  BY <1>2, <1>3, <1>4, SegmentsAssumption, Zenon DEF Ends, n
<1>5. ASSUME n \in Ends(p)
      PROVE  Max(Ends(p)) = n
  <2>1. Max(Ends(p)) \in Ends(p) /\ Max(Ends(p)) >= n
    BY <1>5, LastEnd
  <2>2. Max(Ends(p)) \in 3..n
    BY <2>1 DEF Ends, n
  <2>. QED
    BY <1>1, <2>1, <2>2
<1>6. ASSUME n \in Ends(p)
      PROVE  PathAtStart(p) = [p EXCEPT ![1] = "wf", ![n] = Cut[p[n]]]
  <2>1. SubSeq(p, 1, n) = p
    BY SubSeqFull DEF n
  <2>. QED
    BY <1>5, <1>6, <2>1, PathEnds
<1>7. p[1] = "wf" => [p EXCEPT ![1] = "wf", ![n] = p[n]] = p
  BY EndsKept
<1>. QED
  BY <1>2, <1>3, <1>4, <1>6, <1>7 DEF n

\* And it is what is found anywhere.
LEMMA CanonicalPathWhole ==
    ASSUME NEW p \in Seq(Segments)
    PROVE  Len(p) >= 3 /\ p[1] = "wf" /\ p[2] \in Sections /\ Spellable(p) => CanonicalPath(p) = p
<1>. SUFFICES ASSUME Len(p) >= 3, p[1] = "wf", p[2] \in Sections, Spellable(p)
              PROVE  CanonicalPath(p) = p
  OBVIOUS
<1>1. Len(p) \in Nat
  BY LenProperties
<1>2. From(p, 1) = p
  BY SubSeqFull DEF From
<1>3. PathAtStart(p) = p /\ p # NoPath
  BY PathWhole DEF NoPath
<1>4. 1 \in Starts(p)
  BY <1>1, <1>2, <1>3 DEF Starts
<1>5. Min(Starts(p)) = 1
  <2>1. Min(Starts(p)) \in Starts(p) /\ Min(Starts(p)) <= 1
    BY <1>4, FirstStart
  <2>2. Min(Starts(p)) \in 1..Len(p)
    BY <2>1 DEF Starts
  <2>. QED
    BY <1>1, <2>1, <2>2
<1>. QED
  BY <1>2, <1>3, <1>4, <1>5, CanonicalPathStarts

-------------------------------------------------------------------------------
(***************************************************************************)
(* The context of the pipeline is a document.                              *)
(***************************************************************************)

LEMMA PairOf ==
    ASSUME NEW S, NEW p \in Seq(S), Len(p) = 2
    PROVE  p = <<p[1], p[2]>>
OBVIOUS

\* What is above a part of the frame is a part of it.
LEMMA FramePrefixes ==
    ASSUME NEW p \in Frame, NEW n \in 0..(Len(p) - 1)
    PROVE  SubSeq(p, 1, n) \in Frame
<1>1. p \in Seq(Keys)
  BY FramePaths DEF Paths
<1>2. /\ <<"wf">>[1] = "wf" /\ <<"wf", "vars">>[1] = "wf" /\ <<"wf", "initVariables">>[1] = "wf"
      /\ Len(<<>>) = 0 /\ Len(<<"wf">>) = 1 /\ Len(<<"wf", "vars">>) = 2
      /\ Len(<<"wf", "initVariables">>) = 2
  OBVIOUS
<1>3. (Len(p) = 0 \/ Len(p) = 1 \/ Len(p) = 2) /\ (p = <<>> \/ p[1] = "wf")
  BY <1>2, Zenon DEF Frame
<1>4. n = 0 \/ (n = 1 /\ Len(p) = 2)
  <2>1. \A m \in {0, 1, 2} : \A k \in 0..(m - 1) : k = 0 \/ (k = 1 /\ m = 2)
    OBVIOUS
  <2>2. Len(p) \in {0, 1, 2}
    BY <1>3
  <2>. QED
    BY <2>1, <2>2
<1>5. CASE n = 0
  <2>1. SubSeq(p, 1, 0) = <<>>
    BY SubSeqEmpty
  <2>. QED
    BY <1>5, <2>1, FramePaths
<1>6. CASE n = 1 /\ Len(p) = 2
  <2>1. /\ SubSeq(p, 1, 1) \in Seq(Keys) /\ Len(SubSeq(p, 1, 1)) = 1
        /\ SubSeq(p, 1, 1)[1] = p[1]
    BY <1>1, <1>6, PrefixProperties
  <2>2. SubSeq(p, 1, 1) = <<p[1]>>
    BY <2>1, OneSegment
  <2>3. p # <<>>
    BY <1>2, <1>6
  <2>. QED
    BY <1>3, <1>6, <2>2, <2>3 DEF Frame
<1>. QED
  BY <1>4, <1>5, <1>6

\* What is above a value of a section is such a value or a part of the frame.
LEMMA SectionPrefixes ==
    ASSUME NEW p \in Seq(Keys), InSection(p), NEW n \in 0..(Len(p) - 1)
    PROVE  SubSeq(p, 1, n) \in Frame \/ InSection(SubSeq(p, 1, n))
<1>. DEFINE q == SubSeq(p, 1, n)
<1>1. Len(p) \in Nat /\ Len(p) > 2 /\ p[1] = "wf" /\ p[2] \in Sections
  BY LenProperties DEF InSection
<1>2. CASE n = 0
  <2>1. SubSeq(p, 1, 0) = <<>>
    BY SubSeqEmpty
  <2>. QED
    BY <1>2, <2>1, FramePaths
<1>3. ASSUME n # 0
      PROVE  /\ q \in Seq(Keys) /\ Len(q) = n /\ n \in Nat \ {0}
             /\ \A i \in 1..n : q[i] = p[i]
  <2>1. n \in 1..Len(p)
    BY <1>1, <1>3
  <2>. QED
    BY <2>1, PrefixProperties
<1>. HIDE DEF q
<1>4. CASE n = 1
  <2>1. q = <<q[1]>> /\ q[1] = p[1]
    BY <1>3, <1>4, OneSegment
  <2>. QED
    BY <1>1, <2>1 DEF q, Frame
<1>5. CASE n = 2
  <2>1. q = <<q[1], q[2]>> /\ q[1] = p[1] /\ q[2] = p[2]
    BY <1>3, <1>5, PairOf
  <2>2. p[2] = "vars" \/ p[2] = "initVariables"
    BY <1>1 DEF Sections
  <2>. QED
    BY <1>1, <2>1, <2>2 DEF q, Frame
<1>6. CASE n > 2
  <2>1. Len(q) > 2 /\ q[1] = p[1] /\ q[2] = p[2]
    BY <1>3, <1>6
  <2>. QED
    BY <1>1, <2>1 DEF InSection, q
<1>. QED
  BY <1>2, <1>3, <1>4, <1>5, <1>6

\* The default context is a document.
LEMMA DefaultIsDocument == IsDocument(DefaultContext)
<1>1. DOMAIN DefaultContext = Frame /\ \A p \in Frame : DefaultContext[p] = "object"
  BY DEF DefaultContext
<1>2. DefaultContext = [p \in DOMAIN DefaultContext |-> DefaultContext[p]]
  BY DEF DefaultContext
<1>3. "object" \in Kinds /\ "object" \in Containers
  BY DEF Kinds, Containers
<1>. HIDE DEF DefaultContext
<1>. QED
  BY <1>1, <1>2, <1>3, FramePaths, FramePrefixes DEF IsDocument

\* Normalising yields a document.
LEMMA NormalizedIsDocument ==
    ASSUME NEW doc, doc = NoContext \/ IsDocument(doc)
    PROVE  IsDocument(NormalizeSafe(doc))
<1>1. ASSUME Normalizable(doc)
      PROVE  IsDocument(Normalize(doc))
  <2>. DEFINE once == Normalize(doc)
  <2>1. IsDocument(doc)
    BY <1>1 DEF Normalizable
  <2>2. /\ DOMAIN once = Frame \union {q \in DOMAIN doc : InSection(q)}
        /\ \A p \in DOMAIN once : once[p] = IF p \in Frame THEN "object" ELSE doc[p]
        /\ once = [p \in DOMAIN once |-> once[p]]
    BY NormalizeApplied
  <2>. HIDE DEF once
  <2>3. "object" \in Kinds /\ "object" \in Containers
    BY DEF Kinds, Containers
  <2>4. /\ DOMAIN once \subseteq Paths /\ <<>> \in DOMAIN once
        /\ \A p \in DOMAIN once : once[p] \in Kinds
    BY <2>1, <2>2, <2>3, FramePaths DEF IsDocument
  <2>5. ASSUME NEW p \in DOMAIN once, NEW n \in 0..(Len(p) - 1)
        PROVE  SubSeq(p, 1, n) \in DOMAIN once /\ once[SubSeq(p, 1, n)] \in Containers
    <3>1. CASE p \in Frame
      BY <2>2, <2>3, <2>5, <3>1, FramePrefixes
    <3>2. CASE p \in DOMAIN doc /\ InSection(p)
      <4>1. p \in Seq(Keys)
        BY <2>1, <3>2 DEF IsDocument, Paths
      <4>2. SubSeq(p, 1, n) \in Frame \/ InSection(SubSeq(p, 1, n))
        BY <3>2, <4>1, SectionPrefixes
      <4>3. SubSeq(p, 1, n) \in DOMAIN doc /\ doc[SubSeq(p, 1, n)] \in Containers
        BY <2>1, <3>2 DEF IsDocument
      <4>. QED
        BY <2>2, <2>3, <4>2, <4>3
    <3>. QED
      BY <2>2, <3>1, <3>2
  <2>6. IsDocument(once)
    BY <2>2, <2>4, <2>5 DEF IsDocument
  <2>. QED
    BY <2>6 DEF once
<1>. QED
  BY <1>1, DefaultIsDocument DEF NormalizeSafe

-------------------------------------------------------------------------------
(***************************************************************************)
(* The search                                                              *)
(***************************************************************************)

\* The values of a context below the members of wf.
Values(doc) == {p \in PathsOf(doc) : Len(p) >= 3}

LEMMA OnlyOneOrNone ==
    ASSUME NEW S
    PROVE  OnlyOne(S) = NoPath \/ OnlyOne(S) \in S
<1>1. Cardinality({}) = 0
  BY FS_EmptySet
<1>2. Cardinality(S) = 1 => \E p : p \in S
  BY <1>1
<1>. QED
  BY <1>2 DEF OnlyOne

\* The best of a set are of it.
LEMMA SearchFindsValues ==
    ASSUME NEW paths, NEW terms,
           \A p \in paths : Len(p) >= 4 => Front(p) \in paths /\ Len(Front(p)) >= 3,
           \A p \in paths : Len(p) >= 4 => Len(p) >= 3
    PROVE  \A p \in CandidateParentPaths(paths, terms) : p = NoPath \/ (p \in paths /\ Len(p) >= 3)
<1>. DEFINE V == {p \in paths : Len(p) >= 3}
<1>1. ASSUME NEW S, S \subseteq V
      PROVE  OnlyOne(S) \in V \union {NoPath}
  BY <1>1, OnlyOneOrNone
<1>2. \A t : Named(paths, t) \subseteq V
  BY DEF Named
<1>3. \A t : OnlyOne(Named(paths, t)) \in V \union {NoPath}
  BY <1>1, <1>2
<1>4. ASSUME NEW t
      PROVE  BestNamed(paths, terms, t) \in V \union {NoPath}
  <2>. DEFINE best == Best(Named(paths, t),
                          LAMBDA p : Cardinality(terms \intersect DescendantTerms(paths, p)))
  <2>1. best \subseteq V
    BY <1>2 DEF Best
  <2>2. BestNamed(paths, terms, t) = OnlyOne(best) \/ BestNamed(paths, terms, t) = NoPath
    BY DEF BestNamed
  <2>. QED
    BY <1>1, <2>1, <2>2
<1>5. NamedParents(paths, terms) \subseteq V
  BY DEF NamedParents, NamedFields
<1>6. BestScored(paths, terms) \in V \union {NoPath}
  <2>. DEFINE S == {p \in paths : Len(p) >= 3 /\ Last(p) \notin Sections}
              best == Best(S, LAMBDA p : Score(paths, terms, p))
  <2>1. best \subseteq V
    BY DEF Best
  <2>2. BestScored(paths, terms) = OnlyOne(best) \/ BestScored(paths, terms) = NoPath
    BY DEF BestScored
  <2>. QED
    BY <1>1, <2>1, <2>2
<1>7. CandidateParentPaths(paths, terms) \subseteq V \union {NoPath}
  <2>. HIDE DEF V
  <2>. QED
    BY <1>3, <1>4, <1>5, <1>6 DEF CandidateParentPaths
<1>. QED
  BY <1>7

\* The paths of a context are closed: an object above a value is one of its paths.
LEMMA ParentsArePaths ==
    ASSUME NEW doc, IsDocument(doc), NEW p \in WfPaths(doc), Len(p) >= 4
    PROVE  Front(p) \in WfPaths(doc) /\ Len(Front(p)) >= 3
<1>1. p \in Seq(Keys) /\ p \in DOMAIN doc /\ p[1] = "wf"
  BY DEF WfPaths, IsDocument, Paths
<1>2. Len(p) \in Nat
  BY <1>1, LenProperties
<1>3. /\ Len(p) - 1 \in 0..(Len(p) - 1) /\ Len(p) - 1 \in 1..Len(p)
      /\ 1 \in 1..(Len(p) - 1) /\ Len(p) - 1 >= 3
  BY <1>2
<1>4. /\ SubSeq(p, 1, Len(p) - 1) \in Seq(Keys) /\ Len(SubSeq(p, 1, Len(p) - 1)) = Len(p) - 1
      /\ SubSeq(p, 1, Len(p) - 1)[1] = p[1]
  BY <1>1, <1>3, PrefixProperties
<1>5. SubSeq(p, 1, Len(p) - 1) \in DOMAIN doc
  BY <1>1, <1>3 DEF IsDocument
<1>6. SubSeq(p, 1, Len(p) - 1) # <<>>
  <2>1. Len(<<>>) = 0 /\ ~(0 >= 3)
    OBVIOUS
  <2>. QED
    BY <1>3, <1>4, <2>1, Zenon
<1>. QED
  BY <1>1, <1>3, <1>4, <1>5, <1>6 DEF WfPaths, Front

\* What resolve_input_path answers.
LEMMA ResolvedPath ==
    ASSUME NEW doc, IsDocument(doc), <<"wf">> \in DOMAIN doc, NEW text, NEW terms,
           NEW found \in ResolveInputPath(doc, text, terms)
    PROVE  IF CanonicalPath(text) # NoPath THEN found = CanonicalPath(text)
           ELSE found = NoPath \/ found \in Values(doc)
<1>. DEFINE paths == FlattenContextPaths(doc)
<1>1. paths = WfPaths(doc) /\ paths = PathsOf(doc)
  BY SearchedPaths
<1>2. \A p \in paths : Len(p) >= 4 => Front(p) \in paths /\ Len(Front(p)) >= 3
  BY <1>1, ParentsArePaths
<1>3. \A p \in paths : Len(p) >= 4 => Len(p) >= 3
  <2>1. \A p \in paths : Len(p) \in Nat
    BY <1>1, LenProperties DEF WfPaths, IsDocument, Paths
  <2>. QED
    BY <2>1
<1>. HIDE DEF paths
<1>4. ASSUME NEW some, NEW p \in CandidateParentPaths(paths, some)
      PROVE  p = NoPath \/ p \in Values(doc)
  BY <1>1, <1>2, <1>3, SearchFindsValues DEF Values
<1>5. CASE CanonicalPath(text) # NoPath
  BY <1>5 DEF ResolveInputPath
<1>6. CASE CanonicalPath(text) = NoPath /\ IsEmpty(doc)
  BY <1>6 DEF ResolveInputPath
<1>7. CASE CanonicalPath(text) = NoPath /\ ~IsEmpty(doc)
  <2>. DEFINE first == CandidateParentPaths(paths, TermsOfText(text))
              second == CandidateParentPaths(paths, terms \union TermsOfText(text))
  <2>1. found \in first \/ found \in second
    BY <1>7 DEF ResolveInputPath, paths
  <2>. QED
    BY <1>4, <1>7, <2>1
<1>. QED
  BY <1>5, <1>6, <1>7

\* The input path that evaluate_spec yields.
EvaluatedFrom(text, doc, path) ==
    IF CanonicalPath(text) # NoPath THEN path = CanonicalPath(text)
    ELSE path \in Sentinels \/ path \in Values(doc)

LEMMA EvaluatedPath ==
    ASSUME NEW doc, IsDocument(doc), <<"wf">> \in DOMAIN doc, NEW text, NEW req,
           NEW path \in EvaluateSpec(doc, text, req)
    PROVE  EvaluatedFrom(text, doc, path)
<1>1. PICK found \in ResolveInputPath(doc, text, req.terms) :
        path = IF found # NoPath THEN found
               ELSE IF NeedsContextualInput(doc, text, req) THEN NeedsClarification
               ELSE NotApplicable
  BY DEF EvaluateSpec
<1>2. IF CanonicalPath(text) # NoPath THEN found = CanonicalPath(text)
      ELSE found = NoPath \/ found \in Values(doc)
  BY ResolvedPath
<1>. QED
  BY <1>1, <1>2 DEF EvaluatedFrom, Sentinels

\* It is a text again.
LEMMA EvaluatedIsText ==
    ASSUME NEW doc, IsDocument(doc), <<"wf">> \in DOMAIN doc, NEW text \in Seq(Segments), NEW path,
           EvaluatedFrom(text, doc, path)
    PROVE  path \in Seq(Segments)
<1>1. CanonicalPath(text) # NoPath => CanonicalPath(text) \in Seq(Segments)
  BY CanonicalPathForm
<1>2. path \in Sentinels => path \in Seq(Segments)
  BY InputsAssumption
<1>3. path \in Values(doc) => path \in Seq(Keys)
  BY SearchedPaths DEF Values, WfPaths, IsDocument, Paths
<1>4. \A p \in Seq(Keys) : p \in Seq(Segments)
  BY SegmentsAssumption, SeqMonotonic
<1>. QED
  BY <1>1, <1>2, <1>3, <1>4 DEF EvaluatedFrom

\* A path of identifiers that was evaluated from another text is kept.
LEMMA EvaluatedAgain ==
    ASSUME NEW doc, IsDocument(doc), <<"wf">> \in DOMAIN doc, NEW text \in Seq(Segments), NEW path,
           EvaluatedFrom(text, doc, path)
    PROVE  Spellable(path) /\ Len(path) >= 3 /\ path[2] \in Sections => CanonicalPath(path) = path
<1>1. path \in Seq(Segments)
  BY EvaluatedIsText
<1>2. CanonicalPath(text) # NoPath => CanonicalPath(text)[1] = "wf"
  BY CanonicalPathForm
<1>3. path \in Sentinels => ~(Len(path) >= 3)
  <2>1. Len(NotApplicable) = 1 /\ Len(NeedsClarification) = 1
    BY DEF NotApplicable, NeedsClarification
  <2>. QED
    BY <2>1 DEF Sentinels
<1>4. path \in Values(doc) => path[1] = "wf"
  BY SearchedPaths DEF Values, WfPaths
<1>5. Len(path) >= 3 => path[1] = "wf"
  BY <1>2, <1>3, <1>4 DEF EvaluatedFrom
<1>. QED
  BY <1>1, <1>5, CanonicalPathWhole

-------------------------------------------------------------------------------
(***************************************************************************)
(* The inductive invariant: where each input path comes from.              *)
(***************************************************************************)

PathInv ==
    /\ TypeOK
    /\ <<"wf">> \in DOMAIN context
    /\ node # "spec" => EvaluatedFrom(raw, context, specified)
    /\ node \notin {"spec", "clarifier"} => reviewed \in EvaluateSpec(context, specified, request)

LEMMA PathInvInit == Init => PathInv
<1>. SUFFICES ASSUME Init PROVE PathInv
  OBVIOUS
<1>1. given = NoContext \/ IsDocument(given)
  BY InputsAssumption DEF Init
<1>2. IsDocument(context) /\ <<"wf">> \in DOMAIN context
  BY <1>1, NormalizedIsDocument, NormalizedHasWf DEF Init, InitialContext
<1>3. request \in Requests /\ raw \in Seq(Segments)
  BY InputsAssumption DEF Init
<1>4. NoPath \in Seq(Segments)
  BY EmptySeq DEF NoPath
<1>. QED
  BY <1>1, <1>2, <1>3, <1>4 DEF Init, PathInv, TypeOK

LEMMA PathInvStep == PathInv /\ [Next]_vars => PathInv'
<1>. SUFFICES ASSUME PathInv, [Next]_vars PROVE PathInv'
  OBVIOUS
<1>0. /\ TypeOK /\ <<"wf">> \in DOMAIN context /\ IsDocument(context)
      /\ raw \in Seq(Segments) /\ specified \in Seq(Segments)
  BY DEF PathInv, TypeOK
<1>1. CASE SpecNode
  <2>1. EvaluatedFrom(raw, context, specified')
    BY <1>0, <1>1, EvaluatedPath DEF SpecNode
  <2>2. specified' \in Seq(Segments)
    BY <1>0, <2>1, EvaluatedIsText
  <2>. QED
    BY <1>0, <1>1, <2>1, <2>2 DEF SpecNode, PathInv, TypeOK, inputs
<1>2. CASE ClarifierNode
  <2>1. EvaluatedFrom(specified, context, reviewed')
    BY <1>0, <1>2, EvaluatedPath DEF ClarifierNode
  <2>2. reviewed' \in Seq(Segments)
    BY <1>0, <2>1, EvaluatedIsText
  <2>3. EvaluatedFrom(raw, context, specified)
    BY <1>2 DEF ClarifierNode, PathInv
  <2>. QED
    BY <1>0, <1>2, <2>2, <2>3 DEF ClarifierNode, PathInv, TypeOK, inputs
<1>3. CASE ValidateNode
  <2>1. ScriptPaths(NormalizeSafe(context)) \subseteq Paths
    BY <1>0, NormalizedIsDocument, DefaultIsDocument DEF ScriptPaths, IsDocument
  <2>. QED
    BY <1>0, <1>3, <2>1 DEF ValidateNode, PathInv, TypeOK, inputs
<1>4. CASE UNCHANGED vars
  BY <1>4 DEF vars, inputs, PathInv, TypeOK
<1>. QED
  BY <1>1, <1>2, <1>3, <1>4 DEF Next

THEOREM PathInvariance == Spec => []PathInv
BY PathInvInit, PathInvStep, PTL DEF Spec

\* The pipeline works on a document, and every input path is a text.
THEOREM InputTypeCorrect == Spec => []TypeOK
<1>1. PathInv => TypeOK
  BY DEF PathInv
<1>. QED
  BY <1>1, PathInvariance, PTL

\* The search makes up no path, whatever the context and the terms
\* (resolve_input_path).
THEOREM SearchStaysInContext == Spec => []SearchEndsInContext
<1>1. PathInv => SearchEndsInContext
  BY DEF PathInv, SearchEndsInContext, EvaluatedFrom, Values
<1>. QED
  BY <1>1, PathInvariance, PTL

\* The clarifier's review of a path that Lua can spell changes nothing
\* (clarifier_node, load_spec_json).
THEOREM ReviewChangesNothing == Spec => []ReviewKeepsPath
<1>1. PathInv => ReviewKeepsPath
  <2>. SUFFICES ASSUME PathInv, node \notin {"spec", "clarifier"}, Spellable(specified),
                       Len(specified) >= 3, specified[2] \in Sections
                PROVE  reviewed = specified
    BY DEF ReviewKeepsPath
  <2>1. /\ IsDocument(context) /\ <<"wf">> \in DOMAIN context /\ raw \in Seq(Segments)
        /\ EvaluatedFrom(raw, context, specified)
        /\ reviewed \in EvaluateSpec(context, specified, request)
    BY DEF PathInv, TypeOK
  <2>2. CanonicalPath(specified) = specified
    BY <2>1, EvaluatedAgain
  <2>3. specified # NoPath
    BY DEF NoPath
  <2>4. EvaluatedFrom(specified, context, reviewed)
    BY <2>1, EvaluatedPath
  <2>. QED
    BY <2>2, <2>3, <2>4 DEF EvaluatedFrom
<1>. QED
  BY <1>1, PathInvariance, PTL
===============================================================================
