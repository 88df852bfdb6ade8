---------------------------- MODULE LuaCheckerProofs -----------------------------
(***************************************************************************)
(* Whatever the names and the scripts: the checker refuses for faults      *)
(* only, nesting a script changes nothing, and no statement of a script    *)
(* that passes calls a function that is documented as blocked.             *)
(***************************************************************************)
EXTENDS LuaChecker, SequenceTheorems, TLAPS

\* A reply is what Validate says of the script.
Replied ==
    /\ script \in Scripts
    /\ checked => errors = Validate(script)

LEMMA RepliedAlways == Spec => []Replied
<1>1. Init => Replied
  BY DEF Init, Replied
<1>2. Replied /\ [Next]_vars => Replied'
  BY DEF Replied, Next, Check, vars
<1>. QED
  BY <1>1, <1>2, PTL DEF Spec

-------------------------------------------------------------------------------
\* Sequences of the same length with the same members are the same.
LEMMA SameSequence ==
    ASSUME NEW S, NEW T, NEW s \in Seq(S), NEW t \in Seq(T), Len(s) = Len(t),
           \A i \in 1..Len(s) : s[i] = t[i]
    PROVE  s = t
<1>1. s = [i \in 1..Len(s) |-> s[i]] /\ t = [i \in 1..Len(t) |-> t[i]]
  OBVIOUS
<1>. QED
  BY <1>1

\* All but the last member of a sequence.
LEMMA FrontProperties ==
    ASSUME NEW S, NEW s \in Seq(S), s # <<>>
    PROVE  /\ Front(s) \in Seq(S)
           /\ Len(Front(s)) = Len(s) - 1
           /\ \A i \in DOMAIN Front(s) : i \in DOMAIN s /\ i < Len(s) /\ Front(s)[i] = s[i]
<1>1. Len(s) \in Nat \ {0}
  OBVIOUS
<1>2. /\ SubSeq(s, 1, Len(s) - 1) \in Seq(S)
      /\ Len(SubSeq(s, 1, Len(s) - 1)) = Len(s) - 1
      /\ \A i \in 1..(Len(s) - 1) : SubSeq(s, 1, Len(s) - 1)[i] = s[i]
  <2>. DEFINE m == Len(s) - 1
  <2>1. m \in Nat /\ \A i \in 1..m : s[i] \in S
    BY <1>1
  <2>. HIDE DEF m
  <2>2. /\ SubSeq(s, 1, m) \in Seq(S)
        /\ Len(SubSeq(s, 1, m)) = IF 1 <= m THEN m - 1 + 1 ELSE 0
        /\ \A i \in 1..(m - 1 + 1) : SubSeq(s, 1, m)[i] = s[1 + i - 1]
    BY <2>1, SubSeqProperties
  <2>3. \A i \in 1..m : i \in 1..(m - 1 + 1) /\ 1 + i - 1 = i
    BY <2>1
  <2>4. (IF 1 <= m THEN m - 1 + 1 ELSE 0) = m
    BY <2>1
  <2>5. \A i \in 1..m : SubSeq(s, 1, m)[i] = s[i]
    BY <2>2, <2>3
  <2>. QED
    BY <2>2, <2>4, <2>5 DEF m
<1>3. DOMAIN SubSeq(s, 1, Len(s) - 1) = 1..(Len(s) - 1) /\ DOMAIN s = 1..Len(s)
  BY <1>2, LenProperties
<1>. QED
  BY <1>1, <1>2, <1>3 DEF Front

\* A sequence of three.
LEMMA Triple ==
    ASSUME NEW S, NEW s \in Seq(S), NEW a, NEW b, NEW c
    PROVE  s = <<a, b, c>> <=> Len(s) = 3 /\ s[1] = a /\ s[2] = b /\ s[3] = c
<1>. DEFINE t == <<a, b, c>>
<1>1. t \in Seq({a, b, c}) /\ Len(t) = 3 /\ t[1] = a /\ t[2] = b /\ t[3] = c
  OBVIOUS
<1>. HIDE DEF t
<1>2. ASSUME Len(s) = 3, s[1] = a, s[2] = b, s[3] = c
      PROVE  s = t
  <2>1. \A i \in 1..3 : i = 1 \/ i = 2 \/ i = 3
    OBVIOUS
  <2>2. \A i \in 1..Len(s) : s[i] = t[i]
    BY <1>1, <1>2, <2>1
  <2>3. Len(s) = Len(t)
    BY <1>1, <1>2
  <2>. QED
    BY <1>1, <2>2, <2>3, SameSequence
<1>3. s = t => Len(s) = 3 /\ s[1] = a /\ s[2] = b /\ s[3] = c
  BY <1>1
<1>4. s = t <=> Len(s) = 3 /\ s[1] = a /\ s[2] = b /\ s[3] = c
  BY <1>2, <1>3
<1>. QED
  BY <1>4 DEF t

\* The name of a function is a sequence.
LEMMA FunctionNameIsSequence ==
    ASSUME NEW ref \in Seq(Keys)
    PROVE  \E S : FunctionName(ref) \in Seq(S)
<1>. DEFINE S == {ref[i].name : i \in DOMAIN ref}
            all == [i \in DOMAIN ref |-> ref[i].name]
<1>1. all \in Seq(S)
  <2>1. Len(ref) \in Nat /\ DOMAIN ref = 1..Len(ref)
    BY LenProperties
  <2>2. all \in [1..Len(ref) -> S]
    BY <2>1
  <2>. HIDE DEF all, S
  <2>. QED
    BY <2>1, <2>2
<1>2. <<"unknown">> \in Seq({"unknown"})
  OBVIOUS
<1>3. FunctionName(ref) = all \/ FunctionName(ref) = <<"unknown">>
  BY DEF FunctionName
<1>. HIDE DEF all, S
<1>. QED
  BY <1>1, <1>2, <1>3

\* strings.HasPrefix(funcName, "_utils.array."), position by position.
LEMMA BelowArray ==
    ASSUME NEW S, NEW name \in Seq(S)
    PROVE  IsStrictPrefix(<<"_utils", "array">>, name)
             <=> Len(name) > 2 /\ name[1] = "_utils" /\ name[2] = "array"
<1>. DEFINE array == <<"_utils", "array">>
<1>1. /\ array \in Seq({"_utils", "array"}) /\ Len(array) = 2
      /\ array[1] = "_utils" /\ array[2] = "array"
  OBVIOUS
<1>. HIDE DEF array
<1>2. SubSeq(array, 1, 2) = array
  BY <1>1, SubSeqFull
<1>3. ASSUME Len(name) >= 2
      PROVE  SubSeq(name, 1, 2) = array <=> name[1] = "_utils" /\ name[2] = "array"
  <2>1. /\ SubSeq(name, 1, 2) \in Seq(S) /\ Len(SubSeq(name, 1, 2)) = 2
        /\ SubSeq(name, 1, 2)[1] = name[1] /\ SubSeq(name, 1, 2)[2] = name[2]
    BY <1>3
  <2>2. 1..2 = {1, 2}
    OBVIOUS
  <2>. QED
    BY <1>1, <2>1, <2>2, SameSequence
<1>4. IsPrefix(array, name) <=> Len(name) >= 2 /\ name[1] = "_utils" /\ name[2] = "array"
  BY <1>1, <1>2, <1>3 DEF IsPrefix
<1>5. ASSUME Len(name) = 2, name[1] = "_utils", name[2] = "array"
      PROVE  name = array
  <2>1. \A i \in 1..2 : name[i] = array[i]
    BY <1>1, <1>5
  <2>. QED
    BY <1>1, <1>5, <2>1, SameSequence
<1>6. Len(name) \in Nat
  OBVIOUS
<1>7. name = array => Len(name) = 2
  BY <1>1
<1>8. IsStrictPrefix(array, name) <=> IsPrefix(array, name) /\ name # array
  BY DEF IsStrictPrefix
<1>9. IsStrictPrefix(array, name) <=>
        Len(name) >= 2 /\ Len(name) # 2 /\ name[1] = "_utils" /\ name[2] = "array"
  BY <1>4, <1>5, <1>7, <1>8, Zenon
<1>10. \A n \in Nat : n >= 2 /\ n # 2 <=> n > 2
  OBVIOUS
<1>. QED
  BY <1>6, <1>9, <1>10 DEF array

\* The call of something below _utils.array that the checker refuses.
LEMMA ArrayUsage ==
    ASSUME NEW ref \in Seq(Keys)
    PROVE  CheckArrayUsage(ref) = IF OtherArrayCall(FunctionName(ref)) THEN {"array helper"} ELSE {}
<1>. DEFINE name == FunctionName(ref)
<1>. PICK S : name \in Seq(S)
  BY FunctionNameIsSequence
<1>. HIDE DEF name
<1>1. Len(name) \in Nat
  BY LenProperties
<1>2. name \in ArrayHelpers <=>
        /\ Len(name) = 3 /\ name[1] = "_utils" /\ name[2] = "array"
        /\ name[3] = "new" \/ name[3] = "markAsArray"
  <2>1. \A c : name = <<"_utils", "array", c>> <=>
                Len(name) = 3 /\ name[1] = "_utils" /\ name[2] = "array" /\ name[3] = c
    BY Triple
  <2>. QED
    BY <2>1 DEF ArrayHelpers
<1>3. \A n \in Nat : n > 2 => (n # 3 <=> n > 3)
  OBVIOUS
<1>4. IsStrictPrefix(<<"_utils", "array">>, name)
        <=> Len(name) > 2 /\ name[1] = "_utils" /\ name[2] = "array"
  BY BelowArray
<1>5. IsStrictPrefix(<<"_utils", "array">>, name) /\ name \notin ArrayHelpers
          <=> OtherArrayCall(name)
  BY <1>1, <1>2, <1>3, <1>4 DEF OtherArrayCall
<1>. QED
  BY <1>5 DEF CheckArrayUsage, name

-------------------------------------------------------------------------------
\* What is found at a use is a fault of it.
LEMMA FoundIsFault ==
    ASSUME NEW u \in Uses
    PROVE  Found(u) \subseteq Faults(u)
<1>1. u.ref \in Seq(Keys)
  BY DEF Uses
<1>2. CheckAttrGet(u.ref) \subseteq
          IF BesideSections(u.ref) THEN {"invalid access", "dynamic access"} ELSE {}
  BY DEF CheckAttrGet, BesideSections, Sections
<1>3. CASE u.shape = "call"
  BY <1>1, <1>2, <1>3, ArrayUsage DEF Found, Faults, CheckFuncCall
<1>4. CASE u.shape # "call"
  BY <1>2, <1>4 DEF Found, Faults
<1>. QED
  BY <1>3, <1>4

\* A statement in blocks is walked.
LEMMA CallStatementIsWalked ==
    ASSUME NEW s \in Scripts, NEW u \in CallStatements(s)
    PROVE  u \in Uses /\ u.shape = "call" /\ WalkedStatement(u.way)
<1>1. u \in Uses /\ u.shape = "call" /\ Last(u.way) = CallStmt
  BY ScriptsAssumption DEF CallStatements
<1>2. u.way \in Seq(Edges) /\ u.way # <<>>
  BY <1>1 DEF Uses, Ways
<1>3. \A i \in DOMAIN Front(u.way) : Front(u.way)[i] \in Blocks
  BY <1>2, FrontProperties DEF CallStatements
<1>4. Blocks \subseteq WalkedEdges
  BY DEF Blocks, WalkedEdges
<1>. QED
  BY <1>1, <1>3, <1>4 DEF WalkedStatement, Walked

\* A block is walked, and it is no call.
LEMMA BlockEdges ==
    ASSUME NEW block \in Blocks
    PROVE  block \in WalkedEdges /\ block \in Edges /\ block # CallStmt /\ block \notin CallParts
BY DEF Blocks, WalkedEdges, Edges, CallStmt, CallParts

\* A way with an edge in front of it.
LEMMA Prepended ==
    ASSUME NEW S, NEW b \in S, NEW s \in Seq(S)
    PROVE  /\ <<b>> \o s \in Seq(S) /\ Len(<<b>> \o s) = Len(s) + 1
           /\ (<<b>> \o s)[1] = b
           /\ \A i \in 1..Len(s) : (<<b>> \o s)[i + 1] = s[i]
           /\ \A i \in 2..(Len(s) + 1) : (<<b>> \o s)[i] = s[i - 1]
OBVIOUS

\* The walk gets down a way through a block if it gets down the rest of the way.
LEMMA WalkedThroughBlock ==
    ASSUME NEW block \in Blocks, NEW way \in Seq(Edges)
    PROVE  Walked(<<block>> \o way) <=> Walked(way)
<1>. DEFINE nested == <<block>> \o way
            Taken(w, i) ==
              \/ w[i] \in WalkedEdges
              \/ w[i] = CallStmt /\ i < Len(w) /\ w[i + 1] \in CallParts
              \/ w[i] \in CallParts /\ i > 1 /\ w[i - 1] = CallStmt
<1>0. block \in WalkedEdges /\ block \in Edges /\ block # CallStmt
  BY BlockEdges
<1>1. /\ nested \in Seq(Edges) /\ Len(nested) = Len(way) + 1 /\ nested[1] = block
      /\ \A i \in 1..Len(way) : nested[i + 1] = way[i]
  BY <1>0, Prepended
<1>2. Len(way) \in Nat /\ DOMAIN way = 1..Len(way) /\ DOMAIN nested = 1..(Len(way) + 1)
  BY <1>1, LenProperties
<1>. HIDE DEF nested
<1>3. ASSUME NEW i \in 1..Len(way)
      PROVE  Taken(nested, i + 1) <=> Taken(way, i)
  <2>1. nested[i + 1] = way[i]
    BY <1>1
  <2>2. i < Len(way) => nested[(i + 1) + 1] = way[i + 1] /\ i + 1 < Len(nested)
    BY <1>1, <1>2
  <2>3. i + 1 < Len(nested) => i < Len(way)
    BY <1>1, <1>2
  <2>4. i > 1 => nested[(i + 1) - 1] = way[i - 1]
    <3>1. i > 1 => nested[(i - 1) + 1] = way[i - 1]
      BY <1>1, <1>2
    <3>2. (i + 1) - 1 = (i - 1) + 1
      OBVIOUS
    <3>. QED
      BY <3>1, <3>2
  <2>5. ~(i > 1) => nested[(i + 1) - 1] = block
    BY <1>1, <1>2
  <2>6. i + 1 > 1
    BY <1>2
  <2>. QED
    BY <1>0, <2>1, <2>2, <2>3, <2>4, <2>5, <2>6
<1>4. Taken(nested, 1)
  BY <1>0, <1>1
<1>5. \A j \in 1..(Len(way) + 1) : j = 1 \/ \E i \in 1..Len(way) : j = i + 1
  <2>1. ASSUME NEW j \in 1..(Len(way) + 1), j # 1
        PROVE  j - 1 \in 1..Len(way) /\ j = (j - 1) + 1
    BY <1>2, <2>1
  <2>. QED
    BY <2>1
<1>6. \A i \in 1..Len(way) : i + 1 \in 1..(Len(way) + 1)
  BY <1>2
<1>. HIDE DEF Taken
<1>7. (\A i \in DOMAIN nested : Taken(nested, i)) <=> (\A i \in DOMAIN way : Taken(way, i))
  BY <1>2, <1>3, <1>4, <1>5, <1>6
<1>. QED
  BY <1>7 DEF Walked, Taken, nested

\* The same for a statement.
LEMMA StatementThroughBlock ==
    ASSUME NEW block \in Blocks, NEW way \in Seq(Edges), way # <<>>
    PROVE  WalkedStatement(<<block>> \o way) <=> WalkedStatement(way)
<1>. DEFINE nested == <<block>> \o way
<1>0. block \in Edges
  BY BlockEdges
<1>1. /\ nested \in Seq(Edges) /\ Len(nested) = Len(way) + 1 /\ nested[1] = block
      /\ \A i \in 1..Len(way) : nested[i + 1] = way[i]
      /\ \A i \in 2..(Len(way) + 1) : nested[i] = way[i - 1]
  BY <1>0, Prepended
<1>2. Len(way) \in Nat \ {0}
  OBVIOUS
<1>. HIDE DEF nested
<1>3. nested # <<>>
  BY <1>1, <1>2
<1>4. Last(nested) = Last(way)
  BY <1>1, <1>2 DEF Last
<1>5. /\ Front(nested) \in Seq(Edges) /\ Len(Front(nested)) = Len(way)
      /\ \A i \in DOMAIN Front(nested) : Front(nested)[i] = nested[i]
  BY <1>1, <1>2, <1>3, FrontProperties
<1>6. /\ Front(way) \in Seq(Edges) /\ Len(Front(way)) = Len(way) - 1
      /\ \A i \in DOMAIN Front(way) : Front(way)[i] = way[i]
  BY FrontProperties
<1>7. /\ <<block>> \o Front(way) \in Seq(Edges) /\ Len(<<block>> \o Front(way)) = Len(way)
      /\ (<<block>> \o Front(way))[1] = block
      /\ \A i \in 2..Len(way) : (<<block>> \o Front(way))[i] = Front(way)[i - 1]
  <2>1. (Len(way) - 1) + 1 = Len(way)
    BY <1>2
  <2>. QED
    BY <1>0, <1>6, <2>1, Prepended
<1>8. ASSUME NEW i \in 1..Len(way)
      PROVE  Front(nested)[i] = (<<block>> \o Front(way))[i]
  <2>1. Front(nested)[i] = nested[i]
    BY <1>5, LenProperties
  <2>2. CASE i = 1
    BY <1>1, <1>7, <2>1, <2>2
  <2>3. CASE i # 1
    <3>1. i \in 2..Len(way) /\ i \in 2..(Len(way) + 1) /\ i - 1 \in 1..(Len(way) - 1)
      BY <1>2, <2>3
    <3>2. Front(way)[i - 1] = way[i - 1]
      BY <1>6, <3>1, LenProperties
    <3>. QED
      BY <1>1, <1>7, <2>1, <3>1, <3>2
  <2>. QED
    BY <2>2, <2>3
<1>9. Front(nested) = <<block>> \o Front(way)
  BY <1>5, <1>7, <1>8, SameSequence
<1>. QED
  BY <1>4, <1>6, <1>9, WalkedThroughBlock DEF WalkedStatement, nested

\* So the same is found at a use in a block.
LEMMA FoundInBlock ==
    ASSUME NEW block \in Blocks, NEW u \in Uses
    PROVE  Found([u EXCEPT !.way = <<block>> \o @]) = Found(u)
<1>. DEFINE v == [u EXCEPT !.way = <<block>> \o @]
<1>1. v.way = <<block>> \o u.way /\ v.ref = u.ref /\ v.shape = u.shape
  BY DEF Uses
<1>2. u.way \in Seq(Edges) /\ u.way # <<>>
  BY DEF Uses, Ways
<1>. HIDE DEF v
<1>3. Walked(v.way) <=> Walked(u.way)
  BY <1>1, <1>2, WalkedThroughBlock
<1>4. WalkedStatement(v.way) <=> WalkedStatement(u.way)
  BY <1>1, <1>2, StatementThroughBlock
<1>5. Found(v) = Found(u)
  BY <1>1, <1>3, <1>4 DEF Found
<1>. QED
  BY <1>5 DEF v

-------------------------------------------------------------------------------
\* No script is refused for a fault that it does not have, whatever it uses and however
\* deep (Validate).
THEOREM OnlyFaultsAreRefused == Spec => []RefusalsAreDeserved
<1>1. Replied => RefusalsAreDeserved
  <2>. SUFFICES ASSUME Replied, checked, script.parses, ~script.jsonPath, ~script.blank
                PROVE  errors \subseteq UNION {Faults(u) : u \in script.uses}
    BY DEF RefusalsAreDeserved
  <2>1. errors = UNION {Found(u) : u \in script.uses}
    BY DEF Replied, Validate
  <2>2. \A u \in script.uses : u \in Uses
    BY ScriptsAssumption DEF Replied
  <2>. QED
    BY <2>1, <2>2, FoundIsFault
<1>. QED
  BY <1>1, RepliedAlways, PTL

\* Putting a script into a block changes nothing of what the checker says, whatever the
\* script uses and however deep it does (walk).
THEOREM NestingIsImmaterial == Spec => []NestingChangesNothing
<1>1. Replied => NestingChangesNothing
  <2>. SUFFICES ASSUME Replied, checked, NEW block \in Blocks
                PROVE  Validate(Nested(script, block)) = Validate(script)
    BY DEF NestingChangesNothing, Replied
  <2>. DEFINE nested == Nested(script, block)
  <2>1. \A u \in script.uses : Found([u EXCEPT !.way = <<block>> \o @]) = Found(u)
    BY ScriptsAssumption, FoundInBlock DEF Replied
  <2>2. /\ nested.blank = script.blank /\ nested.wrapped = script.wrapped
        /\ nested.jsonPath = script.jsonPath /\ nested.parses = script.parses
        /\ nested.uses = {[u EXCEPT !.way = <<block>> \o @] : u \in script.uses}
    BY ScriptsAssumption DEF Replied, Nested
  <2>. HIDE DEF nested
  <2>3. UNION {Found(v) : v \in nested.uses} = UNION {Found(u) : u \in script.uses}
    <3>1. ASSUME NEW x, NEW v \in nested.uses, x \in Found(v)
          PROVE  \E u \in script.uses : x \in Found(u)
      <4>1. PICK u \in script.uses : v = [u EXCEPT !.way = <<block>> \o @]
        BY <2>2
      <4>2. Found(v) = Found(u)
        BY <2>1, <4>1
      <4>. QED
        BY <3>1, <4>2
    <3>2. ASSUME NEW x, NEW u \in script.uses, x \in Found(u)
          PROVE  \E v \in nested.uses : x \in Found(v)
      <4>1. PICK v \in nested.uses : v = [u EXCEPT !.way = <<block>> \o @]
        BY <2>2
      <4>2. Found(v) = Found(u)
        BY <2>1, <4>1
      <4>. QED
        BY <3>2, <4>2
    <3>. QED
      BY <3>1, <3>2, Zenon
  <2>4. Validate(nested) = Validate(script)
    BY <2>2, <2>3 DEF Validate
  <2>. QED
    BY <2>4 DEF nested
<1>. QED
  BY <1>1, RepliedAlways, PTL

\* No statement of a script that passes calls a function that README.md names as blocked,
\* debug.* aside, or a helper it does not permit, however deep its blocks are (walk,
\* checkFuncCall, checkArrayUsage).
THEOREM DocumentedCallsAreFound == Spec => []StatementCallsAreChecked
<1>1. DocumentedFunctions \subseteq Forbidden
  BY DEF DocumentedFunctions, Forbidden, LibraryFunctions, Of
<1>2. Replied => StatementCallsAreChecked
  <2>. SUFFICES ASSUME Replied, checked, errors = {}, NEW u \in CallStatements(script)
                PROVE  /\ FunctionName(u.ref) \notin DocumentedFunctions
                       /\ ~OtherArrayCall(FunctionName(u.ref))
    BY DEF StatementCallsAreChecked
  <2>1. u \in Uses /\ u.shape = "call" /\ WalkedStatement(u.way) /\ u \in script.uses
    BY CallStatementIsWalked DEF Replied, CallStatements
  <2>2. Found(u) = {}
    BY <2>1 DEF Replied, Validate
  <2>3. CheckFuncCall(u.ref) = {} /\ CheckArrayUsage(u.ref) = {}
    BY <2>1, <2>2 DEF Found
  <2>4. u.ref \in Seq(Keys)
    BY <2>1 DEF Uses
  <2>. QED
    BY <1>1, <2>3, <2>4, ArrayUsage DEF CheckFuncCall
<1>. QED
  BY <1>2, RepliedAlways, PTL
===============================================================================
