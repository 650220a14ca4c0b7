----------------------------- MODULE SemaProofs -----------------------------
(***************************************************************************)
(* Proofs about Sema, for every set of names, specifiers and constructs    *)
(* and trees of any size: the scopes are opened and closed in pairs, a     *)
(* name keeps the symbol it was declared with, and a constant expression   *)
(* reads no constant but its own.  Then about what Sema's state means: the *)
(* types in the table and of the results, and, for the constructs          *)
(* SemaVisitor handles, that it never dereferences a null type, knows no   *)
(* name C does not know and resolves a name as C does.                     *)
(***************************************************************************)
EXTENDS SemaProps, SequenceTheorems, FiniteSetTheorems, TLAPS

-----------------------------------------------------------------------------
(* The invariant: the call stack is a sequence of frames, the table a      *)
(* sequence of scopes, one for the file and one for each visit under way   *)
(* that opens one.                                                         *)

IsSequence(s) == s \in Seq({s[i] : i \in DOMAIN s})
\* A binary operator waits for its right side in the frame that names it.
IsFrame(frame) ==
    /\ DOMAIN frame = {"at", "arg", "saved"}
    /\ frame.at = "rightSide" => frame.arg \in BinaryOperator
IsStack(s) == IsSequence(s) /\ \A i \in DOMAIN s : IsFrame(s[i])

Closers(s) == {i \in DOMAIN s : s[i].at \in ClosesScope}
Opened(s) == Cardinality(Closers(s))

ScopeInv == IsSequence(table) /\ IsStack(todo) /\ Len(table) = 1 + Opened(todo)

-----------------------------------------------------------------------------
(* Sequences of which nothing is known but that they are *)

LEMMA SequenceFacts ==
    ASSUME NEW s, IsSequence(s)
    PROVE  Len(s) \in Nat /\ DOMAIN s = 1 .. Len(s)
BY LenProperties DEF IsSequence

LEMMA ElementsOf ==
    ASSUME NEW s, NEW S, s \in Seq(S)
    PROVE  IsSequence(s)
<1> DEFINE R == {s[i] : i \in DOMAIN s}
<1>1. \A i \in 1 .. Len(s) : s[i] \in R
  BY LenProperties
<1> HIDE DEF R
<1>2. s \in Seq(R)
  BY <1>1
<1> QED
  BY <1>2 DEF IsSequence, R

LEMMA ConcatFacts ==
    ASSUME NEW s, NEW t, IsSequence(s), IsSequence(t)
    PROVE  /\ IsSequence(s \o t) /\ Len(s \o t) = Len(s) + Len(t)
           /\ \A i \in 1 .. Len(s) + Len(t) :
                (s \o t)[i] = IF i <= Len(s) THEN s[i] ELSE t[i - Len(s)]
<1> DEFINE S == {s[i] : i \in DOMAIN s}
           T == {t[i] : i \in DOMAIN t}
<1>1. s \in Seq(S) /\ t \in Seq(T)
  BY DEF IsSequence
<1> HIDE DEF S, T
<1>2. s \in Seq(S \cup T)
  BY <1>1, SeqMonotonic
<1>3. t \in Seq(S \cup T)
  BY <1>1, SeqMonotonic
<1>4. /\ s \o t \in Seq(S \cup T) /\ Len(s \o t) = Len(s) + Len(t)
      /\ \A i \in 1 .. Len(s) + Len(t) :
            (s \o t)[i] = IF i <= Len(s) THEN s[i] ELSE t[i - Len(s)]
  BY <1>2, <1>3, ConcatProperties
<1> QED
  BY <1>4, ElementsOf

LEMMA TailFacts ==
    ASSUME NEW s, IsSequence(s), s # <<>>
    PROVE  /\ IsSequence(Tail(s)) /\ Len(Tail(s)) = Len(s) - 1 /\ Len(s) \in Nat \ {0}
           /\ \A i \in 1 .. Len(s) - 1 : Tail(s)[i] = s[i + 1]
           /\ Head(s) = s[1]
<1> DEFINE S == {s[i] : i \in DOMAIN s}
<1>1. s \in Seq(S)
  BY DEF IsSequence
<1> HIDE DEF S
<1>2. /\ Tail(s) \in Seq(S) /\ Len(Tail(s)) = Len(s) - 1
      /\ \A i \in 1 .. Len(Tail(s)) : Tail(s)[i] = s[i + 1]
  BY <1>1, HeadTailProperties
<1>3. Len(s) \in Nat \ {0}
  BY <1>1, EmptySeq
<1>4. IsSequence(Tail(s))
  BY <1>2, ElementsOf
<1>5. Head(s) = s[1]
  OBVIOUS
<1> QED
  BY <1>2, <1>3, <1>4, <1>5

-----------------------------------------------------------------------------
(* How many scopes a stack has open *)

LEMMA ClosersFinite ==
    ASSUME NEW s, IsSequence(s)
    PROVE  IsFiniteSet(Closers(s)) /\ Opened(s) \in Nat /\ Closers(s) \subseteq 1 .. Len(s)
<1>1. Closers(s) \in SUBSET (1 .. Len(s))
  BY SequenceFacts DEF Closers
<1>2. IsFiniteSet(1 .. Len(s))
  BY SequenceFacts, FS_Interval
<1>3. IsFiniteSet(Closers(s))
  BY <1>1, <1>2, FS_Subset
<1> QED
  BY <1>1, <1>3, FS_CardinalityType DEF Opened

LEMMA OpenedConcat ==
    ASSUME NEW s, NEW t, IsStack(s), IsStack(t)
    PROVE  IsStack(s \o t) /\ Opened(s \o t) = Opened(s) + Opened(t)
<1> DEFINE n == Len(s)
           T == {i + n : i \in Closers(t)}
           f == [i \in Closers(t) |-> i + n]
<1>1. IsSequence(s) /\ IsSequence(t)
  BY DEF IsStack
<1>2. /\ n \in Nat /\ Len(t) \in Nat /\ DOMAIN s = 1 .. n /\ DOMAIN t = 1 .. Len(t)
  BY <1>1, SequenceFacts
<1>3. /\ IsSequence(s \o t) /\ DOMAIN (s \o t) = 1 .. n + Len(t)
      /\ \A i \in 1 .. n + Len(t) : (s \o t)[i] = IF i <= n THEN s[i] ELSE t[i - n]
  BY <1>1, ConcatFacts, SequenceFacts
<1>4. Closers(s) \subseteq 1 .. n /\ Closers(t) \subseteq 1 .. Len(t)
  BY <1>1, ClosersFinite
<1> HIDE DEF n
<1>5. Closers(s \o t) = Closers(s) \cup T
  <2>1. ASSUME NEW i \in Closers(s \o t) PROVE i \in Closers(s) \cup T
    <3>1. i \in 1 .. n + Len(t) /\ (s \o t)[i].at \in ClosesScope
      BY <1>3, <2>1 DEF Closers
    <3>2. CASE i <= n
      BY <1>2, <1>3, <3>1, <3>2 DEF Closers
    <3>3. CASE ~(i <= n)
      <4>1. i - n \in DOMAIN t /\ t[i - n].at \in ClosesScope /\ i = (i - n) + n
        BY <1>2, <1>3, <3>1, <3>3
      <4>2. i - n \in Closers(t)
        BY <4>1 DEF Closers
      <4> QED
        BY <4>1, <4>2
    <3> QED
      BY <3>2, <3>3
  <2>2. ASSUME NEW i \in Closers(s) PROVE i \in Closers(s \o t)
    BY <1>2, <1>3, <2>2 DEF Closers
  <2>3. ASSUME NEW j \in Closers(t) PROVE j + n \in Closers(s \o t)
    <3>1. j \in 1 .. Len(t) /\ t[j].at \in ClosesScope
      BY <1>2, <2>3 DEF Closers
    <3>2. j + n \in 1 .. n + Len(t) /\ ~(j + n <= n) /\ (j + n) - n = j
      BY <1>2, <3>1
    <3> QED
      BY <1>3, <3>1, <3>2 DEF Closers
  <2> QED
    BY <2>1, <2>2, <2>3
<1>6. Closers(s) \cap T = {}
  BY <1>2, <1>4
<1>7. f \in Bijection(Closers(t), T)
  BY <1>2, <1>4 DEF Bijection, Injection, Surjection, IsInjective
<1>8. IsFiniteSet(Closers(s)) /\ IsFiniteSet(Closers(t)) /\ Opened(s) \in Nat /\ Opened(t) \in Nat
  BY <1>1, ClosersFinite
<1>9. IsFiniteSet(T) /\ Cardinality(T) = Opened(t)
  BY <1>7, <1>8, FS_Bijection DEF ExistsBijection, Opened
<1> HIDE DEF T
<1>10. Opened(s \o t) = Opened(s) + Opened(t)
  <2>1. Cardinality(Closers(s) \cup T)
            = Cardinality(Closers(s)) + Cardinality(T) - Cardinality(Closers(s) \cap T)
    BY <1>8, <1>9, FS_Union
  <2>2. Cardinality(Closers(s) \cap T) = 0
    BY <1>6, FS_EmptySet
  <2>3. Opened(s \o t) = Opened(s) + Opened(t) - 0
    BY <1>5, <1>9, <2>1, <2>2 DEF Opened
  <2> QED
    BY <1>8, <2>3
<1>11. \A i \in DOMAIN (s \o t) : IsFrame((s \o t)[i])
  BY <1>2, <1>3 DEF IsStack
<1> QED
  BY <1>3, <1>10, <1>11 DEF IsStack

LEMMA OpenedOne ==
    ASSUME NEW frame, IsFrame(frame)
    PROVE  /\ IsStack(<<frame>>)
           /\ Opened(<<frame>>) = IF frame.at \in ClosesScope THEN 1 ELSE 0
<1>1. IsSequence(<<frame>>)
  <2>1. <<frame>> \in Seq({frame})
    OBVIOUS
  <2> QED
    BY <2>1, ElementsOf
<1>2. DOMAIN <<frame>> = {1} /\ <<frame>>[1] = frame
  OBVIOUS
<1>3. Closers(<<frame>>) = IF frame.at \in ClosesScope THEN {1} ELSE {}
  BY <1>2 DEF Closers
<1> QED
  BY <1>1, <1>2, <1>3, FS_Singleton, FS_EmptySet DEF IsStack, Opened

LEMMA OpenedNone == IsStack(<<>>) /\ Opened(<<>>) = 0
<1>1. IsSequence(<<>>)
  BY EmptySeq DEF IsSequence
<1>2. DOMAIN <<>> = {}
  OBVIOUS
<1> QED
  BY <1>1, <1>2, FS_EmptySet DEF IsStack, Opened, Closers

\* The innermost frame and the rest.
LEMMA OpenedTail ==
    ASSUME NEW s, IsStack(s), s # <<>>
    PROVE  /\ IsStack(Tail(s)) /\ IsFrame(Head(s)) /\ Opened(Tail(s)) \in Nat
           /\ Opened(s) = Opened(Tail(s)) + (IF Head(s).at \in ClosesScope THEN 1 ELSE 0)
<1>1. IsSequence(s)
  BY DEF IsStack
<1>2. /\ IsSequence(Tail(s)) /\ Len(Tail(s)) = Len(s) - 1 /\ Len(s) \in Nat \ {0}
      /\ \A i \in 1 .. Len(s) - 1 : Tail(s)[i] = s[i + 1]
      /\ Head(s) = s[1]
  BY <1>1, TailFacts
<1>3. DOMAIN s = 1 .. Len(s) /\ DOMAIN Tail(s) = 1 .. Len(s) - 1
  BY <1>1, <1>2, SequenceFacts
<1>4. IsFrame(Head(s)) /\ \A i \in DOMAIN Tail(s) : IsFrame(Tail(s)[i])
  BY <1>2, <1>3 DEF IsStack
<1>5. IsStack(Tail(s))
  BY <1>2, <1>4 DEF IsStack
<1>6. IsStack(<<Head(s)>>)
      /\ Opened(<<Head(s)>>) = IF Head(s).at \in ClosesScope THEN 1 ELSE 0
  BY <1>4, OpenedOne
<1>7. s = <<Head(s)>> \o Tail(s)
  <2> DEFINE S == {s[i] : i \in DOMAIN s}
  <2>1. s \in Seq(S)
    BY <1>1 DEF IsSequence
  <2> HIDE DEF S
  <2> QED
    BY <2>1
<1>8. Opened(s) = Opened(<<Head(s)>>) + Opened(Tail(s))
  BY <1>5, <1>6, <1>7, OpenedConcat
<1>9. Opened(Tail(s)) \in Nat
  BY <1>2, ClosersFinite
<1> QED
  BY <1>4, <1>5, <1>6, <1>8, <1>9

-----------------------------------------------------------------------------
(* Frames that open nothing *)

\* No visit of a constant expression waits in it.
NoConstants(s) == \A i \in DOMAIN s : s[i].at # "constantExpression"
\* A frame, or a sequence of them, that opens no scope and is no constant.
Plain(frame) ==
    IsFrame(frame) /\ frame.at \notin ClosesScope /\ frame.at # "constantExpression"
PlainStack(s) == IsStack(s) /\ Opened(s) = 0 /\ NoConstants(s)

LEMMA PlainFrames ==
    /\ \A at, arg, saved :
         at \notin {"compound", "functionDefinition", "rightSide", "constantExpression"} =>
         Plain(Resume(at, arg, saved))
    /\ \A at : at \notin {"compound", "functionDefinition", "rightSide", "constantExpression"} =>
         Plain(Frame(at))
    /\ \A n, role, type : Plain(Declarator(n, role, type))
    /\ \A rule : Plain(Expr(rule))
    /\ \A op \in BinaryOperator : \A saved : Plain(Resume("rightSide", op, saved))
    /\ \A op \in BinaryOperator : \A arg, saved : Plain(Resume(op, arg, saved))
BY DEF Plain, IsFrame, Resume, Frame, Declarator, Expr, ClosesScope, BinaryOperator

LEMMA PlainNone == PlainStack(<<>>)
BY OpenedNone DEF PlainStack, NoConstants

LEMMA PlainOne ==
    ASSUME NEW a, Plain(a)
    PROVE  PlainStack(<<a>>)
BY OpenedOne DEF Plain, PlainStack, NoConstants

LEMMA NoConstantsConcat ==
    ASSUME NEW s, NEW t, IsStack(s), IsStack(t), NoConstants(s), NoConstants(t)
    PROVE  NoConstants(s \o t)
<1>1. IsSequence(s) /\ IsSequence(t)
  BY DEF IsStack
<1>2. /\ Len(s) \in Nat /\ Len(t) \in Nat /\ DOMAIN s = 1 .. Len(s) /\ DOMAIN t = 1 .. Len(t)
      /\ DOMAIN (s \o t) = 1 .. Len(s) + Len(t)
      /\ \A i \in 1 .. Len(s) + Len(t) :
            (s \o t)[i] = IF i <= Len(s) THEN s[i] ELSE t[i - Len(s)]
  BY <1>1, ConcatFacts, SequenceFacts
<1> QED
  BY <1>2 DEF NoConstants

LEMMA PlainConcat ==
    ASSUME NEW s, NEW t, PlainStack(s), PlainStack(t)
    PROVE  PlainStack(s \o t)
BY OpenedConcat, NoConstantsConcat DEF PlainStack

LEMMA PlainTwo ==
    ASSUME NEW a, NEW b, Plain(a), Plain(b)
    PROVE  PlainStack(<<a, b>>)
<1> DEFINE s == <<a, b>>
<1>1. s \in Seq({a, b}) /\ DOMAIN s = {1, 2} /\ s[1] = a /\ s[2] = b
  OBVIOUS
<1> HIDE DEF s
<1>2. IsSequence(s)
  BY <1>1, ElementsOf
<1>3. Closers(s) = {} /\ NoConstants(s) /\ \A i \in DOMAIN s : IsFrame(s[i])
  BY <1>1 DEF Closers, Plain, NoConstants
<1>4. PlainStack(s)
  BY <1>2, <1>3, FS_EmptySet DEF PlainStack, IsStack, Opened
<1> QED
  BY <1>4 DEF s

LEMMA PlainThree ==
    ASSUME NEW a, NEW b, NEW c, Plain(a), Plain(b), Plain(c)
    PROVE  PlainStack(<<a, b, c>>)
<1> DEFINE s == <<a, b, c>>
<1>1. s \in Seq({a, b, c}) /\ DOMAIN s = {1, 2, 3} /\ s[1] = a /\ s[2] = b /\ s[3] = c
  OBVIOUS
<1> HIDE DEF s
<1>2. IsSequence(s)
  BY <1>1, ElementsOf
<1>3. Closers(s) = {} /\ NoConstants(s) /\ \A i \in DOMAIN s : IsFrame(s[i])
  BY <1>1 DEF Closers, Plain, NoConstants
<1>4. PlainStack(s)
  BY <1>2, <1>3, FS_EmptySet DEF PlainStack, IsStack, Opened
<1> QED
  BY <1>4 DEF s

\* What a visit that opens a scope puts on the stack ends in one closer.
OpensOne(s) == IsStack(s) /\ Opened(s) = 1 /\ NoConstants(s)
LEMMA OneCloser ==
    ASSUME NEW a, NEW b, NEW c, Plain(a), Plain(b), IsFrame(c), c.at \in ClosesScope
    PROVE  OpensOne(<<a, b, c>>)
<1> DEFINE s == <<a, b, c>>
<1>1. s \in Seq({a, b, c}) /\ DOMAIN s = {1, 2, 3} /\ s[1] = a /\ s[2] = b /\ s[3] = c
  OBVIOUS
<1> HIDE DEF s
<1>2. IsSequence(s)
  BY <1>1, ElementsOf
<1>3. Closers(s) = {3} /\ NoConstants(s) /\ \A i \in DOMAIN s : IsFrame(s[i])
  BY <1>1 DEF Closers, Plain, NoConstants, ClosesScope
<1>4. OpensOne(s)
  BY <1>2, <1>3, FS_Singleton DEF OpensOne, IsStack, Opened
<1> QED
  BY <1>4 DEF s

LEMMA OneCloserOfFour ==
    ASSUME NEW a, NEW b, NEW c, NEW d, Plain(a), Plain(b), Plain(c), IsFrame(d),
           d.at \in ClosesScope
    PROVE  OpensOne(<<a, b, c, d>>)
<1> DEFINE s == <<a, b, c, d>>
<1>1. /\ s \in Seq({a, b, c, d}) /\ DOMAIN s = {1, 2, 3, 4}
      /\ s[1] = a /\ s[2] = b /\ s[3] = c /\ s[4] = d
  OBVIOUS
<1> HIDE DEF s
<1>2. IsSequence(s)
  BY <1>1, ElementsOf
<1>3. Closers(s) = {4} /\ NoConstants(s) /\ \A i \in DOMAIN s : IsFrame(s[i])
  BY <1>1 DEF Closers, Plain, NoConstants, ClosesScope
<1>4. OpensOne(s)
  BY <1>2, <1>3, FS_Singleton DEF OpensOne, IsStack, Opened
<1> QED
  BY <1>4 DEF s

-----------------------------------------------------------------------------
(* The kinds of steps: whatever an action does besides, to the table and   *)
(* the call stack it does one of these.                                    *)

\* The visit at hand opened no scope.
InPlace == todo # <<>> => Head(todo).at \notin ClosesScope

\* At most one node was chosen.
Spends == \E cost \in {0, 1} : budget' = budget - cost
Advances(frames) == InPlace /\ Spends /\ todo' = frames \o Rest

\* Nothing is declared, opened or closed.
Walks ==
    \/ UNCHANGED <<table, todo, mailbox, budget>>
    \/ /\ \E frames : PlainStack(frames) /\ Advances(frames)
       /\ UNCHANGED <<table, mailbox>>
\* A name is inserted into one scope.
InsertsInto(i) ==
    \E n, symbol : table' = [table EXCEPT ![i] = Insert(table[i], n, symbol)]
Declares ==
    /\ Advances(<<>>) /\ UNCHANGED mailbox
    /\ \E i \in 1 .. Len(table) : InsertsInto(i)
\* A visit opens a scope and will resume below what it visits.
Opens ==
    /\ \E frames : OpensOne(frames) /\ Advances(frames)
    /\ table' = PushScope(table) /\ UNCHANGED mailbox
\* It resumes, and closes it.
Closes ==
    /\ todo # <<>> /\ Head(todo).at \in ClosesScope
    /\ table' = PopScope(table) /\ todo' = <<>> \o Rest /\ Spends /\ UNCHANGED mailbox
\* A literal is visited.
Fills ==
    /\ Advances(<<>>) /\ UNCHANGED table
    /\ \E isInt : mailbox' = Constant(isInt)
\* A constant expression empties the mailbox and waits.
ConstantFrame == Resume("constantExpression", budget, NoType)
Empties ==
    /\ Advances(<<Expr("conditional")>> \o <<ConstantFrame>>)
    /\ UNCHANGED table /\ mailbox' = NoConstant
SemaStep == Walks \/ Declares \/ Opens \/ Closes \/ Fills \/ Empties

LEMMA Rests ==
    ASSUME IsStack(todo)
    PROVE  /\ IsStack(Rest) /\ Opened(Rest) \in Nat
           /\ InPlace => Opened(Rest) = Opened(todo)
           /\ todo # <<>> /\ Head(todo).at \in ClosesScope => Opened(todo) = Opened(Rest) + 1
<1>1. CASE todo = <<>>
  BY <1>1, OpenedNone DEF Rest, InPlace
<1>2. CASE todo # <<>>
  BY <1>2, OpenedTail DEF Rest, InPlace
<1> QED
  BY <1>1, <1>2

LEMMA Visited ==
    ASSUME NEW frames, Visit(frames, 0) \/ Visit(frames, 1)
    PROVE  Spends /\ todo' = frames \o Rest
BY DEF Visit, Spends

\* An action's frames in front of what was left to do.
LEMMA WalkOn ==
    ASSUME NEW frames, Visit(frames, 0) \/ Visit(frames, 1), PlainStack(frames), InPlace,
           UNCHANGED <<table, mailbox>>
    PROVE  Walks
<1>1. Advances(frames)
  BY Visited DEF Advances
<1> QED
  BY <1>1 DEF Walks

LEMMA GoesOn ==
    ASSUME NEW frames, Proceed(frames) \/ Enter(frames), PlainStack(frames), InPlace
    PROVE  Walks
BY WalkOn DEF Proceed, Enter, Continue, state

LEMMA ReturnsValue ==
    ASSUME NEW value, Yield(value), InPlace
    PROVE  Walks
BY PlainNone, WalkOn DEF Yield, Continue

LEMMA Halts ==
    ASSUME NEW how, Stop(how)
    PROVE  Walks
BY DEF Stop, state, Walks

LEMMA AtPlain ==
    ASSUME NEW place, At(place), place \notin ClosesScope
    PROVE  InPlace
BY DEF At, InPlace

LEMMA OutsidePlain ==
    ASSUME Outside
    PROVE  InPlace
BY DEF Outside, InPlace

-----------------------------------------------------------------------------
(* What those steps do to the invariant *)

LEMMA ScopesChange ==
    ASSUME IsSequence(table)
    PROVE  /\ IsSequence(PushScope(table)) /\ Len(PushScope(table)) = Len(table) + 1
           /\ table # <<>> =>
                /\ IsSequence(PopScope(table)) /\ Len(PopScope(table)) = Len(table) - 1
                /\ Len(table) \in Nat \ {0}
           /\ \A i \in 1 .. Len(table) : \A scope :
                /\ IsSequence([table EXCEPT ![i] = scope])
                /\ Len([table EXCEPT ![i] = scope]) = Len(table)
<1> DEFINE S == {table[i] : i \in DOMAIN table}
<1>1. table \in Seq(S)
  BY DEF IsSequence
<1> HIDE DEF S
<1>2. \A scope : table \in Seq(S \cup {scope})
  BY <1>1, SeqMonotonic
<1>3. IsSequence(PushScope(table)) /\ Len(PushScope(table)) = Len(table) + 1
  <2>1. /\ PushScope(table) \in Seq(S \cup {EmptyScope})
        /\ Len(PushScope(table)) = Len(table) + 1
    <3>1. table \in Seq(S \cup {EmptyScope}) /\ EmptyScope \in S \cup {EmptyScope}
      BY <1>2
    <3> QED
      BY <3>1, AppendProperties DEF PushScope
  <2> QED
    BY <2>1, ElementsOf
<1>4. ASSUME table # <<>>
      PROVE  /\ IsSequence(PopScope(table)) /\ Len(PopScope(table)) = Len(table) - 1
             /\ Len(table) \in Nat \ {0}
  <2>1. Len(table) \in Nat \ {0}
    BY <1>1, <1>4, EmptySeq
  <2>2. \A i \in 1 .. Len(table) - 1 : table[i] \in S
    BY <1>1, <2>1, ElementOfSeq
  <2>3. /\ PopScope(table) \in Seq(S)
        /\ Len(PopScope(table)) = IF 1 <= Len(table) - 1 THEN Len(table) - 1 - 1 + 1 ELSE 0
    BY <2>1, <2>2, SubSeqProperties DEF PopScope
  <2>4. Len(PopScope(table)) = Len(table) - 1
    <3>1. \A k \in Nat : (IF 1 <= k THEN k - 1 + 1 ELSE 0) = k
      OBVIOUS
    <3>2. Len(table) - 1 \in Nat
      BY <2>1
    <3> QED
      BY <2>3, <3>1, <3>2
  <2> QED
    BY <2>1, <2>3, <2>4, ElementsOf
<1>5. ASSUME NEW i \in 1 .. Len(table), NEW scope
      PROVE  /\ IsSequence([table EXCEPT ![i] = scope])
             /\ Len([table EXCEPT ![i] = scope]) = Len(table)
  <2>1. /\ [table EXCEPT ![i] = scope] \in Seq(S \cup {scope})
        /\ Len([table EXCEPT ![i] = scope]) = Len(table)
    <3>1. table \in Seq(S \cup {scope}) /\ scope \in S \cup {scope}
      BY <1>2
    <3> QED
      BY <1>5, <3>1, ExceptSeq
  <2> QED
    BY <2>1, ElementsOf
<1> QED
  BY <1>3, <1>4, <1>5

\* A scope is pushed on top of the others and popped from there.
LEMMA PushedScope ==
    ASSUME IsSequence(table)
    PROVE  \A i \in DOMAIN table : PushScope(table)[i] = table[i]
<1> DEFINE S == {table[i] : i \in DOMAIN table}
<1>1. table \in Seq(S)
  BY DEF IsSequence
<1> HIDE DEF S
<1>2. table \in Seq(S \cup {EmptyScope}) /\ EmptyScope \in S \cup {EmptyScope}
  BY <1>1, SeqMonotonic
<1>3. \A i \in 1 .. Len(table) : PushScope(table)[i] = table[i]
  BY <1>2, AppendProperties DEF PushScope
<1> QED
  BY <1>3, SequenceFacts

LEMMA PoppedScope ==
    ASSUME IsSequence(table), table # <<>>
    PROVE  \A i \in DOMAIN PopScope(table) : PopScope(table)[i] = table[i]
<1> DEFINE n == Len(table) - 1
<1>1. IsSequence(PopScope(table)) /\ Len(PopScope(table)) = n /\ n \in Nat
  BY ScopesChange
<1>2. DOMAIN PopScope(table) = 1 .. n
  BY <1>1, SequenceFacts
<1>3. \A i \in 1 .. n : table[i] \in {table[j] : j \in DOMAIN table}
  BY <1>1, SequenceFacts
<1>4. \A i \in 1 .. n - 1 + 1 : PopScope(table)[i] = table[1 + i - 1]
  BY <1>1, <1>3, SubSeqProperties DEF PopScope
<1>5. \A i \in 1 .. n : i \in 1 .. n - 1 + 1 /\ 1 + i - 1 = i
  BY <1>1
<1> QED
  BY <1>2, <1>4, <1>5

LEMMA ConstantFrames ==
    /\ IsStack(<<Expr("conditional")>>) /\ Opened(<<Expr("conditional")>>) = 0
    /\ IsStack(<<ConstantFrame>>) /\ Opened(<<ConstantFrame>>) = 0
<1>1. Plain(Expr("conditional"))
  BY PlainFrames
<1>2. IsFrame(ConstantFrame) /\ ConstantFrame.at \notin ClosesScope
  BY DEF IsFrame, ConstantFrame, Resume, ClosesScope
<1> QED
  BY <1>1, <1>2, PlainOne, OpenedOne DEF PlainStack

LEMMA StepKeepsScopes ==
    ASSUME ScopeInv, SemaStep
    PROVE  ScopeInv'
<1>1. /\ IsSequence(table) /\ IsStack(todo) /\ Len(table) = 1 + Opened(todo)
      /\ Opened(todo) \in Nat /\ Len(table) \in Nat
  BY ClosersFinite, SequenceFacts DEF ScopeInv, IsStack
<1>2. /\ IsStack(Rest) /\ Opened(Rest) \in Nat
      /\ InPlace => Opened(Rest) = Opened(todo)
      /\ todo # <<>> /\ Head(todo).at \in ClosesScope => Opened(todo) = Opened(Rest) + 1
  BY <1>1, Rests
<1>3. \A s, n : IsStack(s) /\ todo' = s \o Rest /\ Opened(s) = n =>
                    IsStack(todo') /\ Opened(todo') = n + Opened(Rest)
  BY <1>2, OpenedConcat
<1>4. CASE UNCHANGED <<table, todo, mailbox, budget>>
  BY <1>1, <1>4 DEF ScopeInv
<1>5. CASE UNCHANGED table /\ \E frames : PlainStack(frames) /\ Advances(frames)
  <2>1. InPlace /\ IsStack(todo') /\ Opened(todo') = 0 + Opened(Rest)
    BY <1>3, <1>5 DEF PlainStack, Advances
  <2> QED
    BY <1>1, <1>2, <1>5, <2>1 DEF ScopeInv
<1>6. CASE Declares
  <2>1. InPlace /\ IsStack(todo') /\ Opened(todo') = 0 + Opened(Rest)
    BY <1>3, <1>6, OpenedNone DEF Declares, Advances
  <2>2. IsSequence(table') /\ Len(table') = Len(table)
    BY <1>1, <1>6, ScopesChange DEF Declares, InsertsInto
  <2> QED
    BY <1>1, <1>2, <2>1, <2>2 DEF ScopeInv
<1>7. CASE Opens
  <2>1. InPlace /\ IsStack(todo') /\ Opened(todo') = 1 + Opened(Rest)
    BY <1>3, <1>7 DEF Opens, OpensOne, Advances
  <2>2. IsSequence(table') /\ Len(table') = Len(table) + 1
    BY <1>1, <1>7, ScopesChange DEF Opens
  <2> QED
    BY <1>1, <1>2, <2>1, <2>2 DEF ScopeInv
<1>8. CASE Closes
  <2>1. IsStack(todo') /\ Opened(todo') = 0 + Opened(Rest)
    BY <1>3, <1>8, OpenedNone DEF Closes
  <2>2. Opened(todo) = Opened(Rest) + 1
    BY <1>2, <1>8 DEF Closes
  <2>3. table # <<>>
    BY <1>1, <1>2, <2>2, OpenedNone
  <2>4. IsSequence(table') /\ Len(table') = Len(table) - 1
    BY <1>1, <1>8, <2>3, ScopesChange DEF Closes
  <2> QED
    BY <1>1, <1>2, <2>1, <2>2, <2>4 DEF ScopeInv
<1>9. CASE Fills
  <2>1. InPlace /\ IsStack(todo') /\ Opened(todo') = 0 + Opened(Rest)
    BY <1>3, <1>9, OpenedNone DEF Fills, Advances
  <2> QED
    BY <1>1, <1>2, <1>9, <2>1 DEF ScopeInv, Fills
<1>10. CASE Empties
  <2> DEFINE frames == <<Expr("conditional")>> \o <<ConstantFrame>>
  <2>1. IsStack(frames) /\ Opened(frames) = 0 + 0
    BY ConstantFrames, OpenedConcat
  <2> HIDE DEF frames
  <2>2. InPlace /\ todo' = frames \o Rest
    BY <1>10 DEF Empties, Advances, frames
  <2>3. IsStack(todo') /\ Opened(todo') = 0 + Opened(Rest)
    BY <1>3, <2>1, <2>2
  <2> QED
    BY <1>1, <1>2, <1>10, <2>2, <2>3 DEF ScopeInv, Empties
<1> QED
  BY <1>4, <1>5, <1>6, <1>7, <1>8, <1>9, <1>10 DEF SemaStep, Walks

-----------------------------------------------------------------------------
(* The frames of composite nodes *)

LEMMA PlainSpecifiers ==
    ASSUME NEW spec
    PROVE  PlainStack(SpecifierFrames(spec))
BY PlainNone, PlainOne, PlainFrames DEF SpecifierFrames

LEMMA PlainInitDeclarator ==
    ASSUME NEW n, NEW role, NEW type, NEW initialised
    PROVE  PlainStack(InitDeclarator(n, role, type, initialised))
<1>1. PlainStack(<<Declarator(n, role, type)>>)
  BY PlainOne, PlainFrames
<1>2. PlainStack(<<Frame("initializer"), Resume("initDeclarator", n, NoType)>>)
  BY PlainTwo, PlainFrames
<1>3. PlainStack(IF initialised
                 THEN <<Frame("initializer"), Resume("initDeclarator", n, NoType)>> ELSE <<>>)
  BY <1>2, PlainNone
<1> QED
  BY <1>1, <1>3, PlainConcat DEF InitDeclarator

LEMMA PlainStatements ==
    ASSUME NEW kind \in DOMAIN StatementChildren
    PROVE  PlainStack(StatementChildren[kind])
<1>1. \A at \in {"list", "stmt", "constant"} : Plain(Frame(at))
  BY PlainFrames
<1>2. /\ PlainStack(<<>>) /\ PlainStack(<<Frame("list")>>) /\ PlainStack(<<Frame("stmt")>>)
      /\ PlainStack(<<Frame("list"), Frame("stmt")>>)
      /\ PlainStack(<<Frame("constant"), Frame("stmt")>>)
      /\ PlainStack(<<Frame("list"), Frame("stmt"), Frame("stmt")>>)
  BY <1>1, PlainNone, PlainOne, PlainTwo, PlainThree
<1> QED
  BY <1>2 DEF StatementChildren

LEMMA PlainLoops ==
    ASSUME NEW kind \in DOMAIN LoopChildren
    PROVE  PlainStack(LoopChildren[kind])
<1>1. PlainStack(<<Frame("stmt")>>) /\ PlainStack(<<Frame("stmt"), Frame("list"), Frame("list")>>)
  BY PlainFrames, PlainOne, PlainThree
<1> QED
  BY <1>1 DEF LoopChildren

LEMMA PlainUntyped ==
    ASSUME NEW kind \in DOMAIN UntypedChildren
    PROVE  PlainStack(UntypedChildren[kind])
<1>1. /\ Plain(Frame("list")) /\ Plain(Frame("typeName")) /\ Plain(Expr("postfix"))
      /\ Plain(Expr("cast")) /\ Plain(Expr("unary")) /\ Plain(Expr("logical"))
      /\ Plain(Expr("conditional"))
  BY PlainFrames
<1>2. /\ PlainStack(<<Frame("list"), Expr("postfix")>>) /\ PlainStack(<<Expr("postfix")>>)
      /\ PlainStack(<<Expr("cast")>>) /\ PlainStack(<<Expr("unary")>>)
      /\ PlainStack(<<Frame("typeName")>>) /\ PlainStack(<<Expr("cast"), Frame("typeName")>>)
      /\ PlainStack(<<Expr("logical"), Frame("list"), Expr("conditional")>>)
  BY <1>1, PlainOne, PlainTwo, PlainThree
<1> QED
  BY <1>2 DEF UntypedChildren

-----------------------------------------------------------------------------
(* Every action is one of these steps *)

LEMMA VisitDeclarationWalks ==
    ASSUME NEW n, NEW role, NEW spec, NEW after, VisitDeclaration(n, role, spec, after),
           PlainStack(after), InPlace
    PROVE  Walks
<1>1. PICK initialised \in Initialised(role) :
         Visit(SpecifierFrames(spec)
               \o InitDeclarator(n, role, Meant(spec), initialised)
               \o (IF Uses("several") THEN <<Resume("moreDeclarators", role, Meant(spec))>>
                   ELSE <<>>) \o after, 1)
  BY DEF VisitDeclaration
<1>2. PlainStack(<<Resume("moreDeclarators", role, Meant(spec))>>)
  BY PlainOne, PlainFrames
<1>3. PlainStack(IF Uses("several") THEN <<Resume("moreDeclarators", role, Meant(spec))>>
                 ELSE <<>>)
  BY <1>2, PlainNone
<1>4. PlainStack(SpecifierFrames(spec) \o InitDeclarator(n, role, Meant(spec), initialised))
  BY PlainSpecifiers, PlainInitDeclarator, PlainConcat
<1>5. PlainStack(SpecifierFrames(spec)
                 \o InitDeclarator(n, role, Meant(spec), initialised)
                 \o (IF Uses("several") THEN <<Resume("moreDeclarators", role, Meant(spec))>>
                     ELSE <<>>))
  BY <1>3, <1>4, PlainConcat
<1>6. PlainStack(SpecifierFrames(spec)
                 \o InitDeclarator(n, role, Meant(spec), initialised)
                 \o (IF Uses("several") THEN <<Resume("moreDeclarators", role, Meant(spec))>>
                     ELSE <<>>) \o after)
  BY <1>5, PlainConcat
<1>7. UNCHANGED <<table, mailbox>>
  BY DEF VisitDeclaration
<1> QED
  BY <1>1, <1>6, <1>7, WalkOn

\* A frame that stays, with another place to resume at.
LEMMA ResumedPlain ==
    ASSUME IsStack(todo), todo # <<>>
    PROVE  /\ IsFrame(Head(todo))
           /\ Head(todo).at \notin ClosesScope \cup {"constantExpression"} => Plain(Head(todo))
BY OpenedTail DEF Plain

LEMMA DeclarationSteps ==
    ASSUME IsStack(todo), NextInDeclaration
    PROVE  SemaStep
<1>1. ASSUME NEW n \in Names, NEW role \in Role, NEW spec \in Specification,
             FileDeclaration(n, role, spec)
      PROVE  Walks
  BY <1>1, VisitDeclarationWalks, PlainNone, OutsidePlain DEF FileDeclaration
<1>2. ASSUME NEW n \in Names, NEW role \in Role, NEW spec \in Specification,
             BlockDeclaration(n, role, spec)
      PROVE  Walks
  <2>1. InPlace
    BY <1>2, AtPlain DEF BlockDeclaration, ClosesScope
  <2>2. PlainStack(<<Frame("declarations")>>)
    BY PlainOne, PlainFrames
  <2> QED
    BY <1>2, <2>1, <2>2, VisitDeclarationWalks DEF BlockDeclaration
<1>3. ASSUME NEW n \in Names \cup {NoName}, NEW spec \in Specification,
             ParameterDeclaration(n, spec)
      PROVE  Walks
  <2> DEFINE next == [Head(todo) EXCEPT !.at = "parameterEnd"]
  <2>1. InPlace /\ todo # <<>>
    BY <1>3, AtPlain DEF ParameterDeclaration, ClosesScope, At
  <2>2. Plain(next)
    BY <2>1, ResumedPlain DEF Plain, IsFrame, ClosesScope
  <2>3. PlainStack(<<Declarator(n, "parameter", Meant(spec)), next>>)
    BY <2>2, PlainFrames, PlainTwo
  <2>4. PlainStack(SpecifierFrames(spec) \o <<Declarator(n, "parameter", Meant(spec)), next>>)
    BY <2>3, PlainSpecifiers, PlainConcat
  <2> QED
    BY <1>3, <2>1, <2>4, WalkOn DEF ParameterDeclaration
<1>4. ASSUME NEW n \in Names, NEW list \in SpecifierLists, NEW bits \in {FALSE, Uses("bitfield")},
             Member(n, list, bits)
      PROVE  Walks
  <2>1. InPlace
    BY <1>4, AtPlain DEF Member, ClosesScope
  <2>2. /\ PlainStack(<<Declarator(n, "member", CType(list))>>)
        /\ PlainStack(<<Frame("constant")>>) /\ PlainStack(<<Frame("moreMembers")>>)
    BY PlainOne, PlainFrames
  <2>3. PlainStack(IF bits THEN <<Frame("constant")>> ELSE <<>>)
    BY <2>2, PlainNone
  <2>4. PlainStack(<<Declarator(n, "member", CType(list))>>
                   \o (IF bits THEN <<Frame("constant")>> ELSE <<>>))
    BY <2>2, <2>3, PlainConcat
  <2>5. PlainStack(<<Declarator(n, "member", CType(list))>>
                   \o (IF bits THEN <<Frame("constant")>> ELSE <<>>) \o <<Frame("moreMembers")>>)
    BY <2>2, <2>4, PlainConcat
  <2> QED
    BY <1>4, <2>1, <2>5, WalkOn DEF Member
<1>5. ASSUME NEW n \in Names, NextDeclarator(n)
      PROVE  Walks
  <2>1. InPlace /\ todo # <<>> /\ Head(todo).at \notin ClosesScope \cup {"constantExpression"}
    BY <1>5, AtPlain DEF NextDeclarator, ClosesScope, At
  <2>2. PlainStack(<<Head(todo)>>)
    BY <2>1, ResumedPlain, PlainOne
  <2>3. PICK initialised \in Initialised(Head(todo).arg) :
          Enter(InitDeclarator(n, Head(todo).arg, Head(todo).saved, initialised)
                \o <<Head(todo)>>)
    BY <1>5 DEF NextDeclarator
  <2>4. PlainStack(InitDeclarator(n, Head(todo).arg, Head(todo).saved, initialised)
                   \o <<Head(todo)>>)
    BY <2>2, PlainInitDeclarator, PlainConcat
  <2> QED
    BY <2>1, <2>3, <2>4, GoesOn
<1>6. ASSUME NEW list \in SpecifierLists, TypeName(list)
      PROVE  Walks
  <2>1. InPlace
    BY <1>6, AtPlain DEF TypeName, ClosesScope
  <2>2. PlainStack(<<Declarator(NoName, "typeName", CType(list))>>)
    BY PlainOne, PlainFrames
  <2> QED
    BY <1>6, <2>1, <2>2, WalkOn DEF TypeName, Continue
<1>7. ASSUME NEW more \in BOOLEAN, MoreMembers(more)
      PROVE  Walks
  <2>1. InPlace
    BY <1>7, AtPlain DEF MoreMembers, ClosesScope
  <2>2. PlainStack(IF more THEN <<Frame("member")>> ELSE <<>>)
    BY PlainNone, PlainOne, PlainFrames
  <2> QED
    BY <1>7, <2>1, <2>2, GoesOn DEF MoreMembers
<1>8. ASSUME NEW more \in BOOLEAN, MoreInitializers(more)
      PROVE  Walks
  <2>1. InPlace
    BY <1>8, AtPlain DEF MoreInitializers, ClosesScope
  <2>2. PlainStack(IF more THEN <<Frame("initializer"), Frame("moreInitializers")>> ELSE <<>>)
    BY PlainNone, PlainTwo, PlainFrames
  <2> QED
    BY <1>8, <2>1, <2>2, GoesOn DEF MoreInitializers
<1>9. ASSUME NEW more \in BOOLEAN, ParameterDeclarationEnd(more)
      PROVE  Walks
  <2> DEFINE next == [Head(todo) EXCEPT
                         !.at = IF more THEN "parameter" ELSE "functionDeclarator",
                         !.saved.params = Append(@, curType),
                         !.saved.meantParams = IF cType = NoType THEN @ ELSE Append(@, cType)]
  <2>1. InPlace /\ todo # <<>>
    BY <1>9, AtPlain DEF ParameterDeclarationEnd, ClosesScope, At
  <2>2. IsFrame(Head(todo))
    BY <2>1, ResumedPlain
  <2>3. /\ DOMAIN next = {"at", "arg", "saved"}
        /\ next.at = IF more THEN "parameter" ELSE "functionDeclarator"
    BY <2>2 DEF IsFrame
  <2> HIDE DEF next
  <2>4. PlainStack(<<next>>)
    BY <2>3, PlainOne DEF Plain, IsFrame, ClosesScope
  <2> QED
    BY <1>9, <2>1, <2>4, GoesOn DEF ParameterDeclarationEnd, next
<1>10. ASSUME NEW valued \in BOOLEAN, Enumerators(valued)
       PROVE  Walks
  <2>1. InPlace
    BY <1>10, AtPlain DEF Enumerators, ClosesScope
  <2>2. PlainStack(IF valued THEN <<Frame("constant")>> ELSE <<>>)
    BY PlainNone, PlainOne, PlainFrames
  <2> QED
    BY <1>10, <2>1, <2>2, GoesOn DEF Enumerators
<1>11. CASE NoDeclarators
  BY <1>11, Halts DEF NoDeclarators, Crash, SemaStep
<1>12. CASE EndDeclarations \/ EndDeclarators
  <2>1. InPlace
    BY <1>12, AtPlain DEF EndDeclarations, EndDeclarators, ClosesScope
  <2> QED
    BY <1>12, <2>1, PlainNone, GoesOn DEF EndDeclarations, EndDeclarators, SemaStep
<1>13. CASE Initializer
  <2>1. InPlace
    BY <1>13, AtPlain DEF Initializer, ClosesScope
  <2>2. /\ PlainStack(<<Expr("assignment")>>)
        /\ PlainStack(<<Frame("initializer"), Frame("moreInitializers")>>)
    BY PlainOne, PlainTwo, PlainFrames
  <2> QED
    BY <1>13, <2>1, <2>2, GoesOn DEF Initializer, SemaStep
<1>14. CASE InitDeclaratorEnd
  <2>1. InPlace
    BY <1>14, AtPlain DEF InitDeclaratorEnd, ClosesScope
  <2> QED
    BY <1>14, <2>1, PlainNone, GoesOn, Halts DEF InitDeclaratorEnd, Reject, SemaStep
<1> QED
  BY <1>1, <1>2, <1>3, <1>4, <1>5, <1>6, <1>7, <1>8, <1>9, <1>10, <1>11, <1>12, <1>13, <1>14
  DEF NextInDeclaration, SemaStep

LEMMA InsertsOne ==
    ASSUME NEW i, NEW n, NEW symbol, table' = [table EXCEPT ![i] = Insert(table[i], n, symbol)]
    PROVE  InsertsInto(i)
BY Zenon DEF InsertsInto

LEMMA DeclaratorSteps ==
    ASSUME ScopeInv, NextInDeclarator
    PROVE  SemaStep
<1>1. IsStack(todo) /\ Len(table) \in Nat \ {0}
  BY ClosersFinite DEF ScopeInv, IsStack
<1>2. CASE IdentifierDeclarator
  <2>1. InPlace
    BY <1>2, AtPlain DEF IdentifierDeclarator, ClosesScope
  <2>2. table' = AddToScope(table, Head(todo).arg, Symbol("variable", curType))
        /\ Visit(<<>>, 0) /\ UNCHANGED mailbox
    BY <1>2 DEF IdentifierDeclarator, Continue
  <2>3. InsertsInto(Len(table))
    BY <2>2, InsertsOne DEF AddToScope
  <2>4. Len(table) \in 1 .. Len(table)
    BY <1>1
  <2> QED
    BY <2>1, <2>2, <2>3, <2>4, Visited DEF Advances, Declares, SemaStep
<1>3. CASE NoIdentifier \/ PointerDeclaratorEnd
  <2>1. InPlace
    BY <1>3, AtPlain DEF NoIdentifier, PointerDeclaratorEnd, ClosesScope
  <2> QED
    BY <1>3, <2>1, PlainNone, GoesOn, WalkOn
    DEF NoIdentifier, PointerDeclaratorEnd, Continue, SemaStep
<1>4. CASE PointerDeclarator
  <2>1. InPlace
    BY <1>4, AtPlain DEF PointerDeclarator, ClosesScope
  <2>2. PlainStack(<<Declarator(Head(todo).arg, Head(todo).saved.role, Pointer(Inside)),
                     Resume("pointerDeclarator", NoName, curType)>>)
    BY PlainTwo, PlainFrames
  <2> QED
    BY <1>4, <2>1, <2>2, WalkOn DEF PointerDeclarator, SemaStep
<1>5. CASE ArrayDeclarator
  <2>1. InPlace
    BY <1>5, AtPlain DEF ArrayDeclarator, ClosesScope
  <2>2. PlainStack(<<Declarator(Head(todo).arg, Head(todo).saved.role, Array(Inside)),
                     Frame("constant"), Frame("arrayDeclarator")>>)
    BY PlainThree, PlainFrames
  <2> QED
    BY <1>5, <2>1, <2>2, GoesOn DEF ArrayDeclarator, SemaStep
<1>6. CASE ArrayDeclaratorEnd
  <2>1. InPlace
    BY <1>6, AtPlain DEF ArrayDeclaratorEnd, ClosesScope
  <2> QED
    BY <1>6, <2>1, PlainNone, WalkOn, Halts DEF ArrayDeclaratorEnd, Continue, Reject, SemaStep
<1>7. CASE UnsizedArray \/ KAndRDeclarator
  BY <1>7, Halts DEF UnsizedArray, KAndRDeclarator, Crash, Reject, SemaStep
<1>8. ASSUME NEW pointer \in BOOLEAN, NEW params \in BOOLEAN, FunctionDeclarator(pointer, params)
      PROVE  Walks
  <2> DEFINE call == [of |-> curType, params |-> <<>>, pointer |-> pointer,
                      role |-> Head(todo).saved.role, meant |-> Inside, meantParams |-> <<>>]
             next == Resume(IF params THEN "parameter" ELSE "functionDeclarator",
                            Head(todo).arg, call)
  <2>1. InPlace
    BY <1>8, AtPlain DEF FunctionDeclarator, ClosesScope
  <2>2. PlainStack(<<next>>)
    BY PlainOne, PlainFrames
  <2>3. Continue(<<next>>) /\ UNCHANGED <<table, mailbox>>
    BY <1>8 DEF FunctionDeclarator
  <2> QED
    BY <2>1, <2>2, <2>3, WalkOn DEF Continue
<1>9. CASE FunctionDeclaratorEnd
  <2>1. InPlace
    BY <1>9, AtPlain DEF FunctionDeclaratorEnd, ClosesScope
  <2> DEFINE n == Head(todo).arg
             call == Head(todo).saved
  <2>2. \/ Reject \/ Crash
        \/ /\ ~(Len(table) < 2) /\ Continue(<<>>) /\ UNCHANGED mailbox
           /\ table' = AddToParentScope(table, n, FunctionSymbol(call))
    BY <1>9 DEF FunctionDeclaratorEnd
  <2>3. CASE Reject \/ Crash
    BY <2>3, Halts DEF Reject, Crash, SemaStep
  <2>4. CASE /\ ~(Len(table) < 2) /\ Continue(<<>>) /\ UNCHANGED mailbox
             /\ table' = AddToParentScope(table, n, FunctionSymbol(call))
    <3>1. InsertsInto(Len(table) - 1)
      BY <2>4, InsertsOne DEF AddToParentScope
    <3>2. Len(table) - 1 \in 1 .. Len(table)
      BY <1>1, <2>4
    <3>3. Advances(<<>>)
      BY <2>1, <2>4, Visited DEF Continue, Advances
    <3> QED
      BY <2>4, <3>1, <3>2, <3>3 DEF Declares, SemaStep
  <2> QED
    BY <2>2, <2>3, <2>4
<1> QED
  BY <1>2, <1>3, <1>4, <1>5, <1>6, <1>7, <1>8, <1>9 DEF NextInDeclarator, SemaStep

LEMMA StatementSteps ==
    ASSUME IsStack(todo), NextInStatement
    PROVE  SemaStep
<1>1. ASSUME NEW n \in Names, NEW spec \in Specification, FunctionDefinition(n, spec)
      PROVE  Opens
  <2> DEFINE below == <<Declarator(n, "definition", Meant(spec)), Frame("declarations"),
                        Frame("statements"), Resume("functionDefinition", n, NoType)>>
             last == Resume("functionDefinition", n, NoType)
  <2>1. InPlace
    BY <1>1, OutsidePlain DEF FunctionDefinition
  <2>2. IsFrame(last) /\ last.at \in ClosesScope
    BY DEF IsFrame, Resume, ClosesScope
  <2>3. OpensOne(below)
    BY <2>2, OneCloserOfFour, PlainFrames
  <2>4. PlainStack(SpecifierFrames(spec))
    BY PlainSpecifiers
  <2>5. /\ Visit(SpecifierFrames(spec) \o below, 1)
        /\ table' = PushScope(table) /\ UNCHANGED mailbox
    BY <1>1 DEF FunctionDefinition
  <2> HIDE DEF below
  <2>6. /\ IsStack(SpecifierFrames(spec) \o below)
        /\ Opened(SpecifierFrames(spec) \o below) = 0 + 1
    BY <2>3, <2>4, OpenedConcat DEF PlainStack, OpensOne
  <2>7. NoConstants(SpecifierFrames(spec) \o below)
    BY <2>3, <2>4, NoConstantsConcat DEF PlainStack, OpensOne
  <2>8. OpensOne(SpecifierFrames(spec) \o below)
    BY <2>6, <2>7 DEF OpensOne
  <2>9. Advances(SpecifierFrames(spec) \o below)
    BY <2>1, <2>5, Visited DEF Advances
  <2> QED
    BY <2>5, <2>8, <2>9 DEF Opens
<1>2. CASE ImplicitInt
  BY <1>2, Halts DEF ImplicitInt, Crash, SemaStep
<1>3. CASE FunctionDefinitionEnd
  <2>1. todo # <<>> /\ Head(todo).at \in ClosesScope
    BY <1>3 DEF FunctionDefinitionEnd, At, ClosesScope
  <2>2. Reject \/ (table' = PopScope(table) /\ Visit(<<>>, 0) /\ UNCHANGED mailbox)
    BY <1>3 DEF FunctionDefinitionEnd, Continue
  <2> QED
    BY <2>1, <2>2, Halts, Visited DEF Reject, Closes, SemaStep
<1>4. CASE CompoundStatement
  <2> DEFINE below == <<Frame("declarations"), Frame("statements"), Frame("compound")>>
  <2>1. InPlace
    BY <1>4, AtPlain DEF CompoundStatement, ClosesScope
  <2>2. IsFrame(Frame("compound")) /\ Frame("compound").at \in ClosesScope
    BY DEF IsFrame, Frame, Resume, ClosesScope
  <2>3. OpensOne(below)
    BY <2>2, OneCloser, PlainFrames
  <2>4. Visit(below, 1) /\ table' = PushScope(table) /\ UNCHANGED mailbox
    BY <1>4 DEF CompoundStatement
  <2> HIDE DEF below
  <2>5. Advances(below)
    BY <2>1, <2>4, Visited DEF Advances
  <2> QED
    BY <2>3, <2>4, <2>5 DEF Opens, SemaStep
<1>5. CASE CompoundStatementEnd
  <2>1. todo # <<>> /\ Head(todo).at \in ClosesScope
    BY <1>5 DEF CompoundStatementEnd, At, ClosesScope
  <2> QED
    BY <1>5, <2>1, Visited DEF CompoundStatementEnd, Closes, Continue, SemaStep
<1>6. ASSUME NEW more \in BOOLEAN, Statements(more)
      PROVE  Walks
  <2>1. InPlace
    BY <1>6, AtPlain DEF Statements, ClosesScope
  <2>2. PlainStack(IF more THEN <<Frame("stmt"), Frame("statements")>> ELSE <<>>)
    BY PlainNone, PlainTwo, PlainFrames
  <2> QED
    BY <1>6, <2>1, <2>2, GoesOn DEF Statements
<1>7. ASSUME NEW kind \in DOMAIN StatementChildren, Statement(kind)
      PROVE  Walks
  <2>1. InPlace
    BY <1>7, AtPlain DEF Statement, ClosesScope
  <2> QED
    BY <1>7, <2>1, PlainStatements, GoesOn DEF Statement
<1>8. ASSUME NEW kind \in DOMAIN LoopChildren, IterationStatement(kind)
      PROVE  Walks
  <2>1. InPlace
    BY <1>8, AtPlain DEF IterationStatement, ClosesScope
  <2> QED
    BY <1>8, <2>1, PlainLoops, GoesOn DEF IterationStatement
<1> QED
  BY <1>1, <1>2, <1>3, <1>4, <1>5, <1>6, <1>7, <1>8 DEF NextInStatement, SemaStep

LEMMA TwoFrames ==
    ASSUME NEW a, NEW b
    PROVE  <<a, b>> = <<a>> \o <<b>>
<1>1. <<a>> \in Seq({a, b}) /\ <<b>> \in Seq({a, b}) /\ <<a, b>> \in Seq({a, b})
  OBVIOUS
<1>2. Len(<<a>>) = 1 /\ Len(<<b>>) = 1 /\ <<a>>[1] = a /\ <<b>>[1] = b
      /\ Len(<<a, b>>) = 2 /\ <<a, b>>[1] = a /\ <<a, b>>[2] = b
  OBVIOUS
<1> DEFINE s == <<a>>
           t == <<b>>
           u == <<a, b>>
<1> HIDE DEF s, t, u
<1>3. /\ s \o t \in Seq({a, b}) /\ Len(s \o t) = Len(s) + Len(t)
      /\ \A i \in 1 .. Len(s) + Len(t) : (s \o t)[i] = IF i <= Len(s) THEN s[i] ELSE t[i - Len(s)]
  BY <1>1, ConcatProperties DEF s, t
<1>4. Len(s) = 1 /\ Len(t) = 1 /\ s[1] = a /\ t[1] = b /\ Len(u) = 2 /\ u[1] = a /\ u[2] = b
  BY <1>2 DEF s, t, u
<1>5. Len(s \o t) = 2 /\ (s \o t)[1] = a /\ (s \o t)[2] = b
  BY <1>3, <1>4
<1>6. \A i \in 1 .. 2 : i = 1 \/ i = 2
  OBVIOUS
<1>7. u = s \o t
  BY <1>1, <1>3, <1>4, <1>5, <1>6, SeqEqual DEF u
<1> QED
  BY <1>7 DEF s, t, u

LEMMA ExpressionSteps ==
    ASSUME IsStack(todo), NextInExpression
    PROVE  SemaStep
<1>1. ASSUME NEW rule, AtLevel(rule) PROVE InPlace
  BY <1>1, AtPlain DEF AtLevel, ClosesScope
<1>2. ASSUME NEW n \in Names, IdentifierExpression(n) PROVE Walks
  BY <1>1, <1>2, PlainNone, WalkOn, Halts DEF IdentifierExpression, Reject
<1>3. ASSUME NEW isInt \in BOOLEAN, PrimaryExpression(isInt) PROVE Fills
  <2>1. mailbox' = Constant(isInt) /\ UNCHANGED table
    BY <1>3 DEF PrimaryExpression
  <2>2. Advances(<<>>)
    BY <1>1, <1>3, Visited DEF PrimaryExpression, Advances
  <2> QED
    BY <2>1, <2>2 DEF Fills
<1>4. CASE StringLiteral
  BY <1>4, Halts DEF StringLiteral, Crash, SemaStep
<1>5. CASE Parenthesis
  <2>1. PlainStack(<<Frame("list")>>)
    BY PlainOne, PlainFrames
  <2> QED
    BY <1>1, <1>5, <2>1, GoesOn DEF Parenthesis, SemaStep
<1>6. CASE ListExpression \/ NextInList
  <2>1. InPlace
    BY <1>6, AtPlain DEF ListExpression, NextInList, ClosesScope
  <2>2. PlainStack(<<Expr("assignment"), Frame("listRest")>>)
    BY PlainTwo, PlainFrames
  <2> QED
    BY <1>6, <2>1, <2>2, GoesOn DEF ListExpression, NextInList, SemaStep
<1>7. CASE ListExpressionEnd
  <2>1. InPlace
    BY <1>7, AtPlain DEF ListExpressionEnd, ClosesScope
  <2> QED
    BY <1>7, <2>1, ReturnsValue, Halts DEF ListExpressionEnd, Reject, SemaStep
<1>8. ASSUME NEW op \in BinaryOperator, BinaryExpression(op) PROVE Walks
  <2>1. PlainStack(<<Expr(LeftRule(op)), Resume("rightSide", op, NoType)>>)
    BY <1>8, PlainTwo, PlainFrames
  <2> QED
    BY <1>1, <1>8, <2>1, GoesOn DEF BinaryExpression
<1>9. CASE BinaryRightSide
  <2>1. InPlace /\ todo # <<>> /\ Head(todo).at = "rightSide"
    BY <1>9, AtPlain DEF BinaryRightSide, ClosesScope, At
  <2>2. Head(todo).arg \in BinaryOperator
    BY <2>1, ResumedPlain DEF IsFrame
  <2>3. PlainStack(<<Resume("expr", RightLevel(Head(todo).arg), NoType),
                     Resume(Head(todo).arg, NoName, result)>>)
    BY <2>2, PlainTwo, PlainFrames
  <2> QED
    BY <1>9, <2>1, <2>3, GoesOn DEF BinaryRightSide, SemaStep
<1>10. ASSUME NEW op \in {"arithmetic", "bitwise"}, PromotedExpression(op) PROVE Walks
  <2>1. InPlace
    BY <1>10, AtPlain DEF PromotedExpression, ClosesScope
  <2> QED
    BY <1>10, <2>1, ReturnsValue, Halts DEF PromotedExpression, Crash, Reject
<1>11. ASSUME NEW op \in {"comparison", "logical"}, IntExpression(op) PROVE Walks
  <2>1. InPlace
    BY <1>11, AtPlain DEF IntExpression, ClosesScope
  <2> QED
    BY <1>11, <2>1, ReturnsValue DEF IntExpression
<1>12. CASE ShiftExpression \/ AssignmentExpression \/ IncDecExpressionEnd \/ UntypedExpressionEnd
  <2>1. InPlace
    BY <1>12, AtPlain DEF ShiftExpression, AssignmentExpression, IncDecExpressionEnd,
                          UntypedExpressionEnd, ClosesScope
  <2> QED
    BY <1>12, <2>1, ReturnsValue, Halts
    DEF ShiftExpression, AssignmentExpression, IncDecExpressionEnd, UntypedExpressionEnd, Reject,
        SemaStep
<1>13. ASSUME NEW prefix \in BOOLEAN, IncDecExpression(prefix) PROVE Walks
  <2>1. PlainStack(<<Expr(IF prefix THEN "unary" ELSE "postfix"), Frame("incDec")>>)
    BY PlainTwo, PlainFrames
  <2> QED
    BY <1>1, <1>13, <2>1, GoesOn DEF IncDecExpression
<1>14. ASSUME NEW kind \in DOMAIN UntypedChildren, UntypedExpression(kind) PROVE Walks
  <2>1. PlainStack(<<Frame("untyped")>>)
    BY PlainOne, PlainFrames
  <2>2. PlainStack(UntypedChildren[kind] \o <<Frame("untyped")>>)
    BY <2>1, PlainUntyped, PlainConcat
  <2> QED
    BY <1>1, <1>14, <2>2, GoesOn DEF UntypedExpression
<1>15. CASE FunctionCallExpression
  <2>1. PlainStack(<<Expr("postfix"), Frame("callee")>>)
    BY PlainTwo, PlainFrames
  <2> QED
    BY <1>1, <1>15, <2>1, GoesOn DEF FunctionCallExpression, SemaStep
<1>16. CASE Callee
  <2>1. InPlace
    BY <1>16, AtPlain DEF Callee, ClosesScope
  <2>2. /\ PlainStack(<<Expr("assignment"), Resume("arguments", 1, result.type)>>)
        /\ PlainStack(<<Resume("call", 0, result.type)>>)
    BY PlainOne, PlainTwo, PlainFrames
  <2> QED
    BY <1>16, <2>1, <2>2, GoesOn, Halts DEF Callee, Crash, Reject, SemaStep
<1>17. CASE NextArgument \/ LastArgument
  <2> DEFINE again == [Head(todo) EXCEPT !.arg = @ + 1]
             call == [Head(todo) EXCEPT !.at = "call"]
  <2>1. InPlace /\ todo # <<>> /\ Head(todo).at = "arguments"
    BY <1>17, AtPlain DEF NextArgument, LastArgument, ClosesScope, At
  <2>2. Plain(again) /\ Plain(call)
    BY <2>1, ResumedPlain DEF Plain, IsFrame, ClosesScope
  <2>3. PlainStack(<<Expr("assignment"), again>>) /\ PlainStack(<<call>>)
    BY <2>2, PlainOne, PlainTwo, PlainFrames
  <2> QED
    BY <1>17, <2>1, <2>3, GoesOn DEF NextArgument, LastArgument, SemaStep
<1>18. CASE FunctionCallExpressionEnd
  <2>1. InPlace
    BY <1>18, AtPlain DEF FunctionCallExpressionEnd, ClosesScope
  <2> QED
    BY <1>18, <2>1, ReturnsValue, Halts DEF FunctionCallExpressionEnd, Crash, Reject, SemaStep
<1>19. CASE ConstantExpression
  <2>1. InPlace
    BY <1>19, AtPlain DEF ConstantExpression, ClosesScope
  <2>2. Continue(<<Expr("conditional"), ConstantFrame>>)
    BY <1>19 DEF ConstantExpression, ConstantFrame
  <2>3. <<Expr("conditional"), ConstantFrame>> = <<Expr("conditional")>> \o <<ConstantFrame>>
    BY TwoFrames
  <2>4. Visit(<<Expr("conditional")>> \o <<ConstantFrame>>, 0)
    BY <2>2, <2>3 DEF Continue
  <2>5. Advances(<<Expr("conditional")>> \o <<ConstantFrame>>)
    BY <2>1, <2>4, Visited DEF Advances
  <2> QED
    BY <1>19, <2>5 DEF ConstantExpression, Empties, SemaStep
<1>20. CASE ConstantExpressionEnd
  <2>1. InPlace
    BY <1>20, AtPlain DEF ConstantExpressionEnd, ClosesScope
  <2> QED
    BY <1>20, <2>1, ReturnsValue, Halts DEF ConstantExpressionEnd, Reject, SemaStep
<1> QED
  BY <1>2, <1>3, <1>4, <1>5, <1>6, <1>7, <1>8, <1>9, <1>10, <1>11, <1>12, <1>13, <1>14, <1>15,
     <1>16, <1>17, <1>18, <1>19, <1>20
  DEF NextInExpression, SemaStep

LEMMA NextSteps ==
    ASSUME ScopeInv, [Next]_vars
    PROVE  SemaStep
<1>1. IsStack(todo)
  BY DEF ScopeInv
<1>2. CASE EndUnit \/ Finished \/ UNCHANGED vars
  BY <1>2 DEF EndUnit, Finished, vars, Walks, SemaStep
<1> QED
  BY <1>1, <1>2, DeclarationSteps, DeclaratorSteps, StatementSteps, ExpressionSteps DEF Next

-----------------------------------------------------------------------------
(* The theorems *)

\* Before the first declaration the file's scope is the only one.
LEMMA InitScopes ==
    ASSUME Init
    PROVE  ScopeInv
<1>1. table \in Seq({EmptyScope}) /\ Len(table) = 1
  BY DEF Init, NewTable
<1> QED
  BY <1>1, ElementsOf, OpenedNone DEF Init, ScopeInv

LEMMA ScopeInvariant == Spec => []ScopeInv
<1>1. ScopeInv /\ [Next]_vars => ScopeInv'
  BY NextSteps, StepKeepsScopes
<1> QED
  BY InitScopes, <1>1, PTL DEF Spec

\* pushScope() and popScope() pair up in every tree: the table has one scope
\* for the file and one for each visit under way that opened one, so
\* addToScope()'s back() and popScope() never see an empty vector.
THEOREM EveryScopeIsClosed == Spec => []ScopesBalanced
<1>1. ScopeInv => ScopesBalanced
  BY DEF ScopeInv, ScopesBalanced, Opened, Closers
<1> QED
  BY ScopeInvariant, <1>1, PTL

\* addToScope() and addToParentScope() insert: whatever else a program
\* declares, a name keeps its symbol until its scope is closed, so a node
\* annotated before a second declaration and one annotated after it agree.
THEOREM SymbolsStay == Spec => FirstDeclarationWins
<1> DEFINE Kept == \A i \in DOMAIN table \cap DOMAIN table' : \A n \in DOMAIN table[i] :
                      n \in DOMAIN table'[i] /\ table'[i][n] = table[i][n]
<1>1. ASSUME ScopeInv, [Next]_vars PROVE Kept
  <2>1. IsSequence(table) /\ Len(table) \in Nat /\ DOMAIN table = 1 .. Len(table)
    BY <1>1, SequenceFacts DEF ScopeInv
  <2>2. SemaStep
    BY <1>1, NextSteps
  <2>3. CASE Walks \/ Fills \/ Empties
    BY <2>3 DEF Walks, Fills, Empties
  <2>4. CASE Declares
    <3>1. PICK i \in 1 .. Len(table) : InsertsInto(i)
      BY <2>4 DEF Declares
    <3>2. PICK n, symbol : table' = [table EXCEPT ![i] = Insert(table[i], n, symbol)]
      BY <3>1 DEF InsertsInto
    <3>3. \A j \in DOMAIN table :
             table'[j] = IF j = i THEN Insert(table[i], n, symbol) ELSE table[j]
      BY <3>2
    <3>4. \A m \in DOMAIN table[i] : /\ m \in DOMAIN Insert(table[i], n, symbol)
                                     /\ Insert(table[i], n, symbol)[m] = table[i][m]
      BY DEF Insert, Bind
    <3> QED
      BY <3>3, <3>4
  <2>5. CASE Opens
    <3>1. \A i \in DOMAIN table : table'[i] = table[i]
      BY <2>1, <2>5, PushedScope DEF Opens
    <3> QED
      BY <3>1
  <2>6. CASE Closes
    <3>1. Len(table) = 1 + Opened(todo) /\ Opened(todo) \in Nat
      BY <1>1, ClosersFinite DEF ScopeInv, IsStack
    <3>2. table # <<>>
      BY <3>1
    <3>3. \A i \in DOMAIN table' : table'[i] = table[i]
      BY <2>1, <2>6, <3>2, PoppedScope DEF Closes
    <3> QED
      BY <3>3
  <2> QED
    BY <2>2, <2>3, <2>4, <2>5, <2>6 DEF SemaStep
<1>2. ScopeInv /\ [Next]_vars => [Kept]_vars
  BY <1>1
<1> QED
  BY ScopeInvariant, <1>2, PTL DEF Spec, FirstDeclarationWins

-----------------------------------------------------------------------------
(* Constants *)

\* A visit of a constant expression has waited since more nodes than are left
\* were left, and what is in the mailbox is of a node chosen since.
Younger(constant, frame) == constant # NoConstant => constant[1].id <= frame.arg
Waits(nodes, constant, frame) ==
    frame.at = "constantExpression" =>
        frame.arg \in Int /\ frame.arg >= nodes /\ Younger(constant, frame)
AllWait(nodes, constant, stack) ==
    \A i \in DOMAIN stack : Waits(nodes, constant, stack[i])
ConstantInv ==
    /\ budget \in Int
    /\ mailbox # NoConstant => mailbox[1].id \in Int
    /\ AllWait(budget, mailbox, todo)

\* What is left to do waited before.
LEMMA RestWaits ==
    ASSUME NEW nodes, NEW constant, IsStack(todo), AllWait(nodes, constant, todo)
    PROVE  AllWait(nodes, constant, Rest)
<1>1. IsSequence(todo)
  BY DEF IsStack
<1>2. CASE todo = <<>>
  <2>1. Rest = <<>> /\ DOMAIN Rest = {}
    BY <1>2 DEF Rest
  <2> QED
    BY <2>1 DEF AllWait
<1>3. CASE todo # <<>>
  <2>1. /\ IsSequence(Rest) /\ Len(Rest) = Len(todo) - 1 /\ Len(todo) \in Nat \ {0}
        /\ \A i \in 1 .. Len(todo) - 1 : Rest[i] = todo[i + 1]
    BY <1>1, <1>3, TailFacts DEF Rest
  <2>2. DOMAIN Rest = 1 .. Len(todo) - 1 /\ DOMAIN todo = 1 .. Len(todo)
    BY <1>1, <2>1, SequenceFacts
  <2>3. \A i \in DOMAIN Rest : i + 1 \in DOMAIN todo /\ Rest[i] = todo[i + 1]
    BY <2>1, <2>2
  <2> QED
    BY <2>3 DEF AllWait
<1> QED
  BY <1>2, <1>3

LEMMA ConcatWaits ==
    ASSUME NEW nodes, NEW constant, NEW s, NEW t, IsStack(s), IsStack(t),
           AllWait(nodes, constant, s), AllWait(nodes, constant, t)
    PROVE  AllWait(nodes, constant, s \o t)
<1>1. IsSequence(s) /\ IsSequence(t)
  BY DEF IsStack
<1>2. /\ Len(s) \in Nat /\ Len(t) \in Nat /\ DOMAIN s = 1 .. Len(s) /\ DOMAIN t = 1 .. Len(t)
      /\ DOMAIN (s \o t) = 1 .. Len(s) + Len(t)
      /\ \A i \in 1 .. Len(s) + Len(t) :
            (s \o t)[i] = IF i <= Len(s) THEN s[i] ELSE t[i - Len(s)]
  BY <1>1, ConcatFacts, SequenceFacts
<1>3. ASSUME NEW i \in DOMAIN (s \o t) PROVE Waits(nodes, constant, (s \o t)[i])
  <2>1. \/ i \in DOMAIN s /\ (s \o t)[i] = s[i]
        \/ i - Len(s) \in DOMAIN t /\ (s \o t)[i] = t[i - Len(s)]
    BY <1>2
  <2> QED
    BY <2>1 DEF AllWait
<1> QED
  BY <1>3 DEF AllWait

\* Frames that are no constants wait for none.
LEMMA NoConstantsWait ==
    ASSUME NEW nodes, NEW constant, NEW s, NoConstants(s)
    PROVE  AllWait(nodes, constant, s)
BY DEF NoConstants, AllWait, Waits

\* Choosing a node leaves those that wait further behind.
LEMMA SpendingWaits ==
    ASSUME ConstantInv, Spends, NEW stack, AllWait(budget, mailbox, stack)
    PROVE  budget' \in Int /\ AllWait(budget', mailbox, stack)
<1>1. budget' \in Int /\ budget' <= budget
  BY DEF ConstantInv, Spends
<1> QED
  BY <1>1 DEF ConstantInv, AllWait, Waits

LEMMA StepKeepsConstants ==
    ASSUME ScopeInv, ConstantInv, SemaStep
    PROVE  ConstantInv'
<1>1. IsStack(todo) /\ IsStack(Rest)
  BY Rests DEF ScopeInv
<1>2. AllWait(budget, mailbox, Rest)
  BY <1>1, RestWaits DEF ConstantInv
<1>3. ASSUME Spends, UNCHANGED mailbox, NEW frames, IsStack(frames), NoConstants(frames),
             todo' = frames \o Rest
      PROVE  ConstantInv'
  <2>1. budget' \in Int /\ AllWait(budget', mailbox, Rest)
    BY <1>2, <1>3, SpendingWaits
  <2>2. AllWait(budget', mailbox, frames)
    BY <1>3, NoConstantsWait
  <2>3. AllWait(budget', mailbox, frames \o Rest)
    BY <1>1, <1>3, <2>1, <2>2, ConcatWaits
  <2>4. AllWait(budget', mailbox', todo')
    BY <1>3, <2>3
  <2> QED
    BY <1>3, <2>1, <2>4 DEF ConstantInv, AllWait
<1>4. NoConstants(<<>>) /\ IsStack(<<>>)
  BY PlainNone DEF PlainStack
<1>5. CASE UNCHANGED <<table, todo, mailbox, budget>>
  BY <1>5 DEF ConstantInv, AllWait
<1>6. CASE UNCHANGED mailbox /\ \E frames : PlainStack(frames) /\ Advances(frames)
  BY <1>3, <1>6 DEF PlainStack, Advances
<1>7. CASE Declares
  BY <1>3, <1>4, <1>7 DEF Declares, Advances
<1>8. CASE Opens
  BY <1>3, <1>8 DEF Opens, OpensOne, Advances
<1>9. CASE Closes
  BY <1>3, <1>4, <1>9 DEF Closes
<1>10. CASE Fills
  <2>1. PICK isInt : mailbox' = Constant(isInt)
    BY <1>10 DEF Fills
  <2>2. Spends /\ todo' = <<>> \o Rest
    BY <1>10 DEF Fills, Advances
  <2>3. mailbox'[1].id = budget /\ budget \in Int
    BY <2>1 DEF Constant, ConstantInv
  <2>4. budget' \in Int /\ AllWait(budget', mailbox, Rest)
    BY <1>2, <2>2, SpendingWaits
  <2>5. AllWait(budget, mailbox', Rest)
    BY <1>2, <2>3 DEF AllWait, Waits, Younger
  <2>6. AllWait(budget', mailbox', Rest)
    BY <2>4, <2>5 DEF AllWait, Waits
  <2>7. AllWait(budget', mailbox', <<>> \o Rest)
    BY <1>1, <1>4, <2>6, NoConstantsWait, ConcatWaits
  <2>8. AllWait(budget', mailbox', todo')
    BY <2>2, <2>7
  <2> QED
    BY <2>3, <2>4, <2>8 DEF ConstantInv, AllWait
<1>11. CASE Empties
  <2> DEFINE below == <<Expr("conditional")>>
             frames == below \o <<ConstantFrame>>
  <2>1. Spends /\ todo' = frames \o Rest /\ mailbox' = NoConstant
    BY <1>11 DEF Empties, Advances
  <2>2. budget' \in Int /\ budget' <= budget /\ budget \in Int
    BY <2>1 DEF ConstantInv, Spends
  <2>3. AllWait(budget', mailbox', Rest)
    <3>1. AllWait(budget', mailbox, Rest)
      BY <1>2, <2>1, SpendingWaits
    <3> QED
      BY <2>1, <3>1 DEF AllWait, Waits, Younger
  <2>4. AllWait(budget', mailbox', below)
    <3>1. NoConstants(below)
      BY PlainOne, PlainFrames DEF PlainStack
    <3> QED
      BY <3>1, NoConstantsWait
  <2>5. AllWait(budget', mailbox', <<ConstantFrame>>)
    <3>1. ConstantFrame.arg = budget
      BY DEF ConstantFrame, Resume
    <3>2. Waits(budget', mailbox', ConstantFrame)
      BY <2>1, <2>2, <3>1 DEF Waits, Younger
    <3> QED
      BY <3>2 DEF AllWait
  <2>6. AllWait(budget', mailbox', frames)
    BY <2>4, <2>5, ConstantFrames, ConcatWaits
  <2>7. IsStack(frames)
    BY ConstantFrames, OpenedConcat
  <2>8. AllWait(budget', mailbox', frames \o Rest)
    BY <1>1, <2>3, <2>6, <2>7, ConcatWaits
  <2> HIDE DEF frames
  <2>9. AllWait(budget', mailbox', todo')
    BY <2>1, <2>8
  <2> QED
    BY <2>1, <2>2, <2>9 DEF ConstantInv, AllWait
<1> QED
  BY <1>5, <1>6, <1>7, <1>8, <1>9, <1>10, <1>11 DEF SemaStep, Walks

\* ConstantExpression resets _lastConstVal before it visits its child and
\* every other visit leaves it alone or fills it, so the value it reads is of
\* a literal visited in between, however deep the expression nests.
THEOREM ConstantsAreTheirOwn == Spec => []ConstantsAreOwn
<1>1. ASSUME Init PROVE ConstantInv
  <2>1. DOMAIN todo = {} /\ budget \in Int /\ mailbox = NoConstant
    BY <1>1, BoundAssumption DEF Init
  <2> QED
    BY <2>1 DEF ConstantInv, AllWait
<1>2. ASSUME ScopeInv, ConstantInv, [Next]_vars PROVE ConstantInv'
  BY <1>2, NextSteps, StepKeepsConstants
<1>3. ASSUME ScopeInv, ConstantInv PROVE ConstantsAreOwn
  <2>1. SUFFICES ASSUME At("constantExpression"), mailbox # NoConstant
                 PROVE  mailbox[1].id <= Head(todo).arg
    BY DEF ConstantsAreOwn
  <2>2. todo # <<>> /\ Head(todo).at = "constantExpression"
    BY <2>1 DEF At
  <2>3. Head(todo) = todo[1] /\ Len(todo) \in Nat \ {0} /\ DOMAIN todo = 1 .. Len(todo)
    BY <1>3, <2>2, TailFacts, SequenceFacts DEF ScopeInv, IsStack
  <2>4. Waits(budget, mailbox, todo[1])
    BY <1>3, <2>3 DEF ConstantInv, AllWait
  <2> QED
    BY <2>1, <2>2, <2>3, <2>4 DEF Waits, Younger
<1> QED
  BY ScopeInvariant, <1>1, <1>2, <1>3, PTL DEF Spec

-----------------------------------------------------------------------------
(* Induction, from the well-foundedness of the naturals *)

\* Stated for a set: the numbers that have the property at hand.
LEMMA SetInduction ==
    ASSUME NEW S, 0 \in S, \A n \in Nat : n \in S => n + 1 \in S
    PROVE  Nat \subseteq S
<1> DEFINE T == Nat \ S
           R == OpToRel(<, Nat)
<1>1. SUFFICES ASSUME T # {} PROVE FALSE
  OBVIOUS
<1>2. IsWellFoundedOn(R, Nat)
  BY NatLessThanWellFounded, Zenon
<1>3. T \subseteq Nat
  OBVIOUS
<1> HIDE DEF T, R
<1>4. PICK x \in T : \A y \in T : <<y, x>> \notin R
  BY <1>1, <1>2, <1>3, WFMin
<1> USE DEF T
<1>5. x \in Nat /\ x # 0
  OBVIOUS
<1>6. x - 1 \in Nat /\ (x - 1) + 1 = x
  BY <1>5
<1>7. x - 1 \in T
  BY <1>5, <1>6
<1>8. <<x - 1, x>> \in R
  BY <1>5, <1>6 DEF R, OpToRel
<1> QED
  BY <1>4, <1>7, <1>8

\* visitVal(TypeSpecifier) leaves a basic type.
LEMMA SpecifierIsBasic ==
    ASSUME NEW specifier, NEW type
    PROVE  SpecifyType(specifier, type).data = "basic"
<1> DEFINE basic == IF type.data = "basic" THEN type ELSE [VoidType EXCEPT !.isConst = type.isConst]
<1>1. basic.data = "basic"
  BY DEF VoidType, Basic
<1> QED
  BY <1>1 DEF SpecifyType, VoidType, Basic

LEMMA SmallestOf ==
    ASSUME NEW s \in SUBSET Nat, s # {}
    PROVE  \E x \in s : \A y \in s : x <= y
<1> DEFINE R == OpToRel(<, Nat)
<1>1. IsWellFoundedOn(R, Nat)
  BY NatLessThanWellFounded, Zenon
<1> HIDE DEF R
<1>2. PICK x \in s : \A y \in s : <<y, x>> \notin R
  BY <1>1, WFMin
<1> USE DEF R
<1>3. \A y \in s : ~(y < x)
  BY <1>2 DEF OpToRel
<1>4. \A y \in s : x <= y
  BY <1>3
<1> QED
  BY <1>4

LEMMA SmallestIn ==
    ASSUME NEW s \in SUBSET Nat, s # {}
    PROVE  Min(s) \in s
BY SmallestOf DEF Min

\* What one pass of the visitor over a list of specifiers does: FoldRight's
\* recursion has a solution, so the fold satisfies its own equation.
FoldsFrom(list, type, iter, s) ==
    iter[s] = IF s = {} THEN type ELSE SpecifyType(list[Min(s)], iter[s \ {Min(s)}])

LEMMA SmallerSets ==
    ASSUME NEW S, S \subseteq Nat, IsFiniteSet(S), NEW s \in SUBSET S, s # {}
    PROVE  /\ s \ {Min(s)} \in SUBSET S /\ Cardinality(s) \in Nat \ {0}
           /\ Cardinality(s \ {Min(s)}) = Cardinality(s) - 1
<1>1. IsFiniteSet(s) /\ s \in SUBSET Nat
  BY FS_Subset
<1>2. Min(s) \in s
  BY <1>1, SmallestIn
<1>3. Cardinality(s \ {Min(s)}) = Cardinality(s) - 1
  BY <1>1, <1>2, FS_RemoveElement
<1>4. Cardinality(s) \in Nat /\ Cardinality(s) # 0
  BY <1>1, FS_CardinalityType, FS_EmptySet
<1> QED
  BY <1>3, <1>4

FoldsOver(list, type, iter, S) ==
    iter = [s \in SUBSET S |-> IF s = {} THEN type
                               ELSE SpecifyType(list[Min(s)], iter[s \ {Min(s)}])]

LEMMA FoldSolved ==
    ASSUME NEW S, S \subseteq Nat, IsFiniteSet(S), NEW list, NEW type
    PROVE  \E iter : FoldsOver(list, type, iter, S)
<1> DEFINE Up(k) == {s \in SUBSET S : Cardinality(s) <= k}
           G == {k \in Nat : \E g : \A s \in Up(k) : FoldsFrom(list, type, g, s)}
<1>1. 0 \in G
  <2> DEFINE g == [s \in SUBSET S |-> type]
  <2>1. ASSUME NEW s \in Up(0) PROVE s = {} /\ s \in SUBSET S
    <3>1. s \in SUBSET S /\ Cardinality(s) <= 0
      BY <2>1
    <3>2. s # {} => Cardinality(s) \in Nat \ {0}
      BY <3>1, SmallerSets
    <3> QED
      BY <3>1, <3>2
  <2>2. \A s \in Up(0) : FoldsFrom(list, type, g, s)
    BY <2>1 DEF FoldsFrom
  <2> QED
    BY <2>2
<1>2. ASSUME NEW k \in Nat, k \in G PROVE k + 1 \in G
  <2>1. PICK g : \A s \in Up(k) : FoldsFrom(list, type, g, s)
    BY <1>2
  <2> DEFINE h == [s \in SUBSET S |->
                     IF Cardinality(s) <= k THEN g[s]
                     ELSE SpecifyType(list[Min(s)], g[s \ {Min(s)}])]
  <2>2. ASSUME NEW s \in Up(k + 1) PROVE FoldsFrom(list, type, h, s)
    <3>1. s \in SUBSET S /\ Cardinality(s) <= k + 1
      BY <2>2
    <3>2. CASE s = {}
      <4>1. Cardinality(s) = 0
        BY <3>2, FS_EmptySet
      <4>2. h[s] = g[s] /\ s \in Up(k)
        BY <1>2, <3>1, <4>1
      <4> QED
        BY <2>1, <3>2, <4>2 DEF FoldsFrom
    <3>3. CASE s # {}
      <4> DEFINE t == s \ {Min(s)}
      <4>1. t \in SUBSET S /\ Cardinality(s) \in Nat \ {0} /\ Cardinality(t) = Cardinality(s) - 1
        BY <3>1, <3>3, SmallerSets
      <4>2. Cardinality(t) <= k
        BY <1>2, <3>1, <4>1
      <4> HIDE DEF t
      <4>3. h[t] = g[t]
        BY <4>1, <4>2
      <4>4. h[s] = SpecifyType(list[Min(s)], g[t])
        <5>1. CASE Cardinality(s) <= k
          <6>1. h[s] = g[s] /\ s \in Up(k)
            BY <3>1, <5>1
          <6> QED
            BY <2>1, <3>3, <6>1 DEF FoldsFrom, t
        <5>2. CASE ~(Cardinality(s) <= k)
          BY <3>1, <5>2 DEF t
        <5> QED
          BY <5>1, <5>2
      <4> HIDE DEF h
      <4> QED
        BY <3>3, <4>3, <4>4 DEF FoldsFrom, t
    <3> QED
      BY <3>2, <3>3
  <2> HIDE DEF h, Up
  <2>3. \E f : \A s \in Up(k + 1) : FoldsFrom(list, type, f, s)
    BY <2>2
  <2> QED
    BY <1>2, <2>3
<1>3. Cardinality(S) \in Nat
  BY FS_CardinalityType
<1>4. Nat \subseteq G
  <2> HIDE DEF G
  <2> QED
    BY <1>1, <1>2, SetInduction
<1>5. PICK g : \A s \in Up(Cardinality(S)) : FoldsFrom(list, type, g, s)
  BY <1>3, <1>4
<1>6. \A s \in SUBSET S : s \in Up(Cardinality(S))
  BY FS_Subset
<1> DEFINE f == [s \in SUBSET S |-> g[s]]
<1>7. ASSUME NEW s \in SUBSET S PROVE FoldsFrom(list, type, f, s)
  <2>1. FoldsFrom(list, type, g, s) /\ f[s] = g[s]
    BY <1>5, <1>6
  <2>2. s # {} => f[s \ {Min(s)}] = g[s \ {Min(s)}]
    OBVIOUS
  <2> HIDE DEF f
  <2> QED
    BY <2>1, <2>2 DEF FoldsFrom
<1>8. f = [s \in SUBSET S |-> f[s]]
  OBVIOUS
<1> HIDE DEF f
<1>9. FoldsOver(list, type, f, S)
  BY <1>7, <1>8 DEF FoldsFrom, FoldsOver
<1> QED
  BY <1>9

\* A list of specifiers makes a basic type, an empty one changes nothing.
LEMMA Specifies ==
    ASSUME NEW list, IsSequence(list), NEW type
    PROVE  Specify(list, type).data = "basic" \/ Specify(list, type) = type
<1> DEFINE S == DOMAIN list
           iter == CHOOSE f : FoldsOver(list, type, f, S)
<1>1. Specify(list, type) = iter[S]
  BY DEF Specify, FoldRight, MapThenFoldSet, FoldsOver
<1>2. S \subseteq Nat /\ IsFiniteSet(S)
  <2>1. S = 1 .. Len(list) /\ Len(list) \in Nat
    BY SequenceFacts
  <2> QED
    BY <2>1, FS_Interval
<1> HIDE DEF S
<1>3. FoldsOver(list, type, iter, S)
  <2>1. \E f : FoldsOver(list, type, f, S)
    BY <1>2, FoldSolved
  <2> QED
    BY <2>1
<1> HIDE DEF iter
<1>4. iter[S] = IF S = {} THEN type ELSE SpecifyType(list[Min(S)], iter[S \ {Min(S)}])
  <2>1. S \in SUBSET S
    OBVIOUS
  <2> QED
    BY <1>3, <2>1 DEF FoldsOver
<1> QED
  BY <1>1, <1>4, SpecifierIsBasic

-----------------------------------------------------------------------------
(* The invariant *)

\* Places of the call stack that belong to expressions; those where a result
\* is left for the frame below, and those that read it.
ExprPlace == {"expr", "list", "listRest", "rightSide", "incDec", "untyped", "callee",
              "arguments", "call", "constant", "constantExpression"} \cup BinaryOperator
Reads == {"rightSide", "listRest", "incDec", "callee", "constantExpression"} \cup BinaryOperator

\* What a declarator may leave in _curType with these constructs.
DeclaredType == ObjectType \ (IF Uses("array") THEN {} ELSE {"array"})
\* A type an expression may be given.
TypedValue(type) ==
    /\ type.data \in DeclaredType \cup {"func", "null"}
    /\ type.data = "func" => type.of.data \in DeclaredType
TypedSymbol(symbol) ==
    \/ symbol.kind = "variable" /\ symbol.type.data \in DeclaredType
    \/ symbol.kind = "function" /\ symbol.type.data = "func" /\ symbol.type.of.data \in DeclaredType
TypedScopes(scopes) ==
    \A i \in DOMAIN scopes : \A n \in DOMAIN scopes[i] : n \in Names /\ TypedSymbol(scopes[i][n])

\* A type or parameter without a name.
Nameless == Uses("abstract") \/ Uses("cast") \/ Uses("sizeofType")
Calling == {"parameter", "parameterEnd", "functionDeclarator"}
CallField == {"of", "params", "pointer", "role", "meant", "meantParams"}
DeclaratorRole ==
    {"variable", "definition", "parameter", "typeName"}
    \cup ({"typedef"} \cap Constructs)
    \cup (IF Uses("struct") THEN {"member"} ELSE {})

SoundDeclarator(frame) ==
    /\ frame.arg \in Names \cup {NoName}
    /\ frame.arg = NoName => Nameless /\ frame.saved.role # "definition"
    /\ frame.saved.role \in DeclaratorRole
SoundCalling(frame) ==
    /\ frame.arg \in Names \cup {NoName}
    /\ DOMAIN frame.saved = CallField
    /\ frame.saved.of.data \in DeclaredType
    /\ frame.saved.role = "definition" \/ Uses("prototype") \/ Uses("functionPointer")
    /\ frame.saved.role = "definition" => ~frame.saved.pointer
    /\ frame.arg = NoName /\ ~frame.saved.pointer => Nameless /\ Uses("prototype")
SoundCall(frame) ==
    /\ frame.saved.data = "func" /\ frame.saved.of.data \in DeclaredType /\ frame.arg \in Nat
    /\ frame.arg = 0 =>
         frame.at = "call" /\ (Uses("noArguments") \/ frame.saved.params = <<>>)
SoundFrame(frame) ==
    /\ frame.at = "declarator" => SoundDeclarator(frame)
    /\ frame.at \in Calling => SoundCalling(frame)
    /\ frame.at \in {"arguments", "call"} => SoundCall(frame)
    /\ frame.at = "moreDeclarators" => frame.arg \in Role
    /\ frame.at = "pointerDeclarator" => frame.saved.data \in DeclaredType
    /\ frame.at \in BinaryOperator => TypedValue(frame.saved.type)
    /\ frame.at \in {"member", "moreMembers"} => Uses("struct")
    /\ frame.at = "typeName" => Uses("cast") \/ Uses("sizeofType")
    /\ frame.at = "arrayDeclarator" => Uses("array")
    /\ frame.at = "enumerators" => Uses("enum")
    /\ frame.at = "untyped" => \E kind \in DOMAIN UntypedChildren : Uses(kind)
Sound(stack) == \A i \in DOMAIN stack : SoundFrame(stack[i])

TypeInv ==
    /\ IsSequence(cScopes) /\ TypedScopes(table)
    /\ curType.data \in DeclaredType /\ TypedValue(result.type)
    /\ mailbox # NoConstant => mailbox[1].isInt \in BOOLEAN /\ mailbox[1].id \in 1 .. MaxNodes
    /\ Sound(todo)
    /\ status \in {"visiting", "accepted", "rejected", "crashed"}
    /\ budget \in 0 .. MaxNodes

\* Crashes
Crashing == {"noDeclarator", "unsized", "implicitInt", "string", "noArguments",
              "index", "member", "unary", "sizeof", "sizeofType", "cast", "conditional"}
Known(type) == type.data # "null"
KnownFrame(frame) == frame.at \in BinaryOperator => Known(frame.saved.type)
Linked(stack) ==
    /\ \A i \in DOMAIN stack : KnownFrame(stack[i])
    /\ \A i \in DOMAIN stack : i # 1 /\ stack[i].at \in Reads => stack[i - 1].at \in ExprPlace
Safe == Constructs \cap Crashing = {} /\ ~({"prototype", "abstract"} \subseteq Constructs)
CrashInv ==
    Safe =>
    /\ status # "crashed"
    /\ Linked(todo)
    /\ todo # <<>> /\ Head(todo).at \in Reads => Known(result.type)

\* Leaks
SameNames(scopes, entities) ==
    /\ Len(entities) = Len(scopes)
    /\ \A i \in DOMAIN scopes : DOMAIN scopes[i] = DOMAIN entities[i]
Leakless == Constructs \cap {"struct", "prototype", "functionPointer"} = {}
LeakInv == Leakless => SameNames(table, cScopes)

\* Agreement
Resets == {"declarations", "statements", "stmt", "compound", "functionDefinition",
           "moreDeclarators"} \cup Calling
Waiting(frame) == frame.at = "moreDeclarators"
Restores(frame) == frame.at = "pointerDeclarator"
Resetting(frame) ==
    \/ frame.at \in Resets
    \/ frame.at = "declarator" /\ frame.saved.role = "definition"
Fits(type, stack) ==
    /\ \A i \in DOMAIN stack : stack[i].at = "declarator" => i = 1 /\ stack[i].saved.type = type
    /\ \A i \in DOMAIN stack : Waiting(stack[i]) =>
         /\ \A j \in 1 .. i - 1 : ~Resetting(stack[j])
         /\ \/ stack[i].saved = type /\ \A j \in 1 .. i - 1 : ~Restores(stack[j])
            \/ \E j \in 1 .. i - 1 :
                 /\ Restores(stack[j]) /\ stack[j].saved = stack[i].saved
                 /\ \A k \in j + 1 .. i - 1 : ~Restores(stack[k])
\* What the visitor and C know is the same.
SameEntity(symbol, entity) ==
    symbol.id = entity.id /\ symbol.kind = entity.kind /\ TypeFor(symbol.type, entity.type)
SameScopes(scopes, entities) ==
    /\ SameNames(scopes, entities)
    /\ \A i \in DOMAIN scopes : \A n \in DOMAIN scopes[i] :
         SameEntity(scopes[i][n], entities[i][n])
SameCall(frame) ==
    frame.at \in Calling =>
    /\ frame.saved.of = frame.saved.meant
    /\ IsSequence(frame.saved.params) /\ IsSequence(frame.saved.meantParams)
    /\ ParameterTypes(frame.saved.params, frame.saved.meantParams)
\* Above a parameter there is nothing but its declarators, that of its name
\* innermost; when they have ended, _curType is the specifiers' type again and
\* C's type, meant, is that one, a pointer to it, or a pointer to a pointer.
InParameter == {"declarator", "pointerDeclarator"}
Points(type, depth, innermost) ==
    /\ type.data = "pointer"
    /\ IsBasic(type.of) => depth = 1 /\ type.of = innermost
FitsParameter(meant, type, stack) ==
    \A i \in DOMAIN stack : stack[i].at = "parameterEnd" =>
        /\ \A j \in 1 .. i - 1 :
             /\ stack[j].at \in InParameter
             /\ stack[j].at = "declarator" => stack[j].saved.role = "parameter"
             /\ j = i - 1 /\ Restores(stack[j]) => IsBasic(stack[j].saved)
        /\ i = 1 => IsBasic(type) /\ ParameterFor(type, meant)
        /\ i > 1 /\ Restores(stack[1]) => Points(meant, i - 1, stack[1].saved)
        /\ i = 2 /\ stack[1].at = "declarator" => IsBasic(type)
        /\ i > 2 /\ stack[1].at = "declarator" => Points(type, i - 2, stack[2].saved)
Agreeing ==
    /\ Constructs \cap {"typedef", "struct", "enum", "array", "prototype", "functionPointer",
                        "abstract", "cast", "sizeofType"} = {}
    /\ \A list \in SpecifierLists : Specify(list, VoidType) = CType(list)
Agreed ==
    /\ SameScopes(table, cScopes)
    /\ Fits(curType, todo)
    /\ FitsParameter(cType, curType, todo)
AgreeInv ==
    Agreeing => Agreed /\ \A i \in DOMAIN todo : SameCall(todo[i])

-----------------------------------------------------------------------------
(* What a step leaves on the call stack *)

Onto(frames) == IsSequence(frames) /\ todo' = frames \o Rest

LEMMA RestFacts ==
    ASSUME IsStack(todo)
    PROVE  /\ IsSequence(Rest) /\ Len(Rest) \in Nat /\ DOMAIN Rest = 1 .. Len(Rest)
           /\ \A i \in DOMAIN Rest :
                i + 1 \in DOMAIN todo /\ Rest[i] = todo[i + 1] /\ todo # <<>>
           /\ todo # <<>> => /\ Head(todo) = todo[1] /\ 1 \in DOMAIN todo
                             /\ IsFrame(Head(todo)) /\ DOMAIN todo = 1 .. Len(Rest) + 1
<1>1. IsSequence(todo) /\ IsStack(Rest)
  BY Rests DEF IsStack
<1>2. IsSequence(Rest) /\ Len(Rest) \in Nat /\ DOMAIN Rest = 1 .. Len(Rest)
  BY <1>1, SequenceFacts DEF IsStack
<1>3. CASE todo = <<>>
  <2>1. Rest = <<>> /\ DOMAIN Rest = {}
    BY <1>3 DEF Rest
  <2> QED
    BY <1>2, <1>3, <2>1
<1>4. CASE todo # <<>>
  <2>1. /\ Len(Rest) = Len(todo) - 1 /\ Len(todo) \in Nat \ {0}
        /\ \A i \in 1 .. Len(todo) - 1 : Rest[i] = todo[i + 1]
        /\ Head(todo) = todo[1]
    BY <1>1, <1>4, TailFacts DEF Rest
  <2>2. DOMAIN todo = 1 .. Len(todo)
    BY <1>1, SequenceFacts
  <2>3. 1 \in DOMAIN todo /\ IsFrame(todo[1])
    BY <2>1, <2>2 DEF IsStack
  <2> QED
    BY <1>2, <1>4, <2>1, <2>2, <2>3
<1> QED
  BY <1>3, <1>4

\* Each frame is one of those just put there, or was below the head.
LEMMA FramesOf ==
    ASSUME IsStack(todo), NEW frames, Onto(frames)
    PROVE  /\ Len(frames) \in Nat /\ DOMAIN frames = 1 .. Len(frames)
           /\ DOMAIN todo' = 1 .. Len(frames) + Len(Rest)
           /\ \A i \in DOMAIN todo' :
                \/ i <= Len(frames) /\ i \in DOMAIN frames /\ todo'[i] = frames[i]
                \/ /\ i > Len(frames) /\ todo # <<>>
                   /\ i - Len(frames) + 1 \in DOMAIN todo /\ i - Len(frames) \in DOMAIN Rest
                   /\ todo'[i] = todo[i - Len(frames) + 1]
<1>1. /\ IsSequence(Rest) /\ Len(Rest) \in Nat /\ DOMAIN Rest = 1 .. Len(Rest)
      /\ \A i \in DOMAIN Rest : i + 1 \in DOMAIN todo /\ Rest[i] = todo[i + 1] /\ todo # <<>>
  BY RestFacts
<1>2. Len(frames) \in Nat /\ DOMAIN frames = 1 .. Len(frames) /\ IsSequence(frames)
  BY SequenceFacts DEF Onto
<1>3. /\ IsSequence(todo') /\ Len(todo') = Len(frames) + Len(Rest)
      /\ \A i \in 1 .. Len(frames) + Len(Rest) :
            todo'[i] = IF i <= Len(frames) THEN frames[i] ELSE Rest[i - Len(frames)]
  BY <1>1, <1>2, ConcatFacts DEF Onto
<1>4. DOMAIN todo' = 1 .. Len(frames) + Len(Rest)
  BY <1>3, SequenceFacts
<1>5. ASSUME NEW i \in DOMAIN todo', ~(i <= Len(frames))
      PROVE  i - Len(frames) \in DOMAIN Rest /\ todo'[i] = Rest[i - Len(frames)]
  BY <1>1, <1>2, <1>3, <1>4, <1>5
<1>6. ASSUME NEW i \in DOMAIN todo', i <= Len(frames)
      PROVE  i \in DOMAIN frames /\ todo'[i] = frames[i]
  BY <1>1, <1>2, <1>3, <1>4, <1>6
<1>7. \A i \in DOMAIN todo' : i \in Int
  BY <1>4
<1> QED
  BY <1>1, <1>2, <1>4, <1>5, <1>6, <1>7

LEMMA SoundOnto ==
    ASSUME IsStack(todo), NEW frames, Onto(frames), Sound(todo), Sound(frames)
    PROVE  Sound(todo')
BY FramesOf DEF Sound

\* A result is there for whoever reads it.
Passes(frames, type) ==
    /\ Linked(frames)
    /\ frames # <<>> => frames[1].at \notin Reads
    /\ todo # <<>> /\ Head(todo).at \in ExprPlace =>
         IF frames = <<>> THEN Known(type) ELSE frames[Len(frames)].at \in ExprPlace

LEMMA LinkedOnto ==
    ASSUME IsStack(todo), NEW frames, Onto(frames), Linked(todo), NEW type, Passes(frames, type)
    PROVE  Linked(todo') /\ (todo' # <<>> /\ Head(todo').at \in Reads => Known(type))
<1>1. /\ Len(frames) \in Nat /\ DOMAIN frames = 1 .. Len(frames)
      /\ DOMAIN todo' = 1 .. Len(frames) + Len(Rest)
      /\ \A i \in DOMAIN todo' :
                \/ i <= Len(frames) /\ i \in DOMAIN frames /\ todo'[i] = frames[i]
                \/ /\ i > Len(frames) /\ todo # <<>>
                   /\ i - Len(frames) + 1 \in DOMAIN todo /\ i - Len(frames) \in DOMAIN Rest
                   /\ todo'[i] = todo[i - Len(frames) + 1]
  BY FramesOf
<1>2. /\ Len(Rest) \in Nat /\ DOMAIN Rest = 1 .. Len(Rest)
      /\ todo # <<>> => Head(todo) = todo[1] /\ DOMAIN todo = 1 .. Len(Rest) + 1
  BY RestFacts
<1>3. \A i \in DOMAIN todo' : KnownFrame(todo'[i])
  BY <1>1 DEF Linked, Passes
\* What is right below the new frames read the result of the head.
<1>4. ASSUME Len(Rest) # 0, todo # <<>>, todo[2].at \in Reads PROVE Head(todo).at \in ExprPlace
  <2>1. 2 \in DOMAIN todo /\ 2 # 1 /\ 2 - 1 = 1
    BY <1>2, <1>4
  <2> QED
    BY <1>2, <1>4, <2>1 DEF Linked
<1>5. ASSUME NEW i \in DOMAIN todo', i # 1, todo'[i].at \in Reads
      PROVE  todo'[i - 1].at \in ExprPlace
  <2>1. i \in Int /\ i - 1 \in DOMAIN todo' /\ i >= 1
    BY <1>1, <1>2, <1>5
  <2>2. CASE i <= Len(frames)
    <3>1. i \in DOMAIN frames /\ todo'[i] = frames[i] /\ todo'[i - 1] = frames[i - 1]
      BY <1>1, <2>1, <2>2
    <3> QED
      BY <1>5, <3>1 DEF Passes, Linked
  <2>3. CASE i = Len(frames) + 1
    <3>1. todo # <<>> /\ i - Len(frames) + 1 = 2 /\ todo'[i] = todo[2] /\ Len(Rest) # 0
      BY <1>1, <1>2, <2>1, <2>3
    <3>2. frames # <<>> /\ i - 1 = Len(frames) /\ todo'[i - 1] = frames[i - 1]
      BY <1>1, <1>5, <2>1, <2>3
    <3> QED
      BY <1>4, <1>5, <3>1, <3>2 DEF Passes
  <2>4. CASE i > Len(frames) + 1
    <3> DEFINE j == i - Len(frames) + 1
    <3>1. j \in DOMAIN todo /\ todo'[i] = todo[j] /\ j # 1 /\ todo'[i - 1] = todo[j - 1]
      <4>1. (i - 1) - Len(frames) + 1 = j - 1 /\ ~(i <= Len(frames)) /\ ~(i - 1 <= Len(frames)) /\ j # 1
        BY <1>1, <2>1, <2>4
      <4> QED
        BY <1>1, <2>1, <4>1
    <3> QED
      BY <1>5, <3>1 DEF Linked
  <2> QED
    BY <1>1, <2>1, <2>2, <2>3, <2>4
<1>6. ASSUME todo' # <<>>, Head(todo').at \in Reads PROVE Known(type)
  <2>1. 1 \in DOMAIN todo' /\ Head(todo') = todo'[1]
    <3>1. IsSequence(todo')
      BY RestFacts, ConcatFacts DEF Onto
    <3> QED
      BY <1>6, <3>1, TailFacts, SequenceFacts
  <2>2. CASE Len(frames) # 0
    <3>1. frames # <<>> /\ todo'[1] = frames[1]
      BY <1>1, <2>1, <2>2
    <3> QED
      BY <1>6, <2>1, <3>1 DEF Passes
  <2>3. CASE Len(frames) = 0
    <3>1. todo # <<>> /\ 1 - Len(frames) + 1 = 2 /\ todo'[1] = todo[2] /\ Len(Rest) # 0
      BY <1>1, <1>2, <2>1, <2>3
    <3>2. frames = <<>>
      BY <1>1, <2>3, EmptySeq DEF Onto, IsSequence
    <3> QED
      BY <1>4, <1>6, <2>1, <3>1, <3>2 DEF Passes
  <2> QED
    BY <2>2, <2>3
<1> QED
  BY <1>3, <1>5, <1>6 DEF Linked

\* No declarator is suspended with its place still "declarator", and no list
\* of declarators goes on below.
Undeclared == \A i \in DOMAIN Rest : Rest[i].at # "declarator"
NoneWaits == \A i \in DOMAIN Rest : ~Waiting(Rest[i])

\* The type that what is below the head finds again.
LEMMA FitsBelow ==
    ASSUME IsStack(todo), NEW type, Fits(type, todo)
    PROVE  /\ Undeclared
           /\ todo = <<>> \/ Resetting(Head(todo)) => NoneWaits
           /\ todo # <<>> => Fits(IF Restores(Head(todo)) THEN Head(todo).saved ELSE type, Rest)
<1>1. /\ Len(Rest) \in Nat /\ DOMAIN Rest = 1 .. Len(Rest)
      /\ \A i \in DOMAIN Rest :
           i + 1 \in DOMAIN todo /\ Rest[i] = todo[i + 1] /\ todo # <<>>
      /\ todo # <<>> => Head(todo) = todo[1] /\ 1 \in DOMAIN todo
  BY RestFacts
<1>2. \A i \in DOMAIN Rest : Rest[i].at # "declarator"
  BY <1>1 DEF Fits
<1>3. ASSUME todo = <<>> \/ Resetting(Head(todo)), NEW i \in DOMAIN Rest, Waiting(Rest[i])
      PROVE  FALSE
  <2>1. i + 1 \in DOMAIN todo /\ Waiting(todo[i + 1]) /\ 1 \in 1 .. (i + 1) - 1
    BY <1>1, <1>3
  <2>2. ~Resetting(todo[1])
    BY <2>1 DEF Fits
  <2> QED
    BY <1>1, <1>3, <2>2
<1>4. ASSUME todo # <<>>
      PROVE  Fits(IF Restores(Head(todo)) THEN Head(todo).saved ELSE type, Rest)
  <2> DEFINE now == IF Restores(Head(todo)) THEN Head(todo).saved ELSE type
  <2>1. ASSUME NEW i \in DOMAIN Rest, Waiting(Rest[i])
        PROVE  /\ \A j \in 1 .. i - 1 : ~Resetting(Rest[j])
               /\ \/ Rest[i].saved = now /\ \A j \in 1 .. i - 1 : ~Restores(Rest[j])
                  \/ \E j \in 1 .. i - 1 :
                       /\ Restores(Rest[j]) /\ Rest[j].saved = Rest[i].saved
                       /\ \A k \in j + 1 .. i - 1 : ~Restores(Rest[k])
    <3>1. i + 1 \in DOMAIN todo /\ Waiting(todo[i + 1]) /\ Rest[i] = todo[i + 1] /\ i \in Nat
      BY <1>1, <2>1
    <3>2. \A j \in 1 .. i - 1 : j + 1 \in 1 .. (i + 1) - 1 /\ Rest[j] = todo[j + 1]
      BY <1>1, <2>1
    <3>3. \A j \in 1 .. (i + 1) - 1 : ~Resetting(todo[j])
      BY <3>1 DEF Fits
    <3>4. \A j \in 1 .. i - 1 : ~Resetting(Rest[j])
      BY <3>2, <3>3
    <3>5. CASE todo[i + 1].saved = type /\ \A j \in 1 .. (i + 1) - 1 : ~Restores(todo[j])
      <4>1. ~Restores(Head(todo))
        <5>1. 1 \in 1 .. (i + 1) - 1
          BY <1>1, <2>1
        <5> QED
          BY <1>1, <1>4, <3>5, <5>1
      <4>2. Rest[i].saved = now /\ \A j \in 1 .. i - 1 : ~Restores(Rest[j])
        BY <3>1, <3>2, <3>5, <4>1
      <4> QED
        BY <3>4, <4>2
    <3>6. CASE \E j \in 1 .. (i + 1) - 1 :
                 /\ Restores(todo[j]) /\ todo[j].saved = todo[i + 1].saved
                 /\ \A k \in j + 1 .. (i + 1) - 1 : ~Restores(todo[k])
      <4>1. PICK j \in 1 .. (i + 1) - 1 :
                 /\ Restores(todo[j]) /\ todo[j].saved = todo[i + 1].saved
                 /\ \A k \in j + 1 .. (i + 1) - 1 : ~Restores(todo[k])
        BY <3>6
      <4>2. CASE j = 1
        <5>1. \A k \in 1 .. i - 1 : k + 1 \in j + 1 .. (i + 1) - 1
          BY <1>1, <2>1, <4>2
        <5>2. Rest[i].saved = now /\ \A k \in 1 .. i - 1 : ~Restores(Rest[k])
          BY <1>1, <1>4, <3>1, <3>2, <4>1, <4>2, <5>1
        <5> QED
          BY <3>4, <5>2
      <4>3. CASE j # 1
        <5>1. j - 1 \in 1 .. i - 1 /\ (j - 1) + 1 = j
          BY <3>1, <4>1, <4>3
        <5>2. Rest[j - 1] = todo[j]
          BY <3>2, <5>1
        <5>3. \A k \in (j - 1) + 1 .. i - 1 : k \in 1 .. i - 1 /\ k + 1 \in j + 1 .. (i + 1) - 1
          BY <3>1, <5>1
        <5>4. \A k \in (j - 1) + 1 .. i - 1 : ~Restores(Rest[k])
          BY <3>2, <4>1, <5>3
        <5> QED
          BY <3>1, <3>4, <4>1, <5>1, <5>2, <5>4
      <4> QED
        BY <4>2, <4>3
    <3> QED
      BY <3>1, <3>5, <3>6 DEF Fits
  <2> HIDE DEF now
  <2>2. Fits(now, Rest)
    BY <1>2, <2>1 DEF Fits
  <2> QED
    BY <2>2 DEF now
<1> QED
  BY <1>2, <1>3, <1>4 DEF Undeclared, NoneWaits

\* Frames that fit put on top of those that do.
LEMMA FitsOnto ==
    ASSUME IsStack(todo), NEW frames, Onto(frames), NEW type, Fits(type, frames),
           Undeclared, NoneWaits \/ Fits(type, Rest),
           NoneWaits \/ \A i \in DOMAIN frames : ~Resetting(frames[i]) /\ ~Restores(frames[i])
    PROVE  Fits(type, todo')
<1> DEFINE n == Len(frames)
<1>1. /\ n \in Nat /\ DOMAIN frames = 1 .. n /\ DOMAIN todo' = 1 .. n + Len(Rest)
      /\ \A i \in DOMAIN todo' :
                \/ i <= n /\ i \in DOMAIN frames /\ todo'[i] = frames[i]
                \/ /\ i > n /\ i - n + 1 \in DOMAIN todo /\ i - n \in DOMAIN Rest
                   /\ todo'[i] = todo[i - n + 1]
  BY FramesOf
<1>2. /\ Len(Rest) \in Nat /\ DOMAIN Rest = 1 .. Len(Rest)
      /\ \A i \in DOMAIN Rest : Rest[i] = todo[i + 1]
  BY RestFacts
<1> HIDE DEF n
<1>3. \A i \in DOMAIN todo' : i > n => i - n \in DOMAIN Rest /\ todo'[i] = Rest[i - n]
  BY <1>1, <1>2
<1>4. \A i \in DOMAIN todo' : i <= n => i \in DOMAIN frames /\ todo'[i] = frames[i]
  BY <1>1
<1>5. ASSUME NEW i \in DOMAIN todo', todo'[i].at = "declarator"
      PROVE  i = 1 /\ todo'[i].saved.type = type
  <2>1. i <= n
    BY <1>1, <1>3, <1>5 DEF Undeclared
  <2> QED
    BY <1>4, <1>5, <2>1 DEF Fits
<1>6. ASSUME NEW i \in DOMAIN todo', Waiting(todo'[i])
      PROVE  /\ \A j \in 1 .. i - 1 : ~Resetting(todo'[j])
             /\ \/ todo'[i].saved = type /\ \A j \in 1 .. i - 1 : ~Restores(todo'[j])
                \/ \E j \in 1 .. i - 1 :
                     /\ Restores(todo'[j]) /\ todo'[j].saved = todo'[i].saved
                     /\ \A k \in j + 1 .. i - 1 : ~Restores(todo'[k])
  <2>1. CASE i <= n
    <3>1. i \in DOMAIN frames /\ todo'[i] = frames[i] /\ i \in Nat
      BY <1>1, <1>4, <2>1
    <3>2. \A j \in 1 .. i - 1 : j \in DOMAIN todo' /\ j <= n /\ todo'[j] = frames[j]
      BY <1>1, <1>4, <2>1, <3>1
    <3>3. /\ \A j \in 1 .. i - 1 : ~Resetting(frames[j])
          /\ \/ frames[i].saved = type /\ \A j \in 1 .. i - 1 : ~Restores(frames[j])
             \/ \E j \in 1 .. i - 1 :
                  /\ Restores(frames[j]) /\ frames[j].saved = frames[i].saved
                  /\ \A k \in j + 1 .. i - 1 : ~Restores(frames[k])
      BY <1>6, <3>1 DEF Fits
    <3>4. CASE frames[i].saved = type /\ \A j \in 1 .. i - 1 : ~Restores(frames[j])
      BY <3>1, <3>2, <3>3, <3>4
    <3>5. CASE \E j \in 1 .. i - 1 :
                  /\ Restores(frames[j]) /\ frames[j].saved = frames[i].saved
                  /\ \A k \in j + 1 .. i - 1 : ~Restores(frames[k])
      <4>1. PICK j \in 1 .. i - 1 :
                  /\ Restores(frames[j]) /\ frames[j].saved = frames[i].saved
                  /\ \A k \in j + 1 .. i - 1 : ~Restores(frames[k])
        BY <3>5
      <4>2. \A k \in j + 1 .. i - 1 : k \in 1 .. i - 1
        BY <4>1
      <4>3. \A k \in j + 1 .. i - 1 : ~Restores(todo'[k])
        BY <3>2, <4>1, <4>2
      <4> QED
        BY <3>1, <3>2, <3>3, <4>1, <4>3
    <3> QED
      BY <3>3, <3>4, <3>5
  <2>2. CASE ~(i <= n)
    <3> DEFINE m == i - n
    <3>1. i \in Nat /\ m \in DOMAIN Rest /\ todo'[i] = Rest[m] /\ m \in Nat /\ i = m + n
      BY <1>1, <1>2, <1>3, <2>2
    <3> HIDE DEF m
    <3>2. ~NoneWaits
      BY <1>6, <3>1 DEF NoneWaits
    <3>3. \A j \in DOMAIN frames : ~Resetting(frames[j]) /\ ~Restores(frames[j])
      BY <3>2
    <3>4. ASSUME NEW j \in 1 .. i - 1
          PROVE  \/ j \in DOMAIN frames /\ todo'[j] = frames[j]
                 \/ j - n \in 1 .. m - 1 /\ todo'[j] = Rest[j - n]
      <4>1. j \in DOMAIN todo'
        BY <1>1
      <4>2. CASE j <= n
        BY <1>4, <4>1, <4>2
      <4>3. CASE j > n
        <5>1. j - n \in DOMAIN Rest /\ todo'[j] = Rest[j - n]
          BY <1>3, <4>1, <4>3
        <5>2. j - n \in 1 .. m - 1
          BY <1>1, <1>2, <3>1, <5>1
        <5> QED
          BY <5>1, <5>2
      <4> QED
        BY <1>1, <4>2, <4>3
    <3>5. /\ \A j \in 1 .. m - 1 : ~Resetting(Rest[j])
          /\ \/ Rest[m].saved = type /\ \A j \in 1 .. m - 1 : ~Restores(Rest[j])
             \/ \E j \in 1 .. m - 1 :
                  /\ Restores(Rest[j]) /\ Rest[j].saved = Rest[m].saved
                  /\ \A k \in j + 1 .. m - 1 : ~Restores(Rest[k])
      BY <1>6, <3>1, <3>2 DEF Fits
    <3>6. \A j \in 1 .. i - 1 : ~Resetting(todo'[j])
      BY <3>3, <3>4, <3>5
    <3>7. CASE Rest[m].saved = type /\ \A j \in 1 .. m - 1 : ~Restores(Rest[j])
      BY <3>1, <3>3, <3>4, <3>6, <3>7
    <3>8. CASE \E j \in 1 .. m - 1 :
                  /\ Restores(Rest[j]) /\ Rest[j].saved = Rest[m].saved
                  /\ \A k \in j + 1 .. m - 1 : ~Restores(Rest[k])
      <4>1. PICK j \in 1 .. m - 1 :
                  /\ Restores(Rest[j]) /\ Rest[j].saved = Rest[m].saved
                  /\ \A k \in j + 1 .. m - 1 : ~Restores(Rest[k])
        BY <3>8
      <4>2. j + n \in 1 .. i - 1 /\ (j + n) - n = j /\ j + n \notin DOMAIN frames
        BY <1>1, <3>1
      <4>3. todo'[j + n] = Rest[j]
        BY <3>4, <4>2
      <4>4. ASSUME NEW k \in (j + n) + 1 .. i - 1 PROVE ~Restores(todo'[k])
        <5>1. k \in 1 .. i - 1 /\ k - n \in j + 1 .. m - 1 /\ k \notin DOMAIN frames
          BY <1>1, <3>1, <4>1
        <5> QED
          BY <3>4, <4>1, <5>1
      <4> QED
        BY <3>1, <3>6, <4>1, <4>2, <4>3, <4>4
    <3> QED
      BY <3>5, <3>7, <3>8
  <2> QED
    BY <1>1, <2>1, <2>2
<1> QED
  BY <1>5, <1>6 DEF Fits

\* A pointer declarator saves the type that what is below finds again.
LEMMA FitsPointer ==
    ASSUME IsStack(todo), NEW outer, NEW inner, NEW type, Onto(<<inner, outer>>),
           inner.at = "declarator", inner.saved.type = type,
           outer.at = "pointerDeclarator", Undeclared, Fits(outer.saved, Rest),
           NoneWaits \/ ~Resetting(inner)
    PROVE  Fits(type, todo')
<1> DEFINE frames == <<inner, outer>>
<1>1. Len(frames) = 2 /\ frames[1] = inner /\ frames[2] = outer /\ Onto(frames)
  OBVIOUS
<1> HIDE DEF frames
<1>2. /\ DOMAIN todo' = 1 .. 2 + Len(Rest)
      /\ \A i \in DOMAIN todo' :
                \/ i <= 2 /\ todo'[i] = frames[i]
                \/ /\ i > 2 /\ i - 2 + 1 \in DOMAIN todo /\ i - 2 \in DOMAIN Rest
                   /\ todo'[i] = todo[i - 2 + 1]
  BY <1>1, FramesOf
<1>3. /\ Len(Rest) \in Nat /\ DOMAIN Rest = 1 .. Len(Rest)
      /\ \A i \in DOMAIN Rest : Rest[i] = todo[i + 1]
  BY RestFacts
<1>4. \A i \in DOMAIN todo' : i > 2 => i - 2 \in DOMAIN Rest /\ todo'[i] = Rest[i - 2]
  BY <1>2, <1>3
<1>5. todo'[1] = inner /\ todo'[2] = outer /\ 1 \in DOMAIN todo' /\ 2 \in DOMAIN todo'
  BY <1>1, <1>2, <1>3
<1>6. \A i \in DOMAIN todo' : i = 1 \/ i = 2 \/ i > 2
  BY <1>2
<1>7. ~Restores(inner) /\ ~Resetting(outer) /\ ~Waiting(inner) /\ ~Waiting(outer) /\ Restores(outer)
  BY DEF Restores, Resetting, Waiting, Resets, Calling
<1>8. ASSUME NEW i \in DOMAIN todo', todo'[i].at = "declarator"
      PROVE  i = 1 /\ todo'[i].saved.type = type
  BY <1>4, <1>5, <1>6, <1>8 DEF Undeclared
<1>9. ASSUME NEW i \in DOMAIN todo', Waiting(todo'[i])
      PROVE  /\ \A j \in 1 .. i - 1 : ~Resetting(todo'[j])
             /\ \E j \in 1 .. i - 1 :
                     /\ Restores(todo'[j]) /\ todo'[j].saved = todo'[i].saved
                     /\ \A k \in j + 1 .. i - 1 : ~Restores(todo'[k])
  <2>1. i > 2
    BY <1>5, <1>6, <1>7, <1>9
  <2> DEFINE m == i - 2
  <2>2. i \in Nat /\ m \in DOMAIN Rest /\ todo'[i] = Rest[m] /\ m \in Nat /\ i = m + 2
    BY <1>2, <1>3, <1>4, <2>1
  <2> HIDE DEF m
  <2>3. ~NoneWaits /\ ~Resetting(inner)
    BY <1>9, <2>2 DEF NoneWaits
  <2>4. ASSUME NEW j \in 1 .. i - 1
        PROVE  \/ j = 1 /\ todo'[j] = inner
               \/ j = 2 /\ todo'[j] = outer
               \/ j > 2 /\ j - 2 \in 1 .. m - 1 /\ todo'[j] = Rest[j - 2]
    <3>1. j \in DOMAIN todo'
      BY <1>2, <2>2
    <3> QED
      BY <1>4, <1>5, <1>6, <2>2, <3>1
  <2>5. /\ \A j \in 1 .. m - 1 : ~Resetting(Rest[j])
        /\ \/ Rest[m].saved = outer.saved /\ \A j \in 1 .. m - 1 : ~Restores(Rest[j])
           \/ \E j \in 1 .. m - 1 :
                /\ Restores(Rest[j]) /\ Rest[j].saved = Rest[m].saved
                /\ \A k \in j + 1 .. m - 1 : ~Restores(Rest[k])
    BY <1>9, <2>2 DEF Fits
  <2>6. \A j \in 1 .. i - 1 : ~Resetting(todo'[j])
    BY <1>7, <2>3, <2>4, <2>5
  <2>7. CASE Rest[m].saved = outer.saved /\ \A j \in 1 .. m - 1 : ~Restores(Rest[j])
    <3>1. 2 \in 1 .. i - 1 /\ Restores(todo'[2]) /\ todo'[2].saved = todo'[i].saved
      BY <1>5, <1>7, <2>1, <2>2, <2>7
    <3>2. ASSUME NEW k \in 2 + 1 .. i - 1 PROVE ~Restores(todo'[k])
      <4>1. k \in 1 .. i - 1 /\ k # 1 /\ k # 2
        BY <2>2, <3>2
      <4> QED
        BY <2>4, <2>7, <4>1
    <3> QED
      BY <2>6, <3>1, <3>2
  <2>8. CASE \E j \in 1 .. m - 1 :
                /\ Restores(Rest[j]) /\ Rest[j].saved = Rest[m].saved
                /\ \A k \in j + 1 .. m - 1 : ~Restores(Rest[k])
    <3>1. PICK j \in 1 .. m - 1 :
                /\ Restores(Rest[j]) /\ Rest[j].saved = Rest[m].saved
                /\ \A k \in j + 1 .. m - 1 : ~Restores(Rest[k])
      BY <2>8
    <3>2. j + 2 \in 1 .. i - 1 /\ (j + 2) - 2 = j /\ j + 2 # 1 /\ j + 2 # 2
      BY <2>2, <3>1
    <3>3. todo'[j + 2] = Rest[j]
      BY <2>4, <3>2
    <3>4. ASSUME NEW k \in (j + 2) + 1 .. i - 1 PROVE ~Restores(todo'[k])
      <4>1. k \in 1 .. i - 1 /\ k # 1 /\ k # 2 /\ k - 2 \in j + 1 .. m - 1
        BY <2>2, <3>1, <3>4
      <4> QED
        BY <2>4, <3>1, <4>1
    <3> QED
      BY <2>2, <2>6, <3>1, <3>2, <3>3, <3>4
  <2> QED
    BY <2>5, <2>7, <2>8
<1> QED
  BY <1>8, <1>9 DEF Fits

\* Where the head is not part of a parameter's declarator, no parameter waits.
LEMMA FitsNoParameter ==
    ASSUME IsStack(todo), NEW frames, Onto(frames), NEW old, NEW was, FitsParameter(old, was, todo),
           todo = <<>> \/ Head(todo).at \notin InParameter,
           \A i \in DOMAIN frames : frames[i].at # "parameterEnd", NEW meant, NEW type
    PROVE  FitsParameter(meant, type, todo')
<1>1. ASSUME NEW i \in DOMAIN todo', todo'[i].at = "parameterEnd" PROVE FALSE
  <2> DEFINE k == i - Len(frames)
  <2>1. /\ todo # <<>> /\ k + 1 \in DOMAIN todo /\ k \in DOMAIN Rest
        /\ todo'[i] = todo[k + 1]
    BY <1>1, FramesOf
  <2>2. k \in Nat \ {0} /\ Head(todo) = todo[1]
    BY <2>1, RestFacts
  <2> HIDE DEF k
  <2>3. 1 \in 1 .. (k + 1) - 1
    BY <2>2
  <2>4. todo[1].at \in InParameter
    BY <1>1, <2>1, <2>3 DEF FitsParameter
  <2> QED
    BY <2>1, <2>2, <2>4
<1> QED
  BY <1>1 DEF FitsParameter

-----------------------------------------------------------------------------
(* Steps that declare nothing *)

NamesInv == TypeInv /\ CrashInv /\ LeakInv /\ AgreeInv
Visits(frames) == IsSequence(frames) /\ (Visit(frames, 0) \/ Visit(frames, 1))
\* A literal is known by a place in the program.
SoundMail(constant) ==
    constant # NoConstant => constant[1].isInt \in BOOLEAN /\ constant[1].id \in 1 .. MaxNodes

LEMMA VisitsOnto ==
    ASSUME ScopeInv, TypeInv, NEW frames, Visits(frames)
    PROVE  /\ Onto(frames) /\ IsStack(todo) /\ budget' \in 0 .. MaxNodes
           /\ Visit(frames, 1) => budget \in 1 .. MaxNodes
<1>1. IsStack(todo) /\ todo' = frames \o Rest /\ Onto(frames)
  BY DEF ScopeInv, Visits, Visit, Onto
<1>2. Owed(frames \o Rest) \in Nat
  <2> DEFINE s == frames \o Rest
             I == {i \in DOMAIN s : s[i].at \in Owing}
  <2>1. IsSequence(s)
    BY <1>1, RestFacts, ConcatFacts DEF Onto
  <2> HIDE DEF s
  <2>2. DOMAIN s = 1 .. Len(s) /\ Len(s) \in Nat
    BY <2>1, SequenceFacts
  <2>3. I \in SUBSET (1 .. Len(s)) /\ IsFiniteSet(1 .. Len(s))
    BY <2>2, FS_Interval
  <2>4. Cardinality(I) \in Nat
    BY <2>3, FS_Subset, FS_CardinalityType
  <2> QED
    BY <2>4 DEF Owed, s
<1>3. budget \in 0 .. MaxNodes /\ MaxNodes \in Nat
  BY BoundAssumption DEF TypeInv
<1>4. \A cost \in {0, 1} : Visit(frames, cost) =>
         budget' = budget - cost /\ budget - cost >= Owed(frames \o Rest)
  BY DEF Visit
<1> QED
  BY <1>1, <1>2, <1>3, <1>4 DEF Visits

Loud == {"declarator", "moreDeclarators", "pointerDeclarator"} \cup Calling

LEMMA QuietStep ==
    ASSUME ScopeInv, NamesInv, NEW frames, Visits(frames),
           UNCHANGED <<table, curType, cScopes, cType, status>>,
           Sound(frames), TypedValue(result'.type), SoundMail(mailbox'),
           Safe => Passes(frames, result'.type),
           \A i \in DOMAIN frames : frames[i].at \notin Loud,
           todo # <<>> =>
             /\ Head(todo).at # "pointerDeclarator" /\ Head(todo).at # "declarator"
             /\ Resetting(Head(todo)) \/ \A i \in DOMAIN frames : frames[i].at \notin Resets
    PROVE  NamesInv'
<1>1. Onto(frames) /\ IsStack(todo) /\ budget' \in 0 .. MaxNodes
  BY VisitsOnto DEF NamesInv
<1>2. TypeInv'
  <2>1. Sound(todo')
    BY <1>1, SoundOnto DEF NamesInv, TypeInv
  <2> QED
    BY <1>1, <2>1 DEF NamesInv, TypeInv, Sound, SoundMail
<1>3. CrashInv'
  <2>1. ASSUME Safe
        PROVE  Linked(todo') /\ (todo' # <<>> /\ Head(todo').at \in Reads => Known(result'.type))
    <3>1. Linked(todo) /\ Passes(frames, result'.type)
      BY <2>1 DEF NamesInv, CrashInv
    <3> QED
      BY <1>1, <3>1, LinkedOnto
  <2> QED
    BY <2>1 DEF NamesInv, CrashInv, Linked
<1>4. LeakInv'
  BY DEF NamesInv, LeakInv
<1>5. AgreeInv'
  <2>1. ASSUME Fits(curType, todo) PROVE Fits(curType, todo')
    <3>1. /\ Undeclared
          /\ todo = <<>> \/ Resetting(Head(todo)) => NoneWaits
          /\ todo # <<>> => Fits(curType, Rest)
      BY <1>1, <2>1, FitsBelow DEF Restores
    <3>2. \A i \in DOMAIN frames : /\ frames[i].at # "declarator" /\ ~Waiting(frames[i])
                                   /\ ~Restores(frames[i])
      BY DEF Loud, Waiting, Restores
    <3>3. Fits(curType, frames)
      BY <3>2 DEF Fits
    <3>4. NoneWaits \/ \A i \in DOMAIN frames : ~Resetting(frames[i]) /\ ~Restores(frames[i])
      BY <3>1, <3>2 DEF Resetting
    <3> QED
      BY <1>1, <3>1, <3>3, <3>4, FitsOnto
  <2>2. ASSUME FitsParameter(cType, curType, todo) PROVE FitsParameter(cType, curType, todo')
    <3>1. /\ todo = <<>> \/ Head(todo).at \notin InParameter
          /\ \A i \in DOMAIN frames : frames[i].at # "parameterEnd"
      BY DEF InParameter, Loud, Calling
    <3> QED
      BY <1>1, <2>2, <3>1, FitsNoParameter
  <2>3. ASSUME \A i \in DOMAIN todo : SameCall(todo[i])
        PROVE  \A i \in DOMAIN todo' : SameCall(todo'[i])
    BY <1>1, <2>3, FramesOf DEF Loud, SameCall
  <2>4. SameScopes(table, cScopes) => SameScopes(table', cScopes')
    OBVIOUS
  <2>5. UNCHANGED <<table, curType, cScopes, cType>>
    OBVIOUS
  <2> QED
    BY <2>1, <2>2, <2>3, <2>4, <2>5 DEF NamesInv, AgreeInv, Agreed
<1> QED
  BY <1>2, <1>3, <1>4, <1>5 DEF NamesInv

\* Frames of expressions, the first of which is still to be visited.
GoodExpr(frame) ==
    /\ frame.at \in ExprPlace \cup {"typeName"} /\ SoundFrame(frame)
    /\ Safe => frame.at # "typeName" /\ KnownFrame(frame)
ExprFrames(frames) ==
    /\ IsSequence(frames) /\ frames # <<>> /\ frames[1].at \notin Reads
    /\ \A i \in DOMAIN frames : GoodExpr(frames[i])

\* Frames of anything else.
GoodOther(frame) == frame.at \notin Loud \cup Reads /\ SoundFrame(frame)
OtherFrames(frames) == IsSequence(frames) /\ \A i \in DOMAIN frames : GoodOther(frames[i])

LEMMA ExprPlaces ==
    /\ ExprPlace \cap Loud = {} /\ ExprPlace \cap Resets = {} /\ "typeName" \notin Loud \cup Resets
    /\ ExprPlace \cap ClosesScope = {} /\ BinaryOperator \subseteq Reads
    /\ Reads \subseteq ExprPlace
BY DEF ExprPlace, BinaryOperator, Loud, Resets, Calling, ClosesScope, Reads

\* The frames whose place says all there is to say about them.
Simple ==
    {"expr", "list", "listRest", "rightSide", "incDec", "callee", "constant", "constantExpression",
     "declarations", "statements", "stmt", "compound",
     "functionDefinition", "initializer", "moreInitializers", "initDeclarator"}
LEMMA SimpleFrames ==
    ASSUME NEW frame, frame.at \in Simple
    PROVE  /\ SoundFrame(frame) /\ KnownFrame(frame) /\ frame.at \notin Loud
           /\ frame.at \notin Reads => GoodOther(frame)
           /\ frame.at \in ExprPlace => GoodExpr(frame)
BY DEF Simple, SoundFrame, KnownFrame, GoodOther, GoodExpr, Loud, Calling, BinaryOperator

LEMMA NoTuple == IsSequence(<<>>) /\ DOMAIN <<>> = {} /\ Len(<<>>) = 0
<1>1. IsSequence(<<>>)
  BY PlainNone DEF PlainStack, IsStack
<1>2. DOMAIN <<>> = {} /\ Len(<<>>) = 0
  OBVIOUS
<1> QED
  BY <1>1, <1>2

LEMMA OneTuple ==
    ASSUME NEW a
    PROVE  IsSequence(<<a>>) /\ DOMAIN <<a>> = {1} /\ <<a>>[1] = a /\ <<a>> # <<>>
<1> DEFINE s == <<a>>
<1>1. s \in Seq({a}) /\ DOMAIN s = {1} /\ s[1] = a /\ s # <<>>
  OBVIOUS
<1> HIDE DEF s
<1>2. IsSequence(s) /\ DOMAIN s = {1} /\ s[1] = a /\ s # <<>>
  BY <1>1, ElementsOf
<1> QED
  BY <1>2 DEF s

LEMMA TwoTuple ==
    ASSUME NEW a, NEW b
    PROVE  /\ IsSequence(<<a, b>>) /\ DOMAIN <<a, b>> = {1, 2} /\ <<a, b>> # <<>>
           /\ <<a, b>>[1] = a /\ <<a, b>>[2] = b
<1> DEFINE s == <<a, b>>
<1>1. s \in Seq({a, b}) /\ DOMAIN s = {1, 2} /\ s # <<>> /\ s[1] = a /\ s[2] = b
  OBVIOUS
<1> HIDE DEF s
<1>2. IsSequence(s) /\ DOMAIN s = {1, 2} /\ s # <<>> /\ s[1] = a /\ s[2] = b
  BY <1>1, ElementsOf
<1> QED
  BY <1>2 DEF s

LEMMA ThreeTuple ==
    ASSUME NEW a, NEW b, NEW c
    PROVE  /\ IsSequence(<<a, b, c>>) /\ DOMAIN <<a, b, c>> = {1, 2, 3} /\ <<a, b, c>> # <<>>
           /\ <<a, b, c>>[1] = a /\ <<a, b, c>>[2] = b /\ <<a, b, c>>[3] = c
<1> DEFINE s == <<a, b, c>>
<1>1. /\ s \in Seq({a, b, c}) /\ DOMAIN s = {1, 2, 3} /\ s # <<>>
      /\ s[1] = a /\ s[2] = b /\ s[3] = c
  OBVIOUS
<1> HIDE DEF s
<1>2. /\ IsSequence(s) /\ DOMAIN s = {1, 2, 3} /\ s # <<>>
      /\ s[1] = a /\ s[2] = b /\ s[3] = c
  BY <1>1, ElementsOf
<1> QED
  BY <1>2 DEF s

LEMMA FourTuple ==
    ASSUME NEW a, NEW b, NEW c, NEW d
    PROVE  /\ IsSequence(<<a, b, c, d>>) /\ DOMAIN <<a, b, c, d>> = {1, 2, 3, 4}
           /\ <<a, b, c, d>> # <<>> /\ <<a, b, c, d>>[1] = a /\ <<a, b, c, d>>[2] = b
           /\ <<a, b, c, d>>[3] = c /\ <<a, b, c, d>>[4] = d
<1> DEFINE s == <<a, b, c, d>>
<1>1. /\ s \in Seq({a, b, c, d}) /\ DOMAIN s = {1, 2, 3, 4} /\ s # <<>>
      /\ s[1] = a /\ s[2] = b /\ s[3] = c /\ s[4] = d
  OBVIOUS
<1> HIDE DEF s
<1>2. /\ IsSequence(s) /\ DOMAIN s = {1, 2, 3, 4} /\ s # <<>>
      /\ s[1] = a /\ s[2] = b /\ s[3] = c /\ s[4] = d
  BY <1>1, ElementsOf
<1> QED
  BY <1>2 DEF s

LEMMA ExprTuples ==
    ASSUME NEW a, GoodExpr(a), a.at \notin Reads
    PROVE  /\ ExprFrames(<<a>>)
           /\ \A b : GoodExpr(b) => ExprFrames(<<a, b>>)
           /\ \A b, c : GoodExpr(b) /\ GoodExpr(c) => ExprFrames(<<a, b, c>>)
           /\ \A b, c, d : GoodExpr(b) /\ GoodExpr(c) /\ GoodExpr(d) => ExprFrames(<<a, b, c, d>>)
<1>1. ExprFrames(<<a>>)
  BY OneTuple DEF ExprFrames
<1>2. ASSUME NEW b, GoodExpr(b) PROVE ExprFrames(<<a, b>>)
  BY <1>2, TwoTuple DEF ExprFrames
<1>3. ASSUME NEW b, NEW c, GoodExpr(b), GoodExpr(c) PROVE ExprFrames(<<a, b, c>>)
  BY <1>3, ThreeTuple DEF ExprFrames
<1>4. ASSUME NEW b, NEW c, NEW d, GoodExpr(b), GoodExpr(c), GoodExpr(d)
      PROVE  ExprFrames(<<a, b, c, d>>)
  BY <1>4, FourTuple DEF ExprFrames
<1> QED
  BY <1>1, <1>2, <1>3, <1>4

LEMMA ExprConcat ==
    ASSUME NEW s, NEW a, ExprFrames(s), GoodExpr(a)
    PROVE  ExprFrames(s \o <<a>>)
<1>1. IsSequence(s) /\ IsSequence(<<a>>) /\ Len(<<a>>) = 1 /\ <<a>>[1] = a
  BY OneTuple DEF ExprFrames
<1>2. Len(s) \in Nat \ {0} /\ DOMAIN s = 1 .. Len(s)
  BY TailFacts, SequenceFacts DEF ExprFrames
<1>3. /\ IsSequence(s \o <<a>>) /\ Len(s \o <<a>>) = Len(s) + 1
      /\ \A i \in 1 .. Len(s) + 1 : (s \o <<a>>)[i] = IF i <= Len(s) THEN s[i] ELSE <<a>>[i - Len(s)]
  BY <1>1, ConcatFacts
<1>4. \A i \in DOMAIN (s \o <<a>>) :
        \/ i \in DOMAIN s /\ (s \o <<a>>)[i] = s[i]
        \/ (s \o <<a>>)[i] = a
  <2>1. ASSUME NEW i \in 1 .. Len(s) + 1
        PROVE  \/ i \in 1 .. Len(s) /\ (s \o <<a>>)[i] = s[i]
               \/ (s \o <<a>>)[i] = a
    <3>1. CASE i <= Len(s)
      BY <1>2, <1>3, <3>1
    <3>2. CASE ~(i <= Len(s))
      <4>1. i - Len(s) = 1
        BY <1>2, <3>2
      <4> QED
        BY <1>1, <1>3, <3>2, <4>1
    <3> QED
      BY <3>1, <3>2
  <2> QED
    BY <1>2, <1>3, <2>1, SequenceFacts
<1>5. (s \o <<a>>)[1] = s[1] /\ s \o <<a>> # <<>>
  <2>1. 1 \in 1 .. Len(s) + 1 /\ 1 <= Len(s)
    BY <1>2
  <2>2. Len(s \o <<a>>) # 0
    BY <1>2, <1>3
  <2> QED
    BY <1>3, <2>1, <2>2, NoTuple
<1> QED
  BY <1>3, <1>4, <1>5 DEF ExprFrames

LEMMA OtherTuples ==
    /\ OtherFrames(<<>>)
    /\ \A a : GoodOther(a) => OtherFrames(<<a>>)
    /\ \A a, b : GoodOther(a) /\ GoodOther(b) => OtherFrames(<<a, b>>)
    /\ \A a, b, c : GoodOther(a) /\ GoodOther(b) /\ GoodOther(c) => OtherFrames(<<a, b, c>>)
<1>1. OtherFrames(<<>>)
  BY NoTuple DEF OtherFrames
<1>2. ASSUME NEW a, GoodOther(a) PROVE OtherFrames(<<a>>)
  BY <1>2, OneTuple DEF OtherFrames
<1>3. ASSUME NEW a, NEW b, GoodOther(a), GoodOther(b) PROVE OtherFrames(<<a, b>>)
  BY <1>3, TwoTuple DEF OtherFrames
<1>4. ASSUME NEW a, NEW b, NEW c, GoodOther(a), GoodOther(b), GoodOther(c)
      PROVE  OtherFrames(<<a, b, c>>)
  BY <1>4, ThreeTuple DEF OtherFrames
<1> QED
  BY <1>1, <1>2, <1>3, <1>4

\* The visit of an expression goes on with its parts, ...
LEMMA ExprAdvances ==
    ASSUME ScopeInv, NamesInv, NEW place \in ExprPlace, At(place),
           NEW frames, ExprFrames(frames), Visit(frames, 0) \/ Visit(frames, 1),
           UNCHANGED <<table, curType, cScopes, cType, status, result>>, SoundMail(mailbox')
    PROVE  NamesInv'
<1>1. Visits(frames)
  BY DEF Visits, ExprFrames
<1>2. todo # <<>> /\ Head(todo).at = place /\ place \notin Loud
  BY ExprPlaces DEF At
<1>3. Sound(frames) /\ \A i \in DOMAIN frames : frames[i].at \notin Loud \cup Resets
  BY ExprPlaces DEF ExprFrames, GoodExpr, Sound
<1>4. ASSUME Safe PROVE Passes(frames, result'.type)
  <2>1. Len(frames) \in DOMAIN frames /\ \A i \in DOMAIN frames : i # 1 => i - 1 \in DOMAIN frames
    <3>1. Len(frames) \in Nat \ {0} /\ DOMAIN frames = 1 .. Len(frames)
      BY TailFacts, SequenceFacts DEF ExprFrames
    <3> QED
      BY <3>1
  <2>2. \A i \in DOMAIN frames : frames[i].at \in ExprPlace /\ KnownFrame(frames[i])
    BY <1>4 DEF ExprFrames, GoodExpr
  <2> QED
    BY <2>1, <2>2 DEF Passes, Linked, ExprFrames
<1>5. TypedValue(result'.type)
  BY <1>1 DEF NamesInv, TypeInv
<1> QED
  BY <1>1, <1>2, <1>3, <1>4, <1>5, QuietStep DEF Loud

LEMMA ExprGoesOn ==
    ASSUME ScopeInv, NamesInv, NEW place \in ExprPlace, At(place),
           NEW frames, ExprFrames(frames), Proceed(frames) \/ Enter(frames)
    PROVE  NamesInv'
<1>1. /\ Visit(frames, 0) \/ Visit(frames, 1)
      /\ UNCHANGED <<table, curType, cScopes, cType, status, result, mailbox>>
  BY DEF Proceed, Enter, Continue, state
<1>2. SoundMail(mailbox')
  BY <1>1 DEF NamesInv, TypeInv, SoundMail
<1> QED
  BY <1>1, <1>2, ExprAdvances

LEMMA ConstantGoesOn ==
    ASSUME ScopeInv, NamesInv, NEW place \in ExprPlace, At(place),
           NEW frames, ExprFrames(frames), Continue(frames), mailbox' = NoConstant,
           UNCHANGED <<table, curType, cScopes, cType, status, result>>
    PROVE  NamesInv'
BY ExprAdvances DEF Continue, SoundMail

\* ... or ends and leaves a result, ...
LEMMA ExprReturns ==
    ASSUME ScopeInv, NamesInv, NEW place \in ExprPlace, At(place), Visits(<<>>),
           UNCHANGED <<table, curType, cScopes, cType, status>>, SoundMail(mailbox'),
           TypedValue(result'.type), Safe => Known(result'.type)
    PROVE  NamesInv'
<1>1. todo # <<>> /\ Head(todo).at = place /\ place \notin Loud
  BY ExprPlaces DEF At
<1>2. DOMAIN <<>> = {}
  BY NoTuple
<1>3. Sound(<<>>) /\ (Safe => Passes(<<>>, result'.type))
  BY <1>2 DEF Sound, Passes, Linked
<1> QED
  BY <1>1, <1>2, <1>3, QuietStep DEF Loud

LEMMA ExprYields ==
    ASSUME ScopeInv, NamesInv, NEW place \in ExprPlace, At(place), NEW value, Yield(value),
           TypedValue(value.type), Safe => Known(value.type)
    PROVE  NamesInv'
<1>1. Visits(<<>>)
  BY NoTuple DEF Yield, Continue, Visits
<1>2. /\ UNCHANGED <<table, curType, cScopes, cType, status>> /\ SoundMail(mailbox')
      /\ result' = value
  BY DEF Yield, NamesInv, TypeInv, SoundMail
<1> QED
  BY <1>1, <1>2, ExprReturns

\* ... or the program is rejected, or the compiler crashes.
LEMMA StopsWell ==
    ASSUME NamesInv, NEW how \in {"accepted", "rejected", "crashed"},
           UNCHANGED <<table, curType, mailbox, result, cScopes, cType, todo, budget>>, status' = how,
           how = "crashed" => ~Safe
    PROVE  NamesInv'
<1>1. TypeInv'
  BY DEF NamesInv, TypeInv, Sound
<1>2. CrashInv'
  BY DEF NamesInv, CrashInv, Linked
<1>3. LeakInv'
  BY DEF NamesInv, LeakInv
<1>4. AgreeInv'
  BY DEF NamesInv, AgreeInv, Agreed, SameScopes, Fits, FitsParameter
<1> QED
  BY <1>1, <1>2, <1>3, <1>4 DEF NamesInv

LEMMA RejectsWell ==
    ASSUME NamesInv, Reject
    PROVE  NamesInv'
BY StopsWell DEF Reject, Stop, state

LEMMA CrashesOutside ==
    ASSUME NamesInv, Crash, ~Safe
    PROVE  NamesInv'
BY StopsWell DEF Crash, Stop, state

\* The visit of anything else.
LEMMA OtherGoesOn ==
    ASSUME ScopeInv, NamesInv, NEW frames, OtherFrames(frames), Proceed(frames) \/ Enter(frames),
           Outside \/ \E place : /\ At(place) /\ place \notin ExprPlace
                                 /\ place # "pointerDeclarator" /\ place # "declarator"
                                 /\ \/ place \in Resets
                                    \/ \A i \in DOMAIN frames : frames[i].at \notin Resets
    PROVE  NamesInv'
<1>1. Visits(frames) /\ UNCHANGED <<table, curType, cScopes, cType, status, result, mailbox>>
  BY DEF Visits, OtherFrames, Proceed, Enter, Continue, state
<1>2. ASSUME todo # <<>>
      PROVE  /\ Head(todo).at \notin ExprPlace
             /\ Head(todo).at # "pointerDeclarator" /\ Head(todo).at # "declarator"
             /\ Resetting(Head(todo)) \/ \A i \in DOMAIN frames : frames[i].at \notin Resets
  BY <1>2 DEF At, Outside, Resetting
<1>3. Sound(frames) /\ \A i \in DOMAIN frames : frames[i].at \notin Loud
  BY DEF OtherFrames, GoodOther, Sound
<1>4. Passes(frames, result'.type)
  <2>1. frames # <<>> => 1 \in DOMAIN frames
    BY TailFacts, SequenceFacts DEF OtherFrames
  <2>2. \A i \in DOMAIN frames : frames[i].at \notin Reads /\ KnownFrame(frames[i])
    BY ExprPlaces DEF OtherFrames, GoodOther, KnownFrame
  <2> QED
    BY <1>2, <2>1, <2>2 DEF Passes, Linked
<1>5. TypedValue(result'.type) /\ SoundMail(mailbox')
  BY <1>1 DEF NamesInv, TypeInv, SoundMail
<1> QED
  BY <1>1, <1>2, <1>3, <1>4, <1>5, QuietStep

-----------------------------------------------------------------------------
(* Expressions *)

\* The symbol of the innermost scope that has the name is one of the table's.
LEMMA Resolved ==
    ASSUME NEW scopes, IsSequence(scopes), NEW n, HasOrd(scopes, n)
    PROVE  \E i \in DOMAIN scopes :
              /\ n \in DOMAIN scopes[i] /\ GetOrd(scopes, n) = scopes[i][n]
              /\ \A j \in DOMAIN scopes : n \in DOMAIN scopes[j] => j <= i
<1> DEFINE I == {i \in DOMAIN scopes : n \in DOMAIN scopes[i]}
           D == {Len(scopes) - i : i \in I}
<1>1. DOMAIN scopes = 1 .. Len(scopes) /\ Len(scopes) \in Nat
  BY SequenceFacts
<1>2. D \in SUBSET Nat /\ D # {}
  BY <1>1 DEF HasOrd
<1>3. Min(D) \in D /\ \A d \in D : Min(D) <= d
  <2>1. PICK e \in D : \A d \in D : e <= d
    BY <1>2, SmallestOf
  <2> QED
    BY <2>1 DEF Min
<1>4. PICK i \in I : Min(D) = Len(scopes) - i
  BY <1>3
<1>5. ASSUME NEW j \in I PROVE j <= i
  <2>1. Min(D) <= Len(scopes) - j
    BY <1>3
  <2>2. i \in Int /\ j \in Int
    BY <1>1
  <2> QED
    BY <1>1, <1>4, <2>1, <2>2
<1>6. \E k \in DOMAIN scopes : /\ n \in DOMAIN scopes[k]
                               /\ \A j \in DOMAIN scopes : n \in DOMAIN scopes[j] => j <= k
  BY <1>5
<1> QED
  BY <1>6 DEF GetOrd

LEMMA ResolvedSymbol ==
    ASSUME ScopeInv, TypeInv, NEW n, HasOrd(table, n)
    PROVE  TypedSymbol(GetOrd(table, n)) /\ TypedValue(GetOrd(table, n).type)
           /\ Known(GetOrd(table, n).type)
<1>1. TypedSymbol(GetOrd(table, n))
  BY Resolved DEF ScopeInv, TypeInv, TypedScopes
<1> QED
  BY <1>1 DEF TypedSymbol, TypedValue, Known, DeclaredType, ObjectType

\* What the head tells.
LEMMA HeadFacts ==
    ASSUME ScopeInv, NamesInv, NEW place, At(place)
    PROVE  /\ todo # <<>> /\ Head(todo).at = place /\ IsFrame(Head(todo))
           /\ SoundFrame(Head(todo)) /\ TypedValue(result.type)
           /\ Safe => KnownFrame(Head(todo))
           /\ Safe /\ place \in Reads => Known(result.type)
<1>1. todo # <<>> /\ Head(todo).at = place
  BY DEF At
<1>2. Head(todo) = todo[1] /\ 1 \in DOMAIN todo /\ IsFrame(Head(todo))
  BY <1>1, RestFacts DEF ScopeInv
<1>3. SoundFrame(Head(todo)) /\ TypedValue(result.type)
  BY <1>2 DEF NamesInv, TypeInv, Sound
<1>4. Safe => KnownFrame(Head(todo)) /\ (place \in Reads => Known(result.type))
  BY <1>1, <1>2 DEF NamesInv, CrashInv, Linked
<1> QED
  BY <1>1, <1>2, <1>3, <1>4

LEMMA ExprFrame ==
    /\ \A rule : Expr(rule).at = "expr"
    /\ \A at, arg, saved : /\ Resume(at, arg, saved).at = at /\ Resume(at, arg, saved).arg = arg
                           /\ Resume(at, arg, saved).saved = saved
    /\ \A at : Frame(at).at = at
    /\ \A rule : GoodExpr(Expr(rule)) /\ Expr(rule).at \notin Reads /\ GoodOther(Expr(rule))
<1>1. /\ \A rule : Expr(rule).at = "expr"
      /\ \A at, arg, saved : /\ Resume(at, arg, saved).at = at /\ Resume(at, arg, saved).arg = arg
                             /\ Resume(at, arg, saved).saved = saved
      /\ \A at : Frame(at).at = at
  BY DEF Expr, Resume, Frame
<1>2. "expr" \in Simple /\ "expr" \in ExprPlace /\ "expr" \notin Reads
  BY DEF Simple, ExprPlace, Reads, BinaryOperator
<1> QED
  BY <1>1, <1>2, SimpleFrames

LEMMA UntypedFrames ==
    ASSUME NEW kind \in DOMAIN UntypedChildren, Uses(kind), ~Safe
    PROVE  ExprFrames(UntypedChildren[kind] \o <<Frame("untyped")>>)
<1>1. GoodExpr(Frame("untyped"))
  <2>1. Frame("untyped").at = "untyped" /\ "untyped" \in ExprPlace /\ "untyped" \notin Calling
        /\ "untyped" \notin BinaryOperator
    BY ExprFrame DEF ExprPlace, Calling, BinaryOperator
  <2> HIDE DEF Frame
  <2>2. SoundFrame(Frame("untyped"))
    BY <2>1 DEF SoundFrame
  <2> QED
    BY <2>1, <2>2 DEF GoodExpr
<1>2. GoodExpr(Frame("list")) /\ Frame("list").at \notin Reads
  <2>1. Frame("list").at = "list" /\ "list" \in Simple \cap ExprPlace /\ "list" \notin Reads
    BY ExprFrame DEF Simple, ExprPlace, Reads, BinaryOperator
  <2> QED
    BY <2>1, SimpleFrames
<1>3. ASSUME Uses("cast") \/ Uses("sizeofType")
      PROVE  GoodExpr(Frame("typeName")) /\ Frame("typeName").at \notin Reads
  <2>1. Frame("typeName").at = "typeName" /\ "typeName" \notin Calling
        /\ "typeName" \notin BinaryOperator /\ "typeName" \notin Reads
    BY ExprFrame DEF Reads, Calling, BinaryOperator
  <2>2. SoundFrame(Frame("typeName"))
    BY <1>3, <2>1 DEF SoundFrame
  <2> QED
    BY <2>1, <2>2 DEF GoodExpr
<1>4. \A rule : GoodExpr(Expr(rule)) /\ Expr(rule).at \notin Reads
  BY ExprFrame
<1>5. kind \in {"index", "member", "unary", "sizeof", "sizeofType", "cast", "conditional"}
  BY DEF UntypedChildren
<1>6. /\ UntypedChildren["index"] = <<Frame("list"), Expr("postfix")>>
      /\ UntypedChildren["member"] = <<Expr("postfix")>>
      /\ UntypedChildren["unary"] = <<Expr("cast")>>
      /\ UntypedChildren["sizeof"] = <<Expr("unary")>>
      /\ UntypedChildren["sizeofType"] = <<Frame("typeName")>>
      /\ UntypedChildren["cast"] = <<Expr("cast"), Frame("typeName")>>
      /\ UntypedChildren["conditional"] = <<Expr("logical"), Frame("list"), Expr("conditional")>>
  BY DEF UntypedChildren
<1>7. CASE kind = "index"
  <2>1. ExprFrames(<<Frame("list"), Expr("postfix")>>)
    BY <1>2, <1>4, ExprTuples
  <2> QED
    BY <1>1, <1>6, <1>7, <2>1, ExprConcat
<1>8. CASE kind \in {"member", "unary", "sizeof"}
  <2>1. \A rule : ExprFrames(<<Expr(rule)>>)
    BY <1>4, ExprTuples
  <2> QED
    BY <1>1, <1>6, <1>8, <2>1, ExprConcat
<1>9. CASE kind = "sizeofType"
  <2>1. ExprFrames(<<Frame("typeName")>>)
    BY <1>3, <1>9, ExprTuples
  <2> QED
    BY <1>1, <1>6, <1>9, <2>1, ExprConcat
<1>10. CASE kind = "cast"
  <2>1. ExprFrames(<<Expr("cast"), Frame("typeName")>>)
    BY <1>3, <1>4, <1>10, ExprTuples
  <2> QED
    BY <1>1, <1>6, <1>10, <2>1, ExprConcat
<1>11. CASE kind = "conditional"
  <2>1. ExprFrames(<<Expr("logical"), Frame("list"), Expr("conditional")>>)
    BY <1>2, <1>4, ExprTuples
  <2> QED
    BY <1>1, <1>6, <1>11, <2>1, ExprConcat
<1> QED
  BY <1>5, <1>7, <1>8, <1>9, <1>10, <1>11

\* A call that is being visited, with so many arguments.
LEMMA ArgumentFrame ==
    ASSUME NEW frame, frame.at \in {"arguments", "call"}, frame.saved.data = "func",
           frame.saved.of.data \in DeclaredType, frame.arg \in Nat,
           frame.arg = 0 =>
             frame.at = "call" /\ (Uses("noArguments") \/ frame.saved.params = <<>>)
    PROVE  GoodExpr(frame) /\ frame.at \notin Reads
<1>1. frame.at \in ExprPlace /\ frame.at \notin Reads /\ frame.at \notin Calling
      /\ frame.at \notin BinaryOperator
  BY DEF ExprPlace, Reads, Calling, BinaryOperator
<1>2. SoundFrame(frame)
  BY <1>1 DEF SoundFrame, SoundCall
<1> QED
  BY <1>1, <1>2 DEF GoodExpr, KnownFrame

LEMMA ExpressionNames ==
    ASSUME ScopeInv, NamesInv, NextInExpression
    PROVE  NamesInv'
<1>1. \A place : At(place) =>
        /\ todo # <<>> /\ Head(todo).at = place /\ IsFrame(Head(todo))
        /\ SoundFrame(Head(todo)) /\ TypedValue(result.type)
        /\ Safe => KnownFrame(Head(todo))
        /\ Safe /\ place \in Reads => Known(result.type)
  BY HeadFacts
<1>2. TypeInv
  BY DEF NamesInv
<1>3. /\ {"expr", "list", "listRest", "rightSide", "incDec", "untyped", "callee", "arguments",
          "call", "constant", "constantExpression"} \subseteq ExprPlace
      /\ BinaryOperator \subseteq ExprPlace /\ BinaryOperator \subseteq Reads
      /\ {"rightSide", "listRest", "incDec", "callee", "constantExpression"} \subseteq Reads
  BY DEF ExprPlace, Reads
<1>4. \A place \in ExprPlace : \A a : At(place) /\ GoodExpr(a) /\ a.at \notin Reads =>
        /\ Proceed(<<a>>) \/ Enter(<<a>>) => NamesInv'
        /\ \A b : GoodExpr(b) /\ (Proceed(<<a, b>>) \/ Enter(<<a, b>>)) => NamesInv'
  <2>1. SUFFICES ASSUME NEW place \in ExprPlace, NEW a, At(place), GoodExpr(a), a.at \notin Reads
                 PROVE  /\ Proceed(<<a>>) \/ Enter(<<a>>) => NamesInv'
                        /\ \A b : GoodExpr(b) /\ (Proceed(<<a, b>>) \/ Enter(<<a, b>>)) => NamesInv'
    OBVIOUS
  <2>2. Proceed(<<a>>) \/ Enter(<<a>>) => NamesInv'
    BY <2>1, ExprTuples, ExprGoesOn
  <2>3. ASSUME NEW b, GoodExpr(b), Proceed(<<a, b>>) \/ Enter(<<a, b>>) PROVE NamesInv'
    <3>1. ExprFrames(<<a, b>>)
      BY <2>1, <2>3, ExprTuples
    <3> QED
      BY <2>1, <2>3, <3>1, ExprGoesOn
  <2> QED
    BY <2>2, <2>3
<1>5. \A at : at \in Simple \cap ExprPlace => \A arg, saved :
                 GoodExpr(Resume(at, arg, saved)) /\ GoodExpr(Frame(at))
  BY SimpleFrames, ExprFrame
<1>6. {"list", "listRest", "rightSide", "incDec", "callee", "constant", "constantExpression"} \subseteq Simple \cap ExprPlace
      /\ "list" \notin Reads
  BY DEF Simple, ExprPlace, Reads, BinaryOperator
<1>7. CASE \E n \in Names : IdentifierExpression(n)
  <2>1. PICK n \in Names : IdentifierExpression(n)
    BY <1>7
  <2>2. At("expr")
    BY <2>1 DEF IdentifierExpression, AtLevel
  <2>3. CASE ~HasOrd(table, n)
    BY <2>1, <2>3, RejectsWell DEF IdentifierExpression
  <2>4. CASE HasOrd(table, n)
    <3>1. TypedValue(GetOrd(table, n).type) /\ Known(GetOrd(table, n).type)
      BY <1>2, <2>4, ResolvedSymbol
    <3>2. /\ result' = Result(GetOrd(table, n).type, TRUE) /\ Visits(<<>>)
          /\ UNCHANGED <<table, curType, mailbox, cScopes, cType, status>>
      BY <2>1, <2>4, NoTuple DEF IdentifierExpression, Visits
    <3>3. result'.type = GetOrd(table, n).type
      BY <3>2 DEF Result
    <3>4. SoundMail(mailbox')
      BY <1>2, <3>2 DEF TypeInv, SoundMail
    <3> QED
      BY <1>3, <2>2, <3>1, <3>2, <3>3, <3>4, ExprReturns
  <2> QED
    BY <2>3, <2>4
<1>8. CASE \E isInt \in BOOLEAN : PrimaryExpression(isInt)
  <2>1. PICK isInt \in BOOLEAN : PrimaryExpression(isInt)
    BY <1>8
  <2>2. At("expr") /\ Visits(<<>>) /\ Visit(<<>>, 1)
        /\ UNCHANGED <<table, curType, cScopes, cType, status>>
        /\ mailbox' = Constant(isInt)
        /\ result' = Rvalue(IF isInt THEN IntType ELSE DoubleType)
    BY <2>1, NoTuple DEF PrimaryExpression, AtLevel, Visits
  <2>3. budget \in 1 .. MaxNodes
    BY <1>2, <2>2, VisitsOnto
  <2>4. SoundMail(mailbox')
    BY <2>2, <2>3 DEF SoundMail, Constant
  <2>5. TypedValue(result'.type) /\ Known(result'.type)
    BY <2>2 DEF Rvalue, Result, IntType, DoubleType, Basic, TypedValue, Known, DeclaredType, ObjectType
  <2> QED
    BY <1>3, <2>2, <2>4, <2>5, ExprReturns
<1>9. CASE StringLiteral
  <2>1. ~Safe
    BY <1>9 DEF StringLiteral, Uses, Safe, Crashing
  <2> QED
    BY <1>9, <2>1, CrashesOutside DEF StringLiteral
<1>10. CASE Parenthesis
  <2>1. At("expr") /\ Enter(<<Frame("list")>>)
    BY <1>10 DEF Parenthesis, AtLevel
  <2> QED
    BY <1>3, <1>4, <1>5, <1>6, <2>1, ExprFrame
<1>11. CASE ListExpression \/ NextInList
  <2>1. PICK place \in {"list", "listRest"} :
          At(place) /\ Proceed(<<Expr("assignment"), Frame("listRest")>>)
    BY <1>11 DEF ListExpression, NextInList
  <2> QED
    BY <1>3, <1>4, <1>5, <1>6, <2>1, ExprFrame
<1>12. CASE ListExpressionEnd
  <2>1. At("listRest")
    BY <1>12 DEF ListExpressionEnd
  <2>2. CASE Yield(Rvalue(result.type))
    <3>1. Rvalue(result.type).type = result.type
      BY DEF Rvalue, Result
    <3> QED
      BY <1>1, <1>3, <2>1, <2>2, <3>1, ExprYields
  <2> QED
    BY <1>12, <2>2, RejectsWell DEF ListExpressionEnd
<1>13. CASE \E op \in BinaryOperator : BinaryExpression(op)
  <2>1. PICK op \in BinaryOperator : BinaryExpression(op)
    BY <1>13
  <2>2. At("expr") /\ Enter(<<Expr(LeftRule(op)), Resume("rightSide", op, NoType)>>)
    BY <2>1 DEF BinaryExpression, AtLevel
  <2> QED
    BY <1>3, <1>4, <1>5, <1>6, <2>2, ExprFrame
<1>14. CASE BinaryRightSide
  <2> DEFINE op == Head(todo).arg
             a == Resume("expr", RightLevel(op), NoType)
             b == Resume(op, NoName, result)
  <2>1. At("rightSide") /\ Proceed(<<a, b>>)
    BY <1>14 DEF BinaryRightSide
  <2>2. op \in BinaryOperator
    BY <1>1, <2>1 DEF IsFrame
  <2>3. GoodExpr(a) /\ a.at \notin Reads
    <3>1. a.at = "expr" /\ "expr" \in Simple \cap ExprPlace /\ "expr" \notin Reads
      BY ExprFrame DEF Simple, ExprPlace, Reads, BinaryOperator
    <3> QED
      BY <3>1, SimpleFrames
  <2>4. GoodExpr(b)
    <3>1. b.at = op /\ b.saved = result /\ op \notin Calling
          /\ op \notin {"declarator", "arguments", "call", "moreDeclarators", "pointerDeclarator",
                        "member", "moreMembers", "typeName", "arrayDeclarator", "enumerators", "untyped"}
      BY <2>2, ExprFrame DEF BinaryOperator, Calling
    <3>2. TypedValue(result.type) /\ (Safe => Known(result.type))
      BY <1>1, <1>3, <2>1
    <3> HIDE DEF b, op
    <3>3. SoundFrame(b)
      BY <3>1, <3>2 DEF SoundFrame
    <3>4. Safe => KnownFrame(b)
      BY <3>1, <3>2 DEF KnownFrame
    <3> QED
      BY <1>3, <2>2, <3>1, <3>3, <3>4 DEF GoodExpr
  <2> HIDE DEF a, b
  <2>5. ExprFrames(<<a, b>>)
    BY <2>3, <2>4, ExprTuples
  <2> QED
    BY <1>3, <2>1, <2>5, ExprGoesOn
<1>15. CASE \E op \in {"arithmetic", "bitwise"} : PromotedExpression(op)
  <2>1. PICK op \in {"arithmetic", "bitwise"} : PromotedExpression(op)
    BY <1>15
  <2> DEFINE lhs == Head(todo).saved.type
  <2>2. At(op) /\ op \in BinaryOperator
    BY <2>1 DEF PromotedExpression, BinaryOperator
  <2>3. TypedValue(lhs) /\ (Safe => Known(lhs) /\ Known(result.type)) /\ TypedValue(result.type)
    BY <1>1, <1>3, <2>2 DEF SoundFrame, KnownFrame
  <2>4. CASE lhs = NoType \/ result.type = NoType
    <3>1. ~Safe
      BY <2>3, <2>4 DEF Known, NoType
    <3>2. Crash
      BY <2>1, <2>4 DEF PromotedExpression
    <3> QED
      BY <3>1, <3>2, CrashesOutside
  <2>5. CASE ~(lhs = NoType \/ result.type = NoType) /\ (~IsBasic(lhs) \/ ~IsBasic(result.type))
    <3>1. Reject
      BY <2>1, <2>5 DEF PromotedExpression
    <3> QED
      BY <3>1, RejectsWell
  <2>6. CASE ~(lhs = NoType \/ result.type = NoType) /\ IsBasic(lhs) /\ IsBasic(result.type)
    <3> DEFINE type == PromotedType(lhs, result.type)
    <3>1. Yield(Rvalue(type))
      BY <2>1, <2>6 DEF PromotedExpression
    <3>2. type.data = "basic"
      BY <2>6 DEF PromotedType, IsBasic
    <3> HIDE DEF type
    <3>3. TypedValue(type) /\ Known(type) /\ Rvalue(type).type = type
      BY <3>2 DEF TypedValue, Known, DeclaredType, ObjectType, Rvalue, Result
    <3> QED
      BY <1>3, <2>2, <3>1, <3>3, ExprYields
  <2> QED
    BY <2>4, <2>5, <2>6
<1>16. CASE ShiftExpression
  <2> DEFINE type == Head(todo).saved.type
  <2>1. At("shift") /\ Yield(Rvalue(type)) /\ "shift" \in BinaryOperator
    BY <1>16 DEF ShiftExpression, BinaryOperator
  <2>2. TypedValue(type) /\ (Safe => Known(type)) /\ Rvalue(type).type = type
    BY <1>1, <2>1 DEF SoundFrame, KnownFrame, Rvalue, Result
  <2> QED
    BY <1>3, <2>1, <2>2, ExprYields
<1>17. CASE \E op \in {"comparison", "logical"} : IntExpression(op)
  <2>1. PICK op \in {"comparison", "logical"} : IntExpression(op)
    BY <1>17
  <2>2. At(op) /\ op \in BinaryOperator /\ Yield(Rvalue(IntType))
    BY <2>1 DEF IntExpression, BinaryOperator
  <2>3. TypedValue(Rvalue(IntType).type) /\ Known(Rvalue(IntType).type)
    BY DEF IntType, Basic, Rvalue, Result, TypedValue, Known, DeclaredType, ObjectType
  <2> QED
    BY <1>3, <2>2, <2>3, ExprYields
<1>18. CASE AssignmentExpression
  <2> DEFINE type == Head(todo).saved.type
  <2>1. At("assignment") /\ "assignment" \in BinaryOperator
    BY <1>18 DEF AssignmentExpression, BinaryOperator
  <2>2. TypedValue(type) /\ (Safe => Known(type)) /\ Rvalue(type).type = type
    BY <1>1, <2>1 DEF SoundFrame, KnownFrame, Rvalue, Result
  <2>3. Reject \/ Yield(Rvalue(type))
    BY <1>18 DEF AssignmentExpression
  <2> QED
    BY <1>3, <2>1, <2>2, <2>3, ExprYields, RejectsWell
<1>19. CASE \E prefix \in BOOLEAN : IncDecExpression(prefix)
  <2>1. PICK rule : At("expr") /\ Enter(<<Expr(rule), Frame("incDec")>>)
    BY <1>19 DEF IncDecExpression, AtLevel
  <2> QED
    BY <1>3, <1>4, <1>5, <1>6, <2>1, ExprFrame
<1>20. CASE IncDecExpressionEnd
  <2>1. At("incDec") /\ Yield(Rvalue(result.type)) /\ Rvalue(result.type).type = result.type
    BY <1>20 DEF IncDecExpressionEnd, Rvalue, Result
  <2> QED
    BY <1>1, <1>3, <2>1, ExprYields
<1>21. CASE \E kind \in DOMAIN UntypedChildren : UntypedExpression(kind)
  <2>1. PICK kind \in DOMAIN UntypedChildren : UntypedExpression(kind)
    BY <1>21
  <2>2. At("expr") /\ Uses(kind) /\ Enter(UntypedChildren[kind] \o <<Frame("untyped")>>)
    BY <2>1 DEF UntypedExpression, AtLevel
  <2>3. ~Safe
    BY <2>1, <2>2 DEF UntypedChildren, Uses, Safe, Crashing
  <2>4. ExprFrames(UntypedChildren[kind] \o <<Frame("untyped")>>)
    BY <2>2, <2>3, UntypedFrames
  <2> QED
    BY <1>3, <2>2, <2>4, ExprGoesOn
<1>22. CASE UntypedExpressionEnd
  <2>1. At("untyped") /\ Yield(Untyped)
    BY <1>22 DEF UntypedExpressionEnd
  <2>2. TypedValue(Untyped.type) /\ ~Safe
    <3>1. SoundFrame(Head(todo)) /\ Head(todo).at = "untyped"
      BY <1>1, <2>1
    <3>2. ~Safe
      BY <3>1 DEF SoundFrame, UntypedChildren, Safe, Crashing, Uses
    <3> QED
      BY <3>2 DEF Untyped, Rvalue, Result, NoType, TypedValue
  <2> QED
    BY <1>3, <2>1, <2>2, ExprYields
<1>23. CASE FunctionCallExpression
  <2>1. At("expr") /\ Enter(<<Expr("postfix"), Frame("callee")>>)
    BY <1>23 DEF FunctionCallExpression, AtLevel
  <2> QED
    BY <1>3, <1>4, <1>5, <1>6, <2>1, ExprFrame
<1>24. CASE Callee
  <2>1. At("callee") /\ TypedValue(result.type) /\ (Safe => Known(result.type))
    BY <1>1, <1>3, <1>24 DEF Callee
  <2>2. CASE result.type = NoType
    <3>1. Crash /\ ~Safe
      BY <1>24, <2>1, <2>2 DEF Callee, Known, NoType
    <3> QED
      BY <3>1, CrashesOutside
  <2>3. CASE result.type # NoType /\ result.type.data # "func"
    BY <1>24, <2>3, RejectsWell DEF Callee
  <2>4. CASE result.type # NoType /\ result.type.data = "func"
    <3> DEFINE a == Resume("arguments", 1, result.type)
               c == Resume("call", 0, result.type)
    <3>1. \/ Proceed(<<Expr("assignment"), a>>)
          \/ (Uses("noArguments") \/ result.type.params = <<>>) /\ Proceed(<<c>>)
      BY <1>24, <2>4 DEF Callee
    <3>2. result.type.of.data \in DeclaredType
      BY <2>1, <2>4 DEF TypedValue
    <3>3. GoodExpr(a)
      <4>1. a.at = "arguments" /\ a.arg = 1 /\ a.saved = result.type
        BY ExprFrame
      <4> HIDE DEF a
      <4> QED
        BY <2>4, <3>2, <4>1, ArgumentFrame
    <3>4. ASSUME Uses("noArguments") \/ result.type.params = <<>> PROVE GoodExpr(c) /\ c.at \notin Reads
      <4>1. c.at = "call" /\ c.arg = 0 /\ c.saved = result.type
        BY ExprFrame
      <4> HIDE DEF c
      <4> QED
        BY <2>4, <3>2, <3>4, <4>1, ArgumentFrame
    <3> HIDE DEF a, c
    <3>5. CASE Proceed(<<Expr("assignment"), a>>)
      <4>1. ExprFrames(<<Expr("assignment"), a>>)
        BY <3>3, ExprFrame, ExprTuples
      <4> QED
        BY <1>3, <2>1, <3>5, <4>1, ExprGoesOn
    <3>6. CASE (Uses("noArguments") \/ result.type.params = <<>>) /\ Proceed(<<c>>)
      <4>1. ExprFrames(<<c>>)
        BY <3>4, <3>6, ExprTuples
      <4> QED
        BY <1>3, <2>1, <3>6, <4>1, ExprGoesOn
    <3> QED
      BY <3>1, <3>5, <3>6
  <2> QED
    BY <2>2, <2>3, <2>4
<1>25. CASE NextArgument
  <2> DEFINE a == [Head(todo) EXCEPT !.arg = @ + 1]
  <2>1. At("arguments") /\ Proceed(<<Expr("assignment"), a>>)
    BY <1>25 DEF NextArgument
  <2>2. /\ Head(todo).at = "arguments" /\ SoundCall(Head(todo))
        /\ DOMAIN Head(todo) = {"at", "arg", "saved"}
    BY <1>1, <2>1 DEF SoundFrame, IsFrame
  <2>3. a.at = "arguments" /\ a.arg = Head(todo).arg + 1 /\ a.saved = Head(todo).saved
    BY <2>2
  <2> HIDE DEF a
  <2>4. GoodExpr(a)
    BY <2>2, <2>3, ArgumentFrame DEF SoundCall
  <2>5. ExprFrames(<<Expr("assignment"), a>>)
    BY <2>4, ExprFrame, ExprTuples
  <2> QED
    BY <1>3, <2>1, <2>5, ExprGoesOn
<1>26. CASE LastArgument
  <2> DEFINE a == [Head(todo) EXCEPT !.at = "call"]
  <2>1. At("arguments") /\ Proceed(<<a>>)
    BY <1>26 DEF LastArgument
  <2>2. /\ Head(todo).at = "arguments" /\ SoundCall(Head(todo))
        /\ DOMAIN Head(todo) = {"at", "arg", "saved"}
    BY <1>1, <2>1 DEF SoundFrame, IsFrame
  <2>3. a.at = "call" /\ a.arg = Head(todo).arg /\ a.saved = Head(todo).saved
    BY <2>2
  <2> HIDE DEF a
  <2>4. GoodExpr(a) /\ a.at \notin Reads
    BY <2>2, <2>3, ArgumentFrame DEF SoundCall
  <2>5. ExprFrames(<<a>>)
    BY <2>4, ExprTuples
  <2> QED
    BY <1>3, <2>1, <2>5, ExprGoesOn
<1>27. CASE FunctionCallExpressionEnd
  <2> DEFINE type == Head(todo).saved
             passed == Head(todo).arg
  <2>1. At("call")
    BY <1>27 DEF FunctionCallExpressionEnd
  <2>2. SoundCall(Head(todo)) /\ Head(todo).at = "call"
    BY <1>1, <2>1 DEF SoundFrame
  <2>3. CASE passed = Len(type.params)
    <3>1. Yield(Rvalue(type.of)) /\ Rvalue(type.of).type = type.of /\ type.of.data \in DeclaredType
      BY <1>27, <2>2, <2>3 DEF FunctionCallExpressionEnd, SoundCall, Rvalue, Result
    <3>2. TypedValue(type.of) /\ Known(type.of)
      BY <3>1 DEF TypedValue, Known, DeclaredType, ObjectType
    <3> QED
      BY <1>3, <2>1, <3>1, <3>2, ExprYields
  <2>4. CASE passed # Len(type.params) /\ passed = 0
    <3>1. Crash
      BY <1>27, <2>4 DEF FunctionCallExpressionEnd
    <3>2. type.params # <<>>
      BY <2>4, NoTuple
    <3>3. ~Safe
      BY <2>2, <2>4, <3>2 DEF SoundCall, Safe, Crashing, Uses
    <3> QED
      BY <3>1, <3>3, CrashesOutside
  <2>5. CASE passed # Len(type.params) /\ passed # 0
    BY <1>27, <2>5, RejectsWell DEF FunctionCallExpressionEnd
  <2> QED
    BY <2>3, <2>4, <2>5
<1>28. CASE ConstantExpression
  <2> DEFINE frames == <<Expr("conditional"), Resume("constantExpression", budget, NoType)>>
  <2>1. At("constant") /\ Continue(frames) /\ mailbox' = NoConstant
        /\ UNCHANGED <<table, curType, result, cScopes, cType, status>>
    BY <1>28 DEF ConstantExpression
  <2>2. ExprFrames(frames)
    BY <1>5, <1>6, ExprFrame, ExprTuples
  <2> HIDE DEF frames
  <2> QED
    BY <1>3, <2>1, <2>2, ConstantGoesOn
<1>29. CASE ConstantExpressionEnd
  <2>1. At("constantExpression")
    BY <1>29 DEF ConstantExpressionEnd
  <2>2. CASE Yield(Rvalue(result.type))
    <3>1. Rvalue(result.type).type = result.type
      BY DEF Rvalue, Result
    <3> QED
      BY <1>1, <1>3, <2>1, <2>2, <3>1, ExprYields
  <2> QED
    BY <1>29, <2>2, RejectsWell DEF ConstantExpressionEnd
<1> QED
  BY <1>7, <1>8, <1>9, <1>10, <1>11, <1>12, <1>13, <1>14, <1>15, <1>16, <1>17, <1>18, <1>19,
     <1>20, <1>21, <1>22, <1>23, <1>24, <1>25, <1>26, <1>27, <1>28, <1>29
  DEF NextInExpression

-----------------------------------------------------------------------------
(* Scopes *)

\* The table and C's scopes change together.
LEMMA ScopeLists ==
    ASSUME NEW scopes, IsSequence(scopes)
    PROVE  /\ IsSequence(PushScope(scopes)) /\ Len(PushScope(scopes)) = Len(scopes) + 1
           /\ DOMAIN PushScope(scopes) = 1 .. Len(scopes) + 1
           /\ \A j \in DOMAIN scopes : PushScope(scopes)[j] = scopes[j]
           /\ PushScope(scopes)[Len(scopes) + 1] = EmptyScope
           /\ IsSequence(PopScope(scopes)) /\ DOMAIN PopScope(scopes) \subseteq DOMAIN scopes
           /\ \A i \in DOMAIN PopScope(scopes) : PopScope(scopes)[i] = scopes[i]
           /\ Len(PopScope(scopes)) = IF 1 <= Len(scopes) - 1 THEN Len(scopes) - 1 ELSE 0
           /\ \A i : \A scope :
                /\ IsSequence([scopes EXCEPT ![i] = scope])
                /\ DOMAIN [scopes EXCEPT ![i] = scope] = DOMAIN scopes
                /\ Len([scopes EXCEPT ![i] = scope]) = Len(scopes)
                /\ \A j \in DOMAIN scopes :
                     [scopes EXCEPT ![i] = scope][j] = IF j = i THEN scope ELSE scopes[j]
<1> DEFINE S == {scopes[i] : i \in DOMAIN scopes}
<1>1. scopes \in Seq(S) /\ DOMAIN scopes = 1 .. Len(scopes) /\ Len(scopes) \in Nat
  BY SequenceFacts DEF IsSequence
<1> HIDE DEF S
<1>2. \A scope : scopes \in Seq(S \cup {scope}) /\ scope \in S \cup {scope}
  BY <1>1, SeqMonotonic
<1>3. /\ PushScope(scopes) \in Seq(S \cup {EmptyScope})
      /\ Len(PushScope(scopes)) = Len(scopes) + 1
      /\ \A i \in 1 .. Len(scopes) : PushScope(scopes)[i] = scopes[i]
      /\ PushScope(scopes)[Len(scopes) + 1] = EmptyScope
  <2>1. scopes \in Seq(S \cup {EmptyScope}) /\ EmptyScope \in S \cup {EmptyScope}
    BY <1>2
  <2> QED
    BY <2>1, AppendProperties DEF PushScope
<1>4. IsSequence(PushScope(scopes)) /\ DOMAIN PushScope(scopes) = 1 .. Len(scopes) + 1
  <2>1. IsSequence(PushScope(scopes))
    BY <1>3, ElementsOf
  <2> QED
    BY <1>3, <2>1, SequenceFacts
<1>5. /\ IsSequence(PopScope(scopes)) /\ DOMAIN PopScope(scopes) \subseteq DOMAIN scopes
      /\ \A i \in DOMAIN PopScope(scopes) : PopScope(scopes)[i] = scopes[i]
      /\ Len(PopScope(scopes)) = IF 1 <= Len(scopes) - 1 THEN Len(scopes) - 1 ELSE 0
  <2> DEFINE n == Len(scopes) - 1
  <2>1. n \in Int /\ \A i \in 1 .. n : scopes[i] \in S
    BY <1>1, ElementOfSeq
  <2>2. /\ PopScope(scopes) \in Seq(S)
        /\ Len(PopScope(scopes)) = IF 1 <= n THEN n - 1 + 1 ELSE 0
        /\ \A i \in 1 .. n - 1 + 1 : PopScope(scopes)[i] = scopes[1 + i - 1]
    BY <1>1, <2>1, SubSeqProperties DEF PopScope
  <2>3. Len(PopScope(scopes)) = IF 1 <= n THEN n ELSE 0
    BY <2>1, <2>2
  <2>4. IsSequence(PopScope(scopes))
    BY <2>2, ElementsOf
  <2>5. DOMAIN PopScope(scopes) = 1 .. Len(PopScope(scopes))
    BY <2>4, SequenceFacts
  <2>6. DOMAIN PopScope(scopes) \subseteq 1 .. n
    BY <2>1, <2>3, <2>5
  <2>7. \A i \in 1 .. n : i \in 1 .. n - 1 + 1 /\ 1 + i - 1 = i
    BY <2>1
  <2>8. 1 .. n \subseteq DOMAIN scopes
    BY <1>1
  <2>9. Len(PopScope(scopes)) = IF 1 <= Len(scopes) - 1 THEN Len(scopes) - 1 ELSE 0
    BY <2>3
  <2> HIDE DEF n
  <2>10. \A i \in DOMAIN PopScope(scopes) : PopScope(scopes)[i] = scopes[i]
    BY <2>2, <2>6, <2>7
  <2> QED
    BY <2>4, <2>6, <2>8, <2>9, <2>10
<1>6. ASSUME NEW i, NEW scope
      PROVE  /\ IsSequence([scopes EXCEPT ![i] = scope])
             /\ DOMAIN [scopes EXCEPT ![i] = scope] = DOMAIN scopes
             /\ Len([scopes EXCEPT ![i] = scope]) = Len(scopes)
             /\ \A j \in DOMAIN scopes :
                  [scopes EXCEPT ![i] = scope][j] = IF j = i THEN scope ELSE scopes[j]
  <2> DEFINE s == [scopes EXCEPT ![i] = scope]
  <2>1. DOMAIN s = 1 .. Len(scopes) /\ \A j \in DOMAIN scopes : s[j] = IF j = i THEN scope ELSE scopes[j]
    BY <1>1
  <2>2. s \in [1 .. Len(scopes) -> S \cup {scope}]
    <3>1. \A j \in 1 .. Len(scopes) : scopes[j] \in S
      BY <1>1, ElementOfSeq
    <3>2. s = [j \in 1 .. Len(scopes) |-> IF j = i THEN scope ELSE scopes[j]]
      BY <1>1
    <3> HIDE DEF s
    <3> QED
      BY <3>1, <3>2
  <2> HIDE DEF s
  <2>3. s \in Seq(S \cup {scope})
    BY <1>1, <2>2, SeqDef
  <2>4. IsSequence(s) /\ DOMAIN s = 1 .. Len(s) /\ Len(s) \in Nat
    BY <2>3, ElementsOf, SequenceFacts
  <2>5. Len(s) = Len(scopes)
    BY <1>1, <2>1, <2>4
  <2>6. IsSequence(s) /\ DOMAIN s = DOMAIN scopes /\ Len(s) = Len(scopes)
        /\ \A j \in DOMAIN scopes : s[j] = IF j = i THEN scope ELSE scopes[j]
    BY <1>1, <2>1, <2>4, <2>5
  <2> QED
    BY <2>6 DEF s
<1> QED
  BY <1>1, <1>3, <1>4, <1>5, <1>6

LEMMA SameNamesKept ==
    ASSUME NEW scopes, NEW entities, IsSequence(scopes), IsSequence(entities),
           SameNames(scopes, entities)
    PROVE  /\ SameNames(PushScope(scopes), PushScope(entities))
           /\ SameNames(PopScope(scopes), PopScope(entities))
           /\ \A n, symbol, entity :
                /\ SameNames(AddToScope(scopes, n, symbol), AddToScope(entities, n, entity))
                /\ SameNames(AddToParentScope(scopes, n, symbol),
                             AddToParentScope(entities, n, entity))
<1>1. /\ DOMAIN scopes = 1 .. Len(scopes) /\ Len(scopes) \in Nat /\ DOMAIN entities = DOMAIN scopes
      /\ Len(entities) = Len(scopes) /\ \A i \in DOMAIN scopes : DOMAIN scopes[i] = DOMAIN entities[i]
  BY SequenceFacts DEF SameNames
<1>2. SameNames(PushScope(scopes), PushScope(entities))
  <2>1. \A i \in 1 .. Len(scopes) + 1 : i \in DOMAIN scopes \/ i = Len(scopes) + 1
    BY <1>1
  <2>2. /\ DOMAIN PushScope(scopes) = 1 .. Len(scopes) + 1
        /\ Len(PushScope(scopes)) = Len(scopes) + 1 /\ Len(PushScope(entities)) = Len(scopes) + 1
        /\ PushScope(scopes)[Len(scopes) + 1] = EmptyScope
        /\ PushScope(entities)[Len(scopes) + 1] = EmptyScope
        /\ \A i \in DOMAIN scopes : PushScope(scopes)[i] = scopes[i]
                                    /\ PushScope(entities)[i] = entities[i]
    BY <1>1, ScopeLists
  <2>3. \A i \in 1 .. Len(scopes) + 1 : DOMAIN PushScope(scopes)[i] = DOMAIN PushScope(entities)[i]
    BY <1>1, <2>1, <2>2
  <2> QED
    BY <2>2, <2>3 DEF SameNames
<1>3. SameNames(PopScope(scopes), PopScope(entities))
  <2> DEFINE s == PopScope(scopes)
             e == PopScope(entities)
             length == IF 1 <= Len(scopes) - 1 THEN Len(scopes) - 1 ELSE 0
  <2>0. /\ IsSequence(s) /\ DOMAIN s \subseteq DOMAIN scopes /\ Len(s) = length
        /\ \A i \in DOMAIN s : s[i] = scopes[i]
    BY ScopeLists
  <2>1. /\ IsSequence(e) /\ \A i \in DOMAIN e : e[i] = entities[i]
        /\ Len(e) = length
    <3>1. Len(e) = IF 1 <= Len(entities) - 1 THEN Len(entities) - 1 ELSE 0
      BY ScopeLists
    <3>2. IsSequence(e) /\ \A i \in DOMAIN e : e[i] = entities[i]
      BY ScopeLists
    <3> HIDE DEF e
    <3> QED
      BY <1>1, <3>1, <3>2
  <2> HIDE DEF s, e, length
  <2>2. DOMAIN s = DOMAIN e
    BY <2>0, <2>1, SequenceFacts
  <2>3. SameNames(s, e)
    BY <1>1, <2>0, <2>1, <2>2 DEF SameNames
  <2> QED
    BY <2>3 DEF s, e
<1>4. \A map, n, v : DOMAIN Insert(map, n, v) = DOMAIN map \cup {n}
  BY DEF Insert, Bind
<1>5. ASSUME NEW i, NEW n, NEW symbol, NEW entity
      PROVE  SameNames([scopes EXCEPT ![i] = Insert(scopes[i], n, symbol)],
                       [entities EXCEPT ![i] = Insert(entities[i], n, entity)])
  <2> DEFINE s == [scopes EXCEPT ![i] = Insert(scopes[i], n, symbol)]
             e == [entities EXCEPT ![i] = Insert(entities[i], n, entity)]
  <2>1. /\ DOMAIN s = DOMAIN scopes /\ Len(s) = Len(scopes) /\ Len(e) = Len(scopes)
        /\ \A j \in DOMAIN scopes : s[j] = IF j = i THEN Insert(scopes[i], n, symbol) ELSE scopes[j]
        /\ \A j \in DOMAIN scopes : e[j] = IF j = i THEN Insert(entities[i], n, entity) ELSE entities[j]
    BY <1>1, ScopeLists
  <2> HIDE DEF s, e
  <2>2. ASSUME NEW j \in DOMAIN s PROVE DOMAIN s[j] = DOMAIN e[j]
    <3>1. CASE j = i
      <4>1. s[j] = Insert(scopes[i], n, symbol) /\ e[j] = Insert(entities[i], n, entity)
        BY <2>1, <3>1
      <4>2. DOMAIN scopes[i] = DOMAIN entities[i]
        BY <1>1, <2>1, <3>1
      <4>3. DOMAIN Insert(scopes[i], n, symbol) = DOMAIN scopes[i] \cup {n}
        BY <1>4
      <4>4. DOMAIN Insert(entities[i], n, entity) = DOMAIN entities[i] \cup {n}
        BY <1>4
      <4> QED
        BY <4>1, <4>2, <4>3, <4>4
    <3>2. CASE j # i
      BY <1>1, <2>1, <3>2
    <3> QED
      BY <3>1, <3>2
  <2>3. SameNames(s, e)
    BY <2>1, <2>2 DEF SameNames
  <2> QED
    BY <2>3 DEF s, e
<1>6. ASSUME NEW n, NEW symbol, NEW entity
      PROVE  /\ SameNames(AddToScope(scopes, n, symbol), AddToScope(entities, n, entity))
             /\ SameNames(AddToParentScope(scopes, n, symbol), AddToParentScope(entities, n, entity))
  BY <1>1, <1>5 DEF AddToScope, AddToParentScope
<1> QED
  BY <1>2, <1>3, <1>6

LEMMA SameScopesKept ==
    ASSUME NEW scopes, NEW entities, IsSequence(scopes), IsSequence(entities),
           SameScopes(scopes, entities)
    PROVE  /\ SameScopes(PushScope(scopes), PushScope(entities))
           /\ SameScopes(PopScope(scopes), PopScope(entities))
           /\ \A n, symbol, entity : SameEntity(symbol, entity) =>
                /\ SameScopes(AddToScope(scopes, n, symbol), AddToScope(entities, n, entity))
                /\ SameScopes(AddToParentScope(scopes, n, symbol),
                              AddToParentScope(entities, n, entity))
<1>1. /\ DOMAIN scopes = 1 .. Len(scopes) /\ Len(scopes) \in Nat /\ DOMAIN entities = DOMAIN scopes
      /\ Len(entities) = Len(scopes) /\ SameNames(scopes, entities)
      /\ \A i \in DOMAIN scopes : DOMAIN scopes[i] = DOMAIN entities[i]
      /\ \A i \in DOMAIN scopes : \A n \in DOMAIN scopes[i] :
           SameEntity(scopes[i][n], entities[i][n])
  BY SequenceFacts DEF SameScopes, SameNames
<1>2. SameScopes(PushScope(scopes), PushScope(entities))
  <2> DEFINE s == PushScope(scopes)
             e == PushScope(entities)
  <2>1. /\ DOMAIN s = 1 .. Len(scopes) + 1
        /\ s[Len(scopes) + 1] = EmptyScope /\ \A i \in DOMAIN scopes : s[i] = scopes[i]
    BY ScopeLists
  <2>2. \A i \in DOMAIN entities : e[i] = entities[i]
    BY ScopeLists
  <2>3. SameNames(s, e) /\ DOMAIN EmptyScope = {}
    BY <1>1, SameNamesKept DEF EmptyScope
  <2> HIDE DEF s, e
  <2>4. \A i \in DOMAIN s : i \in DOMAIN scopes \/ DOMAIN s[i] = {}
    BY <1>1, <2>1, <2>3
  <2>5. SameScopes(s, e)
    BY <1>1, <2>1, <2>2, <2>3, <2>4 DEF SameScopes
  <2> QED
    BY <2>5 DEF s, e
<1>3. SameScopes(PopScope(scopes), PopScope(entities))
  <2> DEFINE s == PopScope(scopes)
             e == PopScope(entities)
  <2>1. /\ DOMAIN s \subseteq DOMAIN scopes /\ \A i \in DOMAIN s : s[i] = scopes[i]
        /\ IsSequence(s)
    BY ScopeLists
  <2>2. /\ \A i \in DOMAIN e : e[i] = entities[i]
        /\ IsSequence(e)
    BY ScopeLists
  <2>3. SameNames(s, e)
    BY <1>1, SameNamesKept
  <2> HIDE DEF s, e
  <2>4. DOMAIN s = DOMAIN e
    BY <2>1, <2>2, <2>3, SequenceFacts DEF SameNames
  <2>5. SameScopes(s, e)
    BY <1>1, <2>1, <2>2, <2>3, <2>4 DEF SameScopes
  <2> QED
    BY <2>5 DEF s, e
<1>4. ASSUME NEW i, NEW n, NEW symbol, NEW entity, SameEntity(symbol, entity),
             SameNames([scopes EXCEPT ![i] = Insert(scopes[i], n, symbol)],
                       [entities EXCEPT ![i] = Insert(entities[i], n, entity)])
      PROVE  SameScopes([scopes EXCEPT ![i] = Insert(scopes[i], n, symbol)],
                        [entities EXCEPT ![i] = Insert(entities[i], n, entity)])
  <2> DEFINE s == [scopes EXCEPT ![i] = Insert(scopes[i], n, symbol)]
             e == [entities EXCEPT ![i] = Insert(entities[i], n, entity)]
  <2>1. /\ DOMAIN s = DOMAIN scopes /\ SameNames(s, e)
        /\ \A j \in DOMAIN scopes : s[j] = IF j = i THEN Insert(scopes[i], n, symbol) ELSE scopes[j]
        /\ \A j \in DOMAIN scopes : e[j] = IF j = i THEN Insert(entities[i], n, entity) ELSE entities[j]
    BY <1>1, <1>4, ScopeLists
  <2> HIDE DEF s, e
  <2>2. ASSUME NEW j \in DOMAIN s, NEW m \in DOMAIN s[j] PROVE SameEntity(s[j][m], e[j][m])
    <3>1. CASE j = i
      <4>1. s[j] = Insert(scopes[i], n, symbol) /\ e[j] = Insert(entities[i], n, entity)
        BY <2>1, <3>1
      <4>2. /\ DOMAIN scopes[i] = DOMAIN entities[i]
            /\ \A k \in DOMAIN scopes[i] : SameEntity(scopes[i][k], entities[i][k])
        BY <1>1, <2>1, <3>1
      <4>3. CASE n \in DOMAIN scopes[i]
        <5>1. s[j] = scopes[i] /\ e[j] = entities[i]
          BY <4>1, <4>2, <4>3 DEF Insert
        <5> QED
          BY <2>2, <4>2, <5>1
      <4>4. CASE n \notin DOMAIN scopes[i]
        <5>1. s[j] = Bind(scopes[i], n, symbol) /\ e[j] = Bind(entities[i], n, entity)
          BY <4>1, <4>2, <4>4 DEF Insert
        <5>2. m \in DOMAIN scopes[i] \cup {n}
          BY <2>2, <5>1 DEF Bind
        <5>3. /\ s[j][m] = IF m = n THEN symbol ELSE scopes[i][m]
              /\ e[j][m] = IF m = n THEN entity ELSE entities[i][m]
          BY <4>2, <5>1, <5>2 DEF Bind
        <5> QED
          BY <1>4, <4>2, <5>2, <5>3
      <4> QED
        BY <4>3, <4>4
    <3>2. CASE j # i
      BY <1>1, <2>1, <2>2, <3>2
    <3> QED
      BY <3>1, <3>2
  <2>3. SameScopes(s, e)
    BY <2>1, <2>2 DEF SameScopes
  <2> QED
    BY <2>3 DEF s, e
<1>5. ASSUME NEW n, NEW symbol, NEW entity, SameEntity(symbol, entity)
      PROVE  /\ SameScopes(AddToScope(scopes, n, symbol), AddToScope(entities, n, entity))
             /\ SameScopes(AddToParentScope(scopes, n, symbol), AddToParentScope(entities, n, entity))
  <2>1. /\ SameNames(AddToScope(scopes, n, symbol), AddToScope(entities, n, entity))
        /\ SameNames(AddToParentScope(scopes, n, symbol), AddToParentScope(entities, n, entity))
    BY <1>1, SameNamesKept
  <2> QED
    BY <1>1, <1>4, <1>5, <2>1 DEF AddToScope, AddToParentScope
<1> QED
  BY <1>2, <1>3, <1>5

\* A name is resolved to the same.
LEMMA SameResolved ==
    ASSUME NEW scopes, NEW entities, IsSequence(scopes), IsSequence(entities),
           SameScopes(scopes, entities), NEW n, HasOrd(entities, n)
    PROVE  HasOrd(scopes, n) /\ SameEntity(GetOrd(scopes, n), GetOrd(entities, n))
<1>1. /\ DOMAIN scopes = 1 .. Len(scopes) /\ Len(scopes) \in Nat /\ DOMAIN entities = DOMAIN scopes
      /\ \A i \in DOMAIN scopes : DOMAIN scopes[i] = DOMAIN entities[i]
  BY SequenceFacts DEF SameScopes, SameNames
<1>2. HasOrd(scopes, n)
  BY <1>1 DEF HasOrd
<1>3. PICK i \in DOMAIN scopes :
        /\ n \in DOMAIN scopes[i] /\ GetOrd(scopes, n) = scopes[i][n]
        /\ \A j \in DOMAIN scopes : n \in DOMAIN scopes[j] => j <= i
  BY <1>2, Resolved
<1>4. PICK k \in DOMAIN entities :
        /\ n \in DOMAIN entities[k] /\ GetOrd(entities, n) = entities[k][n]
        /\ \A j \in DOMAIN entities : n \in DOMAIN entities[j] => j <= k
  BY Resolved
<1>5. i = k
  <2>1. i <= k /\ k <= i
    BY <1>1, <1>3, <1>4
  <2> QED
    BY <1>1, <2>1
<1> QED
  BY <1>2, <1>3, <1>4, <1>5 DEF SameScopes

LEMMA TypedKept ==
    ASSUME NEW scopes, IsSequence(scopes), TypedScopes(scopes)
    PROVE  /\ TypedScopes(PushScope(scopes)) /\ TypedScopes(PopScope(scopes))
           /\ \A n \in Names : \A symbol : TypedSymbol(symbol) =>
                /\ TypedScopes(AddToScope(scopes, n, symbol))
                /\ TypedScopes(AddToParentScope(scopes, n, symbol))
<1>1. DOMAIN scopes = 1 .. Len(scopes) /\ Len(scopes) \in Nat
  BY SequenceFacts
<1>2. TypedScopes(PushScope(scopes))
  <2>1. ASSUME NEW i \in DOMAIN PushScope(scopes)
        PROVE  \/ PushScope(scopes)[i] = EmptyScope
               \/ i \in DOMAIN scopes /\ PushScope(scopes)[i] = scopes[i]
    <3>1. /\ DOMAIN PushScope(scopes) = 1 .. Len(scopes) + 1
          /\ \A j \in DOMAIN scopes : PushScope(scopes)[j] = scopes[j]
          /\ PushScope(scopes)[Len(scopes) + 1] = EmptyScope
      BY ScopeLists
    <3>2. i \in DOMAIN scopes \/ i = Len(scopes) + 1
      BY <1>1, <2>1, <3>1
    <3> QED
      BY <3>1, <3>2
  <2>2. DOMAIN EmptyScope = {}
    BY DEF EmptyScope
  <2> QED
    BY <2>1, <2>2 DEF TypedScopes
<1>3. TypedScopes(PopScope(scopes))
  BY ScopeLists DEF TypedScopes
<1>4. ASSUME NEW i, NEW n \in Names, NEW symbol, TypedSymbol(symbol)
      PROVE  TypedScopes([scopes EXCEPT ![i] = Insert(scopes[i], n, symbol)])
  <2> DEFINE s == [scopes EXCEPT ![i] = Insert(scopes[i], n, symbol)]
  <2>1. /\ DOMAIN s = DOMAIN scopes
        /\ \A j \in DOMAIN scopes : s[j] = IF j = i THEN Insert(scopes[i], n, symbol) ELSE scopes[j]
    BY <1>1, ScopeLists
  <2>2. \A m \in DOMAIN Insert(scopes[i], n, symbol) :
           \/ m \in DOMAIN scopes[i] /\ Insert(scopes[i], n, symbol)[m] = scopes[i][m]
           \/ m = n /\ Insert(scopes[i], n, symbol)[m] = symbol
    BY DEF Insert, Bind
  <2> HIDE DEF s
  <2>3. TypedScopes(s)
    BY <1>4, <2>1, <2>2 DEF TypedScopes
  <2> QED
    BY <2>3 DEF s
<1>5. ASSUME NEW n \in Names, NEW symbol, TypedSymbol(symbol)
      PROVE  /\ TypedScopes(AddToScope(scopes, n, symbol))
             /\ TypedScopes(AddToParentScope(scopes, n, symbol))
  BY <1>4, <1>5 DEF AddToScope, AddToParentScope
<1> QED
  BY <1>2, <1>3, <1>5

\* A step that changes the scopes or the type of the declaration at hand.
LEMMA ScopeStep ==
    ASSUME ScopeInv, NamesInv, NEW frames, Visits(frames), Sound(frames),
           UNCHANGED <<mailbox, result, status>>,
           IsSequence(cScopes'), TypedScopes(table'), curType'.data \in DeclaredType,
           Safe => Passes(frames, result.type),
           Leakless /\ SameNames(table, cScopes) => SameNames(table', cScopes'),
           Agreeing /\ Agreed => Agreed' /\ \A i \in DOMAIN frames : SameCall(frames[i])
    PROVE  NamesInv'
<1>1. Onto(frames) /\ IsStack(todo) /\ budget' \in 0 .. MaxNodes
  BY VisitsOnto DEF NamesInv
<1>2. TypeInv'
  <2>1. Sound(todo')
    BY <1>1, SoundOnto DEF NamesInv, TypeInv
  <2> QED
    BY <1>1, <2>1 DEF NamesInv, TypeInv, Sound
<1>3. CrashInv'
  <2>1. ASSUME Safe
        PROVE  Linked(todo') /\ (todo' # <<>> /\ Head(todo').at \in Reads => Known(result.type))
    <3>1. Linked(todo) /\ Passes(frames, result.type)
      BY <2>1 DEF NamesInv, CrashInv
    <3> QED
      BY <1>1, <3>1, LinkedOnto
  <2> QED
    BY <2>1 DEF NamesInv, CrashInv, Linked
<1>4. LeakInv'
  BY DEF NamesInv, LeakInv, SameNames
<1>5. AgreeInv'
  <2>1. ASSUME Agreeing PROVE Agreed' /\ \A i \in DOMAIN todo' : SameCall(todo'[i])
    <3>1. Agreed /\ \A i \in DOMAIN todo : SameCall(todo[i])
      BY <2>1 DEF NamesInv, AgreeInv
    <3>2. Agreed' /\ \A i \in DOMAIN frames : SameCall(frames[i])
      BY <2>1, <3>1
    <3> QED
      BY <1>1, <3>1, <3>2, FramesOf
  <2> QED
    BY <2>1 DEF AgreeInv
<1> QED
  BY <1>2, <1>3, <1>4, <1>5 DEF NamesInv

-----------------------------------------------------------------------------
(* Declarations and the frames they put on the call stack *)

\* Frames none of which reads a result.
Laid(frames) ==
    /\ IsSequence(frames)
    /\ \A i \in DOMAIN frames : frames[i].at \notin Reads /\ SoundFrame(frames[i])
\* Frames of which the first alone may be a declarator, of that type, and
\* where a list of declarators goes on with it.
Settled(type, frames) ==
    \A i \in DOMAIN frames :
        /\ frames[i].at = "declarator" => i = 1 /\ frames[i].saved.type = type
        /\ ~Restores(frames[i])
        /\ Waiting(frames[i]) =>
             frames[i].saved = type /\ \A j \in 1 .. i - 1 : ~Resetting(frames[j])

LEMMA SettledFits ==
    ASSUME NEW type, NEW frames, Settled(type, frames), IsSequence(frames)
    PROVE  Fits(type, frames)
<1>1. DOMAIN frames = 1 .. Len(frames) /\ Len(frames) \in Nat
  BY SequenceFacts
<1>2. \A i \in DOMAIN frames : \A j \in 1 .. i - 1 : j \in DOMAIN frames
  BY <1>1
<1> QED
  BY <1>2 DEF Settled, Fits

LEMMA ConcatElements ==
    ASSUME NEW s, NEW t, IsSequence(s), IsSequence(t)
    PROVE  /\ IsSequence(s \o t) /\ Len(s) \in Nat
           /\ DOMAIN (s \o t) = 1 .. Len(s) + Len(t)
           /\ DOMAIN s = 1 .. Len(s) /\ DOMAIN t = 1 .. Len(t) /\ Len(t) \in Nat
           /\ \A i \in DOMAIN (s \o t) :
                \/ i <= Len(s) /\ i \in DOMAIN s /\ (s \o t)[i] = s[i]
                \/ i > Len(s) /\ i - Len(s) \in DOMAIN t /\ (s \o t)[i] = t[i - Len(s)]
<1>1. /\ Len(s) \in Nat /\ DOMAIN s = 1 .. Len(s) /\ Len(t) \in Nat /\ DOMAIN t = 1 .. Len(t)
  BY SequenceFacts
<1>2. /\ IsSequence(s \o t) /\ Len(s \o t) = Len(s) + Len(t)
      /\ \A i \in 1 .. Len(s) + Len(t) :
            (s \o t)[i] = IF i <= Len(s) THEN s[i] ELSE t[i - Len(s)]
  BY ConcatFacts
<1>3. DOMAIN (s \o t) = 1 .. Len(s) + Len(t)
  BY <1>2, SequenceFacts
<1>4. ASSUME NEW i \in 1 .. Len(s) + Len(t)
      PROVE  \/ i <= Len(s) /\ i \in DOMAIN s /\ (s \o t)[i] = s[i]
             \/ i > Len(s) /\ i - Len(s) \in DOMAIN t /\ (s \o t)[i] = t[i - Len(s)]
  BY <1>1, <1>2
<1> QED
  BY <1>1, <1>2, <1>3, <1>4

LEMMA EmptyConcat ==
    ASSUME NEW s, IsSequence(s)
    PROVE  <<>> \o s = s /\ s \o <<>> = s
<1> DEFINE S == {s[i] : i \in DOMAIN s}
<1>1. s \in Seq(S)
  BY DEF IsSequence
<1> HIDE DEF S
<1> QED
  BY <1>1

LEMMA LaidConcat ==
    ASSUME NEW s, NEW t, Laid(s), Laid(t)
    PROVE  Laid(s \o t)
<1>1. /\ IsSequence(s \o t)
      /\ \A i \in DOMAIN (s \o t) :
           \/ i <= Len(s) /\ i \in DOMAIN s /\ (s \o t)[i] = s[i]
           \/ i > Len(s) /\ i - Len(s) \in DOMAIN t /\ (s \o t)[i] = t[i - Len(s)]
  BY ConcatElements DEF Laid
<1> DEFINE u == s \o t
<1> HIDE DEF u
<1>2. IsSequence(u) /\ \A i \in DOMAIN u : (\E j \in DOMAIN s : u[i] = s[j])
                                           \/ (\E j \in DOMAIN t : u[i] = t[j])
  BY <1>1 DEF u
<1>3. Laid(u)
  BY <1>2 DEF Laid
<1> QED
  BY <1>3 DEF u

LEMMA SettledConcat ==
    ASSUME NEW type, NEW s, NEW t, IsSequence(s), IsSequence(t), Settled(type, s), Settled(type, t),
           s = <<>> \/ \A i \in DOMAIN t : t[i].at # "declarator",
           \/ \A i \in DOMAIN s : ~Resetting(s[i])
           \/ \A i \in DOMAIN t : ~Waiting(t[i])
    PROVE  Settled(type, s \o t)
<1> DEFINE u == s \o t
           n == Len(s)
<1>1. /\ n \in Nat /\ DOMAIN s = 1 .. n /\ DOMAIN t = 1 .. Len(t) /\ Len(t) \in Nat
      /\ DOMAIN u = 1 .. n + Len(t)
      /\ \A i \in DOMAIN u :
           \/ i <= n /\ i \in DOMAIN s /\ u[i] = s[i]
           \/ i > n /\ i - n \in DOMAIN t /\ u[i] = t[i - n]
  BY ConcatElements
<1>2. s = <<>> => n = 0
  OBVIOUS
<1> HIDE DEF u, n
<1>3. ASSUME NEW i \in DOMAIN u
      PROVE  /\ u[i].at = "declarator" => i = 1 /\ u[i].saved.type = type
             /\ ~Restores(u[i])
             /\ Waiting(u[i]) => u[i].saved = type /\ \A j \in 1 .. i - 1 : ~Resetting(u[j])
  <2>1. CASE i <= n
    <3>1. i \in DOMAIN s /\ u[i] = s[i]
      BY <1>1, <2>1
    <3>2. ASSUME NEW j \in 1 .. i - 1 PROVE u[j] = s[j]
      <4>1. j \in DOMAIN u /\ j <= n
        BY <1>1, <2>1
      <4> QED
        BY <1>1, <4>1
    <3> QED
      BY <3>1, <3>2 DEF Settled
  <2>2. CASE i > n
    <3>1. i - n \in DOMAIN t /\ u[i] = t[i - n]
      BY <1>1, <2>2
    <3>2. u[i].at = "declarator" => i = 1 /\ u[i].saved.type = type
      <4>1. ASSUME u[i].at = "declarator" PROVE n = 0
        BY <1>2, <3>1, <4>1
      <4> QED
        BY <1>1, <3>1, <4>1 DEF Settled
    <3>3. ASSUME Waiting(u[i]), NEW j \in 1 .. i - 1 PROVE ~Resetting(u[j])
      <4>1. j \in DOMAIN u
        BY <1>1
      <4>2. CASE j <= n
        <5>1. j \in DOMAIN s /\ u[j] = s[j]
          BY <1>1, <4>1, <4>2
        <5> QED
          BY <3>1, <3>3, <5>1
      <4>3. CASE j > n
        <5>1. u[j] = t[j - n] /\ j - n \in 1 .. (i - n) - 1
          BY <1>1, <4>1, <4>3
        <5> QED
          BY <3>1, <3>3, <5>1 DEF Settled
      <4> QED
        BY <1>1, <4>1, <4>2, <4>3
    <3>4. ~Restores(u[i]) /\ (Waiting(u[i]) => u[i].saved = type)
      BY <3>1 DEF Settled
    <3> QED
      BY <3>2, <3>3, <3>4
  <2> QED
    BY <1>1, <2>1, <2>2
<1>4. Settled(type, u)
  BY <1>3 DEF Settled
<1> QED
  BY <1>4 DEF u

\* A step that puts such frames on the call stack.
LEMMA LaidStep ==
    ASSUME ScopeInv, NamesInv, NEW frames, Laid(frames), Visit(frames, 0) \/ Visit(frames, 1),
           Outside \/ \E place : At(place) /\ place \notin ExprPlace,
           UNCHANGED <<mailbox, result, status>>,
           IsSequence(cScopes'), TypedScopes(table'), curType'.data \in DeclaredType,
           Leakless /\ SameNames(table, cScopes) => SameNames(table', cScopes'),
           Agreeing /\ Agreed => Agreed' /\ \A i \in DOMAIN frames : SameCall(frames[i])
    PROVE  NamesInv'
<1>1. Visits(frames) /\ Sound(frames)
  BY DEF Laid, Visits, Sound
<1>2. Passes(frames, result.type)
  <2>1. frames # <<>> => 1 \in DOMAIN frames
    BY TailFacts, SequenceFacts DEF Laid
  <2>2. \A i \in DOMAIN frames : frames[i].at \notin Reads /\ KnownFrame(frames[i])
    BY ExprPlaces DEF Laid, KnownFrame
  <2>3. todo # <<>> => Head(todo).at \notin ExprPlace
    BY DEF Outside, At
  <2> QED
    BY <2>1, <2>2, <2>3 DEF Passes, Linked
<1> QED
  BY <1>1, <1>2, ScopeStep

LEMMA LaidTuples ==
    /\ Laid(<<>>)
    /\ \A a : GoodOther(a) => Laid(<<a>>)
    /\ \A a, b : GoodOther(a) /\ GoodOther(b) => Laid(<<a, b>>)
BY OtherTuples DEF OtherFrames, GoodOther, Laid

\* A declarator.
LEMMA DeclaratorFrame ==
    ASSUME NEW n \in Names \cup {NoName}, NEW role \in DeclaratorRole, NEW type,
           n = NoName => Nameless /\ role # "definition"
    PROVE  /\ SoundFrame(Declarator(n, role, type))
           /\ Declarator(n, role, type).at = "declarator"
           /\ Declarator(n, role, type).at \notin Reads
           /\ Declarator(n, role, type).saved.role = role
           /\ Declarator(n, role, type).saved.type = type
<1> DEFINE frame == Declarator(n, role, type)
<1>1. /\ frame.at = "declarator" /\ frame.arg = n
      /\ frame.saved.role = role /\ frame.saved.type = type
  BY DEF Declarator, Resume
<1> HIDE DEF frame
<1>2. frame.at \notin Reads /\ SoundFrame(frame)
  BY <1>1 DEF SoundFrame, SoundDeclarator, Reads, BinaryOperator, Calling
<1> QED
  BY <1>1, <1>2 DEF frame

\* With the same in table and cScopes, no name is one of a type.
LEMMA NoTypeNames ==
    ASSUME ScopeInv, TypeInv, SameScopes(table, cScopes), NEW n
    PROVE  ~IsTypeName(n)
<1>1. ASSUME InC(n) PROVE GetOrd(cScopes, n).kind # "typedef"
  <2>1. HasOrd(table, n) /\ SameEntity(GetOrd(table, n), GetOrd(cScopes, n))
    BY <1>1, SameResolved DEF ScopeInv, TypeInv, InC
  <2>2. TypedSymbol(GetOrd(table, n))
    BY <2>1, ResolvedSymbol
  <2> QED
    BY <2>1, <2>2 DEF SameEntity, TypedSymbol
<1> QED
  BY <1>1 DEF IsTypeName

LEMMA Specifications ==
    ASSUME ScopeInv, TypeInv, NEW spec \in Specification
    PROVE  /\ Specified(spec).data \in DeclaredType
           /\ Laid(SpecifierFrames(spec))
           /\ Agreeing /\ SameScopes(table, cScopes) =>
                /\ SpecifierFrames(spec) = <<>> /\ Meant(spec) = Specified(spec)
                /\ IsBasic(Specified(spec))
<1>1. /\ spec.list \in SpecifierLists \cup {<<>>}
      /\ \/ spec.form = "list" /\ spec.list \in SpecifierLists
         \/ spec.form = "typeName" /\ \E n \in Names : IsTypeName(n)
         \/ spec.form \in TagForms
  BY DEF Specification
<1>2. IsSequence(spec.list)
  BY <1>1, NoTuple, SpecifiersAssumption, ElementsOf
<1>3. Specified(spec).data \in DeclaredType /\ IsBasic(Specified(spec))
  <2>1. VoidType.data = "basic"
    BY DEF VoidType, Basic
  <2> QED
    BY <1>2, <2>1, Specifies DEF Specified, DeclaredType, ObjectType, IsBasic
<1>4. ASSUME NEW at \in {"member", "enumerators"}, at = "member" => Uses("struct"),
             at = "enumerators" => Uses("enum")
      PROVE  Laid(<<Frame(at)>>)
  <2> DEFINE frame == Frame(at)
  <2>1. frame.at = at
    BY ExprFrame
  <2> HIDE DEF frame
  <2>2. GoodOther(frame)
    BY <1>4, <2>1 DEF GoodOther, SoundFrame, Loud, Calling, Reads, BinaryOperator
  <2> QED
    BY <2>2, LaidTuples DEF frame
<1>5. /\ spec.form = "struct" => Uses("struct")
      /\ spec.form = "enum" => Uses("enum")
  BY <1>1 DEF TagForms
<1>6. Laid(SpecifierFrames(spec))
  BY <1>4, <1>5, LaidTuples DEF SpecifierFrames
<1>7. ASSUME Agreeing, SameScopes(table, cScopes)
      PROVE  SpecifierFrames(spec) = <<>> /\ Meant(spec) = Specified(spec)
  <2>1. TagForms = {}
    BY <1>7 DEF TagForms, Uses, Agreeing
  <2>2. spec.form = "list" /\ spec.list \in SpecifierLists
    BY <1>1, <1>7, <2>1, NoTypeNames
  <2> QED
    BY <1>7, <2>2 DEF SpecifierFrames, Meant, Specified, Agreeing
<1> QED
  BY <1>3, <1>6, <1>7

LEMMA SettledOnto ==
    ASSUME IsStack(todo), NEW frames, IsSequence(frames), Visit(frames, 0) \/ Visit(frames, 1),
           NEW old, Fits(old, todo), todo = <<>> \/ Resetting(Head(todo)),
           NEW type, Settled(type, frames)
    PROVE  Fits(type, todo')
<1>1. Onto(frames)
  BY DEF Visit, Onto
<1>2. Undeclared /\ NoneWaits
  BY FitsBelow
<1>3. Fits(type, frames)
  BY SettledFits
<1> QED
  BY <1>1, <1>2, <1>3, FitsOnto

\* Such frames keep the agreement where the head begins a declaration anew.
LEMMA SettledAgrees ==
    ASSUME IsStack(todo), NEW frames, IsSequence(frames), Visit(frames, 0) \/ Visit(frames, 1),
           Agreed, SameScopes(table', cScopes'),
           todo = <<>> \/ (Resetting(Head(todo)) /\ Head(todo).at \notin InParameter),
           Settled(curType', frames), \A i \in DOMAIN frames : frames[i].at # "parameterEnd"
    PROVE  Agreed'
<1>1. Onto(frames)
  BY DEF Visit, Onto
<1>2. Fits(curType, todo) /\ FitsParameter(cType, curType, todo)
  BY DEF Agreed
<1>3. Fits(curType', todo')
  BY <1>2, SettledOnto
<1>4. FitsParameter(cType', curType', todo')
  BY <1>1, <1>2, FitsNoParameter
<1> QED
  BY <1>3, <1>4 DEF Agreed

\* The type of the declaration at hand stays, and scopes are closed in both.
LEMMA ClosesBoth ==
    ASSUME ScopeInv, NamesInv, NEW place \in Resets, At(place), Visit(<<>>, 0),
           UNCHANGED <<curType, mailbox, result, cType, status>>,
           table' = PopScope(table), cScopes' = PopScope(cScopes)
    PROVE  NamesInv'
<1>1. IsSequence(table) /\ IsSequence(cScopes) /\ TypedScopes(table) /\ IsStack(todo)
  BY DEF NamesInv, TypeInv, ScopeInv
<1>2. IsSequence(cScopes') /\ TypedScopes(table')
  BY <1>1, ScopeLists, TypedKept
<1>3. SameNames(table, cScopes) => SameNames(table', cScopes')
  BY <1>1, SameNamesKept
<1>4. ASSUME Agreed PROVE Agreed'
  <2>1. todo # <<>> /\ Resetting(Head(todo)) /\ Head(todo).at \notin InParameter
    BY DEF At, Resetting, Resets, InParameter, Calling
  <2>2. Settled(curType', <<>>) /\ IsSequence(<<>>) /\ DOMAIN <<>> = {}
    BY NoTuple DEF Settled
  <2>3. SameScopes(table', cScopes')
    BY <1>1, <1>4, SameScopesKept DEF Agreed
  <2>4. Visit(<<>>, 0) /\ \A i \in DOMAIN <<>> : <<>>[i].at # "parameterEnd"
    BY <2>2
  <2> HIDE DEF Settled, Agreed, SameScopes, Visit
  <2> QED
    BY <1>1, <1>4, <2>1, <2>2, <2>3, <2>4, SettledAgrees
<1>5. DOMAIN <<>> = {} /\ place \notin ExprPlace /\ Laid(<<>>)
  BY NoTuple, ExprPlaces, LaidTuples
<1>6. curType'.data \in DeclaredType
  BY DEF NamesInv, TypeInv
<1> QED
  BY <1>2, <1>3, <1>4, <1>5, <1>6, LaidStep

LEMMA StatementFrames ==
    /\ \A at \in {"list", "stmt", "constant", "statements", "declarations", "initializer",
                  "moreInitializers", "compound"} : GoodOther(Frame(at))
    /\ \A kind \in DOMAIN StatementChildren : OtherFrames(StatementChildren[kind])
    /\ \A kind \in DOMAIN LoopChildren : OtherFrames(LoopChildren[kind])
<1>1. \A at \in {"list", "stmt", "constant", "statements", "declarations", "initializer",
                  "moreInitializers", "compound"} : GoodOther(Frame(at))
  <2>1. ASSUME NEW at \in {"list", "stmt", "constant", "statements", "declarations", "initializer",
                  "moreInitializers", "compound"}
        PROVE  GoodOther(Frame(at))
    <3>1. Frame(at).at = at
      BY ExprFrame
    <3>2. at \in Simple /\ at \notin Reads
      BY DEF Simple, Reads, BinaryOperator
    <3> QED
      BY <3>1, <3>2, SimpleFrames
  <2> QED
    BY <2>1
<1>2. /\ OtherFrames(<<>>) /\ OtherFrames(<<Frame("list")>>) /\ OtherFrames(<<Frame("stmt")>>)
      /\ OtherFrames(<<Frame("list"), Frame("stmt")>>)
      /\ OtherFrames(<<Frame("constant"), Frame("stmt")>>)
      /\ OtherFrames(<<Frame("list"), Frame("stmt"), Frame("stmt")>>)
      /\ OtherFrames(<<Frame("stmt"), Frame("list"), Frame("list")>>)
  BY <1>1, OtherTuples
<1>3. \A kind \in DOMAIN StatementChildren : OtherFrames(StatementChildren[kind])
  BY <1>2 DEF StatementChildren
<1>4. \A kind \in DOMAIN LoopChildren : OtherFrames(LoopChildren[kind])
  BY <1>2 DEF LoopChildren
<1> QED
  BY <1>1, <1>3, <1>4

LEMMA StatementNames ==
    ASSUME ScopeInv, NamesInv, NextInStatement
    PROVE  NamesInv'
<1>1. /\ IsSequence(table) /\ IsSequence(cScopes) /\ TypedScopes(table) /\ IsStack(todo)
      /\ TypeInv /\ curType.data \in DeclaredType
  BY DEF NamesInv, TypeInv, ScopeInv
<1>2. /\ IsSequence(PushScope(cScopes)) /\ TypedScopes(PushScope(table))
      /\ SameNames(table, cScopes) => SameNames(PushScope(table), PushScope(cScopes))
  BY <1>1, ScopeLists, TypedKept, SameNamesKept
<1>3. {"stmt", "statements", "compound", "functionDefinition"} \subseteq Resets \ ExprPlace
  BY DEF Resets, ExprPlace, BinaryOperator
<1>4. \A place \in Resets : At(place) => /\ todo # <<>> /\ Resetting(Head(todo))
                                         /\ ~Restores(Head(todo))
  BY DEF At, Resetting, Resets, Restores, Calling
<1>5. CASE \E n \in Names, spec \in Specification : FunctionDefinition(n, spec)
  <2>1. PICK n \in Names, spec \in Specification : FunctionDefinition(n, spec)
    BY <1>5
  <2> DEFINE a == Declarator(n, "definition", Meant(spec))
             d == Resume("functionDefinition", n, NoType)
             below == <<a, Frame("declarations"), Frame("statements"), d>>
             frames == SpecifierFrames(spec) \o below
  <2>2. /\ Outside /\ curType' = Specified(spec)
        /\ table' = PushScope(table) /\ cScopes' = PushScope(cScopes)
        /\ Visit(frames, 1) /\ UNCHANGED <<mailbox, result, cType, status>>
    BY <2>1 DEF FunctionDefinition
  <2>3. /\ Specified(spec).data \in DeclaredType /\ Laid(SpecifierFrames(spec))
        /\ Agreeing /\ SameScopes(table, cScopes) =>
                SpecifierFrames(spec) = <<>> /\ Meant(spec) = Specified(spec)
    BY <1>1, <2>1, Specifications
  <2>4. /\ SoundFrame(a) /\ a.at = "declarator" /\ a.at \notin Reads
        /\ a.saved.role = "definition" /\ a.saved.type = Meant(spec)
    <3>1. "definition" \in DeclaratorRole /\ n \in Names /\ n # NoName
      BY <2>1, NamesAssumption DEF DeclaratorRole
    <3>2. ASSUME NEW type
          PROVE  LET b == Declarator(n, "definition", type)
                 IN /\ SoundFrame(b) /\ b.at = "declarator" /\ b.at \notin Reads
                    /\ b.saved.role = "definition" /\ b.saved.type = type
      BY <3>1, DeclaratorFrame
    <3> QED
      BY <3>2
  <2>5. GoodOther(d) /\ d.at = "functionDefinition"
    <3>1. d.at = "functionDefinition" /\ "functionDefinition" \in Simple
          /\ "functionDefinition" \notin Reads
      BY ExprFrame DEF Simple, Reads, BinaryOperator
    <3> QED
      BY <3>1, SimpleFrames
  <2>6. /\ GoodOther(Frame("declarations")) /\ GoodOther(Frame("statements"))
        /\ Frame("declarations").at = "declarations" /\ Frame("statements").at = "statements"
    BY StatementFrames, ExprFrame
  <2> HIDE DEF a, d
  <2>7. /\ IsSequence(below) /\ DOMAIN below = {1, 2, 3, 4} /\ below[1] = a /\ below[4] = d
        /\ below[2] = Frame("declarations") /\ below[3] = Frame("statements")
    BY FourTuple
  <2> HIDE DEF below
  <2>8. Laid(below)
    BY <2>4, <2>5, <2>6, <2>7 DEF Laid, GoodOther
  <2>9. Laid(frames)
    BY <2>3, <2>8, LaidConcat
  <2>10. ASSUME Agreeing, Agreed
         PROVE  Agreed' /\ \A i \in DOMAIN frames : SameCall(frames[i])
    <3>1. frames = below /\ Meant(spec) = curType' /\ SameScopes(table', cScopes')
      BY <1>1, <2>2, <2>3, <2>7, <2>10, EmptyConcat, SameScopesKept DEF Agreed
    <3>2. Settled(curType', below)
      BY <2>4, <2>5, <2>6, <2>7, <3>1 DEF Settled, Waiting, Restores
    <3>3. todo = <<>> /\ Visit(below, 1)
      BY <2>2, <3>1 DEF Outside
    <3>4. \A i \in DOMAIN below : below[i].at \notin Calling
      BY <2>4, <2>5, <2>6, <2>7 DEF Calling
    <3>5. Agreed'
      BY <1>1, <2>7, <2>10, <3>1, <3>2, <3>3, <3>4, SettledAgrees DEF Calling
    <3> QED
      BY <3>1, <3>4, <3>5 DEF SameCall
  <2> HIDE DEF frames
  <2> QED
    BY <1>2, <2>2, <2>3, <2>9, <2>10, LaidStep
<1>6. CASE ImplicitInt
  <2>1. ~Safe
    BY <1>6 DEF ImplicitInt, Uses, Safe, Crashing
  <2> QED
    BY <1>6, <2>1, CrashesOutside DEF ImplicitInt
<1>7. CASE FunctionDefinitionEnd
  <2>1. \/ Reject
        \/ /\ At("functionDefinition") /\ Visit(<<>>, 0)
           /\ UNCHANGED <<curType, mailbox, result, cType, status>>
           /\ table' = PopScope(table) /\ cScopes' = PopScope(cScopes)
    BY <1>7 DEF FunctionDefinitionEnd, Continue
  <2> QED
    BY <1>3, <2>1, ClosesBoth, RejectsWell
<1>8. CASE CompoundStatement
  <2> DEFINE frames == <<Frame("declarations"), Frame("statements"), Frame("compound")>>
  <2>1. /\ At("stmt") /\ Visit(frames, 1) /\ UNCHANGED <<curType, mailbox, result, cType, status>>
        /\ table' = PushScope(table) /\ cScopes' = PushScope(cScopes)
    BY <1>8 DEF CompoundStatement
  <2>2. IsSequence(frames) /\ OtherFrames(frames)
    BY StatementFrames, OtherTuples DEF OtherFrames
  <2>3. /\ \A i \in DOMAIN frames : frames[i].at \in {"declarations", "statements", "compound"}
        /\ "stmt" \notin ExprPlace
    BY ThreeTuple, ExprFrame DEF ExprPlace, BinaryOperator
  <2> HIDE DEF frames
  <2>4. Laid(frames)
    BY <2>2 DEF OtherFrames, GoodOther, Laid
  <2>5. ASSUME Agreeing, Agreed
        PROVE  Agreed' /\ \A i \in DOMAIN frames : SameCall(frames[i])
    <3>1. Settled(curType, frames) /\ \A i \in DOMAIN frames : frames[i].at # "parameterEnd"
      BY <2>3 DEF Settled, Waiting, Restores
    <3>2. SameScopes(table', cScopes')
      BY <1>1, <2>1, <2>5, SameScopesKept DEF Agreed
    <3>3. todo # <<>> /\ Resetting(Head(todo)) /\ Head(todo).at \notin InParameter
      BY <1>3, <1>4, <2>1 DEF At, InParameter
    <3>4. Agreed'
      BY <1>1, <2>1, <2>2, <2>5, <3>1, <3>2, <3>3, SettledAgrees
    <3> QED
      BY <2>3, <3>4 DEF SameCall, Calling
  <2> QED
    BY <1>1, <1>2, <2>1, <2>3, <2>4, <2>5, LaidStep
<1>9. CASE CompoundStatementEnd
  BY <1>3, <1>9, ClosesBoth DEF CompoundStatementEnd, Continue
<1>10. CASE \E more \in BOOLEAN : Statements(more)
  <2>1. PICK more \in BOOLEAN : Statements(more)
    BY <1>10
  <2>2. OtherFrames(IF more THEN <<Frame("stmt"), Frame("statements")>> ELSE <<>>)
    BY StatementFrames, OtherTuples
  <2> QED
    BY <1>3, <2>1, <2>2, OtherGoesOn DEF Statements, Resets
<1>11. CASE \E kind \in DOMAIN StatementChildren : Statement(kind)
  <2>1. PICK kind \in DOMAIN StatementChildren : Statement(kind)
    BY <1>11
  <2>2. At("stmt") /\ Enter(StatementChildren[kind]) /\ OtherFrames(StatementChildren[kind])
    BY <2>1, StatementFrames DEF Statement
  <2> QED
    BY <1>3, <2>2, OtherGoesOn DEF Resets
<1>12. CASE \E kind \in DOMAIN LoopChildren : IterationStatement(kind)
  <2>1. PICK kind \in DOMAIN LoopChildren : IterationStatement(kind)
    BY <1>12
  <2>2. At("stmt") /\ Enter(LoopChildren[kind]) /\ OtherFrames(LoopChildren[kind])
    BY <2>1, StatementFrames DEF IterationStatement
  <2> QED
    BY <1>3, <2>2, OtherGoesOn DEF Resets
<1> QED
  BY <1>5, <1>6, <1>7, <1>8, <1>9, <1>10, <1>11, <1>12 DEF NextInStatement

LEMMA InitDeclarators ==
    ASSUME NEW n \in Names, NEW role \in Role, NEW type, NEW initialised
    PROVE  LET frames == InitDeclarator(n, role, type, initialised)
           IN /\ Laid(frames) /\ Settled(type, frames)
              /\ \A i \in DOMAIN frames : frames[i].at \notin Calling /\ ~Resetting(frames[i])
<1> DEFINE a == Declarator(n, role, type)
           b == Frame("initializer")
           c == Resume("initDeclarator", n, NoType)
           first == <<a>>
           rest == IF initialised THEN <<b, c>> ELSE <<>>
           frames == first \o rest
<1>1. role \in DeclaratorRole /\ role # "definition" /\ n # NoName
  BY NamesAssumption DEF Role, DeclaratorRole
<1>2. /\ SoundFrame(a) /\ a.at \notin Reads /\ a.at = "declarator"
      /\ a.saved.role = role /\ a.saved.type = type
  BY <1>1, DeclaratorFrame
<1>3. /\ GoodOther(b) /\ b.at = "initializer"
      /\ GoodOther(c) /\ c.at = "initDeclarator"
  <2>1. /\ b.at = "initializer" /\ c.at = "initDeclarator"
        /\ {"initializer", "initDeclarator"} \subseteq Simple \ Reads
    BY ExprFrame DEF Simple, Reads, BinaryOperator
  <2> QED
    BY <2>1, SimpleFrames
<1> HIDE DEF a, b, c
<1>4. IsSequence(first) /\ DOMAIN first = {1} /\ first[1] = a
  BY OneTuple
<1>5. /\ Laid(rest)
      /\ \A i \in DOMAIN rest : rest[i].at \in {"initializer", "initDeclarator"}
  <2>1. IsSequence(<<b, c>>) /\ DOMAIN <<b, c>> = {1, 2} /\ <<b, c>>[1] = b /\ <<b, c>>[2] = c
    BY TwoTuple
  <2>2. Laid(<<b, c>>)
    BY <1>3, LaidTuples
  <2>3. \A i \in DOMAIN <<b, c>> : <<b, c>>[i].at \in {"initializer", "initDeclarator"}
    BY <1>3, <2>1
  <2>4. DOMAIN <<>> = {} /\ Laid(<<>>)
    BY NoTuple, LaidTuples
  <2> QED
    BY <2>2, <2>3, <2>4
<1> HIDE DEF first, rest
<1>6. Laid(first) /\ Settled(type, first)
  BY <1>2, <1>4 DEF Laid, Settled, Restores, Waiting
<1>7. \A i \in DOMAIN first : first[i].at \notin Calling /\ ~Resetting(first[i])
  BY <1>1, <1>2, <1>4 DEF Calling, Resetting, Resets
<1>8. Settled(type, rest) /\ \A i \in DOMAIN rest : rest[i].at # "declarator"
  BY <1>5 DEF Settled, Restores, Waiting
<1>9. \A i \in DOMAIN rest : rest[i].at \notin Calling /\ ~Resetting(rest[i])
  BY <1>5 DEF Calling, Resetting, Resets
<1>10. Laid(frames) /\ Settled(type, frames)
  BY <1>4, <1>5, <1>6, <1>7, <1>8, LaidConcat, SettledConcat DEF Laid
<1>11. \A i \in DOMAIN frames : frames[i].at \notin Calling /\ ~Resetting(frames[i])
  <2>1. \A i \in DOMAIN frames : \/ i \in DOMAIN first /\ frames[i] = first[i]
                                 \/ i - Len(first) \in DOMAIN rest /\ frames[i] = rest[i - Len(first)]
    BY <1>5, <1>6, ConcatElements DEF Laid
  <2> HIDE DEF frames
  <2> QED
    BY <1>7, <1>9, <2>1
<1>12. frames = InitDeclarator(n, role, type, initialised)
  BY DEF InitDeclarator, a, b, c, first, rest
<1> HIDE DEF frames
<1> QED
  BY <1>10, <1>11, <1>12

\* The frames of a list of declarators, and those after it.
LEMMA DeclaratorLists ==
    ASSUME NEW s, NEW t, NEW type, Laid(s), Settled(type, s), Laid(t), Settled(type, t),
           \A i \in DOMAIN s : s[i].at \notin Calling, \A i \in DOMAIN t : t[i].at \notin Calling,
           s = <<>> \/ \A i \in DOMAIN t : t[i].at # "declarator",
           \/ \A i \in DOMAIN s : ~Resetting(s[i])
           \/ \A i \in DOMAIN t : ~Waiting(t[i])
    PROVE  /\ Laid(s \o t) /\ Settled(type, s \o t)
           /\ \A i \in DOMAIN (s \o t) : (s \o t)[i].at \notin Calling
<1>1. Laid(s \o t) /\ Settled(type, s \o t)
  BY LaidConcat, SettledConcat DEF Laid
<1>2. \A i \in DOMAIN (s \o t) : \/ i \in DOMAIN s /\ (s \o t)[i] = s[i]
                                 \/ i - Len(s) \in DOMAIN t /\ (s \o t)[i] = t[i - Len(s)]
  BY ConcatElements DEF Laid
<1> DEFINE u == s \o t
<1> HIDE DEF u
<1>3. \A i \in DOMAIN u : u[i].at \notin Calling
  BY <1>2 DEF u
<1> QED
  BY <1>1, <1>3 DEF u

LEMMA VisitDeclarationNames ==
    ASSUME ScopeInv, NamesInv, Outside \/ At("declarations"),
           NEW n \in Names, NEW role \in Role, NEW spec \in Specification,
           NEW after, Laid(after), \A i \in DOMAIN after : after[i].at = "declarations",
           VisitDeclaration(n, role, spec, after)
    PROVE  NamesInv'
<1> DEFINE type == Meant(spec)
           more == Resume("moreDeclarators", role, type)
           several == IF Uses("several") THEN <<more>> ELSE <<>>
<1>1. PICK initialised :
         /\ Visit(SpecifierFrames(spec) \o InitDeclarator(n, role, type, initialised)
                  \o several \o after, 1)
         /\ curType' = Specified(spec) /\ UNCHANGED <<table, mailbox, result, cScopes, cType, status>>
  BY DEF VisitDeclaration
<1>2. /\ IsStack(todo) /\ TypeInv /\ IsSequence(cScopes) /\ TypedScopes(table)
  BY DEF NamesInv, TypeInv, ScopeInv
<1>3. /\ Specified(spec).data \in DeclaredType /\ Laid(SpecifierFrames(spec))
      /\ Agreeing /\ SameScopes(table, cScopes) =>
           SpecifierFrames(spec) = <<>> /\ type = Specified(spec)
  BY <1>2, Specifications
<1> DEFINE first == InitDeclarator(n, role, type, initialised)
           second == first \o several
           frames == SpecifierFrames(spec) \o first \o several \o after
<1> HIDE DEF type
<1>4. /\ Laid(first) /\ Settled(type, first)
      /\ \A i \in DOMAIN first : first[i].at \notin Calling /\ ~Resetting(first[i])
  BY InitDeclarators
<1>5. /\ Laid(several) /\ Settled(type, several)
      /\ \A i \in DOMAIN several : several[i].at = "moreDeclarators"
  <2>1. more.at = "moreDeclarators" /\ more.arg = role /\ more.saved = type
    BY ExprFrame
  <2> HIDE DEF more
  <2>2. SoundFrame(more) /\ more.at \notin Reads
    BY <2>1 DEF SoundFrame, Reads, BinaryOperator, Calling
  <2>3. IsSequence(<<more>>) /\ DOMAIN <<more>> = {1} /\ <<more>>[1] = more
    BY OneTuple
  <2>4. Laid(<<more>>) /\ Settled(type, <<more>>)
    BY <2>1, <2>2, <2>3 DEF Laid, Settled, Restores
  <2>5. DOMAIN <<>> = {} /\ Laid(<<>>) /\ Settled(type, <<>>)
    BY NoTuple, LaidTuples DEF Settled
  <2> QED
    BY <2>1, <2>3, <2>4, <2>5
<1> HIDE DEF first, several
<1>6. Laid(second) /\ Settled(type, second) /\ \A i \in DOMAIN second : second[i].at \notin Calling
  BY <1>4, <1>5, DeclaratorLists DEF Calling
<1>7. Settled(type, after) /\ \A i \in DOMAIN after : after[i].at \notin Calling /\ ~Waiting(after[i])
                                                     /\ after[i].at # "declarator"
  BY DEF Settled, Restores, Waiting, Calling
<1>8. Laid(frames)
  BY <1>3, <1>4, <1>5, LaidConcat
<1>9. ASSUME Agreeing, Agreed
      PROVE  Agreed' /\ \A i \in DOMAIN frames : SameCall(frames[i])
  <2>1. SpecifierFrames(spec) = <<>> /\ type = curType' /\ SameScopes(table', cScopes')
    BY <1>1, <1>3, <1>9 DEF Agreed
  <2>2. frames = second \o after
    BY <1>4, <2>1, EmptyConcat DEF Laid
  <2>3. Settled(type, frames) /\ \A i \in DOMAIN frames : frames[i].at \notin Calling
    BY <1>6, <1>7, <2>2, DeclaratorLists
  <2>4. todo = <<>> \/ (Resetting(Head(todo)) /\ Head(todo).at \notin InParameter)
    BY DEF Outside, At, Resetting, Resets, InParameter
  <2>5. Visit(frames, 1)
    BY <1>1 DEF first, several
  <2> HIDE DEF frames
  <2>6. IsSequence(frames) /\ \A i \in DOMAIN frames : frames[i].at # "parameterEnd"
    BY <1>8, <2>3 DEF Laid, Calling
  <2>7. Settled(curType', frames)
    BY <2>1, <2>3
  <2>8. Agreed'
    BY <1>2, <1>9, <2>1, <2>4, <2>5, <2>6, <2>7, SettledAgrees
  <2> QED
    BY <2>3, <2>8 DEF SameCall
<1>10. Visit(frames, 1)
  BY <1>1 DEF first, several
<1>11. "declarations" \notin ExprPlace
  BY DEF ExprPlace, BinaryOperator
<1> HIDE DEF frames
<1> QED
  BY <1>1, <1>2, <1>3, <1>8, <1>9, <1>10, <1>11, LaidStep

\* A call whose parameters are visited goes on at another place.
LEMMA CallingFrame ==
    ASSUME NEW frame, SoundCalling(frame), NEW next, next.at \in Calling,
           next.arg = frame.arg, DOMAIN next.saved = CallField, next.saved.of = frame.saved.of,
           next.saved.role = frame.saved.role, next.saved.pointer = frame.saved.pointer
    PROVE  Laid(<<next>>) /\ ~Restores(next) /\ ~Waiting(next) /\ next.at # "declarator"
<1>1. SoundCalling(next)
  BY DEF SoundCalling
<1>2. SoundFrame(next) /\ next.at \notin Reads
  BY <1>1 DEF SoundFrame, Calling, Reads, BinaryOperator
<1>3. Laid(<<next>>)
  BY <1>2, OneTuple DEF Laid
<1> QED
  BY <1>3 DEF Restores, Waiting, Calling

\* No parameter waits below a head that is not part of its declarator.
LEMMA RestNoParameter ==
    ASSUME IsStack(todo), NEW old, NEW was, FitsParameter(old, was, todo),
           todo = <<>> \/ Head(todo).at \notin InParameter
    PROVE  \A i \in DOMAIN Rest : Rest[i].at # "parameterEnd"
<1>1. ASSUME NEW i \in DOMAIN Rest, Rest[i].at = "parameterEnd" PROVE FALSE
  <2>1. /\ i \in Nat \ {0} /\ i + 1 \in DOMAIN todo /\ todo[i + 1].at = "parameterEnd"
        /\ todo # <<>> /\ Head(todo) = todo[1]
    BY <1>1, RestFacts
  <2>2. 1 \in 1 .. (i + 1) - 1
    BY <2>1
  <2> QED
    BY <2>1, <2>2 DEF FitsParameter
<1> QED
  BY <1>1

LEMMA AppendFacts ==
    ASSUME NEW s, IsSequence(s), NEW e
    PROVE  /\ IsSequence(Append(s, e)) /\ Len(Append(s, e)) = Len(s) + 1
           /\ \A i \in 1 .. Len(s) + 1 : Append(s, e)[i] = IF i <= Len(s) THEN s[i] ELSE e
<1> DEFINE S == {s[i] : i \in DOMAIN s}
           T == S \cup {e}
<1>1. s \in Seq(S)
  BY DEF IsSequence
<1> HIDE DEF S
<1>2. s \in Seq(T) /\ e \in T
  BY <1>1, SeqMonotonic
<1> HIDE DEF T
<1>3. /\ Append(s, e) \in Seq(T) /\ Len(Append(s, e)) = Len(s) + 1
      /\ \A i \in 1 .. Len(s) : Append(s, e)[i] = s[i]
      /\ Append(s, e)[Len(s) + 1] = e
  BY <1>2, AppendProperties
<1>4. Len(s) \in Nat
  BY SequenceFacts
<1>5. ASSUME NEW i \in 1 .. Len(s) + 1
      PROVE  Append(s, e)[i] = IF i <= Len(s) THEN s[i] ELSE e
  <2>1. i \in 1 .. Len(s) \/ (i = Len(s) + 1 /\ ~(i <= Len(s)))
    BY <1>4
  <2> QED
    BY <1>3, <1>4, <2>1
<1>6. IsSequence(Append(s, e))
  BY <1>3, ElementsOf
<1> QED
  BY <1>3, <1>5, <1>6

\* The types of one more parameter.
LEMMA ParametersGrow ==
    ASSUME NEW types, NEW meant, IsSequence(types), IsSequence(meant), ParameterTypes(types, meant),
           NEW t, NEW m, ParameterFor(t, m)
    PROVE  ParameterTypes(Append(types, t), Append(meant, m))
<1> DEFINE k == Len(types)
<1>1. /\ k \in Nat /\ Len(meant) = k /\ DOMAIN meant = 1 .. k
      /\ \A i \in DOMAIN meant : ParameterFor(types[i], meant[i])
  BY SequenceFacts DEF ParameterTypes
<1>2. /\ IsSequence(Append(meant, m)) /\ Len(Append(meant, m)) = k + 1
      /\ Len(Append(types, t)) = k + 1
      /\ \A i \in 1 .. k + 1 :
           /\ Append(meant, m)[i] = IF i <= k THEN meant[i] ELSE m
           /\ Append(types, t)[i] = IF i <= k THEN types[i] ELSE t
  BY <1>1, AppendFacts
<1>3. DOMAIN Append(meant, m) = 1 .. k + 1
  BY <1>2, SequenceFacts
<1> HIDE DEF k
<1>4. \A i \in 1 .. k + 1 : i <= k => i \in 1 .. k
  BY <1>1
<1> QED
  BY <1>1, <1>2, <1>3, <1>4 DEF ParameterTypes

LEMMA ParameterNames ==
    ASSUME ScopeInv, NamesInv, NEW n \in Names \cup {NoName}, NEW spec \in Specification,
           ParameterDeclaration(n, spec)
    PROVE  NamesInv'
<1> DEFINE type == Meant(spec)
           next == [Head(todo) EXCEPT !.at = "parameterEnd"]
           a == Declarator(n, "parameter", type)
           frames == SpecifierFrames(spec) \o <<a, next>>
<1>1. /\ At("parameter") /\ curType' = Specified(spec) /\ Visit(frames, 1)
      /\ UNCHANGED <<table, mailbox, result, cScopes, cType, status>>
      /\ n = NoName => Uses("abstract")
  BY DEF ParameterDeclaration
<1>2. /\ IsStack(todo) /\ TypeInv /\ IsSequence(cScopes) /\ TypedScopes(table)
  BY DEF NamesInv, TypeInv, ScopeInv
<1>3. /\ Specified(spec).data \in DeclaredType /\ Laid(SpecifierFrames(spec))
      /\ Agreeing /\ SameScopes(table, cScopes) =>
           /\ SpecifierFrames(spec) = <<>> /\ type = Specified(spec)
           /\ IsBasic(Specified(spec))
  BY <1>2, Specifications
<1>4. /\ SoundCalling(Head(todo)) /\ IsFrame(Head(todo)) /\ todo # <<>>
      /\ Head(todo).at = "parameter" /\ Head(todo) = todo[1] /\ 1 \in DOMAIN todo
  BY <1>1, <1>2, HeadFacts, RestFacts DEF SoundFrame, Calling
<1>5. next.at = "parameterEnd" /\ next.arg = Head(todo).arg /\ next.saved = Head(todo).saved
  BY <1>4 DEF IsFrame
<1> HIDE DEF type, next
<1>6. Laid(<<next>>) /\ ~Restores(next) /\ ~Waiting(next) /\ next.at # "declarator"
  BY <1>4, <1>5, CallingFrame DEF Calling, SoundCalling
<1>7. /\ SoundFrame(a) /\ a.at \notin Reads /\ a.at = "declarator" /\ a.saved.type = type
      /\ a.saved.role = "parameter"
  <2>1. "parameter" \in DeclaratorRole /\ (n = NoName => Nameless)
    BY <1>1 DEF DeclaratorRole, Nameless
  <2> QED
    BY <2>1, DeclaratorFrame
<1> DEFINE below == <<a, next>>
<1> HIDE DEF a
<1>8. IsSequence(below) /\ DOMAIN below = {1, 2} /\ below[1] = a /\ below[2] = next
  BY TwoTuple
<1>9. Laid(below) /\ Settled(type, below)
  <2>1. SoundFrame(next) /\ next.at \notin Reads
    BY <1>6, OneTuple DEF Laid
  <2> HIDE DEF below
  <2> QED
    BY <1>6, <1>7, <1>8, <2>1 DEF Laid, Settled, Restores, Waiting
<1>10. Laid(frames)
  BY <1>3, <1>9, LaidConcat
<1>11. ASSUME Agreeing, Agreed
       PROVE  Agreed' /\ \A i \in DOMAIN frames : SameCall(frames[i])
  <2>1. /\ frames = below /\ type = curType' /\ IsBasic(curType')
        /\ SameScopes(table', cScopes') /\ Fits(curType, todo)
        /\ FitsParameter(cType, curType, todo)
    BY <1>1, <1>3, <1>8, <1>11, EmptyConcat DEF Agreed
  <2>2. SameCall(next)
    <3>1. SameCall(Head(todo))
      BY <1>4, <1>11 DEF NamesInv, AgreeInv
    <3> QED
      BY <1>4, <1>5, <3>1 DEF SameCall, Calling
  <2>3. \A i \in DOMAIN below : SameCall(below[i])
    BY <1>7, <1>8, <2>2 DEF SameCall, Calling
  <2>4. Resetting(Head(todo)) /\ Head(todo).at \notin InParameter
    BY <1>4 DEF Resetting, Resets, Calling, InParameter
  <2>5. Visit(below, 1)
    BY <1>1, <2>1 DEF a, type
  <2>6. Len(below) = 2
    BY DEF below
  <2> HIDE DEF below
  <2>7. Fits(curType', todo')
    BY <1>2, <1>8, <1>9, <1>11, <2>1, <2>4, <2>5, SettledOnto
  <2>8. FitsParameter(cType', curType', todo')
    <3>1. Onto(below)
      BY <1>8, <2>5 DEF Onto, Visit
    <3>2. \A i \in DOMAIN Rest : Rest[i].at # "parameterEnd"
      BY <1>2, <2>1, <2>4, RestNoParameter
    <3>3. /\ DOMAIN todo' = 1 .. 2 + Len(Rest) /\ Len(Rest) \in Nat
          /\ \A i \in DOMAIN todo' : \/ i <= 2 /\ todo'[i] = below[i]
                                     \/ i > 2 /\ i - 2 \in DOMAIN Rest /\ todo'[i] = todo[i - 2 + 1]
      BY <1>2, <2>6, <3>1, FramesOf, RestFacts
    <3>4. \A i \in DOMAIN todo' : i > 2 => todo'[i].at # "parameterEnd"
      BY <1>2, <3>2, <3>3, RestFacts
    <3>5. todo'[1] = a /\ todo'[2] = next /\ \A i \in DOMAIN todo' : i = 1 \/ i = 2 \/ i > 2
      BY <1>8, <3>3
    <3>6. \A j \in 1 .. 2 - 1 : j = 1
      OBVIOUS
    <3> QED
      BY <1>5, <1>7, <2>1, <3>4, <3>5, <3>6 DEF FitsParameter, InParameter, Restores
  <2> QED
    BY <2>1, <2>3, <2>7, <2>8 DEF Agreed
<1>12. Visit(frames, 1) /\ "parameter" \notin ExprPlace
  BY <1>1 DEF a, type, ExprPlace, BinaryOperator
<1> HIDE DEF frames
<1> QED
  BY <1>1, <1>2, <1>3, <1>10, <1>11, <1>12, LaidStep

LEMMA ParameterEndNames ==
    ASSUME ScopeInv, NamesInv, NEW more \in BOOLEAN, ParameterDeclarationEnd(more)
    PROVE  NamesInv'
<1> DEFINE next == [Head(todo) EXCEPT
                       !.at = IF more THEN "parameter" ELSE "functionDeclarator",
                       !.saved.params = Append(@, curType),
                       !.saved.meantParams = IF cType = NoType THEN @ ELSE Append(@, cType)]
<1>1. At("parameterEnd") /\ Proceed(<<next>>)
  BY DEF ParameterDeclarationEnd
<1>2. /\ IsStack(todo) /\ IsSequence(cScopes) /\ TypedScopes(table) /\ curType.data \in DeclaredType
  BY DEF NamesInv, TypeInv, ScopeInv
<1>3. /\ SoundCalling(Head(todo)) /\ IsFrame(Head(todo)) /\ todo # <<>>
      /\ Head(todo).at = "parameterEnd" /\ Head(todo) = todo[1] /\ 1 \in DOMAIN todo
  BY <1>1, <1>2, HeadFacts, RestFacts DEF SoundFrame, Calling
<1>4. /\ next.at \in Calling /\ next.arg = Head(todo).arg
      /\ DOMAIN next.saved = CallField /\ next.saved.of = Head(todo).saved.of
      /\ next.saved.role = Head(todo).saved.role /\ next.saved.pointer = Head(todo).saved.pointer
      /\ next.saved.meant = Head(todo).saved.meant
      /\ next.saved.params = Append(Head(todo).saved.params, curType)
      /\ next.saved.meantParams = IF cType = NoType THEN Head(todo).saved.meantParams
                                 ELSE Append(Head(todo).saved.meantParams, cType)
  BY <1>3 DEF IsFrame, SoundCalling, CallField, Calling
<1> HIDE DEF next
<1>5. Laid(<<next>>) /\ ~Restores(next) /\ ~Waiting(next) /\ next.at # "declarator"
  BY <1>3, <1>4, CallingFrame
<1> DEFINE frames == <<next>>
<1>6. IsSequence(frames) /\ DOMAIN frames = {1} /\ frames[1] = next /\ Laid(frames)
  BY <1>5, OneTuple
<1>7. /\ Visit(frames, 0) /\ UNCHANGED <<table, curType, mailbox, result, cScopes, cType, status>>
  BY <1>1 DEF Proceed, Continue, state
<1> HIDE DEF frames
<1>8. ASSUME Agreeing, Agreed
      PROVE  Agreed' /\ \A i \in DOMAIN frames : SameCall(frames[i])
  <2> DEFINE call == Head(todo).saved
  <2>1. /\ call.of = call.meant /\ IsSequence(call.params) /\ IsSequence(call.meantParams)
        /\ ParameterTypes(call.params, call.meantParams)
    <3>1. SameCall(Head(todo))
      BY <1>3, <1>8 DEF NamesInv, AgreeInv
    <3> QED
      BY <1>3, <3>1 DEF SameCall, Calling
  <2>2. Resetting(Head(todo)) /\ Head(todo).at \notin InParameter
    BY <1>3 DEF Resetting, Resets, Calling, InParameter
  <2>3. IsBasic(curType) /\ ParameterFor(curType, cType)
    BY <1>3, <1>8 DEF Agreed, FitsParameter
  <2>4. cType # NoType
    BY <2>3 DEF NoType, IsBasic, ParameterFor
  <2> HIDE DEF call
  <2>5. SameCall(next)
    <3>1. /\ next.saved.params = Append(call.params, curType)
          /\ next.saved.meantParams = Append(call.meantParams, cType)
          /\ next.saved.of = next.saved.meant
      BY <1>4, <2>1, <2>4 DEF call
    <3>2. ParameterTypes(Append(call.params, curType), Append(call.meantParams, cType))
      BY <2>1, <2>3, ParametersGrow
    <3>3. /\ IsSequence(Append(call.params, curType))
          /\ IsSequence(Append(call.meantParams, cType))
      BY <2>1, AppendFacts
    <3> QED
      BY <3>1, <3>2, <3>3 DEF SameCall
  <2>6. Settled(curType, frames) /\ \A i \in DOMAIN frames : frames[i].at # "parameterEnd"
    <3>1. next.at # "parameterEnd"
      BY <1>1 DEF next
    <3> QED
      BY <1>5, <1>6, <3>1 DEF Settled
  <2>7. Agreed'
    <3>1. SameScopes(table', cScopes') /\ curType' = curType
      BY <1>7, <1>8 DEF Agreed
    <3> QED
      BY <1>2, <1>6, <1>7, <1>8, <2>2, <2>6, <3>1, SettledAgrees
  <2> QED
    BY <1>6, <2>5, <2>7
<1>9. "parameterEnd" \notin ExprPlace
  BY DEF ExprPlace, BinaryOperator
<1> QED
  BY <1>1, <1>2, <1>6, <1>7, <1>8, <1>9, LaidStep

LEMMA NextDeclaratorNames ==
    ASSUME ScopeInv, NamesInv, NEW n \in Names, NextDeclarator(n)
    PROVE  NamesInv'
<1> DEFINE frame == Head(todo)
<1>1. PICK initialised : /\ At("moreDeclarators")
                         /\ Enter(InitDeclarator(n, frame.arg, frame.saved, initialised) \o <<frame>>)
  BY DEF NextDeclarator
<1>2. /\ IsStack(todo) /\ IsSequence(cScopes) /\ TypedScopes(table) /\ curType.data \in DeclaredType
  BY DEF NamesInv, TypeInv, ScopeInv
<1>3. /\ SoundFrame(frame) /\ todo # <<>> /\ frame.at = "moreDeclarators"
      /\ frame = todo[1] /\ 1 \in DOMAIN todo
  BY <1>1, <1>2, HeadFacts, RestFacts
<1> DEFINE first == InitDeclarator(n, frame.arg, frame.saved, initialised)
           frames == first \o <<frame>>
<1>4. frame.arg \in Role
  BY <1>3 DEF SoundFrame
<1> HIDE DEF frame
<1>5. /\ Laid(first) /\ Settled(frame.saved, first)
      /\ \A i \in DOMAIN first : first[i].at \notin Calling /\ ~Resetting(first[i])
  BY <1>4, InitDeclarators
<1>6. IsSequence(<<frame>>) /\ DOMAIN <<frame>> = {1} /\ <<frame>>[1] = frame
  BY OneTuple
<1>7. Laid(<<frame>>) /\ Settled(frame.saved, <<frame>>) /\ frame.at \notin Calling
  BY <1>3, <1>6 DEF Laid, Settled, Restores, Reads, BinaryOperator, Calling
<1>8. /\ Visit(frames, 1) /\ UNCHANGED <<table, curType, mailbox, result, cScopes, cType, status>>
  BY <1>1 DEF Enter, state, frame
<1> HIDE DEF first
<1>9. Laid(frames) /\ Settled(frame.saved, frames)
      /\ \A i \in DOMAIN frames : frames[i].at \notin Calling
  BY <1>3, <1>5, <1>6, <1>7, DeclaratorLists
<1> HIDE DEF frames
<1>10. ASSUME Agreeing, Agreed PROVE Agreed' /\ \A i \in DOMAIN frames : SameCall(frames[i])
  <2>1. frame.saved = curType
    <3>1. Waiting(todo[1])
      BY <1>3 DEF Waiting
    <3>2. \A j \in 1 .. 1 - 1 : FALSE
      OBVIOUS
    <3> QED
      BY <1>3, <1>10, <3>1, <3>2 DEF Agreed, Fits
  <2>2. Resetting(Head(todo)) /\ Head(todo).at \notin InParameter
    BY <1>3 DEF Resetting, Resets, InParameter, frame
  <2>3. SameScopes(table', cScopes') /\ IsSequence(frames) /\ Settled(curType', frames)
    BY <1>8, <1>9, <1>10, <2>1 DEF Agreed, Laid
  <2>4. \A i \in DOMAIN frames : frames[i].at # "parameterEnd"
    BY <1>9 DEF Calling
  <2>5. Agreed'
    BY <1>2, <1>8, <1>10, <2>2, <2>3, <2>4, SettledAgrees
  <2> QED
    BY <1>9, <2>5 DEF SameCall
<1>11. "moreDeclarators" \notin ExprPlace
  BY DEF ExprPlace, BinaryOperator
<1> QED
  BY <1>1, <1>2, <1>8, <1>9, <1>10, <1>11, LaidStep

\* A declarator that only programs outside of Agreeing have.
LEMMA ForeignDeclarators ==
    ASSUME ScopeInv, NamesInv, ~Agreeing, NEW frames, Laid(frames),
           Visit(frames, 0) \/ Visit(frames, 1), NEW place, At(place), place \notin ExprPlace,
           UNCHANGED <<table, mailbox, result, cScopes, cType, status>>, curType'.data \in DeclaredType
    PROVE  NamesInv'
<1>1. /\ IsSequence(cScopes) /\ TypedScopes(table)
  BY DEF NamesInv, TypeInv
<1> QED
  BY <1>1, LaidStep

LEMMA DeclarationNames ==
    ASSUME ScopeInv, NamesInv, NextInDeclaration
    PROVE  NamesInv'
<1>1. TypeInv /\ curType.data \in DeclaredType
  BY DEF NamesInv, TypeInv
<1>2. {"declarations", "moreDeclarators"} \subseteq Resets
  BY DEF Resets
<1>3. {"declarations", "moreDeclarators", "member", "moreMembers", "typeName", "enumerators",
       "initializer", "moreInitializers", "initDeclarator"} \cap ExprPlace = {}
  BY DEF ExprPlace, BinaryOperator
<1>4. DOMAIN <<>> = {} /\ Laid(<<>>) /\ OtherFrames(<<>>)
  BY NoTuple, LaidTuples, OtherTuples
<1>5. \A list \in SpecifierLists : \A type : type.data \in DeclaredType =>
         Specify(list, type).data \in DeclaredType
  <2>1. \A list \in SpecifierLists : IsSequence(list)
    BY SpecifiersAssumption, ElementsOf
  <2> QED
    BY <2>1, Specifies DEF DeclaredType, ObjectType
<1>6. CASE \E n \in Names, role \in Role, spec \in Specification : FileDeclaration(n, role, spec)
  BY <1>4, <1>6, VisitDeclarationNames DEF FileDeclaration
<1>7. CASE \E n \in Names, role \in Role, spec \in Specification : BlockDeclaration(n, role, spec)
  <2>1. PICK n \in Names, role \in Role, spec \in Specification :
          At("declarations") /\ VisitDeclaration(n, role, spec, <<Frame("declarations")>>)
    BY <1>7 DEF BlockDeclaration
  <2> DEFINE after == <<Frame("declarations")>>
  <2>2. Laid(after) /\ \A i \in DOMAIN after : after[i].at = "declarations"
    BY StatementFrames, LaidTuples, OneTuple, ExprFrame
  <2> HIDE DEF after
  <2>3. VisitDeclaration(n, role, spec, after)
    BY <2>1 DEF after
  <2> QED
    BY <2>1, <2>2, <2>3, VisitDeclarationNames
<1>8. CASE \E n \in Names \cup {NoName}, spec \in Specification : ParameterDeclaration(n, spec)
  BY <1>8, ParameterNames
<1>9. CASE \E n \in Names, list \in SpecifierLists, bits \in {FALSE, Uses("bitfield")} :
             Member(n, list, bits)
  <2>1. PICK n \in Names, list \in SpecifierLists, bits \in {FALSE, Uses("bitfield")} :
             Member(n, list, bits)
    BY <1>9
  <2> DEFINE type == CType(list)
             a == <<Declarator(n, "member", type)>>
             b == IF bits THEN <<Frame("constant")>> ELSE <<>>
             c == <<Frame("moreMembers")>>
             frames == a \o b \o c
  <2>2. /\ At("member") /\ curType' = Specify(list, curType) /\ Visit(frames, 1)
        /\ UNCHANGED <<table, mailbox, result, cScopes, cType, status>>
    BY <2>1 DEF Member
  <2>3. Uses("struct")
    BY <2>2, HeadFacts DEF SoundFrame
  <2>4. ~Agreeing
    BY <2>3 DEF Agreeing, Uses
  <2> HIDE DEF type
  <2>5. Laid(a)
    <3>1. "member" \in DeclaratorRole /\ n # NoName /\ n \in Names \cup {NoName}
      BY <2>1, <2>3, NamesAssumption DEF DeclaratorRole
    <3>2. LET frame == Declarator(n, "member", type)
          IN SoundFrame(frame) /\ frame.at \notin Reads
      BY <3>1, DeclaratorFrame
    <3> QED
      BY <3>2, OneTuple DEF Laid
  <2>6. Laid(b)
    BY StatementFrames, LaidTuples
  <2>7. Laid(c)
    <3> DEFINE frame == Frame("moreMembers")
    <3>1. frame.at = "moreMembers"
      BY ExprFrame
    <3> HIDE DEF frame
    <3>2. GoodOther(frame)
      BY <2>3, <3>1 DEF GoodOther, SoundFrame, Loud, Calling, Reads, BinaryOperator
    <3> QED
      BY <3>2, LaidTuples DEF frame
  <2> HIDE DEF a, b, c
  <2>8. Laid(frames)
    BY <2>5, <2>6, <2>7, LaidConcat
  <2> HIDE DEF frames
  <2> QED
    BY <1>1, <1>3, <1>5, <2>1, <2>2, <2>4, <2>8, ForeignDeclarators
<1>10. CASE \E n \in Names : NextDeclarator(n)
  BY <1>10, NextDeclaratorNames
<1>11. CASE \E list \in SpecifierLists : TypeName(list)
  <2>1. PICK list \in SpecifierLists : TypeName(list)
    BY <1>11
  <2> DEFINE type == CType(list)
             a == Declarator(NoName, "typeName", type)
  <2>2. /\ At("typeName") /\ curType' = Specify(list, curType) /\ Visit(<<a>>, 0)
        /\ UNCHANGED <<table, mailbox, result, cScopes, cType, status>>
    BY <2>1 DEF TypeName, Continue
  <2>3. Uses("cast") \/ Uses("sizeofType")
    BY <2>2, HeadFacts DEF SoundFrame
  <2>4. ~Agreeing /\ Nameless
    BY <2>3 DEF Agreeing, Uses, Nameless
  <2> HIDE DEF type
  <2>5. SoundFrame(a) /\ a.at \notin Reads
    <3>1. "typeName" \in DeclaratorRole /\ NoName \in Names \cup {NoName}
      BY DEF DeclaratorRole
    <3> QED
      BY <2>4, <3>1, DeclaratorFrame
  <2> HIDE DEF a
  <2>6. Laid(<<a>>)
    BY <2>5, OneTuple DEF Laid
  <2> QED
    BY <1>1, <1>3, <1>5, <2>1, <2>2, <2>4, <2>6, ForeignDeclarators
<1>12. CASE \E more \in BOOLEAN : MoreMembers(more)
  <2>1. PICK more \in BOOLEAN : MoreMembers(more)
    BY <1>12
  <2> DEFINE frame == Frame("member")
             frames == IF more THEN <<frame>> ELSE <<>>
  <2>2. At("moreMembers") /\ Proceed(frames)
    BY <2>1 DEF MoreMembers
  <2>3. Uses("struct")
    BY <2>2, HeadFacts DEF SoundFrame
  <2>4. frame.at = "member"
    BY ExprFrame
  <2> HIDE DEF frame
  <2>5. GoodOther(frame)
    BY <2>3, <2>4 DEF GoodOther, SoundFrame, Loud, Calling, Reads, BinaryOperator
  <2>6. OtherFrames(frames) /\ \A i \in DOMAIN frames : frames[i].at \notin Resets
    <3>1. OtherFrames(<<frame>>) /\ DOMAIN <<frame>> = {1} /\ <<frame>>[1] = frame
      BY <2>5, OtherTuples, OneTuple
    <3> QED
      BY <1>4, <2>4, <3>1 DEF Resets, Calling
  <2> HIDE DEF frames
  <2> QED
    BY <1>3, <2>2, <2>6, OtherGoesOn
<1>13. CASE \E more \in BOOLEAN : MoreInitializers(more)
  <2>1. PICK more \in BOOLEAN : MoreInitializers(more)
    BY <1>13
  <2> DEFINE frames == IF more THEN <<Frame("initializer"), Frame("moreInitializers")>> ELSE <<>>
  <2>2. At("moreInitializers") /\ Proceed(frames)
    BY <2>1 DEF MoreInitializers
  <2>3. OtherFrames(frames) /\ \A i \in DOMAIN frames : frames[i].at \notin Resets
    <3> DEFINE both == <<Frame("initializer"), Frame("moreInitializers")>>
    <3>1. /\ OtherFrames(both) /\ DOMAIN both = {1, 2} /\ both[1] = Frame("initializer")
          /\ both[2] = Frame("moreInitializers")
      BY StatementFrames, OtherTuples, TwoTuple
    <3>2. \A i \in DOMAIN both : both[i].at \notin Resets
      BY <3>1, ExprFrame DEF Resets, Calling
    <3> HIDE DEF both
    <3>3. frames = both \/ frames = <<>>
      BY DEF both
    <3> HIDE DEF frames
    <3> QED
      BY <1>4, <3>1, <3>2, <3>3
  <2> HIDE DEF frames
  <2> QED
    BY <1>3, <2>2, <2>3, OtherGoesOn
<1>14. CASE \E more \in BOOLEAN : ParameterDeclarationEnd(more)
  BY <1>14, ParameterEndNames
<1>15. CASE \E valued \in BOOLEAN : Enumerators(valued)
  <2>1. PICK valued \in BOOLEAN : Enumerators(valued)
    BY <1>15
  <2> DEFINE frames == IF valued THEN <<Frame("constant")>> ELSE <<>>
  <2>2. At("enumerators") /\ Proceed(frames)
    BY <2>1 DEF Enumerators
  <2>3. OtherFrames(frames) /\ \A i \in DOMAIN frames : frames[i].at \notin Resets
    <3>1. OtherFrames(<<Frame("constant")>>) /\ DOMAIN <<Frame("constant")>> = {1}
          /\ <<Frame("constant")>>[1].at = "constant"
      BY StatementFrames, OtherTuples, OneTuple, ExprFrame
    <3> QED
      BY <1>4, <3>1 DEF Resets, Calling
  <2> HIDE DEF frames
  <2> QED
    BY <1>3, <2>2, <2>3, OtherGoesOn
<1>16. CASE NoDeclarators
  <2>1. ~Safe
    BY <1>16 DEF NoDeclarators, Uses, Safe, Crashing
  <2> QED
    BY <1>16, <2>1, CrashesOutside DEF NoDeclarators
<1>17. CASE EndDeclarations \/ EndDeclarators
  BY <1>2, <1>3, <1>4, <1>17, OtherGoesOn DEF EndDeclarations, EndDeclarators
<1>18. CASE Initializer
  <2>1. At("initializer")
    BY <1>18 DEF Initializer
  <2>2. CASE Proceed(<<Expr("assignment")>>)
    <3>1. OtherFrames(<<Expr("assignment")>>)
      BY ExprFrame, OtherTuples
    <3>2. \A i \in DOMAIN <<Expr("assignment")>> : <<Expr("assignment")>>[i].at \notin Resets
      BY ExprFrame, OneTuple DEF Resets, Calling
    <3> QED
      BY <1>3, <2>1, <2>2, <3>1, <3>2, OtherGoesOn
  <2>3. CASE Enter(<<Frame("initializer"), Frame("moreInitializers")>>)
    <3> DEFINE both == <<Frame("initializer"), Frame("moreInitializers")>>
    <3>1. /\ OtherFrames(both) /\ DOMAIN both = {1, 2} /\ both[1] = Frame("initializer")
          /\ both[2] = Frame("moreInitializers") /\ Enter(both)
      BY <2>3, StatementFrames, OtherTuples, TwoTuple
    <3>2. \A i \in DOMAIN both : both[i].at \notin Resets
      BY <3>1, ExprFrame DEF Resets, Calling
    <3> HIDE DEF both
    <3> QED
      BY <1>3, <2>1, <3>1, <3>2, OtherGoesOn
  <2> QED
    BY <1>18, <2>2, <2>3 DEF Initializer
<1>19. CASE InitDeclaratorEnd
  <2>1. At("initDeclarator") /\ (Proceed(<<>>) \/ Reject)
    BY <1>19 DEF InitDeclaratorEnd
  <2> QED
    BY <1>3, <1>4, <2>1, OtherGoesOn, RejectsWell
<1> QED
  BY <1>6, <1>7, <1>8, <1>9, <1>10, <1>11, <1>12, <1>13, <1>14, <1>15, <1>16, <1>17, <1>18, <1>19
  DEF NextInDeclaration

-----------------------------------------------------------------------------
(* Declarators *)

\* The declarator at hand.
LEMMA AtDeclarator ==
    ASSUME ScopeInv, NamesInv, At("declarator")
    PROVE  /\ todo # <<>> /\ Head(todo).at = "declarator" /\ SoundDeclarator(Head(todo))
           /\ IsStack(todo) /\ ~Restores(Head(todo)) /\ "declarator" \notin ExprPlace
           /\ Resetting(Head(todo)) <=> Head(todo).saved.role = "definition"
           /\ IsSequence(table) /\ IsSequence(cScopes) /\ TypedScopes(table)
           /\ curType.data \in DeclaredType
           /\ Fits(curType, todo) => Inside = curType
<1>1. /\ todo # <<>> /\ Head(todo).at = "declarator" /\ SoundDeclarator(Head(todo))
  BY HeadFacts DEF SoundFrame
<1>2. /\ IsStack(todo) /\ IsSequence(table) /\ IsSequence(cScopes) /\ TypedScopes(table)
      /\ curType.data \in DeclaredType
  BY DEF ScopeInv, NamesInv, TypeInv
<1>3. Fits(curType, todo) => Inside = curType
  <2>1. Head(todo) = todo[1] /\ 1 \in DOMAIN todo
    BY <1>1, <1>2, RestFacts
  <2> QED
    BY <1>1, <2>1 DEF Fits, Inside
<1>4. ~Restores(Head(todo)) /\ "declarator" \notin ExprPlace
      /\ (Resetting(Head(todo)) <=> Head(todo).saved.role = "definition")
  BY <1>1 DEF Restores, ExprPlace, BinaryOperator, Resetting, Resets, Calling
<1> QED
  BY <1>1, <1>2, <1>3, <1>4

\* What is below the head, with nothing on top.
LEMMA FitsAfter ==
    ASSUME IsStack(todo), todo # <<>>, NEW type, Fits(type, todo), Visit(<<>>, 0)
    PROVE  Fits(IF Restores(Head(todo)) THEN Head(todo).saved ELSE type, todo')
<1> DEFINE now == IF Restores(Head(todo)) THEN Head(todo).saved ELSE type
<1>1. Undeclared /\ Fits(now, Rest)
  BY FitsBelow
<1> HIDE DEF now
<1>2. Fits(now, <<>>) /\ Onto(<<>>) /\ DOMAIN <<>> = {}
  BY NoTuple DEF Fits, Visit, Onto
<1>3. Fits(now, todo')
  BY <1>1, <1>2, FitsOnto
<1> QED
  BY <1>3 DEF now

\* The parameter that waits, once a declarator of it has ended.
LEMMA ParameterAfter ==
    ASSUME IsStack(todo), todo # <<>>, Visit(<<>>, 0), Undeclared,
           NEW old, NEW was, FitsParameter(old, was, todo), NEW meant, NEW type,
           \/ Head(todo).at = "declarator" /\ meant = was /\ type = was
           \/ Restores(Head(todo)) /\ meant = old /\ type = Head(todo).saved
    PROVE  FitsParameter(meant, type, todo')
<1>1. todo' = Rest
  BY RestFacts, EmptyConcat DEF Visit
<1>2. /\ \A i \in DOMAIN Rest : /\ i \in Nat \ {0} /\ i + 1 \in DOMAIN todo
                               /\ Rest[i] = todo[i + 1]
      /\ Head(todo) = todo[1] /\ Len(Rest) \in Nat /\ DOMAIN Rest = 1 .. Len(Rest)
  BY RestFacts
<1>3. ASSUME NEW i \in DOMAIN Rest, Rest[i].at = "parameterEnd"
      PROVE  /\ \A j \in 1 .. i - 1 :
                 /\ Rest[j].at \in InParameter
                 /\ Rest[j].at = "declarator" => Rest[j].saved.role = "parameter"
                 /\ j = i - 1 /\ Restores(Rest[j]) => IsBasic(Rest[j].saved)
             /\ i = 1 => IsBasic(type) /\ ParameterFor(type, meant)
             /\ i > 1 /\ Restores(Rest[1]) => Points(meant, i - 1, Rest[1].saved)
             /\ Rest[1].at # "declarator"
  <2> DEFINE k == i + 1
  <2>1. k \in DOMAIN todo /\ todo[k].at = "parameterEnd" /\ i \in Nat \ {0}
    BY <1>2, <1>3
  <2>2. /\ k \in Nat /\ k > 1 /\ k - 1 = i /\ 1 \in 1 .. k - 1
        /\ (i = 1 => k = 2) /\ (i > 1 => k > 2 /\ k - 2 = i - 1 /\ k - 1 # 1)
    <3>1. i \in Nat /\ i > 0
      BY <2>1
    <3> QED
      BY <3>1
  <2>3. ASSUME NEW j \in 1 .. i - 1
        PROVE  j + 1 \in 1 .. k - 1 /\ Rest[j] = todo[j + 1] /\ (j = i - 1 => j + 1 = k - 1)
    BY <1>2, <1>3, <2>1
  <2> HIDE DEF k
  <2>4. /\ \A j \in 1 .. k - 1 :
             /\ todo[j].at \in InParameter
             /\ todo[j].at = "declarator" => todo[j].saved.role = "parameter"
             /\ j = k - 1 /\ Restores(todo[j]) => IsBasic(todo[j].saved)
        /\ k > 1 /\ Restores(todo[1]) => Points(old, k - 1, todo[1].saved)
        /\ k = 2 /\ todo[1].at = "declarator" => IsBasic(was)
        /\ k > 2 /\ todo[1].at = "declarator" => Points(was, k - 2, todo[2].saved)
    BY <2>1 DEF FitsParameter
  <2>5. ASSUME NEW j \in 1 .. i - 1
        PROVE  /\ Rest[j].at \in InParameter
               /\ Rest[j].at = "declarator" => Rest[j].saved.role = "parameter"
               /\ j = i - 1 /\ Restores(Rest[j]) => IsBasic(Rest[j].saved)
    BY <2>3, <2>4
  <2>6. ASSUME i = 1 PROVE IsBasic(type) /\ ParameterFor(type, meant)
    <3>1. CASE Head(todo).at = "declarator" /\ meant = was /\ type = was
      BY <1>2, <2>2, <2>4, <2>6, <3>1 DEF ParameterFor
    <3>2. CASE Restores(Head(todo)) /\ meant = old /\ type = Head(todo).saved
      BY <1>2, <2>2, <2>4, <2>6, <3>2 DEF ParameterFor, Points
    <3> QED
      BY <3>1, <3>2
  <2>7. ASSUME i > 1, Restores(Rest[1]) PROVE Points(meant, i - 1, Rest[1].saved)
    <3>1. CASE Head(todo).at = "declarator" /\ meant = was /\ type = was
      <4>1. Rest[1] = todo[2]
        BY <1>2, <1>3, <2>7
      <4> QED
        BY <1>2, <2>2, <2>4, <2>7, <3>1, <4>1
    <3>2. CASE Restores(Head(todo)) /\ meant = old /\ type = Head(todo).saved
      <4>1. Rest[1] = todo[2] /\ 2 \in 1 .. k - 1
        BY <1>2, <1>3, <2>2, <2>7
      <4> QED
        BY <1>2, <2>2, <2>4, <2>7, <3>2, <4>1 DEF Points
    <3> QED
      BY <3>1, <3>2
  <2>8. Rest[1].at # "declarator"
    BY <1>2, <1>3 DEF Undeclared
  <2> QED
    BY <2>5, <2>6, <2>7, <2>8
<1>4. FitsParameter(meant, type, Rest)
  BY <1>3 DEF FitsParameter
<1> QED
  BY <1>1, <1>4

\* ... and once a pointer declarator of it begins.
LEMMA ParameterPointer ==
    ASSUME IsStack(todo), todo # <<>>, Head(todo).at = "declarator",
           NEW inner, NEW outer, Onto(<<inner, outer>>),
           NEW meant, NEW was, FitsParameter(meant, was, todo), NEW type, type = Pointer(was),
           inner.at = "declarator", inner.saved.role = Head(todo).saved.role,
           outer.at = "pointerDeclarator", outer.saved = was
    PROVE  FitsParameter(meant, type, todo')
<1> DEFINE frames == <<inner, outer>>
<1>1. Len(frames) = 2 /\ frames[1] = inner /\ frames[2] = outer /\ Onto(frames)
  OBVIOUS
<1> HIDE DEF frames
<1>2. /\ DOMAIN todo' = 1 .. 2 + Len(Rest)
      /\ \A i \in DOMAIN todo' :
                \/ i <= 2 /\ todo'[i] = frames[i]
                \/ /\ i > 2 /\ i - 2 + 1 \in DOMAIN todo /\ i - 2 \in DOMAIN Rest
                   /\ todo'[i] = todo[i - 2 + 1]
  BY <1>1, FramesOf
<1>3. Head(todo) = todo[1] /\ Len(Rest) \in Nat
  BY RestFacts
<1>4. \A i \in DOMAIN todo' : i = 1 \/ i = 2 \/ i > 2
  BY <1>2
<1>5. \A i \in DOMAIN todo' : i > 2 => i - 1 \in DOMAIN todo /\ todo'[i] = todo[i - 1]
  <2>1. \A i \in DOMAIN todo' : i - 2 + 1 = i - 1
    BY <1>2
  <2> QED
    BY <1>2, <2>1
<1>6. todo'[1] = inner /\ todo'[2] = outer
  BY <1>1, <1>2, <1>3
<1>7. ~Restores(inner) /\ Restores(outer)
  BY DEF Restores
<1>8. ASSUME NEW i \in DOMAIN todo', todo'[i].at = "parameterEnd"
      PROVE  /\ i > 2
             /\ \A j \in 1 .. i - 1 :
                  /\ todo'[j].at \in InParameter
                  /\ todo'[j].at = "declarator" => todo'[j].saved.role = "parameter"
                  /\ j = i - 1 /\ Restores(todo'[j]) => IsBasic(todo'[j].saved)
             /\ Points(type, i - 2, was)
  <2>1. i > 2
    BY <1>4, <1>6, <1>8
  <2> DEFINE k == i - 1
  <2>2. k \in DOMAIN todo /\ todo[k].at = "parameterEnd"
    BY <1>5, <1>8, <2>1
  <2>3. i \in Nat /\ k \in Nat /\ k > 1 /\ 1 \in 1 .. k - 1 /\ (i = 3 => k = 2)
    BY <1>2, <1>8, <2>1
  <2>4. ASSUME NEW j \in 1 .. i - 1
        PROVE  \/ j = 1
               \/ j = 2 /\ (j = i - 1 => k = 2)
               \/ /\ j > 2 /\ j \in DOMAIN todo' /\ j - 1 \in 1 .. k - 1
                  /\ j = i - 1 => j - 1 = k - 1
    BY <1>2, <1>8, <2>1, <2>3
  <2> HIDE DEF k
  <2>5. /\ \A j \in 1 .. k - 1 :
             /\ todo[j].at \in InParameter
             /\ todo[j].at = "declarator" => todo[j].saved.role = "parameter"
             /\ j = k - 1 /\ Restores(todo[j]) => IsBasic(todo[j].saved)
        /\ k = 2 /\ todo[1].at = "declarator" => IsBasic(was)
        /\ k > 2 /\ todo[1].at = "declarator" => was.data = "pointer"
    BY <2>2 DEF FitsParameter, Points
  <2>6. ASSUME NEW j \in 1 .. i - 1
        PROVE  /\ todo'[j].at \in InParameter
               /\ todo'[j].at = "declarator" => todo'[j].saved.role = "parameter"
               /\ j = i - 1 /\ Restores(todo'[j]) => IsBasic(todo'[j].saved)
    <3>1. CASE j = 1
      BY <1>3, <1>6, <1>7, <2>3, <2>5, <3>1 DEF InParameter
    <3>2. CASE j = 2 /\ (j = i - 1 => k = 2)
      BY <1>3, <1>6, <2>5, <3>2 DEF InParameter
    <3>3. CASE /\ j > 2 /\ j \in DOMAIN todo' /\ j - 1 \in 1 .. k - 1
               /\ j = i - 1 => j - 1 = k - 1
      <4>1. todo'[j] = todo[j - 1]
        BY <1>5, <3>3
      <4> QED
        BY <2>5, <3>3, <4>1
    <3> QED
      BY <2>4, <3>1, <3>2, <3>3
  <2>7. type.data = "pointer" /\ type.of = was
    BY DEF Pointer
  <2>8. i - 2 = 1 \/ k > 2
    BY <1>2, <1>8, <2>1 DEF k
  <2>9. k > 2 => ~IsBasic(was)
    BY <1>3, <2>5 DEF IsBasic
  <2> QED
    BY <2>1, <2>6, <2>7, <2>8, <2>9 DEF Points
<1>9. ASSUME NEW i \in DOMAIN todo', i > 2 PROVE i # 1 /\ i # 2
  BY <1>2, <1>9
<1> QED
  BY <1>6, <1>7, <1>8, <1>9 DEF FitsParameter

\* A declaration leaves the scopes a list.
LEMMA AddsKeepSequence ==
    ASSUME NEW scopes, IsSequence(scopes), NEW n, NEW symbol
    PROVE  IsSequence(AddToScope(scopes, n, symbol)) /\ IsSequence(AddToParentScope(scopes, n, symbol))
<1>1. \A i : \A scope : IsSequence([scopes EXCEPT ![i] = scope])
  BY ScopeLists
<1>2. ASSUME NEW i, NEW scope PROVE IsSequence([scopes EXCEPT ![i] = scope])
  BY <1>1
<1> DEFINE here == Insert(scopes[Len(scopes)], n, symbol)
           there == Insert(scopes[Len(scopes) - 1], n, symbol)
<1>3. IsSequence([scopes EXCEPT ![Len(scopes)] = here])
      /\ IsSequence([scopes EXCEPT ![Len(scopes) - 1] = there])
  <2> HIDE DEF here, there
  <2> QED
    BY <1>2
<1> QED
  BY <1>3 DEF AddToScope, AddToParentScope

LEMMA IdentifierNames ==
    ASSUME ScopeInv, NamesInv, IdentifierDeclarator
    PROVE  NamesInv'
<1> DEFINE n == Head(todo).arg
           role == Head(todo).saved.role
           symbol == Symbol("variable", curType)
           entity == Symbol(CKind(role), Declared(role, Inside))
<1>1. /\ At("declarator") /\ n # NoName /\ Visit(<<>>, 0)
      /\ table' = AddToScope(table, n, symbol) /\ cScopes' = DeclareInC(n, role, entity)
      /\ cType' = Declared(role, Inside) /\ UNCHANGED <<curType, mailbox, result, status>>
  BY DEF IdentifierDeclarator, Named, Continue
<1>2. /\ todo # <<>> /\ Head(todo).at = "declarator" /\ SoundDeclarator(Head(todo))
      /\ IsStack(todo) /\ ~Restores(Head(todo)) /\ "declarator" \notin ExprPlace
      /\ IsSequence(table) /\ IsSequence(cScopes) /\ TypedScopes(table)
      /\ curType.data \in DeclaredType
      /\ Fits(curType, todo) => Inside = curType
  BY <1>1, AtDeclarator
<1>3. n \in Names /\ role \in DeclaratorRole
  BY <1>1, <1>2 DEF SoundDeclarator
<1>4. TypedSymbol(symbol)
  BY <1>2 DEF Symbol, TypedSymbol
<1> HIDE DEF n, role, symbol
<1>5. TypedScopes(table')
  BY <1>1, <1>2, <1>3, <1>4, TypedKept
<1>6. IsSequence(cScopes')
  BY <1>1, <1>2, AddsKeepSequence DEF DeclareInC
<1>7. ASSUME Leakless, SameNames(table, cScopes) PROVE SameNames(table', cScopes')
  <2>1. cScopes' = AddToScope(cScopes, n, entity)
    BY <1>1, <1>3, <1>7 DEF DeclareInC, DeclaratorRole, Leakless, Uses
  <2> QED
    BY <1>1, <1>2, <1>7, <2>1, SameNamesKept
<1>8. ASSUME Agreeing, Agreed PROVE Agreed'
  <2>1. role # "member" /\ role # "typedef" /\ curType.data \notin {"array", "func"}
    BY <1>2, <1>3, <1>8 DEF DeclaratorRole, Agreeing, Uses, DeclaredType, ObjectType
  <2>2. /\ SameScopes(table, cScopes) /\ Fits(curType, todo) /\ FitsParameter(cType, curType, todo)
        /\ Inside = curType
    BY <1>2, <1>8 DEF Agreed
  <2>3. Declared(role, Inside) = curType
    BY <2>1, <2>2 DEF Declared
  <2>4. SameEntity(symbol, entity)
    BY <2>1, <2>3 DEF symbol, CKind, Symbol, SameEntity, TypeFor
  <2>5. cScopes' = AddToScope(cScopes, n, entity)
    BY <1>1, <2>1 DEF DeclareInC
  <2> HIDE DEF entity
  <2>6. SameScopes(table', cScopes')
    BY <1>1, <1>2, <2>2, <2>4, <2>5, SameScopesKept
  <2>7. Fits(curType, todo') /\ Undeclared
    BY <1>1, <1>2, <2>2, FitsAfter, FitsBelow
  <2>8. FitsParameter(cType', curType, todo')
    BY <1>1, <1>2, <2>2, <2>3, <2>7, ParameterAfter
  <2> QED
    BY <1>1, <2>6, <2>7, <2>8 DEF Agreed
<1>9. DOMAIN <<>> = {} /\ Laid(<<>>)
  BY NoTuple, LaidTuples
<1> QED
  BY <1>1, <1>2, <1>5, <1>6, <1>7, <1>8, <1>9, LaidStep

LEMMA PointerNames ==
    ASSUME ScopeInv, NamesInv, PointerDeclarator
    PROVE  NamesInv'
<1> DEFINE type == Pointer(Inside)
           inner == Declarator(Head(todo).arg, Head(todo).saved.role, type)
           outer == Resume("pointerDeclarator", NoName, curType)
           frames == <<inner, outer>>
<1>1. /\ At("declarator") /\ curType' = Pointer(curType) /\ Visit(frames, 1)
      /\ UNCHANGED <<table, mailbox, result, cScopes, cType, status>>
  BY DEF PointerDeclarator
<1>2. /\ todo # <<>> /\ Head(todo).at = "declarator" /\ SoundDeclarator(Head(todo))
      /\ IsStack(todo) /\ ~Restores(Head(todo)) /\ "declarator" \notin ExprPlace
      /\ Resetting(Head(todo)) <=> Head(todo).saved.role = "definition"
      /\ IsSequence(cScopes) /\ TypedScopes(table) /\ curType.data \in DeclaredType
      /\ Fits(curType, todo) => Inside = curType
  BY <1>1, AtDeclarator
<1> HIDE DEF type
<1>3. /\ SoundFrame(inner) /\ inner.at = "declarator" /\ inner.at \notin Reads
      /\ inner.saved.role = Head(todo).saved.role /\ inner.saved.type = type
  <2> DEFINE n == Head(todo).arg
             role == Head(todo).saved.role
  <2>1. /\ n \in Names \cup {NoName} /\ role \in DeclaratorRole
        /\ n = NoName => Nameless /\ role # "definition"
    BY <1>2 DEF SoundDeclarator
  <2> HIDE DEF n, role
  <2>2. /\ SoundFrame(Declarator(n, role, type)) /\ Declarator(n, role, type).at = "declarator"
        /\ Declarator(n, role, type).at \notin Reads
        /\ Declarator(n, role, type).saved.role = role
        /\ Declarator(n, role, type).saved.type = type
    BY <2>1, DeclaratorFrame
  <2> QED
    BY <2>2 DEF n, role
<1>4. outer.at = "pointerDeclarator" /\ outer.saved = curType
  BY ExprFrame
<1> HIDE DEF inner, outer
<1>5. SoundFrame(outer) /\ outer.at \notin Reads
  BY <1>2, <1>4 DEF SoundFrame, Reads, BinaryOperator, Calling
<1>6. IsSequence(frames) /\ DOMAIN frames = {1, 2} /\ frames[1] = inner /\ frames[2] = outer
  BY TwoTuple
<1>7. ASSUME Agreeing, Agreed PROVE Agreed'
  <2>1. /\ SameScopes(table', cScopes') /\ Fits(curType, todo)
        /\ FitsParameter(cType, curType, todo)
    BY <1>1, <1>7 DEF Agreed
  <2>2. type = curType' /\ curType' = Pointer(curType)
    BY <1>1, <1>2, <2>1 DEF type
  <2>3. Undeclared /\ (Resetting(Head(todo)) => NoneWaits) /\ Fits(curType, Rest)
    BY <1>2, <2>1, FitsBelow
  <2>4. NoneWaits \/ ~Resetting(inner)
    BY <1>2, <1>3, <2>3 DEF Resetting, Resets, Calling
  <2>5. Onto(<<inner, outer>>)
    BY <1>1, <1>6 DEF Visit, Onto
  <2>6. Fits(curType', todo')
    BY <1>2, <1>3, <1>4, <2>2, <2>3, <2>4, <2>5, FitsPointer
  <2>7. FitsParameter(cType', curType', todo')
    BY <1>1, <1>2, <1>3, <1>4, <2>1, <2>2, <2>5, ParameterPointer
  <2> QED
    BY <2>1, <2>6, <2>7 DEF Agreed
<1> HIDE DEF frames
<1>8. Laid(frames) /\ \A i \in DOMAIN frames : frames[i].at \notin Calling
  BY <1>3, <1>4, <1>5, <1>6 DEF Laid, Calling
<1>9. curType'.data \in DeclaredType
  BY <1>1 DEF Pointer, DeclaredType, ObjectType
<1> QED
  BY <1>1, <1>2, <1>7, <1>8, <1>9, LaidStep DEF SameCall

LEMMA PointerEndNames ==
    ASSUME ScopeInv, NamesInv, PointerDeclaratorEnd
    PROVE  NamesInv'
<1>1. /\ At("pointerDeclarator") /\ curType' = Head(todo).saved /\ Visit(<<>>, 0)
      /\ UNCHANGED <<table, mailbox, result, cScopes, cType, status>>
  BY DEF PointerDeclaratorEnd, Continue
<1>2. /\ todo # <<>> /\ Restores(Head(todo)) /\ curType'.data \in DeclaredType
      /\ IsStack(todo) /\ IsSequence(cScopes) /\ TypedScopes(table)
  <2>1. SoundFrame(Head(todo)) /\ Head(todo).at = "pointerDeclarator" /\ todo # <<>>
    BY <1>1, HeadFacts
  <2> QED
    BY <1>1, <2>1 DEF SoundFrame, Restores, ScopeInv, NamesInv, TypeInv
<1>3. ASSUME Agreed PROVE Agreed'
  <2>1. /\ SameScopes(table', cScopes') /\ Fits(curType, todo)
        /\ FitsParameter(cType, curType, todo)
    BY <1>1, <1>3 DEF Agreed
  <2>2. Fits(curType', todo') /\ Undeclared
    BY <1>1, <1>2, <2>1, FitsAfter, FitsBelow
  <2>3. FitsParameter(cType', curType', todo')
    BY <1>1, <1>2, <2>1, <2>2, ParameterAfter
  <2> QED
    BY <2>1, <2>2, <2>3 DEF Agreed
<1>4. DOMAIN <<>> = {} /\ Laid(<<>>) /\ "pointerDeclarator" \notin ExprPlace
  BY NoTuple, LaidTuples DEF ExprPlace, BinaryOperator
<1> QED
  BY <1>1, <1>2, <1>3, <1>4, LaidStep

LEMMA ArrayNames ==
    ASSUME ScopeInv, NamesInv, ArrayDeclarator
    PROVE  NamesInv'
<1> DEFINE type == Array(Inside)
           a == Declarator(Head(todo).arg, Head(todo).saved.role, type)
           b == Frame("constant")
           c == Frame("arrayDeclarator")
           frames == <<a, b, c>>
<1>1. At("declarator") /\ Uses("array") /\ Enter(frames)
  BY DEF ArrayDeclarator
<1>2. SoundDeclarator(Head(todo)) /\ "declarator" \notin ExprPlace /\ curType.data \in DeclaredType
  BY <1>1, AtDeclarator
<1> HIDE DEF type
<1>3. SoundFrame(a) /\ a.at \notin Reads
  BY <1>2, DeclaratorFrame DEF SoundDeclarator
<1>4. SoundFrame(b) /\ b.at \notin Reads
  BY StatementFrames DEF GoodOther
<1>5. SoundFrame(c) /\ c.at \notin Reads
  <2>1. c.at = "arrayDeclarator"
    BY ExprFrame
  <2> HIDE DEF c
  <2> QED
    BY <1>1, <2>1 DEF SoundFrame, Reads, BinaryOperator, Calling
<1> HIDE DEF a, b, c
<1>6. Laid(frames)
  BY <1>3, <1>4, <1>5, ThreeTuple DEF Laid
<1> HIDE DEF frames
<1>7. ~Agreeing /\ Visit(frames, 1) /\ UNCHANGED <<table, curType, mailbox, result, cScopes, cType, status>>
  BY <1>1 DEF Agreeing, Uses, Enter, state
<1> QED
  BY <1>1, <1>2, <1>6, <1>7, ForeignDeclarators

LEMMA FunctionNames ==
    ASSUME ScopeInv, NamesInv, NEW pointer \in BOOLEAN, NEW params \in BOOLEAN,
           FunctionDeclarator(pointer, params)
    PROVE  NamesInv'
<1> DEFINE role == Head(todo).saved.role
           call == [of |-> curType, params |-> <<>>, pointer |-> pointer,
                    role |-> role, meant |-> Inside, meantParams |-> <<>>]
           next == Resume(IF params THEN "parameter" ELSE "functionDeclarator",
                          Head(todo).arg, call)
           frames == <<next>>
<1>1. /\ At("declarator") /\ Visit(frames, 0)
      /\ \/ role = "definition" /\ ~pointer
         \/ role # "definition" /\ Uses(IF pointer THEN "functionPointer" ELSE "prototype")
      /\ cScopes' = IF role = "definition" THEN cScopes ELSE PushScope(cScopes)
      /\ UNCHANGED <<table, curType, mailbox, result, cType, status>>
  BY DEF FunctionDeclarator, WithRole, Continue
<1>2. /\ todo # <<>> /\ Head(todo).at = "declarator" /\ SoundDeclarator(Head(todo))
      /\ IsStack(todo) /\ "declarator" \notin ExprPlace
      /\ Resetting(Head(todo)) <=> role = "definition"
      /\ IsSequence(cScopes) /\ TypedScopes(table) /\ curType.data \in DeclaredType
      /\ Fits(curType, todo) => Inside = curType
  BY <1>1, AtDeclarator
<1>3. /\ DOMAIN call = CallField /\ call.of = curType /\ call.pointer = pointer
      /\ call.role = role /\ call.meant = Inside
      /\ call.params = <<>> /\ call.meantParams = <<>>
  BY DEF CallField
<1>4. next.at \in {"parameter", "functionDeclarator"} /\ next.arg = Head(todo).arg
      /\ next.saved = call
  BY ExprFrame
<1> HIDE DEF call, next
<1>5. SoundCalling(next)
  <2>1. role = "definition" \/ Uses("prototype") \/ Uses("functionPointer")
    BY <1>1
  <2>2. next.arg = NoName /\ ~pointer => Nameless /\ Uses("prototype")
    BY <1>1, <1>2, <1>4 DEF SoundDeclarator
  <2> QED
    BY <1>1, <1>2, <1>3, <1>4, <2>1, <2>2 DEF SoundCalling, SoundDeclarator
<1>6. next.at \in Calling /\ SoundFrame(next) /\ next.at \notin Reads
  BY <1>4, <1>5 DEF SoundFrame, Calling, Reads, BinaryOperator
<1>7. IsSequence(frames) /\ DOMAIN frames = {1} /\ frames[1] = next
  BY OneTuple
<1> HIDE DEF frames
<1>8. Laid(frames) /\ Settled(curType, frames)
  BY <1>4, <1>6, <1>7 DEF Laid, Settled, Restores, Waiting
<1>9. IsSequence(cScopes')
  BY <1>1, <1>2, ScopeLists
<1>10. ASSUME Leakless \/ Agreeing PROVE role = "definition" /\ cScopes' = cScopes
  BY <1>1, <1>10 DEF Leakless, Agreeing, Uses
<1>11. ASSUME Agreeing, Agreed
       PROVE  Agreed' /\ \A i \in DOMAIN frames : SameCall(frames[i])
  <2>1. /\ SameScopes(table', cScopes') /\ Fits(curType, todo)
        /\ FitsParameter(cType, curType, todo) /\ Inside = curType
    BY <1>1, <1>2, <1>10, <1>11 DEF Agreed
  <2>2. SameCall(next)
    <3>1. ParameterTypes(<<>>, <<>>)
      BY NoTuple DEF ParameterTypes
    <3> QED
      BY <1>3, <1>4, <2>1, <3>1, NoTuple DEF SameCall
  <2>3. Fits(curType', todo')
    BY <1>1, <1>2, <1>7, <1>8, <1>10, <1>11, <2>1, SettledOnto
  <2>4. ASSUME NEW i \in DOMAIN todo', todo'[i].at = "parameterEnd" PROVE FALSE
    <3> DEFINE k == i - Len(frames)
    <3>1. Onto(frames) /\ next.at # "parameterEnd"
      BY <1>1, <1>4, <1>7 DEF Visit, Onto
    <3>2. todo # <<>> /\ k + 1 \in DOMAIN todo /\ k \in DOMAIN Rest /\ todo'[i] = todo[k + 1]
      BY <1>2, <1>7, <2>4, <3>1, FramesOf
    <3>3. k \in Nat \ {0} /\ Head(todo) = todo[1]
      BY <1>2, <3>2, RestFacts
    <3> HIDE DEF k
    <3>4. 1 \in 1 .. (k + 1) - 1
      BY <3>3
    <3>5. todo[1].saved.role = "parameter"
      BY <1>2, <2>1, <2>4, <3>2, <3>3, <3>4 DEF FitsParameter
    <3> QED
      BY <1>10, <1>11, <3>3, <3>5
  <2>5. FitsParameter(cType', curType', todo')
    BY <2>4 DEF FitsParameter
  <2> QED
    BY <1>7, <2>1, <2>2, <2>3, <2>5 DEF Agreed
<1> QED
  BY <1>1, <1>2, <1>8, <1>9, <1>10, <1>11, LaidStep

LEMMA FunctionEndNames ==
    ASSUME ScopeInv, NamesInv, FunctionDeclaratorEnd
    PROVE  NamesInv'
<1> DEFINE n == Head(todo).arg
           call == Head(todo).saved
           symbol == FunctionSymbol(call)
           func == Func(call.meant, call.meantParams)
           meant == Declared(call.role, IF call.pointer THEN Pointer(func) ELSE func)
           kind == IF call.role = "typedef" THEN "typedef"
                   ELSE IF meant = func THEN "function" ELSE "variable"
           entity == Symbol("function", meant)
           other == Symbol(kind, meant)
<1>1. /\ At("functionDeclarator")
      /\ \/ n = NoName /\ ~call.pointer /\ Crash
         \/ Reject
         \/ /\ n # NoName /\ Visit(<<>>, 0) /\ UNCHANGED <<curType, mailbox, result, status>>
            /\ table' = AddToParentScope(table, n, symbol)
            /\ cScopes' = IF call.role = "definition" THEN AddToParentScope(cScopes, n, entity)
                          ELSE IF call.role = "member" THEN PopScope(cScopes)
                          ELSE AddToScope(PopScope(cScopes), n, other)
  BY DEF FunctionDeclaratorEnd, Continue
<1>2. /\ todo # <<>> /\ Head(todo).at = "functionDeclarator" /\ SoundCalling(Head(todo))
      /\ IsStack(todo) /\ Head(todo) = todo[1] /\ 1 \in DOMAIN todo
      /\ IsSequence(table) /\ IsSequence(cScopes) /\ TypedScopes(table)
      /\ curType.data \in DeclaredType
  BY <1>1, HeadFacts, RestFacts DEF SoundFrame, Calling, ScopeInv, NamesInv, TypeInv
<1>3. CASE n = NoName /\ ~call.pointer /\ Crash
  <2>1. ~Safe
    BY <1>2, <1>3 DEF SoundCalling, Nameless, Safe, Crashing, Uses
  <2> QED
    BY <1>3, <2>1, CrashesOutside
<1>4. CASE /\ n # NoName /\ Visit(<<>>, 0) /\ UNCHANGED <<curType, mailbox, result, status>>
           /\ table' = AddToParentScope(table, n, symbol)
           /\ cScopes' = IF call.role = "definition" THEN AddToParentScope(cScopes, n, entity)
                         ELSE IF call.role = "member" THEN PopScope(cScopes)
                         ELSE AddToScope(PopScope(cScopes), n, other)
  <2>1. n \in Names /\ call.of.data \in DeclaredType
    BY <1>2, <1>4 DEF SoundCalling
  <2>2. TypedSymbol(symbol)
    BY <2>1 DEF FunctionSymbol, Symbol, Func, TypedSymbol
  <2>9. call.role = "definition" /\ ~call.pointer => meant = func
    BY DEF Declared
  <2> HIDE DEF symbol, entity, other, meant, kind, func
  <2>3. TypedScopes(table')
    BY <1>2, <1>4, <2>1, <2>2, TypedKept
  <2>4. IsSequence(cScopes')
    <3>1. IsSequence(AddToParentScope(cScopes, n, entity)) /\ IsSequence(PopScope(cScopes))
      BY <1>2, ScopeLists, AddsKeepSequence
    <3>2. IsSequence(AddToScope(PopScope(cScopes), n, other))
      BY <3>1, AddsKeepSequence
    <3> QED
      BY <1>4, <3>1, <3>2
  <2>5. ASSUME Leakless \/ Agreeing
        PROVE  /\ call.role = "definition" /\ ~call.pointer
               /\ cScopes' = AddToParentScope(cScopes, n, entity)
    BY <1>2, <1>4, <2>5 DEF SoundCalling, Leakless, Agreeing, Uses
  <2>6. ASSUME Leakless, SameNames(table, cScopes) PROVE SameNames(table', cScopes')
    BY <1>2, <1>4, <2>5, <2>6, SameNamesKept
  <2>7. ASSUME Agreeing, Agreed PROVE Agreed'
    <3>1. /\ call.of = call.meant /\ ParameterTypes(call.params, call.meantParams)
      <4>1. SameCall(Head(todo))
        BY <1>2, <2>7 DEF NamesInv, AgreeInv
      <4> QED
        BY <1>2, <4>1 DEF SameCall, Calling
    <3>2. SameEntity(symbol, entity)
      <4>1. TypeFor(Func(call.of, call.params), func)
        BY <3>1 DEF TypeFor, Func, func
      <4>2. meant = func
        BY <2>5, <2>7, <2>9
      <4> QED
        BY <4>1, <4>2 DEF symbol, entity, FunctionSymbol, Symbol, SameEntity
    <3>3. SameScopes(table', cScopes')
      BY <1>2, <1>4, <2>5, <2>7, <3>2, SameScopesKept DEF Agreed
    <3>4. Resetting(Head(todo)) /\ Head(todo).at \notin InParameter
      BY <1>2 DEF Resetting, Resets, Calling, InParameter
    <3>5. Settled(curType', <<>>) /\ IsSequence(<<>>) /\ DOMAIN <<>> = {}
      BY NoTuple DEF Settled
    <3>6. Visit(<<>>, 0) /\ \A i \in DOMAIN <<>> : <<>>[i].at # "parameterEnd"
      BY <1>4, <3>5
    <3> HIDE DEF Settled, Agreed, SameScopes, Visit
    <3> QED
      BY <1>2, <2>7, <3>3, <3>4, <3>5, <3>6, SettledAgrees
  <2>8. DOMAIN <<>> = {} /\ Laid(<<>>) /\ "functionDeclarator" \notin ExprPlace
    BY NoTuple, LaidTuples DEF ExprPlace, BinaryOperator
  <2> HIDE DEF n
  <2> QED
    BY <1>1, <1>2, <1>4, <2>3, <2>4, <2>6, <2>7, <2>8, LaidStep
<1> QED
  BY <1>1, <1>3, <1>4, RejectsWell

LEMMA DeclaratorNames ==
    ASSUME ScopeInv, NamesInv, NextInDeclarator
    PROVE  NamesInv'
<1>1. CASE NoIdentifier
  <2>1. At("declarator") /\ Visit(<<>>, 0) /\ Head(todo).arg = NoName
        /\ UNCHANGED <<table, curType, mailbox, result, cScopes, status>>
    BY <1>1 DEF NoIdentifier, Named, Continue
  <2>2. ~Agreeing /\ IsSequence(cScopes) /\ TypedScopes(table) /\ curType.data \in DeclaredType
    BY <2>1, AtDeclarator DEF SoundDeclarator, Nameless, Agreeing, Uses
  <2>3. Laid(<<>>) /\ "declarator" \notin ExprPlace
    BY LaidTuples DEF ExprPlace, BinaryOperator
  <2> QED
    BY <2>1, <2>2, <2>3, LaidStep
<1>2. CASE ArrayDeclaratorEnd
  <2>1. \/ Reject
        \/ /\ At("arrayDeclarator") /\ curType' = Array(curType) /\ Visit(<<>>, 0)
           /\ UNCHANGED <<table, mailbox, result, cScopes, cType, status>>
    BY <1>2 DEF ArrayDeclaratorEnd, Continue
  <2>2. ASSUME At("arrayDeclarator") PROVE ~Agreeing /\ Array(curType).data \in DeclaredType
    <3>1. Uses("array")
      BY <2>2, HeadFacts DEF SoundFrame
    <3> QED
      BY <3>1 DEF Agreeing, Uses, Array, DeclaredType, ObjectType
  <2>3. Laid(<<>>) /\ "arrayDeclarator" \notin ExprPlace
    BY LaidTuples DEF ExprPlace, BinaryOperator
  <2> QED
    BY <2>1, <2>2, <2>3, RejectsWell, ForeignDeclarators
<1>3. CASE UnsizedArray
  <2>1. ~Safe
    BY <1>3 DEF UnsizedArray, Uses, Safe, Crashing
  <2> QED
    BY <1>3, <2>1, CrashesOutside DEF UnsizedArray
<1>4. CASE KAndRDeclarator
  BY <1>4, RejectsWell DEF KAndRDeclarator
<1> QED
  BY <1>1, <1>2, <1>3, <1>4, IdentifierNames, PointerNames, PointerEndNames, ArrayNames,
     FunctionNames, FunctionEndNames
  DEF NextInDeclarator

-----------------------------------------------------------------------------
(* Every reachable state *)

LEMMA InitNames ==
    ASSUME Init
    PROVE  NamesInv
<1>1. /\ table = cScopes /\ IsSequence(cScopes) /\ DOMAIN table = {1} /\ table[1] = EmptyScope
      /\ todo = <<>> /\ DOMAIN todo = {}
  BY OneTuple, NoTuple DEF Init, NewTable
<1>2. DOMAIN EmptyScope = {}
  BY DEF EmptyScope
<1>3. TypedScopes(table) /\ SameNames(table, cScopes)
  BY <1>1, <1>2 DEF TypedScopes, SameNames
<1>4. curType.data \in DeclaredType /\ TypedValue(result.type)
  BY DEF Init, VoidType, Untyped, Rvalue, Result, NoType, Basic, DeclaredType, ObjectType, TypedValue
<1>5. TypeInv
  BY <1>1, <1>3, <1>4, BoundAssumption DEF Init, TypeInv, Sound
<1>6. CrashInv
  BY <1>1 DEF Init, CrashInv, Linked
<1>7. SameScopes(table, cScopes)
  BY <1>1, <1>2, <1>3 DEF SameScopes
<1>8. LeakInv /\ AgreeInv
  BY <1>1, <1>3, <1>7 DEF LeakInv, AgreeInv, Agreed, Fits, FitsParameter
<1> QED
  BY <1>5, <1>6, <1>8 DEF NamesInv

LEMMA StepKeepsNames ==
    ASSUME ScopeInv, NamesInv, [Next]_vars
    PROVE  NamesInv'
<1>1. CASE EndUnit
  BY <1>1, StopsWell DEF EndUnit
<1>2. CASE Finished \/ UNCHANGED vars
  BY <1>2 DEF Finished, vars, state, NamesInv, TypeInv, CrashInv, LeakInv, AgreeInv, Sound, Linked,
     Agreed, SameScopes, Fits, FitsParameter
<1> QED
  BY <1>1, <1>2, DeclarationNames, DeclaratorNames, StatementNames, ExpressionNames DEF Next

LEMMA NamesInvariant == Spec => []NamesInv
<1>1. ScopeInv /\ NamesInv /\ [Next]_vars => NamesInv'
  BY StepKeepsNames
<1> QED
  BY ScopeInvariant, InitNames, <1>1, PTL DEF Spec

\* Whatever the program is, the table holds variables with types of objects
\* and functions with FuncTypes (which FunctionCallExpression's cast relies
\* on), _curType is the type of an object, and an annotated type is one the
\* visitor makes.
THEOREM TypeCorrectness == Spec => []TypeOK
<1>1. ASSUME ScopeInv, NamesInv PROVE TypeOK
  <2>1. /\ IsSequence(table) /\ IsSequence(cScopes) /\ TypedScopes(table)
        /\ curType.data \in DeclaredType /\ TypedValue(result.type)
        /\ mailbox # NoConstant => mailbox[1].isInt \in BOOLEAN /\ mailbox[1].id \in 1 .. MaxNodes
        /\ status \in {"visiting", "accepted", "rejected", "crashed"}
        /\ budget \in 0 .. MaxNodes
    BY <1>1 DEF ScopeInv, NamesInv, TypeInv
  <2>2. DOMAIN table = 1 .. Len(table) /\ DOMAIN cScopes = 1 .. Len(cScopes)
    BY <2>1, SequenceFacts
  <2>3. \A i \in DOMAIN todo : DOMAIN todo[i] = {"at", "arg", "saved"}
    BY <1>1 DEF ScopeInv, IsStack, IsFrame
  <2>4. \A i \in DOMAIN table : \A n \in DOMAIN table[i] :
            /\ n \in Names
            /\ \/ table[i][n].kind = "variable" /\ table[i][n].type.data \in DeclaredType
               \/ table[i][n].kind = "function" /\ table[i][n].type.data = "func"
    BY <2>1 DEF TypedScopes, TypedSymbol
  <2>5. result.type.data \in DeclaredType \cup {"func", "null"}
    BY <2>1 DEF TypedValue
  <2> QED
    BY <2>1, <2>2, <2>3, <2>4, <2>5 DEF TypeOK, DeclaredType
<1> QED
  BY ScopeInvariant, NamesInvariant, <1>1, PTL

\* A program of constructs whose visitors all call setType() (Safe names the
\* others: strings, subscripts, members, unary operators, sizeof, casts,
\* conditionals, ...) never has a null type dereferenced, whatever it declares
\* and however its expressions nest.
THEOREM TypedProgramsDoNotCrash ==
    ASSUME Safe
    PROVE  Spec => []NeverCrashes
<1>1. NamesInv => NeverCrashes
  BY DEF NamesInv, CrashInv, NeverCrashes
<1> QED
  BY NamesInvariant, <1>1, PTL

\* Without structures, prototypes and pointers to functions (whose parameters
\* and members the visitor puts in the scope around them), the table knows a
\* name only where C does.
THEOREM NamesStayInScope ==
    ASSUME Leakless
    PROVE  Spec => []NothingLeaks
<1>1. ASSUME ScopeInv, NamesInv PROVE NothingLeaks
  <2>1. SameNames(table, cScopes) /\ IsSequence(table) /\ IsSequence(cScopes)
    BY <1>1 DEF ScopeInv, NamesInv, TypeInv, LeakInv
  <2>2. DOMAIN table = DOMAIN cScopes
    BY <2>1, SequenceFacts DEF SameNames
  <2> QED
    BY <2>1, <2>2 DEF NothingLeaks, HasOrd, InC, SameNames
<1> QED
  BY ScopeInvariant, NamesInvariant, <1>1, PTL

\* Where every specifier list is read as C reads it and nothing but variables,
\* pointers to them and functions with named parameters is declared, _curType
\* is right at every declarator, and a name is resolved to C's declaration
\* with C's type: through block scopes, parameters, shadowing and several
\* declarators.  In the type of a function, a parameter that is a pointer in C
\* is recorded with the type of its specifiers (SemaVisitor.cpp:224 and 260),
\* the number of the parameters and the type returned are C's.
THEOREM ResolvesLikeC ==
    ASSUME Agreeing
    PROVE  Spec => []ResolvesAsDeclared
<1>1. ASSUME ScopeInv, NamesInv PROVE ResolvesAsDeclared
  <2>1. SameScopes(table, cScopes) /\ IsSequence(table) /\ IsSequence(cScopes)
    BY <1>1 DEF ScopeInv, NamesInv, TypeInv, AgreeInv, Agreed
  <2>2. ASSUME NEW n \in Names, InC(n)
        PROVE  HasOrd(table, n) /\ SameEntity(GetOrd(table, n), GetOrd(cScopes, n))
    BY <2>1, <2>2, SameResolved DEF InC
  <2> QED
    BY <2>2 DEF ResolvesAsDeclared, SameEntity
<1> QED
  BY ScopeInvariant, NamesInvariant, <1>1, PTL
=============================================================================
