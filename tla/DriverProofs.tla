------------------------------ MODULE DriverProofs ------------------------------
(***************************************************************************)
(* Proofs about Driver, for every set of file names, any number of options *)
(* and trees of any size: the graph is a tree, it shows the tree that was  *)
(* parsed, and what the exit status says of the files is so.               *)
(***************************************************************************)
EXTENDS
    DriverProps, SequenceTheorems, FiniteSetTheorems, FunctionTheorems, NaturalsInduction,
    WellFoundedInduction, TLAPS

-----------------------------------------------------------------------------
(* Sequences *)

LEMMA AppendIsSequence ==
    ASSUME NEW s, IsSequence(s), NEW e
    PROVE  /\ IsSequence(Append(s, e)) /\ Len(Append(s, e)) = Len(s) + 1
           /\ DOMAIN Append(s, e) = 1 .. Len(s) + 1 /\ DOMAIN s = 1 .. Len(s)
           /\ \A i \in DOMAIN s : Append(s, e)[i] = s[i]
           /\ Append(s, e)[Len(s) + 1] = e /\ Len(s) \in Nat
<1> DEFINE S == {s[i] : i \in DOMAIN s} \cup {e}
           t == Append(s, e)
<1>1. s \in Seq(S)
  BY DEF IsSequence
<1>2. e \in S
  OBVIOUS
<1> HIDE DEF S
<1>3. /\ t \in Seq(S) /\ Len(t) = Len(s) + 1
      /\ \A i \in 1 .. Len(s) : t[i] = s[i]
      /\ t[Len(s) + 1] = e
  BY <1>1, <1>2, AppendProperties
<1>4. Len(s) \in Nat /\ DOMAIN s = 1 .. Len(s) /\ DOMAIN t = 1 .. Len(t)
  BY <1>1, <1>3
<1> HIDE DEF t
<1>5. IsSequence(t)
  BY <1>3, <1>4 DEF IsSequence
<1> QED
  BY <1>3, <1>4, <1>5 DEF t

LEMMA FrontIsSequence ==
    ASSUME NEW s, IsSequence(s), s # <<>>
    PROVE  LET t == SubSeq(s, 1, Len(s) - 1)
           IN /\ IsSequence(t) /\ Len(t) = Len(s) - 1 /\ Len(s) \in Nat \ {0}
              /\ Len(s) \in DOMAIN s
              /\ \A i \in DOMAIN t : i \in DOMAIN s /\ t[i] = s[i]
<1> DEFINE S == {s[i] : i \in DOMAIN s}
           n == Len(s) - 1
           t == SubSeq(s, 1, n)
<1>1. s \in Seq(S)
  BY DEF IsSequence
<1> HIDE DEF S
<1>2. Len(s) \in Nat \ {0} /\ DOMAIN s = 1 .. Len(s)
  BY <1>1, EmptySeq
<1>3. \A i \in 1 .. n : s[i] \in S
  BY <1>1, <1>2
<1>4. n \in Nat /\ 1 \in Int
  BY <1>2
<1>5. /\ t \in Seq(S) /\ Len(t) = IF 1 <= n THEN n - 1 + 1 ELSE 0
      /\ \A i \in 1 .. n - 1 + 1 : t[i] = s[1 + i - 1]
  BY <1>1, <1>3, <1>4, SubSeqProperties
<1>6. \A k \in Nat : (IF 1 <= k THEN k - 1 + 1 ELSE 0) = k /\ k - 1 + 1 = k
  OBVIOUS
<1>7. Len(t) = n /\ \A i \in 1 .. n : t[i] = s[1 + i - 1]
  BY <1>4, <1>5, <1>6
<1>8. \A i \in 1 .. n : t[i] = s[i] /\ i \in 1 .. Len(s)
  BY <1>2, <1>7
<1>9. DOMAIN t = 1 .. n /\ DOMAIN t = 1 .. Len(t)
  BY <1>5, <1>7
<1> HIDE DEF t
<1>10. IsSequence(t)
  <2> DEFINE R == {t[i] : i \in DOMAIN t}
  <2>1. \A i \in 1 .. Len(t) : t[i] \in R
    BY <1>9
  <2> HIDE DEF R
  <2>2. t \in Seq(R)
    BY <1>5, <2>1
  <2> QED
    BY <2>2 DEF IsSequence, R
<1> QED
  BY <1>2, <1>7, <1>8, <1>9, <1>10 DEF t

LEMMA SequenceFacts ==
    ASSUME NEW s, IsSequence(s)
    PROVE  Len(s) \in Nat /\ DOMAIN s = 1 .. Len(s)
BY LenProperties DEF IsSequence

LEMMA ElementsOf ==
    ASSUME NEW s, NEW S, s \in Seq(S)
    PROVE  IsSequence(s)
<1> DEFINE R == {s[i] : i \in DOMAIN s}
<1>1. \A i \in 1 .. Len(s) : s[i] \in R
  BY LenProperties
<1> HIDE DEF R
<1>2. s \in Seq(R)
  BY <1>1
<1> QED
  BY <1>2 DEF IsSequence, R

\* Every element of the concatenation is one of the two.
LEMMA ConcatFacts ==
    ASSUME NEW s, NEW t, IsSequence(s), IsSequence(t)
    PROVE  /\ IsSequence(s \o t)
           /\ \A k \in DOMAIN (s \o t) :
                \/ \E i \in DOMAIN s : (s \o t)[k] = s[i]
                \/ \E i \in DOMAIN t : (s \o t)[k] = t[i]
<1> DEFINE S == {s[i] : i \in DOMAIN s}
           T == {t[i] : i \in DOMAIN t}
           c == s \o t
<1>1. s \in Seq(S) /\ t \in Seq(T)
  BY DEF IsSequence
<1>2. /\ Len(s) \in Nat /\ DOMAIN s = 1 .. Len(s)
      /\ Len(t) \in Nat /\ DOMAIN t = 1 .. Len(t)
  BY SequenceFacts
<1> HIDE DEF S, T
<1>3. s \in Seq(S \cup T)
  BY <1>1, SeqMonotonic
<1>4. t \in Seq(S \cup T)
  BY <1>1, SeqMonotonic
<1>5. /\ c \in Seq(S \cup T) /\ Len(c) = Len(s) + Len(t)
      /\ \A i \in 1 .. Len(s) + Len(t) : c[i] = IF i <= Len(s) THEN s[i] ELSE t[i - Len(s)]
  BY <1>3, <1>4, ConcatProperties
<1>6. IsSequence(c)
  BY <1>5, ElementsOf
<1>7. DOMAIN c = 1 .. Len(s) + Len(t)
  BY <1>5, <1>6, SequenceFacts
<1> HIDE DEF c
<1>8. ASSUME NEW k \in DOMAIN c
      PROVE  (\E i \in DOMAIN s : c[k] = s[i]) \/ (\E i \in DOMAIN t : c[k] = t[i])
  <2>1. CASE k <= Len(s)
    BY <1>2, <1>5, <1>7, <2>1
  <2>2. CASE ~(k <= Len(s))
    <3>1. k - Len(s) \in DOMAIN t /\ c[k] = t[k - Len(s)]
      BY <1>2, <1>5, <1>7, <2>2
    <3> QED
      BY <3>1
  <2> QED
    BY <2>1, <2>2
<1> QED
  BY <1>6, <1>8 DEF c

LEMMA TailFacts ==
    ASSUME NEW s, IsSequence(s), s # <<>>
    PROVE  /\ IsSequence(Tail(s)) /\ 1 \in DOMAIN s
           /\ \A k \in DOMAIN Tail(s) : \E i \in DOMAIN s : Tail(s)[k] = s[i]
<1> DEFINE S == {s[i] : i \in DOMAIN s}
           t == Tail(s)
<1>1. s \in Seq(S)
  BY DEF IsSequence
<1> HIDE DEF S
<1>2. /\ t \in Seq(S) /\ Len(t) = Len(s) - 1
      /\ \A i \in 1 .. Len(t) : t[i] = s[i + 1]
  BY <1>1, HeadTailProperties
<1>3. Len(s) \in Nat \ {0} /\ DOMAIN s = 1 .. Len(s)
  BY <1>1, EmptySeq, SequenceFacts
<1>4. IsSequence(t)
  BY <1>2, ElementsOf
<1>5. DOMAIN t = 1 .. Len(t)
  BY <1>4, SequenceFacts
<1> HIDE DEF t
<1>6. ASSUME NEW k \in DOMAIN t PROVE \E i \in DOMAIN s : t[k] = s[i]
  <2>1. k + 1 \in DOMAIN s /\ t[k] = s[k + 1]
    BY <1>2, <1>3, <1>5
  <2> QED
    BY <2>1
<1> QED
  BY <1>3, <1>4, <1>6 DEF t

-----------------------------------------------------------------------------
(* The graph *)

LEMMA RootStep ==
    ASSUME Numbered, PrintRoot
    PROVE  Numbered'
<1>1. /\ boxes = <<>> /\ boxes' = <<Box(lastID, 1)>> /\ visits' = <<Visit(lastID, 1)>>
      /\ arrows' = arrows /\ lastID' = lastID /\ lastID = 0
  BY DEF PrintRoot, NotPrinted, Numbered
<1>2. /\ IsSequence(boxes') /\ Len(boxes') = 1 /\ DOMAIN boxes' = {1}
      /\ boxes'[1] = Box(lastID, 1)
  BY <1>1 DEF IsSequence
<1>3. /\ IsSequence(visits') /\ DOMAIN visits' = {1} /\ visits'[1] = Visit(lastID, 1)
  BY <1>1 DEF IsSequence
<1>4. boxes'[1].id = 0 /\ "cur" \in DOMAIN visits'[1] /\ visits'[1].cur = 0
  BY <1>1, <1>2, <1>3 DEF Box, Visit
<1> QED
  BY <1>1, <1>2, <1>3, <1>4 DEF Numbered, NotPrinted

\* The visit that is left has its number still.
LEMMA OuterVisits ==
    ASSUME Numbered, Printing, NEW line
    PROVE  /\ IsSequence(Outer) /\ IsSequence(Without(line))
           /\ \A v \in DOMAIN Outer :
                "cur" \in DOMAIN Outer[v] /\ Outer[v].cur \in 0 .. lastID
           /\ \A v \in DOMAIN Without(line) :
                "cur" \in DOMAIN Without(line)[v] /\ Without(line)[v].cur \in 0 .. lastID
           /\ Innermost.cur \in 0 .. lastID
<1>1. IsSequence(visits) /\ visits # <<>>
  BY DEF Numbered, Printing
<1>2. /\ IsSequence(Outer) /\ Len(visits) \in DOMAIN visits
      /\ \A v \in DOMAIN Outer : v \in DOMAIN visits /\ Outer[v] = visits[v]
  BY <1>1, FrontIsSequence DEF Outer
<1>3. \A v \in DOMAIN visits : "cur" \in DOMAIN visits[v] /\ visits[v].cur \in 0 .. lastID
  BY DEF Numbered
<1>4. \A v \in DOMAIN Outer : "cur" \in DOMAIN Outer[v] /\ Outer[v].cur \in 0 .. lastID
  BY <1>2, <1>3
<1>5. "cur" \in DOMAIN Innermost /\ Innermost.cur \in 0 .. lastID
  BY <1>2, <1>3 DEF Innermost
<1> DEFINE last == [Innermost EXCEPT !.left = @ \ {line}]
           without == Without(line)
<1>6. "cur" \in DOMAIN last /\ last.cur = Innermost.cur
  BY <1>5
<1> HIDE DEF last
<1>7. without = Append(Outer, last)
  BY DEF Without, last
<1> HIDE DEF without
<1>8. /\ IsSequence(without) /\ DOMAIN without = 1 .. Len(Outer) + 1
      /\ DOMAIN Outer = 1 .. Len(Outer)
      /\ \A v \in DOMAIN Outer : without[v] = Outer[v]
      /\ without[Len(Outer) + 1] = last /\ Len(Outer) \in Nat
  BY <1>2, <1>7, AppendIsSequence
<1>9. ASSUME NEW v \in DOMAIN without
      PROVE  "cur" \in DOMAIN without[v] /\ without[v].cur \in 0 .. lastID
  <2>1. v \in DOMAIN Outer \/ v = Len(Outer) + 1
    BY <1>8
  <2> QED
    BY <1>4, <1>5, <1>6, <1>8, <2>1
<1> QED
  BY <1>2, <1>4, <1>5, <1>8, <1>9 DEF without

\* An edge and a box more, with the next number.
LEMMA LineStep ==
    ASSUME Numbered, Printing, NEW label, NEW node,
           lastID' = lastID + 1,
           arrows' = Append(arrows, Arrow(Innermost.cur, lastID + 1, label)),
           boxes' = Append(boxes, Box(lastID + 1, node)),
           IsSequence(visits'),
           \A v \in DOMAIN visits' :
               "cur" \in DOMAIN visits'[v] /\ visits'[v].cur \in 0 .. lastID + 1
    PROVE  Numbered'
<1>1. /\ lastID \in Nat /\ IsSequence(boxes) /\ IsSequence(arrows)
      /\ Len(arrows) = lastID /\ Len(boxes) = lastID + 1
      /\ \A a \in DOMAIN arrows : arrows[a].to = a /\ arrows[a].from \in 0 .. a - 1
      /\ \A b \in DOMAIN boxes : boxes[b].id = b - 1
  BY DEF Numbered, NotPrinted
<1>2. Innermost.cur \in 0 .. lastID
  BY OuterVisits
<1> DEFINE arrow == Arrow(Innermost.cur, lastID + 1, label)
           box == Box(lastID + 1, node)
<1>3. arrow.to = lastID + 1 /\ arrow.from = Innermost.cur /\ box.id = lastID + 1
  BY DEF Arrow, Box
<1> HIDE DEF arrow, box
<1>4. arrows' = Append(arrows, arrow) /\ boxes' = Append(boxes, box)
  BY DEF arrow, box
<1>5. /\ IsSequence(arrows') /\ Len(arrows') = lastID + 1
      /\ DOMAIN arrows' = 1 .. lastID + 1 /\ DOMAIN arrows = 1 .. lastID
      /\ \A a \in DOMAIN arrows : arrows'[a] = arrows[a]
      /\ arrows'[lastID + 1] = arrow
  BY <1>1, <1>4, AppendIsSequence
<1>6. /\ IsSequence(boxes') /\ Len(boxes') = lastID + 1 + 1
      /\ DOMAIN boxes' = 1 .. lastID + 1 + 1 /\ DOMAIN boxes = 1 .. lastID + 1
      /\ \A b \in DOMAIN boxes : boxes'[b] = boxes[b]
      /\ boxes'[lastID + 1 + 1] = box
  BY <1>1, <1>4, AppendIsSequence
<1>7. ASSUME NEW a \in DOMAIN arrows'
      PROVE  arrows'[a].to = a /\ arrows'[a].from \in 0 .. a - 1
  <2>1. a \in DOMAIN arrows \/ a = lastID + 1
    BY <1>1, <1>5
  <2>2. ASSUME a \in DOMAIN arrows
        PROVE  arrows'[a].to = a /\ arrows'[a].from \in 0 .. a - 1
    BY <1>1, <1>5, <2>2
  <2>3. ASSUME a = lastID + 1
        PROVE  arrows'[a].to = a /\ arrows'[a].from \in 0 .. a - 1
    <3>1. arrows'[a].to = a /\ arrows'[a].from = Innermost.cur
      BY <1>3, <1>5, <2>3
    <3>2. a - 1 = lastID
      BY <1>1, <2>3
    <3> QED
      BY <1>2, <3>1, <3>2
  <2> QED
    BY <2>1, <2>2, <2>3
<1>8. ASSUME NEW b \in DOMAIN boxes'
      PROVE  boxes'[b].id = b - 1
  <2>1. b \in DOMAIN boxes \/ b = lastID + 1 + 1
    BY <1>1, <1>6
  <2>2. ASSUME b \in DOMAIN boxes PROVE boxes'[b].id = b - 1
    BY <1>1, <1>6, <2>2
  <2>3. ASSUME b = lastID + 1 + 1 PROVE boxes'[b].id = b - 1
    <3>1. b - 1 = lastID + 1
      BY <1>1, <2>3
    <3> QED
      BY <1>3, <1>6, <2>3, <3>1
  <2> QED
    BY <2>1, <2>2, <2>3
<1>9. boxes' # <<>> /\ lastID + 1 \in Nat
  BY <1>1, <1>6
<1> QED
  BY <1>1, <1>5, <1>6, <1>7, <1>8, <1>9 DEF Numbered, NotPrinted

LEMMA ChildStep ==
    ASSUME Numbered, Printing, NEW line, visitChild(line)
    PROVE  Numbered'
<1> DEFINE node == line.node
           label == line.label
           visit == Visit(lastID + 1, node)
           without == Without(line)
<1>1. /\ lastID' = lastID + 1
      /\ arrows' = Append(arrows, Arrow(Innermost.cur, lastID + 1, label))
      /\ boxes' = Append(boxes, Box(lastID + 1, node))
      /\ visits' = Append(without, visit)
  BY DEF visitChild
<1>2. lastID \in Nat
  BY DEF Numbered
<1>3. "cur" \in DOMAIN visit /\ visit.cur = lastID + 1
  BY DEF Visit
<1>4. /\ IsSequence(without)
      /\ \A v \in DOMAIN without :
            "cur" \in DOMAIN without[v] /\ without[v].cur \in 0 .. lastID
  BY OuterVisits
<1> HIDE DEF visit, node, label, without
<1>5. /\ IsSequence(visits') /\ DOMAIN visits' = 1 .. Len(without) + 1
      /\ DOMAIN without = 1 .. Len(without)
      /\ \A v \in DOMAIN without : visits'[v] = without[v]
      /\ visits'[Len(without) + 1] = visit /\ Len(without) \in Nat
  BY <1>1, <1>4, AppendIsSequence
<1>6. ASSUME NEW v \in DOMAIN visits'
      PROVE  "cur" \in DOMAIN visits'[v] /\ visits'[v].cur \in 0 .. lastID + 1
  <2>1. v \in DOMAIN without \/ v = Len(without) + 1
    BY <1>5
  <2>2. ASSUME v \in DOMAIN without
        PROVE  "cur" \in DOMAIN visits'[v] /\ visits'[v].cur \in 0 .. lastID + 1
    BY <1>2, <1>4, <1>5, <2>2
  <2>3. ASSUME v = Len(without) + 1
        PROVE  "cur" \in DOMAIN visits'[v] /\ visits'[v].cur \in 0 .. lastID + 1
    BY <1>2, <1>3, <1>5, <2>3
  <2> QED
    BY <2>1, <2>2, <2>3
<1> QED
  BY <1>1, <1>5, <1>6, LineStep

LEMMA LeafStep ==
    ASSUME Numbered, Printing, NEW line, printLeaf(line)
    PROVE  Numbered'
<1> DEFINE label == line.label
           without == Without(line)
<1>1. /\ lastID' = lastID + 1
      /\ arrows' = Append(arrows, Arrow(Innermost.cur, lastID + 1, label))
      /\ boxes' = Append(boxes, Box(lastID + 1, NoNode))
      /\ visits' = without
  BY DEF printLeaf
<1>2. lastID \in Nat
  BY DEF Numbered
<1>3. /\ IsSequence(without)
      /\ \A v \in DOMAIN without :
            "cur" \in DOMAIN without[v] /\ without[v].cur \in 0 .. lastID
  BY OuterVisits
<1> HIDE DEF label, without
<1>4. \A v \in DOMAIN visits' :
          "cur" \in DOMAIN visits'[v] /\ visits'[v].cur \in 0 .. lastID + 1
  BY <1>1, <1>2, <1>3
<1> QED
  BY <1>1, <1>3, <1>4, LineStep

LEMMA EndStep ==
    ASSUME Numbered, EndVisit
    PROVE  Numbered'
<1>1. /\ Printing /\ visits' = Outer /\ UNCHANGED <<boxes, arrows, lastID>>
  BY DEF EndVisit
<1>2. /\ IsSequence(Outer)
      /\ \A v \in DOMAIN Outer : "cur" \in DOMAIN Outer[v] /\ Outer[v].cur \in 0 .. lastID
  BY <1>1, OuterVisits
<1> QED
  BY <1>1, <1>2 DEF Numbered, NotPrinted

LEMMA GraphUnchanged ==
    ASSUME UNCHANGED graphVars
    PROVE  /\ Numbered => Numbered'
           /\ WholeGraph => WholeGraph'
BY DEF graphVars, Numbered, NotPrinted, WholeGraph, Printing

\* What the steps of main() are to the graph.
LEMMA GraphSteps ==
    ASSUME [Next]_vars
    PROVE  \/ phase = "print" /\ (PrintRoot \/ PrintStep) /\ UNCHANGED mainVars
           \/ UNCHANGED graphVars
<1> USE DEF vars, printVars
<1>1. CASE Parse
  BY <1>1 DEF Parse, Grow, GrowNode, GrowElement, GrowList, LeaveOut
<1>2. CASE PrintGraph
  BY <1>2 DEF PrintGraph
<1>3. CASE \E option \in {"srcPath", "destPath", "llvmDestPath"} : PathOption(option)
  BY <1>3 DEF PathOption
<1>4. CASE GraphOption \/ BadArgument \/ EndOfArgs \/ OpenSource \/ ParseFails
  BY <1>4 DEF GraphOption, BadArgument, EndOfArgs, OpenSource, ParseFails
<1>5. CASE Analyse \/ Generate \/ OpenLLVM \/ EmitLLVM
  BY <1>5 DEF Analyse, Generate, OpenLLVM, EmitLLVM
<1>6. CASE OpenRISCV \/ EmitRISCV \/ Finished \/ UNCHANGED vars
  BY <1>6 DEF OpenRISCV, EmitRISCV, Finished
<1> QED
  BY <1>1, <1>2, <1>3, <1>4, <1>5, <1>6 DEF Next

LEMMA NumberedStep == Numbered /\ [Next]_vars => Numbered'
<1> SUFFICES ASSUME Numbered, [Next]_vars PROVE Numbered'
  OBVIOUS
<1>1. \/ PrintRoot \/ EndVisit \/ UNCHANGED graphVars
      \/ Printing /\ \E line \in Innermost.left : visitChild(line) \/ printLeaf(line)
  BY GraphSteps DEF PrintStep
<1> QED
  BY <1>1, RootStep, ChildStep, LeafStep, EndStep, GraphUnchanged

-----------------------------------------------------------------------------
(* The files *)

LEMMA InitInv == Init => DriverInv
<1> SUFFICES ASSUME Init PROVE DriverInv
  OBVIOUS
<1>1. MainTypeOK
  BY DEF Init, MainTypeOK, Phase, ArgsType, Content
<1>2. Numbered
  BY DEF Init, GraphInit, Numbered, IsSequence, NotPrinted, Printing
<1>3. FilesInPhase
  BY DEF Init, FilesInPhase, OnlyLLVM, Phase
<1>4. GraphInPhase
  BY DEF Init, GraphInPhase, GraphBeforeFiles, Written1
<1> QED
  BY <1>1, <1>2, <1>3, <1>4 DEF DriverInv

LEMMA MainTypeStep == MainTypeOK /\ [Next]_vars => MainTypeOK'
<1> SUFFICES ASSUME MainTypeOK, [Next]_vars PROVE MainTypeOK'
  OBVIOUS
<1> USE DEF MainTypeOK, Phase, Content, Go, Exit, Fails
<1>1. CASE \E option \in {"srcPath", "destPath", "llvmDestPath"} : PathOption(option)
  <2>1. PICK option \in {"srcPath", "destPath", "llvmDestPath"}, path \in Path :
            args' = [args EXCEPT ![option] = path] /\ UNCHANGED <<phase, files, opened, status>>
    BY <1>1 DEF PathOption
  <2>2. args' \in ArgsType
    BY <2>1 DEF ArgsType
  <2> QED
    BY <2>1, <2>2
<1>2. CASE GraphOption
  BY <1>2 DEF GraphOption, ArgsType
<1>3. CASE BadArgument \/ EndOfArgs \/ OpenSource \/ ParseFails
  BY <1>3 DEF BadArgument, EndOfArgs, OpenSource, ParseFails
<1>4. CASE Parse \/ Analyse \/ PrintGraph \/ Generate
  BY <1>4 DEF Parse, Analyse, PrintGraph, Generate, mainVars
<1>5. CASE OpenLLVM
  BY <1>5 DEF OpenLLVM, Truncated, ArgsType
<1>6. CASE EmitLLVM
  BY <1>6 DEF EmitLLVM, Written, ArgsType
<1>7. CASE OpenRISCV \/ EmitRISCV
  BY <1>7 DEF OpenRISCV, EmitRISCV, Truncated, Written, ArgsType
<1>8. CASE Finished \/ UNCHANGED vars
  BY <1>8 DEF Finished, vars, mainVars
<1> QED
  BY <1>1, <1>2, <1>3, <1>4, <1>5, <1>6, <1>7, <1>8 DEF Next

\* Until a file is opened it does not matter what it will hold.
LEMMA NothingOpened ==
    ASSUME FilesInPhase, phase \in Phase \ {"emitLLVM", "riscv", "emitRISCV", "done"}
    PROVE  /\ ~opened /\ status = "running"
           /\ \A p \in Path : files[p] = "old"
BY DEF FilesInPhase, OnlyLLVM

\* The phases before the first file.
LEMMA EarlyStep ==
    ASSUME MainTypeOK, FilesInPhase, UNCHANGED <<files, opened>>,
           phase \in Phase \ {"emitLLVM", "riscv", "emitRISCV", "done"},
           \/ phase' \in Phase \ {"emitLLVM", "riscv", "emitRISCV", "done"} /\ status' = status
           \/ phase' = "done" /\ status' \in {"1", "crash"}
    PROVE  FilesInPhase'
<1>1. /\ ~opened' /\ status = "running"
      /\ \A p \in Path : files'[p] = "old"
  BY NothingOpened
<1>2. \A c : OnlyLLVM(c)'
  BY <1>1 DEF OnlyLLVM
<1> QED
  BY <1>1, <1>2 DEF FilesInPhase

LEMMA LLVMSteps ==
    ASSUME MainTypeOK, FilesInPhase, OpenLLVM \/ EmitLLVM
    PROVE  FilesInPhase'
<1>1. files \in [Path -> Content] /\ args \in ArgsType
  BY DEF MainTypeOK
<1>2. CASE OpenLLVM
  <2>1. /\ phase = "llvm" /\ args' = args /\ status' = status
        /\ \/ args.llvmDestPath = NoPath /\ phase' = "riscv" /\ UNCHANGED <<files, opened>>
           \/ /\ args.llvmDestPath # NoPath /\ phase' = "emitLLVM"
              /\ \/ files' = Truncated(args.llvmDestPath) /\ opened' = TRUE
                 \/ UNCHANGED <<files, opened>>
    BY <1>2 DEF OpenLLVM, Go
  <2>2. ~opened /\ status = "running" /\ \A p \in Path : files[p] = "old"
    BY <2>1, NothingOpened DEF Phase
  <2>3. CASE UNCHANGED <<files, opened>>
    <3>1. OnlyLLVM("empty")' /\ OnlyLLVM("llvm")'
      BY <2>2, <2>3 DEF OnlyLLVM
    <3> QED
      BY <2>1, <2>2, <3>1 DEF FilesInPhase
  <2>4. CASE /\ args.llvmDestPath # NoPath /\ phase' = "emitLLVM"
             /\ files' = Truncated(args.llvmDestPath) /\ opened' = TRUE
    <3>1. args.llvmDestPath \in Path
      BY <1>1, <2>4 DEF ArgsType
    <3>2. OnlyLLVM("empty")'
      BY <1>1, <2>1, <2>2, <2>4, <3>1 DEF OnlyLLVM, Truncated
    <3> QED
      BY <2>1, <2>2, <2>4, <3>2 DEF FilesInPhase
  <2> QED
    BY <2>1, <2>3, <2>4
<1>3. CASE EmitLLVM
  <2>1. phase = "emitLLVM" /\ args' = args /\ opened' = opened
    BY <1>3 DEF EmitLLVM
  <2>2. OnlyLLVM("empty") /\ status = "running"
    BY <2>1 DEF FilesInPhase
  <2>3. ASSUME NEW c, files' = IF opened THEN Written(args.llvmDestPath, c) ELSE files
        PROVE  OnlyLLVM(c)'
    BY <1>1, <2>1, <2>2, <2>3 DEF OnlyLLVM, Written
  <2>4. ASSUME files' = files PROVE OnlyLLVM("empty")'
    BY <2>1, <2>2, <2>4 DEF OnlyLLVM
  <2>5. CASE Go("riscv") /\ files' = IF opened THEN Written(args.llvmDestPath, "llvm") ELSE files
    <3>1. OnlyLLVM("llvm")'
      BY <2>3, <2>5
    <3> QED
      BY <2>2, <2>5, <3>1 DEF FilesInPhase, Go, Phase
  <2>6. CASE Exit("1") /\ files' = IF opened THEN Written(args.llvmDestPath, "part") ELSE files
    <3>1. OnlyLLVM("part")'
      BY <2>3, <2>6
    <3> QED
      BY <2>6, <3>1 DEF FilesInPhase, Exit
  <2>7. CASE Exit("crash") /\ opened /\ files' = Written(args.llvmDestPath, "part")
    <3>1. OnlyLLVM("part")'
      BY <2>3, <2>7
    <3> QED
      BY <2>7, <3>1 DEF FilesInPhase, Exit
  <2>8. CASE Exit("crash") /\ files' = files
    <3>1. OnlyLLVM("empty")'
      BY <2>4, <2>8
    <3> QED
      BY <2>8, <3>1 DEF FilesInPhase, Exit
  <2> QED
    BY <1>3, <2>5, <2>6, <2>7, <2>8 DEF EmitLLVM
<1> QED
  BY <1>2, <1>3

LEMMA RISCVSteps ==
    ASSUME MainTypeOK, FilesInPhase, OpenRISCV \/ EmitRISCV
    PROVE  FilesInPhase'
<1>1. files \in [Path -> Content] /\ args \in ArgsType
  BY DEF MainTypeOK
<1>2. CASE OpenRISCV
  <2>1. phase = "riscv" /\ args' = args /\ opened' = opened
    BY <1>2 DEF OpenRISCV
  <2>2. OnlyLLVM("llvm") /\ status = "running"
    BY <2>1 DEF FilesInPhase
  <2>3. CASE files' = files /\ ((args.destPath = NoPath /\ Exit("0")) \/ Exit("1"))
    <3>1. OnlyLLVM("llvm")'
      BY <2>1, <2>2, <2>3 DEF OnlyLLVM
    <3>2. CASE args.destPath = NoPath /\ Exit("0")
      BY <2>1, <3>1, <3>2 DEF FilesInPhase, Exit
    <3>3. CASE Exit("1")
      BY <3>1, <3>3 DEF FilesInPhase, Exit
    <3> QED
      BY <2>3, <3>2, <3>3
  <2>4. CASE args.destPath # NoPath /\ Go("emitRISCV") /\ files' = Truncated(args.destPath)
    <3>1. args.destPath \in Path
      BY <1>1, <2>4 DEF ArgsType
    <3>2. Assembly("empty")'
      BY <1>1, <2>1, <2>2, <2>4, <3>1 DEF OnlyLLVM, Assembly, Truncated
    <3> QED
      BY <2>2, <2>4, <3>2 DEF FilesInPhase, Go, Phase
  <2> QED
    BY <1>2, <2>3, <2>4 DEF OpenRISCV
<1>3. CASE EmitRISCV
  <2>1. phase = "emitRISCV" /\ args' = args /\ opened' = opened
    BY <1>3 DEF EmitRISCV
  <2>2. Assembly("empty")
    BY <2>1 DEF FilesInPhase
  <2>3. ASSUME NEW c, files' = Written(args.destPath, c) PROVE Assembly(c)'
    BY <1>1, <2>1, <2>2, <2>3 DEF Assembly, Written
  <2>4. CASE Exit("0") /\ files' = Written(args.destPath, "asm")
    <3>1. Assembly("asm")'
      BY <2>3, <2>4
    <3> QED
      BY <2>4, <3>1 DEF FilesInPhase, Exit
  <2>5. CASE (Exit("1") \/ Exit("crash")) /\ files' = Written(args.destPath, "part")
    <3>1. Assembly("part")'
      BY <2>3, <2>5
    <3> QED
      BY <2>5, <3>1 DEF FilesInPhase, Exit
  <2>6. CASE Exit("crash") /\ files' = files
    <3>1. Assembly("empty")'
      BY <2>1, <2>2, <2>6 DEF Assembly
    <3> QED
      BY <2>6, <3>1 DEF FilesInPhase, Exit
  <2> QED
    BY <1>3, <2>4, <2>5, <2>6 DEF EmitRISCV
<1> QED
  BY <1>2, <1>3

LEMMA FilesStep == MainTypeOK /\ FilesInPhase /\ [Next]_vars => FilesInPhase'
<1> SUFFICES ASSUME MainTypeOK, FilesInPhase, [Next]_vars PROVE FilesInPhase'
  OBVIOUS
<1>1. CASE \/ \E option \in {"srcPath", "destPath", "llvmDestPath"} : PathOption(option)
           \/ GraphOption \/ BadArgument \/ EndOfArgs
  BY <1>1, EarlyStep
     DEF PathOption, GraphOption, BadArgument, EndOfArgs, NextArg, Go, Exit, Phase
<1>2. CASE OpenSource \/ Parse \/ ParseFails
  BY <1>2, EarlyStep DEF OpenSource, Parse, ParseFails, mainVars, Go, Exit, Phase
<1>3. CASE Analyse \/ PrintGraph \/ Generate
  BY <1>3, EarlyStep DEF Analyse, PrintGraph, Generate, mainVars, Go, Exit, Fails, Phase
<1>4. CASE UNCHANGED mainVars
  BY <1>4 DEF mainVars, FilesInPhase, OnlyLLVM, Assembly
<1> QED
  BY <1>1, <1>2, <1>3, <1>4, LLVMSteps, RISCVSteps DEF Next, vars, Finished

\* Only the last phases lead to a success or touch a file, and the first of
\* them waits for the graph.
LEMMA PhaseSteps ==
    ASSUME MainTypeOK, [Next]_vars
    PROVE  \/ /\ phase' \in {"args", "open", "parse", "sema", "print", "done"}
              /\ status' \in {status, "1", "crash"} /\ files' = files
           \/ ~args'.printGraph
           \/ phase = "print" /\ WholeGraph /\ args' = args
           \/ /\ phase \in {"irgen", "llvm", "emitLLVM", "riscv", "emitRISCV"}
              /\ args' = args
           \/ UNCHANGED mainVars
<1>1. CASE \/ \E option \in {"srcPath", "destPath", "llvmDestPath"} : PathOption(option)
           \/ GraphOption \/ BadArgument \/ EndOfArgs
  BY <1>1 DEF PathOption, GraphOption, BadArgument, EndOfArgs, NextArg, Go, Exit
<1>2. CASE OpenSource \/ Parse \/ ParseFails
  BY <1>2 DEF OpenSource, Parse, ParseFails, mainVars, Go, Exit
<1>3. CASE Analyse
  <2>1. /\ phase = "sema" /\ args' = args /\ files' = files
        /\ Go(IF args.printGraph THEN "print" ELSE "irgen") \/ Exit("1") \/ Exit("crash")
    BY <1>3 DEF Analyse, Fails
  <2>2. CASE Go(IF args.printGraph THEN "print" ELSE "irgen")
    <3>1. CASE args.printGraph
      <4>1. phase' = "print" /\ status' = status
        BY <2>2, <3>1 DEF Go
      <4> QED
        BY <2>1, <4>1
    <3>2. CASE ~args.printGraph
      BY <2>1, <3>2
    <3> QED
      BY <3>1, <3>2
  <2>3. CASE Exit("1") \/ Exit("crash")
    BY <2>1, <2>3 DEF Exit
  <2> QED
    BY <2>1, <2>2, <2>3
<1>4. CASE PrintGraph
  BY <1>4 DEF PrintGraph, mainVars
<1>5. CASE Generate \/ OpenLLVM \/ EmitLLVM \/ OpenRISCV \/ EmitRISCV
  BY <1>5 DEF Generate, OpenLLVM, EmitLLVM, OpenRISCV, EmitRISCV
<1>6. CASE Finished \/ UNCHANGED vars
  BY <1>6 DEF Finished, vars
<1> QED
  BY <1>1, <1>2, <1>3, <1>4, <1>5, <1>6 DEF Next

LEMMA GraphPhaseStep ==
    ASSUME MainTypeOK, FilesInPhase, GraphInPhase, [Next]_vars
    PROVE  GraphInPhase'
<1> DEFINE Late == {"irgen", "llvm", "emitLLVM", "riscv", "emitRISCV"}
<1>1. CASE phase = "print" /\ (PrintRoot \/ PrintStep) /\ UNCHANGED mainVars
  <2>1. status = "running" /\ \A p \in Path : files[p] = "old"
    BY <1>1, NothingOpened DEF Phase
  <2> QED
    BY <1>1, <2>1 DEF GraphInPhase, GraphBeforeFiles, Written1, mainVars
<1>2. CASE UNCHANGED graphVars
  <2>1. WholeGraph => WholeGraph'
    BY <1>2, GraphUnchanged
  <2>2. CASE ~args'.printGraph
    BY <2>2 DEF GraphInPhase, GraphBeforeFiles
  <2>3. CASE phase = "print" /\ WholeGraph
    BY <2>1, <2>3 DEF GraphInPhase, GraphBeforeFiles
  <2>4. CASE phase \in Late /\ args' = args
    <3>1. args.printGraph => WholeGraph
      BY <2>4 DEF GraphInPhase
    <3> QED
      BY <2>1, <2>4, <3>1 DEF GraphInPhase, GraphBeforeFiles
  <2>5. CASE UNCHANGED mainVars
    BY <2>1, <2>5 DEF GraphInPhase, GraphBeforeFiles, mainVars, Written1
  <2>6. CASE /\ phase' \in {"args", "open", "parse", "sema", "print", "done"}
             /\ status' \in {status, "1", "crash"} /\ files' = files
             /\ ~(UNCHANGED mainVars) /\ phase \notin Late
    <3>1. phase # "done"
      BY <2>6 DEF Next, Finished, PathOption, GraphOption, BadArgument, EndOfArgs, NextArg,
             OpenSource, Parse, ParseFails, Analyse, PrintGraph, Generate, OpenLLVM, EmitLLVM,
             OpenRISCV, EmitRISCV, vars
    <3>2. status = "running" /\ \A p \in Path : files[p] = "old"
      BY <2>6, <3>1, NothingOpened DEF MainTypeOK, Phase
    <3> QED
      BY <2>6, <3>2 DEF GraphInPhase, GraphBeforeFiles, Written1
  <2>7. CASE phase \in Late /\ ~(args' = args)
    BY <2>7 DEF Next, Finished, PathOption, GraphOption, BadArgument, EndOfArgs, NextArg,
           OpenSource, Parse, ParseFails, Analyse, PrintGraph, Generate, OpenLLVM, EmitLLVM,
           OpenRISCV, EmitRISCV, vars, mainVars
  <2> QED
    BY <2>2, <2>3, <2>4, <2>5, <2>6, <2>7, PhaseSteps
<1> QED
  BY <1>1, <1>2, GraphSteps

-----------------------------------------------------------------------------
(* What a call promises *)

LEMMA AtMostOne ==
    ASSUME NEW S, NEW e, S \subseteq {e}
    PROVE  Cardinality(S) <= 1
<1>1. CASE S = {}
  <2>1. Cardinality(S) = 0
    BY <1>1, FS_EmptySet
  <2> QED
    BY <2>1
<1>2. CASE S = {e}
  <2>1. Cardinality(S) = 1
    BY <1>2, FS_Singleton
  <2> QED
    BY <2>1
<1> QED
  BY <1>1, <1>2

\* The boxes are numbered in the order of their lines, and a file holds what
\* the phase that main() is in has made of it.
THEOREM KeepsDriverInv == Spec => []DriverInv
<1>1. DriverInv /\ [Next]_vars => DriverInv'
  BY NumberedStep, MainTypeStep, FilesStep, GraphPhaseStep DEF DriverInv
<1> QED
  BY <1>1, InitInv, PTL DEF Spec

\* The graph is a tree grown from box 0, whatever the size and shape of the
\* program: one counter numbers the boxes of all nested visits.
THEOREM PrintsTree == Spec => []GraphIsTree
<1>1. Numbered => GraphIsTree
  <2> SUFFICES ASSUME Numbered PROVE GraphIsTree
    OBVIOUS
  <2>1. lastID \in Nat /\ Len(arrows) = lastID /\ DOMAIN arrows = 1 .. lastID
    BY DEF Numbered, IsSequence
  <2>2. \A a \in DOMAIN arrows : arrows[a].to = a /\ arrows[a].from \in 0 .. a - 1
    BY DEF Numbered
  <2>3. \A b \in DOMAIN boxes : boxes[b].id = b - 1
    BY DEF Numbered
  <2>4. /\ DOMAIN boxes = 1 .. Len(boxes) /\ Len(boxes) \in Nat
        /\ Len(boxes) = IF NotPrinted THEN 0 ELSE lastID + 1
    BY DEF Numbered, IsSequence, NotPrinted
  <2>5. ASSUME NEW id \in 1 .. lastID
        PROVE  \E a \in DOMAIN arrows :
                  /\ arrows[a].to = id /\ arrows[a].from \in 0 .. id - 1
                  /\ \A other \in DOMAIN arrows : arrows[other].to = id => other = a
    <3>1. /\ id \in DOMAIN arrows
          /\ arrows[id].to = id /\ arrows[id].from \in 0 .. id - 1
      BY <2>1, <2>2
    <3>2. \A other \in DOMAIN arrows : arrows[other].to = id => other = id
      BY <2>2
    <3> QED
      BY <3>1, <3>2
  <2>6. \A b, other \in DOMAIN boxes : boxes[b].id = boxes[other].id => b = other
    BY <2>3, <2>4
  <2>7. \A b \in DOMAIN boxes : boxes[b].id \in 0 .. lastID
    BY <2>1, <2>3, <2>4
  <2>8. ASSUME WholeGraph, NEW id \in 0 .. lastID
        PROVE  \E b \in DOMAIN boxes : boxes[b].id = id
    <3>1. id + 1 \in DOMAIN boxes
      BY <2>1, <2>4, <2>8 DEF WholeGraph
    <3>2. boxes[id + 1].id = id
      BY <2>1, <2>3, <3>1
    <3> QED
      BY <3>1, <3>2
  <2> QED
    BY <2>5, <2>6, <2>7, <2>8 DEF GraphIsTree
<1> QED
  BY <1>1, KeepsDriverInv, PTL DEF DriverInv

\* The files that were asked for are complete when the status is 0 (and the
\* LLVM file could be opened), and no other file is touched.
THEOREM SuccessIsOutput == Spec => []SuccessMeansOutput
<1>1. MainTypeOK /\ FilesInPhase => SuccessMeansOutput
  <2> SUFFICES ASSUME MainTypeOK, FilesInPhase, status = "0" PROVE SuccessMeansOutput
    BY DEF SuccessMeansOutput
  <2>1. phase = "done"
    BY DEF FilesInPhase
  <2>2. args \in ArgsType
    BY DEF MainTypeOK
  <2>3. CASE args.destPath = NoPath /\ OnlyLLVM("llvm")
    BY <2>2, <2>3 DEF SuccessMeansOutput, OnlyLLVM, ArgsType
  <2>4. CASE Assembly("asm")
    BY <2>2, <2>4 DEF SuccessMeansOutput, Assembly, ArgsType
  <2> QED
    BY <2>1, <2>3, <2>4 DEF FilesInPhase
<1> QED
  BY <1>1, KeepsDriverInv, PTL DEF DriverInv

\* A failing call leaves at most one file that is not whole, and only a
\* successful one leaves an assembly file that is.
THEOREM LeavesOneUnfinished == Spec => []OneFileAtATime
<1>1. MainTypeOK /\ FilesInPhase => OneFileAtATime
  <2> SUFFICES ASSUME MainTypeOK, FilesInPhase PROVE OneFileAtATime
    OBVIOUS
  <2>1. args \in ArgsType /\ phase \in Phase
    BY DEF MainTypeOK
  <2>2. \/ \E c \in {"empty", "part", "llvm"} : OnlyLLVM(c) /\ (status = "0" => c = "llvm")
        \/ \E c \in {"empty", "part"} : Assembly(c) /\ status # "0"
        \/ Assembly("asm") /\ status = "0"
    BY <2>1 DEF FilesInPhase, Phase
  <2>3. CASE \E c \in {"empty", "part", "llvm"} : OnlyLLVM(c) /\ (status = "0" => c = "llvm")
    <3>1. PICK c \in {"empty", "part", "llvm"} : OnlyLLVM(c) /\ (status = "0" => c = "llvm")
      BY <2>3
    <3>2. Unfinished \subseteq {args.llvmDestPath}
      BY <3>1 DEF OnlyLLVM, Unfinished
    <3>3. status = "0" => Unfinished = {}
      BY <3>1 DEF OnlyLLVM, Unfinished
    <3>4. \A p \in Path : files[p] # "asm"
      BY <3>1 DEF OnlyLLVM
    <3>5. args.destPath # NoPath /\ args.llvmDestPath # args.destPath => ~Written1(args.destPath)
      BY <2>1, <3>1 DEF OnlyLLVM, Written1, ArgsType
    <3>6. Cardinality(Unfinished) <= 1
      BY <3>2, AtMostOne
    <3> QED
      BY <3>3, <3>4, <3>5, <3>6 DEF OneFileAtATime
  <2>4. CASE \/ \E c \in {"empty", "part"} : Assembly(c) /\ status # "0"
             \/ Assembly("asm") /\ status = "0"
    <3>1. PICK c \in {"empty", "part", "asm"} : Assembly(c) /\ (status = "0" <=> c = "asm")
      BY <2>4
    <3>2. Unfinished \subseteq {args.destPath}
      BY <3>1 DEF Assembly, Unfinished
    <3>3. status = "0" => Unfinished = {}
      BY <3>1 DEF Assembly, Unfinished
    <3>4. \A p \in Path : files[p] = "asm" => status = "0"
      BY <3>1 DEF Assembly
    <3>5. args.llvmDestPath # args.destPath /\ opened => files[args.llvmDestPath] = "llvm"
      BY <3>1 DEF Assembly
    <3>6. Cardinality(Unfinished) <= 1
      BY <3>2, AtMostOne
    <3> QED
      BY <3>3, <3>4, <3>5, <3>6 DEF OneFileAtATime
  <2> QED
    BY <2>2, <2>3, <2>4
<1> QED
  BY <1>1, KeepsDriverInv, PTL DEF DriverInv

\* Asked for the graph, main() completes it before it touches a file.
THEOREM GraphComesFirst == Spec => []GraphBeforeFiles
<1>1. DriverInv => GraphBeforeFiles
  BY DEF DriverInv, GraphInPhase
<1> QED
  BY <1>1, KeepsDriverInv, PTL

-----------------------------------------------------------------------------
(* The tables *)

LEMMA PrintedNames ==
    /\ DOMAIN PrintedOfDeclarations =
         {"Declaration", "FunctionDefinition", "ParameterDeclaration", "StructDeclaration",
          "DeclarationSpecifiers"}
    /\ DOMAIN PrintedOfSpecifiers =
         {"EnumSpecifier", "StructSpecifier", "TypeName"}
    /\ DOMAIN PrintedOfDeclarators =
         {"ArrayDeclarator", "EnumValueDeclarator", "FunctionDeclarator", "IdentifierDeclarator",
          "InitDeclarator", "PointerDeclarator", "StructMemberDeclarator"}
    /\ DOMAIN PrintedOfExpressions =
         {"CastExpression", "ConditionalExpression", "ConstantExpression",
          "IdentifierExpression", "IncDecExpression", "ListExpression", "PrimaryExpression"}
    /\ DOMAIN PrintedOfOperators =
         {"AddMultExpression", "BitwiseExpression", "EqualityExpression", "LogicalExpression",
          "RelationalExpression", "ShiftExpression", "AssignmentExpression"}
    /\ DOMAIN PrintedOfPostfix =
         {"ArrayAccessExpression", "FunctionCallExpression", "MemberAccessExpression",
          "SizeofExpression", "UnaryOperatorExpression", "Initializer", "BracedInitializer"}
    /\ DOMAIN PrintedOfStatements =
         {"CompoundStatement", "ExpressionStatement", "GotoStatement", "IfStatement",
          "IterationStatement", "ForStatement", "LabelledStatement", "LoopControlStatement",
          "ReturnStatement", "SwitchCaseStatement", "SwitchStatement"}
BY DEF PrintedOfDeclarations, PrintedOfSpecifiers, PrintedOfDeclarators, PrintedOfExpressions, PrintedOfOperators, PrintedOfPostfix, PrintedOfStatements, BinaryKind

LEMMA PrintedAre ==
    /\ \A K \in DOMAIN PrintedOfDeclarations : Printed[K] = PrintedOfDeclarations[K]
    /\ \A K \in DOMAIN PrintedOfSpecifiers : Printed[K] = PrintedOfSpecifiers[K]
    /\ \A K \in DOMAIN PrintedOfDeclarators : Printed[K] = PrintedOfDeclarators[K]
    /\ \A K \in DOMAIN PrintedOfExpressions : Printed[K] = PrintedOfExpressions[K]
    /\ \A K \in DOMAIN PrintedOfOperators : Printed[K] = PrintedOfOperators[K]
    /\ \A K \in DOMAIN PrintedOfPostfix : Printed[K] = PrintedOfPostfix[K]
    /\ \A K \in DOMAIN PrintedOfStatements : Printed[K] = PrintedOfStatements[K]
    /\ Printed["NodeList"] = <<"element">> /\ Printed["ValueNode"] = <<>>
<1> USE PrintedNames DEF Printed, Join
<1>1. \A K \in DOMAIN PrintedOfDeclarations : Printed[K] = PrintedOfDeclarations[K]
  OBVIOUS
<1>2. \A K \in DOMAIN PrintedOfSpecifiers : Printed[K] = PrintedOfSpecifiers[K]
  OBVIOUS
<1>3. \A K \in DOMAIN PrintedOfDeclarators : Printed[K] = PrintedOfDeclarators[K]
  OBVIOUS
<1>4. \A K \in DOMAIN PrintedOfExpressions : Printed[K] = PrintedOfExpressions[K]
  OBVIOUS
<1>5. \A K \in DOMAIN PrintedOfOperators : Printed[K] = PrintedOfOperators[K]
  OBVIOUS
<1>6. \A K \in DOMAIN PrintedOfPostfix : Printed[K] = PrintedOfPostfix[K]
  OBVIOUS
<1>7. \A K \in DOMAIN PrintedOfStatements : Printed[K] = PrintedOfStatements[K]
  OBVIOUS
<1>8. Printed["NodeList"] = <<"element">> /\ Printed["ValueNode"] = <<>>
  OBVIOUS
<1> HIDE DEF Printed, Join
<1> QED
  BY <1>1, <1>2, <1>3, <1>4, <1>5, <1>6, <1>7, <1>8

LEMMA MemberNames ==
    /\ DOMAIN DeclarationMembers =
         {"Declaration", "FunctionDefinition", "ParameterDeclaration", "StructDeclaration",
          "DeclarationSpecifiers", "EnumSpecifier", "StructSpecifier", "TypeName", "ValueNode"}
    /\ DOMAIN DeclaratorMembers =
         {"ArrayDeclarator", "EnumValueDeclarator", "FunctionDeclarator", "IdentifierDeclarator",
          "InitDeclarator", "PointerDeclarator", "StructMemberDeclarator"}
    /\ DOMAIN OperatorMembers =
         {"AddMultExpression", "BitwiseExpression", "EqualityExpression", "LogicalExpression",
          "RelationalExpression", "ShiftExpression"}
    /\ DOMAIN ExpressionMembers =
         {"CastExpression", "ConditionalExpression", "ConstantExpression",
          "IdentifierExpression", "IncDecExpression", "ListExpression", "PrimaryExpression",
          "AssignmentExpression", "ArrayAccessExpression", "FunctionCallExpression",
          "MemberAccessExpression", "SizeofExpression", "UnaryOperatorExpression", "Initializer",
          "BracedInitializer"}
    /\ DOMAIN StatementMembers =
         {"CompoundStatement", "ExpressionStatement", "GotoStatement", "IfStatement",
          "IterationStatement", "ForStatement", "LabelledStatement", "LoopControlStatement",
          "ReturnStatement", "SwitchCaseStatement", "SwitchStatement"}
BY DEF DeclarationMembers, DeclaratorMembers, OperatorMembers, ExpressionMembers, StatementMembers, BinaryKind

LEMMA MembersAre ==
    /\ \A K \in DOMAIN DeclarationMembers : Members[K] = DeclarationMembers[K]
    /\ \A K \in DOMAIN DeclaratorMembers : Members[K] = DeclaratorMembers[K]
    /\ \A K \in DOMAIN OperatorMembers : Members[K] = OperatorMembers[K]
    /\ \A K \in DOMAIN ExpressionMembers : Members[K] = ExpressionMembers[K]
    /\ \A K \in DOMAIN StatementMembers : Members[K] = StatementMembers[K]
    /\ NodeKind = DOMAIN DeclarationMembers \cup DOMAIN DeclaratorMembers
                  \cup DOMAIN OperatorMembers \cup DOMAIN ExpressionMembers
                  \cup DOMAIN StatementMembers \cup {"NodeList"}
<1> USE MemberNames DEF Members, Join
<1>1. \A K \in DOMAIN DeclarationMembers : Members[K] = DeclarationMembers[K]
  OBVIOUS
<1>2. \A K \in DOMAIN DeclaratorMembers : Members[K] = DeclaratorMembers[K]
  OBVIOUS
<1>3. \A K \in DOMAIN OperatorMembers : Members[K] = OperatorMembers[K]
  OBVIOUS
<1>4. \A K \in DOMAIN ExpressionMembers : Members[K] = ExpressionMembers[K]
  OBVIOUS
<1>5. \A K \in DOMAIN StatementMembers : Members[K] = StatementMembers[K]
  OBVIOUS
<1>6. DOMAIN Members = DOMAIN DeclarationMembers \cup DOMAIN DeclaratorMembers
         \cup DOMAIN OperatorMembers \cup DOMAIN ExpressionMembers
         \cup DOMAIN StatementMembers \cup {"NodeList"}
  OBVIOUS
<1> HIDE DEF Members, Join
<1> QED
  BY <1>1, <1>2, <1>3, <1>4, <1>5, <1>6 DEF NodeKind

\* What is printed without a visit.
Text == {"Identifier", "Value", "symbol"}
Shown(printed) == {printed[i] : i \in DOMAIN printed}
\* Expressions, declarations and what may be in them: no statement but one.
PlainSort == DOMAIN Sorts \ {"external", "body", "statement"}
PlainKind ==
    (DOMAIN DeclarationMembers \ {"FunctionDefinition"}) \cup DOMAIN DeclaratorMembers
    \cup DOMAIN OperatorMembers \cup DOMAIN ExpressionMembers \cup {"ExpressionStatement"}

LEMMA PlainNames ==
    /\ DOMAIN Sorts =
         {"external", "declaration", "specifiers", "value", "typeSpecifier", "structDeclaration",
          "typeName", "function", "parameter", "unresolved", "declarator", "initDeclarator",
          "member", "enumerator", "initializer", "body", "statement", "expressionStatement",
          "comma", "typed", "expression", "operand", "variable", "literal", "constant"}
    /\ PlainSort = DOMAIN Sorts \ {"external", "body", "statement"}
    /\ PlainKind =
         {"Declaration", "ParameterDeclaration", "StructDeclaration", "DeclarationSpecifiers",
          "EnumSpecifier", "StructSpecifier", "TypeName", "ValueNode", "ArrayDeclarator",
          "EnumValueDeclarator", "FunctionDeclarator", "IdentifierDeclarator", "InitDeclarator",
          "PointerDeclarator", "StructMemberDeclarator", "AddMultExpression", "BitwiseExpression",
          "EqualityExpression", "LogicalExpression", "RelationalExpression", "ShiftExpression",
          "CastExpression", "ConditionalExpression", "ConstantExpression", "IdentifierExpression",
          "IncDecExpression", "ListExpression", "PrimaryExpression", "AssignmentExpression",
          "ArrayAccessExpression", "FunctionCallExpression", "MemberAccessExpression",
          "SizeofExpression", "UnaryOperatorExpression", "Initializer", "BracedInitializer",
          "ExpressionStatement"}
<1>1. DOMAIN Sorts =
        {"external", "declaration", "specifiers", "value", "typeSpecifier", "structDeclaration",
         "typeName", "function", "parameter", "unresolved", "declarator", "initDeclarator",
         "member", "enumerator", "initializer", "body", "statement", "expressionStatement",
         "comma", "typed", "expression", "operand", "variable", "literal", "constant"}
  BY DEF Sorts
<1> QED
  BY <1>1, MemberNames DEF PlainSort, PlainKind

\* What the proofs need to know of a class: its members and what is printed.
Row(K, members, printed) ==
    /\ \E a, b, c, d : DOMAIN members \subseteq {a, b, c, d}
    /\ \A i, j \in DOMAIN printed : printed[i] = printed[j] => i = j
    /\ DOMAIN members \cap Text = {}
    /\ DOMAIN members \subseteq
         Shown(printed) \cup (IF K = "DeclarationSpecifiers" THEN {"TypeQualifiers"} ELSE {})
    /\ K = "DeclarationSpecifiers" =>
         "TypeQualifiers" \notin Shown(printed) /\ members["TypeQualifiers"].sort = "nothing"
    /\ K \in IterationKind => {"InitExpr", "CondExpr"} \subseteq Shown(printed)
    /\ K \notin IterationKind => DOMAIN members \cap {"InitExpr", "CondExpr"} = {}
    /\ "InitExpr" \in DOMAIN members => members["InitExpr"].sort \in PlainSort
    /\ K \in PlainKind =>
         \A label \in DOMAIN members : members[label].sort \in PlainSort \cup {"nothing"}

LEMMA DeclarationRows ==
    \A K \in DOMAIN DeclarationMembers : Row(K, DeclarationMembers[K], Printed[K])
<1> USE PlainNames
    DEF Row, Text, Shown, IterationKind, NoMembers, One, Optional, List, OptionalList,
        AnyList, Member
<1>1. Row("Declaration", DeclarationMembers["Declaration"], PrintedOfDeclarations["Declaration"])
  BY DEF DeclarationMembers, PrintedOfDeclarations
<1>2. Row("FunctionDefinition", DeclarationMembers["FunctionDefinition"],
          PrintedOfDeclarations["FunctionDefinition"])
  BY DEF DeclarationMembers, PrintedOfDeclarations
<1>3. Row("ParameterDeclaration", DeclarationMembers["ParameterDeclaration"],
          PrintedOfDeclarations["ParameterDeclaration"])
  BY DEF DeclarationMembers, PrintedOfDeclarations
<1>4. Row("StructDeclaration", DeclarationMembers["StructDeclaration"],
          PrintedOfDeclarations["StructDeclaration"])
  BY DEF DeclarationMembers, PrintedOfDeclarations
<1>5. Row("DeclarationSpecifiers", DeclarationMembers["DeclarationSpecifiers"],
          PrintedOfDeclarations["DeclarationSpecifiers"])
  BY DEF DeclarationMembers, PrintedOfDeclarations
<1>6. Row("EnumSpecifier", DeclarationMembers["EnumSpecifier"],
          PrintedOfSpecifiers["EnumSpecifier"])
  BY DEF DeclarationMembers, PrintedOfSpecifiers
<1>7. Row("StructSpecifier", DeclarationMembers["StructSpecifier"],
          PrintedOfSpecifiers["StructSpecifier"])
  BY DEF DeclarationMembers, PrintedOfSpecifiers
<1>8. Row("TypeName", DeclarationMembers["TypeName"], PrintedOfSpecifiers["TypeName"])
  BY DEF DeclarationMembers, PrintedOfSpecifiers
<1>9. Row("ValueNode", DeclarationMembers["ValueNode"], <<>>)
  BY DEF DeclarationMembers
<1> HIDE DEF Row
<1> QED
  BY <1>1, <1>2, <1>3, <1>4, <1>5, <1>6, <1>7, <1>8, <1>9, MemberNames, PrintedNames, PrintedAre

LEMMA DeclaratorRows ==
    \A K \in DOMAIN DeclaratorMembers : Row(K, DeclaratorMembers[K], Printed[K])
<1> USE PlainNames
    DEF Row, Text, Shown, IterationKind, NoMembers, One, Optional, List, OptionalList,
        AnyList, Member
<1>1. Row("ArrayDeclarator", DeclaratorMembers["ArrayDeclarator"],
          PrintedOfDeclarators["ArrayDeclarator"])
  BY DEF DeclaratorMembers, PrintedOfDeclarators
<1>2. Row("EnumValueDeclarator", DeclaratorMembers["EnumValueDeclarator"],
          PrintedOfDeclarators["EnumValueDeclarator"])
  BY DEF DeclaratorMembers, PrintedOfDeclarators
<1>3. Row("FunctionDeclarator", DeclaratorMembers["FunctionDeclarator"],
          PrintedOfDeclarators["FunctionDeclarator"])
  BY DEF DeclaratorMembers, PrintedOfDeclarators
<1>4. Row("IdentifierDeclarator", DeclaratorMembers["IdentifierDeclarator"],
          PrintedOfDeclarators["IdentifierDeclarator"])
  BY DEF DeclaratorMembers, PrintedOfDeclarators
<1>5. Row("InitDeclarator", DeclaratorMembers["InitDeclarator"],
          PrintedOfDeclarators["InitDeclarator"])
  BY DEF DeclaratorMembers, PrintedOfDeclarators
<1>6. Row("PointerDeclarator", DeclaratorMembers["PointerDeclarator"],
          PrintedOfDeclarators["PointerDeclarator"])
  BY DEF DeclaratorMembers, PrintedOfDeclarators
<1>7. Row("StructMemberDeclarator", DeclaratorMembers["StructMemberDeclarator"],
          PrintedOfDeclarators["StructMemberDeclarator"])
  BY DEF DeclaratorMembers, PrintedOfDeclarators
<1> HIDE DEF Row
<1> QED
  BY <1>1, <1>2, <1>3, <1>4, <1>5, <1>6, <1>7, MemberNames, PrintedNames, PrintedAre

LEMMA ExpressionRows ==
    \A K \in DOMAIN ExpressionMembers : Row(K, ExpressionMembers[K], Printed[K])
<1> USE PlainNames
    DEF Row, Text, Shown, IterationKind, NoMembers, One, Optional, List, OptionalList,
        AnyList, Member
<1>1. Row("CastExpression", ExpressionMembers["CastExpression"],
          PrintedOfExpressions["CastExpression"])
  BY DEF ExpressionMembers, PrintedOfExpressions
<1>2. Row("ConditionalExpression", ExpressionMembers["ConditionalExpression"],
          PrintedOfExpressions["ConditionalExpression"])
  BY DEF ExpressionMembers, PrintedOfExpressions
<1>3. Row("ConstantExpression", ExpressionMembers["ConstantExpression"],
          PrintedOfExpressions["ConstantExpression"])
  BY DEF ExpressionMembers, PrintedOfExpressions
<1>4. Row("IdentifierExpression", ExpressionMembers["IdentifierExpression"],
          PrintedOfExpressions["IdentifierExpression"])
  BY DEF ExpressionMembers, PrintedOfExpressions
<1>5. Row("IncDecExpression", ExpressionMembers["IncDecExpression"],
          PrintedOfExpressions["IncDecExpression"])
  BY DEF ExpressionMembers, PrintedOfExpressions
<1>6. Row("ListExpression", ExpressionMembers["ListExpression"],
          PrintedOfExpressions["ListExpression"])
  BY DEF ExpressionMembers, PrintedOfExpressions
<1>7. Row("PrimaryExpression", ExpressionMembers["PrimaryExpression"],
          PrintedOfExpressions["PrimaryExpression"])
  BY DEF ExpressionMembers, PrintedOfExpressions
<1>8. Row("AssignmentExpression", ExpressionMembers["AssignmentExpression"],
          PrintedOfOperators["AssignmentExpression"])
  BY DEF ExpressionMembers, PrintedOfOperators
<1>9. Row("ArrayAccessExpression", ExpressionMembers["ArrayAccessExpression"],
          PrintedOfPostfix["ArrayAccessExpression"])
  BY DEF ExpressionMembers, PrintedOfPostfix
<1>10. Row("FunctionCallExpression", ExpressionMembers["FunctionCallExpression"],
          PrintedOfPostfix["FunctionCallExpression"])
  BY DEF ExpressionMembers, PrintedOfPostfix
<1>11. Row("MemberAccessExpression", ExpressionMembers["MemberAccessExpression"],
          PrintedOfPostfix["MemberAccessExpression"])
  BY DEF ExpressionMembers, PrintedOfPostfix
<1>12. Row("SizeofExpression", ExpressionMembers["SizeofExpression"],
          PrintedOfPostfix["SizeofExpression"])
  BY DEF ExpressionMembers, PrintedOfPostfix
<1>13. Row("UnaryOperatorExpression", ExpressionMembers["UnaryOperatorExpression"],
          PrintedOfPostfix["UnaryOperatorExpression"])
  BY DEF ExpressionMembers, PrintedOfPostfix
<1>14. Row("Initializer", ExpressionMembers["Initializer"], PrintedOfPostfix["Initializer"])
  BY DEF ExpressionMembers, PrintedOfPostfix
<1>15. Row("BracedInitializer", ExpressionMembers["BracedInitializer"],
          PrintedOfPostfix["BracedInitializer"])
  BY DEF ExpressionMembers, PrintedOfPostfix
<1> HIDE DEF Row
<1> QED
  BY <1>1, <1>2, <1>3, <1>4, <1>5, <1>6, <1>7, <1>8, <1>9, <1>10, <1>11, <1>12, <1>13, <1>14,
     <1>15, MemberNames, PrintedNames, PrintedAre

LEMMA StatementRows ==
    \A K \in DOMAIN StatementMembers : Row(K, StatementMembers[K], Printed[K])
<1> USE PlainNames
    DEF Row, Text, Shown, IterationKind, NoMembers, One, Optional, List, OptionalList,
        AnyList, Member
<1>1. Row("CompoundStatement", StatementMembers["CompoundStatement"],
          PrintedOfStatements["CompoundStatement"])
  BY DEF StatementMembers, PrintedOfStatements
<1>2. Row("ExpressionStatement", StatementMembers["ExpressionStatement"],
          PrintedOfStatements["ExpressionStatement"])
  BY DEF StatementMembers, PrintedOfStatements
<1>3. Row("GotoStatement", StatementMembers["GotoStatement"],
          PrintedOfStatements["GotoStatement"])
  BY DEF StatementMembers, PrintedOfStatements
<1>4. Row("IfStatement", StatementMembers["IfStatement"], PrintedOfStatements["IfStatement"])
  BY DEF StatementMembers, PrintedOfStatements
<1>5. Row("IterationStatement", StatementMembers["IterationStatement"],
          PrintedOfStatements["IterationStatement"])
  BY DEF StatementMembers, PrintedOfStatements
<1>6. Row("ForStatement", StatementMembers["ForStatement"], PrintedOfStatements["ForStatement"])
  BY DEF StatementMembers, PrintedOfStatements
<1>7. Row("LabelledStatement", StatementMembers["LabelledStatement"],
          PrintedOfStatements["LabelledStatement"])
  BY DEF StatementMembers, PrintedOfStatements
<1>8. Row("LoopControlStatement", StatementMembers["LoopControlStatement"],
          PrintedOfStatements["LoopControlStatement"])
  BY DEF StatementMembers, PrintedOfStatements
<1>9. Row("ReturnStatement", StatementMembers["ReturnStatement"],
          PrintedOfStatements["ReturnStatement"])
  BY DEF StatementMembers, PrintedOfStatements
<1>10. Row("SwitchCaseStatement", StatementMembers["SwitchCaseStatement"],
          PrintedOfStatements["SwitchCaseStatement"])
  BY DEF StatementMembers, PrintedOfStatements
<1>11. Row("SwitchStatement", StatementMembers["SwitchStatement"],
          PrintedOfStatements["SwitchStatement"])
  BY DEF StatementMembers, PrintedOfStatements
<1> HIDE DEF Row
<1> QED
  BY <1>1, <1>2, <1>3, <1>4, <1>5, <1>6, <1>7, <1>8, <1>9, <1>10, <1>11, MemberNames,
     PrintedNames, PrintedAre

LEMMA OperatorRows ==
    \A K \in DOMAIN OperatorMembers : Row(K, OperatorMembers[K], Printed[K])
<1> SUFFICES ASSUME NEW K \in DOMAIN OperatorMembers
             PROVE  Row(K, OperatorMembers[K], Printed[K])
  OBVIOUS
<1>1. K \in BinaryKind /\ K \notin IterationKind /\ K # "DeclarationSpecifiers"
  BY DEF OperatorMembers, BinaryKind, IterationKind
<1>2. OperatorMembers[K] = [LHS |-> One("typed"), RHS |-> One("typed")]
  BY <1>1 DEF OperatorMembers
<1>3. PrintedOfOperators[K] = <<"LHS", "RHS">>
  BY <1>1 DEF PrintedOfOperators
<1>4. Row(K, OperatorMembers[K], PrintedOfOperators[K])
  BY <1>1, <1>2, <1>3, PlainNames DEF Row, Text, Shown, One, Member
<1> QED
  BY <1>4, MemberNames, PrintedNames, PrintedAre

LEMMA Rows == \A K \in NodeKind \ {"NodeList"} : Row(K, Members[K], Printed[K])
BY DeclarationRows, DeclaratorRows, OperatorRows, ExpressionRows, StatementRows, MembersAre

LEMMA FewAreFinite == ASSUME NEW a, NEW b, NEW c, NEW d, NEW S, S \subseteq {a, b, c, d} PROVE IsFiniteSet(S)
<1>1. IsFiniteSet({a}) /\ IsFiniteSet({b}) /\ IsFiniteSet({c}) /\ IsFiniteSet({d})
  BY FS_Singleton
<1>2. IsFiniteSet({a} \cup {b}) /\ IsFiniteSet({c} \cup {d})
  BY <1>1, FS_Union
<1>3. IsFiniteSet(({a} \cup {b}) \cup ({c} \cup {d}))
  BY <1>2, FS_Union
<1> QED
  BY <1>3, FS_Subset

LEMMA KindsAre ==
    \A sort \in DOMAIN Sorts :
        /\ KindsOf(sort) \subseteq NodeKind \ {"NodeList"}
        /\ sort \in PlainSort => KindsOf(sort) \subseteq PlainKind
BY PlainNames, MembersAre, MemberNames, SMTT(60) DEF KindsOf, Sorts, ExpressionKind, TypedKind, BinaryKind

-----------------------------------------------------------------------------
(* The tree *)

LEMMA SeqOfFacts ==
    ASSUME NEW S, IsFiniteSet(S)
    PROVE  /\ SeqOf(S) \in [1 .. Cardinality(S) -> S] /\ Cardinality(S) \in Nat
<1> DEFINE n == Cardinality(S)
<1>1. n \in Nat /\ ExistsBijection(1 .. n, S)
  BY FS_CardinalityType
<1>2. PICK s : s \in Bijection(1 .. n, S)
  BY <1>1 DEF ExistsBijection
<1> HIDE DEF n
<1>3. s \in [1 .. n -> S] /\ \A x \in S : \E i \in 1 .. n : s[i] = x
  BY <1>2 DEF Bijection, Surjection
<1>4. \E f \in [1 .. n -> S] : \A x \in S : \E i \in DOMAIN f : f[i] = x
  BY <1>3
<1>5. SeqOf(S) = CHOOSE f \in [1 .. n -> S] : \A x \in S : \E i \in DOMAIN f : f[i] = x
  BY DEF SeqOf, n
<1>6. SeqOf(S) \in [1 .. n -> S]
  BY <1>4, <1>5
<1> QED
  BY <1>1, <1>6 DEF n

LEMMA MemberSlotsFacts ==
    ASSUME NEW n, NEW kind \in NodeKind \ {"NodeList"}
    PROVE  /\ IsSequence(MemberSlots(n, kind))
           /\ \A i \in DOMAIN MemberSlots(n, kind) :
                \E label \in DOMAIN Members[kind] :
                    MemberSlots(n, kind)[i] = Slot(n, label, Members[kind][label], FALSE)
<1> DEFINE labels == MemberLabels[kind]
           names == DOMAIN Members[kind]
           slots == MemberSlots(n, kind)
           S == {Slot(n, label, Members[kind][label], FALSE) : label \in names}
<1>1. IsFiniteSet(names)
  BY Rows, FewAreFinite DEF Row
<1>2. labels = SeqOf(names)
  BY DEF MemberLabels
<1>3. PICK m \in Nat : labels \in [1 .. m -> names]
  BY <1>1, <1>2, SeqOfFacts
<1>4. slots = [i \in DOMAIN labels |-> Slot(n, labels[i], Members[kind][labels[i]], FALSE)]
  BY DEF MemberSlots
<1> HIDE DEF labels, names, slots
<1>5. slots = [i \in 1 .. m |-> Slot(n, labels[i], Members[kind][labels[i]], FALSE)]
  BY <1>3, <1>4
<1>6. \A i \in 1 .. m : labels[i] \in names
  BY <1>3
<1>7. slots \in [1 .. m -> S]
  BY <1>5, <1>6
<1> HIDE DEF S
<1>8. IsSequence(slots)
  <2>1. slots \in Seq(S)
    BY <1>7
  <2> QED
    BY <2>1, ElementsOf
<1>9. \A i \in DOMAIN slots : slots[i] \in S
  BY <1>7
<1> QED
  BY <1>8, <1>9 DEF slots, names, S

LEMMA ElementSlotsFacts ==
    ASSUME NEW n, NEW sort, NEW least
    PROVE  /\ IsSequence(ElementSlots(n, sort, least))
           /\ \A i \in DOMAIN ElementSlots(n, sort, least) :
                \E more :
                    ElementSlots(n, sort, least)[i] = Slot(n, "element", One(sort), more)
           /\ sort \notin DOMAIN Sorts /\ ~(least > 0) => ElementSlots(n, sort, least) = <<>>
<1> DEFINE first == IF least > 0 THEN <<Slot(n, "element", One(sort), FALSE)>> ELSE <<>>
           rest == IF sort \in DOMAIN Sorts THEN <<Slot(n, "element", One(sort), TRUE)>> ELSE <<>>
           A == Slot(n, "element", One(sort), FALSE)
           B == Slot(n, "element", One(sort), TRUE)
<1>1. ElementSlots(n, sort, least) = first \o rest
  BY DEF ElementSlots
<1>2. IsSequence(first) /\ \A i \in DOMAIN first : first[i] = A /\ least > 0
  <2> HIDE DEF A
  <2>1. CASE least > 0
    <3>1. first = <<A>>
      BY <2>1 DEF A
    <3> HIDE DEF first
    <3> QED
      BY <2>1, <3>1 DEF IsSequence
  <2>2. CASE ~(least > 0)
    <3>1. first = <<>>
      BY <2>2
    <3> HIDE DEF first
    <3> QED
      BY <3>1 DEF IsSequence
  <2> QED
    BY <2>1, <2>2
<1>3. IsSequence(rest) /\ \A i \in DOMAIN rest : rest[i] = B /\ sort \in DOMAIN Sorts
  <2> HIDE DEF B
  <2>1. CASE sort \in DOMAIN Sorts
    <3>1. rest = <<B>>
      BY <2>1 DEF B
    <3> HIDE DEF rest
    <3> QED
      BY <2>1, <3>1 DEF IsSequence
  <2>2. CASE ~(sort \in DOMAIN Sorts)
    <3>1. rest = <<>>
      BY <2>2
    <3> HIDE DEF rest
    <3> QED
      BY <3>1 DEF IsSequence
  <2> QED
    BY <2>1, <2>2
<1>5. sort \notin DOMAIN Sorts /\ ~(least > 0) => first \o rest = <<>>
  BY ConcatEmptySeq
<1> HIDE DEF first, rest, A, B
<1>6. \E more : A = Slot(n, "element", One(sort), more)
  BY DEF A
<1>7. \E more : B = Slot(n, "element", One(sort), more)
  BY DEF B
<1>4. /\ IsSequence(first \o rest)
      /\ \A k \in DOMAIN (first \o rest) :
            \/ \E i \in DOMAIN first : (first \o rest)[k] = first[i]
            \/ \E i \in DOMAIN rest : (first \o rest)[k] = rest[i]
  BY <1>2, <1>3, ConcatFacts
<1> QED
  BY <1>1, <1>2, <1>3, <1>4, <1>5, <1>6, <1>7

\* A node more leaves the others what they were.
LEMMA NodeMore ==
    ASSUME Grown, NEW node, ast' = Append(ast, node)
    PROVE  /\ IsSequence(ast') /\ ast' # <<>> /\ ast'[1] = Root
           /\ DOMAIN ast = 1 .. Len(ast) /\ Len(ast) \in Nat \ {0} /\ Len(ast') = Len(ast) + 1
           /\ DOMAIN ast' = 1 .. Len(ast) + 1
           /\ ast'[Len(ast) + 1] = node /\ \A i \in DOMAIN ast : ast'[i] = ast[i]
           /\ \A n \in 2 .. Len(ast) : Belongs(n)'
           /\ \A slot : ToFill(slot) => ToFill(slot)'
<1>1. /\ IsSequence(ast) /\ ast # <<>> /\ ast[1] = Root
  BY DEF Grown
<1>2. /\ IsSequence(ast') /\ Len(ast') = Len(ast) + 1 /\ Len(ast) \in Nat
      /\ DOMAIN ast' = 1 .. Len(ast) + 1 /\ DOMAIN ast = 1 .. Len(ast)
      /\ \A i \in DOMAIN ast : ast'[i] = ast[i]
      /\ ast'[Len(ast) + 1] = node
  BY <1>1, AppendIsSequence
<1>3. Len(ast) # 0
  <2> DEFINE S == {ast[i] : i \in DOMAIN ast}
  <2>1. ast \in Seq(S)
    BY <1>1 DEF IsSequence
  <2> HIDE DEF S
  <2> QED
    BY <1>1, <2>1, EmptySeq
<1>4. ast'[1] = Root
  BY <1>1, <1>2, <1>3
<1>5. \A p \in DOMAIN ast : \A label :
          (HasMember(p, label) => HasMember(p, label)') /\ MemberOf(p, label)' = MemberOf(p, label)
          /\ (IsList(p) => IsList(p)')
  BY <1>2 DEF HasMember, MemberOf, IsList
<1>6. ASSUME NEW n \in 2 .. Len(ast) PROVE Belongs(n)'
  <2>1. Belongs(n) /\ n \in DOMAIN ast /\ ast[n].parent \in DOMAIN ast /\ ast'[n] = ast[n]
    BY <1>2 DEF Grown, Belongs
  <2>2. HasMember(ast[n].parent, ast[n].label)'
        /\ MemberOf(ast[n].parent, ast[n].label)' = MemberOf(ast[n].parent, ast[n].label)
        /\ IsList(n)' = IsList(n)
    BY <1>2, <2>1 DEF HasMember, MemberOf, IsList, Belongs
  <2> QED
    BY <2>1, <2>2 DEF Belongs
<1>7. ASSUME NEW slot, ToFill(slot) PROVE ToFill(slot)'
  BY <1>2, <1>5, <1>7 DEF ToFill
<1> QED
  BY <1>1, <1>2, <1>3, <1>4, <1>6, <1>7

LEMMA InitGrown == TreeInit => Grown
<1> SUFFICES ASSUME TreeInit PROVE Grown
  OBVIOUS
<1>1. ast = <<Root>> /\ open = ElementSlots(1, "external", 1)
  BY DEF TreeInit
<1>2. IsSequence(ast) /\ ast # <<>> /\ ast[1] = Root /\ Len(ast) = 1 /\ DOMAIN ast = {1}
  <2> DEFINE root == Root
  <2> HIDE DEF root
  <2>1. ast = <<root>>
    BY <1>1 DEF root
  <2>2. IsSequence(ast) /\ ast # <<>> /\ ast[1] = root /\ Len(ast) = 1 /\ DOMAIN ast = {1}
    BY <2>1 DEF IsSequence
  <2> QED
    BY <2>2 DEF root
<1>3. "external" \in DOMAIN Sorts
  BY PlainNames
<1>4. IsList(1) /\ ast[1].sort = "external"
  <2>1. Root.kind = "NodeList" /\ Root.sort = "external"
    BY DEF Root, Node
  <2> QED
    BY <1>2, <2>1 DEF IsList
<1>5. HasMember(1, "element") /\ MemberOf(1, "element") = One("external")
  BY <1>3, <1>4 DEF HasMember, MemberOf
<1>6. \A more : ToFill(Slot(1, "element", One("external"), more))
  BY <1>2, <1>4, <1>5 DEF ToFill, Slot
<1>7. IsSequence(open) /\ \A i \in DOMAIN open : ToFill(open[i])
  <2> DEFINE slots == ElementSlots(1, "external", 1)
  <2>1. /\ IsSequence(slots)
        /\ \A i \in DOMAIN slots : \E more : slots[i] = Slot(1, "element", One("external"), more)
    BY ElementSlotsFacts
  <2> HIDE DEF slots
  <2>2. \A i \in DOMAIN slots : ToFill(slots[i])
    BY <1>6, <2>1
  <2> QED
    BY <1>1, <2>1, <2>2 DEF slots
<1>8. \A n \in 2 .. Len(ast) : Belongs(n)
  BY <1>2
<1> QED
  BY <1>2, <1>7, <1>8 DEF Grown

\* The slots of a new node, and of what is left of the old ones.
LEMMA SlotsMore ==
    ASSUME NEW s, NEW t, IsSequence(s), IsSequence(t), open' = s \o t,
           \A i \in DOMAIN s : ToFill(s[i])', \A i \in DOMAIN t : ToFill(t[i])'
    PROVE  IsSequence(open') /\ \A i \in DOMAIN open' : ToFill(open[i])'
<1>1. /\ IsSequence(open')
      /\ \A k \in DOMAIN open' :
            (\E i \in DOMAIN s : open'[k] = s[i]) \/ (\E i \in DOMAIN t : open'[k] = t[i])
  BY ConcatFacts
<1>2. ASSUME NEW k \in DOMAIN open' PROVE ToFill(open[k])'
  <2>1. CASE \E i \in DOMAIN s : open'[k] = s[i]
    BY <2>1 DEF ToFill, HasMember, MemberOf, IsList
  <2>2. CASE \E i \in DOMAIN t : open'[k] = t[i]
    BY <2>2 DEF ToFill, HasMember, MemberOf, IsList
  <2> QED
    BY <1>1, <2>1, <2>2
<1> QED
  BY <1>1, <1>2

\* What is in a slot: the node that fills it belongs there.
LEMMA FilledBelongs ==
    ASSUME Grown, NEW slot, ToFill(slot), NEW node, ast' = Append(ast, node),
           node.parent = slot.parent, node.label = slot.label, node.sort = slot.member.sort,
           \/ slot.member.list /\ node.kind = "NodeList"
           \/ /\ ~slot.member.list /\ node.sort \in DOMAIN Sorts
              /\ node.kind \in KindsOf(node.sort)
    PROVE  \A n \in 2 .. Len(ast') : Belongs(n)'
<1>1. PICK k : k = Len(ast)
  OBVIOUS
<1>2. /\ DOMAIN ast = 1 .. k /\ k \in Nat \ {0} /\ Len(ast') = k + 1
      /\ ast'[k + 1] = node /\ \A i \in DOMAIN ast : ast'[i] = ast[i]
      /\ \A n \in 2 .. k : Belongs(n)'
      /\ ToFill(slot)'
  BY <1>1, NodeMore
<1>3. slot.parent \in 1 .. k
  BY <1>2 DEF ToFill
<1>4. /\ HasMember(slot.parent, slot.label)'
      /\ slot.member = MemberOf(slot.parent, slot.label)'
  BY <1>2 DEF ToFill
<1>5. /\ ast'[k + 1].parent = slot.parent /\ ast'[k + 1].label = slot.label
      /\ IsList(k + 1)' = (node.kind = "NodeList")
  BY <1>2 DEF IsList
<1>6. Belongs(k + 1)'
  <2>1. slot.parent \in 1 .. (k + 1) - 1
    BY <1>2, <1>3
  <2>2. PICK member : member = slot.member
    OBVIOUS
  <2>3. PICK p : p = slot.parent
    OBVIOUS
  <2>4. PICK label : label = slot.label
    OBVIOUS
  <2>5. HasMember(p, label)' /\ member = MemberOf(p, label)'
    BY <1>4, <2>2, <2>3, <2>4
  <2>6. /\ ast'[k + 1].parent = p /\ ast'[k + 1].label = label
        /\ ast'[k + 1] = node
    BY <1>2, <1>5, <2>3, <2>4
  <2>7. HasMember(ast[k + 1].parent, ast[k + 1].label)'
    BY <2>5, <2>6 DEF HasMember, IsList
  <2>8. member = MemberOf(ast[k + 1].parent, ast[k + 1].label)'
    BY <2>5, <2>6 DEF MemberOf, IsList
  <2> HIDE DEF KindsOf
  <2>9. /\ ast'[k + 1].sort = member.sort
        /\ IF member.list THEN IsList(k + 1)'
           ELSE ast'[k + 1].sort \in DOMAIN Sorts /\ ast'[k + 1].kind \in KindsOf(ast'[k + 1].sort)
    BY <1>5, <2>2, <2>6
  <2> QED
    BY <2>1, <2>3, <2>6, <2>7, <2>8, <2>9 DEF Belongs
<1>7. ASSUME NEW n \in 2 .. Len(ast') PROVE Belongs(n)'
  <2>1. n \in 2 .. k \/ n = k + 1
    BY <1>2
  <2> QED
    BY <1>2, <1>6, <2>1
<1> QED
  BY <1>7

\* The members of a new node are to be filled.
LEMMA NewMembers ==
    ASSUME NEW k \in DOMAIN ast', NEW kind \in NodeKind \ {"NodeList"}, ast'[k].kind = kind
    PROVE  /\ IsSequence(MemberSlots(k, kind))
           /\ \A i \in DOMAIN MemberSlots(k, kind) : ToFill(MemberSlots(k, kind)[i])'
<1> DEFINE slots == MemberSlots(k, kind)
<1>1. /\ IsSequence(slots)
      /\ \A i \in DOMAIN slots : \E label \in DOMAIN Members[kind] :
            slots[i] = Slot(k, label, Members[kind][label], FALSE)
  BY MemberSlotsFacts
<1> HIDE DEF slots
<1>2. ASSUME NEW label \in DOMAIN Members[kind]
      PROVE  ToFill(Slot(k, label, Members[kind][label], FALSE))'
  BY DEF ToFill, Slot, HasMember, MemberOf, IsList
<1>3. \A i \in DOMAIN slots : ToFill(slots[i])'
  BY <1>1, <1>2
<1> QED
  BY <1>1, <1>3 DEF slots

LEMMA NewElements ==
    ASSUME NEW k \in DOMAIN ast', ast'[k].kind = "NodeList", NEW sort, ast'[k].sort = sort,
           NEW least, sort \in DOMAIN Sorts \/ ~(least > 0)
    PROVE  /\ IsSequence(ElementSlots(k, sort, least))
           /\ \A i \in DOMAIN ElementSlots(k, sort, least) : ToFill(ElementSlots(k, sort, least)[i])'
<1> DEFINE slots == ElementSlots(k, sort, least)
<1>0. IsSequence(slots)
  BY ElementSlotsFacts
<1>1. \A i \in DOMAIN slots :
          sort \in DOMAIN Sorts /\ \E more : slots[i] = Slot(k, "element", One(sort), more)
  <2>1. \A i \in DOMAIN slots : \E more : slots[i] = Slot(k, "element", One(sort), more)
    BY ElementSlotsFacts
  <2>2. sort \in DOMAIN Sorts \/ slots = <<>>
    BY ElementSlotsFacts
  <2> HIDE DEF slots
  <2>3. slots = <<>> => DOMAIN slots = {}
    OBVIOUS
  <2> QED
    BY <2>1, <2>2, <2>3
<1> HIDE DEF slots
<1>2. ASSUME NEW more, sort \in DOMAIN Sorts
      PROVE  ToFill(Slot(k, "element", One(sort), more))'
  BY <1>2 DEF ToFill, Slot, HasMember, MemberOf, IsList
<1>3. \A i \in DOMAIN slots : ToFill(slots[i])'
  BY <1>1, <1>2
<1> QED
  BY <1>0, <1>3 DEF slots

\* The first open member, and the rest.
LEMMA FirstSlot ==
    ASSUME Grown, Growing
    PROVE  /\ ToFill(open[1]) /\ IsSequence(open) /\ IsSequence(Tail(open))
           /\ \A i \in DOMAIN Tail(open) : ToFill(Tail(open)[i])
           /\ \A i \in DOMAIN open : ToFill(open[i])
<1>1. IsSequence(open) /\ open # <<>> /\ \A i \in DOMAIN open : ToFill(open[i])
  BY DEF Grown, Growing
<1>2. /\ IsSequence(Tail(open)) /\ 1 \in DOMAIN open
      /\ \A k \in DOMAIN Tail(open) : \E i \in DOMAIN open : Tail(open)[k] = open[i]
  BY <1>1, TailFacts
<1> QED
  BY <1>1, <1>2

\* What is open when a node has been added.
LEMMA OpenMore ==
    ASSUME Grown, NEW node, ast' = Append(ast, node), NEW s, IsSequence(s),
           \A i \in DOMAIN s : ToFill(s[i])', NEW t, IsSequence(t),
           \A i \in DOMAIN t : ToFill(t[i]), open' = s \o t,
           \A n \in 2 .. Len(ast') : Belongs(n)'
    PROVE  Grown'
<1>1. /\ IsSequence(ast') /\ ast' # <<>> /\ ast'[1] = Root
      /\ \A slot : ToFill(slot) => ToFill(slot)'
  BY NodeMore
<1>2. \A i \in DOMAIN t : ToFill(t[i])'
  BY <1>1
<1>3. IsSequence(open') /\ \A i \in DOMAIN open' : ToFill(open[i])'
  BY <1>2, SlotsMore
<1> QED
  BY <1>1, <1>3 DEF Grown

LEMMA NodeGrown ==
    ASSUME Grown, NEW kind, GrowNode(kind)
    PROVE  Grown'
<1>1. PICK slot : slot = open[1]
  OBVIOUS
<1>2. PICK k : k = Len(ast)
  OBVIOUS
<1>3. PICK node : node = Node(kind, slot.member.sort, slot.parent, slot.label)
  OBVIOUS
<1>4. /\ Growing /\ ~slot.member.list /\ slot.member.sort \in DOMAIN Sorts
      /\ kind \in KindsOf(slot.member.sort)
      /\ ast' = Append(ast, node) /\ open' = MemberSlots(k + 1, kind) \o Tail(open)
  BY <1>1, <1>2, <1>3 DEF GrowNode, Fill, KindsOf
<1>5. ToFill(slot) /\ IsSequence(Tail(open)) /\ \A i \in DOMAIN Tail(open) : ToFill(Tail(open)[i])
  BY <1>1, <1>4, FirstSlot
<1>6. /\ node.kind = kind /\ node.sort = slot.member.sort /\ node.parent = slot.parent
      /\ node.label = slot.label
  BY <1>3 DEF Node
<1>7. \A n \in 2 .. Len(ast') : Belongs(n)'
  BY <1>4, <1>5, <1>6, FilledBelongs
<1>8. k + 1 \in DOMAIN ast' /\ ast'[k + 1] = node
  BY <1>2, <1>4, NodeMore
<1>9. kind \in NodeKind \ {"NodeList"}
  BY <1>4, KindsAre
<1>10. /\ IsSequence(MemberSlots(k + 1, kind))
       /\ \A i \in DOMAIN MemberSlots(k + 1, kind) : ToFill(MemberSlots(k + 1, kind)[i])'
  BY <1>6, <1>8, <1>9, NewMembers
<1> QED
  BY <1>4, <1>5, <1>7, <1>10, OpenMore

LEMMA ListGrown ==
    ASSUME Grown, GrowList
    PROVE  Grown'
<1>1. PICK slot : slot = open[1]
  OBVIOUS
<1>2. PICK k : k = Len(ast)
  OBVIOUS
<1>3. PICK sort : sort = slot.member.sort
  OBVIOUS
<1>4. PICK least : least = slot.member.least
  OBVIOUS
<1>5. PICK node : node = Node("NodeList", sort, slot.parent, slot.label)
  OBVIOUS
<1>6. /\ Growing /\ slot.member.list /\ (sort \in DOMAIN Sorts \/ ~(least > 0))
      /\ ast' = Append(ast, node) /\ open' = ElementSlots(k + 1, sort, least) \o Tail(open)
  BY <1>1, <1>2, <1>3, <1>4, <1>5 DEF GrowList, Fill
<1>7. ToFill(slot) /\ IsSequence(Tail(open)) /\ \A i \in DOMAIN Tail(open) : ToFill(Tail(open)[i])
  BY <1>1, <1>6, FirstSlot
<1>8. /\ node.kind = "NodeList" /\ node.sort = sort /\ node.parent = slot.parent
      /\ node.label = slot.label
  BY <1>5 DEF Node
<1>9. \A n \in 2 .. Len(ast') : Belongs(n)'
  BY <1>3, <1>6, <1>7, <1>8, FilledBelongs
<1>10. k + 1 \in DOMAIN ast' /\ ast'[k + 1] = node
  BY <1>2, <1>6, NodeMore
<1>11. /\ IsSequence(ElementSlots(k + 1, sort, least))
       /\ \A i \in DOMAIN ElementSlots(k + 1, sort, least) :
             ToFill(ElementSlots(k + 1, sort, least)[i])'
  BY <1>6, <1>8, <1>10, NewElements
<1> QED
  BY <1>6, <1>7, <1>9, <1>11, OpenMore

LEMMA ElementGrown ==
    ASSUME Grown, NEW kind, GrowElement(kind)
    PROVE  Grown'
<1>1. PICK slot : slot = open[1]
  OBVIOUS
<1>2. PICK k : k = Len(ast)
  OBVIOUS
<1>3. PICK node : node = Node(kind, slot.member.sort, slot.parent, "element")
  OBVIOUS
<1>4. /\ Growing /\ slot.more /\ kind \in KindsOf(slot.member.sort)
      /\ ast' = Append(ast, node) /\ open' = MemberSlots(k + 1, kind) \o open
  BY <1>1, <1>2, <1>3 DEF GrowElement, KindsOf
<1>5. ToFill(slot) /\ IsSequence(open) /\ \A i \in DOMAIN open : ToFill(open[i])
  BY <1>1, <1>4, FirstSlot
<1>6. /\ slot.label = "element" /\ slot.member.sort \in DOMAIN Sorts /\ ~slot.member.list
  BY <1>4, <1>5 DEF ToFill, HasMember, MemberOf, One, Member
<1>7. /\ node.kind = kind /\ node.sort = slot.member.sort /\ node.parent = slot.parent
      /\ node.label = slot.label
  BY <1>3, <1>6 DEF Node
<1>8. \A n \in 2 .. Len(ast') : Belongs(n)'
  BY <1>4, <1>5, <1>6, <1>7, FilledBelongs
<1>9. k + 1 \in DOMAIN ast' /\ ast'[k + 1] = node
  BY <1>2, <1>4, NodeMore
<1>10. kind \in NodeKind \ {"NodeList"}
  BY <1>4, <1>6, KindsAre
<1>11. /\ IsSequence(MemberSlots(k + 1, kind))
       /\ \A i \in DOMAIN MemberSlots(k + 1, kind) : ToFill(MemberSlots(k + 1, kind)[i])'
  BY <1>7, <1>9, <1>10, NewMembers
<1> QED
  BY <1>4, <1>5, <1>8, <1>11, OpenMore

LEMMA LessGrown ==
    ASSUME Grown, LeaveOut
    PROVE  Grown'
<1>1. Growing /\ open' = Tail(open) /\ ast' = ast
  BY DEF LeaveOut
<1>2. IsSequence(Tail(open)) /\ \A i \in DOMAIN Tail(open) : ToFill(Tail(open)[i])
  BY <1>1, FirstSlot
<1>3. \A n \in 2 .. Len(ast) : Belongs(n) /\ Belongs(n)'
  BY <1>1 DEF Grown, Belongs, HasMember, MemberOf, IsList
<1>4. \A slot : ToFill(slot) => ToFill(slot)'
  BY <1>1 DEF ToFill, HasMember, MemberOf, IsList
<1>5. \A i \in DOMAIN open' : ToFill(open[i])'
  <2>1. PICK t : t = Tail(open)
    OBVIOUS
  <2>2. \A i \in DOMAIN t : ToFill(t[i])
    BY <1>2, <2>1
  <2>3. \A i \in DOMAIN t : ToFill(t[i])'
    BY <1>4, <2>2
  <2> QED
    BY <1>1, <2>1, <2>3 DEF ToFill, HasMember, MemberOf, IsList
<1> QED
  BY <1>1, <1>2, <1>3, <1>5 DEF Grown

\* What the steps of main() are to the tree.
LEMMA TreeSteps ==
    ASSUME [Next]_vars
    PROVE  (phase = "parse" /\ Grow) \/ UNCHANGED treeVars
<1> USE DEF vars, printVars
<1>1. CASE Parse
  BY <1>1 DEF Parse
<1>2. CASE PrintGraph
  BY <1>2 DEF PrintGraph, PrintRoot, PrintStep, visitChild, printLeaf, EndVisit
<1>3. CASE \E option \in {"srcPath", "destPath", "llvmDestPath"} : PathOption(option)
  BY <1>3 DEF PathOption
<1>4. CASE GraphOption \/ BadArgument \/ EndOfArgs \/ OpenSource \/ ParseFails
  BY <1>4 DEF GraphOption, BadArgument, EndOfArgs, OpenSource, ParseFails
<1>5. CASE Analyse \/ Generate \/ OpenLLVM \/ EmitLLVM
  BY <1>5 DEF Analyse, Generate, OpenLLVM, EmitLLVM
<1>6. CASE OpenRISCV \/ EmitRISCV \/ Finished \/ UNCHANGED vars
  BY <1>6 DEF OpenRISCV, EmitRISCV, Finished
<1> QED
  BY <1>1, <1>2, <1>3, <1>4, <1>5, <1>6 DEF Next

LEMMA GrownStep == Grown /\ [Next]_vars => Grown'
<1> SUFFICES ASSUME Grown, [Next]_vars PROVE Grown'
  OBVIOUS
<1>1. CASE UNCHANGED treeVars
  BY <1>1 DEF treeVars, Grown, Belongs, ToFill, HasMember, MemberOf, IsList
<1> QED
  BY <1>1, TreeSteps, NodeGrown, ListGrown, ElementGrown, LessGrown DEF Grow

-----------------------------------------------------------------------------
(* The lines of a visit *)

LEMMA KindOfNode == Grown => \A n \in DOMAIN ast : ast[n].kind \in NodeKind
<1> SUFFICES ASSUME Grown, NEW n \in DOMAIN ast PROVE ast[n].kind \in NodeKind
  OBVIOUS
<1>1. IsSequence(ast) /\ ast[1] = Root /\ \A i \in 2 .. Len(ast) : Belongs(i)
  BY DEF Grown
<1>2. DOMAIN ast = 1 .. Len(ast) /\ Len(ast) \in Nat
  BY <1>1, SequenceFacts
<1>3. "NodeList" \in NodeKind
  BY MembersAre
<1>4. CASE n = 1
  <2>1. Root.kind = "NodeList"
    BY DEF Root, Node
  <2> QED
    BY <1>1, <1>3, <1>4, <2>1
<1>5. CASE n # 1
  <2>1. Belongs(n)
    BY <1>1, <1>2, <1>5
  <2>2. \/ ast[n].kind = "NodeList"
        \/ ast[n].kind \in KindsOf(ast[n].sort) /\ ast[n].sort \in DOMAIN Sorts
    BY <2>1 DEF Belongs, IsList
  <2> QED
    BY <1>3, <2>2, KindsAre
<1> QED
  BY <1>4, <1>5

\* A class prints a label once.
LEMMA PrintedOnce ==
    \A kind \in NodeKind : \A i, j \in DOMAIN Printed[kind] :
        Printed[kind][i] = Printed[kind][j] => i = j
<1> SUFFICES ASSUME NEW kind \in NodeKind, NEW i \in DOMAIN Printed[kind],
                    NEW j \in DOMAIN Printed[kind], Printed[kind][i] = Printed[kind][j]
             PROVE  i = j
  OBVIOUS
<1>1. CASE kind = "NodeList"
  <2>1. Printed[kind] = <<"element">>
    BY <1>1, PrintedAre
  <2> QED
    BY <2>1
<1>2. CASE kind # "NodeList"
  BY <1>2, Rows DEF Row
<1> QED
  BY <1>1, <1>2

\* The lines to other nodes.
LEMMA LineFacts ==
    ASSUME NEW n, NEW line \in LinesOf(n), line.node # NoNode
    PROVE  /\ line.place \in DOMAIN Printed[ast[n].kind]
           /\ line.label = Printed[ast[n].kind][line.place] /\ line.label \notin Text
           /\ line = Line(line.place, line.label, line.node)
           /\ line.node \in Held(n, Getter(ast[n].kind, line.label))
<1>1. PICK place \in DOMAIN Printed[ast[n].kind] : line \in LinesAt(n, place)
  BY DEF LinesOf
<1>2. PICK label : label = Printed[ast[n].kind][place]
  OBVIOUS
<1>3. LinesAt(n, place) =
        CASE label \in {"Identifier", "Value"} -> {Line(place, label, NoNode)}
          [] label = "symbol" -> IF HasSymbol(n) THEN {Line(place, "", NoNode)} ELSE {}
          [] OTHER -> {Line(place, label, i) : i \in Held(n, Getter(ast[n].kind, label))}
  BY <1>2 DEF LinesAt
<1>4. label \notin Text
  <2>1. ASSUME NEW some, line \in {Line(place, some, NoNode)} PROVE FALSE
    BY <2>1 DEF Line
  <2>2. CASE label \in {"Identifier", "Value"}
    <3>1. LinesAt(n, place) = {Line(place, label, NoNode)}
      BY <1>3, <2>2
    <3> QED
      BY <1>1, <2>1, <3>1
  <2>3. CASE label = "symbol"
    <3>1. LinesAt(n, place) \subseteq {Line(place, "", NoNode)}
      BY <1>3, <2>3
    <3>2. PICK some : some = ""
      OBVIOUS
    <3>3. line \in {Line(place, some, NoNode)}
      BY <1>1, <3>1, <3>2
    <3> QED
      BY <2>1, <3>3
  <2> QED
    BY <2>2, <2>3 DEF Text
<1>5. line \in {Line(place, label, i) : i \in Held(n, Getter(ast[n].kind, label))}
  BY <1>1, <1>3, <1>4 DEF Text
<1>6. PICK i \in Held(n, Getter(ast[n].kind, label)) : line = Line(place, label, i)
  BY <1>5
<1>7. line.place = place /\ line.label = label /\ line.node = i
  BY <1>6 DEF Line
<1> QED
  BY <1>1, <1>2, <1>4, <1>6, <1>7

LEMMA LineExists ==
    ASSUME NEW n, NEW place \in DOMAIN Printed[ast[n].kind], NEW label,
           label = Printed[ast[n].kind][place], label \notin Text,
           NEW i \in Held(n, Getter(ast[n].kind, label))
    PROVE  Line(place, label, i) \in LinesOf(n)
<1>1. LinesAt(n, place) = {Line(place, label, j) : j \in Held(n, Getter(ast[n].kind, label))}
  BY DEF LinesAt, Text
<1>2. Line(place, label, i) \in LinesAt(n, place)
  BY <1>1
<1> QED
  BY <1>2 DEF LinesOf

\* Two edges of a visit differ in their label or in their node.
LEMMA LinesDiffer ==
    ASSUME Grown, NEW n \in DOMAIN ast, NEW line \in LinesOf(n), NEW other \in LinesOf(n),
           line.node # NoNode, line.node = other.node, line.label = other.label
    PROVE  line = other
<1>1. ast[n].kind \in NodeKind
  BY KindOfNode
<1>2. /\ line.place \in DOMAIN Printed[ast[n].kind]
      /\ line.label = Printed[ast[n].kind][line.place]
      /\ line = Line(line.place, line.label, line.node)
  BY LineFacts
<1>3. /\ other.place \in DOMAIN Printed[ast[n].kind]
      /\ other.label = Printed[ast[n].kind][other.place]
      /\ other = Line(other.place, other.label, other.node)
  BY LineFacts
<1>4. line.place = other.place
  BY <1>1, <1>2, <1>3, PrintedOnce
<1> QED
  BY <1>2, <1>3, <1>4

LEMMA LinesSame ==
    ASSUME UNCHANGED treeVars
    PROVE  ast' = ast /\ \A n : LinesOf(n)' = LinesOf(n)
BY DEF treeVars, LinesOf, LinesAt, Held, HasSymbol

-----------------------------------------------------------------------------
(* The walk *)

LEMMA RootWalked ==
    ASSUME Numbered, Grown, PrintRoot
    PROVE  Walked'
<1>1. /\ boxes' = <<Box(0, 1)>> /\ visits' = <<Visit(0, 1)>> /\ arrows' = arrows
      /\ lastID' = 0 /\ lastID = 0 /\ UNCHANGED treeVars
  BY DEF PrintRoot, Numbered
<1>2. DOMAIN arrows = {}
  BY <1>1, SequenceFacts DEF Numbered
<1>3. 1 \in DOMAIN ast /\ Len(ast) \in Nat \ {0} /\ ast' = ast
  <2> DEFINE S == {ast[i] : i \in DOMAIN ast}
  <2>1. ast \in Seq(S) /\ ast # <<>>
    BY DEF Grown, IsSequence
  <2> HIDE DEF S
  <2> QED
    BY <1>1, <2>1, EmptySeq, LenProperties DEF treeVars
<1>4. PICK visit : visit = Visit(0, 1)
  OBVIOUS
<1>5. DOMAIN visit = {"cur", "left"} /\ visit.cur = 0 /\ visit.left = LinesOf(1)
  BY <1>4 DEF Visit
<1>6. DOMAIN visits' = {1} /\ visits'[1] = visit
  BY <1>1, <1>4
<1>7. boxes'[0 + 1].node = 1
  BY <1>1 DEF Box
<1>8. LinesOf(1)' = LinesOf(1)
  BY <1>1, LinesSame
<1>9. NodeAt(0)' = 1
  BY <1>7 DEF NodeAt
<1>10. \A id \in 0 .. lastID' : NodeAt(id)' \in 0 .. Len(ast')
  BY <1>1, <1>3, <1>9
<1>11. \A v \in DOMAIN visits' :
          /\ DOMAIN visits'[v] = {"cur", "left"}
          /\ (NodeAt(visits[v].cur) # NoNode)'
          /\ (visits[v].left \subseteq LinesOf(NodeAt(visits[v].cur)))'
          /\ \A w \in DOMAIN visits' : v < w => visits'[v].cur < visits'[w].cur
  <2>1. (NodeAt(visits[1].cur))' = 1
    BY <1>5, <1>6, <1>7 DEF NodeAt
  <2>2. LinesOf(NodeAt(visits[1].cur))' = LinesOf(1)
    BY <1>8, <2>1
  <2> QED
    BY <1>5, <1>6, <2>1, <2>2 DEF NoNode
<1>12. ASSUME NEW id \in 0 .. lastID', NEW line \in LinesOf(NodeAt(id))'
       PROVE  Left(id, line)'
  <2>1. id = 0
    BY <1>1, <1>12
  <2>2. line \in LinesOf(1)
    BY <1>8, <1>9, <1>12, <2>1
  <2> QED
    BY <1>5, <1>6, <2>1, <2>2 DEF Left
<1> QED
  BY <1>1, <1>2, <1>9, <1>10, <1>11, <1>12 DEF Walked

\* A line is drawn: the innermost visit has it no longer to draw, and a visit
\* that begins has all of its lines.
LEMMA LineWalked ==
    ASSUME Numbered, Grown, Walked, Printing, ~NotPrinted, UNCHANGED treeVars,
           NEW c, c = Innermost.cur, NEW line \in LinesOf(NodeAt(c)), Left(c, line),
           NodeAt(c) # NoNode,
           lastID' = lastID + 1,
           arrows' = Append(arrows, Arrow(c, lastID + 1, line.label)),
           boxes' = Append(boxes, Box(lastID + 1, line.node)),
           \A v \in DOMAIN visits' :
               /\ DOMAIN visits'[v] = {"cur", "left"}
               /\ \/ /\ visits'[v].cur \in 0 .. lastID /\ NodeAt(visits'[v].cur) # NoNode
                     /\ visits'[v].left \subseteq LinesOf(NodeAt(visits'[v].cur))
                  \/ /\ visits'[v].cur = lastID + 1 /\ line.node # NoNode
                     /\ visits'[v].left \subseteq LinesOf(line.node)
               /\ \A w \in DOMAIN visits' : v < w => visits'[v].cur < visits'[w].cur,
           \A id \in 0 .. lastID : \A other :
               (\E v \in DOMAIN visits' : visits'[v].cur = id /\ other \in visits'[v].left)
               <=> (Left(id, other) /\ ~(id = c /\ other = line)),
           line.node # NoNode => \A other \in LinesOf(line.node) :
               \E v \in DOMAIN visits' : visits'[v].cur = lastID + 1 /\ other \in visits'[v].left
    PROVE  Walked'
<1>1. PICK n : n = lastID
  OBVIOUS
<1>2. PICK new : new = n + 1
  OBVIOUS
<1>3. /\ n \in Nat /\ new \in Nat /\ lastID' = new /\ new = n + 1
      /\ IsSequence(arrows) /\ Len(arrows) = n /\ IsSequence(boxes) /\ Len(boxes) = new
      /\ \A a \in DOMAIN arrows : arrows[a].from \in 0 .. a - 1
  BY <1>1, <1>2 DEF Numbered
<1>4. PICK arrow : arrow = Arrow(c, lastID + 1, line.label)
  OBVIOUS
<1>5. PICK box : box = Box(lastID + 1, line.node)
  OBVIOUS
<1>6. arrow.from = c /\ arrow.label = line.label /\ box.node = line.node
  BY <1>4, <1>5 DEF Arrow, Box
<1>7. /\ DOMAIN arrows = 1 .. n /\ DOMAIN arrows' = 1 .. new
      /\ \A a \in 1 .. n : arrows'[a] = arrows[a]
      /\ arrows'[new] = arrow
  <2>1. arrows' = Append(arrows, arrow)
    BY <1>4
  <2> QED
    BY <1>3, <2>1, AppendIsSequence
<1>8. /\ DOMAIN boxes = 1 .. new
      /\ \A b \in 1 .. new : boxes'[b] = boxes[b]
      /\ boxes'[new + 1] = box
  <2>1. boxes' = Append(boxes, box)
    BY <1>5
  <2> QED
    BY <1>3, <2>1, AppendIsSequence
<1>9. /\ \A id \in 0 .. n : NodeAt(id)' = NodeAt(id)
      /\ NodeAt(new)' = line.node
  BY <1>3, <1>6, <1>8 DEF NodeAt
<1>10. ast' = ast /\ \A p : LinesOf(p)' = LinesOf(p)
  BY LinesSame
<1>11. c \in 0 .. n /\ IsSequence(visits)
  BY <1>1, OuterVisits DEF Numbered
<1>12. PICK p : p = NodeAt(c)
  OBVIOUS
<1>13. p # NoNode /\ line \in LinesOf(p) /\ p \in DOMAIN ast
       /\ (line.node # NoNode => line.node \in DOMAIN ast)
       /\ DOMAIN ast = 1 .. Len(ast) /\ Len(ast) \in Nat
  <2>1. DOMAIN ast = 1 .. Len(ast) /\ Len(ast) \in Nat
    BY SequenceFacts DEF Grown
  <2>2. p \in 0 .. Len(ast) /\ p # NoNode
    BY <1>1, <1>11, <1>12 DEF Walked
  <2>3. line.node # NoNode => line.node \in DOMAIN ast
    BY <1>12, LineFacts DEF Held
  <2> QED
    BY <1>12, <2>1, <2>2, <2>3 DEF NoNode
\* The lines drawn so far.
<1>14. ASSUME NEW a \in 1 .. n, NEW id \in 0 .. n, NEW other
       PROVE  Shows(a, id, other)' <=> Shows(a, id, other)
  <2>1. NodeAt(a)' = NodeAt(a) /\ arrows'[a] = arrows[a]
    BY <1>3, <1>7, <1>9
  <2> QED
    BY <2>1 DEF Shows
<1>15. ASSUME NEW id, NEW other
       PROVE  Shows(new, id, other)' <=>
                  id = c /\ other.label = line.label /\ other.node = line.node
  <2>1. NodeAt(new)' = line.node /\ arrows'[new] = arrow
    BY <1>7, <1>9
  <2> QED
    BY <1>6, <2>1 DEF Shows
<1>16. ASSUME line.node # NoNode PROVE \A a \in 1 .. n : ~Shows(a, c, line)
  BY <1>1, <1>7, <1>11, <1>16 DEF Walked
<1>17. ASSUME NEW a \in 1 .. new, NodeAt(a)' # NoNode
       PROVE  /\ (NodeAt(arrows[a].from) # NoNode)'
              /\ (\E l \in LinesOf(NodeAt(arrows[a].from)) : Shows(a, arrows[a].from, l))'
              /\ (\A other \in DOMAIN arrows : Shows(other, arrows[a].from,
                    [label |-> arrows[a].label, node |-> NodeAt(a)]) => other = a)'
  <2>1. CASE a \in 1 .. n
    <3>1. PICK from : from = arrows[a].from
      OBVIOUS
    <3>2. PICK m : m = [label |-> arrows[a].label, node |-> NodeAt(a)]
      OBVIOUS
    <3>3. /\ from \in 0 .. n /\ arrows'[a] = arrows[a] /\ NodeAt(a)' = NodeAt(a)
          /\ NodeAt(from)' = NodeAt(from)
      <4>1. from \in 0 .. a - 1
        BY <1>3, <1>7, <2>1, <3>1
      <4>2. from \in 0 .. n /\ a \in 0 .. n
        BY <1>3, <2>1, <4>1
      <4> QED
        BY <1>7, <1>9, <2>1, <4>2
    <3>4. /\ NodeAt(from) # NoNode
          /\ \E l \in LinesOf(NodeAt(from)) : Shows(a, from, l)
          /\ \A other \in 1 .. n : Shows(other, from, m) => other = a
      BY <1>7, <1>17, <2>1, <3>1, <3>2, <3>3 DEF Walked
    <3>5. PICK q : q = NodeAt(from)
      OBVIOUS
    <3>6. PICK l \in LinesOf(q) : Shows(a, from, l)
      BY <3>4, <3>5
    <3>7. l \in LinesOf(q)' /\ Shows(a, from, l)'
      BY <1>10, <1>14, <2>1, <3>3, <3>6
    <3>8. m.label = l.label /\ m.node = l.node /\ l.node # NoNode
      BY <1>17, <3>1, <3>2, <3>3, <3>6 DEF Shows
    <3>9. ~Shows(new, from, m)'
      <4>1. SUFFICES ASSUME Shows(new, from, m)' PROVE FALSE
        OBVIOUS
      <4>2. from = c /\ m.label = line.label /\ m.node = line.node
        BY <1>15, <4>1
      <4>3. q = p
        BY <1>12, <3>5, <4>2
      <4>4. l = line
        BY <1>13, <3>6, <3>8, <4>2, <4>3, LinesDiffer
      <4> QED
        BY <1>16, <2>1, <3>6, <3>8, <4>2, <4>4
    <3>10. \A other \in 1 .. new : Shows(other, from, m)' => other = a
      <4> TAKE other \in 1 .. new
      <4>1. other \in 1 .. n \/ other = new
        BY <1>3
      <4> QED
        BY <1>14, <3>3, <3>4, <3>9, <4>1
    <3>11. arrows'[a].from = from /\ [label |-> arrows'[a].label, node |-> NodeAt(a)'] = m
      BY <3>1, <3>2, <3>3
    <3>12. (NodeAt(from) # NoNode)' /\ (\E k \in LinesOf(NodeAt(from)) : Shows(a, from, k))'
      BY <3>3, <3>4, <3>5, <3>7
    <3> QED
      BY <1>7, <3>10, <3>11, <3>12
  <2>2. CASE a = new
    <3>1. PICK m : m = [label |-> arrow.label, node |-> line.node]
      OBVIOUS
    <3>2. NodeAt(a)' = line.node /\ line.node # NoNode /\ arrows'[a] = arrow /\ NodeAt(c)' = p
      BY <1>7, <1>9, <1>11, <1>12, <1>17, <2>2
    <3>3. line \in LinesOf(p)' /\ Shows(a, c, line)'
      BY <1>10, <1>13, <1>15, <2>2
    <3>4. m.label = line.label /\ m.node = line.node
      BY <1>6, <3>1
    <3>5. \A other \in 1 .. new : Shows(other, c, m)' => other = a
      <4> SUFFICES ASSUME NEW other \in 1 .. n, Shows(other, c, m)' PROVE FALSE
        BY <1>3, <2>2
      <4>1. Shows(other, c, m)
        BY <1>11, <1>14
      <4>2. Shows(other, c, line)
        BY <3>4, <4>1 DEF Shows
      <4> QED
        BY <1>16, <3>2, <4>2
    <3>6. arrows'[a].from = c /\ [label |-> arrows'[a].label, node |-> NodeAt(a)'] = m
      BY <1>6, <3>1, <3>2
    <3>7. (NodeAt(c) # NoNode)' /\ (\E k \in LinesOf(NodeAt(c)) : Shows(a, c, k))'
      BY <1>13, <3>2, <3>3
    <3> QED
      BY <1>7, <3>5, <3>6, <3>7
  <2> QED
    BY <1>3, <2>1, <2>2
<1>18. ASSUME NEW id \in 0 .. new, NodeAt(id)' # NoNode, NEW other \in LinesOf(NodeAt(id))',
              other.node # NoNode
       PROVE  Left(id, other)' <=> ~\E a \in 1 .. new : Shows(a, id, other)'
  <2>1. CASE id \in 0 .. n
    <3>1. PICK q : q = NodeAt(id)
      OBVIOUS
    <3>2. NodeAt(id)' = q /\ other \in LinesOf(q) /\ q # NoNode
      BY <1>9, <1>10, <1>18, <2>1, <3>1
    <3>3. Left(id, other) <=> ~\E a \in 1 .. n : Shows(a, id, other)
      BY <1>1, <1>7, <1>18, <2>1, <3>1, <3>2 DEF Walked
    <3>4. Left(id, other)' <=> (Left(id, other) /\ ~(id = c /\ other = line))
      BY <1>1, <2>1 DEF Left
    <3>5. Shows(new, id, other)' <=> (id = c /\ other = line)
      <4>1. ASSUME id = c, other.label = line.label, other.node = line.node PROVE other = line
        BY <1>12, <1>13, <1>18, <3>1, <3>2, <4>1, LinesDiffer
      <4> QED
        BY <1>15, <4>1
    <3>6. (\E a \in 1 .. new : Shows(a, id, other)')
          <=> (Shows(new, id, other)' \/ \E a \in 1 .. n : Shows(a, id, other))
      BY <1>3, <1>14, <2>1
    <3> QED
      BY <3>3, <3>4, <3>5, <3>6
  <2>2. CASE id = new
    <3>1. line.node # NoNode /\ other \in LinesOf(line.node)
      BY <1>9, <1>10, <1>18, <2>2
    <3>2. Left(id, other)'
      BY <1>1, <1>2, <2>2, <3>1 DEF Left
    <3>3. ASSUME NEW a \in 1 .. new PROVE ~Shows(a, id, other)'
      <4>1. CASE a = new
        BY <1>3, <1>11, <1>15, <2>2, <4>1
      <4>2. CASE a \in 1 .. n
        <5>1. arrows'[a].from \in 0 .. a - 1
          BY <1>3, <1>7, <4>2
        <5>2. arrows'[a].from # id
          BY <1>3, <2>2, <4>2, <5>1
        <5> QED
          BY <5>2 DEF Shows
      <4> QED
        BY <1>3, <4>1, <4>2
    <3> QED
      BY <3>2, <3>3
  <2> QED
    BY <1>3, <2>1, <2>2
<1>19. NodeAt(0)' = 1
  BY <1>3, <1>9 DEF Walked
<1>20. \A id \in 0 .. new : NodeAt(id)' \in 0 .. Len(ast')
  <2> TAKE id \in 0 .. new
  <2>1. CASE id \in 0 .. n
    BY <1>1, <1>9, <1>10, <2>1 DEF Walked
  <2>2. CASE id = new
    BY <1>9, <1>10, <1>13, <2>2 DEF NoNode
  <2> QED
    BY <1>3, <2>1, <2>2
<1>21. ASSUME NEW v \in DOMAIN visits'
       PROVE  /\ (NodeAt(visits[v].cur) # NoNode)'
              /\ (visits[v].left \subseteq LinesOf(NodeAt(visits[v].cur)))'
  <2>1. PICK cur : cur = visits'[v].cur
    OBVIOUS
  <2>2. CASE /\ cur \in 0 .. n /\ NodeAt(cur) # NoNode
             /\ visits'[v].left \subseteq LinesOf(NodeAt(cur))
    <3>1. PICK q : q = NodeAt(cur)
      OBVIOUS
    <3>2. NodeAt(cur)' = q
      BY <1>9, <2>2, <3>1
    <3>3. (NodeAt(visits[v].cur))' = q
      BY <2>1, <3>2 DEF NodeAt
    <3>4. LinesOf(q)' = LinesOf(q)
      BY <1>10
    <3>5. LinesOf(NodeAt(visits[v].cur))' = LinesOf(q)'
      BY <3>3
    <3> QED
      BY <2>2, <3>1, <3>3, <3>4, <3>5
  <2>3. CASE cur = new /\ line.node # NoNode /\ visits'[v].left \subseteq LinesOf(line.node)
    <3>1. PICK q : q = line.node
      OBVIOUS
    <3>2. NodeAt(cur)' = q
      BY <1>9, <2>3, <3>1
    <3>3. (NodeAt(visits[v].cur))' = q
      BY <2>1, <3>2 DEF NodeAt
    <3>4. LinesOf(q)' = LinesOf(q)
      BY <1>10
    <3>5. LinesOf(NodeAt(visits[v].cur))' = LinesOf(q)'
      BY <3>3
    <3> QED
      BY <2>3, <3>1, <3>3, <3>4, <3>5
  <2> QED
    BY <1>1, <1>2, <2>1, <2>2, <2>3
<1>22. \A a \in DOMAIN arrows' : (NodeAt(a) # NoNode)' =>
          /\ (NodeAt(arrows[a].from) # NoNode)'
          /\ (\E l \in LinesOf(NodeAt(arrows[a].from)) : Shows(a, arrows[a].from, l))'
          /\ (\A other \in DOMAIN arrows : Shows(other, arrows[a].from,
                    [label |-> arrows[a].label, node |-> NodeAt(a)]) => other = a)'
  BY <1>7, <1>17
<1>23. \A id \in 0 .. lastID' : (NodeAt(id) # NoNode)' => \A other \in LinesOf(NodeAt(id))' :
          other.node # NoNode => (Left(id, other)' <=> ~\E a \in DOMAIN arrows' : Shows(a, id, other)')
  BY <1>3, <1>7, <1>18
<1>24. \A v \in DOMAIN visits' :
          /\ DOMAIN visits'[v] = {"cur", "left"}
          /\ \A w \in DOMAIN visits' : v < w => visits'[v].cur < visits'[w].cur
  OBVIOUS
<1> HIDE DEF NodeAt, Left, Shows, LinesOf
<1> QED
  BY <1>3, <1>19, <1>20, <1>21, <1>22, <1>23, <1>24 DEF Walked

\* The visits, the innermost with one line less.
LEMMA WithoutFacts ==
    ASSUME Numbered, Walked, Printing, NEW line
    PROVE  \E m \in Nat \ {0} :
              /\ IsSequence(Outer) /\ IsSequence(Without(line))
              /\ Len(Without(line)) = m /\ Innermost = visits[m]
              /\ DOMAIN visits = 1 .. m /\ DOMAIN Outer = 1 .. m - 1
              /\ DOMAIN Without(line) = 1 .. m
              /\ \A v \in 1 .. m - 1 : Outer[v] = visits[v] /\ Without(line)[v] = visits[v]
              /\ DOMAIN Without(line)[m] = {"cur", "left"}
              /\ Without(line)[m].cur = visits[m].cur
              /\ Without(line)[m].left = visits[m].left \ {line}
<1>1. IsSequence(visits) /\ visits # <<>>
  BY DEF Numbered, Printing
<1>2. PICK m : m = Len(visits)
  OBVIOUS
<1>3. /\ m \in Nat \ {0} /\ m \in DOMAIN visits /\ DOMAIN visits = 1 .. m
      /\ IsSequence(Outer) /\ Len(Outer) = m - 1
      /\ \A v \in DOMAIN Outer : Outer[v] = visits[v]
  BY <1>1, <1>2, FrontIsSequence, SequenceFacts DEF Outer
<1>4. Innermost = visits[m]
  BY <1>2 DEF Innermost
<1>5. DOMAIN visits[m] = {"cur", "left"}
  BY <1>3 DEF Walked
<1>6. PICK last : last = [Innermost EXCEPT !.left = @ \ {line}]
  OBVIOUS
<1>7. /\ DOMAIN last = {"cur", "left"} /\ last.cur = visits[m].cur
      /\ last.left = visits[m].left \ {line}
  BY <1>4, <1>5, <1>6
<1>8. PICK without : without = Without(line)
  OBVIOUS
<1>9. without = Append(Outer, last)
  BY <1>6, <1>8 DEF Without
<1>10. DOMAIN Outer = 1 .. m - 1
  BY <1>3, SequenceFacts
<1>11. m - 1 + 1 = m
  BY <1>3
<1>12. /\ IsSequence(without) /\ Len(without) = m /\ DOMAIN without = 1 .. m
       /\ \A v \in 1 .. m - 1 : without[v] = Outer[v]
       /\ without[m] = last
  BY <1>3, <1>9, <1>10, <1>11, AppendIsSequence
<1> QED
  BY <1>3, <1>4, <1>7, <1>8, <1>10, <1>12

\* The number of the innermost visit is no other one's.
LEMMA InnermostFacts ==
    ASSUME Numbered, Walked, NEW m \in Nat \ {0}, DOMAIN visits = 1 .. m
    PROVE  /\ \A v \in 1 .. m : visits[v].cur \in 0 .. lastID
           /\ \A v \in 1 .. m - 1 : visits[v].cur < visits[m].cur
           /\ \A v, w \in 1 .. m : visits[v].cur = visits[w].cur => v = w
<1>1. lastID \in Nat /\ \A v \in 1 .. m : visits[v].cur \in 0 .. lastID
  BY DEF Numbered
<1>2. \A v, w \in 1 .. m : v < w => visits[v].cur < visits[w].cur
  BY DEF Walked
<1>3. \A v, w \in 1 .. m : v < w \/ w < v \/ v = w
  OBVIOUS
<1>4. ASSUME NEW v \in 1 .. m, NEW w \in 1 .. m, visits[v].cur = visits[w].cur PROVE v = w
  <2>1. visits[v].cur \in Int /\ visits[w].cur \in Int
    BY <1>1
  <2>2. ~(visits[v].cur < visits[w].cur) /\ ~(visits[w].cur < visits[v].cur)
    BY <1>4, <2>1
  <2> QED
    BY <1>2, <1>3, <2>2
<1> QED
  BY <1>1, <1>2, <1>4

LEMMA ChildWalked ==
    ASSUME Numbered, Grown, Walked, ~NotPrinted, Printing, NEW line \in Innermost.left,
           visitChild(line)
    PROVE  Walked'
<1>1. PICK m \in Nat \ {0} :
              /\ IsSequence(Outer) /\ IsSequence(Without(line))
              /\ Len(Without(line)) = m /\ Innermost = visits[m]
              /\ DOMAIN visits = 1 .. m /\ DOMAIN Outer = 1 .. m - 1
              /\ DOMAIN Without(line) = 1 .. m
              /\ \A v \in 1 .. m - 1 : Outer[v] = visits[v] /\ Without(line)[v] = visits[v]
              /\ DOMAIN Without(line)[m] = {"cur", "left"}
              /\ Without(line)[m].cur = visits[m].cur
              /\ Without(line)[m].left = visits[m].left \ {line}
  BY WithoutFacts
<1>2. PICK without : without = Without(line)
  OBVIOUS
<1>3. PICK c : c = Innermost.cur
  OBVIOUS
<1>4. PICK n : n = lastID
  OBVIOUS
<1>5. PICK visit : visit = Visit(n + 1, line.node)
  OBVIOUS
<1>6. /\ line.node # NoNode /\ lastID' = n + 1 /\ n \in Nat
      /\ arrows' = Append(arrows, Arrow(c, n + 1, line.label))
      /\ boxes' = Append(boxes, Box(n + 1, line.node))
      /\ visits' = Append(without, visit) /\ UNCHANGED treeVars
  BY <1>2, <1>3, <1>4, <1>5 DEF visitChild, Numbered
<1>7. DOMAIN visit = {"cur", "left"} /\ visit.cur = n + 1 /\ visit.left = LinesOf(line.node)
  BY <1>5 DEF Visit
<1>8. /\ \A v \in 1 .. m : visits[v].cur \in 0 .. n
      /\ \A v \in 1 .. m - 1 : visits[v].cur < c
      /\ \A v, w \in 1 .. m : visits[v].cur = visits[w].cur => v = w
      /\ c \in 0 .. n /\ c = visits[m].cur /\ m \in 1 .. m
  BY <1>1, <1>3, <1>4, InnermostFacts
<1>9. /\ \A v \in 1 .. m : /\ DOMAIN visits[v] = {"cur", "left"}
                           /\ NodeAt(visits[v].cur) # NoNode
                           /\ visits[v].left \subseteq LinesOf(NodeAt(visits[v].cur))
      /\ \A v, w \in 1 .. m : v < w => visits[v].cur < visits[w].cur
  BY <1>1 DEF Walked
<1>10. /\ DOMAIN visits' = 1 .. m + 1
       /\ \A v \in 1 .. m - 1 : visits'[v] = visits[v]
       /\ visits'[m] = without[m] /\ visits'[m + 1] = visit
  <2>1. /\ DOMAIN visits' = 1 .. m + 1
        /\ \A v \in 1 .. m : visits'[v] = without[v]
        /\ visits'[m + 1] = visit
    BY <1>1, <1>2, <1>6, AppendIsSequence
  <2> QED
    BY <1>1, <1>2, <2>1
<1>11. /\ DOMAIN visits'[m] = {"cur", "left"} /\ visits'[m].cur = c
       /\ visits'[m].left = visits[m].left \ {line}
  BY <1>1, <1>2, <1>8, <1>10
<1>12. \A v \in 1 .. m + 1 : v \in 1 .. m - 1 \/ v = m \/ v = m + 1
  OBVIOUS
<1>13. /\ line \in LinesOf(NodeAt(c)) /\ NodeAt(c) # NoNode /\ Left(c, line)
  BY <1>1, <1>8, <1>9 DEF Left
<1>14. ASSUME NEW v \in 1 .. m + 1
       PROVE  /\ DOMAIN visits'[v] = {"cur", "left"}
              /\ \/ /\ visits'[v].cur \in 0 .. n /\ NodeAt(visits'[v].cur) # NoNode
                    /\ visits'[v].left \subseteq LinesOf(NodeAt(visits'[v].cur))
                 \/ /\ visits'[v].cur = n + 1 /\ line.node # NoNode
                    /\ visits'[v].left \subseteq LinesOf(line.node)
  <2>1. CASE v \in 1 .. m - 1
    BY <1>8, <1>9, <1>10, <2>1
  <2>2. CASE v = m
    BY <1>8, <1>9, <1>11, <2>2
  <2>3. CASE v = m + 1
    BY <1>6, <1>7, <1>10, <2>3
  <2> QED
    BY <1>12, <2>1, <2>2, <2>3
<1>15. ASSUME NEW v \in 1 .. m + 1, NEW w \in 1 .. m + 1, v < w
       PROVE  visits'[v].cur < visits'[w].cur
  <2>1. v \in 1 .. m /\ visits'[v].cur = visits[v].cur
    BY <1>8, <1>10, <1>11, <1>12, <1>15
  <2>2. CASE w = m + 1
    <3>1. visits'[w].cur = n + 1
      BY <1>7, <1>10, <2>2
    <3> QED
      BY <1>6, <1>8, <2>1, <3>1
  <2>3. CASE w \in 1 .. m
    <3>1. visits'[w].cur = visits[w].cur
      BY <1>8, <1>10, <1>11, <1>12, <2>3
    <3> QED
      BY <1>9, <1>15, <2>1, <2>3, <3>1
  <2> QED
    BY <2>2, <2>3
<1>16. ASSUME NEW id \in 0 .. n, NEW other
       PROVE  (\E v \in 1 .. m + 1 : visits'[v].cur = id /\ other \in visits'[v].left)
              <=> (Left(id, other) /\ ~(id = c /\ other = line))
  <2>1. Left(id, other) <=> \E v \in 1 .. m : visits[v].cur = id /\ other \in visits[v].left
    BY <1>1 DEF Left
  <2>2. ASSUME NEW v \in 1 .. m + 1, visits'[v].cur = id, other \in visits'[v].left
        PROVE  Left(id, other) /\ ~(id = c /\ other = line)
    <3>1. v \in 1 .. m - 1 \/ v = m
      BY <1>6, <1>7, <1>10, <1>12, <2>2
    <3>2. CASE v \in 1 .. m - 1
      <4>1. visits[v].cur = id /\ other \in visits[v].left /\ id < c /\ v \in 1 .. m
        BY <1>8, <1>10, <2>2, <3>2
      <4>2. id # c
        BY <1>8, <4>1
      <4> QED
        BY <2>1, <4>1, <4>2
    <3>3. CASE v = m
      BY <1>8, <1>11, <2>1, <2>2, <3>3
    <3> QED
      BY <3>1, <3>2, <3>3
  <2>3. ASSUME Left(id, other), ~(id = c /\ other = line)
        PROVE  \E v \in 1 .. m + 1 : visits'[v].cur = id /\ other \in visits'[v].left
    <3>1. PICK v \in 1 .. m : visits[v].cur = id /\ other \in visits[v].left
      BY <2>1, <2>3
    <3>2. v \in 1 .. m + 1 /\ (v \in 1 .. m - 1 \/ v = m)
      OBVIOUS
    <3>3. visits'[v].cur = id /\ other \in visits'[v].left
      BY <1>8, <1>10, <1>11, <2>3, <3>1, <3>2
    <3> QED
      BY <3>2, <3>3
  <2> QED
    BY <2>2, <2>3
<1>17. m + 1 \in 1 .. m + 1 /\ visits'[m + 1].cur = n + 1 /\ visits'[m + 1].left = LinesOf(line.node)
  BY <1>7, <1>10
<1>18. \A v \in DOMAIN visits' :
          /\ DOMAIN visits'[v] = {"cur", "left"}
          /\ \/ /\ visits'[v].cur \in 0 .. lastID /\ NodeAt(visits'[v].cur) # NoNode
                /\ visits'[v].left \subseteq LinesOf(NodeAt(visits'[v].cur))
             \/ /\ visits'[v].cur = lastID + 1 /\ line.node # NoNode
                /\ visits'[v].left \subseteq LinesOf(line.node)
          /\ \A w \in DOMAIN visits' : v < w => visits'[v].cur < visits'[w].cur
  BY <1>4, <1>10, <1>14, <1>15
<1>19. \A id \in 0 .. lastID : \A other :
          (\E v \in DOMAIN visits' : visits'[v].cur = id /\ other \in visits'[v].left)
          <=> (Left(id, other) /\ ~(id = c /\ other = line))
  BY <1>4, <1>10, <1>16
<1>20. line.node # NoNode => \A other \in LinesOf(line.node) :
          \E v \in DOMAIN visits' : visits'[v].cur = lastID + 1 /\ other \in visits'[v].left
  BY <1>4, <1>10, <1>17
<1>21. /\ lastID' = lastID + 1 /\ UNCHANGED treeVars
       /\ arrows' = Append(arrows, Arrow(c, lastID + 1, line.label))
       /\ boxes' = Append(boxes, Box(lastID + 1, line.node))
  BY <1>4, <1>6
<1> HIDE DEF NodeAt, Left, LinesOf
<1> QED
  BY <1>3, <1>13, <1>18, <1>19, <1>20, <1>21, LineWalked

LEMMA LeafWalked ==
    ASSUME Numbered, Grown, Walked, ~NotPrinted, Printing, NEW line \in Innermost.left,
           printLeaf(line)
    PROVE  Walked'
<1>1. PICK m \in Nat \ {0} :
              /\ Innermost = visits[m]
              /\ DOMAIN visits = 1 .. m
              /\ DOMAIN Without(line) = 1 .. m
              /\ \A v \in 1 .. m - 1 : Without(line)[v] = visits[v]
              /\ DOMAIN Without(line)[m] = {"cur", "left"}
              /\ Without(line)[m].cur = visits[m].cur
              /\ Without(line)[m].left = visits[m].left \ {line}
  BY WithoutFacts
<1>2. PICK c : c = Innermost.cur
  OBVIOUS
<1>3. PICK n : n = lastID
  OBVIOUS
<1>4. /\ line.node = NoNode /\ lastID' = n + 1 /\ n \in Nat
      /\ arrows' = Append(arrows, Arrow(c, n + 1, line.label))
      /\ boxes' = Append(boxes, Box(n + 1, line.node))
      /\ visits' = Without(line) /\ UNCHANGED treeVars
  BY <1>2, <1>3 DEF printLeaf, Numbered
<1>5. /\ \A v \in 1 .. m : visits[v].cur \in 0 .. n
      /\ \A v \in 1 .. m - 1 : visits[v].cur < c
      /\ c \in 0 .. n /\ c = visits[m].cur /\ m \in 1 .. m
  BY <1>1, <1>2, <1>3, InnermostFacts
<1>6. /\ \A v \in 1 .. m : /\ DOMAIN visits[v] = {"cur", "left"}
                           /\ NodeAt(visits[v].cur) # NoNode
                           /\ visits[v].left \subseteq LinesOf(NodeAt(visits[v].cur))
      /\ \A v, w \in 1 .. m : v < w => visits[v].cur < visits[w].cur
  BY <1>1 DEF Walked
<1>7. /\ DOMAIN visits' = 1 .. m
      /\ \A v \in 1 .. m - 1 : visits'[v] = visits[v]
      /\ DOMAIN visits'[m] = {"cur", "left"} /\ visits'[m].cur = c
      /\ visits'[m].left = visits[m].left \ {line}
  BY <1>1, <1>4, <1>5
<1>8. \A v \in 1 .. m : (v \in 1 .. m - 1 \/ v = m) /\ visits'[v].cur = visits[v].cur
  <2>1. \A v \in 1 .. m : v \in 1 .. m - 1 \/ v = m
    OBVIOUS
  <2> QED
    BY <1>5, <1>7, <2>1
<1>9. line \in LinesOf(NodeAt(c)) /\ NodeAt(c) # NoNode /\ Left(c, line)
  BY <1>1, <1>5, <1>6 DEF Left
<1>10. ASSUME NEW v \in 1 .. m
       PROVE  /\ DOMAIN visits'[v] = {"cur", "left"}
              /\ visits'[v].cur \in 0 .. n /\ NodeAt(visits'[v].cur) # NoNode
              /\ visits'[v].left \subseteq LinesOf(NodeAt(visits'[v].cur))
  <2>1. CASE v \in 1 .. m - 1
    BY <1>5, <1>6, <1>7, <2>1
  <2>2. CASE v = m
    BY <1>5, <1>6, <1>7, <2>2
  <2> QED
    BY <1>8, <2>1, <2>2
<1>11. \A v, w \in 1 .. m : v < w => visits'[v].cur < visits'[w].cur
  BY <1>6, <1>8
<1>12. ASSUME NEW id \in 0 .. n, NEW other
       PROVE  (\E v \in 1 .. m : visits'[v].cur = id /\ other \in visits'[v].left)
              <=> (Left(id, other) /\ ~(id = c /\ other = line))
  <2>1. Left(id, other) <=> \E v \in 1 .. m : visits[v].cur = id /\ other \in visits[v].left
    BY <1>1 DEF Left
  <2>2. ASSUME NEW v \in 1 .. m, visits'[v].cur = id, other \in visits'[v].left
        PROVE  Left(id, other) /\ ~(id = c /\ other = line)
    <3>1. CASE v \in 1 .. m - 1
      <4>1. visits[v].cur = id /\ other \in visits[v].left /\ id < c
        BY <1>5, <1>7, <2>2, <3>1
      <4>2. id # c
        BY <1>5, <4>1
      <4> QED
        BY <2>1, <4>1, <4>2
    <3>2. CASE v = m
      BY <1>5, <1>7, <2>1, <2>2, <3>2
    <3> QED
      BY <1>8, <3>1, <3>2
  <2>3. ASSUME Left(id, other), ~(id = c /\ other = line)
        PROVE  \E v \in 1 .. m : visits'[v].cur = id /\ other \in visits'[v].left
    <3>1. PICK v \in 1 .. m : visits[v].cur = id /\ other \in visits[v].left
      BY <2>1, <2>3
    <3>2. visits'[v].cur = id /\ other \in visits'[v].left
      BY <1>5, <1>7, <1>8, <2>3, <3>1
    <3> QED
      BY <3>2
  <2> QED
    BY <2>2, <2>3
<1>13. \A v \in DOMAIN visits' :
          /\ DOMAIN visits'[v] = {"cur", "left"}
          /\ \/ /\ visits'[v].cur \in 0 .. lastID /\ NodeAt(visits'[v].cur) # NoNode
                /\ visits'[v].left \subseteq LinesOf(NodeAt(visits'[v].cur))
             \/ /\ visits'[v].cur = lastID + 1 /\ line.node # NoNode
                /\ visits'[v].left \subseteq LinesOf(line.node)
          /\ \A w \in DOMAIN visits' : v < w => visits'[v].cur < visits'[w].cur
  BY <1>3, <1>7, <1>10, <1>11
<1>14. \A id \in 0 .. lastID : \A other :
          (\E v \in DOMAIN visits' : visits'[v].cur = id /\ other \in visits'[v].left)
          <=> (Left(id, other) /\ ~(id = c /\ other = line))
  BY <1>3, <1>7, <1>12
<1>15. line.node # NoNode => \A other \in LinesOf(line.node) :
          \E v \in DOMAIN visits' : visits'[v].cur = lastID + 1 /\ other \in visits'[v].left
  BY <1>4
<1>16. /\ lastID' = lastID + 1 /\ UNCHANGED treeVars
       /\ arrows' = Append(arrows, Arrow(c, lastID + 1, line.label))
       /\ boxes' = Append(boxes, Box(lastID + 1, line.node))
  BY <1>3, <1>4
<1> HIDE DEF NodeAt, Left, LinesOf
<1> QED
  BY <1>2, <1>9, <1>13, <1>14, <1>15, <1>16, LineWalked

\* Nothing is drawn, and no line is left out or added.
LEMMA SameWalked ==
    ASSUME Walked, boxes' = boxes, arrows' = arrows, lastID' = lastID, UNCHANGED treeVars,
           DOMAIN visits' \subseteq DOMAIN visits, \A v \in DOMAIN visits' : visits'[v] = visits[v],
           \A id, line : Left(id, line)' <=> Left(id, line)
    PROVE  Walked'
<1>1. ast' = ast /\ \A p : LinesOf(p)' = LinesOf(p)
  BY LinesSame
<1>2. \A id : NodeAt(id)' = NodeAt(id)
  BY DEF NodeAt
<1>3. \A a, id, line : Shows(a, id, line)' <=> Shows(a, id, line)
  BY DEF Shows, NodeAt
<1>4. \A v \in DOMAIN visits' :
        /\ DOMAIN visits'[v] = {"cur", "left"}
        /\ (NodeAt(visits[v].cur) # NoNode)'
        /\ (visits[v].left \subseteq LinesOf(NodeAt(visits[v].cur)))'
        /\ \A w \in DOMAIN visits' : v < w => visits'[v].cur < visits'[w].cur
  <2> SUFFICES ASSUME NEW v \in DOMAIN visits'
               PROVE  /\ DOMAIN visits'[v] = {"cur", "left"}
                      /\ (NodeAt(visits[v].cur) # NoNode)'
                      /\ (visits[v].left \subseteq LinesOf(NodeAt(visits[v].cur)))'
                      /\ \A w \in DOMAIN visits' : v < w => visits'[v].cur < visits'[w].cur
    OBVIOUS
  <2>1. PICK p : p = NodeAt(visits[v].cur)
    OBVIOUS
  <2>2. visits'[v] = visits[v] /\ v \in DOMAIN visits
    OBVIOUS
  <2>3. (NodeAt(visits[v].cur))' = p
    BY <1>2, <2>1, <2>2
  <2>4. LinesOf(p)' = LinesOf(p) /\ LinesOf(NodeAt(visits[v].cur))' = LinesOf(p)'
    BY <1>1, <2>3
  <2>5. /\ DOMAIN visits[v] = {"cur", "left"} /\ p # NoNode
        /\ visits[v].left \subseteq LinesOf(p)
        /\ \A w \in DOMAIN visits' : v < w => visits[v].cur < visits[w].cur
    BY <2>1, <2>2 DEF Walked
  <2> QED
    BY <2>2, <2>3, <2>4, <2>5
<1>5. NodeAt(0)' = 1 /\ \A id \in 0 .. lastID' : NodeAt(id)' \in 0 .. Len(ast')
  BY <1>1, <1>2 DEF Walked
<1>6. ASSUME NEW a \in DOMAIN arrows', NodeAt(a)' # NoNode
       PROVE  /\ (NodeAt(arrows[a].from) # NoNode)'
              /\ (\E line \in LinesOf(NodeAt(arrows[a].from)) : Shows(a, arrows[a].from, line))'
              /\ (\A other \in DOMAIN arrows : Shows(other, arrows[a].from,
                        [label |-> arrows[a].label, node |-> NodeAt(a)]) => other = a)'
  <2>1. PICK from : from = arrows[a].from
    OBVIOUS
  <2>2. PICK l : l = [label |-> arrows[a].label, node |-> NodeAt(a)]
    OBVIOUS
  <2>3. PICK p : p = NodeAt(from)
    OBVIOUS
  <2>4. /\ p # NoNode /\ \E line \in LinesOf(p) : Shows(a, from, line)
        /\ \A other \in DOMAIN arrows : Shows(other, from, l) => other = a
    BY <1>2, <1>6, <2>1, <2>2, <2>3 DEF Walked
  <2>5. /\ arrows'[a].from = from /\ NodeAt(from)' = p
        /\ [label |-> arrows'[a].label, node |-> NodeAt(a)'] = l
    BY <1>2, <2>1, <2>2, <2>3
  <2>6. LinesOf(p)' = LinesOf(p) /\ LinesOf(NodeAt(from))' = LinesOf(p)'
    BY <1>1, <2>5
  <2>7. /\ (NodeAt(from) # NoNode)' /\ (\E line \in LinesOf(NodeAt(from)) : Shows(a, from, line))'
        /\ (\A other \in DOMAIN arrows : Shows(other, from, l) => other = a)'
    BY <1>3, <2>4, <2>5, <2>6
  <2> QED
    BY <2>5, <2>7
<1>7. ASSUME NEW id \in 0 .. lastID', NodeAt(id)' # NoNode, NEW line \in LinesOf(NodeAt(id))',
              line.node # NoNode
       PROVE  Left(id, line)' <=> ~\E a \in DOMAIN arrows' : Shows(a, id, line)'
  <2>1. PICK p : p = NodeAt(id)
    OBVIOUS
  <2>2. NodeAt(id)' = p /\ p # NoNode
    BY <1>2, <1>7, <2>1
  <2>3. LinesOf(NodeAt(id))' = LinesOf(p)' /\ LinesOf(p)' = LinesOf(p)
    BY <1>1, <2>2
  <2>4. line \in LinesOf(p)
    BY <1>7, <2>3
  <2>5. Left(id, line) <=> ~\E a \in DOMAIN arrows : Shows(a, id, line)
    BY <1>7, <2>1, <2>2, <2>4 DEF Walked
  <2> QED
    BY <1>3, <2>5
<1> HIDE DEF NodeAt, Left, Shows, LinesOf
<1> QED
  BY <1>4, <1>5, <1>6, <1>7 DEF Walked

LEMMA EndWalked ==
    ASSUME Numbered, Walked, EndVisit
    PROVE  Walked'
<1>1. /\ Printing /\ Innermost.left = {} /\ visits' = Outer
      /\ boxes' = boxes /\ arrows' = arrows /\ lastID' = lastID /\ UNCHANGED treeVars
  BY DEF EndVisit
<1>2. PICK m \in Nat \ {0} :
              /\ Innermost = visits[m]
              /\ DOMAIN visits = 1 .. m /\ DOMAIN Outer = 1 .. m - 1
              /\ \A v \in 1 .. m - 1 : Outer[v] = visits[v]
  BY <1>1, WithoutFacts
<1>3. DOMAIN visits' = 1 .. m - 1 /\ \A v \in 1 .. m - 1 : visits'[v] = visits[v]
  BY <1>1, <1>2
<1>4. \A id, line : (\E v \in 1 .. m - 1 : visits'[v].cur = id /\ line \in visits'[v].left)
                    <=> Left(id, line)
  <2> SUFFICES ASSUME NEW id, NEW line
               PROVE  (\E v \in 1 .. m - 1 : visits'[v].cur = id /\ line \in visits'[v].left)
                      <=> Left(id, line)
    OBVIOUS
  <2>1. Left(id, line) <=> \E v \in 1 .. m : visits[v].cur = id /\ line \in visits[v].left
    BY <1>2 DEF Left
  <2>2. \A v \in 1 .. m : (v \in 1 .. m - 1) \/ v = m
    OBVIOUS
  <2>3. \A v \in 1 .. m - 1 : v \in 1 .. m
    OBVIOUS
  <2> QED
    BY <1>1, <1>2, <1>3, <2>1, <2>2, <2>3
<1>5. \A id, line : Left(id, line)' <=> Left(id, line)
  BY <1>3, <1>4 DEF Left
<1> QED
  BY <1>1, <1>2, <1>3, <1>5, SameWalked

\* main() never returns to a phase before the printing.
LEMMA PhasesBefore ==
    ASSUME [Next]_vars, phase' \in {"args", "open", "parse", "sema"}
    PROVE  phase \in {"args", "open", "parse", "sema"}
<1>1. CASE \/ \E option \in {"srcPath", "destPath", "llvmDestPath"} : PathOption(option)
           \/ GraphOption \/ BadArgument \/ EndOfArgs
  BY <1>1 DEF PathOption, GraphOption, BadArgument, EndOfArgs, NextArg
<1>2. CASE OpenSource \/ Parse \/ ParseFails \/ Analyse
  BY <1>2 DEF OpenSource, Parse, ParseFails, Analyse
<1>3. CASE PrintGraph
  BY <1>3 DEF PrintGraph, Go, mainVars
<1>4. CASE Generate \/ OpenLLVM \/ EmitLLVM
  BY <1>4 DEF Generate, OpenLLVM, EmitLLVM, Go, Exit, Fails
<1>5. CASE OpenRISCV \/ EmitRISCV
  BY <1>5 DEF OpenRISCV, EmitRISCV, Go, Exit
<1>6. CASE Finished \/ UNCHANGED vars
  BY <1>6 DEF Finished, vars, mainVars
<1> QED
  BY <1>1, <1>2, <1>3, <1>4, <1>5, <1>6 DEF Next

LEMMA WalkStep ==
    ASSUME Numbered, WalkInv, [Next]_vars
    PROVE  WalkInv'
<1>1. Grown /\ Grown'
  BY GrownStep DEF WalkInv
<1>2. CASE phase = "print" /\ (PrintRoot \/ PrintStep) /\ UNCHANGED mainVars
  <2>1. phase' = "print"
    BY <1>2 DEF mainVars
  <2>2. CASE PrintRoot
    BY <1>1, <2>1, <2>2, RootWalked DEF WalkInv
  <2>3. CASE Printing /\ \E line \in Innermost.left : visitChild(line) \/ printLeaf(line)
    <3>1. ~NotPrinted /\ Walked
      BY <2>3 DEF Numbered, WalkInv
    <3>2. Walked'
      BY <1>1, <2>3, <3>1, ChildWalked, LeafWalked
    <3> QED
      BY <1>1, <2>1, <3>2 DEF WalkInv
  <2>4. CASE EndVisit
    <3>1. ~NotPrinted /\ Walked
      BY <2>4 DEF EndVisit, Numbered, WalkInv
    <3>2. Walked'
      BY <2>4, <3>1, EndWalked
    <3> QED
      BY <1>1, <2>1, <3>2 DEF WalkInv
  <2> QED
    BY <1>2, <2>2, <2>3, <2>4 DEF PrintStep
<1>3. CASE UNCHANGED graphVars
  <2>1. NotPrinted' = NotPrinted
    BY <1>3 DEF graphVars, NotPrinted
  <2>2. phase' \in {"args", "open", "parse", "sema"} => NotPrinted'
    BY <2>1, PhasesBefore DEF WalkInv
  <2>3. CASE phase = "parse"
    BY <1>1, <2>1, <2>2, <2>3 DEF WalkInv
  <2>4. CASE UNCHANGED treeVars
    <3>1. Walked => Walked'
      <4>1. boxes' = boxes /\ arrows' = arrows /\ lastID' = lastID /\ visits' = visits
        BY <1>3 DEF graphVars
      <4>2. \A id, line : Left(id, line)' <=> Left(id, line)
        BY <4>1 DEF Left
      <4> QED
        BY <2>4, <4>1, <4>2, SameWalked
    <3> QED
      BY <1>1, <2>1, <2>2, <3>1 DEF WalkInv
  <2> QED
    BY <2>3, <2>4, TreeSteps
<1> QED
  BY <1>2, <1>3, GraphSteps

\* The graph drawn so far is the part of the tree that was walked: of the
\* lines of every visit that has begun, each is drawn once or left to be drawn.
THEOREM KeepsWalkInv == Spec => []WalkInv
<1>1. Init => WalkInv
  <2> SUFFICES ASSUME Init PROVE WalkInv
    OBVIOUS
  <2>1. Grown
    BY InitGrown DEF Init
  <2>2. NotPrinted
    BY DEF Init, GraphInit, NotPrinted
  <2> QED
    BY <2>1, <2>2 DEF WalkInv
<1>2. DriverInv /\ WalkInv /\ [Next]_vars => WalkInv'
  BY WalkStep DEF DriverInv
<1> QED
  BY <1>1, <1>2, KeepsDriverInv, PTL DEF Spec

-----------------------------------------------------------------------------
(* Induction, from the well-foundedness of the naturals *)

\* Stated for a set: the numbers that have the property at hand.
LEMMA SetInduction ==
    ASSUME NEW S, 0 \in S, \A n \in Nat : n \in S => n + 1 \in S
    PROVE  Nat \subseteq S
<1> DEFINE T == Nat \ S
           R == OpToRel(<, Nat)
<1>1. SUFFICES ASSUME T # {} PROVE FALSE
  OBVIOUS
<1>2. IsWellFoundedOn(R, Nat)
  BY NatLessThanWellFounded, Zenon
<1>3. T \subseteq Nat
  OBVIOUS
<1> HIDE DEF T, R
<1>4. PICK x \in T : \A y \in T : <<y, x>> \notin R
  BY <1>1, <1>2, <1>3, WFMin
<1> USE DEF T
<1>5. x \in Nat /\ x # 0
  OBVIOUS
<1>6. x - 1 \in Nat /\ (x - 1) + 1 = x
  BY <1>5
<1>7. x - 1 \in T
  BY <1>5, <1>6
<1>8. <<x - 1, x>> \in R
  BY <1>5, <1>6 DEF R, OpToRel
<1> QED
  BY <1>4, <1>7, <1>8

-----------------------------------------------------------------------------
(* A node and those it belongs to *)

LEMMA TreeFacts ==
    ASSUME Grown
    PROVE  /\ DOMAIN ast = 1 .. Len(ast) /\ Len(ast) \in Nat \ {0}
           /\ ast[1].parent = NoNode /\ ast[1].label = "" /\ ast[1].kind = "NodeList"
           /\ ast[1].sort = "external"
           /\ \A n \in DOMAIN ast : ast[n].parent \in 0 .. n - 1
           /\ \A n \in DOMAIN ast : n # 1 => Belongs(n) /\ ast[n].parent \in DOMAIN ast
<1>1. IsSequence(ast) /\ ast # <<>> /\ ast[1] = Root /\ \A n \in 2 .. Len(ast) : Belongs(n)
  BY DEF Grown
<1>2. DOMAIN ast = 1 .. Len(ast) /\ Len(ast) \in Nat /\ Len(ast) # 0
  <2> DEFINE S == {ast[i] : i \in DOMAIN ast}
  <2>1. ast \in Seq(S)
    BY <1>1 DEF IsSequence
  <2> HIDE DEF S
  <2> QED
    BY <1>1, <2>1, EmptySeq, SequenceFacts
<1>3. Root.parent = NoNode /\ Root.label = "" /\ Root.kind = "NodeList" /\ Root.sort = "external"
  BY DEF Root, Node
<1>4. ASSUME NEW n \in DOMAIN ast, n # 1
      PROVE  Belongs(n) /\ ast[n].parent \in 1 .. n - 1 /\ ast[n].parent \in DOMAIN ast
  <2>1. Belongs(n)
    BY <1>1, <1>2, <1>4
  <2>2. ast[n].parent \in 1 .. n - 1
    BY <2>1 DEF Belongs
  <2> QED
    BY <1>2, <2>1, <2>2
<1>5. ASSUME NEW n \in DOMAIN ast PROVE ast[n].parent \in 0 .. n - 1
  <2>1. n \in Nat \ {0}
    BY <1>2
  <2>2. CASE n = 1
    <3>1. ast[n].parent = 0
      BY <1>1, <1>3, <2>2 DEF NoNode
    <3>2. 0 \in 0 .. n - 1
      BY <2>1
    <3> QED
      BY <3>1, <3>2
  <2>3. CASE n # 1
    BY <1>4, <2>1, <2>3
  <2> QED
    BY <2>2, <2>3
<1> QED
  BY <1>1, <1>2, <1>3, <1>4, <1>5

\* What the recursive function of WithAncestors is.
UpIs(up) ==
    up = [i \in 0 .. Len(ast) |-> IF i = NoNode THEN {} ELSE {i} \cup up[ast[i].parent]]
UpTo(g, n) == \A i \in 0 .. n : g[i] = IF i = NoNode THEN {} ELSE {i} \cup g[ast[i].parent]

LEMMA UpExists == Grown => \E up : UpIs(up)
<1> SUFFICES ASSUME Grown PROVE \E up : UpIs(up)
  OBVIOUS
<1>1. /\ DOMAIN ast = 1 .. Len(ast) /\ Len(ast) \in Nat
      /\ \A n \in DOMAIN ast : ast[n].parent \in 0 .. n - 1
  BY TreeFacts
<1> DEFINE G == {n \in Nat : n <= Len(ast) => \E g : UpTo(g, n)}
<1>2. 0 \in G
  <2> DEFINE g == [i \in 0 .. 0 |-> {}]
  <2>1. UpTo(g, 0)
    BY DEF UpTo, NoNode
  <2> QED
    BY <2>1
<1>3. ASSUME NEW n \in Nat, n \in G PROVE n + 1 \in G
  <2> SUFFICES ASSUME n + 1 <= Len(ast) PROVE \E g : UpTo(g, n + 1)
    OBVIOUS
  <2>1. PICK g : UpTo(g, n)
    BY <1>1, <1>3
  <2>2. PICK new : new = n + 1
    OBVIOUS
  <2> DEFINE h == [i \in 0 .. new |-> IF i = new THEN {new} \cup g[ast[new].parent] ELSE g[i]]
  <2>3. new \in DOMAIN ast /\ new # NoNode /\ ast[new].parent \in 0 .. n
    BY <1>1, <2>2 DEF NoNode
  <2>4. \A i \in 0 .. n : h[i] = g[i]
    BY <2>2
  <2>5. h[new] = {new} \cup g[ast[new].parent]
    BY <2>2
  <2> HIDE DEF h
  <2>6. ASSUME NEW i \in 0 .. new
        PROVE  h[i] = IF i = NoNode THEN {} ELSE {i} \cup h[ast[i].parent]
    <3>1. CASE i = new
      BY <2>3, <2>4, <2>5, <3>1
    <3>2. CASE i # new
      <4>1. i \in 0 .. n
        BY <2>2, <3>2
      <4>2. h[i] = IF i = NoNode THEN {} ELSE {i} \cup g[ast[i].parent]
        BY <2>1, <2>4, <4>1 DEF UpTo
      <4>3. CASE i = NoNode
        BY <4>2, <4>3
      <4>4. CASE i # NoNode
        <5>1. ast[i].parent \in 0 .. n
          BY <1>1, <4>1, <4>4 DEF NoNode
        <5> QED
          BY <2>4, <4>2, <4>4, <5>1
      <4> QED
        BY <4>3, <4>4
    <3> QED
      BY <3>1, <3>2
  <2>7. UpTo(h, n + 1)
    BY <2>2, <2>6 DEF UpTo
  <2> QED
    BY <2>7
<1> HIDE DEF G
<1>4. Nat \subseteq G
  BY <1>2, <1>3, SetInduction
<1>5. PICK g : UpTo(g, Len(ast))
  BY <1>1, <1>4 DEF G
<1> DEFINE up == [i \in 0 .. Len(ast) |-> g[i]]
<1>6. ASSUME NEW i \in 0 .. Len(ast)
      PROVE  up[i] = IF i = NoNode THEN {} ELSE {i} \cup up[ast[i].parent]
  <2>1. g[i] = IF i = NoNode THEN {} ELSE {i} \cup g[ast[i].parent]
    BY <1>5 DEF UpTo
  <2>2. CASE i = NoNode
    BY <2>1, <2>2
  <2>3. CASE i # NoNode
    <3>1. ast[i].parent \in 0 .. Len(ast)
      BY <1>1, <2>3 DEF NoNode
    <3> QED
      BY <2>1, <2>3, <3>1
  <2> QED
    BY <2>2, <2>3
<1>7. up = [i \in 0 .. Len(ast) |-> up[i]]
  OBVIOUS
<1> HIDE DEF up
<1>8. UpIs(up)
  BY <1>6, <1>7 DEF UpIs
<1> QED
  BY <1>8

Labels(n) == {ast[m].label : m \in WithAncestors(n)}

LEMMA LabelsAre ==
    ASSUME Grown
    PROVE  /\ Labels(1) = {""}
           /\ \A n \in DOMAIN ast : n # 1 =>
                Labels(n) = {ast[n].label} \cup Labels(ast[n].parent)
<1>1. /\ DOMAIN ast = 1 .. Len(ast) /\ Len(ast) \in Nat \ {0}
      /\ ast[1].parent = NoNode /\ ast[1].label = ""
  BY TreeFacts
<1> DEFINE k == Len(ast)
<1>2. DOMAIN ast = 1 .. k /\ k \in Nat /\ k # 0
  BY <1>1
<1> HIDE DEF k
<1>3. 1 \in DOMAIN ast /\ NoNode \in 0 .. k /\ \A n \in DOMAIN ast : n \in 0 .. k /\ n # NoNode
  BY <1>2 DEF NoNode
<1> DEFINE up == CHOOSE f : UpIs(f)
<1>4. UpIs(up)
  BY UpExists
<1>5. \A n : WithAncestors(n) = up[n]
  BY DEF WithAncestors, UpIs
<1> HIDE DEF up
<1>6. \A n \in DOMAIN ast : WithAncestors(n) = {n} \cup WithAncestors(ast[n].parent)
  <2> TAKE n \in DOMAIN ast
  <2>1. n \in 0 .. Len(ast) /\ n # NoNode
    BY <1>3 DEF k
  <2>2. up[n] = {n} \cup up[ast[n].parent]
    BY <1>4, <2>1 DEF UpIs
  <2> QED
    BY <1>5, <2>2
<1>7. WithAncestors(NoNode) = {}
  <2>1. NoNode \in 0 .. Len(ast)
    BY <1>3 DEF k
  <2>2. up[NoNode] = {}
    BY <1>4, <2>1 DEF UpIs
  <2> QED
    BY <1>5, <2>2
<1>8. WithAncestors(1) = {1}
  <2>1. 1 \in DOMAIN ast
    BY <1>3
  <2>2. WithAncestors(1) = {1} \cup WithAncestors(ast[1].parent)
    BY <1>6, <2>1
  <2> QED
    BY <1>1, <1>7, <2>2
<1>9. Labels(1) = {""}
  BY <1>1, <1>8 DEF Labels
<1>10. ASSUME NEW n \in DOMAIN ast
      PROVE  Labels(n) = {ast[n].label} \cup Labels(ast[n].parent)
  <2>1. PICK above : above = WithAncestors(ast[n].parent)
    OBVIOUS
  <2>2. WithAncestors(n) = {n} \cup above
    BY <1>6, <2>1
  <2>3. Labels(ast[n].parent) = {ast[m].label : m \in above}
    BY <2>1 DEF Labels
  <2>4. Labels(n) = {ast[m].label : m \in {n} \cup above}
    BY <2>2 DEF Labels
  <2> QED
    BY <2>3, <2>4
<1> QED
  BY <1>9, <1>10

-----------------------------------------------------------------------------
(* Where a node may be, and how it is drawn *)

\* What is in a loop's first expression: no loop.
Plain(n) ==
    IF IsList(n) THEN ast[n].sort \in PlainSort \cup {"nothing"} ELSE ast[n].kind \in PlainKind

LEMMA PlainBelow ==
    ASSUME Grown, NEW n \in DOMAIN ast, n # 1, Plain(ast[n].parent) \/ ast[n].label = "InitExpr"
    PROVE  Plain(n)
<1>1. PICK p : p = ast[n].parent
  OBVIOUS
<1>2. PICK label : label = ast[n].label
  OBVIOUS
<1>3. PICK member : member = MemberOf(p, label)
  OBVIOUS
<1>4. Belongs(n) /\ p \in DOMAIN ast
  BY <1>1, TreeFacts
<1>5. /\ HasMember(p, label) /\ ast[n].sort = member.sort
      /\ IF member.list THEN IsList(n)
         ELSE ast[n].sort \in DOMAIN Sorts /\ ast[n].kind \in KindsOf(ast[n].sort)
  BY <1>1, <1>2, <1>3, <1>4 DEF Belongs
<1>6. "nothing" \notin DOMAIN Sorts /\ PlainSort \subseteq DOMAIN Sorts
  BY PlainNames
<1>7. member.sort \in PlainSort \cup {"nothing"}
  <2>1. CASE IsList(p)
    <3>1. label = "element" /\ member = One(ast[p].sort)
      BY <1>3, <1>5, <2>1 DEF HasMember, MemberOf
    <3>2. member.sort = ast[p].sort
      BY <3>1 DEF One, Member
    <3>3. Plain(p)
      BY <1>1, <1>2, <3>1
    <3> QED
      BY <2>1, <3>2, <3>3 DEF Plain
  <2>2. CASE ~IsList(p)
    <3>1. PICK K : K = ast[p].kind
      OBVIOUS
    <3>2. label \in DOMAIN Members[K] /\ member = Members[K][label]
      BY <1>3, <1>5, <2>2, <3>1 DEF HasMember, MemberOf
    <3>3. K \in NodeKind \ {"NodeList"}
      BY <1>4, <2>2, <3>1, KindOfNode DEF IsList
    <3>4. /\ label = "InitExpr" => Members[K][label].sort \in PlainSort
          /\ K \in PlainKind => Members[K][label].sort \in PlainSort \cup {"nothing"}
      BY <3>2, <3>3, Rows DEF Row
    <3>5. K \in PlainKind \/ label = "InitExpr"
      BY <1>1, <1>2, <2>2, <3>1 DEF Plain
    <3> QED
      BY <3>2, <3>4, <3>5
  <2> QED
    BY <2>1, <2>2
<1>8. CASE IsList(n)
  BY <1>5, <1>7, <1>8 DEF Plain
<1>9. CASE ~IsList(n)
  <2>1. ast[n].sort \in PlainSort /\ ast[n].kind \in KindsOf(ast[n].sort)
    BY <1>5, <1>6, <1>7, <1>9
  <2>2. ast[n].kind \in PlainKind
    BY <1>6, <2>1, KindsAre
  <2> QED
    BY <1>9, <2>2 DEF Plain
<1> QED
  BY <1>8, <1>9

LEMMA InitIsPlain == Grown => \A n \in DOMAIN ast : "InitExpr" \in Labels(n) => Plain(n)
<1> SUFFICES ASSUME Grown PROVE \A n \in DOMAIN ast : "InitExpr" \in Labels(n) => Plain(n)
  OBVIOUS
<1> DEFINE S == {k \in Nat : \A n \in DOMAIN ast : n <= k /\ "InitExpr" \in Labels(n) => Plain(n)}
<1>1. DOMAIN ast = 1 .. Len(ast) /\ Len(ast) \in Nat
  BY TreeFacts
<1>2. 0 \in S
  BY <1>1
<1>3. ASSUME NEW k \in Nat, k \in S PROVE k + 1 \in S
  <2> SUFFICES ASSUME NEW n \in DOMAIN ast, n <= k + 1, "InitExpr" \in Labels(n) PROVE Plain(n)
    OBVIOUS
  <2>1. CASE n <= k
    BY <1>3, <2>1
  <2>2. CASE ~(n <= k)
    <3>1. n # 1
      <4>1. Labels(1) = {""}
        BY LabelsAre
      <4>2. "InitExpr" # ""
        BY Zenon
      <4> QED
        BY <4>1, <4>2
    <3>2. ast[n].label = "InitExpr" \/ "InitExpr" \in Labels(ast[n].parent)
      BY <3>1, LabelsAre
    <3>3. ast[n].parent \in DOMAIN ast /\ ast[n].parent \in 0 .. n - 1
      BY <3>1, TreeFacts
    <3>4. ast[n].parent <= k
      BY <1>1, <3>3
    <3>5. "InitExpr" \in Labels(ast[n].parent) => Plain(ast[n].parent)
      BY <1>3, <3>3, <3>4
    <3> QED
      BY <3>1, <3>2, <3>5, PlainBelow
  <2> QED
    BY <2>1, <2>2
<1> HIDE DEF S
<1>4. Nat \subseteq S
  BY <1>2, <1>3, SetInduction
<1>5. Len(ast) \in S
  BY <1>1, <1>4
<1> USE DEF S
<1> QED
  BY <1>1, <1>5

\* The labels of the edges to a node, for each box of the node it belongs to.
DrawnAs(n) ==
    {line.label : line \in {l \in LinesOf(ast[n].parent) : l.node = n}}
IsQualifiers(n) ==
    ast[n].label = "TypeQualifiers" /\ ast[ast[n].parent].kind = "DeclarationSpecifiers"

LEMMA DrawnLabels ==
    ASSUME Grown, NEW n \in DOMAIN ast, NEW K, K = ast[ast[n].parent].kind
    PROVE  \A label : label \in DrawnAs(n) <=>
              label \in Shown(Printed[K]) \ Text /\ Getter(K, label) = ast[n].label
<1>1. PICK p : p = ast[n].parent
  OBVIOUS
<1>2. ASSUME NEW label \in DrawnAs(n)
      PROVE  label \in Shown(Printed[K]) \ Text /\ Getter(K, label) = ast[n].label
  <2>1. PICK line \in LinesOf(p) : line.node = n /\ label = line.label
    BY <1>1, <1>2 DEF DrawnAs
  <2>2. line.node # NoNode
    <3>1. DOMAIN ast = 1 .. Len(ast) /\ Len(ast) \in Nat \ {0}
      BY TreeFacts
    <3> DEFINE k == Len(ast)
    <3>2. n \in 1 .. k /\ k \in Nat
      BY <3>1
    <3> HIDE DEF k
    <3> QED
      BY <2>1, <3>2 DEF NoNode
  <2>3. /\ line.place \in DOMAIN Printed[K] /\ line.label = Printed[K][line.place]
        /\ line.label \notin Text /\ line.node \in Held(p, Getter(K, line.label))
    BY <1>1, <2>1, <2>2, LineFacts
  <2> QED
    BY <2>1, <2>3 DEF Shown, Held
<1>3. ASSUME NEW label \in Shown(Printed[K]) \ Text, Getter(K, label) = ast[n].label
      PROVE  label \in DrawnAs(n)
  <2>1. PICK place \in DOMAIN Printed[K] : label = Printed[K][place]
    BY <1>3 DEF Shown
  <2>2. n \in Held(p, Getter(K, label))
    BY <1>1, <1>3 DEF Held
  <2>3. PICK line : line = Line(place, label, n)
    OBVIOUS
  <2>4. line \in LinesOf(p)
    BY <1>1, <1>3, <2>1, <2>2, <2>3, LineExists
  <2>5. line.label = label /\ line.node = n
    BY <2>3 DEF Line
  <2> QED
    BY <1>1, <2>4, <2>5 DEF DrawnAs
<1> QED
  BY <1>2, <1>3

\* A loop's condition is not drawn and its first expression twice, the
\* qualifiers of a declaration are not drawn, and other nodes are once.
LEMMA HowDrawn ==
    ASSUME Grown, NEW n \in DOMAIN ast, n # 1
    PROVE  /\ ast[n].label = "InitExpr" =>
                /\ ast[ast[n].parent].kind \in IterationKind
                /\ DrawnAs(n) = {"InitExpr", "CondExpr"}
           /\ ast[n].label = "CondExpr" \/ IsQualifiers(n) => DrawnAs(n) = {}
           /\ ast[n].label \notin {"InitExpr", "CondExpr"} /\ ~IsQualifiers(n) =>
                DrawnAs(n) = {ast[n].label}
<1>1. PICK p : p = ast[n].parent
  OBVIOUS
<1>2. PICK l : l = ast[n].label
  OBVIOUS
<1>3. PICK K : K = ast[p].kind
  OBVIOUS
<1>4. Belongs(n) /\ p \in DOMAIN ast
  BY <1>1, TreeFacts
<1>5. HasMember(p, l)
  BY <1>1, <1>2, <1>4 DEF Belongs
<1>6. K \in NodeKind
  BY <1>3, <1>4, KindOfNode
<1>7. \A label : label \in DrawnAs(n) <=> label \in Shown(Printed[K]) \ Text /\ Getter(K, label) = l
  BY <1>1, <1>2, <1>3, DrawnLabels
<1>8. IsQualifiers(n) <=> l = "TypeQualifiers" /\ K = "DeclarationSpecifiers"
  BY <1>1, <1>2, <1>3 DEF IsQualifiers
<1>9. CASE K = "NodeList"
  <2>1. l = "element" /\ K \notin IterationKind
    BY <1>3, <1>5, <1>9 DEF HasMember, IsList, IterationKind
  <2>2. Shown(Printed[K]) = {"element"}
    <3>1. Printed[K] = <<"element">>
      BY <1>9, PrintedAre
    <3> QED
      BY <3>1 DEF Shown
  <2>3. \A label : Getter(K, label) = label
    BY <2>1 DEF Getter
  <2>4. DrawnAs(n) = {l}
    BY <1>7, <2>1, <2>2, <2>3 DEF Text
  <2> QED
    BY <1>2, <1>8, <2>1, <2>4
<1>10. CASE K # "NodeList"
  <2>1. l \in DOMAIN Members[K]
    BY <1>3, <1>5, <1>10 DEF HasMember, IsList
  <2>2. Row(K, Members[K], Printed[K])
    BY <1>6, <1>10, Rows
  <2>3. l \notin Text
    BY <2>1, <2>2 DEF Row
  <2>4. l \in Shown(Printed[K]) \/ (K = "DeclarationSpecifiers" /\ l = "TypeQualifiers")
    BY <2>1, <2>2 DEF Row
  <2>5. K = "DeclarationSpecifiers" => "TypeQualifiers" \notin Shown(Printed[K])
    BY <2>2 DEF Row
  <2>6. CASE K \in IterationKind
    <3>1. {"InitExpr", "CondExpr"} \subseteq Shown(Printed[K])
      BY <2>2, <2>6 DEF Row
    <3>2. K # "DeclarationSpecifiers" /\ ~IsQualifiers(n)
      BY <1>8, <2>6 DEF IterationKind
    <3>3. \A label : Getter(K, label) = IF label = "CondExpr" THEN "InitExpr" ELSE label
      BY <2>6 DEF Getter
    <3>4. l = "CondExpr" => DrawnAs(n) = {}
      BY <1>7, <3>3
    <3>5. l = "InitExpr" => DrawnAs(n) = {"InitExpr", "CondExpr"}
      BY <1>7, <3>1, <3>3 DEF Text
    <3>6. l \notin {"InitExpr", "CondExpr"} => DrawnAs(n) = {l}
      BY <1>7, <2>3, <2>4, <3>2, <3>3
    <3> QED
      BY <1>1, <1>2, <1>3, <2>6, <3>2, <3>4, <3>5, <3>6
  <2>7. CASE K \notin IterationKind
    <3>1. l \notin {"InitExpr", "CondExpr"}
      BY <2>1, <2>2, <2>7 DEF Row
    <3>2. \A label : Getter(K, label) = label
      BY <2>7 DEF Getter
    <3>3. IsQualifiers(n) => DrawnAs(n) = {}
      BY <1>7, <1>8, <2>5, <3>2
    <3>4. ~IsQualifiers(n) => DrawnAs(n) = {l}
      BY <1>7, <1>8, <2>3, <2>4, <3>2
    <3> QED
      BY <1>2, <3>1, <3>3, <3>4
  <2> QED
    BY <2>6, <2>7
<1> QED
  BY <1>9, <1>10

-----------------------------------------------------------------------------
(* Counting the boxes *)

LEMMA NoneInQualifiers ==
    ASSUME Grown, NEW n \in DOMAIN ast, n # 1
    PROVE  ~IsQualifiers(ast[n].parent)
<1>1. PICK p : p = ast[n].parent
  OBVIOUS
<1>2. Belongs(n) /\ p \in DOMAIN ast
  BY <1>1, TreeFacts
<1> SUFFICES ASSUME IsQualifiers(p) PROVE FALSE
  BY <1>1
<1>3. PICK q : q = ast[p].parent
  OBVIOUS
<1>4. ast[p].label = "TypeQualifiers" /\ ast[q].kind = "DeclarationSpecifiers"
  BY <1>3 DEF IsQualifiers
<1>5. p # 1
  <2>1. ast[1].label = ""
    BY TreeFacts
  <2>2. "TypeQualifiers" # ""
    BY Zenon
  <2> QED
    BY <1>4, <2>1, <2>2
<1>6. Belongs(p) /\ ~IsList(q)
  BY <1>2, <1>4, <1>5, TreeFacts DEF IsList
<1>7. PICK member : member = Members["DeclarationSpecifiers"]["TypeQualifiers"]
  OBVIOUS
<1>8. MemberOf(q, "TypeQualifiers") = member
  BY <1>4, <1>6, <1>7 DEF MemberOf
<1>9. /\ ast[p].sort = member.sort
      /\ IF member.list THEN IsList(p) ELSE ast[p].sort \in DOMAIN Sorts
  BY <1>3, <1>4, <1>6, <1>8 DEF Belongs
<1>10. member.sort = "nothing"
  <2>1. "DeclarationSpecifiers" \in DOMAIN DeclarationMembers
    BY MemberNames
  <2>2. Row("DeclarationSpecifiers", DeclarationMembers["DeclarationSpecifiers"],
            Printed["DeclarationSpecifiers"])
    BY <2>1, DeclarationRows
  <2>3. DeclarationMembers["DeclarationSpecifiers"]["TypeQualifiers"].sort = "nothing"
    BY <2>2 DEF Row
  <2> QED
    BY <1>7, <2>1, <2>3, MembersAre
<1>11. "nothing" \notin DOMAIN Sorts
  BY PlainNames
<1>12. IsList(p)
  BY <1>9, <1>10, <1>11
<1>13. HasMember(p, ast[n].label)
  BY <1>1, <1>2 DEF Belongs
<1> QED
  BY <1>9, <1>10, <1>11, <1>12, <1>13 DEF HasMember

\* The numbers of the boxes of a node, and of those at the end of an edge.
Numbers(n) == {id \in 0 .. lastID : NodeAt(id) = n}
Edges(n, label) == {a \in DOMAIN arrows : NodeAt(a) = n /\ arrows[a].label = label}

LEMMA BoxFacts ==
    ASSUME Numbered, Walked, WholeGraph
    PROVE  /\ lastID \in Nat /\ DOMAIN arrows = 1 .. lastID /\ DOMAIN boxes = 1 .. lastID + 1
           /\ \A id \in 0 .. lastID : NodeOfBox(id) = NodeAt(id)
           /\ \A a \in DOMAIN arrows : arrows[a].to = a /\ arrows[a].from \in 0 .. lastID
           /\ \A id, line : ~Left(id, line)
<1>1. /\ IsSequence(boxes) /\ IsSequence(arrows) /\ visits = <<>> /\ lastID \in Nat
      /\ Len(arrows) = lastID /\ Len(boxes) = lastID + 1
      /\ \A a \in DOMAIN arrows : arrows[a].to = a /\ arrows[a].from \in 0 .. a - 1
      /\ \A b \in DOMAIN boxes : boxes[b].id = b - 1
  BY DEF Numbered, WholeGraph, Printing
<1>2. DOMAIN arrows = 1 .. lastID /\ DOMAIN boxes = 1 .. lastID + 1
  BY <1>1, SequenceFacts
<1>3. ASSUME NEW id \in 0 .. lastID PROVE NodeOfBox(id) = NodeAt(id)
  <2>1. id + 1 \in DOMAIN boxes /\ boxes[id + 1].id = id
    BY <1>1, <1>2
  <2>2. \A b \in DOMAIN boxes : boxes[b].id = id => b = id + 1
    BY <1>1, <1>2
  <2>3. (CHOOSE b \in DOMAIN boxes : boxes[b].id = id) = id + 1
    BY <2>1, <2>2
  <2> QED
    BY <2>3 DEF NodeOfBox, NodeAt
<1>4. \A a \in DOMAIN arrows : arrows[a].from \in 0 .. lastID
  BY <1>1, <1>2
<1>5. \A id, line : ~Left(id, line)
  <2>1. DOMAIN visits = {}
    BY <1>1
  <2> QED
    BY <2>1 DEF Left
<1> QED
  BY <1>1, <1>2, <1>3, <1>4, <1>5

\* An edge goes from the node that the other one belongs to.
LEMMA ArrowFacts ==
    ASSUME Numbered, Grown, Walked, WholeGraph,
           NEW a \in DOMAIN arrows, NEW n, n = NodeAt(a), n # NoNode
    PROVE  /\ n \in DOMAIN ast \ {1}
           /\ ast[n].parent = NodeAt(arrows[a].from)
           /\ arrows[a].label \in DrawnAs(n)
           /\ ast[n].label = Getter(ast[ast[n].parent].kind, arrows[a].label)
<1>1. PICK p : p = NodeAt(arrows[a].from)
  OBVIOUS
<1>2. /\ p # NoNode
      /\ \E line \in LinesOf(p) : Shows(a, arrows[a].from, line)
  BY <1>1 DEF Walked
<1>3. PICK line \in LinesOf(p) : line.label = arrows[a].label /\ line.node = n
  BY <1>2 DEF Shows
<1>4. n \in Held(p, Getter(ast[p].kind, line.label))
  BY <1>3, LineFacts
<1>5. n \in DOMAIN ast /\ ast[n].parent = p /\ ast[n].label = Getter(ast[p].kind, line.label)
  BY <1>4 DEF Held
<1>6. n # 1
  BY <1>2, <1>5, TreeFacts
<1>7. line.label \in DrawnAs(n)
  BY <1>3, <1>5 DEF DrawnAs
<1> QED
  BY <1>1, <1>3, <1>5, <1>6, <1>7

LEMMA SameCount ==
    ASSUME NEW S, NEW T, NEW f \in [S -> T], IsFiniteSet(T),
           \A x, y \in S : f[x] = f[y] => x = y, \A y \in T : \E x \in S : f[x] = y
    PROVE  IsFiniteSet(S) /\ Cardinality(S) = Cardinality(T)
<1>1. f \in Bijection(S, T)
  BY DEF Bijection, Injection, Surjection, IsInjective
<1>2. ExistsBijection(S, T)
  BY <1>1 DEF ExistsBijection
<1>3. ExistsBijection(T, S)
  BY <1>2, Fun_ExistsBijSymmetric
<1> QED
  BY <1>3, FS_Bijection

LEMMA FiniteNumbers ==
    ASSUME Numbered, Walked, WholeGraph, NEW n
    PROVE  /\ IsFiniteSet(Numbers(n)) /\ Cardinality(Numbers(n)) = Cardinality(BoxesOf(n))
<1>1. lastID \in Nat /\ DOMAIN boxes = 1 .. lastID + 1
  BY BoxFacts
<1>2. IsFiniteSet(0 .. lastID)
  BY <1>1, FS_Interval
<1>3. IsFiniteSet(Numbers(n))
  BY <1>2, FS_Subset DEF Numbers
<1> DEFINE S == BoxesOf(n)
           T == Numbers(n)
           f == [b \in S |-> b - 1]
<1>4. \A b \in S : b \in 1 .. lastID + 1 /\ boxes[b].node = n
  BY <1>1 DEF BoxesOf
<1>5. \A b \in S : b - 1 \in 0 .. lastID /\ (b - 1) + 1 = b
  BY <1>1, <1>4
<1>6. f \in [S -> T]
  BY <1>4, <1>5 DEF Numbers, NodeAt
<1>7. \A x, y \in S : f[x] = f[y] => x = y
  BY <1>1, <1>4
<1>8. \A y \in T : y + 1 \in S /\ f[y + 1] = y
  BY <1>1 DEF Numbers, NodeAt, BoxesOf
<1> HIDE DEF S, T, f
<1>9. \A y \in T : \E x \in S : f[x] = y
  BY <1>8
<1>10. Cardinality(S) = Cardinality(T)
  BY <1>3, <1>6, <1>7, <1>9, SameCount DEF T
<1> QED
  BY <1>3, <1>10 DEF S, T

\* As which a node is drawn, it is for every box of the node it belongs to.
LEMMA CountEdges ==
    ASSUME Numbered, Grown, Walked, WholeGraph,
           NEW n \in DOMAIN ast, n # 1, NEW label \in DrawnAs(n)
    PROVE  /\ IsFiniteSet(Edges(n, label))
           /\ Cardinality(Edges(n, label)) = Cardinality(Numbers(ast[n].parent))
<1>1. PICK p : p = ast[n].parent
  OBVIOUS
<1>2. n # NoNode /\ p # NoNode
  <2>1. p \in DOMAIN ast /\ DOMAIN ast = 1 .. Len(ast) /\ Len(ast) \in Nat \ {0}
    BY <1>1, TreeFacts
  <2> DEFINE k == Len(ast)
  <2>2. n \in 1 .. k /\ p \in 1 .. k /\ k \in Nat
    BY <2>1
  <2> HIDE DEF k
  <2> QED
    BY <2>2 DEF NoNode
<1>3. PICK line \in LinesOf(p) : line.node = n /\ line.label = label
  BY <1>1 DEF DrawnAs
<1> DEFINE S == Edges(n, label)
           T == Numbers(p)
           f == [a \in S |-> arrows[a].from]
<1>4. ASSUME NEW a \in S
      PROVE  a \in DOMAIN arrows /\ NodeAt(a) = n /\ arrows[a].label = label
  BY DEF Edges
<1>5. ASSUME NEW a \in S PROVE arrows[a].from \in T
  <2>1. p = NodeAt(arrows[a].from)
    BY <1>1, <1>2, <1>4, ArrowFacts
  <2>2. arrows[a].from \in 0 .. lastID
    BY <1>4, BoxFacts
  <2> QED
    BY <2>1, <2>2 DEF Numbers
<1>6. f \in [S -> T]
  BY <1>5
<1>7. ASSUME NEW x \in S, NEW y \in S, f[x] = f[y] PROVE x = y
  <2> DEFINE shown == [label |-> arrows[y].label, node |-> NodeAt(y)]
  <2>1. \A other \in DOMAIN arrows : Shows(other, arrows[y].from, shown) => other = y
    BY <1>2, <1>4 DEF Walked
  <2>2. Shows(x, arrows[y].from, shown)
    BY <1>4, <1>7 DEF Shows
  <2> QED
    BY <1>4, <2>1, <2>2
<1>8. ASSUME NEW y \in T PROVE \E x \in S : f[x] = y
  <2>1. y \in 0 .. lastID /\ NodeAt(y) = p
    BY DEF Numbers
  <2>2. ~Left(y, line)
    BY BoxFacts
  <2>3. line \in LinesOf(NodeAt(y)) /\ line.node # NoNode
    BY <1>2, <1>3, <2>1
  <2>4. PICK a \in DOMAIN arrows : Shows(a, y, line)
    BY <1>2, <2>1, <2>2, <2>3 DEF Walked
  <2>5. arrows[a].from = y /\ arrows[a].label = label /\ NodeAt(a) = n
    BY <1>3, <2>4 DEF Shows
  <2>6. a \in S /\ f[a] = y
    BY <2>5 DEF Edges
  <2> QED
    BY <2>6
<1>9. IsFiniteSet(T)
  BY FiniteNumbers
<1> HIDE DEF S, T, f
<1>10. IsFiniteSet(S) /\ Cardinality(S) = Cardinality(T)
  <2>1. \A x, y \in S : f[x] = f[y] => x = y
    BY <1>7
  <2>2. \A y \in T : \E x \in S : f[x] = y
    BY <1>8
  <2> QED
    BY <1>6, <1>9, <2>1, <2>2, SameCount
<1> QED
  BY <1>1, <1>10 DEF S, T

LEMMA NumbersAreEdges ==
    ASSUME Numbered, Grown, Walked, WholeGraph, NEW n \in DOMAIN ast, n # 1
    PROVE  Numbers(n) = UNION {Edges(n, label) : label \in DrawnAs(n)}
<1>1. /\ lastID \in Nat /\ DOMAIN arrows = 1 .. lastID /\ NodeAt(0) = 1
  BY BoxFacts DEF Walked
<1>2. n # NoNode
  <2>1. DOMAIN ast = 1 .. Len(ast)
    BY TreeFacts
  <2> DEFINE k == Len(ast)
  <2>2. n \in 1 .. k
    BY <2>1
  <2> HIDE DEF k
  <2> QED
    BY <2>2 DEF NoNode
<1>3. ASSUME NEW a \in Numbers(n)
      PROVE  a \in Edges(n, arrows[a].label) /\ arrows[a].label \in DrawnAs(n)
  <2>1. a \in DOMAIN arrows /\ NodeAt(a) = n
    BY <1>1 DEF Numbers
  <2>2. arrows[a].label \in DrawnAs(n)
    BY <1>2, <2>1, ArrowFacts
  <2> QED
    BY <2>1, <2>2 DEF Edges
<1>4. ASSUME NEW label, NEW a \in Edges(n, label) PROVE a \in Numbers(n)
  BY <1>1 DEF Edges, Numbers
<1> QED
  BY <1>3, <1>4

LEMMA RootOnce ==
    ASSUME Numbered, Grown, Walked, WholeGraph
    PROVE  Cardinality(Numbers(1)) = 1
<1>1. lastID \in Nat /\ DOMAIN arrows = 1 .. lastID /\ NodeAt(0) = 1
  BY BoxFacts DEF Walked
<1>2. ASSUME NEW a \in 1 .. lastID PROVE NodeAt(a) # 1
  BY <1>1, ArrowFacts DEF NoNode
<1>3. Numbers(1) = {0}
  BY <1>1, <1>2 DEF Numbers
<1> QED
  BY <1>3, FS_Singleton

\* From how often the node is drawn that it belongs to.
LEMMA CountNumbers ==
    ASSUME Numbered, Grown, Walked, WholeGraph, NEW n \in DOMAIN ast, n # 1
    PROVE  /\ DrawnAs(n) = {} => Cardinality(Numbers(n)) = 0
           /\ \A label : DrawnAs(n) = {label} =>
                Cardinality(Numbers(n)) = Cardinality(Numbers(ast[n].parent))
           /\ DrawnAs(n) = {"InitExpr", "CondExpr"} =>
                Cardinality(Numbers(n)) = 2 * Cardinality(Numbers(ast[n].parent))
<1>1. PICK p : p = ast[n].parent
  OBVIOUS
<1>2. Numbers(n) = UNION {Edges(n, label) : label \in DrawnAs(n)}
  BY NumbersAreEdges
<1>3. ASSUME NEW label \in DrawnAs(n)
      PROVE  /\ IsFiniteSet(Edges(n, label))
             /\ Cardinality(Edges(n, label)) = Cardinality(Numbers(p))
  BY <1>1, CountEdges
<1>4. Cardinality(Numbers(p)) \in Nat
  BY FiniteNumbers, FS_CardinalityType
<1>5. CASE DrawnAs(n) = {}
  <2>1. Numbers(n) = {}
    BY <1>2, <1>5
  <2> QED
    BY <1>5, <2>1, FS_EmptySet
<1>6. ASSUME NEW label, DrawnAs(n) = {label}
      PROVE  Cardinality(Numbers(n)) = Cardinality(Numbers(p))
  <2>1. Numbers(n) = Edges(n, label)
    BY <1>2, <1>6
  <2> QED
    BY <1>3, <1>6, <2>1
<1>7. CASE DrawnAs(n) = {"InitExpr", "CondExpr"}
  <2> DEFINE first == Edges(n, "InitExpr")
             second == Edges(n, "CondExpr")
  <2>1. Numbers(n) = first \cup second
    BY <1>2, <1>7
  <2>2. first \cap second = {}
    BY DEF Edges
  <2>3. /\ IsFiniteSet(first) /\ IsFiniteSet(second)
        /\ Cardinality(first) = Cardinality(Numbers(p))
        /\ Cardinality(second) = Cardinality(Numbers(p))
    BY <1>3, <1>7
  <2> HIDE DEF first, second
  <2>4. Cardinality(first \cup second)
          = Cardinality(first) + Cardinality(second) - Cardinality(first \cap second)
    BY <2>3, FS_Union
  <2>5. Cardinality(first \cap second) = 0
    BY <2>2, FS_EmptySet
  <2>6. Cardinality(Numbers(n)) = 2 * Cardinality(Numbers(p))
    BY <1>4, <2>1, <2>3, <2>4, <2>5
  <2>7. {"InitExpr", "CondExpr"} # {} /\ \A label : {"InitExpr", "CondExpr"} # {label}
    OBVIOUS
  <2> QED
    BY <1>1, <1>7, <2>6, <2>7
<1>8. CASE DrawnAs(n) # {} /\ DrawnAs(n) # {"InitExpr", "CondExpr"}
  BY <1>1, <1>6, <1>8
<1>9. \A label : DrawnAs(n) = {label} => DrawnAs(n) # {} /\ DrawnAs(n) # {"InitExpr", "CondExpr"}
  OBVIOUS
<1> QED
  BY <1>1, <1>5, <1>6, <1>7, <1>8, <1>9

LEMMA TimesAre ==
    \A n : TimesDrawn(n) =
              IF "CondExpr" \in Labels(n) \/ IsQualifiers(n) THEN 0
              ELSE IF "InitExpr" \in Labels(n) THEN 2 ELSE 1
BY DEF TimesDrawn, Labels, IsQualifiers

LEMMA RootTimes == Grown => TimesDrawn(1) = 1
<1> SUFFICES ASSUME Grown PROVE TimesDrawn(1) = 1
  OBVIOUS
<1>1. Labels(1) = {""} /\ ast[1].label = ""
  BY LabelsAre, TreeFacts
<1>2. "CondExpr" # "" /\ "InitExpr" # "" /\ "TypeQualifiers" # ""
  BY Zenon
<1>3. ~IsQualifiers(1)
  BY <1>1, <1>2 DEF IsQualifiers
<1> QED
  BY <1>1, <1>2, <1>3, TimesAre

\* A loop's first expression holds no loop, so nothing is doubled twice.
LEMMA ChildTimes ==
    ASSUME Numbered, Grown, Walked, WholeGraph, NEW n \in DOMAIN ast, n # 1,
           Cardinality(Numbers(ast[n].parent)) = TimesDrawn(ast[n].parent)
    PROVE  Cardinality(Numbers(n)) = TimesDrawn(n)
<1>1. PICK p : p = ast[n].parent
  OBVIOUS
<1>2. PICK l : l = ast[n].label
  OBVIOUS
<1>3. p \in DOMAIN ast /\ ~IsQualifiers(p) /\ Labels(n) = {l} \cup Labels(p)
  BY <1>1, <1>2, TreeFacts, NoneInQualifiers, LabelsAre
<1>4. Cardinality(Numbers(p)) =
        IF "CondExpr" \in Labels(p) THEN 0 ELSE IF "InitExpr" \in Labels(p) THEN 2 ELSE 1
  BY <1>1, <1>3, TimesAre
<1>5. TimesDrawn(n) =
        IF "CondExpr" \in Labels(n) \/ IsQualifiers(n) THEN 0
        ELSE IF "InitExpr" \in Labels(n) THEN 2 ELSE 1
  BY TimesAre
<1>6. CASE l = "CondExpr" \/ IsQualifiers(n)
  <2>1. DrawnAs(n) = {}
    BY <1>2, <1>6, HowDrawn
  <2>2. Cardinality(Numbers(n)) = 0
    BY <2>1, CountNumbers
  <2> QED
    BY <1>3, <1>5, <1>6, <2>2
<1>7. CASE l = "InitExpr"
  <2>1. ast[p].kind \in IterationKind /\ DrawnAs(n) = {"InitExpr", "CondExpr"}
    BY <1>1, <1>2, <1>7, HowDrawn
  <2>2. Cardinality(Numbers(n)) = 2 * Cardinality(Numbers(p))
    BY <1>1, <2>1, CountNumbers
  <2>3. "InitExpr" \notin Labels(p)
    <3>1. ~Plain(p)
      <4>1. ast[p].kind \notin PlainKind /\ ~IsList(p)
        BY <2>1, PlainNames DEF IterationKind, IsList
      <4> QED
        BY <4>1 DEF Plain
    <3> QED
      BY <1>3, <3>1, InitIsPlain
  <2>4. ~IsQualifiers(n)
    BY <1>2, <1>7 DEF IsQualifiers
  <2>5. CASE "CondExpr" \in Labels(p)
    BY <1>3, <1>4, <1>5, <2>2, <2>5
  <2>6. CASE "CondExpr" \notin Labels(p)
    BY <1>3, <1>4, <1>5, <1>7, <2>2, <2>3, <2>4, <2>6
  <2> QED
    BY <2>5, <2>6
<1>8. CASE l \notin {"InitExpr", "CondExpr"} /\ ~IsQualifiers(n)
  <2>1. DrawnAs(n) = {l}
    BY <1>2, <1>8, HowDrawn
  <2>2. Cardinality(Numbers(n)) = Cardinality(Numbers(p))
    BY <1>1, <2>1, CountNumbers
  <2> QED
    BY <1>3, <1>4, <1>5, <1>8, <2>2
<1> QED
  BY <1>6, <1>7, <1>8

LEMMA CountsAre ==
    ASSUME Numbered, Grown, Walked, WholeGraph
    PROVE  \A n \in DOMAIN ast : Cardinality(BoxesOf(n)) = TimesDrawn(n)
<1> DEFINE S == {k \in Nat : \A n \in DOMAIN ast :
                    n <= k => Cardinality(Numbers(n)) = TimesDrawn(n)}
<1>1. DOMAIN ast = 1 .. Len(ast) /\ Len(ast) \in Nat
  BY TreeFacts
<1>2. 0 \in S
  BY <1>1
<1>3. ASSUME NEW k \in Nat, k \in S PROVE k + 1 \in S
  <2> SUFFICES ASSUME NEW n \in DOMAIN ast, n <= k + 1
               PROVE  Cardinality(Numbers(n)) = TimesDrawn(n)
    OBVIOUS
  <2>1. CASE n = 1
    BY <2>1, RootOnce, RootTimes
  <2>2. CASE n # 1
    <3>1. ast[n].parent \in DOMAIN ast /\ ast[n].parent \in 0 .. n - 1
      BY <2>2, TreeFacts
    <3>2. ast[n].parent <= k
      BY <1>1, <3>1
    <3>3. Cardinality(Numbers(ast[n].parent)) = TimesDrawn(ast[n].parent)
      BY <1>3, <3>1, <3>2
    <3> QED
      BY <2>2, <3>3, ChildTimes
  <2> QED
    BY <2>1, <2>2
<1> HIDE DEF S
<1>4. Nat \subseteq S
  BY <1>2, <1>3, SetInduction
<1>5. Len(ast) \in S
  BY <1>1, <1>4
<1>6. \A n \in DOMAIN ast : Cardinality(Numbers(n)) = TimesDrawn(n)
  BY <1>1, <1>5 DEF S
<1> QED
  BY <1>6, FiniteNumbers

LEMMA DrawsIt == Numbered /\ WalkInv => DrawsTheTree
<1> SUFFICES ASSUME Numbered, WalkInv, WholeGraph
             PROVE  /\ \A n \in DOMAIN ast : Cardinality(BoxesOf(n)) = TimesDrawn(n)
                    /\ \A a \in DOMAIN arrows : NodeOfBox(arrows[a].to) # NoNode =>
                        /\ NodeOfBox(arrows[a].from) = ast[NodeOfBox(arrows[a].to)].parent
                        /\ \/ arrows[a].label = ast[NodeOfBox(arrows[a].to)].label
                           \/ /\ arrows[a].label = "CondExpr"
                              /\ ast[NodeOfBox(arrows[a].to)].label = "InitExpr"
  BY DEF DrawsTheTree
<1>1. Grown /\ Walked
  BY DEF WalkInv, WholeGraph
<1>2. \A n \in DOMAIN ast : Cardinality(BoxesOf(n)) = TimesDrawn(n)
  BY <1>1, CountsAre
<1>3. ASSUME NEW a \in DOMAIN arrows, NEW n, n = NodeOfBox(arrows[a].to), n # NoNode
      PROVE  /\ NodeOfBox(arrows[a].from) = ast[n].parent
             /\ \/ arrows[a].label = ast[n].label
                \/ arrows[a].label = "CondExpr" /\ ast[n].label = "InitExpr"
  <2>1. arrows[a].to = a /\ a \in 0 .. lastID /\ arrows[a].from \in 0 .. lastID
    BY <1>1, BoxFacts
  <2>2. n = NodeAt(a) /\ NodeOfBox(arrows[a].from) = NodeAt(arrows[a].from)
    BY <1>1, <1>3, <2>1, BoxFacts
  <2>3. /\ ast[n].parent = NodeAt(arrows[a].from)
        /\ ast[n].label = Getter(ast[ast[n].parent].kind, arrows[a].label)
    BY <1>1, <1>3, <2>2, ArrowFacts
  <2> QED
    BY <2>2, <2>3 DEF Getter
<1> QED
  BY <1>2, <1>3

\* PrintVisitor: a finished graph is the tree that was parsed.
THEOREM DrawsWholeTree == Spec => []DrawsTheTree
<1>1. Numbered /\ WalkInv => DrawsTheTree
  BY DrawsIt
<1>2. DriverInv => Numbered
  BY DEF DriverInv
<1> QED
  BY <1>1, <1>2, KeepsDriverInv, KeepsWalkInv, PTL
=================================================================================
