---------------------------- MODULE IRValueProofs ----------------------------
(***************************************************************************)
(* Proofs about the values in the IR that IRGen builds, for every set of   *)
(* names, literals and operators and programs of any size: that the result *)
(* an instruction uses exists, is known in its block and is of the right   *)
(* sort, and that parameters are stored first; about the names: that the   *)
(* layers know what SemaVisitor's table knows, so that what it accepts is  *)
(* compiled to the end; and about the text that IREmitter prints of a      *)
(* function: that it defines every name it uses, once.  Constructs with    *)
(* which one of these is not so are excluded by the theorem's assumptions  *)
(* about Fragment, and no others.  The invariants are ValueInv, ParamInv,  *)
(* NamesInv and OnceInv, inductive together with IndInv and ShapeInv.      *)
(***************************************************************************)
EXTENDS IRShapeProofs, FiniteSetTheorems

-----------------------------------------------------------------------------
(* What a suspended handler relies on *)

\* Handlers between which the block does not change: those of expressions and
\* initializers.  The inner frames are these and the ones they return to.
Middle == {"init", "store", "list", "expr", "lvalue", "rvalue",
           "binaryLhs", "binary", "assignLhs", "assign"}
Inner == Middle \cup {"ifThen", "return"}
\* Handlers that use the last instruction, and those that need its value.
Reads == {"store", "rvalue", "binaryLhs", "binary", "assignLhs", "assign", "ifThen", "return"}
ReadsValue == {"binaryLhs", "binary", "assignLhs", "return"}

\* Every expression has a handler; every variable is declared by one.
Handled == "unhandledExpr" \notin Fragment
NoPointers == "pointer" \notin Fragment
Simple == Handled /\ NoPointers /\ "nestedAssign" \notin Fragment
\* No store takes the place of a value.
Named == Simple /\ "braces" \notin Fragment
Ints == {"char", "short", "int", "long"}

\* The frames that _evaluateAsRValue waits for.
Yields(a) ==
    \/ a.at \in {"expr", "list"} /\ a.arg = "rvalue"
    \/ a.at \in {"binaryLhs", "binary"}
    \/ a.at \in {"assignLhs", "assign"} /\ "nestedAssign" \in Fragment
\* The frames whose last instruction has a result, where that is Named.
Delivers(a) ==
    /\ a.at \notin {"init", "store", "assignLhs", "assign"}
    /\ a.at \in {"expr", "list"} => a.arg # "discarded"
\* Frame b can be resumed when a has returned.
Fits(a, b) ==
    /\ b.at \in Inner => a.at \in Middle
    /\ b.at = "assign" => a.at = "lvalue"
    /\ b.at \in ReadsValue => a.at = "rvalue"
    /\ b.at = "rvalue" => Yields(a)
    /\ Named /\ b.at \in Reads => Delivers(a)
Linked(s) == \A j \in DOMAIN s : j + 1 \in DOMAIN s => Fits(s[j], s[j + 1])
Layered(s) == \A j, k \in DOMAIN s : j < k /\ s[k].at \in Inner => s[j].at \in Middle

\* The last instruction exists, in the block under construction; instruction i
\* has a value that arithmetic can use.
Ready(f) == LastInstr(f) \in InstrIDs(f) /\ Lists(f, LastBlock(f), LastInstr(f))
Scalar(f, i) == i \in InstrIDs(f) /\ Instr(f, i).type \notin {"ptr", "void"}
HasResult(f, i) == LLVM!HasDest(Instr(f, i))

\* What frame b finds when it is resumed, e being the evaluated type, and what
\* the id it has saved is worth.
Resumes(f, e, b) ==
    /\ Handled /\ b.at \in Reads => Ready(f)
    /\ b.at = "assign" => LastInstr(f) \in InstrIDs(f) /\ Instr(f, LastInstr(f)).type = "ptr"
    /\ Simple /\ b.at = "rvalue" => Instr(f, LastInstr(f)).type # "void" /\ e \in Ints
    /\ Simple /\ b.at \in ReadsValue => Scalar(f, LastInstr(f)) /\ e \in Ints
    /\ Named /\ b.at \in Reads => HasResult(f, LastInstr(f))
Saves(f, b) ==
    b.at \in {"binary", "assign"} =>
        /\ Handled => Lists(f, LastBlock(f), b.ids[1])
        /\ Simple => Scalar(f, b.ids[1]) /\ (b.at = "binary" => b.type \in Ints)
        /\ Named => HasResult(f, b.ids[1])
Evaluating(f, e, s) ==
    /\ Layered(s) /\ Linked(s)
    /\ s # <<>> => Resumes(f, e, Head(s))
    /\ \A j \in DOMAIN s : Saves(f, s[j])

\* Frames that stand for the rest of a.
Replaces(a, x) == \A b : Fits(a, b) => Fits(x, b)
Opens(a, frames) ==
    /\ frames \in Seq(FrameType) /\ frames # <<>>
    /\ Layered(frames) /\ Linked(frames)
    /\ a.at \in Middle => \A j \in DOMAIN frames : frames[j].at \in Middle
    /\ Replaces(a, frames[Len(frames)])
    /\ frames[1].at \notin Reads

\* A frame takes the place of another: of one that is not in the middle of an
\* expression any, of one that is another such.
LEMMA ReplacesWhen ==
    ASSUME NEW a, NEW x,
           \/ a.at \notin Middle
           \/ /\ x.at \in Middle /\ a.at \notin {"lvalue", "rvalue"}
              /\ Yields(a) => Yields(x)
              /\ Named /\ Delivers(a) => Delivers(x)
    PROVE  Replaces(a, x)
<1>1. /\ ReadsValue \subseteq Inner /\ "assign" \in Inner /\ "rvalue" \in Inner
      /\ Reads \subseteq Inner
  BY DEF Reads, ReadsValue, Inner, Middle
<1>2. ASSUME NEW b, Fits(a, b) PROVE Fits(x, b)
  <2>1. CASE a.at \notin Middle
    <3>1. b.at \notin Inner
      BY <1>2, <2>1 DEF Fits
    <3> QED
      BY <1>1, <3>1 DEF Fits
  <2>2. CASE /\ x.at \in Middle /\ a.at \notin {"lvalue", "rvalue"}
             /\ Yields(a) => Yields(x)
             /\ Named /\ Delivers(a) => Delivers(x)
    BY <1>2, <2>2 DEF Fits
  <2> QED
    BY <2>1, <2>2
<1> QED
  BY <1>2 DEF Replaces

\* Going on with one frame, with two or with three.
LEMMA OpensOne ==
    ASSUME NEW a, NEW x \in FrameType, Replaces(a, x),
           x.at \notin Reads, a.at \in Middle => x.at \in Middle
    PROVE  Opens(a, <<x>>)
<1> DEFINE frames == <<x>>
<1>1. /\ frames \in Seq(FrameType) /\ frames # <<>> /\ Len(frames) = 1
      /\ DOMAIN frames = {1} /\ frames[1] = x
  OBVIOUS
<1> HIDE DEF frames
<1>2. Layered(frames) /\ Linked(frames)
  BY <1>1 DEF Layered, Linked
<1>3. Opens(a, frames)
  BY <1>1, <1>2 DEF Opens
<1> QED
  BY <1>3 DEF frames

\* Two: the first is what the second waits for.
LEMMA OpensTwo ==
    ASSUME NEW a, NEW x \in FrameType, NEW y \in FrameType, Replaces(a, y), Fits(x, y),
           x.at \notin Reads, a.at \in Middle => x.at \in Middle /\ y.at \in Middle
    PROVE  Opens(a, <<x, y>>)
<1> DEFINE frames == <<x, y>>
<1>1. /\ frames \in Seq(FrameType) /\ frames # <<>> /\ Len(frames) = 2
      /\ DOMAIN frames = {1, 2} /\ frames[1] = x /\ frames[2] = y
  OBVIOUS
<1> HIDE DEF frames
<1>2. Layered(frames) /\ Linked(frames)
  BY <1>1 DEF Layered, Linked, Fits
<1>3. Opens(a, frames)
  BY <1>1, <1>2 DEF Opens
<1> QED
  BY <1>3 DEF frames

\* Three of them.
LEMMA OpensThree ==
    ASSUME NEW a, NEW x \in FrameType, NEW y \in FrameType, NEW z \in FrameType,
           Replaces(a, z), Fits(x, y), Fits(y, z), z.at \in Inner => x.at \in Middle,
           x.at \notin Reads,
           a.at \in Middle => x.at \in Middle /\ y.at \in Middle /\ z.at \in Middle
    PROVE  Opens(a, <<x, y, z>>)
<1> DEFINE frames == <<x, y, z>>
<1>1. /\ frames \in Seq(FrameType) /\ frames # <<>> /\ Len(frames) = 3
      /\ DOMAIN frames = {1, 2, 3}
      /\ frames[1] = x /\ frames[2] = y /\ frames[3] = z
  OBVIOUS
<1> HIDE DEF frames
<1>2. Layered(frames) /\ Linked(frames)
  BY <1>1 DEF Layered, Linked, Fits
<1>3. Opens(a, frames)
  BY <1>1, <1>2 DEF Opens
<1> QED
  BY <1>3 DEF frames

\* Straight-line code leaves saved ids what they are; a frame that is not in the
\* middle of an expression has none below it.
LEMMA SavesKept ==
    ASSUME NEW f, f.blocks # <<>>, f \in FunctionType, NEW g, NEW e,
           NEW s \in Seq(FrameType), s # <<>>, Evaluating(f, e, s),
           Straight(f, g) \/ Head(s).at \notin Middle
    PROVE  \A j \in DOMAIN s : j # 1 => Saves(g, s[j])
<1> SUFFICES ASSUME NEW j \in DOMAIN s, j # 1 PROVE Saves(g, s[j])
  OBVIOUS
<1>1. 1 \in DOMAIN s /\ Head(s) = s[1] /\ DOMAIN s = 1 .. Len(s) /\ Len(s) \in Nat /\ 1 < j
  BY HeadAndRest
<1>2. CASE Straight(f, g)
  <2>1. Saves(f, s[j])
    BY DEF Evaluating
  <2>2. /\ InstrIDs(f) \subseteq InstrIDs(g)
        /\ \A i \in InstrIDs(f) : Instr(g, i) = Instr(f, i)
        /\ LastBlock(g) = LastBlock(f) /\ LastBlock(f) \in BlockIDs(f)
        /\ \A i : Lists(f, LastBlock(f), i) => Lists(g, LastBlock(f), i)
    BY <1>2, LastBlockIn DEF Straight
  <2> QED
    BY <2>1, <2>2 DEF Saves, Scalar, HasResult, Named
<1>3. CASE Head(s).at \notin Middle
  <2>1. s[j].at \notin Inner
    BY <1>1, <1>3 DEF Evaluating, Layered
  <2> QED
    BY <2>1 DEF Saves, Inner, Middle
<1> QED
  BY <1>2, <1>3

\* A handler returns: the frame below finds what it relies on.
LEMMA Returned ==
    ASSUME NEW f, f.blocks # <<>>, f \in FunctionType, NEW g, NEW e, NEW e2,
           NEW s \in Seq(FrameType), s # <<>>, Evaluating(f, e, s),
           Straight(f, g) \/ Head(s).at \notin Middle,
           \A b \in FrameType : Fits(Head(s), b) => Resumes(g, e2, b),
           NEW t, t = Tail(s)
    PROVE  Evaluating(g, e2, t)
<1>1. /\ 1 \in DOMAIN s /\ Head(s) = s[1] /\ DOMAIN s = 1 .. Len(s) /\ Len(s) \in Nat
      /\ t \in Seq(FrameType) /\ DOMAIN t = 1 .. Len(s) - 1
      /\ \A j \in DOMAIN t : j + 1 \in DOMAIN s /\ t[j] = s[j + 1]
  BY HeadAndRest
<1>2. Layered(t)
  BY <1>1 DEF Evaluating, Layered
<1>3. Linked(t)
  BY <1>1 DEF Evaluating, Linked
<1>4. t # <<>> => Resumes(g, e2, Head(t))
  <2>1. SUFFICES ASSUME t # <<>> PROVE Resumes(g, e2, Head(t))
    OBVIOUS
  <2>2. 1 \in DOMAIN t /\ Head(t) = t[1] /\ t[1] \in FrameType
    BY <1>1, <2>1, HeadAndRest
  <2>3. t[1] = s[1 + 1] /\ 1 + 1 \in DOMAIN s
    BY <1>1, <2>2
  <2>4. Fits(s[1], s[1 + 1])
    BY <1>1, <2>3 DEF Evaluating, Linked
  <2> QED
    BY <1>1, <2>2, <2>3, <2>4
<1>5. \A j \in DOMAIN t : Saves(g, t[j])
  <2>1. \A j \in DOMAIN t : j + 1 # 1
    BY <1>1
  <2> QED
    BY <1>1, <2>1, SavesKept
<1> QED
  BY <1>2, <1>3, <1>4, <1>5 DEF Evaluating

\* A handler goes on with other frames in its place.
LEMMA Resumed ==
    ASSUME NEW f, f.blocks # <<>>, f \in FunctionType, NEW g, NEW e, NEW e2,
           NEW s \in Seq(FrameType), s # <<>>, Evaluating(f, e, s),
           Straight(f, g) \/ Head(s).at \notin Middle,
           NEW frames, Opens(Head(s), frames),
           \A j \in DOMAIN frames : Saves(g, frames[j]),
           NEW t, t = frames \o Tail(s)
    PROVE  Evaluating(g, e2, t)
<1> DEFINE n == Len(frames)
           m == Len(s)
<1>1. /\ 1 \in DOMAIN s /\ Head(s) = s[1] /\ DOMAIN s = 1 .. m /\ m \in Nat
      /\ Tail(s) \in Seq(FrameType) /\ Len(Tail(s)) = m - 1
      /\ \A j \in 1 .. m - 1 : Tail(s)[j] = s[j + 1]
  BY HeadAndRest
<1>2. /\ frames \in Seq(FrameType) /\ n \in Nat /\ n > 0 /\ DOMAIN frames = 1 .. n
      /\ Layered(frames) /\ Linked(frames) /\ Replaces(s[1], frames[n])
      /\ s[1].at \in Middle => \A j \in 1 .. n : frames[j].at \in Middle
      /\ frames[1].at \notin Reads
  BY <1>1 DEF Opens
<1>3. /\ t \in Seq(FrameType) /\ Len(t) = n + (m - 1)
      /\ \A i \in 1 .. n + (m - 1) : t[i] = IF i <= n THEN frames[i] ELSE Tail(s)[i - n]
  BY <1>1, <1>2, ConcatProperties
<1> HIDE DEF n, m
<1>4. /\ DOMAIN t = 1 .. n + (m - 1)
      /\ \A i \in 1 .. n : i \in DOMAIN t /\ t[i] = frames[i]
      /\ \A i \in DOMAIN t : i > n =>
           /\ t[i] = s[(i - n) + 1] /\ (i - n) + 1 \in DOMAIN s
           /\ (i - n) + 1 # 1 /\ 1 < (i - n) + 1
  <2>1. DOMAIN t = 1 .. n + (m - 1)
    BY <1>3
  <2>2. ASSUME NEW i \in DOMAIN t, i > n
        PROVE  /\ t[i] = s[(i - n) + 1] /\ (i - n) + 1 \in DOMAIN s
               /\ (i - n) + 1 # 1 /\ 1 < (i - n) + 1
    <3>1. i - n \in 1 .. m - 1 /\ (i - n) + 1 \in 1 .. m
      BY <1>1, <1>2, <2>1, <2>2
    <3> QED
      BY <1>1, <1>2, <1>3, <2>1, <2>2, <3>1
  <2>3. \A i \in 1 .. n : i \in DOMAIN t /\ t[i] = frames[i]
    BY <1>1, <1>2, <1>3, <2>1
  <2> QED
    BY <2>1, <2>2, <2>3
<1>5. Layered(s) /\ Linked(s)
  BY DEF Evaluating
<1>6. Layered(t)
  <2>1. SUFFICES ASSUME NEW j \in DOMAIN t, NEW k \in DOMAIN t, j < k, t[k].at \in Inner
                 PROVE  t[j].at \in Middle
    BY DEF Layered
  <2>2. j \in 1 .. n + (m - 1) /\ k \in 1 .. n + (m - 1)
    BY <1>4
  <2>3. CASE k <= n
    <3>1. j \in 1 .. n /\ k \in 1 .. n
      BY <1>1, <1>2, <2>1, <2>2, <2>3
    <3>2. t[j] = frames[j] /\ t[k] = frames[k]
      BY <1>4, <3>1
    <3> QED
      BY <1>2, <2>1, <3>1, <3>2 DEF Layered
  <2>4. CASE k > n
    <3>1. /\ t[k] = s[(k - n) + 1] /\ (k - n) + 1 \in DOMAIN s /\ 1 < (k - n) + 1
      BY <1>4, <2>4
    <3>2. CASE j <= n
      <4>1. s[1].at \in Middle
        BY <1>1, <1>5, <2>1, <3>1 DEF Layered
      <4>2. j \in 1 .. n
        BY <1>2, <2>2, <3>2
      <4> QED
        BY <1>2, <1>4, <4>1, <4>2
    <3>3. CASE j > n
      <4>1. t[j] = s[(j - n) + 1] /\ (j - n) + 1 \in DOMAIN s
        BY <1>4, <3>3
      <4>2. (j - n) + 1 < (k - n) + 1
        BY <1>2, <2>1, <2>2
      <4> QED
        BY <1>5, <2>1, <3>1, <4>1, <4>2 DEF Layered
    <3> QED
      BY <1>2, <2>2, <3>2, <3>3
  <2> QED
    BY <1>2, <2>2, <2>3, <2>4
<1>7. Linked(t)
  <2>1. SUFFICES ASSUME NEW j \in DOMAIN t, j + 1 \in DOMAIN t PROVE Fits(t[j], t[j + 1])
    BY DEF Linked
  <2>2. j \in 1 .. n + (m - 1) /\ j + 1 \in 1 .. n + (m - 1) /\ j \in Nat
    BY <1>1, <1>2, <1>4, <2>1
  <2>3. CASE j < n
    <3>1. j \in 1 .. n /\ j + 1 \in 1 .. n
      BY <1>2, <2>2, <2>3
    <3> QED
      BY <1>2, <1>4, <3>1 DEF Linked
  <2>4. CASE j = n
    <3>1. n \in 1 .. n /\ n + 1 > n /\ n + 1 \in DOMAIN t /\ ((n + 1) - n) + 1 = 1 + 1
      BY <1>2, <2>1, <2>4
    <3>2. t[n] = frames[n] /\ t[n + 1] = s[1 + 1] /\ 1 + 1 \in DOMAIN s
      BY <1>4, <3>1
    <3>3. Fits(s[1], s[1 + 1])
      BY <1>1, <1>5, <3>2 DEF Linked
    <3>4. Fits(frames[n], s[1 + 1])
      BY <1>2, <3>3 DEF Replaces
    <3> QED
      BY <2>4, <3>2, <3>4
  <2>5. CASE j > n
    <3>1. j + 1 > n /\ ((j + 1) - n) + 1 = ((j - n) + 1) + 1
      BY <1>2, <2>2, <2>5
    <3>2. /\ t[j] = s[(j - n) + 1] /\ (j - n) + 1 \in DOMAIN s
          /\ t[j + 1] = s[((j - n) + 1) + 1] /\ ((j - n) + 1) + 1 \in DOMAIN s
      BY <1>4, <2>1, <2>5, <3>1
    <3> QED
      BY <1>5, <3>2 DEF Linked
  <2>6. j < n \/ j = n \/ j > n
    BY <1>2, <2>2
  <2> QED
    BY <2>3, <2>4, <2>5, <2>6
<1>8. t # <<>> => Resumes(g, e2, Head(t))
  <2>1. 1 \in 1 .. n
    BY <1>2
  <2>2. t[1] = frames[1] /\ 1 \in DOMAIN t
    BY <1>4, <2>1
  <2>3. t # <<>> => Head(t) = t[1]
    BY <1>3
  <2>4. {"assign", "rvalue"} \cup ReadsValue \subseteq Reads
    BY DEF Reads, ReadsValue
  <2> QED
    BY <1>2, <2>2, <2>3, <2>4 DEF Resumes
<1>9. ASSUME NEW j \in DOMAIN t PROVE Saves(g, t[j])
  <2>1. j \in 1 .. n + (m - 1)
    BY <1>4
  <2>2. CASE j <= n
    <3>1. j \in 1 .. n
      BY <1>2, <2>1, <2>2
    <3> QED
      BY <1>2, <1>4, <3>1
  <2>3. CASE j > n
    BY <1>4, <2>3, SavesKept
  <2> QED
    BY <1>2, <2>1, <2>2, <2>3
<1> QED
  BY <1>6, <1>7, <1>8, <1>9 DEF Evaluating

-----------------------------------------------------------------------------
(* Instructions whose operands are in order *)

\* Instruction instr uses the result of instruction i.
Uses(instr, i) ==
    \E k \in DOMAIN instr.operands :
        instr.operands[k].kind = "INSTR" /\ instr.operands[k].id = i
\* What can be stored to, and what computes with its operands.
IsAddress(f, v) ==
    \/ v.kind = "GLOBAL"
    \/ v.kind = "INSTR" /\ v.id \in InstrIDs(f)
       /\ (Instr(f, v.id).opcode = "ALLOCA" \/ Instr(f, v.id).type = "ptr")
Computes(instr) ==
    instr.opcode \notin {"ALLOCA", "LOAD", "STORE", "BR", "RET"} /\ instr.type # "ptr"
\* An instruction that is a pointer is the address of a variable, and one that
\* returns does so with a value.
IsVariable(f, v) ==
    \/ v.kind = "GLOBAL"
    \/ v.kind = "INSTR" /\ v.id \in InstrIDs(f) /\ Instr(f, v.id).opcode = "ALLOCA"
NoVoidReturns == "voidReturn" \notin Fragment
Plain(f, instr) ==
    /\ Simple /\ instr.type = "ptr" =>
         /\ instr.opcode = "ADD" /\ DOMAIN instr.operands = {1, 2}
         /\ IsVariable(f, instr.operands[1]) /\ instr.operands[2] = Value("CONST", 0)
    /\ NoVoidReturns /\ instr.opcode = "RET" => DOMAIN instr.operands = {1}

Good(f, instr) ==
    /\ Handled /\ instr.opcode \in {"ICMP", "STORE"} /\ instr.operands[1].kind = "INSTR" =>
         instr.operands[1].id \in InstrIDs(f)
    /\ NoPointers /\ instr.opcode = "STORE" => IsAddress(f, instr.operands[2])
    /\ Handled /\ instr.opcode = "LOAD" => IsAddress(f, instr.operands[1])
    /\ Handled /\ NoPointers => \A i : Uses(instr, i) => i \in InstrIDs(f)
    /\ Simple /\ Computes(instr) => \A i : Uses(instr, i) => Scalar(f, i)
    /\ Named => \A i : Uses(instr, i) => HasResult(f, i)
    /\ Plain(f, instr)
\* In block b, instr finds the results it uses.
Local(f, b, instr) ==
    Handled /\ NoPointers =>
        \A i : Uses(instr, i) => Instr(f, i).opcode = "ALLOCA" \/ Lists(f, b, i)
Fine(f, i) ==
    /\ Good(f, Instr(f, i))
    /\ \A b \in BlockIDs(f) : Lists(f, b, i) => Local(f, b, Instr(f, i))
AllFine(f) == \A i \in InstrIDs(f) : Fine(f, i)

\* g is f with more instructions and blocks; its blocks are not touched again,
\* but for the last one.
Grown(f, g) ==
    /\ Later(f, g)
    /\ \A b \in BlockIDs(f) : b \in BlockIDs(g) /\ \A i : Lists(f, b, i) => Lists(g, b, i)
    /\ \A b \in BlockIDs(g) : \A i \in InstrIDs(f) :
         Lists(g, b, i) => b \in BlockIDs(f) /\ Lists(f, b, i)

\* Growing twice.
LEMMA GrownTransitive ==
    ASSUME NEW f, NEW g, NEW h, Grown(f, g), Grown(g, h)
    PROVE  Grown(f, h)
<1>1. Later(f, h)
  BY LaterTransitive DEF Grown
<1>2. \A i \in InstrIDs(f) : i \in InstrIDs(g)
  BY DEF Grown, Later
<1> QED
  BY <1>1, <1>2 DEF Grown

\* Straight-line code.
LEMMA StraightGrown ==
    ASSUME NEW f, NEW g, Straight(f, g)
    PROVE  Grown(f, g)
<1>1. Later(f, g)
  BY SameIsLater DEF Straight
<1> QED
  BY <1>1 DEF Grown, Straight

\* A branch is no use of a result, so patching it changes none.
LEMMA UsesLater ==
    ASSUME NEW f, NEW g, Later(f, g), NEW i \in InstrIDs(f), NEW u
    PROVE  Uses(Instr(g, i), u) <=> Uses(Instr(f, i), u)
<1>1. /\ DOMAIN Instr(g, i).operands = DOMAIN Instr(f, i).operands
      /\ \A k \in DOMAIN Instr(f, i).operands :
           /\ Instr(g, i).operands[k].kind = Instr(f, i).operands[k].kind
           /\ Instr(g, i).operands[k] = Instr(f, i).operands[k]
              \/ Instr(f, i).operands[k].kind = "BLOCK"
  BY DEF Later
<1> QED
  BY <1>1 DEF Uses

\* An instruction stays in order while the function grows.
LEMMA GoodLater ==
    ASSUME NEW f, NEW g, Later(f, g), NEW instr, Good(f, instr)
    PROVE  Good(g, instr)
<1>1. \A i \in InstrIDs(f) :
        /\ i \in InstrIDs(g)
        /\ Instr(g, i).opcode = Instr(f, i).opcode
        /\ Instr(g, i).type = Instr(f, i).type
  BY DEF Later
<1>2. \A v : IsAddress(f, v) => IsAddress(g, v)
  BY <1>1 DEF IsAddress
<1>3. \A i : Scalar(f, i) => Scalar(g, i)
  BY <1>1 DEF Scalar
<1>4. \A v : IsVariable(f, v) => IsVariable(g, v)
  BY <1>1 DEF IsVariable
<1>5. Plain(g, instr)
  BY <1>4 DEF Good, Plain
<1>6. ASSUME Named, NEW i, Uses(instr, i) PROVE HasResult(g, i)
  <2>1. HasResult(f, i) /\ i \in InstrIDs(f)
    BY <1>6 DEF Good, Named, Simple
  <2> QED
    BY <1>1, <2>1 DEF HasResult, LLVM!HasDest
<1>7. /\ Handled /\ instr.opcode \in {"ICMP", "STORE"} /\ instr.operands[1].kind = "INSTR" =>
           instr.operands[1].id \in InstrIDs(g)
      /\ NoPointers /\ instr.opcode = "STORE" => IsAddress(g, instr.operands[2])
      /\ Handled /\ instr.opcode = "LOAD" => IsAddress(g, instr.operands[1])
      /\ Handled /\ NoPointers => \A i : Uses(instr, i) => i \in InstrIDs(g)
      /\ Simple /\ Computes(instr) => \A i : Uses(instr, i) => Scalar(g, i)
  BY <1>1, <1>2, <1>3 DEF Good
<1> QED
  BY <1>5, <1>6, <1>7 DEF Good

\* So does a branch that is patched.
LEMMA GoodPatched ==
    ASSUME NEW f \in FunctionType, AllWellFormed(f), NEW g, Later(f, g),
           NEW i \in InstrIDs(f), Good(f, Instr(f, i))
    PROVE  Good(f, Instr(g, i))
<1> DEFINE old == Instr(f, i)
           new == Instr(g, i)
<1>1. /\ new.opcode = old.opcode /\ new.type = old.type
      /\ DOMAIN new.operands = DOMAIN old.operands
  BY DEF Later
<1>2. \A u : Uses(new, u) <=> Uses(old, u)
  BY UsesLater
<1>3. old.opcode \in {"ADD", "ICMP", "STORE"} =>
        new.operands[1] = old.operands[1] /\ new.operands[2] = old.operands[2]
  <2>1. SUFFICES ASSUME old.opcode \in {"ADD", "ICMP", "STORE"}
                 PROVE  new.operands[1] = old.operands[1] /\ new.operands[2] = old.operands[2]
    OBVIOUS
  <2>2. old.opcode \in LLVM!Operation /\ old.opcode # "BR" /\ WellFormed(old)
    BY <2>1 DEF LLVM!Operation, AllWellFormed
  <2>3. DOMAIN old.operands = 1 .. Len(old.operands)
    BY InstrFields
  <2> HIDE DEF old, new
  <2>4. /\ Len(old.operands) = 2
        /\ \A k \in DOMAIN old.operands : old.operands[k].kind # "BLOCK"
    BY <2>2 DEF WellFormed
  <2>5. 1 \in DOMAIN old.operands /\ 2 \in DOMAIN old.operands
    BY <2>3, <2>4
  <2> QED
    BY <2>4, <2>5 DEF Later, old, new
<1>7. old.opcode = "LOAD" => new.operands[1] = old.operands[1]
  <2>1. SUFFICES ASSUME old.opcode = "LOAD" PROVE new.operands[1] = old.operands[1]
    OBVIOUS
  <2>2. WellFormed(old) /\ DOMAIN old.operands = 1 .. Len(old.operands)
    BY InstrFields DEF AllWellFormed
  <2> HIDE DEF old, new
  <2>3. Len(old.operands) = 1 /\ \A k \in DOMAIN old.operands : old.operands[k].kind # "BLOCK"
    BY <2>1, <2>2 DEF WellFormed
  <2>4. 1 \in DOMAIN old.operands
    BY <2>2, <2>3
  <2> QED
    BY <2>3, <2>4 DEF Later, old, new
<1> HIDE DEF old, new
<1>4. Good(f, old)
  BY DEF old
<1>6. Plain(f, new)
  BY <1>1, <1>3, <1>4 DEF Good, Plain
<1>5. Good(f, new)
  BY <1>1, <1>2, <1>3, <1>4, <1>6, <1>7 DEF Good, Computes
<1> QED
  BY <1>5 DEF new

\* Growing leaves the instructions of a function in order.
LEMMA GrownFine ==
    ASSUME NEW f \in FunctionType, AllWellFormed(f), AllFine(f), NEW g, Grown(f, g),
           NEW i \in InstrIDs(f)
    PROVE  Fine(g, i)
<1>1. Later(f, g) /\ Good(f, Instr(f, i))
  BY DEF Grown, AllFine, Fine
<1>2. Good(g, Instr(g, i))
  BY <1>1, GoodPatched, GoodLater
<1>3. ASSUME NEW b \in BlockIDs(g), Lists(g, b, i) PROVE Local(g, b, Instr(g, i))
  <2>1. b \in BlockIDs(f) /\ Lists(f, b, i)
    BY <1>3 DEF Grown
  <2>2. Local(f, b, Instr(f, i))
    BY <2>1 DEF AllFine, Fine
  <2>3. ASSUME Handled, NoPointers, NEW u, Uses(Instr(g, i), u)
        PROVE  Instr(g, u).opcode = "ALLOCA" \/ Lists(g, b, u)
    <3>1. Uses(Instr(f, i), u)
      BY <1>1, <2>3, UsesLater
    <3>2. u \in InstrIDs(f)
      BY <1>1, <2>3, <3>1 DEF Good
    <3>3. Instr(g, u).opcode = Instr(f, u).opcode
      BY <1>1, <3>2 DEF Later
    <3>4. Lists(f, b, u) => Lists(g, b, u)
      BY <2>1 DEF Grown
    <3> QED
      BY <2>2, <2>3, <3>1, <3>3, <3>4 DEF Local
  <2> QED
    BY <2>3 DEF Local
<1> QED
  BY <1>2, <1>3 DEF Fine

\* A function that only had branches patched.
LEMMA PatchedFine ==
    ASSUME NEW f \in FunctionType, AllWellFormed(f), AllFine(f), NEW g, Grown(f, g),
           InstrIDs(g) = InstrIDs(f)
    PROVE  AllFine(g)
BY GrownFine DEF AllFine

\* A well-formed function can be read.
LEMMA WellFacts ==
    ASSUME NEW f, Well(f)
    PROVE  /\ f \in FunctionType /\ f.blocks # <<>> /\ Core(f) /\ AllWellFormed(f)
           /\ ListsExisting(f) /\ LastBlock(f) \in BlockIDs(f)
           /\ Len(f.instructions) \notin InstrIDs(f)
BY LastBlockIn DEF Well, ShapeOK, Core

\* Emitting an instruction whose operands are in order and to be found in the
\* last block.
LEMMA EmitFine ==
    ASSUME NEW f, Well(f), AllFine(f), NEW instr \in LLVMInstruction,
           Good(f, instr), Local(f, LastBlock(f), instr),
           NEW g, g = EmitInstr(f, instr)
    PROVE  AllFine(g) /\ Ready(g) /\ Grown(f, g)
<1> DEFINE n == Len(f.instructions)
<1>1. /\ f \in FunctionType /\ f.blocks # <<>> /\ AllWellFormed(f)
      /\ ListsExisting(f) /\ LastBlock(f) \in BlockIDs(f) /\ n \notin InstrIDs(f)
  BY WellFacts
<1>2. /\ LastInstr(g) = n /\ LastBlock(g) = LastBlock(f)
      /\ InstrIDs(g) = InstrIDs(f) \cup {n}
      /\ \A i \in InstrIDs(f) : Instr(g, i) = Instr(f, i)
      /\ Instr(g, n) = instr /\ BlockIDs(g) = BlockIDs(f)
  BY <1>1, EmitFacts
<1>3. \A b \in BlockIDs(f) : \A i :
        Lists(g, b, i) <=> Lists(f, b, i) \/ (b = LastBlock(f) /\ i = n)
  BY <1>1, EmitFacts
<1> HIDE DEF n
<1>4. Later(f, g)
  BY <1>2, SameIsLater
<1>5. Grown(f, g)
  BY <1>1, <1>2, <1>3, <1>4 DEF Grown
<1>6. Ready(g)
  BY <1>1, <1>2, <1>3 DEF Ready
<1>7. Good(g, instr)
  BY <1>4, GoodLater
<1>8. ASSUME NEW b \in BlockIDs(g), Lists(g, b, n) PROVE Local(g, b, instr)
  <2>1. b = LastBlock(f)
    BY <1>1, <1>2, <1>3, <1>8 DEF ListsExisting
  <2>2. ASSUME Handled, NoPointers, NEW u, Uses(instr, u)
        PROVE  Instr(g, u).opcode = "ALLOCA" \/ Lists(g, b, u)
    <3>1. u \in InstrIDs(f)
      BY <2>2 DEF Good
    <3>2. Instr(f, u).opcode = "ALLOCA" \/ Lists(f, b, u)
      BY <2>1, <2>2 DEF Local
    <3> QED
      BY <1>1, <1>2, <1>3, <2>1, <3>1, <3>2
  <2> QED
    BY <2>2 DEF Local
<1>9. \A i \in InstrIDs(f) : Fine(g, i)
  BY <1>1, <1>5, GrownFine
<1>10. Fine(g, n)
  BY <1>2, <1>7, <1>8 DEF Fine
<1> QED
  BY <1>2, <1>5, <1>6, <1>9, <1>10 DEF AllFine

-----------------------------------------------------------------------------
(* The invariant *)

\* A name that is declared with a plain declarator has one of the types.
IntSymbol == [type : VarTypes, storage : LLVMValueID]
TableTyped == NoPointers => IsStackOf(table, Names, IntSymbol)
\* The storage of a variable is the result of its alloca.
IsAlloca(f, i) == Instr(f, i).opcode = "ALLOCA" /\ Instr(f, i).type # "void"
InAllocas ==
    \A i \in DOMAIN identifiers : \A n \in DOMAIN identifiers[i] :
        identifiers[i][n].kind = "INSTR" => IsAlloca(function, identifiers[i][n].id)
Evaluates == AllFine(function) /\ Evaluating(function, evaluated, todo)

ValueInv ==
    /\ TableTyped
    /\ InFunction => InAllocas /\ Evaluates
    /\ \A i \in DOMAIN module.functions : AllFine(module.functions[i])

\* What the invariants say of the function under construction.
LEMMA ValueFacts ==
    ASSUME IndInv, ShapeInv, ValueInv, NEW place, At(place)
    PROVE  /\ InFunction /\ Well(function) /\ function \in FunctionType
           /\ function.blocks # <<>> /\ ListsExisting(function)
           /\ todo # <<>> /\ todo \in Seq(FrameType)
           /\ Head(todo) \in FrameType /\ Head(todo).at = place
           /\ InAllocas /\ AllFine(function) /\ Evaluating(function, evaluated, todo)
           /\ Resumes(function, evaluated, Head(todo)) /\ Saves(function, Head(todo))
<1>1. /\ InFunction /\ todo # <<>> /\ todo \in Seq(FrameType)
      /\ Head(todo) \in FrameType /\ Head(todo).at = place
  BY AtFacts
<1>2. Well(function) /\ InAllocas /\ AllFine(function)
  BY <1>1 DEF ShapeInv, Tidy, ValueInv, Evaluates
<1>3. Evaluating(function, evaluated, todo)
  BY <1>1 DEF ValueInv, Evaluates
<1>4. 1 \in DOMAIN todo /\ Head(todo) = todo[1]
  BY <1>1, HeadAndRest
<1>5. Resumes(function, evaluated, Head(todo)) /\ Saves(function, Head(todo))
  BY <1>1, <1>3, <1>4 DEF Evaluating
<1> QED
  BY <1>1, <1>2, <1>3, <1>5, WellFacts

\* An identifier of the program stands for an address.
LEMMA ResolvedAddress ==
    ASSUME IndInv, InFunction, InAllocas, NEW n, Resolvable(n)
    PROVE  LET v == ResolveIdentifier(n)
           IN /\ v \in LLVMValueID /\ v.kind \in {"GLOBAL", "INSTR"}
              /\ IsAddress(function, v)
              /\ v.kind = "INSTR" =>
                   /\ v.id \in InstrIDs(function) /\ Instr(function, v.id).opcode = "ALLOCA"
                   /\ HasResult(function, v.id)
<1> DEFINE v == ResolveIdentifier(n)
<1>1. v \in LLVMValueID /\ v.kind \in {"GLOBAL", "INSTR"}
  BY ResolvedOperand, ResolvedKind
<1>2. PICK i \in DOMAIN identifiers : n \in DOMAIN identifiers[i] /\ v = identifiers[i][n]
  BY ResolvedIsHeld DEF IndInv, TypeOK
<1>3. StorageOK(i, v)
  BY <1>2 DEF IndInv, LayersOK
<1>4. v.kind = "INSTR" =>
        Instr(function, v.id).opcode = "ALLOCA" /\ HasResult(function, v.id)
  BY <1>2 DEF InAllocas, IsAlloca, HasResult, LLVM!HasDest
<1> HIDE DEF v
<1>5. v.kind = "INSTR" => v.id \in InstrIDs(function)
  BY <1>3 DEF StorageOK
<1>6. IsAddress(function, v)
  BY <1>1, <1>4, <1>5 DEF IsAddress
<1> QED
  BY <1>1, <1>4, <1>5, <1>6 DEF v

-----------------------------------------------------------------------------
(* Tables and layers *)

\* Layers that stay as they are.
LEMMA AllocasKept ==
    ASSUME IndInv, InFunction, InAllocas, Later(function, function'), UNCHANGED identifiers
    PROVE  InAllocas'
<1> SUFFICES ASSUME NEW i \in DOMAIN identifiers, NEW n \in DOMAIN identifiers[i],
                    identifiers[i][n].kind = "INSTR"
             PROVE  IsAlloca(function', identifiers[i][n].id)
  BY DEF InAllocas
<1>1. identifiers[i][n].id \in InstrIDs(function)
  BY DEF IndInv, LayersOK, StorageOK
<1> QED
  BY <1>1 DEF InAllocas, IsAlloca, Later

\* A declaration binds its name to the alloca it is about to emit.
LEMMA AllocasDeclared ==
    ASSUME IndInv, InFunction, InAllocas, Later(function, function'),
           NEW n \in Names, NEW type, DeclareLocal(n, type),
           IsAlloca(function', Len(function.instructions))
    PROVE  InAllocas'
<1> DEFINE v == Value("INSTR", Len(function.instructions))
<1>1. /\ identifiers # <<>> /\ IsStackOf(identifiers, Names, LLVMValueID)
      /\ CurrentLayers = identifiers /\ Len(function.instructions) \in Nat
  BY InFunctionFacts DEF CurrentLayers, IndInv, TypeOK
<1>2. v \in LLVMValueID /\ v.kind = "INSTR" /\ v.id = Len(function.instructions)
  BY <1>1, InstrOperand
<1>3. identifiers' = BindCurrent(identifiers, n, v)
  BY <1>1 DEF DeclareLocal
<1> HIDE DEF v
<1>4. /\ IsStackOf(identifiers', Names, LLVMValueID)
      /\ Len(identifiers') = Len(identifiers)
      /\ \A i \in 1 .. Len(identifiers') : \A m \in DOMAIN identifiers'[i] :
           \/ i = Len(identifiers) /\ identifiers'[i][m] = v
           \/ m \in DOMAIN identifiers[i] /\ identifiers'[i][m] = identifiers[i][m]
  BY <1>1, <1>2, <1>3, BindLayers
<1>5. DOMAIN identifiers = 1 .. Len(identifiers) /\ DOMAIN identifiers' = 1 .. Len(identifiers')
  BY <1>1, <1>4, StackElements
<1>6. ASSUME NEW i \in DOMAIN identifiers', NEW m \in DOMAIN identifiers'[i],
             identifiers'[i][m].kind = "INSTR"
      PROVE  IsAlloca(function', identifiers'[i][m].id)
  <2>1. CASE identifiers'[i][m] = v
    BY <1>2, <2>1
  <2>2. CASE m \in DOMAIN identifiers[i] /\ identifiers'[i][m] = identifiers[i][m]
    <3>1. i \in DOMAIN identifiers
      BY <1>4, <1>5
    <3>2. identifiers[i][m].id \in InstrIDs(function)
      BY <1>6, <2>2, <3>1 DEF IndInv, LayersOK, StorageOK
    <3>3. IsAlloca(function, identifiers[i][m].id)
      BY <1>6, <2>2, <3>1 DEF InAllocas
    <3> QED
      BY <2>2, <3>2, <3>3 DEF IsAlloca, Later
  <2> QED
    BY <1>4, <1>5, <2>1, <2>2
<1> QED
  BY <1>6 DEF InAllocas

\* A function begins with an empty layer over those of the globals.
LEMMA AllocasBegin ==
    ASSUME IndInv, ~InFunction, identifiers' = Append(identifiers, EmptyScope)
    PROVE  InAllocas'
<1>1. IsStackOf(identifiers, Names, LLVMValueID)
  BY DEF IndInv, TypeOK
<1>2. /\ Len(identifiers') = Len(identifiers) + 1 /\ Len(identifiers) \in Nat
      /\ IsStackOf(identifiers', Names, LLVMValueID)
      /\ \A i \in 1 .. Len(identifiers) : identifiers'[i] = identifiers[i]
      /\ identifiers'[Len(identifiers) + 1] = EmptyScope
  BY <1>1, EmptyMap, PushStack, StackElements
<1>3. DOMAIN identifiers = 1 .. Len(identifiers) /\ DOMAIN identifiers' = 1 .. Len(identifiers')
  BY <1>1, <1>2, StackElements
<1>4. ASSUME NEW i \in DOMAIN identifiers', NEW m \in DOMAIN identifiers'[i]
      PROVE  identifiers'[i][m].kind # "INSTR"
  <2>1. i # Len(identifiers) + 1
    BY <1>2, <1>4 DEF EmptyScope
  <2>2. i \in DOMAIN identifiers
    BY <1>2, <1>3, <2>1
  <2>3. identifiers'[i] = identifiers[i]
    BY <1>2, <1>3, <2>2
  <2> QED
    BY <1>4, <2>2, <2>3 DEF IndInv, LayersOK, StorageOK
<1> QED
  BY <1>4 DEF InAllocas

\* What a step makes of SemaVisitor's table.
Declares ==
    \/ UNCHANGED table
    \/ \E n \in Names, t \in VarTypes, v \in LLVMValueID : table' = AddToScope(table, n, Symbol(t, v))
    \/ "pointer" \in Fragment
    \/ table' = PushScope(table)
    \/ table' = PopScope(table)

\* A plain declarator has one of the types of variables.
LEMMA TableTypedStep ==
    ASSUME TableTyped, Declares
    PROVE  TableTyped'
<1> SUFFICES ASSUME NoPointers PROVE IsStackOf(table', Names, IntSymbol)
  BY DEF TableTyped, NoPointers
<1>1. IsStackOf(table, Names, IntSymbol)
  BY DEF TableTyped
<1>2. ASSUME NEW n \in Names, NEW t \in VarTypes, NEW v \in LLVMValueID,
             table' = AddToScope(table, n, Symbol(t, v))
      PROVE  IsStackOf(table', Names, IntSymbol)
  <2>1. Symbol(t, v) \in IntSymbol
    BY DEF Symbol, IntSymbol
  <2> QED
    BY <1>1, <1>2, <2>1, AddToScopeStack
<1>3. CASE table' = PushScope(table)
  BY <1>1, <1>3, EmptyMap, PushStack DEF PushScope
<1>4. CASE table' = PopScope(table)
  BY <1>1, <1>4, PopStack DEF PopScope
<1> QED
  BY <1>1, <1>2, <1>3, <1>4 DEF Declares, NoPointers

\* The declaration of a variable in a function, as a step of the table.
LEMMA LocalDeclares ==
    ASSUME IndInv, InFunction, NEW n \in Names, NEW type \in VarTypes, DeclareLocal(n, type)
    PROVE  Declares
<1>1. Value("INSTR", Len(function.instructions)) \in LLVMValueID
  BY InFunctionFacts, InstrOperand
<1> QED
  BY <1>1 DEF DeclareLocal, Declares

\* The type of a declared variable.
LEMMA DeclaredType ==
    ASSUME TableTyped, NoPointers, NEW n, HasOrd(table, n)
    PROVE  GetOrd(table, n).type \in Ints
<1>1. GetOrd(table, n) \in IntSymbol
  BY GetOrdType DEF TableTyped
<1> QED
  BY <1>1, TypesAssumption DEF IntSymbol, Ints

-----------------------------------------------------------------------------
(* Steps of the call stack *)

\* Frames other than the two that hold an id.
LEMMA SavesNothing ==
    ASSUME NEW f, NEW b, b.at \notin {"binary", "assign"}
    PROVE  Saves(f, b)
BY DEF Saves

\* The stack is its head on the rest.
LEMMA OnRest ==
    ASSUME NEW s \in Seq(FrameType), s # <<>>
    PROVE  /\ s = <<Head(s)>> \o Tail(s) /\ <<>> \o Tail(s) = Tail(s)
           /\ \A x \in FrameType : <<x>> \o s = <<x, Head(s)>> \o Tail(s)
<1>1. /\ Head(s) \in FrameType /\ Tail(s) \in Seq(FrameType) /\ Len(s) \in Nat /\ Len(s) > 0
      /\ Len(Tail(s)) = Len(s) - 1 /\ s[1] = Head(s)
      /\ \A j \in 1 .. Len(s) - 1 : Tail(s)[j] = s[j + 1]
  BY HeadAndRest
<1>2. <<>> \o Tail(s) = Tail(s)
  BY <1>1
<1>3. s = <<Head(s)>> \o Tail(s)
  BY <1>1
<1>4. ASSUME NEW x \in FrameType PROVE <<x>> \o s = <<x, Head(s)>> \o Tail(s)
  BY <1>1
<1> QED
  BY <1>2, <1>3, <1>4

\* A handler returns to the one below.
LEMMA Returns ==
    ASSUME IndInv, ShapeInv, ValueInv, NEW place, At(place), Continue(<<>>),
           Straight(function, function') \/ place \notin Middle, AllFine(function'),
           \A b \in FrameType : Fits(Head(todo), b) => Resumes(function', evaluated', b)
    PROVE  Evaluates'
<1>1. /\ function \in FunctionType /\ function.blocks # <<>>
      /\ todo \in Seq(FrameType) /\ todo # <<>> /\ Head(todo).at = place
      /\ Evaluating(function, evaluated, todo)
  BY ValueFacts
<1>2. todo' = Tail(todo)
  BY <1>1, OnRest DEF Continue
<1>3. Evaluating(function', evaluated', todo')
  BY <1>1, <1>2, Returned
<1> QED
  BY <1>3 DEF Evaluates

\* A handler goes on with frames.
LEMMA GoesOn ==
    ASSUME IndInv, ShapeInv, ValueInv, NEW place, At(place),
           NEW frames, todo' = frames \o Tail(todo), Opens(Head(todo), frames),
           \A j \in DOMAIN frames : Saves(function', frames[j]),
           Straight(function, function') \/ place \notin Middle, AllFine(function')
    PROVE  Evaluates'
<1>1. /\ function \in FunctionType /\ function.blocks # <<>>
      /\ todo \in Seq(FrameType) /\ todo # <<>> /\ Head(todo).at = place
      /\ Evaluating(function, evaluated, todo)
  BY ValueFacts
<1>2. Evaluating(function', evaluated', todo')
  BY <1>1, Resumed
<1> QED
  BY <1>2 DEF Evaluates

\* A handler that emits nothing runs straight on.
LEMMA StandsStill ==
    ASSUME IndInv, ShapeInv, ValueInv, NEW place, At(place), UNCHANGED function
    PROVE  Straight(function, function') /\ AllFine(function')
<1>1. Well(function) /\ AllFine(function)
  BY ValueFacts
<1> QED
  BY <1>1, RunsReflexive DEF Runs

\* Going on with one frame, with two or with three, that hold no ids.
LEMMA OpensPlain ==
    ASSUME IndInv, ShapeInv, ValueInv, NEW place, At(place),
           NEW frames, Continue(frames), Opens(Head(todo), frames),
           \A j \in DOMAIN frames : frames[j].at \notin {"binary", "assign"},
           UNCHANGED function
    PROVE  Evaluates'
BY StandsStill, GoesOn, SavesNothing DEF Continue

\* A list of declarations, parameters or statements goes on.
LEMMA Stays ==
    ASSUME IndInv, ShapeInv, ValueInv, NEW place, At(place), place \notin Middle \cup Reads,
           UNCHANGED todo, AllFine(function')
    PROVE  Evaluates'
<1> DEFINE a == Head(todo)
           frames == <<a>>
<1>1. a \in FrameType /\ a.at = place /\ todo \in Seq(FrameType) /\ todo # <<>>
  BY ValueFacts
<1>2. todo' = frames \o Tail(todo)
  BY <1>1, OnRest
<1>3. Replaces(a, a)
  BY DEF Replaces
<1>4. Opens(a, frames)
  BY <1>1, <1>3, OpensOne
<1>5. \A j \in DOMAIN frames : frames[j] = a
  OBVIOUS
<1>6. a.at \notin {"binary", "assign"}
  BY <1>1 DEF Reads
<1> HIDE DEF frames
<1>7. \A j \in DOMAIN frames : Saves(function', frames[j])
  BY <1>5, <1>6, SavesNothing
<1> QED
  BY <1>2, <1>4, <1>7, GoesOn

\* One of its elements is visited.
LEMMA Enters ==
    ASSUME IndInv, ShapeInv, ValueInv, NEW place, At(place), place \notin Inner,
           NEW x \in FrameType, x.at \notin Reads, todo' = <<x>> \o todo, AllFine(function')
    PROVE  Evaluates'
<1> DEFINE a == Head(todo)
           frames == <<x, a>>
<1>1. a \in FrameType /\ a.at = place /\ todo \in Seq(FrameType) /\ todo # <<>>
  BY ValueFacts
<1>2. todo' = frames \o Tail(todo)
  BY <1>1, OnRest
<1>3. Replaces(a, a)
  BY DEF Replaces
<1>4. a.at \notin {"assign", "rvalue"} /\ a.at \notin ReadsValue /\ a.at \notin Middle
  BY <1>1 DEF Inner, Middle, ReadsValue
<1>5. Fits(x, a)
  BY <1>1, <1>4 DEF Fits, Inner, Middle, Reads
<1>6. Opens(a, frames)
  BY <1>1, <1>3, <1>4, <1>5, OpensTwo
<1>7. \A j \in DOMAIN frames : frames[j] = a \/ frames[j] = x
  OBVIOUS
<1>8. a.at \notin {"binary", "assign"} /\ x.at \notin {"binary", "assign"}
  BY <1>1 DEF Reads, Inner, Middle
<1> HIDE DEF frames
<1>9. \A j \in DOMAIN frames : Saves(function', frames[j])
  BY <1>7, <1>8, SavesNothing
<1>10. place \notin Middle
  BY DEF Inner
<1> QED
  BY <1>2, <1>6, <1>9, <1>10, GoesOn

\* What a frame that waits for an instruction needs it and the type to be.
Suits(instr, e, b) ==
    /\ b.at = "assign" => instr.type = "ptr"
    /\ Simple /\ b.at = "rvalue" => instr.type # "void" /\ e \in Ints
    /\ Simple /\ b.at \in ReadsValue => instr.type \notin {"ptr", "void"} /\ e \in Ints
    /\ Named /\ b.at \in Reads => LLVM!HasDest(instr)

\* Straight-line code ends in an instruction.
LEMMA Delivered ==
    ASSUME NEW g, Ready(g), NEW e, NEW b, Suits(Instr(g, LastInstr(g)), e, b)
    PROVE  Resumes(g, e, b)
BY DEF Suits, Resumes, Ready, Scalar, HasResult

\* A handler emits an instruction and returns.
LEMMA EmitsAndReturns ==
    ASSUME IndInv, IndInv', ShapeInv, ValueInv, NEW place, At(place), Continue(<<>>),
           NEW instr \in LLVMInstruction, WellFormed(instr), instr.opcode # "BR",
           Good(function, instr), Local(function, LastBlock(function), instr),
           function' = EmitInstr(function, instr),
           \A b \in FrameType : Fits(Head(todo), b) => Suits(instr, evaluated', b)
    PROVE  Evaluates'
<1>1. /\ Well(function) /\ AllFine(function)
      /\ function \in FunctionType /\ function.blocks # <<>>
  BY ValueFacts
<1>2. AllFine(function') /\ Ready(function')
  BY <1>1, EmitFine
<1>3. Straight(function, function')
  BY <1>1, EmitRuns DEF Runs
<1>4. Instr(function', LastInstr(function')) = instr
  BY <1>1, EmitFacts
<1>5. \A b \in FrameType : Fits(Head(todo), b) => Resumes(function', evaluated', b)
  BY <1>2, <1>4, Delivered
<1> QED
  BY <1>2, <1>3, <1>5, Returns

-----------------------------------------------------------------------------
(* Handlers that only go on with other frames *)

\* A frame on others.
LEMMA FrameOn ==
    ASSUME NEW S, NEW x \in S, NEW q \in Seq(S), NEW t, t = <<x>> \o q
    PROVE  /\ t \in Seq(S) /\ Len(t) = 1 + Len(q) /\ t[1] = x
           /\ \A i \in 1 .. Len(q) : t[i + 1] = q[i]
<1> DEFINE p == <<x>>
<1>1. p \in Seq(S) /\ Len(p) = 1 /\ p[1] = x /\ Len(q) \in Nat /\ t = p \o q
  OBVIOUS
<1> HIDE DEF p
<1>2. /\ t \in Seq(S) /\ Len(t) = 1 + Len(q)
      /\ \A i \in 1 .. 1 + Len(q) : t[i] = IF i <= 1 THEN p[i] ELSE q[i - 1]
  BY <1>1, ConcatProperties
<1>3. t[1] = x
  BY <1>1, <1>2
<1>4. \A i \in 1 .. Len(q) : t[i + 1] = q[i]
  BY <1>1, <1>2
<1> QED
  BY <1>2, <1>3, <1>4

\* A frame on one other.
LEMMA PairOfFrames ==
    ASSUME NEW S, NEW x \in S, NEW y \in S
    PROVE  <<x>> \o <<y>> = <<x, y>>
<1> SUFFICES ASSUME NEW t, t = <<x>> \o <<y>> PROVE t = <<x, y>>
  OBVIOUS
<1> DEFINE q == <<y>>
           r == <<x, y>>
<1>1. /\ t = <<x>> \o q
      /\ q \in Seq(S) /\ Len(q) = 1 /\ q[1] = y
      /\ r \in Seq(S) /\ Len(r) = 2 /\ r[1] = x /\ r[2] = y
  OBVIOUS
<1> HIDE DEF q, r
<1>2. /\ t \in Seq(S) /\ Len(t) = 1 + Len(q) /\ t[1] = x
      /\ \A i \in 1 .. Len(q) : t[i + 1] = q[i]
  BY <1>1, FrameOn
<1>3. t[1 + 1] = q[1]
  BY <1>1, <1>2
<1>4. t = r
  BY <1>1, <1>2, <1>3
<1> QED
  BY <1>4 DEF r

\* A frame on two.
LEMMA TripleOfFrames ==
    ASSUME NEW S, NEW x \in S, NEW y \in S, NEW z \in S
    PROVE  <<x>> \o <<y, z>> = <<x, y, z>>
<1> SUFFICES ASSUME NEW t, t = <<x>> \o <<y, z>> PROVE t = <<x, y, z>>
  OBVIOUS
<1> DEFINE q == <<y, z>>
           r == <<x, y, z>>
<1>1. /\ t = <<x>> \o q
      /\ q \in Seq(S) /\ Len(q) = 2 /\ q[1] = y /\ q[2] = z
      /\ r \in Seq(S) /\ Len(r) = 3 /\ r[1] = x /\ r[2] = y /\ r[3] = z
  OBVIOUS
<1> HIDE DEF q, r
<1>2. /\ t \in Seq(S) /\ Len(t) = 1 + Len(q) /\ t[1] = x
      /\ \A i \in 1 .. Len(q) : t[i + 1] = q[i]
  BY <1>1, FrameOn
<1>3. t[1 + 1] = q[1] /\ t[2 + 1] = q[2]
  BY <1>1, <1>2
<1>4. t = r
  BY <1>1, <1>2, <1>3
<1> QED
  BY <1>4 DEF r

\* visit(ListExpression) and parentheses pass on what is asked of them.
LEMMA ListExpressionEvaluates ==
    ASSUME IndInv, ShapeInv, ValueInv, NEW two \in BOOLEAN, ListExpression(two)
    PROVE  Evaluates'
<1> DEFINE a == Head(todo)
           x == Child("expr", "discarded")
           y == Child("expr", a.arg)
<1>1. At("list") /\ UNCHANGED function
  BY DEF ListExpression
<1>2. a \in FrameType /\ FrameOK(function, a) /\ a.at = "list"
  BY <1>1, AtFacts
<1>3. a.arg \in Position /\ "discarded" \in Position
  BY <1>2 DEF FrameOK, Position
<1>4. x \in FrameType /\ y \in FrameType
  BY <1>3, ExpressionFrame
<1>5. x.at = "expr" /\ y.at = "expr" /\ y.arg = a.arg
  BY DEF Frame, Child, Resume
<1>6. two => Continue(<<x>> \o <<y>>)
  BY DEF ListExpression
<1>7. ~two => Continue(<<>> \o <<y>>)
  BY DEF ListExpression
<1> HIDE DEF x, y, a
<1>8. Replaces(a, y) /\ x.at \notin Reads /\ y.at \notin Reads
  <2>1. "expr" \in Middle /\ "expr" \notin Reads
    BY DEF Middle, Reads
  <2> QED
    BY <1>2, <1>5, <2>1, ReplacesWhen DEF Yields, Delivers
<1>9. x.at \in Middle /\ y.at \in Middle /\ Fits(x, y)
  BY <1>5 DEF Fits, Middle, ReadsValue, Reads, Delivers
<1>10. <<x>> \o <<y>> = <<x, y>>
  BY <1>4, PairOfFrames
<1>11. <<>> \o <<y>> = <<y>>
  BY <1>4
<1>12. \A j \in DOMAIN <<x, y>> : <<x, y>>[j] = x \/ <<x, y>>[j] = y
  OBVIOUS
<1>13. \A j \in DOMAIN <<y>> : <<y>>[j] = y
  OBVIOUS
<1>14. Opens(a, <<y>>) /\ Opens(a, <<x, y>>)
  BY <1>4, <1>8, <1>9, OpensOne, OpensTwo
<1>15. CASE two
  BY <1>1, <1>5, <1>6, <1>10, <1>12, <1>14, <1>15, OpensPlain DEF a
<1>16. CASE ~two
  BY <1>1, <1>5, <1>7, <1>11, <1>13, <1>14, <1>16, OpensPlain DEF a
<1> QED
  BY <1>15, <1>16

\* visit(PrimaryExpression) of a parenthesised expression.
LEMMA ParenthesesEvaluates ==
    ASSUME IndInv, ShapeInv, ValueInv, Parentheses
    PROVE  Evaluates'
<1> DEFINE a == Head(todo)
           x == Child("list", a.arg)
           frames == <<x>>
<1>1. At("expr") /\ UNCHANGED function /\ Continue(frames)
  BY DEF Parentheses
<1>2. a \in FrameType /\ a.arg \in Position /\ a.at = "expr"
  BY <1>1, AtFacts DEF FrameOK
<1>3. x \in FrameType
  BY <1>2, ExpressionFrame
<1>4. x.at = "list" /\ x.arg = a.arg
  BY DEF Frame, Child, Resume
<1>5. \A j \in DOMAIN frames : frames[j] = x
  OBVIOUS
<1> HIDE DEF x, a
<1>6. "list" \in Middle /\ "list" \notin Reads
  BY DEF Middle, Reads
<1>7. Replaces(a, x)
  BY <1>2, <1>4, <1>6, ReplacesWhen DEF Yields, Delivers
<1>8. Opens(a, frames)
  BY <1>3, <1>4, <1>6, <1>7, OpensOne
<1> HIDE DEF frames
<1> QED
  BY <1>1, <1>4, <1>5, <1>8, OpensPlain DEF a

\* A binary expression starts with its right side, which is to be a value.
LEMMA BinaryExpressionEvaluates ==
    ASSUME IndInv, ShapeInv, ValueInv, NEW op \in BinaryOperator, BinaryExpression(op)
    PROVE  Evaluates'
<1> DEFINE a == Head(todo)
           x == Child("expr", "rvalue")
           y == Frame("rvalue")
           z == Child("binaryLhs", op)
           frames == <<x, y, z>>
<1>1. At("expr") /\ UNCHANGED function /\ Continue(frames)
  BY DEF BinaryExpression
<1>2. a.at = "expr" /\ "rvalue" \in Position
  BY <1>1, AtFacts DEF Position
<1>3. x \in FrameType /\ y \in FrameType /\ z \in FrameType
  BY <1>2, ExpressionFrame, PlainFrame, BinaryFrame
<1>4. x.at = "expr" /\ x.arg = "rvalue" /\ y.at = "rvalue" /\ z.at = "binaryLhs"
  BY DEF Frame, Child, Resume
<1>5. \A j \in DOMAIN frames : frames[j] \in {x, y, z}
  OBVIOUS
<1> HIDE DEF x, y, z, a
<1>6. x.at \in Middle /\ y.at \in Middle /\ z.at \in Middle /\ x.at \notin Reads
  BY <1>4 DEF Middle, Reads
<1>7. Fits(x, y) /\ Fits(y, z)
  BY <1>4 DEF Fits, Yields, Middle, ReadsValue, Reads, Delivers
<1>8. Replaces(a, z)
  BY <1>2, <1>4, <1>6, ReplacesWhen DEF Yields, Delivers
<1>9. Opens(a, frames)
  BY <1>3, <1>6, <1>7, <1>8, OpensThree
<1> HIDE DEF frames
<1>10. \A j \in DOMAIN frames : frames[j].at \notin {"binary", "assign"}
  BY <1>4, <1>5
<1> QED
  BY <1>1, <1>9, <1>10, OpensPlain DEF a

\* visit(AssignmentExpression) starts with the value it assigns; its own is
\* only asked for where assignments are nested.
LEMMA AssignmentExpressionEvaluates ==
    ASSUME IndInv, ShapeInv, ValueInv, NEW op \in AssignmentOperator, AssignmentExpression(op)
    PROVE  Evaluates'
<1> DEFINE a == Head(todo)
           x == Child("expr", "rvalue")
           y == Frame("rvalue")
           z == Child("assignLhs", op)
           frames == <<x, y, z>>
<1>1. /\ At("expr") /\ UNCHANGED function /\ Continue(frames)
      /\ a.arg # "discarded" => "nestedAssign" \in Fragment
  BY DEF AssignmentExpression
<1>2. a.at = "expr" /\ "rvalue" \in Position
  BY <1>1, AtFacts DEF Position
<1>3. x \in FrameType /\ y \in FrameType /\ z \in FrameType
  BY <1>2, ExpressionFrame, PlainFrame, AssignmentFrame
<1>4. x.at = "expr" /\ x.arg = "rvalue" /\ y.at = "rvalue" /\ z.at = "assignLhs"
  BY DEF Frame, Child, Resume
<1>5. \A j \in DOMAIN frames : frames[j] \in {x, y, z}
  OBVIOUS
<1> HIDE DEF x, y, z, a
<1>6. x.at \in Middle /\ y.at \in Middle /\ z.at \in Middle /\ x.at \notin Reads
  BY <1>4 DEF Middle, Reads
<1>7. Fits(x, y) /\ Fits(y, z)
  BY <1>4 DEF Fits, Yields, Middle, ReadsValue, Reads, Delivers
<1>8. Replaces(a, z)
  BY <1>1, <1>2, <1>4, <1>6, ReplacesWhen DEF Yields, Delivers, Named, Simple
<1>9. Opens(a, frames)
  BY <1>3, <1>6, <1>7, <1>8, OpensThree
<1> HIDE DEF frames
<1>10. \A j \in DOMAIN frames : frames[j].at \notin {"binary", "assign"}
  BY <1>4, <1>5
<1> QED
  BY <1>1, <1>9, <1>10, OpensPlain DEF a

\* What has been computed is saved while the other side is visited.
LEMMA SavesLast ==
    ASSUME NEW f, NEW e, NEW a, a.at \in {"binaryLhs", "assignLhs"}, Resumes(f, e, a),
           NEW b, b.ids[1] = LastInstr(f), b.type = e
    PROVE  Saves(f, b)
<1>1. a.at \in Reads /\ a.at \in ReadsValue
  BY DEF Reads, ReadsValue
<1> QED
  BY <1>1 DEF Resumes, Saves, Ready

\* The left side of a binary expression.
LEMMA BinaryLhsEvaluates ==
    ASSUME IndInv, ShapeInv, ValueInv, BinaryLhs
    PROVE  Evaluates'
<1> DEFINE a == Head(todo)
           ids == <<LastInstr(function)>>
           x == Child("expr", "rvalue")
           y == Frame("rvalue")
           z == Resume("binary", a.arg, evaluated, ids)
           frames == <<x, y, z>>
<1>1. At("binaryLhs") /\ UNCHANGED function /\ Continue(frames)
  BY DEF BinaryLhs
<1>2. /\ a.at = "binaryLhs" /\ a.arg \in BinaryOperator /\ "rvalue" \in Position
      /\ function \in FunctionType /\ evaluated \in CType
      /\ Resumes(function, evaluated, a)
  BY <1>1, AtFacts, ValueFacts DEF Position, FrameOK, IndInv, TypeOK
<1>3. x \in FrameType /\ y \in FrameType /\ z \in FrameType
  <2>1. LastInstr(function) \in NPos .. LastInstr(function)
    BY <1>2, FunctionFields DEF LastInstr, NPos
  <2> QED
    BY <1>2, <2>1, ExpressionFrame, PlainFrame, SavedBinary
<1>4. x.at = "expr" /\ x.arg = "rvalue" /\ y.at = "rvalue" /\ z.at = "binary"
  BY DEF Frame, Child, Resume
<1>5. z.type = evaluated /\ z.ids = ids /\ ids[1] = LastInstr(function)
  BY DEF Frame, Child, Resume
<1>6. \A j \in DOMAIN frames : frames[j] \in {x, y, z}
  OBVIOUS
<1> HIDE DEF x, y, z, a, ids
<1>7. x.at \in Middle /\ y.at \in Middle /\ z.at \in Middle /\ x.at \notin Reads
  BY <1>4 DEF Middle, Reads
<1>8. Fits(x, y) /\ Fits(y, z)
  BY <1>4 DEF Fits, Yields, Middle, ReadsValue, Reads, Delivers
<1>9. Replaces(a, z)
  BY <1>2, <1>4, <1>7, ReplacesWhen DEF Yields, Delivers
<1>10. Opens(a, frames)
  BY <1>3, <1>7, <1>8, <1>9, OpensThree
<1> HIDE DEF frames
<1>11. Saves(function', z)
  BY <1>1, <1>2, <1>5, SavesLast
<1>12. \A j \in DOMAIN frames : Saves(function', frames[j])
  BY <1>4, <1>6, <1>11, SavesNothing
<1> QED
  BY <1>1, <1>10, <1>12, StandsStill, GoesOn DEF a, Continue

\* The left side of an assignment: an address.
LEMMA AssignmentLhsEvaluates ==
    ASSUME IndInv, ShapeInv, ValueInv, AssignmentLhs
    PROVE  Evaluates'
<1> DEFINE a == Head(todo)
           ids == <<LastInstr(function)>>
           x == Frame("lvalue")
           y == Resume("assign", a.arg, evaluated, ids)
           frames == <<x, y>>
<1>1. At("assignLhs") /\ UNCHANGED function /\ Continue(frames)
  BY DEF AssignmentLhs
<1>2. /\ a.at = "assignLhs" /\ a.arg \in AssignmentOperator
      /\ function \in FunctionType /\ evaluated \in CType
      /\ Resumes(function, evaluated, a)
  BY <1>1, AtFacts, ValueFacts DEF FrameOK, IndInv, TypeOK
<1>3. x \in FrameType /\ y \in FrameType
  <2>1. LastInstr(function) \in NPos .. LastInstr(function)
    BY <1>2, FunctionFields DEF LastInstr, NPos
  <2> QED
    BY <1>2, <2>1, PlainFrame, SavedAssignment
<1>4. x.at = "lvalue" /\ y.at = "assign"
  BY DEF Frame, Child, Resume
<1>5. y.type = evaluated /\ y.ids = ids /\ ids[1] = LastInstr(function)
  BY DEF Frame, Child, Resume
<1>6. \A j \in DOMAIN frames : frames[j] \in {x, y}
  OBVIOUS
<1> HIDE DEF x, y, a, ids
<1>7. x.at \in Middle /\ y.at \in Middle /\ x.at \notin Reads
  BY <1>4 DEF Middle, Reads
<1>8. Fits(x, y)
  BY <1>4 DEF Fits, Yields, Middle, ReadsValue, Reads, Delivers
<1>9. Replaces(a, y)
  BY <1>2, <1>4, <1>7, ReplacesWhen DEF Yields, Delivers
<1>10. Opens(a, frames)
  BY <1>3, <1>7, <1>8, <1>9, OpensTwo
<1> HIDE DEF frames
<1>11. Saves(function', y)
  BY <1>1, <1>2, <1>5, SavesLast
<1>12. \A j \in DOMAIN frames : Saves(function', frames[j])
  BY <1>4, <1>6, <1>11, SavesNothing
<1> QED
  BY <1>1, <1>10, <1>12, StandsStill, GoesOn DEF a, Continue

\* visit(Node) of an expression without a handler: nothing is emitted.
LEMMA UnhandledEvaluates ==
    ASSUME IndInv, ShapeInv, ValueInv, NEW t, UnhandledExpression(t)
    PROVE  Evaluates'
<1>1. At("expr") /\ Continue(<<>>) /\ UNCHANGED function /\ ~Handled
  BY DEF UnhandledExpression, Handled
<1>2. Head(todo).at = "expr"
  BY <1>1, AtFacts
<1>3. \A b \in FrameType : Fits(Head(todo), b) => Resumes(function', evaluated', b)
  BY <1>1, <1>2 DEF Fits, Resumes, Simple, Named
<1> QED
  BY <1>1, <1>3, StandsStill, Returns

-----------------------------------------------------------------------------
(* Handlers of expressions that emit *)

\* What an instruction with two operands, with one or with none uses.
LEMMA UsesPair ==
    ASSUME NEW v, NEW w, NEW instr, instr.operands = <<v, w>>
    PROVE  /\ instr.operands[1] = v /\ instr.operands[2] = w
           /\ \A i : Uses(instr, i) =>
                (v.kind = "INSTR" /\ v.id = i) \/ (w.kind = "INSTR" /\ w.id = i)
<1> DEFINE operands == <<v, w>>
<1>1. /\ DOMAIN operands = {1, 2} /\ operands[1] = v /\ operands[2] = w
      /\ instr.operands = operands
  OBVIOUS
<1> HIDE DEF operands
<1>2. ASSUME NEW i, Uses(instr, i)
      PROVE  (v.kind = "INSTR" /\ v.id = i) \/ (w.kind = "INSTR" /\ w.id = i)
  <2>1. PICK k \in DOMAIN operands : operands[k].kind = "INSTR" /\ operands[k].id = i
    BY <1>1, <1>2 DEF Uses
  <2>2. k = 1 \/ k = 2
    BY <1>1
  <2> QED
    BY <1>1, <2>1, <2>2
<1> QED
  BY <1>1, <1>2

\* One operand.
LEMMA UsesOne ==
    ASSUME NEW v, NEW instr, instr.operands = <<v>>
    PROVE  \A i : Uses(instr, i) => v.kind = "INSTR" /\ v.id = i
<1> DEFINE operands == <<v>>
<1>1. DOMAIN operands = {1} /\ operands[1] = v /\ instr.operands = operands
  OBVIOUS
<1> HIDE DEF operands
<1> QED
  BY <1>1 DEF Uses

\* None.
LEMMA UsesNone ==
    ASSUME NEW instr, instr.operands = <<>>
    PROVE  \A i : ~Uses(instr, i)
BY DEF Uses

\* An instruction is made of what it is said to be.
LEMMA Makes ==
    ASSUME NEW opcode, NEW type, NEW operands, NEW instr,
           instr = Instruction(opcode, type, operands)
    PROVE  instr.opcode = opcode /\ instr.type = type /\ instr.operands = operands
BY DEF Instruction

\* No pointer, and no return without a value.
LEMMA PlainWhen ==
    ASSUME NEW f, NEW instr, Simple => instr.type # "ptr",
           instr.opcode # "RET" \/ (\E v : instr.operands = <<v>>) \/ ~NoVoidReturns
    PROVE  Plain(f, instr)
<1>1. \A v : DOMAIN <<v>> = {1}
  OBVIOUS
<1> QED
  BY <1>1 DEF Plain

\* An instruction that uses no result.
LEMMA GoodUseless ==
    ASSUME NEW f, NEW b, NEW instr, instr.opcode \notin {"ICMP", "STORE", "LOAD"},
           Plain(f, instr),
           \A i : ~Uses(instr, i)
    PROVE  Good(f, instr) /\ Local(f, b, instr)
BY DEF Good, Local

\* One that uses results known in the last block, which it computes with if they
\* are values, or, being an address, uses them as they are.
LEMMA GoodUse ==
    ASSUME NEW f \in FunctionType, ListsExisting(f), f.blocks # <<>>,
           NEW instr, instr.opcode # "STORE", Plain(f, instr),
           instr.opcode = "ICMP" /\ instr.operands[1].kind = "INSTR" =>
             Uses(instr, instr.operands[1].id),
           Handled /\ instr.opcode = "LOAD" => IsAddress(f, instr.operands[1]),
           \A i : Handled /\ Uses(instr, i) => Lists(f, LastBlock(f), i),
           \A i : Simple /\ Computes(instr) /\ Uses(instr, i) => Scalar(f, i),
           \A i : Named /\ Uses(instr, i) => HasResult(f, i)
    PROVE  Good(f, instr) /\ Local(f, LastBlock(f), instr)
<1>1. \A i : Handled /\ Uses(instr, i) => i \in InstrIDs(f)
  BY LastBlockIn DEF ListsExisting
<1> QED
  BY <1>1 DEF Good, Local

\* _evaluateAsRValue: the result is loaded from where it points to, or is there.
LEMMA EvaluateAsRValueEvaluates ==
    ASSUME IndInv, IndInv', ShapeInv, ValueInv, EvaluateAsRValue
    PROVE  Evaluates'
<1> DEFINE last == LastInstr(function)
           v == Value("INSTR", last)
           load == Instruction("LOAD", toLLVMType(evaluated), <<v>>)
           a == Head(todo)
<1>1. /\ At("rvalue") /\ Continue(<<>>) /\ evaluated' = evaluated
      /\ function' = IF Instr(function, last).type = "ptr" THEN EmitInstr(function, load)
                     ELSE function
  BY DEF EvaluateAsRValue
<1>2. /\ function \in FunctionType /\ function.blocks # <<>> /\ ListsExisting(function)
      /\ a.at = "rvalue" /\ Resumes(function, evaluated, a) /\ evaluated \in CType
  BY <1>1, ValueFacts DEF IndInv, TypeOK
<1>3. /\ v \in LLVMValueID /\ v.kind = "INSTR" /\ v.id = last
      /\ toLLVMType(evaluated) \in LLVMType
  BY <1>2, LastOperand, ToLLVMType
<1>4. /\ Handled => Ready(function)
      /\ Simple => Instr(function, last).type # "void" /\ evaluated \in Ints
      /\ Named => HasResult(function, last)
  BY <1>2 DEF Resumes, Reads
<1> HIDE DEF v
<1>5. /\ load \in LLVMInstruction /\ WellFormed(load) /\ load.opcode # "BR"
      /\ load.opcode = "LOAD" /\ load.type = toLLVMType(evaluated) /\ load.operands = <<v>>
  BY <1>3, UnaryWell, Makes
<1> HIDE DEF load, last
<1>6. \A i : Uses(load, i) => i = last
  BY <1>3, <1>5, UsesOne
<1>7. ASSUME Instr(function, last).type = "ptr"
      PROVE  Good(function, load) /\ Local(function, LastBlock(function), load)
  <2>1. \A i : Handled /\ Uses(load, i) => Lists(function, LastBlock(function), i)
    BY <1>4, <1>6 DEF Ready, last
  <2>2. ~Computes(load) /\ load.opcode \notin {"STORE", "ICMP"}
    BY <1>5 DEF Computes
  <2>3. evaluated \in Ints => toLLVMType(evaluated) # "ptr"
    BY DEF Ints, toLLVMType, LLVMTypeOf
  <2>4. Plain(function, load)
    BY <1>4, <1>5, <2>3, PlainWhen
  <2>5. load.operands[1] = v
    BY <1>5
  <2>6. Handled => IsAddress(function, load.operands[1])
    BY <1>3, <1>4, <1>7, <2>5 DEF IsAddress, Ready, last
  <2> QED
    BY <1>2, <1>4, <1>6, <2>1, <2>2, <2>4, <2>6, GoodUse
<1>8. \A b \in FrameType : Fits(a, b) => b.at \notin {"assign", "rvalue"}
  BY <1>2 DEF Fits, Yields
<1>9. evaluated \in Ints => toLLVMType(evaluated) \notin {"ptr", "void"}
  BY DEF Ints, toLLVMType, LLVMTypeOf
<1>12. Named => Simple
  BY DEF Named
<1>10. CASE Instr(function, last).type = "ptr"
  <2>1. \A b \in FrameType : Fits(a, b) => Suits(load, evaluated', b)
    BY <1>1, <1>4, <1>5, <1>8, <1>9, <1>12 DEF Suits, LLVM!HasDest
  <2>2. function' = EmitInstr(function, load)
    BY <1>1, <1>10
  <2> HIDE DEF a
  <2> QED
    BY <1>1, <1>5, <1>7, <1>10, <2>1, <2>2, EmitsAndReturns DEF a
<1>11. CASE Instr(function, last).type # "ptr"
  <2>1. UNCHANGED function
    BY <1>1, <1>11
  <2>2. Handled => last \in InstrIDs(function)
    BY <1>4 DEF Ready, last
  <2>3. Simple => Scalar(function, last)
    BY <1>4, <1>11, <2>2 DEF Scalar, Simple
  <2>4. ASSUME NEW b \in FrameType, Fits(a, b) PROVE Resumes(function, evaluated, b)
    BY <1>4, <1>8, <2>3, <2>4 DEF Resumes, last
  <2>5. \A b \in FrameType : Fits(a, b) => Resumes(function', evaluated', b)
    BY <1>1, <2>1, <2>4
  <2> QED
    BY <1>1, <2>1, <2>5, StandsStill, Returns
<1> QED
  BY <1>10, <1>11

\* visit(PrimaryExpression): the sum of two constants.
LEMMA PrimaryExpressionEvaluates ==
    ASSUME IndInv, IndInv', ShapeInv, ValueInv, NEW c \in Literals, PrimaryExpression(c)
    PROVE  Evaluates'
<1> DEFINE f == [function EXCEPT !.consts = Append(@, c)]
           v == Value("CONST", Len(function.consts))
           w == Value("CONST", 0)
           instr == Instruction("ADD", "i32", <<v, w>>)
<1>1. /\ At("expr") /\ Continue(<<>>) /\ evaluated' = "int"
      /\ function' = EmitInstr(f, instr)
  BY DEF PrimaryExpression
<1>2. /\ Well(function) /\ AllFine(function) /\ function \in FunctionType
      /\ Head(todo).at = "expr" /\ Sound(function, gs) /\ Len(gs) \in Nat
  BY <1>1, ValueFacts, InFunctionFacts
<1>3. /\ f \in FunctionType /\ f.instructions = function.instructions
      /\ f.blocks = function.blocks /\ v \in LLVMValueID
  BY <1>2, PushConstant, FunctionFields DEF Grows, Sound, FunctionType, LLVMFunction
<1>4. Runs(function, f) /\ InstrIDs(f) = InstrIDs(function)
  BY <1>2, <1>3, SameCode DEF InstrIDs, LastInstr
<1> HIDE DEF f
<1>5. Well(f) /\ Straight(function, f) /\ f \in FunctionType /\ f.blocks # <<>>
  BY <1>4 DEF Runs, Well
<1>6. AllFine(f)
  BY <1>2, <1>4, <1>5, StraightGrown, PatchedFine, WellFacts
<1>7. /\ v.kind = "CONST" /\ w \in LLVMValueID /\ w.kind = "CONST"
      /\ "i32" \in LLVMType /\ "ADD" \in LLVM!Operation
  BY DEF Value, LLVMValueID, LLVMValueKind, LLVMType, LLVM!Operation
<1> HIDE DEF v, w
<1>8. /\ instr \in LLVMInstruction /\ WellFormed(instr) /\ instr.opcode # "BR"
      /\ instr.opcode = "ADD" /\ instr.type = "i32" /\ instr.operands = <<v, w>>
  BY <1>3, <1>7, PairWell, Makes
<1> HIDE DEF instr
<1>9. Good(f, instr) /\ Local(f, LastBlock(f), instr)
  BY <1>7, <1>8, UsesPair, GoodUseless, PlainWhen
<1>10. /\ AllFine(function') /\ Ready(function')
       /\ Runs(f, function') /\ Instr(function', LastInstr(function')) = instr
  BY <1>1, <1>5, <1>6, <1>8, <1>9, EmitFine, EmitRuns, EmitFacts
<1>11. Straight(function, function')
  BY <1>4, <1>10, RunsTransitive DEF Runs
<1>12. ASSUME NEW b \in FrameType, Fits(Head(todo), b) PROVE Resumes(function', evaluated', b)
  <2>1. b.at # "assign" /\ b.at \notin ReadsValue /\ evaluated' \in Ints
    BY <1>1, <1>2, <1>12 DEF Fits, Ints
  <2>2. Suits(instr, evaluated', b)
    BY <1>8, <2>1 DEF Suits, LLVM!HasDest
  <2> QED
    BY <1>10, <2>2, Delivered
<1> QED
  BY <1>1, <1>10, <1>11, <1>12, Returns

\* visit(IdentifierExpression): the address of the variable.
LEMMA IdentifierExpressionEvaluates ==
    ASSUME IndInv, IndInv', ShapeInv, ValueInv, NEW n, IdentifierExpression(n)
    PROVE  Evaluates'
<1> DEFINE v == ResolveIdentifier(n)
           w == Value("CONST", 0)
           instr == Instruction("ADD", "ptr", <<v, w>>)
<1>1. /\ At("lvalue") \/ At("expr")
      /\ HasOrd(table, n) /\ Resolvable(n) /\ Continue(<<>>)
      /\ evaluated' = GetOrd(table, n).type
      /\ function' = EmitInstr(function, instr)
  BY DEF IdentifierExpression, EmitAddress
<1>2. PICK place \in {"lvalue", "expr"} : At(place)
  BY <1>1
<1>3. InFunction /\ InAllocas /\ Head(todo).at = place
  BY <1>2, ValueFacts
<1>4. /\ v \in LLVMValueID /\ v.kind \in {"GLOBAL", "INSTR"}
      /\ v.kind = "INSTR" =>
           /\ v.id \in InstrIDs(function) /\ Instr(function, v.id).opcode = "ALLOCA"
           /\ HasResult(function, v.id)
  BY <1>1, <1>3, ResolvedAddress
<1>5. /\ w \in LLVMValueID /\ w.kind = "CONST" /\ "ptr" \in LLVMType
      /\ "ADD" \in LLVM!Operation /\ "ADD" \notin {"ICMP", "STORE"}
  BY DEF Value, LLVMValueID, LLVMValueKind, LLVMType, LLVM!Operation
<1> HIDE DEF v, w
<1>6. /\ instr \in LLVMInstruction /\ WellFormed(instr) /\ instr.opcode # "BR"
      /\ instr.opcode = "ADD" /\ instr.type = "ptr" /\ instr.operands = <<v, w>>
  BY <1>4, <1>5, PairWell, Makes
<1> HIDE DEF instr
<1>7. \A i : Uses(instr, i) =>
        /\ i \in InstrIDs(function) /\ Instr(function, i).opcode = "ALLOCA"
        /\ HasResult(function, i)
  BY <1>4, <1>5, <1>6, UsesPair
<1>8. Good(function, instr) /\ Local(function, LastBlock(function), instr)
  <2>1. IsVariable(function, v) /\ w = Value("CONST", 0)
    BY <1>4 DEF IsVariable, w
  <2> DEFINE operands == <<v, w>>
  <2>2. DOMAIN operands = {1, 2} /\ operands[1] = v /\ operands[2] = w
    OBVIOUS
  <2>3. instr.operands = operands
    BY <1>6
  <2> HIDE DEF operands
  <2>4. Plain(function, instr)
    BY <1>6, <2>1, <2>2, <2>3 DEF Plain
  <2> QED
    BY <1>6, <1>7, <2>4 DEF Good, Local, Computes
<1>9. ASSUME NEW b \in FrameType, Fits(Head(todo), b) PROVE Suits(instr, evaluated', b)
  <2>1. b.at \notin ReadsValue
    BY <1>3, <1>9 DEF Fits
  <2>2. Simple => evaluated' \in Ints
    BY <1>1, DeclaredType DEF ValueInv, Simple
  <2> QED
    BY <1>6, <2>1, <2>2 DEF Suits, LLVM!HasDest
<1> QED
  BY <1>1, <1>2, <1>6, <1>8, <1>9, EmitsAndReturns

\* The type an integer expression is promoted to.
LEMMA PromotedInts ==
    ASSUME NEW lhs \in Ints, NEW rhs \in Ints
    PROVE  PromotedType(lhs, rhs) \in Ints
BY DEF PromotedType

\* A binary operator is applied to two values.
LEMMA FinishBinaryEvaluates ==
    ASSUME IndInv, IndInv', ShapeInv, ValueInv, FinishBinary
    PROVE  Evaluates'
<1> DEFINE a == Head(todo)
           lhs == LastInstr(function)
           rhs == a.ids[1]
           v == Value("INSTR", lhs)
           w == Value("INSTR", rhs)
           instr == BinaryInstr(a.arg, lhs, rhs, a.type)
<1>1. /\ At("binary") /\ Continue(<<>>) /\ function' = EmitInstr(function, instr)
      /\ evaluated' = IF a.arg \in EqualityOperator THEN "int"
                      ELSE PromotedType(evaluated, a.type)
  BY DEF FinishBinary
<1>2. /\ function \in FunctionType /\ function.blocks # <<>> /\ ListsExisting(function)
      /\ a \in FrameType /\ a.at = "binary"
      /\ Resumes(function, evaluated, a) /\ Saves(function, a)
  BY <1>1, ValueFacts
<1>3. a.arg \in BinaryOperator /\ rhs \in NPos .. LastInstr(function)
  BY <1>1, <1>2, AtFacts DEF FrameOK
<1>4. lhs \in Nat \cup {NPos} /\ rhs \in Nat \cup {NPos} /\ a.type \in CType
  BY <1>2, <1>3, LastOperand DEF NPos, FrameType
<1>5. /\ v \in LLVMValueID /\ v.kind = "INSTR" /\ v.id = lhs
      /\ w \in LLVMValueID /\ w.kind = "INSTR" /\ w.id = rhs
  BY <1>4, InstrOperand
<1>6. instr \in LLVMInstruction /\ instr.operands = <<v, w>>
  BY <1>3, <1>4, <1>5, BinaryInstrType
<1>7. /\ instr.opcode \in LLVM!Operation \ {"STORE"}
      /\ a.arg \in EqualityOperator => instr.type = "i1"
      /\ a.arg \notin EqualityOperator => instr.type = toLLVMType(a.type)
  BY <1>3, BinaryOpcode DEF LLVM!Operation
<1>8. /\ Handled => Lists(function, LastBlock(function), lhs)
                    /\ Lists(function, LastBlock(function), rhs)
      /\ Simple => /\ Scalar(function, lhs) /\ Scalar(function, rhs)
                   /\ evaluated \in Ints /\ a.type \in Ints
      /\ Named => Simple /\ HasResult(function, lhs) /\ HasResult(function, rhs)
  BY <1>2 DEF Resumes, Saves, Ready, Reads, ReadsValue, Named
<1> HIDE DEF v, w, instr, lhs, rhs
<1>9. WellFormed(instr) /\ instr.opcode # "BR"
  BY <1>5, <1>6, <1>7, BinaryWell
<1>10. /\ instr.operands[1] = v
       /\ \A i : Uses(instr, i) => i = lhs \/ i = rhs
  BY <1>5, <1>6, UsesPair
<1>11. Uses(instr, v.id)
  <2> DEFINE operands == <<v, w>>
  <2>1. 1 \in DOMAIN operands /\ operands[1] = v /\ instr.operands = operands
    BY <1>6
  <2> HIDE DEF operands
  <2> QED
    BY <1>5, <2>1 DEF Uses
<1>12. Good(function, instr) /\ Local(function, LastBlock(function), instr)
  <2>1. \A i : Handled /\ Uses(instr, i) => Lists(function, LastBlock(function), i)
    BY <1>8, <1>10
  <2>2. \A i : Simple /\ Computes(instr) /\ Uses(instr, i) => Scalar(function, i)
    BY <1>8, <1>10
  <2>3. instr.opcode \notin {"STORE", "RET", "LOAD"}
    BY <1>7 DEF LLVM!Operation
  <2>4. a.type \in Ints => toLLVMType(a.type) # "ptr"
    BY DEF Ints, toLLVMType, LLVMTypeOf
  <2>5. Plain(function, instr)
    BY <1>7, <1>8, <2>3, <2>4, PlainWhen
  <2> QED
    BY <1>2, <1>8, <1>10, <1>11, <2>1, <2>2, <2>3, <2>5, GoodUse
<1>13. ASSUME NEW b \in FrameType, Fits(a, b) PROVE Suits(instr, evaluated', b)
  <2>1. b.at # "assign" /\ b.at \notin ReadsValue
    BY <1>2, <1>13 DEF Fits
  <2>2. a.type \in Ints => toLLVMType(a.type) # "void"
    BY DEF Ints, toLLVMType, LLVMTypeOf
  <2>3. Simple => instr.type # "void"
    BY <1>7, <1>8, <2>2
  <2>4. Simple => evaluated' \in Ints
    BY <1>1, <1>8, PromotedInts DEF Ints
  <2>5. Named => LLVM!HasDest(instr)
    BY <1>7, <1>8, <2>3 DEF LLVM!HasDest, LLVM!Operation
  <2> QED
    BY <2>1, <2>3, <2>4, <2>5 DEF Suits
<1> HIDE DEF a
<1> QED
  BY <1>1, <1>6, <1>9, <1>12, <1>13, EmitsAndReturns DEF a

\* A result is stored to an address.
LEMMA GoodStore ==
    ASSUME NEW f \in FunctionType, ListsExisting(f), f.blocks # <<>>,
           NEW v, v.kind = "INSTR", NEW w, IsAddress(f, w),
           NEW instr, instr.opcode = "STORE", instr.type = "void", instr.operands = <<v, w>>,
           Handled => Lists(f, LastBlock(f), v.id),
           Handled /\ NoPointers /\ w.kind = "INSTR" =>
               Instr(f, w.id).opcode = "ALLOCA" \/ Lists(f, LastBlock(f), w.id),
           Named => HasResult(f, v.id) /\ (w.kind = "INSTR" => HasResult(f, w.id))
    PROVE  Good(f, instr) /\ Local(f, LastBlock(f), instr)
<1>1. /\ instr.operands[1] = v /\ instr.operands[2] = w
      /\ \A i : Uses(instr, i) =>
           (v.kind = "INSTR" /\ v.id = i) \/ (w.kind = "INSTR" /\ w.id = i)
  BY UsesPair
<1>2. Handled => v.id \in InstrIDs(f)
  BY LastBlockIn DEF ListsExisting
<1>3. w.kind = "INSTR" => w.id \in InstrIDs(f)
  BY DEF IsAddress
<1>4. ~Computes(instr) /\ Plain(f, instr)
  BY PlainWhen DEF Computes
<1>5. Good(f, instr)
  BY <1>1, <1>2, <1>3, <1>4 DEF Good
<1>6. Local(f, LastBlock(f), instr)
  BY <1>1 DEF Local
<1> QED
  BY <1>5, <1>6

\* The tail of visit(AssignmentExpression), given an address and a value.
LEMMA AssignFine ==
    ASSUME NEW f, Well(f), AllFine(f), NEW op, NEW lhs \in InstrIDs(f),
           Instr(f, lhs).type = "ptr", NEW rhs \in NPos .. LastInstr(f),
           Handled => Lists(f, LastBlock(f), lhs) /\ Lists(f, LastBlock(f), rhs),
           Simple => Scalar(f, rhs),
           Named => HasResult(f, lhs) /\ HasResult(f, rhs),
           NEW g, g = Assign(f, op, lhs, rhs)
    PROVE  AllFine(g) /\ Ready(g)
<1> DEFINE v == Value("INSTR", lhs)
           w == Value("INSTR", rhs)
           type == IF rhs = NPos THEN "void" ELSE Instr(f, rhs).type
           load == Instruction("LOAD", type, <<v>>)
           loaded == EmitInstr(f, load)
           last == Value("INSTR", LastInstr(loaded))
           operation == Instruction(CompoundOpcode(op), type, <<last, w>>)
           result == EmitInstr(loaded, operation)
           store == Instruction("STORE", "void", <<w, v>>)
           computed == IF op = "=" THEN f ELSE result
<1>1. /\ f \in FunctionType /\ f.blocks # <<>> /\ ListsExisting(f)
      /\ lhs \in Nat \cup {NPos} /\ rhs \in Nat \cup {NPos}
      /\ LastBlock(f) \in BlockIDs(f)
  BY WellFacts, FunctionFields DEF LastInstr, NPos, InstrIDs
<1>2. /\ v \in LLVMValueID /\ v.kind = "INSTR" /\ v.id = lhs
      /\ w \in LLVMValueID /\ w.kind = "INSTR" /\ w.id = rhs
  BY <1>1, InstrOperand
<1>3. type \in LLVMType /\ (rhs \in InstrIDs(f) => type = Instr(f, rhs).type)
  <2>1. CASE rhs = NPos
    BY <2>1 DEF LLVMType, InstrIDs, NPos
  <2>2. CASE rhs # NPos
    <3>1. rhs \in InstrIDs(f)
      BY <2>2, <1>1 DEF InstrIDs, LastInstr, NPos
    <3> QED
      BY <2>2, <3>1, <1>1, InstrFields DEF LLVMInstruction
  <2> QED
    BY <2>1, <2>2
<1>4. g = EmitInstr(computed, store)
  BY DEF Assign
<1> HIDE DEF v, w, type
<1>5. /\ load \in LLVMInstruction /\ WellFormed(load) /\ load.opcode # "BR"
      /\ load.opcode = "LOAD" /\ load.type = type /\ load.operands = <<v>>
  BY <1>2, <1>3, UnaryWell, Makes
<1> HIDE DEF load
<1>6. Good(f, load) /\ Local(f, LastBlock(f), load)
  <2>1. \A i : Uses(load, i) => i = lhs
    BY <1>2, <1>5, UsesOne
  <2>2. ~Computes(load) /\ load.opcode \notin {"STORE", "ICMP"}
    BY <1>5 DEF Computes
  <2>3. Plain(f, load)
    BY <1>3, <1>5, PlainWhen DEF Scalar
  <2>4. load.operands[1] = v
    BY <1>5
  <2>5. IsAddress(f, load.operands[1])
    BY <1>2, <2>4 DEF IsAddress
  <2> QED
    BY <1>1, <2>1, <2>2, <2>3, <2>5, GoodUse
<1>7. /\ Well(loaded) /\ AllFine(loaded) /\ Ready(loaded) /\ Grown(f, loaded)
      /\ LastBlock(loaded) = LastBlock(f)
      /\ Instr(loaded, LastInstr(loaded)) = load
  BY <1>1, <1>5, <1>6, EmitFine, EmitRuns, EmitFacts DEF Runs
<1> HIDE DEF loaded
<1>8. /\ loaded \in FunctionType /\ loaded.blocks # <<>> /\ ListsExisting(loaded)
      /\ last \in LLVMValueID /\ last.kind = "INSTR" /\ last.id = LastInstr(loaded)
  BY <1>7, WellFacts, LastOperand
<1> HIDE DEF last
<1>9. /\ operation \in LLVMInstruction /\ WellFormed(operation) /\ operation.opcode # "BR"
      /\ operation.opcode \in LLVM!Operation \ {"ICMP", "STORE"}
      /\ operation.type = type /\ operation.operands = <<last, w>>
  BY <1>2, <1>3, <1>8, CompoundIsOperation, PairWell, Makes
<1> HIDE DEF operation
<1>10. Good(loaded, operation) /\ Local(loaded, LastBlock(loaded), operation)
  <2>1. \A i : Uses(operation, i) => i = LastInstr(loaded) \/ i = rhs
    BY <1>2, <1>8, <1>9, UsesPair
  <2>2. Handled => /\ Lists(loaded, LastBlock(loaded), LastInstr(loaded))
                   /\ Lists(loaded, LastBlock(loaded), rhs)
    BY <1>1, <1>7 DEF Ready, Grown
  <2>6. Named => HasResult(loaded, LastInstr(loaded)) /\ HasResult(loaded, rhs)
    <3>1. SUFFICES ASSUME Named
                   PROVE  HasResult(loaded, LastInstr(loaded)) /\ HasResult(loaded, rhs)
      OBVIOUS
    <3>2. rhs \in InstrIDs(f) /\ type \notin {"ptr", "void"} /\ HasResult(f, rhs)
      BY <1>3, <3>1 DEF Scalar, Named
    <3>3. /\ Instr(loaded, rhs).type = Instr(f, rhs).type
          /\ Instr(loaded, rhs).opcode = Instr(f, rhs).opcode
      BY <1>7, <3>2 DEF Grown, Later
    <3> QED
      BY <1>5, <1>7, <3>2, <3>3 DEF HasResult, LLVM!HasDest
  <2>3. Simple => Scalar(loaded, LastInstr(loaded)) /\ Scalar(loaded, rhs)
    <3>1. SUFFICES ASSUME Simple
                   PROVE  Scalar(loaded, LastInstr(loaded)) /\ Scalar(loaded, rhs)
      OBVIOUS
    <3>2. rhs \in InstrIDs(f) /\ Instr(f, rhs).type \notin {"ptr", "void"}
      BY <3>1 DEF Scalar
    <3>3. rhs \in InstrIDs(loaded) /\ Instr(loaded, rhs).type = Instr(f, rhs).type
      BY <1>7, <3>2 DEF Grown, Later
    <3> QED
      BY <1>3, <1>5, <1>7, <3>2, <3>3 DEF Scalar, Ready
  <2>4. operation.opcode \notin {"RET", "LOAD"}
    BY <1>9 DEF LLVM!Operation
  <2>5. Plain(loaded, operation)
    BY <1>3, <1>9, <2>4, PlainWhen DEF Scalar
  <2> QED
    BY <1>8, <1>9, <2>1, <2>2, <2>3, <2>4, <2>5, <2>6, GoodUse
<1>11. /\ Well(result) /\ AllFine(result) /\ Grown(f, result)
       /\ LastBlock(result) = LastBlock(f)
  BY <1>7, <1>8, <1>9, <1>10, EmitFine, EmitRuns, EmitFacts, GrownTransitive DEF Runs
<1> HIDE DEF result
<1>12. Grown(f, f)
  BY RunsReflexive, StraightGrown DEF Runs
<1>13. /\ Well(computed) /\ AllFine(computed) /\ Grown(f, computed)
       /\ LastBlock(computed) = LastBlock(f)
  BY <1>11, <1>12
<1> HIDE DEF computed
<1>14. "STORE" \in LLVM!Operation /\ "void" \in LLVMType
  BY DEF LLVM!Operation, LLVMType
<1>15. /\ store \in LLVMInstruction /\ WellFormed(store) /\ store.opcode # "BR"
       /\ store.opcode = "STORE" /\ store.type = "void" /\ store.operands = <<w, v>>
  BY <1>2, <1>14, PairWell, Makes
<1> HIDE DEF store
<1>16. Good(computed, store) /\ Local(computed, LastBlock(computed), store)
  <2>1. IsAddress(computed, v)
    BY <1>2, <1>13 DEF IsAddress, Grown, Later
  <2>2. Handled => /\ Lists(computed, LastBlock(computed), lhs)
                   /\ Lists(computed, LastBlock(computed), rhs)
    BY <1>1, <1>13 DEF Grown
  <2>3. Named => HasResult(computed, lhs) /\ HasResult(computed, rhs)
    <3>1. SUFFICES ASSUME Named PROVE HasResult(computed, lhs) /\ HasResult(computed, rhs)
      OBVIOUS
    <3>2. rhs \in InstrIDs(f)
      BY <3>1 DEF Scalar, Named
    <3> QED
      BY <1>13, <3>1, <3>2 DEF Grown, Later, HasResult, LLVM!HasDest
  <2> QED
    BY <1>2, <1>13, <1>15, <2>1, <2>2, <2>3, GoodStore, WellFacts
<1> QED
  BY <1>4, <1>13, <1>15, <1>16, EmitFine

\* visit(AssignmentExpression) stores to the address on its left side.
LEMMA FinishAssignmentEvaluates ==
    ASSUME IndInv, IndInv', ShapeInv, ValueInv, FinishAssignment
    PROVE  Evaluates'
<1> DEFINE a == Head(todo)
           lhs == LastInstr(function)
           rhs == a.ids[1]
<1>1. /\ At("assign") /\ Continue(<<>>)
      /\ function' = Assign(function, a.arg, lhs, rhs)
  BY DEF FinishAssignment
<1>2. /\ Well(function) /\ AllFine(function) /\ a \in FrameType /\ a.at = "assign"
      /\ Resumes(function, evaluated, a) /\ Saves(function, a)
  BY <1>1, ValueFacts
<1>3. rhs \in NPos .. LastInstr(function)
  BY <1>1, <1>2, AtFacts DEF FrameOK
<1>4. /\ lhs \in InstrIDs(function) /\ Instr(function, lhs).type = "ptr"
      /\ Handled => Lists(function, LastBlock(function), lhs)
                    /\ Lists(function, LastBlock(function), rhs)
      /\ Simple => Scalar(function, rhs)
      /\ Named => HasResult(function, lhs) /\ HasResult(function, rhs)
  BY <1>2 DEF Resumes, Saves, Ready, Reads
<1> HIDE DEF a, lhs, rhs
<1>5. AllFine(function') /\ Ready(function')
  BY <1>1, <1>2, <1>3, <1>4, AssignFine
<1>6. Straight(function, function')
  BY FinishAssignmentRuns DEF RunStep, Runs
<1>7. ASSUME NEW b \in FrameType, Fits(a, b) PROVE Resumes(function', evaluated', b)
  <2>1. b.at # "assign" /\ b.at \notin ReadsValue /\ (b.at = "rvalue" => ~Simple)
    BY <1>2, <1>7 DEF Fits, Yields, Simple
  <2>2. b.at \in Reads => ~Named
    BY <1>2, <1>7 DEF Fits, Delivers
  <2> QED
    BY <1>5, <2>1, <2>2 DEF Resumes
<1> QED
  BY <1>1, <1>5, <1>6, <1>7, Returns DEF a

\* A process that ends leaves everything as it is.
LEMMA StopEvaluates ==
    ASSUME ValueInv, InFunction, NEW how, Stop(how)
    PROVE  Evaluates'
BY DEF Stop, Evaluates, ValueInv, scopes, unit

\* The expression handlers.
LEMMA ExpressionsEvaluate ==
    ASSUME IndInv, IndInv', ShapeInv, ValueInv, Expressions
    PROVE  Evaluates'
<1>1. CASE EvaluateAsRValue
  BY <1>1, EvaluateAsRValueEvaluates
<1>2. CASE EvaluateAsRValueThrows \/ UntypedOperand \/ \E n \in Names : IdentifierThrows(n)
  BY <1>2, AtFacts, StopEvaluates DEF EvaluateAsRValueThrows, UntypedOperand, IdentifierThrows
<1>3. CASE \E two \in BOOLEAN : ListExpression(two)
  BY <1>3, ListExpressionEvaluates
<1>4. CASE Parentheses
  BY <1>4, ParenthesesEvaluates
<1>5. CASE \E c \in Literals : PrimaryExpression(c)
  BY <1>5, PrimaryExpressionEvaluates
<1>6. CASE \E n \in Names : IdentifierExpression(n)
  BY <1>6, IdentifierExpressionEvaluates
<1>7. CASE \E t \in {"int", "double"} : UnhandledExpression(t)
  BY <1>7, UnhandledEvaluates
<1>8. CASE \E op \in Operators \cap BinaryOperator : BinaryExpression(op)
  BY <1>8, BinaryExpressionEvaluates
<1>9. CASE BinaryLhs \/ FinishBinary
  BY <1>9, BinaryLhsEvaluates, FinishBinaryEvaluates
<1>10. CASE \E op \in Operators \cap AssignmentOperator : AssignmentExpression(op)
  BY <1>10, AssignmentExpressionEvaluates
<1>11. CASE AssignmentLhs \/ FinishAssignment
  BY <1>11, AssignmentLhsEvaluates, FinishAssignmentEvaluates
<1> QED
  BY <1>1, <1>2, <1>3, <1>4, <1>5, <1>6, <1>7, <1>8, <1>9, <1>10, <1>11 DEF Expressions

-----------------------------------------------------------------------------
(* Parameters and declarations *)

\* A function with the code of another is as fine.
LEMMA SameFine ==
    ASSUME NEW f, Well(f), AllFine(f), NEW g \in FunctionType,
           g.instructions = f.instructions, g.blocks = f.blocks
    PROVE  AllFine(g) /\ Well(g) /\ Straight(f, g)
<1>1. Runs(f, g) /\ InstrIDs(g) = InstrIDs(f)
  BY SameCode DEF InstrIDs, LastInstr
<1> QED
  BY <1>1, StraightGrown, PatchedFine, WellFacts DEF Runs

\* An alloca uses nothing.
LEMMA AllocaFine ==
    ASSUME NEW f, Well(f), AllFine(f), NEW type \in VarTypes,
           NEW g, g = EmitInstr(f, Alloca(type))
    PROVE  /\ AllFine(g) /\ Runs(f, g) /\ LastInstr(g) \in InstrIDs(g)
           /\ LastInstr(g) = Len(f.instructions)
           /\ IsAlloca(g, Len(f.instructions))
<1> DEFINE instr == Alloca(type)
<1>1. /\ instr \in LLVMInstruction /\ WellFormed(instr) /\ instr.opcode # "BR"
      /\ instr.opcode = "ALLOCA" /\ instr.operands = <<>> /\ g = EmitInstr(f, instr)
  BY AllocaWell DEF Alloca, Instruction
<1> HIDE DEF instr
<1>2. Good(f, instr) /\ Local(f, LastBlock(f), instr)
  <2>1. type \in Ints
    BY TypesAssumption DEF Ints
  <2>2. instr.type # "ptr"
    BY <2>1 DEF instr, Alloca, Instruction, Ints, toLLVMType, LLVMTypeOf
  <2> QED
    BY <1>1, <2>2, UsesNone, GoodUseless, PlainWhen
<1>3. instr.type # "void"
  <2>1. type \in Ints
    BY TypesAssumption DEF Ints
  <2> QED
    BY <2>1 DEF instr, Alloca, Instruction, Ints, toLLVMType, LLVMTypeOf
<1> QED
  BY <1>1, <1>2, <1>3, EmitFine, EmitRuns, EmitFacts, WellFacts DEF Ready, IsAlloca

\* A parameter is stored to its alloca; one with a pointer declarator has none.
LEMMA AddParameterFine ==
    ASSUME NEW f, Well(f), AllFine(f), NEW n \in Names,
           NoPointers => LastInstr(f) \in InstrIDs(f) /\ IsAlloca(f, LastInstr(f)),
           NEW g, g = AddParameter(f, n)
    PROVE  AllFine(g)
<1> DEFINE h == [f EXCEPT !.params = Append(@, n)]
           last == LastInstr(f)
           v == Value("PARAM", Len(f.params))
           w == Value("INSTR", last)
           store == Instruction("STORE", "void", <<v, w>>)
<1>1. f \in FunctionType /\ Append(f.params, n) \in Seq(Names) /\ Len(f.params) \in Nat
  BY FunctionFields DEF Well
<1>2. h \in FunctionType /\ h.instructions = f.instructions /\ h.blocks = f.blocks
  BY <1>1 DEF FunctionType, LLVMFunction
<1>3. v \in LLVMValueID /\ v.kind = "PARAM"
  BY <1>1 DEF Value, LLVMValueID, LLVMValueKind
<1>4. w \in LLVMValueID /\ w.kind = "INSTR" /\ w.id = last
  BY <1>1, LastOperand
<1>5. "STORE" \in LLVM!Operation /\ "void" \in LLVMType
  BY DEF LLVM!Operation, LLVMType
<1>6. g = EmitInstr(h, store)
  BY DEF AddParameter
<1> HIDE DEF h, v, w
<1>7. /\ store \in LLVMInstruction /\ WellFormed(store) /\ store.opcode # "BR"
      /\ store.opcode = "STORE" /\ store.type = "void" /\ store.operands = <<v, w>>
  BY <1>3, <1>4, <1>5, PairWell, Makes
<1> HIDE DEF store
<1>8. AllFine(h) /\ Well(h)
  BY <1>2, SameFine
<1>9. NoPointers => /\ last \in InstrIDs(h) /\ Instr(h, last).opcode = "ALLOCA"
                    /\ HasResult(h, last)
  BY <1>2 DEF InstrIDs, LastInstr, Instr, IsAlloca, HasResult, LLVM!HasDest
<1> HIDE DEF last
<1>10. /\ store.operands[1] = v /\ store.operands[2] = w
       /\ \A i : Uses(store, i) => i = last
  BY <1>3, <1>4, <1>7, UsesPair
<1>11. NoPointers => IsAddress(h, w)
  BY <1>4, <1>9 DEF IsAddress
<1>12. Good(h, store)
  <2>1. ~Computes(store) /\ Plain(h, store)
    BY <1>7, PlainWhen DEF Computes
  <2>2. Named => NoPointers
    BY DEF Named, Simple
  <2> QED
    BY <1>3, <1>7, <1>9, <1>10, <1>11, <2>1, <2>2 DEF Good
<1>13. Local(h, LastBlock(h), store)
  BY <1>9, <1>10 DEF Local
<1> QED
  BY <1>6, <1>7, <1>8, <1>12, <1>13, EmitFine

\* Declaring a parameter or a local variable.
LEMMA DeclaresLocal ==
    ASSUME IndInv, IndInv', ShapeInv, ValueInv, NEW n \in VarNames, NEW type \in VarTypes,
           ParameterIdentifier(n, type) \/ LocalIdentifier(n, type) \/ LocalInitialised(n, type)
    PROVE  Evaluates' /\ InAllocas' /\ Declares
<1> DEFINE g == EmitInstr(function, Alloca(type))
           m == Len(function.instructions)
<1>1. /\ \/ At("params") /\ function' = AddParameter(g, n) /\ UNCHANGED todo
         \/ At("decls") /\ function' = g
            /\ (UNCHANGED todo \/ todo' = <<Frame("init")>> \o todo)
      /\ DeclareLocal(n, type)
  BY DEF ParameterIdentifier, LocalIdentifier, LocalInitialised
<1>2. PICK place \in {"params", "decls"} : At(place)
  BY <1>1
<1>3. Well(function) /\ AllFine(function) /\ InFunction /\ InAllocas /\ n \in Names
  BY <1>2, ValueFacts DEF Names
<1>4. /\ AllFine(g) /\ Runs(function, g) /\ LastInstr(g) \in InstrIDs(g)
      /\ LastInstr(g) = m /\ IsAlloca(g, m)
  BY <1>3, AllocaFine
<1> HIDE DEF g, m
<1>5. /\ AllFine(function') /\ Later(function, function')
      /\ IsAlloca(function', m)
  <2>1. Well(g) /\ Grown(function, g)
    BY <1>4, StraightGrown DEF Runs
  <2>2. CASE function' = g
    BY <1>4, <2>1, <2>2 DEF Grown
  <2>3. CASE function' = AddParameter(g, n)
    <3>1. Grown(g, function')
      BY <1>3, <2>1, <2>3, AddParameterRuns, StraightGrown DEF Runs
    <3>2. AllFine(function')
      BY <1>3, <1>4, <2>1, <2>3, AddParameterFine
    <3>3. Grown(function, function')
      BY <2>1, <3>1, GrownTransitive
    <3>4. /\ Instr(function', m).opcode = Instr(g, m).opcode
          /\ Instr(function', m).type = Instr(g, m).type
      BY <1>4, <3>1 DEF Grown, Later
    <3> QED
      BY <1>4, <3>2, <3>3, <3>4 DEF Grown, IsAlloca
  <2> QED
    BY <1>1, <2>2, <2>3
<1>6. InAllocas'
  BY <1>1, <1>3, <1>5, AllocasDeclared DEF m
<1>7. Declares
  BY <1>1, <1>3, LocalDeclares
<1>8. place \notin Middle \cup Reads /\ place \notin Inner
  BY DEF Middle, Reads, Inner
<1>9. CASE UNCHANGED todo
  BY <1>2, <1>5, <1>6, <1>7, <1>8, <1>9, Stays
<1>10. CASE todo' = <<Frame("init")>> \o todo
  <2>1. Frame("init") \in FrameType /\ Frame("init").at = "init"
    BY PlainFrame DEF Frame, Resume
  <2>2. Frame("init").at \notin Reads
    BY <2>1 DEF Reads
  <2> QED
    BY <1>2, <1>5, <1>6, <1>7, <1>8, <1>10, <2>1, <2>2, Enters
<1> QED
  BY <1>1, <1>9, <1>10

\* A declarator without a handler declares a name and emits nothing; as a
\* parameter it is stored to whatever is there.
LEMMA PointerEvaluates ==
    ASSUME IndInv, IndInv', ShapeInv, ValueInv, NEW n \in PtrNames,
           ParameterPointer(n) \/ LocalPointer(n) \/ PointerInitialised(n)
    PROVE  Evaluates'
<1>1. /\ \/ /\ At("params") /\ function' = AddParameter(function, n) /\ ~NoPointers
            /\ UNCHANGED todo
         \/ /\ At("decls") /\ UNCHANGED function
            /\ UNCHANGED todo \/ todo' = <<Frame("init")>> \o todo
  BY DEF ParameterPointer, LocalPointer, PointerInitialised, NoPointers
<1>2. PICK place \in {"params", "decls"} : At(place)
  BY <1>1
<1>3. Well(function) /\ AllFine(function) /\ n \in Names
  BY <1>2, ValueFacts DEF Names
<1>4. AllFine(function')
  BY <1>1, <1>3, AddParameterFine
<1>5. place \notin Middle \cup Reads /\ place \notin Inner
  BY DEF Middle, Reads, Inner
<1>6. CASE UNCHANGED todo
  BY <1>2, <1>4, <1>5, <1>6, Stays
<1>7. CASE todo' = <<Frame("init")>> \o todo
  <2>1. Frame("init") \in FrameType /\ Frame("init").at = "init"
    BY PlainFrame DEF Frame, Resume
  <2>2. Frame("init").at \notin Reads
    BY <2>1 DEF Reads
  <2> QED
    BY <1>2, <1>4, <1>5, <1>7, <2>1, <2>2, Enters
<1> QED
  BY <1>1, <1>6, <1>7

\* A function declared in a block.
LEMMA LocalPrototypeEvaluates ==
    ASSUME IndInv, IndInv', ShapeInv, ValueInv, NEW g \in FuncNames, LocalPrototype(g)
    PROVE  Evaluates'
<1>1. /\ At("decls") /\ todo' = <<Frame("params")>> \o todo
      /\ function' = [function EXCEPT !.name = g]
  BY DEF LocalPrototype
<1>2. Well(function) /\ AllFine(function) /\ function \in FunctionType
  BY <1>1, ValueFacts
<1>3. /\ function' \in FunctionType /\ function'.instructions = function.instructions
      /\ function'.blocks = function.blocks
  BY <1>1, <1>2 DEF FunctionType, LLVMFunction
<1>4. AllFine(function')
  BY <1>2, <1>3, SameFine
<1>5. Frame("params") \in FrameType /\ Frame("params").at = "params"
  BY PlainFrame DEF Frame, Resume
<1>6. "decls" \notin Inner /\ "params" \notin Reads
  BY DEF Middle, Reads, Inner
<1> QED
  BY <1>1, <1>4, <1>5, <1>6, Enters

\* visit(Initializer) with an expression: it is to be stored.
LEMMA InitializerExpressionEvaluates ==
    ASSUME IndInv, ShapeInv, ValueInv, InitializerExpression
    PROVE  Evaluates'
<1> DEFINE a == Head(todo)
           x == Child("expr", "unloaded")
           y == Frame("store")
           frames == <<x, y>>
<1>1. At("init") /\ UNCHANGED function /\ Continue(frames)
  BY DEF InitializerExpression
<1>2. a.at = "init" /\ "unloaded" \in Position
  BY <1>1, AtFacts DEF Position
<1>3. x \in FrameType /\ y \in FrameType
  BY <1>2, ExpressionFrame, PlainFrame
<1>4. x.at = "expr" /\ y.at = "store" /\ x.arg = "unloaded"
  BY DEF Frame, Child, Resume
<1>5. \A j \in DOMAIN frames : frames[j] \in {x, y}
  OBVIOUS
<1> HIDE DEF x, y, a
<1>6. x.at \in Middle /\ y.at \in Middle /\ x.at \notin Reads
  BY <1>4 DEF Middle, Reads
<1>7. Fits(x, y)
  BY <1>4 DEF Fits, Middle, ReadsValue, Reads, Delivers
<1>8. Replaces(a, y)
  BY <1>2, <1>6, ReplacesWhen DEF Yields, Delivers
<1>9. Opens(a, frames)
  BY <1>3, <1>6, <1>7, <1>8, OpensTwo
<1> HIDE DEF frames
<1>10. \A j \in DOMAIN frames : frames[j].at \notin {"binary", "assign"}
  BY <1>4, <1>5
<1> QED
  BY <1>1, <1>9, <1>10, OpensPlain DEF a

\* ... with a list: each initializer stores, and then the list does.
LEMMA InitializerListEvaluates ==
    ASSUME IndInv, ShapeInv, ValueInv, NEW two \in BOOLEAN, InitializerList(two)
    PROVE  Evaluates'
<1> DEFINE a == Head(todo)
           x == Frame("init")
           y == Frame("store")
           pair == <<x, y>>
           triple == <<x, x, y>>
<1>1. At("init") /\ UNCHANGED function /\ "braces" \in Fragment
  BY DEF InitializerList
<1>2. two => Continue(<<x>> \o <<x, y>>)
  BY DEF InitializerList
<1>3. ~two => Continue(<<>> \o <<x, y>>)
  BY DEF InitializerList
<1>4. a.at = "init"
  BY <1>1, AtFacts
<1>5. x \in FrameType /\ y \in FrameType
  BY PlainFrame
<1>6. x.at = "init" /\ y.at = "store"
  BY DEF Frame, Resume
<1>7. \A j \in DOMAIN pair : pair[j] = x \/ pair[j] = y
  OBVIOUS
<1>8. \A j \in DOMAIN triple : triple[j] = x \/ triple[j] = y
  OBVIOUS
<1> HIDE DEF x, y, a
<1>9. <<x>> \o <<x, y>> = triple
  BY <1>5, TripleOfFrames
<1>10. <<>> \o <<x, y>> = pair
  BY <1>5
<1>11. x.at \in Middle /\ y.at \in Middle /\ x.at \notin Reads
  BY <1>6 DEF Middle, Reads
<1>12. Fits(x, x) /\ Fits(x, y)
  BY <1>1, <1>6 DEF Fits, Middle, ReadsValue, Named
<1>13. Replaces(a, y)
  BY <1>1, <1>4, <1>11, ReplacesWhen DEF Yields, Delivers, Named
<1>14. Opens(a, pair) /\ Opens(a, triple)
  BY <1>5, <1>11, <1>12, <1>13, OpensTwo, OpensThree
<1> HIDE DEF pair, triple
<1>15. x.at \notin {"binary", "assign"} /\ y.at \notin {"binary", "assign"}
  BY <1>6
<1>16. CASE two
  BY <1>1, <1>2, <1>8, <1>9, <1>14, <1>15, <1>16, OpensPlain DEF a
<1>17. CASE ~two
  BY <1>1, <1>3, <1>7, <1>10, <1>14, <1>15, <1>17, OpensPlain DEF a
<1> QED
  BY <1>16, <1>17

\* The last instruction is stored to the variable that is initialised.
LEMMA InitializerStoreEvaluates ==
    ASSUME IndInv, IndInv', ShapeInv, ValueInv, InitializerStore
    PROVE  Evaluates'
<1> DEFINE v == Value("INSTR", LastInstr(function))
           w == ResolveIdentifier(initialising)
           store == Instruction("STORE", "void", <<v, w>>)
           a == Head(todo)
<1>1. /\ At("store") /\ Resolvable(initialising) /\ Continue(<<>>)
      /\ function' = EmitInstr(function, store)
  BY DEF InitializerStore
<1>2. /\ InFunction /\ function \in FunctionType /\ function.blocks # <<>>
      /\ ListsExisting(function) /\ InAllocas
      /\ a.at = "store" /\ Resumes(function, evaluated, a)
  BY <1>1, ValueFacts
<1>3. v \in LLVMValueID /\ v.kind = "INSTR" /\ v.id = LastInstr(function)
  BY <1>2, LastOperand
<1>4. /\ w \in LLVMValueID /\ w.kind \in {"GLOBAL", "INSTR"} /\ IsAddress(function, w)
      /\ w.kind = "INSTR" => Instr(function, w.id).opcode = "ALLOCA" /\ HasResult(function, w.id)
  BY <1>1, <1>2, ResolvedAddress
<1>5. "STORE" \in LLVM!Operation /\ "void" \in LLVMType
  BY DEF LLVM!Operation, LLVMType
<1> HIDE DEF v, w
<1>6. /\ store \in LLVMInstruction /\ WellFormed(store) /\ store.opcode # "BR"
      /\ store.opcode = "STORE" /\ store.type = "void" /\ store.operands = <<v, w>>
  BY <1>3, <1>4, <1>5, PairWell, Makes
<1> HIDE DEF store
<1>7. /\ Handled => Lists(function, LastBlock(function), LastInstr(function))
      /\ Named => HasResult(function, LastInstr(function))
  BY <1>2 DEF Resumes, Ready, Reads
<1>8. Good(function, store) /\ Local(function, LastBlock(function), store)
  BY <1>2, <1>3, <1>4, <1>6, <1>7, GoodStore
<1>9. \A b \in FrameType : Fits(a, b) => Suits(store, evaluated', b)
  BY <1>2 DEF Fits, Suits, Yields, Delivers
<1> HIDE DEF a
<1> QED
  BY <1>1, <1>6, <1>8, <1>9, EmitsAndReturns DEF a

\* A handler outside of expressions returns to another one.
LEMMA OuterReturns ==
    ASSUME IndInv, ShapeInv, ValueInv, NEW place, At(place), place \notin Middle,
           Continue(<<>>), AllFine(function')
    PROVE  Evaluates'
<1>1. Head(todo).at = place
  BY AtFacts
<1>2. ASSUME NEW b \in FrameType, Fits(Head(todo), b) PROVE Resumes(function', evaluated', b)
  <2>1. b.at \notin Inner
    BY <1>1, <1>2 DEF Fits
  <2>2. Reads \cup ReadsValue \cup {"assign", "rvalue"} \subseteq Inner
    BY DEF Reads, ReadsValue, Inner, Middle
  <2> QED
    BY <2>1, <2>2 DEF Resumes
<1> QED
  BY <1>2, Returns

\* The end of a list of parameters, declarations or statements.
LEMMA EndListEvaluates ==
    ASSUME IndInv, ShapeInv, ValueInv, EndList
    PROVE  Evaluates'
<1>1. PICK place \in {"params", "decls", "stmts"} : At(place)
  BY DEF EndList
<1>2. Continue(<<>>) /\ UNCHANGED function /\ place \notin Middle
  BY DEF EndList, Middle
<1> QED
  BY <1>1, <1>2, StandsStill, OuterReturns

\* The declaration handlers.
LEMMA DeclarationsEvaluate ==
    ASSUME IndInv, IndInv', ShapeInv, ValueInv, Declarations
    PROVE  Evaluates'
<1>1. CASE \E n \in VarNames, t \in VarTypes :
             ParameterIdentifier(n, t) \/ LocalIdentifier(n, t) \/ LocalInitialised(n, t)
  BY <1>1, DeclaresLocal
<1>2. CASE \E n \in PtrNames : ParameterPointer(n) \/ LocalPointer(n) \/ PointerInitialised(n)
  BY <1>2, PointerEvaluates
<1>3. CASE ParameterAbstract \/ InitializerThrows
  BY <1>3, AtFacts, StopEvaluates DEF ParameterAbstract, InitializerThrows
<1>4. CASE \E g \in FuncNames : LocalPrototype(g)
  BY <1>4, LocalPrototypeEvaluates
<1>5. CASE InitializerExpression \/ InitializerStore \/ EndList
  BY <1>5, InitializerExpressionEvaluates, InitializerStoreEvaluates, EndListEvaluates
<1>6. CASE \E two \in BOOLEAN : InitializerList(two)
  BY <1>6, InitializerListEvaluates
<1> QED
  BY <1>1, <1>2, <1>3, <1>4, <1>5, <1>6 DEF Declarations

-----------------------------------------------------------------------------
(* Statements *)

\* Statements that emit nothing and hold nothing.
LEMMA PlainStatementEvaluates ==
    ASSUME IndInv, ShapeInv, ValueInv,
           NextStatement \/ CompoundStatement \/ EndCompound \/ ExpressionStatement
           \/ UnhandledStatement
    PROVE  Evaluates'
<1>1. "stmt" \notin Middle /\ "endScope" \notin Middle /\ "stmts" \notin Inner
      /\ "stmt" \notin Reads /\ "decls" \notin Inner /\ "list" \notin Reads
      /\ "decls" \notin Reads /\ "endScope" \notin Inner
  BY DEF Inner, Middle, Reads
<1>2. CASE NextStatement
  <2>1. At("stmts") /\ todo' = <<Frame("stmt")>> \o todo /\ UNCHANGED function
    BY <1>2 DEF NextStatement
  <2>2. Frame("stmt") \in FrameType /\ Frame("stmt").at = "stmt"
    BY PlainFrame DEF Frame, Resume
  <2> QED
    BY <1>1, <2>1, <2>2, StandsStill, Enters
<1>3. CASE CompoundStatement
  <2> DEFINE x == Frame("decls")
             y == Frame("stmts")
             z == Frame("endScope")
             a == Head(todo)
             frames == <<x, y, z>>
  <2>1. At("stmt") /\ Continue(frames) /\ UNCHANGED function
    BY <1>3 DEF CompoundStatement
  <2>2. x \in FrameType /\ y \in FrameType /\ z \in FrameType
    BY PlainFrame
  <2>3. x.at = "decls" /\ y.at = "stmts" /\ z.at = "endScope"
    BY DEF Frame, Resume
  <2>4. a.at = "stmt"
    BY <2>1, AtFacts
  <2>5. \A j \in DOMAIN frames : frames[j] \in {x, y, z}
    OBVIOUS
  <2> HIDE DEF x, y, z, a
  <2>6. Fits(x, y) /\ Fits(y, z)
    BY <2>3 DEF Fits, Inner, Middle, ReadsValue, Reads
  <2>7. Opens(a, frames)
    BY <1>1, <2>2, <2>3, <2>4, <2>6, ReplacesWhen, OpensThree
  <2> HIDE DEF frames
  <2>8. \A j \in DOMAIN frames : frames[j].at \notin {"binary", "assign"}
    BY <2>3, <2>5
  <2> QED
    BY <2>1, <2>7, <2>8, OpensPlain DEF a
<1>4. CASE EndCompound \/ UnhandledStatement
  <2>1. PICK place \in {"endScope", "stmt"} : At(place)
    BY <1>4 DEF EndCompound, UnhandledStatement
  <2>2. Continue(<<>>) /\ UNCHANGED function
    BY <1>4 DEF EndCompound, UnhandledStatement
  <2> QED
    BY <1>1, <2>1, <2>2, StandsStill, OuterReturns
<1>5. CASE ExpressionStatement
  <2> DEFINE x == Child("list", "discarded")
             a == Head(todo)
             frames == <<x>>
  <2>1. At("stmt") /\ Continue(frames) /\ UNCHANGED function /\ "discarded" \in Position
    BY <1>5 DEF ExpressionStatement, Position
  <2>2. x \in FrameType /\ x.at = "list"
    BY <2>1, ExpressionFrame DEF Child, Resume
  <2>3. a.at = "stmt"
    BY <2>1, AtFacts
  <2>4. \A j \in DOMAIN frames : frames[j] = x
    OBVIOUS
  <2> HIDE DEF x, a
  <2>5. Opens(a, frames)
    BY <1>1, <2>2, <2>3, ReplacesWhen, OpensOne
  <2> HIDE DEF frames
  <2>6. \A j \in DOMAIN frames : frames[j].at \notin {"binary", "assign"}
    BY <2>2, <2>4
  <2> QED
    BY <2>1, <2>5, <2>6, OpensPlain DEF a
<1> QED
  BY <1>2, <1>3, <1>4, <1>5

\* visit(IfStatement) visits its condition first, visit(ReturnStatement) its
\* expression.
LEMMA ConditionEvaluates ==
    ASSUME IndInv, ShapeInv, ValueInv, IfStatement \/ ReturnExpression
    PROVE  Evaluates'
<1> DEFINE a == Head(todo)
<1>1. At("stmt") /\ UNCHANGED function
  BY DEF IfStatement, ReturnExpression
<1>2. a.at = "stmt" /\ a.at \notin Middle
  BY <1>1, AtFacts DEF Middle
<1>3. CASE IfStatement
  <2> DEFINE x == Child("list", "unloaded")
             y == Frame("ifThen")
             frames == <<x, y>>
  <2>1. Continue(frames) /\ "unloaded" \in Position
    BY <1>3 DEF IfStatement, Position
  <2>2. x \in FrameType /\ y \in FrameType
    BY <2>1, ExpressionFrame, PlainFrame
  <2>3. x.at = "list" /\ y.at = "ifThen" /\ x.arg = "unloaded"
    BY DEF Frame, Child, Resume
  <2>4. \A j \in DOMAIN frames : frames[j] \in {x, y}
    OBVIOUS
  <2> HIDE DEF x, y, a
  <2>5. Fits(x, y) /\ x.at \notin Reads
    BY <2>3 DEF Fits, Inner, Middle, ReadsValue, Reads, Delivers
  <2>6. Opens(a, frames)
    BY <1>2, <2>2, <2>5, ReplacesWhen, OpensTwo
  <2> HIDE DEF frames
  <2>7. \A j \in DOMAIN frames : frames[j].at \notin {"binary", "assign"}
    BY <2>3, <2>4
  <2> QED
    BY <1>1, <2>1, <2>6, <2>7, OpensPlain DEF a
<1>4. CASE ReturnExpression
  <2> DEFINE x == Child("list", "rvalue")
             y == Frame("rvalue")
             z == Frame("return")
             frames == <<x, y, z>>
  <2>1. Continue(frames) /\ "rvalue" \in Position
    BY <1>4 DEF ReturnExpression, Position
  <2>2. x \in FrameType /\ y \in FrameType /\ z \in FrameType
    BY <2>1, ExpressionFrame, PlainFrame
  <2>3. x.at = "list" /\ y.at = "rvalue" /\ z.at = "return" /\ x.arg = "rvalue"
    BY DEF Frame, Child, Resume
  <2>4. \A j \in DOMAIN frames : frames[j] \in {x, y, z}
    OBVIOUS
  <2> HIDE DEF x, y, z, a
  <2>5. Fits(x, y) /\ Fits(y, z) /\ x.at \notin Reads /\ x.at \in Middle
    BY <2>3 DEF Fits, Inner, Middle, ReadsValue, Reads, Yields, Delivers
  <2>6. Opens(a, frames)
    BY <1>2, <2>2, <2>5, ReplacesWhen, OpensThree
  <2> HIDE DEF frames
  <2>7. \A j \in DOMAIN frames : frames[j].at \notin {"binary", "assign"}
    BY <2>3, <2>4
  <2> QED
    BY <1>1, <2>1, <2>6, <2>7, OpensPlain DEF a
<1> QED
  BY <1>3, <1>4

\* The value of a function is the result of the last instruction.
LEMMA FinishReturnEvaluates ==
    ASSUME IndInv, IndInv', ShapeInv, ValueInv, FinishReturn
    PROVE  Evaluates'
<1> DEFINE last == LastInstr(function)
           v == Value("INSTR", last)
           ret == Instruction("RET", toLLVMType(evaluated), <<v>>)
<1>1. At("return") /\ Continue(<<>>) /\ function' = EmitInstr(function, ret)
  BY DEF FinishReturn
<1>2. /\ function \in FunctionType /\ function.blocks # <<>> /\ ListsExisting(function)
      /\ Well(function) /\ AllFine(function)
      /\ Head(todo).at = "return" /\ Resumes(function, evaluated, Head(todo))
      /\ evaluated \in CType
  BY <1>1, ValueFacts DEF IndInv, TypeOK
<1>3. v \in LLVMValueID /\ v.kind = "INSTR" /\ v.id = last /\ toLLVMType(evaluated) \in LLVMType
  BY <1>2, LastOperand, ToLLVMType
<1>4. /\ Handled => Lists(function, LastBlock(function), last)
      /\ Named => HasResult(function, last)
  BY <1>2 DEF Resumes, Reads, Ready
<1> HIDE DEF v
<1>5. /\ ret \in LLVMInstruction /\ ret.opcode = "RET" /\ ret.operands = <<v>>
      /\ ret.type = toLLVMType(evaluated)
  BY <1>3, UnaryWell, Makes
<1> HIDE DEF ret, last
<1>6. \A i : Uses(ret, i) => i = last
  BY <1>3, <1>5, UsesOne
<1>7. Good(function, ret) /\ Local(function, LastBlock(function), ret)
  <2>1. ~Computes(ret) /\ ret.opcode \notin {"STORE", "ICMP", "LOAD"}
    BY <1>5 DEF Computes
  <2>2. Simple => evaluated \in Ints
    BY <1>2 DEF Resumes, ReadsValue
  <2>3. evaluated \in Ints => toLLVMType(evaluated) # "ptr"
    BY DEF Ints, toLLVMType, LLVMTypeOf
  <2>4. Plain(function, ret)
    BY <1>5, <2>2, <2>3, PlainWhen
  <2> QED
    BY <1>2, <1>4, <1>6, <2>1, <2>4, GoodUse
<1>8. AllFine(function')
  BY <1>1, <1>2, <1>5, <1>7, EmitFine
<1>9. "return" \notin Middle
  BY DEF Middle
<1> QED
  BY <1>1, <1>8, <1>9, OuterReturns

\* `return;`
LEMMA ReturnVoidEvaluates ==
    ASSUME IndInv, IndInv', ShapeInv, ValueInv, ReturnVoid
    PROVE  Evaluates'
<1> DEFINE ret == Instruction("RET", "void", <<>>)
<1>1. /\ At("stmt") /\ Continue(<<>>) /\ function' = EmitInstr(function, ret)
      /\ ~NoVoidReturns
  BY DEF ReturnVoid, NoVoidReturns
<1>2. Well(function) /\ AllFine(function) /\ "void" \in LLVMType
  BY <1>1, ValueFacts DEF LLVMType
<1>3. /\ ret \in LLVMInstruction /\ ret.opcode = "RET" /\ ret.type = "void"
      /\ ret.operands = <<>>
  BY <1>2, NullaryWell, Makes
<1> HIDE DEF ret
<1>4. Good(function, ret) /\ Local(function, LastBlock(function), ret)
  BY <1>1, <1>3, UsesNone, GoodUseless, PlainWhen
<1>5. AllFine(function') /\ "stmt" \notin Middle
  BY <1>1, <1>2, <1>3, <1>4, EmitFine DEF Middle
<1> QED
  BY <1>1, <1>5, OuterReturns

-----------------------------------------------------------------------------
(* If statements *)

\* The jump that is pushed without being listed.
LEMMA AddFine ==
    ASSUME NEW f \in FunctionType, f.blocks # <<>>, AllWellFormed(f), ListsExisting(f),
           AllFine(f), NEW instr \in LLVMInstruction, WellFormed(instr), Good(f, instr),
           NEW g, g = AddInstr(f, instr)
    PROVE  g \in FunctionType /\ AllWellFormed(g) /\ AllFine(g)
<1> DEFINE n == Len(f.instructions)
<1>1. /\ g \in FunctionType /\ g.instructions = Append(f.instructions, instr)
      /\ g.blocks = f.blocks
  BY AddInstrShape
<1>2. /\ InstrIDs(g) = InstrIDs(f) \cup {n}
      /\ \A i \in InstrIDs(f) : Instr(g, i) = Instr(f, i)
      /\ Instr(g, n) = instr
  <2>1. g \in FunctionType /\ Pushes(f, g, instr)
    BY <1>1 DEF Pushes
  <2> QED
    BY <2>1, OneMore
<1>3. n \notin InstrIDs(f)
  BY LastBlockIn
<1>4. BlockIDs(g) = BlockIDs(f) /\ \A b, i : Lists(g, b, i) <=> Lists(f, b, i)
  BY <1>1 DEF BlockIDs, LastBlock, Block, Lists
<1> HIDE DEF n
<1>5. AllWellFormed(g)
  BY <1>2 DEF AllWellFormed
<1>6. Grown(f, g)
  BY <1>2, <1>4, SameIsLater DEF Grown
<1>7. \A b \in BlockIDs(g) : ~Lists(g, b, n)
  BY <1>3, <1>4 DEF ListsExisting
<1>8. Fine(g, n)
  BY <1>2, <1>6, <1>7, GoodLater DEF Fine, Grown
<1> QED
  BY <1>1, <1>2, <1>5, <1>6, <1>8, GrownFine DEF AllFine

\* A block is added and branches of the function are patched.
LEMMA JoinFine ==
    ASSUME NEW f \in FunctionType, AllWellFormed(f), AllFine(f),
           NEW r \in LabelRole, NEW n \in Nat, NEW h, h = CreateBlock(f, r, n),
           NEW g, g.blocks = h.blocks, InstrIDs(g) = InstrIDs(f), Later(f, g)
    PROVE  AllFine(g)
<1>1. /\ BlockIDs(h) = BlockIDs(f) \cup {LastBlock(h)}
      /\ \A b \in BlockIDs(f) : \A i : Lists(h, b, i) <=> Lists(f, b, i)
      /\ \A i : ~Lists(h, LastBlock(h), i)
  BY CreateLists, CreateMembers
<1>2. BlockIDs(g) = BlockIDs(h) /\ \A b, i : Lists(g, b, i) <=> Lists(h, b, i)
  BY DEF BlockIDs, LastBlock, Block, Lists
<1>3. Grown(f, g)
  BY <1>1, <1>2 DEF Grown
<1> QED
  BY <1>3, PatchedFine

\* Patching an operand leaves blocks alone.
LEMMA PatchBlocks ==
    ASSUME NEW f, "blocks" \in DOMAIN f, NEW id, NEW k, NEW target,
           NEW g, g = PatchOperand(f, id, k, target)
    PROVE  g.blocks = f.blocks /\ "blocks" \in DOMAIN g
BY DEF PatchOperand

\* Functions have blocks.
LEMMA HasBlocks ==
    ASSUME NEW f \in FunctionType
    PROVE  "blocks" \in DOMAIN f
BY DEF FunctionType, LLVMFunction

\* A jump uses nothing.
LEMMA GoodJump == \A f, b : Good(f, JumpEnd) /\ Local(f, b, JumpEnd)
<1>1. \A i : ~Uses(JumpEnd, i)
  BY JumpEndFields DEF Uses
<1>2. JumpEnd.opcode \notin {"ICMP", "STORE", "LOAD", "RET"}
  BY JumpEndFields
<1>3. JumpEnd.type # "ptr"
  BY DEF JumpEnd, Instruction
<1> HIDE DEF JumpEnd
<1> QED
  BY <1>1, <1>2, <1>3, GoodUseless, PlainWhen

\* The conditional branch uses the last instruction.
LEMMA StartIfFine ==
    ASSUME NEW f, Well(f), AllFine(f), Handled => Ready(f),
           Named => HasResult(f, LastInstr(f)), NEW g, g = StartIf(f)
    PROVE  AllFine(g)
<1> DEFINE n == Len(f.instructions)
           last == LastInstr(f)
           u == Value("INSTR", last)
           v == Value("BLOCK", Len(f.blocks))
           w == Value("BLOCK", 0)
           operands == <<u, v, w>>
           branch == Instruction("BR", "void", operands)
           h1 == EmitInstr(f, branch)
           h2 == AddInstr(h1, JumpEnd)
<1>0. g = CreateBlock(h2, "if_true", n)
  BY DEF StartIf
<1>1. /\ f \in FunctionType /\ f.blocks # <<>> /\ AllWellFormed(f) /\ ListsExisting(f)
      /\ n \in Nat /\ n \notin InstrIDs(f)
      /\ Len(f.blocks) \in Nat
  BY LastBlockIn, FunctionFields DEF Well, ShapeOK, Core
<1>2. /\ u \in LLVMValueID /\ v \in LLVMValueID /\ w \in LLVMValueID
      /\ u.kind = "INSTR" /\ v.kind = "BLOCK" /\ w.kind = "BLOCK"
      /\ u.id = last
  BY <1>1 DEF LLVMValueID, LLVMValueKind, Value, NPos, LastInstr
<1> HIDE DEF u, v, w
<1>3. /\ operands \in Seq(LLVMValueID) /\ Len(operands) = 3
      /\ DOMAIN operands = {1, 2, 3}
      /\ operands[1] = u /\ operands[2] = v /\ operands[3] = w
  BY <1>2
<1> HIDE DEF operands
<1>4. /\ branch \in LLVMInstruction /\ branch.operands = operands
      /\ branch.opcode = "BR" /\ branch.type = "void"
  <2>1. "BR" \in LLVMOpcode /\ "void" \in LLVMType
    BY DEF LLVMOpcode, LLVMType
  <2> QED
    BY <1>3, <2>1, InstructionType, Makes
<1> HIDE DEF branch
<1>5. WellFormed(branch)
  BY <1>2, <1>3, <1>4 DEF WellFormed, LLVM!Operation
<1> HIDE DEF last
<1>6. \A i : Uses(branch, i) => i = last
  BY <1>2, <1>3, <1>4 DEF Uses
<1>7. Good(f, branch) /\ Local(f, LastBlock(f), branch)
  <2>1. /\ ~Computes(branch) /\ branch.opcode \notin {"STORE", "ICMP", "LOAD"}
        /\ Plain(f, branch)
    BY <1>4, PlainWhen DEF Computes
  <2>2. /\ Handled => Lists(f, LastBlock(f), last)
        /\ Named => HasResult(f, last)
    BY DEF Ready, last
  <2> QED
    BY <1>1, <1>6, <2>1, <2>2, GoodUse
<1> HIDE DEF h1, n
<1>8. AllFine(h1)
  BY <1>4, <1>7, EmitFine DEF h1
<1>9. /\ h1 \in FunctionType /\ h1.blocks # <<>>
      /\ InstrIDs(h1) = InstrIDs(f) \cup {n}
      /\ \A i \in InstrIDs(f) : Instr(h1, i) = Instr(f, i)
      /\ Instr(h1, n) = branch /\ BlockIDs(h1) = BlockIDs(f)
      /\ \A b \in BlockIDs(f) : \A i :
           Lists(h1, b, i) => Lists(f, b, i) \/ i = n
  BY <1>1, <1>4, EmitFacts DEF h1, n
<1>10. AllWellFormed(h1) /\ ListsExisting(h1)
  BY <1>1, <1>5, <1>9 DEF AllWellFormed, ListsExisting
<1> HIDE DEF h2
<1>11. h2 \in FunctionType /\ AllWellFormed(h2) /\ AllFine(h2)
  BY <1>8, <1>9, <1>10, JumpEndFields, GoodJump, AddFine DEF h2
<1>12. InstrIDs(g) = InstrIDs(h2) /\ Later(h2, g)
  <2>1. g.instructions = h2.instructions
    BY <1>0, <1>1, <1>11, Roles, CreateBlockShape
  <2>2. InstrIDs(g) = InstrIDs(h2) /\ \A i : Instr(g, i) = Instr(h2, i)
    BY <2>1 DEF InstrIDs, LastInstr, Instr
  <2> QED
    BY <2>2, SameIsLater
<1> DEFINE role == "if_true"
<1>13. g = CreateBlock(h2, role, n) /\ role \in LabelRole
  BY <1>0, Roles
<1> HIDE DEF role
<1> QED
  BY <1>1, <1>11, <1>12, <1>13, JoinFine

\* The block of the else branch.
LEMMA StartElseFine ==
    ASSUME NEW f, Well(f), AllFine(f), NEW c \in InstrIDs(f),
           IsConditionalBranch(Instr(f, c)), Unpatched(f, c),
           NEW g, g = StartElse(f, c)
    PROVE  AllFine(g)
<1> DEFINE role == "if_false"
           h == CreateBlock(f, role, c)
<1>1. Later(f, g) /\ InstrIDs(g) = InstrIDs(f)
  BY StartElseWell
<1>2. f \in FunctionType /\ AllWellFormed(f) /\ c \in Nat /\ role \in LabelRole
  BY WellFacts, LastBlockIn, Roles
<1>3. g = PatchOperand(h, c, 2, LastBlock(h))
  BY DEF StartElse
<1> HIDE DEF role
<1>4. h \in FunctionType
  BY <1>2, CreateBlockShape
<1> HIDE DEF h
<1>5. g.blocks = h.blocks
  BY <1>3, <1>4, HasBlocks, PatchBlocks
<1> QED
  BY <1>1, <1>2, <1>5, JoinFine DEF h

\* The block after an if statement.
LEMMA EndIfFine ==
    ASSUME NEW f, Well(f), AllFine(f), NEW c \in InstrIDs(f), NEW e,
           NEW g, g = EndIf(f, c, c + 1, e), Later(f, g), InstrIDs(g) = InstrIDs(f)
    PROVE  AllFine(g)
<1> DEFINE role == "if_end"
           h == CreateBlock(f, role, c)
           t == LastBlock(h)
           h1 == IF Instr(h, c).operands[3].id = 0 THEN PatchOperand(h, c, 2, t) ELSE h
           h2 == PatchOperand(h1, e, 0, t)
<1>1. f \in FunctionType /\ AllWellFormed(f) /\ c \in Nat /\ role \in LabelRole
  BY WellFacts, LastBlockIn, Roles
<1>2. g = PatchOperand(h2, c + 1, 0, t)
  BY DEF EndIf
<1> HIDE DEF role
<1>3. h \in FunctionType
  BY <1>1, CreateBlockShape
<1> HIDE DEF h, t
<1>4. h1.blocks = h.blocks /\ "blocks" \in DOMAIN h1
  BY <1>3, HasBlocks, PatchBlocks
<1> HIDE DEF h1
<1>5. h2.blocks = h.blocks /\ "blocks" \in DOMAIN h2
  BY <1>4, PatchBlocks
<1> HIDE DEF h2
<1>6. g.blocks = h.blocks
  BY <1>2, <1>5, PatchBlocks
<1> QED
  BY <1>1, <1>6, JoinFine DEF h

\* A statement goes on with a branch, and then with the rest of itself.
LEMMA BranchGoesOn ==
    ASSUME IndInv, ShapeInv, ValueInv, NEW place, At(place), place \notin Middle,
           NEW y \in FrameType, y.at \in {"ifElse", "ifEnd"},
           Continue(<<Frame("stmt"), y>>), AllFine(function')
    PROVE  Evaluates'
<1> DEFINE x == Frame("stmt")
           a == Head(todo)
           frames == <<x, y>>
<1>1. x \in FrameType /\ x.at = "stmt"
  BY PlainFrame DEF Frame, Resume
<1>2. a.at = place
  BY AtFacts
<1>3. \A j \in DOMAIN frames : frames[j] \in {x, y}
  OBVIOUS
<1>4. todo' = frames \o Tail(todo)
  BY DEF Continue
<1> HIDE DEF x, a
<1>5. Fits(x, y) /\ x.at \notin Reads
  BY <1>1 DEF Fits, Inner, Middle, ReadsValue, Reads
<1>6. Opens(a, frames)
  BY <1>1, <1>2, <1>5, ReplacesWhen, OpensTwo
<1> HIDE DEF frames
<1>7. \A j \in DOMAIN frames : frames[j].at \notin {"binary", "assign"}
  BY <1>1, <1>3
<1>8. \A j \in DOMAIN frames : Saves(function', frames[j])
  BY <1>7, SavesNothing
<1> QED
  BY <1>4, <1>6, <1>8, GoesOn DEF a

\* The condition has been visited: the last instruction is its result.
LEMMA IfThenEvaluates ==
    ASSUME IndInv, IndInv', ShapeInv, ValueInv, IfThen
    PROVE  Evaluates'
<1> DEFINE n == Len(function.instructions)
           ids == <<n, n + 1>>
           y == Resume("ifElse", "", "void", ids)
<1>1. At("ifThen") /\ function' = StartIf(function) /\ Continue(<<Frame("stmt"), y>>)
  BY DEF IfThen
<1>2. /\ Well(function) /\ AllFine(function) /\ function \in FunctionType
      /\ Head(todo).at = "ifThen" /\ Resumes(function, evaluated, Head(todo))
  BY <1>1, ValueFacts
<1>3. /\ Handled => Ready(function)
      /\ Named => HasResult(function, LastInstr(function))
  BY <1>2 DEF Resumes, Reads
<1>4. AllFine(function')
  BY <1>1, <1>2, <1>3, StartIfFine
<1>5. ids \in Seq(Nat \cup {NPos})
  BY <1>2, FunctionFields
<1>6. "ifElse" \in Place /\ "" \in FrameArg /\ "void" \in CType
  BY DEF Place, FrameArg, CType
<1> HIDE DEF ids
<1>7. y \in FrameType /\ y.at = "ifElse"
  BY <1>5, <1>6, ResumeType DEF Resume
<1> HIDE DEF y
<1>8. "ifThen" \notin Middle
  BY DEF Middle
<1> QED
  BY <1>1, <1>4, <1>7, <1>8, BranchGoesOn

\* The first branch ends in a jump.
LEMMA JumpFine ==
    ASSUME NEW f, Well(f), AllFine(f), NEW g, g = EmitInstr(f, JumpEnd)
    PROVE  AllFine(g)
BY JumpEndFields, GoodJump, EmitFine

\* ... and the other one begins.
LEMMA IfElseEvaluates ==
    ASSUME IndInv, IndInv', ShapeInv, ValueInv, IfElse
    PROVE  Evaluates'
<1> DEFINE h == Head(todo)
           c == h.ids[1]
           n == Len(function.instructions)
           f == EmitInstr(function, JumpEnd)
           ids == Append(h.ids, n)
           y == Resume("ifEnd", "", "void", ids)
<1>1. /\ At("ifElse") /\ h.at = "ifElse"
      /\ function' = StartElse(f, c) /\ Continue(<<Frame("stmt"), y>>)
  BY DEF IfElse, At
<1>2. Well(function) /\ AllFine(function)
  BY <1>1, ValueFacts
<1>3. /\ c \in InstrIDs(function) /\ IsConditionalBranch(Instr(function, c))
      /\ \A i \in InstrIDs(function) :
           Unpatched(function, i) <=> i \in OpenIDs(h) \/ OpenIn(Tail(todo), i)
  BY <1>1, HeadIf
<1>4. h.ids \in Seq(Nat \cup {NPos}) /\ Len(h.ids) = 2
  BY <1>1, SuspendedIf
<1>5. c \in OpenIDs(h)
  BY <1>1 DEF OpenIDs
<1>6. /\ Well(f) /\ InstrIDs(f) = InstrIDs(function) \cup {n} /\ n \in Nat
      /\ \A i \in InstrIDs(function) : Instr(f, i) = Instr(function, i)
  BY <1>2, EmitJumpWell
<1>7. AllFine(f)
  BY <1>2, JumpFine
<1>8. ids \in Seq(Nat \cup {NPos})
  BY <1>4, <1>6
<1>9. "ifEnd" \in Place /\ "" \in FrameArg /\ "void" \in CType
  BY DEF Place, FrameArg, CType
<1> HIDE DEF h, c, n, f, ids
<1>10. Unpatched(f, c)
  BY <1>3, <1>5, <1>6 DEF Unpatched
<1>11. AllFine(function')
  BY <1>1, <1>3, <1>6, <1>7, <1>10, StartElseFine
<1>12. y \in FrameType /\ y.at = "ifEnd"
  BY <1>8, <1>9, ResumeType DEF Resume
<1> HIDE DEF y
<1>13. "ifElse" \notin Middle
  BY DEF Middle
<1> QED
  BY <1>1, <1>11, <1>12, <1>13, BranchGoesOn

\* There is no other one.
LEMMA IfWithoutElseEvaluates ==
    ASSUME IndInv, IndInv', ShapeInv, ValueInv, IfWithoutElse
    PROVE  Evaluates'
<1> DEFINE h == Head(todo)
           c == h.ids[1]
           n == Len(function.instructions)
           f == EmitInstr(function, JumpEnd)
<1>1. /\ At("ifElse") /\ h.at = "ifElse" /\ Continue(<<>>)
      /\ function' = EndIf(f, c, h.ids[2], n)
  BY DEF IfWithoutElse, At
<1>2. Well(function) /\ AllFine(function)
  BY <1>1, ValueFacts
<1>3. /\ c \in InstrIDs(function) /\ IsConditionalBranch(Instr(function, c))
      /\ h.ids[2] = c + 1 /\ c + 1 \in InstrIDs(function)
      /\ \A i \in InstrIDs(function) :
           Unpatched(function, i) <=> i \in OpenIDs(h) \/ OpenIn(Tail(todo), i)
  BY <1>1, HeadIf
<1>4. c + 1 \in OpenIDs(h)
  BY <1>1, <1>3 DEF OpenIDs
<1>5. /\ Well(f) /\ InstrIDs(f) = InstrIDs(function) \cup {n}
      /\ \A i \in InstrIDs(function) : Instr(f, i) = Instr(function, i)
      /\ Instr(f, n) = JumpEnd /\ ~Follows(f, n) /\ Unpatched(f, n)
  BY <1>2, EmitJumpWell
<1>6. AllFine(f)
  BY <1>2, JumpFine
<1> HIDE DEF h, c, n, f
<1>7. /\ c \in InstrIDs(f) /\ IsConditionalBranch(Instr(f, c)) /\ Unpatched(f, c + 1)
      /\ n \in InstrIDs(f) /\ Instr(f, n).opcode = "BR" /\ Len(Instr(f, n).operands) = 1
  BY <1>3, <1>4, <1>5, JumpEndFields DEF Unpatched
<1>8. function' = EndIf(f, c, c + 1, n)
  BY <1>1, <1>3
<1>9. Later(f, function') /\ InstrIDs(function') = InstrIDs(f)
  BY <1>5, <1>7, <1>8, EndIfWell
<1>10. AllFine(function') /\ "ifElse" \notin Middle
  BY <1>5, <1>6, <1>7, <1>8, <1>9, EndIfFine DEF Middle
<1> QED
  BY <1>1, <1>10, OuterReturns

\* The end of both.
LEMMA IfEndEvaluates ==
    ASSUME IndInv, IndInv', ShapeInv, ValueInv, IfEnd
    PROVE  Evaluates'
<1> DEFINE h == Head(todo)
           c == h.ids[1]
           e == h.ids[3]
           f == function
<1>1. /\ At("ifEnd") /\ h.at = "ifEnd" /\ Continue(<<>>)
      /\ function' = EndIf(f, c, h.ids[2], e)
  BY DEF IfEnd, At
<1>2. Well(f) /\ AllFine(f)
  BY <1>1, ValueFacts
<1>3. /\ c \in InstrIDs(f) /\ IsConditionalBranch(Instr(f, c)) /\ IfFits(f, h)
      /\ h.ids[2] = c + 1 /\ c + 1 \in InstrIDs(f)
      /\ \A i \in InstrIDs(f) :
           Unpatched(f, i) <=> i \in OpenIDs(h) \/ OpenIn(Tail(todo), i)
  BY <1>1, HeadIf
<1>4. c + 1 \in OpenIDs(h) /\ e \in OpenIDs(h)
  BY <1>1, <1>3 DEF OpenIDs
<1>5. /\ e \in InstrIDs(f) /\ Instr(f, e).opcode = "BR"
      /\ Len(Instr(f, e).operands) = 1 /\ ~Follows(f, e)
  BY <1>1, <1>3 DEF IfFits
<1> HIDE DEF h, c, e, f
<1>6. Unpatched(f, c + 1) /\ Unpatched(f, e) /\ function' = EndIf(f, c, c + 1, e)
  BY <1>1, <1>3, <1>4, <1>5
<1>7. Later(f, function') /\ InstrIDs(function') = InstrIDs(f)
  BY <1>2, <1>3, <1>5, <1>6, EndIfWell
<1>8. AllFine(function') /\ "ifEnd" \notin Middle
  BY <1>2, <1>3, <1>6, <1>7, EndIfFine DEF Middle
<1> QED
  BY <1>1, <1>8, OuterReturns

\* The statement handlers.
LEMMA StatementsEvaluate ==
    ASSUME IndInv, IndInv', ShapeInv, ValueInv, Statements
    PROVE  Evaluates'
<1>1. CASE NextStatement \/ CompoundStatement \/ EndCompound \/ ExpressionStatement
           \/ UnhandledStatement
  BY <1>1, PlainStatementEvaluates
<1>2. CASE EmptyStatement
  BY <1>2, AtFacts, StopEvaluates DEF EmptyStatement
<1>3. CASE IfStatement \/ ReturnExpression
  BY <1>3, ConditionEvaluates
<1>4. CASE IfThen
  BY <1>4, IfThenEvaluates
<1>5. CASE IfElse
  BY <1>5, IfElseEvaluates
<1>6. CASE IfWithoutElse
  BY <1>6, IfWithoutElseEvaluates
<1>7. CASE IfEnd
  BY <1>7, IfEndEvaluates
<1>8. CASE FinishReturn \/ ReturnVoid
  BY <1>8, FinishReturnEvaluates, ReturnVoidEvaluates
<1> QED
  BY <1>1, <1>2, <1>3, <1>4, <1>5, <1>6, <1>7, <1>8 DEF Statements

-----------------------------------------------------------------------------
(* The scopes, and functions that begin and end *)

\* Expressions declare nothing.
LEMMA ExpressionsDeclare ==
    ASSUME IndInv, Expressions
    PROVE  InFunction /\ UNCHANGED <<module, identifiers, table>>
<1>1. ASSUME NEW place, At(place) PROVE InFunction
  BY <1>1, AtFacts
<1>2. CASE EvaluateAsRValue \/ EvaluateAsRValueThrows \/ UntypedOperand
  BY <1>1, <1>2 DEF EvaluateAsRValue, EvaluateAsRValueThrows, UntypedOperand, Stop, unit, scopes
<1>3. CASE (\E two \in BOOLEAN : ListExpression(two)) \/ Parentheses
  BY <1>1, <1>3 DEF ListExpression, Parentheses, unit, scopes
<1>4. CASE \E c \in Literals : PrimaryExpression(c)
  BY <1>1, <1>4 DEF PrimaryExpression, unit, scopes
<1>5. CASE \E n \in Names : IdentifierExpression(n) \/ IdentifierThrows(n)
  BY <1>1, <1>5 DEF IdentifierExpression, IdentifierThrows, Stop, unit, scopes
<1>6. CASE \E t \in {"int", "double"} : UnhandledExpression(t)
  BY <1>1, <1>6 DEF UnhandledExpression, unit, scopes
<1>7. CASE (\E op \in Operators \cap BinaryOperator : BinaryExpression(op)) \/ BinaryLhs
           \/ FinishBinary
  BY <1>1, <1>7 DEF BinaryExpression, BinaryLhs, FinishBinary, unit, scopes
<1>8. CASE (\E op \in Operators \cap AssignmentOperator : AssignmentExpression(op))
           \/ AssignmentLhs \/ FinishAssignment
  BY <1>1, <1>8 DEF AssignmentExpression, AssignmentLhs, FinishAssignment, unit, scopes
<1> QED
  BY <1>2, <1>3, <1>4, <1>5, <1>6, <1>7, <1>8 DEF Expressions

\* Statements declare nothing, but SemaVisitor opens a scope for a block.
LEMMA StatementsDeclare ==
    ASSUME IndInv, Statements
    PROVE  InFunction /\ UNCHANGED <<module, identifiers>> /\ Declares
<1>1. ASSUME NEW place, At(place) PROVE InFunction
  BY <1>1, AtFacts
<1>2. CASE NextStatement \/ ExpressionStatement \/ EmptyStatement \/ UnhandledStatement
  BY <1>1, <1>2 DEF NextStatement, ExpressionStatement, EmptyStatement, UnhandledStatement,
                    Stop, unit, scopes, Declares
<1>3. CASE CompoundStatement \/ EndCompound
  BY <1>1, <1>3 DEF CompoundStatement, EndCompound, unit, Declares
<1>4. CASE IfStatement \/ IfThen \/ IfElse \/ IfWithoutElse \/ IfEnd
  BY <1>1, <1>4 DEF IfStatement, IfThen, IfElse, IfWithoutElse, IfEnd, unit, scopes, Declares
<1>5. CASE ReturnExpression \/ FinishReturn \/ ReturnVoid
  BY <1>1, <1>5 DEF ReturnExpression, FinishReturn, ReturnVoid, unit, scopes, Declares
<1> QED
  BY <1>2, <1>3, <1>4, <1>5 DEF Statements

\* Declarations of local variables bind names in both.
LEMMA DeclarationsDeclare ==
    ASSUME IndInv, Declarations
    PROVE  /\ InFunction /\ UNCHANGED module
           /\ \/ UNCHANGED identifiers /\ Declares
              \/ \E n \in VarNames, t \in VarTypes :
                   ParameterIdentifier(n, t) \/ LocalIdentifier(n, t) \/ LocalInitialised(n, t)
<1>1. ASSUME NEW place, At(place) PROVE InFunction
  BY <1>1, AtFacts
<1>2. CASE \E n \in VarNames, t \in VarTypes :
             ParameterIdentifier(n, t) \/ LocalIdentifier(n, t) \/ LocalInitialised(n, t)
  BY <1>1, <1>2 DEF ParameterIdentifier, LocalIdentifier, LocalInitialised, unit
<1>3. CASE \E n \in PtrNames : ParameterPointer(n) \/ LocalPointer(n) \/ PointerInitialised(n)
  BY <1>1, <1>3 DEF ParameterPointer, LocalPointer, PointerInitialised, unit, Declares
<1>4. CASE ParameterAbstract \/ InitializerThrows
  BY <1>1, <1>4 DEF ParameterAbstract, InitializerThrows, Stop, unit, scopes, Declares
<1>5. CASE \E g \in FuncNames : LocalPrototype(g)
  BY <1>1, <1>5 DEF LocalPrototype, unit, scopes, Declares
<1>6. CASE InitializerExpression \/ InitializerStore \/ EndList
           \/ \E two \in BOOLEAN : InitializerList(two)
  BY <1>1, <1>6 DEF InitializerExpression, InitializerStore, EndList, InitializerList,
                    unit, scopes, Declares
<1> QED
  BY <1>2, <1>3, <1>4, <1>5, <1>6 DEF Declarations

\* Within a function.
LEMMA BodyValues ==
    ASSUME IndInv, IndInv', ShapeInv, ValueInv, Keeps,
           Declarations \/ Expressions \/ Statements
    PROVE  ValueInv'
<1>1. Evaluates'
  BY DeclarationsEvaluate, ExpressionsEvaluate, StatementsEvaluate
<1>2. /\ InFunction /\ UNCHANGED module
      /\ \/ UNCHANGED identifiers /\ Declares
         \/ \E n \in VarNames, t \in VarTypes :
              ParameterIdentifier(n, t) \/ LocalIdentifier(n, t) \/ LocalInitialised(n, t)
  BY ExpressionsDeclare, StatementsDeclare, DeclarationsDeclare DEF Declares
<1>3. InFunction' => InAllocas'
  <2>1. SUFFICES ASSUME InFunction' PROVE InAllocas'
    OBVIOUS
  <2>2. Later(function, function')
    BY <2>1 DEF Keeps, InFunction
  <2>3. InAllocas
    BY <1>2 DEF ValueInv
  <2> QED
    BY <1>2, <2>2, <2>3, AllocasKept, DeclaresLocal
<1>4. Declares
  BY <1>2, DeclaresLocal
<1>5. TableTyped'
  BY <1>4, TableTypedStep DEF ValueInv
<1> QED
  BY <1>1, <1>2, <1>3, <1>5 DEF ValueInv

\* Frames that wait for no expression.
LEMMA OuterFrames ==
    ASSUME NEW f, NEW e, NEW s \in Seq(FrameType), \A j \in DOMAIN s : s[j].at \notin Inner
    PROVE  Evaluating(f, e, s)
<1>1. Reads \cup ReadsValue \cup {"assign", "rvalue", "binary"} \subseteq Inner
  BY DEF Reads, ReadsValue, Inner, Middle
<1>2. Layered(s) /\ Linked(s)
  BY <1>1 DEF Layered, Linked, Fits
<1>3. s # <<>> => Resumes(f, e, Head(s))
  <2>1. s # <<>> => Head(s) = s[1] /\ 1 \in DOMAIN s
    BY HeadAndRest
  <2> QED
    BY <1>1, <2>1 DEF Resumes
<1>4. \A j \in DOMAIN s : Saves(f, s[j])
  BY <1>1 DEF Saves
<1> QED
  BY <1>2, <1>3, <1>4 DEF Evaluating

\* A function begins.
LEMMA FunctionDefinitionValues ==
    ASSUME IndInv, IndInv', ValueInv,
           NEW g \in FuncNames, NEW pointer \in BOOLEAN, FunctionDefinition(g, pointer)
    PROVE  ValueInv'
<1> DEFINE a == Frame("params")
           b == Frame("decls")
           c == Frame("stmts")
           two == <<b, c>>
           three == <<a, b, c>>
<1>1. /\ function' = NewFunction \/ function' = [NewFunction EXCEPT !.name = g]
      /\ todo' = two \/ todo' = three
      /\ UNCHANGED module /\ ~InFunction
      /\ identifiers' = Append(identifiers, EmptyScope) /\ table' = PushScope(table)
  BY DEF FunctionDefinition, unit, Outside, InFunction
<1>2. InstrIDs(function') = {}
  BY <1>1, NewFunctionWell
<1>3. AllFine(function')
  BY <1>2 DEF AllFine
<1>4. a.at \notin Inner /\ b.at \notin Inner /\ c.at \notin Inner
  BY DEF Frame, Resume, Inner, Middle
<1>5. \A j \in DOMAIN two : two[j] \in {b, c}
  OBVIOUS
<1>6. \A j \in DOMAIN three : three[j] \in {a, b, c}
  OBVIOUS
<1> HIDE DEF a, b, c, two, three
<1>7. \A j \in DOMAIN todo' : todo'[j].at \notin Inner
  BY <1>1, <1>4, <1>5, <1>6
<1>8. Evaluating(function', evaluated', todo')
  BY <1>7, OuterFrames DEF IndInv, TypeOK
<1>9. InAllocas'
  BY <1>1, AllocasBegin
<1>10. TableTyped'
  BY <1>1, TableTypedStep DEF ValueInv, Declares
<1> QED
  BY <1>1, <1>3, <1>8, <1>9, <1>10 DEF ValueInv, Evaluates

\* A function ends.
LEMMA EndFunctionValues ==
    ASSUME IndInv, ValueInv, EndFunction
    PROVE  ValueInv'
<1>1. /\ InFunction /\ AllFine(function) /\ function' = NoFunction
      /\ module' = [module EXCEPT !.functions = Append(@, function)]
      /\ table' = PopScope(table)
  BY DEF EndFunction, ValueInv, Evaluates
<1>2. /\ module.functions \in Seq(FunctionType) /\ function \in FunctionType
      /\ module \in [functions : Seq(FunctionType), globals : Seq(VarNames \cup {NoName})]
  BY DEF IndInv, TypeOK
<1>3. module'.functions = Append(module.functions, function)
  BY <1>1, <1>2
<1>4. /\ Len(module.functions) \in Nat
      /\ DOMAIN module.functions = 1 .. Len(module.functions)
      /\ DOMAIN module'.functions = 1 .. Len(module.functions) + 1
      /\ \A j \in 1 .. Len(module.functions) : module'.functions[j] = module.functions[j]
      /\ module'.functions[Len(module.functions) + 1] = function
  BY <1>2, <1>3
<1>5. \A i \in DOMAIN module'.functions : AllFine(module'.functions[i])
  BY <1>1, <1>4 DEF ValueInv
<1>6. TableTyped'
  BY <1>1, TableTypedStep DEF ValueInv, Declares
<1> QED
  BY <1>1, <1>5, <1>6 DEF ValueInv, InFunction

\* Outside of functions there is nothing to evaluate.
LEMMA OutsideValues ==
    ASSUME IndInv, ValueInv, ~InFunction, UNCHANGED function, Declares,
           module'.functions = module.functions
    PROVE  ValueInv'
<1>1. TableTyped'
  BY TableTypedStep DEF ValueInv
<1> QED
  BY <1>1 DEF ValueInv, InFunction

\* The external declarations.
LEMMA ExternalValues ==
    ASSUME IndInv, IndInv', ValueInv, External
    PROVE  ValueInv'
<1>1. CASE GlobalDeclaration \/ (\E n \in VarNames : GlobalInitialised(n)) \/ EndUnit
  <2>1. UNCHANGED <<function, module, table>> /\ ~InFunction
    BY <1>1 DEF GlobalDeclaration, GlobalInitialised, EndUnit, Outside, InGlobal,
                Stop, unit, scopes, IndInv, ContextOK
  <2> QED
    BY <2>1, OutsideValues DEF Declares
<1>2. CASE \E n \in PtrNames : GlobalPointer(n)
  <2>1. UNCHANGED <<function, module>> /\ "pointer" \in Fragment /\ ~InFunction
    BY <1>2 DEF GlobalPointer, InGlobal, unit, IndInv, ContextOK
  <2> QED
    BY <2>1, OutsideValues DEF Declares
<1>3. CASE \E n \in VarNames, t \in VarTypes : GlobalIdentifier(n, t)
  <2>1. PICK n \in VarNames, t \in VarTypes : GlobalIdentifier(n, t)
    BY <1>3
  <2> DEFINE v == Value("GLOBAL", Len(module.globals))
  <2>2. /\ UNCHANGED <<function, module>> /\ ~InFunction
        /\ table' = AddToScope(table, n, Symbol(t, v))
    BY <2>1 DEF GlobalIdentifier, InGlobal, IndInv, ContextOK
  <2>3. Len(module.globals) \in Nat /\ n \in Names
    BY DEF IndInv, TypeOK, Names
  <2>4. v \in LLVMValueID
    BY <2>3 DEF Value, LLVMValueID, LLVMValueKind
  <2> HIDE DEF v
  <2> QED
    BY <2>2, <2>3, <2>4, OutsideValues DEF Declares
<1>4. CASE EndGlobal
  <2>1. /\ UNCHANGED <<function, table>> /\ ~InFunction
        /\ module' = [module EXCEPT !.globals = Append(@, global[1])]
    BY <1>4 DEF EndGlobal, InGlobal, scopes, IndInv, ContextOK
  <2>2. module'.functions = module.functions
    BY <2>1 DEF IndInv, TypeOK
  <2> QED
    BY <2>1, <2>2, OutsideValues DEF Declares
<1>5. CASE \E g \in FuncNames, pointer \in BOOLEAN : FunctionDefinition(g, pointer)
  BY <1>5, FunctionDefinitionValues
<1>6. CASE EndFunction
  BY <1>6, EndFunctionValues
<1> QED
  BY <1>1, <1>2, <1>3, <1>4, <1>5, <1>6 DEF External

\* Nothing is declared initially.
LEMMA InitValueInv == Init => ValueInv
<1> SUFFICES ASSUME Init PROVE ValueInv
  OBVIOUS
<1>1. ~InFunction /\ DOMAIN module.functions = {}
  BY DEF Init, InFunction
<1>2. IsStackOf(NewTable, Names, IntSymbol)
  <2>1. NewTable \in Seq({EmptyScope}) /\ Len(NewTable) = 1 /\ NewTable[1] = EmptyScope
    BY DEF NewTable
  <2>2. \A i \in 1 .. Len(NewTable) : MapInto(NewTable[i], Names, IntSymbol)
    BY <2>1, EmptyMap
  <2> QED
    BY <2>1, <2>2, StackFromElements
<1> QED
  BY <1>1, <1>2 DEF ValueInv, TableTyped, Init

\* Every step of the visitor keeps values in order.
LEMMA StepValues == IndInv /\ IndInv' /\ ShapeInv /\ ValueInv /\ [Next]_vars => ValueInv'
<1> SUFFICES ASSUME IndInv, IndInv', ShapeInv, ValueInv, [Next]_vars PROVE ValueInv'
  OBVIOUS
<1>1. CASE External
  BY <1>1, ExternalValues
<1>2. CASE Declarations \/ Expressions \/ Statements
  BY <1>2, BodyValues, StepKeeps
<1>3. CASE Ended \/ UNCHANGED vars
  BY <1>3 DEF Ended, vars, ValueInv, TableTyped, InFunction, InAllocas, Evaluates
<1> QED
  BY <1>1, <1>2, <1>3 DEF Next

\* In every reachable state the frames on the call stack find the instructions
\* they rely on, and the instructions of all functions the results they use.
THEOREM ValueInvariant == Spec => [](IndInv /\ ShapeInv /\ ValueInv)
<1>1. Init => IndInv /\ ShapeInv /\ ValueInv
  BY InitIndInv, InitShapeInv, InitValueInv
<1>2. IndInv /\ ShapeInv /\ ValueInv /\ [Next]_vars => (IndInv /\ ShapeInv /\ ValueInv)'
  BY StepIndInv, StepKeeps, StepValues DEF Keeps
<1> QED
  BY <1>1, <1>2, PTL DEF Spec

-----------------------------------------------------------------------------
(* What follows for the functions of the module *)

\* Every instruction so far uses results that exist and are of the right sort.
LEMMA AllFunctionsFine ==
    ASSUME ValueInv, NEW f \in AllFunctions
    PROVE  AllFine(f)
BY DEF AllFunctions, Functions, ValueInv, Evaluates

\* An operand that was no index of its arena when its instruction was created is
\* the wrapped index.
LEMMA OperandExists ==
    ASSUME IndInv, NEW f \in AllFunctions, NEW i \in InstrIDs(f),
           NEW k \in DOMAIN Instr(f, i).operands
    PROVE  \/ Instr(f, i).operands[k] = Value("INSTR", NPos)
           \/ InArena(f, module.globals, Instr(f, i).operands[k])
BY DEF IndInv, OperandsInArena, FunctionOK, OperandOK

\* The operands of an instruction, one by one.
LEMMA OperandFacts ==
    ASSUME IndInv, ShapeInv, NEW f \in AllFunctions, NEW i \in InstrIDs(f)
    PROVE  /\ Instr(f, i) \in LLVMInstruction /\ WellFormed(Instr(f, i))
           /\ DOMAIN Instr(f, i).operands = 1 .. Len(Instr(f, i).operands)
           /\ Len(Instr(f, i).operands) \in Nat
           /\ \A k \in DOMAIN Instr(f, i).operands : Instr(f, i).operands[k] \in LLVMValueID
<1>1. Well(f)
  BY AllWell
<1>2. f \in FunctionType /\ WellFormed(Instr(f, i))
  BY <1>1 DEF Well, ShapeOK, Core, AllWellFormed
<1>3. Instr(f, i) \in LLVMInstruction
  BY <1>2, InstrFields
<1>4. Instr(f, i).operands \in Seq(LLVMValueID)
  BY <1>3 DEF LLVMInstruction
<1> QED
  BY <1>2, <1>3, <1>4

\* An instruction has the operands that IREmitter prints.
LEMMA PrintedExist ==
    ASSUME NEW instr, WellFormed(instr), NEW k \in LLVM!PrintedOperands(instr),
           Len(instr.operands) \in Nat, DOMAIN instr.operands = 1 .. Len(instr.operands)
    PROVE  k \in DOMAIN instr.operands
<1> DEFINE opcode == instr.opcode
           n == Len(instr.operands)
<1>1. \/ opcode \in LLVM!Operation /\ k \in {1, 2}
      \/ opcode \notin LLVM!Operation /\ opcode = "LOAD" /\ k = 1
      \/ opcode \notin LLVM!Operation /\ opcode = "BR" /\ n = 1 /\ k = 1
      \/ opcode \notin LLVM!Operation /\ opcode = "BR" /\ n # 1 /\ k \in {1, 2, 3}
      \/ opcode \notin LLVM!Operation /\ opcode = "RET" /\ instr.type # "void" /\ k = 1
  <2> HIDE DEF n
  <2> QED
    BY DEF LLVM!PrintedOperands, LLVM!Operation, n
<1>2. /\ opcode \in LLVM!Operation => n = 2
      /\ opcode = "LOAD" => n = 1
      /\ opcode = "BR" => n = 1 \/ n = 3
      /\ opcode = "RET" => instr.type = "void" \/ n = 1
  BY DEF WellFormed
<1> HIDE DEF opcode, n
<1>3. k \in 1 .. n
  BY <1>1, <1>2
<1> QED
  BY <1>3 DEF n

\* Where every expression has a handler, IREmitter finds each operand it asks
\* for and the type of each operand it asks the type of: it never throws.  An
\* expression without a handler leaves no instruction to take a type from.
THEOREM EmissionNeverThrows ==
    ASSUME "unhandledExpr" \notin Fragment
    PROVE  Spec => []LLVMEmissionSucceeds
<1>1. ASSUME IndInv, ShapeInv, ValueInv PROVE LLVMEmissionSucceeds
  <2> USE <1>1
  <2>1. SUFFICES ASSUME NEW f \in Functions, NEW b \in BlockIDs(f), NEW i \in InstrIDs(f),
                        Lists(f, b, i),
                        NEW k \in LLVM!PrintedOperands(Instr(f, i)),
                        \/ k \notin DOMAIN Instr(f, i).operands
                        \/ ~InArena(f, module.globals, Instr(f, i).operands[k])
                           /\ (Instr(f, i).operands[k].kind = "INSTR" =>
                                 LLVM!AsksTypeOf(Instr(f, i), k))
                        \/ LLVM!AsksTypeOf(Instr(f, i), k) /\ Instr(f, i).operands[k].kind = "GLOBAL"
                 PROVE  FALSE
    BY DEF LLVMEmissionSucceeds, LLVM!InstructionThrows, LLVM!InArena, InArena
  <2> DEFINE instr == Instr(f, i)
  <2>2. f \in AllFunctions
    BY DEF AllFunctions
  <2>3. /\ instr \in LLVMInstruction /\ WellFormed(instr)
        /\ DOMAIN instr.operands = 1 .. Len(instr.operands) /\ Len(instr.operands) \in Nat
    BY <2>2, OperandFacts
  <2>4. Good(f, instr) /\ Handled
    BY <2>2, AllFunctionsFine DEF AllFine, Fine, Handled
  <2>5. \/ k \notin DOMAIN instr.operands
        \/ ~InArena(f, module.globals, instr.operands[k])
           /\ (instr.operands[k].kind = "INSTR" => LLVM!AsksTypeOf(instr, k))
        \/ LLVM!AsksTypeOf(instr, k) /\ instr.operands[k].kind = "GLOBAL"
    BY <2>1
  <2>6. k \in DOMAIN instr.operands =>
          \/ instr.operands[k] = Value("INSTR", NPos)
          \/ InArena(f, module.globals, instr.operands[k])
    BY <2>2, OperandExists
  <2>7. NPos \notin InstrIDs(f)
    BY DEF NPos, InstrIDs
  <2>8. k \in LLVM!PrintedOperands(instr)
    OBVIOUS
  <2> HIDE DEF instr
  <2>9. k \in DOMAIN instr.operands
    BY <2>3, <2>8, PrintedExist
  <2>10. LLVM!AsksTypeOf(instr, k) => instr.operands[k].kind \in {"INSTR", "PARAM"}
    BY <2>3 DEF LLVM!AsksTypeOf, WellFormed
  <2>11. LLVM!AsksTypeOf(instr, k) /\ instr.operands[k].kind = "INSTR" =>
           instr.operands[k].id \in InstrIDs(f)
    BY <2>4 DEF LLVM!AsksTypeOf, Good
  <2> QED
    BY <2>5, <2>6, <2>7, <2>9, <2>10, <2>11 DEF Value
<1> QED
  BY <1>1, ValueInvariant, PTL

\* Where every expression has a handler and no name is declared with a pointer
\* declarator, no operand is the index of an instruction of an empty function.
THEOREM NoOperandWraps ==
    ASSUME "unhandledExpr" \notin Fragment, "pointer" \notin Fragment
    PROVE  Spec => []NoWrappedIndex
<1>1. ASSUME IndInv, ShapeInv, ValueInv PROVE NoWrappedIndex
  <2> USE <1>1
  <2>1. SUFFICES ASSUME NEW f \in AllFunctions, NEW i \in InstrIDs(f),
                        NEW k \in DOMAIN Instr(f, i).operands,
                        Instr(f, i).operands[k].id = NPos
                 PROVE  FALSE
    BY DEF NoWrappedIndex, Operands
  <2> DEFINE instr == Instr(f, i)
             v == instr.operands[k]
  <2>2. v \in LLVMValueID
    BY OperandFacts
  <2>3. Good(f, instr) /\ Handled /\ NoPointers
    BY AllFunctionsFine DEF AllFine, Fine, Handled, NoPointers
  <2>4. v = Value("INSTR", NPos) \/ InArena(f, module.globals, v)
    BY OperandExists
  <2>5. v.kind # "INSTR"
    <3>1. NPos \notin InstrIDs(f)
      BY DEF NPos, InstrIDs
    <3> QED
      BY <2>1, <2>3, <3>1 DEF Good, Uses
  <2>6. v.id = NPos
    BY <2>1
  <2> HIDE DEF v
  <2>7. v.kind \in LLVMValueKind /\ InArena(f, module.globals, v)
    BY <2>2, <2>4, <2>5 DEF LLVMValueID, Value
  <2> QED
    BY <2>5, <2>6, <2>7 DEF InArena, LLVMValueKind, NPos
<1> QED
  BY <1>1, ValueInvariant, PTL

\* There, a value that is not a variable's is used in the block that computes it:
\* whatever is nested in what, an expression stays in one block.
THEOREM ValuesStayInBlocks ==
    ASSUME "unhandledExpr" \notin Fragment, "pointer" \notin Fragment
    PROVE  Spec => []ValuesUsedInTheirBlock
<1>1. ASSUME IndInv, ShapeInv, ValueInv PROVE ValuesUsedInTheirBlock
  <2> USE <1>1
  <2>1. SUFFICES ASSUME NEW f \in AllFunctions, NEW b \in BlockIDs(f), NEW i \in InstrIDs(f),
                        Lists(f, b, i), NEW k \in DOMAIN Instr(f, i).operands,
                        Instr(f, i).operands[k].kind = "INSTR",
                        Instr(f, Instr(f, i).operands[k].id).opcode # "ALLOCA"
                 PROVE  Lists(f, b, Instr(f, i).operands[k].id)
    BY DEF ValuesUsedInTheirBlock, Operands
  <2>2. Local(f, b, Instr(f, i)) /\ Handled /\ NoPointers
    BY <2>1, AllFunctionsFine DEF AllFine, Fine, Handled, NoPointers
  <2>3. Uses(Instr(f, i), Instr(f, i).operands[k].id)
    BY <2>1 DEF Uses
  <2> QED
    BY <2>1, <2>2, <2>3 DEF Local
<1> QED
  BY <1>1, ValueInvariant, PTL

\* Every store is to a variable, a global or the result of pointer arithmetic,
\* although visit(AssignmentExpression) does not look at what it assigns to.  The
\* name of a variable that is declared with a pointer has no storage.
THEOREM StoresGoToAddresses ==
    ASSUME "pointer" \notin Fragment
    PROVE  Spec => []StoresToAddresses
<1>1. ASSUME IndInv, ShapeInv, ValueInv PROVE StoresToAddresses
  <2> USE <1>1
  <2>1. SUFFICES ASSUME NEW f \in AllFunctions, NEW i \in InstrIDs(f),
                        Instr(f, i).opcode = "STORE"
                 PROVE  LET v == Instr(f, i).operands[2]
                        IN v.kind = "GLOBAL" \/ Instr(f, v.id).opcode = "ALLOCA"
                                             \/ Instr(f, v.id).type = "ptr"
    BY DEF StoresToAddresses
  <2>2. Good(f, Instr(f, i)) /\ NoPointers
    BY AllFunctionsFine DEF AllFine, Fine, NoPointers
  <2> QED
    BY <2>1, <2>2 DEF Good, IsAddress
<1> QED
  BY <1>1, ValueInvariant, PTL

\* Where, moreover, no assignment is an operand, arithmetic has loaded its
\* operands: it uses no address and no instruction without a result.
THEOREM ArithmeticIsOnValues ==
    ASSUME "unhandledExpr" \notin Fragment, "pointer" \notin Fragment,
           "nestedAssign" \notin Fragment
    PROVE  Spec => []ArithmeticOnValues
<1>1. ASSUME IndInv, ShapeInv, ValueInv PROVE ArithmeticOnValues
  <2> USE <1>1
  <2>1. SUFFICES ASSUME NEW f \in AllFunctions, NEW i \in InstrIDs(f),
                        Computes(Instr(f, i)), NEW k \in DOMAIN Instr(f, i).operands,
                        Instr(f, i).operands[k].kind = "INSTR"
                 PROVE  Instr(f, Instr(f, i).operands[k].id).type \notin {"ptr", "void"}
    BY DEF ArithmeticOnValues, Operands, Computes
  <2>2. Good(f, Instr(f, i)) /\ Simple
    BY AllFunctionsFine DEF AllFine, Fine, Handled, NoPointers, Simple
  <2>3. Uses(Instr(f, i), Instr(f, i).operands[k].id)
    BY <2>1 DEF Uses
  <2> QED
    BY <2>1, <2>2, <2>3 DEF Good, Scalar
<1> QED
  BY <1>1, ValueInvariant, PTL

-----------------------------------------------------------------------------
(* The parameters *)

\* All parameters of a function are declared by its own declarator, before its
\* body, and each with a handler that allocates it.
PlainParams == "pointer" \notin Fragment /\ "prototype" \notin Fragment
\* Parameter k is stored to its alloca by the first instructions.
Receives(f) ==
    \A k \in 0 .. Len(f.params) - 1 :
        /\ 2 * k + 1 \in InstrIDs(f)
        /\ Instr(f, 2 * k).opcode = "ALLOCA"
        /\ Instr(f, 2 * k + 1).opcode = "STORE"
        /\ Instr(f, 2 * k + 1).operands = <<Value("PARAM", k), Value("INSTR", 2 * k)>>
\* The parameter list is visited before anything else is emitted.
Away(s) == \A j \in DOMAIN s : s[j].at # "params"
Receiving(f, s) ==
    \/ Away(s)
    \/ /\ s # <<>> /\ Head(s).at = "params" /\ Away(Tail(s))
       /\ Len(f.instructions) = 2 * Len(f.params)
ParamInv ==
    PlainParams =>
        /\ InFunction => Receives(function) /\ Receiving(function, todo)
        /\ \A i \in DOMAIN module.functions : Receives(module.functions[i])

\* What the builder does to a function with a parameter list leaves that alone.
HasParams(f) == "params" \in DOMAIN f
SameParams(f, g) == HasParams(g) /\ g.params = f.params

\* One instruction or block, or one operand patched.
LEMMA BuilderParams ==
    ASSUME NEW f, HasParams(f)
    PROVE  /\ \A instr : SameParams(f, EmitInstr(f, instr)) /\ SameParams(f, AddInstr(f, instr))
           /\ \A role, id : SameParams(f, CreateBlock(f, role, id))
           /\ \A id, k, target : SameParams(f, PatchOperand(f, id, k, target))
<1>1. ASSUME NEW instr
      PROVE  SameParams(f, EmitInstr(f, instr)) /\ SameParams(f, AddInstr(f, instr))
  BY DEF HasParams, SameParams, EmitInstr, AddInstr
<1>2. ASSUME NEW role, NEW id PROVE SameParams(f, CreateBlock(f, role, id))
  BY DEF HasParams, SameParams, CreateBlock
<1>3. ASSUME NEW id, NEW k, NEW target PROVE SameParams(f, PatchOperand(f, id, k, target))
  BY DEF HasParams, SameParams, PatchOperand
<1> QED
  BY <1>1, <1>2, <1>3

\* One after another.
LEMMA SameTwice ==
    ASSUME NEW f, NEW g, NEW h, SameParams(f, g), SameParams(g, h)
    PROVE  SameParams(f, h)
BY DEF SameParams

\* The end of an assignment.
LEMMA AssignParams ==
    ASSUME NEW f, HasParams(f), NEW op, NEW lhs, NEW rhs
    PROVE  SameParams(f, Assign(f, op, lhs, rhs))
<1> DEFINE type   == IF rhs = NPos THEN "void" ELSE Instr(f, rhs).type
           load   == Instruction("LOAD", type, <<Value("INSTR", lhs)>>)
           loaded == EmitInstr(f, load)
           compute == Instruction(CompoundOpcode(op), type,
                        <<Value("INSTR", LastInstr(loaded)), Value("INSTR", rhs)>>)
           result == EmitInstr(loaded, compute)
           from   == IF op = "=" THEN f ELSE result
           store  == Instruction("STORE", "void", <<Value("INSTR", rhs), Value("INSTR", lhs)>>)
<1>1. Assign(f, op, lhs, rhs) = EmitInstr(from, store)
  BY DEF Assign
<1> HIDE DEF load, compute, store
<1>2. SameParams(f, loaded)
  BY BuilderParams
<1>3. SameParams(loaded, result)
  <2> HIDE DEF loaded
  <2> QED
    BY <1>2, BuilderParams DEF SameParams
<1> HIDE DEF loaded
<1>4. SameParams(f, from)
  BY <1>2, <1>3, SameTwice DEF SameParams, HasParams
<1> HIDE DEF from
<1>5. SameParams(from, EmitInstr(from, store))
  BY <1>4, BuilderParams DEF SameParams
<1> QED
  BY <1>1, <1>4, <1>5, SameTwice

\* The parts of an if statement.
LEMMA IfParams ==
    ASSUME NEW f, HasParams(f)
    PROVE  /\ SameParams(f, StartIf(f))
           /\ \A id : SameParams(f, StartElse(EmitInstr(f, JumpEnd), id))
           /\ \A id, jump, end :
                /\ SameParams(f, EndIf(f, id, jump, end))
                /\ SameParams(f, EndIf(EmitInstr(f, JumpEnd), id, jump, end))
<1>1. SameParams(f, StartIf(f))
  <2> DEFINE branch == Instruction("BR", "void",
                         <<Value("INSTR", LastInstr(f)), Value("BLOCK", Len(f.blocks)),
                           Value("BLOCK", 0)>>)
             g == EmitInstr(f, branch)
             h == AddInstr(g, JumpEnd)
  <2>1. StartIf(f) = CreateBlock(h, "if_true", Len(f.instructions))
    BY DEF StartIf
  <2> HIDE DEF branch
  <2>2. SameParams(f, g)
    BY BuilderParams
  <2> HIDE DEF g
  <2>3. SameParams(g, h)
    BY <2>2, BuilderParams DEF SameParams
  <2> HIDE DEF h
  <2> QED
    BY <2>1, <2>2, <2>3, BuilderParams, SameTwice DEF SameParams
<1>2. ASSUME NEW g, HasParams(g), NEW id PROVE SameParams(g, StartElse(g, id))
  <2> DEFINE h == CreateBlock(g, "if_false", id)
  <2>1. StartElse(g, id) = PatchOperand(h, id, 2, LastBlock(h))
    BY DEF StartElse
  <2>2. SameParams(g, h)
    BY <1>2, BuilderParams
  <2> HIDE DEF h
  <2> QED
    BY <2>1, <2>2, BuilderParams, SameTwice DEF SameParams
<1>3. ASSUME NEW g, HasParams(g), NEW id, NEW jump, NEW end
      PROVE  SameParams(g, EndIf(g, id, jump, end))
  <2> DEFINE h == CreateBlock(g, "if_end", id)
             last == LastBlock(h)
             branch == IF Instr(h, id).operands[3].id = 0
                       THEN PatchOperand(h, id, 2, last) ELSE h
             first == PatchOperand(branch, end, 0, last)
  <2>1. EndIf(g, id, jump, end) = PatchOperand(first, jump, 0, last)
    BY DEF EndIf
  <2>2. SameParams(g, h)
    BY <1>3, BuilderParams
  <2> HIDE DEF h, last
  <2>3. SameParams(h, PatchOperand(h, id, 2, last)) /\ SameParams(h, h)
    BY <2>2, BuilderParams DEF SameParams
  <2>4. SameParams(g, branch)
    BY <2>2, <2>3, SameTwice
  <2> HIDE DEF branch
  <2>5. SameParams(branch, first)
    BY <2>4, BuilderParams DEF SameParams
  <2> HIDE DEF first
  <2>6. SameParams(g, first)
    BY <2>4, <2>5, SameTwice
  <2> QED
    BY <2>1, <2>6, BuilderParams, SameTwice DEF SameParams
<1>4. SameParams(f, EmitInstr(f, JumpEnd)) /\ HasParams(EmitInstr(f, JumpEnd))
  BY BuilderParams DEF SameParams
<1> HIDE DEF JumpEnd
<1> QED
  BY <1>1, <1>2, <1>3, <1>4, SameTwice

-----------------------------------------------------------------------------
(* Where the visitor is with respect to the parameters *)

\* A frame other than that of a parameter list is on top.
LEMMA AwayWhen ==
    ASSUME IndInv, ParamInv, PlainParams, NEW place, At(place)
    PROVE  /\ InFunction /\ todo \in Seq(FrameType) /\ todo # <<>>
           /\ Away(Tail(todo)) /\ (place # "params" => Away(todo))
           /\ HasParams(function) /\ Receives(function) /\ function \in FunctionType
<1>1. /\ InFunction /\ todo # <<>> /\ todo \in Seq(FrameType) /\ Head(todo).at = place
      /\ function \in FunctionType
  BY AtFacts DEF IndInv, TypeOK
<1>2. Receiving(function, todo) /\ Receives(function)
  BY <1>1 DEF ParamInv
<1>3. Away(todo) => Away(Tail(todo))
  BY <1>1, HeadAndRest DEF Away
<1>4. HasParams(function)
  BY <1>1 DEF HasParams, FunctionType, LLVMFunction
<1> QED
  BY <1>1, <1>2, <1>3, <1>4 DEF Receiving

\* Frames in place of one, or pushed.
LEMMA AwayConcat ==
    ASSUME NEW S, \A x \in S : x.at # "params", NEW frames \in Seq(S),
           NEW s \in Seq(FrameType), Away(s)
    PROVE  Away(frames \o s)
<1> DEFINE t == frames \o s
<1>1. /\ Len(frames) \in Nat /\ Len(s) \in Nat /\ DOMAIN frames = 1 .. Len(frames)
      /\ DOMAIN s = 1 .. Len(s) /\ DOMAIN t = 1 .. Len(frames) + Len(s)
      /\ \A i \in 1 .. Len(frames) + Len(s) :
           t[i] = IF i <= Len(frames) THEN frames[i] ELSE s[i - Len(frames)]
      /\ \A i \in 1 .. Len(frames) : frames[i] \in S
  OBVIOUS
<1> HIDE DEF t
<1>2. ASSUME NEW i \in DOMAIN t PROVE t[i].at # "params"
  <2>1. i \in 1 .. Len(frames) + Len(s)
    BY <1>1
  <2>2. CASE i <= Len(frames)
    <3>1. i \in 1 .. Len(frames)
      BY <1>1, <2>1, <2>2
    <3> QED
      BY <1>1, <2>1, <2>2, <3>1
  <2>3. CASE i > Len(frames)
    <3>1. i - Len(frames) \in DOMAIN s
      BY <1>1, <2>1, <2>3
    <3> QED
      BY <1>1, <2>1, <2>3, <3>1 DEF Away
  <2> QED
    BY <1>1, <2>1, <2>2, <2>3
<1> QED
  BY <1>2 DEF Away, t

\* A handler goes on with frames that are no parameter list.
LEMMA ContinuesAway ==
    ASSUME IndInv, ParamInv, PlainParams, NEW place, At(place),
           NEW S, \A x \in S : x.at # "params", NEW frames \in Seq(S), Continue(frames)
    PROVE  Away(todo')
<1>1. Tail(todo) \in Seq(FrameType) /\ Away(Tail(todo))
  BY AwayWhen, HeadAndRest
<1> QED
  BY <1>1, AwayConcat DEF Continue

\* It returns.
LEMMA ReturnsAway ==
    ASSUME IndInv, ParamInv, PlainParams, NEW place, At(place), Continue(<<>>)
    PROVE  Away(todo')
<1>1. <<>> \in Seq({})
  OBVIOUS
<1> HIDE DEF Continue
<1> QED
  BY <1>1, ContinuesAway

\* It calls another and will go on itself.
LEMMA CallsAway ==
    ASSUME IndInv, ParamInv, PlainParams, NEW place, At(place), place # "params",
           NEW x, x.at # "params", todo' = <<x>> \o todo
    PROVE  Away(todo')
<1>1. <<x>> \in Seq({x})
  OBVIOUS
<1>2. todo \in Seq(FrameType) /\ Away(todo)
  BY AwayWhen
<1> QED
  BY <1>1, <1>2, AwayConcat

\* What a handler within a function that is not that of a parameter does.
Passes ==
    /\ InFunction /\ UNCHANGED module
    /\ \/ UNCHANGED <<function, todo>>
       \/ SameParams(function, function') /\ Away(todo')

\* A handler that emits at most one instruction, and returns.
LEMMA ReturnsPassing ==
    ASSUME IndInv, ParamInv, PlainParams, NEW place, At(place), UNCHANGED module,
           UNCHANGED function \/ (\E instr : function' = EmitInstr(function, instr)),
           Continue(<<>>)
    PROVE  Passes
<1>1. InFunction /\ HasParams(function)
  BY AwayWhen
<1>2. SameParams(function, function')
  BY <1>1, BuilderParams DEF SameParams
<1>3. Away(todo')
  BY ReturnsAway
<1> QED
  BY <1>1, <1>2, <1>3 DEF Passes

\* A handler that emits nothing, and goes on with other frames.
LEMMA GoesOnPassing ==
    ASSUME IndInv, ParamInv, PlainParams, NEW place, At(place), UNCHANGED <<function, module>>,
           NEW S, \A x \in S : x.at # "params", NEW frames \in Seq(S), Continue(frames)
    PROVE  Passes
<1>1. InFunction /\ HasParams(function)
  BY AwayWhen
<1>2. Away(todo')
  BY ContinuesAway
<1> QED
  BY <1>1, <1>2 DEF Passes, SameParams

\* Declarations other than parameters.
LEMMA DeclarationsPass ==
    ASSUME IndInv, ParamInv, PlainParams, Declarations
    PROVE  Passes \/ \E n \in VarNames, t \in VarTypes : ParameterIdentifier(n, t)
<1>1. ASSUME NEW place, At(place) PROVE InFunction /\ HasParams(function)
  BY <1>1, AwayWhen
<1>2. Frame("init").at # "params" /\ Frame("store").at # "params"
      /\ Child("expr", "unloaded").at # "params"
  BY DEF Frame, Child, Resume
<1>3. CASE \E n \in VarNames, t \in VarTypes : LocalIdentifier(n, t) \/ LocalInitialised(n, t)
  <2>1. /\ At("decls") /\ UNCHANGED module
        /\ \E instr : function' = EmitInstr(function, instr)
        /\ UNCHANGED todo \/ todo' = <<Frame("init")>> \o todo
    BY <1>3 DEF LocalIdentifier, LocalInitialised, unit
  <2>2. Away(todo')
    BY <1>2, <2>1, CallsAway, AwayWhen
  <2> QED
    BY <1>1, <2>1, <2>2, BuilderParams DEF Passes
<1>4. CASE \E n \in PtrNames : ParameterPointer(n) \/ LocalPointer(n) \/ PointerInitialised(n)
  BY <1>4 DEF ParameterPointer, LocalPointer, PointerInitialised, PlainParams
<1>5. CASE \E g \in FuncNames : LocalPrototype(g)
  BY <1>5 DEF LocalPrototype, PlainParams
<1>6. CASE ParameterAbstract \/ InitializerThrows
  BY <1>1, <1>6 DEF ParameterAbstract, InitializerThrows, Stop, unit, Passes
<1>7. CASE InitializerExpression
  <2> DEFINE x == Child("expr", "unloaded")
             y == Frame("store")
  <2>1. At("init") /\ Continue(<<x, y>>) /\ UNCHANGED <<function, module>>
    BY <1>7 DEF InitializerExpression, unit
  <2>2. \A z \in {x, y} : z.at # "params"
    BY <1>2
  <2> HIDE DEF x, y
  <2>3. <<x, y>> \in Seq({x, y})
    OBVIOUS
  <2> QED
    BY <2>1, <2>2, <2>3, GoesOnPassing
<1>8. CASE \E two \in BOOLEAN : InitializerList(two)
  <2>1. PICK two \in BOOLEAN : InitializerList(two)
    BY <1>8
  <2> DEFINE x == Frame("init")
             y == Frame("store")
             frames == (IF two THEN <<x>> ELSE <<>>) \o <<x, y>>
  <2>2. At("init") /\ Continue(frames) /\ UNCHANGED <<function, module>>
    BY <2>1 DEF InitializerList, unit
  <2>3. \A z \in {x, y} : z.at # "params"
    BY <1>2
  <2> HIDE DEF x, y
  <2>4. frames \in Seq({x, y})
    <3>1. <<>> \in Seq({x, y}) /\ <<x>> \in Seq({x, y})
      OBVIOUS
    <3>2. <<y>> \in Seq({x, y}) /\ <<x, y>> \in Seq({x, y})
      OBVIOUS
    <3> QED
      BY <3>1, <3>2, ConcatProperties
  <2> HIDE DEF frames
  <2> QED
    BY <2>2, <2>3, <2>4, GoesOnPassing
<1>9. CASE InitializerStore
  <2>1. /\ At("store") /\ Continue(<<>>) /\ UNCHANGED module
        /\ \E instr : function' = EmitInstr(function, instr)
    BY <1>9 DEF InitializerStore, unit
  <2> QED
    BY <2>1, ReturnsPassing
<1>10. CASE EndList
  <2>1. PICK place \in {"params", "decls", "stmts"} : At(place)
    BY <1>10 DEF EndList
  <2>2. Continue(<<>>) /\ UNCHANGED <<function, module>>
    BY <1>10 DEF EndList, unit
  <2> QED
    BY <2>1, <2>2, ReturnsPassing
<1> QED
  BY <1>3, <1>4, <1>5, <1>6, <1>7, <1>8, <1>9, <1>10 DEF Declarations

\* Expressions.
LEMMA ExpressionsPass ==
    ASSUME IndInv, ParamInv, PlainParams, Expressions
    PROVE  Passes
<1>1. ASSUME NEW place, At(place) PROVE InFunction /\ HasParams(function)
  BY <1>1, AwayWhen
<1>2. CASE EvaluateAsRValue
  <2>1. /\ At("rvalue") /\ Continue(<<>>) /\ UNCHANGED module
        /\ UNCHANGED function \/ (\E instr : function' = EmitInstr(function, instr))
    BY <1>2 DEF EvaluateAsRValue, unit
  <2> QED
    BY <2>1, ReturnsPassing
<1>3. CASE EvaluateAsRValueThrows \/ UntypedOperand \/ \E n \in Names : IdentifierThrows(n)
  BY <1>1, <1>3 DEF EvaluateAsRValueThrows, UntypedOperand, IdentifierThrows, Stop, unit, Passes
<1>4. CASE \E two \in BOOLEAN : ListExpression(two)
  <2>1. PICK two \in BOOLEAN : ListExpression(two)
    BY <1>4
  <2> DEFINE x == Child("expr", "discarded")
             y == Child("expr", Head(todo).arg)
             frames == (IF two THEN <<x>> ELSE <<>>) \o <<y>>
  <2>2. At("list") /\ Continue(frames) /\ UNCHANGED <<function, module>>
    BY <2>1 DEF ListExpression, unit
  <2>3. \A z \in {x, y} : z.at # "params"
    BY DEF Child, Resume
  <2> HIDE DEF x, y
  <2>4. frames \in Seq({x, y})
    <3>1. <<>> \in Seq({x, y}) /\ <<x>> \in Seq({x, y})
      OBVIOUS
    <3>2. <<y>> \in Seq({x, y}) /\ <<x, y>> \in Seq({x, y})
      OBVIOUS
    <3> QED
      BY <3>1, <3>2, ConcatProperties
  <2> HIDE DEF frames
  <2> QED
    BY <2>2, <2>3, <2>4, GoesOnPassing
<1>5. CASE Parentheses
  <2> DEFINE x == Child("list", Head(todo).arg)
  <2>1. At("expr") /\ Continue(<<x>>) /\ UNCHANGED <<function, module>>
    BY <1>5 DEF Parentheses, unit
  <2>2. \A z \in {x} : z.at # "params"
    BY DEF Child, Resume
  <2> HIDE DEF x
  <2>3. <<x>> \in Seq({x})
    OBVIOUS
  <2> QED
    BY <2>1, <2>2, <2>3, GoesOnPassing
<1>6. CASE \E c \in Literals : PrimaryExpression(c)
  <2>1. PICK c \in Literals : PrimaryExpression(c)
    BY <1>6
  <2> DEFINE f == [function EXCEPT !.consts = Append(@, c)]
  <2>2. /\ At("expr") /\ Continue(<<>>) /\ UNCHANGED module
        /\ \E instr : function' = EmitInstr(f, instr)
    BY <2>1 DEF PrimaryExpression, unit
  <2>3. HasParams(function) /\ InFunction /\ Away(todo')
    BY <1>1, <2>2, ReturnsAway
  <2>4. SameParams(function, f)
    BY <2>3 DEF HasParams, SameParams
  <2> HIDE DEF f
  <2>5. SameParams(f, function')
    BY <2>2, <2>4, BuilderParams DEF SameParams
  <2> QED
    BY <2>2, <2>3, <2>4, <2>5, SameTwice DEF Passes
<1>7. CASE \E n \in Names : IdentifierExpression(n)
  <2>1. /\ At("expr") \/ At("lvalue")
        /\ Continue(<<>>) /\ UNCHANGED module
        /\ \E instr : function' = EmitInstr(function, instr)
    BY <1>7 DEF IdentifierExpression, EmitAddress, unit
  <2> QED
    BY <2>1, ReturnsPassing
<1>8. CASE \E t \in {"int", "double"} : UnhandledExpression(t)
  <2>1. At("expr") /\ Continue(<<>>) /\ UNCHANGED <<function, module>>
    BY <1>8 DEF UnhandledExpression, unit
  <2> QED
    BY <2>1, ReturnsPassing
<1>9. CASE \/ \E op \in Operators \cap BinaryOperator : BinaryExpression(op)
           \/ \E op \in Operators \cap AssignmentOperator : AssignmentExpression(op)
  <2>1. PICK op \in Operators : BinaryExpression(op) \/ AssignmentExpression(op)
    BY <1>9
  <2>2. PICK place \in {"binaryLhs", "assignLhs"} :
          /\ At("expr") /\ UNCHANGED <<function, module>>
          /\ Continue(<<Child("expr", "rvalue"), Frame("rvalue"), Child(place, op)>>)
    BY <2>1 DEF BinaryExpression, AssignmentExpression, unit
  <2> DEFINE x == Child("expr", "rvalue")
             y == Frame("rvalue")
             z == Child(place, op)
  <2>3. At("expr") /\ Continue(<<x, y, z>>) /\ UNCHANGED <<function, module>>
    BY <2>2
  <2>4. x.at # "params" /\ y.at # "params" /\ z.at # "params"
    BY DEF Frame, Child, Resume
  <2> HIDE DEF x, y, z
  <2>5. <<x, y, z>> \in Seq({x, y, z})
    OBVIOUS
  <2> QED
    BY <2>3, <2>4, <2>5, GoesOnPassing
<1>10. CASE BinaryLhs
  <2> DEFINE x == Child("expr", "rvalue")
             y == Frame("rvalue")
             z == Resume("binary", Head(todo).arg, evaluated, <<LastInstr(function)>>)
  <2>1. At("binaryLhs") /\ Continue(<<x, y, z>>) /\ UNCHANGED <<function, module>>
    BY <1>10 DEF BinaryLhs, unit
  <2>2. x.at # "params" /\ y.at # "params" /\ z.at # "params"
    BY DEF Frame, Child, Resume
  <2> HIDE DEF x, y, z
  <2>3. <<x, y, z>> \in Seq({x, y, z})
    OBVIOUS
  <2> QED
    BY <2>1, <2>2, <2>3, GoesOnPassing
<1>11. CASE FinishBinary
  <2>1. /\ At("binary") /\ Continue(<<>>) /\ UNCHANGED module
        /\ \E instr : function' = EmitInstr(function, instr)
    BY <1>11 DEF FinishBinary, unit
  <2> QED
    BY <2>1, ReturnsPassing
<1>12. CASE AssignmentLhs
  <2> DEFINE x == Frame("lvalue")
             y == Resume("assign", Head(todo).arg, evaluated, <<LastInstr(function)>>)
  <2>1. At("assignLhs") /\ Continue(<<x, y>>) /\ UNCHANGED <<function, module>>
    BY <1>12 DEF AssignmentLhs, unit
  <2>2. x.at # "params" /\ y.at # "params"
    BY DEF Frame, Resume
  <2> HIDE DEF x, y
  <2>3. <<x, y>> \in Seq({x, y})
    OBVIOUS
  <2> QED
    BY <2>1, <2>2, <2>3, GoesOnPassing
<1>13. CASE FinishAssignment
  <2>1. /\ At("assign") /\ Continue(<<>>) /\ UNCHANGED module
        /\ function' = Assign(function, Head(todo).arg, LastInstr(function), Head(todo).ids[1])
    BY <1>13 DEF FinishAssignment, unit
  <2>2. Away(todo') /\ InFunction /\ HasParams(function)
    BY <1>1, <2>1, ReturnsAway
  <2> QED
    BY <2>1, <2>2, AssignParams DEF Passes
<1> QED
  BY <1>2, <1>3, <1>4, <1>5, <1>6, <1>7, <1>8, <1>9, <1>10, <1>11, <1>12, <1>13
     DEF Expressions

\* Statements.
LEMMA StatementsPass ==
    ASSUME IndInv, ParamInv, PlainParams, Statements
    PROVE  Passes
<1>1. ASSUME NEW place, At(place) PROVE InFunction /\ HasParams(function)
  BY <1>1, AwayWhen
<1>2. CASE NextStatement
  <2>1. At("stmts") /\ todo' = <<Frame("stmt")>> \o todo /\ UNCHANGED <<function, module>>
    BY <1>2 DEF NextStatement, unit
  <2>2. Frame("stmt").at # "params"
    BY DEF Frame, Resume
  <2>3. Away(todo')
    BY <2>1, <2>2, CallsAway
  <2> QED
    BY <1>1, <2>1, <2>3 DEF Passes, SameParams
<1>3. CASE CompoundStatement
  <2> DEFINE x == Frame("decls")
             y == Frame("stmts")
             z == Frame("endScope")
  <2>1. At("stmt") /\ Continue(<<x, y, z>>) /\ UNCHANGED <<function, module>>
    BY <1>3 DEF CompoundStatement, unit
  <2>2. x.at # "params" /\ y.at # "params" /\ z.at # "params"
    BY DEF Frame, Resume
  <2> HIDE DEF x, y, z
  <2>3. <<x, y, z>> \in Seq({x, y, z})
    OBVIOUS
  <2> QED
    BY <2>1, <2>2, <2>3, GoesOnPassing
<1>4. CASE EndCompound \/ UnhandledStatement
  <2>1. PICK place \in {"endScope", "stmt"} : At(place)
    BY <1>4 DEF EndCompound, UnhandledStatement
  <2>2. Continue(<<>>) /\ UNCHANGED <<function, module>>
    BY <1>4 DEF EndCompound, UnhandledStatement, unit
  <2> QED
    BY <2>1, <2>2, ReturnsPassing
<1>5. CASE ExpressionStatement
  <2> DEFINE x == Child("list", "discarded")
  <2>1. At("stmt") /\ Continue(<<x>>) /\ UNCHANGED <<function, module>>
    BY <1>5 DEF ExpressionStatement, unit
  <2>2. x.at # "params"
    BY DEF Child, Resume
  <2> HIDE DEF x
  <2>3. <<x>> \in Seq({x})
    OBVIOUS
  <2> QED
    BY <2>1, <2>2, <2>3, GoesOnPassing
<1>6. CASE EmptyStatement
  BY <1>1, <1>6 DEF EmptyStatement, Stop, unit, Passes
<1>7. CASE IfStatement
  <2> DEFINE x == Child("list", "unloaded")
             y == Frame("ifThen")
  <2>1. At("stmt") /\ Continue(<<x, y>>) /\ UNCHANGED <<function, module>>
    BY <1>7 DEF IfStatement, unit
  <2>2. x.at # "params" /\ y.at # "params"
    BY DEF Frame, Child, Resume
  <2> HIDE DEF x, y
  <2>3. <<x, y>> \in Seq({x, y})
    OBVIOUS
  <2> QED
    BY <2>1, <2>2, <2>3, GoesOnPassing
<1>8. CASE IfThen \/ IfElse
  <2>1. PICK place \in {"ifThen", "ifElse"} : At(place)
    BY <1>8 DEF IfThen, IfElse
  <2>2. InFunction /\ HasParams(function) /\ SameParams(function, function') /\ UNCHANGED module
    BY <1>1, <1>8, <2>1, IfParams DEF IfThen, IfElse, unit
  <2>3. PICK at \in {"ifElse", "ifEnd"} :
          \E ids : Continue(<<Frame("stmt"), Resume(at, "", "void", ids)>>)
    BY <1>8 DEF IfThen, IfElse
  <2>4. PICK ids : Continue(<<Frame("stmt"), Resume(at, "", "void", ids)>>)
    BY <2>3
  <2> DEFINE x == Frame("stmt")
             y == Resume(at, "", "void", ids)
  <2>5. x.at # "params" /\ y.at # "params" /\ Continue(<<x, y>>)
    BY <2>4 DEF Frame, Resume
  <2> HIDE DEF x, y
  <2>6. <<x, y>> \in Seq({x, y})
    OBVIOUS
  <2>7. Away(todo')
    BY <2>1, <2>5, <2>6, ContinuesAway
  <2> QED
    BY <2>2, <2>7 DEF Passes
<1>9. CASE IfWithoutElse \/ IfEnd
  <2>1. PICK place \in {"ifElse", "ifEnd"} : At(place)
    BY <1>9 DEF IfWithoutElse, IfEnd
  <2>2. /\ InFunction /\ SameParams(function, function') /\ UNCHANGED module
        /\ Continue(<<>>)
    BY <1>1, <1>9, <2>1, IfParams DEF IfWithoutElse, IfEnd, unit
  <2> QED
    BY <2>1, <2>2, ReturnsAway DEF Passes
<1>10. CASE ReturnExpression
  <2> DEFINE x == Child("list", "rvalue")
             y == Frame("rvalue")
             z == Frame("return")
  <2>1. At("stmt") /\ Continue(<<x, y, z>>) /\ UNCHANGED <<function, module>>
    BY <1>10 DEF ReturnExpression, unit
  <2>2. x.at # "params" /\ y.at # "params" /\ z.at # "params"
    BY DEF Frame, Child, Resume
  <2> HIDE DEF x, y, z
  <2>3. <<x, y, z>> \in Seq({x, y, z})
    OBVIOUS
  <2> QED
    BY <2>1, <2>2, <2>3, GoesOnPassing
<1>11. CASE FinishReturn \/ ReturnVoid
  <2>1. PICK place \in {"return", "stmt"} : At(place)
    BY <1>11 DEF FinishReturn, ReturnVoid
  <2>2. /\ Continue(<<>>) /\ UNCHANGED module
        /\ \E instr : function' = EmitInstr(function, instr)
    BY <1>11 DEF FinishReturn, ReturnVoid, unit
  <2> QED
    BY <2>1, <2>2, ReturnsPassing
<1> QED
  BY <1>2, <1>3, <1>4, <1>5, <1>6, <1>7, <1>8, <1>9, <1>10, <1>11 DEF Statements

\* Parameter k is stored to its alloca.
ReceivesAt(f, k) ==
    /\ 2 * k + 1 \in InstrIDs(f)
    /\ Instr(f, 2 * k).opcode = "ALLOCA"
    /\ Instr(f, 2 * k + 1).opcode = "STORE"
    /\ Instr(f, 2 * k + 1).operands = <<Value("PARAM", k), Value("INSTR", 2 * k)>>

\* The elements of a pair.
LEMMA PairElements ==
    ASSUME NEW v, NEW w, NEW s, s = <<v, w>>
    PROVE  Len(s) = 2 /\ DOMAIN s = {1, 2} /\ s[1] = v /\ s[2] = w
OBVIOUS

\* Later code does not change that.
LEMMA ReceivesLater ==
    ASSUME NEW f \in FunctionType, NEW g \in FunctionType, Later(f, g),
           NEW k \in Nat, ReceivesAt(f, k)
    PROVE  ReceivesAt(g, k)
<1> DEFINE i == 2 * k + 1
           v == Value("PARAM", k)
           w == Value("INSTR", 2 * k)
<1>1. /\ i \in InstrIDs(f) /\ 2 * k \in InstrIDs(f)
  BY FunctionFields DEF ReceivesAt, InstrIDs, LastInstr
<1>2. /\ i \in InstrIDs(g)
      /\ Instr(g, 2 * k).opcode = "ALLOCA" /\ Instr(g, i).opcode = "STORE"
  BY <1>1 DEF ReceivesAt, Later
<1>3. /\ Instr(f, i).operands = <<v, w>>
      /\ v.kind = "PARAM" /\ w.kind = "INSTR"
  BY DEF ReceivesAt, Value
<1> HIDE DEF v, w
<1>4. /\ Len(Instr(f, i).operands) = 2
      /\ DOMAIN Instr(f, i).operands = {1, 2}
      /\ Instr(f, i).operands[1] = v /\ Instr(f, i).operands[2] = w
  BY <1>3, PairElements
<1>5. /\ Len(Instr(g, i).operands) = 2
      /\ Instr(g, i).operands[1] = v /\ Instr(g, i).operands[2] = w
  BY <1>1, <1>3, <1>4 DEF Later
<1>6. Instr(g, i).operands \in Seq(LLVMValueID)
  <2>1. Instr(g, i) \in LLVMInstruction
    BY <1>2, InstrFields
  <2> QED
    BY <2>1 DEF LLVMInstruction
<1>7. Instr(g, i).operands = <<v, w>>
  <2> DEFINE s == Instr(g, i).operands
  <2>1. s \in Seq(LLVMValueID) /\ Len(s) = 2 /\ s[1] = v /\ s[2] = w
    BY <1>5, <1>6
  <2> HIDE DEF s
  <2>2. s = <<v, w>>
    BY <2>1
  <2> QED
    BY <2>2 DEF s
<1> QED
  BY <1>2, <1>7 DEF ReceivesAt, v, w

\* A function that has grown still receives the parameters it had.
LEMMA ReceivesGrown ==
    ASSUME NEW f \in FunctionType, NEW g \in FunctionType, Later(f, g),
           g.params = f.params, Receives(f)
    PROVE  Receives(g)
<1>1. \A k \in 0 .. Len(f.params) - 1 : k \in Nat /\ ReceivesAt(f, k)
  <2>1. \A k \in 0 .. Len(f.params) - 1 : k \in Nat
    BY FunctionFields
  <2> QED
    BY <2>1 DEF Receives, ReceivesAt
<1>2. \A k \in 0 .. Len(f.params) - 1 : ReceivesAt(g, k)
  BY <1>1, ReceivesLater
<1> QED
  BY <1>2 DEF Receives, ReceivesAt

\* Emitting an instruction pushes it, and leaves the parameter list alone.
LEMMA EmitPushes ==
    ASSUME NEW f \in FunctionType, f.blocks # <<>>, NEW instr \in LLVMInstruction,
           NEW g, g = EmitInstr(f, instr)
    PROVE  /\ g \in FunctionType /\ g.params = f.params /\ Len(g.blocks) = Len(f.blocks)
           /\ Pushes(f, g, instr)
BY EmitInstrShape DEF Pushes

\* An alloca and a store are emitted for each parameter.
LEMMA ParameterReceived ==
    ASSUME NEW f, Well(f), NEW n \in Names, NEW type \in VarTypes,
           Receives(f), Len(f.instructions) = 2 * Len(f.params),
           NEW g, g = AddParameter(EmitInstr(f, Alloca(type)), n),
           g \in FunctionType, Later(f, g)
    PROVE  Receives(g) /\ Len(g.instructions) = 2 * Len(g.params)
<1> DEFINE m == Len(f.params)
           alloca == Alloca(type)
           a == EmitInstr(f, alloca)
           h == [a EXCEPT !.params = Append(@, n)]
           v == Value("PARAM", Len(a.params))
           w == Value("INSTR", LastInstr(a))
           store == Instruction("STORE", "void", <<v, w>>)
<1>1. /\ f \in FunctionType /\ f.blocks # <<>> /\ m \in Nat /\ Len(f.instructions) = 2 * m
      /\ f.params \in Seq(Names)
  BY FunctionFields DEF Well
<1>2. g = EmitInstr(h, store)
  BY DEF AddParameter
<1>3. alloca \in LLVMInstruction /\ alloca.opcode = "ALLOCA"
  BY AllocaWell DEF Alloca, Instruction
<1> HIDE DEF alloca
<1>4. /\ a \in FunctionType /\ a.params = f.params /\ Len(a.blocks) = Len(f.blocks)
      /\ LastInstr(a) = 2 * m /\ InstrIDs(a) = InstrIDs(f) \cup {2 * m}
      /\ Instr(a, 2 * m) = alloca /\ Len(a.instructions) = 2 * m + 1
  <2>1. a \in FunctionType /\ a.params = f.params /\ Len(a.blocks) = Len(f.blocks)
        /\ Pushes(f, a, alloca)
    BY <1>1, <1>3, EmitPushes
  <2> HIDE DEF a, m
  <2>2. /\ Len(a.instructions) = Len(f.instructions) + 1
        /\ LastInstr(a) = Len(f.instructions)
        /\ InstrIDs(a) = InstrIDs(f) \cup {Len(f.instructions)}
        /\ Instr(a, Len(f.instructions)) = alloca
    BY <1>1, <2>1, OneMore
  <2> QED
    BY <1>1, <2>1, <2>2
<1> HIDE DEF a
<1>5. a.blocks # <<>>
  BY <1>1, <1>4, FunctionFields
<1>6. Append(f.params, n) \in Seq(Names) /\ Len(Append(f.params, n)) = m + 1
  BY <1>1
<1>7. /\ h \in FunctionType /\ h.instructions = a.instructions /\ h.blocks = a.blocks
      /\ h.params = Append(f.params, n)
  BY <1>4, <1>6 DEF FunctionType, LLVMFunction
<1> HIDE DEF h
<1>8. v = Value("PARAM", m) /\ w = Value("INSTR", 2 * m)
  BY <1>4
<1>9. v \in LLVMValueID /\ w \in LLVMValueID /\ v.kind = "PARAM" /\ w.kind = "INSTR"
  BY <1>1, <1>8 DEF Value, LLVMValueID, LLVMValueKind
<1>10. "STORE" \in LLVM!Operation /\ "void" \in LLVMType
  BY DEF LLVM!Operation, LLVMType
<1> HIDE DEF v, w
<1>11. /\ store \in LLVMInstruction /\ WellFormed(store) /\ store.opcode = "STORE" /\ store.operands = <<v, w>>
  BY <1>9, <1>10, PairWell, Makes
<1> HIDE DEF store
<1>12. /\ g.params = Append(f.params, n) /\ Len(g.params) = m + 1
       /\ Pushes(h, g, store)
  BY <1>2, <1>5, <1>6, <1>7, <1>11, EmitPushes
<1>13. /\ Len(g.instructions) = Len(h.instructions) + 1
       /\ LastInstr(g) = Len(h.instructions)
       /\ InstrIDs(g) = InstrIDs(h) \cup {Len(h.instructions)}
       /\ \A i \in InstrIDs(h) : Instr(g, i) = Instr(h, i)
       /\ Instr(g, Len(h.instructions)) = store
  BY <1>7, <1>12, OneMore
<1>14. /\ Len(h.instructions) = 2 * m + 1 /\ InstrIDs(h) = InstrIDs(a)
       /\ Instr(h, 2 * m) = alloca
  BY <1>4, <1>7 DEF InstrIDs, LastInstr, Instr
<1>15. ReceivesAt(g, m)
  <2>1. 2 * m \in InstrIDs(h)
    BY <1>4, <1>14
  <2> QED
    BY <1>3, <1>8, <1>11, <1>13, <1>14, <2>1 DEF ReceivesAt
<1>16. \A k \in 0 .. m - 1 : ReceivesAt(g, k)
  <2>1. \A k \in 0 .. m - 1 : k \in Nat
    BY <1>1
  <2>2. \A k \in 0 .. m - 1 : ReceivesAt(f, k)
    BY DEF Receives, ReceivesAt
  <2> QED
    BY <1>1, <1>4, <2>1, <2>2, ReceivesLater
<1>17. Len(g.instructions) = 2 * Len(g.params)
  BY <1>1, <1>12, <1>13, <1>14
<1>18. \A k \in 0 .. Len(g.params) - 1 : k \in 0 .. m - 1 \/ k = m
  BY <1>1, <1>12
<1> HIDE DEF m
<1>19. \A k \in 0 .. Len(g.params) - 1 : ReceivesAt(g, k)
  BY <1>15, <1>16, <1>18
<1> QED
  BY <1>17, <1>19 DEF Receives, ReceivesAt

\* Within a function.
LEMMA BodyParams ==
    ASSUME IndInv, IndInv', ShapeInv, Keeps, ParamInv, PlainParams,
           Declarations \/ Expressions \/ Statements
    PROVE  ParamInv'
<1>1. ASSUME Passes PROVE ParamInv'
  <2>1. /\ InFunction /\ UNCHANGED module /\ Receives(function) /\ Receiving(function, todo)
        /\ \A i \in DOMAIN module.functions : Receives(module.functions[i])
    BY <1>1 DEF Passes, ParamInv
  <2>2. ASSUME InFunction' PROVE Receives(function') /\ Receiving(function', todo')
    <3>1. CASE UNCHANGED <<function, todo>>
      BY <2>1, <3>1
    <3>2. CASE SameParams(function, function') /\ Away(todo')
      <4>1. /\ Later(function, function') /\ function \in FunctionType
            /\ function' \in FunctionType /\ function'.params = function.params
        BY <2>1, <2>2, <3>2 DEF Keeps, InFunction, IndInv, TypeOK, SameParams
      <4> QED
        BY <2>1, <3>2, <4>1, ReceivesGrown DEF Receiving
    <3> QED
      BY <1>1, <3>1, <3>2 DEF Passes
  <2> QED
    BY <2>1, <2>2 DEF ParamInv
<1>2. ASSUME NEW n \in VarNames, NEW t \in VarTypes, ParameterIdentifier(n, t) PROVE ParamInv'
  <2>1. /\ At("params") /\ UNCHANGED <<module, todo>> /\ n \in Names
        /\ function' = AddParameter(EmitInstr(function, Alloca(t)), n)
    BY <1>2 DEF ParameterIdentifier, unit, Names
  <2>2. /\ InFunction /\ todo # <<>> /\ todo \in Seq(FrameType) /\ Head(todo).at = "params"
    BY <2>1, AtFacts
  <2>3. /\ Receives(function) /\ Receiving(function, todo)
        /\ \A i \in DOMAIN module.functions : Receives(module.functions[i])
    BY <2>2 DEF ParamInv
  <2>4. ~Away(todo)
    BY <2>2, HeadAndRest DEF Away
  <2>5. Away(Tail(todo)) /\ Len(function.instructions) = 2 * Len(function.params)
    BY <2>3, <2>4 DEF Receiving
  <2>6. Well(function)
    BY <2>1, AtOther DEF ShapeInv, Tidy
  <2>7. ASSUME InFunction' PROVE Receives(function') /\ Receiving(function', todo')
    <3>1. Later(function, function') /\ function' \in FunctionType
      BY <2>7 DEF Keeps, InFunction, IndInv, TypeOK
    <3>2. Receives(function') /\ Len(function'.instructions) = 2 * Len(function'.params)
      BY <2>1, <2>3, <2>5, <2>6, <3>1, ParameterReceived
    <3> QED
      BY <2>1, <2>2, <2>5, <3>2 DEF Receiving
  <2> QED
    BY <2>1, <2>3, <2>7 DEF ParamInv
<1> QED
  BY <1>1, <1>2, DeclarationsPass, ExpressionsPass, StatementsPass

\* A function begins without parameters, and with instructions for none.
LEMMA FunctionDefinitionParams ==
    ASSUME IndInv, ParamInv, PlainParams,
           NEW g \in FuncNames, NEW pointer \in BOOLEAN, FunctionDefinition(g, pointer)
    PROVE  ParamInv'
<1> DEFINE a == Frame("params")
           b == Frame("decls")
           c == Frame("stmts")
<1>1. /\ function' = [NewFunction EXCEPT !.name = g]
      /\ todo' = <<a, b, c>> /\ UNCHANGED module
  BY DEF FunctionDefinition, unit, PlainParams
<1>2. a.at = "params" /\ b.at # "params" /\ c.at # "params"
  BY DEF Frame, Resume
<1>3. function'.params = <<>> /\ function'.instructions = <<>>
  BY <1>1 DEF NewFunction, CreateBlock, NoFunction
<1> HIDE DEF a, b, c
<1>4. todo' # <<>> /\ Head(todo') = a /\ Tail(todo') = <<b, c>>
  BY <1>1
<1>5. Away(<<b, c>>)
  <2>1. \A j \in DOMAIN <<b, c>> : <<b, c>>[j] \in {b, c}
    OBVIOUS
  <2> QED
    BY <1>2, <2>1 DEF Away
<1>6. Len(<<>>) = 0
  OBVIOUS
<1>7. Receiving(function', todo')
  <2>1. Head(todo').at = "params" /\ Away(Tail(todo'))
    BY <1>2, <1>4, <1>5
  <2>2. Len(function'.instructions) = 2 * Len(function'.params)
    BY <1>3, <1>6
  <2> QED
    BY <1>4, <2>1, <2>2 DEF Receiving
<1>8. Receives(function')
  BY <1>3, <1>6 DEF Receives
<1> QED
  BY <1>1, <1>7, <1>8 DEF ParamInv

\* Outside of the body of a function.
LEMMA ExternalParams ==
    ASSUME IndInv, ParamInv, PlainParams, External
    PROVE  ParamInv'
<1>1. CASE EndFunction
  <2>1. /\ InFunction /\ function' = NoFunction
        /\ module' = [module EXCEPT !.functions = Append(@, function)]
    BY <1>1 DEF EndFunction
  <2>2. /\ Receives(function)
        /\ \A i \in DOMAIN module.functions : Receives(module.functions[i])
    BY <2>1 DEF ParamInv
  <2>3. /\ module.functions \in Seq(FunctionType) /\ function \in FunctionType
        /\ module \in [functions : Seq(FunctionType), globals : Seq(VarNames \cup {NoName})]
    BY DEF IndInv, TypeOK
  <2>4. module'.functions = Append(module.functions, function)
    BY <2>1, <2>3
  <2>5. /\ Len(module.functions) \in Nat
        /\ DOMAIN module.functions = 1 .. Len(module.functions)
        /\ DOMAIN module'.functions = 1 .. Len(module.functions) + 1
        /\ \A j \in 1 .. Len(module.functions) : module'.functions[j] = module.functions[j]
        /\ module'.functions[Len(module.functions) + 1] = function
    BY <2>3, <2>4
  <2>6. \A i \in DOMAIN module'.functions : Receives(module'.functions[i])
    BY <2>2, <2>5
  <2> QED
    BY <2>1, <2>6 DEF ParamInv, InFunction
<1>2. CASE \E g \in FuncNames, pointer \in BOOLEAN : FunctionDefinition(g, pointer)
  BY <1>2, FunctionDefinitionParams
<1>3. ASSUME UNCHANGED function, ~InFunction, module'.functions = module.functions
      PROVE  ParamInv'
  BY <1>3 DEF ParamInv, InFunction
<1>4. CASE \/ GlobalDeclaration \/ EndUnit
           \/ \E n \in VarNames : GlobalInitialised(n)
           \/ \E n \in PtrNames : GlobalPointer(n)
           \/ \E n \in VarNames, t \in VarTypes : GlobalIdentifier(n, t)
  <2>1. UNCHANGED <<function, module>> /\ ~InFunction
    BY <1>4 DEF GlobalDeclaration, GlobalInitialised, GlobalPointer, GlobalIdentifier, EndUnit,
                Outside, InGlobal, Stop, unit, IndInv, ContextOK
  <2> QED
    BY <1>3, <2>1
<1>5. CASE EndGlobal
  <2>1. /\ UNCHANGED function /\ ~InFunction
        /\ module' = [module EXCEPT !.globals = Append(@, global[1])]
    BY <1>5 DEF EndGlobal, InGlobal, IndInv, ContextOK
  <2>2. module'.functions = module.functions
    BY <2>1 DEF IndInv, TypeOK
  <2> QED
    BY <1>3, <2>1, <2>2
<1> QED
  BY <1>1, <1>2, <1>4, <1>5 DEF External

\* The parameters at the start, and after every step.
LEMMA InitParams == Init => ParamInv
<1> SUFFICES ASSUME Init PROVE ParamInv
  OBVIOUS
<1>1. ~InFunction /\ DOMAIN module.functions = {}
  BY DEF Init, InFunction
<1> QED
  BY <1>1 DEF ParamInv

LEMMA StepParams ==
    ASSUME IndInv, IndInv', ShapeInv, ParamInv, [Next]_vars
    PROVE  ParamInv'
<1> SUFFICES ASSUME PlainParams PROVE ParamInv'
  BY DEF ParamInv
<1>1. Keeps
  BY StepKeeps
<1>2. CASE External
  BY <1>2, ExternalParams
<1>3. CASE Declarations \/ Expressions \/ Statements
  BY <1>1, <1>3, BodyParams
<1>4. CASE Ended \/ UNCHANGED vars
  BY <1>4 DEF Ended, vars, ParamInv, InFunction
<1> QED
  BY <1>2, <1>3, <1>4 DEF Next

\* Where parameters are declared by plain declarators and by those of function
\* definitions only, a function stores its parameters to their allocas before it
\* does anything else: no later code can have overwritten their registers.
THEOREM ParametersComeFirst ==
    ASSUME "pointer" \notin Fragment, "prototype" \notin Fragment
    PROVE  Spec => []ParametersFirst
<1>1. PlainParams
  BY DEF PlainParams
<1>2. IndInv /\ ShapeInv /\ ParamInv /\ [Next]_vars /\ IndInv' => ParamInv'
  BY StepParams
<1>3. ParamInv => ParametersFirst
  <2> SUFFICES ASSUME ParamInv, NEW f \in AllFunctions
               PROVE  \A k \in 0 .. Len(f.params) - 1 :
                          /\ Instr(f, 2 * k).opcode = "ALLOCA"
                          /\ Instr(f, 2 * k + 1).opcode = "STORE"
                          /\ Instr(f, 2 * k + 1).operands =
                               <<Value("PARAM", k), Value("INSTR", 2 * k)>>
    BY DEF ParametersFirst
  <2>1. Receives(f)
    BY <1>1 DEF AllFunctions, Functions, ParamInv
  <2> QED
    BY <2>1 DEF Receives
<1> QED
  BY <1>2, <1>3, InitParams, ShapeInvariant, PTL DEF Spec

-----------------------------------------------------------------------------
(* Names: layers and scopes *)

\* The compound statements under way, each of which has a scope in the table
\* but no layer of its own.
EndsScope(s) == {j \in DOMAIN s : s[j].at = "endScope"}
Depth(s) == Cardinality(EndsScope(s))
Bodies == IF InFunction THEN 1 ELSE 0
ScopesFit == Len(table) = 1 + Bodies + Depth(todo)

\* The layers outside of the function, and the innermost one.
GlobalLayers == 1 .. Len(identifiers) - Bodies
LastLayer == identifiers[Len(identifiers)]
Initialises(s) == \E j \in DOMAIN s : s[j].at \in {"init", "store"}

\* The layers know the names of the table: those of the file are outside of the
\* function, all others in its layer, whatever block they were declared in.
NamesKnown ==
    /\ \A n \in DOMAIN table[1] : \E i \in GlobalLayers : n \in DOMAIN identifiers[i]
    /\ \A j \in DOMAIN table \ {1} : \A n \in DOMAIN table[j] : n \in DOMAIN LastLayer
    /\ Initialises(todo) => initialising \in DOMAIN LastLayer

\* They hold the same storage, and no name is both of the file and of the function.
SameStorage ==
    /\ \A i \in GlobalLayers : \A n \in DOMAIN identifiers[i] :
         n \in DOMAIN table[1] /\ identifiers[i][n] = table[1][n].storage
    /\ \A j \in DOMAIN table \ {1} : \A n \in DOMAIN table[j] :
         n \notin DOMAIN table[1] /\ table[j][n].storage = LastLayer[n]
NoShadows == "shadow" \notin Fragment
NamesInv == ScopesFit /\ NamesKnown /\ (NoShadows => SameStorage)

\* How many compound statements a stack of frames is in.
LEMMA DepthConcat ==
    ASSUME NEW S, NEW s \in Seq(S), NEW T, NEW t \in Seq(T)
    PROVE  Depth(s \o t) = Depth(s) + Depth(t) /\ Depth(s) \in Nat /\ Depth(t) \in Nat
<1> DEFINE n == Len(s)
           U == {i + n : i \in EndsScope(t)}
           f == [i \in EndsScope(t) |-> i + n]
<1>1. /\ n \in Nat /\ Len(t) \in Nat /\ DOMAIN s = 1 .. n /\ DOMAIN t = 1 .. Len(t)
      /\ DOMAIN (s \o t) = 1 .. n + Len(t)
      /\ \A i \in 1 .. n + Len(t) : (s \o t)[i] = IF i <= n THEN s[i] ELSE t[i - n]
  OBVIOUS
<1>2. EndsScope(s) \subseteq 1 .. n /\ EndsScope(t) \subseteq 1 .. Len(t)
  BY <1>1 DEF EndsScope
<1> HIDE DEF n
<1>3. EndsScope(s \o t) = EndsScope(s) \cup U
  <2>1. ASSUME NEW i \in EndsScope(s \o t) PROVE i \in EndsScope(s) \cup U
    <3>1. i \in 1 .. n + Len(t) /\ (s \o t)[i].at = "endScope"
      BY <1>1, <2>1 DEF EndsScope
    <3>2. CASE i <= n
      BY <1>1, <3>1, <3>2 DEF EndsScope
    <3>3. CASE ~(i <= n)
      <4>1. i - n \in DOMAIN t /\ t[i - n].at = "endScope" /\ i = (i - n) + n
        BY <1>1, <3>1, <3>3
      <4>2. i - n \in EndsScope(t)
        BY <4>1 DEF EndsScope
      <4> QED
        BY <4>1, <4>2
    <3> QED
      BY <3>2, <3>3
  <2>2. ASSUME NEW i \in EndsScope(s) PROVE i \in EndsScope(s \o t)
    BY <1>1, <2>2 DEF EndsScope
  <2>3. ASSUME NEW j \in EndsScope(t) PROVE j + n \in EndsScope(s \o t)
    <3>1. j \in 1 .. Len(t) /\ t[j].at = "endScope"
      BY <1>1, <2>3 DEF EndsScope
    <3>2. j + n \in 1 .. n + Len(t) /\ ~(j + n <= n) /\ (j + n) - n = j
      BY <1>1, <3>1
    <3> QED
      BY <1>1, <3>1, <3>2 DEF EndsScope
  <2> QED
    BY <2>1, <2>2, <2>3
<1>4. EndsScope(s) \cap U = {}
  BY <1>1, <1>2
<1>5. f \in Bijection(EndsScope(t), U)
  BY <1>1, <1>2 DEF Bijection, Injection, Surjection, IsInjective
<1>6. IsFiniteSet(EndsScope(s)) /\ IsFiniteSet(EndsScope(t))
  <2>1. IsFiniteSet(1 .. n) /\ IsFiniteSet(1 .. Len(t))
    BY <1>1, FS_Interval
  <2> QED
    BY <1>2, <2>1, FS_Subset
<1>7. Depth(s) \in Nat /\ Depth(t) \in Nat
  BY <1>6, FS_CardinalityType DEF Depth
<1>8. IsFiniteSet(U) /\ Cardinality(U) = Depth(t)
  BY <1>5, <1>6, FS_Bijection DEF ExistsBijection, Depth
<1> HIDE DEF U
<1>9. Cardinality(EndsScope(s) \cup U)
        = Cardinality(EndsScope(s)) + Cardinality(U) - Cardinality(EndsScope(s) \cap U)
  BY <1>6, <1>8, FS_Union
<1>10. Cardinality(EndsScope(s) \cap U) = 0
  BY <1>4, FS_EmptySet
<1>11. Depth(s \o t) = Depth(s) + Depth(t) - 0
  BY <1>3, <1>8, <1>9, <1>10 DEF Depth
<1> QED
  BY <1>7, <1>11

\* Frames that end no scope.
LEMMA DepthNone ==
    ASSUME NEW S, NEW s \in Seq(S), \A x \in S : x.at # "endScope"
    PROVE  Depth(s) = 0
<1>1. EndsScope(s) = {}
  BY DEF EndsScope
<1> QED
  BY <1>1, FS_EmptySet DEF Depth

\* One frame.
LEMMA DepthOne ==
    ASSUME NEW x
    PROVE  Depth(<<x>>) = IF x.at = "endScope" THEN 1 ELSE 0
<1>1. DOMAIN <<x>> = {1} /\ <<x>>[1] = x
  OBVIOUS
<1>2. EndsScope(<<x>>) = IF x.at = "endScope" THEN {1} ELSE {}
  BY <1>1 DEF EndsScope
<1> QED
  BY <1>2, FS_EmptySet, FS_Singleton DEF Depth

\* The head and the rest.
LEMMA DepthHead ==
    ASSUME NEW S, NEW s \in Seq(S), s # <<>>
    PROVE  /\ Depth(Tail(s)) \in Nat /\ Tail(s) \in Seq(S)
           /\ Depth(s) = Depth(Tail(s)) + (IF Head(s).at = "endScope" THEN 1 ELSE 0)
<1>1. /\ Head(s) \in S /\ Tail(s) \in Seq(S) /\ <<Head(s)>> \in Seq(S)
      /\ s = <<Head(s)>> \o Tail(s)
  OBVIOUS
<1>2. /\ Depth(s) = Depth(<<Head(s)>>) + Depth(Tail(s))
      /\ Depth(Tail(s)) \in Nat
  BY <1>1, DepthConcat
<1>3. Depth(<<Head(s)>>) = IF Head(s).at = "endScope" THEN 1 ELSE 0
  BY DepthOne
<1> QED
  BY <1>1, <1>2, <1>3

-----------------------------------------------------------------------------
(* The function under construction stays *)

\* A block is created where the branches of an if statement join.
LEMMA EndIfBlocks ==
    ASSUME NEW f \in FunctionType, NEW c \in Nat, NEW jump, NEW e
    PROVE  EndIf(f, c, jump, e).blocks # <<>>
<1> DEFINE role == "if_end"
           h == CreateBlock(f, role, c)
           t == LastBlock(h)
           h1 == IF Instr(h, c).operands[3].id = 0 THEN PatchOperand(h, c, 2, t) ELSE h
           h2 == PatchOperand(h1, e, 0, t)
           g == EndIf(f, c, jump, e)
<1>1. g = PatchOperand(h2, jump, 0, t)
  BY DEF EndIf
<1>2. h \in FunctionType /\ h.blocks # <<>>
  <2>1. role \in LabelRole
    BY Roles
  <2> HIDE DEF role
  <2> QED
    BY <2>1, CreateBlockShape
<1> HIDE DEF h, t, g
<1>3. h1.blocks = h.blocks /\ "blocks" \in DOMAIN h1
  BY <1>2, HasBlocks, PatchBlocks
<1> HIDE DEF h1
<1>4. h2.blocks = h.blocks /\ "blocks" \in DOMAIN h2
  BY <1>3, PatchBlocks
<1> HIDE DEF h2
<1>5. g.blocks = h.blocks
  BY <1>1, <1>4, PatchBlocks
<1> QED
  BY <1>2, <1>5 DEF g

\* No handler within a function ends it.
LEMMA StaysInFunction ==
    ASSUME IndInv, IndInv', ShapeInv, Declarations \/ Expressions \/ Statements
    PROVE  InFunction /\ InFunction'
<1>1. InFunction
  BY ExpressionsDeclare, StatementsDeclare, DeclarationsDeclare
<1>2. NoFunction.blocks = <<>>
  BY DEF NoFunction
<1>3. ASSUME Well(function') PROVE InFunction'
  BY <1>2, <1>3 DEF Well, InFunction
<1>4. CASE RunStep
  BY <1>3, <1>4 DEF RunStep, Runs
<1>5. CASE UNCHANGED <<function, module, todo>>
  BY <1>1, <1>5 DEF InFunction
<1>6. CASE IfThen \/ IfElse
  <2>1. todo' # <<>>
    <3>1. PICK x, y : Continue(<<x, y>>)
      BY <1>6 DEF IfThen, IfElse
    <3>2. Tail(todo) \in Seq(FrameType)
      BY <1>6, AtFacts, HeadAndRest DEF IfThen, IfElse
    <3> QED
      BY <3>1, <3>2 DEF Continue
  <2>2. ContextOK'
    BY DEF IndInv
  <2> QED
    BY <1>1, <2>1, <2>2 DEF ContextOK
<1>7. CASE IfWithoutElse \/ IfEnd
  <2>1. PICK place \in {"ifElse", "ifEnd"} : At(place)
    BY <1>7 DEF IfWithoutElse, IfEnd
  <2>2. FrameOK(function, Head(todo)) /\ Head(todo).at \in {"ifElse", "ifEnd"} /\ Well(function)
    BY <2>1, AtFacts DEF ShapeInv, Tidy
  <2>3. Head(todo).ids[1] \in Nat
    <3>1. Head(todo).ids[1] \in InstrIDs(function)
      BY <2>2 DEF FrameOK, BranchTo
    <3> QED
      BY <3>1 DEF InstrIDs
  <2>4. EmitInstr(function, JumpEnd) \in FunctionType /\ function \in FunctionType
    BY <2>2, EmitJumpWell DEF Well
  <2>5. function'.blocks # <<>>
    BY <1>7, <2>3, <2>4, EndIfBlocks DEF IfWithoutElse, IfEnd
  <2>6. function' # NoFunction
    BY <1>2, <2>5
  <2> QED
    BY <1>1, <2>6 DEF InFunction
<1>8. CASE Keeps /\ Statements
  <2>1. CASE \/ NextStatement \/ CompoundStatement \/ EndCompound \/ ExpressionStatement
             \/ UnhandledStatement \/ IfStatement \/ ReturnExpression
    BY <2>1, <1>4, <1>5, PlainStatementRuns
  <2>2. CASE FinishReturn \/ ReturnVoid
    BY <2>2, <1>4, <1>5, ReturnRuns
  <2>3. CASE EmptyStatement
    BY <1>5, <2>3 DEF EmptyStatement, Stop, unit
  <2> QED
    BY <1>6, <1>7, <1>8, <2>1, <2>2, <2>3 DEF Statements
<1> QED
  BY <1>4, <1>5, <1>8, DeclarationsRun, ExpressionsRun, StatementsKeep

-----------------------------------------------------------------------------
(* What the steps do to the layers, the scopes and the stack *)

\* The visitor is in the same compound statements, and initialises nothing new.
Same(s, t) == Depth(t) = Depth(s) /\ (Initialises(t) => Initialises(s))
\* A frame other than that of an initializer or of the end of a scope.
Neutral(x) == x.at \notin {"init", "store", "endScope"}

\* A step that goes on within a function, and opens or closes no scope.
Walks ==
    InFunction /\ InFunction' /\ UNCHANGED <<identifiers, initialising, table>> /\ Same(todo, todo')
\* A declaration of local variable n.
BindsLocal(n) ==
    /\ InFunction /\ InFunction' /\ Declarable(n) /\ Depth(todo') = Depth(todo)
    /\ \E v \in LLVMValueID, type \in CType :
          /\ identifiers' = BindCurrent(identifiers, n, v)
          /\ table' = AddToScope(table, n, Symbol(type, v))
    /\ (UNCHANGED initialising /\ Same(todo, todo')) \/ initialising' = n
\* A compound statement begins, or ends.
OpensScope ==
    /\ InFunction /\ InFunction' /\ UNCHANGED <<identifiers, initialising>>
    /\ table' = PushScope(table)
    /\ Depth(todo') = Depth(todo) + 1 /\ (Initialises(todo') => Initialises(todo))
ClosesScope ==
    /\ InFunction /\ InFunction' /\ UNCHANGED <<identifiers, initialising>>
    /\ table' = PopScope(table)
    /\ Depth(todo') = Depth(todo) - 1 /\ (Initialises(todo') => Initialises(todo))

\* Frames that initialise nothing, on top of others.
LEMMA InitialisesConcat ==
    ASSUME NEW S, NEW s \in Seq(S), NEW T, NEW t \in Seq(T),
           \A x \in S : x.at \notin {"init", "store"}, Initialises(s \o t)
    PROVE  Initialises(t)
<1>1. /\ Len(s) \in Nat /\ Len(t) \in Nat /\ DOMAIN t = 1 .. Len(t)
      /\ DOMAIN (s \o t) = 1 .. Len(s) + Len(t)
      /\ \A i \in 1 .. Len(s) + Len(t) :
            (s \o t)[i] = IF i <= Len(s) THEN s[i] ELSE t[i - Len(s)]
      /\ \A i \in 1 .. Len(s) : s[i] \in S
  OBVIOUS
<1>2. PICK j \in 1 .. Len(s) + Len(t) : (s \o t)[j].at \in {"init", "store"}
  BY <1>1 DEF Initialises
<1>3. CASE j <= Len(s)
  <2>1. j \in 1 .. Len(s) /\ (s \o t)[j] = s[j]
    BY <1>1, <1>3
  <2> QED
    BY <1>1, <1>2, <2>1
<1>4. CASE ~(j <= Len(s))
  <2>1. j - Len(s) \in DOMAIN t /\ t[j - Len(s)] = (s \o t)[j]
    BY <1>1, <1>4
  <2> QED
    BY <1>2, <2>1 DEF Initialises
<1> QED
  BY <1>3, <1>4

\* The frames below the top one.
LEMMA RestOfStack ==
    ASSUME IndInv, NEW place, At(place)
    PROVE  /\ todo \in Seq(FrameType) /\ Tail(todo) \in Seq(FrameType)
           /\ Depth(Tail(todo)) \in Nat /\ Depth(todo) \in Nat
           /\ place # "endScope" => Depth(todo) = Depth(Tail(todo))
           /\ place = "endScope" => Depth(todo) = Depth(Tail(todo)) + 1
           /\ Initialises(Tail(todo)) => Initialises(todo)
           /\ place \in {"init", "store"} => Initialises(todo)
<1>1. todo \in Seq(FrameType) /\ todo # <<>> /\ Head(todo).at = place
  BY AtFacts
<1>2. /\ Depth(Tail(todo)) \in Nat /\ Tail(todo) \in Seq(FrameType)
      /\ Depth(todo) = Depth(Tail(todo)) + (IF place = "endScope" THEN 1 ELSE 0)
  BY <1>1, DepthHead
<1>3. Initialises(Tail(todo)) => Initialises(todo)
  BY <1>1, HeadAndRest DEF Initialises
<1>4. place \in {"init", "store"} => Initialises(todo)
  BY <1>1, HeadAndRest DEF Initialises
<1> QED
  BY <1>1, <1>2, <1>3, <1>4

\* Frames that end no scope, in place of the top one.
LEMMA ContinueSame ==
    ASSUME IndInv, NEW place, At(place), place # "endScope",
           NEW S, \A x \in S : Neutral(x) \/ (x.at # "endScope" /\ place = "init"),
           NEW frames \in Seq(S), Continue(frames)
    PROVE  Same(todo, todo')
<1>1. todo' = frames \o Tail(todo)
  BY DEF Continue
<1>2. \A x \in S : x.at # "endScope"
  BY DEF Neutral
<1>3. Depth(todo') = Depth(frames) + Depth(Tail(todo)) /\ Depth(frames) = 0
  BY <1>1, <1>2, RestOfStack, DepthConcat, DepthNone
<1>4. Initialises(todo') => Initialises(todo)
  <2>1. CASE place = "init"
    BY <2>1, RestOfStack
  <2>2. CASE place # "init"
    BY <1>1, <2>2, RestOfStack, InitialisesConcat DEF Neutral
  <2> QED
    BY <2>1, <2>2
<1> QED
  BY <1>3, <1>4, RestOfStack DEF Same

\* The handler returns.
LEMMA ReturnsSame ==
    ASSUME IndInv, NEW place, At(place), place # "endScope", Continue(<<>>)
    PROVE  Same(todo, todo')
<1>1. <<>> \in Seq({})
  OBVIOUS
<1> HIDE DEF Continue
<1> QED
  BY <1>1, ContinueSame

\* A frame takes the place of another.
LEMMA OneSame ==
    ASSUME IndInv, NEW place, At(place), place # "endScope",
           NEW x, Neutral(x), Continue(<<x>>)
    PROVE  Same(todo, todo')
<1>1. <<x>> \in Seq({x})
  OBVIOUS
<1> HIDE DEF Continue
<1> QED
  BY <1>1, ContinueSame

\* Two frames take the place of one.
LEMMA TwoSame ==
    ASSUME IndInv, NEW place, At(place), place # "endScope",
           NEW x, Neutral(x), NEW y, Neutral(y), Continue(<<x, y>>)
    PROVE  Same(todo, todo')
<1>1. <<x, y>> \in Seq({x, y})
  OBVIOUS
<1> HIDE DEF Continue
<1> QED
  BY <1>1, ContinueSame

\* So do three.
LEMMA ThreeSame ==
    ASSUME IndInv, NEW place, At(place), place # "endScope",
           NEW x, Neutral(x), NEW y, Neutral(y), NEW z, Neutral(z), Continue(<<x, y, z>>)
    PROVE  Same(todo, todo')
<1>1. <<x, y, z>> \in Seq({x, y, z})
  OBVIOUS
<1> HIDE DEF Continue
<1> QED
  BY <1>1, ContinueSame

\* A frame is pushed.
LEMMA PushSame ==
    ASSUME IndInv, NEW place, At(place), NEW x, x.at # "endScope", todo' = <<x>> \o todo
    PROVE  Depth(todo') = Depth(todo) /\ (Neutral(x) => Same(todo, todo'))
<1> DEFINE S == {x}
           frames == <<x>>
<1>1. frames \in Seq(S) /\ (\A y \in S : y.at # "endScope") /\ todo' = frames \o todo
  OBVIOUS
<1>2. Neutral(x) => \A y \in S : y.at \notin {"init", "store"}
  BY DEF Neutral
<1>3. todo \in Seq(FrameType) /\ Depth(todo) \in Nat
  BY RestOfStack
<1> HIDE DEF S, frames
<1>4. Depth(frames) = 0 /\ Depth(todo') = Depth(frames) + Depth(todo)
  BY <1>1, <1>3, DepthConcat, DepthNone
<1>5. Neutral(x) /\ Initialises(todo') => Initialises(todo)
  BY <1>1, <1>2, <1>3, InitialisesConcat
<1> QED
  BY <1>3, <1>4, <1>5 DEF Same

\* The frames of the handlers.
LEMMA NeutralFrames ==
    ASSUME NEW at, at \notin {"init", "store", "endScope"}
    PROVE  /\ Neutral(Frame(at)) /\ (\A position : Neutral(Child(at, position)))
           /\ \A arg, type, ids : Neutral(Resume(at, arg, type, ids))
BY DEF Neutral, Frame, Child, Resume

\* Expressions.
LEMMA ExpressionsWalk ==
    ASSUME IndInv, IndInv', ShapeInv, Expressions
    PROVE  Walks
<1> SUFFICES UNCHANGED initialising /\ Same(todo, todo')
  BY StaysInFunction, ExpressionsDeclare DEF Walks
<1>1. CASE EvaluateAsRValue \/ FinishBinary \/ FinishAssignment
           \/ (\E c \in Literals : PrimaryExpression(c))
           \/ (\E t \in {"int", "double"} : UnhandledExpression(t))
           \/ (\E n \in Names : IdentifierExpression(n))
  <2>1. UNCHANGED initialising /\ Continue(<<>>)
    BY <1>1 DEF EvaluateAsRValue, FinishBinary, FinishAssignment, PrimaryExpression,
                UnhandledExpression, IdentifierExpression, scopes
  <2>2. PICK place \in {"rvalue", "binary", "assign", "expr", "lvalue"} : At(place)
    BY <1>1 DEF EvaluateAsRValue, FinishBinary, FinishAssignment, PrimaryExpression,
                UnhandledExpression, IdentifierExpression
  <2> QED
    BY <2>1, <2>2, ReturnsSame
<1>2. CASE EvaluateAsRValueThrows \/ UntypedOperand \/ \E n \in Names : IdentifierThrows(n)
  <2>1. UNCHANGED initialising /\ UNCHANGED todo
    BY <1>2 DEF EvaluateAsRValueThrows, UntypedOperand, IdentifierThrows, Stop, scopes
  <2>2. PICK place \in {"rvalue", "expr", "lvalue"} : At(place)
    BY <1>2 DEF EvaluateAsRValueThrows, UntypedOperand, IdentifierThrows
  <2> QED
    BY <2>1 DEF Same
<1>3. CASE \E two \in BOOLEAN : ListExpression(two)
  <2>1. PICK two \in BOOLEAN : ListExpression(two)
    BY <1>3
  <2> DEFINE x == Child("expr", "discarded")
             y == Child("expr", Head(todo).arg)
             frames == (IF two THEN <<x>> ELSE <<>>) \o <<y>>
  <2>2. At("list") /\ Continue(frames) /\ UNCHANGED initialising
    BY <2>1 DEF ListExpression, scopes
  <2>3. \A z \in {x, y} : Neutral(z)
    BY NeutralFrames
  <2> HIDE DEF x, y
  <2>4. frames \in Seq({x, y})
    <3>1. <<>> \in Seq({x, y}) /\ <<x>> \in Seq({x, y})
      OBVIOUS
    <3>2. <<y>> \in Seq({x, y})
      OBVIOUS
    <3> QED
      BY <3>1, <3>2, ConcatProperties
  <2> HIDE DEF frames
  <2> QED
    BY <2>2, <2>3, <2>4, ContinueSame
<1>4. CASE Parentheses
  <2> DEFINE x == Child("list", Head(todo).arg)
  <2>1. At("expr") /\ Continue(<<x>>) /\ UNCHANGED initialising
    BY <1>4 DEF Parentheses, scopes
  <2>2. Neutral(x)
    BY NeutralFrames
  <2> HIDE DEF x
  <2> QED
    BY <2>1, <2>2, OneSame
<1>5. CASE \/ \E op \in Operators \cap BinaryOperator : BinaryExpression(op)
           \/ \E op \in Operators \cap AssignmentOperator : AssignmentExpression(op)
           \/ BinaryLhs
  <2> DEFINE x == Child("expr", "rvalue")
             y == Frame("rvalue")
             last == Resume("binary", Head(todo).arg, evaluated, <<LastInstr(function)>>)
  <2>1. /\ UNCHANGED initialising
        /\ \E op : \E z \in {Child("binaryLhs", op), Child("assignLhs", op), last} :
              Continue(<<x, y, z>>)
    BY <1>5 DEF BinaryExpression, AssignmentExpression, BinaryLhs, scopes
  <2>2. PICK op : \E z \in {Child("binaryLhs", op), Child("assignLhs", op), last} :
                      Continue(<<x, y, z>>)
    BY <2>1
  <2>3. PICK z \in {Child("binaryLhs", op), Child("assignLhs", op), last} :
                Continue(<<x, y, z>>)
    BY <2>2
  <2>4. Neutral(x) /\ Neutral(y) /\ Neutral(z)
    BY NeutralFrames
  <2>5. PICK place \in {"expr", "binaryLhs"} : At(place)
    BY <1>5 DEF BinaryExpression, AssignmentExpression, BinaryLhs
  <2> HIDE DEF x, y, last
  <2> QED
    BY <2>1, <2>3, <2>4, <2>5, ThreeSame
<1>6. CASE AssignmentLhs
  <2> DEFINE x == Frame("lvalue")
             y == Resume("assign", Head(todo).arg, evaluated, <<LastInstr(function)>>)
  <2>1. At("assignLhs") /\ Continue(<<x, y>>) /\ UNCHANGED initialising
    BY <1>6 DEF AssignmentLhs, scopes
  <2>2. Neutral(x) /\ Neutral(y)
    BY NeutralFrames
  <2> HIDE DEF x, y
  <2> QED
    BY <2>1, <2>2, TwoSame
<1> QED
  BY <1>1, <1>2, <1>3, <1>4, <1>5, <1>6 DEF Expressions

\* Statements: those that are compound open and close scopes.
LEMMA CompoundScopes ==
    ASSUME IndInv, IndInv', ShapeInv, CompoundStatement \/ EndCompound
    PROVE  OpensScope \/ ClosesScope
<1>1. InFunction /\ InFunction'
  BY StaysInFunction DEF Statements
<1>2. CASE CompoundStatement
  <2> DEFINE S == FrameType
             x == Frame("decls")
             y == Frame("stmts")
             z == Frame("endScope")
             frames == <<x, y, z>>
             two == <<x, y>>
             one == <<z>>
             T == {x, y}
  <2>1. /\ At("stmt") /\ todo' = frames \o Tail(todo) /\ UNCHANGED <<identifiers, initialising>>
        /\ table' = PushScope(table)
    BY <1>2 DEF CompoundStatement, Continue
  <2>2. /\ x.at = "decls" /\ y.at = "stmts" /\ z.at = "endScope"
        /\ \A w \in T : w.at # "endScope"
    BY DEF Frame, Resume
  <2> HIDE DEF x, y, z
  <2>3. two \in Seq(T) /\ one \in Seq({z}) /\ frames = two \o one /\ frames \in Seq({x, y, z})
    OBVIOUS
  <2>4. \A w \in {x, y, z} : w.at \notin {"init", "store"}
    BY <2>2
  <2>5. Depth(one) = 1
    BY <2>2, DepthOne
  <2> HIDE DEF frames, two, one, T
  <2>6. Depth(frames) = 1
    BY <2>2, <2>3, <2>5, DepthConcat, DepthNone
  <2>7. Tail(todo) \in Seq(FrameType) /\ Depth(todo) = Depth(Tail(todo))
    BY <2>1, RestOfStack
  <2>8. Depth(todo') = Depth(frames) + Depth(Tail(todo)) /\ Depth(Tail(todo)) \in Nat
    BY <2>1, <2>3, <2>7, DepthConcat
  <2>9. Initialises(todo') => Initialises(todo)
    BY <2>1, <2>3, <2>4, <2>7, InitialisesConcat, RestOfStack
  <2> QED
    BY <1>1, <2>1, <2>6, <2>7, <2>8, <2>9 DEF OpensScope
<1>3. CASE EndCompound
  <2>1. /\ At("endScope") /\ todo' = <<>> \o Tail(todo) /\ UNCHANGED <<identifiers, initialising>>
        /\ table' = PopScope(table)
    BY <1>3 DEF EndCompound, Continue
  <2>2. /\ Tail(todo) \in Seq(FrameType) /\ Depth(todo) = Depth(Tail(todo)) + 1
        /\ Depth(Tail(todo)) \in Nat /\ Depth(todo) \in Nat
        /\ Initialises(Tail(todo)) => Initialises(todo)
    BY <2>1, RestOfStack
  <2>3. todo' = Tail(todo)
    BY <2>1, <2>2
  <2>4. Depth(todo') = Depth(todo) - 1
    BY <2>2, <2>3
  <2> QED
    BY <1>1, <2>1, <2>2, <2>3, <2>4 DEF ClosesScope
<1> QED
  BY <1>2, <1>3

\* The others do not.
LEMMA StatementsWalk ==
    ASSUME IndInv, IndInv', ShapeInv, Statements
    PROVE  Walks \/ OpensScope \/ ClosesScope
<1>1. InFunction /\ InFunction' /\ UNCHANGED identifiers
  BY StaysInFunction, StatementsDeclare
<1>2. CASE CompoundStatement \/ EndCompound
  BY <1>2, CompoundScopes
<1>3. CASE NextStatement
  <2> DEFINE x == Frame("stmt")
  <2>1. At("stmts") /\ todo' = <<x>> \o todo /\ UNCHANGED <<initialising, table>>
    BY <1>3 DEF NextStatement, scopes
  <2>2. Neutral(x)
    BY NeutralFrames
  <2> HIDE DEF x
  <2>3. Same(todo, todo')
    BY <2>1, <2>2, PushSame DEF Neutral
  <2> QED
    BY <1>1, <2>1, <2>3 DEF Walks
<1>4. CASE UnhandledStatement \/ IfWithoutElse \/ IfEnd \/ FinishReturn \/ ReturnVoid
  <2>1. UNCHANGED <<initialising, table>> /\ Continue(<<>>)
    BY <1>4 DEF UnhandledStatement, IfWithoutElse, IfEnd, FinishReturn, ReturnVoid, scopes
  <2>2. PICK place \in {"stmt", "ifElse", "ifEnd", "return"} : At(place)
    BY <1>4 DEF UnhandledStatement, IfWithoutElse, IfEnd, FinishReturn, ReturnVoid
  <2>3. Same(todo, todo')
    BY <2>1, <2>2, ReturnsSame
  <2> QED
    BY <1>1, <2>1, <2>3 DEF Walks
<1>5. CASE EmptyStatement
  BY <1>1, <1>5 DEF EmptyStatement, Stop, scopes, Walks, Same
<1>6. CASE ExpressionStatement
  <2> DEFINE x == Child("list", "discarded")
  <2>1. At("stmt") /\ Continue(<<x>>) /\ UNCHANGED <<initialising, table>>
    BY <1>6 DEF ExpressionStatement, scopes
  <2>2. Neutral(x)
    BY NeutralFrames
  <2> HIDE DEF x
  <2>3. Same(todo, todo')
    BY <2>1, <2>2, OneSame
  <2> QED
    BY <1>1, <2>1, <2>3 DEF Walks
<1>7. CASE IfStatement \/ IfThen \/ IfElse
  <2> DEFINE ifID == Len(function.instructions)
             X == {Child("list", "unloaded"), Frame("stmt")}
             Y == {Frame("ifThen"), Resume("ifElse", "", "void", <<ifID, ifID + 1>>),
                   Resume("ifEnd", "", "void", Append(Head(todo).ids, ifID))}
  <2>1. /\ UNCHANGED <<initialising, table>>
        /\ \E x \in X, y \in Y : Continue(<<x, y>>)
    BY <1>7 DEF IfStatement, IfThen, IfElse, scopes
  <2>2. PICK x \in X, y \in Y : Continue(<<x, y>>)
    BY <2>1
  <2>3. Neutral(x) /\ Neutral(y)
    BY NeutralFrames
  <2>4. PICK place \in {"stmt", "ifThen", "ifElse"} : At(place)
    BY <1>7 DEF IfStatement, IfThen, IfElse
  <2> HIDE DEF X, Y
  <2>5. Same(todo, todo')
    BY <2>2, <2>3, <2>4, TwoSame
  <2> QED
    BY <1>1, <2>1, <2>5 DEF Walks
<1>8. CASE ReturnExpression
  <2> DEFINE x == Child("list", "rvalue")
             y == Frame("rvalue")
             z == Frame("return")
  <2>1. At("stmt") /\ Continue(<<x, y, z>>) /\ UNCHANGED <<initialising, table>>
    BY <1>8 DEF ReturnExpression, scopes
  <2>2. Neutral(x) /\ Neutral(y) /\ Neutral(z)
    BY NeutralFrames
  <2> HIDE DEF x, y, z
  <2>3. Same(todo, todo')
    BY <2>1, <2>2, ThreeSame
  <2> QED
    BY <1>1, <2>1, <2>3 DEF Walks
<1> QED
  BY <1>2, <1>3, <1>4, <1>5, <1>6, <1>7, <1>8 DEF Statements

\* A local variable.
LEMMA LocalBinds ==
    ASSUME IndInv, IndInv', ShapeInv,
           NEW n \in VarNames, NEW t \in VarTypes,
           ParameterIdentifier(n, t) \/ LocalIdentifier(n, t) \/ LocalInitialised(n, t)
    PROVE  BindsLocal(n)
<1> DEFINE v == Value("INSTR", Len(function.instructions))
           x == Frame("init")
<1>1. InFunction /\ InFunction'
  BY StaysInFunction DEF Declarations
<1>2. /\ v \in LLVMValueID /\ t \in CType /\ CurrentLayers = identifiers
  BY <1>1, InFunctionFacts, VarTypesAreTypes DEF Value, LLVMValueID, LLVMValueKind, CurrentLayers
<1>3. DeclareLocal(n, t)
  BY DEF ParameterIdentifier, LocalIdentifier, LocalInitialised
<1>4. /\ Declarable(n) /\ identifiers' = BindCurrent(identifiers, n, v)
      /\ table' = AddToScope(table, n, Symbol(t, v))
  BY <1>2, <1>3 DEF DeclareLocal
<1> HIDE DEF v
<1>5. CASE ParameterIdentifier(n, t) \/ LocalIdentifier(n, t)
  <2>1. UNCHANGED <<todo, initialising>>
    BY <1>5 DEF ParameterIdentifier, LocalIdentifier
  <2>2. Same(todo, todo') /\ Depth(todo') = Depth(todo)
    BY <2>1 DEF Same
  <2> QED
    BY <1>1, <1>2, <1>4, <2>1, <2>2 DEF BindsLocal
<1>6. CASE LocalInitialised(n, t)
  <2>1. At("decls") /\ todo' = <<x>> \o todo /\ initialising' = n
    BY <1>6 DEF LocalInitialised
  <2>2. x.at # "endScope"
    BY DEF Frame, Resume
  <2> HIDE DEF x
  <2>3. Depth(todo') = Depth(todo)
    BY <2>1, <2>2, PushSame
  <2> QED
    BY <1>1, <1>2, <1>4, <2>1, <2>3 DEF BindsLocal
<1> QED
  BY <1>5, <1>6

\* Declarations.
LEMMA DeclarationsBind ==
    ASSUME IndInv, IndInv', ShapeInv, NoPointers, Declarations
    PROVE  Walks \/ \E n \in Names : BindsLocal(n)
<1>1. InFunction /\ InFunction'
  BY StaysInFunction
<1>2. CASE \E n \in VarNames, t \in VarTypes :
             ParameterIdentifier(n, t) \/ LocalIdentifier(n, t) \/ LocalInitialised(n, t)
  BY <1>2, LocalBinds DEF Names
<1>3. CASE \E n \in PtrNames : ParameterPointer(n) \/ LocalPointer(n) \/ PointerInitialised(n)
  BY <1>3 DEF ParameterPointer, LocalPointer, PointerInitialised, NoPointers
<1>4. CASE ParameterAbstract \/ InitializerThrows
  BY <1>1, <1>4 DEF ParameterAbstract, InitializerThrows, Stop, scopes, Walks, Same
<1>5. CASE \E g \in FuncNames : LocalPrototype(g)
  <2> DEFINE x == Frame("params")
  <2>1. At("decls") /\ todo' = <<x>> \o todo /\ UNCHANGED <<identifiers, initialising, table>>
    BY <1>5 DEF LocalPrototype, scopes
  <2>2. Neutral(x)
    BY NeutralFrames
  <2> HIDE DEF x
  <2>3. Same(todo, todo')
    BY <2>1, <2>2, PushSame DEF Neutral
  <2> QED
    BY <1>1, <2>1, <2>3 DEF Walks
<1>6. CASE InitializerStore \/ EndList
  <2>1. UNCHANGED <<identifiers, initialising, table>> /\ Continue(<<>>)
    BY <1>6 DEF InitializerStore, EndList, scopes
  <2>2. PICK place \in {"store", "params", "decls", "stmts"} : At(place)
    BY <1>6 DEF InitializerStore, EndList
  <2>3. Same(todo, todo')
    BY <2>1, <2>2, ReturnsSame
  <2> QED
    BY <1>1, <2>1, <2>3 DEF Walks
<1>7. CASE InitializerExpression
  <2> DEFINE x == Child("expr", "unloaded")
             y == Frame("store")
  <2>1. At("init") /\ Continue(<<x, y>>) /\ UNCHANGED <<identifiers, initialising, table>>
    BY <1>7 DEF InitializerExpression, scopes
  <2>2. x.at # "endScope" /\ y.at # "endScope"
    BY DEF Frame, Child, Resume
  <2> HIDE DEF x, y
  <2>3. <<x, y>> \in Seq({x, y}) /\ \A z \in {x, y} : z.at # "endScope"
    BY <2>2
  <2>4. Same(todo, todo')
    BY <2>1, <2>3, ContinueSame
  <2> QED
    BY <1>1, <2>1, <2>4 DEF Walks
<1>8. CASE \E two \in BOOLEAN : InitializerList(two)
  <2>1. PICK two \in BOOLEAN : InitializerList(two)
    BY <1>8
  <2> DEFINE x == Frame("init")
             y == Frame("store")
             frames == (IF two THEN <<x>> ELSE <<>>) \o <<x, y>>
  <2>2. At("init") /\ Continue(frames) /\ UNCHANGED <<identifiers, initialising, table>>
    BY <2>1 DEF InitializerList, scopes
  <2>3. x.at # "endScope" /\ y.at # "endScope"
    BY DEF Frame, Resume
  <2> HIDE DEF x, y
  <2>4. frames \in Seq({x, y}) /\ \A z \in {x, y} : z.at # "endScope"
    <3>1. <<>> \in Seq({x, y}) /\ <<x>> \in Seq({x, y}) /\ <<x, y>> \in Seq({x, y})
      OBVIOUS
    <3> QED
      BY <2>3, <3>1, ConcatProperties
  <2> HIDE DEF frames
  <2>5. Same(todo, todo')
    BY <2>2, <2>4, ContinueSame
  <2> QED
    BY <1>1, <2>2, <2>5 DEF Walks
<1> QED
  BY <1>2, <1>3, <1>4, <1>5, <1>6, <1>7, <1>8 DEF Declarations

-----------------------------------------------------------------------------
(* The invariant is kept *)

\* The depth of a stack is a number.
LEMMA DepthNat == ASSUME NEW S, NEW s \in Seq(S) PROVE Depth(s) \in Nat
BY DepthConcat

\* The top of a stack without its innermost scope.
LEMMA PoppedStack ==
    ASSUME NEW N, NEW V, NEW s, IsStackOf(s, N, V), s # <<>>
    PROVE  LET t == SubSeq(s, 1, Len(s) - 1)
           IN /\ Len(t) = Len(s) - 1 /\ DOMAIN t = 1 .. Len(s) - 1
              /\ \A i \in 1 .. Len(s) - 1 : t[i] = s[i]
<1> DEFINE t == SubSeq(s, 1, Len(s) - 1)
<1>1. PICK S : s \in Seq(S)
  BY StackElements
<1>2. Len(s) \in Nat /\ Len(s) > 0 /\ \A i \in 1 .. Len(s) - 1 : s[i] \in S
  BY <1>1
<1>3. /\ t \in Seq(S)
      /\ Len(t) = IF 1 <= Len(s) - 1 THEN Len(s) - 1 ELSE 0
      /\ \A i \in 1 .. Len(s) - 1 : t[i] = s[i]
  BY <1>2, SubSeqProperties
<1> HIDE DEF t
<1>4. Len(t) = Len(s) - 1
  <2>1. \A m \in Nat : \A k : m > 0 /\ k = (IF 1 <= m - 1 THEN m - 1 ELSE 0) => k = m - 1
    OBVIOUS
  <2> QED
    BY <1>2, <1>3, <2>1
<1>5. DOMAIN t = 1 .. Len(t)
  BY <1>3
<1> QED
  BY <1>3, <1>4, <1>5 DEF t

\* A stack with a name bound in its innermost scope.
LEMMA BoundStack ==
    ASSUME NEW N, NEW V, NEW s, IsStackOf(s, N, V), s # <<>>, NEW n \in N, NEW v \in V
    PROVE  LET t == [s EXCEPT ![Len(s)] = Bind(s[Len(s)], n, v)]
           IN /\ Len(t) = Len(s) /\ DOMAIN t = 1 .. Len(s)
              /\ \A i \in 1 .. Len(s) : i # Len(s) => t[i] = s[i]
              /\ DOMAIN t[Len(s)] = DOMAIN s[Len(s)] \cup {n} /\ t[Len(s)][n] = v
              /\ \A m \in DOMAIN s[Len(s)] : m # n => t[Len(s)][m] = s[Len(s)][m]
<1> DEFINE map == Bind(s[Len(s)], n, v)
           u == [s EXCEPT ![Len(s)] = Bind(s[Len(s)], n, v)]
<1>1. /\ DOMAIN map = DOMAIN s[Len(s)] \cup {n} /\ map[n] = v
      /\ \A m \in DOMAIN s[Len(s)] : m # n => map[m] = s[Len(s)][m]
  BY DEF Bind
<1>2. Len(s) \in Nat /\ Len(s) \in 1 .. Len(s) /\ MapInto(s[Len(s)], N, V)
  <2>1. Len(s) \in Nat /\ DOMAIN s = 1 .. Len(s) /\ \A i \in 1 .. Len(s) : MapInto(s[i], N, V)
    BY StackElements
  <2>2. Len(s) # 0
    <3>1. PICK S : s \in Seq(S)
      BY StackElements
    <3> QED
      BY <3>1
  <2> QED
    BY <2>1, <2>2
<1>3. MapInto(map, N, V)
  BY <1>2, BindMap
<1>4. u = [s EXCEPT ![Len(s)] = map]
  OBVIOUS
<1> HIDE DEF map, u
<1>5. s # <<>> => MapInto(map, N, V)
  BY <1>3
<1>6. /\ IsStackOf(u, N, V) /\ Len(u) = Len(s) /\ u[Len(s)] = map
      /\ \A i \in 1 .. Len(s) : i # Len(s) => u[i] = s[i]
  <2> DEFINE t == [s EXCEPT ![Len(s)] = map]
  <2>1. /\ IsStackOf(t, N, V) /\ Len(t) = Len(s)
        /\ s # <<>> => t # <<>> /\ t[Len(s)] = map
        /\ \A i \in 1 .. Len(s) : i # Len(s) => t[i] = s[i]
    BY <1>5, ReplaceTop
  <2> HIDE DEF t
  <2> QED
    BY <1>4, <2>1 DEF t
<1>7. DOMAIN u = 1 .. Len(u)
  BY <1>6, StackElements
<1> QED
  BY <1>1, <1>6, <1>7, Zenon DEF u

\* What the invariant says of the layers and scopes.
LEMMA NamesFacts ==
    ASSUME IndInv, NamesInv
    PROVE  /\ IsStackOf(identifiers, Names, LLVMValueID) /\ IsStackOf(table, Names, SymbolType)
           /\ Len(identifiers) \in Nat /\ DOMAIN identifiers = 1 .. Len(identifiers)
           /\ Len(table) \in Nat /\ DOMAIN table = 1 .. Len(table)
           /\ Depth(todo) \in Nat /\ Bodies \in {0, 1} /\ table # <<>> /\ 1 \in DOMAIN table
           /\ Len(table) = 1 + Bodies + Depth(todo)
           /\ InFunction => Len(identifiers) >= 1 /\ identifiers # <<>> /\ Bodies = 1
           /\ ~InFunction => Bodies = 0 /\ Len(table) = 1 /\ todo = <<>>
<1>1. IsStackOf(identifiers, Names, LLVMValueID) /\ IsStackOf(table, Names, SymbolType)
      /\ todo \in Seq(FrameType)
  BY DEF IndInv, TypeOK
<1>2. /\ Len(identifiers) \in Nat /\ DOMAIN identifiers = 1 .. Len(identifiers)
      /\ Len(table) \in Nat /\ DOMAIN table = 1 .. Len(table)
  BY <1>1, StackElements
<1>3. Depth(todo) \in Nat /\ Depth(<<>>) = 0
  <2>1. EndsScope(<<>>) = {}
    BY DEF EndsScope
  <2>2. Depth(<<>>) = 0
    BY <2>1, FS_EmptySet DEF Depth
  <2> QED
    BY <1>1, <2>2, DepthNat
<1>4. Bodies \in {0, 1} /\ (InFunction => Bodies = 1) /\ (~InFunction => Bodies = 0)
  BY DEF Bodies
<1>5. Len(table) = 1 + Bodies + Depth(todo)
  BY DEF NamesInv, ScopesFit
<1>6. 1 \in DOMAIN table
  BY <1>2, <1>3, <1>4, <1>5
<1>7. table # <<>>
  BY <1>6
<1>8. ~InFunction => todo = <<>> /\ Len(table) = 1
  BY <1>3, <1>4, <1>5 DEF IndInv, ContextOK
<1>9. InFunction => identifiers # <<>>
  BY DEF IndInv, ContextOK
<1>10. InFunction => Len(identifiers) >= 1
  <2>1. PICK S : identifiers \in Seq(S)
    BY <1>1, StackElements
  <2> QED
    BY <1>9, <2>1
<1> QED
  BY <1>1, <1>2, <1>3, <1>4, <1>5, <1>6, <1>7, <1>8, <1>9, <1>10

\* The visitor goes on.
LEMMA WalksKeeps ==
    ASSUME NamesInv, Walks PROVE NamesInv'
<1>1. Bodies' = Bodies /\ Depth(todo') = Depth(todo) /\ (Initialises(todo') => Initialises(todo))
  BY DEF Walks, Same, Bodies
<1>2. UNCHANGED <<identifiers, table, initialising>>
  BY DEF Walks
<1>3. GlobalLayers' = GlobalLayers /\ LastLayer' = LastLayer
  BY <1>1, <1>2 DEF GlobalLayers, LastLayer
<1>4. ScopesFit'
  BY <1>1, <1>2 DEF NamesInv, ScopesFit
<1>5. NamesKnown'
  BY <1>1, <1>2, <1>3 DEF NamesInv, NamesKnown
<1>6. SameStorage => SameStorage'
  BY <1>2, <1>3 DEF SameStorage
<1> QED
  BY <1>4, <1>5, <1>6 DEF NamesInv, NoShadows

\* A compound statement begins: an empty scope.
LEMMA OpensKeeps ==
    ASSUME IndInv, NamesInv, OpensScope PROVE NamesInv'
<1>1. /\ Bodies' = Bodies /\ Depth(todo') = Depth(todo) + 1
      /\ Initialises(todo') => Initialises(todo)
      /\ UNCHANGED <<identifiers, initialising>> /\ table' = Append(table, EmptyScope)
  BY DEF OpensScope, Bodies, PushScope
<1>2. GlobalLayers' = GlobalLayers /\ LastLayer' = LastLayer
  BY <1>1 DEF GlobalLayers, LastLayer
<1> DEFINE T == Len(table)
<1>3. T \in Nat /\ DOMAIN table = 1 .. T /\ 1 \in DOMAIN table /\ Depth(todo) \in Nat
      /\ Bodies \in {0, 1} /\ T = 1 + Bodies + Depth(todo) /\ IsStackOf(table, Names, SymbolType)
  BY NamesFacts
<1>4. /\ Len(table') = T + 1 /\ table'[T + 1] = EmptyScope /\ \A i \in 1 .. T : table'[i] = table[i]
      /\ IsStackOf(table', Names, SymbolType)
  BY <1>1, <1>3, EmptyMap, PushStack
<1>5. DOMAIN table' = 1 .. T + 1 /\ DOMAIN EmptyScope = {}
  BY <1>4, StackElements DEF EmptyScope
<1> HIDE DEF T
<1>6. /\ table'[1] = table[1]
      /\ \A j \in DOMAIN table' \ {1} : \A n \in DOMAIN table'[j] :
            j \in DOMAIN table \ {1} /\ table'[j] = table[j]
  BY <1>3, <1>4, <1>5
<1>7. ScopesFit'
  BY <1>1, <1>3, <1>4 DEF ScopesFit
<1>8. NamesKnown'
  BY <1>1, <1>2, <1>6 DEF NamesInv, NamesKnown
<1>9. SameStorage => SameStorage'
  BY <1>1, <1>2, <1>6 DEF SameStorage
<1> QED
  BY <1>7, <1>8, <1>9 DEF NamesInv, NoShadows

\* A compound statement ends: the names of its scope stay in the layer.
LEMMA ClosesKeeps ==
    ASSUME IndInv, IndInv', NamesInv, ClosesScope PROVE NamesInv'
<1>1. /\ Bodies' = Bodies /\ Depth(todo') = Depth(todo) - 1
      /\ Initialises(todo') => Initialises(todo)
      /\ UNCHANGED <<identifiers, initialising>> /\ table' = SubSeq(table, 1, Len(table) - 1)
  BY DEF ClosesScope, Bodies, PopScope
<1>2. GlobalLayers' = GlobalLayers /\ LastLayer' = LastLayer
  BY <1>1 DEF GlobalLayers, LastLayer
<1> DEFINE T == Len(table)
<1>3. T \in Nat /\ DOMAIN table = 1 .. T /\ 1 \in DOMAIN table /\ Depth(todo) \in Nat
      /\ Bodies \in {0, 1} /\ T = 1 + Bodies + Depth(todo) /\ IsStackOf(table, Names, SymbolType)
      /\ table # <<>>
  BY NamesFacts
<1>4. /\ Len(table') = T - 1 /\ DOMAIN table' = 1 .. T - 1
      /\ \A i \in 1 .. T - 1 : table'[i] = table[i]
  <2> DEFINE t == SubSeq(table, 1, Len(table) - 1)
  <2>1. /\ Len(t) = T - 1 /\ DOMAIN t = 1 .. T - 1
        /\ \A i \in 1 .. T - 1 : t[i] = table[i]
    BY <1>3, PoppedStack
  <2> QED
    BY <1>1, <2>1
<1>5. Depth(todo') \in Nat
  <2>1. todo' \in Seq(FrameType)
    BY DEF IndInv, TypeOK
  <2> QED
    BY <2>1, DepthNat
<1> HIDE DEF T
<1>6. /\ table'[1] = table[1]
      /\ \A j \in DOMAIN table' \ {1} : j \in DOMAIN table \ {1} /\ table'[j] = table[j]
  BY <1>1, <1>3, <1>4, <1>5
<1>7. ScopesFit'
  BY <1>1, <1>3, <1>4 DEF ScopesFit
<1>8. NamesKnown'
  BY <1>1, <1>2, <1>6 DEF NamesInv, NamesKnown
<1>9. SameStorage => SameStorage'
  <2> SUFFICES ASSUME SameStorage PROVE SameStorage'
    OBVIOUS
  <2>1. \A i \in GlobalLayers' : \A n \in DOMAIN identifiers'[i] :
           n \in DOMAIN table'[1] /\ identifiers'[i][n] = table'[1][n].storage
    <3>1. identifiers' = identifiers /\ table'[1] = table[1]
      BY <1>1, <1>6
    <3> QED
      BY <1>2, <3>1 DEF SameStorage
  <2>2. \A j \in DOMAIN table' \ {1} : \A n \in DOMAIN table'[j] :
           n \notin DOMAIN table'[1] /\ table'[j][n].storage = LastLayer'[n]
    BY <1>2, <1>6 DEF SameStorage
  <2> QED
    BY <2>1, <2>2 DEF SameStorage
<1> QED
  BY <1>7, <1>8, <1>9 DEF NamesInv, NoShadows

\* A name is bound in the innermost scope that does not hold it.
LEMMA AddedScope ==
    ASSUME IndInv, NamesInv, NEW n \in Names, NEW v \in LLVMValueID, NEW type \in CType,
           n \notin DOMAIN table[Len(table)]
    PROVE  LET t == AddToScope(table, n, Symbol(type, v))
           IN /\ Len(t) = Len(table) /\ DOMAIN t = 1 .. Len(table)
              /\ \A i \in 1 .. Len(table) : i # Len(table) => t[i] = table[i]
              /\ DOMAIN t[Len(table)] = DOMAIN table[Len(table)] \cup {n}
              /\ t[Len(table)][n].storage = v
              /\ \A m \in DOMAIN table[Len(table)] :
                    m # n => t[Len(table)][m] = table[Len(table)][m]
<1> DEFINE sym == Symbol(type, v)
           t == [table EXCEPT ![Len(table)] = Bind(table[Len(table)], n, sym)]
<1>1. AddToScope(table, n, sym) = t
  BY DEF AddToScope, Insert
<1>2. IsStackOf(table, Names, SymbolType) /\ table # <<>>
  BY NamesFacts
<1>3. sym \in SymbolType /\ sym.storage = v
  BY DEF SymbolType, Symbol
<1> HIDE DEF sym
<1>4. /\ Len(t) = Len(table) /\ DOMAIN t = 1 .. Len(table)
      /\ \A i \in 1 .. Len(table) : i # Len(table) => t[i] = table[i]
      /\ DOMAIN t[Len(table)] = DOMAIN table[Len(table)] \cup {n} /\ t[Len(table)][n] = sym
      /\ \A m \in DOMAIN table[Len(table)] :
            m # n => t[Len(table)][m] = table[Len(table)][m]
  BY <1>2, <1>3, BoundStack
<1> HIDE DEF t
<1> QED
  BY <1>1, <1>3, <1>4, Zenon DEF sym

\* A name is bound in the layer of the function.
LEMMA BoundLayer ==
    ASSUME IndInv, NamesInv, InFunction, NEW n \in Names, NEW v \in LLVMValueID
    PROVE  LET t == BindCurrent(identifiers, n, v)
           IN /\ Len(t) = Len(identifiers) /\ DOMAIN t = 1 .. Len(identifiers)
              /\ \A i \in 1 .. Len(identifiers) : i # Len(identifiers) => t[i] = identifiers[i]
              /\ DOMAIN t[Len(identifiers)] = DOMAIN identifiers[Len(identifiers)] \cup {n}
              /\ t[Len(identifiers)][n] = v
              /\ \A m \in DOMAIN identifiers[Len(identifiers)] :
                    m # n => t[Len(identifiers)][m] = identifiers[Len(identifiers)][m]
<1>1. IsStackOf(identifiers, Names, LLVMValueID) /\ identifiers # <<>>
  BY NamesFacts
<1> QED
  BY <1>1, BoundStack DEF BindCurrent

\* A local variable is declared.
LEMMA BindsLocalKeeps ==
    ASSUME IndInv, NamesInv, NEW n \in Names, BindsLocal(n) PROVE NamesInv'
<1> DEFINE L == Len(identifiers)
           T == Len(table)
           ids == identifiers'
           tab == table'
<1>1. PICK v \in LLVMValueID, type \in CType :
        /\ identifiers' = BindCurrent(identifiers, n, v)
        /\ table' = AddToScope(table, n, Symbol(type, v))
  BY DEF BindsLocal
<1>2. /\ Bodies' = 1 /\ Bodies = 1 /\ InFunction /\ Depth(todo') = Depth(todo)
      /\ Declarable(n)
      /\ (UNCHANGED initialising /\ (Initialises(todo') => Initialises(todo)))
         \/ initialising' = n
  BY DEF BindsLocal, Bodies, Same
<1>3. /\ L \in Nat /\ L >= 1 /\ DOMAIN identifiers = 1 .. L /\ identifiers # <<>>
      /\ T \in Nat /\ DOMAIN table = 1 .. T /\ T = 2 + Depth(todo) /\ Depth(todo) \in Nat
      /\ IsStackOf(identifiers, Names, LLVMValueID)
  BY <1>2, NamesFacts
<1>4. /\ n \notin DOMAIN table[T]
      /\ NoShadows => \A i \in DOMAIN table : n \notin DOMAIN table[i]
  BY <1>2, Zenon DEF Declarable, NoShadows, HasOrd
<1>5. /\ Len(ids) = L /\ DOMAIN ids = 1 .. L
      /\ \A i \in 1 .. L : i # L => ids[i] = identifiers[i]
      /\ DOMAIN ids[L] = DOMAIN identifiers[L] \cup {n} /\ ids[L][n] = v
      /\ \A m \in DOMAIN identifiers[L] : m # n => ids[L][m] = identifiers[L][m]
  <2> DEFINE t == BindCurrent(identifiers, n, v)
  <2>1. /\ Len(t) = L /\ DOMAIN t = 1 .. L
        /\ \A i \in 1 .. L : i # L => t[i] = identifiers[i]
        /\ DOMAIN t[L] = DOMAIN identifiers[L] \cup {n} /\ t[L][n] = v
        /\ \A m \in DOMAIN identifiers[L] : m # n => t[L][m] = identifiers[L][m]
    BY <1>2, BoundLayer
  <2>2. ids = t
    BY <1>1, Zenon
  <2> HIDE DEF t
  <2> QED
    BY <2>1, <2>2
<1>6. /\ Len(tab) = T /\ DOMAIN tab = 1 .. T
      /\ \A i \in 1 .. T : i # T => tab[i] = table[i]
      /\ DOMAIN tab[T] = DOMAIN table[T] \cup {n} /\ tab[T][n].storage = v
      /\ \A m \in DOMAIN table[T] : m # n => tab[T][m] = table[T][m]
  <2> DEFINE t == AddToScope(table, n, Symbol(type, v))
  <2>1. /\ Len(t) = T /\ DOMAIN t = 1 .. T
        /\ \A i \in 1 .. T : i # T => t[i] = table[i]
        /\ DOMAIN t[T] = DOMAIN table[T] \cup {n} /\ t[T][n].storage = v
        /\ \A m \in DOMAIN table[T] : m # n => t[T][m] = table[T][m]
    BY <1>4, AddedScope
  <2>2. tab = t
    BY <1>1, Zenon
  <2> HIDE DEF t
  <2> QED
    BY <2>1, <2>2
<1>7. /\ GlobalLayers = 1 .. L - 1 /\ GlobalLayers' = 1 .. L - 1
      /\ LastLayer = identifiers[L] /\ LastLayer' = ids[L]
  BY <1>2, <1>5 DEF GlobalLayers, LastLayer
<1> HIDE DEF L, T, ids, tab
<1>8. /\ \A i \in 1 .. L - 1 : i \in 1 .. L /\ ids[i] = identifiers[i]
      /\ tab[1] = table[1] /\ 1 \in DOMAIN table /\ T \in DOMAIN table \ {1} /\ L \in 1 .. L
  BY <1>3, <1>5, <1>6
<1>9. \A j \in DOMAIN tab \ {1} : \A m \in DOMAIN tab[j] :
         (j = T /\ m = n) \/ (m \in DOMAIN table[j] /\ tab[j][m] = table[j][m] /\ j \in DOMAIN table \ {1})
  <2> SUFFICES ASSUME NEW j \in DOMAIN tab \ {1}, NEW m \in DOMAIN tab[j], ~(j = T /\ m = n)
               PROVE  m \in DOMAIN table[j] /\ tab[j][m] = table[j][m] /\ j \in DOMAIN table \ {1}
    OBVIOUS
  <2>1. j \in DOMAIN table \ {1} /\ j \in 1 .. T
    BY <1>3, <1>6
  <2>2. CASE j = T
    BY <1>6, <2>1, <2>2
  <2>3. CASE j # T
    BY <1>6, <2>1, <2>3
  <2> QED
    BY <2>2, <2>3
<1>10. ScopesFit'
  BY <1>2, <1>3, <1>6 DEF ScopesFit, T, tab
<1>11. NamesKnown'
  <2>1. \A m \in DOMAIN tab[1] : \E i \in 1 .. L - 1 : m \in DOMAIN ids[i]
    BY <1>7, <1>8 DEF NamesInv, NamesKnown
  <2>2. \A j \in DOMAIN tab \ {1} : \A m \in DOMAIN tab[j] : m \in DOMAIN ids[L]
    BY <1>5, <1>7, <1>9 DEF NamesInv, NamesKnown
  <2>3. Initialises(todo') => initialising' \in DOMAIN ids[L]
    BY <1>2, <1>5, <1>7 DEF NamesInv, NamesKnown
  <2> QED
    BY <1>7, <2>1, <2>2, <2>3 DEF NamesKnown, ids, tab
<1>12. NoShadows /\ SameStorage => SameStorage'
  <2> SUFFICES ASSUME NoShadows, SameStorage PROVE SameStorage'
    OBVIOUS
  <2>1. \A i \in 1 .. L - 1 : \A m \in DOMAIN ids[i] :
           m \in DOMAIN tab[1] /\ ids[i][m] = tab[1][m].storage
    BY <1>7, <1>8 DEF SameStorage
  <2>2. ASSUME NEW j \in DOMAIN tab \ {1}, NEW m \in DOMAIN tab[j]
        PROVE  m \notin DOMAIN tab[1] /\ tab[j][m].storage = ids[L][m]
    <3>1. CASE j = T /\ m = n
      BY <1>4, <1>5, <1>6, <1>8, <3>1
    <3>2. CASE m \in DOMAIN table[j] /\ tab[j][m] = table[j][m] /\ j \in DOMAIN table \ {1}
      <4>1. m # n
        BY <1>4, <3>2
      <4>2. m \notin DOMAIN table[1] /\ table[j][m].storage = identifiers[L][m]
        BY <1>7, <3>2 DEF SameStorage
      <4>3. m \in DOMAIN identifiers[L]
        BY <1>7, <3>2 DEF NamesInv, NamesKnown
      <4> QED
        BY <1>5, <1>8, <3>2, <4>1, <4>2, <4>3
    <3> QED
      BY <1>9, <3>1, <3>2
  <2> QED
    BY <1>7, <2>1, <2>2 DEF SameStorage, ids, tab
<1> QED
  BY <1>10, <1>11, <1>12 DEF NamesInv, NoShadows

\* Nothing is declared.
LEMMA StillKeeps ==
    ASSUME NamesInv, UNCHANGED <<function, identifiers, initialising, table, todo>>
    PROVE  NamesInv'
BY DEF NamesInv, ScopesFit, NamesKnown, SameStorage, NoShadows, Bodies, InFunction,
       GlobalLayers, LastLayer, Initialises, Depth, EndsScope

\* The layers that a global variable is bound in.
LEMMA LayersOfGlobal ==
    ASSUME IndInv, NamesInv, ~InFunction
    PROVE  /\ IsStackOf(CurrentLayers, Names, LLVMValueID) /\ CurrentLayers # <<>>
           /\ \A m \in DOMAIN table[1] :
                 \E i \in 1 .. Len(CurrentLayers) : m \in DOMAIN CurrentLayers[i]
           /\ NoShadows => \A i \in 1 .. Len(CurrentLayers) : \A m \in DOMAIN CurrentLayers[i] :
                 m \in DOMAIN table[1] /\ CurrentLayers[i][m] = table[1][m].storage
<1>1. /\ IsStackOf(identifiers, Names, LLVMValueID) /\ Bodies = 0
      /\ Len(identifiers) \in Nat /\ DOMAIN identifiers = 1 .. Len(identifiers)
  BY NamesFacts
<1>2. GlobalLayers = 1 .. Len(identifiers)
  BY <1>1 DEF GlobalLayers
<1>3. CASE identifiers = <<>>
  <2> DEFINE s == <<EmptyScope>>
  <2>1. s # <<>> /\ Len(s) = 1 /\ s[1] = EmptyScope
        /\ CurrentLayers = s
    BY <1>3 DEF CurrentLayers
  <2>2. IsStackOf(s, Names, LLVMValueID)
    <3>1. s \in Seq({EmptyScope})
      OBVIOUS
    <3>2. \A i \in 1 .. Len(s) : s[i] = EmptyScope
      BY <2>1
    <3> HIDE DEF s
    <3> QED
      BY <3>1, <3>2, EmptyMap, StackFromElements
  <2>3. DOMAIN table[1] = {}
    BY <1>2, <1>3, <2>1 DEF NamesInv, NamesKnown
  <2>4. \A i \in 1 .. Len(s) : DOMAIN s[i] = {}
    BY <2>1 DEF EmptyScope
  <2> HIDE DEF s
  <2> QED
    BY <2>1, <2>2, <2>3, <2>4
<1>4. CASE identifiers # <<>>
  <2>1. CurrentLayers = identifiers
    BY <1>4 DEF CurrentLayers
  <2>2. \A m \in DOMAIN table[1] : \E i \in 1 .. Len(identifiers) : m \in DOMAIN identifiers[i]
    BY <1>2 DEF NamesInv, NamesKnown
  <2>3. NoShadows => \A i \in 1 .. Len(identifiers) : \A m \in DOMAIN identifiers[i] :
                 m \in DOMAIN table[1] /\ identifiers[i][m] = table[1][m].storage
    BY <1>2 DEF NamesInv, SameStorage
  <2> QED
    BY <1>1, <1>4, <2>1, <2>2, <2>3
<1> QED
  BY <1>3, <1>4

\* A global variable is declared.
LEMMA GlobalKeeps ==
    ASSUME IndInv, NamesInv, NEW n \in VarNames, NEW type \in VarTypes, GlobalIdentifier(n, type)
    PROVE  NamesInv'
<1> DEFINE v == Value("GLOBAL", Len(module.globals))
           cur == CurrentLayers
           L == Len(cur)
           ids == BindCurrent(cur, n, v)
           tab == AddToScope(table, n, Symbol(type, v))
<1>1. /\ ~InFunction /\ Declarable(n) /\ UNCHANGED <<function, initialising, todo>>
      /\ identifiers' = ids /\ table' = tab
  BY DEF GlobalIdentifier, InGlobal, IndInv, ContextOK
<1>2. v \in LLVMValueID /\ type \in CType /\ n \in Names
  <2>1. Len(module.globals) \in Nat
    BY DEF IndInv, TypeOK
  <2> QED
    BY <2>1, VarTypesAreTypes DEF Value, LLVMValueID, LLVMValueKind, Names
<1> HIDE DEF v
<1>3. Len(table) = 1 /\ todo = <<>> /\ Bodies = 0 /\ Bodies' = 0 /\ DOMAIN table = {1}
  <2>1. Len(table) = 1 /\ todo = <<>> /\ Bodies = 0 /\ DOMAIN table = 1 .. Len(table)
    BY <1>1, NamesFacts
  <2> QED
    BY <1>1, <2>1 DEF Bodies, InFunction
<1>4. n \notin DOMAIN table[1]
  BY <1>1, <1>3 DEF Declarable
<1>5. /\ IsStackOf(cur, Names, LLVMValueID) /\ cur # <<>> /\ L \in Nat /\ L \in 1 .. L
      /\ \A m \in DOMAIN table[1] : \E i \in 1 .. L : m \in DOMAIN cur[i]
      /\ NoShadows => \A i \in 1 .. L : \A m \in DOMAIN cur[i] :
            m \in DOMAIN table[1] /\ cur[i][m] = table[1][m].storage
  <2>1. IsStackOf(cur, Names, LLVMValueID) /\ cur # <<>>
    BY <1>1, LayersOfGlobal
  <2>2. PICK S : cur \in Seq(S)
    BY <2>1, StackElements
  <2> HIDE DEF cur
  <2>3. L \in Nat /\ L \in 1 .. L
    BY <2>1, <2>2
  <2> QED
    BY <1>1, <2>1, <2>3, LayersOfGlobal DEF cur
<1> HIDE DEF cur
<1>6. /\ Len(ids) = L /\ DOMAIN ids = 1 .. L
      /\ \A i \in 1 .. L : i # L => ids[i] = cur[i]
      /\ DOMAIN ids[L] = DOMAIN cur[L] \cup {n} /\ ids[L][n] = v
      /\ \A m \in DOMAIN cur[L] : m # n => ids[L][m] = cur[L][m]
  BY <1>2, <1>5, BoundStack DEF BindCurrent
<1>7. /\ Len(tab) = 1 /\ DOMAIN tab = {1}
      /\ DOMAIN tab[1] = DOMAIN table[1] \cup {n} /\ tab[1][n].storage = v
      /\ \A m \in DOMAIN table[1] : m # n => tab[1][m] = table[1][m]
  <2>1. n \notin DOMAIN table[Len(table)]
    BY <1>3, <1>4
  <2>2. /\ Len(tab) = Len(table) /\ DOMAIN tab = 1 .. Len(table)
        /\ DOMAIN tab[Len(table)] = DOMAIN table[Len(table)] \cup {n}
        /\ tab[Len(table)][n].storage = v
        /\ \A m \in DOMAIN table[Len(table)] :
              m # n => tab[Len(table)][m] = table[Len(table)][m]
    BY <1>2, <2>1, AddedScope
  <2>3. 1 .. 1 = {1}
    OBVIOUS
  <2> HIDE DEF tab
  <2> QED
    BY <1>3, <2>2, <2>3
<1> HIDE DEF ids, tab, L
<1>8. GlobalLayers' = 1 .. L
  BY <1>1, <1>3, <1>5, <1>6 DEF GlobalLayers
<1>9. ScopesFit'
  BY <1>1, <1>3, <1>7 DEF NamesInv, ScopesFit
<1>10. NamesKnown'
  <2>1. ASSUME NEW m \in DOMAIN tab[1] PROVE \E i \in 1 .. L : m \in DOMAIN ids[i]
    <3>1. CASE m = n
      BY <1>5, <1>6, <3>1
    <3>2. CASE m # n
      <4>1. PICK i \in 1 .. L : m \in DOMAIN cur[i]
        BY <1>5, <1>7, <3>2
      <4>2. m \in DOMAIN ids[i]
        BY <1>6, <4>1
      <4> QED
        BY <4>2
    <3> QED
      BY <3>1, <3>2
  <2>2. ~Initialises(todo')
    BY <1>1, <1>3 DEF Initialises
  <2> QED
    BY <1>1, <1>7, <1>8, <2>1, <2>2 DEF NamesKnown
<1>11. NoShadows => SameStorage'
  <2> SUFFICES ASSUME NoShadows PROVE SameStorage'
    OBVIOUS
  <2>1. ASSUME NEW i \in 1 .. L, NEW m \in DOMAIN ids[i]
        PROVE  m \in DOMAIN tab[1] /\ ids[i][m] = tab[1][m].storage
    <3>1. CASE i = L /\ m = n
      BY <1>6, <1>7, <3>1
    <3>2. CASE ~(i = L /\ m = n)
      <4>1. m \in DOMAIN cur[i] /\ ids[i][m] = cur[i][m]
        BY <1>6, <3>2
      <4>2. m \in DOMAIN table[1] /\ cur[i][m] = table[1][m].storage
        BY <1>5, <4>1
      <4> QED
        BY <1>4, <1>7, <4>1, <4>2
    <3> QED
      BY <3>1, <3>2
  <2> QED
    BY <1>1, <1>7, <1>8, <2>1 DEF SameStorage
<1> QED
  BY <1>9, <1>10, <1>11 DEF NamesInv, NoShadows

\* A function begins: a layer and a scope, both empty.
LEMMA FunctionBegins ==
    ASSUME IndInv, IndInv', NamesInv, NEW g \in FuncNames, NEW pointer \in BOOLEAN,
           FunctionDefinition(g, pointer)
    PROVE  NamesInv'
<1> DEFINE a == Frame("params")
           b == Frame("decls")
           c == Frame("stmts")
           L == Len(identifiers)
<1>1. /\ ~InFunction /\ UNCHANGED initialising /\ todo' \in {<<b, c>>, <<a, b, c>>}
      /\ identifiers' = Append(identifiers, EmptyScope) /\ table' = Append(table, EmptyScope)
  BY DEF FunctionDefinition, Outside, PushScope
<1>2. a.at = "params" /\ b.at = "decls" /\ c.at = "stmts"
  BY DEF Frame, Resume
<1> HIDE DEF a, b, c
<1>3. todo' \in Seq({a, b, c}) /\ todo' # <<>>
  <2>1. <<b, c>> \in Seq({a, b, c}) /\ <<b, c>> # <<>>
    OBVIOUS
  <2>2. <<a, b, c>> \in Seq({a, b, c}) /\ <<a, b, c>> # <<>>
    OBVIOUS
  <2> QED
    BY <1>1, <2>1, <2>2
<1>4. Depth(todo') = 0 /\ ~Initialises(todo')
  <2>1. \A x \in {a, b, c} : x.at \notin {"endScope", "init", "store"}
    BY <1>2
  <2>2. \A j \in DOMAIN todo' : todo'[j] \in {a, b, c}
    BY <1>3
  <2> QED
    BY <1>3, <2>1, <2>2, DepthNone DEF Initialises
<1>5. Bodies = 0 /\ Bodies' = 1
  <2>1. InFunction'
    <3>1. ContextOK'
      BY DEF IndInv
    <3> QED
      BY <1>3, <3>1 DEF ContextOK
  <2> QED
    BY <1>1, <2>1 DEF Bodies
<1>6. /\ L \in Nat /\ Len(table) = 1 /\ DOMAIN identifiers = 1 .. L
      /\ IsStackOf(identifiers, Names, LLVMValueID) /\ IsStackOf(table, Names, SymbolType)
  BY <1>1, NamesFacts
<1>7. /\ Len(identifiers') = L + 1 /\ \A i \in 1 .. L : identifiers'[i] = identifiers[i]
  BY <1>1, <1>6, EmptyMap, PushStack
<1>8. /\ Len(table') = 2 /\ table'[1] = table[1] /\ table'[2] = EmptyScope /\ DOMAIN table' = {1, 2}
  <2> DEFINE t == Append(table, EmptyScope)
  <2>1. /\ IsStackOf(t, Names, SymbolType) /\ Len(t) = Len(table) + 1
        /\ \A i \in 1 .. Len(table) : t[i] = table[i]
        /\ t[Len(table) + 1] = EmptyScope
    <3>1. IsStackOf(table, Names, SymbolType) /\ MapInto(EmptyScope, Names, SymbolType)
      BY <1>6, EmptyMap
    <3> QED
      BY <3>1, PushStack
  <2>2. DOMAIN t = 1 .. Len(t)
    BY <2>1, StackElements
  <2>3. 1 .. 2 = {1, 2} /\ 1 \in 1 .. 1 /\ 1 + 1 = 2
    OBVIOUS
  <2>4. table' = t
    BY <1>1
  <2> HIDE DEF t
  <2> QED
    BY <1>6, <2>1, <2>2, <2>3, <2>4
<1> HIDE DEF L
<1>9. GlobalLayers = 1 .. L /\ GlobalLayers' = 1 .. L
  <2>1. Len(identifiers) = L
    BY DEF L
  <2>2. L - 0 = L /\ (L + 1) - 1 = L
    BY <1>6
  <2> QED
    BY <1>5, <1>7, <2>1, <2>2 DEF GlobalLayers
<1>10. \A n : n \notin DOMAIN table'[2]
  BY <1>8 DEF EmptyScope
<1>11. ScopesFit'
  BY <1>4, <1>5, <1>8 DEF ScopesFit
<1>12. NamesKnown'
  BY <1>4, <1>7, <1>8, <1>9, <1>10 DEF NamesInv, NamesKnown
<1>13. SameStorage => SameStorage'
  <2> SUFFICES ASSUME SameStorage PROVE SameStorage'
    OBVIOUS
  <2>1. \A i \in 1 .. L : \A n \in DOMAIN identifiers'[i] :
          n \in DOMAIN table'[1] /\ identifiers'[i][n] = table'[1][n].storage
    BY <1>7, <1>8, <1>9 DEF SameStorage
  <2> QED
    BY <1>8, <1>9, <1>10, <2>1 DEF SameStorage
<1> QED
  BY <1>11, <1>12, <1>13 DEF NamesInv, NoShadows

\* A function ends: the names of the file are left.
LEMMA FunctionEnds ==
    ASSUME IndInv, NamesInv, EndFunction
    PROVE  NamesInv'
<1> DEFINE L == Len(identifiers)
<1>1. /\ InFunction /\ todo = <<>> /\ UNCHANGED <<initialising, todo>> /\ ~InFunction'
      /\ identifiers' = SubSeq(identifiers, 1, Len(identifiers) - 1)
      /\ table' = SubSeq(table, 1, Len(table) - 1)
  BY DEF EndFunction, PopScope, InFunction
<1>2. /\ Bodies = 1 /\ Bodies' = 0 /\ Depth(todo') = Depth(todo) /\ Depth(todo) = 0
      /\ ~Initialises(todo')
  <2>1. EndsScope(<<>>) = {} /\ ~Initialises(<<>>)
    BY DEF EndsScope, Initialises
  <2>2. Depth(<<>>) = 0
    BY <2>1, FS_EmptySet DEF Depth
  <2> QED
    BY <1>1, <2>1, <2>2 DEF Bodies
<1>3. /\ L \in Nat /\ identifiers # <<>> /\ table # <<>> /\ Len(table) = 2
      /\ IsStackOf(identifiers, Names, LLVMValueID) /\ IsStackOf(table, Names, SymbolType)
  BY <1>1, <1>2, NamesFacts
<1>4. Len(identifiers') = L - 1 /\ \A i \in 1 .. L - 1 : identifiers'[i] = identifiers[i]
  <2> DEFINE t == SubSeq(identifiers, 1, Len(identifiers) - 1)
  <2>1. Len(t) = L - 1 /\ \A i \in 1 .. L - 1 : t[i] = identifiers[i]
    BY <1>3, PoppedStack
  <2> QED
    BY <1>1, <2>1
<1>5. Len(table') = 1 /\ DOMAIN table' = {1} /\ table'[1] = table[1]
  <2> DEFINE t == SubSeq(table, 1, Len(table) - 1)
  <2>1. /\ Len(t) = Len(table) - 1 /\ DOMAIN t = 1 .. Len(table) - 1
        /\ \A i \in 1 .. Len(table) - 1 : t[i] = table[i]
    BY <1>3, PoppedStack
  <2>2. 1 .. 1 = {1} /\ 2 - 1 = 1
    OBVIOUS
  <2>3. table' = t
    BY <1>1
  <2> HIDE DEF t
  <2> QED
    BY <1>3, <2>1, <2>2, <2>3
<1> HIDE DEF L
<1>6. GlobalLayers = 1 .. L - 1 /\ GlobalLayers' = 1 .. L - 1
  <2>1. Len(identifiers) = L
    BY DEF L
  <2>2. (L - 1) - 0 = L - 1
    BY <1>3
  <2> QED
    BY <1>2, <1>4, <2>1, <2>2 DEF GlobalLayers
<1>7. ScopesFit'
  BY <1>2, <1>5 DEF ScopesFit
<1>8. NamesKnown'
  BY <1>2, <1>4, <1>5, <1>6 DEF NamesInv, NamesKnown
<1>9. SameStorage => SameStorage'
  BY <1>4, <1>5, <1>6 DEF SameStorage
<1> QED
  BY <1>7, <1>8, <1>9 DEF NamesInv, NoShadows

\* Outside of the body of a function.
LEMMA ExternalNames ==
    ASSUME IndInv, IndInv', NamesInv, NoPointers, External
    PROVE  NamesInv'
<1>1. CASE \/ GlobalDeclaration \/ EndGlobal \/ EndUnit
           \/ \E n \in VarNames : GlobalInitialised(n)
  <2>1. UNCHANGED <<function, identifiers, initialising, table, todo>>
    BY <1>1 DEF GlobalDeclaration, EndGlobal, EndUnit, GlobalInitialised, Stop, scopes
  <2> QED
    BY <2>1, StillKeeps
<1>2. CASE \E n \in VarNames, t \in VarTypes : GlobalIdentifier(n, t)
  BY <1>2, GlobalKeeps
<1>3. CASE \E n \in PtrNames : GlobalPointer(n)
  BY <1>3 DEF GlobalPointer, NoPointers
<1>4. CASE \E g \in FuncNames, pointer \in BOOLEAN : FunctionDefinition(g, pointer)
  BY <1>4, FunctionBegins
<1>5. CASE EndFunction
  BY <1>5, FunctionEnds
<1> QED
  BY <1>1, <1>2, <1>3, <1>4, <1>5 DEF External

\* The names at the start.
LEMMA InitNames == Init => NamesInv
<1> SUFFICES ASSUME Init PROVE NamesInv
  OBVIOUS
<1>1. /\ identifiers = <<>> /\ table = <<EmptyScope>> /\ todo = <<>> /\ ~InFunction
  BY DEF Init, NewTable, InFunction
<1>2. Bodies = 0 /\ DOMAIN table = {1} /\ Len(table) = 1 /\ Len(identifiers) = 0
      /\ DOMAIN table[1] = {}
  BY <1>1 DEF Bodies, EmptyScope
<1>3. EndsScope(todo) = {} /\ ~Initialises(todo)
  BY <1>1 DEF EndsScope, Initialises
<1>4. Depth(todo) = 0
  BY <1>3, FS_EmptySet DEF Depth
<1>5. GlobalLayers = {}
  BY <1>2 DEF GlobalLayers
<1> QED
  BY <1>2, <1>3, <1>4, <1>5 DEF NamesInv, ScopesFit, NamesKnown, SameStorage

\* Every step keeps the names known.
LEMMA StepNames ==
    ASSUME IndInv, IndInv', ShapeInv, NamesInv, NoPointers, [Next]_vars
    PROVE  NamesInv'
<1>1. CASE External
  BY <1>1, ExternalNames
<1>2. CASE Declarations
  BY <1>2, DeclarationsBind, WalksKeeps, BindsLocalKeeps
<1>3. CASE Expressions
  BY <1>3, ExpressionsWalk, WalksKeeps
<1>4. CASE Statements
  BY <1>4, StatementsWalk, WalksKeeps, OpensKeeps, ClosesKeeps
<1>5. CASE Ended \/ UNCHANGED vars
  BY <1>5, StillKeeps DEF Ended, vars
<1> QED
  BY <1>1, <1>2, <1>3, <1>4, <1>5 DEF Next

-----------------------------------------------------------------------------
(* Parameters and global variables have names of their own *)

\* The parameters so far are in the innermost scope until the body begins.
ParamsKnown(f, s) ==
    Away(s) \/ \A k \in DOMAIN f.params : f.params[k] \in DOMAIN table[Len(table)]
ParamsOnce ==
    /\ InFunction => IsInjective(function.params) /\ ParamsKnown(function, todo)
    /\ \A i \in DOMAIN module.functions : IsInjective(module.functions[i].params)

\* The globals of the module are names of the file, and so is *_global once its
\* declarator has been visited.
Fresh(n) == n \in DOMAIN table[1] /\ \A i \in DOMAIN module.globals : module.globals[i] # n
Undeclared == program # <<>> /\ program[Len(program)].node = "global"
GlobalsOnce ==
    /\ IsInjective(module.globals)
    /\ \A i \in DOMAIN module.globals : module.globals[i] \in DOMAIN table[1]
    /\ InGlobal => Undeclared \/ Fresh(global[1])
OnceInv == PlainParams => ParamsOnce /\ GlobalsOnce /\ \E S : program \in Seq(S)

\* One more element, unlike the others.
LEMMA AppendOnce ==
    ASSUME NEW S, NEW s \in Seq(S), IsInjective(s), NEW x, \A i \in DOMAIN s : s[i] # x
    PROVE  IsInjective(Append(s, x))
<1> DEFINE t == Append(s, x)
<1>1. /\ Len(s) \in Nat /\ DOMAIN s = 1 .. Len(s) /\ DOMAIN t = 1 .. Len(s) + 1
      /\ \A i \in 1 .. Len(s) : t[i] = s[i]
      /\ t[Len(s) + 1] = x
  OBVIOUS
<1> HIDE DEF t
<1>2. ASSUME NEW a \in DOMAIN t, NEW b \in DOMAIN t, t[a] = t[b] PROVE a = b
  <2>1. /\ a \in 1 .. Len(s) \/ a = Len(s) + 1
        /\ b \in 1 .. Len(s) \/ b = Len(s) + 1
    BY <1>1
  <2> QED
    BY <1>1, <1>2, <2>1 DEF IsInjective
<1> QED
  BY <1>2 DEF IsInjective, t

\* Nodes are noted one after another.
LEMMA ProgramGrows ==
    ASSUME [Next]_vars PROVE UNCHANGED program \/ \E x : program' = Append(program, x)
<1>1. CASE External
  BY <1>1 DEF External, GlobalDeclaration, GlobalIdentifier, GlobalPointer, GlobalInitialised,
              EndGlobal, FunctionDefinition, EndFunction, EndUnit, Note, Visit, source
<1>2. CASE Declarations
  BY <1>2 DEF Declarations, ParameterIdentifier, LocalIdentifier, LocalInitialised,
              ParameterPointer, LocalPointer, PointerInitialised, ParameterAbstract,
              LocalPrototype, InitializerExpression, InitializerList, InitializerStore,
              InitializerThrows, EndList, Note, Visit, source
<1>3. CASE Expressions
  BY <1>3 DEF Expressions, EvaluateAsRValue, EvaluateAsRValueThrows, ListExpression,
              Parentheses, PrimaryExpression, IdentifierExpression, IdentifierThrows,
              UnhandledExpression, UntypedOperand, BinaryExpression, BinaryLhs, FinishBinary,
              AssignmentExpression, AssignmentLhs, FinishAssignment, Note, Visit, source
<1>4. CASE Statements
  BY <1>4 DEF Statements, NextStatement, CompoundStatement, EndCompound, ExpressionStatement,
              EmptyStatement, UnhandledStatement, IfStatement, IfThen, IfElse, IfWithoutElse,
              IfEnd, ReturnExpression, FinishReturn, ReturnVoid, Note, Visit, source
<1>5. CASE Ended \/ UNCHANGED vars
  BY <1>5 DEF Ended, vars
<1> QED
  BY <1>1, <1>2, <1>3, <1>4, <1>5 DEF Next

\* They stay a sequence.
LEMMA ProgramSequence ==
    ASSUME [Next]_vars, NEW S, program \in Seq(S) PROVE \E T : program' \in Seq(T)
<1>1. CASE UNCHANGED program
  BY <1>1
<1>2. ASSUME NEW x, program' = Append(program, x) PROVE program' \in Seq(S \cup {x})
  <2>1. program \in Seq(S \cup {x})
    OBVIOUS
  <2> QED
    BY <1>2, <2>1
<1> QED
  BY <1>1, <1>2, ProgramGrows

\* What a handler within a function does to the names of the file and to those of
\* the innermost scope.
LEMMA ScopesKept ==
    ASSUME IndInv, IndInv', NamesInv, NamesInv', InFunction, InFunction',
           \/ Walks \/ OpensScope \/ ClosesScope
           \/ \E n \in Names : BindsLocal(n)
    PROVE  /\ DOMAIN table[1] \subseteq DOMAIN table'[1]
           /\ UNCHANGED todo => DOMAIN table[Len(table)] \subseteq DOMAIN table'[Len(table')]
<1> DEFINE T == Len(table)
<1>1. T \in Nat /\ DOMAIN table = 1 .. T /\ Depth(todo) \in Nat /\ T = 2 + Depth(todo)
      /\ IsStackOf(table, Names, SymbolType) /\ table # <<>>
  BY NamesFacts
<1>2. Depth(todo') \in Nat
  <2>1. todo' \in Seq(FrameType)
    BY DEF IndInv, TypeOK
  <2> QED
    BY <2>1, DepthNat
<1>3. CASE Walks
  BY <1>3 DEF Walks
<1>4. CASE OpensScope
  <2>1. Depth(todo') = Depth(todo) + 1 /\ table' = Append(table, EmptyScope)
    BY <1>4 DEF OpensScope, PushScope
  <2>2. \A i \in 1 .. T : table'[i] = table[i]
    BY <1>1, <2>1, EmptyMap, PushStack
  <2>3. todo' # todo
    BY <1>1, <2>1
  <2> QED
    BY <1>1, <2>2, <2>3
<1>5. CASE ClosesScope
  <2>1. Depth(todo') = Depth(todo) - 1 /\ table' = SubSeq(table, 1, Len(table) - 1)
    BY <1>5 DEF ClosesScope, PopScope
  <2>2. \A i \in 1 .. T - 1 : table'[i] = table[i]
    <3> DEFINE t == SubSeq(table, 1, Len(table) - 1)
    <3>1. \A i \in 1 .. T - 1 : t[i] = table[i]
      BY <1>1, PoppedStack
    <3> QED
      BY <2>1, <3>1
  <2>3. todo' # todo /\ 1 \in 1 .. T - 1
    BY <1>1, <1>2, <2>1
  <2> QED
    BY <2>2, <2>3
<1>6. ASSUME NEW n \in Names, BindsLocal(n)
      PROVE  /\ DOMAIN table[1] \subseteq DOMAIN table'[1]
             /\ DOMAIN table[Len(table)] \subseteq DOMAIN table'[Len(table')]
  <2>1. PICK v \in LLVMValueID, type \in CType : table' = AddToScope(table, n, Symbol(type, v))
    BY <1>6 DEF BindsLocal
  <2>2. n \notin DOMAIN table[T]
    BY <1>6 DEF BindsLocal, Declarable
  <2> DEFINE t == AddToScope(table, n, Symbol(type, v))
  <2>3. /\ Len(t) = T /\ \A i \in 1 .. T : i # T => t[i] = table[i]
        /\ DOMAIN t[T] = DOMAIN table[T] \cup {n}
    BY <2>2, AddedScope
  <2>4. table' = t
    BY <2>1
  <2> HIDE DEF t
  <2>5. 1 \in 1 .. T
    BY <1>1
  <2> QED
    BY <2>3, <2>4, <2>5
<1> QED
  BY <1>3, <1>4, <1>5, <1>6

\* A parameter has a name that none before it has.
LEMMA ParameterOnce ==
    ASSUME IndInv, IndInv', ShapeInv, NamesInv, ParamInv, PlainParams, ParamsOnce,
           NEW n \in VarNames, NEW t \in VarTypes, ParameterIdentifier(n, t)
    PROVE  /\ IsInjective(function'.params) /\ UNCHANGED module
           /\ \A k \in DOMAIN function'.params : function'.params[k] \in DOMAIN table'[Len(table')]
<1> DEFINE T == Len(table)
<1>1. /\ At("params") /\ UNCHANGED <<module, todo>> /\ n \in Names
      /\ function' = AddParameter(EmitInstr(function, Alloca(t)), n)
  BY DEF ParameterIdentifier, unit, Names
<1>2. /\ InFunction /\ todo # <<>> /\ todo \in Seq(FrameType) /\ Head(todo).at = "params"
      /\ HasParams(function) /\ function \in FunctionType
  BY <1>1, AwayWhen, AtFacts
<1>3. ~Away(todo)
  BY <1>2, HeadAndRest DEF Away
<1>4. /\ IsInjective(function.params)
      /\ \A k \in DOMAIN function.params : function.params[k] \in DOMAIN table[T]
  BY <1>2, <1>3 DEF ParamsOnce, ParamsKnown
<1>5. function.params \in Seq(Names)
  BY <1>2, FunctionFields
<1>6. function'.params = Append(function.params, n)
  <2> DEFINE a == EmitInstr(function, Alloca(t))
             h == [a EXCEPT !.params = Append(@, n)]
  <2>1. PICK instr : function' = EmitInstr(h, instr)
    BY <1>1 DEF AddParameter
  <2>2. SameParams(function, a)
    BY <1>2, BuilderParams
  <2> HIDE DEF a
  <2>3. HasParams(h) /\ h.params = Append(function.params, n)
    BY <2>2 DEF SameParams, HasParams
  <2> HIDE DEF h
  <2>4. SameParams(h, function')
    BY <2>1, <2>3, BuilderParams
  <2> QED
    BY <2>3, <2>4 DEF SameParams
<1>7. BindsLocal(n)
  BY LocalBinds
<1>8. PICK v \in LLVMValueID, type \in CType : table' = AddToScope(table, n, Symbol(type, v))
  BY <1>7 DEF BindsLocal
<1>9. n \notin DOMAIN table[T]
  BY <1>7 DEF BindsLocal, Declarable
<1>10. Len(table') = T /\ DOMAIN table'[T] = DOMAIN table[T] \cup {n}
  <2> DEFINE u == AddToScope(table, n, Symbol(type, v))
  <2>1. Len(u) = T /\ DOMAIN u[T] = DOMAIN table[T] \cup {n}
    BY <1>1, <1>9, AddedScope
  <2> QED
    BY <1>8, <2>1
<1> HIDE DEF T
<1>11. IsInjective(function'.params)
  BY <1>4, <1>5, <1>6, <1>9, AppendOnce
<1>12. ASSUME NEW k \in DOMAIN function'.params PROVE function'.params[k] \in DOMAIN table'[T]
  <2>1. \/ k \in DOMAIN function.params /\ function'.params[k] = function.params[k]
        \/ function'.params[k] = n
    BY <1>5, <1>6
  <2> QED
    BY <1>4, <1>10, <2>1
<1> QED
  BY <1>1, <1>10, <1>11, <1>12

\* Within a function.
LEMMA BodyOnce ==
    ASSUME IndInv, IndInv', ShapeInv, NamesInv, NamesInv', ParamInv, PlainParams,
           ParamsOnce, GlobalsOnce, Declarations \/ Expressions \/ Statements
    PROVE  ParamsOnce' /\ GlobalsOnce'
<1>1. InFunction /\ InFunction' /\ NoPointers
  BY StaysInFunction DEF PlainParams, NoPointers
<1>2. Passes \/ \E n \in VarNames, t \in VarTypes : ParameterIdentifier(n, t)
  BY DeclarationsPass, ExpressionsPass, StatementsPass
<1>3. \/ Walks \/ OpensScope \/ ClosesScope
      \/ \E n \in Names : BindsLocal(n)
  BY <1>1, DeclarationsBind, ExpressionsWalk, StatementsWalk
<1>4. /\ DOMAIN table[1] \subseteq DOMAIN table'[1]
      /\ UNCHANGED todo => DOMAIN table[Len(table)] \subseteq DOMAIN table'[Len(table')]
  BY <1>1, <1>3, ScopesKept
<1>5. UNCHANGED module
  BY <1>2 DEF Passes, ParameterIdentifier, unit
<1>6. ~InGlobal'
  BY <1>1 DEF InGlobal, IndInv, ContextOK
<1>7. GlobalsOnce'
  BY <1>4, <1>5, <1>6 DEF GlobalsOnce
<1>8. IsInjective(function.params) /\ ParamsKnown(function, todo)
  BY <1>1 DEF ParamsOnce
<1>9. IsInjective(function'.params) /\ ParamsKnown(function, todo)'
  <2>1. CASE Passes /\ UNCHANGED <<function, todo>>
    BY <1>4, <1>8, <2>1 DEF ParamsKnown
  <2>2. CASE Passes /\ SameParams(function, function') /\ Away(todo')
    BY <1>8, <2>2 DEF ParamsKnown, SameParams
  <2>3. CASE \E n \in VarNames, t \in VarTypes : ParameterIdentifier(n, t)
    BY <2>3, ParameterOnce DEF ParamsKnown
  <2> QED
    BY <1>2, <2>1, <2>2, <2>3 DEF Passes
<1>10. ParamsOnce'
  BY <1>5, <1>9 DEF ParamsOnce
<1> QED
  BY <1>7, <1>10

\* A global variable is declared: its name is new in the only scope.
LEMMA GlobalDeclared ==
    ASSUME IndInv, NamesInv, PlainParams, ParamsOnce, GlobalsOnce,
           NEW n \in VarNames, NEW t \in VarTypes, GlobalIdentifier(n, t)
    PROVE  ParamsOnce' /\ GlobalsOnce'
<1> DEFINE v == Value("GLOBAL", Len(module.globals))
<1>1. /\ InGlobal /\ Declarable(n) /\ global' = <<n>> /\ UNCHANGED <<function, module, todo>>
      /\ table' = AddToScope(table, n, Symbol(t, v)) /\ n \in Names
  BY DEF GlobalIdentifier, Names
<1>2. ~InFunction /\ ~InFunction'
  BY <1>1 DEF InGlobal, IndInv, ContextOK, InFunction
<1>3. Len(table) = 1
  BY <1>2, NamesFacts
<1>4. v \in LLVMValueID /\ t \in CType
  <2>1. module.globals \in Seq(VarNames \cup {NoName})
    BY DEF IndInv, TypeOK
  <2>2. Len(module.globals) \in Nat
    BY <2>1
  <2> QED
    BY <2>2, VarTypesAreTypes DEF Value, LLVMValueID, LLVMValueKind
<1> HIDE DEF v
<1>5. n \notin DOMAIN table[1]
  BY <1>1, <1>3 DEF Declarable
<1>6. DOMAIN table'[1] = DOMAIN table[1] \cup {n}
  <2> DEFINE u == AddToScope(table, n, Symbol(t, v))
  <2>1. DOMAIN u[1] = DOMAIN table[1] \cup {n}
    BY <1>1, <1>3, <1>4, <1>5, AddedScope
  <2> QED
    BY <1>1, <2>1
<1>7. ParamsOnce'
  BY <1>1, <1>2 DEF ParamsOnce
<1>8. global'[1] = n
  BY <1>1
<1>9. Fresh(global[1])'
  <2>1. \A i \in DOMAIN module.globals : module.globals[i] # n
    BY <1>5 DEF GlobalsOnce
  <2> QED
    BY <1>1, <1>6, <1>8, <2>1 DEF Fresh
<1>10. GlobalsOnce'
  BY <1>1, <1>6, <1>9 DEF GlobalsOnce
<1> QED
  BY <1>7, <1>10

\* A global variable is pushed, after its declarator.
LEMMA GlobalPushed ==
    ASSUME IndInv, ParamsOnce, GlobalsOnce, EndGlobal
    PROVE  ParamsOnce' /\ GlobalsOnce'
<1>1. /\ InGlobal /\ program[Len(program)].node # "global" /\ global' = <<>>
      /\ module' = [module EXCEPT !.globals = Append(@, global[1])]
      /\ UNCHANGED <<function, table, todo>>
  BY DEF EndGlobal, scopes
<1>2. Fresh(global[1]) /\ ~InFunction
  BY <1>1 DEF GlobalsOnce, Undeclared, InGlobal, IndInv, ContextOK
<1>3. /\ module \in [functions : Seq(FunctionType), globals : Seq(VarNames \cup {NoName})]
      /\ module.globals \in Seq(VarNames \cup {NoName})
  BY DEF IndInv, TypeOK
<1>4. module'.functions = module.functions /\ module'.globals = Append(module.globals, global[1])
  BY <1>1, <1>3
<1>5. IsInjective(module'.globals)
  BY <1>2, <1>3, <1>4, AppendOnce DEF Fresh, GlobalsOnce
<1>6. ASSUME NEW i \in DOMAIN module'.globals PROVE module'.globals[i] \in DOMAIN table'[1]
  <2>1. \/ i \in DOMAIN module.globals /\ module'.globals[i] = module.globals[i]
        \/ module'.globals[i] = global[1]
    BY <1>3, <1>4
  <2> QED
    BY <1>1, <1>2, <2>1 DEF Fresh, GlobalsOnce
<1>7. ~InGlobal'
  BY <1>1 DEF InGlobal
<1>8. ParamsOnce'
  BY <1>1, <1>2, <1>4 DEF ParamsOnce, InFunction
<1> QED
  BY <1>5, <1>6, <1>7, <1>8 DEF GlobalsOnce

\* A function begins with no parameters, and ends with distinct ones.
LEMMA FunctionOnce ==
    ASSUME IndInv, IndInv', NamesInv, PlainParams, ParamsOnce, GlobalsOnce,
           EndFunction \/ \E g \in FuncNames, pointer \in BOOLEAN : FunctionDefinition(g, pointer)
    PROVE  ParamsOnce' /\ GlobalsOnce'
<1>1. CASE EndFunction
  <2>1. /\ InFunction /\ function' = NoFunction /\ todo = <<>> /\ UNCHANGED global
        /\ module' = [module EXCEPT !.functions = Append(@, function)]
        /\ table' = SubSeq(table, 1, Len(table) - 1)
    BY <1>1 DEF EndFunction, PopScope
  <2>2. /\ module.functions \in Seq(FunctionType) /\ function \in FunctionType
        /\ module \in [functions : Seq(FunctionType), globals : Seq(VarNames \cup {NoName})]
    BY DEF IndInv, TypeOK
  <2>3. /\ module'.functions = Append(module.functions, function)
        /\ module'.globals = module.globals
    BY <2>1, <2>2
  <2>4. /\ Len(module.functions) \in Nat
        /\ DOMAIN module.functions = 1 .. Len(module.functions)
        /\ DOMAIN module'.functions = 1 .. Len(module.functions) + 1
        /\ \A j \in 1 .. Len(module.functions) : module'.functions[j] = module.functions[j]
        /\ module'.functions[Len(module.functions) + 1] = function
    BY <2>2, <2>3
  <2>5. /\ IsInjective(function.params)
        /\ \A i \in DOMAIN module.functions : IsInjective(module.functions[i].params)
    BY <2>1 DEF ParamsOnce
  <2>6. \A i \in DOMAIN module'.functions : IsInjective(module'.functions[i].params)
    BY <2>4, <2>5
  <2>7. ParamsOnce'
    BY <2>1, <2>6 DEF ParamsOnce, InFunction
  <2>8. table'[1] = table[1]
    <3> DEFINE t == SubSeq(table, 1, Len(table) - 1)
    <3>1. /\ Depth(todo) \in Nat /\ Len(table) = 2 + Depth(todo) /\ table # <<>>
          /\ IsStackOf(table, Names, SymbolType)
      BY <2>1, NamesFacts
    <3>2. \A i \in 1 .. Len(table) - 1 : t[i] = table[i]
      BY <3>1, PoppedStack
    <3>3. table' = t
      BY <2>1
    <3> HIDE DEF t
    <3>4. 1 \in 1 .. Len(table) - 1
      BY <3>1
    <3> QED
      BY <3>2, <3>3, <3>4
  <2>9. ~InGlobal'
    BY <2>1 DEF InGlobal, IndInv, ContextOK
  <2> QED
    BY <2>3, <2>7, <2>8, <2>9 DEF GlobalsOnce
<1>2. ASSUME NEW g \in FuncNames, NEW pointer \in BOOLEAN, FunctionDefinition(g, pointer)
      PROVE  ParamsOnce' /\ GlobalsOnce'
  <2>1. /\ function' = [NewFunction EXCEPT !.name = g] /\ ~InFunction
        /\ UNCHANGED <<module, global>> /\ global = <<>> /\ table' = Append(table, EmptyScope)
    BY <1>2 DEF FunctionDefinition, unit, PlainParams, Outside, PushScope
  <2>2. function'.params = <<>>
    BY <2>1 DEF NewFunction, CreateBlock, NoFunction
  <2>3. DOMAIN function'.params = {}
    BY <2>2
  <2>4. ParamsOnce'
    BY <2>1, <2>3 DEF ParamsOnce, ParamsKnown, IsInjective
  <2>5. IsStackOf(table, Names, SymbolType) /\ Len(table) = 1
    BY <2>1, NamesFacts
  <2>6. table'[1] = table[1]
    <3>1. \A i \in 1 .. Len(table) : table'[i] = table[i]
      BY <2>1, <2>5, EmptyMap, PushStack
    <3> QED
      BY <2>5, <3>1
  <2>7. ~InGlobal'
    BY <2>1 DEF InGlobal
  <2> QED
    BY <2>1, <2>4, <2>6, <2>7 DEF GlobalsOnce
<1> QED
  BY <1>1, <1>2

\* A declaration of global variables begins.
LEMMA GlobalBegins ==
    ASSUME IndInv, ParamsOnce, GlobalsOnce, GlobalDeclaration, NEW S, program \in Seq(S)
    PROVE  ParamsOnce' /\ GlobalsOnce'
<1> DEFINE x == [node |-> "global", arg |-> NoName]
<1>1. /\ program' = Append(program, x) /\ UNCHANGED <<function, module, todo, table>>
      /\ ~InFunction
  BY DEF GlobalDeclaration, Note, Outside
<1>2. x.node = "global"
  OBVIOUS
<1> HIDE DEF x
<1>3. program' # <<>> /\ program'[Len(program')] = x
  BY <1>1
<1> QED
  BY <1>1, <1>2, <1>3 DEF ParamsOnce, GlobalsOnce, Undeclared, InFunction

\* Outside of the body of a function.
LEMMA ExternalOnce ==
    ASSUME IndInv, IndInv', NamesInv, PlainParams, ParamsOnce, GlobalsOnce, External,
           NEW S, program \in Seq(S)
    PROVE  ParamsOnce' /\ GlobalsOnce'
<1>1. CASE EndUnit \/ \E n \in VarNames : GlobalInitialised(n)
  <2>1. UNCHANGED <<function, module, todo, table>> /\ ~InGlobal' /\ ~InFunction
    BY <1>1 DEF EndUnit, GlobalInitialised, Stop, Outside, InGlobal, unit, scopes, IndInv, ContextOK
  <2> QED
    BY <2>1 DEF ParamsOnce, GlobalsOnce, InFunction
<1>2. CASE \E n \in PtrNames : GlobalPointer(n)
  BY <1>2 DEF GlobalPointer, PlainParams
<1> QED
  BY <1>1, <1>2, GlobalBegins, GlobalDeclared, GlobalPushed, FunctionOnce DEF External

\* Every step.
LEMMA StepOnce ==
    ASSUME IndInv, IndInv', ShapeInv, NamesInv, NamesInv', ParamInv, [Next]_vars, OnceInv
    PROVE  OnceInv'
<1> SUFFICES ASSUME PlainParams PROVE OnceInv'
  BY DEF OnceInv
<1>1. ParamsOnce /\ GlobalsOnce
  BY DEF OnceInv
<1>2. PICK S : program \in Seq(S)
  BY DEF OnceInv
<1>3. \E T : program' \in Seq(T)
  BY <1>2, ProgramSequence
<1>4. CASE External
  BY <1>1, <1>2, <1>3, <1>4, ExternalOnce DEF OnceInv
<1>5. CASE Declarations \/ Expressions \/ Statements
  BY <1>1, <1>3, <1>5, BodyOnce DEF OnceInv
<1>6. CASE Ended \/ UNCHANGED vars
  <2>1. UNCHANGED <<function, global, module, todo, status, table, program>>
    BY <1>6 DEF Ended, vars
  <2> QED
    BY <1>1, <1>3, <2>1 DEF OnceInv, ParamsOnce, ParamsKnown, GlobalsOnce, Undeclared, Fresh,
                            InFunction, InGlobal
<1> QED
  BY <1>4, <1>5, <1>6 DEF Next

\* At the start there are none.
LEMMA InitOnce == Init => OnceInv
<1> SUFFICES ASSUME Init PROVE OnceInv
  OBVIOUS
<1>1. /\ ~InFunction /\ ~InGlobal /\ module.functions = <<>> /\ module.globals = <<>>
      /\ program = <<>>
  BY DEF Init, InFunction, InGlobal
<1>2. DOMAIN module.functions = {} /\ DOMAIN module.globals = {} /\ program \in Seq({})
  BY <1>1
<1> QED
  BY <1>1, <1>2 DEF OnceInv, ParamsOnce, GlobalsOnce, IsInjective

-----------------------------------------------------------------------------
(* Programs that are accepted are compiled; names resolve lexically *)

\* Where the layers know the names of the table, every declared name resolves.
LEMMA DeclaredResolves ==
    ASSUME IndInv, NamesInv, NEW n, HasOrd(table, n)
    PROVE  Resolvable(n)
<1>1. PICK j \in DOMAIN table : n \in DOMAIN table[j]
  BY DEF HasOrd
<1>2. /\ Len(identifiers) \in Nat /\ DOMAIN identifiers = 1 .. Len(identifiers)
      /\ Bodies \in {0, 1} /\ DOMAIN table = 1 .. Len(table)
      /\ InFunction => Len(identifiers) >= 1
      /\ ~InFunction => Len(table) = 1
  BY NamesFacts
<1>3. CASE j = 1
  <2>1. PICK i \in GlobalLayers : n \in DOMAIN identifiers[i]
    BY <1>1, <1>3 DEF NamesInv, NamesKnown
  <2>2. i \in DOMAIN identifiers
    BY <1>2, <2>1 DEF GlobalLayers
  <2> QED
    BY <2>1, <2>2 DEF Resolvable
<1>4. CASE j # 1
  <2>1. Len(identifiers) \in DOMAIN identifiers
    BY <1>1, <1>2, <1>4
  <2>2. n \in DOMAIN identifiers[Len(identifiers)]
    BY <1>1, <1>4 DEF NamesInv, NamesKnown, LastLayer
  <2> QED
    BY <2>1, <2>2 DEF Resolvable
<1> QED
  BY <1>3, <1>4

\* _resolveIdentifier returns what the outermost layer that knows the name holds.
LEMMA ResolvedIsOutermost ==
    ASSUME IsStackOf(identifiers, Names, LLVMValueID), NEW n, Resolvable(n)
    PROVE  \E i \in DOMAIN identifiers :
              /\ n \in DOMAIN identifiers[i] /\ ResolveIdentifier(n) = identifiers[i][n]
              /\ \A j \in DOMAIN identifiers : n \in DOMAIN identifiers[j] => i <= j
<1> DEFINE P(i) == /\ n \in DOMAIN identifiers[i]
                   /\ \A j \in DOMAIN identifiers : n \in DOMAIN identifiers[j] => i <= j
           holders == {i \in DOMAIN identifiers : n \in DOMAIN identifiers[i]}
<1>1. DOMAIN identifiers = 1 .. Len(identifiers)
  BY StackElements
<1>2. holders \in SUBSET Nat /\ holders # {}
  BY <1>1 DEF Resolvable
<1>3. \E i \in DOMAIN identifiers : P(i)
  BY <1>2, LeastNatural
<1>4. (CHOOSE i \in DOMAIN identifiers : P(i)) \in DOMAIN identifiers
      /\ P(CHOOSE i \in DOMAIN identifiers : P(i))
  BY <1>3
<1>5. ResolveIdentifier(n) = identifiers[CHOOSE i \in DOMAIN identifiers : P(i)][n]
  BY DEF ResolveIdentifier
<1> QED
  BY <1>4, <1>5

\* getOrd returns what one of the scopes holds.
LEMMA FoundIsHeld ==
    ASSUME NEW N, NEW V, NEW s, IsStackOf(s, N, V), NEW n, HasOrd(s, n)
    PROVE  \E i \in DOMAIN s : n \in DOMAIN s[i] /\ GetOrd(s, n) = s[i][n]
<1> DEFINE P(i) == n \in DOMAIN s[i] /\ \A j \in DOMAIN s : n \in DOMAIN s[j] => j <= i
           depths == {Len(s) - i : i \in {i \in DOMAIN s : n \in DOMAIN s[i]}}
<1>1. Len(s) \in Nat /\ DOMAIN s = 1 .. Len(s)
  BY StackElements
<1>2. depths \in SUBSET Nat /\ depths # {}
  BY <1>1 DEF HasOrd
<1>3. PICK m \in depths : \A k \in depths : m <= k
  BY <1>2, LeastNatural
<1>4. PICK i \in DOMAIN s : n \in DOMAIN s[i] /\ m = Len(s) - i
  BY <1>3
<1>5. ASSUME NEW j \in DOMAIN s, n \in DOMAIN s[j] PROVE j <= i
  <2>1. Len(s) - j \in depths
    BY <1>5
  <2>2. Len(s) - i <= Len(s) - j
    BY <1>3, <1>4, <2>1
  <2>3. i \in 1 .. Len(s) /\ j \in 1 .. Len(s)
    BY <1>1
  <2> QED
    BY <1>1, <2>2, <2>3
<1>6. \E l \in DOMAIN s : P(l)
  BY <1>4, <1>5
<1>7. (CHOOSE l \in DOMAIN s : P(l)) \in DOMAIN s /\ P(CHOOSE l \in DOMAIN s : P(l))
  BY <1>6
<1>8. GetOrd(s, n) = s[CHOOSE l \in DOMAIN s : P(l)][n]
  BY DEF GetOrd
<1> QED
  BY <1>7, <1>8

\* Where no name hides another, both find the same declaration.
LEMMA SameDeclaration ==
    ASSUME IndInv, NamesInv, NoShadows, NEW n, HasOrd(table, n)
    PROVE  ResolveIdentifier(n) = GetOrd(table, n).storage
<1>1. /\ IsStackOf(identifiers, Names, LLVMValueID) /\ IsStackOf(table, Names, SymbolType)
      /\ Len(identifiers) \in Nat /\ DOMAIN identifiers = 1 .. Len(identifiers)
      /\ Bodies \in {0, 1}
  BY NamesFacts
<1>2. PICK i \in DOMAIN identifiers :
        /\ n \in DOMAIN identifiers[i] /\ ResolveIdentifier(n) = identifiers[i][n]
        /\ \A j \in DOMAIN identifiers : n \in DOMAIN identifiers[j] => i <= j
  BY <1>1, DeclaredResolves, ResolvedIsOutermost
<1>3. PICK j \in DOMAIN table : n \in DOMAIN table[j] /\ GetOrd(table, n) = table[j][n]
  BY <1>1, FoundIsHeld
<1>4. CASE j = 1
  <2>1. PICK k \in GlobalLayers : n \in DOMAIN identifiers[k]
    BY <1>3, <1>4 DEF NamesInv, NamesKnown
  <2>2. i <= k
    BY <1>1, <1>2, <2>1 DEF GlobalLayers
  <2>3. i \in GlobalLayers
    BY <1>1, <1>2, <2>1, <2>2 DEF GlobalLayers
  <2> QED
    BY <1>2, <1>3, <1>4, <2>3 DEF NamesInv, SameStorage
<1>5. CASE j # 1
  <2>1. n \notin DOMAIN table[1] /\ table[j][n].storage = LastLayer[n]
    BY <1>3, <1>5 DEF NamesInv, SameStorage
  <2>2. i \notin GlobalLayers
    BY <1>2, <2>1 DEF NamesInv, SameStorage
  <2>3. i = Len(identifiers)
    BY <1>1, <1>2, <2>2 DEF GlobalLayers
  <2> QED
    BY <1>2, <1>3, <2>1, <2>3 DEF LastLayer
<1> QED
  BY <1>4, <1>5

\* The layers know the names of the table, in every fragment without pointer
\* declarators, which bind nothing.
THEOREM NamesInvariant ==
    ASSUME NoPointers
    PROVE  Spec => [](IndInv /\ ShapeInv /\ ValueInv /\ NamesInv)
<1>1. IndInv /\ ShapeInv /\ NamesInv /\ [Next]_vars /\ IndInv' => NamesInv'
  BY StepNames
<1> QED
  BY <1>1, InitNames, ValueInvariant, PTL DEF Spec

\* Where declarators are plain and those of a block are of variables, the
\* parameters of a function differ from each other, as do the globals of the
\* module: visit(ParameterDeclaration) and visit(Declaration) push what they are
\* given, and it is SemaVisitor's table that holds each name once.
THEOREM OnceInvariant ==
    ASSUME PlainParams
    PROVE  Spec => [](IndInv /\ ShapeInv /\ ValueInv /\ NamesInv /\ ParamInv /\ OnceInv)
<1>1. NoPointers
  BY DEF PlainParams, NoPointers
<1>2. IndInv /\ ShapeInv /\ ParamInv /\ [Next]_vars /\ IndInv' => ParamInv'
  BY StepParams
<1>3. (IndInv /\ IndInv' /\ ShapeInv /\ NamesInv /\ NamesInv' /\ ParamInv /\ OnceInv
       /\ [Next]_vars) => OnceInv'
  BY StepOnce
<1>4. Spec => [](IndInv /\ ShapeInv /\ ValueInv /\ NamesInv)
  BY <1>1, NamesInvariant
<1> QED
  BY <1>2, <1>3, <1>4, InitParams, InitOnce, PTL DEF Spec

\* Where no name is declared while another declaration of it is visible, an
\* identifier gets the storage of the declaration that SemaVisitor resolved it
\* to, although the layers are searched from the outermost and the names of an
\* ended block are still in them.
THEOREM NamesResolveLexically ==
    ASSUME NoPointers, NoShadows
    PROVE  Spec => []ResolvesLexically
<1>1. IndInv /\ NamesInv => ResolvesLexically
  BY DeclaredResolves, SameDeclaration DEF ResolvesLexically
<1> QED
  BY <1>1, NamesInvariant, PTL

\* The constructs for which the visitor dereferences null.
NoCrashes == Fragment \cap {"globalInit", "abstract", "empty"} = {}

\* A step that ends the walk early.
LEMMA StepDoesNotFail ==
    ASSUME Handled, NoPointers, NoCrashes, IndInv, ValueInv, NamesInv, NeverFails, [Next]_vars
    PROVE  NeverFails'
<1>1. ~EvaluateAsRValueThrows
  <2> SUFFICES ASSUME EvaluateAsRValueThrows PROVE FALSE
    OBVIOUS
  <2>1. At("rvalue") /\ function.instructions = <<>>
    BY DEF EvaluateAsRValueThrows
  <2>2. InFunction /\ todo # <<>> /\ Head(todo).at = "rvalue"
    BY <2>1, AtFacts
  <2>3. Ready(function)
    BY <2>2 DEF ValueInv, Evaluates, Evaluating, Resumes, Reads
  <2> QED
    BY <2>1, <2>3 DEF Ready, InstrIDs, LastInstr
<1>2. ~InitializerThrows
  <2> SUFFICES ASSUME InitializerThrows PROVE FALSE
    OBVIOUS
  <2>1. At("store") /\ ~Resolvable(initialising)
    BY DEF InitializerThrows
  <2>2. Initialises(todo) /\ InFunction
    BY <2>1, RestOfStack, AtFacts
  <2>3. Len(identifiers) \in DOMAIN identifiers
    BY <2>2, NamesFacts
  <2>4. initialising \in DOMAIN identifiers[Len(identifiers)]
    BY <2>2 DEF NamesInv, NamesKnown, LastLayer
  <2> QED
    BY <2>1, <2>3, <2>4 DEF Resolvable
<1>3. \A n \in Names : ~IdentifierThrows(n)
  BY DeclaredResolves DEF IdentifierThrows
<1>4. /\ ~EmptyStatement /\ ~ParameterAbstract /\ ~UntypedOperand
      /\ \A n \in VarNames : ~GlobalInitialised(n)
  BY DEF EmptyStatement, ParameterAbstract, UntypedOperand, GlobalInitialised, NoCrashes, Handled
<1> SUFFICES UNCHANGED status \/ status' = "done"
  BY DEF NeverFails
<1>5. CASE External
  BY <1>4, <1>5 DEF External, GlobalDeclaration, GlobalIdentifier, GlobalPointer, EndGlobal,
                    FunctionDefinition, EndFunction, EndUnit
<1>6. CASE Declarations
  <2>1. CASE \E n \in VarNames, t \in VarTypes :
               ParameterIdentifier(n, t) \/ LocalIdentifier(n, t) \/ LocalInitialised(n, t)
    BY <2>1 DEF ParameterIdentifier, LocalIdentifier, LocalInitialised
  <2>2. CASE \E n \in PtrNames : ParameterPointer(n) \/ LocalPointer(n) \/ PointerInitialised(n)
    BY <2>2 DEF ParameterPointer, LocalPointer, PointerInitialised
  <2>3. CASE \/ \E g \in FuncNames : LocalPrototype(g)
             \/ \E two \in BOOLEAN : InitializerList(two)
             \/ InitializerExpression \/ InitializerStore \/ EndList
    BY <2>3 DEF LocalPrototype, InitializerList, InitializerExpression, InitializerStore, EndList
  <2> QED
    BY <1>2, <1>4, <1>6, <2>1, <2>2, <2>3 DEF Declarations
<1>7. CASE Expressions
  <2>1. CASE \/ EvaluateAsRValue \/ Parentheses \/ BinaryLhs \/ FinishBinary
             \/ AssignmentLhs \/ FinishAssignment
    BY <2>1 DEF EvaluateAsRValue, Parentheses, BinaryLhs, FinishBinary, AssignmentLhs,
                FinishAssignment
  <2>2. CASE \/ \E two \in BOOLEAN : ListExpression(two)
             \/ \E c \in Literals : PrimaryExpression(c)
             \/ \E n \in Names : IdentifierExpression(n)
             \/ \E t \in {"int", "double"} : UnhandledExpression(t)
             \/ \E op \in Operators \cap BinaryOperator : BinaryExpression(op)
             \/ \E op \in Operators \cap AssignmentOperator : AssignmentExpression(op)
    BY <2>2 DEF ListExpression, PrimaryExpression, IdentifierExpression, UnhandledExpression,
                BinaryExpression, AssignmentExpression
  <2> QED
    BY <1>1, <1>3, <1>4, <1>7, <2>1, <2>2 DEF Expressions
<1>8. CASE Statements
  BY <1>4, <1>8 DEF Statements, NextStatement, CompoundStatement, EndCompound,
                    ExpressionStatement, UnhandledStatement, IfStatement, IfThen, IfElse,
                    IfWithoutElse, IfEnd, ReturnExpression, FinishReturn, ReturnVoid
<1>9. CASE Ended \/ UNCHANGED vars
  BY <1>9 DEF Ended, vars
<1> QED
  BY <1>5, <1>6, <1>7, <1>8, <1>9 DEF Next

\* A program that SemaVisitor accepts is compiled, whatever its size: the walk
\* ends neither by an exception of .at() nor by a null dereference.  Excluded
\* are expressions without a handler, pointer declarators, and the three
\* constructs for which the visitor dereferences null.
THEOREM AcceptedIsCompiled ==
    ASSUME Handled, NoPointers, NoCrashes
    PROVE  Spec => []NeverFails
<1>1. Init => NeverFails
  BY DEF Init, NeverFails
<1>2. IndInv /\ ValueInv /\ NamesInv /\ NeverFails /\ [Next]_vars => NeverFails'
  BY StepDoesNotFail
<1> QED
  BY <1>1, <1>2, NamesInvariant, PTL DEF Spec

-----------------------------------------------------------------------------
(* Sequences one after another *)

\* A sequence, of whatever elements.
IsSequence(s) == Len(s) \in Nat /\ s = [k \in 1 .. Len(s) |-> s[k]]

LEMMA SequenceFacts ==
    ASSUME NEW s, IsSequence(s)
    PROVE  s \in Seq({s[k] : k \in 1 .. Len(s)}) /\ DOMAIN s = 1 .. Len(s)
BY DEF IsSequence

LEMMA Concatenated ==
    ASSUME NEW s, NEW t, IsSequence(s), IsSequence(t)
    PROVE  /\ IsSequence(s \o t) /\ Len(s \o t) = Len(s) + Len(t)
           /\ \A k \in 1 .. Len(s) : (s \o t)[k] = s[k]
           /\ \A k \in Len(s) + 1 .. Len(s) + Len(t) : (s \o t)[k] = t[k - Len(s)]
<1> DEFINE X == {s[k] : k \in 1 .. Len(s)} \cup {t[k] : k \in 1 .. Len(t)}
<1>1. s \in Seq(X) /\ t \in Seq(X)
  <2>1. \A k \in 1 .. Len(s) : s[k] \in X
    OBVIOUS
  <2>2. \A k \in 1 .. Len(t) : t[k] \in X
    OBVIOUS
  <2> HIDE DEF X
  <2> QED
    BY <2>1, <2>2 DEF IsSequence
<1>2. Len(s) \in Nat /\ Len(t) \in Nat
  BY DEF IsSequence
<1> HIDE DEF X
<1> DEFINE w == s \o t
<1>3. w \in Seq(X) /\ Len(w) = Len(s) + Len(t)
  BY <1>1
<1>4. /\ \A k \in 1 .. Len(s) : w[k] = s[k]
      /\ \A k \in Len(s) + 1 .. Len(s) + Len(t) : w[k] = t[k - Len(s)]
  BY <1>1, <1>2
<1> HIDE DEF w
<1>5. Len(w) \in Nat /\ w = [k \in 1 .. Len(w) |-> w[k]]
  BY <1>3
<1>6. IsSequence(w)
  BY <1>5 DEF IsSequence
<1> QED
  BY <1>3, <1>4, <1>6 DEF w

\* Induction, stated for a set: the numbers that have the property at hand.
LEMMA SetInduction ==
    ASSUME NEW S, 0 \in S, \A n \in Nat : n \in S => n + 1 \in S
    PROVE  Nat \subseteq S
<1> DEFINE T == Nat \ S
<1>1. SUFFICES ASSUME T # {} PROVE FALSE
  OBVIOUS
<1>2. PICK x \in T : \A y \in T : x <= y
  BY <1>1, LeastNatural
<1>3. x - 1 \in Nat /\ (x - 1) + 1 = x
  BY <1>2
<1> QED
  BY <1>2, <1>3

\* What the recursive function in FlattenSeq is, up to its n-th value.
FlattensTo(S, g) == g = [i \in 1 .. Len(S) |-> IF i = 1 THEN S[i] ELSE g[i - 1] \o S[i]]
Flattens(S, g, n) == \A i \in 1 .. n : g[i] = IF i = 1 THEN S[i] ELSE g[i - 1] \o S[i]
LEMMA FlattenSolved ==
    ASSUME NEW S, Len(S) \in Nat
    PROVE  \E g : FlattensTo(S, g)
<1> DEFINE G == {n \in Nat : \E g : Flattens(S, g, n)}
<1>1. 0 \in G
  BY DEF Flattens
<1>2. ASSUME NEW n \in Nat, n \in G PROVE n + 1 \in G
  <2>1. PICK g : Flattens(S, g, n)
    BY <1>2
  <2> DEFINE h == [i \in 1 .. n + 1 |->
                      IF i <= n THEN g[i] ELSE IF i = 1 THEN S[i] ELSE g[n] \o S[i]]
  <2>2. ASSUME NEW i \in 1 .. n + 1 PROVE h[i] = IF i = 1 THEN S[i] ELSE h[i - 1] \o S[i]
    <3>1. CASE i <= n
      <4>1. h[i] = g[i] /\ (i # 1 => h[i - 1] = g[i - 1])
        BY <3>1
      <4>2. g[i] = IF i = 1 THEN S[i] ELSE g[i - 1] \o S[i]
        BY <2>1, <3>1 DEF Flattens
      <4> HIDE DEF h
      <4> QED
        BY <4>1, <4>2
    <3>2. CASE i = n + 1
      <4>1. h[i] = (IF i = 1 THEN S[i] ELSE g[n] \o S[i]) /\ (i # 1 => h[i - 1] = g[n])
        BY <3>2
      <4> HIDE DEF h
      <4> QED
        BY <4>1
    <3> QED
      BY <3>1, <3>2
  <2> HIDE DEF h
  <2>3. Flattens(S, h, n + 1)
    BY <2>2 DEF Flattens
  <2> QED
    BY <2>3
<1>3. Nat \subseteq G
  <2> HIDE DEF G
  <2> QED
    BY <1>1, <1>2, SetInduction
<1>4. PICK g : Flattens(S, g, Len(S))
  BY <1>3
<1> DEFINE h == [i \in 1 .. Len(S) |-> g[i]]
<1>5. ASSUME NEW i \in 1 .. Len(S) PROVE h[i] = IF i = 1 THEN S[i] ELSE h[i - 1] \o S[i]
  <2>1. g[i] = IF i = 1 THEN S[i] ELSE g[i - 1] \o S[i]
    BY <1>4 DEF Flattens
  <2>2. h[i] = g[i] /\ (i # 1 => h[i - 1] = g[i - 1])
    OBVIOUS
  <2> HIDE DEF h
  <2> QED
    BY <2>1, <2>2
<1>6. h = [i \in 1 .. Len(S) |-> h[i]]
  OBVIOUS
<1> HIDE DEF h
<1>7. FlattensTo(S, h)
  BY <1>5, <1>6 DEF FlattensTo
<1> QED
  BY <1>7

\* N says behind which place of s each of the first m sequences in S is.
Joins(S, s, N, m) ==
    /\ IsSequence(s)
    /\ \A k \in 1 .. m : N[k] \in Nat /\ N[k] + Len(S[k]) <= Len(s)
    /\ \A k, l \in 1 .. m : k < l => N[k] + Len(S[k]) <= N[l]
    /\ \A k \in 1 .. m : \A i \in 1 .. Len(S[k]) : s[N[k] + i] = S[k][i]
    /\ \A j \in 1 .. Len(s) : \E k \in 1 .. m : \E i \in 1 .. Len(S[k]) : j = N[k] + i

\* One sequence more.
LEMMA JoinsOneMore ==
    ASSUME NEW S, NEW s, NEW N, NEW m \in Nat, Joins(S, s, N, m), IsSequence(S[m + 1]),
           \A k \in 1 .. m : Len(S[k]) \in Nat
    PROVE  \E M : Joins(S, s \o S[m + 1], M, m + 1)
<1> DEFINE t == S[m + 1]
           w == s \o t
           M == [k \in 1 .. m + 1 |-> IF k <= m THEN N[k] ELSE Len(s)]
<1>1. IsSequence(s) /\ Len(s) \in Nat /\ Len(t) \in Nat
  BY DEF Joins, IsSequence
<1>2. /\ IsSequence(w) /\ Len(w) = Len(s) + Len(t)
      /\ \A k \in 1 .. Len(s) : w[k] = s[k]
      /\ \A k \in Len(s) + 1 .. Len(s) + Len(t) : w[k] = t[k - Len(s)]
  BY <1>1, Concatenated
<1>3. (\A k \in 1 .. m : M[k] = N[k]) /\ M[m + 1] = Len(s) /\ S[m + 1] = t
  OBVIOUS
<1>4. \A k \in 1 .. m + 1 : k \in 1 .. m \/ k = m + 1
  OBVIOUS
<1> HIDE DEF t, w, M
<1>5. \A k \in 1 .. m : N[k] \in Nat /\ N[k] + Len(S[k]) <= Len(s)
  BY DEF Joins
<1>6. ASSUME NEW k \in 1 .. m + 1 PROVE M[k] \in Nat /\ M[k] + Len(S[k]) <= Len(w)
  <2>1. CASE k = m + 1
    BY <1>1, <1>2, <1>3, <2>1
  <2>2. CASE k \in 1 .. m
    <3>1. Len(S[k]) \in Nat /\ N[k] \in Nat /\ N[k] + Len(S[k]) <= Len(s) /\ M[k] = N[k]
      BY <1>3, <1>5, <2>2
    <3> QED
      BY <1>1, <1>2, <3>1
  <2> QED
    BY <1>4, <2>1, <2>2
<1>7. ASSUME NEW k \in 1 .. m + 1, NEW l \in 1 .. m + 1, k < l PROVE M[k] + Len(S[k]) <= M[l]
  <2>1. k \in 1 .. m
    BY <1>7
  <2>2. l \in 1 .. m => N[k] + Len(S[k]) <= N[l]
    BY <1>7, <2>1 DEF Joins
  <2> QED
    BY <1>3, <1>4, <1>5, <2>1, <2>2
<1>8. ASSUME NEW k \in 1 .. m + 1, NEW i \in 1 .. Len(S[k]) PROVE w[M[k] + i] = S[k][i]
  <2>1. CASE k \in 1 .. m
    <3>1. s[N[k] + i] = S[k][i]
      BY <2>1 DEF Joins
    <3>2. N[k] + i \in 1 .. Len(s)
      BY <1>1, <1>5, <2>1
    <3> QED
      BY <1>2, <1>3, <2>1, <3>1, <3>2
  <2>2. CASE k = m + 1
    <3>1. i \in 1 .. Len(t)
      BY <1>3, <2>2
    <3>2. Len(s) + i \in Len(s) + 1 .. Len(s) + Len(t) /\ (Len(s) + i) - Len(s) = i
      BY <1>1, <3>1
    <3>3. w[Len(s) + i] = t[(Len(s) + i) - Len(s)]
      BY <1>2, <3>2
    <3> QED
      BY <1>3, <2>2, <3>2, <3>3
  <2> QED
    BY <1>4, <2>1, <2>2
<1>9. ASSUME NEW j \in 1 .. Len(w)
      PROVE  \E k \in 1 .. m + 1 : \E i \in 1 .. Len(S[k]) : j = M[k] + i
  <2>1. CASE j \in 1 .. Len(s)
    <3>1. PICK k \in 1 .. m : \E i \in 1 .. Len(S[k]) : j = N[k] + i
      BY <2>1 DEF Joins
    <3>2. k \in 1 .. m + 1
      OBVIOUS
    <3> QED
      BY <1>3, <3>1, <3>2
  <2>2. CASE j \notin 1 .. Len(s)
    <3>1. j - Len(s) \in 1 .. Len(t) /\ j = Len(s) + (j - Len(s))
      BY <1>1, <1>2, <2>2
    <3>2. m + 1 \in 1 .. m + 1
      OBVIOUS
    <3> QED
      BY <1>3, <3>1, <3>2
  <2> QED
    BY <2>1, <2>2
<1>10. Joins(S, w, M, m + 1)
  BY <1>2, <1>6, <1>7, <1>8, <1>9 DEF Joins
<1> QED
  BY <1>10 DEF w, t

\* Nothing before a sequence.
LEMMA NothingBefore == ASSUME NEW s, IsSequence(s) PROVE <<>> \o s = s
<1> DEFINE w == <<>> \o s
<1>1. IsSequence(<<>>) /\ Len(<<>>) = 0
  BY DEF IsSequence
<1>2. IsSequence(w) /\ Len(w) = Len(s) /\ \A k \in 1 .. Len(s) : w[k] = s[k]
  <2>1. /\ IsSequence(w) /\ Len(w) = 0 + Len(s)
        /\ \A k \in 0 + 1 .. 0 + Len(s) : w[k] = s[k - 0]
    BY <1>1, Concatenated
  <2> HIDE DEF w
  <2> QED
    BY <2>1 DEF IsSequence
<1> HIDE DEF w
<1>3. w = s
  BY <1>2 DEF IsSequence
<1> QED
  BY <1>3 DEF w

\* FlattenSeq puts the sequences one behind another.
LEMMA FlattenJoins ==
    ASSUME NEW S, IsSequence(S), \A k \in 1 .. Len(S) : IsSequence(S[k])
    PROVE  \E N : Joins(S, LLVM!FlattenSeq(S), N, Len(S))
<1> DEFINE n == Len(S)
           g == CHOOSE flatten : FlattensTo(S, flatten)
<1>1. n \in Nat /\ \A k \in 1 .. n : IsSequence(S[k]) /\ Len(S[k]) \in Nat
  BY DEF IsSequence
<1>2. Len(<<>>) = 0 /\ IsSequence(<<>>)
  BY DEF IsSequence
<1>3. ASSUME NEW N PROVE Joins(S, <<>>, N, 0)
  BY <1>2 DEF Joins
<1>4. CASE n = 0
  <2>1. LLVM!FlattenSeq(S) = S /\ S = <<>>
    BY <1>4 DEF LLVM!FlattenSeq, IsSequence
  <2> QED
    BY <1>3, <1>4, <2>1
<1>5. CASE n # 0
  <2>1. LLVM!FlattenSeq(S) = g[n]
    BY <1>5 DEF LLVM!FlattenSeq, FlattensTo
  <2>2. FlattensTo(S, g)
    <3>1. \E flatten : FlattensTo(S, flatten)
      BY <1>1, FlattenSolved
    <3> QED
      BY <3>1
  <2> HIDE DEF g
  <2> DEFINE G == {k \in Nat : k \in 1 .. n => \E N : Joins(S, g[k], N, k)}
  <2>3. 0 \in G
    OBVIOUS
  <2>4. ASSUME NEW k \in Nat, k \in G PROVE k + 1 \in G
    <3>1. SUFFICES ASSUME k + 1 \in 1 .. n PROVE \E N : Joins(S, g[k + 1], N, k + 1)
      OBVIOUS
    <3> DEFINE s == IF k = 0 THEN <<>> ELSE g[k]
    <3>2. g[k + 1] = IF k = 0 THEN S[k + 1] ELSE g[k] \o S[k + 1]
      <4> DEFINE h == [i \in 1 .. n |-> IF i = 1 THEN S[i] ELSE g[i - 1] \o S[i]]
      <4>1. g = h
        BY <2>2 DEF FlattensTo
      <4>2. h[k + 1] = IF k = 0 THEN S[k + 1] ELSE g[k] \o S[k + 1]
        <5>1. k + 1 \in 1 .. n /\ (k + 1 = 1 <=> k = 0) /\ (k + 1) - 1 = k
          BY <3>1
        <5> HIDE DEF n
        <5> QED
          BY <5>1
      <4> HIDE DEF h
      <4> QED
        BY <4>1, <4>2
    <3>3. IsSequence(S[k + 1]) /\ \A i \in 1 .. k : Len(S[i]) \in Nat
      BY <1>1, <3>1
    <3>4. g[k + 1] = s \o S[k + 1]
      BY <3>2, <3>3, NothingBefore
    <3>5. \E N : Joins(S, s, N, k)
      <4>1. CASE k = 0
        BY <1>3, <4>1
      <4>2. CASE k # 0
        <5>1. k \in 1 .. n
          BY <1>1, <3>1, <4>2
        <5> QED
          BY <2>4, <4>2, <5>1
      <4> QED
        BY <4>1, <4>2
    <3> HIDE DEF s
    <3>6. PICK N : Joins(S, s, N, k)
      BY <3>5
    <3> QED
      BY <3>3, <3>4, <3>6, JoinsOneMore
  <2>5. Nat \subseteq G
    <3> HIDE DEF G
    <3> QED
      BY <2>3, <2>4, SetInduction
  <2>6. \E N : Joins(S, g[n], N, n)
    BY <1>1, <1>5, <2>5
  <2> QED
    BY <2>1, <2>6
<1> QED
  BY <1>4, <1>5

-----------------------------------------------------------------------------
(* The text of a function *)

\* Where the lines are: the parameters first, then block after block, with the
\* label of block b on line N[b] and its instructions below.
IDs(f, b) == Block(f, b).instrIDs
LaidOut(f, globals, text, N) ==
    /\ \A p \in 1 .. Len(f.params) :
         p \in DOMAIN text /\ text[p] = LLVM!Line(<<"%", f.params[p]>>, {})
    /\ \A b \in BlockIDs(f) :
         /\ N[b] \in Nat /\ N[b] > Len(f.params) /\ N[b] \in DOMAIN text
         /\ text[N[b]] = LLVM!Line(<<"label", Block(f, b).label>>, {})
    /\ \A b \in BlockIDs(f) : \A k \in DOMAIN IDs(f, b) :
         /\ N[b] + k \in DOMAIN text
         /\ text[N[b] + k] = LLVM!emitInstruction(f, globals, IDs(f, b)[k])
    /\ \A b, c \in BlockIDs(f) : b < c => N[b] + Len(IDs(f, b)) < N[c]
    /\ \A j \in DOMAIN text :
         \/ j \in 1 .. Len(f.params)
         \/ \E b \in BlockIDs(f) : j = N[b] \/ \E k \in DOMAIN IDs(f, b) : j = N[b] + k

\* The lines of a block.
LEMMA BlockText ==
    ASSUME NEW f \in FunctionType, NEW globals, NEW b \in BlockIDs(f)
    PROVE  LET s == <<LLVM!Line(<<"label", Block(f, b).label>>, {})>>
                    \o [k \in DOMAIN IDs(f, b) |->
                            LLVM!emitInstruction(f, globals, IDs(f, b)[k])]
           IN /\ IsSequence(s) /\ Len(s) = 1 + Len(IDs(f, b))
              /\ s[1] = LLVM!Line(<<"label", Block(f, b).label>>, {})
              /\ \A k \in DOMAIN IDs(f, b) :
                    s[1 + k] = LLVM!emitInstruction(f, globals, IDs(f, b)[k])
<1> DEFINE l == LLVM!Line(<<"label", Block(f, b).label>>, {})
           n == Len(IDs(f, b))
           E(k) == LLVM!emitInstruction(f, globals, IDs(f, b)[k])
           u == <<l>>
           t == [k \in DOMAIN IDs(f, b) |-> E(k)]
           s == u \o t
<1>1. n \in Nat /\ DOMAIN IDs(f, b) = 1 .. n
  BY BlockFields DEF IDs
<1>2. IsSequence(u) /\ Len(u) = 1 /\ u[1] = l
  BY DEF IsSequence
<1>3. IsSequence(t) /\ Len(t) = n /\ \A k \in 1 .. n : t[k] = E(k)
  BY <1>1 DEF IsSequence
<1> HIDE DEF u, t, l, n, E
<1>4. /\ IsSequence(s) /\ Len(s) = 1 + n /\ s[1] = l
      /\ \A k \in 1 + 1 .. 1 + n : s[k] = t[k - 1]
  <2>1. /\ IsSequence(s) /\ Len(s) = Len(u) + Len(t)
        /\ \A k \in 1 .. Len(u) : s[k] = u[k]
        /\ \A k \in Len(u) + 1 .. Len(u) + Len(t) : s[k] = t[k - Len(u)]
    BY <1>2, <1>3, Concatenated
  <2> HIDE DEF s
  <2>2. 1 \in 1 .. Len(u)
    BY <1>2
  <2> QED
    BY <1>2, <1>3, <2>1, <2>2
<1> HIDE DEF s
<1>5. ASSUME NEW k \in 1 .. n PROVE s[1 + k] = E(k)
  <2>1. 1 + k \in 1 + 1 .. 1 + n /\ (1 + k) - 1 = k
    BY <1>1
  <2> QED
    BY <1>3, <1>4, <2>1
<1> QED
  BY <1>1, <1>4, <1>5 DEF s, u, t, l, n, E

\* The lines of a function.
LEMMA FunctionText ==
    ASSUME NEW f \in FunctionType, NEW globals
    PROVE  \E N : LaidOut(f, globals, LLVM!emitFunction(f, globals), N)
<1> DEFINE n == Len(f.blocks)
           m == Len(f.params)
           B(b) == <<LLVM!Line(<<"label", f.blocks[b].label>>, {})>>
                   \o [k \in DOMAIN f.blocks[b].instrIDs |->
                           LLVM!emitInstruction(f, globals, f.blocks[b].instrIDs[k])]
           L(b) == LLVM!Line(<<"label", Block(f, b).label>>, {})
           E(b, k) == LLVM!emitInstruction(f, globals, IDs(f, b)[k])
           P == [i \in DOMAIN f.params |-> LLVM!Line(<<"%", f.params[i]>>, {})]
           S == [b \in DOMAIN f.blocks |-> B(b)]
           F == LLVM!FlattenSeq(S)
           text == P \o F
<1>1. LLVM!emitFunction(f, globals) = text
  BY DEF LLVM!emitFunction
<1>2. /\ n \in Nat /\ DOMAIN f.blocks = 1 .. n /\ m \in Nat /\ DOMAIN f.params = 1 .. m
      /\ \A b \in 1 .. n : b - 1 \in BlockIDs(f) /\ b = (b - 1) + 1
      /\ \A b \in BlockIDs(f) : b \in Nat /\ b + 1 \in 1 .. n
  BY FunctionFields DEF BlockIDs, LastBlock
<1>3. IsSequence(P) /\ Len(P) = m /\ \A p \in 1 .. m : P[p] = LLVM!Line(<<"%", f.params[p]>>, {})
  BY <1>2 DEF IsSequence
<1>4. ASSUME NEW b \in BlockIDs(f)
      PROVE  /\ IsSequence(B(b + 1)) /\ Len(B(b + 1)) = 1 + Len(IDs(f, b))
             /\ B(b + 1)[1] = L(b)
             /\ \A k \in DOMAIN IDs(f, b) : B(b + 1)[1 + k] = E(b, k)
  BY BlockText DEF Block, IDs
<1>5. IsSequence(S) /\ Len(S) = n /\ \A b \in BlockIDs(f) : S[b + 1] = B(b + 1)
  BY <1>2 DEF IsSequence
<1> HIDE DEF S, B, P
<1>6. \A b \in 1 .. n : IsSequence(S[b])
  BY <1>2, <1>4, <1>5
<1>7. PICK M : Joins(S, F, M, n)
  BY <1>5, <1>6, FlattenJoins
<1> DEFINE N == [b \in BlockIDs(f) |-> m + M[b + 1] + 1]
<1>8. /\ IsSequence(F) /\ IsSequence(text) /\ Len(F) \in Nat /\ Len(text) = m + Len(F)
      /\ \A k \in 1 .. m : text[k] = P[k]
      /\ \A k \in m + 1 .. m + Len(F) : text[k] = F[k - m]
      /\ DOMAIN text = 1 .. m + Len(F)
  <2>1. IsSequence(F)
    BY <1>7 DEF Joins
  <2>2. /\ IsSequence(text) /\ Len(text) = m + Len(F)
        /\ \A k \in 1 .. m : text[k] = P[k]
        /\ \A k \in m + 1 .. m + Len(F) : text[k] = F[k - m]
    BY <1>3, <2>1, Concatenated
  <2> HIDE DEF text, F
  <2>3. DOMAIN text = 1 .. m + Len(F)
    BY <2>2, SequenceFacts
  <2> QED
    BY <2>1, <2>2, <2>3 DEF IsSequence
<1> HIDE DEF text, F, L, E, n, m
<1>9. ASSUME NEW b \in BlockIDs(f)
      PROVE  /\ N[b] = m + M[b + 1] + 1 /\ M[b + 1] \in Nat
             /\ Len(IDs(f, b)) \in Nat /\ DOMAIN IDs(f, b) = 1 .. Len(IDs(f, b))
             /\ Len(S[b + 1]) = 1 + Len(IDs(f, b))
             /\ M[b + 1] + (1 + Len(IDs(f, b))) <= Len(F)
             /\ \A i \in 1 .. 1 + Len(IDs(f, b)) : F[M[b + 1] + i] = S[b + 1][i]
             /\ S[b + 1][1] = L(b)
             /\ \A k \in DOMAIN IDs(f, b) : S[b + 1][1 + k] = E(b, k)
  <2>1. b + 1 \in 1 .. n
    BY <1>2
  <2>2. Len(IDs(f, b)) \in Nat /\ DOMAIN IDs(f, b) = 1 .. Len(IDs(f, b))
    BY BlockFields DEF IDs
  <2>3. /\ Len(S[b + 1]) = 1 + Len(IDs(f, b)) /\ S[b + 1][1] = L(b)
        /\ \A k \in DOMAIN IDs(f, b) : S[b + 1][1 + k] = E(b, k)
    BY <1>4, <1>5
  <2> DEFINE c == b + 1
  <2>4. /\ M[c] \in Nat /\ M[c] + Len(S[c]) <= Len(F)
        /\ \A i \in 1 .. Len(S[c]) : F[M[c] + i] = S[c][i]
    <3> HIDE DEF c
    <3>1. c \in 1 .. n
      BY <2>1 DEF c
    <3> QED
      BY <1>7, <3>1 DEF Joins
  <2> QED
    BY <2>2, <2>3, <2>4
<1> HIDE DEF N
<1>10. ASSUME NEW b \in BlockIDs(f)
       PROVE  /\ N[b] \in Nat /\ N[b] > m /\ N[b] \in DOMAIN text /\ text[N[b]] = L(b)
  <2> DEFINE x == M[b + 1]
             y == N[b]
             w == Len(IDs(f, b))
  <2>1. /\ y = m + x + 1 /\ x \in Nat /\ w \in Nat /\ x + (1 + w) <= Len(F)
        /\ \A i \in 1 .. 1 + w : F[x + i] = S[b + 1][i]
        /\ S[b + 1][1] = L(b)
    BY <1>9
  <2> HIDE DEF x, y, w
  <2>2. y \in m + 1 .. m + Len(F) /\ y - m = x + 1 /\ y \in 1 .. m + Len(F) /\ 1 \in 1 .. 1 + w
    BY <1>2, <1>8, <2>1
  <2>3. text[y] = L(b)
    BY <1>8, <2>1, <2>2
  <2> QED
    BY <1>2, <1>8, <2>1, <2>2, <2>3 DEF y
<1>11. ASSUME NEW b \in BlockIDs(f), NEW k \in DOMAIN IDs(f, b)
       PROVE  N[b] + k \in DOMAIN text /\ text[N[b] + k] = E(b, k)
  <2> DEFINE x == M[b + 1]
             y == N[b]
             w == Len(IDs(f, b))
  <2>1. /\ y = m + x + 1 /\ x \in Nat /\ w \in Nat /\ x + (1 + w) <= Len(F) /\ k \in 1 .. w
        /\ \A i \in 1 .. 1 + w : F[x + i] = S[b + 1][i]
        /\ S[b + 1][1 + k] = E(b, k)
    BY <1>9
  <2> HIDE DEF x, y, w
  <2>2. /\ y + k \in m + 1 .. m + Len(F) /\ (y + k) - m = x + (1 + k)
        /\ y + k \in 1 .. m + Len(F) /\ 1 + k \in 1 .. 1 + w
    BY <1>2, <1>8, <2>1
  <2>3. text[y + k] = E(b, k)
    BY <1>8, <2>1, <2>2
  <2> QED
    BY <1>8, <2>2, <2>3 DEF y
<1>12. ASSUME NEW b \in BlockIDs(f), NEW c \in BlockIDs(f), b < c
       PROVE  N[b] + Len(IDs(f, b)) < N[c]
  <2> DEFINE i == b + 1
             j == c + 1
  <2>1. M[i] + Len(S[i]) <= M[j]
    <3>1. i \in 1 .. n /\ j \in 1 .. n /\ i < j
      BY <1>2, <1>12
    <3> HIDE DEF i, j
    <3> QED
      BY <1>7, <3>1 DEF Joins
  <2>2. /\ N[b] = m + M[i] + 1 /\ N[c] = m + M[j] + 1 /\ M[i] \in Nat /\ M[j] \in Nat
        /\ Len(S[i]) = 1 + Len(IDs(f, b)) /\ Len(IDs(f, b)) \in Nat
    BY <1>9
  <2> HIDE DEF i, j
  <2> QED
    BY <1>2, <2>1, <2>2
<1>13. ASSUME NEW j \in DOMAIN text
       PROVE  \/ j \in 1 .. m
              \/ \E b \in BlockIDs(f) : j = N[b] \/ \E k \in DOMAIN IDs(f, b) : j = N[b] + k
  <2>1. SUFFICES ASSUME j \notin 1 .. m
                 PROVE  \E b \in BlockIDs(f) : j = N[b] \/ \E k \in DOMAIN IDs(f, b) : j = N[b] + k
    OBVIOUS
  <2>2. j - m \in 1 .. Len(F)
    BY <1>2, <1>8, <2>1
  <2>3. PICK d \in 1 .. n : \E i \in 1 .. Len(S[d]) : j - m = M[d] + i
    BY <1>7, <2>2 DEF Joins
  <2>4. PICK i \in 1 .. Len(S[d]) : j - m = M[d] + i
    BY <2>3
  <2> DEFINE b == d - 1
  <2>5. b \in BlockIDs(f) /\ d = b + 1
    BY <1>2
  <2> HIDE DEF b
  <2> DEFINE x == M[b + 1]
             y == N[b]
             w == Len(IDs(f, b))
  <2>6. /\ y = m + x + 1 /\ x \in Nat /\ w \in Nat /\ DOMAIN IDs(f, b) = 1 .. w
        /\ i \in 1 .. 1 + w /\ j - m = x + i /\ j \in Int
    BY <1>8, <1>9, <2>4, <2>5
  <2> HIDE DEF x, y, w
  <2>7. j = y \/ (i - 1 \in 1 .. w /\ j = y + (i - 1))
    <3>1. m \in Nat /\ i \in Int
      BY <1>2, <2>6
    <3>2. j = y + (i - 1) /\ (i = 1 \/ i - 1 \in 1 .. w)
      BY <2>6, <3>1
    <3> QED
      BY <2>6, <3>1, <3>2
  <2> QED
    BY <2>5, <2>6, <2>7 DEF y
<1>14. \A p \in 1 .. m : p \in DOMAIN text /\ text[p] = LLVM!Line(<<"%", f.params[p]>>, {})
  BY <1>2, <1>3, <1>8
<1>15. LaidOut(f, globals, text, N)
  BY <1>10, <1>11, <1>12, <1>13, <1>14 DEF LaidOut, L, E, m
<1> QED
  BY <1>1, <1>15

\* What names a line defines and uses: that of parameter j, of the label of
\* block b, of the k-th instruction below it.
ParameterLine(f, line, j) ==
    j \in 1 .. Len(f.params) /\ line.dest = <<"%", f.params[j]>> /\ line.uses = {}
LabelLine(f, line, b) == line.dest = <<"label", Block(f, b).label>> /\ line.uses = {}
InstrLine(f, globals, line, id) ==
    /\ line.dest = IF HasResult(f, id) THEN <<"%ins", id>> ELSE <<>>
    /\ line.uses = {LLVM!getValueLabel(f, globals, Instr(f, id).operands[q]) :
                       q \in LLVM!PrintedOperands(Instr(f, id))}
LEMMA LineDefines ==
    ASSUME NEW f \in FunctionType, NEW globals, NEW text, NEW N, LaidOut(f, globals, text, N),
           NEW j \in DOMAIN text
    PROVE  \/ ParameterLine(f, text[j], j)
           \/ \E b \in BlockIDs(f) : j = N[b] /\ LabelLine(f, text[j], b)
           \/ \E b \in BlockIDs(f) : \E k \in DOMAIN IDs(f, b) :
                 j = N[b] + k /\ InstrLine(f, globals, text[j], IDs(f, b)[k])
<1>1. \A dest, uses : LLVM!Line(dest, uses).dest = dest /\ LLVM!Line(dest, uses).uses = uses
  BY DEF LLVM!Line
<1>2. \A id : InstrLine(f, globals, LLVM!emitInstruction(f, globals, id), id)
  BY <1>1 DEF InstrLine, LLVM!emitInstruction, HasResult, LLVM!NoDest, LLVM!Instr, Instr
<1>3. ASSUME j \in 1 .. Len(f.params)
      PROVE  ParameterLine(f, text[j], j)
  <2> DEFINE d == <<"%", f.params[j]>>
  <2>1. text[j] = LLVM!Line(d, {})
    BY <1>3 DEF LaidOut
  <2> HIDE DEF d
  <2>2. text[j].dest = d /\ text[j].uses = {}
    BY <1>1, <2>1
  <2> QED
    BY <1>3, <2>2 DEF d, ParameterLine
<1>4. ASSUME NEW b \in BlockIDs(f), j = N[b]
      PROVE  LabelLine(f, text[j], b)
  <2> DEFINE d == <<"label", Block(f, b).label>>
  <2>1. text[j] = LLVM!Line(d, {})
    BY <1>4 DEF LaidOut
  <2> HIDE DEF d
  <2>2. text[j].dest = d /\ text[j].uses = {}
    BY <1>1, <2>1
  <2> QED
    BY <2>2 DEF d, LabelLine
<1>5. ASSUME NEW b \in BlockIDs(f), NEW k \in DOMAIN IDs(f, b), j = N[b] + k
      PROVE  text[j] = LLVM!emitInstruction(f, globals, IDs(f, b)[k])
  BY <1>5 DEF LaidOut
<1>6. \/ j \in 1 .. Len(f.params)
      \/ \E b \in BlockIDs(f) : j = N[b] \/ \E k \in DOMAIN IDs(f, b) : j = N[b] + k
  BY DEF LaidOut
<1> QED
  BY <1>2, <1>3, <1>4, <1>5, <1>6

\* The four sorts of lines.
LEMMA LineSorts ==
    ASSUME NEW f \in FunctionType, NEW globals, NEW text, NEW N, LaidOut(f, globals, text, N),
           NEW j \in DOMAIN text
    PROVE  \/ j \in 1 .. Len(f.params) /\ text[j].dest = <<"%", f.params[j]>>
           \/ \E b \in BlockIDs(f) :
                 j = N[b] /\ text[j].dest = <<"label", Block(f, b).label>>
           \/ \E b \in BlockIDs(f) : \E k \in DOMAIN IDs(f, b) :
                 j = N[b] + k /\ text[j].dest = <<"%ins", IDs(f, b)[k]>>
           \/ text[j].dest = <<>>
<1>1. ASSUME NEW id, InstrLine(f, globals, text[j], id)
      PROVE  text[j].dest = <<"%ins", id>> \/ text[j].dest = <<>>
  <2> DEFINE d == <<"%ins", id>>
             empty == <<>>
  <2>1. text[j].dest = IF HasResult(f, id) THEN d ELSE empty
    BY <1>1 DEF InstrLine
  <2> HIDE DEF d, empty
  <2>2. text[j].dest = d \/ text[j].dest = empty
    BY <2>1
  <2> QED
    BY <2>2 DEF d, empty
<1>2. CASE ParameterLine(f, text[j], j)
  BY <1>2 DEF ParameterLine
<1>3. CASE \E b \in BlockIDs(f) : j = N[b] /\ LabelLine(f, text[j], b)
  <2>1. PICK b \in BlockIDs(f) : j = N[b] /\ LabelLine(f, text[j], b)
    BY <1>3
  <2>2. text[j].dest = <<"label", Block(f, b).label>>
    BY <2>1 DEF LabelLine
  <2> QED
    BY <2>1, <2>2
<1>4. CASE \E b \in BlockIDs(f) : \E k \in DOMAIN IDs(f, b) :
             j = N[b] + k /\ InstrLine(f, globals, text[j], IDs(f, b)[k])
  <2>1. PICK b \in BlockIDs(f) : \E k \in DOMAIN IDs(f, b) :
               j = N[b] + k /\ InstrLine(f, globals, text[j], IDs(f, b)[k])
    BY <1>4
  <2>2. PICK k \in DOMAIN IDs(f, b) :
               j = N[b] + k /\ InstrLine(f, globals, text[j], IDs(f, b)[k])
    BY <2>1
  <2>3. text[j].dest = <<"%ins", IDs(f, b)[k]>> \/ text[j].dest = <<>>
    BY <1>1, <2>2
  <2> QED
    BY <2>2, <2>3
<1> QED
  BY <1>2, <1>3, <1>4, LineDefines

\* The lines that define a name, and that there is one of them.
Defining(text, name) == {i \in DOMAIN text : text[i].dest = name}
DefinedOn(text, name, line) == line \in DOMAIN text /\ Defining(text, name) = {line}

\* A parameter is defined where it is listed.
LEMMA ParameterDefined ==
    ASSUME NEW f \in FunctionType, NEW globals, NEW text, NEW N, LaidOut(f, globals, text, N),
           IsInjective(f.params), NEW p \in 1 .. Len(f.params)
    PROVE  DefinedOn(text, <<"%", f.params[p]>>, p)
<1> DEFINE name == <<"%", f.params[p]>>
<1>1. p \in DOMAIN text /\ DOMAIN f.params = 1 .. Len(f.params)
  <2>1. f.params \in Seq(Names)
    BY FunctionFields
  <2>2. DOMAIN f.params = 1 .. Len(f.params)
    BY <2>1
  <2> QED
    BY <2>2 DEF LaidOut
<1>2. text[p].dest = name
  <2>1. text[p] = LLVM!Line(name, {})
    BY DEF LaidOut
  <2> HIDE DEF name
  <2> QED
    BY <2>1 DEF LLVM!Line
<1>3. ASSUME NEW j \in DOMAIN text, text[j].dest = name PROVE j = p
  <2>1. /\ \A label : name # <<"label", label>>
        /\ \A id : name # <<"%ins", id>>
        /\ name # <<>>
    OBVIOUS
  <2>2. j \in 1 .. Len(f.params) /\ name = <<"%", f.params[j]>>
    <3> HIDE DEF name
    <3> QED
      BY <1>3, <2>1, LineSorts
  <2>3. j \in 1 .. Len(f.params) /\ f.params[j] = f.params[p]
    BY <2>2
  <2> QED
    BY <1>1, <2>3 DEF IsInjective
<1> HIDE DEF name
<1> QED
  BY <1>1, <1>2, <1>3 DEF DefinedOn, Defining, name

\* A label is defined where its block begins.
LEMMA LabelDefined ==
    ASSUME NEW f \in FunctionType, NEW globals, NEW text, NEW N, LaidOut(f, globals, text, N),
           LabelsDiffer(f), NEW b \in BlockIDs(f)
    PROVE  DefinedOn(text, <<"label", Block(f, b).label>>, N[b])
<1> DEFINE name == <<"label", Block(f, b).label>>
<1>1. N[b] \in DOMAIN text
  BY DEF LaidOut
<1>2. text[N[b]].dest = name
  <2>1. text[N[b]] = LLVM!Line(name, {})
    BY DEF LaidOut
  <2> HIDE DEF name
  <2> QED
    BY <2>1 DEF LLVM!Line
<1>3. ASSUME NEW j \in DOMAIN text, text[j].dest = name PROVE j = N[b]
  <2>1. /\ \A n : name # <<"%", n>>
        /\ \A id : name # <<"%ins", id>>
        /\ name # <<>>
    OBVIOUS
  <2>2. \E c \in BlockIDs(f) : j = N[c] /\ name = <<"label", Block(f, c).label>>
    <3> HIDE DEF name
    <3>1. text[j].dest # <<"%", f.params[j]>> /\ text[j].dest # <<>>
      BY <1>3, <2>1
    <3>2. ASSUME NEW c, NEW k PROVE text[j].dest # <<"%ins", IDs(f, c)[k]>>
      BY <1>3, <2>1
    <3>3. \E c \in BlockIDs(f) : j = N[c] /\ text[j].dest = <<"label", Block(f, c).label>>
      BY <3>1, <3>2, LineSorts
    <3> QED
      BY <1>3, <3>3
  <2>3. PICK c \in BlockIDs(f) : j = N[c] /\ Block(f, c).label = Block(f, b).label
    BY <2>2
  <2> QED
    BY <2>3 DEF LabelsDiffer
<1> HIDE DEF name
<1> QED
  BY <1>1, <1>2, <1>3 DEF DefinedOn, Defining, name

\* The result of an instruction is defined where that is listed, and above the
\* instructions with greater ids.
LEMMA ResultDefined ==
    ASSUME NEW f \in FunctionType, NEW globals, NEW text, NEW N, LaidOut(f, globals, text, N),
           InOrder(f), NEW c \in BlockIDs(f), NEW l \in DOMAIN IDs(f, c),
           HasResult(f, IDs(f, c)[l]),
           NEW b \in BlockIDs(f), NEW k \in DOMAIN IDs(f, b), IDs(f, c)[l] < IDs(f, b)[k]
    PROVE  /\ DefinedOn(text, <<"%ins", IDs(f, c)[l]>>, N[c] + l)
           /\ N[c] + l < N[b] + k
<1> DEFINE id == IDs(f, c)[l]
           name == <<"%ins", id>>
<1>1. N[c] + l \in DOMAIN text
  BY DEF LaidOut
<1>2. text[N[c] + l].dest = name
  <2>1. text[N[c] + l] = LLVM!emitInstruction(f, globals, id)
    BY DEF LaidOut
  <2> HIDE DEF id
  <2>2. LLVM!HasDest(LLVM!Instr(f, id))
    BY DEF HasResult, id, LLVM!Instr, Instr
  <2> QED
    BY <2>1, <2>2 DEF LLVM!emitInstruction, LLVM!Line
<1>3. \A d \in BlockIDs(f) :
        /\ d \in Nat /\ N[d] \in Nat /\ Len(IDs(f, d)) \in Nat
        /\ DOMAIN IDs(f, d) = 1 .. Len(IDs(f, d))
        /\ \A q \in DOMAIN IDs(f, d) : IDs(f, d)[q] \in Nat
  <2> SUFFICES ASSUME NEW d \in BlockIDs(f)
               PROVE  /\ d \in Nat /\ N[d] \in Nat /\ Len(IDs(f, d)) \in Nat
                      /\ DOMAIN IDs(f, d) = 1 .. Len(IDs(f, d))
                      /\ \A q \in DOMAIN IDs(f, d) : IDs(f, d)[q] \in Nat
    OBVIOUS
  <2>1. /\ d \in Nat /\ IDs(f, d) \in Seq(Nat) /\ Len(IDs(f, d)) \in Nat
        /\ DOMAIN IDs(f, d) = 1 .. Len(IDs(f, d))
    BY BlockFields DEF IDs
  <2>2. N[d] \in Nat
    BY DEF LaidOut
  <2> QED
    BY <2>1, <2>2
<1>4. ASSUME NEW d \in BlockIDs(f), NEW e \in BlockIDs(f),
             NEW q \in DOMAIN IDs(f, d), NEW r \in DOMAIN IDs(f, e),
             d < e \/ (d = e /\ q < r)
      PROVE  IDs(f, d)[q] < IDs(f, e)[r]
  BY <1>4 DEF InOrder, IDs
<1>5. ASSUME NEW j \in DOMAIN text, text[j].dest = name PROVE j = N[c] + l
  <2>1. /\ \A n : name # <<"%", n>>
        /\ \A label : name # <<"label", label>>
        /\ name # <<>>
    OBVIOUS
  <2>2. PICK d \in BlockIDs(f) : \E q \in DOMAIN IDs(f, d) : j = N[d] + q /\ IDs(f, d)[q] = id
    <3>1. \E d \in BlockIDs(f) : \E q \in DOMAIN IDs(f, d) :
             j = N[d] + q /\ name = <<"%ins", IDs(f, d)[q]>>
      <4> HIDE DEF name
      <4>1. text[j].dest # <<"%", f.params[j]>> /\ text[j].dest # <<>>
        BY <1>5, <2>1
      <4>2. ASSUME NEW d PROVE text[j].dest # <<"label", Block(f, d).label>>
        BY <1>5, <2>1
      <4>3. \E d \in BlockIDs(f) : \E q \in DOMAIN IDs(f, d) :
               j = N[d] + q /\ text[j].dest = <<"%ins", IDs(f, d)[q]>>
        BY <4>1, <4>2, LineSorts
      <4> QED
        BY <1>5, <4>3
    <3> QED
      BY <3>1
  <2>3. PICK q \in DOMAIN IDs(f, d) : j = N[d] + q /\ IDs(f, d)[q] = id
    BY <2>2
  <2>4. ~(d < c) /\ ~(c < d) /\ d \in Nat /\ c \in Nat /\ id \in Nat
    BY <1>3, <1>4, <2>3
  <2>5. d = c
    BY <2>4
  <2>6. ~(q < l) /\ ~(l < q) /\ q \in Nat /\ l \in Nat
    BY <1>3, <1>4, <2>3, <2>4, <2>5
  <2>7. q = l
    BY <2>6
  <2> QED
    BY <2>3, <2>5, <2>7
<1>6. N[c] + l < N[b] + k
  <2>1. /\ b \in Nat /\ c \in Nat /\ N[b] \in Nat /\ N[c] \in Nat
        /\ k \in 1 .. Len(IDs(f, b)) /\ l \in 1 .. Len(IDs(f, c))
        /\ Len(IDs(f, b)) \in Nat /\ Len(IDs(f, c)) \in Nat
        /\ IDs(f, c)[l] \in Nat /\ IDs(f, b)[k] \in Nat
    BY <1>3
  <2>2. ~(b < c) /\ ~(b = c /\ k < l)
    BY <1>4, <2>1
  <2>3. CASE c < b
    <3>1. N[c] + Len(IDs(f, c)) < N[b]
      BY <2>3 DEF LaidOut
    <3> QED
      BY <2>1, <3>1
  <2>4. CASE b = c
    <3>1. k # l
      BY <2>1, <2>4
    <3> QED
      BY <2>1, <2>2, <2>4, <3>1
  <2> QED
    BY <2>1, <2>2, <2>3, <2>4
<1> HIDE DEF name
<1> QED
  BY <1>1, <1>2, <1>5, <1>6 DEF DefinedOn, Defining, name

\* The instruction behind a conditional branch is no alloca, so one is listed.
LEMMA AllocaPlaced ==
    ASSUME NEW f, Well(f), NEW i \in InstrIDs(f), Instr(f, i).opcode = "ALLOCA"
    PROVE  Placed(f, i)
<1>1. SUFFICES ASSUME Follows(f, i) PROVE FALSE
  BY DEF Well, ShapeOK, Core, AllPlaced
<1> DEFINE j == i - 1
<1>2. j \in InstrIDs(f) /\ j + 1 = i
  <2>1. i \in Nat /\ i < Len(f.instructions) /\ Len(f.instructions) \in Nat
    BY LastBlockIn DEF Well
  <2> QED
    BY <1>1, <2>1 DEF Follows, InstrIDs, LastInstr
<1>3. IsConditionalBranch(Instr(f, j))
  BY <1>1 DEF Follows
<1> HIDE DEF j
<1>4. IfOK(f, j)
  BY <1>2, <1>3 DEF Well, ShapeOK, IfsOK
<1> QED
  BY <1>2, <1>4 DEF IfOK

\* What an operand of an instruction that is listed is called is defined.
LEMMA OperandDefined ==
    ASSUME IndInv, ShapeInv, ValueInv, OnceInv, Named, PlainParams,
           NEW f \in Functions, NEW text, NEW N, LaidOut(f, module.globals, text, N),
           NEW b \in BlockIDs(f), NEW k \in DOMAIN IDs(f, b),
           NEW q \in DOMAIN Instr(f, IDs(f, b)[k]).operands
    PROVE  LET name == LLVM!getValueLabel(f, module.globals, Instr(f, IDs(f, b)[k]).operands[q])
           IN \/ name[1] = ""
              \/ /\ name[1] = "@"
                 /\ Cardinality({g \in DOMAIN module.globals : module.globals[g] = name[2]}) = 1
              \/ /\ name[1] \notin {"", "@"}
                 /\ \E line : /\ DefinedOn(text, name, line)
                              /\ name[1] = "label" \/ line < N[b] + k
<1> DEFINE i == IDs(f, b)[k]
           instr == Instr(f, i)
           v == instr.operands[q]
           globals == module.globals
           name == LLVM!getValueLabel(f, globals, v)
<1>1. f \in AllFunctions /\ Well(f) /\ f \in FunctionType
  BY AllWell DEF AllFunctions, Well
<1>2. i \in InstrIDs(f) /\ Lists(f, b, i)
  <2>1. Lists(f, b, i)
    BY DEF Lists, IDs
  <2> QED
    BY <1>1, <2>1 DEF Well, ShapeOK, Core, ListsExisting
<1>3. /\ Good(f, instr) /\ Local(f, b, instr) /\ Handled /\ NoPointers
      /\ v \in LLVMValueID
      /\ v = Value("INSTR", NPos) \/ (InArena(f, globals, v) /\ (v.kind = "INSTR" => v.id < i))
  <2>1. Good(f, instr) /\ Local(f, b, instr)
    BY <1>1, <1>2, AllFunctionsFine DEF AllFine, Fine
  <2>2. v \in LLVMValueID
    BY <1>1, <1>2, OperandFacts
  <2>3. OperandOK(f, globals, i, v)
    BY <1>1, <1>2 DEF IndInv, OperandsInArena, FunctionOK
  <2> QED
    BY <2>1, <2>2, <2>3 DEF OperandOK, Named, Simple
<1>4. v.kind \in LLVMValueKind /\ v.kind \in {"INSTR", "PARAM", "CONST", "BLOCK", "GLOBAL"}
  BY <1>3 DEF LLVMValueID, LLVMValueKind
<1>5. v.kind # "INSTR" => InArena(f, globals, v)
  BY <1>3 DEF Value
<1>6. v.kind = "INSTR" => Uses(instr, v.id)
  BY DEF Uses
<1> HIDE DEF i, instr, v, globals
<1>7. CASE v.kind = "CONST"
  <2>1. name = <<"", f.consts[v.id + 1]>>
    BY <1>7 DEF LLVM!getValueLabel
  <2> HIDE DEF name
  <2>2. name[1] = ""
    BY <2>1
  <2> QED
    BY <2>2 DEF name, globals, v, instr, i
<1>8. CASE v.kind = "GLOBAL"
  <2> DEFINE g == v.id + 1
  <2>1. g \in DOMAIN globals
    <3>1. globals \in Seq(VarNames \cup {NoName})
      BY DEF IndInv, TypeOK, globals
    <3>2. v.id \in 0 .. Len(globals) - 1
      BY <1>5, <1>8 DEF InArena
    <3> QED
      BY <3>1, <3>2
  <2>2. IsInjective(globals)
    BY DEF OnceInv, GlobalsOnce, globals
  <2>3. name = <<"@", globals[g]>>
    BY <1>8 DEF LLVM!getValueLabel
  <2> HIDE DEF g
  <2>4. {h \in DOMAIN globals : globals[h] = globals[g]} = {g}
    BY <2>1, <2>2 DEF IsInjective
  <2>5. Cardinality({g}) = 1
    BY FS_Singleton
  <2> HIDE DEF name
  <2>6. name[1] = "@" /\ name[2] = globals[g]
    BY <2>3
  <2> QED
    BY <2>4, <2>5, <2>6 DEF name, globals, v, instr, i
<1>9. CASE v.kind = "BLOCK"
  <2> DEFINE c == v.id
  <2>1. c \in BlockIDs(f)
    BY <1>5, <1>9 DEF InArena, BlockIDs, LastBlock
  <2>2. name = <<"label", Block(f, c).label>>
    BY <1>9 DEF LLVM!getValueLabel, LLVM!Block, Block
  <2> HIDE DEF c, name
  <2>3. DefinedOn(text, name, N[c])
    BY <1>1, <2>1, <2>2, LabelDefined DEF Well, ShapeOK, Core
  <2>4. name[1] = "label"
    BY <2>2
  <2> QED
    BY <2>3, <2>4 DEF name, globals, v, instr, i
<1>10. CASE v.kind = "PARAM"
  <2> DEFINE p == v.id + 1
  <2>1. p \in 1 .. Len(f.params)
    <3>1. v.id \in 0 .. Len(f.params) - 1
      BY <1>5, <1>10 DEF InArena
    <3>2. Len(f.params) \in Nat
      BY <1>1, FunctionFields
    <3> QED
      BY <3>1, <3>2
  <2>2. name = <<"%", f.params[p]>>
    BY <1>10 DEF LLVM!getValueLabel
  <2> HIDE DEF p, name
  <2>3. IsInjective(f.params)
    BY DEF OnceInv, ParamsOnce, Functions
  <2>4. DefinedOn(text, name, p)
    BY <1>1, <2>1, <2>2, <2>3, ParameterDefined DEF globals
  <2>5. p < N[b] + k
    <3>1. N[b] \in Nat /\ N[b] > Len(f.params) /\ k \in Nat
      <4>1. k \in 1 .. Len(IDs(f, b)) /\ Len(IDs(f, b)) \in Nat
        BY <1>1, BlockFields DEF IDs
      <4>2. N[b] \in Nat /\ N[b] > Len(f.params)
        BY DEF LaidOut
      <4> QED
        BY <4>1, <4>2
    <3>2. Len(f.params) \in Nat
      BY <1>1, FunctionFields
    <3> QED
      BY <2>1, <3>1, <3>2
  <2>6. name[1] = "%"
    BY <2>2
  <2> QED
    BY <2>4, <2>5, <2>6 DEF name, globals, v, instr, i
<1>11. CASE v.kind = "INSTR"
  <2> DEFINE j == v.id
  <2>1. Uses(instr, j)
    BY <1>6, <1>11
  <2>2. name = <<"%ins", j>>
    BY <1>11 DEF LLVM!getValueLabel
  <2>3. j \in InstrIDs(f) /\ HasResult(f, j)
    BY <1>3, <2>1 DEF Good
  <2>4. j < i
    <3>1. NPos \notin InstrIDs(f)
      BY DEF NPos, InstrIDs
    <3>2. v = Value("INSTR", NPos) => j = NPos
      BY DEF Value
    <3> QED
      BY <1>3, <1>11, <2>3, <3>1, <3>2
  <2> HIDE DEF j, name
  <2>5. Placed(f, j)
    <3>1. CASE Instr(f, j).opcode = "ALLOCA"
      BY <1>1, <2>3, <3>1, AllocaPlaced
    <3>2. CASE Lists(f, b, j)
      BY <3>2 DEF Placed
    <3> QED
      BY <1>3, <2>1, <3>1, <3>2 DEF Local
  <2>6. PICK c \in BlockIDs(f) : \E l \in DOMAIN IDs(f, c) : IDs(f, c)[l] = j
    BY <2>5 DEF Placed, Lists, IDs
  <2>7. PICK l \in DOMAIN IDs(f, c) : IDs(f, c)[l] = j
    BY <2>6
  <2>8. IDs(f, c)[l] < IDs(f, b)[k] /\ HasResult(f, IDs(f, c)[l]) /\ InOrder(f)
    BY <1>1, <2>3, <2>4, <2>7 DEF i, Well, ShapeOK, Core
  <2>9. /\ DefinedOn(text, <<"%ins", IDs(f, c)[l]>>, N[c] + l)
        /\ N[c] + l < N[b] + k
    BY <1>1, <2>8, ResultDefined
  <2>10. DefinedOn(text, name, N[c] + l)
    BY <2>2, <2>7, <2>9
  <2>11. name[1] = "%ins"
    BY <2>2
  <2> QED
    BY <2>9, <2>10, <2>11 DEF name, globals, v, instr, i
<1> QED
  BY <1>4, <1>7, <1>8, <1>9, <1>10, <1>11

\* And so is every name that a line uses.
LEMMA NameDefined ==
    ASSUME IndInv, ShapeInv, ValueInv, OnceInv, Named, PlainParams, NEW f \in Functions,
           NEW text, text = LLVM!emitFunction(f, module.globals),
           NEW i \in DOMAIN text, NEW name \in text[i].uses
    PROVE  \/ name[1] = ""
           \/ /\ name[1] = "@"
              /\ Cardinality({g \in DOMAIN module.globals : module.globals[g] = name[2]}) = 1
           \/ /\ name[1] \notin {"", "@"}
              /\ \E line : DefinedOn(text, name, line) /\ (name[1] = "label" \/ line < i)
<1>1. f \in AllFunctions /\ Well(f) /\ f \in FunctionType
  BY AllWell DEF AllFunctions, Well
<1> DEFINE globals == module.globals
           called(j, q) == LLVM!getValueLabel(f, globals, Instr(f, j).operands[q])
<1>2. PICK N : LaidOut(f, globals, text, N)
  BY <1>1, FunctionText
<1> HIDE DEF globals
<1>3. PICK b \in BlockIDs(f) : \E k \in DOMAIN IDs(f, b) :
        i = N[b] + k /\ InstrLine(f, globals, text[i], IDs(f, b)[k])
  BY <1>1, <1>2, LineDefines DEF ParameterLine, LabelLine
<1>4. PICK k \in DOMAIN IDs(f, b) :
        i = N[b] + k /\ InstrLine(f, globals, text[i], IDs(f, b)[k])
  BY <1>3
<1>5. PICK q \in LLVM!PrintedOperands(Instr(f, IDs(f, b)[k])) : name = called(IDs(f, b)[k], q)
  BY <1>4 DEF InstrLine
<1>6. q \in DOMAIN Instr(f, IDs(f, b)[k]).operands
  <2> DEFINE j == IDs(f, b)[k]
             instr == Instr(f, j)
  <2>1. j \in InstrIDs(f)
    BY <1>1 DEF Well, ShapeOK, Core, ListsExisting, Lists, IDs
  <2>2. WellFormed(instr) /\ DOMAIN instr.operands = 1 .. Len(instr.operands)
        /\ Len(instr.operands) \in Nat
    BY <1>1, <2>1, OperandFacts
  <2> HIDE DEF instr
  <2>3. q \in LLVM!PrintedOperands(instr)
    BY DEF instr
  <2>4. q \in DOMAIN instr.operands
    BY <2>2, <2>3, PrintedExist
  <2> QED
    BY <2>4 DEF instr
<1> QED
  BY <1>2, <1>4, <1>5, <1>6, OperandDefined, Zenon DEF globals

\* A store, which has no result, is the value of nothing where expressions all
\* have handlers, initializers are no lists and no assignment is part of another
\* expression; where declarators are plain and those of a block are of variables,
\* a name is declared once.  There the text of every function is complete:
\* a global, label or result that it uses is defined in it, once, and the result
\* above its uses.
THEOREM TextNamesDefined ==
    ASSUME Named, "prototype" \notin Fragment
    PROVE  Spec => []TextDefinesItsNames
<1>1. PlainParams /\ NoPointers
  BY DEF PlainParams, Named, Simple, NoPointers
<1>2. ASSUME IndInv, ShapeInv, ValueInv, OnceInv PROVE TextDefinesItsNames
  <2> USE <1>2
  <2>1. SUFFICES ASSUME NEW f \in Functions,
                        NEW i \in DOMAIN LLVM!emitFunction(f, module.globals),
                        NEW name \in LLVM!emitFunction(f, module.globals)[i].uses
                 PROVE  LET text == LLVM!emitFunction(f, module.globals)
                        IN CASE name[1] = "" -> TRUE
                             [] name[1] = "@" -> Cardinality({g \in DOMAIN module.globals :
                                                    module.globals[g] = name[2]}) = 1
                             [] OTHER -> \E line \in DOMAIN text :
                                  {j \in DOMAIN text : text[j].dest = name} = {line}
                                  /\ (name[1] = "label" \/ line < i)
    BY DEF TextDefinesItsNames
  <2> DEFINE text == LLVM!emitFunction(f, module.globals)
  <2>2. i \in DOMAIN text /\ name \in text[i].uses /\ text = LLVM!emitFunction(f, module.globals)
    OBVIOUS
  <2> HIDE DEF text
  <2>3. \/ name[1] = ""
        \/ /\ name[1] = "@"
           /\ Cardinality({g \in DOMAIN module.globals : module.globals[g] = name[2]}) = 1
        \/ /\ name[1] \notin {"", "@"}
           /\ \E line : DefinedOn(text, name, line) /\ (name[1] = "label" \/ line < i)
    BY <1>1, <2>2, NameDefined
  <2>4. \A line : DefinedOn(text, name, line) =>
          line \in DOMAIN text /\ {j \in DOMAIN text : text[j].dest = name} = {line}
    BY DEF DefinedOn, Defining
  <2> QED
    BY <2>3, <2>4 DEF text
<1> QED
  BY <1>1, <1>2, OnceInvariant, PTL
=============================================================================
