------------------------------- MODULE DriverProps -------------------------------
(* What a call of thogcc leaves behind.  (GraphIsTree and DrawsTheTree, of the *)
(* graph, are PrintVisitor's.)                                                 *)
EXTENDS Driver

Unfinished == {p \in Path : files[p] \in {"empty", "part"}}
Written1(p) == files[p] # "old"

\* Status 0 is a promise to make or a shell: the assembly that was asked for is
\* complete, and so is the LLVM file, unless it could not be opened (which
\* nobody is told) or is the same file; no other file was touched.  What is
\* written to an open file is assumed to arrive there: nobody asks the stream.
SuccessMeansOutput ==
    status = "0" =>
        /\ args.destPath # NoPath => files[args.destPath] = "asm"
        /\ args.llvmDestPath \notin {NoPath, args.destPath} =>
            files[args.llvmDestPath] = IF opened THEN "llvm" ELSE "old"
        /\ \A p \in Path \ {args.destPath, args.llvmDestPath} : files[p] = "old"

\* A call that fails leaves at most one file that is not whole, and the
\* assembly is not begun before the LLVM file is complete: what a failing phase
\* leaves is never mistaken for a result (a complete assembly file means that
\* nothing failed, an unfinished file that something did; writing itself is
\* assumed not to fail).
OneFileAtATime ==
    /\ Cardinality(Unfinished) <= 1
    /\ status = "0" => Unfinished = {}
    /\ \A p \in Path : files[p] = "asm" => status = "0"
    /\ (args.destPath # NoPath /\ args.llvmDestPath # args.destPath /\ opened
            /\ Written1(args.destPath)) =>
        files[args.llvmDestPath] = "llvm"

\* The graph is complete before a file is touched, so a program that the later
\* phases reject can still be looked at.
GraphBeforeFiles ==
    args.printGraph /\ (status = "0" \/ \E p \in Path : Written1(p)) => WholeGraph

-----------------------------------------------------------------------------
(* The inductive invariant behind them *)

ArgsType ==
    [srcPath : Path \cup {NoPath}, destPath : Path \cup {NoPath},
     llvmDestPath : Path \cup {NoPath}, printGraph : BOOLEAN]
MainTypeOK ==
    /\ phase \in Phase /\ status \in {"running", "0", "1", "crash"} /\ opened \in BOOLEAN
    /\ args \in ArgsType /\ files \in [Path -> Content]

IsSequence(s) == s \in Seq({s[i] : i \in DOMAIN s})

\* The numbers are used up in the order of the lines, one for each edge and its
\* box; a visit under way has one of them.
Numbered ==
    /\ lastID \in Nat /\ IsSequence(boxes) /\ IsSequence(arrows) /\ IsSequence(visits)
    /\ NotPrinted => lastID = 0 /\ ~Printing
    /\ Len(arrows) = lastID /\ (~NotPrinted => Len(boxes) = lastID + 1)
    /\ \A a \in DOMAIN arrows : arrows[a].to = a /\ arrows[a].from \in 0 .. a - 1
    /\ \A b \in DOMAIN boxes : boxes[b].id = b - 1
    /\ \A v \in DOMAIN visits : "cur" \in DOMAIN visits[v] /\ visits[v].cur \in 0 .. lastID

\* Only the LLVM file may have been opened, and then it holds this.
OnlyLLVM(content) ==
    /\ opened => args.llvmDestPath \in Path
    /\ \A p \in Path :
        files[p] = IF opened /\ p = args.llvmDestPath THEN content ELSE "old"
\* The assembly holds this; an LLVM file of another name is whole.
Assembly(content) ==
    /\ args.destPath \in Path /\ files[args.destPath] = content
    /\ opened => args.llvmDestPath \in Path
    /\ \A p \in Path \ {args.destPath} :
        files[p] = IF opened /\ p = args.llvmDestPath THEN "llvm" ELSE "old"
FilesInPhase ==
    /\ phase # "done" => status = "running"
    /\ phase \in Phase \ {"emitLLVM", "riscv", "emitRISCV", "done"} => ~opened
    /\ phase \notin {"riscv", "emitRISCV", "done"} => OnlyLLVM("empty")
    /\ phase = "riscv" => OnlyLLVM("llvm")
    /\ phase = "emitRISCV" => Assembly("empty")
    /\ phase = "done" =>
        \/ status = "0" /\ args.destPath = NoPath /\ OnlyLLVM("llvm")
        \/ status = "0" /\ Assembly("asm")
        \/ status \in {"1", "crash"} /\ (Assembly("empty") \/ Assembly("part"))
        \/ status \in {"1", "crash"} /\ \E c \in {"empty", "part", "llvm"} : OnlyLLVM(c)

GraphInPhase ==
    /\ args.printGraph /\ phase \in {"irgen", "llvm", "emitLLVM", "riscv", "emitRISCV"} => WholeGraph
    /\ GraphBeforeFiles
DriverInv == MainTypeOK /\ Numbered /\ FilesInPhase /\ GraphInPhase

(* The tree, and the walk over it *)

KindsOf(sort) == {Sorts[sort][1]} \cup Sorts[sort][2]
IsList(n) == ast[n].kind = "NodeList"
\* The members of a node, those of a list being its elements.
HasMember(n, label) ==
    IF IsList(n) THEN label = "element" /\ ast[n].sort \in DOMAIN Sorts
    ELSE label \in DOMAIN Members[ast[n].kind]
MemberOf(n, label) == IF IsList(n) THEN One(ast[n].sort) ELSE Members[ast[n].kind][label]
\* A node is in a member of an earlier one, and of a class that may be there.
Belongs(n) ==
    /\ ast[n].parent \in 1 .. n - 1 /\ HasMember(ast[n].parent, ast[n].label)
    /\ LET member == MemberOf(ast[n].parent, ast[n].label)
       IN /\ ast[n].sort = member.sort
          /\ IF member.list THEN IsList(n)
             ELSE ast[n].sort \in DOMAIN Sorts /\ ast[n].kind \in KindsOf(ast[n].sort)
ToFill(slot) ==
    /\ slot.parent \in DOMAIN ast /\ HasMember(slot.parent, slot.label)
    /\ slot.member = MemberOf(slot.parent, slot.label)
    /\ slot.more => IsList(slot.parent)
Grown ==
    /\ IsSequence(ast) /\ ast # <<>> /\ ast[1] = Root
    /\ \A n \in 2 .. Len(ast) : Belongs(n)
    /\ IsSequence(open) /\ \A i \in DOMAIN open : ToFill(open[i])

NodeAt(id) == boxes[id + 1].node
\* An edge with its box is a line of the visit of box id.
Shows(a, id, line) ==
    arrows[a].from = id /\ arrows[a].label = line.label /\ NodeAt(a) = line.node
Left(id, line) == \E v \in DOMAIN visits : visits[v].cur = id /\ line \in visits[v].left
\* Of the lines of a visit each is drawn once, or left to be drawn.
Walked ==
    /\ NodeAt(0) = 1
    /\ \A id \in 0 .. lastID : NodeAt(id) \in 0 .. Len(ast)
    /\ \A a \in DOMAIN arrows : NodeAt(a) # NoNode =>
        /\ NodeAt(arrows[a].from) # NoNode
        /\ \E line \in LinesOf(NodeAt(arrows[a].from)) : Shows(a, arrows[a].from, line)
        /\ \A other \in DOMAIN arrows : Shows(other, arrows[a].from,
              [label |-> arrows[a].label, node |-> NodeAt(a)]) => other = a
    /\ \A v \in DOMAIN visits :
        /\ DOMAIN visits[v] = {"cur", "left"}
        /\ NodeAt(visits[v].cur) # NoNode
        /\ visits[v].left \subseteq LinesOf(NodeAt(visits[v].cur))
        /\ \A w \in DOMAIN visits : v < w => visits[v].cur < visits[w].cur
    /\ \A id \in 0 .. lastID : NodeAt(id) # NoNode =>
        \A line \in LinesOf(NodeAt(id)) : line.node # NoNode =>
            (Left(id, line) <=> ~\E a \in DOMAIN arrows : Shows(a, id, line))
WalkInv ==
    /\ Grown
    /\ phase \in {"args", "open", "parse", "sema"} => NotPrinted
    /\ ~NotPrinted => Walked
=============================================================================
