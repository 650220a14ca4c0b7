# A specification of thogcc

thogcc is a C89 compiler in C++: it parses one translation unit, checks it,
translates it to a small subset of LLVM IR and prints that as LLVM assembly and
as RISC-V (rv32gc) assembly.  It is a sequential program; what is hard about it
is not interleaving but *the order in which one pass appends to arenas and
remembers indices into them*, and that four passes have to agree on what the
tree and the IR mean without checking each other.  These modules model the passes
that carry the compiler's logic: the typedef names that lexer and parser share,
the semantic analysis, the IR generator, both emitters, the code that comes out at
work on a core, the printer of the tree, the driver around them, and what each of
them expects from the one before it.

File names below are relative to the repository, whose implementation is in
`src/` and `include/`.

## The system

| Part | State | Operations | Talks to |
|---|---|---|---|
| Command line (`cli.cpp`) | none | `parseArgs` | driver |
| Driver (`main.cpp`, `parse.cpp`) | the options, input and output streams | parse, analyse, print, generate, emit LLVM, emit RISC-V; any exception ends the process with exit code 1 | all passes, in that order |
| Lexer (`lexer.l`, `CScanner.h`) | the typedef table, shared with the parser | next token; an identifier is a `TYPE_NAME` if the table holds it | parser |
| Parser (`parser.y`) | LALR stack, typedef table, `g_root` | builds the AST; pushes and pops typedef scopes and enters typedef names in the middle of rules, because the lexer is one token ahead | lexer, AST |
| AST (`include/ast`) | the tree; SemaVisitor writes symbols, evaluated types, lvalue flags and constants into it | accept | visitors |
| Visitor dispatch (`Visitor.h`, `DefaultVisitor.h`, `RecursiveVisitor`) | none | double dispatch; a node without a handler goes to `visit(Node)` | all passes |
| Types, symbol table (`include/types`, `types/helpers.cpp`) | a stack of scopes | pushScope, popScope, addToScope, addToParentScope, getOrd; toLLVMType | SemaVisitor, IRGenVisitor |
| Semantic analysis (`SemaVisitor`) | symbol table, `_curType`, the last constant | declares, resolves and types; rejects programs by throwing | AST |
| IR generator (`IRGenVisitor`) | the function and global under construction, the module, identifier layers, the name being initialised | one handler per node | AST, IR |
| IR (`LLVMModule.h`, `ir/helpers.cpp`) | per function: instruction, parameter, constant and block arenas | look-ups by index, which throw outside of the arena | all of the rest |
| LLVM emitter (`IREmitter.cpp`) | none | prints a module | IR |
| RISC-V emitter (`RISCVEmitter.cpp`) | the current function | frame layout, instruction selection | IR |
| AST printer (`PrintVisitor`) | the output stream, the last box number (`_id`) | prints the tree as a flow chart | AST |

What makes each of them correct, and what is hard about it:

* **IR generator.** Every operand must be the index of an element that exists
  and was computed before; "the value of the expression just visited" is always
  found as `instructions.size() - 1`, which is wrong as soon as an expression
  emits nothing.  An if statement keeps three instruction ids while arbitrary
  statements are generated and patches them afterwards.  A name must get the
  storage of the declaration that SemaVisitor resolved it to, although the two
  passes keep different tables and search them in opposite directions.  The
  generated code must compute what the C program computes.
* **Semantic analysis.** Scopes are pushed and popped in pairs; a function's
  name goes to the parent scope; `_curType` must be the type of the declarator
  at hand after nested parameter lists and array bounds changed it.
* **Lexer and parser.** A name declared by a typedef is a type from the next
  token on, until its scope ends.
* **RISC-V emitter.** Slots of the frame are disjoint and do not overlap what
  the prologue saved; the caller gets its registers back; a block without a
  branch continues with the block laid out after it.
* **LLVM emitter.** The text has no arenas: every name it uses has to be defined
  by it, once and before.
* **AST printer.** One counter numbers the boxes of nested visits, and each visit
  must draw its edges from its own box after its children moved the counter on.
* **Driver.** No output may look complete when a later pass failed.

`PROJECT.json` lists the hazards of this code at their lines.

## Modules

| Module | Models |
|---|---|
| `LLVMModule` | `LLVMModule.h`, `LLVMType.h`, `ir/helpers.cpp`: arenas, operands, look-ups |
| `TypedefNames` | `lexer.l`, `CScanner.h`, `TypedefTable.h` and the actions of `parser.y` that use it: one token of look-ahead |
| `TypedefProofs` | the proofs about it |
| `AST` | the node classes and the members `parser.y` fills them with |
| `PrintVisitor` | `PrintVisitor.cpp`, on every tree that `AST` allows |
| `Driver` | `main.cpp`, `cli.cpp`, `parse.cpp`: options, passes, output files, exceptions |
| `DriverProps`, `DriverProofs` | its properties and their proofs |
| `SymbolTable` | `SymbolTable.h` and the identifier layers of `IRGenVisitor` |
| `Sema` | `SemaVisitor.cpp`, and `RecursiveVisitor.cpp` where it has no handler: one action per handler or part of one |
| `SemaProps` | the properties of `Sema`, against C's own scopes and types |
| `SemaProofs` | the proofs about scopes, declarations, constants, types, null types and C's scopes |
| `IRBuilder` | what the handlers of `IRGenVisitor` do to the function under construction: `_emitInstr`, `_createBlock`, the instructions of each operator, patching |
| `IRGen` | `IRGenVisitor.cpp`: one action per handler, or per part of a handler between two visits of children |
| `IRGenProps` | type invariant, invariants, action property |
| `IRGenProofs` | the proofs that operands, frames and layers are in order |
| `IRShapeProofs` | the proofs about blocks, branches and if statements |
| `IRValueProofs` | the proofs about the results that instructions use, about parameters and about names |
| `IREmitter` | `IREmitter.cpp`: the LLVM text as lines that define and use names |
| `IRTextProps` | what that text must be for the functions `IRGen` builds |
| `CSemantics` | C89's meaning of a function, and the IR's |
| `Division`, `Word` | integer division, machine words |
| `Layout` | the order of a function's instructions when its blocks are laid out |
| `Frame` | the stack frame of `RISCVEmitter.cpp` |
| `RISCVEmitter` | `RISCVEmitter.cpp`: the assembly of a function, and when `.at()` throws on the way |
| `IRMachine` | what executing a function of the IR means: the abstract specification |
| `RISCVMachine` | a core that executes the assembly, its caller, and the mapping to `IRMachine` |
| `Compiler` | `IRGen`, then `emitModule`, then calls of the compiled functions |
| `CompilerProps` | what the compiled functions may do to the core, to memory and to their caller |
| `CompilerProofs` | the proofs about the frame, about emission, about where the emitted code keeps addresses and which line of the IR each line of it is for |
| `RefinementProofs` | the proof that the emitted code implements the IR |
| `MCSema`, `MCIRGen`, `MCCompile`, `MCCompiler`, `MCDriver` | instances for TLC; `MCCompile` and `MCCompiler` hold the properties about meaning |

The modules build on each other in this order:

    LLVMModule <- IRBuilder <- IRGen <- IRGenProps <- CSemantics <- MCCompile
         ^                                                  ^
         |                                                  |
         +-- Layout, RISCVEmitter (with Frame) <- RISCVMachine <- Compiler
         |                                             |
         +-- Layout <- IRMachine <--- instantiated ----+

    SymbolTable <- Sema <- SemaProps <- SemaProofs, MCSema
    SymbolTable <- IRGen
    IRGenProps, IREmitter <- IRTextProps <- MCIRGen, MCCompile
    IRGenProps <- IRGenProofs; IRGenProofs, IRTextProps <- IRShapeProofs <- IRValueProofs
    IRGenProps, RISCVMachine <- Compiler <- CompilerProps; CompilerProps, CSemantics <- MCCompiler
    CompilerProps, IRValueProofs <- CompilerProofs <- RefinementProofs
    AST <- PrintVisitor <- Driver <- DriverProps <- MCDriver, DriverProofs
    TypedefNames <- TypedefProofs

### How TypedefNames corresponds to lexer and parser

The lexer asks the table when it scans an identifier; the parser writes the table in
the middle of its rules and at both ends of a block.  Which comes first depends on
when bison reads the next token, so that is in the model: a token is scanned only
when the parser has none and what it has shifted leaves a choice.  After `{` and
after `}` there is nothing to choose: the reductions that push and pop a scope
(`OpenScope`, `CloseScope`) happen without look-ahead.  After a declarator the parser
has to see `;` to know that the list is over, so `EnterTypes` happens with `;` scanned
and not yet shifted.

Two walks over the same grammar run side by side.  `author` writes the program, one
token at a time, and knows what each name is by C's rules (`cScopes`); `parser`
consumes the tokens as the lexer classified them, with the table (`scopes`) it fills
itself.  A place in the grammar is where in a declaration or statement one is, what
each open block has come to (declarations, then statements), and the declaration under
way.  The part of the grammar kept is that in which it matters what a name is:
declarations with several declarators, typedefs, functions, nested blocks, and
expression statements `T * x;`, which are a declaration or a product.

### How Driver and PrintVisitor correspond to main

`phase` is the statement of `main()` that comes next.  The passes that other modules
model are outcomes here: they succeed, throw (`status` "1"), or, where the other
modules show that they can, end in undefined behaviour or an assertion ("crash").
`files` says what each file holds: what was there before, nothing, a part, a whole
LLVM or a whole assembly text.  `opened` is whether the LLVM stream could be opened,
which `main.cpp:57` does not notice, because it asks the source stream.  Both
destinations may be the same file.  Writing to a file that could be opened is assumed
to succeed.  The code does not make sure of it: `main.cpp` does not ask a stream after
an emitter has written to it, so on a full disk the status would be 0 and a file not
whole.

The tree that is printed grows while `parse` runs, member by member, as `parser.y`
builds nodes (`GrowNode`, `GrowList`, `GrowElement`, or `LeaveOut` for a null
pointer).  Each member has a usual content; a tree may depart from it `MaxChoices`
times.  `PrintVisitor` then walks it as the code does: a number for the edge and the
child's box (`visitChild`), one for a name or a value (`printLeaf`), and `visits` is
the stack of `visit()` calls, each with its local `cur` and the lines it has still to
print, of which `IsNext` is the one that comes first in the code.  The graph drawn is that of
the code, including what it gets wrong: `getCondExpr()` returns the first expression
of a loop, so a loop's condition is never drawn and a `for`'s first expression is
drawn twice (`TimesDrawn`).

### How Sema corresponds to SemaVisitor

`table`, `curType` and `mailbox` are `_table`, `_curType` and `_lastConstVal`;
`result` is what visiting the last expression wrote into its node
(`getEvaluatedType()`, `isLvalue()`), `status` how the walk ended: by itself, by an
exception, or by dereferencing a null pointer.  `todo` is the call stack, as in
`IRGen` below, and the tree is chosen while it is walked, within the rules of
`parser.y`: `Expr(rule)` stands for an expression of one of the grammar's rules up
to `rule`.  `Constructs` limits a run to some nodes of the grammar.

So that it can be said what is right, C's own view of the same program runs beside
the visitor's: `cScopes` are the scopes of the standard (a prototype has one of its
own, structure members are in none), and the frame of a declarator carries the type
that it really has; `cType` is C's type of the name declared last, and a function's
type in C is made of C's types of its parameters (`meantParams`), which SemaVisitor
never sees.  All of these are read by properties and by the choice of the next node
only, where the lexer or C restricts it: a name that a typedef declared is not an
identifier, a name is declared once per scope.  A literal is its place in the program,
so that it can be said whose value `mailbox` holds.

`IRGen` does not read the state of `Sema`: it states what it expects of an accepted
program (`table`, `evaluated`), and for the declarations it can generate code for, `sema_handled` shows that this is what
SemaVisitor computes.

### How IRGen corresponds to IRGenVisitor

The visitor is recursive.  `todo` is its call stack inside the current function:
the head is the innermost frame.  A frame is a child that will be visited next
or a suspended `visit()`, with the local variables it will need (`ids`).  A
handler that visits children is split at those visits, for example
`visit(IfStatement)` into `IfStatement` (visit the condition), `IfThen` (the
branch, the first block), `IfElse` or `IfWithoutElse` (line 557 on) and `IfEnd`.
Everything a handler does between two visits is one action.

The AST is not an input but is chosen during the walk: where a child is
visited, any node may be chosen that the parser builds and SemaVisitor accepts
there.  What SemaVisitor computed for the visitor is kept beside it: `table` is
its symbol table at this point of the program and `evaluated` the evaluated type
of the expression visited last.  A program SemaVisitor rejects is never chosen,
with one exception that makes no difference: arithmetic on a pointer variable,
which SemaVisitor rejects with an exception and on which the visitor throws when
it resolves the name; both end the process the same way.  `program` records the
nodes chosen, which is the program a property can refer to.

`Fragment` says which constructs beyond the core a run may use, so that a run
can ask about programs within what the compiler handles as well as outside.

A `std::size_t` that wrapped (`size() - 1` of an empty vector) is `NPos`.

### How the back end corresponds to RISCVEmitter

An assembly line is a record: mnemonic, operands and, for checking only, the id
of the IR instruction it was emitted for.  `emitInstruction`, `loadValue`,
`pushStack`, `emitBlock` and `emitFunction` return the lines that the functions of
the same name print.  `Compiler` prints one function per step; a function with an
operand that `.at()` or `loadValue` refuses ends the process (`EmitterThrows`),
with the functions before it, and some of its own lines, in the file.  A program that
was printed to its end is called if `.data` has a word for each global (`Executable`)
and the frame of the function called has room between the globals and the top of the
stack (`FitsInMemory`).

`IREmitter` prints a function as lines, each with the name it defines and the names
it uses; spelling is left out.  The text does not know of arenas, so an operand that
exists but is printed in no block, or later, or has no result, is a name nobody
defines.

`RISCVMachine` is a core with the registers the emitter uses and one memory:
globals at the bottom, a stack that grows down from `StackTop`, an address every
four bytes.  A word has `WordBits` bits, so that arithmetic wraps as it does on 32
bits.  Its caller passes arguments in a0..a7 and has values of its own in `ra` and
`s0`.  The core is not part of the repository: it is modelled from the mnemonics
the emitter uses.

`IR!Spec` is the abstract specification.  The refinement mapping reads an IR value
from its slot and a variable from its slot or its global; the line of the IR that
is going on is the one the next assembly line was emitted for.  A step of the
core that is not the last one of an IR instruction is a stutter; the last one
(`sw` into the slot, `sw` through a pointer, a jump) is the IR's step.  In the
prologue locals may hold anything, because LLVM leaves them undefined.

### Abstractions

* A constant is its value; all constants the visitor creates are i32.  Constants
  other than integers have no handler.
* A label is its role and its number; the text is `if_true_3`.
* A parameter is its name; the types of parameters, the return type and the
  initial value of a global (always 0) are left out: no property reads them.
* Every declarator of a local `Declaration` is an element of the declaration
  list, because the visitor treats `int x, y;` as it treats two declarations.
* Function names are not identifiers of expressions: calls have no handler.
* C requires that a name is declared once per scope; neither pass checks it and
  the programs considered obey it.

## What is checked

The compiler needs no fairness: it is sequential, terminates because the tree is
finite (here: because `budget` is), and the properties are about what it has built
at each point.  The run `machine` also asks whether calls of compiled functions come
back, and assumes weak fairness of the core's step: a core executes the next
instruction if there is one.  A line it cannot execute, such as a jump to a label
that was not printed, stops it, and then the call does not come back.

The runs of `MCCompiler` switch deadlock checking off: when all functions are
printed and called as often as `MaxCalls` allows, or the emitter threw, nothing is
left to do.  So does `typedef_names`: the author runs out of names he may declare.
In `driver` it is on; the process that has ended stutters.

| Run | Question | Bounds |
|---|---|---|
| `handled` | Is the IR of programs of handled constructs usable by both emitters, and is the LLVM file printed to its end? | 8 nodes, one function name, one variable name with shadowing, one operator of each kind |
| `fallback` | And for everything else that passes SemaVisitor? | 7 nodes, all optional constructs but nested blocks, shadowing and bare conditions |
| `compile` | Does a name get the storage of its declaration, does the IR compute what C says, and does its text define what it uses? | 8 nodes, two functions, two names, globals, `-`, `=`, `==`, comma, nested blocks, if/else, arguments 0..2 |
| `shadow` | `scoped_var.c`: violated | 8 nodes |
| `machine` | Does the assembly do what the IR means, and what C says, also when a second call finds the globals of the first? Does it respect its caller's memory and return to it, always? | 10 nodes (a parameter, an if with both branches returning; or a global that the function reads and assigns), `=`, one name, arguments 0 and 2, two calls |
| `arithmetic` | Are the right instructions selected, and is every function printed that has no `return;`? | 7 nodes, all eleven operators, a global, `return;`, operands 0, 2, 7, -128, -1, one call |
| `sema_handled` | Is every name known where C knows it, and with its type (but for parameters that are pointers)?  Does every operator find the types it asks for? | 6 nodes, two names, two lists of specifiers, pointers, parameters, initialisers, nested blocks, calls, an operator of each shape |
| `sema_everything` | Are scopes balanced, names stable and constants kept apart whatever the program is? | 4 nodes, every construct of the grammar, one name |
| `sema_prototypes` | `test_CALL.c`: violated | 3 nodes |
| `driver` | What does a call of the compiler leave behind, and is the graph the tree? | 2 file names, 3 options, trees with up to 3 departures from the usual |
| `typedef_names` | Is every identifier the token that C makes of it? | 3 names, blocks nested 3 deep, text of any length |
| `frame_pointer` | "restore old frame pointer" (RISCVEmitter.cpp:175): violated | 5 nodes |

Words have 8 bits in the three runs of `MCCompiler`: enough for both signs, for the one quotient
that overflows (-128 / -1), for division by zero, and for frames of 26
instructions, more than 10 nodes generate.  A bit more would change no comparison
the emitter relies on.  `StackTop`, `CallerRA` and `CallerFP` are arbitrary
distinct words; 240 is 16-byte aligned as the ABI demands.

A *node* is a node of the AST that the program's author chose: a declarator, a
statement, an expression (list nodes and braces come free).  Eight of them hold
an if statement with an else branch nested in another one's branch, an
assignment with a binary right-hand side, or a function with a parameter, a local
variable and a return.  The properties relate at most two functions, two nested
if statements or two declarations of a name.

`typedef_names` explores text of any length: what a state remembers of it is finite.
Three names are a typedef, one declared beside it and one in an inner block; three
levels are a function, a block in it and one in that.  Two paths are enough to have
two outputs, the same output twice, and a file nobody named; three options give both
outputs and one of them a second time (with `-g`, both and the graph).  Three departures put a
loop into a branch of an if statement, or an initialiser with braces after a
declarator, so that a visit has children after a child with children.

What the invariants say (each is stated above its definition in `IRGenProps`):
`OperandsInArena`, `NoWrappedIndex`: no look-up of an emitter throws.
`PlacedInOrder`: printing block by block is printing in order of emission, and
what is in no block is exactly the jump that `visit(IfStatement)` pushes after
its branch.  `ValuesUsedInTheirBlock`: there is no phi, so values cross blocks
only in memory.  `BranchesGoForward`, `UnpatchedAreOwned`, `IfBlocksMatch`:
control flow is what the source nests.  `StoresToAddresses`,
`ArithmeticOnValues`: `_evaluateAsRValue` loads exactly where it must.
`NeverFails`: a name SemaVisitor resolved is known to the visitor.
`ResolvesLexically`: it has the right storage.  `ParametersFirst`: parameters are
saved before anything can overwrite their registers.  `AppendOnly`: emitted code
is only changed by patching a branch target once.  `CompiledMeansSource`: where C
defines the result of a call and the final values of globals, the IR gives them.
`Implements`: so does the assembly what the IR says, step by step.
`ComputesSource`: both together, against C directly.  `ReturnsToCaller`,
`StoresStayInFrame`: whatever a function does with its frame, the caller's stack
pointer, return address and memory are untouched.  `EmissionSucceeds`: the emitter
throws at a function with a `return;` or with a ninth parameter (`arithmetic` has the
former) and at no other that the visitor handles.  `CallsReturn`: the code has no way
to loop, since the source has no loop.

Of the semantic pass: `ScopesBalanced`: the handlers that open a scope close it, so
`back()` and `popScope()` find one.  `ResolvesAsDeclared`, `NothingLeaks`: the table
is C's, `_curType` is the type of the declarator at hand.  For parameters in the type
of a function `ResolvesAsDeclared` says what the code does (`ParameterFor`): the type is
C's, or where C's is a pointer the type of the specifiers.  `FirstDeclarationWins`: a
name never changes its symbol while its scope is open, so nodes annotated before and
after agree.  `NeverCrashes`: no handler asks for a type nobody set.
`ConstantsAreOwn`: the mailbox never holds the literal of another constant.
`sema_handled` is limited to the constructs for which its properties are true; what
lies outside is under "Deviations" below.  Six nodes hold a global, a function with a
parameter, a block in it and two declarations in that; the properties relate at most
two declarations of a name in nested scopes.

Of lexer and parser: `ClassifiedAsInC`: although the table is read one token ahead of
the parser that writes it, every identifier is the token C makes of it.
`ParsedAsWritten`: no valid text is rejected, and the parser takes it as it was meant.
`ScopesMatchBlocks`: one scope per open block, so `popScope()` and `back()` find one.

Of the driver: `SuccessMeansOutput`: status 0 means that what was asked for is
there, except an LLVM file that could not be opened.  `OneFileAtATime`: a call that
fails leaves at most one file that is not whole, and no complete assembly.
`GraphBeforeFiles`: the graph is complete before a file is touched.  Of the printer:
`GraphIsTree`: numbers are used once, and edges make a tree.  `DrawsTheTree`: it is
the tree that was parsed, but for the loops.

Of the LLVM text: `LLVMEmissionSucceeds`: `IREmitter` never throws for handled
constructs, so the file it opened is completed.  `TextDefinesItsNames`: a name it
uses is a global, a label, or the result of an earlier line, defined once.  The
latter is in `compile`, not in `handled`, because of the braced initialiser (below).

The frame pointer is the exception: instruction 0 has the slot in which the
prologue saved it.  A compiled function never notices (it does not use the saved
value), which is why `Implements` holds; its caller does.

### Deviations

Where a test or a comment of the repository contradicts the code and a run shows it,
`PROJECT.json` has a finding.  The model has more places that are as in the code and
not as in C, each visible as a construct that the runs which must hold leave out or as
an exception that a property makes:

* SemaVisitor: type qualifiers never reach it (`parser.y:401` has no `$$ =`), so
  nothing is const; the visit of a type name does nothing, so a variable of a typedef
  type is `void`; the condition of a loop is not visited (`getCondExpr()` returns the
  initialisation); an array declarator changes the type of the next declarator; the
  last literal of a constant expression is its value; a parameter that is a pointer is
  recorded in the function's type as the type of its specifiers, because the pointer
  declarator has put `_curType` back (`SemaVisitor.cpp:260`) before the function
  declarator reads it (`SemaVisitor.cpp:224`), so `int f(int *p)` is `int(int)` when
  `types/helpers.cpp:84-93` prints it; `f(void)` is recorded with a parameter of type
  `void`; a member of a structure or a parameter of a prototype is entered into the scope
  of the declaration and keeps a later declaration of its name out; a call without arguments of a
  function with parameters, `int;`, `f() {}`, `int a[]`, strings and operators on
  untyped expressions end in a null pointer or an assertion.
* IRGenVisitor: `if (1)` branches on an i32; the jump to the end of an if statement
  follows a branch that already returned, and a function that ends with an if
  statement has an empty last block; `int y = x;` stores the
  address of `x`; a compound assignment stores its right operand and drops the sum
  (`IRGenVisitor.cpp:439`, against `tests/cw-suite/programs/multiply.c:18`); `int x =
  {1};` stores twice, and the second store takes the first one, which has no result,
  for a value: the text uses a name that it does not define.
* IRGenVisitor after SemaVisitor: an operand that SemaVisitor gave no type (a cast, a unary operator,
  `sizeof`, an index, a member, `?:`) and whose value is taken for an address, because
  the last instruction is one, dereferences null (`IRGenVisitor.cpp:40`, the action
  `UntypedOperand`).
* RISCVEmitter: `return;` is `ret void`, which has no operand, and `.at(0)`
  (`RISCVEmitter.cpp:316`) throws with a part of the function in the file.
* IREmitter: an unconditional branch names its label without `%`; comparisons of
  floats, address computations and calls are printed as nothing; a parameter that is
  called `ins0` has the name of an instruction.
* Loops in the printer, see above.  Only the model's tree has both expressions.
* Lexer: in an inner scope a typedef's name cannot be declared again as a variable, a
  parameter or a member, as C allows: it is a `TYPE_NAME` to the grammar.  In the
  declaration that makes it a typedef name it is still an identifier after its own
  declarator.  The author of `TypedefNames` does neither.

## What is proved

`IRGenProofs` proves, for all names, types, literals, operators, fragments and
bounds, with only the `ASSUME`s of `IRGen` (names of the two kinds of variables
are disjoint and not the marker for "no name"; types, literals and operators are
what they are called):

    THEOREM Invariant           == Spec => []IndInv
    THEOREM TypesCorrect        == Spec => []TypeOK
    THEOREM OperandsStayInArena == Spec => []OperandsInArena

`OperandsInArena` alone is not inductive.  An action of a suspended visit uses
ids the visit saved earlier, so `FramesOK` says that these are instructions of
the function, and for an if statement branches with the operands that will be
patched; an identifier's storage becomes an operand, so `LayersOK` says that
every layer holds storage that exists; and constant 0, block 0 and the layer of
the function are used without a test, so `ContextOK` says they are there whenever
a visit is under way.  The proof first treats the operations of `IRBuilder`: each
turns a *sound* function into a sound one that *extends* it (arenas only grow and
operands keep their kinds), and what was a good operand, frame or storage stays
good under extension.  Then there is one lemma per action.

`IRShapeProofs` proves, under the same assumptions and for every `Fragment`, that the
control flow is what the source nests:

    THEOREM ShapeInvariant     == Spec => [](IndInv /\ ShapeInv)
    THEOREM InstructionsPlaced == Spec => []PlacedInOrder
    THEOREM BranchesForward    == Spec => []BranchesGoForward
    THEOREM UnpatchedOwned     == Spec => []UnpatchedAreOwned
    THEOREM IfBlocks           == Spec => []IfBlocksMatch
    THEOREM InstructionsKept   == Spec => AppendOnly

None of these is inductive either: what `IfEnd` patches was saved by `IfThen`, any
number of statements ago.  `ShapeInv` has two halves.  One is about a function alone
(`Core`, `Complete`, `IfsOK`): operands are as many and of the kinds the emitters ask
for, blocks list existing instructions in ascending order, the one instruction that
no block lists follows a conditional branch, and a branch that is patched leads
forward to the block with the label of its if statement; the labels of a function's
blocks differ (`LabelsDiffer`), and a jump over an else branch has been patched wherever
the branch of its condition has (`JoinsPatched`).  The other relates it to the
call stack: each suspended if statement holds a conditional branch and jumps that are
its own and of nobody else (`IfsFit`, `Owned`), and everything that an inner one holds
was emitted after everything an outer one holds (`Nested`), so that patching for the
inner one leaves the outer one's branches at 0.  Every action but the four of
`visit(IfStatement)` emits *straight-line code* (`Runs`): instructions at the end of
the last block, no branch among them.  One lemma says that this keeps both halves; the
four others, which create blocks and patch, have one each.

`IRValueProofs` proves that what an instruction uses is there.  These theorems have
assumptions about `Fragment`, because there are constructs with which the property is
false; the run `fallback` has them all.

| Theorem | Property | Constructs that are not in `Fragment` |
|---|---|---|
| `EmissionNeverThrows` | `LLVMEmissionSucceeds` | `unhandledExpr` |
| `NoOperandWraps` | `NoWrappedIndex` | `unhandledExpr`, `pointer` |
| `ValuesStayInBlocks` | `ValuesUsedInTheirBlock` | `unhandledExpr`, `pointer` |
| `StoresGoToAddresses` | `StoresToAddresses` | `pointer` |
| `ArithmeticIsOnValues` | `ArithmeticOnValues` | `unhandledExpr`, `pointer`, `nestedAssign` |
| `ParametersComeFirst` | `ParametersFirst` | `pointer`, `prototype` |
| `TextNamesDefined` | `TextDefinesItsNames` | `unhandledExpr`, `pointer`, `nestedAssign`, `braces`, `prototype` |
| `NamesResolveLexically` | `ResolvesLexically` | `pointer`, `shadow` |
| `AcceptedIsCompiled` | `NeverFails` | `unhandledExpr`, `pointer`, `globalInit`, `abstract`, `empty` |

An expression without a handler emits nothing, so "the last instruction" is that of
another expression or none at all; a name declared with a pointer has no storage; an
assignment that is an operand leaves a store, which has no result, as the last
instruction; a function declaration in a block adds parameters to the function under
construction; a name declared again in a block is found in the layer of the file first;
an initialiser list, too, leaves a store as the last instruction; and the last three constructs of the table make the visitor dereference null.

A handler takes `instructions.size() - 1` for the value of the child it has just
visited.  That is right only if whatever was visited in between left an instruction,
in the same block, of the right sort.  `ValueInv` therefore says what each frame of the
call stack relies on.  The frames of expressions and initialisers lie on top of those
of statements (`Layered`), so no block begins in the middle of an expression; what
lies below a frame waits for that sort of frame (`Linked`); the frame on top finds
what it needs (`Resumes`), and ids saved before an operand was visited are still in
the last block, with a type to compute with (`Saves`).  From this each emitted
instruction is `Good` (its operands exist and are addresses or values as its opcode
demands) and `Local` (they are in its block, or allocas), and later code changes
neither: instructions are only patched in branch targets, and blocks are left behind
for good.  `ParamInv` says in addition that a parameter list is visited only while the
function holds two instructions for each parameter so far and nothing else.

`TextNamesDefined` is about what a reader of the output sees: in the text of a function,
every name that a line uses is defined by exactly one line, and a result by a line above.
It takes all of the invariants.  A name of a global or a parameter is looked up in the
text and nowhere else, so there must not be two of one name; `visit(ParameterDeclaration)`
and `visit(Declaration)` push whatever they are given, and that it happens once is
`OnceInv`: a name is pushed only when `SemaVisitor` has just entered it into a table that
did not have it.  A label is the text's because labels differ and every branch, the joins
included, was patched to a block that is there (`ShapeInv`).  A result is the text's
because the instruction is in the block of its use (`Local`) and in ascending order
there, because it has a result at all (`Delivers`: a store takes the place of a value in
neither of the constructs left), and because an alloca, which may be used in any block,
is never the instruction that no block lists (`AllocaPlaced`).  The rest of the proof says on which line
of the text each of these is: `LaidOut` gives the line of every block's label, its
instructions follow, and `FlattenJoins`, by induction over the list of blocks, shows
that the concatenation `emitFunction` makes is laid out so.

The last two rows of the table relate the layers of `IRGenVisitor` to the scopes that `SemaVisitor`
accepted the program with.  The two do not have the same shape: a block is a scope of
the table and no layer of the visitor.  `NamesInv` ties them together through the call
stack: besides the scope of the file and that of a function body there is one for each
`endScope` frame (`ScopesFit`); every name of the file's scope is in an outer layer and
every other name in the function's layer (`NamesKnown`); and where nothing is shadowed
the entries are the same storage (`SameStorage`).  A name that the table has is
therefore found, which is why a program that was accepted does not end in an exception
of `.at()`: `AcceptedIsCompiled`, a promise of one pass about the input of the next.

`CompilerProofs` begins with the frame, for functions of any number of instructions:
slots share no byte (`SlotsAreDisjoint`), are above the stack pointer
(`SlotsAreInFrame`), do not overlap the saved return address
(`SlotsSpareReturnAddress`); slot 0 *is* the saved frame pointer
(`SlotZeroIsSavedFramePointer`); the stack stays 16-byte aligned
(`StackStaysAligned`), and up to 253 instructions the offsets fit their immediates
(`SmallFramesAreAddressable`).  These rest on the arithmetic of the rounding alone.
Then it proves what the emitted code does, for programs, modules, words, stacks and
globals of any size:

| Theorem | Property | Constructs that are not in `Fragment` |
|---|---|---|
| `CompilerGenerates` | `CompilerSpec => Spec`: `IRGen` goes on as if nothing came after it | none |
| `FunctionsArePrinted` | `EmissionSucceeds` | `unhandledExpr`, `pointer` |
| `CompiledReturns` | `ReturnsToCaller` | `unhandledExpr`, `pointer`, `nestedAssign` |
| `CompiledStaysInFrame` | `StoresStayInFrame` | `unhandledExpr`, `pointer`, `nestedAssign` |

`EmissionSucceeds` says that only a `return;` and a ninth parameter make the emitter
throw.  The last two theorems need not leave them out, because a program that was not
printed to its end is not called.  Of the machine they assume that the top
of the stack and the globals are at addresses, that globals are numbered by naturals and
that what the caller has in `ra` and `s0` are words (`MachineAssumption`).  Words may
have any number of bits; that `2 ^ WordBits` is a natural is proved (`PowerFacts`).

The last two are memory safety of the compiler's output, and what makes them more than
arithmetic about the frame is `sw t0, 0(t1)`: where such a store goes depends on what an
earlier line left in a register or in a slot of the frame, and that on what the IR
generator thought an operand was.  The proof goes through four stations.

1. *The IR* (`FinishedIsReady`).  What `IRValueProofs` and `IRShapeProofs` say of a
   finished function, put into what the code relies on (`CodeReady`): an address that an
   instruction uses is an alloca, a global, or was computed before it in its block, and
   never is an index that wrapped; what has type `ptr` is an address computation on one of
   these with offset 0 (`Plain`), which is read from constant 0.  That constant 0 of
   every function *is* 0 is an invariant of `IRGen` of its own (`Zeros`).
2. *The lines* (`Typed`).  A fact is "this register holds the address of a variable",
   "this instruction's slot does", or "this register is 0", and there is a rule for each
   line of assembly that says which facts it needs and which it leaves (`LineOK`).  From
   the code alone, each instruction's lines can be annotated with facts
   (`InstructionTyped`), then each block's (`BlockTyped`), then the body's.  At a label
   nothing is known, which is why it does not matter where a jump comes from; addresses
   do not outlive a block because of `ValuesStayInBlocks`.
3. *The core* (`LineStep`).  If the facts before a line hold of registers and memory
   (`Holds`), they hold after the core has executed it, and it wrote a slot, a variable,
   or nothing.  A store to the slot of one instruction leaves the slots of the others
   alone, and so does one to a variable: `SlotsAreDisjoint` again.
4. *The function* (`Running`).  From the call to `ret`, prologue and epilogue included:
   while the body runs, the stack pointer is below the frame, the frame pointer at its
   top, the return address in the word that no slot overlaps, and the facts of the line
   at hand hold.  `MachineInv` is this, or no call under way.  Neither property is
   inductive without all of it.

`FramePointerRestored` is the one promise of the prologue that `Running` cannot keep;
`SlotZeroIsSavedFramePointer` says why.

`RefinementProofs` proves the refinement: what a function of the IR means, `IRMachine`,
is what the core does when it executes the assembly printed for it.

    THEOREM Refines == ASSUME Simple PROVE CompilerSpec => Implements

`Simple` says that `unhandledExpr`, `pointer` and `nestedAssign` are not in `Fragment`;
with the last two the property of the IR that station 1 above rests on is false, and the
first has no IR.  In addition to `MachineAssumption` calls are assumed to pass words
(`ArgumentsAssumption`).  Words, stacks, globals, memories and programs may have any
size.  The mapping, in `RISCVMachine`, reads the values of the IR off the frame: the
value of instruction *i* is what is at `SlotAddress(i)`, and its place is the number of
the line of IR that the line at `pc` was printed for (`lineOf`).  The argument:

1. *Arithmetic* (`SameWords`, `ALUImplements`, `ComparisonImplements`).  Each operation
   of the core gives one of the outcomes that the IR allows: `mul`, `sub`, the bitwise
   ones and the rest for all words.  Where the emitter needs two lines for a comparison
   (`sub` and `seqz`, `slt` and `xori`) the two together do.  Division is where the IR
   allows more: a quotient that does not exist may be anything, and the core's is one of
   these.  `Bitwise` is a recursive function on the bits, so that its result is a word is
   an induction over them (`BitwiseIsWord`).
2. *Layout* (`Places`, `LinesOfCode`, in `CompilerProofs`).  Which line of the code is
   which line of which instruction: the code between prologue and epilogue is the
   concatenation, over blocks, of a label and the lines of each instruction, and
   `Places` is the same concatenation of pairs (instruction, line of it).  That the label
   of a block is where the IR says that the block starts (`BlockTarget`) needs that labels
   are distinct and that only labels have their shape.
3. *The line at hand* (`Tracks`).  `AtPlace(n, j)`: *j* lines of instruction *n* + 1 have
   been executed, and `Midway` is what that left: the first operand of the IR in `t0`,
   the second in `t1`, an outcome that the IR allows in `t2`, or the value to return in
   `a0`.  `OperandValues` says why a register holds the operand of the IR: a constant is
   in the code, an alloca and a global are their addresses, a parameter is still in its
   register because no line before its use writes one of those (`ArgsHold`), a computed
   value was stored in its slot by its instruction, and no slot is another's.
4. *The step* (`BodyFollows`).  The last line of an instruction, or the branch it takes,
   is the IR's `Compute`, `Load`, `Store`, `Branch` or `Ret`; all lines before it write
   registers only and are stutters (`LineProceeds`).  `SlotStored` and `VariableStored` are
   the two stores: the one changes one value and no memory of the IR, the other memory and
   no value, because variables, globals and slots share no word.  Lines of the prologue are
   `Enter` (`PrologueFollows`), those of the epilogue stutters after `Ret`
   (`EpilogueFollows`), and `CallCompiled` is `Call` (`CallFollows`).

`Enter` leaves the values arbitrary, as the IR leaves them undefined: the slots hold what
was on the stack, and the slot of instruction 0 the saved frame pointer.  No operand is
read before it was written, so it does not matter; `IRValueProofs` proves that for
programs of any size, and this proof needs it (`FinishedIsFollowable`).

`TypedefProofs` proves, for any names, any nesting of blocks and texts of any length:

    THEOREM KeepsInStep    == Spec => []IndInv
    THEOREM Classified     == Spec => []ClassifiedAsInC
    THEOREM ScopesBalanced == Spec => []ScopesMatchBlocks
    THEOREM Accepted       == Spec => []ParsedAsWritten

None of the three properties is inductive: that the next name will be classified
rightly depends on what the parser has not done yet.  `InStep` says exactly what that
is.  With no token scanned, the author's place is the parser's once its reductions
are done, and C's scopes are the table after `Reduced`: the names it is about to
enter, the scope it is about to open or close.  With a token scanned, they are one
token further.  An identifier is only scanned where the parser owes no names that
could be the one scanned, so table and C agree about it.  There is one lemma per
action, and under it the cases of what was scanned.

`DriverProofs` proves, for any files, options and trees of any size:

    THEOREM KeepsDriverInv      == Spec => []DriverInv
    THEOREM PrintsTree          == Spec => []GraphIsTree
    THEOREM SuccessIsOutput     == Spec => []SuccessMeansOutput
    THEOREM LeavesOneUnfinished == Spec => []OneFileAtATime
    THEOREM GraphComesFirst     == Spec => []GraphBeforeFiles
    THEOREM KeepsWalkInv        == Spec => []WalkInv
    THEOREM DrawsWholeTree      == Spec => []DrawsTheTree

`Numbered` says that the edge in line *a* ends at box *a* and starts at an earlier
one, and that every visit under way has a number already given out; that makes the
graph a tree.  `FilesInPhase` says what each file can hold at each phase, and
`GraphInPhase` that the phases after the printing have the whole graph behind them.
That the assumption `NoPath \notin Path` is needed shows where the code uses the empty
string for "not given".

`DrawsWholeTree` says that the finished graph is the tree, for every tree that the
grammar allows.  Its invariant, `WalkInv`, has two halves.  `Grown` says that every node
is in a member of an earlier one, of a class that may be there, whatever the parser has
still to fill.  `Walked` says of every box that has been drawn: of the edges its visit
draws, each has been drawn once or is left, and not both.  That there is one visit for
each box needs the boxes of the visits under way to be in order, the innermost last.
When nothing is left, a node therefore has a box, under each label it is printed with,
for every box of the node it belongs to; a bijection gives the count.  What remains is
the tables, class by class (`Rows`): a class prints every member it has, and none twice,
except the qualifiers of a declaration, which are an empty list.  A loop's condition is
printed by nobody and its first expression under two labels.  That a node is drawn at
most twice is because no loop is in a loop's first expression (`InitIsPlain`): from an
expression or a declaration in it no member leads back to a statement that is a loop.
`TimesDrawn` asks for the labels of all nodes above one, which is a recursive function;
that there is one is shown with `SetInduction`, and so is the count from node to node.

`SemaProofs` proves, for any names, specifiers and constructs and trees of any size:

    THEOREM EveryScopeIsClosed   == Spec => []ScopesBalanced
    THEOREM SymbolsStay          == Spec => FirstDeclarationWins
    THEOREM ConstantsAreTheirOwn == Spec => []ConstantsAreOwn

Sema has some forty actions, but whatever one does to the types and to C's scopes, to
the table, the call stack and the constant it does one of six things (`SemaStep`): it
walks on, declares, opens a scope, closes one, fills the mailbox or empties it.  One
group of lemmas shows that each action is one of these, another what each kind does to
the invariants.  `ScopeInv` counts the frames that will close a scope: pushing one opens
a scope, and only popping one closes it.  A declaration inserts into a scope that is
there because of that count, which is what `FirstDeclarationWins` needs.
`ConstantInv` orders the literals and the constant expressions under way by the nodes
left when they were visited: what is in the mailbox was visited after *every* constant
expression that still waits, not only after the innermost.

The second half of `SemaProofs` is about what the table and the results mean.  The last three have
assumptions about `Constructs`, for there are constructs with which the property is
false, as "Deviations" says; what they say holds for any names, any number and depth of
everything else.

| Theorem | Property | Constructs that are not in `Constructs` |
|---|---|---|
| `TypeCorrectness` | `TypeOK` | none |
| `TypedProgramsDoNotCrash` | `NeverCrashes` | `Safe`: `string`, `index`, `member`, `unary`, `sizeof`, `sizeofType`, `cast`, `conditional`, `noArguments`, `noDeclarator`, `unsized`, `implicitInt`, `abstract` together with `prototype` |
| `NamesStayInScope` | `NothingLeaks` | `Leakless`: `struct`, `prototype`, `functionPointer` |
| `ResolvesLikeC` | `ResolvesAsDeclared` (a parameter that is a pointer: as `ParameterFor` says) | `Agreeing`: those and `typedef`, `enum`, `array`, `cast`, `sizeofType` |

`Agreeing` asks in addition that every list in `SpecifierLists` means to SemaVisitor what
it means in C, as those of `sema_handled` do: `int`, `unsigned long int`.  The constructs
of `sema_handled` satisfy all three assumptions.

`NamesInv` has a part for each theorem.  `TypeInv` follows types from a declaration
through the frames that save one to the results: a frame that will call a function has
the `FuncType` of a function, a declarator without a name occurs only where C has one.
`CrashInv` says which frame reads the result of which: whenever a frame that reads one
comes to the top, or will when the frame above it ends, an expression left a type
(`Linked`), and the left operand a binary operator saved has one.  `LeakInv` is that
table and C's scopes hold the same names scope by scope, `AgreeInv` that they are
equal.  Equality is kept only if `_curType` is the type of the next declarator when one
is reached, so `Fits` says where that type is on the call stack: the declarator at hand
has it, several declarators of one declaration go on with it, and where a pointer
declarator has changed `_curType` there is a frame on top of the waiting one that puts
it back.  `FitsParameter` says the same of C's type and a parameter: between it and its
name there are pointer declarators, each of which makes C's type (`cType`) a pointer and
restores `_curType`, so that at its end `_curType` is the specifiers' type, and `cType` is
that or points to it, or to a pointer.  `SameCall` keeps the two lists of parameter types
in step while a function declarator waits.  A specifier list is a fold over a sequence (`Specify`); that it never leaves
the basic types is proved by induction (`Specifies`).

Only model-checked: everything else.  In particular: the properties about meaning,
whose definitions are recursive over the program (`CompiledMeansSource`,
`ComputesSource`: that the IR has the meaning of the source; from the IR on it is
`Refines`); and liveness (`CallsReturn`), which is out of the prover's reach.

The library's induction theorems have an operator as a parameter, which the provers
cannot instantiate.  `SetInduction` (in `SemaProofs` and in `DriverProofs`) is the same
fact about a set of numbers, from `WFMin` and the well-foundedness of the naturals, and is enough for
facts about folds.

## What is not modelled, and the plan

Order of the work that is left:

1. Theorems about the pure algorithms (`Division`, and bit by bit `Word`) with
   `SetInduction`.
2. The meaning of a program, construct by construct: what `CompiledMeansSource` says of
   a whole function, as a simulation between `CSemantics` and `IRMachine`.

Left out of `Sema`: unnamed bit-fields, several declarators of one structure member
declaration, functions that return function pointers, K&R parameter declarations
after a prototype (all of them rejected or walked like what is modelled), the sizes
of arrays, and the values of literals.

Not to be modelled: the LALR automaton (`TypedefNames` models the part of the grammar
in which its look-ahead matters), double dispatch, the `-v` option, which only makes a
debug build print what the parser does, and how names, types and mnemonics are spelt
in the texts that the emitters and the printer write.
