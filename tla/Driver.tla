--------------------------------- MODULE Driver ---------------------------------
(***************************************************************************)
(* main(): the options, then parse, analyse, print, generate and emit, one *)
(* after the other; any std::exception ends it with status 1.  A phase     *)
(* that the other modules model is here only its outcome; the printed tree *)
(* is PrintVisitor's.                                                      *)
(***************************************************************************)
EXTENDS PrintVisitor

CONSTANTS
    Path,    \* the file names that may be given
    NoPath,  \* the empty one, of an option that was not given
    MaxArgs  \* bound on the number of options

ASSUME PathAssumption == NoPath \notin Path
ASSUME ArgsAssumption == MaxArgs \in Nat

VARIABLES
    phase,  \* what main() is about to do
    args,   \* CommandLineArgs
    given,  \* how many options were read
    files,  \* what each file holds
    opened, \* llvmOut.is_open(), which main() does not ask
    status  \* the exit status, or "crash" (undefined behaviour, abort)

mainVars == <<phase, args, given, files, opened, status>>
vars == <<printVars, mainVars>>

Phase == {"args", "open", "parse", "sema", "print", "irgen", "llvm", "emitLLVM", "riscv",
          "emitRISCV", "done"}
Content == {"old", "empty", "part", "llvm", "asm"}

Init ==
    /\ TreeInit /\ GraphInit
    /\ phase = "args" /\ given = 0
    /\ args = [srcPath |-> NoPath, destPath |-> NoPath, llvmDestPath |-> NoPath,
               printGraph |-> FALSE]
    /\ files = [p \in Path |-> "old"]
    /\ opened = FALSE /\ status = "running"

-----------------------------------------------------------------------------
Go(next) == phase' = next /\ UNCHANGED status
Exit(code) == phase' = "done" /\ status' = code
\* A phase that may throw a CompilerError, or do what has no defined result.
Fails == Exit("1") \/ Exit("crash")

(* parseArgs() *)

NextArg == phase = "args" /\ given < MaxArgs /\ given' = given + 1
\* -S, -o, -l: the next argument is the file name, whatever it looks like.
PathOption(option) ==
    /\ NextArg
    /\ \E path \in Path : args' = [args EXCEPT ![option] = path]
    /\ UNCHANGED <<phase, files, opened, status, printVars>>
\* -g.  (-v only makes a debug build print what the parser does.)
GraphOption ==
    /\ NextArg
    /\ args' = [args EXCEPT !.printGraph = TRUE]
    /\ UNCHANGED <<phase, files, opened, status, printVars>>
\* An unknown argument, or an option without its file name: both throw.
BadArgument ==
    /\ phase = "args" /\ Exit("1")
    /\ UNCHANGED <<args, given, files, opened, printVars>>
EndOfArgs ==
    /\ phase = "args" /\ Go("open")
    /\ UNCHANGED <<args, given, files, opened, printVars>>

(* main() *)

OpenSource ==
    /\ phase = "open"
    /\ (args.srcPath # NoPath /\ Go("parse")) \/ Exit("1")
    /\ UNCHANGED <<args, given, files, opened, printVars>>

\* ParseC().  The tree only matters when it is printed.
Parse ==
    /\ phase = "parse"
    /\ IF args.printGraph /\ Growing
       THEN Grow /\ UNCHANGED mainVars
       ELSE Go("sema") /\ UNCHANGED <<args, given, files, opened, printVars>>
ParseFails ==
    /\ phase = "parse" /\ Exit("1")
    /\ UNCHANGED <<args, given, files, opened, printVars>>

Analyse ==
    /\ phase = "sema"
    /\ Go(IF args.printGraph THEN "print" ELSE "irgen") \/ Fails
    /\ UNCHANGED <<args, given, files, opened, printVars>>

\* Mutant: the rest does not wait for the graph.
PrintGraphInPart ==
    /\ phase = "print"
    /\ \/ (PrintRoot \/ PrintStep) /\ UNCHANGED mainVars
       \/ ~NotPrinted /\ Go("irgen") /\ UNCHANGED <<args, given, files, opened, printVars>>
PrintGraph ==
    /\ phase = "print"
    /\ \/ (PrintRoot \/ PrintStep) /\ UNCHANGED mainVars
       \/ WholeGraph /\ Go("irgen") /\ UNCHANGED <<args, given, files, opened, printVars>>

\* Mutant: the file is opened before there is anything to write.
GenerateLate ==
    /\ phase = "irgen"
    /\ files' = [p \in Path |-> IF p = args.destPath THEN "empty" ELSE files[p]]
    /\ Go("llvm") \/ Fails
    /\ UNCHANGED <<args, given, opened, printVars>>
Generate ==
    /\ phase = "irgen"
    /\ Go("llvm") \/ Fails
    /\ UNCHANGED <<args, given, files, opened, printVars>>

Truncated(path) == [files EXCEPT ![path] = "empty"]
\* What is asked after opening the file is whether the *source* is open.
OpenLLVM ==
    /\ phase = "llvm"
    /\ \/ /\ args.llvmDestPath = NoPath
          /\ Go("riscv") /\ UNCHANGED <<files, opened>>
       \/ /\ args.llvmDestPath # NoPath
          /\ \/ files' = Truncated(args.llvmDestPath) /\ opened' = TRUE
             \/ UNCHANGED <<files, opened>>
          /\ Go("emitLLVM")
    /\ UNCHANGED <<args, given, printVars>>

Written(path, content) == [files EXCEPT ![path] = content]
\* The emitter's constructor writes the file, or a part of it; what is
\* written to a stream that is not open is lost.  A crash may lose the buffer.
\* Writing to an open stream is assumed to succeed: main() does not ask the
\* stream after it (main.cpp:61, 70), so a full disk would go unnoticed.
EmitLLVM ==
    /\ phase = "emitLLVM"
    /\ \/ /\ Go("riscv")
          /\ files' = IF opened THEN Written(args.llvmDestPath, "llvm") ELSE files
       \/ /\ Exit("1")
          /\ files' = IF opened THEN Written(args.llvmDestPath, "part") ELSE files
       \/ /\ Exit("crash")
          /\ \/ opened /\ files' = Written(args.llvmDestPath, "part")
             \/ UNCHANGED files
    /\ UNCHANGED <<args, given, opened, printVars>>

\* Mutant: this stream is not asked either.
OpenRISCVUnasked ==
    /\ phase = "riscv"
    /\ \/ args.destPath = NoPath /\ Exit("0") /\ UNCHANGED files
       \/ args.destPath # NoPath /\ Exit("0") /\ UNCHANGED files
       \/ args.destPath # NoPath /\ Go("emitRISCV") /\ files' = Truncated(args.destPath)
    /\ UNCHANGED <<args, given, opened, printVars>>
OpenRISCV ==
    /\ phase = "riscv"
    /\ \/ args.destPath = NoPath /\ Exit("0") /\ UNCHANGED files
       \/ args.destPath # NoPath /\ Exit("1") /\ UNCHANGED files
       \/ args.destPath # NoPath /\ Go("emitRISCV") /\ files' = Truncated(args.destPath)
    /\ UNCHANGED <<args, given, opened, printVars>>

EmitRISCV ==
    /\ phase = "emitRISCV"
    /\ \/ Exit("0") /\ files' = Written(args.destPath, "asm")
       \/ Exit("1") /\ files' = Written(args.destPath, "part")
       \/ Exit("crash") /\ (UNCHANGED files \/ files' = Written(args.destPath, "part"))
    /\ UNCHANGED <<args, given, opened, printVars>>

\* The process has ended.
Finished == phase = "done" /\ UNCHANGED vars

Next ==
    \/ \E option \in {"srcPath", "destPath", "llvmDestPath"} : PathOption(option)
    \/ GraphOption \/ BadArgument \/ EndOfArgs
    \/ OpenSource \/ Parse \/ ParseFails \/ Analyse \/ PrintGraph \/ Generate
    \/ OpenLLVM \/ EmitLLVM \/ OpenRISCV \/ EmitRISCV \/ Finished
Spec == Init /\ [][Next]_vars
=============================================================================
