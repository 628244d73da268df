--------------------------- MODULE BuildPipeline ---------------------------
(***************************************************************************)
(* From the syntax tree to the program: CCodeGeneratorEngine.java writes   *)
(* the generated C files of a program into its output directory, in        *)
(* single-file mode, and the make that CompileDriver starts compiles what  *)
(* is out of date, by the rules of makefile.nova, and links it.            *)
(*                                                                         *)
(* A file is written only if its text changes or it is forced; the text of *)
(* NovaOutput is always written, and the time of last modification set back*)
(* if it is the old text after all.  The objects of the runtime (Nova.o)   *)
(* and of the standard library's native code are not in that directory, and*)
(* all programs share them.                                                *)
(*                                                                         *)
(* The compiler may be killed at any point and run again; a file may not   *)
(* be writable; between two runs the source of a program may change.       *)
(*                                                                         *)
(* External: FileUtils (writeIfDifferent, clearFile, checkModified), Nova's*)
(* order of calls, make.  A text is a version number; what make sees of the*)
(* times is which files are newer than which objects.                      *)
(***************************************************************************)
EXTENDS CompileDriver

CONSTANTS
  Directory,    \* the output directories, one of each program
  Edits,        \* the sets of files whose text an edit of the source changes
  MaxEvents     \* bound: options, messages, edits, faults, further runs

File == {"MainFunction.h", "MainFunction.c", "VTableDeclarations.h", "VTableDeclarations.c",
         "InterfaceVTable.h", "NovaOutput.h", "NovaOutput.c", "makefile"}

Output == {"NovaOutput.h", "NovaOutput.c"}

ASSUME BuildPipelineAssumption ==
  /\ Directory # {}
  /\ Edits \subseteq SUBSET (File \ {"makefile"}) /\ MaxEvents \in Nat

VARIABLES
  dir,             \* the directory of this run
  program,         \* the text of each file that the source calls for
  step,            \* how far writeFiles is
  forceRecompile,  \* of the engine, which generateVTableDeclarations sets
  text,            \* what is in each file of each directory
  newer,           \* the object and file pairs with the file newer, by directory
  previous,        \* text and time of the output files before they were cleared
  built,           \* what each object was compiled from
  linked,          \* make has linked the program in this run
  compiledNow,     \* history: the objects compiled in this run
  writeFailed,     \* history: a file could not be written in this run
  intact,          \* history: the last run of a directory got as far as linking
  events           \* how many events there were

files == <<text, newer>>
objects == <<built, linked, compiledNow>>
generator == <<step, forceRecompile, previous, writeFailed>>
world == <<dir, program, intact>>
vars == <<driverVars, files, objects, generator, world, events>>

None == 0
Partial == 3

(* Included by every C file: Nova.h includes VTableDeclarations.h, which   *)
(* includes the others.                                                    *)
Headers == {"VTableDeclarations.h", "InterfaceVTable.h", "NovaOutput.h"}

ExtraObj == {"VTable", "Nova", "Main"}

(* The program's own object and those of its external imports.  Some native*)
(* code includes Nova.h and fares as Nova does; this is the other.         *)
NovaObj == {"Output", "Native"}

Object == ExtraObj \cup NovaObj

Shared == {"Nova", "Native"}

(* What the .d files of the compiler (-MMD) make the objects depend on, of *)
(* the output directory's files.                                           *)
Needs ==
  [o \in Object |->
     IF o = "Native" THEN {}
     ELSE Headers \cup CASE o = "VTable" -> {"VTableDeclarations.c"}
                         [] o = "Output" -> {"NovaOutput.c"}
                         [] o = "Main"   -> {"MainFunction.c", "MainFunction.h"}
                         [] o = "Nova"   -> {}]

NotBuilt == [from |-> None, texts |-> << >>]

Order == <<"MainFunction.h", "MainFunction.c", "VTableDeclarations.c", "VTableDeclarations.h",
           "InterfaceVTable.h", "makefile", "read", "clear", "print", "checkHeader",
           "checkSource">>

Init ==
  /\ DriverInit
  /\ dir = CHOOSE d \in Directory : TRUE
  /\ program = [d \in Directory |-> [f \in File |-> 1]]
  /\ step = 1 /\ forceRecompile = FALSE /\ previous = << >> /\ writeFailed = FALSE
  /\ text = [d \in Directory |-> [f \in File |-> None]]
  /\ newer = [d \in Directory |-> {}]
  /\ built = [d \in Directory |-> [o \in Object |-> NotBuilt]]
  /\ linked = FALSE /\ compiledNow = {}
  /\ intact = [d \in Directory |-> FALSE]
  /\ events = 0

-----------------------------------------------------------------------------
Event == events < MaxEvents /\ events' = events + 1

At(s) == phase = "options" /\ step <= Len(Order) /\ Order[step] = s

(* The pairs with a file of F of the directory as the newer one.           *)
Older(F) == {p \in Object \X F : p[2] \in Needs[p[1]]}

(* The files of F get the texts of new, now.                               *)
Put(F, new) ==
  /\ text' = [text EXCEPT ![dir] = [f \in File |-> IF f \in F THEN new[f] ELSE @[f]]]
  /\ newer' = [newer EXCEPT ![dir] = @ \cup Older(F)]

Differs(f) == text[dir][f] # program[dir][f]

(* FileUtils.writeIfDifferent.                                             *)
writeIfDifferent(f, force) ==
  IF Differs(f) \/ force THEN Put({f}, program[dir]) ELSE UNCHANGED files

(* The step is over; whether a file could be written.                      *)
Done(ok) ==
  /\ step' = step + 1
  /\ writeFailed' = (writeFailed \/ ~ok)
  /\ IF ok THEN UNCHANGED events ELSE Event
  /\ UNCHANGED <<objects, world>>

insertMainMethod ==
  \E f \in {"MainFunction.h", "MainFunction.c"} :
    /\ At(f)
    /\ writeIfDifferent(f, FALSE)
    /\ Done(TRUE)
    /\ UNCHANGED <<driverVars, forceRecompile, previous>>

(* Mutant: -force is not looked at here.                                   *)
Forcing_ChangeOnly(f) == f = "VTableDeclarations.h" /\ forceRecompile

(* forceRecompile[0], before VTableDeclarations.c and then .h is written.  *)
Forcing(f) == ("force" \in flags) \/ (f = "VTableDeclarations.h" /\ forceRecompile)

(* An IOException is printed and the next file written.                    *)
generateVTableDeclarations ==
  \E f \in {"VTableDeclarations.c", "VTableDeclarations.h"} :
    /\ At(f)
    /\ \/ /\ writeIfDifferent(f, Forcing(f))
          /\ forceRecompile' = (Forcing(f) \/ Differs(f))
          /\ Done(TRUE)
       \/ /\ forceRecompile' = Forcing(f)
          /\ Done(FALSE) /\ UNCHANGED files
    /\ UNCHANGED <<driverVars, previous>>

(* generateInterfaceVTable and writeMakefile, whose result nobody looks at.*)
writeForced ==
  \E f \in {"InterfaceVTable.h", "makefile"} :
    /\ At(f)
    /\ \/ writeIfDifferent(f, forceRecompile) /\ Done(TRUE)
       \/ Done(FALSE) /\ UNCHANGED files
    /\ UNCHANGED <<driverVars, forceRecompile, previous>>

(* headerTimes, previousHeaders and their like for the source.             *)
readPrevious ==
  /\ At("read")
  /\ previous' = [f \in Output |-> [text |-> text[dir][f], newer |-> newer[dir] \cap Older({f})]]
  /\ Done(TRUE)
  /\ UNCHANGED <<driverVars, files, forceRecompile>>

(* getFileWriter and clearFile of both; an IOException ends writeFiles with*)
(* completed(false), and Nova goes on.                                     *)
clearOutput ==
  /\ At("clear")
  /\ \/ /\ Put(Output, [f \in Output |-> Partial])
        /\ Done(TRUE) /\ UNCHANGED completed
     \/ /\ \E F \in {{}, {"NovaOutput.h"}} : Put(F, [f \in F |-> Partial])
        /\ Event /\ writeFailed' = TRUE /\ step' = Len(Order) + 1
        /\ completed' = Append(completed, Completed(FALSE))
        /\ UNCHANGED <<objects, world>>
  /\ UNCHANGED <<options, phase, received, listener, makeResult, forceRecompile, previous>>

(* print and close; a PrintWriter says nothing if the disk is full.        *)
printOutput ==
  /\ At("print")
  /\ \/ Put(Output, program[dir]) /\ Done(TRUE)
     \/ Done(FALSE) /\ UNCHANGED files
  /\ UNCHANGED <<driverVars, forceRecompile, previous>>

(* Mutant: the time is set back whenever there was a file before.          *)
Unmodified_Exists(f) == previous[f].text # None

(* Mutant: the time is never set back.                                     *)
Unmodified_Never(f) == FALSE

Unmodified(f) == previous[f].text # None /\ previous[f].text = text[dir][f]

(* FileUtils.checkModified sets back the time of a file with its old text. *)
checkModified ==
  \E f \in Output :
    /\ At(IF f = "NovaOutput.h" THEN "checkHeader" ELSE "checkSource")
    /\ newer' = IF Unmodified(f)
                THEN [newer EXCEPT ![dir] = (@ \ Older({f})) \cup previous[f].newer]
                ELSE newer
    /\ Done(TRUE)
    /\ UNCHANGED <<driverVars, text, forceRecompile, previous>>

Generate ==
  \/ insertMainMethod \/ generateVTableDeclarations \/ writeForced
  \/ readPrevious \/ clearOutput \/ printOutput \/ checkModified

-----------------------------------------------------------------------------
Written == step > Len(Order)

Making == phase = "running" /\ "stop" \notin Received /\ text[dir]["makefile"] # None

OutOfDate(o) ==
  built[dir][o] = NotBuilt \/ \E f \in Needs[o] : <<o, f>> \in newer[dir]

Compilable(o) == \A f \in Needs[o] : text[dir][f] \notin {None, Partial}

(* The rule for %.o.  A shared object is the same file for all programs.   *)
Compile(o) ==
  LET new == [from |-> dir, texts |-> [f \in Needs[o] |-> text[dir][f]]]
      Sharing == IF o \in Shared THEN Directory ELSE {dir}
  IN  /\ Making /\ OutOfDate(o) /\ Compilable(o)
      /\ built' = [d \in Directory |->
           IF d \in Sharing THEN [built[d] EXCEPT ![o] = new] ELSE built[d]]
      /\ newer' = [d \in Directory |->
           IF d \in Sharing THEN {p \in newer[d] : p[1] # o} ELSE newer[d]]
      /\ compiledNow' = compiledNow \cup {o}
      /\ UNCHANGED <<driverVars, text, linked, generator, world, events>>

(* The rule for install, once nothing is out of date.                      *)
Link ==
  /\ Making /\ ~linked /\ ~Broken
  /\ \A o \in Object : ~OutOfDate(o)
  /\ linked' = TRUE
  /\ UNCHANGED <<driverVars, files, built, compiledNow, generator, world, events>>

(* make cannot go on.                                                      *)
Stuck ==
  \/ Broken
  \/ text[dir]["makefile"] = None
  \/ \E o \in Object : OutOfDate(o) /\ ~Compilable(o)

make == \E o \in Object : Compile(o) \/ Link

(* make says so with a message that has "***".                             *)
makeStops ==
  /\ Stuck /\ ~linked /\ "stop" \notin Received
  /\ errorReceived("stop")
  /\ UNCHANGED <<files, objects, generator, world, events>>

(* Messages; what fails, fails before there is a program.                  *)
Prints ==
  /\ \/ \E kind \in {"stop", "out"} : (linked => kind = "out") /\ messageReceived(kind)
     \/ \E kind \in Kinds \ {"out"} :
          /\ linked => kind \notin {"error", "bare", "fatal", "ld", "stop"}
          /\ errorReceived(kind)
  /\ Event
  /\ UNCHANGED <<files, objects, generator, world>>

makeEnds ==
  /\ \E result \in {0, 2} : (result = 0 => linked) /\ resultReceived(result)
  /\ UNCHANGED <<files, objects, generator, world, events>>

(* deleteOutputDirectory takes the files and objects of the directory.     *)
Delete ==
  /\ text' = [text EXCEPT ![dir] = [f \in File |-> None]]
  /\ newer' = [newer EXCEPT ![dir] = {}]
  /\ built' = [built EXCEPT ![dir] = [o \in Object |-> IF o \in Shared THEN @[o] ELSE NotBuilt]]

commandEnds ==
  /\ \/ /\ \E deleted \in BOOLEAN : commandExecuted(deleted, FALSE)
        /\ UNCHANGED <<files, built, events>>
     \/ commandExecuted(TRUE, FALSE) /\ Delete /\ Event
     \/ commandExecuted(FALSE, TRUE) /\ Event /\ UNCHANGED <<files, built>>
  /\ UNCHANGED <<linked, compiledNow, generator, world>>

compileStarts ==
  /\ Written
  /\ \/ compile(TRUE) /\ UNCHANGED events
     \/ compile(FALSE) /\ Event
  /\ UNCHANGED <<files, objects, generator, world>>

executeStarts ==
  /\ \/ execute(FALSE) /\ UNCHANGED events
     \/ execute(TRUE) /\ Event
  /\ UNCHANGED <<files, objects, generator, world>>

(* An option of the engine, or DRY_RUN.                                    *)
Option ==
  /\ phase = "options" /\ step = 1 /\ Event
  /\ \/ \E arg \in Options : checkArgument(arg)
     \/ dryRun' = TRUE /\ UNCHANGED <<compiler, flags, hidden, phase, received, listener,
                                      makeResult, completed>>
  /\ UNCHANGED <<files, objects, generator, world>>

-----------------------------------------------------------------------------
Over == phase \in {"ended", "interrupted", "failed", "killed"}

Kill ==
  /\ ~Over /\ Event
  /\ phase' = "killed"
  /\ UNCHANGED <<options, received, listener, makeResult, completed,
                 files, objects, generator, world>>

Edit ==
  /\ Over /\ Event
  /\ \E d \in Directory, F \in Edits :
       program' = [program EXCEPT ![d] = [f \in File |-> IF f \in F THEN 3 - @[f] ELSE @[f]]]
  /\ UNCHANGED <<driverVars, files, objects, generator, dir, intact>>

(* The compiler is run again, for the same program or another.             *)
Run ==
  /\ Over /\ Event
  /\ intact' = [intact EXCEPT ![dir] = linked /\ phase = "ended"]
  /\ dir' \in Directory
  /\ compiler' = "GCC" /\ flags' = {} /\ hidden' = {} /\ dryRun' = FALSE
  /\ phase' = "options" /\ received' = << >> /\ makeResult' = 0 /\ completed' = << >>
  /\ listener' = [failed |-> FALSE, current |-> << >>, printed |-> << >>,
                  warnings |-> 0, errors |-> 0]
  /\ step' = 1 /\ forceRecompile' = FALSE /\ previous' = << >> /\ writeFailed' = FALSE
  /\ linked' = FALSE /\ compiledNow' = {}
  /\ UNCHANGED <<files, built, program>>

Idle == Over /\ UNCHANGED vars

Next ==
  \/ Option \/ Generate \/ compileStarts \/ executeStarts
  \/ make \/ makeStops \/ Prints \/ makeEnds \/ commandEnds
  \/ Kill \/ Edit \/ Run \/ Idle

(* The compiler goes on, make compiles, links or stops, and a command that *)
(* was started has its callbacks.                                          *)
Spec ==
  /\ Init /\ [][Next]_vars
  /\ WF_vars(Generate \/ compileStarts \/ executeStarts)
  /\ WF_vars(make) /\ WF_vars(makeStops) /\ WF_vars(makeEnds) /\ WF_vars(commandEnds)
-----------------------------------------------------------------------------
(* A program is linked from objects of the texts that its source calls for,*)
(* whatever was killed, failed or restored in earlier runs.  The exceptions*)
(* are the run in which a file could not be written, which links what was  *)
(* there before and says it went well, and the runtime's object, which may *)
(* have been compiled against the headers of another program.              *)
LinkedUpToDate ==
  linked /\ ~writeFailed /\ phase \in {"running", "exited"} =>
    \A o \in Object :
      \/ \A f \in Needs[o] : built[dir][o].texts[f] = program[dir][f]
      \/ o = "Nova" /\ built[dir][o].from # dir

(* After -force every object that includes a generated file was compiled   *)
(* again in this run, although the time of NovaOutput is set back; only    *)
(* native code without one may be left as an earlier compiler made it.     *)
ForceRebuilds ==
  linked /\ "force" \in flags /\ ~writeFailed =>
    {o \in Object : Needs[o] # {}} \subseteq compiledNow

(* After a run that went well, an object is compiled again only if a text  *)
(* it needs has changed, or a change of the virtual tables or -force forced*)
(* it, or another program has compiled the runtime's.                      *)
NoNeedlessCompile ==
  [][\A o \in Object : Compile(o) /\ intact[dir] /\ built[dir][o] # NotBuilt =>
       \/ forceRecompile
       \/ \E f \in Needs[o] : built[dir][o].texts[f] # text[dir][f]
       \/ o = "Nova" /\ built[dir][o].from # dir]_vars

(* A command that was started is completed, after the completions of a dry *)
(* run and of a failed writeFiles, whatever becomes of the directory.      *)
Completes ==
  phase = "running" ~>
    \/ phase \in {"interrupted", "killed"}
    \/ phase = "ended" /\ Len(completed) > 0

=============================================================================
