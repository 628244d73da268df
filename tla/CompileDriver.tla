--------------------------- MODULE CompileDriver ---------------------------
(***************************************************************************)
(* CCompileEngine.java: the options of the C back end, the call of make    *)
(* that compiles the generated C files, and the listener that reads what   *)
(* make and the C compiler print.  A message is a line of one of the Kinds *)
(* that the listener's contains(...) tell apart, and is named by the place *)
(* at which it arrived.                                                    *)
(*                                                                         *)
(* Command and Nova are external: the two streams of make come as they     *)
(* please, one message at a time, then the result, then commandExecuted.   *)
(* Of make's arguments only the compiler is modelled. BuildPipeline says   *)
(* what make does.                                                         *)
(***************************************************************************)
EXTENDS Naturals, Sequences, FiniteSets

CONSTANT MaxMessages     \* bound: messages that make prints

ASSUME CompileDriverAssumption == MaxMessages \in Nat

Options == {"-gcc", "-tcc", "-clang", "-no-notes", "-no-warnings", "-no-errors", "-force"}

(* "bare" is a message that begins with "error: ", "stop" has ": ***",     *)
(* "ld" has "ld.exe: ", "caret" is a position indicator, "out" is a line of*)
(* the standard output without "***".                                      *)
Kinds ==
  {"error", "bare", "fatal", "warning", "note", "caret", "stop", "ld", "other", "out"}

(* The words w for which a message of each kind contains w + ":".          *)
Words ==
  [k \in Kinds |->
     CASE k \in {"error", "bare"}    -> {"error"}
       [] k = "fatal"                -> {"error", "fatal error"}
       [] k \in {"warning", "note"}  -> {k}
       [] OTHER                      -> {}]

VARIABLES
  compiler, flags,        \* set by the options
  dryRun,                 \* the flag DRY_RUN of the compiler
  hidden,                 \* hiddenCompilerMessages
  phase,                  \* where the engine and the command are
  received,               \* history: the kinds of the messages, as they came
  listener,               \* the fields of the listener, and what it printed
  makeResult,             \* the exit status of make
  completed               \* the calls of controller.completed

options    == <<compiler, flags, dryRun, hidden>>
driverVars == <<options, phase, received, listener, makeResult, completed>>

(* The messages hidden for the flags that are set.                         *)
HiddenFor(set) == set \cup (IF "error" \in set THEN {"fatal error"} ELSE {})

(* The constructor, and Nova's own options, which come before any of       *)
(* checkArgument: no flag of the engine is set yet.                        *)
DriverInit ==
  /\ compiler = "GCC"
  /\ flags = {}
  /\ hidden = HiddenFor(flags)
  /\ dryRun = FALSE
  /\ phase = "options"
  /\ received = << >>
  /\ listener = [failed |-> FALSE, current |-> << >>, printed |-> << >>,
                 warnings |-> 0, errors |-> 0]
  /\ makeResult = 0
  /\ completed = << >>

-----------------------------------------------------------------------------
(* checkArgument; -line-numbers, -force-check and -single-file change      *)
(* nothing that is modelled here.                                          *)
checkArgument(arg) ==
  /\ phase = "options"
  /\ compiler' = CASE arg = "-gcc"   -> "GCC"
                   [] arg = "-tcc"   -> "TCC"
                   [] arg = "-clang" -> "CLANG"
                   [] OTHER          -> compiler
  /\ flags' = flags \cup (CASE arg = "-no-notes"    -> {"note"}
                            [] arg = "-no-warnings" -> {"warning"}
                            [] arg = "-no-errors"   -> {"error"}
                            [] arg = "-force"       -> {"force"}
                            [] OTHER                -> {})
  /\ UNCHANGED <<dryRun, hidden, phase, received, listener, makeResult, completed>>

(* completed(ok) of the controller.                                        *)
Completed(ok) == [ok |-> ok, warnings |-> 0, errors |-> 0]

(* compile: without make there is an error and nothing else; a dry run is  *)
(* completed, and goes on.                                                 *)
compile(makeFound) ==
  /\ phase = "options"
  /\ phase' = IF makeFound THEN "execute" ELSE "failed"
  /\ completed' = IF makeFound /\ dryRun THEN Append(completed, Completed(TRUE)) ELSE completed
  /\ UNCHANGED <<options, received, listener, makeResult>>

(* command.execute(), which may throw an IOException.                      *)
execute(fails) ==
  /\ phase = "execute"
  /\ phase' = IF fails THEN "failed" ELSE "running"
  /\ UNCHANGED <<options, received, listener, makeResult, completed>>

(* Mutant: the message replaces those before it.                           *)
AddError_Replaces(l, n, kind) ==
  IF kind = "caret"
  THEN [l EXCEPT !.failed = TRUE, !.current = << >>]
  ELSE [l EXCEPT !.failed = TRUE, !.current = <<n>>]

(* The listener l after addError of message n: a position indicator ends   *)
(* the message, which is printed if it lacks one of the hidden words.      *)
AddError(l, n, kind) ==
  LET message == Append(l.current, n)
      matches == {w \in hidden : /\ w \notin Words[kind]
                                 /\ \A i \in 1..Len(l.current) :
                                      w \notin Words[received[l.current[i]]]}
  IN  IF kind = "caret"
      THEN [failed   |-> TRUE,
            current  |-> << >>,
            printed  |-> IF matches = {} THEN l.printed ELSE l.printed \o message,
            errors   |-> l.errors + Cardinality(matches \cap {"error", "fatal error"}),
            warnings |-> l.warnings + Cardinality(matches \cap {"warning"})]
      ELSE [l EXCEPT !.failed = TRUE, !.current = message]

(* The kinds that errorReceived takes for an error of each compiler.       *)
Errors ==
  [GCC |-> {"error", "fatal"}, TCC |-> {"error", "bare", "fatal"}, CLANG |-> Kinds \ {"out"}]

Received == {received[i] : i \in 1..Len(received)}

Receive(kind) ==
  /\ Len(received) < MaxMessages \/ (kind = "stop" /\ "stop" \notin Received)
  /\ received' = Append(received, kind)

(* A line of make's standard output.                                       *)
messageReceived(kind) ==
  /\ phase = "running"
  /\ Receive(kind)
  /\ listener' = IF kind = "stop" THEN AddError(listener, Len(received'), kind)
                 ELSE listener
  /\ UNCHANGED <<options, phase, makeResult, completed>>

(* Mutant: the messages of make and of the linker are not looked at.       *)
errorReceived_CompilerOnly(kind) ==
  /\ phase = "running"
  /\ Receive(kind)
  /\ listener' = IF kind \in Errors[compiler]
                 THEN AddError(listener, Len(received'), kind) ELSE listener
  /\ UNCHANGED <<options, phase, makeResult, completed>>

(* A line of the standard error; one that is an error of the compiler and  *)
(* of make or the linker is added twice.                                   *)
errorReceived(kind) ==
  LET n     == Len(received')
      first == IF kind \in Errors[compiler] THEN AddError(listener, n, kind)
               ELSE listener
  IN  /\ phase = "running"
      /\ Receive(kind)
      /\ listener' = IF kind \in {"stop", "ld"} THEN AddError(first, n, kind)
                     ELSE first
      /\ UNCHANGED <<options, phase, makeResult, completed>>

Broken == Received \cap {"error", "bare", "fatal", "ld"} # {}

(* make ends; the listener prints what is left.                            *)
resultReceived(result) ==
  /\ phase = "running"
  /\ (result # 0) = ("stop" \in Received)
  /\ Broken => result # 0
  /\ phase' = "exited"
  /\ makeResult' = result
  /\ listener' = [listener EXCEPT !.printed =
       IF \E i \in 1..Len(listener.current) :
            Words[received[listener.current[i]]] \cap hidden # {}
       THEN @ ELSE @ \o listener.current]
  /\ UNCHANGED <<options, received, completed>>

(* Mutant: no completion if the output directory cannot be deleted.        *)
commandExecuted_NeedsDelete(deleted, interrupted) ==
  /\ phase = "exited"
  /\ phase' = IF interrupted THEN "interrupted" ELSE "ended"
  /\ completed' = IF interrupted \/ ~deleted THEN completed
                  ELSE Append(completed, [ok       |-> ~listener.failed,
                                          warnings |-> listener.warnings,
                                          errors   |-> listener.errors])
  /\ UNCHANGED <<options, received, listener, makeResult>>

(* The output directory may be deleted, whether or not that works; only an *)
(* InterruptedException of terminate() keeps the completion back.          *)
commandExecuted(deleted, interrupted) ==
  /\ phase = "exited"
  /\ phase' = IF interrupted THEN "interrupted" ELSE "ended"
  /\ completed' = IF interrupted THEN completed
                  ELSE Append(completed, [ok       |-> ~listener.failed,
                                          warnings |-> listener.warnings,
                                          errors   |-> listener.errors])
  /\ UNCHANGED <<options, received, listener, makeResult>>

-----------------------------------------------------------------------------
Taken == Errors[compiler] \cup {"stop", "ld"}

(* What has been printed when make is done.  With gcc and tcc: every error,*)
(* once and in order, however the messages of two streams mix.  With clang,*)
(* whose position indicators come through: only what follows the last of   *)
(* them, because hiddenCompilerMessages is empty, so that a message that   *)
(* ends with an indicator is dropped.                                      *)
ErrorsPrinted ==
  LET printed == listener.printed
      Printed == {printed[i] : i \in 1..Len(printed)}
      All     == {i \in 1..Len(received) : received[i] \in Taken}
      Last    == {i \in All : \A j \in i..Len(received) : received[j] # "caret"}
  IN  phase \in {"exited", "ended", "interrupted"} =>
        /\ Printed = IF compiler = "CLANG" THEN Last ELSE All
        /\ \A i \in 1..Len(printed) : \A j \in 1..(i - 1) :
             \/ printed[j] < printed[i]
             \/ (compiler = "CLANG" /\ printed[j] = printed[i])

(* The completion that follows make says what make's exit status says,     *)
(* which the engine does not look at; clang's warnings count as failures.  *)
VerdictIsMakes ==
  phase = "ended" /\ completed # << >> =>
    LET ok == completed[Len(completed)].ok
    IN  IF compiler = "CLANG" THEN ok => makeResult = 0 ELSE ok <=> makeResult = 0

=============================================================================
