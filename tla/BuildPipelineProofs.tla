------------------------ MODULE BuildPipelineProofs ------------------------
(***************************************************************************)
(* Proofs about BuildPipeline, for any number of programs, edits, messages,*)
(* kills and failures: what make links is up to date, -force compiles what *)
(* includes a generated file, nothing is compiled needlessly, and the      *)
(* listener prints every error.                                            *)
(***************************************************************************)
EXTENDS BuildPipeline, TLAPS

Active == {"options", "execute", "running", "exited"}

Shape ==
  /\ dir \in Directory
  /\ step \in 1..12
  /\ \A d \in Directory : \A f \in File : program[d][f] \in {1, 2}
  /\ DOMAIN program = Directory
  /\ DOMAIN text = Directory /\ DOMAIN newer = Directory /\ DOMAIN built = Directory
  /\ \A d \in Directory : DOMAIN built[d] = Object
  /\ compiledNow \subseteq Object

(* The runtime's object was compiled for another program.                  *)
Foreign(d, o) == o = "Nova" /\ built[d][o].from # d

(* An object is newer than a file only if it was compiled from its text.   *)
NewerIsSame ==
  \A d \in Directory : \A o \in Object : \A f \in Needs[o] :
    built[d][o] # NotBuilt =>
      \/ <<o, f>> \in newer[d]
      \/ text[d][f] = None
      \/ built[d][o].texts[f] = text[d][f]
      \/ Foreign(d, o)

(* The same holds of the text and the time that are kept to be restored.   *)
PreviousIsSame ==
  phase = "options" /\ step > 7 =>
    \A f \in Output : \A o \in Object :
      f \in Needs[o] /\ built[dir][o] # NotBuilt =>
        \/ <<o, f>> \in previous[f].newer
        \/ previous[f].text = None
        \/ built[dir][o].texts[f] = previous[f].text
        \/ Foreign(dir, o)

(* The step after which a file has its new text.                           *)
WrittenAt ==
  [f \in File |-> CASE f = "MainFunction.h" -> 1
                    [] f = "MainFunction.c" -> 2
                    [] f = "VTableDeclarations.c" -> 3
                    [] f = "VTableDeclarations.h" -> 4
                    [] f = "InterfaceVTable.h" -> 5
                    [] f = "makefile" -> 6
                    [] OTHER -> 9]

FilesWritten ==
  phase \in Active /\ ~writeFailed =>
    \A f \in File : WrittenAt[f] < step => text[dir][f] = program[dir][f]

(* Make starts when all files are written, and once it has linked there is *)
(* nothing left to compile.                                                *)
MakeAfterwards ==
  /\ phase \in {"execute", "running", "exited"} => step = 12
  /\ linked => phase \notin {"options", "execute"}
  /\ linked /\ phase \in {"running", "exited"} => \A o \in Object : ~OutOfDate(o)

(* With -force every object that includes a generated file is older than   *)
(* one until it is compiled.                                               *)
ForcedIsOlder ==
  "force" \in flags /\ ~writeFailed /\ phase \in Active /\ step > 4 =>
    \A o \in Object :
      Needs[o] # {} => o \in compiledNow \/ <<o, "VTableDeclarations.h">> \in newer[dir]

(* The inductive invariant.                                                *)
IInv ==
  /\ Shape /\ NewerIsSame /\ PreviousIsSame /\ FilesWritten /\ MakeAfterwards
  /\ ForcedIsOlder /\ ForceRebuilds

-----------------------------------------------------------------------------
LEMMA ObjectFacts ==
  /\ Object = {"VTable", "Output", "Main", "Nova", "Native"}
  /\ \A o \in Object : /\ Needs[o] # {} => "VTableDeclarations.h" \in Needs[o]
                       /\ Needs[o] \subseteq File
                       /\ "makefile" \notin Needs[o]
                       /\ o \in Shared /\ Needs[o] # {} => o = "Nova"
<1>1. Object = {"VTable", "Output", "Main", "Nova", "Native"}
  BY DEF Object, ExtraObj, NovaObj
<1>2. Headers \subseteq File /\ "makefile" \notin Headers /\ "VTableDeclarations.h" \in Headers
  BY DEF Headers, File
<1>3. /\ Needs["VTable"] = Headers \cup {"VTableDeclarations.c"}
      /\ Needs["Output"] = Headers \cup {"NovaOutput.c"}
      /\ Needs["Main"] = Headers \cup {"MainFunction.c", "MainFunction.h"}
      /\ Needs["Nova"] = Headers
      /\ Needs["Native"] = {}
  BY <1>1 DEF Needs
<1> QED BY <1>1, <1>2, <1>3 DEF File, Shared

LEMMA OlderPairs ==
  ASSUME NEW F, NEW o, NEW f
  PROVE  <<o, f>> \in Older(F) <=> o \in Object /\ f \in F /\ f \in Needs[o]
BY DEF Older

LEMMA OrderFacts ==
  ASSUME step \in 1..12
  PROVE  /\ Len(Order) = 11
         /\ At("MainFunction.h") => step = 1
         /\ At("MainFunction.c") => step = 2
         /\ At("VTableDeclarations.c") => step = 3
         /\ At("VTableDeclarations.h") => step = 4
         /\ At("InterfaceVTable.h") => step = 5
         /\ At("makefile") => step = 6
         /\ At("read") => step = 7
         /\ At("clear") => step = 8
         /\ At("print") => step = 9
         /\ At("checkHeader") => step = 10
         /\ At("checkSource") => step = 11
         /\ \A s : At(s) => phase = "options"
<1>1. Len(Order) = 11
  BY DEF Order
<1>2. step \in 1..11 =>
        step \in {1, 2, 3, 4, 5, 6, 7, 8, 9, 10, 11}
  OBVIOUS
<1>3. /\ Order[1] = "MainFunction.h" /\ Order[2] = "MainFunction.c"
      /\ Order[3] = "VTableDeclarations.c" /\ Order[4] = "VTableDeclarations.h"
      /\ Order[5] = "InterfaceVTable.h" /\ Order[6] = "makefile" /\ Order[7] = "read"
      /\ Order[8] = "clear" /\ Order[9] = "print" /\ Order[10] = "checkHeader"
      /\ Order[11] = "checkSource"
  BY DEF Order
<1>4. ASSUME NEW s, At(s)
      PROVE  step \in {1, 2, 3, 4, 5, 6, 7, 8, 9, 10, 11} /\ s = Order[step] /\ phase = "options"
  BY <1>1, <1>2, <1>4 DEF At
<1> QED BY <1>1, <1>3, <1>4

-----------------------------------------------------------------------------
(* What becomes of the files when those of F get the texts of new.         *)
Stored(F, new) ==
  /\ DOMAIN text' = Directory /\ DOMAIN newer' = Directory
  /\ \A d \in Directory : \A f \in File :
       text'[d][f] = IF d = dir /\ f \in F THEN new[f] ELSE text[d][f]
  /\ \A d \in Directory : \A o \in Object : \A f \in Needs[o] :
       <<o, f>> \in newer'[d] <=> <<o, f>> \in newer[d] \/ (d = dir /\ f \in F)

LEMMA PutStores ==
  ASSUME Shape, NEW F, NEW new, Put(F, new)
  PROVE  Stored(F, new)
<1>1. /\ DOMAIN text' = Directory /\ DOMAIN newer' = Directory
  BY DEF Shape, Put
<1>2. \A d \in Directory : text'[d] = IF d = dir
          THEN [f \in File |-> IF f \in F THEN new[f] ELSE text[dir][f]] ELSE text[d]
  BY DEF Shape, Put
<1>3. \A d \in Directory : newer'[d] = IF d = dir THEN newer[dir] \cup Older(F) ELSE newer[d]
  BY DEF Shape, Put
<1> QED BY <1>1, <1>2, <1>3, OlderPairs DEF Stored

LEMMA KeepsStores ==
  ASSUME Shape, UNCHANGED files, NEW new
  PROVE  Stored({}, new)
BY DEF Shape, Stored, files

(* The frame of a step of the generator.                                   *)
Generating ==
  /\ phase = "options" /\ phase' = "options" /\ flags' = flags
  /\ UNCHANGED objects /\ UNCHANGED world
  /\ step \in 1..11 /\ step' \in 1..12
  /\ writeFailed' \/ (~writeFailed /\ ~writeFailed' /\ step' = step + 1)

(* Done is the frame of every step of the generator but a failed clear.    *)
LEMMA DoneGenerates ==
  ASSUME Shape, step \in 1..11, phase = "options", Done(TRUE) \/ Done(FALSE),
         phase' = phase, flags' = flags
  PROVE  Generating
<1>1. PICK ok \in BOOLEAN : Done(ok)
  OBVIOUS
<1>2. writeFailed' = (writeFailed \/ ~ok)
  BY <1>1 DEF Done
<1>3. writeFailed' \/ (~writeFailed /\ ~writeFailed')
  BY <1>2, Zenon
<1>4. step' = step + 1 /\ step' \in 1..12 /\ UNCHANGED objects /\ UNCHANGED world
  BY <1>1 DEF Done
<1> QED BY <1>3, <1>4 DEF Generating

LEMMA GeneratorKeeps ==
  ASSUME IInv, Generating, NEW F, NEW new, Stored(F, new)
  PROVE  Shape' /\ NewerIsSame' /\ MakeAfterwards' /\ ForceRebuilds'
<1>1. Shape'
  BY DEF IInv, Shape, Generating, objects, world, Stored
<1>2. NewerIsSame'
  <2> SUFFICES ASSUME NEW d \in Directory, NEW o \in Object, NEW f \in Needs[o],
                      built[d][o] # NotBuilt
               PROVE  \/ <<o, f>> \in newer'[d]
                      \/ text'[d][f] = None
                      \/ built[d][o].texts[f] = text'[d][f]
                      \/ Foreign(d, o)
    BY DEF NewerIsSame, Generating, objects, Foreign
  <2>1. f \in File
    BY ObjectFacts
  <2>2. CASE d = dir /\ f \in F
    BY <2>2 DEF Stored
  <2>3. CASE ~(d = dir /\ f \in F)
    BY <2>1, <2>3 DEF Stored, IInv, NewerIsSame
  <2> QED BY <2>2, <2>3
<1>3. ~linked /\ ~linked'
  BY DEF IInv, MakeAfterwards, Generating, objects
<1> QED BY <1>1, <1>2, <1>3 DEF MakeAfterwards, ForceRebuilds, Generating

LEMMA GeneratorForces ==
  ASSUME IInv, Generating, NEW F, NEW new, Stored(F, new),
         step = 4 /\ "force" \in flags /\ ~writeFailed' => "VTableDeclarations.h" \in F
  PROVE  ForcedIsOlder'
<1> SUFFICES ASSUME "force" \in flags, ~writeFailed', step' > 4,
                    NEW o \in Object, Needs[o] # {}, o \notin compiledNow
             PROVE  <<o, "VTableDeclarations.h">> \in newer'[dir]
  BY DEF ForcedIsOlder, Generating, objects, world
<1>1. ~writeFailed /\ step' = step + 1 /\ dir \in Directory
  BY DEF Generating, IInv, Shape
<1>2. step = 4 \/ step > 4
  BY <1>1 DEF Generating
<1>3. <<o, "VTableDeclarations.h">> \in newer[dir] \/ "VTableDeclarations.h" \in F
  BY <1>1, <1>2 DEF IInv, ForcedIsOlder, Active, Generating
<1> QED BY <1>1, <1>3, ObjectFacts DEF Stored

LEMMA GeneratorWrites ==
  ASSUME IInv, Generating, NEW F, Stored(F, program[dir]),
         \A f \in File : WrittenAt[f] = step => text'[dir][f] = program[dir][f]
  PROVE  FilesWritten'
<1> SUFFICES ASSUME ~writeFailed', NEW f \in File, WrittenAt[f] < step'
             PROVE  text'[dir][f] = program[dir][f]
  BY DEF FilesWritten, Generating, world
<1>1. ~writeFailed /\ step' = step + 1 /\ dir \in Directory
  BY DEF Generating, IInv, Shape
<1>2. WrittenAt[f] \in 1..9
  BY DEF WrittenAt, File
<1>3. WrittenAt[f] = step \/ WrittenAt[f] < step
  BY <1>1, <1>2 DEF Generating
<1>4. CASE WrittenAt[f] < step
  <2>1. text[dir][f] = program[dir][f]
    BY <1>1, <1>4 DEF IInv, FilesWritten, Active, Generating
  <2> QED BY <1>1, <2>1 DEF Stored
<1> QED BY <1>3, <1>4

LEMMA GeneratorRemembers ==
  ASSUME IInv, Generating, previous' = previous, step' > 7 => step > 7
  PROVE  PreviousIsSame'
<1>1. Foreign(dir, "Nova")' <=> Foreign(dir, "Nova")
  BY DEF Foreign, Generating, objects, world
<1> QED BY <1>1 DEF IInv, PreviousIsSame, Foreign, Generating, objects, world

-----------------------------------------------------------------------------
(* One file is written if it differs or is forced.                         *)
LEMMA WritesOne ==
  ASSUME Shape, NEW f \in File, NEW force \in BOOLEAN, writeIfDifferent(f, force)
  PROVE  \E F \in SUBSET File : /\ Stored(F, program[dir])
                                /\ text'[dir][f] = program[dir][f]
                                /\ force => f \in F
<1>1. dir \in Directory
  BY DEF Shape
<1>2. CASE Differs(f) \/ force
  <2>1. Stored({f}, program[dir])
    BY <1>2, PutStores DEF writeIfDifferent
  <2>2. text'[dir][f] = program[dir][f]
    BY <1>1, <2>1 DEF Stored
  <2> QED BY <2>1, <2>2
<1>3. CASE ~(Differs(f) \/ force)
  <2>1. UNCHANGED files
    BY <1>3 DEF writeIfDifferent
  <2>2. Stored({}, program[dir])
    BY <2>1, KeepsStores
  <2>3. text'[dir][f] = program[dir][f]
    BY <1>3, <2>1 DEF Differs, files
  <2> QED BY <1>3, <2>2, <2>3
<1> QED BY <1>2, <1>3

-----------------------------------------------------------------------------
LEMMA MainMethodInv == IInv /\ insertMainMethod => IInv'
<1> SUFFICES ASSUME IInv, NEW f \in {"MainFunction.h", "MainFunction.c"}, At(f),
                    writeIfDifferent(f, FALSE), Done(TRUE),
                    UNCHANGED <<driverVars, forceRecompile, previous>>
             PROVE  IInv'
  BY DEF insertMainMethod
<1>1. Shape /\ step \in 1..12 /\ f \in File
  BY DEF IInv, Shape, File
<1>2. step \in {1, 2} /\ phase = "options"
  BY <1>1, OrderFacts
<1>3. Generating
  <2>1. phase' = phase /\ flags' = flags /\ step \in 1..11
    BY <1>2 DEF driverVars, options
  <2> QED BY <1>1, <1>2, <2>1, DoneGenerates
<1>4. PICK F \in SUBSET File : /\ Stored(F, program[dir])
                               /\ text'[dir][f] = program[dir][f]
  BY <1>1, WritesOne
<1>5. \A g \in File : WrittenAt[g] = step => g = f
  <2>1. f = "MainFunction.h" => step = 1
    BY <1>1, OrderFacts
  <2>2. f = "MainFunction.c" => step = 2
    BY <1>1, OrderFacts
  <2> QED BY <2>1, <2>2 DEF WrittenAt, File
<1>6. FilesWritten'
  BY <1>3, <1>4, <1>5, GeneratorWrites
<1>7. ForcedIsOlder'
  BY <1>2, <1>3, <1>4, GeneratorForces
<1>8. PreviousIsSame'
  BY <1>2, <1>3, GeneratorRemembers DEF Done
<1> QED BY <1>3, <1>4, <1>6, <1>7, <1>8, GeneratorKeeps DEF IInv

LEMMA VTableInv == IInv /\ generateVTableDeclarations => IInv'
<1> SUFFICES ASSUME IInv, NEW f \in {"VTableDeclarations.c", "VTableDeclarations.h"}, At(f),
                    \/ writeIfDifferent(f, Forcing(f)) /\ Done(TRUE)
                    \/ Done(FALSE) /\ UNCHANGED files,
                    UNCHANGED <<driverVars, previous>>
             PROVE  IInv'
  BY DEF generateVTableDeclarations
<1>1. Shape /\ step \in 1..12 /\ f \in File
  BY DEF IInv, Shape, File
<1>2. step \in {3, 4} /\ phase = "options"
  BY <1>1, OrderFacts
<1>3. Generating
  <2>1. phase' = phase /\ flags' = flags /\ step \in 1..11
    BY <1>2 DEF driverVars, options
  <2> QED BY <1>1, <1>2, <2>1, DoneGenerates
<1>4. PICK F \in SUBSET File : /\ Stored(F, program[dir])
                               /\ writeFailed' \/ text'[dir][f] = program[dir][f]
                               /\ Forcing(f) => writeFailed' \/ f \in F
  <2>1. CASE writeIfDifferent(f, Forcing(f))
    <3>1. Forcing(f) \in BOOLEAN
      BY DEF Forcing
    <3> QED BY <1>1, <2>1, <3>1, WritesOne
  <2>2. CASE Done(FALSE) /\ UNCHANGED files
    <3>1. writeFailed'
      BY <2>2 DEF Done
    <3>2. Stored({}, program[dir])
      BY <1>1, <2>2, KeepsStores
    <3> QED BY <3>1, <3>2
  <2> QED BY <2>1, <2>2
<1>5. (\A g \in File : WrittenAt[g] = step => g = f)
      /\ (step = 4 => f = "VTableDeclarations.h")
  <2>1. f = "VTableDeclarations.c" => step = 3
    BY <1>1, OrderFacts
  <2>2. f = "VTableDeclarations.h" => step = 4
    BY <1>1, OrderFacts
  <2> QED BY <2>1, <2>2 DEF WrittenAt, File
<1>6. FilesWritten'
  <2>1. CASE writeFailed'
    BY <2>1 DEF FilesWritten
  <2>2. CASE ~writeFailed'
    BY <1>3, <1>4, <1>5, <2>2, GeneratorWrites
  <2> QED BY <2>1, <2>2
<1>7. ForcedIsOlder'
  BY <1>3, <1>4, <1>5, GeneratorForces DEF Forcing
<1>8. PreviousIsSame'
  BY <1>2, <1>3, GeneratorRemembers DEF Done
<1> QED BY <1>3, <1>4, <1>6, <1>7, <1>8, GeneratorKeeps DEF IInv

LEMMA ForcedInv == IInv /\ writeForced => IInv'
<1> SUFFICES ASSUME IInv, NEW f \in {"InterfaceVTable.h", "makefile"}, At(f),
                    \/ writeIfDifferent(f, forceRecompile) /\ Done(TRUE)
                    \/ Done(FALSE) /\ UNCHANGED files,
                    UNCHANGED <<driverVars, forceRecompile, previous>>
             PROVE  IInv'
  BY DEF writeForced
<1>1. Shape /\ step \in 1..12 /\ f \in File
  BY DEF IInv, Shape, File
<1>2. step \in {5, 6} /\ phase = "options"
  BY <1>1, OrderFacts
<1>3. Generating
  <2>1. phase' = phase /\ flags' = flags /\ step \in 1..11
    BY <1>2 DEF driverVars, options
  <2> QED BY <1>1, <1>2, <2>1, DoneGenerates
<1>4. PICK F \in SUBSET File : /\ Stored(F, program[dir])
                               /\ writeFailed' \/ text'[dir][f] = program[dir][f]
  <2>1. CASE writeIfDifferent(f, forceRecompile)
    <3>1. writeIfDifferent(f, TRUE) \/ writeIfDifferent(f, FALSE)
      BY <2>1 DEF writeIfDifferent
    <3> QED BY <1>1, <3>1, WritesOne
  <2>2. CASE Done(FALSE) /\ UNCHANGED files
    <3>1. writeFailed'
      BY <2>2 DEF Done
    <3>2. Stored({}, program[dir])
      BY <1>1, <2>2, KeepsStores
    <3> QED BY <3>1, <3>2
  <2> QED BY <2>1, <2>2
<1>5. \A g \in File : WrittenAt[g] = step => g = f
  <2>1. f = "InterfaceVTable.h" => step = 5
    BY <1>1, OrderFacts
  <2>2. f = "makefile" => step = 6
    BY <1>1, OrderFacts
  <2> QED BY <2>1, <2>2 DEF WrittenAt, File
<1>6. FilesWritten'
  <2>1. CASE writeFailed'
    BY <2>1 DEF FilesWritten
  <2>2. CASE ~writeFailed'
    BY <1>3, <1>4, <1>5, <2>2, GeneratorWrites
  <2> QED BY <2>1, <2>2
<1>7. ForcedIsOlder'
  BY <1>2, <1>3, <1>4, GeneratorForces
<1>8. PreviousIsSame'
  BY <1>2, <1>3, GeneratorRemembers DEF Done
<1> QED BY <1>3, <1>4, <1>6, <1>7, <1>8, GeneratorKeeps DEF IInv

LEMMA ReadInv == IInv /\ readPrevious => IInv'
<1> SUFFICES ASSUME IInv, readPrevious PROVE IInv'
  OBVIOUS
<1>1. Shape /\ step \in 1..12 /\ dir \in Directory
  BY DEF IInv, Shape
<1>2. step = 7 /\ phase = "options"
  BY <1>1, OrderFacts DEF readPrevious
<1>3. Generating
  <2>1. phase' = phase /\ flags' = flags /\ step \in 1..11
    BY <1>2 DEF readPrevious, driverVars, options
  <2> QED BY <1>1, <1>2, <2>1, DoneGenerates DEF readPrevious
<1>4. Stored({}, program[dir])
  BY <1>1, KeepsStores DEF readPrevious
<1>5. FilesWritten'
  <2>1. \A f \in File : WrittenAt[f] # 7
    BY DEF WrittenAt, File
  <2> QED BY <1>2, <1>3, <1>4, <2>1, GeneratorWrites
<1>6. ForcedIsOlder'
  BY <1>2, <1>3, <1>4, GeneratorForces
<1>7. PreviousIsSame'
  <2> SUFFICES ASSUME NEW f \in Output, NEW o \in Object, f \in Needs[o],
                      built[dir][o] # NotBuilt
               PROVE  \/ <<o, f>> \in previous'[f].newer
                      \/ previous'[f].text = None
                      \/ built[dir][o].texts[f] = previous'[f].text
                      \/ Foreign(dir, o)
    BY <1>3 DEF PreviousIsSame, Generating, objects, world, Foreign
  <2>1. previous'[f] = [text |-> text[dir][f], newer |-> newer[dir] \cap Older({f})]
    BY DEF readPrevious
  <2>2. <<o, f>> \in newer[dir] => <<o, f>> \in newer[dir] \cap Older({f})
    BY OlderPairs
  <2> QED BY <1>1, <2>1, <2>2 DEF IInv, NewerIsSame
<1> QED BY <1>3, <1>4, <1>5, <1>6, <1>7, GeneratorKeeps DEF IInv

LEMMA ClearInv == IInv /\ clearOutput => IInv'
<1> SUFFICES ASSUME IInv, clearOutput PROVE IInv'
  OBVIOUS
<1>1. Shape /\ step \in 1..12 /\ Len(Order) + 1 = 12
  <2>1. Shape /\ step \in 1..12
    BY DEF IInv, Shape
  <2>2. Len(Order) = 11
    BY <2>1, OrderFacts
  <2> QED BY <2>1, <2>2
<1>2. step = 8 /\ phase = "options"
  BY <1>1, OrderFacts DEF clearOutput
<1>3. phase' = phase /\ flags' = flags /\ previous' = previous
  BY DEF clearOutput, options
<1>4. PICK F, new : /\ F \subseteq Output /\ Stored(F, new)
                    /\ Done(TRUE) \/ (step' = 12 /\ writeFailed')
  <2>1. CASE Put(Output, [f \in Output |-> Partial]) /\ Done(TRUE)
    BY <1>1, <2>1, PutStores
  <2>2. CASE /\ \E F \in {{}, {"NovaOutput.h"}} : Put(F, [f \in F |-> Partial])
             /\ writeFailed' = TRUE /\ step' = 12
    BY <1>1, <2>2, PutStores DEF Output
  <2> QED BY <1>1, <2>1, <2>2 DEF clearOutput
<1>5. Generating
  <2>1. CASE Done(TRUE)
    BY <1>1, <1>2, <1>3, <2>1, DoneGenerates
  <2>2. CASE step' = 12 /\ writeFailed'
    BY <1>2, <1>3, <2>2 DEF Generating, clearOutput, Done
  <2> QED BY <1>4, <2>1, <2>2
<1>6. FilesWritten'
  <2> SUFFICES ASSUME ~writeFailed', NEW f \in File, WrittenAt[f] < step'
               PROVE  text'[dir][f] = program[dir][f]
    BY <1>5 DEF FilesWritten, Generating, world
  <2>1. ~writeFailed /\ step' = 9 /\ dir \in Directory
    BY <1>1, <1>2, <1>5 DEF Generating, Shape
  <2>2. f \notin Output /\ WrittenAt[f] < 8
    BY <2>1 DEF WrittenAt, File, Output
  <2>3. text[dir][f] = program[dir][f]
    BY <1>2, <2>1, <2>2 DEF IInv, FilesWritten, Active
  <2> QED BY <1>4, <2>1, <2>2, <2>3 DEF Stored
<1>7. ForcedIsOlder'
  BY <1>2, <1>4, <1>5, GeneratorForces
<1>8. PreviousIsSame'
  BY <1>2, <1>3, <1>5, GeneratorRemembers
<1> QED BY <1>4, <1>5, <1>6, <1>7, <1>8, GeneratorKeeps DEF IInv

LEMMA PrintInv == IInv /\ printOutput => IInv'
<1> SUFFICES ASSUME IInv, printOutput PROVE IInv'
  OBVIOUS
<1>1. Shape /\ step \in 1..12 /\ dir \in Directory
  BY DEF IInv, Shape
<1>2. step = 9 /\ phase = "options"
  BY <1>1, OrderFacts DEF printOutput
<1>3. Generating
  <2>1. phase' = phase /\ flags' = flags /\ step \in 1..11
    BY <1>2 DEF printOutput, driverVars, options
  <2> QED BY <1>1, <1>2, <2>1, DoneGenerates DEF printOutput
<1>4. PICK F \in SUBSET Output : Stored(F, program[dir]) /\ (writeFailed' \/ F = Output)
  <2>1. CASE Put(Output, program[dir])
    BY <1>1, <2>1, PutStores
  <2>2. CASE Done(FALSE) /\ UNCHANGED files
    <3>1. writeFailed'
      BY <2>2 DEF Done
    <3> QED BY <1>1, <2>2, <3>1, KeepsStores
  <2> QED BY <2>1, <2>2 DEF printOutput
<1>5. FilesWritten'
  <2>1. CASE writeFailed'
    BY <2>1 DEF FilesWritten
  <2>2. CASE ~writeFailed'
    <3>1. \A f \in File : WrittenAt[f] = 9 => f \in Output
      BY DEF WrittenAt, File, Output
    <3>2. \A f \in File : WrittenAt[f] = 9 => text'[dir][f] = program[dir][f]
      BY <1>1, <1>4, <2>2, <3>1 DEF Stored
    <3> QED BY <1>2, <1>3, <1>4, <3>2, GeneratorWrites
  <2> QED BY <2>1, <2>2
<1>6. ForcedIsOlder'
  BY <1>2, <1>3, <1>4, GeneratorForces
<1>7. PreviousIsSame'
  BY <1>2, <1>3, GeneratorRemembers DEF printOutput
<1> QED BY <1>3, <1>4, <1>5, <1>6, <1>7, GeneratorKeeps DEF IInv

(* The pairs of the file become what they were, if its text did.           *)
LEMMA CheckInv == IInv /\ checkModified => IInv'
<1> SUFFICES ASSUME IInv, NEW f \in Output,
                    At(IF f = "NovaOutput.h" THEN "checkHeader" ELSE "checkSource"),
                    newer' = IF Unmodified(f)
                      THEN [newer EXCEPT ![dir] = (@ \ Older({f})) \cup previous[f].newer]
                      ELSE newer,
                    Done(TRUE), UNCHANGED <<driverVars, text, forceRecompile, previous>>
             PROVE  IInv'
  BY DEF checkModified
<1>1. Shape /\ step \in 1..12 /\ dir \in Directory
  BY DEF IInv, Shape
<1>2. step \in {10, 11} /\ phase = "options"
  BY <1>1, OrderFacts
<1>3. Generating
  <2>1. phase' = phase /\ flags' = flags /\ step \in 1..11
    BY <1>2 DEF driverVars, options
  <2> QED BY <1>1, <1>2, <2>1, DoneGenerates
<1>4. /\ DOMAIN newer' = Directory
      /\ \A d \in Directory : d # dir => newer'[d] = newer[d]
      /\ newer'[dir] = IF Unmodified(f) THEN (newer[dir] \ Older({f})) \cup previous[f].newer
                       ELSE newer[dir]
  BY <1>1 DEF Shape
<1>5. Shape'
  BY <1>3, <1>4 DEF IInv, Shape, Generating, objects, world
<1>6. NewerIsSame'
  <2> SUFFICES ASSUME NEW d \in Directory, NEW o \in Object, NEW g \in Needs[o],
                      built[d][o] # NotBuilt
               PROVE  \/ <<o, g>> \in newer'[d]
                      \/ text[d][g] = None
                      \/ built[d][o].texts[g] = text[d][g]
                      \/ Foreign(d, o)
    BY <1>3 DEF NewerIsSame, Generating, objects, Foreign
  <2>1. CASE d = dir /\ g = f /\ Unmodified(f)
    <3>1. \/ <<o, f>> \in previous[f].newer
          \/ built[dir][o].texts[f] = previous[f].text
          \/ Foreign(dir, o)
      BY <1>2, <2>1 DEF IInv, PreviousIsSame, Unmodified
    <3> QED BY <1>4, <2>1, <3>1 DEF Unmodified
  <2>2. CASE ~(d = dir /\ g = f /\ Unmodified(f))
    <3>1. <<o, g>> \in newer[d] => <<o, g>> \in newer'[d]
      BY <1>4, <2>2, OlderPairs
    <3> QED BY <3>1 DEF IInv, NewerIsSame
  <2> QED BY <2>1, <2>2
<1>7. FilesWritten'
  <2>1. \A g \in File : WrittenAt[g] < step
    BY <1>2 DEF WrittenAt, File
  <2> QED BY <1>2, <1>3, <2>1 DEF IInv, FilesWritten, Active, Generating, world
<1>8. ForcedIsOlder'
  <2> SUFFICES ASSUME "force" \in flags, ~writeFailed',
                      NEW o \in Object, Needs[o] # {}, o \notin compiledNow
               PROVE  <<o, "VTableDeclarations.h">> \in newer'[dir]
    BY <1>3 DEF ForcedIsOlder, Generating, objects, world
  <2>1. <<o, "VTableDeclarations.h">> \in newer[dir]
    BY <1>2, <1>3 DEF IInv, ForcedIsOlder, Active, Generating
  <2>2. <<o, "VTableDeclarations.h">> \notin Older({f})
    BY OlderPairs DEF Output
  <2> QED BY <1>4, <2>1, <2>2
<1>9. PreviousIsSame'
  BY <1>2, <1>3, GeneratorRemembers
<1>10. MakeAfterwards' /\ ForceRebuilds'
  <2>1. ~linked /\ ~linked'
    BY <1>3 DEF IInv, MakeAfterwards, Generating, objects
  <2> QED BY <1>3, <2>1 DEF MakeAfterwards, ForceRebuilds, Generating
<1> QED BY <1>5, <1>6, <1>7, <1>8, <1>9, <1>10 DEF IInv

-----------------------------------------------------------------------------
(* Steps that leave the files and the objects alone.                       *)
Elsewhere ==
  /\ UNCHANGED <<files, objects, generator, world>>
  /\ \/ phase' = phase
     \/ phase = "options" /\ phase' = "execute" /\ step = 12
     \/ phase = "execute" /\ phase' = "running"
     \/ phase = "running" /\ phase' = "exited"
     \/ phase' \notin Active
  /\ flags' = flags \/ (phase = "options" /\ step = 1)

LEMMA ElsewhereInv == IInv /\ Elsewhere => IInv'
<1> SUFFICES ASSUME IInv, Elsewhere PROVE IInv'
  OBVIOUS
<1>1. /\ text' = text /\ newer' = newer /\ built' = built /\ linked' = linked
      /\ compiledNow' = compiledNow /\ step' = step /\ previous' = previous
      /\ writeFailed' = writeFailed /\ dir' = dir /\ program' = program
  BY DEF Elsewhere, files, objects, generator, world
<1>2. Shape' /\ NewerIsSame'
  BY <1>1 DEF IInv, Shape, NewerIsSame, Foreign
<1>3. PreviousIsSame'
  <2>1. phase' = "options" => phase = "options"
    BY DEF Elsewhere, Active
  <2> QED BY <1>1, <2>1 DEF IInv, PreviousIsSame, Foreign
<1>4. phase' \in Active => phase \in Active
  BY DEF Elsewhere, Active
<1>5. FilesWritten'
  BY <1>1, <1>4 DEF IInv, FilesWritten
<1>6. MakeAfterwards'
  <2>1. \A o \in Object : OutOfDate(o)' <=> OutOfDate(o)
    BY <1>1 DEF OutOfDate
  <2>2. phase' \in {"execute", "running", "exited"} => step' = 12
    BY <1>1 DEF IInv, MakeAfterwards, Elsewhere, Active
  <2>3. linked' => phase' \notin {"options", "execute"}
    BY <1>1 DEF IInv, MakeAfterwards, Elsewhere, Active
  <2>4. linked /\ phase' \in {"running", "exited"} => phase \in {"running", "exited"}
    BY DEF IInv, MakeAfterwards, Elsewhere, Active
  <2>5. linked' /\ phase' \in {"running", "exited"} => \A o \in Object : ~OutOfDate(o)'
    BY <1>1, <2>1, <2>4 DEF IInv, MakeAfterwards
  <2> QED BY <2>2, <2>3, <2>5 DEF MakeAfterwards
<1>7. ForcedIsOlder'
  <2>1. step > 4 => flags' = flags
    BY DEF Elsewhere
  <2> QED BY <1>1, <1>4, <2>1 DEF IInv, ForcedIsOlder
<1>8. ForceRebuilds'
  <2>1. linked => flags' = flags
    BY DEF Elsewhere, IInv, MakeAfterwards
  <2> QED BY <1>1, <2>1 DEF IInv, ForceRebuilds
<1> QED BY <1>2, <1>3, <1>5, <1>6, <1>7, <1>8 DEF IInv

LEMMA OptionElsewhere == Option => Elsewhere
BY DEF Option, Elsewhere, checkArgument

LEMMA StartsElsewhere ==
  IInv /\ (compileStarts \/ executeStarts) => Elsewhere
<1> SUFFICES ASSUME IInv, compileStarts \/ executeStarts PROVE Elsewhere
  OBVIOUS
<1>1. CASE compileStarts
  <2>1. step \in 1..12
    BY DEF IInv, Shape
  <2>2. Len(Order) = 11
    BY <2>1, OrderFacts
  <2>3. step = 12
    BY <1>1, <2>1, <2>2 DEF compileStarts, Written
  <2>4. flags' = flags /\ phase = "options" /\ phase' \in {"execute", "failed"}
        /\ UNCHANGED <<files, objects, generator, world>>
    BY <1>1 DEF compileStarts, compile, options
  <2> QED BY <2>3, <2>4 DEF Elsewhere, Active
<1>2. CASE executeStarts
  BY <1>2 DEF executeStarts, execute, Elsewhere, Active, options
<1> QED BY <1>1, <1>2

LEMMA MessagesElsewhere == makeStops \/ Prints \/ makeEnds \/ Kill => Elsewhere
<1>1. ASSUME makeStops PROVE Elsewhere
  BY <1>1 DEF makeStops, errorReceived, Elsewhere, options
<1>2. ASSUME Prints PROVE Elsewhere
  BY <1>2 DEF Prints, errorReceived, messageReceived, Elsewhere, options
<1>3. ASSUME makeEnds PROVE Elsewhere
  BY <1>3 DEF makeEnds, resultReceived, Elsewhere, options
<1>4. ASSUME Kill PROVE Elsewhere
  BY <1>4 DEF Kill, Elsewhere, options, Active
<1> QED BY <1>1, <1>2, <1>3, <1>4

LEMMA IdleElsewhere == UNCHANGED vars => Elsewhere
BY DEF vars, driverVars, options, Elsewhere

-----------------------------------------------------------------------------
LEMMA CompileInv == ASSUME NEW o \in Object PROVE IInv /\ Compile(o) => IInv'
<1> SUFFICES ASSUME IInv, Compile(o) PROVE IInv'
  OBVIOUS
<1> DEFINE Sharing == IF o \in Shared THEN Directory ELSE {dir}
           Result == [from |-> dir, texts |-> [f \in Needs[o] |-> text[dir][f]]]
<1>1. /\ phase = "running" /\ phase' = phase /\ flags' = flags
      /\ text' = text /\ linked' = linked /\ step' = step /\ previous' = previous
      /\ writeFailed' = writeFailed /\ dir' = dir /\ program' = program
      /\ compiledNow' = compiledNow \cup {o} /\ OutOfDate(o)
      /\ built' = [d \in Directory |->
           IF d \in Sharing THEN [built[d] EXCEPT ![o] = Result] ELSE built[d]]
      /\ newer' = [d \in Directory |->
           IF d \in Sharing THEN {p \in newer[d] : p[1] # o} ELSE newer[d]]
  BY DEF Compile, Making, driverVars, options, generator, world
<1>2. dir \in Sharing /\ dir \in Directory
  BY DEF IInv, Shape
<1>3. ~linked
  BY <1>1 DEF IInv, MakeAfterwards
<1>4. \A d \in Directory :
        /\ DOMAIN built'[d] = Object
        /\ built'[d][o] = IF d \in Sharing THEN Result ELSE built[d][o]
        /\ \A u \in Object : u # o => built'[d][u] = built[d][u]
  BY <1>1 DEF IInv, Shape
<1>5. \A d \in Directory : \A u \in Object : \A f :
        (u # o \/ d \notin Sharing) => (<<u, f>> \in newer'[d] <=> <<u, f>> \in newer[d])
  BY <1>1
<1>6. Shape'
  BY <1>1, <1>4 DEF IInv, Shape
<1>7. NewerIsSame'
  <2> HIDE DEF Sharing, Result
  <2> text' = text
    BY <1>1
  <2> SUFFICES ASSUME NEW d \in Directory, NEW u \in Object, NEW f \in Needs[u],
                      built'[d][u] # NotBuilt
               PROVE  \/ <<u, f>> \in newer'[d]
                      \/ text[d][f] = None
                      \/ built'[d][u].texts[f] = text[d][f]
                      \/ u = "Nova" /\ built'[d][u].from # d
    BY DEF NewerIsSame, Foreign
  <2>1. CASE u # o \/ d \notin Sharing
    <3>1. built'[d][u] = built[d][u]
      BY <1>4, <2>1
    <3>2. <<u, f>> \in newer'[d] <=> <<u, f>> \in newer[d]
      BY <1>5, <2>1
    <3> QED BY <3>1, <3>2 DEF IInv, NewerIsSame, Foreign
  <2>2. CASE u = o /\ d \in Sharing
    <3>1. built'[d][u] = Result /\ Result.from = dir /\ Result.texts[f] = text[dir][f]
      BY <1>4, <2>2 DEF Result
    <3>2. d # dir => u = "Nova"
      BY <2>2, ObjectFacts DEF Sharing
    <3> QED BY <3>1, <3>2
  <2> QED BY <2>1, <2>2
<1>8. PreviousIsSame' /\ FilesWritten' /\ MakeAfterwards' /\ ForceRebuilds'
  BY <1>1, <1>3 DEF IInv, PreviousIsSame, FilesWritten, MakeAfterwards, ForceRebuilds
<1>9. ForcedIsOlder'
  <2> SUFFICES ASSUME "force" \in flags, ~writeFailed, step > 4,
                      NEW u \in Object, Needs[u] # {}, u \notin compiledNow'
               PROVE  <<u, "VTableDeclarations.h">> \in newer'[dir]
    BY <1>1 DEF ForcedIsOlder
  <2>1. <<u, "VTableDeclarations.h">> \in newer[dir]
    BY <1>1 DEF IInv, ForcedIsOlder, Active
  <2> QED BY <1>1, <1>2, <1>5, <2>1
<1> QED BY <1>6, <1>7, <1>8, <1>9 DEF IInv

LEMMA LinkInv == IInv /\ Link => IInv'
<1> SUFFICES ASSUME IInv, Link PROVE IInv'
  OBVIOUS
<1>1. /\ phase = "running" /\ phase' = phase /\ flags' = flags
      /\ text' = text /\ newer' = newer /\ built' = built /\ linked' = TRUE
      /\ compiledNow' = compiledNow /\ step' = step /\ previous' = previous
      /\ writeFailed' = writeFailed /\ dir' = dir /\ program' = program
  BY DEF Link, Making, driverVars, options, files, generator, world
<1>2. \A o \in Object : ~OutOfDate(o)
  BY DEF Link
<1>3. Shape' /\ NewerIsSame' /\ PreviousIsSame' /\ FilesWritten' /\ ForcedIsOlder'
  BY <1>1 DEF IInv, Shape, NewerIsSame, PreviousIsSame, Foreign, FilesWritten, ForcedIsOlder
<1>4. MakeAfterwards'
  <2>1. \A o \in Object : ~OutOfDate(o)'
    BY <1>1, <1>2 DEF OutOfDate
  <2> QED BY <1>1, <2>1 DEF IInv, MakeAfterwards
<1>5. ForceRebuilds'
  <2> SUFFICES ASSUME "force" \in flags, ~writeFailed
               PROVE  {o \in Object : Needs[o] # {}} \subseteq compiledNow
    BY <1>1 DEF ForceRebuilds
  <2>1. step = 12
    BY <1>1 DEF IInv, MakeAfterwards
  <2>2. ASSUME NEW o \in Object, Needs[o] # {} PROVE o \in compiledNow
    <3>1. <<o, "VTableDeclarations.h">> \notin newer[dir]
      BY <1>2, <2>2, ObjectFacts DEF OutOfDate
    <3> QED BY <1>1, <2>1, <2>2, <3>1 DEF IInv, ForcedIsOlder, Active
  <2> QED BY <2>2
<1> QED BY <1>3, <1>4, <1>5 DEF IInv

LEMMA EndsInv == IInv /\ commandEnds => IInv'
<1> SUFFICES ASSUME IInv, commandEnds PROVE IInv'
  OBVIOUS
<1>1. /\ linked' = linked /\ compiledNow' = compiledNow
      /\ UNCHANGED generator /\ UNCHANGED world
      /\ flags' = flags /\ phase' \in {"ended", "interrupted"}
  BY DEF commandEnds, commandExecuted, options
<1>2. CASE UNCHANGED <<files, built>>
  <2>1. Elsewhere
    BY <1>1, <1>2 DEF Elsewhere, objects, Active
  <2> QED BY <2>1, ElsewhereInv
<1>3. CASE Delete
  <2>1. Shape'
    BY <1>1, <1>3 DEF Delete, IInv, Shape, generator, world
  <2>2. NewerIsSame'
    <3> SUFFICES ASSUME NEW d \in Directory, NEW o \in Object, NEW f \in Needs[o],
                        built'[d][o] # NotBuilt
                 PROVE  \/ <<o, f>> \in newer'[d]
                        \/ text'[d][f] = None
                        \/ built'[d][o].texts[f] = text'[d][f]
                        \/ o = "Nova" /\ built'[d][o].from # d
      BY DEF NewerIsSame, Foreign
    <3>1. f \in File
      BY ObjectFacts
    <3>2. CASE d = dir
      BY <1>3, <3>1, <3>2 DEF Delete, IInv, Shape
    <3>3. CASE d # dir
      <4>1. text'[d] = text[d] /\ newer'[d] = newer[d] /\ built'[d] = built[d]
        BY <1>3, <3>3 DEF Delete, IInv, Shape
      <4> QED BY <4>1 DEF IInv, NewerIsSame, Foreign
    <3> QED BY <3>2, <3>3
  <2>3. PreviousIsSame' /\ FilesWritten' /\ MakeAfterwards' /\ ForcedIsOlder'
    BY <1>1 DEF PreviousIsSame, FilesWritten, MakeAfterwards, ForcedIsOlder, Active
  <2>4. ForceRebuilds'
    BY <1>1 DEF IInv, ForceRebuilds, generator
  <2> QED BY <2>1, <2>2, <2>3, <2>4 DEF IInv
<1> QED BY <1>2, <1>3 DEF commandEnds

LEMMA EditInv == IInv /\ Edit => IInv'
<1> SUFFICES ASSUME IInv, Edit PROVE IInv'
  OBVIOUS
<1>1. /\ phase' = phase /\ phase \notin Active /\ flags' = flags
      /\ UNCHANGED files /\ UNCHANGED objects /\ UNCHANGED generator /\ dir' = dir
  BY DEF Edit, Over, Active, driverVars, options
<1>2. Shape'
  <2>1. PICK e \in Directory, F \in Edits :
          program' = [program EXCEPT ![e] = [f \in File |-> IF f \in F THEN 3 - @[f] ELSE @[f]]]
    BY DEF Edit
  <2>2. \A d \in Directory : \A f \in File : program'[d][f] \in {1, 2}
    BY <2>1 DEF IInv, Shape
  <2>3. DOMAIN program' = Directory
    BY <2>1 DEF IInv, Shape
  <2> QED BY <1>1, <2>2, <2>3 DEF IInv, Shape, files, objects, generator
<1>3. NewerIsSame'
  BY <1>1 DEF IInv, NewerIsSame, Foreign, files, objects
<1>4. PreviousIsSame' /\ FilesWritten' /\ MakeAfterwards' /\ ForcedIsOlder'
  BY <1>1 DEF PreviousIsSame, FilesWritten, MakeAfterwards, ForcedIsOlder, Active
<1>5. ForceRebuilds'
  BY <1>1 DEF IInv, ForceRebuilds, objects, generator
<1> QED BY <1>2, <1>3, <1>4, <1>5 DEF IInv

LEMMA RunInv == IInv /\ Run => IInv'
<1> SUFFICES ASSUME IInv, Run PROVE IInv'
  OBVIOUS
<1>1. /\ phase' = "options" /\ flags' = {} /\ step' = 1 /\ linked' = FALSE
      /\ compiledNow' = {} /\ dir' \in Directory /\ writeFailed' = FALSE
      /\ text' = text /\ newer' = newer /\ built' = built /\ program' = program
  BY DEF Run, files
<1>2. Shape' /\ NewerIsSame'
  BY <1>1 DEF IInv, Shape, NewerIsSame, Foreign
<1>3. FilesWritten'
  <2>1. \A f \in File : ~(WrittenAt[f] < 1)
    BY DEF WrittenAt, File
  <2> QED BY <1>1, <2>1 DEF FilesWritten
<1>4. PreviousIsSame' /\ MakeAfterwards' /\ ForcedIsOlder' /\ ForceRebuilds'
  BY <1>1 DEF PreviousIsSame, MakeAfterwards, ForcedIsOlder, ForceRebuilds
<1> QED BY <1>2, <1>3, <1>4 DEF IInv

LEMMA InitInv == Init => IInv
<1> SUFFICES ASSUME Init PROVE IInv
  OBVIOUS
<1>1. dir \in Directory
  BY BuildPipelineAssumption DEF Init
<1>2. Shape
  BY <1>1 DEF Init, Shape
<1>3. NewerIsSame
  BY DEF Init, NewerIsSame
<1>4. FilesWritten
  <2>1. \A f \in File : ~(WrittenAt[f] < 1)
    BY DEF WrittenAt, File
  <2> QED BY <2>1 DEF Init, FilesWritten
<1>5. PreviousIsSame /\ MakeAfterwards /\ ForcedIsOlder /\ ForceRebuilds
  BY DEF Init, DriverInit, PreviousIsSame, MakeAfterwards, ForcedIsOlder, ForceRebuilds
<1> QED BY <1>2, <1>3, <1>4, <1>5 DEF IInv

-----------------------------------------------------------------------------
LEMMA StepInv == IInv /\ [Next]_vars => IInv'
<1> SUFFICES ASSUME IInv, [Next]_vars PROVE IInv'
  OBVIOUS
<1>1. CASE Generate
  BY <1>1, MainMethodInv, VTableInv, ForcedInv, ReadInv, ClearInv, PrintInv, CheckInv
     DEF Generate
<1>2. CASE Option \/ compileStarts \/ executeStarts
  BY <1>2, OptionElsewhere, StartsElsewhere, ElsewhereInv
<1>3. CASE makeStops \/ Prints \/ makeEnds \/ Kill
  BY <1>3, MessagesElsewhere, ElsewhereInv
<1>4. CASE make
  BY <1>4, CompileInv, LinkInv DEF make
<1>5. CASE commandEnds \/ Edit \/ Run
  BY <1>5, EndsInv, EditInv, RunInv
<1>6. CASE Idle \/ UNCHANGED vars
  BY <1>6, IdleElsewhere, ElsewhereInv DEF Idle
<1> QED BY <1>1, <1>2, <1>3, <1>4, <1>5, <1>6 DEF Next

(* In every state the files, their times, the objects and what is kept of  *)
(* the output files agree as described above.                              *)
THEOREM Invariance == Spec => []IInv
BY InitInv, StepInv, PTL DEF Spec

(* What make links was compiled from the texts that the source calls for,  *)
(* whatever happened to earlier runs, except after a failed write and for  *)
(* a runtime object of another program.                                    *)
THEOREM LinkedObjectsUpToDate == Spec => []LinkedUpToDate
<1>1. IInv => LinkedUpToDate
  <2> SUFFICES ASSUME IInv, linked, ~writeFailed, phase \in {"running", "exited"},
                      NEW o \in Object, ~Foreign(dir, o), NEW f \in Needs[o]
               PROVE  built[dir][o].texts[f] = program[dir][f]
    BY DEF LinkedUpToDate, Foreign
  <2>1. f \in File /\ dir \in Directory
    BY ObjectFacts DEF IInv, Shape
  <2>2. text[dir][f] = program[dir][f] /\ text[dir][f] # None
    <3>1. step = 12
      BY DEF IInv, MakeAfterwards
    <3>2. WrittenAt[f] < 12
      BY <2>1 DEF WrittenAt, File
    <3>3. text[dir][f] = program[dir][f]
      BY <2>1, <3>1, <3>2 DEF IInv, FilesWritten, Active
    <3> QED BY <2>1, <3>3 DEF IInv, Shape, None
  <2>3. built[dir][o] # NotBuilt /\ <<o, f>> \notin newer[dir]
    BY DEF IInv, MakeAfterwards, OutOfDate
  <2> QED BY <2>1, <2>2, <2>3 DEF IInv, NewerIsSame
<1> QED BY <1>1, Invariance, PTL

(* With -force every linked object that includes a generated file, the     *)
(* runtime's among them, has been compiled in this run.                    *)
THEOREM ForcedAreRebuilt == Spec => []ForceRebuilds
<1>1. IInv => ForceRebuilds
  BY DEF IInv
<1> QED BY <1>1, Invariance, PTL

-----------------------------------------------------------------------------
IsSequence(s) == \E S : s \in Seq(S)

LEMMA Appended ==
  ASSUME NEW s, IsSequence(s), NEW e
  PROVE  /\ IsSequence(Append(s, e))
         /\ Append(s, e)[Len(Append(s, e))] = e
<1>1. PICK S : s \in Seq(S)
  BY DEF IsSequence
<1>2. s \in Seq(S \cup {e})
  BY <1>1
<1>3. Append(s, e) \in Seq(S \cup {e}) /\ Append(s, e)[Len(Append(s, e))] = e
  BY <1>2
<1> QED BY <1>3 DEF IsSequence

Alarms == {"error", "bare", "fatal", "ld", "stop"}

(* The listener has noticed what make's exit status says, and nothing else *)
(* except with clang; the completion repeats what it has noticed.          *)
Noticed ==
  /\ compiler \in {"GCC", "TCC", "CLANG"}
  /\ received \in Seq(Kinds) /\ IsSequence(completed)
  /\ "failed" \in DOMAIN listener /\ listener.failed \in BOOLEAN
  /\ "stop" \in Received => listener.failed
  /\ listener.failed /\ compiler # "CLANG" => Received \cap Alarms # {}
  /\ phase \in {"options", "execute"} => ~listener.failed /\ received = << >>
  /\ phase \in {"exited", "ended"} => /\ (makeResult # 0) <=> ("stop" \in Received)
                                      /\ Broken => makeResult # 0
  /\ phase = "ended" => completed[Len(completed)].ok = ~listener.failed

LEMMA ErrorAdded ==
  ASSUME NEW l, "failed" \in DOMAIN l, NEW n, NEW kind
  PROVE  "failed" \in DOMAIN AddError(l, n, kind) /\ AddError(l, n, kind).failed = TRUE
<1>1. CASE kind = "caret"
  BY <1>1 DEF AddError
<1>2. CASE kind # "caret"
  BY <1>2 DEF AddError
<1> QED BY <1>1, <1>2

LEMMA MessageNoticed ==
  ASSUME Noticed, NEW kind \in Kinds, errorReceived(kind) \/ messageReceived(kind)
  PROVE  Noticed'
<1>1. /\ phase = "running" /\ phase' = phase /\ compiler' = compiler
      /\ completed' = completed /\ received' = Append(received, kind)
  BY DEF errorReceived, messageReceived, Receive, options
<1>2. received' \in Seq(Kinds) /\ Received' = Received \cup {kind}
  <2>1. /\ received \in Seq(Kinds) /\ received' \in Seq(Kinds)
        /\ Len(received') = Len(received) + 1 /\ received'[Len(received')] = kind
        /\ \A i \in 1..Len(received) : received'[i] = received[i]
    BY <1>1 DEF Noticed
  <2> QED BY <2>1 DEF Received
<1>3. "failed" \in DOMAIN listener /\ listener.failed \in BOOLEAN
  BY DEF Noticed
<1>4. \/ listener' = listener /\ kind # "stop"
      \/ /\ "failed" \in DOMAIN listener' /\ listener'.failed = TRUE
         /\ compiler # "CLANG" => kind \in Alarms
  <2>1. CASE messageReceived(kind)
    BY <1>3, <2>1, ErrorAdded DEF messageReceived, Alarms
  <2>2. CASE errorReceived(kind)
    <3> DEFINE n     == Len(received')
               first == IF kind \in Errors[compiler] THEN AddError(listener, n, kind)
                        ELSE listener
    <3>1. listener' = IF kind \in {"stop", "ld"} THEN AddError(first, n, kind) ELSE first
      BY <2>2 DEF errorReceived
    <3>2. "failed" \in DOMAIN first /\ (kind \in Errors[compiler] => first.failed = TRUE)
      BY <1>3, ErrorAdded
    <3>3. CASE kind \in {"stop", "ld"}
      BY <3>1, <3>2, <3>3, ErrorAdded DEF Alarms
    <3>4. CASE kind \notin {"stop", "ld"} /\ kind \in Errors[compiler]
      <4>1. compiler # "CLANG" => kind \in Alarms
        BY <3>4 DEF Errors, Alarms, Noticed
      <4> QED BY <3>1, <3>2, <3>4, <4>1
    <3>5. CASE kind \notin {"stop", "ld"} /\ kind \notin Errors[compiler]
      BY <3>1, <3>5
    <3> QED BY <3>3, <3>4, <3>5
  <2> QED BY <2>1, <2>2
<1> QED BY <1>1, <1>2, <1>3, <1>4 DEF Noticed

LEMMA ResultNoticed ==
  ASSUME Noticed, NEW result, resultReceived(result)
  PROVE  Noticed'
<1>1. /\ phase' = "exited" /\ compiler' = compiler /\ received' = received
      /\ completed' = completed /\ makeResult' = result
      /\ (result # 0) = ("stop" \in Received) /\ (Broken => result # 0)
  BY DEF resultReceived, options
<1>2. "failed" \in DOMAIN listener' /\ listener'.failed = listener.failed
  BY DEF resultReceived, Noticed
<1>3. Received' = Received /\ (Broken' <=> Broken)
  BY <1>1 DEF Received, Broken
<1> QED BY <1>1, <1>2, <1>3 DEF Noticed

LEMMA CompletionNoticed ==
  ASSUME Noticed, NEW deleted, NEW interrupted \in BOOLEAN,
         commandExecuted(deleted, interrupted)
  PROVE  Noticed'
<1>1. /\ phase = "exited" /\ compiler' = compiler /\ received' = received
      /\ listener' = listener /\ makeResult' = makeResult
  BY DEF commandExecuted, options
<1>2. Received' = Received /\ (Broken' <=> Broken)
  BY <1>1 DEF Received, Broken
<1>3. CASE interrupted
  <2>1. phase' = "interrupted" /\ completed' = completed
    BY <1>3 DEF commandExecuted
  <2> QED BY <1>1, <1>2, <2>1 DEF Noticed
<1>4. CASE ~interrupted
  <2>1. PICK c : c = [ok       |-> ~listener.failed,
                      warnings |-> listener.warnings,
                      errors   |-> listener.errors]
    OBVIOUS
  <2>2. phase' = "ended" /\ completed' = Append(completed, c)
    BY <1>4, <2>1 DEF commandExecuted
  <2>3. IsSequence(completed') /\ completed'[Len(completed')] = c
    BY <2>2, Appended DEF Noticed
  <2>4. c.ok = ~listener.failed
    BY <2>1
  <2> QED BY <1>1, <1>2, <2>2, <2>3, <2>4 DEF Noticed
<1> QED BY <1>3, <1>4

(* Steps that the listener has no part in.                                 *)
LEMMA UnnoticedKept ==
  ASSUME Noticed, received' = received, listener' = listener, makeResult' = makeResult,
         IsSequence(completed'), compiler' \in {"GCC", "TCC", "CLANG"},
         compiler' = compiler \/ phase = "options",
         \/ phase' = phase /\ (completed' = completed \/ phase = "options")
         \/ phase = "options" /\ phase' = "execute"
         \/ phase' \notin {"options", "execute", "exited", "ended"}
  PROVE  Noticed'
<1>1. Received' = Received /\ (Broken' <=> Broken)
  BY DEF Received, Broken
<1>2. phase = "options" => ~listener.failed
  BY DEF Noticed
<1> QED BY <1>1, <1>2 DEF Noticed

LEMMA NoticedInv == Noticed /\ [Next]_vars => Noticed'
<1> SUFFICES ASSUME Noticed, [Next]_vars PROVE Noticed'
  OBVIOUS
<1>1. IsSequence(completed) /\ compiler \in {"GCC", "TCC", "CLANG"}
  BY DEF Noticed
<1>2. \A e : IsSequence(Append(completed, e))
  BY <1>1, Appended
<1>3. CASE UNCHANGED driverVars
  BY <1>1, <1>3, UnnoticedKept DEF driverVars, options
<1>4. ASSUME clearOutput \/ Option \/ compileStarts \/ executeStarts \/ Kill
      PROVE  Noticed'
  <2>1. /\ received' = received /\ listener' = listener /\ makeResult' = makeResult
        /\ completed' = completed \/ (phase = "options" /\ \E e : completed' = Append(completed, e))
        /\ compiler' = compiler
             \/ (phase = "options" /\ compiler' \in {"GCC", "TCC", "CLANG"})
        /\ \/ phase' = phase
           \/ phase = "options" /\ phase' = "execute"
           \/ phase' \notin {"options", "execute", "exited", "ended"}
    <3>1. CASE clearOutput
      BY <3>1 DEF clearOutput, At, options, driverVars
    <3>2. CASE Option
      BY <3>2 DEF Option, checkArgument
    <3>3. CASE compileStarts
      BY <3>3 DEF compileStarts, compile, options
    <3>4. CASE executeStarts
      BY <3>4 DEF executeStarts, execute, options
    <3>5. CASE Kill
      BY <3>5 DEF Kill, options
    <3> QED BY <1>4, <3>1, <3>2, <3>3, <3>4, <3>5
  <2> QED BY <1>1, <1>2, <2>1, UnnoticedKept
<1>5. CASE makeStops \/ Prints
  <2>1. \E kind \in Kinds : errorReceived(kind) \/ messageReceived(kind)
    BY <1>5 DEF makeStops, Prints, Kinds
  <2> QED BY <2>1, MessageNoticed
<1>6. CASE makeEnds
  BY <1>6, ResultNoticed DEF makeEnds
<1>7. CASE commandEnds
  BY <1>7, CompletionNoticed DEF commandEnds
<1>8. CASE Run
  <2>1. /\ received' = << >> /\ completed' = << >> /\ phase' = "options"
        /\ compiler' = "GCC" /\ "failed" \in DOMAIN listener' /\ listener'.failed = FALSE
    BY <1>8 DEF Run
  <2>2. << >> \in Seq(Kinds) /\ IsSequence(<< >>) /\ 1..Len(<< >>) = {}
    BY DEF IsSequence
  <2> QED BY <2>1, <2>2 DEF Noticed, Received
<1>9. UNCHANGED vars => UNCHANGED driverVars
  BY DEF vars
<1>10. CASE Generate \/ make \/ Edit \/ Idle
  <2>1. UNCHANGED driverVars \/ clearOutput
    BY <1>9, <1>10 DEF Generate, insertMainMethod, generateVTableDeclarations, writeForced,
       readPrevious, printOutput, checkModified, make, Compile, Link, Edit, Idle
  <2> QED BY <1>3, <1>4, <2>1
<1> QED BY <1>3, <1>4, <1>5, <1>6, <1>7, <1>8, <1>9, <1>10 DEF Next

(* The completion that follows make repeats make's exit status, though the *)
(* listener only reads messages; with clang it may call success a failure. *)
THEOREM VerdictTrue == Spec => []VerdictIsMakes
<1>1. Init => Noticed
  <2> SUFFICES ASSUME Init PROVE Noticed
    OBVIOUS
  <2>1. /\ received = << >> /\ completed = << >> /\ phase = "options"
        /\ compiler = "GCC" /\ "failed" \in DOMAIN listener /\ listener.failed = FALSE
    BY DEF Init, DriverInit
  <2>2. << >> \in Seq(Kinds) /\ IsSequence(<< >>) /\ 1..Len(<< >>) = {}
    BY DEF IsSequence
  <2> QED BY <2>1, <2>2 DEF Noticed, Received
<1>2. Noticed => VerdictIsMakes
  <2> SUFFICES ASSUME Noticed, phase = "ended"
               PROVE  LET ok == completed[Len(completed)].ok
                      IN  IF compiler = "CLANG" THEN ok => makeResult = 0
                          ELSE ok <=> makeResult = 0
    BY DEF VerdictIsMakes
  <2>1. completed[Len(completed)].ok <=> ~listener.failed
    BY DEF Noticed
  <2>2. ~listener.failed => makeResult = 0
    BY DEF Noticed
  <2>3. makeResult = 0 /\ compiler # "CLANG" => ~listener.failed
    BY DEF Noticed, Broken, Alarms
  <2> QED BY <2>1, <2>2, <2>3
<1> QED BY <1>1, <1>2, NoticedInv, PTL DEF Spec

-----------------------------------------------------------------------------
(***************************************************************************)
(* What is compiled again.  After a run of a directory that went well no   *)
(* file is newer than an object that needs it.  In the run after it a file *)
(* becomes newer when it is written, and then its text is not the one that *)
(* the object was compiled from, or there is an excuse: the virtual tables *)
(* changed, or -force was given, or the directory is empty and the virtual *)
(* tables could not be written, so that nothing compiles.  The output files*)
(* become newer when they are cleared; checkModified sets that back.       *)
(***************************************************************************)
Own(d, o) == built[d][o] # NotBuilt /\ ~Foreign(d, o)

Excuse == forceRecompile \/ text[dir]["VTableDeclarations.h"] = None

(* An object was compiled from whole files, which are still there unless   *)
(* it is the runtime's.                                                    *)
BuiltFromFiles ==
  \A d \in Directory : \A o \in Object : built[d][o] # NotBuilt =>
    \A f \in Needs[o] : /\ built[d][o].texts[f] \notin {None, Partial}
                        /\ o # "Nova" => text[d][f] # None

(* A directory as a run that went well leaves it.                          *)
Settled(d) ==
  /\ \A o \in Object : Own(d, o) => \A f \in Needs[o] : <<o, f>> \notin newer[d]
  /\ text[d]["VTableDeclarations.h"] # None => \A f \in Headers : text[d][f] # None

OthersSettled == \A d \in Directory : d # dir /\ intact[d] => Settled(d)

EndSettled == linked /\ phase = "ended" => Settled(dir)

(* The step at which a file may become newer, and the step after which it  *)
(* is so only if it differs.                                               *)
TouchedAt == [f \in File |-> IF f \in Output THEN 8 ELSE WrittenAt[f]]

CheckedAt ==
  [f \in File |-> CASE f = "NovaOutput.h" -> 10
                    [] f = "NovaOutput.c" -> 11
                    [] OTHER -> 0]

Kept ==
  \A o \in Object : Own(dir, o) => \A f \in Needs[o] :
    /\ step <= TouchedAt[f] => <<o, f>> \notin newer[dir]
    /\ step > CheckedAt[f] /\ <<o, f>> \in newer[dir]
         => Excuse \/ built[dir][o].texts[f] # text[dir][f]

PreviousKept ==
  step > 7 =>
    /\ \A f \in Output : previous[f].newer \subseteq Older({f})
    /\ \A o \in Object : Own(dir, o) => \A f \in Output :
         f \in Needs[o] => /\ <<o, f>> \notin previous[f].newer
                           /\ previous[f].text = None => Excuse

HeadersExcused == \A f \in Headers : text[dir][f] = None => Excuse

NotForcedYet == phase = "options" /\ step <= 3 => ~forceRecompile

KeptThisRun ==
  intact[dir] /\ phase \in Active =>
    /\ HeadersExcused /\ Kept
    /\ phase = "options" => PreviousKept

NeedInv ==
  /\ DOMAIN intact = Directory
  /\ BuiltFromFiles /\ OthersSettled /\ EndSettled /\ NotForcedYet /\ KeptThisRun

-----------------------------------------------------------------------------
LEMMA StepFacts ==
  ASSUME NEW f \in File
  PROVE  /\ f \in Output => TouchedAt[f] = 8 /\ CheckedAt[f] \in {10, 11}
         /\ f \notin Output => /\ TouchedAt[f] = WrittenAt[f] /\ WrittenAt[f] \in 1..6
                               /\ CheckedAt[f] = 0
         /\ CheckedAt["NovaOutput.h"] = 10 /\ CheckedAt["NovaOutput.c"] = 11
BY DEF TouchedAt, CheckedAt, WrittenAt, File, Output

LEMMA HeaderFacts ==
  /\ Headers \subseteq File /\ "VTableDeclarations.h" \in Headers
  /\ Needs["Nova"] = Headers /\ "Nova" \in Object /\ Headers \subseteq Needs["VTable"]
  /\ "VTable" \in Object /\ "VTable" # "Nova" /\ "VTableDeclarations.h" \notin Output
BY DEF Headers, File, Needs, Object, ExtraObj, NovaObj, Output

(* What a step of the generator keeps, whatever it stores.                 *)
LEMMA GeneratorNeeds ==
  ASSUME IInv, NeedInv, Generating, NEW F, NEW new, Stored(F, new),
         \A f \in F : f \in File => new[f] # None
  PROVE  /\ DOMAIN intact' = Directory
         /\ BuiltFromFiles' /\ OthersSettled' /\ EndSettled'
<1>1. /\ built' = built /\ dir' = dir /\ intact' = intact /\ linked' = linked
      /\ phase = "options" /\ phase' = "options"
  BY DEF Generating, objects, world
<1>2. DOMAIN intact' = Directory
  BY <1>1 DEF NeedInv
<1>3. BuiltFromFiles'
  <2>1. SUFFICES ASSUME NEW d \in Directory, NEW o \in Object, built[d][o] # NotBuilt,
                        NEW f \in Needs[o]
                 PROVE  /\ built[d][o].texts[f] \notin {None, Partial}
                        /\ o # "Nova" => text'[d][f] # None
    BY <1>1 DEF BuiltFromFiles
  <2>2. f \in File
    BY ObjectFacts
  <2>3. text'[d][f] = IF d = dir /\ f \in F THEN new[f] ELSE text[d][f]
    BY <2>2 DEF Stored
  <2> QED
    BY <2>1, <2>2, <2>3 DEF NeedInv, BuiltFromFiles
<1>4. OthersSettled'
  <2>1. SUFFICES ASSUME NEW d \in Directory, d # dir, intact[d]
                 PROVE  Settled(d)'
    BY <1>1 DEF OthersSettled
  <2>2. Settled(d)
    BY <2>1 DEF NeedInv, OthersSettled
  <2>3. \A f \in File : text'[d][f] = text[d][f]
    BY <2>1 DEF Stored
  <2>4. \A o \in Object : \A f \in Needs[o] : <<o, f>> \in newer'[d] <=> <<o, f>> \in newer[d]
    BY <2>1 DEF Stored
  <2> QED
    BY <1>1, <2>2, <2>3, <2>4, HeaderFacts DEF Settled, Own, Foreign
<1>5. EndSettled'
  BY <1>1 DEF EndSettled
<1> QED
  BY <1>2, <1>3, <1>4, <1>5

(* A file that was not touched yet, or is there as it was when an object   *)
(* was compiled from it.                                                   *)
LEMMA UntouchedText ==
  ASSUME IInv, NeedInv, intact[dir], phase = "options",
         NEW o \in Object, Own(dir, o), NEW f \in Needs[o], step <= TouchedAt[f]
  PROVE  /\ <<o, f>> \notin newer[dir]
         /\ text[dir][f] = None => Excuse
         /\ text[dir][f] # None => built[dir][o].texts[f] = text[dir][f]
<1>1. dir \in Directory /\ phase \in Active
  BY DEF IInv, Shape, Active
<1>2. <<o, f>> \notin newer[dir]
  BY <1>1 DEF NeedInv, KeptThisRun, Kept
<1>3. built[dir][o] # NotBuilt /\ ~Foreign(dir, o)
  BY DEF Own
<1>4. text[dir][f] = None => Excuse
  <2>1. CASE o = "Nova"
    BY <1>1, <2>1, HeaderFacts DEF NeedInv, KeptThisRun, HeadersExcused
  <2>2. CASE o # "Nova"
    BY <1>1, <1>3, <2>2 DEF NeedInv, BuiltFromFiles
  <2> QED
    BY <2>1, <2>2
<1>5. text[dir][f] # None => built[dir][o].texts[f] = text[dir][f]
  BY <1>1, <1>2, <1>3 DEF IInv, NewerIsSame
<1> QED
  BY <1>2, <1>4, <1>5

(* One of the first six files is written, or is not.                       *)
LEMMA WriteKeeps ==
  ASSUME IInv, NeedInv, Generating, NEW f \in File, f \notin Output,
         step = WrittenAt[f], step' = step + 1,
         NEW F \in SUBSET {f}, Stored(F, program[dir]),
         f \in F => Differs(f) \/ Excuse', Excuse => Excuse'
  PROVE  KeptThisRun'
<1>1. /\ built' = built /\ dir' = dir /\ intact' = intact
      /\ phase = "options" /\ phase' = "options" /\ phase \in Active /\ dir \in Directory
  BY DEF Generating, objects, world, Active, IInv, Shape
<1>2. step \in 1..6 /\ step' \in 2..7 /\ TouchedAt[f] = step
  BY StepFacts
<1>3. SUFFICES ASSUME intact[dir] PROVE HeadersExcused' /\ Kept' /\ PreviousKept'
  BY <1>1 DEF KeptThisRun
<1>4. \A g \in File : text'[dir][g] = IF g \in F THEN program[dir][g] ELSE text[dir][g]
  BY <1>1 DEF Stored
<1>5. \A g \in File : program[dir][g] # None
  BY <1>1 DEF IInv, Shape, None
<1>6. HeadersExcused'
  <2>1. SUFFICES ASSUME NEW g \in Headers, text'[dir][g] = None PROVE Excuse'
    BY <1>1 DEF HeadersExcused
  <2>2. text[dir][g] = None
    BY <1>4, <1>5, <2>1, HeaderFacts
  <2>3. Excuse
    BY <1>1, <1>3, <2>2 DEF NeedInv, KeptThisRun, HeadersExcused
  <2> QED
    BY <2>3
<1>7. PreviousKept'
  BY <1>2 DEF PreviousKept
<1>8. ASSUME NEW o \in Object, Own(dir, o), NEW g \in Needs[o]
      PROVE  /\ step' <= TouchedAt[g] => <<o, g>> \notin newer'[dir]
             /\ step' > CheckedAt[g] /\ <<o, g>> \in newer'[dir]
                  => Excuse' \/ built[dir][o].texts[g] # text'[dir][g]
  <2>1. g \in File
    BY ObjectFacts
  <2>2. <<o, g>> \in newer'[dir] <=> <<o, g>> \in newer[dir] \/ g \in F
    BY <1>1 DEF Stored
  <2>3. CASE g \notin F
    <3>1. step' <= TouchedAt[g] => step <= TouchedAt[g]
      BY <1>2, <2>1, StepFacts
    <3>2. step' > CheckedAt[g] => step > CheckedAt[g]
      BY <1>2, <2>1, StepFacts
    <3> QED
      BY <1>1, <1>3, <1>4, <1>8, <2>1, <2>2, <2>3, <3>1, <3>2
         DEF NeedInv, KeptThisRun, Kept
  <2>4. CASE g \in F
    <3>1. g = f /\ ~(step' <= TouchedAt[g]) /\ step <= TouchedAt[g]
      BY <1>2, <2>4
    <3>2. CASE Excuse'
      BY <3>1, <3>2
    <3>3. CASE ~Excuse'
      <4>1. text[dir][g] # None /\ built[dir][o].texts[g] = text[dir][g]
        BY <1>1, <1>3, <1>8, <3>1, <3>3, UntouchedText
      <4>2. text'[dir][g] # text[dir][g]
        BY <1>4, <2>1, <2>4, <3>1, <3>3 DEF Differs
      <4> QED
        BY <3>1, <4>1, <4>2
    <3> QED
      BY <3>2, <3>3
  <2> QED
    BY <2>3, <2>4
<1>9. Kept'
  BY <1>1, <1>8 DEF Kept, Own, Foreign
<1> QED
  BY <1>6, <1>7, <1>9

LEMMA WritesIfDifferent ==
  ASSUME Shape, NEW f \in File, NEW force \in BOOLEAN, writeIfDifferent(f, force)
  PROVE  \E F \in SUBSET {f} : Stored(F, program[dir]) /\ (f \in F <=> Differs(f) \/ force)
<1>1. CASE Differs(f) \/ force
  <2>1. Stored({f}, program[dir])
    BY <1>1, PutStores DEF writeIfDifferent
  <2> QED
    BY <1>1, <2>1
<1>2. CASE ~(Differs(f) \/ force)
  <2>1. Stored({}, program[dir])
    BY <1>2, KeepsStores DEF writeIfDifferent
  <2> QED
    BY <1>2, <2>1
<1> QED
  BY <1>1, <1>2

-----------------------------------------------------------------------------
LEMMA ProgramTexts ==
  ASSUME Shape
  PROVE  \A g \in File : program[dir][g] # None
BY DEF Shape, None

(* The excuse is not taken back in a step that leaves forceRecompile.      *)
LEMMA MainMethodNeeds == IInv /\ NeedInv /\ insertMainMethod => NeedInv'
<1> SUFFICES ASSUME IInv, NeedInv, NEW f \in {"MainFunction.h", "MainFunction.c"}, At(f),
                    writeIfDifferent(f, FALSE), Done(TRUE),
                    UNCHANGED <<driverVars, forceRecompile, previous>>
             PROVE  NeedInv'
  BY DEF insertMainMethod
<1>1. Shape /\ step \in 1..12 /\ f \in File /\ f \notin Output /\ dir \in Directory
  BY DEF IInv, Shape, File, Output
<1>2. phase = "options" /\ step \in {1, 2} /\ step = WrittenAt[f]
  <2>1. f = "MainFunction.h" => step = 1
    BY <1>1, OrderFacts
  <2>2. f = "MainFunction.c" => step = 2
    BY <1>1, OrderFacts
  <2> QED
    BY <1>1, <2>1, <2>2, OrderFacts DEF WrittenAt, File
<1>3. Generating /\ step' = step + 1
  <2>1. phase' = phase /\ flags' = flags /\ step \in 1..11
    BY <1>2 DEF driverVars, options
  <2> QED BY <1>1, <1>2, <2>1, DoneGenerates DEF Done
<1>4. PICK F \in SUBSET {f} : Stored(F, program[dir]) /\ (f \in F => Differs(f))
  BY <1>1, WritesIfDifferent
<1>5. Excuse => Excuse'
  <2>1. text'[dir]["VTableDeclarations.h"] = text[dir]["VTableDeclarations.h"]
    BY <1>1, <1>4, HeaderFacts DEF Stored
  <2>2. dir' = dir /\ forceRecompile' = forceRecompile
    BY DEF Done, world
  <2> QED
    BY <2>1, <2>2 DEF Excuse
<1>6. KeptThisRun'
  BY <1>1, <1>2, <1>3, <1>4, <1>5, WriteKeeps
<1>7. \A g \in F : g \in File => program[dir][g] # None
  BY <1>1, ProgramTexts
<1>8. NotForcedYet'
  BY <1>2, <1>3 DEF NeedInv, NotForcedYet
<1> QED
  BY <1>3, <1>4, <1>6, <1>7, <1>8, GeneratorNeeds DEF NeedInv

(* A change of the virtual tables, and their first appearance, force the   *)
(* rest.                                                                   *)
LEMMA VTableNeeds == IInv /\ NeedInv /\ generateVTableDeclarations => NeedInv'
<1> SUFFICES ASSUME IInv, NeedInv,
                    NEW f \in {"VTableDeclarations.c", "VTableDeclarations.h"}, At(f),
                    \/ /\ writeIfDifferent(f, Forcing(f))
                       /\ forceRecompile' = (Forcing(f) \/ Differs(f))
                       /\ Done(TRUE)
                    \/ /\ forceRecompile' = Forcing(f)
                       /\ Done(FALSE) /\ UNCHANGED files,
                    UNCHANGED <<driverVars, previous>>
             PROVE  NeedInv'
  BY DEF generateVTableDeclarations
<1>1. Shape /\ step \in 1..12 /\ f \in File /\ f \notin Output /\ dir \in Directory
  BY DEF IInv, Shape, File, Output
<1>2. phase = "options" /\ step \in {3, 4} /\ step = WrittenAt[f]
      /\ (f = "VTableDeclarations.c" => step = 3)
  <2>1. f = "VTableDeclarations.c" => step = 3
    BY <1>1, OrderFacts
  <2>2. f = "VTableDeclarations.h" => step = 4
    BY <1>1, OrderFacts
  <2> QED
    BY <1>1, <2>1, <2>2, OrderFacts DEF WrittenAt, File
<1>3. Generating /\ step' = step + 1
  <2>1. phase' = phase /\ flags' = flags /\ step \in 1..11
    BY <1>2 DEF driverVars, options
  <2> QED BY <1>1, <1>2, <2>1, DoneGenerates DEF Done
<1>4. dir' = dir
  BY <1>3 DEF Generating, world
<1>5. PICK F \in SUBSET {f} :
         Stored(F, program[dir]) /\ (f \in F => Differs(f) \/ Excuse')
         /\ ("VTableDeclarations.h" \in F => Excuse')
  <2>1. CASE writeIfDifferent(f, Forcing(f)) /\ forceRecompile' = (Forcing(f) \/ Differs(f))
    <3>1. Forcing(f) \in BOOLEAN
      BY DEF Forcing
    <3>2. PICK F \in SUBSET {f} : Stored(F, program[dir]) /\ (f \in F <=> Differs(f) \/ Forcing(f))
      BY <1>1, <2>1, <3>1, WritesIfDifferent
    <3>3. Forcing(f) \/ Differs(f) => forceRecompile'
      BY <2>1, Zenon
    <3>4. f \in F => Excuse'
      BY <3>2, <3>3 DEF Excuse
    <3> QED
      BY <3>2, <3>4
  <2>2. CASE UNCHANGED files
    <3>1. Stored({}, program[dir])
      BY <1>1, <2>2, KeepsStores
    <3> QED
      BY <3>1
  <2> QED
    BY <2>1, <2>2
<1>6. Excuse => Excuse'
  <2>1. CASE text[dir]["VTableDeclarations.h"] = None
    <3>1. CASE "VTableDeclarations.h" \in F
      BY <1>5, <3>1
    <3>2. CASE "VTableDeclarations.h" \notin F
      <4>1. text'[dir]["VTableDeclarations.h"] = None
        BY <1>1, <1>5, <2>1, <3>2, HeaderFacts DEF Stored
      <4> QED
        BY <1>4, <4>1 DEF Excuse
    <3> QED
      BY <3>1, <3>2
  <2>2. CASE forceRecompile
    <3>1. f = "VTableDeclarations.h"
      BY <1>2, <2>2 DEF NeedInv, NotForcedYet
    <3>2. Forcing(f)
      BY <2>2, <3>1 DEF Forcing
    <3>3. forceRecompile'
      BY <3>2, Zenon
    <3> QED
      BY <3>3 DEF Excuse
  <2> QED
    BY <2>1, <2>2 DEF Excuse
<1>7. KeptThisRun'
  BY <1>1, <1>2, <1>3, <1>5, <1>6, WriteKeeps
<1>8. \A g \in F : g \in File => program[dir][g] # None
  BY <1>1, ProgramTexts
<1>9. NotForcedYet'
  BY <1>2, <1>3 DEF NotForcedYet
<1> QED
  BY <1>3, <1>5, <1>7, <1>8, <1>9, GeneratorNeeds DEF NeedInv

LEMMA ForcedNeeds == IInv /\ NeedInv /\ writeForced => NeedInv'
<1> SUFFICES ASSUME IInv, NeedInv, NEW f \in {"InterfaceVTable.h", "makefile"}, At(f),
                    \/ writeIfDifferent(f, forceRecompile) /\ Done(TRUE)
                    \/ Done(FALSE) /\ UNCHANGED files,
                    UNCHANGED <<driverVars, forceRecompile, previous>>
             PROVE  NeedInv'
  BY DEF writeForced
<1>1. Shape /\ step \in 1..12 /\ f \in File /\ f \notin Output /\ dir \in Directory
  BY DEF IInv, Shape, File, Output
<1>2. phase = "options" /\ step \in {5, 6} /\ step = WrittenAt[f]
  <2>1. f = "InterfaceVTable.h" => step = 5
    BY <1>1, OrderFacts
  <2>2. f = "makefile" => step = 6
    BY <1>1, OrderFacts
  <2> QED
    BY <1>1, <2>1, <2>2, OrderFacts DEF WrittenAt, File
<1>3. Generating /\ step' = step + 1
  <2>1. phase' = phase /\ flags' = flags /\ step \in 1..11
    BY <1>2 DEF driverVars, options
  <2> QED BY <1>1, <1>2, <2>1, DoneGenerates DEF Done
<1>4. dir' = dir /\ forceRecompile' = forceRecompile
  BY <1>3 DEF Generating, world
<1>5. PICK F \in SUBSET {f} :
         Stored(F, program[dir]) /\ (f \in F => Differs(f) \/ forceRecompile)
  <2>1. CASE writeIfDifferent(f, forceRecompile)
    <3>1. \/ writeIfDifferent(f, TRUE) /\ forceRecompile
          \/ writeIfDifferent(f, FALSE)
      BY <2>1 DEF writeIfDifferent
    <3> QED
      BY <1>1, <3>1, WritesIfDifferent
  <2>2. CASE UNCHANGED files
    <3>1. Stored({}, program[dir])
      BY <1>1, <2>2, KeepsStores
    <3> QED
      BY <3>1
  <2> QED
    BY <2>1, <2>2
<1>6. Excuse => Excuse'
  <2>1. text'[dir]["VTableDeclarations.h"] = text[dir]["VTableDeclarations.h"]
    BY <1>1, <1>5, HeaderFacts DEF Stored
  <2> QED
    BY <1>4, <2>1 DEF Excuse
<1>7. f \in F => Differs(f) \/ Excuse'
  BY <1>4, <1>5 DEF Excuse
<1>8. KeptThisRun'
  BY <1>1, <1>2, <1>3, <1>5, <1>6, <1>7, WriteKeeps
<1>9. \A g \in F : g \in File => program[dir][g] # None
  BY <1>1, ProgramTexts
<1>10. NotForcedYet'
  BY <1>2, <1>3 DEF NotForcedYet
<1> QED
  BY <1>3, <1>5, <1>8, <1>9, <1>10, GeneratorNeeds DEF NeedInv

-----------------------------------------------------------------------------
(* A step on the output files that stores F: what Kept says of the others  *)
(* stays as it is.                                                         *)
LEMMA OutputKeeps ==
  ASSUME IInv, NeedInv, Generating, intact[dir], step \in 7..9, step' > step,
         NEW F \in SUBSET Output, NEW new, Stored(F, new), Excuse => Excuse',
         \A f \in F : new[f] # None,
         \A o \in Object : Own(dir, o) => \A f \in Output :
           f \in Needs[o] =>
             /\ step' <= 8 => <<o, f>> \notin newer'[dir]
             /\ step' > CheckedAt[f] /\ <<o, f>> \in newer'[dir]
                  => Excuse' \/ built[dir][o].texts[f] # text'[dir][f]
  PROVE  HeadersExcused' /\ Kept'
<1>1. /\ built' = built /\ dir' = dir /\ intact' = intact
      /\ phase = "options" /\ phase' = "options" /\ phase \in Active /\ dir \in Directory
      /\ step' \in 1..12
  BY DEF Generating, objects, world, Active, IInv, Shape
<1>2. HeadersExcused'
  <2>1. SUFFICES ASSUME NEW g \in Headers, text'[dir][g] = None PROVE Excuse'
    BY <1>1 DEF HeadersExcused
  <2>2. text[dir][g] = None
    BY <1>1, <2>1, HeaderFacts DEF Stored
  <2>3. Excuse
    BY <1>1, <2>2 DEF NeedInv, KeptThisRun, HeadersExcused
  <2> QED
    BY <2>3
<1>3. ASSUME NEW o \in Object, Own(dir, o), NEW g \in Needs[o]
      PROVE  /\ step' <= TouchedAt[g] => <<o, g>> \notin newer'[dir]
             /\ step' > CheckedAt[g] /\ <<o, g>> \in newer'[dir]
                  => Excuse' \/ built[dir][o].texts[g] # text'[dir][g]
  <2>1. g \in File
    BY ObjectFacts
  <2>2. CASE g \in Output
    BY <1>3, <2>1, <2>2, StepFacts
  <2>3. CASE g \notin Output
    <3>1. text'[dir][g] = text[dir][g] /\ (<<o, g>> \in newer'[dir] <=> <<o, g>> \in newer[dir])
      BY <1>1, <2>1, <2>3 DEF Stored
    <3>2. ~(step' <= TouchedAt[g]) /\ step > CheckedAt[g]
      BY <1>1, <2>1, <2>3, StepFacts
    <3>3. <<o, g>> \in newer[dir] => Excuse \/ built[dir][o].texts[g] # text[dir][g]
      BY <1>1, <1>3, <3>2 DEF NeedInv, KeptThisRun, Kept
    <3> QED
      BY <3>1, <3>2, <3>3
  <2> QED
    BY <2>2, <2>3
<1>4. Kept'
  BY <1>1, <1>3 DEF Kept, Own, Foreign
<1> QED
  BY <1>2, <1>4

LEMMA SameExcuse ==
  ASSUME Generating, IInv, NEW F \in SUBSET Output, NEW new, Stored(F, new),
         forceRecompile' = forceRecompile
  PROVE  Excuse => Excuse'
<1>1. dir' = dir /\ dir \in Directory
  BY DEF Generating, world, IInv, Shape
<1>2. text'[dir]["VTableDeclarations.h"] = text[dir]["VTableDeclarations.h"]
  BY <1>1, HeaderFacts DEF Stored
<1> QED
  BY <1>1, <1>2 DEF Excuse

LEMMA ReadNeeds == IInv /\ NeedInv /\ readPrevious => NeedInv'
<1> SUFFICES ASSUME IInv, NeedInv, readPrevious PROVE NeedInv'
  OBVIOUS
<1>1. Shape /\ step \in 1..12 /\ dir \in Directory
  BY DEF IInv, Shape
<1>2. step = 7 /\ phase = "options" /\ step' = 8
  BY <1>1, OrderFacts DEF readPrevious, Done
<1>3. Generating
  <2>1. phase' = phase /\ flags' = flags /\ step \in 1..11
    BY <1>2 DEF readPrevious, driverVars, options
  <2> QED BY <1>1, <1>2, <2>1, DoneGenerates DEF readPrevious
<1>4. Stored({}, program[dir])
  BY <1>1, KeepsStores DEF readPrevious
<1>5. Excuse => Excuse'
  BY <1>3, <1>4, SameExcuse DEF readPrevious
<1>6. built' = built /\ dir' = dir /\ intact' = intact
  BY <1>3 DEF Generating, objects, world
<1>7. ASSUME intact[dir], NEW o \in Object, Own(dir, o), NEW f \in Output, f \in Needs[o]
      PROVE  <<o, f>> \notin newer[dir] /\ (text[dir][f] = None => Excuse)
  <2>1. f \in File /\ step <= TouchedAt[f]
    BY <1>2, <1>7, ObjectFacts, StepFacts
  <2> QED
    BY <1>2, <1>7, <2>1, UntouchedText
<1>8. KeptThisRun'
  <2>1. SUFFICES ASSUME intact[dir] PROVE HeadersExcused' /\ Kept' /\ PreviousKept'
    BY <1>6 DEF KeptThisRun
  <2>2. ASSUME NEW o \in Object, Own(dir, o), NEW f \in Output, f \in Needs[o]
        PROVE  <<o, f>> \notin newer'[dir]
    BY <1>1, <1>4, <1>7, <2>1, <2>2 DEF Stored
  <2>3. HeadersExcused' /\ Kept'
    BY <1>2, <1>3, <1>4, <1>5, <2>1, <2>2, OutputKeeps
  <2>4. ASSUME NEW o \in Object, Own(dir, o), NEW f \in Output, f \in Needs[o]
        PROVE  /\ <<o, f>> \notin previous'[f].newer
               /\ previous'[f].text = None => Excuse'
    <3>1. previous'[f] = [text |-> text[dir][f], newer |-> newer[dir] \cap Older({f})]
      BY DEF readPrevious
    <3> QED
      BY <1>5, <1>7, <2>1, <2>4, <3>1
  <2>5. \A f \in Output : previous'[f].newer \subseteq Older({f})
    BY DEF readPrevious
  <2>6. PreviousKept'
    BY <1>6, <2>4, <2>5 DEF PreviousKept, Own, Foreign
  <2> QED
    BY <2>3, <2>6
<1>9. NotForcedYet'
  BY <1>2 DEF NotForcedYet
<1> QED
  BY <1>3, <1>4, <1>8, <1>9, GeneratorNeeds DEF NeedInv

(* The rest of the steps of the generator keep what was read.              *)
LEMMA PreviousStays ==
  ASSUME IInv, NeedInv, Generating, intact[dir], step > 7, previous' = previous,
         Excuse => Excuse'
  PROVE  PreviousKept'
<1>1. /\ built' = built /\ dir' = dir /\ phase = "options" /\ phase \in Active
  BY DEF Generating, objects, world, Active
<1>2. PreviousKept
  BY <1>1 DEF NeedInv, KeptThisRun
<1> QED
  BY <1>1, <1>2 DEF PreviousKept, Own, Foreign

LEMMA ClearNeeds == IInv /\ NeedInv /\ clearOutput => NeedInv'
<1> SUFFICES ASSUME IInv, NeedInv, clearOutput PROVE NeedInv'
  OBVIOUS
<1>1. Shape /\ step \in 1..12 /\ dir \in Directory /\ Len(Order) + 1 = 12
  <2>1. Shape /\ step \in 1..12 /\ dir \in Directory
    BY DEF IInv, Shape
  <2>2. Len(Order) = 11
    BY <2>1, OrderFacts
  <2> QED BY <2>1, <2>2
<1>2. step = 8 /\ phase = "options" /\ phase' = phase /\ flags' = flags
      /\ previous' = previous /\ forceRecompile' = forceRecompile
  BY <1>1, OrderFacts DEF clearOutput, options
<1>3. PICK F, new :
         /\ F \in SUBSET Output /\ Stored(F, new) /\ \A f \in F : new[f] = Partial
         /\ \/ Done(TRUE) /\ F = Output
            \/ step' = 12 /\ writeFailed' /\ UNCHANGED <<objects, world>>
  <2>1. CASE Put(Output, [f \in Output |-> Partial]) /\ Done(TRUE)
    <3>1. PICK new : new = [f \in Output |-> Partial]
      OBVIOUS
    <3>2. Stored(Output, new) /\ \A f \in Output : new[f] = Partial
      BY <1>1, <2>1, <3>1, PutStores
    <3> QED
      BY <2>1, <3>2
  <2>2. CASE /\ \E F \in {{}, {"NovaOutput.h"}} : Put(F, [f \in F |-> Partial])
             /\ writeFailed' = TRUE /\ step' = 12 /\ UNCHANGED <<objects, world>>
    <3>1. PICK F \in {{}, {"NovaOutput.h"}} : Put(F, [f \in F |-> Partial])
      BY <2>2
    <3>2. PICK new : new = [f \in F |-> Partial]
      OBVIOUS
    <3>3. F \in SUBSET Output /\ Stored(F, new) /\ \A f \in F : new[f] = Partial
      BY <1>1, <3>1, <3>2, PutStores DEF Output
    <3>4. step' = 12 /\ writeFailed' /\ UNCHANGED <<objects, world>>
      BY <2>2
    <3> QED
      BY <3>3, <3>4
  <2> QED BY <1>1, <2>1, <2>2 DEF clearOutput
<1>4. Generating /\ (F = Output \/ step' = 12) /\ step' > 8
  <2>1. CASE Done(TRUE) /\ F = Output
    BY <1>1, <1>2, <2>1, DoneGenerates DEF Done
  <2>2. CASE step' = 12 /\ writeFailed' /\ UNCHANGED <<objects, world>>
    BY <1>2, <2>2 DEF Generating
  <2> QED BY <1>3, <2>1, <2>2
<1>5. Excuse => Excuse'
  BY <1>2, <1>3, <1>4, SameExcuse
<1>6. built' = built /\ dir' = dir /\ intact' = intact
  BY <1>4 DEF Generating, objects, world
<1>7. KeptThisRun'
  <2>1. SUFFICES ASSUME intact[dir] PROVE HeadersExcused' /\ Kept' /\ PreviousKept'
    BY <1>6 DEF KeptThisRun
  <2>2. ASSUME NEW o \in Object, Own(dir, o), NEW f \in Output, f \in Needs[o],
               <<o, f>> \in newer'[dir]
        PROVE  built[dir][o].texts[f] # text'[dir][f]
    <3>1. f \in File /\ step <= TouchedAt[f]
      BY <1>2, <2>2, ObjectFacts, StepFacts
    <3>2. <<o, f>> \notin newer[dir]
      BY <1>2, <2>1, <2>2, <3>1, UntouchedText
    <3>3. f \in F
      BY <1>1, <1>3, <2>2, <3>2 DEF Stored
    <3>4. text'[dir][f] = Partial
      BY <1>1, <1>3, <3>1, <3>3 DEF Stored
    <3> QED
      BY <1>1, <2>2, <3>4 DEF NeedInv, BuiltFromFiles, Own
  <2>3. HeadersExcused' /\ Kept'
    <3>1. \A f \in F : new[f] # None
      BY <1>3 DEF None, Partial
    <3>2. ~(step' <= 8) /\ step \in 7..9 /\ step' > step
      BY <1>2, <1>4 DEF Generating
    <3> QED
      BY <1>3, <1>4, <1>5, <2>1, <2>2, <3>1, <3>2, OutputKeeps
  <2>4. PreviousKept'
    BY <1>2, <1>4, <1>5, <2>1, PreviousStays
  <2> QED
    BY <2>3, <2>4
<1>8. NotForcedYet'
  BY <1>4 DEF NotForcedYet, Generating
<1>9. \A f \in F : f \in File => new[f] # None
  BY <1>3 DEF None, Partial
<1> QED
  BY <1>3, <1>4, <1>7, <1>8, <1>9, GeneratorNeeds DEF NeedInv

LEMMA PrintNeeds == IInv /\ NeedInv /\ printOutput => NeedInv'
<1> SUFFICES ASSUME IInv, NeedInv, printOutput PROVE NeedInv'
  OBVIOUS
<1>1. Shape /\ step \in 1..12 /\ dir \in Directory
  BY DEF IInv, Shape
<1>2. step = 9 /\ phase = "options" /\ step' = 10
      /\ previous' = previous /\ forceRecompile' = forceRecompile
  BY <1>1, OrderFacts DEF printOutput, Done
<1>3. Generating
  <2>1. phase' = phase /\ flags' = flags /\ step \in 1..11
    BY <1>2 DEF printOutput, driverVars, options
  <2> QED BY <1>1, <1>2, <2>1, DoneGenerates DEF printOutput
<1>4. PICK F \in SUBSET Output : Stored(F, program[dir])
  <2>1. CASE Put(Output, program[dir])
    BY <1>1, <2>1, PutStores
  <2>2. CASE UNCHANGED files
    BY <1>1, <2>2, KeepsStores
  <2> QED BY <2>1, <2>2 DEF printOutput
<1>5. Excuse => Excuse'
  BY <1>2, <1>3, <1>4, SameExcuse
<1>6. dir' = dir /\ intact' = intact
  BY <1>3 DEF Generating, world
<1>7. \A f \in File : program[dir][f] # None
  BY <1>1, ProgramTexts
<1>8. \A f \in F : f \in File /\ program[dir][f] # None
  BY <1>7 DEF Output, File
<1>9. KeptThisRun'
  <2>1. SUFFICES ASSUME intact[dir] PROVE HeadersExcused' /\ Kept' /\ PreviousKept'
    BY <1>6 DEF KeptThisRun
  <2>2. \A f \in Output : ~(step' > CheckedAt[f]) /\ ~(step' <= 8)
    BY <1>2, StepFacts DEF Output, File
  <2>3. HeadersExcused' /\ Kept'
    BY <1>2, <1>3, <1>4, <1>5, <1>8, <2>1, <2>2, OutputKeeps
  <2>4. PreviousKept'
    BY <1>2, <1>3, <1>5, <2>1, PreviousStays
  <2> QED
    BY <2>3, <2>4
<1>10. NotForcedYet'
  BY <1>2 DEF NotForcedYet
<1> QED
  BY <1>3, <1>4, <1>8, <1>9, <1>10, GeneratorNeeds DEF NeedInv

(* The file that is checked is older than the objects again, or differs    *)
(* from what it was and so from what they were compiled from.              *)
LEMMA CheckNeeds == IInv /\ NeedInv /\ checkModified => NeedInv'
<1> SUFFICES ASSUME IInv, NeedInv, NEW f \in Output,
                    At(IF f = "NovaOutput.h" THEN "checkHeader" ELSE "checkSource"),
                    newer' = IF Unmodified(f)
                      THEN [newer EXCEPT ![dir] = (@ \ Older({f})) \cup previous[f].newer]
                      ELSE newer,
                    Done(TRUE), UNCHANGED <<driverVars, text, forceRecompile, previous>>
             PROVE  NeedInv'
  BY DEF checkModified
<1>1. Shape /\ step \in 1..12 /\ dir \in Directory /\ f \in File
  BY DEF IInv, Shape, Output, File
<1>2. /\ step \in {10, 11} /\ phase = "options" /\ phase' = "options" /\ step' = step + 1
      /\ (f = "NovaOutput.h" <=> step = 10) /\ phase \in Active
  <2>1. f = "NovaOutput.h" => step = 10
    BY <1>1, OrderFacts
  <2>2. f = "NovaOutput.c" => step = 11
    BY <1>1, OrderFacts
  <2> QED
    BY <1>1, <2>1, <2>2, OrderFacts DEF Done, driverVars, Output, Active
<1>3. /\ built' = built /\ dir' = dir /\ intact' = intact /\ linked' = linked
      /\ text' = text /\ forceRecompile' = forceRecompile /\ previous' = previous
  BY DEF Done, objects, world
<1>4. /\ \A d \in Directory : d # dir => newer'[d] = newer[d]
      /\ newer'[dir] = IF Unmodified(f) THEN (newer[dir] \ Older({f})) \cup previous[f].newer
                       ELSE newer[dir]
  BY <1>1 DEF Shape
<1>5. Excuse' <=> Excuse
  BY <1>3 DEF Excuse
<1>6. BuiltFromFiles' /\ EndSettled' /\ NotForcedYet' /\ DOMAIN intact' = Directory
  BY <1>2, <1>3 DEF NeedInv, BuiltFromFiles, EndSettled, NotForcedYet
<1>7. OthersSettled'
  BY <1>3, <1>4 DEF NeedInv, OthersSettled, Settled, Own, Foreign
<1>8. KeptThisRun'
  <2>1. SUFFICES ASSUME intact[dir] PROVE HeadersExcused' /\ Kept' /\ PreviousKept'
    BY <1>3 DEF KeptThisRun
  <2>2. HeadersExcused /\ Kept /\ PreviousKept
    BY <1>2, <2>1 DEF NeedInv, KeptThisRun
  <2>3. HeadersExcused' /\ PreviousKept'
    BY <1>2, <1>3, <1>5, <2>2 DEF HeadersExcused, PreviousKept, Own, Foreign
  <2>4. ASSUME NEW o \in Object, Own(dir, o), NEW g \in Needs[o]
        PROVE  /\ step' <= TouchedAt[g] => <<o, g>> \notin newer'[dir]
               /\ step' > CheckedAt[g] /\ <<o, g>> \in newer'[dir]
                    => Excuse \/ built[dir][o].texts[g] # text[dir][g]
    <3>1. g \in File
      BY ObjectFacts
    <3>2. ~(step' <= TouchedAt[g])
      BY <1>2, <3>1, StepFacts
    <3>3. ASSUME step' > CheckedAt[g], <<o, g>> \in newer'[dir]
          PROVE  Excuse \/ built[dir][o].texts[g] # text[dir][g]
      <4>1. CASE g = f /\ Unmodified(f)
        <5>1. <<o, f>> \notin previous[f].newer
          BY <1>2, <2>2, <2>4, <4>1 DEF PreviousKept
        <5>2. <<o, f>> \in Older({f})
          BY <2>4, <4>1, OlderPairs
        <5>3. newer'[dir] = (newer[dir] \ Older({f})) \cup previous[f].newer
          BY <1>4, <4>1
        <5>4. <<o, f>> \notin newer'[dir]
          BY <5>1, <5>2, <5>3
        <5>5. <<o, f>> \in newer'[dir]
          BY <3>3, <4>1
        <5> QED
          BY <5>4, <5>5
      <4>2. CASE g = f /\ ~Unmodified(f)
        <5>1. f \in Needs[o]
          BY <4>2
        <5>2. /\ previous[f].text = None => Excuse
              /\ <<o, f>> \notin previous[f].newer
          BY <1>2, <2>2, <2>4, <5>1 DEF PreviousKept
        <5>3. \/ previous[f].text = None
              \/ built[dir][o].texts[f] = previous[f].text
          BY <1>2, <2>4, <5>1, <5>2 DEF IInv, PreviousIsSame, Own
        <5>4. previous[f].text = None \/ previous[f].text # text[dir][f]
          BY <4>2 DEF Unmodified
        <5>5. Excuse \/ built[dir][o].texts[f] # text[dir][f]
          BY <5>2, <5>3, <5>4
        <5> QED
          BY <4>2, <5>5
      <4>3. CASE g # f
        <5>1. <<o, g>> \in newer[dir]
          <6>1. CASE Unmodified(f)
            <7>1. <<o, g>> \in newer[dir] \/ <<o, g>> \in previous[f].newer
              BY <1>4, <3>3, <6>1
            <7>2. previous[f].newer \subseteq Older({f})
              BY <1>2, <2>2 DEF PreviousKept
            <7> QED
              BY <4>3, <7>1, <7>2, OlderPairs
          <6>2. CASE ~Unmodified(f)
            BY <1>4, <3>3, <6>2
          <6> QED
            BY <6>1, <6>2
        <5>2. step > CheckedAt[g]
          BY <1>2, <3>1, <3>3, <4>3, StepFacts DEF Output
        <5> QED
          BY <2>2, <2>4, <5>1, <5>2 DEF Kept
      <4> QED
        BY <4>1, <4>2, <4>3
    <3> QED
      BY <3>2, <3>3
  <2>5. Kept'
    BY <1>3, <1>5, <2>4 DEF Kept, Own, Foreign
  <2> QED
    BY <2>3, <2>5
<1> QED
  BY <1>6, <1>7, <1>8 DEF NeedInv

-----------------------------------------------------------------------------
LEMMA ElsewhereNeeds ==
  ASSUME IInv, NeedInv, Elsewhere, phase' = "ended" => phase \in {"exited", "ended"}
  PROVE  NeedInv'
<1>1. /\ text' = text /\ newer' = newer /\ built' = built /\ linked' = linked
      /\ step' = step /\ previous' = previous /\ forceRecompile' = forceRecompile
      /\ dir' = dir /\ intact' = intact
  BY DEF Elsewhere, files, objects, generator, world
<1>2. /\ phase' \in Active => phase \in Active
      /\ phase' = "options" => phase = "options"
  BY DEF Elsewhere, Active
<1>3. DOMAIN intact' = Directory /\ BuiltFromFiles' /\ OthersSettled' /\ NotForcedYet'
  BY <1>1, <1>2 DEF NeedInv, BuiltFromFiles, OthersSettled, Settled, Own, Foreign, NotForcedYet
<1>4. KeptThisRun'
  BY <1>1, <1>2 DEF NeedInv, KeptThisRun, HeadersExcused, Kept, PreviousKept, Excuse, Own, Foreign
<1>5. EndSettled'
  <2>1. SUFFICES ASSUME linked, phase' = "ended" PROVE Settled(dir)
    BY <1>1 DEF EndSettled, Settled, Own, Foreign
  <2>2. CASE phase = "ended"
    BY <2>1, <2>2 DEF NeedInv, EndSettled
  <2>3. CASE phase = "exited"
    <3>1. \A o \in Object : built[dir][o] # NotBuilt /\ \A f \in Needs[o] : <<o, f>> \notin newer[dir]
      BY <2>1, <2>3 DEF IInv, MakeAfterwards, OutOfDate
    <3>2. \A f \in Headers : text[dir][f] # None
      BY <3>1, HeaderFacts DEF NeedInv, BuiltFromFiles, IInv, Shape
    <3> QED
      BY <3>1, <3>2 DEF Settled
  <2> QED
    BY <2>1, <2>2, <2>3
<1> QED
  BY <1>3, <1>4, <1>5 DEF NeedInv

(* An object that was compiled again has no file newer than it; another    *)
(* program's runtime object is not its own any more.                       *)
LEMMA CompileNeeds == ASSUME NEW o \in Object PROVE IInv /\ NeedInv /\ Compile(o) => NeedInv'
<1> SUFFICES ASSUME IInv, NeedInv, Compile(o) PROVE NeedInv'
  OBVIOUS
<1>1. PICK new : new = [from |-> dir, texts |-> [f \in Needs[o] |-> text[dir][f]]]
  OBVIOUS
<1>2. PICK Sharing : Sharing = IF o \in Shared THEN Directory ELSE {dir}
  OBVIOUS
<1>3. /\ phase = "running" /\ phase' = phase /\ phase \in Active
      /\ text' = text /\ linked' = linked /\ step' = step /\ forceRecompile' = forceRecompile
      /\ dir' = dir /\ intact' = intact
      /\ OutOfDate(o) /\ Compilable(o)
      /\ built' = [d \in Directory |->
           IF d \in Sharing THEN [built[d] EXCEPT ![o] = new] ELSE built[d]]
      /\ newer' = [d \in Directory |->
           IF d \in Sharing THEN {p \in newer[d] : p[1] # o} ELSE newer[d]]
  BY <1>1, <1>2 DEF Compile, Making, driverVars, options, generator, world, Active
<1>4. \A d \in Directory :
        /\ built'[d][o] = IF d \in Sharing THEN new ELSE built[d][o]
        /\ \A u \in Object : u # o => built'[d][u] = built[d][u]
  BY <1>3 DEF IInv, Shape
<1>5. \A d \in Directory : \A u \in Object : \A f :
        <<u, f>> \in newer'[d] <=> <<u, f>> \in newer[d] /\ ~(u = o /\ d \in Sharing)
  BY <1>3
<1>6. /\ dir \in Directory /\ dir \in Sharing /\ new.from = dir
      /\ \A f \in Needs[o] : new.texts[f] = text[dir][f] /\ text[dir][f] \notin {None, Partial}
  BY <1>1, <1>2, <1>3 DEF IInv, Shape, Compilable
<1>7. BuiltFromFiles'
  <2>1. SUFFICES ASSUME NEW d \in Directory, NEW u \in Object, built'[d][u] # NotBuilt,
                        NEW f \in Needs[u]
                 PROVE  /\ built'[d][u].texts[f] \notin {None, Partial}
                        /\ u # "Nova" => text[d][f] # None
    BY <1>3 DEF BuiltFromFiles
  <2>2. CASE u = o /\ d \in Sharing
    <3>1. u # "Nova" => d = dir
      BY <1>2, <2>1, <2>2, ObjectFacts
    <3> QED
      BY <1>4, <1>6, <2>2, <3>1
  <2>3. CASE ~(u = o /\ d \in Sharing)
    <3>1. built'[d][u] = built[d][u]
      BY <1>4, <2>3
    <3> QED
      BY <2>1, <3>1 DEF NeedInv, BuiltFromFiles
  <2> QED
    BY <2>2, <2>3
<1>8. ASSUME NEW d \in Directory, NEW u \in Object, Own(d, u)', ~(u = o /\ d = dir),
             NEW f \in Needs[u]
      PROVE  Own(d, u) /\ (<<u, f>> \in newer'[d] <=> <<u, f>> \in newer[d])
  <2>1. built'[d][u] # NotBuilt /\ ~(u = "Nova" /\ built'[d][u].from # d)
    BY <1>8 DEF Own, Foreign
  <2>2. ~(u = o /\ d \in Sharing)
    <3>1. SUFFICES ASSUME u = o, d \in Sharing PROVE FALSE
      OBVIOUS
    <3>2. d # dir /\ u = "Nova"
      BY <1>2, <1>8, <3>1, ObjectFacts
    <3>3. built'[d][u] = new
      BY <1>4, <3>1
    <3> QED
      BY <1>6, <2>1, <3>2, <3>3
  <2>3. built'[d][u] = built[d][u]
    BY <1>4, <2>2
  <2> QED
    BY <1>5, <2>1, <2>2, <2>3 DEF Own, Foreign
<1>9. OthersSettled'
  <2>1. SUFFICES ASSUME NEW d \in Directory, d # dir, intact[d] PROVE Settled(d)'
    BY <1>3 DEF OthersSettled
  <2>2. Settled(d)
    BY <2>1 DEF NeedInv, OthersSettled
  <2>3. \A u \in Object : Own(d, u)' => \A f \in Needs[u] : <<u, f>> \notin newer'[d]
    BY <1>8, <2>1, <2>2 DEF Settled
  <2> QED
    BY <1>3, <2>2, <2>3 DEF Settled
<1>10. KeptThisRun'
  <2>1. SUFFICES ASSUME intact[dir] PROVE HeadersExcused' /\ Kept'
    BY <1>3 DEF KeptThisRun
  <2>2. HeadersExcused /\ Kept
    BY <1>3, <2>1 DEF NeedInv, KeptThisRun
  <2>3. HeadersExcused' /\ (Excuse' <=> Excuse)
    BY <1>3, <2>2 DEF HeadersExcused, Excuse
  <2>4. ASSUME NEW u \in Object, Own(dir, u)', NEW f \in Needs[u]
        PROVE  /\ step' <= TouchedAt[f] => <<u, f>> \notin newer'[dir]
               /\ step' > CheckedAt[f] /\ <<u, f>> \in newer'[dir]
                    => Excuse' \/ built'[dir][u].texts[f] # text'[dir][f]
    <3>1. CASE u = o
      BY <1>5, <1>6, <3>1
    <3>2. CASE u # o
      <4>1. Own(dir, u) /\ (<<u, f>> \in newer'[dir] <=> <<u, f>> \in newer[dir])
        <5>1. PICK d : d = dir
          OBVIOUS
        <5>2. d \in Directory /\ Own(d, u)'
          BY <1>3, <1>6, <2>4, <5>1 DEF Own, Foreign
        <5>3. Own(d, u) /\ (<<u, f>> \in newer'[d] <=> <<u, f>> \in newer[d])
          BY <1>8, <2>4, <3>2, <5>2
        <5> QED
          BY <5>1, <5>3
      <4>2. built'[dir][u] = built[dir][u]
        BY <1>4, <1>6, <3>2
      <4> QED
        BY <1>3, <2>2, <2>3, <4>1, <4>2 DEF Kept
    <3> QED
      BY <3>1, <3>2
  <2>5. Kept'
    BY <1>3, <2>4 DEF Kept
  <2> QED
    BY <2>3, <2>5
<1>11. EndSettled' /\ NotForcedYet' /\ DOMAIN intact' = Directory
  BY <1>3 DEF NeedInv, EndSettled, NotForcedYet
<1> QED
  BY <1>7, <1>9, <1>10, <1>11 DEF NeedInv

LEMMA LinkNeeds == IInv /\ NeedInv /\ Link => NeedInv'
<1> SUFFICES ASSUME IInv, NeedInv, Link PROVE NeedInv'
  OBVIOUS
<1>1. /\ phase = "running" /\ phase' = phase
      /\ text' = text /\ newer' = newer /\ built' = built /\ step' = step
      /\ previous' = previous /\ forceRecompile' = forceRecompile
      /\ dir' = dir /\ intact' = intact
  BY DEF Link, Making, driverVars, options, files, generator, world
<1>2. DOMAIN intact' = Directory /\ BuiltFromFiles' /\ OthersSettled' /\ EndSettled' /\ NotForcedYet'
  BY <1>1 DEF NeedInv, BuiltFromFiles, OthersSettled, EndSettled, Settled, Own, Foreign, NotForcedYet
<1>3. KeptThisRun'
  BY <1>1 DEF NeedInv, KeptThisRun, HeadersExcused, Kept, Excuse, Own, Foreign
<1> QED
  BY <1>2, <1>3 DEF NeedInv

LEMMA EndsNeeds == IInv /\ NeedInv /\ commandEnds => NeedInv'
<1> SUFFICES ASSUME IInv, NeedInv, commandEnds PROVE NeedInv'
  OBVIOUS
<1>1. /\ linked' = linked /\ compiledNow' = compiledNow
      /\ UNCHANGED generator /\ UNCHANGED world
      /\ flags' = flags /\ phase' \in {"ended", "interrupted"} /\ phase = "exited"
  BY DEF commandEnds, commandExecuted, options
<1>2. CASE UNCHANGED <<files, built>>
  <2>1. Elsewhere
    BY <1>1, <1>2 DEF Elsewhere, objects, Active
  <2> QED BY <1>1, <2>1, ElsewhereNeeds
<1>3. CASE Delete
  <2>1. /\ \A d \in Directory : d # dir =>
             text'[d] = text[d] /\ newer'[d] = newer[d] /\ built'[d] = built[d]
        /\ text'[dir] = [f \in File |-> None] /\ newer'[dir] = {}
        /\ built'[dir] = [o \in Object |-> IF o \in Shared THEN built[dir][o] ELSE NotBuilt]
        /\ dir \in Directory /\ dir' = dir /\ intact' = intact
    BY <1>1, <1>3 DEF Delete, IInv, Shape, world
  <2>2. BuiltFromFiles'
    <3>1. ASSUME NEW d \in Directory, d # dir, NEW o \in Object, built'[d][o] # NotBuilt,
                 NEW f \in Needs[o]
          PROVE  /\ built'[d][o].texts[f] \notin {None, Partial}
                 /\ o # "Nova" => text'[d][f] # None
      BY <2>1, <3>1 DEF NeedInv, BuiltFromFiles
    <3>2. ASSUME NEW o \in Object, built'[dir][o] # NotBuilt, NEW f \in Needs[o]
          PROVE  o = "Nova" /\ built'[dir][o].texts[f] \notin {None, Partial}
      BY <2>1, <3>2, ObjectFacts DEF NeedInv, BuiltFromFiles
    <3> QED
      BY <3>1, <3>2 DEF BuiltFromFiles
  <2>3. OthersSettled'
    BY <2>1 DEF NeedInv, OthersSettled, Settled, Own, Foreign
  <2>4. EndSettled'
    <3>1. text'[dir]["VTableDeclarations.h"] = None
      BY <2>1, HeaderFacts
    <3>2. Settled(dir)'
      BY <2>1, <3>1 DEF Settled
    <3> QED
      BY <2>1, <3>2 DEF EndSettled, Settled, Own, Foreign
  <2>5. KeptThisRun' /\ NotForcedYet' /\ DOMAIN intact' = Directory
    BY <1>1, <2>1 DEF NeedInv, KeptThisRun, NotForcedYet, Active
  <2> QED
    BY <2>2, <2>3, <2>4, <2>5 DEF NeedInv
<1> QED BY <1>2, <1>3 DEF commandEnds

LEMMA EditNeeds == IInv /\ NeedInv /\ Edit => NeedInv'
<1> SUFFICES ASSUME IInv, NeedInv, Edit PROVE NeedInv'
  OBVIOUS
<1>1. /\ phase' = phase /\ phase \notin Active
      /\ text' = text /\ newer' = newer /\ built' = built /\ linked' = linked
      /\ dir' = dir /\ intact' = intact
  BY DEF Edit, Over, Active, driverVars, files, objects
<1>2. DOMAIN intact' = Directory /\ BuiltFromFiles' /\ OthersSettled' /\ EndSettled'
  BY <1>1 DEF NeedInv, BuiltFromFiles, OthersSettled, EndSettled, Settled, Own, Foreign
<1>3. KeptThisRun' /\ NotForcedYet'
  BY <1>1 DEF KeptThisRun, NotForcedYet, Active
<1> QED
  BY <1>2, <1>3 DEF NeedInv

(* The next run finds the directories as the last ones left them.          *)
LEMMA RunNeeds == IInv /\ NeedInv /\ Run => NeedInv'
<1> SUFFICES ASSUME IInv, NeedInv, Run PROVE NeedInv'
  OBVIOUS
<1>1. /\ phase' = "options" /\ step' = 1 /\ forceRecompile' = FALSE /\ linked' = FALSE
      /\ text' = text /\ newer' = newer /\ built' = built
      /\ dir \in Directory /\ dir' \in Directory
      /\ intact' = [intact EXCEPT ![dir] = linked /\ phase = "ended"]
  BY DEF Run, files, IInv, Shape
<1>2. DOMAIN intact' = Directory
  BY <1>1 DEF NeedInv
<1>3. ASSUME NEW d \in Directory, intact'[d] PROVE Settled(d)
  <2>1. CASE d = dir
    <3>1. linked /\ phase = "ended"
      BY <1>1, <1>3, <2>1 DEF NeedInv
    <3> QED
      BY <2>1, <3>1 DEF NeedInv, EndSettled
  <2>2. CASE d # dir
    <3>1. intact[d]
      BY <1>1, <1>3, <2>2 DEF NeedInv
    <3> QED
      BY <2>2, <3>1 DEF NeedInv, OthersSettled
  <2> QED
    BY <2>1, <2>2
<1>4. \A d \in Directory : intact'[d] => Settled(d)'
  BY <1>1, <1>3 DEF Settled, Own, Foreign
<1>5. OthersSettled'
  BY <1>4 DEF OthersSettled
<1>6. BuiltFromFiles' /\ EndSettled' /\ NotForcedYet'
  BY <1>1 DEF NeedInv, BuiltFromFiles, EndSettled, NotForcedYet
<1>7. KeptThisRun'
  <2>1. PICK e : e = dir'
    OBVIOUS
  <2>2. SUFFICES ASSUME intact'[e] PROVE HeadersExcused' /\ Kept' /\ PreviousKept'
    BY <2>1 DEF KeptThisRun
  <2>3. Settled(e)
    BY <1>1, <1>3, <2>1, <2>2
  <2>4. HeadersExcused'
    <3>1. \A f \in Headers : text[e][f] = None => text[e]["VTableDeclarations.h"] = None
      BY <2>3 DEF Settled
    <3> QED
      BY <1>1, <2>1, <3>1 DEF HeadersExcused, Excuse
  <2>5. Kept'
    <3>1. \A o \in Object : Own(e, o)' <=> Own(e, o)
      BY <1>1 DEF Own, Foreign
    <3>2. \A o \in Object : Own(dir, o)' <=> Own(e, o)
      BY <1>1, <2>1 DEF Own, Foreign
    <3>3. \A o \in Object : Own(dir, o)' => \A f \in Needs[o] : <<o, f>> \notin newer'[dir']
      BY <1>1, <2>1, <2>3, <3>2 DEF Settled
    <3> QED
      BY <3>3 DEF Kept
  <2>6. PreviousKept'
    BY <1>1 DEF PreviousKept
  <2> QED
    BY <2>4, <2>5, <2>6
<1> QED
  BY <1>2, <1>5, <1>6, <1>7 DEF NeedInv

-----------------------------------------------------------------------------
LEMMA StepNeeds == IInv /\ NeedInv /\ [Next]_vars => NeedInv'
<1> SUFFICES ASSUME IInv, NeedInv, [Next]_vars PROVE NeedInv'
  OBVIOUS
<1>1. CASE Generate
  BY <1>1, MainMethodNeeds, VTableNeeds, ForcedNeeds, ReadNeeds, ClearNeeds, PrintNeeds,
     CheckNeeds DEF Generate
<1>2. CASE Option \/ compileStarts \/ executeStarts \/ makeStops \/ Prints \/ makeEnds \/ Kill
  <2>1. Elsewhere
    BY <1>2, OptionElsewhere, StartsElsewhere, MessagesElsewhere
  <2>2. phase' = phase \/ phase' \in {"execute", "running", "exited", "failed", "killed"}
    <3>1. CASE Option \/ compileStarts \/ executeStarts
      BY <3>1 DEF Option, checkArgument, compileStarts, compile, executeStarts, execute
    <3>2. CASE makeStops \/ Prints
      BY <3>2 DEF makeStops, Prints, errorReceived, messageReceived
    <3>3. CASE makeEnds \/ Kill
      BY <3>3 DEF makeEnds, resultReceived, Kill
    <3> QED
      BY <1>2, <3>1, <3>2, <3>3
  <2> QED
    BY <2>1, <2>2, ElsewhereNeeds
<1>3. CASE make
  BY <1>3, CompileNeeds, LinkNeeds DEF make
<1>4. CASE commandEnds \/ Edit \/ Run
  BY <1>4, EndsNeeds, EditNeeds, RunNeeds
<1>5. CASE Idle \/ UNCHANGED vars
  <2>1. UNCHANGED vars
    BY <1>5 DEF Idle
  <2>2. phase' = phase
    BY <2>1 DEF vars, driverVars
  <2> QED
    BY <2>1, <2>2, IdleElsewhere, ElsewhereNeeds
<1> QED
  BY <1>1, <1>2, <1>3, <1>4, <1>5 DEF Next

LEMMA NeedsInvariance == Spec => [](IInv /\ NeedInv)
<1>1. Init => IInv /\ NeedInv
  <2>1. SUFFICES ASSUME Init PROVE NeedInv
    BY InitInv
  <2>2. /\ DOMAIN intact = Directory /\ \A d \in Directory : ~intact[d]
        /\ \A d \in Directory : \A o \in Object : built[d][o] = NotBuilt
        /\ ~linked /\ ~forceRecompile /\ dir \in Directory
    BY <2>1, BuildPipelineAssumption DEF Init
  <2> QED
    BY <2>2 DEF NeedInv, BuiltFromFiles, OthersSettled, EndSettled, NotForcedYet, KeptThisRun
<1> QED
  BY <1>1, StepInv, StepNeeds, PTL DEF Spec

(* After a run that went well, an object is compiled again only if a text  *)
(* it needs has changed, or something forced it, or another program has    *)
(* compiled the runtime's: restoring the time of the output files works.   *)
THEOREM NothingNeedless == Spec => NoNeedlessCompile
<1>1. ASSUME IInv, NeedInv, NEW o \in Object,
             Compile(o), intact[dir], built[dir][o] # NotBuilt
      PROVE  \/ forceRecompile
             \/ \E f \in Needs[o] : built[dir][o].texts[f] # text[dir][f]
             \/ o = "Nova" /\ built[dir][o].from # dir
  <2>1. phase = "running" /\ OutOfDate(o) /\ Compilable(o)
    BY <1>1 DEF Compile, Making
  <2>2. step = 12 /\ phase \in Active
    BY <1>1, <2>1 DEF IInv, MakeAfterwards, Active
  <2>3. PICK f \in Needs[o] : <<o, f>> \in newer[dir]
    BY <1>1, <2>1 DEF OutOfDate
  <2>4. text[dir]["VTableDeclarations.h"] # None
    BY <2>1, <2>3, ObjectFacts DEF Compilable
  <2>5. CASE Foreign(dir, o)
    BY <2>5 DEF Foreign
  <2>6. CASE ~Foreign(dir, o)
    <3>1. f \in File /\ step > CheckedAt[f]
      BY <2>2, ObjectFacts, StepFacts
    <3>2. Excuse \/ built[dir][o].texts[f] # text[dir][f]
      BY <1>1, <2>2, <2>3, <2>6, <3>1 DEF NeedInv, KeptThisRun, Kept, Own
    <3> QED
      BY <2>4, <3>2 DEF Excuse
  <2> QED
    BY <2>5, <2>6
<1>2. IInv /\ NeedInv
      => \A o \in Object : Compile(o) /\ intact[dir] /\ built[dir][o] # NotBuilt =>
           \/ forceRecompile
           \/ \E f \in Needs[o] : built[dir][o].texts[f] # text[dir][f]
           \/ o = "Nova" /\ built[dir][o].from # dir
  BY <1>1
<1> QED
  BY <1>2, NeedsInvariance, PTL DEF NoNeedlessCompile

-----------------------------------------------------------------------------
(***************************************************************************)
(* What the listener prints.  Nothing is ever hidden, so until make ends   *)
(* the listener has printed nothing and has collected what it is to print, *)
(* and at the end it prints that.                                          *)
(***************************************************************************)
Elements(s) == {s[i] : i \in 1..Len(s)}

Ordered(s) ==
  \A i \in 1..Len(s) : \A j \in 1..(i - 1) :
    s[j] < s[i] \/ (compiler = "CLANG" /\ s[j] = s[i])

(* The messages that ErrorsPrinted asks for.                               *)
Wanted ==
  LET All  == {i \in 1..Len(received) : received[i] \in Taken}
      Last == {i \in All : \A j \in i..Len(received) : received[j] # "caret"}
  IN  IF compiler = "CLANG" THEN Last ELSE All

Collected(s) == s \in Seq(Nat) /\ Elements(s) = Wanted /\ Ordered(s)

PrintedInv ==
  /\ hidden = {}
  /\ {"failed", "current", "printed"} \subseteq DOMAIN listener
  /\ phase \in {"options", "execute"} => listener.current = << >>
  /\ phase \in {"options", "execute", "running"} =>
       listener.printed = << >> /\ Collected(listener.current)
  /\ phase \in {"exited", "ended", "interrupted"} => Collected(listener.printed)

-----------------------------------------------------------------------------
LEMMA NothingWanted ==
  ASSUME received = << >>
  PROVE  Collected(<< >>)
<1>1. Len(received) = 0 /\ 1..0 = {}
  OBVIOUS
<1>2. Wanted = {}
  BY <1>1 DEF Wanted
<1>3. << >> \in Seq(Nat) /\ Elements(<< >>) = {} /\ Ordered(<< >>)
  BY DEF Elements, Ordered
<1> QED
  BY <1>2, <1>3 DEF Collected

(* A message is wanted if it is taken; an indicator takes those before it  *)
(* away with clang.                                                        *)
LEMMA WantedGrows ==
  ASSUME received \in Seq(Kinds), NEW kind \in Kinds, received' = Append(received, kind),
         compiler' = compiler, compiler \in {"GCC", "TCC", "CLANG"},
         NEW n, n = Len(received) + 1
  PROVE  /\ n \in Nat /\ Len(received') = n /\ Wanted \subseteq 1..(n - 1)
         /\ Wanted' = IF compiler = "CLANG" /\ kind = "caret" THEN {}
                      ELSE Wanted \cup (IF kind \in Taken THEN {n} ELSE {})
<1>1. PICK r : r = received'
  OBVIOUS
<1>2. /\ n \in Nat \ {0} /\ Len(received) = n - 1 /\ Len(r) = n /\ r[n] = kind
      /\ \A i \in 1..(n - 1) : r[i] = received[i]
  BY <1>1
<1>3. Taken' = Taken
  BY DEF Taken
<1>4. PICK T : T = Taken
  OBVIOUS
<1>5. \A i : i \in 1..n <=> (i \in 1..(n - 1) \/ i = n)
  BY <1>2
<1>6. CASE compiler # "CLANG"
  <2>1. Wanted = {i \in 1..(n - 1) : received[i] \in T}
    BY <1>2, <1>4, <1>6 DEF Wanted
  <2>2. Wanted' = {i \in 1..n : r[i] \in T}
    BY <1>1, <1>2, <1>3, <1>4, <1>6 DEF Wanted
  <2>3. \A i : i \in {k \in 1..n : r[k] \in T}
               <=> i \in {k \in 1..(n - 1) : received[k] \in T} \/ (kind \in T /\ i = n)
    BY <1>2, <1>5
  <2>4. Wanted' = Wanted \cup (IF kind \in T THEN {n} ELSE {})
    BY <2>1, <2>2, <2>3
  <2> QED
    BY <1>1, <1>2, <1>4, <1>6, <2>1, <2>4
<1>7. CASE compiler = "CLANG"
  <2>1. PICK W, V : W = Wanted /\ V = Wanted'
    OBVIOUS
  <2>2. \A i : i \in W <=> /\ i \in 1..(n - 1) /\ received[i] \in T
                          /\ \A j \in i..(n - 1) : received[j] # "caret"
    BY <1>2, <1>4, <1>7, <2>1 DEF Wanted
  <2>3. \A i : i \in V <=> /\ i \in 1..n /\ r[i] \in T
                          /\ \A j \in i..n : r[j] # "caret"
    <3>1. Wanted' = {i \in {i \in 1..n : r[i] \in T} : \A j \in i..n : r[j] # "caret"}
      BY <1>1, <1>2, <1>3, <1>4, <1>7 DEF Wanted
    <3> QED
      BY <2>1, <3>1
  <2>4. CASE kind = "caret"
    <3>1. \A i \in 1..n : n \in i..n
      BY <1>2
    <3>2. V = {}
      BY <1>2, <2>3, <2>4, <3>1
    <3> QED
      BY <1>1, <1>2, <1>7, <2>1, <2>2, <2>4, <3>2
  <2>5. CASE kind # "caret"
    <3>1. \A i \in 1..(n - 1) : \A j : j \in i..n <=> j \in i..(n - 1) \/ j = n
      BY <1>2
    <3>2. \A i \in 1..(n - 1) : \A j \in i..(n - 1) : j \in 1..(n - 1)
      BY <1>2
    <3>3. \A i \in 1..(n - 1) : i \in V <=> i \in W
      BY <1>2, <1>5, <2>2, <2>3, <2>5, <3>1, <3>2
    <3>4. n \in V <=> kind \in T
      <4>1. \A j : j \in n..n <=> j = n
        BY <1>2
      <4> QED
        BY <1>2, <2>3, <2>5, <4>1
    <3>5. n \notin W
      BY <1>2, <2>2
    <3>6. V = W \cup (IF kind \in T THEN {n} ELSE {})
      BY <1>5, <2>2, <2>3, <3>3, <3>4, <3>5
    <3> QED
      BY <1>1, <1>2, <1>4, <1>7, <2>1, <2>2, <2>5, <3>6
  <2> QED
    BY <2>4, <2>5
<1> QED
  BY <1>6, <1>7

LEMMA AppendOrdered ==
  ASSUME NEW s \in Seq(Nat), NEW n \in Nat, \A x \in Elements(s) : x \in Nat /\ x <= n,
         compiler # "CLANG" => n \notin Elements(s), Ordered(s)
  PROVE  /\ Append(s, n) \in Seq(Nat) /\ Elements(Append(s, n)) = Elements(s) \cup {n}
         /\ Ordered(Append(s, n))
<1>1. PICK t : t = Append(s, n)
  OBVIOUS
<1>2. PICK k \in Nat : k = Len(s)
  OBVIOUS
<1>3. t \in Seq(Nat) /\ Len(t) = k + 1 /\ t[k + 1] = n /\ \A i \in 1..k : t[i] = s[i]
  BY <1>1, <1>2
<1>4. \A i : i \in 1..(k + 1) <=> i \in 1..k \/ i = k + 1
  BY <1>2
<1>5. Elements(t) = Elements(s) \cup {n}
  BY <1>2, <1>3, <1>4 DEF Elements
<1>6. \A i \in 1..k : s[i] \in Elements(s)
  BY <1>2 DEF Elements
<1>7. ASSUME NEW i \in 1..(k + 1), NEW j \in 1..(i - 1)
      PROVE  t[j] < t[i] \/ (compiler = "CLANG" /\ t[j] = t[i])
  <2>1. CASE i \in 1..k
    <3>1. j \in 1..k
      BY <2>1
    <3>2. s[j] < s[i] \/ (compiler = "CLANG" /\ s[j] = s[i])
      BY <1>2, <2>1 DEF Ordered
    <3> QED
      BY <1>3, <2>1, <3>1, <3>2
  <2>2. CASE i = k + 1
    <3>1. j \in 1..k
      BY <2>2
    <3>2. s[j] \in Nat /\ s[j] <= n /\ (compiler # "CLANG" => s[j] # n)
      BY <1>6, <3>1
    <3>3. s[j] < n \/ (compiler = "CLANG" /\ s[j] = n)
      BY <3>2
    <3> QED
      BY <1>3, <2>2, <3>1, <3>3
  <2> QED
    BY <1>4, <2>1, <2>2
<1>8. Ordered(t)
  BY <1>3, <1>7 DEF Ordered
<1> QED
  BY <1>1, <1>3, <1>5, <1>8

(* A message that is taken is collected, with clang perhaps twice.         *)
LEMMA Collects ==
  ASSUME received \in Seq(Kinds), NEW kind \in Kinds, received' = Append(received, kind),
         compiler' = compiler, compiler \in {"GCC", "TCC", "CLANG"},
         NEW n, n = Len(received) + 1, NEW s, Collected(s)
  PROVE  /\ kind \in Taken /\ kind # "caret" => Collected(Append(s, n))'
         /\ kind \in Taken /\ kind # "caret" /\ compiler = "CLANG"
              => Collected(Append(Append(s, n), n))'
         /\ kind = "caret" /\ compiler = "CLANG" => Collected(<< >>)'
         /\ kind \notin Taken => Collected(s)'
<1>1. PICK W, V, T : W = Wanted /\ V = Wanted' /\ T = Taken
  OBVIOUS
<1>2. /\ n \in Nat /\ Len(received') = n /\ W \subseteq 1..(n - 1)
      /\ V = IF compiler = "CLANG" /\ kind = "caret" THEN {}
             ELSE W \cup (IF kind \in T THEN {n} ELSE {})
  BY <1>1, WantedGrows
<1>3. \A x \in W : x \in Nat /\ x <= n /\ x # n
  BY <1>2
<1>4. s \in Seq(Nat) /\ Elements(s) = W /\ Ordered(s)
  BY <1>1 DEF Collected
<1>5. \A t : Ordered(t)' <=> Ordered(t)
  BY DEF Ordered
<1>6. ASSUME NEW t, t \in Seq(Nat), Elements(t) = V, Ordered(t) PROVE Collected(t)'
  <2>1. Ordered(t)' /\ Elements(t) = Wanted'
    BY <1>1, <1>5, <1>6
  <2> QED
    BY <1>6, <2>1 DEF Collected, Elements
<1>7. ASSUME kind \in T, kind # "caret"
      PROVE  /\ Collected(Append(s, n))'
             /\ compiler = "CLANG" => Collected(Append(Append(s, n), n))'
  <2>1. V = W \cup {n}
    BY <1>2, <1>7
  <2>2. PICK t : t = Append(s, n)
    OBVIOUS
  <2>3. t \in Seq(Nat) /\ Elements(t) = V /\ Ordered(t)
    <3>1. \A x \in Elements(s) : x \in Nat /\ x <= n /\ x # n
      BY <1>3, <1>4
    <3>2. /\ Append(s, n) \in Seq(Nat) /\ Elements(Append(s, n)) = Elements(s) \cup {n}
          /\ Ordered(Append(s, n))
      BY <1>2, <1>4, <3>1, AppendOrdered
    <3> QED
      BY <1>4, <2>1, <2>2, <3>2
  <2>4. ASSUME compiler = "CLANG" PROVE Collected(Append(t, n))'
    <3>1. \A x \in Elements(t) : x \in Nat /\ x <= n
      <4>1. \A x \in W \cup {n} : x \in Nat /\ x <= n
        BY <1>2, <1>3
      <4>2. Elements(t) = W \cup {n}
        BY <2>1, <2>3
      <4> QED
        BY <4>1, <4>2, Zenon
    <3>2. /\ Append(t, n) \in Seq(Nat) /\ Elements(Append(t, n)) = Elements(t) \cup {n}
          /\ Ordered(Append(t, n))
      BY <1>2, <2>3, <2>4, <3>1, AppendOrdered
    <3>3. Elements(Append(t, n)) = V
      BY <2>1, <2>3, <3>2
    <3> QED
      BY <1>6, <3>2, <3>3
  <2>5. Collected(t)'
    BY <1>6, <2>3
  <2> QED
    BY <2>2, <2>4, <2>5
<1>8. ASSUME kind = "caret", compiler = "CLANG" PROVE Collected(<< >>)'
  <2>1. << >> \in Seq(Nat) /\ Elements(<< >>) = {} /\ Ordered(<< >>)
    BY DEF Elements, Ordered
  <2> QED
    BY <1>2, <1>6, <1>8, <2>1
<1>9. ASSUME kind \notin T PROVE Collected(s)'
  <2>1. "caret" \in Taken \/ compiler # "CLANG"
    BY DEF Taken, Errors, Kinds
  <2>2. V = W
    BY <1>1, <1>2, <1>9, <2>1
  <2> QED
    BY <1>4, <1>6, <2>2
<1> QED
  BY <1>1, <1>7, <1>8, <1>9

-----------------------------------------------------------------------------
(* With nothing hidden, addError prints nothing.                           *)
LEMMA AddErrorFields ==
  ASSUME hidden = {}, NEW l, {"failed", "current", "printed"} \subseteq DOMAIN l,
         NEW n, NEW kind
  PROVE  /\ {"failed", "current", "printed"} \subseteq DOMAIN AddError(l, n, kind)
         /\ AddError(l, n, kind).printed = l.printed
         /\ AddError(l, n, kind).current
              = IF kind = "caret" THEN << >> ELSE Append(l.current, n)
<1>1. CASE kind = "caret"
  BY <1>1 DEF AddError
<1>2. CASE kind # "caret"
  BY <1>2 DEF AddError
<1> QED
  BY <1>1, <1>2

LEMMA MessageCollected ==
  ASSUME Noticed, PrintedInv, NEW kind \in Kinds,
         errorReceived(kind) \/ (messageReceived(kind) /\ kind \in {"stop", "out"})
  PROVE  PrintedInv'
<1>1. /\ phase = "running" /\ phase' = phase /\ compiler' = compiler /\ hidden' = hidden
      /\ received' = Append(received, kind) /\ received \in Seq(Kinds)
      /\ compiler \in {"GCC", "TCC", "CLANG"} /\ hidden = {}
  BY DEF errorReceived, messageReceived, Receive, options, Noticed, PrintedInv
<1>2. PICK n : n = Len(received) + 1 /\ n = Len(received')
  BY <1>1
<1>3. PICK l : l = listener
  OBVIOUS
<1>4. {"failed", "current", "printed"} \subseteq DOMAIN l /\ l.printed = << >>
  BY <1>1, <1>3 DEF PrintedInv
<1>5. PICK s : s = l.current
  OBVIOUS
<1>6. Collected(s)
  BY <1>1, <1>3, <1>5 DEF PrintedInv
<1>7. /\ kind \in Taken /\ kind # "caret" => Collected(Append(s, n))'
      /\ kind \in Taken /\ kind # "caret" /\ compiler = "CLANG"
           => Collected(Append(Append(s, n), n))'
      /\ kind = "caret" /\ compiler = "CLANG" => Collected(<< >>)'
      /\ kind \notin Taken => Collected(s)'
  BY <1>1, <1>2, <1>6, Collects
<1>8. PICK one : one = AddError(l, n, kind)
  OBVIOUS
<1>9. /\ {"failed", "current", "printed"} \subseteq DOMAIN one /\ one.printed = << >>
      /\ one.current = IF kind = "caret" THEN << >> ELSE Append(s, n)
  BY <1>1, <1>4, <1>5, <1>8, AddErrorFields
<1>10. PICK two : two = AddError(one, n, kind)
  OBVIOUS
<1>11. /\ {"failed", "current", "printed"} \subseteq DOMAIN two /\ two.printed = << >>
       /\ two.current = IF kind = "caret" THEN << >> ELSE Append(one.current, n)
  BY <1>1, <1>9, <1>10, AddErrorFields
<1>12. PICK new : new = listener'
  OBVIOUS
<1>13. \/ new = l /\ kind \notin Taken
       \/ new = one /\ kind \in Taken /\ (kind = "caret" => compiler = "CLANG")
       \/ new = two /\ kind \in Taken /\ kind # "caret" /\ compiler = "CLANG"
  <2>1. CASE messageReceived(kind) /\ kind \in {"stop", "out"}
    <3>1. new = IF kind = "stop" THEN one ELSE l
      BY <1>2, <1>3, <1>8, <1>12, <2>1 DEF messageReceived
    <3>2. "out" \notin Taken /\ "stop" \in Taken
      BY <1>1 DEF Taken, Errors
    <3> QED
      BY <2>1, <3>1, <3>2
  <2>2. CASE errorReceived(kind)
    <3>1. PICK first : first = IF kind \in Errors[compiler] THEN one ELSE l
      OBVIOUS
    <3>2. new = IF kind \in {"stop", "ld"} THEN AddError(first, n, kind) ELSE first
      BY <1>2, <1>3, <1>8, <1>12, <2>2, <3>1 DEF errorReceived
    <3>3. CASE kind \in Errors[compiler] /\ kind \in {"stop", "ld"}
      <4>1. compiler = "CLANG"
        BY <1>1, <3>3 DEF Errors
      <4>2. new = two
        BY <1>10, <3>1, <3>2, <3>3
      <4> QED
        BY <3>3, <4>1, <4>2 DEF Taken
    <3>4. CASE kind \in Errors[compiler] /\ kind \notin {"stop", "ld"}
      <4>1. kind = "caret" => compiler = "CLANG"
        BY <1>1, <3>4 DEF Errors
      <4>2. new = one
        BY <3>1, <3>2, <3>4
      <4> QED
        BY <3>4, <4>1, <4>2 DEF Taken
    <3>5. CASE kind \notin Errors[compiler] /\ kind \in {"stop", "ld"}
      <4>1. new = one
        BY <1>8, <3>1, <3>2, <3>5
      <4> QED
        BY <3>5, <4>1 DEF Taken
    <3>6. CASE kind \notin Errors[compiler] /\ kind \notin {"stop", "ld"}
      <4>1. new = l
        BY <3>1, <3>2, <3>6
      <4> QED
        BY <3>6, <4>1 DEF Taken
    <3> QED
      BY <3>3, <3>4, <3>5, <3>6
  <2> QED
    BY <2>1, <2>2
<1>14. /\ {"failed", "current", "printed"} \subseteq DOMAIN new /\ new.printed = << >>
       /\ \/ new.current = s /\ kind \notin Taken
          \/ new.current = << >> /\ kind = "caret" /\ compiler = "CLANG"
          \/ new.current = Append(s, n) /\ kind \in Taken /\ kind # "caret"
          \/ /\ new.current = Append(Append(s, n), n)
             /\ kind \in Taken /\ kind # "caret" /\ compiler = "CLANG"
  BY <1>4, <1>5, <1>9, <1>11, <1>13
<1>15. PICK c : c = new.current
  OBVIOUS
<1>16. Collected(c)'
  BY <1>7, <1>14, <1>15
<1>17. Collected(listener.current)'
  <2>1. c = listener'.current
    BY <1>12, <1>15
  <2> QED
    BY <1>16, <2>1 DEF Collected, Elements, Ordered
<1> QED
  BY <1>1, <1>12, <1>14, <1>17 DEF PrintedInv

LEMMA ResultCollected ==
  ASSUME PrintedInv, NEW result, resultReceived(result)
  PROVE  PrintedInv'
<1>1. /\ phase = "running" /\ phase' = "exited" /\ compiler' = compiler
      /\ received' = received /\ hidden' = hidden /\ hidden = {}
  BY DEF resultReceived, options, PrintedInv
<1>2. PICK l : l = listener
  OBVIOUS
<1>3. /\ {"failed", "current", "printed"} \subseteq DOMAIN l /\ l.printed = << >>
      /\ Collected(l.current)
  BY <1>1, <1>2 DEF PrintedInv
<1>4. PICK s : s = l.current
  OBVIOUS
<1>5. s \in Seq(Nat) /\ << >> \o s = s
  BY <1>3, <1>4 DEF Collected
<1>6. listener' = [l EXCEPT !.printed = s]
  <2>1. ~(\E i \in 1..Len(l.current) : Words[received[l.current[i]]] \cap hidden # {})
    BY <1>1
  <2>2. listener' = [l EXCEPT !.printed = l.printed \o l.current]
    BY <1>2, <2>1 DEF resultReceived
  <2> QED
    BY <1>3, <1>4, <1>5, <2>2
<1>7. /\ {"failed", "current", "printed"} \subseteq DOMAIN listener'
      /\ listener'.printed = s
  BY <1>3, <1>6
<1>8. Collected(s)'
  BY <1>1, <1>3, <1>4 DEF Collected, Wanted, Ordered, Taken
<1>9. Collected(listener.printed)'
  BY <1>7, <1>8 DEF Collected, Elements, Ordered
<1> QED
  BY <1>1, <1>7, <1>9 DEF PrintedInv

(* Steps that the listener has no part in, and the choice of the compiler. *)
LEMMA UncollectedKept ==
  ASSUME Noticed, PrintedInv, received' = received, listener' = listener, hidden' = hidden,
         compiler' = compiler \/ (phase = "options" /\ phase' = phase),
         \/ phase' = phase
         \/ phase = "options" /\ phase' = "execute"
         \/ phase = "execute" /\ phase' = "running"
         \/ phase = "exited" /\ phase' \in {"ended", "interrupted"}
         \/ phase' \in {"failed", "killed"}
  PROVE  PrintedInv'
<1>1. hidden' = {} /\ {"failed", "current", "printed"} \subseteq DOMAIN listener'
  BY DEF PrintedInv
<1>2. CASE compiler' = compiler
  <2>1. \A s : Collected(s)' <=> Collected(s)
    BY <1>2 DEF Collected, Wanted, Ordered, Taken
  <2>2. PICK p, c : p = listener.printed /\ c = listener.current
    OBVIOUS
  <2>3. p = listener'.printed /\ c = listener'.current
    BY <2>2
  <2>4. /\ phase' \in {"options", "execute"} => c = << >>
        /\ phase' \in {"options", "execute", "running"} => p = << >> /\ Collected(c)'
        /\ phase' \in {"exited", "ended", "interrupted"} => Collected(p)'
    BY <2>1, <2>2 DEF PrintedInv
  <2> QED
    BY <1>1, <2>3, <2>4 DEF PrintedInv, Collected, Elements, Ordered
<1>3. CASE phase = "options" /\ phase' = phase
  <2>1. received = << >> /\ listener.current = << >> /\ listener.printed = << >>
    BY <1>3 DEF Noticed, PrintedInv
  <2>2. (received = << >> => Collected(<< >>))'
    BY NothingWanted, PTL
  <2>3. Collected(<< >>)' /\ listener'.current = << >>
    BY <2>1, <2>2
  <2>4. Collected(listener.current)'
    BY <2>3 DEF Collected, Elements, Ordered
  <2> QED
    BY <1>1, <1>3, <2>1, <2>3, <2>4 DEF PrintedInv
<1> QED
  BY <1>2, <1>3

LEMMA PrintedStep == Noticed /\ PrintedInv /\ [Next]_vars => PrintedInv'
<1> SUFFICES ASSUME Noticed, PrintedInv, [Next]_vars PROVE PrintedInv'
  OBVIOUS
<1>1. CASE UNCHANGED driverVars
  BY <1>1, UncollectedKept DEF driverVars, options
<1>2. CASE clearOutput \/ Option \/ compileStarts \/ executeStarts \/ commandEnds \/ Kill
  <2>1. /\ received' = received /\ listener' = listener /\ hidden' = hidden
        /\ compiler' = compiler \/ (phase = "options" /\ phase' = phase)
        /\ \/ phase' = phase
           \/ phase = "options" /\ phase' = "execute"
           \/ phase = "execute" /\ phase' = "running"
           \/ phase = "exited" /\ phase' \in {"ended", "interrupted"}
           \/ phase' \in {"failed", "killed"}
    <3>1. CASE clearOutput
      BY <3>1 DEF clearOutput, options
    <3>2. CASE Option
      BY <3>2 DEF Option, checkArgument
    <3>3. CASE compileStarts
      BY <3>3 DEF compileStarts, compile, options
    <3>4. CASE executeStarts
      BY <3>4 DEF executeStarts, execute, options
    <3>5. CASE commandEnds
      BY <3>5 DEF commandEnds, commandExecuted, options
    <3>6. CASE Kill
      BY <3>6 DEF Kill, options
    <3> QED
      BY <1>2, <3>1, <3>2, <3>3, <3>4, <3>5, <3>6
  <2> QED
    BY <2>1, UncollectedKept
<1>3. CASE makeStops \/ Prints
  <2>1. \E kind \in Kinds :
          errorReceived(kind) \/ (messageReceived(kind) /\ kind \in {"stop", "out"})
    BY <1>3 DEF makeStops, Prints, Kinds
  <2> QED
    BY <2>1, MessageCollected
<1>4. CASE makeEnds
  BY <1>4, ResultCollected DEF makeEnds
<1>5. CASE Run
  <2>1. PICK l : l = listener'
    OBVIOUS
  <2>2. /\ received' = << >> /\ hidden' = {} /\ phase' = "options"
        /\ {"failed", "current", "printed"} \subseteq DOMAIN l
        /\ l.current = << >> /\ l.printed = << >>
    BY <1>5, <2>1 DEF Run
  <2>3. (received = << >> => Collected(<< >>))'
    BY NothingWanted, PTL
  <2>4. Collected(<< >>)' /\ listener'.current = << >>
    BY <2>1, <2>2, <2>3
  <2>5. Collected(listener.current)'
    BY <2>4 DEF Collected, Elements, Ordered
  <2> QED
    BY <2>1, <2>2, <2>5 DEF PrintedInv
<1>6. UNCHANGED vars => UNCHANGED driverVars
  BY DEF vars
<1>7. CASE Generate \/ make \/ Edit \/ Idle
  <2>1. UNCHANGED driverVars \/ clearOutput
    BY <1>6, <1>7 DEF Generate, insertMainMethod, generateVTableDeclarations, writeForced,
       readPrevious, printOutput, checkModified, make, Compile, Link, Edit, Idle
  <2> QED
    BY <1>1, <1>2, <2>1
<1> QED
  BY <1>1, <1>2, <1>3, <1>4, <1>5, <1>6, <1>7 DEF Next

LEMMA NoticedInit == Init => Noticed
<1>1. SUFFICES ASSUME Init PROVE Noticed
  OBVIOUS
<1>2. /\ received = << >> /\ completed = << >> /\ phase = "options"
      /\ compiler = "GCC" /\ "failed" \in DOMAIN listener /\ listener.failed = FALSE
  BY <1>1 DEF Init, DriverInit
<1>3. << >> \in Seq(Kinds) /\ IsSequence(<< >>) /\ 1..Len(<< >>) = {}
  BY DEF IsSequence
<1> QED
  BY <1>2, <1>3 DEF Noticed, Received

(* When make is done, with gcc and tcc every error has been printed, once  *)
(* and in the order in which it came; with clang what follows the last     *)
(* position indicator.                                                     *)
THEOREM EveryErrorPrinted == Spec => []ErrorsPrinted
<1>1. Init => PrintedInv
  <2>1. SUFFICES ASSUME Init PROVE PrintedInv
    OBVIOUS
  <2>2. /\ received = << >> /\ hidden = {} /\ phase = "options"
        /\ {"failed", "current", "printed"} \subseteq DOMAIN listener
        /\ listener.current = << >> /\ listener.printed = << >>
    BY <2>1 DEF Init, DriverInit, HiddenFor
  <2>3. Collected(listener.current)
    BY <2>2, NothingWanted
  <2> QED
    BY <2>2, <2>3 DEF PrintedInv
<1>2. PrintedInv => ErrorsPrinted
  <2>1. SUFFICES ASSUME PrintedInv, phase \in {"exited", "ended", "interrupted"}
                 PROVE  Elements(listener.printed) = Wanted /\ Ordered(listener.printed)
    BY DEF ErrorsPrinted, Elements, Wanted, Ordered
  <2> QED
    BY <2>1 DEF PrintedInv, Collected
<1> QED
  BY <1>1, <1>2, NoticedInit, NoticedInv, PrintedStep, PTL DEF Spec

=============================================================================
