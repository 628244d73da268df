------------------------- MODULE ProgramStartProofs -------------------------
(***************************************************************************)
(* Proofs about ProgramStart, for any number of classes and any program:   *)
(* the start-up implements StaticBlocks, so what is proved of that holds of*)
(* the running program, and user code finds the class objects linked.      *)
(***************************************************************************)
EXTENDS ProgramStart, TLAPS

(* StaticBlocks with its proofs, over the variables of the program.        *)
Proved == INSTANCE StaticBlocksProofs WITH
            N <- N, NumBlocks <- NumBlocks, deps <- deps, inited <- inited,
            stack <- stack, runs <- runs, cursor <- cursor

LEMMA SameAssumption == Proved!StaticBlocksAssumption
BY StaticBlocksAssumption DEF Proved!StaticBlocksAssumption, Class, Proved!Class

LEMMA BlocksInit == Init => Proved!Init
BY DEF Init, Blocks!Init, Proved!Init, Blocks!BlockId, Proved!BlockId,
       Blocks!Class, Proved!Class

LEMMA BlocksNext == [Next]_vars => [Proved!Next]_blockVars
<1> SUFFICES ASSUME Next, ~UNCHANGED blockVars PROVE Proved!Next
  BY DEF vars
<1>1. CallStaticBlocks
  BY DEF Next, Step, GcInit, AssignInstance, AssignProperties, FillClassArray,
         CallMain, Over, vars
<1>2. CASE Blocks!CallClass
  BY <1>2 DEF Blocks!CallClass, Proved!Next, Proved!CallClass, Blocks!Enter,
     Proved!Enter, Blocks!Flagged, Proved!Flagged, Blocks!FrameAt, Proved!FrameAt
<1>3. CASE Blocks!CallDependency
  BY <1>3 DEF Blocks!CallDependency, Proved!Next, Proved!CallDependency,
     Blocks!Enter, Proved!Enter, Blocks!Flagged, Proved!Flagged, Blocks!FrameAt,
     Proved!FrameAt, Blocks!Top, Proved!Top, Blocks!Caller, Proved!Caller
<1>4. CASE Blocks!RunScope
  BY <1>4 DEF Blocks!RunScope, Proved!Next, Proved!RunScope, Blocks!Ready,
     Proved!Ready, Blocks!LastBlock, Proved!LastBlock, Blocks!FrameAt,
     Proved!FrameAt, Blocks!Top, Proved!Top, Blocks!Caller, Proved!Caller
<1> QED BY <1>1, <1>2, <1>3, <1>4 DEF CallStaticBlocks

(* The inductive invariant of the static blocks holds in the program.      *)
LEMMA BlocksInvariance == Spec => []Proved!IInv
<1>1. Init => Proved!IInv
  BY BlocksInit, SameAssumption, Proved!InitInv
<1>2. Proved!IInv /\ [Next]_vars => Proved!IInv'
  BY BlocksNext, SameAssumption, Proved!NextInv DEF blockVars, Proved!sbVars
<1> QED BY <1>1, <1>2, PTL DEF Spec

(* The start-up runs novaCallStaticBlocks as StaticBlocks describes it:    *)
(* what it does to the flags, the call stack and the line it is at is a    *)
(* step of that module or nothing, before, during and after the call.      *)
THEOREM StartRunsBlocks == Spec => Blocks!Init /\ [][Blocks!Next]_blockVars
<1>1. Init => Blocks!Init
  BY DEF Init
<1>2. [Next]_vars => [Blocks!Next]_blockVars
  BY DEF Next, Step, GcInit, AssignInstance, AssignProperties, FillClassArray,
         CallStaticBlocks, CallMain, Over, vars, blockVars, Blocks!Next
<1> QED BY <1>1, <1>2, PTL DEF Spec

(* No scope of a static block runs twice in a program.                     *)
THEOREM StaticOnceOnly == Spec => []OnceOnly
<1>1. Proved!IInv => OnceOnly
  BY SameAssumption, Proved!OnceOnlyFollows
     DEF OnceOnly, Blocks!OnceOnly, Proved!OnceOnly, Blocks!BlockId, Proved!BlockId,
         Blocks!Class, Proved!Class
<1> QED BY <1>1, BlocksInvariance, PTL

(* A scope runs after the earlier blocks of its class and after every      *)
(* class it depends on is complete, but for classes on a cycle with it.    *)
THEOREM StaticDependenciesFirst == Spec => DependenciesFirst
<1>1. Proved!IInv /\ [Next]_vars => [Blocks!InOrder]_blockVars
  <2>1. Proved!InOrder <=> Blocks!InOrder
    BY DEF Proved!InOrder, Blocks!InOrder, Proved!Class, Blocks!Class,
       Proved!Complete, Blocks!Complete, Proved!Reaches, Blocks!Reaches,
       Proved!ClassDeps, Blocks!ClassDeps
  <2> QED BY <2>1, BlocksNext, SameAssumption, Proved!DependenciesFollow
         DEF blockVars, Proved!sbVars
<1> QED BY <1>1, BlocksInvariance, PTL DEF Spec, DependenciesFirst

(* Every static block of every class has run when the main method starts.  *)
THEOREM StaticAllRun == Spec => []AllRunAtMain
<1> DEFINE Ran == pc = "main" => Proved!Finished
<1>1. Init => Ran
  BY DEF Init
<1>2. Ran /\ [Next]_vars => Ran'
  <2> SUFFICES ASSUME Ran, [Next]_vars, pc' = "main" PROVE Proved!Finished'
    OBVIOUS
  <2>1. CASE CallMain
    BY <2>1 DEF CallMain, Blocks!Finished, Proved!Finished, blockVars
  <2>2. CASE UNCHANGED vars \/ Over
    BY <2>2 DEF vars, Over, Proved!Finished, blockVars
  <2>3. Next => CallMain \/ Over
    BY DEF Next, Step, GcInit, AssignInstance, AssignProperties, FillClassArray,
           CallStaticBlocks, Advance, After, vars, tableVars
  <2> QED BY <2>1, <2>2, <2>3
<1>3. Proved!IInv /\ Ran => AllRunAtMain
  BY SameAssumption, Proved!AllRunFollows
     DEF AllRunAtMain, Blocks!Complete, Proved!Complete, Proved!Class, Class
<1> QED BY <1>1, <1>2, <1>3, BlocksInvariance, PTL DEF Spec

-----------------------------------------------------------------------------
(* What the loops have done when control is at pc: the classes before i in *)
(* the running one, all classes in those before.                           *)
Instantiated(c) == table[c].instance = c /\ table[c].maps = (c \in HasMaps)

Related(c) == table[c].extension = extends[c] /\ table[c].interfaces = implements[c]

LinkInv ==
  /\ extends \in [Class -> Class \cup {NovaNull}]
  /\ implements \in [Class -> SUBSET Class]
  /\ table \in [Class -> ClassObject]
  /\ i \in Class
  /\ pc \in Pcs \ {"crashed"}
  /\ pc \in {"gcInit", "array", "static", "main"} => i = 1
  /\ pc = "instances" => \A c \in 1..(i - 1) : Instantiated(c)
  /\ pc \in {"properties", "array", "static", "main"} => \A c \in Class : Instantiated(c)
  /\ pc = "properties" => \A c \in 1..(i - 1) : Related(c)
  /\ pc \in {"array", "static", "main"} => \A c \in Class : Related(c)
  /\ pc \in {"static", "main"} => all = [c \in Class |-> c]
  /\ pc \notin {"static", "main"} => \A c \in Class : ~inited[c]

LEMMA ClassFacts ==
  /\ N \in Nat \ {0} /\ 1 \in Class /\ NullPtr \notin Class /\ NovaNull \notin Class
  /\ \A c \in Class : c \in Nat /\ c \in Ptr
  /\ NovaNull \in Ptr /\ NullPtr \in Ptr
BY StaticBlocksAssumption DEF Class, NullPtr, NovaNull, Ptr

(* Control is at the next class, or at the next statement.                 *)
LEMMA AdvanceCases ==
  ASSUME i \in Class, Advance
  PROVE  \/ i < N /\ i' = i + 1 /\ i' \in Class /\ pc' = pc
         \/ i = N /\ i' = 1 /\ pc' = After[pc]
BY ClassFacts DEF Advance, Class

LEMMA LinkInit == Init => LinkInv
BY ClassFacts DEF Init, Blocks!Init, LinkInv, Pcs, ClassObject, Blocks!Class, Class

LEMMA AssignInstanceInv == LinkInv /\ AssignInstance => LinkInv'
<1> SUFFICES ASSUME LinkInv, AssignInstance PROVE LinkInv'
  OBVIOUS
<1>1. /\ pc = "instances" /\ i \in Class /\ Advance
      /\ table' = [table EXCEPT ![i].instance = i, ![i].maps = (i \in HasMaps)]
      /\ UNCHANGED <<extends, implements, all, inited>>
  BY DEF LinkInv, AssignInstance, blockVars
<1> PICK k \in Class : k = i
  BY <1>1
<1> DEFINE maps == k \in HasMaps
<1>2. /\ maps \in BOOLEAN /\ k \in Ptr
      /\ table' = [table EXCEPT ![k].instance = k, ![k].maps = maps]
  BY <1>1, ClassFacts
<1> HIDE DEF maps
<1>3. /\ table' \in [Class -> ClassObject]
      /\ table'[k].instance = k /\ table'[k].maps = maps
      /\ \A c \in Class : c # k => table'[c] = table[c]
  <2>1. table \in [Class -> ClassObject] /\ table[k] \in ClassObject
    BY DEF LinkInv
  <2>2. table'[k] = [[table[k] EXCEPT !.instance = k] EXCEPT !.maps = maps]
    BY <1>2, <2>1
  <2>3. [[table[k] EXCEPT !.instance = k] EXCEPT !.maps = maps] \in ClassObject
    BY <1>2, <2>1, Zenon DEF ClassObject
  <2>4. \A c \in Class : c # k => table'[c] = table[c]
    BY <1>2, <2>1
  <2> QED BY <1>2, <2>1, <2>2, <2>3, <2>4 DEF ClassObject
<1>4. Instantiated(k)'
  BY <1>3 DEF Instantiated, maps
<1>5. \A c \in Class : Instantiated(c) /\ c # k => Instantiated(c)'
  BY <1>3 DEF Instantiated
<1>6. CASE i < N /\ i' = i + 1 /\ i' \in Class /\ pc' = pc
  <2>1. \A c \in 1..(i' - 1) : c \in Class /\ (c = k \/ c \in 1..(i - 1))
    BY <1>1, <1>6, ClassFacts DEF Class
  <2>2. \A c \in 1..(i' - 1) : Instantiated(c)'
    BY <1>1, <1>4, <1>5, <2>1 DEF LinkInv
  <2> QED BY <1>1, <1>3, <1>6, <2>2 DEF LinkInv
<1>7. CASE i = N /\ i' = 1 /\ pc' = After[pc]
  <2>1. \A c \in Class : c = k \/ c \in 1..(i - 1)
    BY <1>7, ClassFacts DEF Class
  <2>2. \A c \in Class : Instantiated(c)'
    BY <1>1, <1>4, <1>5, <2>1 DEF LinkInv
  <2>3. pc' = "properties"
    BY <1>1, <1>7 DEF After
  <2>4. 1..(i' - 1) = {}
    BY <1>7
  <2> QED BY <1>1, <1>3, <1>7, <2>2, <2>3, <2>4, ClassFacts DEF LinkInv, Pcs
<1> QED BY <1>1, <1>6, <1>7, AdvanceCases

LEMMA AssignPropertiesInv == LinkInv /\ AssignProperties => LinkInv'
<1> SUFFICES ASSUME LinkInv, AssignProperties PROVE LinkInv'
  OBVIOUS
<1>1. /\ pc = "properties" /\ i \in Class /\ \A c \in Class : Instantiated(c)
      /\ UNCHANGED <<extends, implements, all, inited>>
  BY DEF LinkInv, AssignProperties, blockVars
<1>2. table[i].instance # NullPtr
  BY <1>1, ClassFacts DEF Instantiated
<1>3. /\ Value(extends[i]) = extends[i]
      /\ {Value(d) : d \in implements[i]} = implements[i]
  BY <1>1 DEF LinkInv, Value, Instantiated
<1>4. /\ Advance
      /\ table' = [table EXCEPT ![i].extension = extends[i],
                                ![i].interfaces = implements[i]]
  BY <1>2, <1>3 DEF AssignProperties
<1>5. /\ extends[i] \in Ptr /\ implements[i] \subseteq Ptr
  BY <1>1, ClassFacts DEF LinkInv
<1> PICK k \in Class : k = i
  BY <1>1
<1>6. /\ table' \in [Class -> ClassObject]
      /\ table'[k].extension = extends[k] /\ table'[k].interfaces = implements[k]
      /\ table'[k].instance = table[k].instance /\ table'[k].maps = table[k].maps
      /\ \A c \in Class : c # k => table'[c] = table[c]
  <2>1. table \in [Class -> ClassObject] /\ table[k] \in ClassObject
    BY DEF LinkInv
  <2>2. table'[k] = [[table[k] EXCEPT !.extension = extends[k]]
                              EXCEPT !.interfaces = implements[k]]
    BY <1>4, <2>1
  <2>3. \A c \in Class : c # k => table'[c] = table[c]
    BY <1>4, <2>1
  <2> QED BY <1>4, <1>5, <2>1, <2>2, <2>3 DEF ClassObject
<1>7. \A c \in Class : Instantiated(c)'
  BY <1>1, <1>6 DEF Instantiated
<1>8. Related(k)' /\ \A c \in Class : Related(c) => Related(c)'
  BY <1>1, <1>6 DEF Related
<1>9. CASE i < N /\ i' = i + 1 /\ i' \in Class /\ pc' = pc
  <2>1. \A c \in 1..(i' - 1) : c \in Class /\ (c = k \/ c \in 1..(i - 1))
    BY <1>1, <1>9, ClassFacts DEF Class
  <2>2. \A c \in 1..(i' - 1) : Related(c)'
    BY <1>1, <1>8, <2>1 DEF LinkInv
  <2> QED BY <1>1, <1>6, <1>7, <1>9, <2>2 DEF LinkInv
<1>10. CASE i = N /\ i' = 1 /\ pc' = After[pc]
  <2>1. \A c \in Class : c = k \/ c \in 1..(i - 1)
    BY <1>10, ClassFacts DEF Class
  <2>2. \A c \in Class : Related(c)'
    BY <1>1, <1>8, <2>1 DEF LinkInv
  <2>3. pc' = "array"
    BY <1>1, <1>10 DEF After
  <2> QED BY <1>1, <1>6, <1>7, <1>10, <2>2, <2>3, ClassFacts DEF LinkInv, Pcs
<1> QED BY <1>1, <1>4, <1>9, <1>10, AdvanceCases

LEMMA LinkNext == LinkInv /\ [Next]_vars => LinkInv'
<1> SUFFICES ASSUME LinkInv, [Next]_vars PROVE LinkInv'
  OBVIOUS
<1>1. CASE GcInit
  BY <1>1, ClassFacts DEF LinkInv, GcInit, After, tableVars, blockVars, Pcs,
                          Instantiated, Related
<1>2. CASE AssignInstance
  BY <1>2, AssignInstanceInv
<1>3. CASE AssignProperties
  BY <1>3, AssignPropertiesInv
<1>4. CASE FillClassArray
  <2>1. all' = [c \in Class |-> c]
    BY <1>4 DEF LinkInv, FillClassArray, Value, Instantiated
  <2> QED BY <1>4, <2>1 DEF LinkInv, FillClassArray, After, blockVars, Pcs,
                            Instantiated, Related
<1>5. CASE CallStaticBlocks
  BY <1>5 DEF LinkInv, CallStaticBlocks, tableVars, Instantiated, Related
<1>6. CASE CallMain
  BY <1>6 DEF LinkInv, CallMain, After, tableVars, blockVars, Pcs, Instantiated, Related
<1>7. CASE UNCHANGED vars \/ Over
  BY <1>7 DEF LinkInv, Over, vars, tableVars, blockVars, Instantiated, Related
<1> QED BY <1>1, <1>2, <1>3, <1>4, <1>5, <1>6, <1>7 DEF Next, Step

(* User code never meets a class object that is not linked, in whatever    *)
(* order the classes are declared, and the start-up does not crash.        *)
THEOREM UserCodeSeesLinked == Spec => []LinkedBeforeUserCode
<1>1. LinkInv => LinkedBeforeUserCode
  <2> SUFFICES ASSUME LinkInv, pc \in {"static", "main"}, NEW c \in Class
               PROVE  Linked(c)
    BY DEF LinkInv, LinkedBeforeUserCode
  <2>1. table[c] \in ClassObject /\ Instantiated(c) /\ Related(c) /\ all[c] = c
    BY DEF LinkInv
  <2> QED BY <2>1 DEF ClassObject, Instantiated, Related, Linked
<1> QED BY <1>1, LinkInit, LinkNext, PTL DEF Spec

=============================================================================
