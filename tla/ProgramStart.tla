---------------------------- MODULE ProgramStart ----------------------------
(***************************************************************************)
(* What the main function of a generated program does before the user's    *)
(* main method runs (CCodeGeneratorEngine.insertMainMethod):               *)
(*                                                                         *)
(*   main                GC.init(), then System.runMain(main method,       *)
(*                       novaInitProgramData, novaCallStaticBlocks)        *)
(*   novaInitProgramData (1) vtable.classInstance = Class(...) and its     *)
(*                           function maps, for every class                *)
(*                       (2) classInstance->extension and ->interfaces,    *)
(*                           for every class                               *)
(*                       (3) the array Class.ALL                           *)
(*   novaCallStaticBlocks  the module StaticBlocks                         *)
(*                                                                         *)
(* runMain belongs to the standard library: it calls initialize, then      *)
(* callStaticBlocks, then the main method, the parameters it is given.     *)
(* Classes are numbered in the order of getAllClasses; a superclass or an  *)
(* interface may well come after the class that names it, which is why     *)
(* (1) and (2) are two loops.  The class instances are pointers: assigning *)
(* from one that is not set yet stores 0, and following it is a crash.     *)
(***************************************************************************)
EXTENDS Classes, Integers, Sequences

CONSTANT HasMaps   \* the classes with a generated FunctionMap and PropertyMap

ASSUME ProgramStartAssumption == HasMaps \subseteq Class

NullPtr  == 0        \* a C pointer that was never assigned
NovaNull == N + 1    \* the object nova_null

Ptr == 0..(N + 1)

ClassObject == [instance : Ptr, maps : BOOLEAN, extension : Ptr, interfaces : SUBSET Ptr]

VARIABLES
  extends,      \* the program: superclass of each class, or NovaNull
  implements,   \* the program: interfaces of each class
  pc,           \* where main is
  i,            \* the class the running loop of novaInitProgramData is at
  table,        \* table[c]: c's vtable.classInstance and what it points to
  all,          \* Class.ALL, the array of class instances
  deps, inited, stack, runs, cursor    \* the variables of StaticBlocks

Blocks == INSTANCE StaticBlocks WITH
            N <- N, NumBlocks <- NumBlocks, deps <- deps, inited <- inited,
            stack <- stack, runs <- runs, cursor <- cursor

blockVars == <<deps, inited, stack, runs, cursor>>
tableVars == <<extends, implements, i, table, all>>
vars      == <<pc, tableVars, blockVars>>

Pcs == {"gcInit", "instances", "properties", "array", "static", "main", "crashed"}

Init ==
  /\ extends    \in [Class -> Class \cup {NovaNull}]
  /\ implements \in [Class -> SUBSET Class]
  /\ \A c \in Class : c # extends[c] /\ c \notin implements[c]
  /\ pc = "gcInit"
  /\ i = 1
  /\ table = [c \in Class |-> [instance |-> NullPtr, maps |-> FALSE,
                               extension |-> NullPtr, interfaces |-> {}]]
  /\ all = [c \in Class |-> NullPtr]
  /\ Blocks!Init

-----------------------------------------------------------------------------
(* The value of the C expression D.classInstance, for a class or nova_null *)
Value(d) == IF d \in Class THEN table[d].instance ELSE d

(* Mutant: Class.ALL is filled first.                                      *)
After_ArrayFirst ==
  [gcInit |-> "array", array |-> "instances", instances |-> "properties",
   properties |-> "static", static |-> "main"]

(* Mutant: the loop that follows the instances is written before the one   *)
(* that creates them.                                                      *)
After_LinkFirst ==
  [gcInit |-> "properties", properties |-> "instances", instances |-> "array",
   array |-> "static", static |-> "main"]

(* The order of the statements of main and novaInitProgramData.            *)
After == [gcInit     |-> "instances",
          instances  |-> "properties",
          properties |-> "array",
          array      |-> "static",
          static     |-> "main"]

(* The next iteration of the loop at pc, or the statement after the loop.  *)
Advance ==
  IF i < N
  THEN i' = i + 1 /\ pc' = pc
  ELSE i' = 1     /\ pc' = After[pc]

(* GC.init(), and runMain calls its initialize parameter.                  *)
GcInit ==
  /\ pc = "gcInit"
  /\ pc' = After[pc]
  /\ UNCHANGED <<tableVars, blockVars>>

(* X.classInstance = Class(...), and the function maps of the new object.  *)
AssignInstance ==
  /\ pc = "instances"
  /\ table' = [table EXCEPT ![i].instance = i, ![i].maps = (i \in HasMaps)]
  /\ Advance
  /\ UNCHANGED <<extends, implements, all, blockVars>>

(* X.classInstance->extension and X.classInstance->interfaces.  The        *)
(* statement follows X.classInstance, which must not be 0 any more.        *)
AssignProperties ==
  /\ pc = "properties"
  /\ IF table[i].instance = NullPtr
     THEN pc' = "crashed" /\ UNCHANGED <<i, table>>
     ELSE /\ table' = [table EXCEPT ![i].extension  = Value(extends[i]),
                                    ![i].interfaces = {Value(d) : d \in implements[i]}]
          /\ Advance
  /\ UNCHANGED <<extends, implements, all, blockVars>>

(* Class.ALL = an array of all the class instances.                        *)
FillClassArray ==
  /\ pc = "array"
  /\ all' = [c \in Class |-> Value(c)]
  /\ pc' = After[pc]
  /\ UNCHANGED <<extends, implements, i, table, blockVars>>

CallStaticBlocks ==
  /\ pc = "static"
  /\ Blocks!CallClass \/ Blocks!CallDependency \/ Blocks!RunScope
  /\ UNCHANGED <<pc, tableVars>>

(* Mutant: runMain does not wait for the static blocks.                    *)
CallMain_NoWait ==
  /\ pc = "static"
  /\ pc' = After[pc]
  /\ UNCHANGED <<tableVars, blockVars>>

(* novaCallStaticBlocks returned: runMain calls the main method.           *)
CallMain ==
  /\ pc = "static"
  /\ Blocks!Finished
  /\ pc' = After[pc]
  /\ UNCHANGED <<tableVars, blockVars>>

(* The start-up is over: what the main method does is the program's own    *)
(* business.                                                               *)
Over == pc \in {"main", "crashed"} /\ UNCHANGED vars

Step == GcInit \/ AssignInstance \/ AssignProperties
          \/ FillClassArray \/ CallStaticBlocks \/ CallMain

Next == Step \/ Over

Spec == Init /\ [][Next]_vars /\ WF_vars(Step)

-----------------------------------------------------------------------------
(* The object of class c is what reflection and isOfType expect of it.     *)
Linked(c) ==
  /\ table[c] = [instance |-> c, maps |-> (c \in HasMaps),
                 extension |-> extends[c], interfaces |-> implements[c]]
  /\ all[c] = c

(* From the first static block on, user code sees every class object with  *)
(* its superclass, interfaces and maps, and Class.ALL without a hole, in   *)
(* whatever order the classes are declared.                                *)
LinkedBeforeUserCode ==
  (pc \in {"static", "main"} \/ \E c \in Class : inited[c]) => \A c \in Class : Linked(c)

(* No scope of a static block ever runs twice, whatever the dependency     *)
(* graph, cycles included: the reason for C_static_inited.                 *)
OnceOnly == Blocks!OnceOnly

(* When the main method runs, every static block of every class has run.   *)
AllRunAtMain == pc = "main" => \A c \in Class : Blocks!Complete(c)

(* A scope runs after the earlier ones of its class and after every class  *)
(* it depends on is complete, but for a class on a cycle with it.          *)
DependenciesFirst == [][Blocks!InOrder]_blockVars

(* The start-up runs novaCallStaticBlocks as StaticBlocks describes it,    *)
(* fairness included: the composition implements the component.            *)
RunsStaticBlocks == Blocks!Spec

(* The main method is reached.                                             *)
ReachesMain == <>(pc = "main")

=============================================================================
