---------------------------- MODULE StaticBlocks ----------------------------
(***************************************************************************)
(* The static initialisation of a generated program.                       *)
(*                                                                         *)
(* For every class C that has static blocks the code generator emits one   *)
(* C function                                                              *)
(*                                                                         *)
(*     char C_static_inited = 0;                                           *)
(*     void C_static() {                                                   *)
(*       if (!C_static_inited) {                                           *)
(*         C_static_inited = 1;                                            *)
(*         <calls of D_static() for each dependency D of block 1>          *)
(*         <scope of block 1>                                              *)
(*         <calls for block 2>  <scope of block 2>  ...                    *)
(*       }                                                                 *)
(*     }                                                                   *)
(*                                                                         *)
(* (ClassDeclarationWriter.generateStaticBlocksSource and                  *)
(* StaticBlockWriter.generateSource), and novaCallStaticBlocks calls the   *)
(* function of every class in turn (generateStaticBlockCalls).  This       *)
(* module runs that code: the C call stack is the variable stack, one      *)
(* frame per active C_static.  The program itself, that is the dependency  *)
(* sets Scope.getDependencies() returned while it was compiled, is chosen  *)
(* in Init and never changes.                                              *)
(***************************************************************************)
EXTENDS Classes, Integers, Sequences

BlockId == UNION {{c} \X (1..NumBlocks[c]) : c \in Class}

Frame == [class : Class, block : Nat \ {0}, todo : SUBSET Class]

VARIABLES
  deps,     \* deps[<<c, b>>]: the classes whose C_static block b of c calls first
  inited,   \* inited[c]: the C variable C_static_inited
  stack,    \* the active C_static calls, the running one last
  runs,     \* runs[<<c, b>>]: how often the scope of block b of c has run
  cursor    \* the class novaCallStaticBlocks calls next, N+1 when it returns

sbVars == <<deps, inited, stack, runs, cursor>>

TypeOK ==
  /\ deps   \in [BlockId -> SUBSET Class]
  /\ inited \in [Class -> BOOLEAN]
  /\ stack  \in Seq(Frame)
  /\ runs   \in [BlockId -> Nat]
  /\ cursor \in 1..(N + 1)

Init ==
  /\ deps   \in [BlockId -> SUBSET Class]
  /\ inited = [c \in Class |-> FALSE]
  /\ stack  = << >>
  /\ runs   = [i \in BlockId |-> 0]
  /\ cursor = 1

-----------------------------------------------------------------------------
(***************************************************************************)
(* The C code.                                                             *)
(***************************************************************************)

Top == stack[Len(stack)]

Caller == SubSeq(stack, 1, Len(stack) - 1)

TopDeps == deps[<<Top.class, Top.block>>]

(* The frame with which C_static starts on block b of c.                   *)
FrameAt(c, b) == [class |-> c, block |-> b, todo |-> deps[<<c, b>>]]

(* Mutant: the generated function does not set its flag.                   *)
Flagged_Not(c) == inited

(* C_static_inited = 1;                                                    *)
Flagged(c) == [inited EXCEPT ![c] = TRUE]

(* if (!C_static_inited) { C_static_inited = 1; ...: the guarded entry.    *)
Enter(c, callers) ==
  IF inited[c]
  THEN /\ stack' = callers
       /\ UNCHANGED inited
  ELSE /\ inited' = Flagged(c)
       /\ stack'  = Append(callers, FrameAt(c, 1))

(* novaCallStaticBlocks reaches its next line, C_static();                 *)
CallClass ==
  /\ stack = << >>
  /\ cursor <= N
  /\ Enter(cursor, << >>)
  /\ cursor' = cursor + 1
  /\ UNCHANGED <<deps, runs>>

(* The running block calls D_static() for one of its dependencies.  The    *)
(* order is that of a set of the tree, so any order is possible.           *)
CallDependency ==
  /\ stack # << >>
  /\ \E d \in Top.todo :
       Enter(d, Append(Caller, [Top EXCEPT !.todo = @ \ {d}]))
  /\ UNCHANGED <<deps, runs, cursor>>

(* Mutant: the scope is emitted before the calls of the dependencies.      *)
Ready_AtOnce == TRUE

(* All dependencies of the block were called.                              *)
Ready == Top.todo = {}

(* Mutant: only the first block of the list is emitted.                    *)
LastBlock_First(c) == 1

LastBlock(c) == NumBlocks[c]

(* The scope of the block runs, and control goes to the next block of the  *)
(* class or returns to the caller.                                         *)
RunScope ==
  /\ stack # << >> /\ Ready
  /\ runs' = [runs EXCEPT ![<<Top.class, Top.block>>] = @ + 1]
  /\ stack' = IF Top.block < LastBlock(Top.class)
                THEN Append(Caller, FrameAt(Top.class, Top.block + 1))
                ELSE Caller
  /\ UNCHANGED <<deps, inited, cursor>>

Finished == cursor > N /\ stack = << >>

(* novaCallStaticBlocks has returned.                                      *)
Returned == Finished /\ UNCHANGED sbVars

Next == CallClass \/ CallDependency \/ RunScope \/ Returned

(* One thread runs straight-line code: it does not stop half way.          *)
Spec == Init /\ [][Next]_sbVars /\ WF_sbVars(CallClass \/ CallDependency \/ RunScope)

-----------------------------------------------------------------------------
(***************************************************************************)
(* What the scheme promises.                                               *)
(***************************************************************************)

(* In the dependency graph g, the classes class c depends on directly, and *)
(* whether it depends on d, directly or through other classes: whether d   *)
(* is in every set that has the dependencies of c and is closed under them.*)
ClassDeps(g, c) == UNION {g[<<c, b>>] : b \in 1..NumBlocks[c]}

Reaches(g, c, d) ==
  \A S \in SUBSET Class :
    (ClassDeps(g, c) \subseteq S /\ \A x \in S : ClassDeps(g, x) \subseteq S) => d \in S

Complete(c) == \A b \in 1..NumBlocks[c] : runs[<<c, b>>] > 0

(* No scope of a static block ever runs twice, whatever the dependency     *)
(* graph, cycles included: the reason for C_static_inited.                 *)
OnceOnly == \A i \in BlockId : runs[i] <= 1

(* The C stack never holds two activations of one class' function, so it   *)
(* is never deeper than the number of classes and a dependency cycle does  *)
(* not recurse.                                                            *)
NoReentry ==
  \A i, j \in 1..Len(stack) : stack[i].class = stack[j].class => i = j

(* The blocks of a class run in the order of their declaration, and a      *)
(* scope runs only after every class it depends on is completely           *)
(* initialised; the one exception is a class on a dependency cycle with    *)
(* it, which may be seen half-initialised.                                 *)
InOrder ==
  \A c \in Class : \A b \in 1..NumBlocks[c] :
    runs'[<<c, b>>] # runs[<<c, b>>] =>
      /\ \A k \in 1..(b - 1) : runs[<<c, k>>] > 0
      /\ \A d \in deps[<<c, b>>] : Complete(d) \/ Reaches(deps, d, c)

=============================================================================
