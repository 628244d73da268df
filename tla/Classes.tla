------------------------------- MODULE Classes -------------------------------
(* The classes of a generated program, in the order of getAllClasses.      *)
EXTENDS Integers

CONSTANTS
  N,          \* number of classes
  NumBlocks   \* NumBlocks[c]: how many static blocks class c declares

Class == 1..N

(***************************************************************************)
(* novaCallStaticBlocks calls C_static for every class, with or without    *)
(* static blocks, and the function is only defined when there is one: a    *)
(* program that links has a static block in every class, and one class at  *)
(* least, that of its main method.                                         *)
(***************************************************************************)
ASSUME StaticBlocksAssumption ==
  /\ N \in Nat \ {0}
  /\ NumBlocks \in [Class -> Nat \ {0}]

=============================================================================
