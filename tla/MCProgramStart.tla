--------------------------- MODULE MCProgramStart ---------------------------
(* Every program of three classes, the first of which has two static       *)
(* blocks: who extends and implements whom, forwards and backwards, and    *)
(* every dependency graph of the blocks.  novaInitProgramData reads the    *)
(* one and novaCallStaticBlocks the other, so it is enough that one of the *)
(* two is arbitrary.                                                       *)
EXTENDS ProgramStart

MCNumBlocks == <<2, 1, 1>>
MCHasMaps   == {1}

Unrelated   == \A c \in Class : extends[c] = NovaNull /\ implements[c] = {}
Independent == \A b \in Blocks!BlockId : deps[b] = {}

MCInit == Init /\ (Unrelated \/ Independent)

MCSpec == MCInit /\ [][Next]_vars /\ WF_vars(Step)

=============================================================================
