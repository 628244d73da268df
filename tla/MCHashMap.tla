----------------------------- MODULE MCHashMap -----------------------------
(* The keys of these instances collide: 0, 15 and 30 start at the same slot*)
(* of a table of size 3 or 5 and take the same steps through it; 30, 95,   *)
(* 160 and 225 look at the slots 0, 5, 10 and at no other of a table of the*)
(* pseudo-prime size 15, which hashmapCreate(16) can choose.  One key has  *)
(* its element replaced, next to at most one other key.                    *)
EXTENDS HashMap

CONSTANT Other    \* the element that only key 30 may have

MCKeys       == {30, 95, 160, 225}
MCStartSizes == {1, 16}

MCKeysAny       == {0, 15, 30}
MCStartSizesAny == {1, 5}

OneReplaced ==
  /\ \A k \in Keys \ {30} : saved[k] # Other
  /\ saved[30] = Other => Cardinality({k \in Keys : saved[k] # Null}) <= 2

=============================================================================
