------------------------------ MODULE HashMap ------------------------------
(***************************************************************************)
(* The runtime's hash map (HashMap.c): open addressing with double         *)
(* hashing.  A slot is active, or it was never used (data is null), or its *)
(* element was removed: hashmapRemove clears the ACTIVE flag and leaves    *)
(* the key and the data, so that probes go on past it.  hashmapInsert      *)
(* takes the first slot of the probe sequence that is not active.          *)
(*                                                                         *)
(* hashmapInsert and rehash call each other: when the table is full, or a  *)
(* probe sequence finds no slot, rehash allocates a larger table and       *)
(* inserts the active entries of the old one again, which may rehash in    *)
(* turn.  The variable calls is that C call stack; it is empty between the *)
(* client's calls.  Everything else is one step.                           *)
(***************************************************************************)
EXTENDS PrimeSizes, Sequences, FiniteSets

CONSTANTS
  Keys,         \* keys the client uses
  Data,         \* elements the client stores, not null
  Null,         \* the null pointer
  StartSizes    \* arguments of hashmapCreate

ASSUME HashMapAssumption ==
  /\ Keys \subseteq Nat
  /\ Null \notin Data
  /\ StartSizes \subseteq Nat

VARIABLES
  size,      \* hm->size, 0 when there is no map
  count,     \* hm->count
  table,     \* hm->table
  calls,     \* active calls of hashmapInsert and rehash, the running one last
  answer,    \* what the client's last call returned
  saved      \* history: the element the client stored under each key

mapVars == <<size, count, table, calls>>
vars    == <<mapVars, answer, saved>>

D == INSTANCE Dictionary WITH
       Keys <- Keys, Data <- Data, Null <- Null, saved <- saved, answer <- answer

Entry == [data : Data \cup {Null}, active : BOOLEAN, key : Keys \cup {0}]

(* The table calloc() returns.                                             *)
Cleared(n) == [i \in 0..(n - 1) |-> [data |-> Null, active |-> FALSE, key |-> 0]]

(* A call of rehash holds the slots of the old table it has yet to look at,*)
(* the next one last.                                                      *)
Call ==
  [op : {"insert"}, key : Keys, data : Data, fits : BOOLEAN]
    \cup
  [op : {"rehash"}, left : Seq(Entry)]

InsertCall(k, d) == [op |-> "insert", key |-> k, data |-> d, fits |-> FALSE]
RehashCall(left) == [op |-> "rehash", left |-> left]

TypeOK ==
  /\ size \in Nat
  /\ count \in Nat
  /\ table \in [0..(size - 1) -> Entry]
  /\ calls \in Seq(Call)
  /\ saved \in [Keys -> Data \cup {Null}]

Init ==
  /\ size = 0 /\ count = 0 /\ table = Cleared(0)
  /\ calls = << >>
  /\ answer = D!Nothing
  /\ saved = [k \in Keys |-> Null]

-----------------------------------------------------------------------------
(***************************************************************************)
(* Probing.                                                                *)
(***************************************************************************)

(* step = key % (size-2) + 1.  For size 1 the unsigned modulus size-2 is   *)
(* 2^64-1 and the remainder is the key itself.                             *)
StepOf(k) == IF size = 1 THEN k + 1 ELSE (k % (size - 2)) + 1

(* The slot looked at in round i of a probe for k.                         *)
Probe(k, i) == ((k % size) + i * StepOf(k)) % size

(* A search for k ends at the first slot it looks at that is in stops: a   *)
(* set of that slot, or the empty set if it looks at none of them.         *)
FirstSlot(k, stops) ==
  {Probe(k, i) : i \in {r \in 0..(size - 1) :
      Probe(k, r) \in stops /\ \A e \in 0..(r - 1) : Probe(k, e) \notin stops}}

ActiveSlots == {s \in DOMAIN table : table[s].active}
NullSlots   == {s \in DOMAIN table : table[s].data = Null}
KeySlots(k) == {s \in DOMAIN table : table[s].key = k}

(* hashmapInsert stops at the key if it is active, or at an inactive slot. *)
InsertSlot(k) == FirstSlot(k, KeySlots(k) \cup (DOMAIN table \ ActiveSlots))

(* Mutant: a search ends at the first slot that is not active.             *)
Found_StopsAtRemoved(k) ==
  IF count = 0 THEN {}
  ELSE FirstSlot(k, KeySlots(k) \cup (DOMAIN table \ ActiveSlots))
         \cap KeySlots(k) \cap ActiveSlots

(* hashmapGet and hashmapContains stop at the key or at a null element;    *)
(* the element counts if the slot has the key and is active.               *)
Found(k) ==
  IF count = 0 THEN {}
  ELSE FirstSlot(k, KeySlots(k) \cup NullSlots) \cap KeySlots(k) \cap ActiveSlots

(* hashmapRemove does the same, except that a null element ends it first.  *)
Removable(k) ==
  (FirstSlot(k, KeySlots(k) \cup NullSlots) \ NullSlots) \cap ActiveSlots

-----------------------------------------------------------------------------
(***************************************************************************)
(* hashmapInsert and rehash.                                               *)
(***************************************************************************)

Running == calls[Len(calls)]
Outer   == SubSeq(calls, 1, Len(calls) - 1)

(* Mutant: rehash does not reset the counter.                              *)
StartRehash_KeepsCount(pending) ==
  /\ size' \in NextSizes(2 * size)
  /\ table' = Cleared(size')
  /\ count' = count
  /\ calls' = Append(pending, RehashCall([i \in 1..size |-> table[i - 1]]))

(* rehash(): a larger empty table, and the loop over the old one.          *)
StartRehash(pending) ==
  /\ size' \in NextSizes(2 * size)
  /\ table' = Cleared(size')
  /\ count' = 0
  /\ calls' = Append(pending, RehashCall([i \in 1..size |-> table[i - 1]]))

(* if (hash->size <= hash->count) rehash(hash);                            *)
CheckFull ==
  /\ calls # << >> /\ Running.op = "insert" /\ ~Running.fits
  /\ LET checked == Append(Outer, [Running EXCEPT !.fits = TRUE])
     IN  IF size <= count
         THEN StartRehash(checked)
         ELSE calls' = checked /\ UNCHANGED <<size, count, table>>
  /\ UNCHANGED <<answer, saved>>

(* Mutant: the loop tries the same table again.                            *)
PlaceElement_NoRehash ==
  /\ calls # << >> /\ Running.op = "insert" /\ Running.fits
  /\ \E s \in InsertSlot(Running.key) :
       /\ table' = [table EXCEPT ![s] = [data |-> Running.data, active |-> TRUE,
                                         key |-> Running.key]]
       /\ count' = IF table[s].active THEN count ELSE count + 1
       /\ calls' = Outer
       /\ UNCHANGED size
  /\ UNCHANGED <<answer, saved>>

(* One pass of the do-while loop: store the element, or rehash and retry.  *)
PlaceElement ==
  /\ calls # << >> /\ Running.op = "insert" /\ Running.fits
  /\ IF InsertSlot(Running.key) = {}
     THEN StartRehash(calls)
     ELSE \E s \in InsertSlot(Running.key) :
            /\ table' = [table EXCEPT ![s] = [data |-> Running.data, active |-> TRUE,
                                              key |-> Running.key]]
            /\ count' = IF table[s].active THEN count ELSE count + 1
            /\ calls' = Outer
            /\ UNCHANGED size
  /\ UNCHANGED <<answer, saved>>

(* while (--size >= 0) if (table[size].flags == ACTIVE) hashmapInsert(...) *)
RehashLoop ==
  /\ calls # << >> /\ Running.op = "rehash"
  /\ IF Running.left = << >>
     THEN calls' = Outer
     ELSE LET n     == Len(Running.left)
              next  == RehashCall(SubSeq(Running.left, 1, n - 1))
              entry == Running.left[n]
          IN  calls' = IF entry.active
                       THEN Append(Append(Outer, next), InsertCall(entry.key, entry.data))
                       ELSE Append(Outer, next)
  /\ UNCHANGED <<size, count, table, answer, saved>>

-----------------------------------------------------------------------------
(***************************************************************************)
(* The client's calls.                                                     *)
(***************************************************************************)

Idle == calls = << >> /\ size # 0

hashmapCreate(startsize) ==
  /\ size = 0
  /\ size' \in IF startsize = 0 THEN {1021} ELSE NextSizes(startsize - 2)
  /\ table' = Cleared(size')
  /\ count' = 0
  /\ answer' = D!Nothing
  /\ UNCHANGED <<calls, saved>>

hashmapInsert(k, d) ==
  /\ Idle
  /\ calls' = <<InsertCall(k, d)>>
  /\ answer' = D!Nothing
  /\ saved' = [saved EXCEPT ![k] = d]
  /\ UNCHANGED <<size, count, table>>

hashmapRemove(k) ==
  /\ Idle
  /\ table' = [s \in DOMAIN table |->
                 IF s \in Removable(k) THEN [table[s] EXCEPT !.active = FALSE] ELSE table[s]]
  /\ count' = count - Cardinality(Removable(k))
  /\ answer' = D!Removed(k, IF Removable(k) = {} THEN Null
                            ELSE table[CHOOSE s \in Removable(k) : TRUE].data)
  /\ saved' = [saved EXCEPT ![k] = Null]
  /\ UNCHANGED <<size, calls>>

hashmapGet(k) ==
  /\ Idle
  /\ answer' = D!Element(k, IF Found(k) = {} THEN Null
                            ELSE table[CHOOSE s \in Found(k) : TRUE].data)
  /\ UNCHANGED <<mapVars, saved>>

hashmapContains(k) ==
  /\ Idle
  /\ answer' = D!Contained(k, Found(k) # {})
  /\ UNCHANGED <<mapVars, saved>>

hashmapCount ==
  /\ Idle
  /\ answer' = D!Number(count)
  /\ UNCHANGED <<mapVars, saved>>

hashmapDelete ==
  /\ Idle
  /\ size' = 0 /\ table' = Cleared(0) /\ count' = 0
  /\ answer' = D!Nothing
  /\ saved' = [k \in Keys |-> Null]
  /\ UNCHANGED calls

Internal == CheckFull \/ PlaceElement \/ RehashLoop

OtherCalls ==
  \/ \E n \in StartSizes : hashmapCreate(n)
  \/ \E k \in Keys : hashmapRemove(k) \/ hashmapGet(k) \/ hashmapContains(k)
  \/ hashmapCount
  \/ hashmapDelete

(* No slot holds the key of a removed element.                             *)
NoTombstones == \A s \in DOMAIN table : table[s].active \/ table[s].data = Null

(* A client that replaces the element of a key only while nothing removed  *)
(* is left in the table; otherwise it removes the old element first.       *)
Next ==
  \/ Internal
  \/ OtherCalls
  \/ \E k \in Keys, d \in Data :
       (saved[k] = Null \/ NoTombstones) /\ hashmapInsert(k, d)

Spec == Init /\ [][Next]_vars /\ WF_vars(Internal)

(* A client that calls the functions in any order.                         *)
NextAny ==
  \/ Internal
  \/ OtherCalls
  \/ \E k \in Keys, d \in Data : hashmapInsert(k, d)

SpecAny == Init /\ [][NextAny]_vars

-----------------------------------------------------------------------------
(* The counter that decides when to rehash, and what hashmapCount returns, *)
(* is the number of active slots, also half way through a rehash that      *)
(* moves the entries over, and never more than the table holds.            *)
CountIsActive == count = Cardinality(ActiveSlots) /\ count <= size

(* Under every order of calls of a careful client the table behaves as the *)
(* map that HashMap.h describes: probes go on past removed elements, a     *)
(* rehash in the middle of an insertion loses nothing.                     *)
IsDictionary == D!Spec

(* HashMap.h:19, "Returns the element for the key."                        *)
GetReturnsElement ==
  [][\A k \in Keys : hashmapGet(k) => answer' = D!Element(k, saved[k])]_vars

(* hashmapInsert returns: the rehashes it nests come to an end although    *)
(* the new size may be no prime and a probe may miss free slots in it.     *)
InsertReturns == (calls # << >>) ~> (calls = << >>)

=============================================================================
