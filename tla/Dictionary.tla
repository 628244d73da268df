----------------------------- MODULE Dictionary -----------------------------
(***************************************************************************)
(* What HashMap.h promises of a hashmap: a partial map from keys to        *)
(* elements.  "Inserts a new element", "Removes the storage for the        *)
(* element of the key and returns the element", "Returns the element for   *)
(* the key", "Returns the number of saved elements".                       *)
(***************************************************************************)
EXTENDS Integers, FiniteSets

CONSTANTS
  Keys,
  Data,    \* the elements, none of which is the null pointer
  Null     \* the null pointer: "no element"

VARIABLES
  saved,   \* saved[k]: the element of key k, or Null
  answer   \* what the last call returned

dictVars == <<saved, answer>>

SavedKeys == {k \in Keys : saved[k] # Null}

(* An answer tells which call it answers.                                  *)
Nothing         == <<"nothing">>
Removed(k, d)   == <<"remove", k, d>>
Element(k, d)   == <<"get", k, d>>
Contained(k, b) == <<"contains", k, b>>
Number(n)       == <<"count", n>>

Init ==
  /\ saved = [k \in Keys |-> Null]
  /\ answer = Nothing

Insert(k, d) ==
  /\ saved' = [saved EXCEPT ![k] = d]
  /\ answer' = Nothing

Remove(k) ==
  /\ saved' = [saved EXCEPT ![k] = Null]
  /\ answer' = Removed(k, saved[k])

Get(k) ==
  /\ answer' = Element(k, saved[k])
  /\ UNCHANGED saved

Contains(k) ==
  /\ answer' = Contained(k, saved[k] # Null)
  /\ UNCHANGED saved

Count ==
  /\ answer' = Number(Cardinality(SavedKeys))
  /\ UNCHANGED saved

(* A map that was deleted and created again is empty.                      *)
Clear ==
  /\ saved' = [k \in Keys |-> Null]
  /\ answer' = Nothing

Next ==
  \/ \E k \in Keys : (\E d \in Data : Insert(k, d)) \/ Remove(k) \/ Get(k) \/ Contains(k)
  \/ Count
  \/ Clear

Spec == Init /\ [][Next]_dictVars

=============================================================================
