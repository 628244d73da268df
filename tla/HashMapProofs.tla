--------------------------- MODULE HashMapProofs ---------------------------
(***************************************************************************)
(* Proofs about the hash map, for every set of keys, elements and start    *)
(* sizes and every size the prime test may choose: type correctness and    *)
(* the counter, for both kinds of client, and, for the careful one, that   *)
(* the map implements the dictionary its header describes.                 *)
(***************************************************************************)
EXTENDS HashMap, FiniteSetTheorems, FunctionTheorems, SequenceTheorems, TLAPS

(* Active entries are the client's own keys and elements, in the table and *)
(* in the old tables that a rehash still reads.                            *)
GoodEntry(e) == e \in Entry /\ (e.active => e.key \in Keys /\ e.data \in Data)

GoodFrame(f) ==
  f \in Call /\ (f.op = "rehash" => \A n \in 1..Len(f.left) : GoodEntry(f.left[n]))

StackOK(cs) == cs \in Seq(Call) /\ \A n \in 1..Len(cs) : GoodFrame(cs[n])

(* There is no table without slots while a call runs, and sizes are odd,   *)
(* so that size-2 is never the modulus 0.                                  *)
SizeOK == IF size = 0 THEN calls = << >> ELSE size % 2 = 1

TableOK == /\ size \in Nat
           /\ table \in [0..(size - 1) -> Entry]
           /\ \A s \in 0..(size - 1) : GoodEntry(table[s])

IInv ==
  /\ TypeOK
  /\ TableOK
  /\ CountIsActive
  /\ StackOK(calls)
  /\ SizeOK

-----------------------------------------------------------------------------
(***************************************************************************)
(* Sizes and probes.                                                       *)
(***************************************************************************)

(* A new size is odd and larger than the one it was computed from.         *)
LEMMA SizesGrow ==
  ASSUME NEW n \in Int, NEW v \in NextSizes(n)
  PROVE  v \in Int /\ v > n /\ v % 2 = 1
BY DEF NextSizes

(* hashmapCreate never makes a table without slots.                        *)
LEMMA CreatedSize ==
  ASSUME NEW n \in Nat \ {0}, NEW v \in NextSizes(n - 2)
  PROVE  v \in Nat /\ v >= 1 /\ v % 2 = 1
BY DEF NextSizes

(* A probe stays inside the table.                                         *)
LEMMA ProbeInside ==
  ASSUME size \in Nat, size >= 1, size % 2 = 1, NEW k \in Keys, NEW r \in Nat
  PROVE  Probe(k, r) \in 0..(size - 1)
<1>1. k \in Nat
  BY HashMapAssumption
<1>2. StepOf(k) \in Int
  <2>1. CASE size = 1
    BY <1>1, <2>1 DEF StepOf
  <2>2. CASE size # 1
    <3>1. size - 2 \in Nat /\ size - 2 >= 1
      BY <2>2
    <3>2. k % (size - 2) \in Int
      BY <1>1, <3>1
    <3> QED
      BY <2>2, <3>2 DEF StepOf
  <2> QED
    BY <2>1, <2>2
<1>3. r * StepOf(k) \in Int
  BY <1>2
<1>4. k % size \in Int
  BY <1>1
<1>5. (k % size) + r * StepOf(k) \in Int
  BY <1>3, <1>4
<1> QED
  BY <1>5 DEF Probe

(* A search ends in at most one slot, and that is a slot of the table.     *)
LEMMA SearchEnds ==
  ASSUME size \in Nat, size >= 1, size % 2 = 1, NEW k \in Keys, NEW stops,
         NEW s \in FirstSlot(k, stops)
  PROVE  s \in 0..(size - 1) /\ s \in stops /\ FirstSlot(k, stops) = {s}
<1>1. PICK i \in 0..(size - 1) :
        /\ s = Probe(k, i) /\ s \in stops
        /\ \A e \in 0..(i - 1) : Probe(k, e) \notin stops
  BY DEF FirstSlot
<1>2. ASSUME NEW t \in FirstSlot(k, stops) PROVE t = s
  <2>1. PICK j \in 0..(size - 1) :
          /\ t = Probe(k, j) /\ t \in stops
          /\ \A e \in 0..(j - 1) : Probe(k, e) \notin stops
    BY DEF FirstSlot
  <2>2. ~(i < j) /\ ~(j < i)
    BY <1>1, <2>1
  <2> QED
    BY <1>1, <2>1, <2>2
<1>3. s \in 0..(size - 1)
  BY <1>1, ProbeInside
<1> QED
  BY <1>1, <1>2, <1>3

(* The slots that are active can be counted, and there are not more than   *)
(* the table has.                                                          *)
LEMMA ActiveFinite ==
  ASSUME NEW n \in Nat, NEW t \in [0..(n - 1) -> Entry]
  PROVE  /\ IsFiniteSet({s \in DOMAIN t : t[s].active})
         /\ Cardinality({s \in DOMAIN t : t[s].active}) \in 0..n
<1> DEFINE A == {s \in DOMAIN t : t[s].active}
<1>1. IsFiniteSet(0..(n - 1)) /\ Cardinality(0..(n - 1)) = n
  BY FS_Interval
<1>2. A \subseteq 0..(n - 1)
  OBVIOUS
<1> HIDE DEF A
<1>3. IsFiniteSet(A) /\ Cardinality(A) <= Cardinality(0..(n - 1))
  BY <1>1, <1>2, FS_Subset
<1>4. Cardinality(A) \in Nat
  BY <1>3, FS_CardinalityType
<1> QED
  BY <1>1, <1>3, <1>4 DEF A

-----------------------------------------------------------------------------
(***************************************************************************)
(* The call stack.                                                         *)
(***************************************************************************)

(* The frame of a rehash that has good entries left is good.               *)
LEMMA RehashCallOK ==
  ASSUME NEW rest \in Seq(Entry),
         \A m \in 1..Len(rest) : GoodEntry(rest[m])
  PROVE  GoodFrame(RehashCall(rest))
BY DEF GoodFrame, RehashCall, Call

LEMMA PushOK ==
  ASSUME NEW cs, StackOK(cs), NEW f, GoodFrame(f)
  PROVE  StackOK(Append(cs, f)) /\ Append(cs, f) # << >>
<1>1. f \in Call /\ cs \in Seq(Call)
  BY DEF StackOK, GoodFrame
<1>2. /\ Append(cs, f) \in Seq(Call)
      /\ Append(cs, f) # << >>
      /\ Len(Append(cs, f)) = Len(cs) + 1
      /\ \A n \in 1..Len(cs) : Append(cs, f)[n] = cs[n]
      /\ Append(cs, f)[Len(cs) + 1] = f
  BY <1>1, AppendProperties
<1>3. Len(cs) \in Nat
  BY <1>1, LenProperties
<1>4. \A n \in 1..Len(cs) : GoodFrame(cs[n])
  BY DEF StackOK
<1>5. \A n \in 1..(Len(cs) + 1) : GoodFrame(Append(cs, f)[n])
  BY <1>2, <1>3, <1>4
<1> QED
  BY <1>2, <1>5 DEF StackOK

LEMMA PopOK ==
  ASSUME NEW cs, StackOK(cs), cs # << >>
  PROVE  /\ StackOK(SubSeq(cs, 1, Len(cs) - 1))
         /\ GoodFrame(cs[Len(cs)])
<1> DEFINE n == Len(cs) - 1
<1>1. n \in Nat /\ n <= Len(cs) /\ Len(cs) \in 1..Len(cs)
  BY EmptySeq, LenProperties DEF StackOK
<1>2. /\ SubSeq(cs, 1, n) \in Seq(Call)
      /\ Len(SubSeq(cs, 1, n)) = n
      /\ \A m \in 1..n : SubSeq(cs, 1, n)[m] = cs[m]
  <2>1. cs \in Seq(Call)
    BY DEF StackOK
  <2> HIDE DEF n
  <2> QED
    BY <1>1, <2>1, SubSeqProperties
<1>3. \A m \in 1..Len(cs) : GoodFrame(cs[m])
  BY DEF StackOK
<1>4. \A m \in 1..n : GoodFrame(SubSeq(cs, 1, n)[m])
  BY <1>1, <1>2, <1>3
<1> QED
  BY <1>1, <1>2, <1>3, <1>4 DEF StackOK

-----------------------------------------------------------------------------
(***************************************************************************)
(* The steps.                                                              *)
(***************************************************************************)

(* A table fresh from calloc has no active slot.                           *)
LEMMA ClearedTable ==
  ASSUME NEW n \in Nat, size' = n, table' = Cleared(n), count' = 0
  PROVE  TableOK' /\ CountIsActive'
<1>1. \A s \in 0..(n - 1) : GoodEntry(Cleared(n)[s])
  BY DEF Cleared, GoodEntry, Entry
<1>2. TableOK'
  BY <1>1 DEF TableOK, Cleared, GoodEntry
<1>3. ActiveSlots' = {}
  BY DEF ActiveSlots, Cleared
<1>4. Cardinality(ActiveSlots') = 0
  BY <1>3, FS_EmptySet
<1> QED
  BY <1>2, <1>4 DEF CountIsActive

LEMMA InitInv == Init => IInv
<1> SUFFICES ASSUME Init PROVE IInv
  OBVIOUS
<1>1. TableOK
  BY DEF Init, TableOK, Cleared
<1>2. ActiveSlots = {}
  BY DEF Init, ActiveSlots, Cleared
<1>3. CountIsActive
  BY <1>2, FS_EmptySet DEF Init, CountIsActive
<1>4. StackOK(calls) /\ SizeOK
  BY DEF Init, StackOK, SizeOK
<1>5. TypeOK
  BY <1>1, <1>4 DEF Init, TypeOK, TableOK, StackOK
<1> QED
  BY <1>1, <1>3, <1>4, <1>5 DEF IInv

(* rehash(): the new table is empty and so is the count.                   *)
LEMMA StartRehashInv ==
  ASSUME IInv, NEW pending, StackOK(pending), pending # << >>, StartRehash(pending),
         calls # << >>, UNCHANGED saved
  PROVE  IInv'
<1>1. size \in Nat /\ size # 0 /\ size >= 1
  BY DEF IInv, TableOK, SizeOK
<1>2. size' \in Nat /\ size' % 2 = 1 /\ size' # 0
  BY <1>1, SizesGrow DEF StartRehash
<1>3. TableOK' /\ CountIsActive'
  BY <1>2, ClearedTable DEF StartRehash
<1> DEFINE left == [n \in 1..size |-> table[n - 1]]
<1>4. left \in Seq(Entry) /\ Len(left) = size /\ \A n \in 1..size : GoodEntry(left[n])
  <2>1. \A n \in 1..size : left[n] \in Entry /\ GoodEntry(left[n])
    BY <1>1 DEF IInv, TableOK, GoodEntry
  <2> QED
    BY <1>1, <2>1
<1>5. GoodFrame(RehashCall(left))
  BY <1>4 DEF GoodFrame, RehashCall, Call
<1>6. StackOK(calls')
  BY <1>5, PushOK DEF StartRehash
<1>7. count' \in Nat /\ saved' \in [Keys -> Data \cup {Null}]
  BY DEF StartRehash, IInv, TypeOK
<1>8. TypeOK' /\ SizeOK'
  BY <1>2, <1>3, <1>6, <1>7 DEF TypeOK, TableOK, StackOK, SizeOK
<1> QED
  BY <1>3, <1>6, <1>8 DEF IInv

(* A step that leaves the table alone and changes the stack only.          *)
LEMMA StackStepInv ==
  ASSUME IInv, size # 0, StackOK(calls'), UNCHANGED <<size, count, table, saved>>
  PROVE  IInv'
<1>1. TableOK' /\ CountIsActive' /\ SizeOK'
  BY DEF IInv, TableOK, CountIsActive, ActiveSlots, SizeOK
<1>2. TypeOK'
  BY DEF IInv, TypeOK, StackOK
<1> QED
  BY <1>1, <1>2 DEF IInv

LEMMA CheckFullInv == IInv /\ CheckFull => IInv'
<1> SUFFICES ASSUME IInv, CheckFull PROVE IInv'
  OBVIOUS
<1> DEFINE checked == Append(Outer, [Running EXCEPT !.fits = TRUE])
<1>1. StackOK(Outer) /\ GoodFrame(Running) /\ size # 0
  BY PopOK DEF CheckFull, IInv, SizeOK, Outer, Running
<1>2. GoodFrame([Running EXCEPT !.fits = TRUE])
  BY <1>1 DEF CheckFull, GoodFrame, Call
<1>3. StackOK(checked) /\ checked # << >>
  BY <1>1, <1>2, PushOK
<1>4. CASE size <= count
  BY <1>3, <1>4, StartRehashInv DEF CheckFull
<1>5. CASE ~(size <= count)
  BY <1>1, <1>3, <1>5, StackStepInv DEF CheckFull
<1> QED
  BY <1>4, <1>5

(* Storing an element makes its slot active: the count follows.            *)
LEMMA StoreInv ==
  ASSUME IInv, size # 0, NEW s \in 0..(size - 1), NEW k \in Keys, NEW d \in Data,
         table' = [table EXCEPT ![s] = [data |-> d, active |-> TRUE, key |-> k]],
         count' = IF table[s].active THEN count ELSE count + 1,
         StackOK(calls'), UNCHANGED <<size, saved>>
  PROVE  IInv'
<1>1. TableOK'
  BY DEF IInv, TableOK, GoodEntry, Entry
<1>2. s \in ActiveSlots <=> table[s].active
  BY DEF IInv, TableOK, ActiveSlots
<1>3. ActiveSlots' = ActiveSlots \cup {s}
  BY DEF IInv, TableOK, ActiveSlots
<1>4. IsFiniteSet(ActiveSlots) /\ Cardinality(ActiveSlots) \in 0..size
  BY ActiveFinite DEF IInv, TableOK, ActiveSlots
<1>5. Cardinality(ActiveSlots') = IF s \in ActiveSlots THEN Cardinality(ActiveSlots)
                                  ELSE Cardinality(ActiveSlots) + 1
  BY <1>3, <1>4, FS_AddElement
<1>6. Cardinality(ActiveSlots') \in 0..size'
  BY <1>1, ActiveFinite DEF TableOK, ActiveSlots
<1>7. count = Cardinality(ActiveSlots)
  BY DEF IInv, CountIsActive
<1>8. CountIsActive' /\ count' \in Nat
  BY <1>2, <1>4, <1>5, <1>6, <1>7 DEF CountIsActive, IInv, TableOK
<1>9. SizeOK'
  BY DEF IInv, SizeOK
<1>10. TypeOK'
  BY <1>1, <1>8 DEF IInv, TypeOK, TableOK, StackOK
<1> QED
  BY <1>1, <1>8, <1>9, <1>10 DEF IInv

LEMMA PlaceElementInv == IInv /\ PlaceElement => IInv'
<1> SUFFICES ASSUME IInv, PlaceElement PROVE IInv'
  OBVIOUS
<1> DEFINE k == Running.key
<1>1. StackOK(Outer) /\ GoodFrame(Running) /\ size # 0
  BY PopOK DEF PlaceElement, IInv, SizeOK, Outer, Running
<1>2. k \in Keys /\ Running.data \in Data
  BY <1>1 DEF PlaceElement, GoodFrame, Call
<1>3. CASE InsertSlot(k) = {}
  BY <1>3, StartRehashInv DEF PlaceElement, IInv
<1>4. CASE InsertSlot(k) # {}
  <2>1. PICK s \in InsertSlot(k) :
          /\ table' = [table EXCEPT ![s] = [data |-> Running.data, active |-> TRUE,
                                            key |-> Running.key]]
          /\ count' = IF table[s].active THEN count ELSE count + 1
          /\ calls' = Outer
          /\ UNCHANGED <<size, saved>>
    BY <1>4 DEF PlaceElement
  <2>2. size \in Nat /\ size >= 1 /\ size % 2 = 1
    BY <1>1 DEF IInv, SizeOK, TableOK
  <2>3. s \in 0..(size - 1)
    BY <1>2, <2>2, SearchEnds DEF InsertSlot
  <2> QED
    BY <1>1, <1>2, <2>1, <2>3, StoreInv
<1> QED
  BY <1>3, <1>4

LEMMA RehashLoopInv == IInv /\ RehashLoop => IInv'
<1> SUFFICES ASSUME IInv, RehashLoop PROVE IInv'
  OBVIOUS
<1>1. StackOK(Outer) /\ GoodFrame(Running) /\ size # 0
  BY PopOK DEF RehashLoop, IInv, SizeOK, Outer, Running
<1>2. CASE Running.left = << >>
  BY <1>1, <1>2, StackStepInv DEF RehashLoop
<1>3. CASE Running.left # << >>
  <2> DEFINE n     == Len(Running.left)
             next  == RehashCall(SubSeq(Running.left, 1, n - 1))
             entry == Running.left[n]
  <2>1. /\ Running.left \in Seq(Entry)
        /\ \A m \in 1..n : GoodEntry(Running.left[m])
    BY <1>1 DEF RehashLoop, GoodFrame, Call
  <2>2. n \in Nat /\ n >= 1
    BY <1>3, <2>1, LenProperties, EmptySeq
  <2>3. GoodEntry(entry)
    BY <2>1, <2>2
  <2>4. /\ SubSeq(Running.left, 1, n - 1) \in Seq(Entry)
        /\ Len(SubSeq(Running.left, 1, n - 1)) = n - 1
        /\ \A m \in 1..(n - 1) : SubSeq(Running.left, 1, n - 1)[m] = Running.left[m]
    <3> HIDE DEF n
    <3> QED
      BY <2>1, <2>2, SubSeqProperties DEF n
  <2>5. GoodFrame(next)
    <3> DEFINE rest == SubSeq(Running.left, 1, n - 1)
    <3>1. 1..(n - 1) \subseteq 1..n
      <4> HIDE DEF n
      <4> QED
        BY <2>2
    <3>2. /\ rest \in Seq(Entry)
          /\ \A m \in 1..Len(rest) : GoodEntry(rest[m])
      <4> HIDE DEF n
      <4> QED
        BY <2>1, <2>4, <3>1
    <3> HIDE DEF rest
    <3> QED
      BY <3>2, RehashCallOK DEF rest
  <2>6. StackOK(Append(Outer, next))
    BY <1>1, <2>5, PushOK
  <2>7. CASE entry.active
    <3>1. GoodFrame(InsertCall(entry.key, entry.data))
      BY <2>3, <2>7 DEF GoodEntry, GoodFrame, InsertCall, Call
    <3>2. StackOK(Append(Append(Outer, next), InsertCall(entry.key, entry.data)))
      BY <2>6, <3>1, PushOK
    <3> QED
      BY <1>1, <1>3, <2>7, <3>2, StackStepInv DEF RehashLoop
  <2>8. CASE ~entry.active
    BY <1>1, <1>3, <2>6, <2>8, StackStepInv DEF RehashLoop
  <2> QED
    BY <2>7, <2>8
<1> QED
  BY <1>2, <1>3

LEMMA CreateInv ==
  ASSUME IInv, NEW n \in StartSizes, hashmapCreate(n)
  PROVE  IInv'
<1>1. size' \in Nat /\ size' # 0 /\ size' % 2 = 1
  <2>1. n \in Nat
    BY HashMapAssumption
  <2>2. CASE n = 0
    BY <2>2 DEF hashmapCreate
  <2>3. CASE n # 0
    <3>1. size' \in NextSizes(n - 2)
      BY <2>3 DEF hashmapCreate
    <3> QED
      BY <2>1, <2>3, <3>1, CreatedSize
  <2> QED
    BY <2>2, <2>3
<1>2. TableOK' /\ CountIsActive'
  BY <1>1, ClearedTable DEF hashmapCreate
<1>3. StackOK(calls') /\ SizeOK'
  BY <1>1 DEF hashmapCreate, IInv, SizeOK, StackOK
<1>4. count' \in Nat /\ saved' \in [Keys -> Data \cup {Null}]
  BY DEF hashmapCreate, IInv, TypeOK
<1>5. TypeOK'
  BY <1>2, <1>3, <1>4 DEF TypeOK, TableOK, StackOK
<1> QED
  BY <1>2, <1>3, <1>5 DEF IInv

LEMMA InsertInv ==
  ASSUME IInv, NEW k \in Keys, NEW d \in Data, hashmapInsert(k, d)
  PROVE  IInv'
<1>1. GoodFrame(InsertCall(k, d))
  BY DEF GoodFrame, InsertCall, Call
<1>2. StackOK(calls')
  BY <1>1 DEF hashmapInsert, StackOK, GoodFrame
<1>3. TableOK' /\ CountIsActive' /\ SizeOK'
  BY DEF hashmapInsert, Idle, IInv, TableOK, CountIsActive, ActiveSlots, SizeOK
<1>4. TypeOK'
  BY <1>2 DEF hashmapInsert, IInv, TypeOK, StackOK
<1> QED
  BY <1>2, <1>3, <1>4 DEF IInv

(* A removal clears at most one flag, that of an active slot.              *)
LEMMA RemoveInv ==
  ASSUME IInv, NEW k \in Keys, hashmapRemove(k)
  PROVE  IInv'
<1> DEFINE R == Removable(k)
<1>1. size \in Nat /\ size >= 1 /\ size % 2 = 1 /\ size # 0
  BY DEF hashmapRemove, Idle, IInv, SizeOK, TableOK
<1>2. R \subseteq ActiveSlots /\ ActiveSlots \subseteq 0..(size - 1)
  BY DEF Removable, ActiveSlots, IInv, TableOK
<1>3. R = {} \/ \E s \in ActiveSlots : R = {s}
  <2> DEFINE stops == KeySlots(k) \cup NullSlots
  <2>1. ASSUME NEW s \in FirstSlot(k, stops) PROVE FirstSlot(k, stops) = {s}
    BY <1>1, SearchEnds
  <2> HIDE DEF stops
  <2>2. R = (FirstSlot(k, stops) \ NullSlots) \cap ActiveSlots
    BY DEF Removable, stops
  <2> QED
    BY <2>1, <2>2
<1>4. TableOK'
  BY DEF hashmapRemove, IInv, TableOK, GoodEntry, Entry
<1>5. ActiveSlots' = ActiveSlots \ R
  BY <1>2 DEF hashmapRemove, IInv, TableOK, ActiveSlots, Entry
<1>6. IsFiniteSet(ActiveSlots) /\ Cardinality(ActiveSlots) \in 0..size
  BY ActiveFinite DEF IInv, TableOK, ActiveSlots
<1>7. Cardinality(ActiveSlots') \in 0..size'
  BY <1>4, ActiveFinite DEF TableOK, ActiveSlots
<1>8. count' = Cardinality(ActiveSlots')
  <2> HIDE DEF R
  <2>1. count = Cardinality(ActiveSlots) /\ count' = count - Cardinality(R)
    BY DEF hashmapRemove, IInv, CountIsActive, R
  <2>2. CASE R = {}
    BY <1>5, <1>6, <2>1, <2>2, FS_EmptySet
  <2>3. ASSUME NEW s \in ActiveSlots, R = {s} PROVE count' = Cardinality(ActiveSlots')
    <3>1. Cardinality(R) = 1
      BY <2>3, FS_Singleton
    <3>2. Cardinality(ActiveSlots \ {s}) = Cardinality(ActiveSlots) - 1
      BY <1>6, FS_RemoveElement
    <3> QED
      BY <1>5, <2>1, <2>3, <3>1, <3>2
  <2> QED
    BY <1>3, <2>2, <2>3
<1>9. CountIsActive' /\ count' \in Nat
  BY <1>4, <1>7, <1>8 DEF CountIsActive, TableOK
<1>10. StackOK(calls') /\ SizeOK'
  BY DEF hashmapRemove, IInv, StackOK, SizeOK
<1>11. saved' \in [Keys -> Data \cup {Null}]
  BY DEF hashmapRemove, IInv, TypeOK
<1>12. TypeOK'
  BY <1>4, <1>9, <1>10, <1>11 DEF TypeOK, TableOK, StackOK
<1> QED
  BY <1>4, <1>9, <1>10, <1>12 DEF IInv

LEMMA DeleteInv == IInv /\ hashmapDelete => IInv'
<1> SUFFICES ASSUME IInv, hashmapDelete PROVE IInv'
  OBVIOUS
<1>1. TableOK' /\ CountIsActive'
  BY ClearedTable DEF hashmapDelete
<1>2. StackOK(calls') /\ SizeOK'
  BY DEF hashmapDelete, Idle, IInv, StackOK, SizeOK
<1>3. TypeOK'
  BY <1>1, <1>2 DEF hashmapDelete, TypeOK, TableOK, StackOK
<1> QED
  BY <1>1, <1>2, <1>3 DEF IInv

(* A step that leaves the map and the history alone.                       *)
LEMMA QueryInv ==
  ASSUME IInv, UNCHANGED <<mapVars, saved>>
  PROVE  IInv'
BY DEF IInv, TypeOK, TableOK, CountIsActive, ActiveSlots, StackOK, SizeOK, mapVars

LEMMA StepInv == IInv /\ [NextAny]_vars => IInv'
<1> SUFFICES ASSUME IInv, [NextAny]_vars PROVE IInv'
  OBVIOUS
<1>1. CASE Internal
  BY <1>1, CheckFullInv, PlaceElementInv, RehashLoopInv DEF Internal
<1>2. ASSUME NEW n \in StartSizes, hashmapCreate(n) PROVE IInv'
  BY <1>2, CreateInv
<1>3. ASSUME NEW k \in Keys, hashmapRemove(k) PROVE IInv'
  BY <1>3, RemoveInv
<1>4. ASSUME NEW k \in Keys, hashmapGet(k) \/ hashmapContains(k) PROVE IInv'
  BY <1>4, QueryInv DEF hashmapGet, hashmapContains
<1>5. CASE hashmapCount
  BY <1>5, QueryInv DEF hashmapCount
<1>6. CASE hashmapDelete
  BY <1>6, DeleteInv
<1>7. ASSUME NEW k \in Keys, NEW d \in Data, hashmapInsert(k, d) PROVE IInv'
  BY <1>7, InsertInv
<1>8. CASE UNCHANGED vars
  BY <1>8, QueryInv DEF vars
<1> QED
  BY <1>1, <1>2, <1>3, <1>4, <1>5, <1>6, <1>7, <1>8 DEF NextAny, OtherCalls

-----------------------------------------------------------------------------
(* The invariant holds of a client that calls the functions in any order.  *)
THEOREM AnyClientInvariance == SpecAny => []IInv
BY InitInv, StepInv, PTL DEF SpecAny

(* So it holds of the careful one.                                         *)
THEOREM Invariance == Spec => []IInv
<1>1. [Next]_vars => [NextAny]_vars
  BY DEF Next, NextAny
<1> QED
  BY <1>1, InitInv, StepInv, PTL DEF Spec

(* Every slot, call and counter keeps its type: in particular the counter  *)
(* is never negative and no call outlives its map.                         *)
THEOREM TypeCorrect == Spec => []TypeOK
BY Invariance, PTL DEF IInv

(* hm->count is the number of active slots at every moment of every call,  *)
(* for every client: rehash, which sets it to 0 and lets the insertions it *)
(* nests count again, ends with the right number.                          *)
THEOREM CountCorrect == Spec => []CountIsActive
BY Invariance, PTL DEF IInv

(* The same for a client that inserts over removed slots.                  *)
THEOREM CountCorrectAny == SpecAny => []CountIsActive
BY AnyClientInvariance, PTL DEF IInv

-----------------------------------------------------------------------------
(***************************************************************************)
(* The map implements the dictionary.  Between the calls the active slots  *)
(* are what the client saved, and each is where a search for its key ends. *)
(* While an insertion runs, the elements are spread over the table, the    *)
(* old tables the rehashes still read and the entries they are inserting.  *)
(***************************************************************************)

(* A search for the key of an active slot gets to it: every slot it looks  *)
(* at before was used, and not for the key.                                *)
Reached ==
  \A s \in ActiveSlots : \A k \in Keys : table[s].key = k =>
    \E i \in 0..(size - 1) :
      /\ Probe(k, i) = s
      /\ \A e \in 0..(i - 1) : \A p \in 0..(size - 1) :
           Probe(k, e) = p => table[p].key # k /\ table[p].data # Null

(* Element d of key k is in the table, or in a call above the client's.    *)
InTable(k, d) == \E s \in ActiveSlots : table[s].key = k /\ table[s].data = d

CarriedBy(f, k, d) ==
  \/ f.op = "insert" /\ f.key = k /\ f.data = d
  \/ /\ f.op = "rehash"
     /\ \E m \in 1..Len(f.left) :
          f.left[m].active /\ f.left[m].key = k /\ f.left[m].data = d

InCalls(k, d) == \E n \in 2..Len(calls) : CarriedBy(calls[n], k, d)

Held(k, d) == InTable(k, d) \/ InCalls(k, d)

(* The client is inserting an element for k.                               *)
Pending(k) == calls # << >> /\ calls[1].key = k

HeldIsSaved ==
  \A k \in Keys, d \in Data : Held(k, d) /\ ~Pending(k) => saved[k] = d

SavedIsHeld ==
  \A k \in Keys : saved[k] # Null /\ ~Pending(k) => Held(k, saved[k])

(* The first call is the client's; what it stores is what the client saved.*)
Bottom ==
  calls # << >> => calls[1].op = "insert" /\ saved[calls[1].key] = calls[1].data

(* Only the client's own insertion ever meets a removed slot, and then the *)
(* table has no element of its key.                                        *)
Fresh ==
  /\ Len(calls) >= 2 => NoTombstones
  /\ Len(calls) = 1 => NoTombstones \/ \A s \in ActiveSlots : table[s].key # calls[1].key

DictInv == Reached /\ HeldIsSaved /\ SavedIsHeld /\ Bottom /\ Fresh

-----------------------------------------------------------------------------
(* The search of hashmapGet and hashmapRemove ends at a reached slot.      *)
LEMMA ReachedFound ==
  ASSUME IInv, Reached, size # 0, NEW s \in ActiveSlots, NEW k \in Keys, table[s].key = k
  PROVE  FirstSlot(k, KeySlots(k) \cup NullSlots) = {s}
<1>1. size \in Nat /\ size >= 1 /\ size % 2 = 1
  BY DEF IInv, SizeOK, TableOK
<1>2. PICK i \in 0..(size - 1) :
        /\ Probe(k, i) = s
        /\ \A e \in 0..(i - 1) : \A p \in 0..(size - 1) :
             Probe(k, e) = p => table[p].key # k /\ table[p].data # Null
  BY DEF Reached
<1>3. s \in KeySlots(k)
  BY DEF KeySlots, ActiveSlots
<1>4. \A e \in 0..(i - 1) : Probe(k, e) \notin KeySlots(k) \cup NullSlots
  BY <1>1, <1>2, ProbeInside DEF KeySlots, NullSlots
<1>5. s \in FirstSlot(k, KeySlots(k) \cup NullSlots)
  BY <1>2, <1>3, <1>4 DEF FirstSlot
<1> QED
  BY <1>1, <1>5, SearchEnds

(* So no two active slots have one key.                                    *)
LEMMA ReachedOnce ==
  ASSUME IInv, Reached, size # 0, NEW s \in ActiveSlots, NEW p \in ActiveSlots,
         NEW k \in Keys, table[s].key = k, table[p].key = k
  PROVE  s = p
<1>1. FirstSlot(k, KeySlots(k) \cup NullSlots) = {s}
  BY ReachedFound
<1>2. FirstSlot(k, KeySlots(k) \cup NullSlots) = {p}
  BY ReachedFound
<1> QED
  BY <1>1, <1>2

(* An active slot holds a key and an element of the client.                *)
LEMMA ActiveEntry ==
  ASSUME IInv, NEW s \in ActiveSlots
  PROVE  s \in 0..(size - 1) /\ table[s].active /\ table[s].key \in Keys
         /\ table[s].data \in Data /\ table[s].data # Null
BY HashMapAssumption DEF IInv, TableOK, ActiveSlots, GoodEntry

(* The probes depend on the size only.                                     *)
LEMMA SameProbe ==
  ASSUME UNCHANGED size, NEW k, NEW i
  PROVE  Probe(k, i)' = Probe(k, i)
BY DEF Probe, StepOf

(* Where an insertion for k ends, if no other slot has the key: all slots  *)
(* before are active with other keys.                                      *)
LEMMA InsertPath ==
  ASSUME IInv, Reached, size # 0, NEW k \in Keys, NEW s \in InsertSlot(k),
         NoTombstones \/ \A p \in ActiveSlots : table[p].key # k
  PROVE  /\ s \in 0..(size - 1)
         /\ table[s].active => table[s].key = k
         /\ \A p \in ActiveSlots : table[p].key = k => p = s
         /\ \E i \in 0..(size - 1) :
              /\ Probe(k, i) = s
              /\ \A e \in 0..(i - 1) : \A p \in 0..(size - 1) :
                   Probe(k, e) = p => p # s /\ table[p].key # k /\ table[p].data # Null
<1> DEFINE stops == KeySlots(k) \cup (DOMAIN table \ ActiveSlots)
<1>1. size \in Nat /\ size >= 1 /\ size % 2 = 1 /\ DOMAIN table = 0..(size - 1)
  BY DEF IInv, SizeOK, TableOK
<1>2. s \in FirstSlot(k, stops)
  BY DEF InsertSlot
<1>3. s \in 0..(size - 1) /\ s \in stops /\ FirstSlot(k, stops) = {s}
  BY <1>1, <1>2, SearchEnds
<1>4. PICK i \in 0..(size - 1) :
        /\ Probe(k, i) = s
        /\ \A e \in 0..(i - 1) : Probe(k, e) \notin stops
  BY <1>2 DEF FirstSlot
<1>5. table[s].active => table[s].key = k
  BY <1>3 DEF KeySlots, ActiveSlots
<1>6. ASSUME NEW p \in 0..(size - 1), p \notin stops
      PROVE  p # s /\ table[p].key # k /\ table[p].data # Null
  <2>1. p \in ActiveSlots /\ p \notin KeySlots(k)
    BY <1>1, <1>6
  <2> QED
    BY <1>1, <1>3, <1>6, <2>1, ActiveEntry DEF KeySlots
<1>7. ASSUME NEW p \in ActiveSlots, table[p].key = k PROVE p = s
  <2>1. NoTombstones
    BY <1>7
  <2>2. stops = KeySlots(k) \cup NullSlots
    <3>1. DOMAIN table \ ActiveSlots = NullSlots
      BY <2>1, ActiveEntry DEF NoTombstones, ActiveSlots, NullSlots
    <3> QED
      BY <3>1
  <2>3. FirstSlot(k, KeySlots(k) \cup NullSlots) = {p}
    BY <1>7, ReachedFound
  <2> HIDE DEF stops
  <2> QED
    BY <1>3, <2>2, <2>3
<1>8. \A e \in 0..(i - 1) : \A p \in 0..(size - 1) :
        Probe(k, e) = p => p # s /\ table[p].key # k /\ table[p].data # Null
  BY <1>4, <1>6
<1> QED
  BY <1>3, <1>4, <1>5, <1>7, <1>8

(* Storing an element where the insertion for its key ends keeps all       *)
(* others within reach.                                                    *)
LEMMA StoreReached ==
  ASSUME IInv, Reached, size # 0, NEW k \in Keys, NEW d \in Data, NEW s \in InsertSlot(k),
         NoTombstones \/ \A p \in ActiveSlots : table[p].key # k,
         table' = [table EXCEPT ![s] = [data |-> d, active |-> TRUE, key |-> k]],
         UNCHANGED size
  PROVE  Reached'
<1>1. /\ s \in 0..(size - 1)
      /\ table[s].active => table[s].key = k
      /\ \A p \in ActiveSlots : table[p].key = k => p = s
  BY InsertPath
<1>2. PICK i \in 0..(size - 1) :
        /\ Probe(k, i) = s
        /\ \A e \in 0..(i - 1) : \A p \in 0..(size - 1) :
             Probe(k, e) = p => p # s /\ table[p].key # k /\ table[p].data # Null
  BY InsertPath
<1>3. DOMAIN table = 0..(size - 1)
  BY DEF IInv, TableOK
<1>4. PICK new : new = table'
  OBVIOUS
<1>5. /\ DOMAIN new = 0..(size - 1)
      /\ new[s].data = d /\ new[s].active /\ new[s].key = k
      /\ \A p \in 0..(size - 1) : p # s => new[p] = table[p]
  BY <1>1, <1>3, <1>4
<1>6. d # Null
  BY HashMapAssumption
<1>7. ASSUME NEW t \in 0..(size - 1), new[t].active, NEW j \in Keys, new[t].key = j
      PROVE  \E h \in 0..(size - 1) :
               /\ Probe(j, h) = t
               /\ \A e \in 0..(h - 1) : \A p \in 0..(size - 1) :
                    Probe(j, e) = p => new[p].key # j /\ new[p].data # Null
  <2>1. CASE t = s
    <3>1. j = k
      BY <1>5, <1>7, <2>1
    <3>2. \A e \in 0..(i - 1) : \A p \in 0..(size - 1) :
            Probe(j, e) = p => new[p].key # j /\ new[p].data # Null
      BY <1>2, <1>5, <3>1
    <3> QED
      BY <1>2, <2>1, <3>1, <3>2
  <2>2. CASE t # s
    <3>1. t \in ActiveSlots /\ table[t].key = j
      BY <1>3, <1>5, <1>7, <2>2 DEF ActiveSlots
    <3>2. j # k
      BY <1>1, <2>2, <3>1
    <3>3. PICK h \in 0..(size - 1) :
            /\ Probe(j, h) = t
            /\ \A e \in 0..(h - 1) : \A p \in 0..(size - 1) :
                 Probe(j, e) = p => table[p].key # j /\ table[p].data # Null
      BY <3>1 DEF Reached
    <3>4. \A e \in 0..(h - 1) : \A p \in 0..(size - 1) :
            Probe(j, e) = p => new[p].key # j /\ new[p].data # Null
      BY <1>5, <1>6, <3>2, <3>3
    <3> QED
      BY <3>3, <3>4
  <2> QED
    BY <2>1, <2>2
<1>8. \A j, h : Probe(j, h)' = Probe(j, h)
  BY SameProbe
<1>9. ActiveSlots' = {t \in 0..(size - 1) : new[t].active}
  BY <1>4, <1>5 DEF ActiveSlots
<1> QED
  BY <1>4, <1>7, <1>8, <1>9 DEF Reached

-----------------------------------------------------------------------------
(* Taking the running call off the stack, and putting another on it.       *)
LEMMA StackShape ==
  ASSUME IInv, calls # << >>
  PROVE  /\ calls \in Seq(Call) /\ Len(calls) \in Nat /\ Len(calls) >= 1
         /\ Outer \in Seq(Call) /\ Len(Outer) = Len(calls) - 1
         /\ \A n \in 1..(Len(calls) - 1) : Outer[n] = calls[n]
         /\ Running = calls[Len(calls)] /\ GoodFrame(Running)
         /\ size # 0
<1> DEFINE n == Len(calls) - 1
<1>1. calls \in Seq(Call) /\ GoodFrame(Running) /\ size # 0
  BY PopOK DEF IInv, StackOK, SizeOK, Running
<1>2. Len(calls) \in Nat /\ Len(calls) >= 1
  BY <1>1, EmptySeq, LenProperties
<1>3. n \in Nat /\ n <= Len(calls)
  BY <1>2
<1>4. /\ SubSeq(calls, 1, n) \in Seq(Call)
      /\ Len(SubSeq(calls, 1, n)) = n
      /\ \A m \in 1..n : SubSeq(calls, 1, n)[m] = calls[m]
  <2> HIDE DEF n
  <2> QED
    BY <1>1, <1>3, SubSeqProperties
<1> QED
  BY <1>1, <1>2, <1>4 DEF Outer, Running

LEMMA PushShape ==
  ASSUME NEW cs \in Seq(Call), NEW f \in Call
  PROVE  /\ Append(cs, f) \in Seq(Call) /\ Append(cs, f) # << >>
         /\ Len(cs) \in Nat /\ Len(Append(cs, f)) = Len(cs) + 1
         /\ \A n \in 1..Len(cs) : Append(cs, f)[n] = cs[n]
         /\ Append(cs, f)[Len(cs) + 1] = f
BY AppendProperties, LenProperties

(* A step of a running insertion that moves elements, but holds the same   *)
(* ones before and after.                                                  *)
LEMMA MoveStep ==
  ASSUME DictInv, Reached', Fresh', calls # << >>, calls' # << >>, UNCHANGED saved,
         calls'[1].op = calls[1].op, calls'[1].key = calls[1].key,
         calls'[1].data = calls[1].data,
         \A k \in Keys, d \in Data : k # calls[1].key => (Held(k, d)' <=> Held(k, d)),
         saved \in [Keys -> Data \cup {Null}]
  PROVE  DictInv'
<1>1. Bottom'
  BY DEF DictInv, Bottom
<1>2. \A k : Pending(k)' <=> Pending(k)
  BY DEF Pending
<1>3. \A k : ~Pending(k) => k # calls[1].key
  BY DEF Pending
<1>4. HeldIsSaved'
  <2> SUFFICES ASSUME NEW k \in Keys, NEW d \in Data, Held(k, d)', ~Pending(k)'
               PROVE  saved'[k] = d
    BY DEF HeldIsSaved
  <2>1. Held(k, d) /\ ~Pending(k)
    BY <1>2, <1>3
  <2> QED
    BY <2>1 DEF DictInv, HeldIsSaved
<1>5. SavedIsHeld'
  <2> SUFFICES ASSUME NEW k \in Keys, saved'[k] # Null, ~Pending(k)'
               PROVE  Held(k, saved[k])'
    BY DEF SavedIsHeld
  <2>1. saved[k] \in Data /\ saved'[k] = saved[k] /\ ~Pending(k)
    BY <1>2
  <2>2. PICK d \in Data : d = saved[k]
    BY <2>1
  <2>3. Held(k, d)
    BY <2>1, <2>2 DEF DictInv, SavedIsHeld
  <2>4. Held(k, d)'
    BY <1>3, <2>1, <2>3
  <2> QED
    BY <2>1, <2>2, <2>4 DEF Held, InTable, InCalls, CarriedBy
<1> QED
  BY <1>1, <1>4, <1>5 DEF DictInv

(* rehash() takes the elements out of the table and carries them itself.   *)
LEMMA StartRehashDict ==
  ASSUME IInv, DictInv, NEW pending \in Seq(Call), Len(pending) = Len(calls), calls # << >>,
         \A n \in 1..Len(calls) :
           /\ pending[n].op = calls[n].op
           /\ \A k, d : CarriedBy(pending[n], k, d) <=> CarriedBy(calls[n], k, d),
         pending[1].key = calls[1].key, pending[1].data = calls[1].data,
         StartRehash(pending), UNCHANGED saved
  PROVE  DictInv'
<1> DEFINE left == [n \in 1..size |-> table[n - 1]]
<1>1. /\ size \in Nat /\ size >= 1
      /\ table \in [0..(size - 1) -> Entry]
      /\ calls \in Seq(Call) /\ Len(calls) \in Nat /\ Len(calls) >= 1
      /\ saved \in [Keys -> Data \cup {Null}]
  BY StackShape DEF IInv, TableOK, TypeOK
<1>2. left \in Seq(Entry) /\ Len(left) = size /\ \A n \in 1..size : left[n] = table[n - 1]
  BY <1>1
<1>3. RehashCall(left) \in Call
  BY <1>2 DEF RehashCall, Call
<1>4. /\ size' \in Nat /\ table' = Cleared(size') /\ calls' = Append(pending, RehashCall(left))
  BY <1>1, SizesGrow DEF StartRehash
<1>5. /\ calls' # << >> /\ Len(calls') = Len(calls) + 1
      /\ \A n \in 1..Len(calls) : calls'[n] = pending[n]
      /\ calls'[Len(calls) + 1] = RehashCall(left)
  <2> HIDE DEF left
  <2> QED
    BY <1>3, <1>4, PushShape
<1>6. \A s \in 0..(size' - 1) : table'[s].data = Null /\ ~table'[s].active
  BY <1>4 DEF Cleared
<1>7. ActiveSlots' = {} /\ NoTombstones' /\ DOMAIN table' = 0..(size' - 1)
  BY <1>4, <1>6 DEF ActiveSlots, NoTombstones, Cleared
<1>8. Reached' /\ Fresh'
  BY <1>1, <1>5, <1>7 DEF Reached, Fresh
<1>9. ASSUME NEW k \in Keys, NEW d \in Data PROVE Held(k, d)' <=> Held(k, d)
  <2>1. CarriedBy(RehashCall(left), k, d) <=> InTable(k, d)
    <3>1. CarriedBy(RehashCall(left), k, d) <=>
            \E m \in 1..size : table[m - 1].active /\ table[m - 1].key = k /\ table[m - 1].data = d
      <4> HIDE DEF left
      <4>1. RehashCall(left).op = "rehash" /\ RehashCall(left).left = left
        BY DEF RehashCall
      <4>2. PICK f : f = RehashCall(left)
        OBVIOUS
      <4>3. CarriedBy(f, k, d) <=>
              \E m \in 1..Len(left) : left[m].active /\ left[m].key = k /\ left[m].data = d
        BY <4>1, <4>2 DEF CarriedBy
      <4> QED
        BY <1>2, <4>2, <4>3
    <3>2. InTable(k, d) <=>
            \E s \in 0..(size - 1) : table[s].active /\ table[s].key = k /\ table[s].data = d
      BY <1>1 DEF InTable, ActiveSlots
    <3>3. ASSUME NEW s \in 0..(size - 1) PROVE s + 1 \in 1..size /\ (s + 1) - 1 = s
      BY <1>1
    <3>4. ASSUME NEW m \in 1..size PROVE m - 1 \in 0..(size - 1)
      BY <1>1
    <3> QED
      BY <3>1, <3>2, <3>3, <3>4
  <2>2. ~InTable(k, d)'
    BY <1>7 DEF InTable
  <2>3. PICK cs : cs = calls'
    OBVIOUS
  <2>4. InCalls(k, d)' <=> \E n \in 2..Len(cs) : CarriedBy(cs[n], k, d)
    BY <2>3 DEF InCalls, CarriedBy
  <2>5. /\ Len(cs) = Len(calls) + 1 /\ cs[Len(calls) + 1] = RehashCall(left)
        /\ \A n \in 1..Len(calls) : CarriedBy(cs[n], k, d) <=> CarriedBy(calls[n], k, d)
    <3> HIDE DEF left
    <3> QED
      BY <1>5, <2>3
  <2>6. InCalls(k, d)' <=> InCalls(k, d) \/ CarriedBy(RehashCall(left), k, d)
    <3>1. InCalls(k, d) <=> \E n \in 2..Len(calls) : CarriedBy(calls[n], k, d)
      BY DEF InCalls
    <3> HIDE DEF left
    <3>2. PICK h : h = Len(calls)
      OBVIOUS
    <3>3. PICK f : f = RehashCall(left)
      OBVIOUS
    <3>4. (\E n \in 2..(h + 1) : CarriedBy(cs[n], k, d)) <=>
            (\E n \in 2..h : CarriedBy(cs[n], k, d)) \/ CarriedBy(f, k, d)
      <4>1. cs[h + 1] = f /\ h + 1 \in 2..(h + 1) /\ h \in Nat
        BY <1>1, <2>5, <3>2, <3>3
      <4>2. \A n : n \in 2..(h + 1) <=> n \in 2..h \/ n = h + 1
        BY <1>1, <4>1, <3>2
      <4> QED
        BY <4>1, <4>2
    <3>5. \A n \in 2..h : CarriedBy(cs[n], k, d) <=> CarriedBy(calls[n], k, d)
      BY <1>1, <2>5, <3>2
    <3> QED
      BY <2>4, <2>5, <3>1, <3>2, <3>3, <3>4, <3>5
  <2> QED
    BY <2>1, <2>2, <2>6 DEF Held
<1>10. /\ calls'[1].op = calls[1].op /\ calls'[1].key = calls[1].key
       /\ calls'[1].data = calls[1].data
  BY <1>1, <1>5
<1> QED
  BY <1>1, <1>5, <1>8, <1>9, <1>10, MoveStep

LEMMA CheckFullDict == IInv /\ DictInv /\ CheckFull => DictInv'
<1> SUFFICES ASSUME IInv, DictInv, CheckFull PROVE DictInv'
  OBVIOUS
<1> DEFINE n       == Len(calls)
           top     == [Running EXCEPT !.fits = TRUE]
           checked == Append(Outer, top)
<1>1. /\ calls \in Seq(Call) /\ n \in Nat /\ n >= 1
      /\ Outer \in Seq(Call) /\ Len(Outer) = n - 1
      /\ \A m \in 1..(n - 1) : Outer[m] = calls[m]
      /\ Running = calls[n] /\ GoodFrame(Running) /\ calls # << >>
  BY StackShape DEF CheckFull
<1>2. /\ top \in Call
      /\ top.op = Running.op /\ top.key = Running.key /\ top.data = Running.data
      /\ Running.op = "insert"
  BY <1>1 DEF CheckFull, GoodFrame, Call
<1> HIDE DEF top, n
<1>3. /\ checked \in Seq(Call) /\ Len(checked) = n /\ checked # << >>
      /\ \A m \in 1..(n - 1) : checked[m] = calls[m]
      /\ checked[n] = top
  BY <1>1, <1>2, PushShape
<1> HIDE DEF checked
<1>4. /\ \A m \in 1..n :
           /\ checked[m].op = calls[m].op
           /\ \A k, d : CarriedBy(checked[m], k, d) <=> CarriedBy(calls[m], k, d)
      /\ checked[1].key = calls[1].key /\ checked[1].data = calls[1].data
  <2>1. ASSUME NEW m \in 1..n
        PROVE  /\ checked[m].op = calls[m].op
               /\ \A k, d : CarriedBy(checked[m], k, d) <=> CarriedBy(calls[m], k, d)
    <3>1. CASE m = n
      BY <1>1, <1>2, <1>3, <3>1 DEF CarriedBy
    <3>2. CASE m # n
      BY <1>1, <1>3, <3>2
    <3> QED
      BY <3>1, <3>2
  <2>2. checked[1].key = calls[1].key /\ checked[1].data = calls[1].data
    BY <1>1, <1>2, <1>3
  <2> QED
    BY <2>1, <2>2
<1>5. CASE size <= count
  <2>1. StartRehash(checked) /\ UNCHANGED saved
    BY <1>5 DEF CheckFull, checked, top
  <2> QED
    BY <1>1, <1>3, <1>4, <2>1, StartRehashDict DEF n
<1>6. CASE ~(size <= count)
  <2>1. calls' = checked /\ UNCHANGED <<size, count, table, saved>>
    BY <1>6 DEF CheckFull, checked, top
  <2>2. Reached'
    BY <2>1, SameProbe DEF DictInv, Reached, ActiveSlots
  <2>3. Fresh'
    BY <1>1, <1>3, <1>4, <2>1 DEF DictInv, Fresh, NoTombstones, ActiveSlots, n
  <2>4. ASSUME NEW k \in Keys, NEW d \in Data PROVE Held(k, d)' <=> Held(k, d)
    <3>1. InTable(k, d)' <=> InTable(k, d)
      BY <2>1 DEF InTable, ActiveSlots
    <3>2. InCalls(k, d)' <=> \E m \in 2..Len(checked) : CarriedBy(checked[m], k, d)
      BY <2>1 DEF InCalls, CarriedBy
    <3>3. InCalls(k, d) <=> \E m \in 2..n : CarriedBy(calls[m], k, d)
      BY DEF InCalls, n
    <3>4. InCalls(k, d)' <=> InCalls(k, d)
      BY <1>1, <1>3, <1>4, <3>2, <3>3
    <3> QED
      BY <3>1, <3>4 DEF Held
  <2>5. /\ calls'[1].op = calls[1].op /\ calls'[1].key = calls[1].key
        /\ calls'[1].data = calls[1].data
    BY <1>1, <1>4, <2>1
  <2>6. saved \in [Keys -> Data \cup {Null}]
    BY DEF IInv, TypeOK
  <2> QED
    BY <1>1, <1>3, <2>1, <2>2, <2>3, <2>4, <2>5, <2>6, MoveStep
<1> QED
  BY <1>5, <1>6

(* An element goes from the call into the table; the client's own one at   *)
(* the end.                                                                *)
LEMMA StoreNested ==
  ASSUME IInv, DictInv, calls # << >>, Len(calls) >= 2, Running.op = "insert",
         NEW s \in InsertSlot(Running.key),
         table' = [table EXCEPT ![s] = [data |-> Running.data, active |-> TRUE,
                                        key |-> Running.key]],
         calls' = Outer, UNCHANGED <<size, saved>>
  PROVE  DictInv'
<1> DEFINE n == Len(calls)
<1>1. /\ calls \in Seq(Call) /\ n \in Nat /\ n >= 2
      /\ Outer \in Seq(Call) /\ Len(Outer) = n - 1
      /\ \A m \in 1..(n - 1) : Outer[m] = calls[m]
      /\ Running = calls[n] /\ GoodFrame(Running) /\ size # 0
  BY StackShape
<1> HIDE DEF n
<1>2. Running.key \in Keys /\ Running.data \in Data
  BY <1>1 DEF GoodFrame, Call
<1>3. PICK j \in Keys : j = Running.key
  BY <1>2
<1>4. PICK b \in Data : b = Running.data
  BY <1>2
<1>5. NoTombstones
  BY DEF DictInv, Fresh
<1>6. /\ s \in 0..(size - 1)
      /\ table[s].active => table[s].key = j
      /\ \A p \in ActiveSlots : table[p].key = j => p = s
  BY <1>1, <1>2, <1>3, <1>5, InsertPath DEF DictInv
<1>7. Reached'
  BY <1>1, <1>2, <1>5, StoreReached DEF DictInv
<1>8. PICK new : new = table'
  OBVIOUS
<1>9. /\ DOMAIN table = 0..(size - 1) /\ DOMAIN new = 0..(size - 1)
      /\ new[s].data = b /\ new[s].active /\ new[s].key = j
      /\ \A p \in 0..(size - 1) : p # s => new[p] = table[p]
  BY <1>3, <1>4, <1>6, <1>8 DEF IInv, TableOK
<1>10. NoTombstones'
  BY <1>5, <1>8, <1>9 DEF NoTombstones
<1>11. Fresh'
  BY <1>10 DEF Fresh
<1>12. /\ calls' # << >> /\ calls'[1] = calls[1]
  BY <1>1
<1>13. ASSUME NEW k \in Keys, NEW d \in Data, k # calls[1].key
       PROVE  Held(k, d)' <=> Held(k, d)
  <2>1. InTable(k, d)' <=> \E p \in 0..(size - 1) : new[p].active /\ new[p].key = k /\ new[p].data = d
    BY <1>8, <1>9 DEF InTable, ActiveSlots
  <2>2. InTable(k, d) <=>
          \E p \in 0..(size - 1) : table[p].active /\ table[p].key = k /\ table[p].data = d
    BY <1>9 DEF InTable, ActiveSlots
  <2>3. InCalls(k, d)' <=> \E m \in 2..(n - 1) : CarriedBy(calls[m], k, d)
    <3>1. InCalls(k, d)' <=> \E m \in 2..Len(Outer) : CarriedBy(Outer[m], k, d)
      BY DEF InCalls, CarriedBy
    <3> QED
      BY <1>1, <3>1
  <2>4. InCalls(k, d) <=> \E m \in 2..n : CarriedBy(calls[m], k, d)
    BY DEF InCalls, n
  <2>5. CarriedBy(calls[n], k, d) <=> k = j /\ d = b
    BY <1>1, <1>3, <1>4 DEF CarriedBy
  <2>6. InCalls(k, d) <=> InCalls(k, d)' \/ (k = j /\ d = b)
    <3>1. \A m : m \in 2..n <=> m \in 2..(n - 1) \/ m = n
      BY <1>1
    <3> QED
      BY <2>3, <2>4, <2>5, <3>1
  <2>7. ASSUME k = j, table[s].active PROVE table[s].data = b
    <3>1. s \in ActiveSlots /\ table[s].key = k
      BY <1>6, <1>9, <2>7 DEF ActiveSlots
    <3>2. PICK a \in Data : a = table[s].data
      BY <3>1, ActiveEntry
    <3>3. Held(k, a)
      BY <3>1, <3>2 DEF Held, InTable
    <3>4. Held(k, b)
      <4>1. CarriedBy(calls[n], k, b)
        BY <1>1, <1>3, <1>4, <2>7 DEF CarriedBy
      <4>2. \E m \in 2..Len(calls) : CarriedBy(calls[m], k, b)
        BY <1>1, <4>1 DEF n
      <4> QED
        BY <4>2 DEF Held, InCalls
    <3>5. ~Pending(k)
      BY <1>13 DEF Pending
    <3> QED
      BY <3>2, <3>3, <3>4, <3>5 DEF DictInv, HeldIsSaved
  <2>8. InTable(k, d)' <=> InTable(k, d) \/ (k = j /\ d = b)
    BY <1>6, <1>9, <2>1, <2>2, <2>7
  <2>9. Held(k, d) <=> InTable(k, d) \/ InCalls(k, d)
    BY DEF Held
  <2>10. Held(k, d)' <=> InTable(k, d)' \/ InCalls(k, d)'
    BY DEF Held
  <2> QED
    BY <2>6, <2>8, <2>9, <2>10
<1>14. saved \in [Keys -> Data \cup {Null}]
  BY DEF IInv, TypeOK
<1> QED
  BY <1>7, <1>11, <1>12, <1>13, <1>14, MoveStep

LEMMA StoreLast ==
  ASSUME IInv, DictInv, calls # << >>, Len(calls) = 1, Running.op = "insert",
         NEW s \in InsertSlot(Running.key),
         table' = [table EXCEPT ![s] = [data |-> Running.data, active |-> TRUE,
                                        key |-> Running.key]],
         calls' = Outer, UNCHANGED <<size, saved>>
  PROVE  DictInv'
<1>1. /\ calls \in Seq(Call) /\ Len(Outer) = 0 /\ Outer \in Seq(Call)
      /\ Running = calls[1] /\ GoodFrame(Running) /\ size # 0
  BY StackShape
<1>2. Running.key \in Keys /\ Running.data \in Data
  BY <1>1 DEF GoodFrame, Call
<1>3. PICK j \in Keys : j = Running.key
  BY <1>2
<1>4. PICK b \in Data : b = Running.data
  BY <1>2
<1>5. NoTombstones \/ \A p \in ActiveSlots : table[p].key # j
  BY <1>1, <1>3 DEF DictInv, Fresh
<1>6. /\ s \in 0..(size - 1)
      /\ table[s].active => table[s].key = j
      /\ \A p \in ActiveSlots : table[p].key = j => p = s
  BY <1>1, <1>3, <1>5, InsertPath DEF DictInv
<1>7. Reached'
  BY <1>1, <1>2, <1>3, <1>5, StoreReached DEF DictInv
<1>8. PICK new : new = table'
  OBVIOUS
<1>9. /\ DOMAIN table = 0..(size - 1) /\ DOMAIN new = 0..(size - 1)
      /\ new[s].data = b /\ new[s].active /\ new[s].key = j
      /\ \A p \in 0..(size - 1) : p # s => new[p] = table[p]
  BY <1>3, <1>4, <1>6, <1>8 DEF IInv, TableOK
<1>10. calls' = << >>
  BY <1>1, EmptySeq
<1>11. saved[j] = b /\ b # Null
  BY <1>1, <1>3, <1>4, HashMapAssumption DEF DictInv, Bottom
<1>12. ASSUME NEW k, NEW d
       PROVE  Held(k, d)' <=>
                \E p \in 0..(size - 1) : new[p].active /\ new[p].key = k /\ new[p].data = d
  <2>1. ~InCalls(k, d)'
    BY <1>10 DEF InCalls
  <2>2. InTable(k, d)' <=>
          \E p \in 0..(size - 1) : new[p].active /\ new[p].key = k /\ new[p].data = d
    BY <1>8, <1>9 DEF InTable, ActiveSlots
  <2>3. Held(k, d)' <=> InTable(k, d)' \/ InCalls(k, d)'
    BY DEF Held
  <2> QED
    BY <2>1, <2>2, <2>3
<1>13. HeldIsSaved'
  <2>1. ASSUME NEW k \in Keys, NEW d \in Data, Held(k, d)' PROVE saved[k] = d
    <3>1. PICK p \in 0..(size - 1) : new[p].active /\ new[p].key = k /\ new[p].data = d
      BY <1>12, <2>1
    <3>2. CASE p = s
      BY <1>9, <1>11, <3>1, <3>2
    <3>3. CASE p # s
      <4>1. p \in ActiveSlots /\ table[p].key = k /\ table[p].data = d
        BY <1>9, <3>1, <3>3 DEF ActiveSlots
      <4>2. k # j
        BY <1>6, <3>3, <4>1
      <4>3. Held(k, d) /\ ~Pending(k)
        BY <1>1, <1>3, <4>1, <4>2 DEF Held, InTable, Pending
      <4> QED
        BY <4>3 DEF DictInv, HeldIsSaved
    <3> QED
      BY <3>2, <3>3
  <2> QED
    BY <2>1 DEF HeldIsSaved
<1>14. SavedIsHeld'
  <2>1. ASSUME NEW k \in Keys, saved[k] # Null, NEW d \in Data, saved[k] = d PROVE Held(k, d)'
    <3>1. CASE k = j
      <4>1. d = b
        BY <1>11, <2>1, <3>1
      <4> QED
        BY <1>6, <1>9, <1>12, <3>1, <4>1
    <3>2. CASE k # j
      <4>1. Held(k, d)
        BY <1>1, <1>3, <2>1, <3>2 DEF DictInv, SavedIsHeld, Pending
      <4>2. ~InCalls(k, d)
        BY DEF InCalls
      <4>3. PICK p \in 0..(size - 1) :
              table[p].active /\ table[p].key = k /\ table[p].data = d
        BY <1>9, <4>1, <4>2 DEF Held, InTable, ActiveSlots
      <4>4. p # s
        BY <1>6, <3>2, <4>3
      <4> QED
        BY <1>9, <1>12, <4>3, <4>4
    <3> QED
      BY <3>1, <3>2
  <2>2. saved \in [Keys -> Data \cup {Null}]
    BY DEF IInv, TypeOK
  <2> SUFFICES ASSUME NEW k \in Keys, saved'[k] # Null
               PROVE  Held(k, saved[k])'
    BY DEF SavedIsHeld
  <2>3. PICK d \in Data : d = saved[k]
    BY <2>2
  <2>4. Held(k, d)' /\ d = saved'[k]
    BY <2>1, <2>3
  <2> QED
    BY <2>4 DEF Held, InTable, InCalls, CarriedBy
<1>15. Bottom' /\ Fresh'
  BY <1>10 DEF Bottom, Fresh
<1> QED
  BY <1>7, <1>13, <1>14, <1>15 DEF DictInv

LEMMA PlaceElementDict == IInv /\ DictInv /\ PlaceElement => DictInv'
<1> SUFFICES ASSUME IInv, DictInv, PlaceElement PROVE DictInv'
  OBVIOUS
<1>1. /\ calls \in Seq(Call) /\ Len(calls) \in Nat /\ Len(calls) >= 1
      /\ calls # << >> /\ Running.op = "insert" /\ UNCHANGED saved
  BY StackShape DEF PlaceElement
<1>2. CASE InsertSlot(Running.key) = {}
  <2>1. StartRehash(calls)
    BY <1>2 DEF PlaceElement
  <2> QED
    BY <1>1, <2>1, StartRehashDict
<1>3. CASE InsertSlot(Running.key) # {}
  <2>1. PICK s \in InsertSlot(Running.key) :
          /\ table' = [table EXCEPT ![s] = [data |-> Running.data, active |-> TRUE,
                                            key |-> Running.key]]
          /\ calls' = Outer
          /\ UNCHANGED size
    BY <1>3 DEF PlaceElement
  <2>2. CASE Len(calls) = 1
    BY <1>1, <2>1, <2>2, StoreLast
  <2>3. CASE Len(calls) # 1
    <3>1. Len(calls) >= 2
      <4>1. PICK h \in Nat : h = Len(calls) /\ h >= 1
        BY <1>1
      <4>2. h # 1
        BY <2>3, <4>1
      <4>3. h >= 2
        BY <4>1, <4>2
      <4> QED
        BY <4>1, <4>3
    <3> QED
      BY <1>1, <2>1, <3>1, StoreNested
  <2> QED
    BY <2>2, <2>3
<1> QED
  BY <1>2, <1>3

(* The loop of rehash hands the next element to an insertion, skips a slot *)
(* that is not active, or ends.                                            *)
LEMMA RehashLoopDict == IInv /\ DictInv /\ RehashLoop => DictInv'
<1> SUFFICES ASSUME IInv, DictInv, RehashLoop PROVE DictInv'
  OBVIOUS
<1>1. PICK n \in Nat : n = Len(calls)
  BY StackShape DEF RehashLoop
<1>2. /\ calls \in Seq(Call) /\ calls # << >> /\ n >= 1
      /\ Outer \in Seq(Call) /\ Len(Outer) = n - 1
      /\ \A m \in 1..(n - 1) : Outer[m] = calls[m]
      /\ Running = calls[n] /\ GoodFrame(Running) /\ Running.op = "rehash"
  BY <1>1, StackShape DEF RehashLoop
<1>3. n >= 2
  <2>1. calls[1].op = "insert"
    BY <1>2 DEF DictInv, Bottom
  <2>2. n # 1
    BY <1>2, <2>1
  <2> QED
    BY <1>2, <2>2
<1>4. UNCHANGED <<size, count, table, saved>>
  BY DEF RehashLoop
<1>5. NoTombstones
  BY <1>1, <1>3 DEF DictInv, Fresh
<1>6. Reached' /\ Fresh'
  <2>1. Reached'
    BY <1>4, SameProbe DEF DictInv, Reached, ActiveSlots
  <2>2. NoTombstones'
    BY <1>4, <1>5 DEF NoTombstones
  <2> QED
    BY <2>1, <2>2 DEF Fresh
<1>7. saved \in [Keys -> Data \cup {Null}]
  BY DEF IInv, TypeOK
<1>8. ASSUME NEW k, NEW d
      PROVE  /\ InTable(k, d)' <=> InTable(k, d)
             /\ InCalls(k, d) <=> \/ \E m \in 2..(n - 1) : CarriedBy(calls[m], k, d)
                                  \/ CarriedBy(Running, k, d)
  <2>1. InTable(k, d)' <=> InTable(k, d)
    BY <1>4 DEF InTable, ActiveSlots
  <2>2. InCalls(k, d) <=> \E m \in 2..n : CarriedBy(calls[m], k, d)
    BY <1>1 DEF InCalls
  <2>3. \A m : m \in 2..n <=> m \in 2..(n - 1) \/ m = n
    BY <1>3
  <2>4. (\E m \in 2..n : CarriedBy(calls[m], k, d)) <=>
           (\E m \in 2..(n - 1) : CarriedBy(calls[m], k, d)) \/ CarriedBy(calls[n], k, d)
    BY <2>3
  <2> QED
    BY <1>2, <2>1, <2>2, <2>4
<1>9. CASE Running.left = << >>
  <2>1. calls' = Outer
    BY <1>9 DEF RehashLoop
  <2>2. calls' # << >> /\ calls'[1] = calls[1]
    BY <1>2, <1>3, <2>1
  <2>3. ASSUME NEW k \in Keys, NEW d \in Data PROVE Held(k, d)' <=> Held(k, d)
    <3>1. ~CarriedBy(Running, k, d)
      BY <1>2, <1>9 DEF CarriedBy
    <3>2. InCalls(k, d)' <=> \E m \in 2..Len(Outer) : CarriedBy(Outer[m], k, d)
      BY <2>1 DEF InCalls, CarriedBy
    <3>3. InCalls(k, d)' <=> \E m \in 2..(n - 1) : CarriedBy(calls[m], k, d)
      BY <1>2, <3>2
    <3>4. Held(k, d)' <=> InTable(k, d)' \/ InCalls(k, d)'
      BY DEF Held
    <3>5. Held(k, d) <=> InTable(k, d) \/ InCalls(k, d)
      BY DEF Held
    <3> QED
      BY <1>8, <3>1, <3>3, <3>4, <3>5
  <2> QED
    BY <1>2, <1>4, <1>6, <1>7, <2>2, <2>3, MoveStep
<1>10. CASE Running.left # << >>
  <2>1. PICK left : left = Running.left
    OBVIOUS
  <2>2. left \in Seq(Entry) /\ left # << >> /\ \A m \in 1..Len(left) : GoodEntry(left[m])
    BY <1>2, <1>10, <2>1 DEF GoodFrame, Call
  <2>3. PICK h \in Nat : h = Len(left) /\ h >= 1
    BY <2>2, EmptySeq, LenProperties
  <2>4. PICK entry : entry = left[h]
    OBVIOUS
  <2>5. PICK rest : rest = SubSeq(left, 1, h - 1)
    OBVIOUS
  <2>6. /\ rest \in Seq(Entry) /\ Len(rest) = h - 1
        /\ \A m \in 1..(h - 1) : rest[m] = left[m]
    BY <2>2, <2>3, <2>5, SubSeqProperties
  <2>7. PICK next : next = RehashCall(rest)
    OBVIOUS
  <2>8. next \in Call
    BY <2>6, <2>7 DEF RehashCall, Call
  <2>9. GoodEntry(entry)
    BY <2>2, <2>3, <2>4
  <2>10. calls' = IF entry.active
                  THEN Append(Append(Outer, next), InsertCall(entry.key, entry.data))
                  ELSE Append(Outer, next)
    BY <1>10, <2>1, <2>3, <2>4, <2>5, <2>7 DEF RehashLoop
  <2>11. PICK cs : cs = Append(Outer, next)
    OBVIOUS
  <2>12. /\ cs \in Seq(Call) /\ cs # << >> /\ Len(cs) = n
         /\ \A m \in 1..(n - 1) : cs[m] = calls[m]
         /\ cs[n] = next
    BY <1>2, <2>8, <2>11, PushShape
  <2>13. ASSUME NEW k, NEW d
         PROVE  CarriedBy(Running, k, d) <=>
                  \/ CarriedBy(next, k, d)
                  \/ entry.active /\ entry.key = k /\ entry.data = d
    <3>1. CarriedBy(Running, k, d) <=>
            \E m \in 1..h : left[m].active /\ left[m].key = k /\ left[m].data = d
      BY <1>2, <2>1, <2>3 DEF CarriedBy
    <3>2. CarriedBy(next, k, d) <=>
            \E m \in 1..(h - 1) : rest[m].active /\ rest[m].key = k /\ rest[m].data = d
      <4>1. next.op = "rehash" /\ next.left = rest
        BY <2>7 DEF RehashCall
      <4> QED
        BY <2>6, <4>1 DEF CarriedBy
    <3>3. \A m : m \in 1..h <=> m \in 1..(h - 1) \/ m = h
      BY <2>3
    <3> QED
      BY <2>4, <2>6, <3>1, <3>2, <3>3
  <2>14. ASSUME NEW k, NEW d
         PROVE  (\E m \in 2..n : CarriedBy(cs[m], k, d)) <=>
                  (\E m \in 2..(n - 1) : CarriedBy(calls[m], k, d)) \/ CarriedBy(next, k, d)
    <3>1. \A m : m \in 2..n <=> m \in 2..(n - 1) \/ m = n
      BY <1>3
    <3> QED
      BY <2>12, <3>1
  <2>15. CASE ~entry.active
    <3>1. calls' = cs
      BY <2>10, <2>11, <2>15
    <3>2. calls' # << >> /\ calls'[1] = calls[1]
      BY <1>3, <2>12, <3>1
    <3>3. ASSUME NEW k \in Keys, NEW d \in Data PROVE Held(k, d)' <=> Held(k, d)
      <4>1. InCalls(k, d)' <=> \E m \in 2..n : CarriedBy(cs[m], k, d)
        BY <2>12, <3>1 DEF InCalls, CarriedBy
      <4>2. Held(k, d)' <=> InTable(k, d)' \/ InCalls(k, d)'
        BY DEF Held
      <4>3. Held(k, d) <=> InTable(k, d) \/ InCalls(k, d)
        BY DEF Held
      <4> QED
        BY <1>8, <2>13, <2>14, <2>15, <4>1, <4>2, <4>3
    <3> QED
      BY <1>2, <1>4, <1>6, <1>7, <3>2, <3>3, MoveStep
  <2>16. CASE entry.active
    <3>1. PICK top : top = InsertCall(entry.key, entry.data)
      OBVIOUS
    <3>2. top \in Call /\ top.op = "insert" /\ top.key = entry.key /\ top.data = entry.data
      BY <2>9, <2>16, <3>1 DEF GoodEntry, InsertCall, Call
    <3>3. calls' = Append(cs, top)
      BY <2>10, <2>11, <2>16, <3>1
    <3>4. PICK new : new = calls'
      OBVIOUS
    <3>5. /\ new # << >> /\ Len(new) = n + 1
          /\ \A m \in 1..n : new[m] = cs[m]
          /\ new[n + 1] = top
      BY <2>12, <3>2, <3>3, <3>4, PushShape
    <3>6. calls' # << >> /\ calls'[1] = calls[1]
      BY <1>3, <2>12, <3>4, <3>5
    <3>7. ASSUME NEW k \in Keys, NEW d \in Data PROVE Held(k, d)' <=> Held(k, d)
      <4>1. InCalls(k, d)' <=> \E m \in 2..(n + 1) : CarriedBy(new[m], k, d)
        BY <3>4, <3>5 DEF InCalls, CarriedBy
      <4>2. CarriedBy(top, k, d) <=> entry.key = k /\ entry.data = d
        BY <3>2 DEF CarriedBy
      <4>3. \A m : m \in 2..(n + 1) <=> m \in 2..n \/ m = n + 1
        BY <1>3
      <4>4. InCalls(k, d)' <=> (\E m \in 2..n : CarriedBy(cs[m], k, d)) \/ CarriedBy(top, k, d)
        <5>1. \A m \in 2..n : new[m] = cs[m]
          BY <3>5
        <5> QED
          BY <3>5, <4>1, <4>3, <5>1
      <4>5. Held(k, d)' <=> InTable(k, d)' \/ InCalls(k, d)'
        BY DEF Held
      <4>6. Held(k, d) <=> InTable(k, d) \/ InCalls(k, d)
        BY DEF Held
      <4> QED
        BY <1>8, <2>13, <2>14, <2>16, <4>2, <4>4, <4>5, <4>6
    <3> QED
      BY <1>2, <1>4, <1>6, <1>7, <3>6, <3>7, MoveStep
  <2> QED
    BY <2>15, <2>16
<1> QED
  BY <1>9, <1>10

(* Between the calls: the active slots are what the client saved.          *)
LEMMA IdleHeld ==
  ASSUME IInv, DictInv, calls = << >>
  PROVE  /\ \A s \in ActiveSlots : table[s].key \in Keys /\ saved[table[s].key] = table[s].data
         /\ \A k \in Keys : saved[k] # Null =>
              \E s \in ActiveSlots : table[s].key = k /\ table[s].data = saved[k]
<1>1. \A k, d : Held(k, d) <=> InTable(k, d)
  BY DEF Held, InCalls
<1>2. \A k : ~Pending(k)
  BY DEF Pending
<1>3. ASSUME NEW s \in ActiveSlots
      PROVE  table[s].key \in Keys /\ saved[table[s].key] = table[s].data
  <2>1. PICK k \in Keys : k = table[s].key
    BY ActiveEntry
  <2>2. PICK d \in Data : d = table[s].data
    BY ActiveEntry
  <2>3. Held(k, d)
    BY <1>1, <2>1, <2>2 DEF InTable
  <2> QED
    BY <1>2, <2>1, <2>2, <2>3 DEF DictInv, HeldIsSaved
<1>4. ASSUME NEW k \in Keys, saved[k] # Null
      PROVE  \E s \in ActiveSlots : table[s].key = k /\ table[s].data = saved[k]
  <2>1. Held(k, saved[k])
    BY <1>2, <1>4 DEF DictInv, SavedIsHeld
  <2> QED
    BY <1>1, <2>1 DEF InTable
<1> QED
  BY <1>3, <1>4

(* hashmapGet, hashmapContains and hashmapRemove find exactly that.        *)
LEMMA Lookup ==
  ASSUME IInv, DictInv, Idle, NEW k \in Keys
  PROVE  /\ saved[k] = Null => Found(k) = {} /\ Removable(k) = {}
         /\ saved[k] # Null =>
              \E s \in ActiveSlots : /\ table[s].key = k /\ table[s].data = saved[k]
                                     /\ Found(k) = {s} /\ Removable(k) = {s}
<1> DEFINE ends == FirstSlot(k, KeySlots(k) \cup NullSlots)
<1>1. /\ \A s \in ActiveSlots : table[s].key \in Keys /\ saved[table[s].key] = table[s].data
      /\ saved[k] # Null => \E s \in ActiveSlots : table[s].key = k /\ table[s].data = saved[k]
      /\ \A s \in ActiveSlots : table[s].data # Null
  BY IdleHeld, ActiveEntry DEF Idle
<1>2. size # 0 /\ size \in Nat /\ size >= 1 /\ size % 2 = 1
  BY DEF Idle, IInv, SizeOK, TableOK
<1>3. ActiveSlots # {} => count # 0
  <2>1. IsFiniteSet(ActiveSlots) /\ count = Cardinality(ActiveSlots)
    BY ActiveFinite DEF IInv, TableOK, CountIsActive, ActiveSlots
  <2> QED
    BY <2>1, FS_EmptySet
<1>4. ASSUME saved[k] = Null PROVE Found(k) = {} /\ Removable(k) = {}
  <2>1. \A s \in ActiveSlots : table[s].key # k
    BY <1>1, <1>4
  <2>2. KeySlots(k) \cap ActiveSlots = {}
    BY <2>1 DEF KeySlots
  <2>3. Found(k) = {}
    BY <2>2 DEF Found
  <2>4. ends \subseteq KeySlots(k) \cup NullSlots
    BY DEF FirstSlot
  <2>5. (ends \ NullSlots) \cap ActiveSlots = {}
    BY <2>2, <2>4
  <2> QED
    BY <2>3, <2>5 DEF Removable
<1>5. ASSUME saved[k] # Null
      PROVE  \E s \in ActiveSlots : /\ table[s].key = k /\ table[s].data = saved[k]
                                    /\ Found(k) = {s} /\ Removable(k) = {s}
  <2>1. PICK s \in ActiveSlots : table[s].key = k /\ table[s].data = saved[k]
    BY <1>1, <1>5
  <2>2. ends = {s}
    BY <1>2, <2>1, ReachedFound DEF DictInv
  <2>3. s \in KeySlots(k) /\ s \notin NullSlots
    BY <1>5, <2>1 DEF KeySlots, NullSlots, ActiveSlots
  <2> HIDE DEF ends
  <2>4. Found(k) = {s}
    <3>1. Found(k) = ends \cap KeySlots(k) \cap ActiveSlots
      BY <1>3, <2>1 DEF Found, ends
    <3> QED
      BY <2>1, <2>2, <2>3, <3>1
  <2>5. Removable(k) = {s}
    <3>1. Removable(k) = (ends \ NullSlots) \cap ActiveSlots
      BY DEF Removable, ends
    <3> QED
      BY <2>1, <2>2, <2>3, <3>1
  <2> QED
    BY <2>1, <2>4, <2>5
<1> QED
  BY <1>4, <1>5

(* A step between calls that leaves no call behind.                        *)
LEMMA IdleStep ==
  ASSUME calls' = << >>, Reached',
         \A k \in Keys, d \in Data : InTable(k, d)' => saved'[k] = d,
         \A k \in Keys : saved'[k] # Null => InTable(k, saved[k])'
  PROVE  DictInv'
<1>1. \A k, d : Held(k, d)' <=> InTable(k, d)'
  BY DEF Held, InCalls
<1>2. HeldIsSaved'
  BY <1>1 DEF HeldIsSaved
<1>3. SavedIsHeld'
  BY DEF SavedIsHeld, Held
<1> QED
  BY <1>2, <1>3 DEF DictInv, Bottom, Fresh

(* A table without elements, and a client who saved none.                  *)
LEMMA EmptyStep ==
  ASSUME calls' = << >>, ActiveSlots' = {}, saved' = [k \in Keys |-> Null]
  PROVE  DictInv'
BY IdleStep DEF Reached, InTable

LEMMA CreateDict ==
  ASSUME IInv, DictInv, NEW n \in StartSizes, hashmapCreate(n)
  PROVE  DictInv' /\ saved = [k \in Keys |-> Null]
<1>1. size = 0 /\ calls = << >>
  BY DEF hashmapCreate, IInv, SizeOK
<1>2. ActiveSlots = {}
  BY <1>1 DEF IInv, TableOK, ActiveSlots
<1>3. saved = [k \in Keys |-> Null]
  <2>1. \A k \in Keys : saved[k] = Null
    BY <1>1, <1>2, IdleHeld
  <2> QED
    BY <2>1 DEF IInv, TypeOK
<1>4. ActiveSlots' = {}
  BY DEF ActiveSlots, Cleared, hashmapCreate
<1> QED
  BY <1>1, <1>3, <1>4, EmptyStep DEF hashmapCreate

LEMMA DeleteDict == hashmapDelete => DictInv'
<1> SUFFICES ASSUME hashmapDelete PROVE DictInv'
  OBVIOUS
<1>1. ActiveSlots' = {}
  BY DEF ActiveSlots, Cleared, hashmapDelete
<1> QED
  BY <1>1, EmptyStep DEF hashmapDelete, Idle

(* The careful client: it saved nothing for the key, or nothing removed is *)
(* left in the table.                                                      *)
LEMMA InsertDict ==
  ASSUME IInv, DictInv, NEW k \in Keys, NEW d \in Data,
         saved[k] = Null \/ NoTombstones, hashmapInsert(k, d)
  PROVE  DictInv'
<1>1. /\ calls = << >> /\ calls' = <<InsertCall(k, d)>>
      /\ saved' = [saved EXCEPT ![k] = d] /\ UNCHANGED <<size, count, table>>
      /\ saved \in [Keys -> Data \cup {Null}]
  BY DEF hashmapInsert, Idle, IInv, TypeOK
<1>2. /\ calls'[1].op = "insert" /\ calls'[1].key = k /\ calls'[1].data = d
      /\ calls' # << >> /\ Len(calls') = 1
  BY <1>1 DEF InsertCall
<1>3. Reached'
  BY <1>1, SameProbe DEF DictInv, Reached, ActiveSlots
<1>4. Fresh'
  <2>1. CASE NoTombstones
    BY <1>1, <1>2, <2>1 DEF Fresh, NoTombstones
  <2>2. CASE saved[k] = Null
    <3>1. \A s \in ActiveSlots : table[s].key # k
      BY <1>1, <2>2, IdleHeld, ActiveEntry
    <3> QED
      BY <1>1, <1>2, <3>1 DEF Fresh, ActiveSlots
  <2> QED
    BY <2>1, <2>2
<1>5. Bottom'
  BY <1>1, <1>2 DEF Bottom
<1>6. \A j : Pending(j)' <=> j = k
  BY <1>2 DEF Pending
<1>7. ASSUME NEW j, NEW e
      PROVE  Held(j, e)' <=> \E s \in ActiveSlots : table[s].key = j /\ table[s].data = e
  <2>1. ~InCalls(j, e)'
    BY <1>2 DEF InCalls
  <2>2. InTable(j, e)' <=> \E s \in ActiveSlots : table[s].key = j /\ table[s].data = e
    BY <1>1 DEF InTable, ActiveSlots
  <2>3. Held(j, e)' <=> InTable(j, e)' \/ InCalls(j, e)'
    BY DEF Held
  <2> QED
    BY <2>1, <2>2, <2>3
<1>8. HeldIsSaved'
  <2>1. ASSUME NEW j \in Keys, NEW e \in Data, Held(j, e)', j # k PROVE saved'[j] = e
    <3>1. saved[j] = e
      BY <1>1, <1>7, <2>1, IdleHeld
    <3> QED
      BY <1>1, <2>1, <3>1
  <2> QED
    BY <1>6, <2>1 DEF HeldIsSaved
<1>9. SavedIsHeld'
  <2> SUFFICES ASSUME NEW j \in Keys, saved'[j] # Null, ~Pending(j)' PROVE Held(j, saved[j])'
    BY DEF SavedIsHeld
  <2>1. j # k /\ saved'[j] = saved[j]
    BY <1>1, <1>6
  <2>2. PICK e : e = saved'[j]
    OBVIOUS
  <2>3. Held(j, e)'
    BY <1>1, <1>7, <2>1, <2>2, IdleHeld
  <2> QED
    BY <2>2, <2>3 DEF Held, InTable, InCalls, CarriedBy
<1> QED
  BY <1>3, <1>4, <1>5, <1>8, <1>9 DEF DictInv

LEMMA RemoveDict ==
  ASSUME IInv, DictInv, NEW k \in Keys, hashmapRemove(k)
  PROVE  /\ DictInv'
         /\ answer' = D!Removed(k, saved[k])
<1>1. /\ Idle /\ calls = << >> /\ calls' = << >>
      /\ saved' = [saved EXCEPT ![k] = Null] /\ UNCHANGED size
      /\ saved \in [Keys -> Data \cup {Null}]
      /\ table \in [0..(size - 1) -> Entry]
  BY DEF hashmapRemove, Idle, IInv, TypeOK
<1>2. PICK R : R = Removable(k)
  OBVIOUS
<1>3. /\ saved[k] = Null => R = {}
      /\ saved[k] # Null =>
           \E s \in ActiveSlots : table[s].key = k /\ table[s].data = saved[k] /\ R = {s}
  BY <1>1, <1>2, Lookup
<1>4. PICK new : new = table'
  OBVIOUS
<1>5. /\ DOMAIN new = 0..(size - 1)
      /\ \A s \in 0..(size - 1) :
           /\ new[s].key = table[s].key /\ new[s].data = table[s].data
           /\ new[s].active <=> table[s].active /\ s \notin R
  <2>1. new = [s \in DOMAIN table |->
                 IF s \in R THEN [table[s] EXCEPT !.active = FALSE] ELSE table[s]]
    BY <1>2, <1>4 DEF hashmapRemove
  <2>2. \A s \in 0..(size - 1) : table[s] \in Entry
    BY <1>1
  <2> QED
    BY <1>1, <2>1, <2>2 DEF Entry
<1>6. \A s \in 0..(size - 1) : new[s].active <=> table[s].active /\ table[s].key # k
  <2>1. ASSUME NEW s \in R PROVE s \in ActiveSlots /\ table[s].key = k
    BY <1>3, <2>1
  <2>2. ASSUME NEW s \in ActiveSlots, table[s].key = k PROVE s \in R
    <3>1. saved[k] = table[s].data /\ table[s].data # Null
      BY <1>1, <2>2, IdleHeld, ActiveEntry
    <3>2. PICK t \in ActiveSlots : table[t].key = k /\ R = {t}
      BY <1>3, <3>1
    <3>3. s = t
      BY <1>1, <2>2, <3>2, ReachedOnce DEF DictInv, Idle
    <3> QED
      BY <3>2, <3>3
  <2> QED
    BY <1>1, <1>5, <2>1, <2>2 DEF ActiveSlots
<1>7. ActiveSlots' = {s \in 0..(size - 1) : new[s].active}
  BY <1>4, <1>5 DEF ActiveSlots
<1>8. ActiveSlots = {s \in 0..(size - 1) : table[s].active}
  BY <1>1 DEF ActiveSlots
<1>9. Reached'
  <2>1. ASSUME NEW s \in 0..(size - 1), new[s].active, NEW j \in Keys, new[s].key = j
        PROVE  \E i \in 0..(size - 1) :
                 /\ Probe(j, i) = s
                 /\ \A e \in 0..(i - 1) : \A p \in 0..(size - 1) :
                      Probe(j, e) = p => new[p].key # j /\ new[p].data # Null
    <3>1. s \in ActiveSlots /\ table[s].key = j
      BY <1>5, <1>8, <2>1
    <3>2. PICK i \in 0..(size - 1) :
            /\ Probe(j, i) = s
            /\ \A e \in 0..(i - 1) : \A p \in 0..(size - 1) :
                 Probe(j, e) = p => table[p].key # j /\ table[p].data # Null
      BY <3>1 DEF DictInv, Reached
    <3> QED
      BY <1>5, <3>2
  <2>2. \A j, i : Probe(j, i)' = Probe(j, i)
    BY <1>1, SameProbe
  <2> QED
    BY <1>1, <1>4, <1>7, <2>1, <2>2 DEF Reached
<1>10. ASSUME NEW j, NEW d
       PROVE  InTable(j, d)' <=> j # k /\ \E s \in ActiveSlots : table[s].key = j /\ table[s].data = d
  <2>1. InTable(j, d)' <=>
          \E s \in 0..(size - 1) : new[s].active /\ new[s].key = j /\ new[s].data = d
    BY <1>4, <1>7 DEF InTable
  <2> QED
    BY <1>5, <1>6, <1>8, <2>1
<1>11. \A j \in Keys, d \in Data : InTable(j, d)' => saved'[j] = d
  BY <1>1, <1>10, IdleHeld
<1>12. ASSUME NEW j \in Keys, saved'[j] # Null PROVE InTable(j, saved[j])'
  <2>1. j # k /\ saved'[j] = saved[j]
    BY <1>1, <1>12
  <2>2. PICK d : d = saved'[j]
    OBVIOUS
  <2>3. InTable(j, d)'
    BY <1>1, <1>10, <1>12, <2>1, <2>2, IdleHeld
  <2> QED
    BY <2>2, <2>3 DEF InTable
<1>13. DictInv'
  BY <1>1, <1>9, <1>11, <1>12, IdleStep
<1>14. answer' = D!Removed(k, saved[k])
  <2>1. answer' = D!Removed(k, IF R = {} THEN Null ELSE table[CHOOSE s \in R : TRUE].data)
    BY <1>2 DEF hashmapRemove
  <2>2. CASE saved[k] = Null
    BY <1>3, <2>1, <2>2
  <2>3. CASE saved[k] # Null
    <3>1. PICK s \in ActiveSlots : table[s].data = saved[k] /\ R = {s}
      BY <1>3, <2>3
    <3>2. (CHOOSE t \in R : TRUE) = s
      BY <3>1
    <3> QED
      BY <2>1, <3>1, <3>2
  <2> QED
    BY <2>2, <2>3
<1> QED
  BY <1>13, <1>14

LEMMA GetAnswer ==
  ASSUME IInv, DictInv, NEW k \in Keys, hashmapGet(k)
  PROVE  answer' = D!Element(k, saved[k])
<1>1. PICK F : F = Found(k)
  OBVIOUS
<1>2. answer' = D!Element(k, IF F = {} THEN Null ELSE table[CHOOSE s \in F : TRUE].data)
  BY <1>1 DEF hashmapGet
<1>3. CASE saved[k] = Null
  BY <1>1, <1>2, <1>3, Lookup DEF hashmapGet
<1>4. CASE saved[k] # Null
  <2>1. PICK s \in ActiveSlots : table[s].data = saved[k] /\ F = {s}
    BY <1>1, <1>4, Lookup DEF hashmapGet
  <2>2. (CHOOSE t \in F : TRUE) = s
    BY <2>1
  <2> QED
    BY <1>2, <2>1, <2>2
<1> QED
  BY <1>3, <1>4

(* hashmapCount: the keys of the active slots are those the client saved,  *)
(* each once.                                                              *)
LEMMA CountAnswer ==
  ASSUME IInv, DictInv, Idle
  PROVE  count = Cardinality(D!SavedKeys)
<1>1. IsFiniteSet(ActiveSlots) /\ count = Cardinality(ActiveSlots)
  BY ActiveFinite DEF IInv, TableOK, CountIsActive, ActiveSlots
<1> DEFINE f == [s \in ActiveSlots |-> table[s].key]
<1>2. /\ \A s \in ActiveSlots : /\ table[s].key \in Keys /\ table[s].data # Null
                                /\ saved[table[s].key] = table[s].data
      /\ \A k \in Keys : saved[k] # Null => \E s \in ActiveSlots : table[s].key = k
  BY IdleHeld, ActiveEntry DEF Idle
<1>3. f \in [ActiveSlots -> D!SavedKeys]
  BY <1>2 DEF D!SavedKeys
<1>4. \A s, p \in ActiveSlots : f[s] = f[p] => s = p
  BY <1>2, ReachedOnce DEF DictInv, Idle
<1>5. \A k \in D!SavedKeys : \E s \in ActiveSlots : f[s] = k
  BY <1>2 DEF D!SavedKeys
<1> HIDE DEF f
<1>6. f \in Bijection(ActiveSlots, D!SavedKeys)
  BY <1>3, <1>4, <1>5, Fun_IsBij
<1>7. ExistsBijection(ActiveSlots, D!SavedKeys)
  BY <1>6 DEF ExistsBijection
<1> QED
  BY <1>1, <1>7, FS_Bijection

(* The dictionary counts the elements with the same operator.              *)
LEMMA SameCardinality == \A S : D!Cardinality(S) = Cardinality(S)
BY Zenon DEF D!Cardinality, Cardinality

LEMMA InitDict == Init => DictInv
<1> SUFFICES ASSUME Init PROVE DictInv
  OBVIOUS
<1>1. ActiveSlots = {} /\ calls = << >>
  BY DEF Init, ActiveSlots, Cleared
<1>2. \A k, d : ~Held(k, d)
  BY <1>1 DEF Held, InTable, InCalls
<1> QED
  BY <1>1, <1>2 DEF DictInv, Reached, HeldIsSaved, SavedIsHeld, Bottom, Fresh, Init

(* A step that leaves the map and what the client saved alone.             *)
LEMMA QueryDict ==
  ASSUME DictInv, UNCHANGED <<mapVars, saved>>
  PROVE  DictInv'
<1>1. Reached'
  BY SameProbe DEF DictInv, Reached, ActiveSlots, mapVars
<1> QED
  BY <1>1 DEF DictInv, HeldIsSaved, SavedIsHeld, Held, InTable, InCalls, CarriedBy, Pending,
     Bottom, Fresh, NoTombstones, ActiveSlots, mapVars

LEMMA StepDict == IInv /\ DictInv /\ [Next]_vars => DictInv'
<1> SUFFICES ASSUME IInv, DictInv, [Next]_vars PROVE DictInv'
  OBVIOUS
<1>1. CASE Internal
  BY <1>1, CheckFullDict, PlaceElementDict, RehashLoopDict DEF Internal
<1>2. ASSUME NEW n \in StartSizes, hashmapCreate(n) PROVE DictInv'
  BY <1>2, CreateDict
<1>3. ASSUME NEW k \in Keys, hashmapRemove(k) PROVE DictInv'
  BY <1>3, RemoveDict
<1>4. ASSUME NEW k \in Keys, hashmapGet(k) \/ hashmapContains(k) PROVE DictInv'
  BY <1>4, QueryDict DEF hashmapGet, hashmapContains
<1>5. CASE hashmapCount
  BY <1>5, QueryDict DEF hashmapCount
<1>6. CASE hashmapDelete
  BY <1>6, DeleteDict
<1>7. ASSUME NEW k \in Keys, NEW d \in Data, saved[k] = Null \/ NoTombstones, hashmapInsert(k, d)
      PROVE  DictInv'
  BY <1>7, InsertDict
<1>8. CASE UNCHANGED vars
  BY <1>8, QueryDict DEF vars
<1> QED
  BY <1>1, <1>2, <1>3, <1>4, <1>5, <1>6, <1>7, <1>8 DEF Next, OtherCalls

-----------------------------------------------------------------------------
(* What a step of the map is to the dictionary.  The steps of a running    *)
(* insertion are invisible: its effect is that of the call.                *)
LEMMA StepRefines == IInv /\ DictInv /\ [Next]_vars => [D!Next]_D!dictVars
<1> SUFFICES ASSUME IInv, DictInv, [Next]_vars PROVE D!Next \/ UNCHANGED D!dictVars
  OBVIOUS
<1>1. CASE Internal
  BY <1>1 DEF Internal, CheckFull, PlaceElement, RehashLoop, D!dictVars
<1>2. ASSUME NEW n \in StartSizes, hashmapCreate(n) PROVE D!Next
  <2>1. D!Clear
    BY <1>2, CreateDict DEF hashmapCreate, D!Clear
  <2> QED
    BY <2>1 DEF D!Next
<1>3. ASSUME NEW k \in Keys, hashmapRemove(k) PROVE D!Next
  <2>1. D!Remove(k)
    BY <1>3, RemoveDict DEF hashmapRemove, D!Remove
  <2> QED
    BY <2>1 DEF D!Next
<1>4. ASSUME NEW k \in Keys, hashmapGet(k) PROVE D!Next
  <2>1. D!Get(k)
    BY <1>4, GetAnswer DEF hashmapGet, D!Get
  <2> QED
    BY <2>1 DEF D!Next
<1>5. ASSUME NEW k \in Keys, hashmapContains(k) PROVE D!Next
  <2>1. Found(k) # {} <=> saved[k] # Null
    BY <1>5, Lookup DEF hashmapContains
  <2>2. D!Contains(k)
    <3>1. answer' = D!Contained(k, Found(k) # {}) /\ UNCHANGED saved
      BY <1>5 DEF hashmapContains
    <3>2. (Found(k) # {}) = (saved[k] # Null)
      BY <2>1, Zenon
    <3> QED
      BY <3>1, <3>2, Zenon DEF D!Contains
  <2> QED
    BY <2>2 DEF D!Next
<1>6. CASE hashmapCount
  <2>1. count = D!Cardinality(D!SavedKeys)
    BY <1>6, CountAnswer, SameCardinality DEF hashmapCount
  <2>2. D!Count
    BY <1>6, <2>1 DEF hashmapCount, D!Count
  <2> QED
    BY <2>2 DEF D!Next
<1>7. CASE hashmapDelete
  BY <1>7 DEF hashmapDelete, D!Next, D!Clear
<1>8. ASSUME NEW k \in Keys, NEW d \in Data, hashmapInsert(k, d) PROVE D!Next
  <2>1. D!Insert(k, d)
    BY <1>8 DEF hashmapInsert, D!Insert
  <2> QED
    BY <2>1 DEF D!Next
<1>9. CASE UNCHANGED vars
  BY <1>9 DEF vars, D!dictVars
<1> QED
  BY <1>1, <1>2, <1>3, <1>4, <1>5, <1>6, <1>7, <1>8, <1>9 DEF Next, OtherCalls

LEMMA DictInvariance == Spec => [](IInv /\ DictInv)
<1>1. Init => IInv /\ DictInv
  BY InitInv, InitDict
<1>2. IInv /\ DictInv /\ [Next]_vars => (IInv /\ DictInv)'
  <2>1. [Next]_vars => [NextAny]_vars
    BY DEF Next, NextAny
  <2> QED
    BY <2>1, StepInv, StepDict
<1> QED
  BY <1>1, <1>2, PTL DEF Spec

(* The hash map implements the dictionary of HashMap.h for every client    *)
(* that inserts over an element only while nothing removed is left: the    *)
(* probes go past removed slots, and a rehash in the middle of an          *)
(* insertion, with the rehashes it nests, neither loses nor changes an     *)
(* element.                                                                *)
THEOREM ImplementsDictionary == Spec => IsDictionary
<1>1. Init => D!Init
  BY DEF Init, D!Init
<1>2. IInv /\ DictInv /\ [Next]_vars => [D!Next]_D!dictVars
  BY StepRefines
<1> QED
  BY <1>1, <1>2, DictInvariance, PTL DEF Spec, IsDictionary, D!Spec

(* So for that client hashmapGet returns the element saved last, which it  *)
(* does not for every client.                                              *)
THEOREM GetCorrect == Spec => GetReturnsElement
<1>1. IInv /\ DictInv /\ [Next]_vars =>
        [\A k \in Keys : hashmapGet(k) => answer' = D!Element(k, saved[k])]_vars
  BY GetAnswer
<1> QED
  BY <1>1, DictInvariance, PTL DEF Spec, GetReturnsElement

=============================================================================
